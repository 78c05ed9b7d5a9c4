----------------------------- MODULE MCDesktop ------------------------------
(* Sessions of Desktop for TLC.  Page a is longer than the window, with a link
   at its end to d; d has a link to b; a request for c is redirected to b. *)
EXTENDS Desktop, FiniteSets

Pages == [u \in {"a", "b", "c", "d"} |->
            CASE u = "a" -> <<"PAGE", "BODY", "LINK", "PAGEEND">>
              [] u = "d" -> <<"PAGE", "LINK", "PAGEEND">>
              [] OTHER -> <<"PAGE", "PAGEEND">>]
Redirects == [u \in {"a", "b", "c", "d"} |-> IF u = "c" THEN {"b"} ELSE {u}]
LinksTo == [u \in {"a", "b", "c", "d"} |-> IF u = "a" THEN "d" ELSE "b"]

\* Letters, digits and words; a word stands for its characters.
Letters == [a |-> "A", b |-> "B"]
Others ==
  LET words == {"help", "theme", "save", "clear", "web", "ls", "run", "chrome", "login", "cc",
                "download", "shutdown", "oops"}
      signs == {<<"2", "@">>, <<"3", "#">>, <<"4", "$">>, <<"6", "^">>, <<"7", "&">>, <<"8", "*">>,
                <<"9", "(">>, <<"-", "_">>, <<"=", "+">>, <<"/", "?">>}
  IN  [i \in words \cup {s[1] : s \in signs} |->
         IF i \in words THEN i ELSE (CHOOSE s \in signs : s[1] = i)[2]]
Normal == [c \in DOMAIN Letters \cup DOMAIN Others |-> c]
Shifted == [c \in DOMAIN Normal |-> IF c \in DOMAIN Letters THEN Letters[c] ELSE Others[c]]
OtherCase == [c \in DOMAIN Letters \cup {"A", "B"} |->
                IF c \in DOMAIN Letters THEN Letters[c] ELSE IF c = "A" THEN "a" ELSE "b"]

Deed(does, spot, code) == [does |-> does, spot |-> spot, code |-> code]
Downs(spots) == {Deed("down", s, "None") : s \in spots}
Ups(spots) == {Deed("up", s, "None") : s \in spots}
Overflow == {Deed("overflow", <<9, 9>>, "None")}
Strikes(codes) == {Deed("strike", <<0, 0>>, c) : c \in codes}
Hold(code) == {Deed("hold", <<0, 0>>, code)}

\* The spots: icons of the taskbar, the menu and controls of the windows.
Task(i) == <<208 + 18 + 54 * i + 20, 720>>
StartButton == <<240, 720>>
Pin(i) == <<232 + 28 + ((i - 1) % 3) * 170 + 5, 64 + 124 + ((i - 1) \div 3) * 112 + 5>>
Aside == <<500, 400>>
Corner == <<1000, 30>>

Disk == [ready |-> TRUE, note |-> NoNote, source |-> <<>>, program |-> <<"old">>, left |-> FALSE]
NoDisk == [Disk EXCEPT !.ready = FALSE]
Base == [services |-> {"GET", "PROMPT", "DOWNLOAD"}, typed |-> {}, segments |-> {20},
         requests |-> 20, resent |-> 0, receive |-> 40, wire |-> FALSE, points |-> {}, disk |-> Disk,
         failing |-> FALSE, looks |-> TRUE, split |-> FALSE, rest |-> <<>>, minutes |-> 0, online |-> FALSE,
         plan |-> <<>>]

WireSession(services, typed, segments, requests_, resent_) ==
  [Base EXCEPT !.services = services, !.typed = typed, !.segments = segments,
               !.requests = requests_, !.resent = resent_, !.wire = TRUE]
WireSessions == {WireSession({"GET"}, {}, {2, 5}, 1, 1),
                 WireSession({"GET"}, {}, {4}, 2, 2),
                 WireSession({"GET"}, {"b", "c"}, {20}, 5, 0),
                 WireSession({"GET", "PROMPT", "DOWNLOAD"}, {}, {4}, 3, 0),
                 [WireSession({"GET"}, {}, {2, 3}, 2, 0) EXCEPT !.receive = 7]}

\* The points of a plan: where the hand goes, and pixels around them.
Around(spots) ==
  UNION {{s, <<s[1] + 1, s[2] + 3>>, <<s[1] + 20, s[2]>>} : s \in spots}

\* A user with this plan, who goes to these spots.
Plan(spots, plan) == [Base EXCEPT !.points = Around(spots), !.plan = plan]

\* Calculator: the square of 32768, doubled, is the least int; it is divided,
\* and digits of it are taken away and added.
Calculator ==
  Plan({Task(5)},
       <<Downs({Task(5)}), Strikes({"3"}), Strikes({"2"}), Strikes({"7"}), Strikes({"6"}),
         Strikes({"8", "6"}), Hold("LeftShift"), Strikes({"8"}), Strikes({"Enter"}),
         Strikes({"=", "8"}), Strikes({"Enter", "="}), Hold("LeftShift"),
         Strikes({"/", "-"})>> \o
       [i \in 1..9 |-> Strikes({"Backspace", "Enter"})] \o
       <<Strikes({"9", "Backspace", "/"}), Strikes({"Backspace", "9"}),
         Strikes({"Enter", "Backspace"})>>)

\* An application is opened from the taskbar, its window perhaps dragged, and one
\* of the corners of its controls pressed.
Frame(i) ==
  LET width == AppWidths[i]
      height == AppHeights[i]
  IN  [x |-> (Width - width) \div 2, y |-> (Height - 64 - height) \div 2,
       width |-> width, height |-> height]
Drawn(i) ==
  LET w == Frame(i)
      h == w.height - 43
  IN  draw_title_bar(w) \o
      CASE Apps[i] = "notepad" -> draw_notepad(w.x, w.y + 43, w.width, h)
        [] Apps[i] = "calculator" -> draw_calculator(w.x, w.y + 43, w.width, h)
        [] Apps[i] = "settings" -> draw_settings(w.x, w.y + 43, w.width, "0")
        [] Apps[i] = "compiler" -> draw_compiler(w.x, w.y + 43, w.width)
        [] Apps[i] = "ai" -> draw_ai(w.x, w.y + 43, w.width, h)
        [] OTHER -> <<Patch(w.x + 16, w.y + 55, 38, 40, NoHit),
                      Patch(w.x + 100, w.y + 55, 38, 40, NoHit),
                      Patch(w.x + 146, w.y + 55, w.width - 234, 40, NoHit),
                      Patch(w.x + w.width - 186, w.y + w.height - 104, 136, 38, NoHit)>>
CornersOf(rect) == {<<rect[1], rect[2]>>, <<rect[1] + rect[3] - 1, rect[2] + rect[4] - 1>>}
Controls(i, dx, dy) ==
  LET corners == UNION {CornersOf(Drawn(i)[k].rect) : k \in DOMAIN Drawn(i)}
      spots   == {<<c[1] + dx, c[2] + dy>> : c \in corners}
      title   == <<Frame(i).x + 100, Frame(i).y + 5>>
      there   == <<title[1] + dx, title[2] + dy>>
  IN  [Plan({title, Task(i)}, <<Downs({Task(i)}), Ups({title}), Downs({title}), Downs({there}),
                                Ups({there}), Downs(spots), Ups({title})>>)
         EXCEPT !.points = @ \cup spots \cup {there}]
ControlSessions == {Controls(i, 0, 0) : i \in 2..8} \cup {Controls(i, 40, -20) : i \in {2, 5, 6}}

Menu ==
  LET spots == {Pin(2), Pin(5), Pin(9), <<500, 250>>, <<725, 650>>, Task(2), Aside, Corner}
  IN  [Plan(spots \cup {StartButton},
           <<Downs({StartButton}), Ups({Aside, StartButton}),
             Downs(spots) \cup Downs({StartButton}), Ups({Corner}), Downs({Pin(2), Task(2)}) \cup
             Strikes({"Escape"})>>)
         EXCEPT !.minutes = 1]
Icons ==
  LET spots == {<<60, 60>>, <<200, 60>>, <<60, 150>>, <<60, 250>>, <<60, 350>>, <<60, 450>>,
                <<300, 60>>}
  IN  Plan(spots \cup {<<200, 130>>}, <<Strikes({"Escape"}), Downs(spots), Ups({<<200, 130>>}),
                         Downs({<<200, 130>>, <<60, 60>>})>>)

\* The window is dragged to the edges, faster than the screen is drawn.
Drag ==
  LET title == <<300, 130>>
      edges == {<<0, 400>>, <<1023, 767>>, <<500, 0>>}
  IN  [Plan(edges \cup {title}, <<Downs({title}), Downs(edges), Downs(edges) \cup Ups(edges),
                                  Ups({title}) \cup Strikes({"Escape"})>>)
         EXCEPT !.looks = FALSE]

\* A note is edited and left in every way, with writes that may fail.
Note ==
  LET leave == {<<920, 60>>, <<880, 60>>, Task(3), Task(4), <<900, 100>>}
  IN  Plan(leave, <<Downs({Task(3)}), Ups({Task(3)}), Strikes({"a", "Backspace"}),
                    Downs(leave) \cup Strikes({"Escape"}), Ups({Task(3)}),
                    Downs({Task(3), Task(4), <<900, 100>>}) \cup Strikes({"b", "Enter"}),
                    Strikes({"save", "b"}), Strikes({"Enter", "Tab"})>>)
Notes == {[Note EXCEPT !.failing = TRUE], [Note EXCEPT !.disk = NoDisk],
          [Note EXCEPT !.disk.note = <<"a", "b">>]}

\* A page is read to its end, and its link and the next page's are followed.
Reading ==
  LET link_a == <<300, 515>>
      link_d == <<300, 310>>
  IN  [Plan({Task(2), link_a, link_d, Task(4)},
            <<Downs({Task(2)}), Strikes({"Enter"}), Strikes({"End", "Down"}), Ups({link_a}),
              Downs({link_a}), Ups({link_d}), Downs({link_d, Task(4)}), Strikes({"Left"}),
              Strikes({"Right"})>>)
         EXCEPT !.online = TRUE]

\* Bytes of both devices interleave; the first packet has lost its start, and
\* what is left of it may or may not pass for a first byte.  Movements beyond an
\* int8_t and overflows with the button, too.
Near == <<512 + 60, 384 - 5>>
Split(rest) ==
  [Plan({Near}, <<Hold("LeftShift") \cup Overflow, Ups({Near}), Strikes({"Home"})>>)
     EXCEPT !.looks = FALSE, !.split = TRUE, !.rest = rest]
Slipped(rest) ==
  [Plan({Near}, <<Overflow \cup Ups({Near, <<512, 384>>}), Downs({<<512, 384>>, Near}),
                  Downs({Near}) \cup Ups({Near}) \cup Overflow, Ups({Near, <<520, 384>>})>>)
     EXCEPT !.looks = FALSE, !.rest = rest]
Fast ==
  [Plan({Near}, <<Downs({Near}), {Deed("fast", <<700, 384>>, "None")} \cup Overflow,
                  Ups({Near})>>)
     EXCEPT !.looks = FALSE]
Mice == {Split(<<3, 4>>), Split(<<12>>), Fast} \cup
        {Slipped(rest) : rest \in {<<12>>, <<4, 9>>, <<13, 4>>, <<255, 255>>, <<>>}}
Shifts ==
  [Plan({Aside}, <<Hold("CapsLock") \cup Hold("LeftShift"), Hold("LeftShift") \cup Hold("RightShift"),
                   Strikes({"a", "4", "Down"}), Hold("CapsLock") \cup Hold("LeftShift"),
                   Strikes({"a", "4"})>>)
     EXCEPT !.looks = FALSE, !.split = TRUE]

\* Commands of the terminal.
Terminal ==
  Plan({Task(4)}, <<Downs({Task(4)}),
    Strikes({"help", "theme", "ls", "run", "chrome", "login", "cc", "clear", "web", "download",
             "shutdown", "oops", "Enter"}),
    Strikes({"b", "Enter", "Backspace"}), Strikes({"Enter"}), Strikes({"save"}), Strikes({"Enter"})>>)

\* C Studio and the assistant.
Programs ==
  Plan({Task(7), Task(8), <<850, 120>>, <<860, 600>>},
       <<Downs({Task(7)}), Strikes({"a", "Tab"}), Ups({<<850, 120>>}), Downs({<<850, 120>>}),
         Ups({Task(8)}), Downs({Task(8)}), Strikes({"a", "Enter"}), Strikes({"Enter", "Backspace"}),
         Ups({<<860, 600>>}), Downs({<<860, 600>>})>>)

\* A download from the terminal and a question to the assistant.
Services ==
  {[Plan({Task(4)}, <<Downs({Task(4)}), Strikes({"download"}), Strikes({"b"}), Strikes({"Enter"})>>)
      EXCEPT !.online = TRUE],
   [Plan({Task(8)}, <<Downs({Task(8)}), Strikes({"a"}), Strikes({"Enter"})>>)
      EXCEPT !.online = TRUE]}

\* The page, the answer or the end of the program comes while another window, the
\* menu or nothing is in front of the one that waits for it.
Leaving(spot) ==
  <<Ups({spot}), Downs({Task(1), StartButton, spot}) \cup Strikes({"Escape"}),
    Ups({spot}), Downs({spot})>>
Behind ==
  {[Plan({Task(1), Task(2), StartButton, Aside},
         <<Downs({Task(2)}), Strikes({"b"}), Strikes({"Enter"})>> \o Leaving(Task(2)))
      EXCEPT !.online = TRUE],
   [Plan({Task(1), Task(8), StartButton, Aside},
         <<Downs({Task(8)}), Strikes({"a"}), Strikes({"Enter"})>> \o Leaving(Task(8)))
      EXCEPT !.online = TRUE],
   Plan({Task(1), Task(7), StartButton, <<850, 120>>, Aside},
        <<Downs({Task(7)}), Ups({<<850, 120>>}), Downs({<<850, 120>>})>> \o Leaving(Task(7)))}

AllSessions ==
  WireSessions \cup ControlSessions \cup Notes \cup Services \cup Behind \cup Mice \cup
  {Calculator, Menu, Icons, Drag, Reading, Shifts, Terminal, Programs}
=============================================================================
