------------------------------ MODULE Desktop -------------------------------
(***************************************************************************)
(* ui/ui.c over drivers/input.c and the frame buffers of graphics.c: the   *)
(* desktop, its one window, the start menu, the taskbar and the            *)
(* applications, composed with the browser's protocol (Browser) and the    *)
(* input devices (Input).                                                  *)
(*                                                                         *)
(* kernel_main handles all pending input, then draws if something is       *)
(* marked dirty, then polls the network and the services; pc is the place  *)
(* in that loop.  The devices, the host and user programs act at any time. *)
(*                                                                         *)
(* A pixel keeps the surface it belongs to and the control drawn there;    *)
(* colours, blending and glyphs are left out, and a text is as wide as its *)
(* window.  The three buffers are kept at the pixels of Points.  The       *)
(* geometry is the code's own, once as drawn (draw_...) and once as tested *)
(* by the click handlers (click_...).  A character may stand for a word.   *)
(***************************************************************************)
EXTENDS Browser, Input

CONSTANTS
  NoteSize,      \* sizeof note_text - 1, in characters
  TerminalRows,  \* TERMINAL_ROWS
  CommandSize,   \* TERMINAL_COLUMNS - 1, in words
  BodyRows       \* rows a BODY line of a page wraps into

VARIABLES
  pc,            \* where kernel_main is: "input", "render", "services", "connect"
                 \* or "off"; "wire" if only the browser's protocol is of interest
  desk,          \* the static variables of ui.c and note.txt on the disk
  screen,        \* frame, base_frame and the video memory, and the view drawn
  acts,          \* counts what the user did
  pressed        \* history: the last press, and what the screen showed there

desktop == <<pc, desk, screen, acts, pressed>>
all == <<vars, inputs, desktop>>
Points == session.points      \* the pixels whose contents are kept

Apps == <<"explorer", "browser", "notepad", "terminal", "calculator", "settings",
          "compiler", "ai", "about">>
AppIndex(app) == CHOOSE i \in DOMAIN Apps : Apps[i] = app
Between(v, low, high) == IF v < low THEN low ELSE IF v > high THEN high ELSE v

\* contains: a rectangle is <<x, y, width, height>>.
contains(r, p) ==
  /\ p[1] >= r[1] /\ p[2] >= r[2]
  /\ p[1] < r[1] + r[3] /\ p[2] < r[2] + r[4]

Shows(surface, control) == [surface |-> surface, control |-> control]
Plain(surface) == Shows(surface, <<"none">>)
Patch(x, y, width, height, shows) == [rect |-> <<x, y, width, height>>, shows |-> shows]
Window(control) == Shows("window", control)

-----------------------------------------------------------------------------
(* What is drawn where *)

IconPlaces == <<<<"explorer", 22, 28>>, <<"browser", 150, 28>>, <<"notepad", 22, 124>>,
                <<"terminal", 22, 220>>, <<"compiler", 22, 316>>, <<"ai", 22, 412>>>>
draw_desktop ==
  [i \in DOMAIN IconPlaces |->
     Patch(IconPlaces[i][2], IconPlaces[i][3], 112, 82,
           Shows("desktop", <<"icon", IconPlaces[i][1]>>))]

draw_taskbar ==
  LET x == (Width - 608) \div 2
      y == Height - 58 - 8
  IN  <<Patch(x, y, 608, 58, Plain("taskbar")),
        Patch(x + 18 + 7, y + 13, 28, 28, Shows("taskbar", <<"start">>))>> \o
      [i \in 1..8 |-> Patch(x + 18 + 54 * i + 7, y + 12, 30, 30,
                            Shows("taskbar", <<"task", Apps[i]>>))]

start_x == (Width - 560) \div 2
start_y == Height - 58 - 8 - 18 - 620

draw_start_menu(d) ==
  IF ~d.start_open THEN <<>>
  ELSE <<Patch(start_x, start_y, 560, 620, Plain("menu"))>> \o
       [i \in 1..9 |-> Patch(start_x + 28 + ((i - 1) % 3) * 170,
                             start_y + 124 + ((i - 1) \div 3) * 112, 150, 94,
                             Shows("menu", <<"pin", Apps[i]>>))] \o
       <<Patch(start_x + 560 - 80, start_y + 620 - 40, 40, 12, Shows("menu", <<"power">>))>>

draw_title_bar(w) ==
  LET close_x == w.x + w.width - 46
  IN  <<Patch(close_x - 46, w.y + 7, 40, 30, Window(<<"minimize">>)),
        Patch(close_x, w.y + 7, 40, 30, Window(<<"close">>))>>

draw_notepad(x, y, width, height) ==
  <<Patch(x + width - 82, y + 6, 68, 24, Window(<<"save">>))>>

CalcKeys == <<"C", "/", "*", "-", "7", "8", "9", "+", "4", "5", "6", "=", "1", "2", "3", "0">>
draw_calculator(x, y, width, height) ==
  LET key_width  == (width - 36 - 9 * 3) \div 4
      key_height == (height - 132 - 9 * 3) \div 4
  IN  [i \in 1..16 |-> Patch(x + 18 + ((i - 1) % 4) * (key_width + 9),
                             y + 114 + ((i - 1) \div 4) * (key_height + 9),
                             key_width, key_height, Window(<<"key", CalcKeys[i]>>))]

Accents == <<"0", "1", "2", "3", "4">>
\* The circle of the chosen accent has radius 20, the others 16.
draw_settings(x, y, width, chosen) ==
  <<Patch(x + 24, y + 90, width - 48, 74, Window(<<"dark">>))>> \o
  [i \in 1..5 |-> LET r == IF Accents[i] = chosen THEN 20 ELSE 16
                  IN  Patch(x + 52 + (i - 1) * 66 - r, y + 253 - r, 2 * r + 1, 2 * r + 1,
                            Window(<<"accent", Accents[i]>>))]

draw_compiler(x, y, width) ==
  <<Patch(x + width - 176, y + 15, 152, 42, Window(<<"build">>))>>

draw_ai(x, y, width, height) ==
  <<Patch(x + width - 98, y + height - 72, 74, 48, Window(<<"send">>))>>

\* The rows of the page's text and of its links; those of the UI's own texts
\* count as one.
LineStep == 12 + 5
TextRows(page) ==
  IF page.kind # "page" THEN 1
  ELSE BodyRows * Len(SelectSeq(page.lines, LAMBDA text : text[1].verb = "BODY"))

\* draw_browser's layout: where the scroll may end, and the link rows it
\* leaves for the click handler.
Layout(w) ==
  LET y       == w.y + 43 + 84 + 106                 \* content_top
      visible == (w.height - 43 - 108 - 76 - 16 - 106) \div LineStep
      body    == TextRows(ui.page)
      links   == Links(ui.page)
      total   == body + (IF links = <<>> THEN 0 ELSE 2) + Len(links)
      last    == IF total > visible THEN total - visible ELSE 0
      scroll  == Smaller(ui.scroll, last)
      Row(k)  == body + 2 + (k - 1) - scroll
      seen    == SelectSeq([k \in DOMAIN links |-> k],
                           LAMBDA k : Row(k) >= 0 /\ Row(k) < visible)
  IN  [max_scroll |-> last, scroll |-> scroll, x |-> w.x + 22 + 28, width |-> w.width - 44 - 74,
       rows |-> [i \in DOMAIN seen |-> [y |-> y + Row(seen[i]) * LineStep, target |-> seen[i]]]]

draw_browser(x, y, width, height, layout) ==
  <<Patch(x + 16, y + 12, 38, 40, Window(<<"back">>)),
    Patch(x + 58, y + 12, 38, 40, Window(<<"forward">>)),
    Patch(x + 100, y + 12, 38, 40, Window(<<"go">>)),
    Patch(x + 146, y + 12, (x + width - 78) - (x + 146) - 10, 40, Window(<<"address">>)),
    Patch(x + width - 78, y + 12, 54, 40, Window(<<"go">>)),
    Patch(x + width - 22 - 164, y + height - 24 - 76 - 4, 136, 38, Window(<<"chrome">>))>> \o
  [i \in DOMAIN layout.rows |->
     Patch(layout.x, layout.rows[i].y - 2, layout.width, LineStep,
           Window(<<"link", Links(ui.page)[layout.rows[i].target]>>))]

\* The applications that paint all of their part of the window.
Fills == {"browser", "notepad", "terminal", "compiler", "ai"}
Region(w) == <<w.x, w.y + 43, w.width, w.height - 43>>

draw_window_content(d) ==
  LET w == d.window
      y == w.y + 43
      h == w.height - 43
  IN  (IF w.app \in Fills THEN <<Patch(w.x, y, w.width, h, Plain("window"))>> ELSE <<>>) \o
      CASE w.app = "browser" -> draw_browser(w.x, y, w.width, h, Layout(w))
        [] w.app = "notepad" -> draw_notepad(w.x, y, w.width, h)
        [] w.app = "calculator" -> draw_calculator(w.x, y, w.width, h)
        [] w.app = "settings" -> draw_settings(w.x, y, w.width, d.accent)
        [] w.app = "compiler" -> draw_compiler(w.x, y, w.width)
        [] w.app = "ai" -> draw_ai(w.x, y, w.width, h)
        [] OTHER -> <<>>

draw_window(d) ==
  LET w == d.window
  IN  IF ~w.visible \/ w.minimized THEN <<>>
      ELSE <<Patch(w.x, w.y, w.width, w.height, Plain("window"))>> \o
           draw_title_bar(w) \o draw_window_content(d)

\* What the layers leave at a pixel that showed under.
Painted(layers, p, under) ==
  LET over == {i \in DOMAIN layers : contains(layers[i].rect, p)}
  IN  IF over = {} THEN under
      ELSE layers[CHOOSE i \in over : \A j \in over : j <= i].shows

Scene(d) ==
  LET layers == draw_desktop \o draw_window(d) \o draw_start_menu(d) \o draw_taskbar
  IN  [p \in Points |-> Painted(layers, p, Plain("desktop"))]

\* The data the window's content shows: shows is what a handler marks when it
\* changes it; unmarked is drawn too, but a change of it marks nothing.  draw_ai
\* and draw_browser show the connection, which network.c changes, and
\* draw_explorer the directory, in which ui_poll_services writes files and
\* programs theirs; without NovaFS a save that fails does not mark the window.
View(d) ==
  LET Data(shows, unmarked) == [app |-> d.window.app, shows |-> shows, unmarked |-> unmarked]
  IN  CASE d.window.app = "explorer" ->
             IF d.disk.ready THEN Data(<<d.disk.note, d.disk.source, d.disk.program>>,
                                       <<ui.files, d.disk.left>>)
             ELSE Data(<<"unavailable">>, <<>>)
        [] d.window.app = "browser" ->
             Data(<<ui.url, ui.page, ui.browser_status, ui.loading, ui.selected, ui.scroll,
                    ui.index > 0, ui.index + 1 < Len(ui.history),
                    ui.download_status, ui.download_active>>,
                  <<tcp.state = "ESTABLISHED">>)
        [] d.window.app = "notepad" ->
             IF d.disk.ready THEN Data(<<d.note, d.note_dirty, d.note_failed>>, <<>>)
             ELSE Data(<<d.note, d.note_dirty>>, <<d.note_failed>>)
        [] d.window.app = "terminal" -> Data(<<d.lines, d.command>>, <<>>)
        [] d.window.app = "calculator" ->
             Data(IF d.calc.error THEN <<"error">> ELSE <<d.calc.value>>, <<>>)
        [] d.window.app = "settings" -> Data(<<d.dark, d.accent>>, <<>>)
        [] d.window.app = "compiler" -> Data(<<d.source, d.waiting, d.diagnostic>>, <<>>)
        [] d.window.app = "ai" ->
             Data(<<d.prompt, ui.ai_response, ui.ai_waiting>>,
                  <<tcp.state = "ESTABLISHED", tcp.status>>)
        [] OTHER -> Data(<<>>, <<>>)

\* The parts every full redraw shows besides.
Surroundings(d) == <<d.dark, d.accent, d.minute>>

-----------------------------------------------------------------------------
(* Drawing: ui_render and the buffers of graphics.c *)

\* draw_cursor: 20 rows, at most 7 pixels wide.
CursorCovers(at, p) ==
  LET row    == p[2] - at[2]
      column == p[1] - at[1]
      width  == IF row < 14 THEN row \div 2 + 1 ELSE (20 - row) \div 2 + 2
  IN  row \in 0..19 /\ column >= 0 /\ column < width

Cursor == Plain("cursor")
draw_cursor(buffer, at) == [p \in Points |-> IF CursorCovers(at, p) THEN Cursor ELSE buffer[p]]

\* gfx_save_base_rect, gfx_restore_base_rect and gfx_present_rect.
Copied(to, from, rect) == [p \in Points |-> IF contains(rect, p) THEN from[p] ELSE to[p]]

\* The box around the pointer's old and new place.
CursorBox(d) ==
  LET Low(i)  == Smaller(d.rendered[i], d.mouse[i])
      High(i) == IF d.rendered[i] > d.mouse[i] THEN d.rendered[i] ELSE d.mouse[i]
  IN  <<Low(1) - 1, Low(2) - 1, High(1) + 12 - Low(1) + 2, High(2) + 22 - Low(2) + 2>>
OldCursor(d) == <<d.rendered[1], d.rendered[2], 12, 22>>

\* Drawing the browser clamps its scroll and renews its link rows.
Laid(d) ==
  IF d.window.app # "browser" THEN d
  ELSE LET layout == Layout(d.window)
       IN  [d EXCEPT !.max_scroll = layout.max_scroll, !.rows = layout.rows,
                     !.row_x = layout.x, !.row_width = layout.width]
Scrolled(d) ==
  IF d.window.app = "browser" THEN [ui EXCEPT !.scroll = Layout(d.window).scroll] ELSE ui

needs_render(d) == d.dirty \/ d.window_dirty \/ d.cursor_dirty
Rendered(d) == [d EXCEPT !.dirty = FALSE, !.window_dirty = FALSE, !.cursor_dirty = FALSE,
                         !.rendered = d.mouse]

\* Only the content of the window is drawn again, over whatever is there.
render_window ==
  LET restored == Copied(screen.frame, screen.base, OldCursor(desk))
      layers   == draw_window_content(desk)
      content  == [p \in Points |-> Painted(layers, p, restored[p])]
      frame    == draw_cursor(content, desk.mouse)
      region   == Region(desk.window)
  IN  /\ ~desk.dirty /\ desk.window_dirty
      /\ screen' = [screen EXCEPT
           !.base = Copied(@, content, region),
           !.frame = frame,
           !.video = Copied(Copied(@, frame, region), frame, CursorBox(desk)),
           !.view = View(desk)]
      /\ desk' = Rendered(Laid(desk))
      /\ ui' = Scrolled(desk)

\* Mutant: the pixels under the old pointer are not put back.
render_cursor_Trail ==
  LET frame == draw_cursor(screen.frame, desk.mouse)
  IN  /\ ~desk.dirty /\ ~desk.window_dirty /\ desk.cursor_dirty
      /\ screen' = [screen EXCEPT !.frame = frame,
                                  !.video = Copied(@, frame, CursorBox(desk))]
      /\ desk' = Rendered(desk)
      /\ UNCHANGED ui

render_cursor ==
  LET frame == draw_cursor(Copied(screen.frame, screen.base, OldCursor(desk)), desk.mouse)
  IN  /\ ~desk.dirty /\ ~desk.window_dirty /\ desk.cursor_dirty
      /\ screen' = [screen EXCEPT !.frame = frame,
                                  !.video = Copied(@, frame, CursorBox(desk))]
      /\ desk' = Rendered(desk)
      /\ UNCHANGED ui

render_all ==
  LET base  == Scene(desk)
      frame == draw_cursor(base, desk.mouse)
      drawn == desk.window.visible /\ ~desk.window.minimized
  IN  /\ desk.dirty
      /\ screen' = [base |-> base, frame |-> frame, video |-> frame, view |-> View(desk),
                    around |-> Surroundings(desk)]
      /\ desk' = Rendered(IF drawn THEN Laid(desk) ELSE desk)
      /\ ui' = IF drawn THEN Scrolled(desk) ELSE ui

ui_render ==
  /\ pc = "render" /\ pc' = "services"
  /\ \/ render_window \/ render_cursor \/ render_all
     \/ ~needs_render(desk) /\ UNCHANGED <<desk, screen, ui>>
  /\ UNCHANGED <<boot, tcp, host, asked, inputs, acts, pressed>>

-----------------------------------------------------------------------------
(* Where a click lands *)

NoHit == Plain("none")
Unpressed == [hit |-> NoHit, shown |-> NoHit, fresh |-> FALSE, over |-> FALSE]

click_taskbar(p) ==
  LET x == (Width - 608) \div 2
      y == Height - 66
      Icon(i) == contains(<<x + 18 + 54 * i, y, 48, 58>>, p)
  IN  IF ~contains(<<x, y, 608, 58>>, p) THEN NoHit
      ELSE IF contains(<<x + 18, y, 48, 58>>, p) THEN Shows("taskbar", <<"start">>)
      ELSE IF \E i \in 1..8 : Icon(i)
      THEN Shows("taskbar", <<"task", Apps[CHOOSE i \in 1..8 : Icon(i)]>>)
      ELSE Plain("taskbar")

InMenu(p) == contains(<<start_x, start_y, 560, 620>>, p)
click_start(d, p) ==
  LET Card(i) == contains(<<start_x + 28 + ((i - 1) % 3) * 170,
                            start_y + 124 + ((i - 1) \div 3) * 112, 150, 94>>, p)
  IN  IF ~d.start_open \/ ~InMenu(p) THEN NoHit
      ELSE IF \E i \in 1..9 : Card(i)
      THEN Shows("menu", <<"pin", Apps[CHOOSE i \in 1..9 : Card(i)]>>)
      ELSE IF contains(<<start_x + 460, start_y + 550, 90, 62>>, p)
      THEN Shows("menu", <<"power">>)
      ELSE Plain("menu")

settings_click(w, p) ==
  LET Circle(i) == contains(<<w.x + 52 + (i - 1) * 66 - 24, w.y + 43 + 225, 48, 55>>, p)
  IN  IF contains(<<w.x + 24, w.y + 43 + 90, w.width - 48, 74>>, p) THEN Window(<<"dark">>)
      ELSE IF \E i \in 1..5 : Circle(i)
      THEN Window(<<"accent", Accents[CHOOSE i \in 1..5 : Circle(i)]>>)
      ELSE Plain("window")

calculator_click(w, p) ==
  LET key_width  == (w.width - 36 - 9 * 3) \div 4
      key_height == (w.height - 43 - 132 - 9 * 3) \div 4
      Key(i) == contains(<<w.x + 18 + ((i - 1) % 4) * (key_width + 9),
                           w.y + 43 + 114 + ((i - 1) \div 4) * (key_height + 9),
                           key_width, key_height>>, p)
  IN  IF \E i \in 1..16 : Key(i)
      THEN Window(<<"key", CalcKeys[CHOOSE i \in 1..16 : Key(i)]>>)
      ELSE Plain("window")

\* The link of the first row that was drawn there, if the page still has it.
browser_link_click(d, p) ==
  LET at == {i \in DOMAIN d.rows : contains(<<d.row_x, d.rows[i].y - 2, d.row_width, 17>>, p)}
      i  == CHOOSE j \in at : \A k \in at : j <= k
  IN  IF ui.loading \/ at = {} THEN NoHit
      ELSE IF d.rows[i].target \notin DOMAIN Links(ui.page) THEN NoHit
      ELSE Window(<<"link", Links(ui.page)[d.rows[i].target]>>)

browser_click(d, p) ==
  LET w    == d.window
      In(x, y, width, height) == contains(<<w.x + x, w.y + y, width, height>>, p)
      link_hit == browser_link_click(d, p)
  IN  IF In(16, 55, 38, 40) THEN Window(<<"back">>)
      ELSE IF In(58, 55, 38, 40) THEN Window(<<"forward">>)
      ELSE IF In(w.width - 78, 55, 54, 40) \/ In(100, 55, 38, 40) THEN Window(<<"go">>)
      ELSE IF In(146, 55, w.width - 234, 40) THEN Window(<<"address">>)
      ELSE IF link_hit # NoHit THEN link_hit
      ELSE IF In(w.width - 186, w.height - 104, 136, 42) THEN Window(<<"chrome">>)
      ELSE Plain("window")

click_window(d, p) ==
  LET w == d.window
      In(x, y, width, height) == contains(<<w.x + x, w.y + y, width, height>>, p)
  IN  IF ~w.visible \/ w.minimized \/ ~In(0, 0, w.width, w.height) THEN NoHit
      ELSE IF In(w.width - 46, 7, 40, 30) THEN Window(<<"close">>)
      ELSE IF In(w.width - 92, 7, 40, 30) THEN Window(<<"minimize">>)
      ELSE IF In(0, 0, w.width - 100, 42) THEN Window(<<"title">>)
      ELSE CASE w.app = "notepad" /\ In(w.width - 82, 49, 68, 24) -> Window(<<"save">>)
             [] w.app = "browser" -> browser_click(d, p)
             [] w.app = "ai" /\ In(w.width - 98, w.height - 72, 74, 48) -> Window(<<"send">>)
             [] w.app = "compiler" /\ In(w.width - 176, 58, 152, 42) -> Window(<<"build">>)
             [] w.app = "settings" -> settings_click(w, p)
             [] w.app = "calculator" -> calculator_click(w, p)
             [] OTHER -> Plain("window")

click_desktop(p) ==
  LET column == <<"explorer", "notepad", "terminal", "compiler", "ai">>
      Icon(i) == contains(<<22, 28 + (i - 1) * 96, 112, 82>>, p)
  IN  IF contains(<<150, 28, 112, 82>>, p) THEN Shows("desktop", <<"icon", "browser">>)
      ELSE IF \E i \in 1..5 : Icon(i)
      THEN Shows("desktop", <<"icon", column[CHOOSE i \in 1..5 : Icon(i)]>>)
      ELSE Plain("desktop")

\* Mutant: the window is asked before the start menu that lies over it.
Hit_WindowFirst(d, p) ==
  LET first == SelectSeq(<<click_taskbar(p), click_window(d, p), click_start(d, p)>>,
                         LAMBDA h : h # NoHit)
  IN  IF first = <<>> THEN click_desktop(p) ELSE first[1]

\* ui_mouse asks the taskbar, the start menu, the window and the desktop.
Hit(d, p) ==
  LET first == SelectSeq(<<click_taskbar(p), click_start(d, p), click_window(d, p)>>,
                         LAMBDA h : h # NoHit)
  IN  IF first = <<>> THEN click_desktop(p) ELSE first[1]

-----------------------------------------------------------------------------
(* The applications: what a handler may leave of the state d *)

\* fs_write may fail; then the flags keep the note for later.
notepad_save(d) ==
  IF ~d.disk.ready THEN {[d EXCEPT !.note_failed = TRUE]}
  ELSE {[d EXCEPT !.disk.note = d.note, !.note_dirty = FALSE, !.note_failed = FALSE,
                  !.window_dirty = TRUE]} \cup
       (IF session.failing
        THEN {[d EXCEPT !.note_dirty = TRUE, !.note_failed = TRUE, !.window_dirty = TRUE]}
        ELSE {})

AppWidths == <<900, 920, 880, 900, 470, 820, 900, 820, 720>>
AppHeights == <<610, 620, 620, 580, 580, 600, 620, 600, 480>>

\* Mutant: the application is replaced without a look at the note.
open_app_Unsaved(d, app) ==
  LET width  == Smaller(AppWidths[AppIndex(app)], Width - 60)
      height == Smaller(AppHeights[AppIndex(app)], Height - 100)
  IN  {[d EXCEPT !.window = [app |-> app, width |-> width, height |-> height,
                             x |-> (Width - width) \div 2,
                             y |-> (Height - 64 - height) \div 2,
                             visible |-> TRUE, minimized |-> FALSE],
                 !.start_open = FALSE, !.dragging = FALSE, !.dirty = TRUE]}

\* Besides, the address field of a browser that is opened is selected.
open_app(d, app) ==
  LET leaving == d.window.visible /\ d.window.app = "notepad" /\ d.note_dirty
      width   == Smaller(AppWidths[AppIndex(app)], Width - 60)
      height  == Smaller(AppHeights[AppIndex(app)], Height - 100)
  IN  {[e EXCEPT !.window = [app |-> app, width |-> width, height |-> height,
                             x |-> (Width - width) \div 2,
                             y |-> (Height - 64 - height) \div 2,
                             visible |-> TRUE, minimized |-> FALSE],
                 !.start_open = FALSE, !.dragging = FALSE, !.dirty = TRUE] :
         e \in IF leaving THEN notepad_save(d) ELSE {d}}

\* The source is saved, compiled and loaded; each of the three may fail.
compiler_build_and_run(d) ==
  LET Ends(text) == [d EXCEPT !.waiting = FALSE, !.diagnostic = text, !.window_dirty = TRUE]
      saved      == [Ends("compile error") EXCEPT !.disk.source = d.source]
      compiled   == [saved EXCEPT !.disk.program = d.source, !.diagnostic = "load rejected"]
  IN  (IF ~d.disk.ready \/ session.failing THEN {Ends("save failed")} ELSE {}) \cup
      (IF ~d.disk.ready THEN {}
       ELSE {saved, compiled, [compiled EXCEPT !.diagnostic = "running", !.waiting = TRUE,
                                               !.program = "running"]})

IntMin == -2147483647 - 1
\* The int whose halves are high, of which it keeps 16 bits, and low.
Halves(high, low) == (((high + 32768) % 65536) - 32768) * 65536 + low
\* Signed overflow wraps in this build: the operands are in memory.  No step of
\* these leaves the ints, which are also TLC's integers.
Plus(a, b) ==
  LET low == (a % 65536) + (b % 65536)
  IN  Halves(a \div 65536 + b \div 65536 + low \div 65536, low % 65536)
Minus(a, b) ==
  LET low == (a % 65536) - (b % 65536)
  IN  Halves(a \div 65536 - b \div 65536 + low \div 65536, low % 65536)
Times(a, b) ==
  LET la   == a % 65536
      lb   == b % 65536
      mid  == la * (lb \div 256)
      low  == la * (lb % 256) + (mid % 256) * 256
      high == (((a \div 65536) * lb) % 65536) + (((b \div 65536) * la) % 65536)
  IN  Halves(high + mid \div 256 + low \div 65536, low % 65536)
\* C's division rounds towards zero; IntMin by -1 has no quotient.
Quotient(a, b) ==
  LET Truncated(n) == a \div n + (IF a < 0 /\ a % n # 0 THEN 1 ELSE 0)
  IN  CASE b > 0 -> Truncated(b)
        [] b = IntMin -> IF a = IntMin THEN 1 ELSE 0
        [] b < 0 /\ b # IntMin -> IF a = IntMin /\ b = -1 THEN IntMin ELSE -Truncated(-b)

calculator_apply(c) ==
  LET divide == c.operator = "/" /\ c.value = 0
      result == CASE c.operator = "+" -> Plus(c.accumulator, c.value)
                  [] c.operator = "-" -> Minus(c.accumulator, c.value)
                  [] c.operator = "*" -> Times(c.accumulator, c.value)
                  [] divide -> c.accumulator
                  [] OTHER -> Quotient(c.accumulator, c.value)
  IN  IF c.operator = "" THEN c
      ELSE [value |-> result, accumulator |-> result, operator |-> "", new |-> TRUE,
            error |-> c.error \/ divide]

CalcLimit == 100000000
Digits == [c \in {"0", "1", "2", "3", "4", "5", "6", "7", "8", "9"} |->
             CHOOSE n \in 0..9 : ToString(n) = c]

\* Mutant: a digit after an operator does not begin a new value.
calculator_digit_Append(c, digit) ==
  IF c.error THEN c
  ELSE [c EXCEPT !.new = FALSE,
                 !.value = IF c.value < CalcLimit /\ c.value > -CalcLimit
                           THEN c.value * 10 + digit ELSE c.value]

calculator_digit(c, digit) ==
  LET value == IF c.new THEN 0 ELSE c.value
  IN  IF c.error THEN c
      ELSE [c EXCEPT !.new = FALSE,
                     !.value = IF value < CalcLimit /\ value > -CalcLimit
                               THEN value * 10 + digit ELSE value]

NewCalculator ==
  [value |-> 0, accumulator |-> 0, operator |-> "", new |-> TRUE, error |-> FALSE]

calculator_press(c, key) ==
  IF key \in DOMAIN Digits THEN calculator_digit(c, Digits[key])
  ELSE IF key = "C" THEN NewCalculator
  ELSE IF key = "=" THEN calculator_apply(c)
  ELSE LET e == IF c.operator # "" /\ ~c.new THEN calculator_apply(c) ELSE c
       IN  [e EXCEPT !.accumulator = e.value, !.operator = key, !.new = TRUE]

Backspaced(c) == [c EXCEPT !.value = Quotient(@, 10)]

-----------------------------------------------------------------------------
(* The terminal *)

terminal_add(lines, text) ==
  Append(IF Len(lines) = TerminalRows THEN Tail(lines) ELSE lines, text)
Printed(lines, texts) == FoldLeft(terminal_add, lines, texts)

\* How many lines the commands print that only ask other parts of the kernel.
Reply ==
  [help |-> {2}, about |-> {1}, date |-> {1}, mem |-> {2}, disk |-> {1}, ls |-> 1..3,
   deb |-> {1}, chrome |-> {1, 2}, whoami |-> {1}, users |-> 1..3, login |-> {1},
   useradd |-> {1}, chmod |-> {1}, ps |-> {2}, run |-> {1}, net |-> {3}, udp |-> {1},
   apps |-> {1}, echo |-> {1}]

\* terminal_execute for the commands that neither send nor stop the machine;
\* chrome and run may start a program.
terminal_execute(d) ==
  LET prompted == [d EXCEPT !.lines = terminal_add(@, "prompt"), !.command = <<>>]
      Says(e, n) == [e EXCEPT !.lines = Printed(@, [i \in 1..n |-> "reply"])]
      word    == IF Len(d.command) = 1 THEN d.command[1] ELSE "unknown"
      started == IF word \in {"run", "chrome"}
                 THEN {prompted, [prompted EXCEPT !.program = "running"]} ELSE {prompted}
  IN  CASE d.command = <<>> -> {prompted}
        [] word = "clear" -> {[prompted EXCEPT !.lines = <<>>]}
        [] word = "save" -> {Says(e, 1) : e \in notepad_save(prompted)}
        [] word = "cc" -> {Says(e, 1) : e \in compiler_build_and_run(prompted)}
        [] word = "theme" -> {Says([prompted EXCEPT !.dark = ~@, !.dirty = TRUE], 1)}
        [] word \in DOMAIN Reply ->
             {[Says(e, n) EXCEPT !.dirty = @ \/ word = "login"] : e \in started, n \in Reply[word]}
        [] OTHER -> {Says(prompted, 1)}

-----------------------------------------------------------------------------
(* The handlers.  d is the state they start from. *)

Redrawn(d) == [d EXCEPT !.window_dirty = TRUE]
\* The handler leaves one of these states and sends nothing.
Leaves(states) == /\ desk' \in states
                  /\ UNCHANGED <<vars, pc>>
\* The handler changes the browser and sends nothing.
Shown(d, state) == /\ desk' = d /\ ui' = state
                   /\ UNCHANGED <<boot, tcp, host, asked, pc>>
PowerOff(d) == desk' = d /\ pc' = "off" /\ UNCHANGED vars

Opened(d, app) ==
  /\ desk' \in open_app(d, app)
  /\ ui' = IF app = "browser" THEN [ui EXCEPT !.selected = TRUE] ELSE ui
  /\ UNCHANGED <<boot, tcp, host, asked, pc>>

\* The browser's operations mark the window only if they do not return early.
Navigate(d) ==
  \/ browser_navigate /\ desk' = Redrawn(d) /\ UNCHANGED pc
  \/ (ui.loading \/ ui.url = NoUrl) /\ Leaves({d})
Open(d, u) ==
  \/ browser_open_url(u) /\ desk' = Redrawn(d) /\ UNCHANGED pc
  \/ ui.loading /\ Leaves({d})
GoBack(d) ==
  \/ browser_go_back /\ desk' = Redrawn(d) /\ UNCHANGED pc
  \/ (ui.loading \/ ui.index <= 0) /\ Leaves({d})
GoForward(d) ==
  \/ browser_go_forward /\ desk' = Redrawn(d) /\ UNCHANGED pc
  \/ (ui.loading \/ ui.index + 1 >= Len(ui.history)) /\ Leaves({d})
Download(d) ==
  \/ browser_download /\ desk' = Redrawn(d) /\ UNCHANGED pc
  \/ ui.download_active /\ Leaves({d})
SendPrompt(d) ==
  \/ /\ d.prompt # <<>> /\ ai_send_prompt
     /\ desk' = Redrawn([d EXCEPT !.prompt = <<>>]) /\ UNCHANGED pc
  \/ d.prompt = <<>> /\ Leaves({d})

\* The commands of the terminal, those of the network and power ones too.
Execute(d) ==
  LET said == Redrawn([d EXCEPT !.lines = Printed(@, <<"prompt", "reply">>),
                                !.command = <<>>])
      verb == IF d.command = <<>> THEN "none" ELSE d.command[1]
  IN  \/ /\ verb = "web" /\ Len(d.command) = 2
         /\ \/ Open(said, d.command[2]) /\ ~ui.loading
            \/ ui.loading /\ Shown(said, [ui EXCEPT !.url = d.command[2]])
      \/ verb = "download" /\ Len(d.command) = 2 /\ Download(said)
      \/ verb \in {"reboot", "shutdown"} /\ Len(d.command) = 1 /\ PowerOff(said)
      \/ ~(verb \in {"web", "download"} /\ Len(d.command) = 2)
         /\ ~(verb \in {"reboot", "shutdown"} /\ Len(d.command) = 1)
         /\ Leaves({Redrawn(e) : e \in terminal_execute(d)})

\* Closing or minimizing by the title bar saves a note that was edited.
Put_away(d) == IF d.window.app = "notepad" /\ d.note_dirty THEN notepad_save(d) ELSE {d}

\* What a press does that landed on hit; a press beside an open menu closes it.
Act(d0, hit, p) ==
  \E d \in {IF d0.start_open /\ hit.surface \notin {"taskbar", "menu"}
            THEN [d0 EXCEPT !.start_open = FALSE, !.dirty = TRUE] ELSE d0} :
  LET verb == hit.control[1]
      app  == IF verb \in {"task", "pin", "icon"} THEN hit.control[2] ELSE "none"
  IN  CASE verb = "start" -> Leaves({[d EXCEPT !.start_open = ~@, !.dirty = TRUE]})
        [] verb = "task" /\ d.window.visible /\ d.window.app = app ->
             Leaves({[d EXCEPT !.window.minimized = ~@, !.start_open = FALSE, !.dirty = TRUE]})
        [] verb \in {"pin", "icon"} \/ (verb = "task" /\ ~(d.window.visible /\ d.window.app = app)) ->
             Opened(d, app)
        [] verb = "power" -> PowerOff(d)
        [] verb = "close" ->
             Leaves({[e EXCEPT !.window.visible = FALSE, !.dragging = FALSE, !.dirty = TRUE] :
                       e \in Put_away(d)})
        [] verb = "minimize" ->
             Leaves({[e EXCEPT !.window.minimized = TRUE, !.dragging = FALSE, !.dirty = TRUE] :
                       e \in Put_away(d)})
        [] verb = "title" ->
             Leaves({[d EXCEPT !.dragging = TRUE,
                               !.drag = <<p[1] - d.window.x, p[2] - d.window.y>>]})
        [] verb = "save" -> Leaves(notepad_save(d))
        [] verb = "back" -> GoBack(d)
        [] verb = "forward" -> GoForward(d)
        [] verb = "go" -> Navigate(d)
        [] verb = "address" -> Shown(Redrawn(d), [ui EXCEPT !.selected = TRUE])
        [] verb = "link" -> Open(d, hit.control[2])
        [] verb = "chrome" -> Download(d)
        [] verb = "send" -> SendPrompt(d)
        [] verb = "build" -> Leaves(compiler_build_and_run(d))
        [] verb = "dark" -> Leaves({[d EXCEPT !.dark = ~@, !.dirty = TRUE]})
        [] verb = "accent" -> Leaves({[d EXCEPT !.accent = hit.control[2], !.dirty = TRUE]})
        [] verb = "key" ->
             Leaves({Redrawn([d EXCEPT !.calc = calculator_press(@, hit.control[2])])})
        [] OTHER -> Leaves({d})

\* The pointer, and the window it drags within the screen.
Moved(d, e) ==
  LET held  == d.dragging /\ e.left
      moved == [d EXCEPT
                  !.mouse = <<e.x, e.y>>,
                  !.window.x = IF held THEN Between(e.x - d.drag[1], 120 - d.window.width, Width - 120)
                               ELSE @,
                  !.window.y = IF held THEN Between(e.y - d.drag[2], 0, Height - 110) ELSE @,
                  !.dirty = @ \/ held,
                  !.dragging = @ /\ (e.left \/ ~d.left),
                  !.cursor_dirty = @ \/ <<e.x, e.y>> # d.mouse,
                  !.left = e.left]
  IN  moved

\* pressed keeps what the screen showed at the pointer when it was last pressed
\* (if that is a pixel of Points), and whether that was up to date.
ui_mouse(e) ==
  \E p \in {<<e.x, e.y>>}, d \in {Moved(desk, e)} :
    IF e.left /\ ~desk.left
    THEN \E hit \in {Hit(d, p)} :
           /\ Act(d, hit, p)
           /\ pressed' = IF p \notin Points THEN Unpressed
                         ELSE [hit |-> hit, shown |-> screen.base[p],
                               fresh |-> ~d.dirty /\ ~d.window_dirty,
                               over |-> screen.base[p] # Scene(desk)[p]]
    ELSE Leaves({d}) /\ UNCHANGED pressed

Prints(e) == e.character # NoCharacter
\* Text of at most size characters after a key.
Edited(text, e, size) ==
  IF e.key = "Backspace" THEN (IF text = <<>> THEN text ELSE Front(text))
  ELSE IF Len(text) >= size THEN text
  ELSE IF e.key = "Enter" THEN Append(text, "newline")
  ELSE IF Prints(e) THEN Append(text, e.character) ELSE text
\* Prompts and commands, which Enter ends.
TypedLine(text, e, size) == IF e.key = "Enter" THEN text ELSE Edited(text, e, size)

\* The address holds one word; a character replaces it if it is selected.
browser_key(d, e) ==
  LET Scroll(lines) ==
        Shown(Redrawn(d), [ui EXCEPT !.scroll = Between(@ + lines, 0, d.max_scroll)])
      erased   == [ui EXCEPT !.url = NoUrl, !.selected = FALSE]
      replaced == [ui EXCEPT !.url = e.character, !.selected = FALSE]
  IN  CASE e.key = "Down" -> Scroll(1)
        [] e.key = "Up" -> Scroll(-1)
        [] e.key = "End" -> Scroll(d.max_scroll)
        [] e.key = "Home" -> Scroll(-d.max_scroll)
        [] e.key = "Left" -> GoBack(d)
        [] e.key = "Right" -> GoForward(d)
        [] e.key = "Enter" -> Navigate(Redrawn(d))
        [] e.key = "Backspace" /\ ui.url # NoUrl -> Shown(Redrawn(d), erased)
        [] Prints(e) /\ (ui.selected \/ ui.url = NoUrl) -> Shown(Redrawn(d), replaced)
        [] OTHER -> Leaves({Redrawn(d)})

calculator_key(c, e) ==
  IF e.character \in DOMAIN Digits \cup {"+", "-", "*", "/"} THEN calculator_press(c, e.character)
  ELSE IF e.character \in {"c", "C"} THEN calculator_press(c, "C")
  ELSE IF e.key = "Enter" THEN calculator_press(c, "=")
  ELSE IF e.key = "Backspace" THEN Backspaced(c) ELSE c

notepad_key(d, e) ==
  [d EXCEPT !.note = Edited(@, e, NoteSize), !.note_dirty = TRUE, !.note_failed = FALSE,
            !.window_dirty = TRUE]

ui_key(e) ==
  LET d   == desk
      app == d.window.app
  IN  /\ UNCHANGED pressed
      /\ IF e.key = "Escape"
         THEN Leaves({[d EXCEPT !.start_open = FALSE,
                                !.window.minimized = @ \/ (~d.start_open /\ d.window.visible),
                                !.dirty = TRUE]})
         ELSE IF ~d.window.visible \/ d.window.minimized THEN Leaves({d})
         ELSE CASE app = "browser" -> browser_key(d, e)
                [] app = "notepad" -> Leaves({notepad_key(d, e)})
                [] app = "terminal" /\ e.key = "Enter" -> Execute(d)
                [] app = "terminal" /\ e.key # "Enter" ->
                     Leaves({Redrawn([d EXCEPT !.command = TypedLine(@, e, CommandSize)])})
                [] app = "calculator" ->
                     Leaves({Redrawn([d EXCEPT !.calc = calculator_key(@, e)])})
                [] app = "compiler" ->
                     Leaves({Redrawn([d EXCEPT !.source = Edited(@, e, NoteSize),
                                               !.diagnostic = "changed"])})
                [] app = "ai" /\ e.key = "Enter" -> SendPrompt(Redrawn(d))
                [] app = "ai" /\ e.key # "Enter" ->
                     Leaves({Redrawn([d EXCEPT !.prompt = TypedLine(@, e, NoteSize)])})
                [] OTHER -> Leaves({d})

-----------------------------------------------------------------------------
(* kernel_main's loop *)

\* One event is made of the bytes in the port and handled.
HandleEvent ==
  /\ pc = "input"
  /\ \E polled \in {input_poll} :
        /\ polled.event # NoEvent
        /\ decoder' = polled.decoder
        /\ port' = SubSeq(port, polled.taken + 1, Len(port))
        /\ owed' = Paid(polled.event)
        /\ IF polled.event.type = "MOUSE" THEN ui_mouse(polled.event) ELSE ui_key(polled.event)
  /\ UNCHANGED <<mouse_line, keyboard_line, hand, keys, screen, acts>>

\* Without an event the loop goes on; the displayed minute may have changed.
ui_set_time ==
  LET polled == input_poll
  IN  /\ pc = "input" /\ polled.event = NoEvent
      /\ decoder' = polled.decoder
      /\ port' = SubSeq(port, polled.taken + 1, Len(port))
      /\ pc' = "render"
      /\ \/ UNCHANGED desk
         \/ /\ desk.minute < session.minutes
            /\ desk' = [desk EXCEPT !.minute = @ + 1, !.dirty = TRUE]
      /\ UNCHANGED <<vars, mouse_line, keyboard_line, hand, keys, owed, screen, acts, pressed>>

\* network_poll takes the frames that are there before anything else goes on.
PollFrame ==
  /\ pc = "services"
  /\ \/ session.online /\ handle_arp
     \/ handle_tcp
  /\ UNCHANGED <<inputs, desktop>>

\* Mutant: the end of the program is not shown.
Collected_Silent(d) ==
  IF ~d.waiting \/ d.program = "running" THEN d
  ELSE [d EXCEPT !.waiting = FALSE, !.diagnostic = "finished"]

\* A program that compiler_build_and_run started and that has ended.
Collected(d) ==
  IF ~d.waiting \/ d.program = "running" THEN d
  ELSE [d EXCEPT !.waiting = FALSE, !.diagnostic = "finished",
                 !.window_dirty = @ \/ (d.window.visible /\ d.window.app = "compiler")]

\* What arrived may change the assistant and the browser.
PollServices ==
  /\ pc = "services" /\ pc' = "connect" /\ link = <<>>
  /\ \/ /\ ui_poll_services
        /\ desk' = [Collected(desk) EXCEPT
             !.window_dirty = @ \/ (desk.window.visible /\ desk.window.app \in {"ai", "browser"})]
     \/ tcp.buffer = <<>> /\ desk' = Collected(desk) /\ UNCHANGED vars
  /\ UNCHANGED <<inputs, screen, acts, pressed>>

Connect ==
  /\ pc = "connect" /\ pc' = "input"
  /\ \/ network_tcp_connect
     \/ ~(gateway_ready /\ ~bridge_attempted) /\ UNCHANGED vars
  /\ UNCHANGED <<inputs, desk, screen, acts, pressed>>

\* process_schedule: the program may come to its end, and may have written files.
ProgramEnds ==
  /\ pc = "connect" /\ desk.program = "running"
  /\ \E left \in {desk.disk.left, desk.disk.ready} :
        desk' = [desk EXCEPT !.program = "ended", !.disk.left = left]
  /\ UNCHANGED <<vars, inputs, pc, screen, acts, pressed>>

-----------------------------------------------------------------------------
(* The user and the host *)

\* What the user may do next: the plan of a session bounds the user.  The bytes
\* are read at "input" only, so there is no need to let the user act elsewhere.
\* A user who looks at the screen first waits until it is drawn.
Deeds == IF acts < Len(session.plan) THEN session.plan[acts + 1] ELSE {}

UserActs ==
  /\ pc = "input" /\ acts' = acts + 1
  /\ session.looks => /\ ~needs_render(desk)
                      /\ mouse_line = <<>> /\ keyboard_line = <<>> /\ port = <<>>
  /\ UNCHANGED <<vars, pc, desk, screen, pressed>>

\* The hand goes to a spot with the button down or up, or fast, or too fast.
UserMoves(deed) ==
  /\ deed.does \in {"down", "up", "fast", "overflow"} /\ UserActs
  /\ MoveHand(deed.spot, deed.does = "down" \/ (deed.does = "fast" /\ hand.left),
              deed.does = "overflow", IF deed.does = "fast" THEN 255 ELSE 127)
UserStrikes(deed) == deed.does = "strike" /\ UserActs /\ StrikeKey(deed.code)
UserHolds(deed) == deed.does = "hold" /\ UserActs /\ Modifier(deed.code)

\* One byte at a time, or all of a device's bytes.
DevicesSend ==
  /\ pc = "input"
  /\ DeviceSend(IF session.split THEN 1 ELSE 100)
  /\ UNCHANGED <<vars, desktop>>

HostActs ==
  /\ pc \notin {"wire", "off"}
  /\ dispatch \/ HostSend \/ HostClose
  /\ UNCHANGED <<inputs, desktop>>

\* A session that looks at the browser's protocol alone: its handlers
\* interleave freely.
Wire(A) == pc = "wire" /\ A /\ UNCHANGED <<inputs, desktop>>

-----------------------------------------------------------------------------
(* The system *)

\* ui_init: the note is read, or a welcome is written; About is opened.
Welcome == <<"welcome">>
Blank ==
  [window |-> [app |-> "explorer", x |-> 0, y |-> 0, width |-> 0, height |-> 0,
               visible |-> FALSE, minimized |-> FALSE],
   start_open |-> FALSE, dragging |-> FALSE, drag |-> <<0, 0>>, left |-> FALSE,
   mouse |-> <<Width \div 2, Height \div 2>>, rendered |-> <<Width \div 2, Height \div 2>>,
   dirty |-> TRUE, window_dirty |-> FALSE, cursor_dirty |-> FALSE,
   dark |-> TRUE, accent |-> "0", minute |-> 0,
   note |-> Welcome, note_dirty |-> FALSE, note_failed |-> FALSE,
   disk |-> session.disk,
   lines |-> <<"banner", "hint">>, command |-> <<>>, calc |-> NewCalculator,
   source |-> <<>>, waiting |-> FALSE, diagnostic |-> "ready", program |-> "none",
   prompt |-> <<>>, max_scroll |-> 0, rows |-> <<>>, row_x |-> 0, row_width |-> 0]

NoNote == <<"absent">>
WithNote ==
  IF session.disk.ready /\ session.disk.note # NoNote
  THEN {[Blank EXCEPT !.note = session.disk.note]}
  ELSE LET new == [Blank EXCEPT !.note_dirty = TRUE]
       IN  IF session.disk.ready THEN notepad_save(new) ELSE {new}

DesktopInit ==
  /\ Init
  /\ InputInit(session.rest)
  /\ pc = IF session.wire THEN "wire" ELSE "input"
  /\ desk \in UNION {open_app(d, "about") : d \in WithNote}
  /\ screen = LET black == [p \in Points |-> Plain("black")]
              IN  [base |-> black, frame |-> black, video |-> black, view |-> [app |-> "none"],
                   around |-> <<"black">>]
  /\ acts = 0
  /\ pressed = Unpressed

DesktopNext ==
  \/ HandleEvent \/ ui_set_time \/ ui_render
  \/ PollFrame \/ PollServices \/ Connect \/ ProgramEnds
  \/ \E deed \in Deeds : UserMoves(deed) \/ UserStrikes(deed) \/ UserHolds(deed)
  \/ DevicesSend \/ HostActs
  \/ Wire(Next)

\* kernel_main gets to the next place of its loop: no handler of it waits.
LoopTurns ==
  /\ pc \notin {"wire", "off"}
  /\ pc' \in {"input", "render", "services", "connect"} \ {pc}

\* The kernel's loop and the host keep running.
DesktopFairness ==
  /\ WF_pc(LoopTurns)
  /\ WF_all(HostActs)
  /\ WF_all(Wire(handle_tcp)) /\ WF_all(Wire(ui_poll_services))
  /\ WF_all(Wire(dispatch \/ HostSend \/ HostClose))

DesktopSpec == DesktopInit /\ [][DesktopNext]_all /\ DesktopFairness

-----------------------------------------------------------------------------
(* Properties *)

\* README.md:133: a move of the mouse redraws a small area around the pointer
\* only.  The pointer leaves no trail and is nowhere erased: what is on the
\* screen is the picture without a pointer and the pointer over it at its one
\* place, after any mix of full, window and pointer redraws (ui_render); and
\* the copy kept to restore what is under the pointer never holds the pointer.
PointerClean ==
  pc # "wire" =>
    /\ screen.video = draw_cursor(screen.base, desk.rendered) \/ screen.around = <<"black">>
    /\ screen.frame = screen.video
    /\ \A p \in Points : screen.base[p] # Cursor

\* When nothing is marked dirty the screen shows the state: every handler of a
\* key, a press, an answer or a tick marks what it changes, but for what View
\* calls unmarked.  A pixel shows what a full redraw would draw there, or the
\* content of the window where ui_render drew it over what lies above it: the
\* menu, the taskbar, or, for a minimized window, the desktop.
ScreenCurrent ==
  pc # "wire" /\ ~needs_render(desk) =>
    /\ screen.around = Surroundings(desk)
    /\ desk.window.visible /\ ~desk.window.minimized =>
         /\ screen.view.app = desk.window.app
         /\ screen.view.shows = View(desk).shows
    /\ LET scene   == Scene(desk)
           content == draw_window_content(desk)
       IN  \A p \in Points :
             \/ screen.base[p] = scene[p]
             \/ desk.window.visible /\ screen.base[p] = Painted(content, p, NoHit)

\* A press does what the user sees: when the screen was up to date, the handler
\* of the surface shown at the pointer took the press, and if a control was
\* drawn there it is the control that acted, with its link target or its
\* application.  The click handlers (click_..., ui_mouse) repeat the geometry
\* of the drawing code by hand, and keep the link rows of the last drawing.
PressMatches ==
  pressed.fresh /\ ~pressed.over =>
    /\ pressed.hit.surface = pressed.shown.surface
    /\ pressed.shown.control # <<"none">> => pressed.hit.control = pressed.shown.control

\* No edit of the note is lost silently: a note not marked dirty is the one on
\* the disk, and a dirty one whose window was closed or replaced is reported as
\* a failed save (notepad_save, open_app, click_window).
NoteSafe ==
  pc # "wire" /\ desk.disk.ready =>
    /\ ~desk.note_dirty => desk.disk.note = desk.note
    /\ desk.note_dirty /\ ~(desk.window.visible /\ desk.window.app = "notepad")
         => desk.note_failed

\* The division the processor traps on never happens: no sequence of keys gets
\* the calculator to divide the least int by minus one, although its sums and
\* products wrap (calculator_digit limits what is typed, not what is computed)
\* and Backspace shortens a result as well as what was typed.  The digits of
\* 2^31 begin with 2: shortened, the least int becomes -2 and then 0.
NoDivideTrap ==
  ~(desk.calc.operator = "/" /\ desk.calc.value = -1 /\ desk.calc.accumulator = IntMin)
=============================================================================
