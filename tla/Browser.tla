------------------------------ MODULE Browser -------------------------------
(***************************************************************************)
(* The way a page takes from the bridge on the host to the screen:         *)
(* tools/nova (external to the guest, but part of the repository) answers  *)
(* request lines; kernel/network.c receives the answer in a fixed buffer;  *)
(* ui/ui.c drains the buffer into ai_wire_buffer, dispatches whole lines   *)
(* and replaces the visible page at PAGEEND.                               *)
(*                                                                         *)
(* kernel_main handles input, at most 16 frames and one ui_poll_services   *)
(* per turn.  The host decides when frames arrive and the user when keys   *)
(* do, so the handlers interleave freely; only the limit of 16 frames, more *)
(* than the receive buffer holds, is left out.                             *)
(*                                                                         *)
(* Bytes are abstracted to units.  A line is a head (the verb and what     *)
(* follows it), for PAGE, BODY, LINK, ANSWER and DOWNLOAD a tail (the      *)
(* fields that complete it), and a newline, so that a cut may fall inside  *)
(* a line and the next line be glued to what is left.                      *)
(***************************************************************************)
EXTENDS Integers, Sequences, SequencesExt

CONSTANTS
  Urls,
  Home,         \* the address in the field after ui_init
  Parts,        \* Parts[u]: the verbs of the lines page_reply makes of page u
  Landings,     \* Landings[u]: the pages a request for u may end at
  Target,       \* Target[u]: where the links of page u lead
  Take,         \* bytes ui_poll_services reads at a time
  WireSize,     \* sizeof ai_wire_buffer
  HistorySize,  \* BROWSER_HISTORY_CAPACITY
  Sessions      \* what the user of a session does, and its bounds

ASSUME BrowserAssumption ==
  /\ Home \in Urls
  /\ Parts \in [Urls -> Seq({"PAGE", "BODY", "LINK", "PAGEEND"})]
  /\ Landings \in [Urls -> SUBSET Urls] /\ Target \in [Urls -> Urls]
  /\ {Take, WireSize} \subseteq Nat \ {0}
  /\ HistorySize \in Nat \ {0, 1}
  /\ \A s \in Sessions :
        /\ s.services \subseteq {"GET", "PROMPT", "DOWNLOAD"} /\ s.typed \subseteq Urls
        /\ s.segments \subseteq Nat \ {0} /\ s.receive \in Nat \ {0}
        /\ {s.requests, s.resent} \subseteq Nat

VARIABLES
  gateway_ready,
  bridge_attempted,
  tcp,        \* state, remote_sequence, buffer (tcp_receive_buffer), status_text;
              \* history: dropped, a payload was acknowledged and not kept
  link,       \* segments on their way to the guest
  requests,   \* lines on their way to the bridge
  outgoing,   \* what the bridge wrote and the host has not sent yet
  sent,       \* units the host has sent so far
  bridge,     \* "serving" or "closed"
  ui,         \* the browser, assistant and download state of ui.c
  asked,      \* counts the requests of the user
  resent,     \* counts the segments sent again
  unanswered, \* history: a handler raised, so its request has no answer
  session     \* the session of this boot; it never changes

host == <<link, requests, outgoing, sent, bridge, resent, unanswered>>
boot == <<gateway_ready, bridge_attempted, session>>
vars == <<boot, tcp, host, ui, asked>>

ReceiveSize == session.receive     \* sizeof tcp_receive_buffer, and the window
                                   \* advertised, in units of the session
MaxRequests == session.requests    \* bound on the requests of the user
MaxResent == session.resent        \* bound on the segments the host sends again

-----------------------------------------------------------------------------
(* The line protocol *)

NoUrl == "none"
Unit(verb, place, url) == [verb |-> verb, place |-> place, url |-> url]
Newline == Unit("newline", "end", NoUrl)

Line(verb, url) ==
  IF verb \in {"READY", "PAGEEND"}
  THEN <<Unit(verb, "head", url), Newline>>
  ELSE <<Unit(verb, "head", url), Unit(verb, "tail", url), Newline>>

Text(line) == SubSeq(line, 1, Len(line) - 1)
Encoded(lines) == FlattenSeq(lines)
page_reply(u) == Encoded([i \in DOMAIN Parts[u] |-> Line(Parts[u][i], u)])

\* A page as the guest should show it: the lines before PAGEEND, in order.
Page(u) == [kind |-> "page", url |-> u,
            lines |-> [i \in 1..(Len(Parts[u]) - 1) |-> Text(Line(Parts[u][i], u))]]
Screen(kind) == [kind |-> kind, url |-> NoUrl, lines |-> <<>>]

\* What the bridge writes for a request, and whether the session ends there:
\* a handler that raises answers nothing, a download that raises after its
\* first event takes the connection with it.
Answer(request) ==
  CASE request.verb = "HELLO" -> {[text |-> Line("READY", NoUrl), ends |-> FALSE]}
    [] request.verb = "GET" ->
         {[text |-> page_reply(u), ends |-> FALSE] : u \in Landings[request.url]}
           \cup {[text |-> <<>>, ends |-> FALSE]}
    [] request.verb = "PROMPT" ->
         {[text |-> Line("ANSWER", NoUrl), ends |-> FALSE], [text |-> <<>>, ends |-> FALSE]}
    [] OTHER ->
         {[text |-> Line("START", NoUrl) \o Line(verb, NoUrl), ends |-> FALSE] :
             verb \in {"DONE", "ERROR"}}
           \cup {[text |-> Line("START", NoUrl), ends |-> TRUE]}

-----------------------------------------------------------------------------
(* kernel/network.c *)

Idle == [state |-> "CLOSED", remote_sequence |-> 0, buffer |-> <<>>,
         status |-> "resolving gateway", dropped |-> FALSE]
Segment(flag, sequence, data) == [flag |-> flag, sequence |-> sequence, data |-> data]
Smaller(a, b) == IF a <= b THEN a ELSE b

\* What handle_tcp keeps of a payload: as much as there is room for.
Kept(data) ==
  SubSeq(data, 1, Smaller(Len(data), ReceiveSize - Len(tcp.buffer)))

\* Mutant: a segment is taken whatever its sequence number.
InOrder_Any(segment) == TRUE

\* Only the segment that comes next is taken; others are not acknowledged.
InOrder(segment) == segment.sequence = tcp.remote_sequence

\* The whole payload is acknowledged, whatever was kept of it.
Accept(segment) ==
  IF segment.data # <<>> /\ InOrder(segment)
  THEN [tcp EXCEPT !.buffer = @ \o Kept(segment.data),
                   !.remote_sequence = @ + Len(segment.data),
                   !.status = "response received",
                   !.dropped = @ \/ Kept(segment.data) # segment.data]
  ELSE tcp

handle_arp ==
  /\ ~gateway_ready
  /\ gateway_ready' = TRUE
  /\ tcp' = [tcp EXCEPT !.status = "IPv4 ready"]
  /\ UNCHANGED <<bridge_attempted, session, host, ui, asked>>

\* kernel_main connects once; the host answers the SYN if the bridge serves.
network_tcp_connect ==
  /\ gateway_ready /\ ~bridge_attempted
  /\ bridge_attempted' = TRUE
  /\ \/ /\ tcp' = [Idle EXCEPT !.state = "SYN_SENT", !.status = "connecting"]
        /\ \E flag \in {"SYNACK", "RST"} : link' = <<Segment(flag, 0, <<>>)>>
     \/ /\ tcp' = [Idle EXCEPT !.status = "connecting"]
        /\ UNCHANGED link                 \* the adapter did not take the frame
  /\ UNCHANGED <<gateway_ready, session, requests, outgoing, sent, bridge, resent,
                 unanswered, ui, asked>>

handle_tcp ==
  /\ link # <<>>
  /\ link' = Tail(link)
  /\ LET segment == Head(link) IN
     \/ /\ segment.flag = "RST"
        /\ tcp' = [tcp EXCEPT !.state = "CLOSED", !.status = "refused"]
        /\ UNCHANGED requests
     \/ /\ segment.flag = "SYNACK" /\ tcp.state = "SYN_SENT"
        /\ tcp' = [tcp EXCEPT !.state = "ESTABLISHED", !.remote_sequence = 0,
                              !.status = "connected"]
        /\ \/ requests' = Append(requests, [verb |-> "HELLO", url |-> NoUrl])
           \/ UNCHANGED requests          \* the adapter did not take the frame
     \/ /\ segment.flag = "DATA" /\ tcp.state = "ESTABLISHED"
        /\ tcp' = Accept(segment)
        /\ UNCHANGED requests
     \/ /\ segment.flag = "FIN" /\ tcp.state = "ESTABLISHED"
        /\ tcp' = [tcp EXCEPT !.state = "CLOSED", !.remote_sequence = @ + 1]
        /\ UNCHANGED requests
     \/ /\ segment.flag # "RST" /\ tcp.state = "CLOSED"
        /\ UNCHANGED <<tcp, requests>>
  /\ UNCHANGED <<boot, outgoing, sent, bridge, resent, unanswered, ui, asked>>

-----------------------------------------------------------------------------
(* The host: the bridge's session and the TCP of the host *)

\* A session takes one line at a time and writes all of its answer.
dispatch ==
  /\ bridge = "serving" /\ requests # <<>>
  /\ \E answer \in Answer(Head(requests)) :
        /\ outgoing' = outgoing \o answer.text
        /\ bridge' = IF answer.ends THEN "closed" ELSE bridge
        /\ unanswered' = (unanswered \/ answer.ends \/ answer.text = <<>>)
  /\ requests' = Tail(requests)
  /\ UNCHANGED <<boot, tcp, link, sent, resent, ui, asked>>

InFlight == FoldLeft(LAMBDA n, s : n + Len(s.data), 0, link)

\* The host fills the window it was offered, in segments of the session's sizes.
HostSend ==
  /\ outgoing # <<>>
  /\ \E n \in {Smaller(size, Len(outgoing)) : size \in session.segments} :
        /\ InFlight + n <= ReceiveSize
        /\ link' = Append(link, Segment("DATA", sent, SubSeq(outgoing, 1, n)))
        /\ outgoing' = SubSeq(outgoing, n + 1, Len(outgoing))
        /\ sent' = sent + n
  /\ UNCHANGED <<boot, tcp, requests, bridge, resent, unanswered, ui, asked>>

\* A segment the guest is slow to acknowledge is sent again.
HostResend ==
  /\ resent < MaxResent
  /\ link # <<>> /\ Head(link).flag = "DATA"
  /\ link' = Append(link, Head(link))
  /\ resent' = resent + 1
  /\ UNCHANGED <<boot, tcp, requests, outgoing, sent, bridge, unanswered, ui, asked>>

\* The session's socket is closed once its handler has ended.
HostClose ==
  /\ bridge = "closed" /\ outgoing = <<>>
  /\ tcp.state = "ESTABLISHED"
  /\ \A i \in DOMAIN link : link[i].flag # "FIN"
  /\ link' = Append(link, Segment("FIN", sent, <<>>))
  /\ UNCHANGED <<boot, tcp, requests, outgoing, sent, bridge, resent,
                 unanswered, ui, asked>>

-----------------------------------------------------------------------------
(* ui/ui.c: navigation *)

Current(state) == state.history[state.index + 1]

\* Mutant: the index moves on although the oldest entry was dropped.
browser_history_record_Grow(state) ==
  IF state.navigating \/ (state.history # <<>> /\ Current(state) = state.url) THEN state
  ELSE LET kept == SubSeq(state.history, 1, Smaller(state.index + 1, Len(state.history)))
       IN  [state EXCEPT !.history = Append(IF Len(kept) >= HistorySize
                                            THEN Tail(kept) ELSE kept, state.url),
                         !.index = Len(kept)]

\* A full history loses its oldest entry, and the forward entries go.
browser_history_record(state) ==
  IF state.navigating \/ (state.history # <<>> /\ Current(state) = state.url) THEN state
  ELSE LET kept == SubSeq(state.history, 1, Smaller(state.index + 1, Len(state.history)))
           new  == Append(IF Len(kept) >= HistorySize THEN Tail(kept) ELSE kept, state.url)
       IN  [state EXCEPT !.history = new, !.index = Len(new) - 1]

\* browser_navigate, given whether network_tcp_send succeeds.
Navigated(state, accepted) ==
  LET tried == IF accepted
               THEN [browser_history_record(state) EXCEPT
                       !.page = Screen("loading"), !.browser_status = "loading",
                       !.loading = TRUE]
               ELSE [state EXCEPT !.page = Screen("offline"), !.browser_status = "offline"]
  IN  [tried EXCEPT !.selected = FALSE, !.scroll = 0, !.navigating = FALSE]

\* network_tcp_send fails unless connected; the adapter may refuse a frame.
Sends == IF tcp.state = "ESTABLISHED" THEN BOOLEAN ELSE {FALSE}

Request(verb, url, accepted) ==
  /\ verb \in session.services
  /\ asked < MaxRequests
  /\ asked' = asked + 1
  /\ requests' = IF accepted THEN Append(requests, [verb |-> verb, url |-> url])
                 ELSE requests
  /\ UNCHANGED <<boot, tcp, link, outgoing, sent, bridge, resent, unanswered>>

\* The user edits the address, also while a page is loading.
TypeAddress(u) ==
  /\ asked < MaxRequests
  /\ ui' = [ui EXCEPT !.url = u, !.selected = FALSE]
  /\ UNCHANGED <<boot, tcp, host, asked>>

browser_navigate ==
  /\ ~ui.loading /\ ui.url # NoUrl
  /\ \E accepted \in Sends :
        /\ Request("GET", ui.url, accepted)
        /\ ui' = Navigated(ui, accepted)

\* browser_links: where the links of a page lead, in their order.
Links(page) ==
  LET rows == SelectSeq(page.lines, LAMBDA text : text[1].verb = "LINK")
  IN  [i \in DOMAIN rows |-> Target[rows[i][1].url]]

browser_open_url(u) ==
  /\ ~ui.loading
  /\ \E accepted \in Sends :
        /\ Request("GET", u, accepted)
        /\ ui' = Navigated([ui EXCEPT !.url = u], accepted)

\* Back and Forward move the index before the request is sent.
Step(by) ==
  /\ ~ui.loading
  /\ ui.index + by \in 0..(Len(ui.history) - 1)
  /\ LET moved == [ui EXCEPT !.index = @ + by, !.navigating = TRUE]
         u     == Current(moved)
     IN  \E accepted \in Sends :
            /\ Request("GET", u, accepted)
            /\ ui' = Navigated([moved EXCEPT !.url = u], accepted)

browser_go_back == Step(-1)

browser_go_forward == Step(1)

ai_send_prompt ==
  /\ \E accepted \in Sends :
        /\ Request("PROMPT", NoUrl, accepted)
        /\ ui' = [ui EXCEPT !.ai_waiting = accepted,
                             !.ai_response = IF accepted THEN "thinking" ELSE "offline"]

browser_download ==
  /\ ~ui.download_active
  /\ \E accepted \in Sends :
        /\ Request("DOWNLOAD", NoUrl, accepted)
        /\ ui' = [ui EXCEPT !.download_active = accepted,
                             !.download_status = IF accepted THEN "sent" ELSE "offline"]

-----------------------------------------------------------------------------
(* ui/ui.c: ui_poll_services *)

\* The fields of a line are there if its tail directly follows its head.
Complete(text) == Len(text) >= 2 /\ text[2].place = "tail"

\* The pending page becomes the visible one, and the current entry of the
\* history becomes the address at which the request landed.
Landed(state) ==
  [state EXCEPT !.page = [kind |-> "page", url |-> state.pending.url,
                          lines |-> state.pending.lines],
                !.browser_status = "landed",
                !.url = state.pending.url,
                !.history = IF @ = <<>> THEN @
                            ELSE [@ EXCEPT ![state.index + 1] = state.pending.url],
                !.files.browser_last = state.pending.url,
                !.pending.active = FALSE, !.selected = FALSE, !.scroll = 0]

\* Mutant: the page is shown but browser_loading stays set.
PageEnd_Waits(state) == Landed(state)

PageEnd(state) == [Landed(state) EXCEPT !.loading = FALSE]

\* One line of the wire buffer.  A PAGE needs its own fields; a BODY takes
\* whatever follows it; PAGEEND and READY are compared as a whole.  files is
\* what fs_write is given; without NovaFS it is not called.
Dispatch(state, text) ==
  LET verb == text[1].verb IN
  IF text = <<>> \/ text[1].place # "head" THEN state
  ELSE CASE verb = "READY" /\ Len(text) = 1 ->
              [state EXCEPT !.ai_response = "connected", !.browser_status = "connected"]
         [] verb = "ANSWER" ->
              [state EXCEPT !.ai_response = "answer", !.ai_waiting = FALSE,
                            !.files.ai_last = "answer"]
         [] verb = "PAGE" /\ Complete(text) /\ text[2].verb = "PAGE" ->
              [state EXCEPT !.pending = [active |-> TRUE, url |-> text[2].url,
                                         lines |-> <<text>>]]
         [] verb = "BODY" /\ state.pending.active ->
              [state EXCEPT !.pending.lines = Append(@, text)]
         [] verb = "LINK" /\ state.pending.active /\ Complete(text) ->
              [state EXCEPT !.pending.lines = Append(@, text)]
         [] verb = "PAGEEND" /\ Len(text) = 1 /\ state.pending.active -> PageEnd(state)
         [] verb \in {"START", "DONE", "ERROR"} /\ Complete(text) ->
              [state EXCEPT !.download_status = verb, !.download_active = @ /\ verb = "START",
                            !.files.browser_download = IF verb = "DONE" THEN verb ELSE @]
         [] OTHER -> state

\* A unit of input: the newline ends a line, which is dispatched and removed.
Feed(state, unit) ==
  IF unit = Newline THEN Dispatch([state EXCEPT !.wire = <<>>], state.wire)
  ELSE [state EXCEPT !.wire = Append(@, unit)]

\* Reads at most Take units, of which those beyond the room are lost.
ui_poll_services ==
  /\ tcp.buffer # <<>>
  /\ LET taken == Smaller(Take, Len(tcp.buffer))
         room  == WireSize - 1 - Len(ui.wire)
         read  == SubSeq(tcp.buffer, 1, Smaller(taken, room))
     IN  /\ tcp' = [tcp EXCEPT !.buffer = SubSeq(@, taken + 1, Len(@))]
         /\ ui' = FoldLeft(Feed, ui, read)
  /\ UNCHANGED <<boot, host, asked>>

-----------------------------------------------------------------------------
(* The system *)

Init ==
  /\ session \in Sessions
  /\ gateway_ready = FALSE /\ bridge_attempted = FALSE
  /\ tcp = Idle
  /\ link = <<>> /\ requests = <<>> /\ outgoing = <<>> /\ sent = 0
  /\ bridge = "serving" /\ asked = 0 /\ resent = 0 /\ unanswered = FALSE
  /\ ui = [url |-> Home, selected |-> TRUE, scroll |-> 0, page |-> Screen("welcome"),
           browser_status |-> "starting", loading |-> FALSE,
           history |-> <<>>, index |-> 0, navigating |-> FALSE,
           pending |-> [active |-> FALSE, url |-> NoUrl, lines |-> <<>>],
           wire |-> <<>>, ai_response |-> "connect first", ai_waiting |-> FALSE,
           download_status |-> "none", download_active |-> FALSE,
           files |-> [ai_last |-> "old", browser_last |-> "old", browser_download |-> "old"]]

Next ==
  \/ handle_arp \/ network_tcp_connect \/ handle_tcp
  \/ dispatch \/ HostSend \/ HostResend \/ HostClose
  \/ \E u \in session.typed : TypeAddress(u)
  \/ \E i \in DOMAIN Links(ui.page) : browser_open_url(Links(ui.page)[i])
  \/ browser_navigate \/ browser_go_back \/ browser_go_forward
  \/ ai_send_prompt \/ browser_download \/ ui_poll_services

\* The kernel loop and the host keep running; the user need not do anything.
Fairness ==
  /\ WF_vars(handle_tcp) /\ WF_vars(ui_poll_services)
  /\ WF_vars(dispatch \/ HostSend \/ HostClose)

Spec == Init /\ [][Next]_vars /\ Fairness

-----------------------------------------------------------------------------
(* Properties *)

\* "A half-delivered page never overwrites the one on screen" (ui.c:117-119):
\* a page that PAGEEND put on the screen has every line the bridge sent for it,
\* once and in order, however the answer was cut into segments and reads and
\* whichever segments came twice.
VisibleWhole == ui.page.kind = "page" => ui.page = Page(ui.page.url)

\* The current entry of the history is the page on the screen, after
\* redirects, Back and Forward, refused requests and a full history
\* (browser_history_record, and the update at PAGEEND).
HistoryCurrent ==
  /\ ui.history # <<>> => ui.index \in 0..(Len(ui.history) - 1)
  /\ Len(ui.history) <= HistorySize
  /\ ui.page.kind = "page" => Current(ui) = ui.page.url

\* The same where the receive buffer never overflowed.  handle_tcp advertises
\* the whole buffer as its window whatever is in it, and acknowledges what it
\* has no room for; once that has happened a page may lack lines.
WholeUnlessDropped == ~tcp.dropped => VisibleWhole

\* A page that is loading comes to an end, unless its handler raised on the
\* host, the connection was lost, or the receive buffer overflowed, which may
\* take PAGEEND or the newline before it: then browser_loading is never set
\* back, and navigation refuses every further request.
PageLoads ==
  ui.loading ~> (~ui.loading \/ unanswered \/ tcp.dropped \/ tcp.state = "CLOSED")
=============================================================================
