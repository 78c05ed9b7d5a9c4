------------------------------- MODULE Input --------------------------------
(***************************************************************************)
(* drivers/input.c: the bytes of the PS/2 keyboard and mouse and the events *)
(* input_poll makes of them.  Both devices share one controller, so their  *)
(* bytes interleave; kernel_main asks for one event at a time.             *)
(*                                                                         *)
(* A byte of the mouse is its value.  A movement across the screen takes   *)
(* several packets; the buttons change in the last of them.  A scan code   *)
(* keeps its name and whether the key was released.                        *)
(***************************************************************************)
EXTENDS Integers, Sequences, SequencesExt

CONSTANTS
  Width, Height,   \* of the screen, in pixels
  normal_map,      \* what a key types,
  shifted_map,     \* and with shift, for the keys that type something
  Swapped          \* the letters, and each in the other case

PollBytes == 32

VARIABLES
  mouse_line,      \* bytes the mouse has yet to send
  keyboard_line,   \* bytes the keyboard has yet to send
  port,            \* bytes waiting in the controller, oldest first
  decoder,         \* the static variables of input.c
  hand,            \* history: where the user's hand has moved the pointer, and
                   \* what the decoder can know of that: see MoveHand
  keys,            \* history: the modifiers as the user sees them
  owed             \* history: for each device, the events the UI still lacks

inputs == <<mouse_line, keyboard_line, port, decoder, hand, keys, owed>>

-----------------------------------------------------------------------------
(* The bytes *)

Bit(byte, n) == (byte \div (2 ^ n)) % 2 = 1
Flag(n, set) == IF set THEN 2 ^ n ELSE 0

\* The three bytes of a report.  A movement is a number of nine bits, its sign
\* among the flags of the first byte and the rest in a byte of its own.
Packet(left, overflow, dx, dy) ==
  <<Flag(0, left) + Flag(3, TRUE) + Flag(4, dx < 0) + Flag(5, dy < 0) + Flag(6, overflow),
    dx % 256, dy % 256>>

Extended == {"Home", "Left", "Right", "End", "Up", "Down", "Delete"}
Special == {"Escape", "Backspace", "Tab", "Enter"}
Down(code) == [code |-> code, released |-> FALSE]
Up(code) == [code |-> code, released |-> TRUE]
Prefix == Down("E0")

\* The bytes of a stroke: the extended keys have a prefix on both.
Stroke(code) ==
  IF code \in Extended THEN <<Prefix, Down(code), Prefix, Up(code)>>
  ELSE <<Down(code), Up(code)>>

NoEvent == [type |-> "NONE"]
MouseEvent(x, y, left) == [type |-> "MOUSE", x |-> x, y |-> y, left |-> left]
KeyEvent(character, key) == [type |-> "KEY", character |-> character, key |-> key]
NoCharacter == ""

-----------------------------------------------------------------------------
(* The decoder *)

Within(v, limit) == IF v < 0 THEN 0 ELSE IF v >= limit THEN limit - 1 ELSE v
Decoded(d, event) == [decoder |-> d, event |-> event]

\* The conversion to int8_t: the sign flag of the first byte is not looked at.
int8(byte) == IF byte >= 128 THEN byte - 256 ELSE byte

\* Mutant: a byte that cannot start a packet is taken for its first.
process_mouse_Unaligned(d, data) ==
  IF Len(d.packet) < 2 THEN Decoded([d EXCEPT !.packet = Append(@, data)], NoEvent)
  ELSE LET empty == [d EXCEPT !.packet = <<>>]
           moved == [empty EXCEPT !.x = Within(@ + int8(d.packet[2]), Width),
                                  !.y = Within(@ - int8(data), Height),
                                  !.left = Bit(d.packet[1], 0)]
       IN  IF Bit(d.packet[1], 6) \/ Bit(d.packet[1], 7) THEN Decoded(empty, NoEvent)
           ELSE Decoded(moved, MouseEvent(moved.x, moved.y, moved.left))

process_mouse(d, data) ==
  IF d.packet = <<>> /\ ~Bit(data, 3) THEN Decoded(d, NoEvent)
  ELSE IF Len(d.packet) < 2 THEN Decoded([d EXCEPT !.packet = Append(@, data)], NoEvent)
  ELSE LET empty == [d EXCEPT !.packet = <<>>]
           moved == [empty EXCEPT !.x = Within(@ + int8(d.packet[2]), Width),
                                  !.y = Within(@ - int8(data), Height),
                                  !.left = Bit(d.packet[1], 0)]
       IN  IF Bit(d.packet[1], 6) \/ Bit(d.packet[1], 7) THEN Decoded(empty, NoEvent)
           ELSE Decoded(moved, MouseEvent(moved.x, moved.y, moved.left))

\* The character of a key, given the modifiers; none if it types nothing.
Typed(code, shift, caps) ==
  IF code \notin DOMAIN normal_map THEN NoCharacter
  ELSE LET c == IF shift THEN shifted_map[code] ELSE normal_map[code]
       IN  IF caps /\ c \in DOMAIN Swapped THEN Swapped[c] ELSE c

process_keyboard(d, data) ==
  LET plain == [d EXCEPT !.extended = FALSE]
      c     == Typed(data.code, d.left_shift \/ d.right_shift, d.caps)
  IN  IF data = Prefix THEN Decoded([d EXCEPT !.extended = TRUE], NoEvent)
      ELSE IF data.code = "LeftShift"
      THEN Decoded([plain EXCEPT !.left_shift = ~data.released], NoEvent)
      ELSE IF data.code = "RightShift"
      THEN Decoded([plain EXCEPT !.right_shift = ~data.released], NoEvent)
      ELSE IF data.released THEN Decoded(plain, NoEvent)
      ELSE IF data.code = "CapsLock" THEN Decoded([plain EXCEPT !.caps = ~@], NoEvent)
      ELSE IF d.extended
      THEN Decoded(plain, IF data.code \in Extended THEN KeyEvent(NoCharacter, data.code)
                          ELSE NoEvent)
      ELSE IF data.code \in Special THEN Decoded(d, KeyEvent(NoCharacter, data.code))
      ELSE Decoded(d, IF c = NoCharacter THEN NoEvent ELSE KeyEvent(c, "None"))

\* Takes bytes until an event is complete, none is left or 32 were taken.
input_poll ==
  LET Take1(r, byte) ==
        IF r.event # NoEvent THEN r
        ELSE LET next == IF byte.mouse THEN process_mouse(r.decoder, byte.data)
                         ELSE process_keyboard(r.decoder, byte.data)
             IN  [decoder |-> next.decoder, event |-> next.event, taken |-> r.taken + 1]
      here  == SubSeq(port, 1, IF Len(port) < PollBytes THEN Len(port) ELSE PollBytes)
  IN  FoldLeft(Take1, [decoder |-> decoder, event |-> NoEvent, taken |-> 0], here)

-----------------------------------------------------------------------------
(* The user and the two devices *)

FromMouse(bytes) == [i \in DOMAIN bytes |-> [mouse |-> TRUE, data |-> bytes[i]]]
FromKeyboard(bytes) == [i \in DOMAIN bytes |-> [mouse |-> FALSE, data |-> bytes[i]]]

\* The movements a mouse makes of a distance: as many as have to be for none to
\* be longer than reach.
Size(d) == IF d < 0 THEN -d ELSE d
Steps(dx, dy, reach) ==
  LET far  == IF Size(dx) > Size(dy) THEN Size(dx) ELSE Size(dy)
      n    == IF far = 0 THEN 1 ELSE (far + reach - 1) \div reach
      Part(d, k) == (d * k) \div n - (d * (k - 1)) \div n
  IN  [k \in 1..n |-> <<Part(dx, k), Part(dy, k)>>]

\* The hand after one report.  hand.exact: every byte of the mouse so far was
\* part of a packet and every movement fitted an int8_t, so the pointer is where
\* the hand moved it.  hand.doubt: 2 while the decoder may have taken a byte of
\* a movement for a first one; 1 after a report whose movements cannot be taken
\* for a first byte, or one that overflowed with the button; 0 after the next.
Reported(h, left, overflow, step) ==
  LET calm == ~Bit(step[1], 3) /\ ~Bit(step[2], 3)
  IN  [x |-> IF overflow THEN h.x ELSE Within(h.x + step[1], Width),
       y |-> IF overflow THEN h.y ELSE Within(h.y - step[2], Height),
       left |-> left,
       exact |-> h.exact /\ (overflow \/ \A i \in 1..2 : step[i] \in -128..127),
       doubt |-> IF h.doubt = 2 THEN (IF calm THEN 1 ELSE 2)
                 ELSE IF overflow THEN (IF left = h.left THEN h.doubt ELSE 1) ELSE 0]

\* The hand moves to a spot and the button goes down or up.  A report of an
\* overflow moves nothing.
MoveHand(spot, left, overflow, reach) ==
  LET steps == IF overflow THEN <<<<255, 255>>>>
               ELSE Steps(spot[1] - hand.x, hand.y - spot[2], reach)
      n     == Len(steps)
      button(k) == IF k = n THEN left ELSE hand.left
      after[k \in 0..n] ==
        IF k = 0 THEN hand ELSE Reported(after[k - 1], button(k), overflow, steps[k])
      packets == [k \in 1..n |-> Packet(button(k), overflow, steps[k][1], steps[k][2])]
      events  == [k \in 1..n |-> MouseEvent(after[k].x, after[k].y, after[k].left)]
  IN  /\ mouse_line' = mouse_line \o FlattenSeq(packets)
      /\ hand' = after[n]
      /\ owed' = IF overflow THEN owed ELSE [owed EXCEPT !.MOUSE = @ \o events]
      /\ UNCHANGED <<keyboard_line, port, decoder, keys>>

\* Shift is held or let go; caps lock is struck.
Modifier(code) ==
  /\ keyboard_line' = keyboard_line \o
       CASE code = "CapsLock" -> Stroke(code)
         [] keys.shift = code -> <<Up(code)>>
         [] OTHER -> <<Down(code)>>
  /\ keys' = CASE code = "CapsLock" -> [keys EXCEPT !.caps = ~@]
               [] keys.shift = code -> [keys EXCEPT !.shift = "None"]
               [] OTHER -> [keys EXCEPT !.shift = code]
  /\ code = "CapsLock" \/ keys.shift \in {"None", code}
  /\ UNCHANGED <<mouse_line, port, decoder, hand, owed>>

\* A letter is upper case if exactly one of shift and caps lock is on.
Meant(code) ==
  IF code \in Extended \cup Special THEN KeyEvent(NoCharacter, code)
  ELSE LET shift == keys.shift # "None"
           letter == normal_map[code] \in DOMAIN Swapped
       IN  KeyEvent(IF shift # (letter /\ keys.caps) THEN shifted_map[code]
                    ELSE normal_map[code], "None")

StrikeKey(code) ==
  /\ keyboard_line' = keyboard_line \o Stroke(code)
  /\ owed' = [owed EXCEPT !.KEY = Append(@, Meant(code))]
  /\ UNCHANGED <<mouse_line, port, decoder, hand, keys>>

\* The devices send byte by byte, or all they have.
DeviceSend(n) ==
  /\ \/ /\ mouse_line # <<>>
        /\ LET k == IF n < Len(mouse_line) THEN n ELSE Len(mouse_line)
           IN  /\ port' = port \o FromMouse(SubSeq(mouse_line, 1, k))
               /\ mouse_line' = SubSeq(mouse_line, k + 1, Len(mouse_line))
        /\ UNCHANGED keyboard_line
     \/ /\ keyboard_line # <<>>
        /\ LET k == IF n < Len(keyboard_line) THEN n ELSE Len(keyboard_line)
           IN  /\ port' = port \o FromKeyboard(SubSeq(keyboard_line, 1, k))
               /\ keyboard_line' = SubSeq(keyboard_line, k + 1, Len(keyboard_line))
        /\ UNCHANGED mouse_line
  /\ UNCHANGED <<decoder, hand, keys, owed>>

\* What is owed after the UI got an event: one that was not next stays visible.
Paid(event) ==
  [owed EXCEPT ![event.type] = IF @ # <<>> /\ Head(@) = event THEN Tail(@)
                               ELSE Append(@, event)]

\* input_init: the pointer is in the middle.  Its last loop empties the port
\* after reports were enabled, and may take the first bytes of a packet.
InputInit(rest) ==
  /\ mouse_line = rest
  /\ keyboard_line = <<>> /\ port = <<>>
  /\ owed = [MOUSE |-> <<>>, KEY |-> <<>>]
  /\ decoder = [packet |-> <<>>, x |-> Width \div 2, y |-> Height \div 2, left |-> FALSE,
                left_shift |-> FALSE, right_shift |-> FALSE, caps |-> FALSE,
                extended |-> FALSE]
  /\ hand = [x |-> Width \div 2, y |-> Height \div 2, left |-> FALSE,
             exact |-> ~\E i \in DOMAIN rest : Bit(rest[i], 3),
             doubt |-> IF \E i \in DOMAIN rest : Bit(rest[i], 3) THEN 2 ELSE 0]
  /\ keys = [shift |-> "None", caps |-> FALSE]

-----------------------------------------------------------------------------
(* Properties *)

\* Once the devices have nothing left to send, the UI has had exactly the
\* events the user caused on each, in their order, and the pointer is where the
\* hand moved it: however the bytes of the two devices interleave (process_mouse
\* and process_keyboard), after reports that overflowed, and after a packet
\* whose start input_init took.  Two things displace the pointer for good, and
\* then only the keys, the packets and the button are right: a movement beyond
\* an int8_t, and a rest of a packet with bit 3 set, which passes for a first
\* byte.  From the latter the decoder recovers with the first report in whose
\* movements bit 3 is clear, a click without a movement for one, and the button
\* is right again with the report after that.
InputExact ==
  mouse_line = <<>> /\ keyboard_line = <<>> /\ port = <<>> =>
    /\ owed.KEY = <<>>
    /\ hand.exact => owed.MOUSE = <<>> /\ <<decoder.x, decoder.y>> = <<hand.x, hand.y>>
    /\ hand.doubt < 2 => decoder.packet = <<>>
    /\ hand.doubt = 0 => decoder.left = hand.left
=============================================================================
