-------------------------------- MODULE E1000 -------------------------------
(***************************************************************************)
(* The network adapter's driver (drivers/e1000.c) and the adapter: two      *)
(* rings of descriptors in memory that both read and write.                 *)
(*                                                                         *)
(* The adapter owns the descriptors from its head register up to the tail   *)
(* register and runs beside the kernel, so each store of the driver that it *)
(* can see is a step.  A frame is its number, a descriptor its status bit   *)
(* and the frame in its buffer.  The driver polls and never interrupts.     *)
(***************************************************************************)
EXTENDS Integers, Sequences

CONSTANTS
  RX_COUNT, TX_COUNT,   \* descriptors of the two rings
  MaxFrames             \* bound on the frames in each direction

ASSUME RingAssumption == RX_COUNT \in Nat \ {0, 1} /\ TX_COUNT \in Nat \ {0, 1}

VARIABLES
  rx, tx,      \* the rings: descriptors, buffers, registers, the driver's index
               \* and how far the driver (step) and the adapter (busy) are
  stored,      \* history: frames the adapter stored
  delivered,   \* history: what e1000_receive returned
  accepted,    \* history: frames e1000_send took
  wire         \* history: what the adapter put on the wire

e1000_vars == <<rx, tx, stored, delivered, accepted, wire>>

Ring(count, status, tail) ==
  [status |-> [i \in 0..(count - 1) |-> status], buffer |-> [i \in 0..(count - 1) |-> 0],
   head |-> 0, tail |-> tail, index |-> 0, step |-> "idle", busy |-> FALSE]

\* setup_receive and setup_transmit.
e1000_init ==
  /\ rx = Ring(RX_COUNT, 0, RX_COUNT - 1)
  /\ tx = Ring(TX_COUNT, 1, 0)
  /\ stored = 0 /\ delivered = << >> /\ accepted = 0 /\ wire = << >>

-----------------------------------------------------------------------------
(* e1000_receive *)

\* The descriptor is looked at and its frame copied.
ReceiveCopy ==
  /\ rx.step = "idle" /\ rx.status[rx.index] = 1
  /\ delivered' = Append(delivered, rx.buffer[rx.index])
  /\ rx' = [rx EXCEPT !.step = "clear"]
  /\ UNCHANGED <<tx, stored, accepted, wire>>

ReceiveClear ==
  /\ rx.step = "clear"
  /\ rx' = [rx EXCEPT !.status[rx.index] = 0, !.step = "release"]
  /\ UNCHANGED <<tx, stored, delivered, accepted, wire>>

\* The descriptor is given back: the tail register names it.
ReceiveRelease ==
  /\ rx.step = "release"
  /\ rx' = [rx EXCEPT !.tail = rx.index, !.index = (@ + 1) % RX_COUNT, !.step = "idle"]
  /\ UNCHANGED <<tx, stored, delivered, accepted, wire>>

-----------------------------------------------------------------------------
(* e1000_send; when the descriptor does not become free it returns false and  *)
(* changes nothing                                                            *)

\* Mutant: the descriptor is not waited for.
SendCopy_Unchecked ==
  /\ tx.step = "idle" /\ accepted < MaxFrames
  /\ tx' = [tx EXCEPT !.buffer[tx.index] = accepted + 1, !.step = "clear"]
  /\ UNCHANGED <<rx, stored, delivered, accepted, wire>>

SendCopy ==
  /\ tx.step = "idle" /\ accepted < MaxFrames
  /\ tx.status[tx.index] = 1
  /\ tx' = [tx EXCEPT !.buffer[tx.index] = accepted + 1, !.step = "clear"]
  /\ UNCHANGED <<rx, stored, delivered, accepted, wire>>

SendClear ==
  /\ tx.step = "clear"
  /\ tx' = [tx EXCEPT !.status[tx.index] = 0, !.step = "release"]
  /\ UNCHANGED <<rx, stored, delivered, accepted, wire>>

SendRelease ==
  /\ tx.step = "release"
  /\ LET next == (tx.index + 1) % TX_COUNT
     IN  tx' = [tx EXCEPT !.tail = next, !.index = next, !.step = "idle"]
  /\ accepted' = accepted + 1
  /\ UNCHANGED <<rx, stored, delivered, wire>>

-----------------------------------------------------------------------------
(* The adapter.  A frame that arrives when head and tail meet is lost. *)

StoreFrame ==
  /\ rx.head # rx.tail /\ ~rx.busy /\ stored < MaxFrames
  /\ rx' = [rx EXCEPT !.buffer[rx.head] = stored + 1, !.busy = TRUE]
  /\ stored' = stored + 1
  /\ UNCHANGED <<tx, delivered, accepted, wire>>

StoreDone ==
  /\ rx.busy
  /\ rx' = [rx EXCEPT !.status[rx.head] = 1, !.head = (@ + 1) % RX_COUNT, !.busy = FALSE]
  /\ UNCHANGED <<tx, stored, delivered, accepted, wire>>

TransmitFrame ==
  /\ tx.head # tx.tail /\ ~tx.busy
  /\ wire' = Append(wire, tx.buffer[tx.head])
  /\ tx' = [tx EXCEPT !.busy = TRUE]
  /\ UNCHANGED <<rx, stored, delivered, accepted>>

TransmitDone ==
  /\ tx.busy
  /\ tx' = [tx EXCEPT !.status[tx.head] = 1, !.head = (@ + 1) % TX_COUNT, !.busy = FALSE]
  /\ UNCHANGED <<rx, stored, delivered, accepted, wire>>

E1000Next ==
  \/ ReceiveCopy \/ ReceiveClear \/ ReceiveRelease
  \/ SendCopy \/ SendClear \/ SendRelease
  \/ StoreFrame \/ StoreDone \/ TransmitFrame \/ TransmitDone

E1000Spec == e1000_init /\ [][E1000Next]_e1000_vars

-----------------------------------------------------------------------------
(* Properties *)

\* However the rings wrap and whoever is ahead, the kernel gets the frames the
\* adapter stored and the wire those e1000_send took, each once and in order.
\* The adapter rests only when it has sent them all, with one exception: the
\* driver filled the whole ring, the registers meet, and a full ring looks
\* empty (e1000_send waits for its own descriptor only).
FramesExact ==
  /\ \A k \in DOMAIN delivered : delivered[k] = k
  /\ \A k \in DOMAIN wire : wire[k] = k
  /\ Len(delivered) <= stored
  /\ tx.head = tx.tail /\ ~tx.busy => accepted - Len(wire) \in {0, TX_COUNT}
  /\ rx.head = rx.index /\ rx.step = "idle" /\ ~rx.busy =>
       stored = Len(delivered)
=============================================================================
