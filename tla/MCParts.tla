------------------------------- MODULE MCParts ------------------------------
(* Four small parts that share no state, for TLC: the kernel heap, the page   *)
(* index of an address space, the network adapter's rings and the pthread     *)
(* library, one in each behaviour.                                            *)
EXTENDS PageIndex, Heap, E1000, Pthread

VARIABLE part

SevenPages == 0..6

\* The threads of a behaviour that is about another part have ended.
Ended ==
  /\ word = [o \in Objects |-> 0] /\ items = 0 /\ initialized = 1
  /\ pc = [t \in Threads |-> "done"] /\ blocked = [t \in Threads |-> "none"]
  /\ expected = [t \in Threads |-> 0] /\ left = [t \in Producers |-> 0]

PartsInit ==
  /\ part \in {"index", "heap", "e1000", "pthread"}
  /\ Init /\ heap_init /\ e1000_init
  /\ IF part = "pthread" THEN PthreadInit ELSE Ended

IndexPart == part = "index" /\ Next /\ UNCHANGED <<heap_vars, e1000_vars, pthread_vars>>
HeapPart == part = "heap" /\ HeapNext /\ UNCHANGED <<vars, e1000_vars, pthread_vars>>
E1000Part == part = "e1000" /\ E1000Next /\ UNCHANGED <<vars, heap_vars, pthread_vars>>
PthreadPart(t) == part = "pthread" /\ Step(t) /\ UNCHANGED <<vars, heap_vars, e1000_vars>>

PartsNext ==
  /\ IndexPart \/ HeapPart \/ E1000Part \/ \E t \in Threads : PthreadPart(t)
  /\ UNCHANGED part

PartsSpec ==
  /\ PartsInit /\ [][PartsNext]_<<vars, heap_vars, e1000_vars, pthread_vars, part>>
  /\ \A t \in Threads : WF_pthread_vars(PthreadPart(t))
=============================================================================
