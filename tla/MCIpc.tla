------------------------------- MODULE MCIpc --------------------------------
(* Instances of Ipc for TLC. *)
EXTENDS Ipc, TLC

Workload(kinds, fds, objs, bytes, ticks) ==
  [kinds |-> kinds, fds |-> fds, objects |-> objs, bytes |-> bytes, ticks |-> ticks]
Programs == {Workload({"pipe"}, 3, 1, 4, 0), Workload({"socket"}, 2, 1, 2, 0),
             Workload({"timer"}, 2, 1, 0, 4), Workload({"event", "epoll"}, 2, 1, 0, 0),
             Workload({"memfd"}, 4, 2, 0, 0)}
Symmetry == Permutations(Processes)
=============================================================================
