----------------------------- MODULE MCProcess ------------------------------
(* Instances of Process for TLC. *)
EXTENDS Process, TLC

Workload(calls_, pids, ticks) == [calls |-> calls_, pids |-> pids, ticks |-> ticks]
Safety == {Workload({"execve"}, 4, 0), Workload({"futex"}, 3, 0),
           Workload({"seccomp", "execve", "kill"}, 2, 0)}
Liveness == {Workload({"nanosleep"}, 3, 1), Workload({"nanosleep", "futex"}, 2, 2),
             Workload({"kill"}, 2, 0)}
Symmetry == Permutations(Spaces)
=============================================================================
