------------------------------ MODULE Process ------------------------------
(***************************************************************************)
(* The process table of NovaOS: kernel/process.c's slots, scheduler, clone, *)
(* execve, exit, wait4, futex, sleep, signals and the strict sandbox.      *)
(*                                                                         *)
(* There is one CPU.  A handler runs with interrupts masked and every      *)
(* system call leaves user mode for the kernel loop, so a handler followed *)
(* by the return to the loop (current_slot = -1) is one action.  Between   *)
(* two handlers the selected process runs user code: UserStore, or the     *)
(* timer interrupt that preempts it.                                       *)
(*                                                                         *)
(* Registers, exit codes and file descriptors are left out.  The memory of *)
(* an address space is the few words that futexes and thread ids live in.  *)
(***************************************************************************)
EXTENDS Integers, FiniteSets, FiniteSetsExt

CONSTANTS
  NSlots,       \* MAX_PROCESSES
  Spaces,       \* AddressSpace objects the heap can hold
  NoSpace,      \* the NULL AddressSpace pointer
  Addresses,    \* mapped user words; 0 is the null pointer
  Stores,       \* values user code stores in a word
  Signals,      \* signal numbers in use, a subset of 1..31
  MaxDelay,     \* bound on a requested delay, in ticks
  Workloads     \* what the programs of a boot may do, and its bounds

ASSUME SlotsAssumption == NSlots \in Nat \ {0}
ASSUME SpacesAssumption == IsFiniteSet(Spaces) /\ NoSpace \notin Spaces
ASSUME WordsAssumption ==
  /\ Addresses \subseteq Nat \ {0}
  /\ Stores \subseteq Nat
  /\ Signals \subseteq 1..31
ASSUME WorkloadsAssumption ==
  /\ Workloads \subseteq
       [calls : SUBSET {"execve", "futex", "nanosleep", "kill", "seccomp"},
        pids : Nat, ticks : Nat]
  /\ MaxDelay \in Nat

VARIABLES
  processes,        \* the process table
  references,       \* AddressSpace.references; 0 is a freed object
  word,             \* the user words of every address space
  current_slot,     \* the slot in user mode, or -1
  last_slot,        \* the slot scheduled last
  next_pid,
  scheduler_ticks,
  workload          \* the workload of this boot; it never changes

vars == <<processes, references, word, current_slot, last_slot, next_pid,
          scheduler_ticks, workload>>

calls == workload.calls      \* the optional system calls of the programs
MaxPid == workload.pids      \* bound on next_pid
MaxTicks == workload.ticks   \* bound on scheduler_ticks

-----------------------------------------------------------------------------
(* Slots *)

Slots == 0..(NSlots - 1)
Pids == 0..MaxPid
Words == {0} \cup Stores \cup Pids
Dispositions == {"default", "ignore", "handler"}

\* A slot after memset(process, 0, sizeof(*process)).
Zeroed ==
  [used |-> FALSE, state |-> "NONE", pid |-> 0, tgid |-> 0, parent_pid |-> 0,
   address_space |-> NoSpace, clear_child_tid |-> 0, futex_address |-> 0,
   wake_tick |-> 0, pending_signals |-> {},
   signal_actions |-> [n \in Signals |-> "default"],
   no_new_privs |-> FALSE, seccomp_strict |-> FALSE]

Used == {s \in Slots : processes[s].used}
InState(s, state) == s \in Used /\ processes[s].state = state
Blocked(s) == InState(s, "BLOCKED_FUTEX") \/ InState(s, "BLOCKED_SLEEP")
Zombies == {s \in Slots : InState(s, "ZOMBIE")}
process == processes[current_slot]

\* The references left once the slot's own one is released.
Without(s) ==
  LET space == processes[s].address_space IN
  IF space = NoSpace THEN references ELSE [references EXCEPT ![space] = @ - 1]

-----------------------------------------------------------------------------
(* Creating processes *)

\* Mutant: a zombie's slot is taken while another slot is free.
reserve_slot_Eager ==
  LET reapable == Zombies \ {current_slot} IN
  IF reapable # {} THEN {Min(reapable)}
  ELSE IF Used # Slots THEN {Min(Slots \ Used)} ELSE {}

\* The slot reserve_slot returns, if any: the first unused one, otherwise
\* the first zombie other than the caller, whose exit nobody has waited for.
reserve_slot ==
  LET reapable == Zombies \ {current_slot} IN
  IF Used # Slots THEN {Min(Slots \ Used)}
  ELSE IF reapable # {} THEN {Min(reapable)} ELSE {}

\* A reference more on a space, the first one of a new space included.
Attach(refs, space) == [refs EXCEPT ![space] = @ + 1]

\* process_load from the kernel loop: a new program in a new address space.
Load ==
  /\ current_slot = -1
  /\ next_pid <= MaxPid
  /\ \E s \in reserve_slot, space \in Spaces :
       /\ Without(s)[space] = 0
       /\ processes' = [processes EXCEPT ![s] =
            [Zeroed EXCEPT !.used = TRUE, !.state = "RUNNING",
                           !.pid = next_pid, !.tgid = next_pid,
                           !.address_space = space]]
       /\ references' = Attach(Without(s), space)
       /\ word' = [word EXCEPT ![space] = [a \in Addresses |-> 0]]
  /\ next_pid' = next_pid + 1
  /\ UNCHANGED <<current_slot, last_slot, scheduler_ticks, workload>>

\* process_load failing after reserve_slot: the slot is reset all the same.
LoadFail ==
  /\ current_slot = -1
  /\ \E s \in reserve_slot :
       /\ processes' = [processes EXCEPT ![s] = Zeroed]
       /\ references' = Without(s)
  /\ UNCHANGED <<word, current_slot, last_slot, next_pid, scheduler_ticks, workload>>

\* The system call returns to the kernel loop.
Return == current_slot' = -1

\* A call the strict filter lets through only for unfiltered processes.
Call == current_slot # -1 /\ ~process.seccomp_strict

\* Mutant: the child starts without the restriction of its parent.
Child_Unrestricted(share, space, child_tid) ==
  [process EXCEPT !.state = "RUNNING", !.pid = next_pid,
     !.tgid = IF share THEN @ ELSE next_pid,
     !.parent_pid = process.pid, !.address_space = space,
     !.clear_child_tid = child_tid, !.futex_address = 0, !.wake_tick = 0,
     !.pending_signals = {}, !.no_new_privs = FALSE]

\* The record clone_current fills in for the child.
Child(share, space, child_tid) ==
  [process EXCEPT !.state = "RUNNING", !.pid = next_pid,
     !.tgid = IF share THEN @ ELSE next_pid,
     !.parent_pid = process.pid, !.address_space = space,
     !.clear_child_tid = child_tid, !.futex_address = 0, !.wake_tick = 0,
     !.pending_signals = {}]

\* The words of a memory after clone stored the child's pid at an address
\* (0: nowhere).
Stored(memory, address, value) ==
  [a \in Addresses |-> IF a = address THEN value ELSE memory[a]]

\* clone, fork and vfork.  parent_tid and child_tid are 0 without the flag.
\* A pid that cannot be stored is skipped.
Clone(share, parent_tid, child_tid) ==
  /\ Call
  /\ next_pid <= MaxPid
  /\ \E s \in reserve_slot, space \in Spaces :
       /\ IF share THEN space = process.address_space
                   ELSE Without(s)[space] = 0
       /\ processes' = [processes EXCEPT ![s] = Child(share, space, child_tid)]
       /\ references' = Attach(Without(s), space)
       /\ \E p \in {0, parent_tid}, c \in {0, child_tid} :
            LET parent == Stored(word[process.address_space], p, next_pid)
                child == IF share THEN parent ELSE word[process.address_space]
            IN word' = [[word EXCEPT ![process.address_space] = parent]
                          EXCEPT ![space] = Stored(child, c, next_pid)]
  /\ next_pid' = next_pid + 1
  /\ Return
  /\ UNCHANGED <<last_slot, scheduler_ticks, workload>>

\* clone failing in address_space_clone, or in allocate_thread_tls when the
\* pid is already drawn.  The zombie reserve_slot reset stays reset.
CloneFail ==
  /\ Call
  /\ \E s \in reserve_slot :
       /\ processes' = [processes EXCEPT ![s] = Zeroed]
       /\ references' = Without(s)
  /\ next_pid' \in {next_pid, next_pid + 1} \cap 1..(MaxPid + 1)
  /\ Return
  /\ UNCHANGED <<word, last_slot, scheduler_ticks, workload>>

\* Mutant: the old space is not released.
Exec_Leak ==
  /\ Call
  /\ \E space \in Spaces :
       /\ references[space] = 0
       /\ processes' = [processes EXCEPT ![current_slot].address_space = space,
                                         ![current_slot].pending_signals = {}]
       /\ references' = Attach(references, space)
       /\ word' = [word EXCEPT ![space] = [a \in Addresses |-> 0]]
  /\ Return
  /\ UNCHANGED <<last_slot, next_pid, scheduler_ticks, workload>>

\* execve: the replacement is built before the old space is released.  The
\* thread group, the parent, clear_child_tid and the handlers stay.
Exec ==
  /\ Call
  /\ \E space \in Spaces :
       /\ references[space] = 0
       /\ processes' = [processes EXCEPT ![current_slot].address_space = space,
                                         ![current_slot].pending_signals = {}]
       /\ references' = Attach(Without(current_slot), space)
       /\ word' = [word EXCEPT ![space] = [a \in Addresses |-> 0]]
  /\ Return
  /\ UNCHANGED <<last_slot, next_pid, scheduler_ticks, workload>>

-----------------------------------------------------------------------------
(* Ending processes *)

\* The waiters finish_process wakes for one that ends.
Joiners(table, s) ==
  {w \in Slots :
     /\ table[w].used /\ table[w].state = "BLOCKED_FUTEX"
     /\ table[w].address_space = table[s].address_space
     /\ table[w].futex_address = table[s].clear_child_tid}

\* Mutant: only a waiter whose own child ends is woken.
Finished_ParentOnly(table, ending) ==
  [w \in Slots |->
     IF w \in ending THEN [table[w] EXCEPT !.state = "ZOMBIE"]
     ELSE IF \E s \in ending : w \in Joiners(table, s)
                               /\ table[s].parent_pid = table[w].pid
          THEN [table[w] EXCEPT !.state = "RUNNING"] ELSE table[w]]

\* The table after finish_process for each of the ending slots.
Finished(table, ending) ==
  [w \in Slots |->
     IF w \in ending THEN [table[w] EXCEPT !.state = "ZOMBIE"]
     ELSE IF \E s \in ending : w \in Joiners(table, s)
          THEN [table[w] EXCEPT !.state = "RUNNING"] ELSE table[w]]

\* The words finish_process clears.
Cleared(ending) ==
  [space \in Spaces |-> [a \in Addresses |->
     IF \E s \in ending : /\ processes[s].address_space = space
                          /\ processes[s].clear_child_tid = a
     THEN 0 ELSE word[space][a]]]

\* A word that cannot be written (unmapped, read-only, no frame for a copy)
\* is skipped without a trace; the waiters are woken all the same.
Finish(ending) ==
  /\ processes' = Finished(processes, ending)
  /\ \E written \in SUBSET ending : word' = Cleared(written)
  /\ UNCHANGED <<references, next_pid, scheduler_ticks, last_slot, workload>>

\* exit, the native exit call, and an exception user code cannot recover from.
Exit == current_slot # -1 /\ Finish({current_slot}) /\ Return

\* exit_group: every slot of the group, zombies included.
ExitGroup ==
  /\ current_slot # -1
  /\ Finish({s \in Used : processes[s].tgid = process.tgid})
  /\ Return

\* The children wait4(pid) can return.
Waitable(pid) ==
  {s \in Zombies : /\ processes[s].parent_pid = process.pid
                   /\ pid \in {-1, processes[s].pid}}

\* wait4 finding a zombie child; otherwise it only returns an error.
Wait4(pid) ==
  /\ Call
  /\ Waitable(pid) # {}
  /\ LET child == Min(Waitable(pid)) IN
       /\ processes' = [processes EXCEPT ![child] = Zeroed]
       /\ references' = Without(child)
  /\ Return
  /\ UNCHANGED <<word, last_slot, next_pid, scheduler_ticks, workload>>

-----------------------------------------------------------------------------
(* Blocking and waking *)

SetTidAddress(address) ==
  /\ Call
  /\ processes' = [processes EXCEPT ![current_slot].clear_child_tid = address]
  /\ Return
  /\ UNCHANGED <<references, word, last_slot, next_pid, scheduler_ticks, workload>>

\* The tick a delay asks for; -1 is no timeout, and also a timeout pointer
\* that faults after the caller is marked blocked.
Deadline(delay) == IF delay = -1 THEN 0 ELSE scheduler_ticks + delay + 1

\* FUTEX_WAIT on a word that still has the expected value.
FutexWait(address, value, delay) ==
  /\ Call
  /\ word[process.address_space][address] = value
  /\ Deadline(delay) <= MaxTicks
  /\ processes' = [processes EXCEPT
       ![current_slot].state = "BLOCKED_FUTEX",
       ![current_slot].futex_address = address,
       ![current_slot].wake_tick = Deadline(delay)]
  /\ Return
  /\ UNCHANGED <<references, word, last_slot, next_pid, scheduler_ticks, workload>>

\* FUTEX_WAKE: the first `count` waiters of this space, in slot order.
FutexWake(address, count) ==
  /\ Call
  /\ LET waiters == {w \in Slots :
                       /\ InState(w, "BLOCKED_FUTEX")
                       /\ processes[w].address_space = process.address_space
                       /\ processes[w].futex_address = address}
         woken == {w \in waiters : Cardinality({v \in waiters : v < w}) < count}
     IN processes' = [w \in Slots |-> IF w \in woken
                        THEN [processes[w] EXCEPT !.state = "RUNNING"]
                        ELSE processes[w]]
  /\ Return
  /\ UNCHANGED <<references, word, last_slot, next_pid, scheduler_ticks, workload>>

Nanosleep(delay) ==
  /\ Call
  /\ Deadline(delay) <= MaxTicks
  /\ processes' = [processes EXCEPT
       ![current_slot].state = "BLOCKED_SLEEP",
       ![current_slot].wake_tick = Deadline(delay)]
  /\ Return
  /\ UNCHANGED <<references, word, last_slot, next_pid, scheduler_ticks, workload>>

-----------------------------------------------------------------------------
(* Signals and the sandbox *)

\* kill: the slot holding the pid, blocked and zombie ones included.
Kill(pid, signal) ==
  /\ Call
  /\ \E s \in Used :
       /\ processes[s].pid = pid
       /\ processes' = [processes EXCEPT ![s].pending_signals = @ \cup {signal}]
  /\ Return
  /\ UNCHANGED <<references, word, last_slot, next_pid, scheduler_ticks, workload>>

RtSigaction(signal, disposition) ==
  /\ Call
  /\ processes' = [processes EXCEPT
       ![current_slot].signal_actions[signal] = disposition]
  /\ Return
  /\ UNCHANGED <<references, word, last_slot, next_pid, scheduler_ticks, workload>>

SetNoNewPrivs ==
  /\ Call
  /\ processes' = [processes EXCEPT ![current_slot].no_new_privs = TRUE]
  /\ Return
  /\ UNCHANGED <<references, word, last_slot, next_pid, scheduler_ticks, workload>>

Seccomp ==
  /\ Call
  /\ process.no_new_privs
  /\ processes' = [processes EXCEPT ![current_slot].seccomp_strict = TRUE]
  /\ Return
  /\ UNCHANGED <<references, word, last_slot, next_pid, scheduler_ticks, workload>>

\* sched_yield, and every call that returns an error or only reads.
Yield ==
  /\ current_slot # -1
  /\ Return
  /\ UNCHANGED <<processes, references, word, last_slot, next_pid, scheduler_ticks,
                 workload>>

\* User code writes a word of its memory.
UserStore(address, value) ==
  /\ current_slot # -1
  /\ word' = [word EXCEPT ![process.address_space][address] = value]
  /\ UNCHANGED <<processes, references, current_slot, last_slot, next_pid,
                 scheduler_ticks, workload>>

-----------------------------------------------------------------------------
(* The scheduler *)

\* The timer interrupt.  In user mode it also preempts the process.  Time
\* stands still at MaxTicks; no deadline is later.
Tick ==
  /\ scheduler_ticks' = Min({scheduler_ticks + 1, MaxTicks})
  /\ Return
  /\ UNCHANGED <<processes, references, word, last_slot, next_pid, workload>>

\* Mutant: only futex waiters are looked at.
wake_timers_FutexOnly ==
  [s \in Slots |->
     IF /\ InState(s, "BLOCKED_FUTEX")
        /\ processes[s].wake_tick # 0
        /\ scheduler_ticks >= processes[s].wake_tick
     THEN [processes[s] EXCEPT !.state = "RUNNING", !.wake_tick = 0]
     ELSE processes[s]]

\* The table after wake_timers.
wake_timers ==
  [s \in Slots |->
     IF /\ Blocked(s)
        /\ processes[s].wake_tick # 0
        /\ scheduler_ticks >= processes[s].wake_tick
     THEN [processes[s] EXCEPT !.state = "RUNNING", !.wake_tick = 0]
     ELSE processes[s]]

Runnable(table) == {s \in Slots : table[s].used /\ table[s].state = "RUNNING"}

\* Mutant: the search starts at slot 0 every time.
NextSlot_First(runnable) == Min(runnable)

\* The first runnable slot after last_slot, around the table.
NextSlot(runnable) ==
  CHOOSE s \in runnable : \A t \in runnable :
    (s - last_slot - 1) % NSlots <= (t - last_slot - 1) % NSlots

\* process_schedule with nothing to run.
Idle ==
  /\ current_slot = -1
  /\ Runnable(wake_timers) = {}
  /\ processes' = wake_timers
  /\ UNCHANGED <<references, word, current_slot, last_slot, next_pid,
                 scheduler_ticks, workload>>

\* process_schedule: the lowest pending signal is taken off; the selected
\* process runs, with a handler frame pushed if there is a handler.
Dispatch ==
  /\ current_slot = -1
  /\ Runnable(wake_timers) # {}
  /\ LET s == NextSlot(Runnable(wake_timers))
         pending == wake_timers[s].pending_signals
     IN /\ pending # {} => wake_timers[s].signal_actions[Min(pending)] # "default"
        /\ processes' = [wake_timers EXCEPT ![s].pending_signals =
                           IF pending = {} THEN {} ELSE pending \ {Min(pending)}]
        /\ current_slot' = s
        /\ last_slot' = s
  /\ UNCHANGED <<references, word, next_pid, scheduler_ticks, workload>>

\* process_schedule when the signal ends the selected process: by default, or
\* because the handler frame does not fit on its stack.  It returns without
\* selecting another one.
DispatchKill ==
  /\ current_slot = -1
  /\ Runnable(wake_timers) # {}
  /\ LET s == NextSlot(Runnable(wake_timers))
         pending == wake_timers[s].pending_signals
     IN /\ pending # {}
        /\ wake_timers[s].signal_actions[Min(pending)] # "ignore"
        /\ processes' = Finished([wake_timers EXCEPT
                           ![s].pending_signals = @ \ {Min(pending)}], {s})
        /\ \E written \in SUBSET {s} : word' = Cleared(written)
  /\ UNCHANGED <<references, current_slot, last_slot, next_pid, scheduler_ticks, workload>>

process_schedule == Idle \/ Dispatch \/ DispatchKill

-----------------------------------------------------------------------------
(* The specification *)

Init ==
  /\ processes = [s \in Slots |-> Zeroed]
  /\ references = [space \in Spaces |-> 0]
  /\ word = [space \in Spaces |-> [a \in Addresses |-> 0]]
  /\ current_slot = -1
  /\ last_slot = -1
  /\ next_pid = 1
  /\ scheduler_ticks = 0
  /\ workload \in Workloads

\* The addresses clone and set_tid_address are given; 0 is none.
TidAddresses == {0} \cup {a \in Addresses : "futex" \in calls}

Lifecycle ==
  \/ Load
  \/ LoadFail
  \/ \E share \in BOOLEAN, parent_tid, child_tid \in TidAddresses :
       Clone(share, parent_tid, child_tid)
  \/ CloneFail
  \/ "execve" \in calls /\ Exec
  \/ Exit
  \/ ExitGroup
  \/ \E pid \in Pids \cup {-1} : Wait4(pid)

Blocking ==
  \/ "futex" \in calls /\ \E a \in TidAddresses : SetTidAddress(a)
  \/ "futex" \in calls /\ \E a \in Addresses, v \in Words, d \in -1..MaxDelay :
                            FutexWait(a, v, d)
  \/ "futex" \in calls /\ \E a \in Addresses, count \in 1..NSlots : FutexWake(a, count)
  \/ "futex" \in calls /\ \E a \in Addresses, v \in Stores : UserStore(a, v)
  \/ "nanosleep" \in calls /\ \E d \in 0..MaxDelay : Nanosleep(d)

Control ==
  \/ "kill" \in calls /\ \E pid \in Pids, n \in Signals : Kill(pid, n)
  \/ "kill" \in calls /\ \E n \in Signals, d \in Dispositions : RtSigaction(n, d)
  \/ "seccomp" \in calls /\ SetNoNewPrivs
  \/ "seccomp" \in calls /\ Seccomp
  \/ Yield

Next == Lifecycle \/ Blocking \/ Control \/ Tick \/ process_schedule

\* The timer keeps ticking, and the kernel loop keeps calling the scheduler.
Fairness ==
  /\ WF_vars(Tick)
  /\ WF_vars(process_schedule)

Spec == Init /\ [][Next]_vars /\ Fairness
-----------------------------------------------------------------------------
(* Properties *)

\* The reference count of an address space is the number of slots, zombies
\* included, that point to it: it is destroyed with its last holder and never
\* before (clone, execve, wait4 and the failures of each).
ReferencesExact ==
  \A space \in Spaces :
    references[space] =
      Cardinality({s \in Used : processes[s].address_space = space})

\* The slot still holds the process it held before the step.
Kept(s) == processes'[s].used /\ processes'[s].pid = processes[s].pid

\* The status of a process that ended waits in the table for wait4 of its
\* parent, and is given up to reserve_slot only when no slot is free.  A
\* process that has not ended never loses its slot.
ZombieKept ==
  [][\A s \in Used : ~Kept(s) =>
       /\ s \in Zombies
       /\ \/ Used = Slots
          \/ current_slot # -1 /\ process.pid = processes[s].parent_pid]_vars

\* When a process ends, nobody in its address space is left blocked on its
\* clear_child_tid word (finish_process), whichever way it ends.
JoinersWoken ==
  [][\A s \in Used \ Zombies :
       (Kept(s) /\ processes'[s].state = "ZOMBIE") =>
         \A w \in Slots :
           ~(/\ processes'[w].used
             /\ processes'[w].state = "BLOCKED_FUTEX"
             /\ processes'[w].address_space = processes[s].address_space
             /\ processes'[w].futex_address = processes[s].clear_child_tid)]_vars

\* What no step may do to the sandbox: lift a restriction, start a child
\* with fewer than its parent, or create or signal a process when strict.
Confined ==
  /\ \A s \in Used : Kept(s) =>
       /\ processes[s].no_new_privs => processes'[s].no_new_privs
       /\ processes[s].seccomp_strict => processes'[s].seccomp_strict
       /\ processes'[s].seccomp_strict => processes[s].no_new_privs
  /\ current_slot # -1 =>
       \A s \in Slots :
         (processes'[s].used /\ processes'[s].pid = next_pid) =>
           /\ process.no_new_privs => processes'[s].no_new_privs
           /\ ~process.seccomp_strict
  /\ (current_slot # -1 /\ process.seccomp_strict) =>
       \A s \in Used : processes'[s].pending_signals
                        \subseteq processes[s].pending_signals

\* The sandbox has no way out: restrictions are never lifted, not by execve
\* either, a child starts with those of its parent, and a strict process
\* neither creates a process nor signals one.
NoEscape == [][Confined]_vars

\* The round robin starves nobody: a runnable process gets the CPU, or stops
\* being runnable (a signal ends it, its group exits).
RunnableRuns ==
  \A s \in Slots :
    InState(s, "RUNNING") ~> (current_slot = s \/ ~InState(s, "RUNNING"))

\* A process blocked with a deadline, asleep or in a futex wait, does not stay
\* blocked for ever, and a sleeper always has a deadline.
DeadlinesFire ==
  \A s \in Slots :
    (Blocked(s) /\ (processes[s].wake_tick # 0 \/ InState(s, "BLOCKED_SLEEP")))
      ~> ~Blocked(s)
=============================================================================
