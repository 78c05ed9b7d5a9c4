------------------------------- MODULE Pthread ------------------------------
(***************************************************************************)
(* The mutex, condition variable and once of user/pthread_compat.c, over   *)
(* the futex call of kernel/process.c.                                     *)
(*                                                                         *)
(* Each atomic builtin is a step, and so is each system call: the timer    *)
(* preempts user code between any two.  The threads are clients of a       *)
(* bounded buffer built in the way condition variables are meant to be     *)
(* used; before that each of them passes through pthread_once.             *)
(* rwlocks are aliases of the mutex.                                       *)
(***************************************************************************)
EXTENDS Integers, FiniteSets

CONSTANTS
  Producers,    \* threads that put an item, by slot number
  Consumers,    \* threads that take items, by slot number
  Puts,         \* how many items a producer puts
  Modulus       \* the condition's sequence counter wraps at 2^32

Threads == Producers \cup Consumers
Objects == {"mutex", "cond", "once"}
Everyone == Cardinality(Threads)

ASSUME ThreadsAssumption ==
  Threads \subseteq Nat /\ IsFiniteSet(Threads) /\ Producers \cap Consumers = {}
ASSUME CounterAssumption == Puts \in Nat /\ Modulus \in Nat \ {0}

VARIABLES
  word,        \* the three futex words
  pc,          \* where each thread is
  blocked,     \* the word a thread is blocked on (BLOCKED_FUTEX), or "none"
  expected,    \* pthread_cond_wait's local variable
  items,       \* the client's predicate, guarded by the mutex
  left,        \* items a producer has yet to put
  initialized  \* how often the once initializer ran

pthread_vars == <<word, pc, blocked, expected, items, left, initialized>>

Goto(t, l) == pc' = [pc EXCEPT ![t] = l]
At(t, l) == pc[t] = l /\ blocked[t] = "none"
Set(object, v) == word' = [word EXCEPT ![object] = v]
Client == <<expected, items, left, initialized>>

-----------------------------------------------------------------------------
(* futex *)

\* Mutant: the kernel blocks without comparing the word.
futex_wait_Blind(t, object, value, l) ==
  /\ blocked' = [blocked EXCEPT ![t] = object]
  /\ Goto(t, l)
  /\ UNCHANGED <<word, Client>>

\* FUTEX_WAIT: blocks while the word still has the value.  There is no timeout.
futex_wait(t, object, value, l) ==
  /\ blocked' = [blocked EXCEPT ![t] = IF word[object] = value THEN object ELSE @]
  /\ Goto(t, l)
  /\ UNCHANGED <<word, Client>>

\* FUTEX_WAKE: the first count waiters in slot order.
futex_wake(t, object, count, l) ==
  LET waiters == {u \in Threads : blocked[u] = object}
  IN /\ blocked' = [u \in Threads |->
          IF u \in waiters /\ Cardinality({v \in waiters : v < u}) < count
          THEN "none" ELSE blocked[u]]
     /\ Goto(t, l)
     /\ UNCHANGED <<word, Client>>

-----------------------------------------------------------------------------
(* The mutex: 0 free, 1 locked, 2 locked with possible waiters *)

\* The uncontended compare-and-exchange.
LockFast(t) ==
  /\ At(t, "lock")
  /\ IF word["mutex"] = 0 THEN Set("mutex", 1) /\ Goto(t, "locked")
                          ELSE UNCHANGED word /\ Goto(t, "contend")
  /\ UNCHANGED <<blocked, Client>>

LockExchange(t) ==
  /\ At(t, "contend")
  /\ Set("mutex", 2)
  /\ Goto(t, IF word["mutex"] = 0 THEN "locked" ELSE "sleep")
  /\ UNCHANGED <<blocked, Client>>

LockSleep(t) == At(t, "sleep") /\ futex_wait(t, "mutex", 2, "contend")

\* Mutant: unlock stores 0 only if the exchange saw no waiters.
Release_Keeps(t, from, quiet, wake) ==
  /\ At(t, from)
  /\ Set("mutex", IF word["mutex"] > 1 THEN 2 ELSE 0)
  /\ Goto(t, IF word["mutex"] > 1 THEN wake ELSE quiet)
  /\ UNCHANGED <<blocked, Client>>

\* The exchange of pthread_mutex_unlock.
Release(t, from, quiet, wake) ==
  /\ At(t, from)
  /\ Set("mutex", 0)
  /\ Goto(t, IF word["mutex"] > 1 THEN wake ELSE quiet)
  /\ UNCHANGED <<blocked, Client>>

Unlock(t) == \/ Release(t, "unlock", "unlocked", "unlock_wake")
             \/ At(t, "unlock_wake") /\ futex_wake(t, "mutex", 1, "unlocked")

-----------------------------------------------------------------------------
(* The condition variable *)

\* pthread_cond_wait reads the sequence while it still holds the mutex.
CondLoad(t) ==
  /\ At(t, "cond_wait")
  /\ expected' = [expected EXCEPT ![t] = word["cond"]]
  /\ Goto(t, "cond_unlock")
  /\ UNCHANGED <<word, blocked, items, left, initialized>>

CondRelease(t) == \/ Release(t, "cond_unlock", "cond_sleep", "cond_wake")
                  \/ At(t, "cond_wake") /\ futex_wake(t, "mutex", 1, "cond_sleep")

CondSleep(t) == At(t, "cond_sleep") /\ futex_wait(t, "cond", expected[t], "lock")

\* Mutant: the sequence is not advanced.
SignalAdd_Silent(t) ==
  /\ At(t, "signal")
  /\ Goto(t, "signal_wake")
  /\ UNCHANGED <<word, blocked, Client>>

\* pthread_cond_signal.
SignalAdd(t) ==
  /\ At(t, "signal")
  /\ Set("cond", (word["cond"] + 1) % Modulus)
  /\ Goto(t, "signal_wake")
  /\ UNCHANGED <<blocked, Client>>

SignalWake(t) == At(t, "signal_wake") /\ futex_wake(t, "cond", 1, "signalled")

\* pthread_cond_broadcast differs in the number of threads it wakes.
BroadcastWake(t) ==
  At(t, "signal_wake") /\ futex_wake(t, "cond", Everyone, "signalled")

-----------------------------------------------------------------------------
(* pthread_once *)

\* Mutant: the control word is tested and set in two steps.
OnceEnter_Torn(t) ==
  \/ /\ At(t, "once")
     /\ UNCHANGED word
     /\ Goto(t, IF word["once"] = 0 THEN "once_claim" ELSE "once_test")
     /\ UNCHANGED <<blocked, Client>>
  \/ /\ At(t, "once_claim")
     /\ Set("once", 1)
     /\ Goto(t, "initializer")
     /\ UNCHANGED <<blocked, Client>>

OnceEnter(t) ==
  /\ At(t, "once")
  /\ IF word["once"] = 0 THEN Set("once", 1) /\ Goto(t, "initializer")
                         ELSE UNCHANGED word /\ Goto(t, "once_test")
  /\ UNCHANGED <<blocked, Client>>

Initialize(t) ==
  /\ At(t, "initializer")
  /\ initialized' = initialized + 1
  /\ Goto(t, "once_store")
  /\ UNCHANGED <<word, blocked, expected, items, left>>

OnceStore(t) == \/ /\ At(t, "once_store")
                   /\ Set("once", 2)
                   /\ Goto(t, "once_wake")
                   /\ UNCHANGED <<blocked, Client>>
                \/ At(t, "once_wake") /\ futex_wake(t, "once", Everyone, "ready")

OnceTest(t) == \/ /\ At(t, "once_test")
                  /\ Goto(t, IF word["once"] = 2 THEN "ready" ELSE "once_sleep")
                  /\ UNCHANGED <<word, blocked, Client>>
               \/ At(t, "once_sleep") /\ futex_wait(t, "once", 1, "once_test")

-----------------------------------------------------------------------------
(* The clients *)

\* A producer puts an item, unlocks and signals; a consumer waits for one.
Put(t) ==
  /\ t \in Producers /\ At(t, "locked")
  /\ items' = items + 1
  /\ left' = [left EXCEPT ![t] = @ - 1]
  /\ Goto(t, "unlock")
  /\ UNCHANGED <<word, blocked, expected, initialized>>

Take(t) ==
  /\ t \in Consumers /\ At(t, "locked")
  /\ items > 0
  /\ items' = items - 1
  /\ Goto(t, "unlock")
  /\ UNCHANGED <<word, blocked, expected, left, initialized>>

Await(t) ==
  /\ t \in Consumers /\ At(t, "locked")
  /\ items = 0
  /\ Goto(t, "cond_wait")
  /\ UNCHANGED <<word, blocked, Client>>

\* Between calls: a producer signals after each put and goes on while it has
\* items left; a consumer starts over.
Proceed(t) ==
  /\ \/ At(t, "ready") /\ Goto(t, "lock")
     \/ At(t, "unlocked") /\ Goto(t, IF t \in Producers THEN "signal" ELSE "lock")
     \/ At(t, "signalled") /\ left[t] > 0 /\ Goto(t, "lock")
  /\ UNCHANGED <<word, blocked, Client>>

-----------------------------------------------------------------------------
(* The specification *)

PthreadInit ==
  /\ word = [o \in Objects |-> 0]
  /\ pc = [t \in Threads |-> "once"]
  /\ blocked = [t \in Threads |-> "none"]
  /\ expected = [t \in Threads |-> 0]
  /\ items = 0
  /\ left = [t \in Producers |-> Puts]
  /\ initialized = 0

Step(t) ==
  \/ LockFast(t) \/ LockExchange(t) \/ LockSleep(t) \/ Unlock(t)
  \/ CondLoad(t) \/ CondRelease(t) \/ CondSleep(t)
  \/ SignalAdd(t) \/ SignalWake(t) \/ BroadcastWake(t)
  \/ OnceEnter(t) \/ Initialize(t) \/ OnceStore(t) \/ OnceTest(t)
  \/ Put(t) \/ Take(t) \/ Await(t) \/ Proceed(t)

PthreadNext == \E t \in Threads : Step(t)

\* The round robin of process_schedule gives every thread that is not blocked
\* its turn.
PthreadSpec ==
  PthreadInit /\ [][PthreadNext]_pthread_vars /\ \A t \in Threads : WF_pthread_vars(Step(t))

-----------------------------------------------------------------------------
(* Properties *)

\* The threads between the return of pthread_mutex_lock and the exchange of
\* the unlock that follows it.
Holders ==
  {t \in Threads : pc[t] \in {"locked", "unlock", "cond_wait", "cond_unlock"}}

\* At most one thread holds the mutex, also across pthread_cond_wait, and the
\* word is 0 exactly when nobody does.
MutualExclusion ==
  /\ \A t, u \in Holders : t = u
  /\ word["mutex"] = 0 <=> Holders = {}

\* The initializer runs once, and no caller returns before it has finished.
InitializedOnce ==
  /\ initialized <= 1
  /\ \A t \in Threads :
       pc[t] \notin {"once", "once_claim", "once_test", "once_sleep", "initializer"}
         => initialized = 1

\* No wake-up is lost: an item that is there is taken.  It would stay for ever
\* if a signal could fall between a consumer's test and its sleep.
ItemsTaken == items > 0 ~> items = 0

\* Every thread gets through pthread_once.
OnceReturns ==
  \A t \in Threads : pc[t] = "once" ~> pc[t] = "ready"
=============================================================================
