----------------------------- MODULE ProcessProofs --------------------------
(***************************************************************************)
(* Proofs about Process, for any number of slots, spaces and words: an     *)
(* address space counts its holders, nobody leaves the sandbox, an exit    *)
(* status waits for its parent, and a thread that ends wakes its joiners.  *)
(***************************************************************************)
EXTENDS Process, FiniteSetTheorems, TLAPS

-----------------------------------------------------------------------------
(* Numbers and sets *)

\* A nonempty set of numbers has a least one.
LEMMA LeastNatural ==
  ASSUME NEW S, S \subseteq Nat, S # {}
  PROVE  \E x \in S : \A y \in S : x <= y
PROOF
  <1> DEFINE R == {ss \in Nat \X Nat : ss[1] < ss[2]}
  <1>1. IsWellFoundedOn(R, Nat)
    BY NatLessThanWellFounded, Zenon DEF OpToRel
  <1>2. \E x \in S : \A y \in S : <<y, x>> \notin R
    <2> HIDE DEF R
    <2> QED
      BY <1>1, WFMin, Zenon
  <1>3. \A x, y \in Nat : <<y, x>> \notin R => x <= y
    OBVIOUS
  <1> QED
    BY <1>2, <1>3, Zenon

-----------------------------------------------------------------------------
(* The inductive invariant *)

States == {"NONE", "RUNNING", "ZOMBIE", "BLOCKED_FUTEX", "BLOCKED_SLEEP"}

Records ==
  [used : BOOLEAN, state : States, pid : Int, tgid : Int, parent_pid : Int,
   address_space : Spaces \cup {NoSpace}, clear_child_tid : Int,
   futex_address : Int, wake_tick : Int, pending_signals : SUBSET Signals,
   signal_actions : [Signals -> Dispositions],
   no_new_privs : BOOLEAN, seccomp_strict : BOOLEAN]

Types ==
  /\ processes \in [Slots -> Records]
  /\ references \in [Spaces -> Int]
  /\ current_slot \in {-1} \cup Used
  /\ last_slot \in Int
  /\ next_pid \in Nat
  /\ scheduler_ticks \in Nat
  /\ workload \in Workloads

\* A slot in use has an address space and a pid that was drawn before; the
\* strict filter needs no_new_privs.
SlotsFilled ==
  \A s \in Slots :
    /\ processes[s].used <=> processes[s].address_space \in Spaces
    /\ processes[s].used => processes[s].pid < next_pid
    /\ processes[s].seccomp_strict => processes[s].no_new_privs

Holders(space) == {s \in Slots : processes[s].address_space = space}

CountsExact == \A space \in Spaces : references[space] = Cardinality(Holders(space))

TableInv == Types /\ SlotsFilled /\ CountsExact

-----------------------------------------------------------------------------
(* Choosing slots *)

\* Min of a nonempty set of slots is one of them.
LEMMA MinSlot ==
  ASSUME NEW S, S \subseteq Slots, S # {}
  PROVE  Min(S) \in S
PROOF
  <1>1. S \subseteq Nat
    BY SlotsAssumption DEF Slots
  <1>2. \E x \in S : \A y \in S : x <= y
    BY <1>1, LeastNatural, Zenon
  <1> QED
    BY <1>2, Zenon DEF Min

\* reserve_slot returns a slot, if anything.
LEMMA ReservedSlot ==
  reserve_slot \subseteq Slots
PROOF
  <1> DEFINE reapable == Zombies \ {current_slot}
  <1>1. Slots \ Used \subseteq Slots /\ reapable \subseteq Slots /\ Used \subseteq Slots
    BY Zenon DEF Used, Zombies
  <1>2. Used # Slots => Min(Slots \ Used) \in Slots
    <2> SUFFICES ASSUME Used # Slots PROVE Min(Slots \ Used) \in Slots
      BY Zenon
    <2>1. Slots \ Used # {}
      BY <1>1, Zenon
    <2> QED
      BY <1>1, <2>1, MinSlot, Zenon
  <1>3. reapable # {} => Min(reapable) \in Slots
    BY <1>1, MinSlot, Zenon
  <1> QED
    BY <1>2, <1>3, Zenon DEF reserve_slot

\* The slot the round robin selects is runnable.
LEMMA NextRunnable ==
  ASSUME NEW S, S \subseteq Slots, S # {}, last_slot \in Int
  PROVE  NextSlot(S) \in S
PROOF
  <1> DEFINE D(s) == (s - last_slot - 1) % NSlots
             Distances == {D(s) : s \in S}
  <1>1. \A s \in S : D(s) \in Nat
    BY SlotsAssumption DEF Slots
  <1>2. \E d \in Distances : \A e \in Distances : d <= e
    <2> HIDE DEF D
    <2> QED
      BY <1>1, LeastNatural, Zenon
  <1>3. \E s \in S : \A t \in S : D(s) <= D(t)
    BY <1>2, Zenon
  <1> QED
    BY <1>3, Zenon DEF NextSlot

-----------------------------------------------------------------------------
(* Steps that move no slot, and steps that move one *)

\* What a step of either kind leaves in order besides the table.
Rest ==
  /\ current_slot' \in {-1} \cup Used'
  /\ last_slot' \in Int
  /\ next_pid' \in Nat /\ next_pid <= next_pid'
  /\ scheduler_ticks' \in Nat
  /\ workload' = workload

\* What every step establishes.
Step == TableInv' /\ Confined

\* Every slot keeps its process, its address space and its restrictions, and
\* a strict process signals nobody.
Still ==
  /\ \A s \in Slots :
       /\ processes'[s].used = processes[s].used
       /\ processes'[s].pid = processes[s].pid
       /\ processes'[s].address_space = processes[s].address_space
       /\ processes[s].no_new_privs => processes'[s].no_new_privs
       /\ processes[s].seccomp_strict => processes'[s].seccomp_strict
       /\ processes'[s].seccomp_strict => processes[s].no_new_privs
  /\ (current_slot # -1 /\ process.seccomp_strict) =>
       \A s \in Slots : processes'[s].pending_signals \subseteq processes[s].pending_signals

\* A step that puts no process into a slot and takes none out keeps the
\* invariant.
LEMMA StillStep ==
  ASSUME TableInv, processes' \in [Slots -> Records], Still, Rest,
         references' = references
  PROVE  Step
PROOF
  <1>1. Types'
    BY Zenon DEF TableInv, Types, Rest
  <1>6. \A s \in Slots : processes[s].pid \in Int
    BY Zenon DEF TableInv, Types, Records
  <1>7. \A s \in Slots : processes[s].used => processes[s].pid < next_pid
    BY Zenon DEF TableInv, SlotsFilled
  <1>2. SlotsFilled'
    <2> SUFFICES ASSUME NEW s \in Slots
                 PROVE  /\ processes'[s].used <=> processes'[s].address_space \in Spaces
                        /\ processes'[s].used => processes'[s].pid < next_pid'
                        /\ processes'[s].seccomp_strict => processes'[s].no_new_privs
      BY Zenon DEF SlotsFilled, Slots
    <2>1. processes'[s].used <=> processes'[s].address_space \in Spaces
      BY Zenon DEF TableInv, SlotsFilled, Still
    <2>2. processes'[s].used => processes[s].pid < next_pid
      BY <1>7, Zenon DEF Still
    <2>3. processes'[s].used => processes[s].pid < next_pid'
      BY <1>6, <2>2 DEF TableInv, Types, Rest
    <2>4. processes'[s].pid = processes[s].pid
      BY Zenon DEF Still
    <2>5. processes'[s].seccomp_strict => processes'[s].no_new_privs
      BY Zenon DEF Still
    <2> QED
      BY <2>1, <2>3, <2>4, <2>5, Zenon
  <1>3. \A space \in Spaces : Holders(space)' = Holders(space)
    BY Zenon DEF Holders, Still
  <1>4. CountsExact'
    <2> SUFFICES ASSUME NEW space \in Spaces
                 PROVE  references'[space] = Cardinality(Holders(space)')
      BY Zenon DEF CountsExact
    <2> QED
      BY <1>3, Zenon DEF TableInv, CountsExact
  <1>5. Confined
    <2>1. \A s \in Slots : processes'[s].used => processes'[s].pid # next_pid
      BY <1>6, <1>7 DEF Still, TableInv, Types
    <2> QED
      BY <2>1, Zenon DEF Confined, Still, Used
  <1> QED
    BY <1>1, <1>2, <1>4, <1>5, Zenon DEF TableInv, Step

\* The references once slot s points to the space, or to none.
Counted(s, space) ==
  IF space = NoSpace THEN Without(s) ELSE Attach(Without(s), space)

\* Finitely many slots hold a space.
LEMMA HoldersFinite ==
  \A space : IsFiniteSet(Holders(space)) /\ Cardinality(Holders(space)) \in Nat
PROOF
  <1>1. IsFiniteSet(Slots)
    BY SlotsAssumption, FS_Interval DEF Slots
  <1>2. \A space : IsFiniteSet(Holders(space))
    BY <1>1, FS_Subset, Zenon DEF Holders
  <1> QED
    BY <1>2, FS_CardinalityType, Zenon

\* A slot that turns from its space to another one: the old space loses one
\* holder, then the new one gains one; they may be the same.
LEMMA MovedCounts ==
  ASSUME TableInv, NEW s \in Slots, NEW r \in Records,
         processes' = [processes EXCEPT ![s] = r],
         references' = Counted(s, r.address_space)
  PROVE  references' \in [Spaces -> Int] /\ CountsExact'
PROOF
  <1> DEFINE old == processes[s].address_space
             new == r.address_space
  <1>1. old \in Spaces \cup {NoSpace} /\ new \in Spaces \cup {NoSpace}
    BY Zenon DEF TableInv, Types, Records
  <1>2. references \in [Spaces -> Int]
    BY Zenon DEF TableInv, Types
  <1>3. /\ Without(s) \in [Spaces -> Int]
        /\ \A space \in Spaces :
             Without(s)[space] = references[space] - (IF space = old THEN 1 ELSE 0)
    BY <1>1, <1>2, SpacesAssumption DEF Without
  <1>4. /\ references' \in [Spaces -> Int]
        /\ \A space \in Spaces :
             references'[space] = references[space] - (IF space = old THEN 1 ELSE 0)
                                                    + (IF space = new THEN 1 ELSE 0)
    <2> HIDE DEF old, new
    <2> QED
      BY <1>1, <1>2, <1>3, SpacesAssumption DEF Counted, Attach, new
  <1>5. ASSUME NEW space \in Spaces
        PROVE  references'[space] = Cardinality(Holders(space)')
    <2> DEFINE Others == Holders(space) \ {s}
    <2>1. processes'[s].address_space = new
      BY Zenon DEF TableInv, Types
    <2>2. \A t \in Slots \ {s} : processes'[t] = processes[t]
      BY Zenon DEF TableInv, Types
    <2>3. Holders(space)' = IF new = space THEN Others \cup {s} ELSE Others
      BY <2>1, <2>2, Zenon DEF Holders
    <2>4. IsFiniteSet(Others)
          /\ Cardinality(Others) = IF s \in Holders(space) THEN Cardinality(Holders(space)) - 1
                                   ELSE Cardinality(Holders(space))
      BY HoldersFinite, FS_RemoveElement, Zenon
    <2>5. Cardinality(Others \cup {s}) = IF s \in Others THEN Cardinality(Others)
                                         ELSE Cardinality(Others) + 1
      BY <2>4, FS_AddElement, Zenon
    <2>6. s \notin Others /\ (s \in Holders(space) <=> old = space)
      BY Zenon DEF Holders
    <2>7. references[space] = Cardinality(Holders(space))
      BY Zenon DEF TableInv, CountsExact
    <2>8. Cardinality(Holders(space)) \in Nat
      BY HoldersFinite, Zenon
    <2>9. Cardinality(Holders(space)') = IF new = space THEN Cardinality(Others) + 1
                                         ELSE Cardinality(Others)
      <3> HIDE DEF Others, new
      <3> QED
        BY <2>3, <2>5, <2>6, Zenon
    <2>10. Cardinality(Others) = IF old = space THEN Cardinality(Holders(space)) - 1
                                 ELSE Cardinality(Holders(space))
      <3> HIDE DEF Others, old
      <3> QED
        BY <2>4, <2>6, Zenon
    <2> HIDE DEF Others, old, new
    <2> QED
      BY <1>4, <2>7, <2>8, <2>9, <2>10
  <1> QED
    BY <1>4, <1>5, Zenon DEF CountsExact

\* The record r may be put in slot s: it is unused, it is a new process with
\* the restrictions of its maker, or it is the process of the slot.
Fits(s, r) ==
  /\ r.used <=> r.address_space \in Spaces
  /\ r.seccomp_strict => r.no_new_privs
  /\ current_slot # -1 => ~process.seccomp_strict
  /\ r.used =>
       \/ /\ r.pid = next_pid
          /\ next_pid < next_pid'
          /\ current_slot # -1 => (process.no_new_privs => r.no_new_privs)
       \/ /\ processes[s].used
          /\ r.pid = processes[s].pid
          /\ r.no_new_privs = processes[s].no_new_privs
          /\ r.seccomp_strict = processes[s].seccomp_strict

\* A step that puts one record into one slot and counts both spaces keeps it.
LEMMA MovedStep ==
  ASSUME TableInv, NEW s \in Slots, NEW r \in Records, Fits(s, r),
         processes' = [processes EXCEPT ![s] = r],
         references' = Counted(s, r.address_space),
         Rest
  PROVE  Step
PROOF
  <1>1. references' \in [Spaces -> Int] /\ CountsExact'
    BY MovedCounts, Zenon
  <1>2. processes' \in [Slots -> Records]
    BY Zenon DEF TableInv, Types
  <1>3. Types'
    BY <1>1, <1>2, Zenon DEF TableInv, Types, Rest
  <1>4. processes'[s] = r /\ \A t \in Slots \ {s} : processes'[t] = processes[t]
    BY Zenon DEF TableInv, Types
  <1>5. ASSUME NEW t \in Slots
        PROVE  /\ processes[t].pid \in Int
               /\ processes[t].used => processes[t].pid < next_pid
               /\ processes[t].seccomp_strict => processes[t].no_new_privs
               /\ processes[t].used <=> processes[t].address_space \in Spaces
    BY Zenon DEF TableInv, Types, Records, SlotsFilled
  <1>6. next_pid \in Nat /\ next_pid' \in Nat /\ next_pid <= next_pid'
    BY Zenon DEF Rest, TableInv, Types
  <1>7. SlotsFilled'
    <2> SUFFICES ASSUME NEW t \in Slots
                 PROVE  /\ processes'[t].used <=> processes'[t].address_space \in Spaces
                        /\ processes'[t].used => processes'[t].pid < next_pid'
                        /\ processes'[t].seccomp_strict => processes'[t].no_new_privs
      BY Zenon DEF SlotsFilled, Slots
    <2>1. CASE t = s
      <3>1. r.used => r.pid < next_pid'
        BY <1>5, <1>6 DEF Fits
      <3> QED
        BY <1>4, <2>1, <3>1, Zenon DEF Fits
    <2>2. CASE t # s
      <3>1. processes[t].used => processes[t].pid < next_pid'
        BY <1>5, <1>6
      <3> QED
        BY <1>4, <1>5, <2>2, <3>1, Zenon
    <2> QED
      BY <2>1, <2>2, Zenon
  <1>8. Confined
    <2>1. ASSUME NEW t \in Used, Kept(t)
          PROVE  /\ processes[t].no_new_privs => processes'[t].no_new_privs
                 /\ processes[t].seccomp_strict => processes'[t].seccomp_strict
                 /\ processes'[t].seccomp_strict => processes[t].no_new_privs
      <3>1. t \in Slots /\ processes[t].used /\ processes'[t].used
            /\ processes'[t].pid = processes[t].pid
        BY <2>1, Zenon DEF Used, Kept
      <3>2. processes[t].pid # next_pid
        BY <1>5, <1>6, <3>1
      <3>3. CASE t = s
        <4>1. /\ r.no_new_privs = processes[s].no_new_privs
              /\ r.seccomp_strict = processes[s].seccomp_strict
          BY <1>4, <3>1, <3>2, <3>3, Zenon DEF Fits
        <4> QED
          BY <1>4, <1>5, <3>1, <3>3, <4>1, Zenon
      <3>4. CASE t # s
        BY <1>4, <1>5, <3>1, <3>4, Zenon
      <3> QED
        BY <3>3, <3>4, Zenon
    <2>2. ASSUME current_slot # -1, NEW t \in Slots, processes'[t].used,
                 processes'[t].pid = next_pid
          PROVE  process.no_new_privs => processes'[t].no_new_privs
      <3>1. t = s
        BY <1>4, <1>5, <1>6, <2>2
      <3>2. r.used /\ r.pid = next_pid /\ processes'[t] = r
        BY <1>4, <2>2, <3>1, Zenon
      <3>3. ~(processes[s].used /\ r.pid = processes[s].pid)
        BY <1>5, <1>6, <3>2
      <3> QED
        BY <2>2, <3>2, <3>3, Zenon DEF Fits
    <2>3. current_slot # -1 => ~process.seccomp_strict
      BY Zenon DEF Fits
    <2> QED
      BY <2>1, <2>2, <2>3, Zenon DEF Confined
  <1> QED
    BY <1>1, <1>3, <1>7, <1>8, Zenon DEF TableInv, Step

\* What reset_process_slot leaves.
LEMMA ZeroedRecord ==
  /\ Zeroed \in Records
  /\ Zeroed.used = FALSE /\ Zeroed.address_space = NoSpace
  /\ Zeroed.seccomp_strict = FALSE
PROOF
  BY DEF Zeroed, Records, States, Dispositions

\* A slot that is reset.
LEMMA ResetStep ==
  ASSUME TableInv, NEW s \in Slots,
         processes' = [processes EXCEPT ![s] = Zeroed],
         references' = Without(s),
         current_slot # -1 => ~process.seccomp_strict,
         Rest
  PROVE  Step
PROOF
  <1>1. /\ Zeroed \in Records
        /\ Zeroed.used = FALSE /\ Zeroed.address_space = NoSpace
        /\ Zeroed.seccomp_strict = FALSE
    BY ZeroedRecord, Zenon
  <1>2. Fits(s, Zeroed)
    BY <1>1, SpacesAssumption, Zenon DEF Fits
  <1>3. references' = Counted(s, Zeroed.address_space)
    BY <1>1, Zenon DEF Counted
  <1> QED
    BY <1>1, <1>2, <1>3, MovedStep, Zenon

-----------------------------------------------------------------------------
(* The actions *)

\* The running process.
LEMMA Current ==
  ASSUME TableInv, current_slot # -1
  PROVE  /\ current_slot \in Slots
         /\ process \in Records
         /\ process.used = TRUE
         /\ process.address_space \in Spaces
PROOF
  <1>1. current_slot \in Used
    BY Zenon DEF TableInv, Types
  <1>2. current_slot \in Slots /\ process.used
    BY <1>1, Zenon DEF Used, process
  <1>3. process \in Records
    BY <1>2, Zenon DEF TableInv, Types, process
  <1>4. process.used = TRUE
    BY <1>2, <1>3, Zenon DEF Records
  <1> QED
    BY <1>2, <1>3, <1>4, Zenon DEF TableInv, SlotsFilled, process

\* process_exec from the kernel: a program starts in a free slot.
LEMMA LoadInv == TableInv /\ Load => Step
PROOF
  <1> SUFFICES ASSUME TableInv, Load PROVE Step
    BY Zenon
  <1>1. PICK s \in reserve_slot, space \in Spaces :
          /\ processes' = [processes EXCEPT ![s] =
               [Zeroed EXCEPT !.used = TRUE, !.state = "RUNNING",
                              !.pid = next_pid, !.tgid = next_pid,
                              !.address_space = space]]
          /\ references' = Attach(Without(s), space)
    BY Zenon DEF Load
  <1>2. s \in Slots
    BY ReservedSlot, Zenon
  <1> DEFINE r == [Zeroed EXCEPT !.used = TRUE, !.state = "RUNNING",
                                 !.pid = next_pid, !.tgid = next_pid,
                                 !.address_space = space]
  <1>3. /\ r \in Records /\ r.used = TRUE /\ r.address_space = space /\ r.pid = next_pid
        /\ r.seccomp_strict = Zeroed.seccomp_strict
    <2>1. next_pid \in Int
      BY DEF TableInv, Types
    <2>2. Zeroed \in Records
      BY ZeroedRecord, Zenon
    <2> QED
      BY <2>1, <2>2, Zenon DEF Records, States
  <1>4. Rest
    BY DEF Load, Rest, TableInv, Types
  <1>5. next_pid < next_pid'
    BY DEF Load, TableInv, Types
  <1>6. references' = Counted(s, r.address_space)
    BY <1>1, <1>3, SpacesAssumption, Zenon DEF Counted
  <1> HIDE DEF r
  <1>7. processes' = [processes EXCEPT ![s] = r]
    BY <1>1, Zenon DEF r
  <1>8. current_slot = -1
    BY Zenon DEF Load
  <1>9. Fits(s, r)
    BY <1>3, <1>5, <1>8, ZeroedRecord, Zenon DEF Fits
  <1> QED
    BY <1>2, <1>3, <1>4, <1>6, <1>7, <1>9, MovedStep, Zenon

\* The start fails and the slot is given back.
LEMMA LoadFailInv == TableInv /\ LoadFail => Step
PROOF
  <1> SUFFICES ASSUME TableInv, LoadFail PROVE Step
    OBVIOUS
  <1>1. PICK s \in reserve_slot :
          processes' = [processes EXCEPT ![s] = Zeroed] /\ references' = Without(s)
    BY Zenon DEF LoadFail
  <1>2. s \in Slots
    BY ReservedSlot, Zenon
  <1>3. Rest /\ current_slot = -1
    BY DEF LoadFail, Rest, TableInv, Types
  <1> QED
    BY <1>1, <1>2, <1>3, ResetStep, Zenon

\* clone_current, as fork and as thread.
LEMMA CloneInv ==
  ASSUME TableInv, NEW share \in BOOLEAN, NEW p, NEW c \in TidAddresses,
         Clone(share, p, c)
  PROVE  Step
PROOF
  <1>1. PICK s \in reserve_slot, space \in Spaces :
          /\ processes' = [processes EXCEPT ![s] = Child(share, space, c)]
          /\ references' = Attach(Without(s), space)
    BY Zenon DEF Clone
  <1>2. s \in Slots
    BY ReservedSlot, Zenon
  <1>3. current_slot # -1
    BY Zenon DEF Clone, Call
  <1>4. c \in Int
    BY WordsAssumption DEF TidAddresses
  <1> DEFINE r == Child(share, space, c)
  <1>5. process \in Records /\ process.used = TRUE
    BY <1>3, Current, Zenon
  <1>6. /\ r \in Records /\ r.used = TRUE /\ r.address_space = space /\ r.pid = next_pid
        /\ r.no_new_privs = process.no_new_privs
        /\ r.seccomp_strict = process.seccomp_strict
    <2>1. next_pid \in Int
      BY DEF TableInv, Types
    <2>2. PICK group \in Int : r =
            [process EXCEPT !.state = "RUNNING", !.pid = next_pid, !.tgid = group,
               !.parent_pid = process.pid, !.address_space = space,
               !.clear_child_tid = c, !.futex_address = 0, !.wake_tick = 0,
               !.pending_signals = {}]
      <3>1. process.tgid \in Int
        BY <1>5, Zenon DEF Records
      <3> QED
        BY <2>1, <3>1, Zenon DEF Child
    <2>3. process.pid \in Int
      BY <1>5, Zenon DEF Records
    <2> DEFINE q == [process EXCEPT !.state = "RUNNING", !.pid = next_pid,
                       !.tgid = group, !.parent_pid = process.pid]
    <2>4. /\ q \in Records /\ q.used = TRUE /\ q.pid = next_pid
          /\ q.no_new_privs = process.no_new_privs
          /\ q.seccomp_strict = process.seccomp_strict
      BY <1>5, <2>1, <2>3, Zenon DEF Records, States
    <2>5. r = [q EXCEPT !.address_space = space, !.clear_child_tid = c,
                 !.futex_address = 0, !.wake_tick = 0, !.pending_signals = {}]
      BY <1>5, <2>2, Zenon
    <2> DEFINE t == [q EXCEPT !.address_space = space, !.clear_child_tid = c]
    <2> HIDE DEF q, r
    <2>6. /\ t \in Records /\ t.used = TRUE /\ t.pid = next_pid /\ t.address_space = space
          /\ t.no_new_privs = q.no_new_privs
          /\ t.seccomp_strict = q.seccomp_strict
      BY <1>4, <2>4, Zenon DEF Records
    <2>7. r = [t EXCEPT !.futex_address = 0, !.wake_tick = 0, !.pending_signals = {}]
      BY <2>4, <2>5, Zenon
    <2> HIDE DEF t
    <2>8. r \in Records
      <3>1. ASSUME NEW n \in Int, NEW none \in SUBSET Signals
            PROVE  [t EXCEPT !.futex_address = n, !.wake_tick = n,
                             !.pending_signals = none] \in Records
        BY <2>6, Zenon DEF Records
      <3>2. 0 \in Int /\ {} \in SUBSET Signals
        OBVIOUS
      <3>3. [t EXCEPT !.futex_address = 0, !.wake_tick = 0,
                      !.pending_signals = {}] \in Records
        BY <3>1, <3>2, Zenon
      <3> QED
        BY <2>7, <3>3, Zenon
    <2>9. /\ r.used = t.used /\ r.pid = t.pid /\ r.address_space = t.address_space
          /\ r.no_new_privs = t.no_new_privs
          /\ r.seccomp_strict = t.seccomp_strict
      BY <2>6, <2>7, Zenon DEF Records
    <2> QED
      BY <2>4, <2>6, <2>8, <2>9, Zenon
  <1>7. Rest
    BY DEF Clone, Return, Rest, TableInv, Types
  <1>8. next_pid < next_pid'
    BY DEF Clone, TableInv, Types
  <1>9. references' = Counted(s, r.address_space)
    BY <1>1, <1>6, SpacesAssumption, Zenon DEF Counted
  <1> HIDE DEF r
  <1>10. processes' = [processes EXCEPT ![s] = r]
    BY <1>1, Zenon DEF r
  <1>11. Fits(s, r)
    BY <1>6, <1>8, Zenon DEF Fits, Clone, Call
  <1> QED
    BY <1>2, <1>6, <1>7, <1>9, <1>10, <1>11, MovedStep, Zenon

\* clone_current fails after it took a slot.
LEMMA CloneFailInv == TableInv /\ CloneFail => Step
PROOF
  <1> SUFFICES ASSUME TableInv, CloneFail PROVE Step
    OBVIOUS
  <1>1. PICK s \in reserve_slot :
          processes' = [processes EXCEPT ![s] = Zeroed] /\ references' = Without(s)
    BY Zenon DEF CloneFail
  <1>2. s \in Slots
    BY ReservedSlot
  <1>3. next_pid' \in {next_pid, next_pid + 1}
    BY Zenon DEF CloneFail
  <1>4. Rest
    BY <1>3 DEF CloneFail, Return, Rest, TableInv, Types
  <1>5. ~process.seccomp_strict
    BY Zenon DEF CloneFail, Call
  <1> QED
    BY <1>1, <1>2, <1>4, <1>5, ResetStep, Zenon

\* execve replaces the address space.
LEMMA ExecInv == TableInv /\ Exec => Step
PROOF
  <1> SUFFICES ASSUME TableInv, Exec PROVE Step
    OBVIOUS
  <1>1. PICK space \in Spaces :
          /\ processes' = [processes EXCEPT ![current_slot].address_space = space,
                                            ![current_slot].pending_signals = {}]
          /\ references' = Attach(Without(current_slot), space)
    BY Zenon DEF Exec
  <1>2. current_slot \in Slots /\ process \in Records /\ process.used = TRUE
    BY Current, Zenon DEF Exec, Call
  <1> DEFINE r == [process EXCEPT !.address_space = space, !.pending_signals = {}]
  <1>3. /\ r \in Records /\ r.used = TRUE /\ r.address_space = space /\ r.pid = process.pid
        /\ r.no_new_privs = process.no_new_privs
        /\ r.seccomp_strict = process.seccomp_strict
    BY <1>2, Zenon DEF Records
  <1>4. ~process.seccomp_strict
    BY Zenon DEF Exec, Call
  <1>5. Rest
    BY DEF Exec, Return, Rest, TableInv, Types
  <1>7. references' = Counted(current_slot, r.address_space)
    BY <1>1, <1>3, SpacesAssumption, Zenon DEF Counted
  <1>8. processes' = [processes EXCEPT ![current_slot] = r]
    BY <1>1, <1>2, Zenon DEF process, TableInv, Types
  <1> HIDE DEF r
  <1>6. Fits(current_slot, r)
    BY <1>2, <1>3, <1>4, Zenon DEF Fits, process
  <1> QED
    BY <1>2, <1>3, <1>5, <1>6, <1>7, <1>8, MovedStep, Zenon

\* wait4 takes a zombie out of the table, or finds none.
LEMMA Wait4Inv ==
  ASSUME TableInv, NEW pid, Wait4(pid)
  PROVE  Step
PROOF
  <1> DEFINE child == Min(Waitable(pid))
  <1>1. Waitable(pid) \subseteq Slots /\ Waitable(pid) # {}
    BY Zenon DEF Wait4, Waitable, Zombies
  <1>2. child \in Slots
    BY <1>1, MinSlot, Zenon
  <1>3. processes' = [processes EXCEPT ![child] = Zeroed] /\ references' = Without(child)
    BY Zenon DEF Wait4
  <1>4. Rest /\ ~process.seccomp_strict
    BY DEF Wait4, Call, Return, Rest, TableInv, Types
  <1> HIDE DEF child
  <1> QED
    BY <1>2, <1>3, <1>4, ResetStep, Zenon

\* Two records of the same process in the same space with the same
\* restrictions.
SameProcess(p, q) ==
  /\ p.used = q.used
  /\ p.pid = q.pid
  /\ p.address_space = q.address_space
  /\ p.no_new_privs = q.no_new_privs
  /\ p.seccomp_strict = q.seccomp_strict

\* Slots that keep process and space, with no signal from a strict one, are
\* still.
LEMMA StillSame ==
  ASSUME TableInv,
         \A s \in Slots : SameProcess(processes'[s], processes[s]),
         \/ current_slot = -1
         \/ ~process.seccomp_strict
         \/ \A s \in Slots : processes'[s].pending_signals = processes[s].pending_signals
  PROVE  Still
PROOF
  <1>1. \A s \in Slots : processes[s].seccomp_strict => processes[s].no_new_privs
    BY Zenon DEF TableInv, SlotsFilled
  <1>2. ASSUME NEW s \in Slots
        PROVE  /\ processes'[s].used = processes[s].used
               /\ processes'[s].pid = processes[s].pid
               /\ processes'[s].address_space = processes[s].address_space
               /\ processes[s].no_new_privs => processes'[s].no_new_privs
               /\ processes[s].seccomp_strict => processes'[s].seccomp_strict
               /\ processes'[s].seccomp_strict => processes[s].no_new_privs
    BY <1>1, Zenon DEF SameProcess
  <1> QED
    BY <1>2, Zenon DEF Still

\* finish_process changes states only.
LEMMA FinishedTable ==
  ASSUME NEW table \in [Slots -> Records], NEW ending
  PROVE  /\ Finished(table, ending) \in [Slots -> Records]
         /\ \A s \in Slots : /\ SameProcess(Finished(table, ending)[s], table[s])
                             /\ Finished(table, ending)[s].pending_signals =
                                  table[s].pending_signals
PROOF
  <1> SUFFICES ASSUME NEW s \in Slots
               PROVE  /\ Finished(table, ending)[s] \in Records
                      /\ SameProcess(Finished(table, ending)[s], table[s])
                      /\ Finished(table, ending)[s].pending_signals =
                           table[s].pending_signals
    BY Zenon DEF Finished
  <1>1. table[s] \in Records
    BY Zenon
  <1>2. \A state \in States : /\ [table[s] EXCEPT !.state = state] \in Records
                              /\ SameProcess([table[s] EXCEPT !.state = state], table[s])
                              /\ [table[s] EXCEPT !.state = state].pending_signals =
                                   table[s].pending_signals
    BY <1>1, Zenon DEF Records, SameProcess
  <1>3. SameProcess(table[s], table[s])
    BY Zenon DEF SameProcess
  <1>4. PICK state \in States : Finished(table, ending)[s] \in
          {[table[s] EXCEPT !.state = state], table[s]}
    BY Zenon DEF Finished, States
  <1> QED
    BY <1>1, <1>2, <1>3, <1>4, Zenon

\* wake_timers changes states and deadlines only.
LEMMA WokenTable ==
  ASSUME processes \in [Slots -> Records]
  PROVE  /\ wake_timers \in [Slots -> Records]
         /\ \A s \in Slots : SameProcess(wake_timers[s], processes[s])
PROOF
  <1> SUFFICES ASSUME NEW s \in Slots
               PROVE  /\ wake_timers[s] \in Records
                      /\ SameProcess(wake_timers[s], processes[s])
    BY Zenon DEF wake_timers
  <1>1. processes[s] \in Records
    BY Zenon
  <1> DEFINE R(n) == [processes[s] EXCEPT !.state = "RUNNING", !.wake_tick = n]
             r == R(0)
  <1>2. r \in Records /\ SameProcess(r, processes[s])
    <2>1. \A n \in Int : R(n) \in Records /\ SameProcess(R(n), processes[s])
      BY <1>1, Zenon DEF Records, States, SameProcess
    <2>2. 0 \in Int
      OBVIOUS
    <2> HIDE DEF R
    <2> QED
      BY <2>1, <2>2, Zenon
  <1>3. SameProcess(processes[s], processes[s])
    BY Zenon DEF SameProcess
  <1>4. wake_timers[s] \in {r, processes[s]}
    BY Zenon DEF wake_timers
  <1> HIDE DEF r
  <1> QED
    BY <1>1, <1>2, <1>3, <1>4, Zenon

\* A call of the running process that only writes its own record.
LEMMA OwnStep ==
  ASSUME TableInv, Call, NEW r \in Records,
         processes' = [processes EXCEPT ![current_slot] = r],
         r.used = process.used, r.pid = process.pid,
         r.address_space = process.address_space,
         process.no_new_privs => r.no_new_privs,
         r.seccomp_strict => process.no_new_privs,
         references' = references, Rest
  PROVE  Step
PROOF
  <1>1. current_slot \in Slots /\ ~process.seccomp_strict
    BY Current, Zenon DEF Call
  <1>2. processes' \in [Slots -> Records]
    BY <1>1, Zenon DEF TableInv, Types
  <1>3. ASSUME NEW s \in Slots
        PROVE  /\ processes'[s].used = processes[s].used
               /\ processes'[s].pid = processes[s].pid
               /\ processes'[s].address_space = processes[s].address_space
               /\ processes[s].no_new_privs => processes'[s].no_new_privs
               /\ processes[s].seccomp_strict => processes'[s].seccomp_strict
               /\ processes'[s].seccomp_strict => processes[s].no_new_privs
    <2>1. CASE s = current_slot
      <3>1. processes'[s] = r /\ processes[s] = process
        BY <1>1, <2>1, Zenon DEF TableInv, Types, process
      <3> QED
        BY <1>1, <3>1, Zenon
    <2>2. CASE s # current_slot
      <3>1. processes'[s] = processes[s]
        BY <1>1, <2>2, Zenon DEF TableInv, Types
      <3>2. processes[s].seccomp_strict => processes[s].no_new_privs
        BY Zenon DEF TableInv, SlotsFilled
      <3> QED
        BY <3>1, <3>2, Zenon
    <2> QED
      BY <2>1, <2>2, Zenon
  <1>4. Still
    BY <1>1, <1>3, Zenon DEF Still
  <1> QED
    BY <1>2, <1>4, StillStep, Zenon

\* The restrictions of the running process are in order.
LEMMA CurrentStrict ==
  ASSUME TableInv, current_slot # -1
  PROVE  process.seccomp_strict => process.no_new_privs
PROOF
  BY Current, Zenon DEF TableInv, SlotsFilled, process

\* finish_process: the slot becomes a zombie and keeps its space.
LEMMA FinishInv ==
  ASSUME TableInv, NEW ending, Finish(ending), Return
  PROVE  Step
PROOF
  <1>1. processes \in [Slots -> Records]
    BY Zenon DEF TableInv, Types
  <1>2. processes' = Finished(processes, ending)
    BY Zenon DEF Finish
  <1>3. /\ processes' \in [Slots -> Records]
        /\ \A s \in Slots : /\ SameProcess(processes'[s], processes[s])
                            /\ processes'[s].pending_signals = processes[s].pending_signals
    BY <1>1, <1>2, FinishedTable, Zenon
  <1>4. Rest /\ references' = references
    BY DEF Finish, Return, Rest, TableInv, Types
  <1> QED
    BY <1>3, <1>4, StillSame, StillStep, Zenon

\* set_tid_address changes one word of the record.
LEMMA SetTidAddressInv ==
  ASSUME TableInv, NEW a \in TidAddresses, SetTidAddress(a)
  PROVE  Step
PROOF
  <1> DEFINE r == [process EXCEPT !.clear_child_tid = a]
  <1>1. Call /\ current_slot \in Slots /\ process \in Records
        /\ (process.seccomp_strict => process.no_new_privs)
    BY Current, CurrentStrict, Zenon DEF SetTidAddress, Call
  <1>2. a \in Int
    BY WordsAssumption DEF TidAddresses
  <1>3. /\ r \in Records /\ r.used = process.used /\ r.pid = process.pid
        /\ r.address_space = process.address_space
        /\ r.no_new_privs = process.no_new_privs
        /\ r.seccomp_strict = process.seccomp_strict
    BY <1>1, <1>2, Zenon DEF Records
  <1>4. processes' = [processes EXCEPT ![current_slot] = r]
    BY <1>1, Zenon DEF SetTidAddress, process, TableInv, Types
  <1>5. Rest /\ references' = references
    BY DEF SetTidAddress, Return, Rest, TableInv, Types
  <1> HIDE DEF r
  <1> QED
    BY <1>1, <1>3, <1>4, <1>5, OwnStep, Zenon

\* futex wait blocks the caller or returns.
LEMMA FutexWaitInv ==
  ASSUME TableInv, NEW a \in Addresses, NEW v, NEW d \in -1..MaxDelay,
         FutexWait(a, v, d)
  PROVE  Step
PROOF
  <1> DEFINE deadline == Deadline(d)
             r == [process EXCEPT !.state = "BLOCKED_FUTEX", !.futex_address = a,
                                  !.wake_tick = deadline]
  <1>1. Call /\ current_slot \in Slots /\ process \in Records
        /\ (process.seccomp_strict => process.no_new_privs)
    BY Current, CurrentStrict, Zenon DEF FutexWait, Call
  <1>2. a \in Int /\ deadline \in Int
    BY WordsAssumption, WorkloadsAssumption DEF Deadline, TableInv, Types
  <1> HIDE DEF deadline
  <1>3. /\ r \in Records /\ r.used = process.used /\ r.pid = process.pid
        /\ r.address_space = process.address_space
        /\ r.no_new_privs = process.no_new_privs
        /\ r.seccomp_strict = process.seccomp_strict
    BY <1>1, <1>2, Zenon DEF Records, States
  <1>4. processes' = [processes EXCEPT ![current_slot] = r]
    BY <1>1, Zenon DEF FutexWait, process, TableInv, Types, deadline
  <1>5. Rest /\ references' = references
    BY DEF FutexWait, Return, Rest, TableInv, Types
  <1> HIDE DEF r
  <1> QED
    BY <1>1, <1>3, <1>4, <1>5, OwnStep, Zenon

\* nanosleep blocks the caller until its deadline.
LEMMA NanosleepInv ==
  ASSUME TableInv, NEW d \in 0..MaxDelay, Nanosleep(d)
  PROVE  Step
PROOF
  <1> DEFINE deadline == Deadline(d)
             r == [process EXCEPT !.state = "BLOCKED_SLEEP", !.wake_tick = deadline]
  <1>1. Call /\ current_slot \in Slots /\ process \in Records
        /\ (process.seccomp_strict => process.no_new_privs)
    BY Current, CurrentStrict, Zenon DEF Nanosleep, Call
  <1>2. deadline \in Int
    BY WorkloadsAssumption DEF Deadline, TableInv, Types
  <1> HIDE DEF deadline
  <1>3. /\ r \in Records /\ r.used = process.used /\ r.pid = process.pid
        /\ r.address_space = process.address_space
        /\ r.no_new_privs = process.no_new_privs
        /\ r.seccomp_strict = process.seccomp_strict
    BY <1>1, <1>2, Zenon DEF Records, States
  <1>4. processes' = [processes EXCEPT ![current_slot] = r]
    BY <1>1, Zenon DEF Nanosleep, process, TableInv, Types, deadline
  <1>5. Rest /\ references' = references
    BY DEF Nanosleep, Return, Rest, TableInv, Types
  <1> HIDE DEF r
  <1> QED
    BY <1>1, <1>3, <1>4, <1>5, OwnStep, Zenon

\* futex wake makes waiters runnable.
LEMMA FutexWakeInv ==
  ASSUME TableInv, NEW a, NEW count, FutexWake(a, count)
  PROVE  Step
PROOF
  <1>1. PICK woken : processes' = [w \in Slots |->
          IF w \in woken THEN [processes[w] EXCEPT !.state = "RUNNING"] ELSE processes[w]]
    BY Zenon DEF FutexWake
  <1>2. processes \in [Slots -> Records]
    BY Zenon DEF TableInv, Types
  <1>5. ASSUME NEW w \in Slots
        PROVE  /\ processes'[w] \in Records
               /\ SameProcess(processes'[w], processes[w])
    <2>1. processes[w] \in Records
      BY <1>2, Zenon
    <2> DEFINE r == [processes[w] EXCEPT !.state = "RUNNING"]
    <2>2. r \in Records /\ SameProcess(r, processes[w])
      BY <2>1, Zenon DEF Records, States, SameProcess
    <2>3. SameProcess(processes[w], processes[w])
      BY Zenon DEF SameProcess
    <2>4. processes'[w] \in {r, processes[w]}
      BY <1>1, Zenon
    <2> HIDE DEF r
    <2> QED
      BY <2>1, <2>2, <2>3, <2>4, Zenon
  <1>6. processes' = [w \in Slots |-> processes'[w]]
    BY <1>1, Zenon
  <1>3. processes' \in [Slots -> Records] /\ Still
    BY <1>5, <1>6, StillSame, Zenon DEF FutexWake, Call
  <1>4. Rest /\ references' = references
    BY DEF FutexWake, Return, Rest, TableInv, Types
  <1> QED
    BY <1>3, <1>4, StillStep, Zenon

\* kill marks a signal pending; a strict process may not.
LEMMA KillInv ==
  ASSUME TableInv, NEW pid, NEW n \in Signals, Kill(pid, n)
  PROVE  Step
PROOF
  <1>1. PICK s \in Used :
          processes' = [processes EXCEPT ![s].pending_signals = @ \cup {n}]
    BY Zenon DEF Kill
  <1>2. s \in Slots /\ processes \in [Slots -> Records]
    BY Zenon DEF TableInv, Types, Used
  <1> DEFINE signals == processes[s].pending_signals \cup {n}
             r == [processes[s] EXCEPT !.pending_signals = signals]
  <1>5. signals \in SUBSET Signals
    BY <1>2, Zenon DEF Records
  <1>6. processes' = [processes EXCEPT ![s] = r]
    BY <1>1, <1>2, Zenon
  <1> HIDE DEF signals
  <1>7. /\ r \in Records /\ r.used = processes[s].used /\ r.pid = processes[s].pid
        /\ r.address_space = processes[s].address_space
        /\ r.no_new_privs = processes[s].no_new_privs
        /\ r.seccomp_strict = processes[s].seccomp_strict
    BY <1>2, <1>5 DEF Records
  <1> HIDE DEF r
  <1>8. \A t \in Slots : SameProcess(processes'[t], processes[t])
    BY <1>2, <1>6, <1>7, Zenon DEF SameProcess
  <1>3. processes' \in [Slots -> Records] /\ Still
    BY <1>2, <1>6, <1>7, <1>8, StillSame, Zenon DEF Kill, Call
  <1>4. Rest /\ references' = references
    BY DEF Kill, Return, Rest, TableInv, Types
  <1> QED
    BY <1>3, <1>4, StillStep, Zenon

\* rt_sigaction changes a disposition.
LEMMA RtSigactionInv ==
  ASSUME TableInv, NEW n \in Signals, NEW d \in Dispositions, RtSigaction(n, d)
  PROVE  Step
PROOF
  <1> DEFINE actions == [process.signal_actions EXCEPT ![n] = d]
             r == [process EXCEPT !.signal_actions = actions]
  <1>1. Call /\ current_slot \in Slots /\ process \in Records
        /\ (process.seccomp_strict => process.no_new_privs)
    BY Current, CurrentStrict, Zenon DEF RtSigaction, Call
  <1>2. actions \in [Signals -> Dispositions]
    BY <1>1, Zenon DEF Records
  <1>3. processes' = [processes EXCEPT ![current_slot] = r]
    BY <1>1, Zenon DEF RtSigaction, process, TableInv, Types
  <1> HIDE DEF actions
  <1>4. /\ r \in Records /\ r.used = process.used /\ r.pid = process.pid
        /\ r.address_space = process.address_space
        /\ r.no_new_privs = process.no_new_privs
        /\ r.seccomp_strict = process.seccomp_strict
    BY <1>1, <1>2, Zenon DEF Records
  <1>5. Rest /\ references' = references
    BY DEF RtSigaction, Return, Rest, TableInv, Types
  <1> HIDE DEF r
  <1> QED
    BY <1>1, <1>3, <1>4, <1>5, OwnStep, Zenon

\* prctl sets no_new_privs and nothing clears it.
LEMMA SetNoNewPrivsInv == TableInv /\ SetNoNewPrivs => Step
PROOF
  <1> SUFFICES ASSUME TableInv, SetNoNewPrivs PROVE Step
    OBVIOUS
  <1> DEFINE r == [process EXCEPT !.no_new_privs = TRUE]
  <1>1. Call /\ current_slot \in Slots /\ process \in Records
        /\ (process.seccomp_strict => process.no_new_privs)
    BY Current, CurrentStrict, Zenon DEF SetNoNewPrivs, Call
  <1>2. /\ r \in Records /\ r.used = process.used /\ r.pid = process.pid
        /\ r.address_space = process.address_space
        /\ r.no_new_privs = TRUE
        /\ r.seccomp_strict = process.seccomp_strict
    BY <1>1, Zenon DEF Records
  <1>3. processes' = [processes EXCEPT ![current_slot] = r]
    BY <1>1, Zenon DEF SetNoNewPrivs, process, TableInv, Types
  <1>4. Rest /\ references' = references
    BY DEF SetNoNewPrivs, Return, Rest, TableInv, Types
  <1> HIDE DEF r
  <1> QED
    BY <1>1, <1>2, <1>3, <1>4, OwnStep, Zenon

\* seccomp demands no_new_privs and nothing clears it.
LEMMA SeccompInv == TableInv /\ Seccomp => Step
PROOF
  <1> SUFFICES ASSUME TableInv, Seccomp PROVE Step
    OBVIOUS
  <1> DEFINE r == [process EXCEPT !.seccomp_strict = TRUE]
  <1>1. Call /\ current_slot \in Slots /\ process \in Records
        /\ (process.seccomp_strict => process.no_new_privs)
    BY Current, CurrentStrict, Zenon DEF Seccomp, Call
  <1>2. /\ r \in Records /\ r.used = process.used /\ r.pid = process.pid
        /\ r.address_space = process.address_space
        /\ r.no_new_privs = process.no_new_privs
    BY <1>1, Zenon DEF Records
  <1>3. processes' = [processes EXCEPT ![current_slot] = r]
    BY <1>1, Zenon DEF Seccomp, process, TableInv, Types
  <1>4. Rest /\ references' = references
    BY DEF Seccomp, Return, Rest, TableInv, Types
  <1>5. process.no_new_privs
    BY Zenon DEF Seccomp
  <1> HIDE DEF r
  <1> QED
    BY <1>1, <1>2, <1>3, <1>4, <1>5, OwnStep, Zenon

\* A step that leaves the table alone.
LEMMA TableUnchanged ==
  ASSUME TableInv, processes' = processes, references' = references, Rest
  PROVE  Step
PROOF
  <1>1. /\ processes' \in [Slots -> Records]
        /\ \A s \in Slots : /\ SameProcess(processes'[s], processes[s])
                            /\ processes'[s].pending_signals = processes[s].pending_signals
    BY Zenon DEF TableInv, Types, SameProcess
  <1> QED
    BY <1>1, StillSame, StillStep, Zenon

\* The timer interrupt.
LEMMA TickInv == TableInv /\ Tick => Step
PROOF
  <1> SUFFICES ASSUME TableInv, Tick PROVE Step
    OBVIOUS
  <1> DEFINE S == {scheduler_ticks + 1, MaxTicks}
  <1>1. S \subseteq Nat
    BY WorkloadsAssumption DEF TableInv, Types, MaxTicks
  <1>2. \E x \in S : \A y \in S : x <= y
    BY <1>1, LeastNatural, Zenon
  <1>3. Min(S) \in S
    BY <1>2, Zenon DEF Min
  <1>4. scheduler_ticks' \in Nat
    BY <1>1, <1>3, Zenon DEF Tick
  <1>5. Rest
    BY <1>4 DEF Tick, Return, Rest, TableInv, Types
  <1> QED
    BY <1>5, TableUnchanged, Zenon DEF Tick

\* A pass of the kernel loop that finds nothing runnable.
LEMMA IdleInv == TableInv /\ Idle => Step
PROOF
  <1> SUFFICES ASSUME TableInv, Idle PROVE Step
    OBVIOUS
  <1>1. processes' \in [Slots -> Records] /\ Still
    <2>1. /\ processes' \in [Slots -> Records]
          /\ \A s \in Slots : SameProcess(processes'[s], processes[s])
      BY WokenTable, Zenon DEF Idle, TableInv, Types
    <2> QED
      BY <2>1, StillSame, Zenon DEF Idle
  <1>2. Rest /\ references' = references
    BY DEF Idle, Rest, TableInv, Types
  <1> QED
    BY <1>1, <1>2, StillStep, Zenon

\* The slot process_schedule selects, and the table with the given signals
\* left to its process.
Chosen == NextSlot(Runnable(wake_timers))
Taken(signals) == [wake_timers EXCEPT ![Chosen].pending_signals = signals]

\* The round robin finds a slot in use, and taking its signals moves no slot.
LEMMA Selected ==
  ASSUME TableInv, Runnable(wake_timers) # {},
         NEW signals \in SUBSET wake_timers[Chosen].pending_signals
  PROVE  /\ Chosen \in Slots /\ processes[Chosen].used
         /\ Taken(signals) \in [Slots -> Records]
         /\ \A t \in Slots : SameProcess(Taken(signals)[t], processes[t])
PROOF
  <1> DEFINE s == Chosen
             table == Taken(signals)
  <1>1. /\ wake_timers \in [Slots -> Records]
        /\ \A t \in Slots : SameProcess(wake_timers[t], processes[t])
    BY WokenTable, Zenon DEF TableInv, Types
  <1>2. Runnable(wake_timers) \subseteq Slots /\ last_slot \in Int
    BY Zenon DEF Runnable, TableInv, Types
  <1>3. s \in Runnable(wake_timers)
    BY <1>2, NextRunnable, Zenon DEF Chosen
  <1>4. s \in Slots /\ processes[s].used
    BY <1>1, <1>3, Zenon DEF Runnable, SameProcess
  <1>5. wake_timers[s] \in Records /\ signals \in SUBSET Signals
    BY <1>1, <1>4, Zenon DEF Records
  <1> DEFINE r == [wake_timers[s] EXCEPT !.pending_signals = signals]
  <1>6. table = [wake_timers EXCEPT ![s] = r]
    BY <1>1, <1>4, Zenon DEF Taken
  <1>7. /\ r \in Records
        /\ r.used = wake_timers[s].used /\ r.pid = wake_timers[s].pid
        /\ r.address_space = wake_timers[s].address_space
        /\ r.no_new_privs = wake_timers[s].no_new_privs
        /\ r.seccomp_strict = wake_timers[s].seccomp_strict
    BY <1>5, Zenon DEF Records
  <1> HIDE DEF r
  <1>8. table \in [Slots -> Records]
    BY <1>1, <1>4, <1>6, <1>7, Zenon
  <1>9. ASSUME NEW t \in Slots
        PROVE  SameProcess(table[t], processes[t])
    <2>1. SameProcess(wake_timers[t], processes[t])
      BY <1>1, Zenon
    <2>2. table[t] = IF t = s THEN r ELSE wake_timers[t]
      BY <1>1, <1>4, <1>6, Zenon
    <2> QED
      BY <1>7, <2>1, <2>2, Zenon DEF SameProcess
  <1> QED
    BY <1>4, <1>8, <1>9, Zenon

\* process_schedule runs a process.
LEMMA DispatchInv == TableInv /\ Dispatch => Step
PROOF
  <1> SUFFICES ASSUME TableInv, Dispatch PROVE Step
    OBVIOUS
  <1>1. PICK signals \in SUBSET wake_timers[Chosen].pending_signals :
          processes' = Taken(signals)
    BY Zenon DEF Dispatch, Chosen, Taken
  <1>2. /\ Runnable(wake_timers) # {} /\ current_slot = -1
        /\ current_slot' = Chosen /\ last_slot' = Chosen
    BY Zenon DEF Dispatch, Chosen
  <1>3. /\ Chosen \in Slots /\ processes[Chosen].used
        /\ processes' \in [Slots -> Records]
        /\ \A t \in Slots : SameProcess(processes'[t], processes[t])
    BY <1>1, <1>2, Selected, Zenon
  <1>4. Chosen \in Slots /\ processes'[Chosen].used
    BY <1>3, Zenon DEF SameProcess
  <1>5. current_slot' \in Used'
    BY <1>2, <1>4, Zenon DEF Used
  <1>6. Rest /\ references' = references
    BY <1>2, <1>3, <1>5, SlotsAssumption DEF Dispatch, Rest, TableInv, Types, Slots
  <1> QED
    BY <1>2, <1>3, <1>6, StillSame, StillStep, Zenon

\* process_schedule finds a fatal signal pending and ends the process.
LEMMA DispatchKillInv == TableInv /\ DispatchKill => Step
PROOF
  <1> SUFFICES ASSUME TableInv, DispatchKill PROVE Step
    OBVIOUS
  <1>1. PICK signals \in SUBSET wake_timers[Chosen].pending_signals :
          processes' = Finished(Taken(signals), {Chosen})
    BY Zenon DEF DispatchKill, Chosen, Taken
  <1>2. Runnable(wake_timers) # {} /\ current_slot = -1
    BY Zenon DEF DispatchKill
  <1>3. /\ Taken(signals) \in [Slots -> Records]
        /\ \A t \in Slots : SameProcess(Taken(signals)[t], processes[t])
    BY <1>2, Selected, Zenon
  <1>4. processes' \in [Slots -> Records]
        /\ \A t \in Slots : SameProcess(processes'[t], Taken(signals)[t])
    BY <1>1, <1>3, FinishedTable, Zenon
  <1>5. \A t \in Slots : SameProcess(processes'[t], processes[t])
    BY <1>3, <1>4 DEF SameProcess
  <1>6. Rest /\ references' = references
    BY DEF DispatchKill, Rest, TableInv, Types
  <1> QED
    BY <1>2, <1>4, <1>5, <1>6, StillSame, StillStep, Zenon

-----------------------------------------------------------------------------
(* Who loses a slot, and who is left waiting *)

\* What ZombieKept says of a step.
Retained ==
  \A s \in Used : ~Kept(s) =>
    /\ s \in Zombies
    /\ \/ Used = Slots
       \/ current_slot # -1 /\ process.pid = processes[s].parent_pid

\* What JoinersWoken says of a step.
Woken ==
  \A s \in Used \ Zombies :
    (Kept(s) /\ processes'[s].state = "ZOMBIE") =>
      \A w \in Slots :
        ~(/\ processes'[w].used
          /\ processes'[w].state = "BLOCKED_FUTEX"
          /\ processes'[w].address_space = processes[s].address_space
          /\ processes'[w].futex_address = processes[s].clear_child_tid)

Orderly == Retained /\ Woken

\* A process that stays in its slot and does not end now.
Lives(p, q) ==
  /\ p.used = q.used
  /\ p.pid = q.pid
  /\ p.state = "ZOMBIE" => q.state = "ZOMBIE"

\* A step in which nobody goes and nobody ends.
LEMMA CalmStep ==
  ASSUME \A s \in Slots : Lives(processes'[s], processes[s])
  PROVE  Orderly
PROOF
  <1>1. ASSUME NEW s \in Used
        PROVE  /\ Kept(s)
               /\ processes'[s].state = "ZOMBIE" => s \in Zombies
    BY Zenon DEF Used, Zombies, InState, Kept, Lives
  <1> QED
    BY <1>1, Zenon DEF Orderly, Retained, Woken

\* A step that rewrites one record, whose process lives on.
LEMMA CalmOwn ==
  ASSUME TableInv, NEW s \in Slots, NEW r, Lives(r, processes[s]),
         processes' = [processes EXCEPT ![s] = r]
  PROVE  Orderly
PROOF
  <1>1. processes \in [Slots -> Records]
    BY Zenon DEF TableInv, Types
  <1>2. \A t \in Slots : Lives(processes'[t], processes[t])
    BY <1>1, Zenon DEF Lives
  <1> QED
    BY <1>2, CalmStep, Zenon

\* A step that takes a slot nobody's live process is in.
LEMMA TakenSlot ==
  ASSUME TableInv, NEW s \in Slots, NEW r,
         processes' = [processes EXCEPT ![s] = r],
         s \in Used =>
           /\ s \in Zombies
           /\ \/ Used = Slots
              \/ current_slot # -1 /\ process.pid = processes[s].parent_pid
  PROVE  Orderly
PROOF
  <1>1. \A t \in Slots : t # s => processes'[t] = processes[t]
    BY Zenon DEF TableInv, Types
  <1>2. Used \subseteq Slots /\ \A t \in Used : processes[t].used
    BY Zenon DEF Used
  <1>3. \A t \in Used : t = s \/ Kept(t)
    BY <1>1, <1>2, Zenon DEF Kept
  <1>4. \A t \in Used : t = s \/ processes'[t].state # "ZOMBIE" \/ t \in Zombies
    BY <1>1, <1>2, Zenon DEF Zombies, InState
  <1>5. Retained
    BY <1>3, Zenon DEF Retained
  <1>6. Woken
    BY <1>4, Zenon DEF Woken
  <1> QED
    BY <1>5, <1>6, Zenon DEF Orderly

\* The slot reserve_slot returns is free, or holds a zombie in a full table.
LEMMA ReservedFrom ==
  ASSUME NEW s \in reserve_slot
  PROVE  s \in Slots /\ (s \in Used => s \in Zombies /\ Used = Slots)
PROOF
  <1> DEFINE reapable == Zombies \ {current_slot}
  <1>1. Slots \ Used \subseteq Slots /\ reapable \subseteq Slots /\ Used \subseteq Slots
    BY Zenon DEF Used, Zombies
  <1>2. CASE Used # Slots
    <2>1. Slots \ Used # {}
      BY <1>1, <1>2, Zenon
    <2>2. s = Min(Slots \ Used)
      BY <1>2, Zenon DEF reserve_slot
    <2>3. s \in Slots \ Used
      BY <1>1, <2>1, <2>2, MinSlot, Zenon
    <2> QED
      BY <2>3, Zenon
  <1>3. CASE Used = Slots
    <2>1. reapable # {} /\ s = Min(reapable)
      BY <1>3, Zenon DEF reserve_slot
    <2>2. s \in reapable
      BY <1>1, <2>1, MinSlot, Zenon
    <2> QED
      BY <1>1, <1>3, <2>2, Zenon
  <1> QED
    BY <1>2, <1>3, Zenon

\* finish_process ends processes and wakes whoever waits for them.
LEMMA FinishOrderly ==
  ASSUME NEW table \in [Slots -> Records], NEW ending,
         processes' = Finished(table, ending),
         \A s \in Slots : /\ Lives(table[s], processes[s])
                          /\ table[s].address_space = processes[s].address_space
                          /\ table[s].clear_child_tid = processes[s].clear_child_tid
  PROVE  Orderly
PROOF
  <1>1. ASSUME NEW w \in Slots
        PROVE  /\ processes'[w].used = table[w].used
               /\ processes'[w].pid = table[w].pid
               /\ processes'[w].address_space = table[w].address_space
               /\ processes'[w].futex_address = table[w].futex_address
               /\ w \in ending => processes'[w].state = "ZOMBIE"
               /\ w \notin ending =>
                    \/ /\ processes'[w].state = "RUNNING"
                       /\ \E s \in ending : w \in Joiners(table, s)
                    \/ /\ processes'[w].state = table[w].state
                       /\ ~\E s \in ending : w \in Joiners(table, s)
    <2>1. table[w] \in Records
      BY Zenon
    <2> DEFINE R(state) == [table[w] EXCEPT !.state = state]
    <2>2. \A state : /\ R(state).used = table[w].used
                     /\ R(state).pid = table[w].pid
                     /\ R(state).address_space = table[w].address_space
                     /\ R(state).futex_address = table[w].futex_address
                     /\ R(state).state = state
      BY <2>1, Zenon DEF Records
    <2>3. processes'[w] = IF w \in ending THEN R("ZOMBIE")
                          ELSE IF \E s \in ending : w \in Joiners(table, s)
                               THEN R("RUNNING") ELSE table[w]
      BY Zenon DEF Finished
    <2> HIDE DEF R
    <2>4. CASE w \in ending
      BY <2>2, <2>3, <2>4, ZenonT(60)
    <2>5. CASE w \notin ending /\ \E s \in ending : w \in Joiners(table, s)
      BY <2>2, <2>3, <2>5, ZenonT(60)
    <2>6. CASE w \notin ending /\ ~\E s \in ending : w \in Joiners(table, s)
      BY <2>3, <2>6, Zenon
    <2> QED
      BY <2>4, <2>5, <2>6, Zenon
  <1>2. Retained
    BY <1>1, ZenonT(60) DEF Retained, Used, Kept, Lives
  <1>3. Woken
    <2> SUFFICES ASSUME NEW s \in Used \ Zombies, processes'[s].state = "ZOMBIE",
                        NEW w \in Slots, processes'[w].used,
                        processes'[w].state = "BLOCKED_FUTEX",
                        processes'[w].address_space = processes[s].address_space,
                        processes'[w].futex_address = processes[s].clear_child_tid
                 PROVE  FALSE
      BY Zenon DEF Woken
    <2>1. s \in Slots /\ processes[s].state # "ZOMBIE"
      BY Zenon DEF Used, Zombies, InState
    <2>2. table[s].state # "ZOMBIE"
      BY <2>1, Zenon DEF Lives
    <2>3. s \in ending
      BY <1>1, <2>1, <2>2, Zenon
    <2>4. w \notin ending
      BY <1>1, Zenon
    <2>5. /\ table[w].state = "BLOCKED_FUTEX"
          /\ ~\E t \in ending : w \in Joiners(table, t)
      BY <1>1, <2>4, Zenon
    <2>6. w \in Joiners(table, s)
      BY <1>1, <2>1, <2>5, Zenon DEF Joiners
    <2> QED
      BY <2>3, <2>5, <2>6, Zenon
  <1> QED
    BY <1>2, <1>3, Zenon DEF Orderly

\* A process that goes on with its own call.
LEMMA OwnOrderly ==
  ASSUME TableInv, current_slot # -1, NEW r, Lives(r, process),
         processes' = [processes EXCEPT ![current_slot] = r]
  PROVE  Orderly
PROOF
  BY Current, CalmOwn, Zenon DEF process

\* Creation, execve, exit and wait4 lose no status and leave no joiner
\* blocked.
LEMMA LifecycleOrderly == TableInv /\ Lifecycle => Orderly
PROOF
  <1> SUFFICES ASSUME TableInv, Lifecycle PROVE Orderly
    BY Zenon
  <1>1. ASSUME NEW s \in reserve_slot, NEW r,
               processes' = [processes EXCEPT ![s] = r]
        PROVE  Orderly
    BY <1>1, ReservedFrom, TakenSlot, Zenon
  <1>2. ASSUME NEW ending, Finish(ending)
        PROVE  Orderly
    <2>1. \A s \in Slots : Lives(processes[s], processes[s])
      BY Zenon DEF Lives
    <2>2. processes \in [Slots -> Records]
      BY Zenon DEF TableInv, Types
    <2>3. processes' = Finished(processes, ending)
      BY <1>2, Zenon DEF Finish
    <2> QED
      BY <2>1, <2>2, <2>3, FinishOrderly, Zenon
  <1>3. CASE Load
    <2>1. PICK s, r : s \in reserve_slot /\ processes' = [processes EXCEPT ![s] = r]
      BY <1>3, Zenon DEF Load
    <2> QED
      BY <1>1, <2>1, Zenon
  <1>4. CASE LoadFail
    BY <1>1, <1>4, Zenon DEF LoadFail
  <1>5. CASE \E share \in BOOLEAN, parent_tid, child_tid \in TidAddresses :
               Clone(share, parent_tid, child_tid)
    BY <1>1, <1>5, Zenon DEF Clone
  <1>6. CASE CloneFail
    BY <1>1, <1>6, Zenon DEF CloneFail
  <1>7. CASE Exec
    <2>1. PICK space \in Spaces :
            processes' = [processes EXCEPT ![current_slot].address_space = space,
                                           ![current_slot].pending_signals = {}]
      BY <1>7, Zenon DEF Exec
    <2>2. current_slot # -1 /\ current_slot \in Slots /\ process \in Records
      BY <1>7, Current, Zenon DEF Exec, Call
    <2> DEFINE r == [process EXCEPT !.address_space = space, !.pending_signals = {}]
    <2>3. processes' = [processes EXCEPT ![current_slot] = r]
      BY <2>1, <2>2, Zenon DEF process, TableInv, Types
    <2>4. Lives(r, process)
      BY <2>2, Zenon DEF Records, Lives
    <2> HIDE DEF r
    <2> QED
      BY <2>2, <2>3, <2>4, OwnOrderly, Zenon
  <1>8. CASE Exit
    BY <1>2, <1>8, Zenon DEF Exit
  <1>9. CASE ExitGroup
    BY <1>2, <1>9, Zenon DEF ExitGroup
  <1>10. ASSUME NEW pid \in Pids \cup {-1}, Wait4(pid)
         PROVE  Orderly
    <2> DEFINE child == Min(Waitable(pid))
    <2>1. Waitable(pid) \subseteq Slots /\ Waitable(pid) # {}
      BY <1>10, Zenon DEF Wait4, Waitable, Zombies
    <2>2. child \in Waitable(pid)
      BY <2>1, MinSlot, Zenon
    <2>3. processes' = [processes EXCEPT ![child] = Zeroed]
      BY <1>10, Zenon DEF Wait4
    <2>4. current_slot # -1
      BY <1>10, Zenon DEF Wait4, Call
    <2>5. child \in Slots /\ child \in Zombies
          /\ process.pid = processes[child].parent_pid
      BY <2>1, <2>2, Zenon DEF Waitable
    <2> HIDE DEF child
    <2> QED
      BY <2>3, <2>4, <2>5, TakenSlot, Zenon
  <1> QED
    BY <1>3, <1>4, <1>5, <1>6, <1>7, <1>8, <1>9, <1>10, Zenon DEF Lifecycle

\* The calls that block and wake lose no status and leave no joiner blocked.
LEMMA BlockingOrderly == TableInv /\ Blocking => Orderly
PROOF
  <1> SUFFICES ASSUME TableInv, Blocking PROVE Orderly
    BY Zenon
  <1>1. current_slot # -1 /\ current_slot \in Slots /\ process \in Records
    BY Current, Zenon DEF Blocking, SetTidAddress, FutexWait, FutexWake, Nanosleep,
       UserStore, Call
  <1>2. ASSUME NEW a \in TidAddresses, SetTidAddress(a)
        PROVE  Orderly
    <2> DEFINE r == [process EXCEPT !.clear_child_tid = a]
    <2>1. processes' = [processes EXCEPT ![current_slot] = r]
      BY <1>1, <1>2, Zenon DEF SetTidAddress, process, TableInv, Types
    <2>2. Lives(r, process)
      BY <1>1, Zenon DEF Records, Lives
    <2> HIDE DEF r
    <2> QED
      BY <1>1, <2>1, <2>2, OwnOrderly, Zenon
  <1>3. ASSUME NEW a \in Addresses, NEW v \in Words, NEW d \in -1..MaxDelay,
               FutexWait(a, v, d)
        PROVE  Orderly
    <2> DEFINE deadline == Deadline(d)
               r == [process EXCEPT !.state = "BLOCKED_FUTEX", !.futex_address = a,
                                    !.wake_tick = deadline]
    <2>1. processes' = [processes EXCEPT ![current_slot] = r]
      BY <1>1, <1>3, Zenon DEF FutexWait, process, TableInv, Types
    <2> HIDE DEF deadline
    <2>2. Lives(r, process)
      BY <1>1, Zenon DEF Records, Lives
    <2> HIDE DEF r
    <2> QED
      BY <1>1, <2>1, <2>2, OwnOrderly, Zenon
  <1>4. ASSUME NEW a \in Addresses, NEW count \in 1..NSlots, FutexWake(a, count)
        PROVE  Orderly
    <2>1. PICK woken : processes' = [w \in Slots |->
            IF w \in woken THEN [processes[w] EXCEPT !.state = "RUNNING"] ELSE processes[w]]
      BY <1>4, Zenon DEF FutexWake
    <2>2. ASSUME NEW w \in Slots
          PROVE  Lives(processes'[w], processes[w])
      <3> DEFINE r == [processes[w] EXCEPT !.state = "RUNNING"]
      <3>1. processes[w] \in Records
        BY Zenon DEF TableInv, Types
      <3>2. Lives(r, processes[w])
        BY <3>1, Zenon DEF Records, Lives
      <3>3. processes'[w] \in {r, processes[w]}
        BY <2>1, Zenon
      <3> HIDE DEF r
      <3> QED
        BY <3>2, <3>3, Zenon DEF Lives
    <2> QED
      BY <2>2, CalmStep, Zenon
  <1>5. ASSUME NEW a \in Addresses, NEW v \in Stores, UserStore(a, v)
        PROVE  Orderly
    BY <1>5, CalmStep, Zenon DEF UserStore, Lives
  <1>6. ASSUME NEW d \in 0..MaxDelay, Nanosleep(d)
        PROVE  Orderly
    <2> DEFINE deadline == Deadline(d)
               r == [process EXCEPT !.state = "BLOCKED_SLEEP", !.wake_tick = deadline]
    <2>1. processes' = [processes EXCEPT ![current_slot] = r]
      BY <1>1, <1>6, Zenon DEF Nanosleep, process, TableInv, Types
    <2> HIDE DEF deadline
    <2>2. Lives(r, process)
      BY <1>1, Zenon DEF Records, Lives
    <2> HIDE DEF r
    <2> QED
      BY <1>1, <2>1, <2>2, OwnOrderly, Zenon
  <1> QED
    BY <1>2, <1>3, <1>4, <1>5, <1>6, Zenon DEF Blocking

\* The calls that set signals and the sandbox end no process.
LEMMA ControlOrderly == TableInv /\ Control => Orderly
PROOF
  <1> SUFFICES ASSUME TableInv, Control PROVE Orderly
    BY Zenon
  <1>1. current_slot # -1 /\ current_slot \in Slots /\ process \in Records
    BY Current, Zenon DEF Control, Kill, RtSigaction, SetNoNewPrivs, Seccomp, Yield, Call
  <1>2. ASSUME NEW pid \in Pids, NEW n \in Signals, Kill(pid, n)
        PROVE  Orderly
    <2>1. PICK s \in Used :
            processes' = [processes EXCEPT ![s].pending_signals = @ \cup {n}]
      BY <1>2, Zenon DEF Kill
    <2>2. s \in Slots /\ processes[s] \in Records
      BY Zenon DEF TableInv, Types, Used
    <2> DEFINE r == [processes[s] EXCEPT !.pending_signals = @ \cup {n}]
    <2>3. processes' = [processes EXCEPT ![s] = r]
      BY <2>1, <2>2, Zenon DEF TableInv, Types
    <2>4. Lives(r, processes[s])
      BY <2>2, Zenon DEF Records, Lives
    <2> HIDE DEF r
    <2> QED
      BY <2>2, <2>3, <2>4, CalmOwn, Zenon
  <1>3. ASSUME NEW n \in Signals, NEW d \in Dispositions, RtSigaction(n, d)
        PROVE  Orderly
    <2> DEFINE actions == [process.signal_actions EXCEPT ![n] = d]
               r == [process EXCEPT !.signal_actions = actions]
    <2>1. processes' = [processes EXCEPT ![current_slot] = r]
      BY <1>1, <1>3, Zenon DEF RtSigaction, process, TableInv, Types
    <2> HIDE DEF actions
    <2>2. Lives(r, process)
      BY <1>1, Zenon DEF Records, Lives
    <2> HIDE DEF r
    <2> QED
      BY <1>1, <2>1, <2>2, OwnOrderly, Zenon
  <1>4. CASE SetNoNewPrivs
    <2> DEFINE r == [process EXCEPT !.no_new_privs = TRUE]
    <2>1. processes' = [processes EXCEPT ![current_slot] = r]
      BY <1>1, <1>4, Zenon DEF SetNoNewPrivs, process, TableInv, Types
    <2>2. Lives(r, process)
      BY <1>1, Zenon DEF Records, Lives
    <2> HIDE DEF r
    <2> QED
      BY <1>1, <2>1, <2>2, OwnOrderly, Zenon
  <1>5. CASE Seccomp
    <2> DEFINE r == [process EXCEPT !.seccomp_strict = TRUE]
    <2>1. processes' = [processes EXCEPT ![current_slot] = r]
      BY <1>1, <1>5, Zenon DEF Seccomp, process, TableInv, Types
    <2>2. Lives(r, process)
      BY <1>1, Zenon DEF Records, Lives
    <2> HIDE DEF r
    <2> QED
      BY <1>1, <2>1, <2>2, OwnOrderly, Zenon
  <1>6. CASE Yield
    BY <1>6, CalmStep, Zenon DEF Yield, Lives
  <1> QED
    BY <1>2, <1>3, <1>4, <1>5, <1>6, Zenon DEF Control

\* wake_timers ends nobody and moves nobody.
LEMMA WokenLives ==
  ASSUME TableInv, NEW s \in Slots
  PROVE  /\ wake_timers[s] \in Records
         /\ Lives(wake_timers[s], processes[s])
         /\ wake_timers[s].address_space = processes[s].address_space
         /\ wake_timers[s].clear_child_tid = processes[s].clear_child_tid
PROOF
  <1>1. processes \in [Slots -> Records] /\ processes[s] \in Records
    BY Zenon DEF TableInv, Types
  <1>2. wake_timers[s] \in Records
    BY <1>1, WokenTable, Zenon
  <1> DEFINE R(n) == [processes[s] EXCEPT !.state = "RUNNING", !.wake_tick = n]
             r == R(0)
  <1>3. \A n : /\ Lives(R(n), processes[s])
               /\ R(n).address_space = processes[s].address_space
               /\ R(n).clear_child_tid = processes[s].clear_child_tid
    BY <1>1, Zenon DEF Records, Lives
  <1>4. wake_timers[s] \in {r, processes[s]}
    BY Zenon DEF wake_timers
  <1>5. Lives(processes[s], processes[s])
    BY Zenon DEF Lives
  <1> HIDE DEF R
  <1> QED
    BY <1>2, <1>3, <1>4, <1>5, Zenon

\* Nor does taking a pending signal off.
LEMMA TakenLives ==
  ASSUME TableInv, Runnable(wake_timers) # {}, NEW signals, NEW s \in Slots
  PROVE  /\ Lives(Taken(signals)[s], processes[s])
         /\ Taken(signals)[s].address_space = processes[s].address_space
         /\ Taken(signals)[s].clear_child_tid = processes[s].clear_child_tid
PROOF
  <1>1. /\ wake_timers[s] \in Records
        /\ Lives(wake_timers[s], processes[s])
        /\ wake_timers[s].address_space = processes[s].address_space
        /\ wake_timers[s].clear_child_tid = processes[s].clear_child_tid
    BY WokenLives, Zenon
  <1> DEFINE r == [wake_timers[s] EXCEPT !.pending_signals = signals]
  <1>2. DOMAIN wake_timers = Slots
    BY Zenon DEF wake_timers
  <1>3. Taken(signals)[s] \in {r, wake_timers[s]}
    BY <1>2, Zenon DEF Taken
  <1>4. /\ r.used = wake_timers[s].used
        /\ r.pid = wake_timers[s].pid
        /\ r.state = wake_timers[s].state
        /\ r.address_space = wake_timers[s].address_space
        /\ r.clear_child_tid = wake_timers[s].clear_child_tid
    BY <1>1, Zenon DEF Records
  <1> HIDE DEF r
  <1> QED
    BY <1>1, <1>3, <1>4, Zenon DEF Lives

\* process_schedule may end a process by a signal and wakes its joiners.
LEMMA ScheduleOrderly == TableInv /\ process_schedule => Orderly
PROOF
  <1> SUFFICES ASSUME TableInv, process_schedule PROVE Orderly
    BY Zenon
  <1>1. CASE Idle
    BY <1>1, WokenLives, CalmStep, Zenon DEF Idle
  <1>2. CASE Dispatch
    <2>1. PICK signals : processes' = Taken(signals)
      BY <1>2, Zenon DEF Dispatch, Chosen, Taken
    <2>2. Runnable(wake_timers) # {}
      BY <1>2, Zenon DEF Dispatch
    <2> QED
      BY <2>1, <2>2, TakenLives, CalmStep, Zenon
  <1>3. CASE DispatchKill
    <2>1. PICK signals \in SUBSET wake_timers[Chosen].pending_signals :
            processes' = Finished(Taken(signals), {Chosen})
      BY <1>3, Zenon DEF DispatchKill, Chosen, Taken
    <2>2. Runnable(wake_timers) # {}
      BY <1>3, Zenon DEF DispatchKill
    <2>3. Taken(signals) \in [Slots -> Records]
      BY <2>2, Selected, Zenon
    <2> QED
      BY <2>1, <2>2, <2>3, TakenLives, FinishOrderly, Zenon
  <1> QED
    BY <1>1, <1>2, <1>3, Zenon DEF process_schedule

\* No step loses a status or leaves a joiner blocked.
LEMMA NextOrderly == TableInv /\ Next => Orderly
PROOF
  <1>1. ASSUME Tick PROVE Orderly
    BY <1>1, CalmStep, Zenon DEF Tick, Lives
  <1> QED
    BY <1>1, LifecycleOrderly, BlockingOrderly, ControlOrderly, ScheduleOrderly, Zenon
    DEF Next

-----------------------------------------------------------------------------
(* The theorems *)

\* All slots are free at the start.
LEMMA InitInv == Init => TableInv
PROOF
  <1> SUFFICES ASSUME Init PROVE TableInv
    BY Zenon
  <1>1. \A s \in Slots : processes[s] = Zeroed
    BY Zenon DEF Init
  <1>2. Types
    BY ZeroedRecord DEF Init, Types
  <1>3. SlotsFilled
    BY <1>1, ZeroedRecord, SpacesAssumption, Zenon DEF SlotsFilled
  <1>4. \A space \in Spaces : Holders(space) = {}
    BY <1>1, ZeroedRecord, SpacesAssumption, Zenon DEF Holders
  <1>5. CountsExact
    BY <1>4, FS_EmptySet, Zenon DEF CountsExact, Init
  <1> QED
    BY <1>2, <1>3, <1>5, Zenon DEF TableInv

\* Every action keeps the invariant and confines.
LEMMA NextStep == TableInv /\ Next => Step
PROOF
  <1> SUFFICES ASSUME TableInv, Next PROVE Step
    OBVIOUS
  <1>1. CASE Lifecycle
    <2>1. CASE Exit
      BY <2>1, FinishInv, Zenon DEF Exit
    <2>2. CASE ExitGroup
      BY <2>2, FinishInv, Zenon DEF ExitGroup
    <2>3. CASE \E share \in BOOLEAN, parent_tid, child_tid \in TidAddresses :
                 Clone(share, parent_tid, child_tid)
      BY <2>3, CloneInv, Zenon
    <2>4. CASE \E pid \in Pids \cup {-1} : Wait4(pid)
      BY <2>4, Wait4Inv, Zenon
    <2> QED
      BY <1>1, <2>1, <2>2, <2>3, <2>4, LoadInv, LoadFailInv, CloneFailInv, ExecInv, Zenon
      DEF Lifecycle
  <1>2. CASE Blocking
    <2>1. CASE \E a \in TidAddresses : SetTidAddress(a)
      BY <2>1, SetTidAddressInv, Zenon
    <2>2. CASE \E a \in Addresses, v \in Words, d \in -1..MaxDelay : FutexWait(a, v, d)
      BY <2>2, FutexWaitInv, Zenon
    <2>3. CASE \E a \in Addresses, count \in 1..NSlots : FutexWake(a, count)
      BY <2>3, FutexWakeInv, Zenon
    <2>4. CASE \E a \in Addresses, v \in Stores : UserStore(a, v)
      <3>1. Rest /\ processes' = processes /\ references' = references
        BY <2>4 DEF UserStore, Rest, TableInv, Types, Used
      <3> QED
        BY <3>1, TableUnchanged, Zenon
    <2>5. CASE \E d \in 0..MaxDelay : Nanosleep(d)
      BY <2>5, NanosleepInv, Zenon
    <2> QED
      BY <1>2, <2>1, <2>2, <2>3, <2>4, <2>5, Zenon DEF Blocking
  <1>3. CASE Control
    <2>1. CASE \E pid \in Pids, n \in Signals : Kill(pid, n)
      BY <2>1, KillInv, Zenon
    <2>2. CASE \E n \in Signals, d \in Dispositions : RtSigaction(n, d)
      BY <2>2, RtSigactionInv, Zenon
    <2>3. CASE Yield
      <3>1. Rest /\ processes' = processes /\ references' = references
        BY <2>3 DEF Yield, Return, Rest, TableInv, Types
      <3> QED
        BY <3>1, TableUnchanged
    <2> QED
      BY <1>3, <2>1, <2>2, <2>3, SetNoNewPrivsInv, SeccompInv, Zenon DEF Control
  <1>4. CASE Tick
    BY <1>4, TickInv, Zenon
  <1>5. CASE process_schedule
    BY <1>5, IdleInv, DispatchInv, DispatchKillInv, Zenon DEF process_schedule
  <1> QED
    BY <1>1, <1>2, <1>3, <1>4, <1>5, Zenon DEF Next

\* A step that changes nothing keeps the invariant.
LEMMA StutterInv == TableInv /\ UNCHANGED vars => TableInv'
PROOF
  BY Zenon DEF vars, TableInv, Types, SlotsFilled, CountsExact, Holders, Used

\* The reference count of an address space is the number of slots that hold
\* it, through every clone, execve, exit, wait4 and failure, for any number of
\* slots and spaces: a space is freed with its last holder and never before.
THEOREM SpacesCounted == Spec => []ReferencesExact
PROOF
  <1>1. TableInv => ReferencesExact
    <2> SUFFICES ASSUME TableInv, NEW space \in Spaces
                 PROVE  references[space] =
                          Cardinality({s \in Used : processes[s].address_space = space})
      BY Zenon DEF ReferencesExact
    <2>1. {s \in Used : processes[s].address_space = space} = Holders(space)
      BY Zenon DEF Used, Holders, TableInv, SlotsFilled
    <2>2. references[space] = Cardinality(Holders(space))
      BY Zenon DEF TableInv, CountsExact
    <2> QED
      BY <2>1, <2>2, Zenon
  <1>2. TableInv /\ [Next]_vars => TableInv'
    BY NextStep, StutterInv, Zenon DEF Step
  <1> QED
    BY <1>1, <1>2, InitInv, PTL DEF Spec

\* No step of clone, execve, prctl, seccomp, kill or the scheduler lifts a
\* restriction or lets a strict process create or signal another.
THEOREM SandboxHolds == Spec => NoEscape
PROOF
  <1>1. TableInv /\ [Next]_vars => TableInv'
    BY NextStep, StutterInv DEF Step
  <1>2. TableInv /\ [Next]_vars => [Confined]_vars
    BY NextStep, Zenon DEF Step
  <1> QED
    BY <1>1, <1>2, InitInv, PTL DEF Spec, NoEscape
\* A process keeps its slot until it has ended, and its status until its
\* parent collects it with wait4 or reserve_slot finds no free slot.
THEOREM StatusesWait == Spec => ZombieKept
PROOF
  <1>1. TableInv /\ [Next]_vars => TableInv'
    BY NextStep, StutterInv, Zenon DEF Step
  <1>2. TableInv /\ [Next]_vars => [Retained]_vars
    BY NextOrderly, Zenon DEF Orderly
  <1> QED
    BY <1>1, <1>2, InitInv, PTL DEF Spec, ZombieKept, Retained

\* Whichever way a process ends (exit, exit_group, an exception, a signal),
\* finish_process leaves nobody of its address space blocked on its
\* clear_child_tid word.
THEOREM NobodyJoinsTheDead == Spec => JoinersWoken
PROOF
  <1>1. TableInv /\ [Next]_vars => TableInv'
    BY NextStep, StutterInv, Zenon DEF Step
  <1>2. TableInv /\ [Next]_vars => [Woken]_vars
    BY NextOrderly, Zenon DEF Orderly
  <1> QED
    BY <1>1, <1>2, InitInv, PTL DEF Spec, JoinersWoken, Woken
=============================================================================
