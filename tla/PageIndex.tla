------------------------------ MODULE PageIndex -----------------------------
(***************************************************************************)
(* The page records of one VmSpace and the open-addressing hash that finds *)
(* them by virtual page (kernel/vm.c): find_page, reserve_page_record,     *)
(* insert_page_lookup, remove_page_lookup and their callers.  Frames and   *)
(* page-table entries are the subject of Vm; here a page-table allocation  *)
(* just succeeds or fails.                                                 *)
(***************************************************************************)
EXTENDS Integers, FiniteSets

CONSTANTS
  Addresses,    \* virtual page numbers in use
  MaxPages,     \* VM_MAX_PAGES
  HashSize,     \* VM_PAGE_HASH_SIZE, a power of two
  Multiplier    \* 2654435761 modulo HashSize

ASSUME IndexAssumption ==
  /\ Addresses \subseteq Nat
  /\ MaxPages \in Nat \ {0}
  /\ HashSize \in Nat /\ HashSize > MaxPages
  /\ Multiplier \in Nat

Free == -1              \* a record that is not used
Tombstone == -1         \* page_lookup value of a removed page
Records == 0..(MaxPages - 1)
Slots == 0..(HashSize - 1)

VARIABLES
  address,        \* pages[i].virtual_address, Free when the record is unused
  page_lookup,    \* 0, Tombstone, or record index + 1
  free_page_hint

vars == <<address, page_lookup, free_page_hint>>

\* The slot of the k-th probe for page a, and what it holds.
Probe(a, k) == (a * Multiplier + k) % HashSize
Lookup(a, k) == page_lookup[Probe(a, k)]

Smallest(S) == CHOOSE k \in S : \A j \in S : k <= j

\* find_page: the record of a, or Free.  Probing ends at an empty slot or at
\* a slot that holds the page; tombstones are passed over.
Holds(a, k) == Lookup(a, k) > 0 /\ address[Lookup(a, k) - 1] = a

find_page(a) ==
  LET stops == {k \in Slots : Lookup(a, k) = 0 \/ Holds(a, k)}
  IN IF stops # {} /\ Holds(a, Smallest(stops))
     THEN Lookup(a, Smallest(stops)) - 1 ELSE Free

\* reserve_page_record: the first unused record from the hint on, cyclically.
reserve_page_record ==
  LET offsets == {o \in Records : address[(free_page_hint + o) % MaxPages] = Free}
  IN IF offsets = {} THEN Free ELSE (free_page_hint + Smallest(offsets)) % MaxPages

\* insert_page_lookup: the first tombstone before an empty slot, or that slot.
\* Without an empty slot there is none (Free), tombstones or not.
insert_slot(a) ==
  LET empty == {k \in Slots : Lookup(a, k) = 0}
      reusable == {k \in Slots : k < Smallest(empty) /\ Lookup(a, k) = Tombstone}
  IN IF empty = {} THEN Free
     ELSE Probe(a, Smallest(IF reusable # {} THEN reusable ELSE empty))

\* The hint moves when a record is reserved, whatever becomes of it.
Advance(i) == free_page_hint' = IF i = Free THEN free_page_hint ELSE (i + 1) % MaxPages

\* install_page for an absent page, from vm_map_page, vm_map_shared_frame or
\* vm_space_clone_cow.
Install(a) ==
  LET i == reserve_page_record
      slot == insert_slot(a)
  IN /\ find_page(a) = Free
     /\ i # Free /\ slot # Free
     /\ address' = [address EXCEPT ![i] = a]
     /\ page_lookup' = [page_lookup EXCEPT ![slot] = i + 1]
     /\ Advance(i)

\* install_page that fails: no record, no page table, or no slot, in which
\* case the record is cleared again.
InstallFail(a) ==
  /\ find_page(a) = Free
  /\ Advance(reserve_page_record)
  /\ UNCHANGED <<address, page_lookup>>

\* remove_page_lookup: the slot of record i, found by probing for its page.
remove_slot(i) ==
  LET stops == {k \in Slots : Lookup(address[i], k) \in {0, i + 1}}
  IN IF stops # {} /\ Lookup(address[i], Smallest(stops)) = i + 1
     THEN Probe(address[i], Smallest(stops)) ELSE Free

\* Mutant: the slot is emptied instead of marked.
Unmap_Emptied(a) ==
  LET i == find_page(a)
  IN /\ i # Free
     /\ remove_slot(i) # Free => page_lookup' = [page_lookup EXCEPT ![remove_slot(i)] = 0]
     /\ remove_slot(i) = Free => UNCHANGED page_lookup
     /\ UNCHANGED free_page_hint
     /\ address' = [address EXCEPT ![i] = Free]

\* vm_unmap_page.
Unmap(a) ==
  LET i == find_page(a)
      slot == remove_slot(i)
  IN /\ i # Free
     /\ IF slot = Free THEN UNCHANGED <<page_lookup, free_page_hint>>
        ELSE /\ page_lookup' = [page_lookup EXCEPT ![slot] = Tombstone]
             /\ free_page_hint' = IF i < free_page_hint THEN i ELSE free_page_hint
     /\ address' = [address EXCEPT ![i] = Free]

\* vm_space_reset_user.
Reset ==
  /\ address' = [i \in Records |-> Free]
  /\ page_lookup' = [s \in Slots |-> 0]
  /\ free_page_hint' = 0

Init ==
  /\ address = [i \in Records |-> Free]
  /\ page_lookup = [s \in Slots |-> 0]
  /\ free_page_hint = 0

Next ==
  \/ \E a \in Addresses : Install(a) \/ InstallFail(a) \/ Unmap(a)
  \/ Reset

Spec == Init /\ [][Next]_vars

-----------------------------------------------------------------------------
(* Properties *)

Mapped == {a \in Addresses : \E i \in Records : address[i] = a}

\* find_page finds every mapped page and nothing else, however the probe
\* sequences of the pages that came and went overlapped; the page fault
\* handler, mmap and the user copies all decide by it.  No page has two
\* records and no record two slots: vm_unmap_page would leave the other one
\* behind, with a frame already released.
FindExact ==
  /\ \A a \in Addresses :
       /\ a \in Mapped => find_page(a) # Free /\ address[find_page(a)] = a
       /\ a \notin Mapped => find_page(a) = Free
  /\ \A i, j \in Records : address[i] # Free /\ address[i] = address[j] => i = j
  /\ \A s, t \in Slots : page_lookup[s] > 0 /\ page_lookup[s] = page_lookup[t] => s = t
  /\ \A s \in Slots : page_lookup[s] > 0 => address[page_lookup[s] - 1] # Free

\* The documented capacity: with fewer than VM_MAX_PAGES pages mapped, a page
\* that is absent can be mapped.
CapacityAvailable ==
  Cardinality(Mapped) < MaxPages => \A a \in Addresses \ Mapped : insert_slot(a) # Free
=============================================================================
