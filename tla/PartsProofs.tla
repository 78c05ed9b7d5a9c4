----------------------------- MODULE PartsProofs ----------------------------
(***************************************************************************)
(* Proofs about four parts that share no state: find_page is exact, for    *)
(* tables of any size; the rings of the network adapter exchange frames    *)
(* exactly, for rings of any size and any number of frames; the pthread    *)
(* mutex excludes and pthread_once runs its routine once, for any number   *)
(* of threads; and the list of the kernel heap covers it exactly, for a    *)
(* heap of any size.                                                       *)
(***************************************************************************)
EXTENDS PageIndex, E1000, Pthread, Heap, WellFoundedInduction, TLAPS

-----------------------------------------------------------------------------
(* Numbers and sets *)

\* A nonempty set of numbers has a least one.
LEMMA LeastNatural ==
  ASSUME NEW S, S \subseteq Nat, S # {}
  PROVE  \E x \in S : \A y \in S : x <= y
PROOF
  <1> DEFINE R == {ss \in Nat \X Nat : ss[1] < ss[2]}
  <1>1. IsWellFoundedOn(R, Nat)
    BY NatLessThanWellFounded, Zenon DEF OpToRel
  <1>2. \E x \in S : \A y \in S : <<y, x>> \notin R
    <2> HIDE DEF R
    <2> QED
      BY <1>1, WFMin, Zenon
  <1>3. \A x, y \in Nat : <<y, x>> \notin R => x <= y
    OBVIOUS
  <1> QED
    BY <1>2, <1>3, Zenon

\* A multiple of n strictly between -n and n is 0.
LEMMA Times == ASSUME NEW n \in Nat \ {0}, NEW p \in Int, n * p < n, n * p > -n PROVE p = 0
<1>1. p >= 1 => n * p >= n
  OBVIOUS
<1>2. p <= -1 => n * (-p) >= n
  OBVIOUS
<1> QED
  BY <1>1, <1>2

\* What % and \div compute.
LEMMA IntDivision ==
  ASSUME NEW n \in Nat \ {0}, NEW a \in Int
  PROVE  a % n \in 0..(n - 1) /\ a = n * (a \div n) + (a % n) /\ a \div n \in Int
OBVIOUS

\* Quotient and remainder.
LEMMA Division ==
  ASSUME NEW n \in Nat \ {0}, NEW a \in Nat
  PROVE  a % n \in 0..(n - 1) /\ a = n * (a \div n) + (a % n) /\ a \div n \in Nat
OBVIOUS

\* A remainder is the only number below n that differs by a multiple of n.
LEMMA RemainderIs ==
  ASSUME NEW n \in Nat \ {0}, NEW a \in Int, NEW p \in Int, NEW d \in 0..(n - 1), a = n * p + d
  PROVE  a % n = d
<1> DEFINE q == a \div n
           r == a % n
<1>1. r \in 0..(n - 1) /\ a = n * q + r /\ q \in Int
  BY IntDivision, Zenon
<1> HIDE DEF q, r
<1>2. n * (p - q) = r - d /\ p - q \in Int
  BY <1>1
<1>3. p - q = 0
  <2> DEFINE z == p - q
  <2> HIDE DEF z
  <2>1. n * z < n /\ n * z > -n /\ z \in Int
    BY <1>1, <1>2 DEF z
  <2>2. z = 0
    BY <2>1, Times, Zenon
  <2> QED BY <2>2 DEF z
<1>4. n * (p - q) = 0
  BY <1>3
<1>5. r = d
  BY <1>1, <1>2, <1>4
<1> QED
  BY <1>5, Zenon DEF r

\* Offsets may be reduced before they are added.
LEMMA ModAdd ==
  ASSUME NEW n \in Nat \ {0}, NEW a \in Nat, NEW k \in Nat
  PROVE  ((a % n) + k) % n = (a + k) % n
<1> DEFINE q == a \div n
           r == a % n
           s == (r + k) \div n
           d == (r + k) % n
<1>1. r \in 0..(n - 1) /\ a = n * q + r /\ q \in Int
  BY IntDivision
<1> HIDE DEF q, r
<1>2. r + k \in Int
  BY <1>1
<1>3. d \in 0..(n - 1) /\ r + k = n * s + d /\ s \in Int
  BY <1>2, IntDivision, Zenon
<1> HIDE DEF s, d
<1>4. a + k = n * (q + s) + d /\ q + s \in Int /\ a + k \in Int
  BY <1>1, <1>3
<1>5. (a + k) % n = d
  BY <1>3, <1>4, RemainderIs, Zenon
<1> QED
  BY <1>5, Zenon DEF d, r

\* Two numbers less than n apart have the same slot only if they are equal.
LEMMA ModUnique ==
  ASSUME NEW n \in Nat \ {0}, NEW a \in Nat, NEW b \in Nat, a <= b, b - a < n, a % n = b % n
  PROVE  a = b
<1> DEFINE p == (b \div n) - (a \div n)
<1>1. p \in Int /\ b - a = n * p
  BY Division, SMTT(60)
<1>2. p = 0
  BY <1>1, Times
<1> QED
  BY <1>1, <1>2

\* The index of a ring is advanced as the code does it.
LEMMA ModNext ==
  ASSUME NEW n \in Nat \ {0}, NEW a \in Nat, NEW b \in Nat, b = a + 1
  PROVE  b % n = ((a % n) + 1) % n
<1>1. 1 \in Nat
  BY Zenon
<1> QED
  BY <1>1, ModAdd, Zenon

\* A whole ring later comes the same slot.
LEMMA ModWrap ==
  ASSUME NEW n \in Nat \ {0}, NEW a \in Nat, NEW b \in Nat, b = a + n
  PROVE  b % n = a % n
<1> DEFINE q == a \div n
           r == a % n
<1>1. r \in 0..(n - 1) /\ a = n * q + r /\ q \in Int
  BY IntDivision
<1> HIDE DEF q, r
<1>2. b = n * (q + 1) + r /\ q + 1 \in Int /\ b \in Int
  BY <1>1
<1>3. b % n = r
  BY <1>1, <1>2, RemainderIs, Zenon
<1> QED
  BY <1>3, Zenon DEF r

\* The slot of a ring of n in which number k lies.
Slot(n, k) == k % n

\* A counter's slot is one of the ring.
LEMMA SlotType == ASSUME NEW n \in Nat \ {0}, NEW k \in Nat PROVE Slot(n, k) \in 0..(n - 1)
BY Division, Zenon DEF Slot

\* The first counters have the first slots.
LEMMA SlotFirst ==
  ASSUME NEW n \in Nat \ {0} PROVE Slot(n, 0) = 0 /\ Slot(n, n - 1) = n - 1
BY DEF Slot

\* The next counter has the following slot around the ring.
LEMMA SlotNext ==
  ASSUME NEW n \in Nat \ {0}, NEW k \in Nat PROVE Slot(n, k + 1) = (Slot(n, k) + 1) % n
<1>1. k + 1 \in Nat
  OBVIOUS
<1> QED
  BY <1>1, ModNext, Zenon DEF Slot

\* A whole round leads back to the same slot.
LEMMA SlotWrap ==
  ASSUME NEW n \in Nat \ {0}, NEW k \in Nat PROVE Slot(n, k + n) = Slot(n, k)
<1>1. k + n \in Nat
  OBVIOUS
<1> QED
  BY <1>1, ModWrap, Zenon DEF Slot

\* Counters less than a round apart have different slots.
LEMMA SlotApart ==
  ASSUME NEW n \in Nat \ {0}, NEW j \in Nat, NEW k \in Nat, j < k, k - j < n
  PROVE  Slot(n, j) # Slot(n, k)
<1> SUFFICES ASSUME Slot(n, j) = Slot(n, k) PROVE FALSE
  BY Zenon
<1>1. j <= k /\ j % n = k % n
  BY DEF Slot
<1>2. j = k
  BY <1>1, ModUnique, Zenon
<1> QED
  BY <1>2

-----------------------------------------------------------------------------
(* The page index *)

\* Smallest is the least element of a nonempty set of natural numbers.
LEMMA SmallestExists ==
  ASSUME NEW S, S \subseteq Nat, S # {}
  PROVE  Smallest(S) \in S /\ \A j \in S : Smallest(S) <= j
PROOF
  <1>1. \E x \in S : \A y \in S : x <= y
    BY LeastNatural, Zenon
  <1> QED
    BY <1>1, Zenon DEF Smallest

\* Every probe reads a slot of the table.
LEMMA ProbeSlot ==
  ASSUME NEW a \in Addresses, NEW k \in Slots
  PROVE  Probe(a, k) \in Slots
PROOF
  <1>1. HashSize \in Nat \ {0} /\ a \in Nat /\ Multiplier \in Nat /\ k \in Nat
    BY IndexAssumption DEF Slots
  <1>2. a * Multiplier \in Nat
    BY <1>1
  <1>3. a * Multiplier + k \in Nat
    BY <1>1, <1>2
  <1> QED
    BY <1>1, <1>3, Division, Zenon DEF Probe, Slots

-----------------------------------------------------------------------------
(* The invariant *)

IndexTypes ==
  /\ address \in [Records -> Addresses \cup {Free}]
  /\ page_lookup \in [Slots -> -1..MaxPages]
  /\ free_page_hint \in Records

OneRecord == \A i, j \in Records : address[i] # Free /\ address[i] = address[j] => i = j
OneSlot == \A s, t \in Slots : page_lookup[s] > 0 /\ page_lookup[s] = page_lookup[t] => s = t
SlotLive == \A s \in Slots : page_lookup[s] > 0 => address[page_lookup[s] - 1] # Free

\* Probing for the page of record i meets the slot of i before an empty one.
Reached(i) ==
  \E k \in Slots : /\ Lookup(address[i], k) = i + 1
                   /\ \A j \in Slots : j < k => Lookup(address[i], j) # 0
AllReached == \A i \in Records : address[i] # Free => Reached(i)

IndexInv == IndexTypes /\ OneRecord /\ OneSlot /\ SlotLive /\ AllReached

-----------------------------------------------------------------------------
(* What the operations find *)

\* A slot that holds a record index names a record.
LEMMA LookupRecord ==
  ASSUME IndexTypes, NEW a \in Addresses, NEW k \in Slots
  PROVE  /\ Lookup(a, k) \in -1..MaxPages
         /\ Lookup(a, k) > 0 => Lookup(a, k) - 1 \in Records
PROOF
  <1>1. Lookup(a, k) \in -1..MaxPages
    BY ProbeSlot, Zenon DEF IndexTypes, Lookup
  <1> QED
    BY <1>1, IndexAssumption DEF Records

\* find_page(a) is the record of a, if it returns one.
LEMMA FindSound ==
  ASSUME IndexTypes, NEW a \in Addresses, find_page(a) # Free
  PROVE  find_page(a) \in Records /\ address[find_page(a)] = a
PROOF
  <1> DEFINE stops == {k \in Slots : Lookup(a, k) = 0 \/ Holds(a, k)}
  <1>1. stops # {} /\ Holds(a, Smallest(stops)) /\ find_page(a) = Lookup(a, Smallest(stops)) - 1
    BY Zenon DEF find_page
  <1>2. stops \subseteq Nat
    BY IndexAssumption DEF Slots
  <1>3. Smallest(stops) \in stops
    <2> HIDE DEF stops
    <2> QED BY <1>1, <1>2, SmallestExists, Zenon
  <1>4. Smallest(stops) \in Slots
    BY <1>3, Zenon
  <1> HIDE DEF stops
  <1> QED
    BY <1>1, <1>4, LookupRecord, Zenon DEF Holds

\* It returns one if the page has a record.
LEMMA FindComplete ==
  ASSUME IndexTypes, AllReached, NEW i \in Records, address[i] # Free
  PROVE  find_page(address[i]) # Free
PROOF
  <1> DEFINE a == address[i]
             stops == {k \in Slots : Lookup(a, k) = 0 \/ Holds(a, k)}
             m == Smallest(stops)
  <1>1. a \in Addresses
    BY Zenon DEF IndexTypes
  <1>2. PICK k \in Slots : Lookup(a, k) = i + 1 /\ \A j \in Slots : j < k => Lookup(a, j) # 0
    BY Zenon DEF AllReached, Reached
  <1>3. Holds(a, k)
    BY <1>2, IndexAssumption DEF Holds, Records
  <1>4. stops \subseteq Nat /\ k \in stops
    BY <1>3, IndexAssumption DEF Slots
  <1>5. m \in stops /\ m <= k
    <2> HIDE DEF stops
    <2> QED BY <1>4, SmallestExists, Zenon
  <1>6. m \in Slots /\ (Lookup(a, m) = 0 \/ Holds(a, m))
    BY <1>5, Zenon
  <1> HIDE DEF stops, m
  <1>7. Holds(a, m)
    <2>1. CASE m < k
      BY <1>2, <1>6, <2>1, Zenon
    <2>2. CASE ~(m < k)
      <3>1. m = k
        BY <2>2, <1>5, <1>6 DEF Slots
      <3> QED BY <3>1, <1>3
    <2> QED BY <2>1, <2>2
  <1>8. find_page(a) = Lookup(a, m) - 1
    BY <1>4, <1>7, Zenon DEF find_page, stops, m
  <1>9. Lookup(a, m) - 1 # Free
    BY <1>1, <1>6, <1>7, LookupRecord, IndexAssumption DEF Holds, Records, Free
  <1> QED
    BY <1>8, <1>9, Zenon

\* reserve_page_record returns an unused record, if anything.
LEMMA ReservedUnused ==
  ASSUME IndexTypes, reserve_page_record # Free
  PROVE  reserve_page_record \in Records /\ address[reserve_page_record] = Free
PROOF
  <1> DEFINE offsets == {o \in Records : address[(free_page_hint + o) % MaxPages] = Free}
             m == Smallest(offsets)
  <1>1. offsets # {} /\ reserve_page_record = (free_page_hint + m) % MaxPages
    BY Zenon DEF reserve_page_record
  <1>2. offsets \subseteq Nat
    BY IndexAssumption DEF Records
  <1>3. m \in offsets
    <2> HIDE DEF offsets
    <2> QED BY <1>1, <1>2, SmallestExists, Zenon
  <1>4. m \in Records /\ address[(free_page_hint + m) % MaxPages] = Free
    BY <1>3, Zenon
  <1> HIDE DEF offsets, m
  <1>5. free_page_hint + m \in Nat /\ MaxPages \in Nat \ {0}
    BY <1>4, IndexAssumption DEF IndexTypes, Records
  <1>6. (free_page_hint + m) % MaxPages \in Records
    BY <1>5, Division, Zenon DEF Records
  <1> QED
    BY <1>1, <1>4, <1>6, Zenon

\* insert_page_lookup returns a slot that holds nothing, and every probe
\* before it finds something.
LEMMA InsertSlot ==
  ASSUME IndexTypes, NEW a \in Addresses, insert_slot(a) # Free
  PROVE  \E k \in Slots : /\ insert_slot(a) = Probe(a, k)
                          /\ Lookup(a, k) <= 0
                          /\ \A j \in Slots : j < k => Lookup(a, j) # 0
PROOF
  <1> DEFINE empty == {k \in Slots : Lookup(a, k) = 0}
             e == Smallest(empty)
             reusable == {k \in Slots : k < e /\ Lookup(a, k) = Tombstone}
             r == Smallest(reusable)
  <1>1. empty # {} /\ insert_slot(a) = Probe(a, Smallest(IF reusable # {} THEN reusable ELSE empty))
    BY Zenon DEF insert_slot
  <1>2. empty \subseteq Nat /\ reusable \subseteq Nat
    BY IndexAssumption DEF Slots
  <1>3. e \in empty /\ \A j \in empty : e <= j
    <2> HIDE DEF empty, reusable
    <2> QED BY <1>1, <1>2, SmallestExists, Zenon
  <1>4. e \in Slots /\ Lookup(a, e) = 0 /\ \A j \in Slots : j < e => Lookup(a, j) # 0
    BY <1>3, IndexAssumption DEF Slots
  <1>5. CASE reusable = {}
    <2>1. insert_slot(a) = Probe(a, e)
      BY <1>1, <1>5, Zenon
    <2> QED BY <2>1, <1>4
  <1>6. CASE reusable # {}
    <2>1. insert_slot(a) = Probe(a, r)
      BY <1>1, <1>6, Zenon
    <2>2. r \in reusable
      <3> HIDE DEF reusable
      <3> QED BY <1>2, <1>6, SmallestExists, Zenon
    <2>3. r \in Slots /\ r < e /\ Lookup(a, r) = Tombstone
      BY <2>2, Zenon
    <2> HIDE DEF r, e, reusable
    <2> QED BY <2>1, <2>3, <1>4, IndexAssumption DEF Slots, Tombstone
  <1> QED
    BY <1>5, <1>6, Zenon

\* remove_page_lookup finds the slot of a used record.
LEMMA RemoveSlot ==
  ASSUME IndexTypes, AllReached, NEW i \in Records, address[i] # Free
  PROVE  remove_slot(i) # Free /\ remove_slot(i) \in Slots /\ page_lookup[remove_slot(i)] = i + 1
PROOF
  <1> DEFINE a == address[i]
             stops == {k \in Slots : Lookup(a, k) \in {0, i + 1}}
             m == Smallest(stops)
  <1>1. a \in Addresses
    BY DEF IndexTypes
  <1>2. PICK k \in Slots : Lookup(a, k) = i + 1 /\ \A j \in Slots : j < k => Lookup(a, j) # 0
    BY Zenon DEF AllReached, Reached
  <1>4. stops \subseteq Nat /\ k \in stops
    BY <1>2, IndexAssumption DEF Slots
  <1>5. m \in stops /\ m <= k
    <2> HIDE DEF stops
    <2> QED BY <1>4, SmallestExists, Zenon
  <1>6. m \in Slots /\ Lookup(a, m) \in {0, i + 1}
    BY <1>5, Zenon
  <1> HIDE DEF stops, m
  <1>7. Lookup(a, m) = i + 1
    <2>1. CASE m < k
      BY <1>2, <1>6, <2>1, Zenon
    <2>2. CASE ~(m < k)
      <3>1. m = k
        BY <2>2, <1>5, <1>6 DEF Slots
      <3> QED BY <3>1, <1>2
    <2> QED BY <2>1, <2>2
  <1>8. remove_slot(i) = Probe(a, m)
    BY <1>4, <1>7, Zenon DEF remove_slot, stops, m
  <1>9. Probe(a, m) \in Slots
    BY <1>1, <1>6, ProbeSlot, Zenon
  <1> QED
    BY <1>7, <1>8, <1>9 DEF Lookup, Slots, Free

-----------------------------------------------------------------------------
(* The steps *)

\* The hint stays inside the table.
LEMMA HintType ==
  ASSUME IndexTypes, Advance(reserve_page_record)
  PROVE  free_page_hint' \in Records
PROOF
  <1> DEFINE i == reserve_page_record
  <1>1. CASE i = Free
    BY <1>1, Zenon DEF Advance, IndexTypes
  <1>2. CASE i # Free
    <2>1. i \in Records
      BY <1>2, ReservedUnused, Zenon
    <2> HIDE DEF i
    <2>2. i + 1 \in Nat /\ MaxPages \in Nat \ {0}
      BY <2>1, IndexAssumption DEF Records
    <2>3. (i + 1) % MaxPages \in Records
      BY <2>2, Division, Zenon DEF Records
    <2> QED
      BY <1>2, <2>3, Zenon DEF Advance, i
  <1> QED
    BY <1>1, <1>2, Zenon

\* The page that is installed had no record, its record no slot and its slot
\* no record; a slot that is filled interrupts no probe sequence.
LEMMA InstallStep ==
  ASSUME IndexInv, NEW a \in Addresses, Install(a)
  PROVE  IndexInv'
PROOF
  <1> DEFINE i == reserve_page_record
             slot == insert_slot(a)
  <1> USE DEF IndexInv
  <1>1. /\ find_page(a) = Free /\ i # Free /\ slot # Free
        /\ address' = [address EXCEPT ![i] = a]
        /\ page_lookup' = [page_lookup EXCEPT ![slot] = i + 1]
        /\ Advance(i)
    BY Zenon DEF Install
  <1>2. i \in Records /\ address[i] = Free
    BY <1>1, ReservedUnused, Zenon
  <1>3. PICK k \in Slots : /\ slot = Probe(a, k)
                          /\ Lookup(a, k) <= 0
                          /\ \A j \in Slots : j < k => Lookup(a, j) # 0
    BY <1>1, InsertSlot, Zenon
  <1>4. slot \in Slots /\ page_lookup[slot] <= 0
    BY <1>3, ProbeSlot, Zenon DEF Lookup
  <1>5. \A j \in Records : address[j] # a
    <2> SUFFICES ASSUME NEW j \in Records, address[j] = a PROVE FALSE
      BY Zenon
    <2>1. a # Free
      BY IndexAssumption DEF Free
    <2> QED
      BY <2>1, <1>1, FindComplete, Zenon
  <1>6. a # Free /\ i + 1 # 0 /\ i + 1 > 0 /\ i + 1 \in -1..MaxPages /\ (i + 1) - 1 = i
    BY <1>2, IndexAssumption DEF Records, Free
  <1>7. free_page_hint' \in Records
    BY <1>1, HintType, Zenon
  <1> HIDE DEF i, slot
  <1>8. IndexTypes'
    BY <1>1, <1>2, <1>4, <1>6, <1>7, Zenon DEF IndexTypes
  <1>9. OneRecord'
    BY <1>1, <1>2, <1>5, Zenon DEF IndexTypes, OneRecord
  <1>10. \A t \in Slots : page_lookup[t] # i + 1
    BY <1>2, <1>6, Zenon DEF SlotLive
  <1>11. OneSlot'
    BY <1>1, <1>4, <1>10, Zenon DEF IndexTypes, OneSlot
  <1>12. SlotLive'
    <2> SUFFICES ASSUME NEW t \in Slots, page_lookup'[t] > 0
                 PROVE  address'[page_lookup'[t] - 1] # Free
      BY Zenon DEF SlotLive
    <2>1. CASE t = slot
      BY <2>1, <1>1, <1>2, <1>4, <1>6, Zenon DEF IndexTypes
    <2>2. CASE t # slot
      <3>1. page_lookup'[t] = page_lookup[t] /\ page_lookup[t] - 1 \in Records
        BY <2>2, <1>1, IndexAssumption DEF IndexTypes, Records
      <3> QED
        BY <3>1, <1>1, <1>2, <1>6, Zenon DEF IndexTypes, SlotLive
    <2> QED BY <2>1, <2>2
  <1>13. AllReached'
    <2> SUFFICES ASSUME NEW r \in Records, address'[r] # Free
                 PROVE  Reached(r)'
      BY Zenon DEF AllReached
    <2>1. CASE r = i
      <3>1. address'[r] = a
        BY <2>1, <1>1, <1>2, Zenon DEF IndexTypes
      <3>2. page_lookup'[Probe(a, k)] = r + 1
        BY <2>1, <1>1, <1>3, <1>4, Zenon DEF IndexTypes
      <3>3. \A j \in Slots : j < k => page_lookup'[Probe(a, j)] # 0
        <4> SUFFICES ASSUME NEW j \in Slots, j < k PROVE page_lookup'[Probe(a, j)] # 0
          BY Zenon
        <4>1. Probe(a, j) \in Slots /\ page_lookup[Probe(a, j)] # 0
          BY <1>3, ProbeSlot, Zenon DEF Lookup
        <4> QED
          BY <4>1, <1>1, <1>4, <1>6, Zenon DEF IndexTypes
      <3> QED
        BY <3>1, <3>2, <3>3, Zenon DEF Reached, Lookup
    <2>2. CASE r # i
      <3> DEFINE b == address[r]
      <3>1. address'[r] = b /\ b # Free /\ b \in Addresses
        BY <2>2, <1>1, Zenon DEF IndexTypes
      <3>2. PICK m \in Slots : Lookup(b, m) = r + 1 /\ \A j \in Slots : j < m => Lookup(b, j) # 0
        BY <3>1, Zenon DEF AllReached, Reached
      <3> HIDE DEF b
      <3>3. page_lookup'[Probe(b, m)] = r + 1
        <4>1. Probe(b, m) \in Slots /\ page_lookup[Probe(b, m)] = r + 1
          BY <3>1, <3>2, ProbeSlot, Zenon DEF Lookup
        <4>2. r + 1 > 0
          BY IndexAssumption DEF Records
        <4> QED
          BY <4>1, <4>2, <1>1, <1>4 DEF IndexTypes
      <3>4. \A j \in Slots : j < m => page_lookup'[Probe(b, j)] # 0
        <4> SUFFICES ASSUME NEW j \in Slots, j < m PROVE page_lookup'[Probe(b, j)] # 0
          BY Zenon
        <4>1. Probe(b, j) \in Slots /\ page_lookup[Probe(b, j)] # 0
          BY <3>1, <3>2, ProbeSlot, Zenon DEF Lookup
        <4> QED
          BY <4>1, <1>1, <1>4, <1>6, Zenon DEF IndexTypes
      <3> QED
        BY <3>1, <3>3, <3>4, Zenon DEF Reached, Lookup
    <2> QED BY <2>1, <2>2
  <1> QED
    BY <1>8, <1>9, <1>11, <1>12, <1>13, Zenon

\* The page that is unmapped leaves a tombstone, which no probe stops at.
LEMMA UnmapStep ==
  ASSUME IndexInv, NEW a \in Addresses, Unmap(a)
  PROVE  IndexInv'
PROOF
  <1> DEFINE i == find_page(a)
             slot == remove_slot(i)
  <1> USE DEF IndexInv
  <1>1. i # Free /\ address' = [address EXCEPT ![i] = Free]
    BY Zenon DEF Unmap
  <1>2. i \in Records /\ address[i] = a /\ a # Free
    BY <1>1, FindSound, IndexAssumption DEF Free
  <1>3. slot # Free /\ slot \in Slots /\ page_lookup[slot] = i + 1
    <2> HIDE DEF i
    <2> QED BY <1>2, RemoveSlot
  <1>4. /\ page_lookup' = [page_lookup EXCEPT ![slot] = Tombstone]
        /\ free_page_hint' = IF i < free_page_hint THEN i ELSE free_page_hint
    BY <1>3, Zenon DEF Unmap
  <1> HIDE DEF i, slot
  <1>5. IndexTypes'
    BY <1>1, <1>2, <1>3, <1>4, IndexAssumption DEF IndexTypes, Tombstone
  <1>6. OneRecord'
    BY <1>1, <1>2, Zenon DEF IndexTypes, OneRecord
  <1>7. OneSlot'
    BY <1>3, <1>4 DEF IndexTypes, OneSlot, Tombstone
  <1>8. SlotLive'
    <2> SUFFICES ASSUME NEW t \in Slots, page_lookup'[t] > 0
                 PROVE  address'[page_lookup'[t] - 1] # Free
      BY Zenon DEF SlotLive
    <2>1. t # slot /\ page_lookup'[t] = page_lookup[t]
      BY <1>3, <1>4 DEF IndexTypes, Tombstone
    <2>2. page_lookup[t] - 1 \in Records /\ page_lookup[t] - 1 # i
      BY <2>1, <1>2, <1>3, IndexAssumption DEF IndexTypes, Records, OneSlot
    <2> QED
      BY <2>1, <2>2, <1>1, Zenon DEF IndexTypes, SlotLive
  <1>9. AllReached'
    <2> SUFFICES ASSUME NEW r \in Records, address'[r] # Free
                 PROVE  Reached(r)'
      BY Zenon DEF AllReached
    <2> DEFINE b == address[r]
    <2>1. r # i /\ address'[r] = b /\ b # Free /\ b \in Addresses
      BY <1>1, <1>2, Zenon DEF IndexTypes
    <2>2. PICK m \in Slots : Lookup(b, m) = r + 1 /\ \A j \in Slots : j < m => Lookup(b, j) # 0
      BY <2>1, Zenon DEF AllReached, Reached
    <2> HIDE DEF b
    <2>3. page_lookup'[Probe(b, m)] = r + 1
      <3>1. Probe(b, m) \in Slots /\ page_lookup[Probe(b, m)] = r + 1
        BY <2>1, <2>2, ProbeSlot, Zenon DEF Lookup
      <3>2. r + 1 # i + 1
        BY <2>1, <1>2, IndexAssumption DEF Records
      <3> QED
        BY <3>1, <3>2, <1>3, <1>4, Zenon DEF IndexTypes
    <2>4. \A j \in Slots : j < m => page_lookup'[Probe(b, j)] # 0
      <3> SUFFICES ASSUME NEW j \in Slots, j < m PROVE page_lookup'[Probe(b, j)] # 0
        BY Zenon
      <3>1. Probe(b, j) \in Slots /\ page_lookup[Probe(b, j)] # 0
        BY <2>1, <2>2, ProbeSlot, Zenon DEF Lookup
      <3> QED
        BY <3>1, <1>4 DEF IndexTypes, Tombstone
    <2> QED
      BY <2>1, <2>3, <2>4, Zenon DEF Reached, Lookup
  <1> QED
    BY <1>5, <1>6, <1>7, <1>8, <1>9, Zenon

\* An empty index.
LEMMA EmptyIndex ==
  ASSUME address = [i \in Records |-> Free], page_lookup = [s \in Slots |-> 0],
         free_page_hint = 0
  PROVE  IndexInv
PROOF
  <1>1. 0 \in Records /\ 0 \in -1..MaxPages
    BY IndexAssumption DEF Records
  <1>2. IndexTypes /\ OneRecord /\ OneSlot /\ SlotLive
    BY <1>1 DEF IndexTypes, OneRecord, OneSlot, SlotLive
  <1>3. AllReached
    BY Zenon DEF AllReached
  <1> QED
    BY <1>2, <1>3, Zenon DEF IndexInv

\* vm_map_page, its failure and vm_unmap_page keep the invariant.
LEMMA IndexStep ==
  ASSUME IndexInv, [Next]_vars
  PROVE  IndexInv'
PROOF
  <1>1. ASSUME NEW a \in Addresses, Install(a) PROVE IndexInv'
    BY <1>1, InstallStep, Zenon
  <1>2. ASSUME NEW a \in Addresses, InstallFail(a) PROVE IndexInv'
    <2>1. free_page_hint' \in Records /\ address' = address /\ page_lookup' = page_lookup
      BY <1>2, HintType, Zenon DEF IndexInv, InstallFail
    <2>2. IndexTypes'
      BY <2>1, Zenon DEF IndexInv, IndexTypes
    <2> QED
      BY <2>1, <2>2, Zenon
      DEF IndexInv, OneRecord, OneSlot, SlotLive, AllReached, Reached, Lookup
  <1>3. ASSUME NEW a \in Addresses, Unmap(a) PROVE IndexInv'
    BY <1>3, UnmapStep
  <1>4. CASE Reset
    <2>1. /\ address' = [i \in Records |-> Free] /\ page_lookup' = [s \in Slots |-> 0]
          /\ free_page_hint' = 0
      BY <1>4, Zenon DEF Reset
    <2>2. 0 \in Records /\ 0 \in -1..MaxPages
      BY IndexAssumption DEF Records
    <2>3. (IndexTypes /\ OneRecord /\ OneSlot /\ SlotLive)'
      BY <2>1, <2>2 DEF IndexTypes, OneRecord, OneSlot, SlotLive
    <2>4. AllReached'
      BY <2>1, Zenon DEF AllReached
    <2> QED
      BY <2>3, <2>4, Zenon DEF IndexInv
  <1>5. CASE UNCHANGED vars
    BY <1>5, Zenon
    DEF vars, IndexInv, IndexTypes, OneRecord, OneSlot, SlotLive, AllReached, Reached, Lookup
  <1> QED
    BY <1>1, <1>2, <1>3, <1>4, <1>5, Zenon DEF Next

\* The invariant makes find_page exact.
LEMMA IndexInvExact == IndexInv => FindExact
PROOF
  <1> SUFFICES ASSUME IndexInv PROVE FindExact
    BY Zenon
  <1> USE DEF IndexInv
  <1>1. ASSUME NEW a \in Addresses, a \in Mapped
        PROVE  find_page(a) # Free /\ address[find_page(a)] = a
    <2>1. PICK i \in Records : address[i] = a
      BY <1>1, Zenon DEF Mapped
    <2>2. a # Free
      BY IndexAssumption DEF Free
    <2> QED
      BY <2>1, <2>2, FindComplete, FindSound, Zenon
  <1>2. ASSUME NEW a \in Addresses, a \notin Mapped PROVE find_page(a) = Free
    BY <1>2, FindSound, Zenon DEF Mapped
  <1> QED
    BY <1>1, <1>2, Zenon DEF FindExact, OneRecord, OneSlot, SlotLive

\* find_page finds the record of every mapped page and no other, after any
\* sequence of vm_map_page, vm_unmap_page and vm_space_reset_user, for tables
\* of any size and any multiplier: no probe sequence is ever cut short.
THEOREM FindIsExact == Spec => []FindExact
PROOF
  <1>1. Init => IndexInv
    BY EmptyIndex, Zenon DEF Init
  <1>2. IndexInv /\ [Next]_vars => IndexInv'
    BY IndexStep, Zenon
  <1> QED
    BY <1>1, <1>2, IndexInvExact, PTL DEF Spec

-----------------------------------------------------------------------------
(* The receive ring *)

Rings(count) ==
  [status : [0..(count - 1) -> {0, 1}], buffer : [0..(count - 1) -> Nat],
   head : 0..(count - 1), tail : 0..(count - 1), index : 0..(count - 1),
   step : {"idle", "clear", "release"}, busy : BOOLEAN]

\* Frames whose descriptor the driver gave back, and frames stored completely.
Returned == IF rx.step = "idle" THEN Len(delivered) ELSE Len(delivered) - 1
Filled == IF rx.busy THEN stored - 1 ELSE stored

\* Frame k, counted from 0, lies in Slot(RX_COUNT, k).  The registers and the
\* index are where the two counts say, the adapter is less than a ring ahead,
\* the slots in between hold their frames and the others are clear.
RxInv ==
  /\ rx \in Rings(RX_COUNT) /\ stored \in Nat /\ delivered \in Seq(Nat)
  /\ \A k \in 1..Len(delivered) : delivered[k] = k
  /\ Returned \in Nat /\ Filled \in Nat
  /\ Returned <= Filled /\ stored <= Returned + RX_COUNT - 1
  /\ rx.step # "idle" => Returned < Filled
  /\ rx.head = Slot(RX_COUNT, Filled) /\ rx.index = Slot(RX_COUNT, Returned)
  /\ rx.tail = Slot(RX_COUNT, Returned + RX_COUNT - 1)
  /\ \A k \in Nat : Returned <= k /\ k < stored => rx.buffer[Slot(RX_COUNT, k)] = k + 1
  /\ \A k \in Nat : Filled <= k /\ k < Returned + RX_COUNT => rx.status[Slot(RX_COUNT, k)] = 0
  /\ rx.step = "release" => rx.status[Slot(RX_COUNT, Returned)] = 0

\* The receive ring has two descriptors at least.
LEMMA RxCount == RX_COUNT \in Nat \ {0} /\ RX_COUNT > 1
BY RingAssumption

\* e1000_init gives all but one descriptor to the adapter.
LEMMA RxInit == e1000_init => RxInv
<1> SUFFICES ASSUME e1000_init PROVE RxInv
  BY Zenon
<1> USE RxCount, SlotType
<1>1. rx \in Rings(RX_COUNT) /\ Returned = 0 /\ Filled = 0 /\ stored = 0 /\ delivered = << >>
  BY DEF e1000_init, Ring, Rings, Returned, Filled
<1>2. /\ rx.head = 0 /\ rx.index = 0 /\ rx.tail = RX_COUNT - 1 /\ rx.step = "idle"
      /\ \A i \in 0..(RX_COUNT - 1) : rx.status[i] = 0
  BY Zenon DEF e1000_init, Ring
<1>3. Len(delivered) = 0 /\ delivered \in Seq(Nat)
  BY <1>1
<1>4. Slot(RX_COUNT, 0) = 0 /\ Slot(RX_COUNT, RX_COUNT - 1) = RX_COUNT - 1
  BY SlotFirst, Zenon
<1>5. 0 + RX_COUNT - 1 = RX_COUNT - 1
  BY RxCount
<1>6. \A k \in Nat : rx.status[Slot(RX_COUNT, k)] = 0
  BY <1>2, Zenon
<1>7. /\ \A k \in 1..Len(delivered) : delivered[k] = k
      /\ \A k \in Nat : ~(0 <= k /\ k < 0)
  BY <1>3
<1>8. 0 <= RX_COUNT - 1
  BY RxCount
<1> HIDE RxCount, SlotType
<1> QED
  BY <1>1, <1>2, <1>3, <1>4, <1>5, <1>6, <1>7, <1>8 DEF RxInv

\* e1000_receive copies a frame whose status is set.
LEMMA RxCopy == ASSUME RxInv, ReceiveCopy PROVE RxInv'
<1> USE RxCount, SlotType
<1>0. stored \in Nat /\ Len(delivered) \in Nat
  BY DEF RxInv
<1>1. /\ rx.step = "idle" /\ rx' = [rx EXCEPT !.step = "clear"] /\ stored' = stored
      /\ delivered' = Append(delivered, rx.buffer[rx.index]) /\ rx.status[rx.index] = 1
  BY Zenon DEF ReceiveCopy
<1>2. Returned = Len(delivered) /\ Returned < Filled
  <2>1. Returned = Len(delivered)
    BY <1>1, Zenon DEF Returned
  <2>2. ~(Filled <= Returned)
    <3>1. \A k \in Nat : Filled <= k /\ k < Returned + RX_COUNT
                           => rx.status[Slot(RX_COUNT, k)] = 0
      BY Zenon DEF RxInv
    <3>2. Returned \in Nat /\ rx.index = Slot(RX_COUNT, Returned)
      BY Zenon DEF RxInv
    <3>3. Returned < Returned + RX_COUNT
      BY <3>2
    <3>4. rx.status[Slot(RX_COUNT, Returned)] = 1
      BY <1>1, <3>2, Zenon
    <3>5. Filled <= Returned => rx.status[Slot(RX_COUNT, Returned)] = 0
      BY <3>1, <3>2, <3>3, Zenon
    <3> HIDE RxCount, SlotType
    <3> QED
      BY <3>4, <3>5
  <2> QED
    BY <2>1, <2>2 DEF RxInv
<1>3. rx.buffer[rx.index] = Len(delivered) + 1
  <2>1. Returned < stored
    BY <1>0, <1>2 DEF Filled
  <2>2. Returned \in Nat /\ rx.index = Slot(RX_COUNT, Returned)
    BY DEF RxInv
  <2>3. \A k \in Nat : Returned <= k /\ k < stored => rx.buffer[Slot(RX_COUNT, k)] = k + 1
    BY Zenon DEF RxInv
  <2>4. rx.buffer[Slot(RX_COUNT, Returned)] = Returned + 1
    BY <2>1, <2>2, <2>3
  <2> QED
    BY <1>2, <2>2, <2>4, Zenon
<1>4. /\ delivered' \in Seq(Nat) /\ Len(delivered') = Len(delivered) + 1
      /\ \A k \in 1..Len(delivered') : delivered'[k] = k
  BY <1>1, <1>3, SMTT(60) DEF RxInv
<1>5. rx' \in Rings(RX_COUNT)
  BY <1>1, Zenon DEF RxInv, Rings
<1>6. Returned' = Returned /\ Filled' = Filled
  BY <1>1, <1>2, <1>4 DEF RxInv, Returned, Filled, Rings
<1>7. /\ rx'.head = rx.head /\ rx'.tail = rx.tail /\ rx'.index = rx.index /\ rx'.step = "clear"
      /\ rx'.status = rx.status /\ rx'.buffer = rx.buffer
  BY <1>1, Zenon DEF RxInv, Rings
<1> QED
  BY <1>1, <1>2, <1>4, <1>5, <1>6, <1>7, Zenon DEF RxInv

\* e1000_receive clears the status.
LEMMA RxClear == ASSUME RxInv, ReceiveClear PROVE RxInv'
<1> USE RxCount, SlotType
<1>0. stored \in Nat /\ Len(delivered) \in Nat
  BY DEF RxInv
<1>1. /\ rx.step = "clear" /\ stored' = stored /\ delivered' = delivered
      /\ rx' = [rx EXCEPT !.status[rx.index] = 0, !.step = "release"]
  BY Zenon DEF ReceiveClear
<1>2. /\ rx'.head = rx.head /\ rx'.tail = rx.tail /\ rx'.index = rx.index /\ rx'.step = "release"
      /\ rx'.status = [rx.status EXCEPT ![rx.index] = 0] /\ rx'.buffer = rx.buffer
      /\ rx'.busy = rx.busy /\ rx' \in Rings(RX_COUNT)
  BY <1>1, Zenon DEF RxInv, Rings
<1>3. Returned' = Returned /\ Filled' = Filled
  BY <1>1, <1>2, Zenon DEF Returned, Filled
<1>4. \A i \in 0..(RX_COUNT - 1) : rx.status[i] = 0 => rx'.status[i] = 0
  BY <1>2, Zenon DEF RxInv, Rings
<1>5. rx'.status[Slot(RX_COUNT, Returned)] = 0
  BY <1>2, Zenon DEF RxInv, Rings
<1> QED
  BY <1>1, <1>2, <1>3, <1>4, <1>5 DEF RxInv

\* e1000_receive moves the tail register.
LEMMA RxRelease == ASSUME RxInv, ReceiveRelease PROVE RxInv'
<1> USE RxCount, SlotType
<1>0. stored \in Nat /\ Len(delivered) \in Nat
  BY DEF RxInv
<1>1. /\ rx.step = "release" /\ stored' = stored /\ delivered' = delivered
      /\ rx' = [rx EXCEPT !.tail = rx.index, !.index = (@ + 1) % RX_COUNT, !.step = "idle"]
  BY Zenon DEF ReceiveRelease
<1>2. Returned \in Nat /\ Slot(RX_COUNT, Returned + 1) = (rx.index + 1) % RX_COUNT
  BY SlotNext, Zenon DEF RxInv
<1>3. Slot(RX_COUNT, Returned + RX_COUNT) = Slot(RX_COUNT, Returned)
  BY <1>2, SlotWrap, Zenon
<1>4. /\ rx'.head = rx.head /\ rx'.tail = rx.index /\ rx'.index = Slot(RX_COUNT, Returned + 1)
      /\ rx'.step = "idle" /\ rx'.status = rx.status /\ rx'.buffer = rx.buffer
      /\ rx'.busy = rx.busy /\ rx' \in Rings(RX_COUNT)
  <2>1. Slot(RX_COUNT, Returned + 1) \in 0..(RX_COUNT - 1)
    BY <1>2
  <2> QED
    BY <1>1, <1>2, <2>1, Zenon DEF RxInv, Rings
<1>5. Returned' = Returned + 1 /\ Filled' = Filled
  BY <1>1, <1>4 DEF Returned, Filled
<1>6. (Returned + 1) + RX_COUNT - 1 = Returned + RX_COUNT
  BY <1>2
<1>7. \A k \in Nat : Filled <= k /\ k < Returned + 1 + RX_COUNT => rx.status[Slot(RX_COUNT, k)] = 0
  <2> SUFFICES ASSUME NEW k \in Nat, Filled <= k, k < Returned + 1 + RX_COUNT
               PROVE  rx.status[Slot(RX_COUNT, k)] = 0
    BY Zenon
  <2>1. CASE k = Returned + RX_COUNT
    BY <2>1, <1>1, <1>3, Zenon DEF RxInv
  <2>2. CASE k < Returned + RX_COUNT
    BY <2>2, Zenon DEF RxInv
  <2> QED
    BY <2>1, <2>2, <1>2
<1>8. Returned < Filled
  BY <1>1, Zenon DEF RxInv
<1> QED
  BY <1>1, <1>2, <1>3, <1>4, <1>5, <1>6, <1>7, <1>8, SMTT(60) DEF RxInv

\* The adapter fills the next buffer.
LEMMA RxStore == ASSUME RxInv, StoreFrame PROVE RxInv'
<1> USE RxCount, SlotType
<1>0. stored \in Nat /\ Len(delivered) \in Nat
  BY DEF RxInv
<1>1. /\ ~rx.busy /\ rx.head # rx.tail /\ delivered' = delivered /\ stored' = stored + 1
      /\ rx' = [rx EXCEPT !.buffer[rx.head] = stored + 1, !.busy = TRUE]
  BY Zenon DEF StoreFrame
<1>2. Filled = stored /\ stored # Returned + RX_COUNT - 1
  BY <1>1, Zenon DEF RxInv, Filled
<1>3. /\ rx'.head = rx.head /\ rx'.tail = rx.tail /\ rx'.index = rx.index /\ rx'.step = rx.step
      /\ rx'.buffer = [rx.buffer EXCEPT ![rx.head] = stored + 1] /\ rx'.status = rx.status
      /\ rx'.busy = TRUE /\ rx' \in Rings(RX_COUNT)
  <2>1. stored + 1 \in Nat
    BY <1>0
  <2> QED
    BY <1>1, <2>1, Zenon DEF RxInv, Rings
<1>4. Returned' = Returned /\ Filled' = Filled
  <2>1. Returned' = Returned
    BY <1>1, <1>3, Zenon DEF Returned
  <2>2. stored' - 1 = stored
    BY <1>0, <1>1
  <2> QED
    BY <2>1, <2>2, <1>1, <1>2, <1>3, Zenon DEF Filled
<1>5. \A k \in Nat : Returned <= k /\ k < stored + 1 => rx'.buffer[Slot(RX_COUNT, k)] = k + 1
  <2> SUFFICES ASSUME NEW k \in Nat, Returned <= k, k < stored + 1
               PROVE  rx'.buffer[Slot(RX_COUNT, k)] = k + 1
    BY Zenon
  <2>1. CASE k = stored
    BY <2>1, <1>2, <1>3, SMTT(60) DEF RxInv, Rings
  <2>2. CASE k < stored
    <3>1. Slot(RX_COUNT, k) # Slot(RX_COUNT, stored)
      <4>1. Returned \in Nat /\ stored \in Nat /\ stored <= Returned + RX_COUNT - 1
        BY Zenon DEF RxInv
      <4>2. stored - k < RX_COUNT
        BY <1>0, <4>1
      <4> QED
        BY <2>2, <1>0, <4>1, <4>2, SlotApart, Zenon
    <3> QED
      BY <3>1, <2>2, <1>2, <1>3, ZenonT(60) DEF RxInv, Rings
  <2> QED
    BY <2>1, <2>2, <1>0
<1>6. stored' \in Nat /\ stored' <= Returned + RX_COUNT - 1
  <2>1. Returned \in Nat /\ stored <= Returned + RX_COUNT - 1
    BY Zenon DEF RxInv
  <2> QED
    BY <1>0, <1>1, <1>2, <2>1
<1> QED
  BY <1>1, <1>3, <1>4, <1>5, <1>6 DEF RxInv

\* The adapter sets the status of the buffer it filled.
LEMMA RxStored == ASSUME RxInv, StoreDone PROVE RxInv'
<1> USE RxCount, SlotType
<1>0. stored \in Nat /\ Len(delivered) \in Nat
  BY DEF RxInv
<1>1. /\ rx.busy /\ delivered' = delivered /\ stored' = stored
      /\ rx' = [rx EXCEPT !.status[rx.head] = 1, !.head = (@ + 1) % RX_COUNT, !.busy = FALSE]
  BY Zenon DEF StoreDone
<1>2. Filled \in Nat /\ Filled + 1 = stored
  BY <1>1 DEF RxInv, Filled
<1>3. Slot(RX_COUNT, Filled + 1) = (rx.head + 1) % RX_COUNT
  BY <1>2, SlotNext, Zenon DEF RxInv
<1>4. /\ rx'.head = Slot(RX_COUNT, Filled + 1) /\ rx'.tail = rx.tail /\ rx'.index = rx.index
      /\ rx'.step = rx.step /\ rx'.status = [rx.status EXCEPT ![rx.head] = 1]
      /\ rx'.buffer = rx.buffer /\ rx'.busy = FALSE /\ rx' \in Rings(RX_COUNT)
  <2>1. Slot(RX_COUNT, Filled + 1) \in 0..(RX_COUNT - 1)
    BY <1>2
  <2> QED
    BY <1>1, <1>3, <2>1, Zenon DEF RxInv, Rings
<1>5. Returned' = Returned /\ Filled' = Filled + 1
  BY <1>1, <1>2, <1>4, Zenon DEF Returned, Filled
<1>6. \A k \in Nat : Filled + 1 <= k /\ k < Returned + RX_COUNT => rx'.status[Slot(RX_COUNT, k)] = 0
  <2> SUFFICES ASSUME NEW k \in Nat, Filled + 1 <= k, k < Returned + RX_COUNT
               PROVE  rx'.status[Slot(RX_COUNT, k)] = 0
    BY Zenon
  <2>1. Slot(RX_COUNT, k) # Slot(RX_COUNT, Filled)
    <3>1. Filled < k /\ k - Filled < RX_COUNT
      BY <1>2 DEF RxInv
    <3> QED
      BY <3>1, <1>2, SlotApart, Zenon
  <2>2. rx.status[Slot(RX_COUNT, k)] = 0
    <3>1. Filled <= k
      BY <1>2
    <3> QED
      BY <3>1, Zenon DEF RxInv
  <2> QED
    BY <2>1, <2>2, <1>4, Zenon DEF RxInv, Rings
<1>7. rx.step = "release" => rx'.status[Slot(RX_COUNT, Returned)] = 0
  <2> SUFFICES ASSUME rx.step = "release" PROVE rx'.status[Slot(RX_COUNT, Returned)] = 0
    BY Zenon
  <2>1. Slot(RX_COUNT, Returned) # Slot(RX_COUNT, Filled)
    BY <1>2, SlotApart, SMTT(60) DEF RxInv
  <2> QED
    BY <2>1, <1>4, Zenon DEF RxInv, Rings
<1> QED
  BY <1>1, <1>2, <1>4, <1>5, <1>6, <1>7, SMTT(60) DEF RxInv

-----------------------------------------------------------------------------
(* The transmit ring *)

\* Frames whose descriptor the adapter wrote back.
Sent == IF tx.busy THEN Len(wire) - 1 ELSE Len(wire)

\* The frames between Sent and accepted, at most a whole ring of them, lie in
\* their slots with the status clear; while the driver prepares another one
\* there is room for it.
TxInv ==
  /\ tx \in Rings(TX_COUNT) /\ accepted \in Nat /\ wire \in Seq(Nat)
  /\ \A k \in 1..Len(wire) : wire[k] = k
  /\ Sent \in Nat /\ Sent <= accepted /\ accepted <= Sent + TX_COUNT
  /\ tx.step # "idle" => accepted < Sent + TX_COUNT
  /\ tx.busy => Sent < accepted
  /\ tx.head = Slot(TX_COUNT, Sent)
  /\ tx.index = Slot(TX_COUNT, accepted) /\ tx.tail = Slot(TX_COUNT, accepted)
  /\ \A k \in Nat : Sent <= k /\ k < accepted =>
       tx.buffer[Slot(TX_COUNT, k)] = k + 1 /\ tx.status[Slot(TX_COUNT, k)] = 0
  /\ tx.step # "idle" => tx.buffer[Slot(TX_COUNT, accepted)] = accepted + 1
  /\ tx.step = "release" => tx.status[Slot(TX_COUNT, accepted)] = 0

\* The transmit ring has two descriptors at least.
LEMMA TxCount == TX_COUNT \in Nat \ {0} /\ TX_COUNT > 1
BY RingAssumption

\* e1000_init leaves all descriptors to the driver.
LEMMA TxInit == e1000_init => TxInv
<1> SUFFICES ASSUME e1000_init PROVE TxInv
  OBVIOUS
<1> USE TxCount
<1>1. tx \in Rings(TX_COUNT) /\ Sent = 0 /\ accepted = 0 /\ wire = << >>
  BY DEF e1000_init, Ring, Rings, Sent
<1>2. tx.head = 0 /\ tx.index = 0 /\ tx.tail = 0 /\ tx.step = "idle" /\ tx.busy = FALSE
  BY Zenon DEF e1000_init, Ring
<1>3. Len(wire) = 0 /\ wire \in Seq(Nat)
  BY <1>1
<1>4. Slot(TX_COUNT, 0) = 0
  BY SlotFirst, Zenon
<1> QED
  BY <1>1, <1>2, <1>3, <1>4 DEF TxInv

\* e1000_send copies a frame into a descriptor the adapter is done with.
LEMMA TxCopy == ASSUME TxInv, SendCopy PROVE TxInv'
<1> USE TxCount, SlotType
<1>0. accepted \in Nat /\ Sent \in Nat /\ accepted + 1 \in Nat
  <2>1. accepted \in Nat /\ Sent \in Nat
    BY Zenon DEF TxInv
  <2> QED
    BY <2>1
<1>1. /\ tx.step = "idle" /\ tx.status[tx.index] = 1 /\ accepted' = accepted /\ wire' = wire
      /\ tx' = [tx EXCEPT !.buffer[tx.index] = accepted + 1, !.step = "clear"]
  BY Zenon DEF SendCopy
<1>2. /\ tx'.head = tx.head /\ tx'.tail = tx.tail /\ tx'.index = tx.index /\ tx'.step = "clear"
      /\ tx'.buffer = [tx.buffer EXCEPT ![tx.index] = accepted + 1] /\ tx'.status = tx.status
      /\ tx'.busy = tx.busy /\ tx' \in Rings(TX_COUNT)
  BY <1>0, <1>1, Zenon DEF TxInv, Rings
<1>3. Sent' = Sent
  BY <1>1, <1>2, Zenon DEF Sent
<1>4. accepted < Sent + TX_COUNT
  <2>0. Sent <= accepted /\ accepted <= Sent + TX_COUNT
    BY Zenon DEF TxInv
  <2> SUFFICES ASSUME accepted = Sent + TX_COUNT PROVE FALSE
    BY <1>0, <2>0
  <2>1. tx.index = Slot(TX_COUNT, Sent)
    BY <1>0, SlotWrap, Zenon DEF TxInv
  <2>2. tx.status[Slot(TX_COUNT, Sent)] = 0
    <3>1. Sent <= Sent /\ Sent < accepted
      BY <1>0
    <3> QED
      BY <1>0, <3>1, Zenon DEF TxInv
  <2> QED
    BY <1>1, <2>1, <2>2
<1>5. tx'.buffer[Slot(TX_COUNT, accepted)] = accepted + 1
  BY <1>0, <1>2, Zenon DEF TxInv, Rings
<1>6. \A k \in Nat : Sent <= k /\ k < accepted =>
        tx'.buffer[Slot(TX_COUNT, k)] = tx.buffer[Slot(TX_COUNT, k)]
  <2> SUFFICES ASSUME NEW k \in Nat, Sent <= k, k < accepted
               PROVE  tx'.buffer[Slot(TX_COUNT, k)] = tx.buffer[Slot(TX_COUNT, k)]
    BY Zenon
  <2>1. accepted - k < TX_COUNT
    BY <1>0, <1>4
  <2>2. Slot(TX_COUNT, k) # Slot(TX_COUNT, accepted)
    BY <1>0, <2>1, SlotApart, Zenon
  <2> QED
    BY <2>2, <1>2, Zenon DEF TxInv, Rings
<1> QED
  BY <1>1, <1>2, <1>3, <1>4, <1>5, <1>6, SMTT(60) DEF TxInv

\* e1000_send clears the status.
LEMMA TxClear == ASSUME TxInv, SendClear PROVE TxInv'
<1> USE TxCount, SlotType
<1>0. accepted \in Nat /\ Sent \in Nat
  BY DEF TxInv
<1>1. /\ tx.step = "clear" /\ accepted' = accepted /\ wire' = wire
      /\ tx' = [tx EXCEPT !.status[tx.index] = 0, !.step = "release"]
  BY Zenon DEF SendClear
<1>2. /\ tx'.head = tx.head /\ tx'.tail = tx.tail /\ tx'.index = tx.index /\ tx'.step = "release"
      /\ tx'.status = [tx.status EXCEPT ![tx.index] = 0] /\ tx'.buffer = tx.buffer
      /\ tx'.busy = tx.busy /\ tx' \in Rings(TX_COUNT)
  BY <1>1, Zenon DEF TxInv, Rings
<1>3. Sent' = Sent
  BY <1>1, <1>2, Zenon DEF Sent
<1>4. \A i \in 0..(TX_COUNT - 1) : tx.status[i] = 0 => tx'.status[i] = 0
  BY <1>2, Zenon DEF TxInv, Rings
<1>5. tx'.status[Slot(TX_COUNT, accepted)] = 0
  BY <1>0, <1>2, Zenon DEF TxInv, Rings
<1> QED
  BY <1>1, <1>2, <1>3, <1>4, <1>5, SMTT(60) DEF TxInv

\* e1000_send moves the tail register.
LEMMA TxRelease == ASSUME TxInv, SendRelease PROVE TxInv'
<1> USE TxCount, SlotType
<1>0. accepted \in Nat /\ Sent \in Nat /\ accepted + 1 \in Nat
  <2>1. accepted \in Nat /\ Sent \in Nat
    BY DEF TxInv
  <2> QED
    BY <2>1
<1>1. /\ tx.step = "release" /\ accepted' = accepted + 1 /\ wire' = wire
      /\ tx' = [tx EXCEPT !.tail = (tx.index + 1) % TX_COUNT, !.index = (tx.index + 1) % TX_COUNT,
                         !.step = "idle"]
  BY Zenon DEF SendRelease
<1>2. Slot(TX_COUNT, accepted + 1) = (tx.index + 1) % TX_COUNT
  BY <1>0, SlotNext, Zenon DEF TxInv
<1>3. /\ tx'.head = tx.head /\ tx'.tail = Slot(TX_COUNT, accepted + 1)
      /\ tx'.index = Slot(TX_COUNT, accepted + 1) /\ tx'.step = "idle"
      /\ tx'.status = tx.status /\ tx'.buffer = tx.buffer
      /\ tx'.busy = tx.busy /\ tx' \in Rings(TX_COUNT)
  <2>1. Slot(TX_COUNT, accepted + 1) \in 0..(TX_COUNT - 1)
    BY <1>0, Zenon
  <2> QED
    BY <1>1, <1>2, <2>1, Zenon DEF TxInv, Rings
<1>4. Sent' = Sent
  BY <1>1, <1>3, Zenon DEF Sent
<1>5. Sent <= accepted + 1 /\ accepted + 1 <= Sent + TX_COUNT
  BY <1>0, <1>1, SMTT(60) DEF TxInv
<1>6. \A k \in Nat : Sent <= k /\ k < accepted + 1 =>
        tx.buffer[Slot(TX_COUNT, k)] = k + 1 /\ tx.status[Slot(TX_COUNT, k)] = 0
  <2> SUFFICES ASSUME NEW k \in Nat, Sent <= k, k < accepted + 1
               PROVE  tx.buffer[Slot(TX_COUNT, k)] = k + 1 /\ tx.status[Slot(TX_COUNT, k)] = 0
    BY Zenon
  <2>1. CASE k = accepted
    BY <2>1, <1>1, Zenon DEF TxInv
  <2>2. CASE k < accepted
    BY <2>2, Zenon DEF TxInv
  <2>3. k = accepted \/ k < accepted
    BY <1>0
  <2> QED
    BY <2>1, <2>2, <2>3, Zenon
<1>7. tx.busy => Sent < accepted + 1
  BY <1>0 DEF TxInv
<1> QED
  BY <1>0, <1>1, <1>3, <1>4, <1>5, <1>6, <1>7, SMTT(60) DEF TxInv

\* The adapter sends the next frame.
LEMMA TxTransmit == ASSUME TxInv, TransmitFrame PROVE TxInv'
<1> USE TxCount, SlotType
<1>0. accepted \in Nat /\ Sent \in Nat /\ Len(wire) \in Nat
  BY DEF TxInv
<1>1. /\ ~tx.busy /\ tx.head # tx.tail /\ accepted' = accepted
      /\ wire' = Append(wire, tx.buffer[tx.head]) /\ tx' = [tx EXCEPT !.busy = TRUE]
  BY Zenon DEF TransmitFrame
<1>2. Sent = Len(wire) /\ Sent < accepted
  <2>1. Sent # accepted
    BY <1>1, Zenon DEF TxInv
  <2>2. Sent <= accepted
    BY Zenon DEF TxInv
  <2> QED
    BY <1>0, <1>1, <2>1, <2>2 DEF Sent
<1>3. tx.buffer[tx.head] = Len(wire) + 1
  <2>1. \A k \in Nat : Sent <= k /\ k < accepted => tx.buffer[Slot(TX_COUNT, k)] = k + 1
    BY Zenon DEF TxInv
  <2>2. tx.buffer[Slot(TX_COUNT, Sent)] = Sent + 1
    BY <1>0, <1>2, <2>1
  <2> QED
    BY <1>2, <2>2, Zenon DEF TxInv
<1>4. /\ wire' \in Seq(Nat) /\ Len(wire') = Len(wire) + 1
      /\ \A k \in 1..Len(wire') : wire'[k] = k
  BY <1>0, <1>1, <1>3 DEF TxInv
<1>5. /\ tx'.head = tx.head /\ tx'.tail = tx.tail /\ tx'.index = tx.index /\ tx'.step = tx.step
      /\ tx'.status = tx.status /\ tx'.buffer = tx.buffer
      /\ tx'.busy = TRUE /\ tx' \in Rings(TX_COUNT)
  BY <1>1, Zenon DEF TxInv, Rings
<1>6. Sent' = Sent
  <2>1. Len(wire') - 1 = Len(wire)
    BY <1>0, <1>4
  <2> QED
    BY <2>1, <1>2, <1>5, Zenon DEF Sent
<1> QED
  BY <1>1, <1>2, <1>4, <1>5, <1>6, SMTT(60) DEF TxInv

\* The adapter sets the status of the frame it sent.
LEMMA TxTransmitted == ASSUME TxInv, TransmitDone PROVE TxInv'
<1> USE TxCount, SlotType
<1>0. accepted \in Nat /\ Sent \in Nat /\ Sent + 1 \in Nat /\ Len(wire) \in Nat
  BY DEF TxInv
<1>1. /\ tx.busy /\ accepted' = accepted /\ wire' = wire
      /\ tx' = [tx EXCEPT !.status[tx.head] = 1, !.head = (@ + 1) % TX_COUNT, !.busy = FALSE]
  BY Zenon DEF TransmitDone
<1>2. Slot(TX_COUNT, Sent + 1) = (tx.head + 1) % TX_COUNT
  BY <1>0, SlotNext, Zenon DEF TxInv
<1>3. /\ tx'.head = Slot(TX_COUNT, Sent + 1) /\ tx'.tail = tx.tail /\ tx'.index = tx.index
      /\ tx'.step = tx.step /\ tx'.status = [tx.status EXCEPT ![tx.head] = 1]
      /\ tx'.buffer = tx.buffer /\ tx'.busy = FALSE /\ tx' \in Rings(TX_COUNT)
  <2>1. Slot(TX_COUNT, Sent + 1) \in 0..(TX_COUNT - 1)
    BY <1>0, Zenon
  <2> QED
    BY <1>1, <1>2, <2>1, Zenon DEF TxInv, Rings
<1>4. Sent' = Sent + 1 /\ Sent < accepted
  BY <1>0, <1>1, <1>3, SMTT(60) DEF TxInv, Sent
<1>5. ASSUME NEW k \in Nat, Sent < k, k < Sent + TX_COUNT, tx.status[Slot(TX_COUNT, k)] = 0
      PROVE  tx'.status[Slot(TX_COUNT, k)] = 0
  <2>1. k - Sent < TX_COUNT
    BY <1>0, <1>5
  <2>2. Slot(TX_COUNT, k) # Slot(TX_COUNT, Sent)
    BY <1>0, <1>5, <2>1, SlotApart, Zenon
  <2> QED
    BY <2>2, <1>3, <1>5 DEF TxInv, Rings
<1>6. \A k \in Nat : Sent + 1 <= k /\ k < accepted =>
        tx.buffer[Slot(TX_COUNT, k)] = k + 1 /\ tx'.status[Slot(TX_COUNT, k)] = 0
  <2> SUFFICES ASSUME NEW k \in Nat, Sent + 1 <= k, k < accepted
               PROVE  tx.buffer[Slot(TX_COUNT, k)] = k + 1 /\ tx'.status[Slot(TX_COUNT, k)] = 0
    BY Zenon
  <2>0. accepted <= Sent + TX_COUNT
    BY Zenon DEF TxInv
  <2>1. Sent < k /\ Sent <= k /\ k < Sent + TX_COUNT
    BY <1>0, <2>0
  <2>2. tx.buffer[Slot(TX_COUNT, k)] = k + 1 /\ tx.status[Slot(TX_COUNT, k)] = 0
    BY <2>1, Zenon DEF TxInv
  <2> QED
    BY <2>1, <2>2, <1>5, Zenon
<1>7. tx.step = "release" => tx'.status[Slot(TX_COUNT, accepted)] = 0
  BY <1>0, <1>4, <1>5, Zenon DEF TxInv
<1>8. Sent + 1 <= accepted /\ accepted <= Sent + 1 + TX_COUNT
      /\ (tx.step # "idle" => accepted < Sent + 1 + TX_COUNT)
  <2>1. Sent \in Nat /\ accepted \in Nat /\ accepted <= Sent + TX_COUNT
    BY Zenon DEF TxInv
  <2>2. Sent + 1 <= accepted /\ accepted < Sent + 1 + TX_COUNT
    BY <1>0, <1>4, <2>1
  <2> QED
    BY <2>1, <2>2, <1>0
<1> QED
  BY <1>0, <1>1, <1>3, <1>4, <1>6, <1>7, <1>8, SMTT(60) DEF TxInv

-----------------------------------------------------------------------------
(* The theorem *)

\* Both invariants make the exchange exact.
LEMMA RingsExact == RxInv /\ TxInv => FramesExact
<1> SUFFICES ASSUME RxInv, TxInv PROVE FramesExact
  BY Zenon
<1> USE RxCount, TxCount
<1>1. /\ \A k \in DOMAIN delivered : delivered[k] = k
      /\ \A k \in DOMAIN wire : wire[k] = k
  <2>1. delivered \in Seq(Nat) /\ \A k \in 1..Len(delivered) : delivered[k] = k
    BY Zenon DEF RxInv
  <2>2. wire \in Seq(Nat) /\ \A k \in 1..Len(wire) : wire[k] = k
    BY Zenon DEF TxInv
  <2> QED
    BY <2>1, <2>2
<1>2. Len(delivered) <= stored
  <2>1. Len(delivered) \in Nat /\ stored \in Nat /\ Returned <= Filled
        /\ (rx.step # "idle" => Returned < Filled)
    BY DEF RxInv
  <2> QED
    BY <2>1 DEF Returned, Filled
<1>3. tx.head = tx.tail /\ ~tx.busy => accepted - Len(wire) \in {0, TX_COUNT}
  <2> SUFFICES ASSUME tx.head = tx.tail, ~tx.busy PROVE accepted - Len(wire) \in {0, TX_COUNT}
    BY Zenon
  <2>1. /\ Sent = Len(wire) /\ Sent \in Nat /\ accepted \in Nat /\ Sent <= accepted
        /\ accepted <= Sent + TX_COUNT /\ Slot(TX_COUNT, Sent) = Slot(TX_COUNT, accepted)
    BY Zenon DEF TxInv, Sent
  <2>2. ~(Sent < accepted /\ accepted - Sent < TX_COUNT)
    BY <2>1, SlotApart, Zenon
  <2> QED
    BY <2>1, <2>2
<1>4. rx.head = rx.index /\ rx.step = "idle" /\ ~rx.busy => stored = Len(delivered)
  <2> SUFFICES ASSUME rx.head = rx.index, rx.step = "idle", ~rx.busy PROVE stored = Len(delivered)
    BY Zenon
  <2>1. /\ Returned = Len(delivered) /\ Filled = stored
        /\ Returned \in Nat /\ Filled \in Nat /\ Returned <= Filled
        /\ stored <= Returned + RX_COUNT - 1 /\ Slot(RX_COUNT, Returned) = Slot(RX_COUNT, Filled)
    BY Zenon DEF RxInv, Returned, Filled
  <2>2. ~(Returned < Filled /\ Filled - Returned < RX_COUNT)
    BY <2>1, SlotApart, Zenon
  <2> QED
    BY <2>1, <2>2
<1> QED
  BY <1>1, <1>2, <1>3, <1>4, Zenon DEF FramesExact

\* For rings of any size: the kernel gets the frames the adapter stored and the
\* wire gets those e1000_send took, once and in order, and the adapter rests
\* with frames unsent only when the driver filled the whole ring.
THEOREM FramesAreExact == E1000Spec => []FramesExact
<1>1. e1000_init => RxInv /\ TxInv
  BY RxInit, TxInit, Zenon
<1>2. RxInv /\ TxInv /\ [E1000Next]_e1000_vars => (RxInv /\ TxInv)'
  <2> SUFFICES ASSUME RxInv, TxInv, [E1000Next]_e1000_vars PROVE (RxInv /\ TxInv)'
    BY Zenon
  <2>1. UNCHANGED <<rx, stored, delivered>> => RxInv'
    BY DEF RxInv, Returned, Filled
  <2>2. UNCHANGED <<tx, accepted, wire>> => TxInv'
    BY Zenon DEF TxInv, Sent
  <2>3. CASE UNCHANGED e1000_vars
    BY <2>1, <2>2, <2>3, Zenon DEF e1000_vars
  <2>4. CASE ReceiveCopy
    BY <2>2, <2>4, RxCopy, Zenon DEF ReceiveCopy
  <2>5. CASE ReceiveClear
    BY <2>2, <2>5, RxClear, Zenon DEF ReceiveClear
  <2>6. CASE ReceiveRelease
    BY <2>2, <2>6, RxRelease, Zenon DEF ReceiveRelease
  <2>7. CASE StoreFrame
    BY <2>2, <2>7, RxStore, Zenon DEF StoreFrame
  <2>8. CASE StoreDone
    BY <2>2, <2>8, RxStored, Zenon DEF StoreDone
  <2>9. CASE SendCopy
    BY <2>1, <2>9, TxCopy, Zenon DEF SendCopy
  <2>10. CASE SendClear
    BY <2>1, <2>10, TxClear, Zenon DEF SendClear
  <2>11. CASE SendRelease
    BY <2>1, <2>11, TxRelease, Zenon DEF SendRelease
  <2>12. CASE TransmitFrame
    BY <2>1, <2>12, TxTransmit, Zenon DEF TransmitFrame
  <2>13. CASE TransmitDone
    BY <2>1, <2>13, TxTransmitted, Zenon DEF TransmitDone
  <2> QED
    BY <2>3, <2>4, <2>5, <2>6, <2>7, <2>8, <2>9, <2>10, <2>11, <2>12, <2>13, SMTT(60) DEF E1000Next
<1> QED
  BY <1>1, <1>2, RingsExact, PTL DEF E1000Spec

\* Where a thread can be.
Places ==
  {"once", "initializer", "once_store", "once_wake", "once_test", "once_sleep", "ready",
   "lock", "contend", "sleep", "locked", "unlock", "unlock_wake", "unlocked",
   "cond_wait", "cond_unlock", "cond_wake", "cond_sleep", "signal", "signal_wake", "signalled"}

-----------------------------------------------------------------------------
(* The mutex *)

Holding == {"locked", "unlock", "cond_wait", "cond_unlock"}

\* The word of the mutex tells whether it is held, and it is held by one
\* thread; with the types the steps need.
MutexInv ==
  /\ pc \in [Threads -> Places]
  /\ word \in [Objects -> Nat]
  /\ \A t, u \in Threads : pc[t] \in Holding /\ pc[u] \in Holding => t = u
  /\ word["mutex"] = 0 <=> \A t \in Threads : pc[t] \notin Holding

\* A step that leaves the mutex word alone and moves a thread between two
\* places that hold the mutex, or two that do not.
LEMMA MutexKept ==
  ASSUME MutexInv, NEW t \in Threads, NEW l \in Places, Goto(t, l),
         l \in Holding <=> pc[t] \in Holding,
         word' \in [Objects -> Nat], word'["mutex"] = word["mutex"]
  PROVE  MutexInv'
BY DEF MutexInv, Goto

\* Every step of a thread keeps the invariant of the mutex.
LEMMA MutexPreserved == ASSUME MutexInv, NEW t \in Threads, Step(t) PROVE MutexInv'
<1>0. word \in [Objects -> Nat]
  BY Zenon DEF MutexInv
<1>1. CASE LockFast(t)
  BY <1>1 DEF LockFast, MutexInv, At, Set, Goto, Objects, Holding, Places
<1>2. CASE LockExchange(t)
  BY <1>2 DEF LockExchange, MutexInv, At, Set, Goto, Objects, Holding, Places
<1>3. CASE LockSleep(t) \/ CondSleep(t) \/ SignalWake(t) \/ BroadcastWake(t)
  BY <1>3, <1>0, MutexKept, Zenon DEF LockSleep, CondSleep, SignalWake, BroadcastWake, At,
    futex_wait, futex_wake, Holding, Places
<1>4. ASSUME NEW from \in Holding, NEW quiet \in Places \ Holding,
             NEW wake \in Places \ Holding, Release(t, from, quiet, wake)
      PROVE  MutexInv'
  BY <1>4, Zenon DEF Release, MutexInv, At, Set, Goto, Objects
<1>5. CASE Unlock(t)
  BY <1>5, <1>4, <1>0, MutexKept, Zenon DEF Unlock, futex_wake, At, Holding, Places
<1>6. CASE CondRelease(t)
  BY <1>6, <1>4, <1>0, MutexKept, Zenon DEF CondRelease, futex_wake, At, Holding, Places
<1>7. CASE CondLoad(t)
  BY <1>7, <1>0, MutexKept, Zenon DEF CondLoad, At, Holding, Places
<1>8. CASE SignalAdd(t)
  <2>1. (word["cond"] + 1) % Modulus \in Nat
    BY <1>0, CounterAssumption, SMTT(60) DEF Objects
  <2> QED
    BY <1>8, <2>1, <1>0, MutexKept, Zenon DEF SignalAdd, At, Set, Objects, Holding, Places
<1>9. CASE OnceEnter(t) \/ Initialize(t)
  BY <1>9, <1>0, MutexKept, SMTT(60) DEF OnceEnter, Initialize, At, Set, Objects, Holding, Places
<1>10. CASE OnceStore(t)
  BY <1>10, <1>0, MutexKept DEF OnceStore, futex_wake, At, Set, Objects, Holding, Places
<1>11. CASE OnceTest(t)
  BY <1>11, <1>0, MutexKept, Zenon DEF OnceTest, futex_wait, At, Holding, Places
<1>12. CASE Put(t) \/ Take(t) \/ Await(t)
  BY <1>12, <1>0, MutexKept, Zenon DEF Put, Take, Await, At, Holding, Places
<1>13. CASE Proceed(t)
  BY <1>13, <1>0, MutexKept, Zenon DEF Proceed, At, Holding, Places
<1> QED
  BY <1>1, <1>2, <1>3, <1>5, <1>6, <1>7, <1>8, <1>9, <1>10, <1>11, <1>12, <1>13, Step(t), ZenonT(60)
     DEF Step

\* The invariant excludes.
LEMMA MutexInvExact == MutexInv => MutualExclusion
  BY Zenon DEF MutexInv, MutualExclusion, Holders, Holding

\* At most one thread is between pthread_mutex_lock and the exchange of the
\* unlock that follows, across pthread_cond_wait too, and the word is 0 exactly
\* when there is none.
THEOREM Exclusion == PthreadSpec => []MutualExclusion
<1>1. PthreadInit => MutexInv
  BY DEF PthreadInit, MutexInv, Holding, Places, Objects
<1>2. MutexInv /\ [PthreadNext]_pthread_vars => MutexInv'
  <2> SUFFICES ASSUME MutexInv, [PthreadNext]_pthread_vars PROVE MutexInv'
    OBVIOUS
  <2>1. CASE UNCHANGED pthread_vars
    BY <2>1, Zenon DEF MutexInv, pthread_vars
  <2>2. ASSUME NEW t \in Threads, Step(t) PROVE MutexInv'
    BY <2>2, MutexPreserved, Zenon
  <2> QED
    BY <2>1, <2>2, Zenon DEF PthreadNext
<1> QED
  BY <1>1, <1>2, MutexInvExact, PTL DEF PthreadSpec

-----------------------------------------------------------------------------
(* once *)

\* The control word is 0 until a thread claims it; the claimer runs the
\* initializer and then stores 2, and the others wait for that.
OnceInv ==
  /\ pc \in [Threads -> Places]
  /\ word \in [Objects -> Nat] /\ word["once"] \in {0, 1, 2} /\ initialized \in {0, 1}
  /\ word["once"] = 0 => initialized = 0 /\ \A t \in Threads : pc[t] = "once"
  /\ word["once"] = 2 => initialized = 1
  /\ \A t \in Threads : pc[t] = "initializer" => word["once"] = 1 /\ initialized = 0
  /\ \A t, u \in Threads : pc[t] = "initializer" /\ pc[u] = "initializer" => t = u
  /\ \A t \in Threads :
       pc[t] \notin {"once", "once_test", "once_sleep", "initializer"} => initialized = 1

\* A step that neither touches the control word nor runs the initializer, and
\* goes on from a place past the initializer or stays before it.
LEMMA OnceKept ==
  ASSUME OnceInv, NEW t \in Threads, NEW l \in Places, Goto(t, l),
         l \notin {"once", "initializer"}, pc[t] # "initializer", word["once"] # 0,
         word'["once"] = word["once"], word' \in [Objects -> Nat], initialized' = initialized,
         initialized = 1 \/ l \in {"once_test", "once_sleep"}
  PROVE  OnceInv'
BY Zenon DEF OnceInv, Goto

\* Every step of a thread keeps the invariant of pthread_once.
LEMMA OnceStep == ASSUME OnceInv, NEW t \in Threads, Step(t) PROVE OnceInv'
<1>0. /\ pc \in [Threads -> Places] /\ word \in [Objects -> Nat]
      /\ pc[t] # "once" => word["once"] # 0
      /\ pc[t] \notin {"once", "once_test", "once_sleep", "initializer"} => initialized = 1
  BY Zenon DEF OnceInv
<1>1. CASE OnceEnter(t)
  BY <1>1, SMTT(60) DEF OnceEnter, OnceInv, At, Set, Goto, Client, Objects, Places
<1>2. CASE Initialize(t)
  BY <1>2 DEF Initialize, OnceInv, At, Goto, Places
<1>3. CASE OnceStore(t)
  <2>1. CASE At(t, "once_store") /\ Set("once", 2)
    BY <1>3, <2>1 DEF OnceStore, OnceInv, At, Set, Goto, Client, Objects, futex_wake, Places
  <2>2. CASE At(t, "once_wake") /\ futex_wake(t, "once", Everyone, "ready")
    BY <2>2, <1>0, OnceKept, Zenon DEF At, futex_wake, Client, Places
  <2> QED
    BY <1>3, <2>1, <2>2, Zenon DEF OnceStore, Places
<1>4. CASE OnceTest(t)
  BY <1>4, <1>0, OnceKept, Zenon DEF OnceTest, OnceInv, At, futex_wait, Client, Places
<1>5. CASE LockFast(t) \/ LockExchange(t)
  BY <1>5, <1>0, OnceKept DEF LockFast, LockExchange, At, Set, Client, Objects, Places
<1>6. CASE LockSleep(t) \/ CondSleep(t) \/ SignalWake(t) \/ BroadcastWake(t)
  BY <1>6, <1>0, OnceKept, ZenonT(60) DEF LockSleep, CondSleep, SignalWake, BroadcastWake, At,
    futex_wait, futex_wake, Client, Places
<1>7. CASE Unlock(t) \/ CondRelease(t)
  BY <1>7, <1>0, OnceKept, SMTT(60)
     DEF Unlock, CondRelease, Release, At, Set, futex_wake, Client, Objects, Places
<1>8. CASE CondLoad(t) \/ SignalAdd(t)
  <2>1. (word["cond"] + 1) % Modulus \in Nat
    BY <1>0, CounterAssumption DEF Objects, Places
  <2> QED
    BY <1>8, <2>1, <1>0, OnceKept, SMTT(60)
       DEF CondLoad, SignalAdd, At, Set, Client, Objects, Places
<1>9. CASE Put(t) \/ Take(t) \/ Await(t)
  BY <1>9, <1>0, OnceKept, Zenon DEF Put, Take, Await, At, Client, Places
<1>10. CASE Proceed(t)
  BY <1>10, <1>0, OnceKept, Zenon DEF Proceed, At, Client, Places
<1> QED
  BY <1>1, <1>2, <1>3, <1>4, <1>5, <1>6, <1>7, <1>8, <1>9, <1>10, Step(t), Zenon DEF Step

\* The initializer given to pthread_once runs at most once, and a thread that
\* returns from pthread_once finds it finished.
THEOREM Once == PthreadSpec => []InitializedOnce
<1>1. PthreadInit => OnceInv
  BY DEF PthreadInit, OnceInv, Places, Objects
<1>2. OnceInv /\ [PthreadNext]_pthread_vars => OnceInv'
  <2> SUFFICES ASSUME OnceInv, [PthreadNext]_pthread_vars PROVE OnceInv'
    OBVIOUS
  <2>1. CASE UNCHANGED pthread_vars
    BY <2>1, Zenon DEF OnceInv, pthread_vars
  <2>2. ASSUME NEW t \in Threads, Step(t) PROVE OnceInv'
    BY <2>2, OnceStep
  <2> QED
    BY <2>1, <2>2 DEF PthreadNext
<1>3. OnceInv => InitializedOnce
  BY DEF OnceInv, InitializedOnce
<1> QED
  BY <1>1, <1>2, <1>3, PTL DEF PthreadSpec

-----------------------------------------------------------------------------
(* The kernel heap *)

Blocks ==
  [size : Nat, previous : Units \cup {NULL}, next : Units \cup {NULL}, free : BOOLEAN]

\* The headers of table B, and the address after the block of one of them.
Live(B) == {b \in Units : B[b] # Nothing}
End(B, b) == b + Header + B[b].size

\* The block of b is not empty, and its neighbours know it.
Joined(B, b) ==
  /\ B[b].size # 0
  /\ B[b].next = NULL => End(B, b) = HeapSize
  /\ B[b].next # NULL => /\ B[b].next \in Live(B)
                         /\ B[b].next = End(B, b)
                         /\ B[B[b].next].previous = b
  /\ b = first_block => B[b].previous = NULL
  /\ b # first_block => B[b].previous \in Live(B) /\ B[B[b].previous].next = b

\* The headers form one list in the order of their addresses.
Chain(B) ==
  /\ B \in [Units -> Blocks]
  /\ first_block \in Live(B)
  /\ \A b \in Live(B) : Joined(B, b)
  /\ \A b, c \in Live(B) : b < c => End(B, b) <= c

\* No two neighbours are free.
Coalesced(B) ==
  \A b \in Live(B) : B[b].free /\ B[b].next # NULL => ~B[B[b].next].free

InUse(B) == {b \in Live(B) : ~B[b].free}

\* The inductive invariant of the heap.
HeapInv ==
  /\ Chain(block)
  /\ Coalesced(block)
  /\ held \in [InUse(block) -> Nat \ {0}]
  /\ \A b \in InUse(block) : held[b] <= block[b].size

\* Numbers the provers need.
LEMMA HeapNumbers ==
  /\ Header \in Nat \ {0} /\ HeapSize \in Nat
  /\ NULL \in Int /\ NULL \notin Units
  /\ Units \subseteq Nat /\ first_block \in Units
  /\ \A b \in Units : b < HeapSize
  /\ \A b \in Nat : b < HeapSize => b \in Units
PROOF
  BY HeapAssumption DEF NULL, Units, first_block

\* A header of a chain lies in the heap and its block ends there.
LEMMA HeaderTypes ==
  ASSUME NEW B, Chain(B), NEW b \in Live(B)
  PROVE  /\ b \in Units /\ b \in Nat
         /\ B[b] \in Blocks /\ B[b].size \in Nat \ {0} /\ End(B, b) \in Nat
         /\ B[b].free \in BOOLEAN
         /\ b < End(B, b) /\ End(B, b) <= HeapSize
PROOF
  <1>1. b \in Units /\ b \in Nat
    BY HeapNumbers, Zenon DEF Live
  <1>2. B[b] \in Blocks
    BY <1>1, Zenon DEF Chain
  <1>3. B[b].size \in Nat /\ B[b].free \in BOOLEAN
    BY <1>2, Zenon DEF Blocks
  <1>4. B[b].size # 0
    BY Zenon DEF Chain, Joined
  <1>5. B[b].next = NULL => End(B, b) = HeapSize
    BY Zenon DEF Chain, Joined
  <1>6. B[b].next # NULL => B[b].next \in Units /\ B[b].next = End(B, b)
    BY Zenon DEF Chain, Joined, Live
  <1>7. End(B, b) \in Nat /\ b < End(B, b)
    BY <1>1, <1>3, HeapNumbers, SMTT(60) DEF End
  <1>8. End(B, b) <= HeapSize
    BY <1>5, <1>6, <1>7, HeapNumbers, SMTT(60)
  <1> QED
    BY <1>1, <1>2, <1>3, <1>4, <1>7, <1>8, SMTT(60)

\* The walk along next meets every header: the least one it did not meet
\* would be the next of one that it met.
LEMMA ListIsLive ==
  ASSUME Chain(block)
  PROVE  List = Live(block)
PROOF
  <1>1. Headers = Live(block)
    BY Zenon DEF Headers, Live
  <1> SUFFICES ASSUME NEW S \in SUBSET Headers, first_block \in S,
                      \A c \in S : block[c].next = NULL \/ block[c].next \in S,
                      NEW x \in Headers \ S
               PROVE  FALSE
    BY <1>1, Zenon DEF List
  <1> DEFINE T == Headers \ S
  <1>2. T \subseteq Nat /\ T # {}
    BY HeapNumbers, Zenon DEF Headers
  <1>3. PICK b \in T : \A c \in T : b <= c
    BY <1>2, LeastNatural, Zenon
  <1>4. b \in Live(block) /\ b # first_block
    BY <1>1, <1>3, Zenon
  <1> DEFINE p == block[b].previous
  <1>5. p \in Live(block) /\ block[p].next = b
    BY <1>4, Zenon DEF Chain, Joined
  <1>6. b # NULL
    BY <1>4, HeapNumbers, Zenon DEF Live
  <1>7. b = End(block, p)
    BY <1>5, <1>6, Zenon DEF Chain, Joined
  <1>8. p < b /\ p \in Nat /\ b \in Nat
    BY <1>4, <1>5, <1>7, HeaderTypes, ZenonT(60)
  <1>9. p \in S
    <2>1. p \notin T
      <3> HIDE DEF T, p
      <3> QED
        BY <1>3, <1>8
    <2> QED
      BY <1>1, <1>5, <2>1, Zenon
  <1> QED
    BY <1>3, <1>5, <1>6, <1>9, Zenon

\* The invariant makes the heap sound.
LEMMA HeapInvSound == HeapInv => HeapSound
PROOF
  <1> SUFFICES ASSUME HeapInv PROVE HeapSound
    BY Zenon
  <1>1. Chain(block) /\ Coalesced(block)
    BY Zenon DEF HeapInv
  <1>2. List = Live(block)
    BY <1>1, ListIsLive, Zenon
  <1>3. /\ DOMAIN held = InUse(block)
        /\ \A b \in InUse(block) : held[b] \in Nat \ {0} /\ held[b] <= block[b].size
    BY Zenon DEF HeapInv
  <1>4. ASSUME NEW b \in List
        PROVE  /\ IF block[b].next = NULL THEN b + Header + block[b].size = HeapSize
                  ELSE /\ block[b].next = b + Header + block[b].size
                       /\ block[block[b].next].previous = b
               /\ block[b].previous = NULL <=> b = first_block
               /\ ~block[b].free => b \in DOMAIN held
               /\ block[b].free /\ block[b].next # NULL => ~block[block[b].next].free
    <2>1. Joined(block, b)
      BY <1>1, <1>2, Zenon DEF Chain
    <2>2. NULL \notin Live(block)
      BY HeapNumbers, Zenon DEF Live
    <2>3. block[b].previous = NULL <=> b = first_block
      BY <2>1, <2>2, Zenon DEF Joined
    <2>4. ~block[b].free => b \in DOMAIN held
      BY <1>2, <1>3, Zenon DEF InUse
    <2>5. block[b].free /\ block[b].next # NULL => ~block[block[b].next].free
      BY <1>1, <1>2, Zenon DEF Coalesced
    <2>6. IF block[b].next = NULL THEN b + Header + block[b].size = HeapSize
          ELSE /\ block[b].next = b + Header + block[b].size
               /\ block[block[b].next].previous = b
      BY <2>1, Zenon DEF Joined, End
    <2> QED
      BY <2>3, <2>4, <2>5, <2>6, Zenon
  <1>5. \A b \in DOMAIN held : b \in List /\ ~block[b].free /\ held[b] <= block[b].size
    BY <1>2, <1>3, Zenon DEF InUse
  <1>6. ASSUME NEW b \in DOMAIN held, NEW c \in List, b # c
        PROVE  Payload(b) \cap Extent(c) = {}
    <2>1. b \in Live(block) /\ c \in Live(block) /\ held[b] <= block[b].size
          /\ held[b] \in Nat
      BY <1>2, <1>3, <1>5, SMTT(60)
    <2>2. /\ b \in Nat /\ block[b].size \in Nat /\ c \in Nat /\ block[c].size \in Nat
          /\ Header \in Nat
      BY <1>1, <2>1, HeaderTypes, HeapNumbers
    <2>3. /\ b < c => b + Header + block[b].size <= c
          /\ c < b => c + Header + block[c].size <= b
      BY <1>1, <2>1, Zenon DEF Chain, End
    <2> QED
      BY <1>6, <2>1, <2>2, <2>3, SMTT(60) DEF Payload, Extent
  <1> QED
    BY <1>4, <1>5, <1>6, Zenon DEF HeapSound

\* Table B with the free flag of b set.
Flagged(B, b, f) == [B EXCEPT ![b].free = f]

\* What that leaves.
FlagResult(B, N, b, f) ==
  /\ Chain(N)
  /\ Live(N) = Live(B)
  /\ \A c \in Live(B) : /\ N[c].size = B[c].size
                        /\ N[c].next = B[c].next
                        /\ N[c].previous = B[c].previous
                        /\ N[c].free = IF c = b THEN f ELSE B[c].free

\* Marking a block changes no link.
LEMMA FlagChain ==
  ASSUME NEW B, Chain(B), NEW b \in Live(B), NEW f \in BOOLEAN
  PROVE  FlagResult(B, Flagged(B, b, f), b, f)
PROOF
  <1> DEFINE r == [B[b] EXCEPT !.free = f]
             F == Flagged(B, b, f)
  <1>1. B \in [Units -> Blocks] /\ b \in Units /\ B[b] \in Blocks
    BY Zenon DEF Chain, Live
  <1>2. /\ r \in Blocks /\ r.size = B[b].size /\ r.next = B[b].next
        /\ r.previous = B[b].previous /\ r.free = f
    BY <1>1, Zenon DEF Blocks
  <1>3. F = [B EXCEPT ![b] = r]
    BY <1>1, Zenon DEF Flagged
  <1> HIDE DEF r
  <1>4. F \in [Units -> Blocks] /\ F[b] = r /\ \A c \in Units : c # b => F[c] = B[c]
    BY <1>1, <1>2, <1>3, Zenon
  <1>5. B[b].size # 0
    BY Zenon DEF Chain, Joined
  <1>6. r # Nothing
    BY <1>2, <1>5 DEF Nothing
  <1>7. Live(F) = Live(B)
    BY <1>4, <1>6, Zenon DEF Live
  <1>8. ASSUME NEW c \in Live(B)
        PROVE  /\ F[c].size = B[c].size /\ F[c].next = B[c].next
               /\ F[c].previous = B[c].previous
               /\ F[c].free = IF c = b THEN f ELSE B[c].free
               /\ End(F, c) = End(B, c)
    BY <1>2, <1>4, Zenon DEF End, Live
  <1> HIDE DEF F
  <1>9. ASSUME NEW c \in Live(B)
        PROVE  Joined(F, c)
    <2>1. Joined(B, c)
      BY Zenon DEF Chain
    <2>2. B[c].next # NULL => F[B[c].next].previous = B[B[c].next].previous
      BY <1>8, <2>1, Zenon DEF Joined
    <2>3. c # first_block => F[B[c].previous].next = B[B[c].previous].next
      BY <1>8, <2>1, Zenon DEF Joined
    <2> QED
      BY <1>7, <1>8, <2>1, <2>2, <2>3, Zenon DEF Joined
  <1>10. Chain(F)
    BY <1>4, <1>7, <1>8, <1>9, Zenon DEF Chain
  <1> QED
    BY <1>7, <1>8, <1>10, Zenon DEF F, FlagResult

\* Pulling x out of the block of b, or pushing it back, leaves the other
\* links alone: table N has the links of B but for b, x and what follows.
Relinked(B, N, b, x, n) ==
  \A c \in Units : c \notin {b, x} =>
    /\ N[c].size = B[c].size
    /\ N[c].next = B[c].next
    /\ c # n => N[c] = B[c]

\* The rest that split_block cuts off becomes a header.
Cut(B, b, size) ==
  LET r == b + Header + size
      split == [B EXCEPT
        ![r] = [size |-> B[b].size - size - Header, previous |-> b,
                next |-> B[b].next, free |-> TRUE],
        ![b].next = r, ![b].size = size]
  IN IF B[b].next = NULL THEN split
     ELSE [split EXCEPT ![B[b].next].previous = r]

\* A split block leaves room for a header and at least one unit behind it.
LEMMA CutPlace ==
  ASSUME NEW B, Chain(B), NEW b \in Live(B), NEW size \in Nat \ {0},
         ~(B[b].size < size + Header + 1)
  PROVE  /\ b + Header + size \in Units \ Live(B)
         /\ b < b + Header + size /\ b + Header + size < End(B, b)
         /\ B[b].size - size - Header \in Nat \ {0}
PROOF
  <1>1. /\ b \in Nat /\ B[b].size \in Nat /\ Header \in Nat \ {0} /\ HeapSize \in Nat
        /\ End(B, b) \in Nat /\ End(B, b) <= HeapSize
    BY HeaderTypes, HeapNumbers, SMTT(60)
  <1> DEFINE r == b + Header + size
  <1>2. /\ r \in Nat /\ b < r /\ r < End(B, b)
        /\ B[b].size - size - Header \in Nat \ {0}
    BY <1>1 DEF End
  <1> HIDE DEF r
  <1>3. r \in Units
    BY <1>1, <1>2, HeapNumbers, SMTT(60)
  <1>4. r \notin Live(B)
    <2> SUFFICES ASSUME r \in Live(B) PROVE FALSE
      BY Zenon
    <2>1. End(B, b) <= r
      BY <1>2, Zenon DEF Chain
    <2> QED
      BY <1>1, <1>2, <2>1
  <1> QED
    BY <1>2, <1>3, <1>4, Zenon DEF r

\* The fields of the table after a cut.
CutFields(B, N, b, r, n, size) ==
  /\ N \in [Units -> Blocks]
  /\ Relinked(B, N, b, r, n)
  /\ N[r].size = B[b].size - size - Header /\ N[r].previous = b
  /\ N[r].next = n /\ N[r].free = TRUE
  /\ N[b].size = size /\ N[b].previous = B[b].previous
  /\ N[b].next = r /\ N[b].free = B[b].free
  /\ n # NULL => N[n].previous = r /\ N[n].free = B[n].free

\* What split_block writes.
LEMMA CutTable ==
  ASSUME NEW B, Chain(B), NEW b \in Live(B), NEW size \in Nat \ {0},
         ~(B[b].size < size + Header + 1)
  PROVE  CutFields(B, Cut(B, b, size), b, b + Header + size, B[b].next, size)
PROOF
  <1> DEFINE r == b + Header + size
             n == B[b].next
             rest == B[b].size - size - Header
             rb == [B[b] EXCEPT !.next = r, !.size = size]
             rr == [size |-> rest, previous |-> b, next |-> n, free |-> TRUE]
             split == [B EXCEPT ![r] = rr, ![b] = rb]
             N == Cut(B, b, size)
             rn == [B[n] EXCEPT !.previous = r]
  <1>1. B \in [Units -> Blocks] /\ b \in Units /\ b \in Nat /\ B[b] \in Blocks
    BY HeaderTypes, Zenon DEF Chain
  <1>2. /\ r \in Units /\ r \notin Live(B) /\ b < r /\ r < End(B, b) /\ rest \in Nat
    BY CutPlace
  <1>3. b # r
    BY <1>1, <1>2
  <1>4. n \in Units \cup {NULL} /\ b \in Units \cup {NULL} /\ r \in Units \cup {NULL}
    BY <1>1, <1>2, Zenon DEF Blocks
  <1>5. n # NULL => n \in Live(B) /\ n = End(B, b)
    BY Zenon DEF Chain, Joined
  <1>6. End(B, b) \in Nat /\ b < End(B, b)
    BY HeaderTypes, Zenon
  <1>7. n # NULL => n \in Units /\ n # r /\ n # b /\ B[n] \in Blocks
    <2>1. n # NULL => n # b
      BY <1>1, <1>5, <1>6
    <2>2. n # NULL => n \in Units /\ n # r
      BY <1>2, <1>5, Zenon DEF Live
    <2> QED
      BY <1>1, <2>1, <2>2, Zenon
  <1> HIDE DEF rest
  <1>8. /\ rr \in Blocks /\ rr.size = rest /\ rr.previous = b /\ rr.next = n
        /\ rr.free = TRUE
    BY <1>2, <1>4, Zenon DEF Blocks
  <1>9. /\ rb \in Blocks /\ rb.size = size /\ rb.previous = B[b].previous /\ rb.next = r
        /\ rb.free = B[b].free
    BY <1>1, <1>4, Zenon DEF Blocks
  <1>10. n # NULL => /\ rn \in Blocks /\ rn.size = B[n].size /\ rn.next = B[n].next
                     /\ rn.previous = r /\ rn.free = B[n].free
    BY <1>4, <1>7, Zenon DEF Blocks
  <1>11. [B EXCEPT ![r] = [size |-> B[b].size - size - Header, previous |-> b,
                           next |-> B[b].next, free |-> TRUE],
                   ![b].next = r, ![b].size = size] = split
    BY <1>1, <1>2, <1>3, Zenon DEF rest
  <1> HIDE DEF rr, rb, r, n
  <1>12. /\ split \in [Units -> Blocks] /\ split[r] = rr /\ split[b] = rb
         /\ \A c \in Units : c \notin {b, r} => split[c] = B[c]
    BY <1>1, <1>2, <1>3, <1>8, <1>9, Zenon
  <1>13. N = IF n = NULL THEN split ELSE [split EXCEPT ![n].previous = r]
    BY <1>11, ZenonT(60) DEF Cut, r, n
  <1> HIDE DEF split
  <1>14. CASE n = NULL
    <2>1. N = split
      BY <1>13, <1>14, Zenon
    <2> HIDE DEF N
    <2>2. Relinked(B, N, b, r, n)
      BY <1>12, <2>1, Zenon DEF Relinked
    <2>3. N \in [Units -> Blocks] /\ N[r] = rr /\ N[b] = rb
      BY <1>12, <2>1, Zenon
    <2>4. CutFields(B, N, b, r, n, size)
      BY <1>8, <1>9, <1>14, <2>2, <2>3, ZenonT(60) DEF CutFields, rest
    <2> QED
      BY <2>4, Zenon DEF N, r, n
  <1>15. CASE n # NULL
    <2>1. split[n] = B[n]
      BY <1>7, <1>12, <1>15, Zenon
    <2>2. N = [split EXCEPT ![n] = rn]
      BY <1>7, <1>12, <1>13, <1>15, <2>1, Zenon
    <2> HIDE DEF N, rn
    <2>3. /\ N \in [Units -> Blocks] /\ N[n] = rn /\ N[r] = rr /\ N[b] = rb
          /\ \A c \in Units : c \notin {b, r, n} => N[c] = B[c]
      BY <1>1, <1>2, <1>7, <1>10, <1>12, <1>15, <2>2, Zenon
    <2>4. Relinked(B, N, b, r, n)
      BY <1>10, <1>15, <2>3, Zenon DEF Relinked
    <2>5. CutFields(B, N, b, r, n, size)
      BY <1>8, <1>9, <1>10, <1>15, <2>3, <2>4, ZenonT(60) DEF CutFields, rest
    <2> QED
      BY <2>5, Zenon DEF N, r, n
  <1> QED
    BY <1>14, <1>15, Zenon

\* What a cut leaves.
CutResult(B, N, b, r, size) ==
  /\ Chain(N)
  /\ Live(N) = Live(B) \cup {r} /\ r \notin Live(B)
  /\ \A c \in Live(B) : N[c].free = B[c].free
  /\ \A c \in Live(B) \ {b} : N[c].size = B[c].size /\ N[c].next = B[c].next
  /\ N[b].size = size /\ N[b].next = r
  /\ N[r].next = B[b].next /\ N[r].free = TRUE

\* A chain with a block cut in two is a chain.
LEMMA CutChain ==
  ASSUME NEW B, Chain(B), NEW b \in Live(B), NEW size \in Nat \ {0},
         ~(B[b].size < size + Header + 1)
  PROVE  CutResult(B, Cut(B, b, size), b, b + Header + size, size)
PROOF
  <1> DEFINE N == Cut(B, b, size)
             r == b + Header + size
             n == B[b].next
             rest == B[b].size - size - Header
  <1>1. /\ r \in Units /\ r \notin Live(B) /\ b < r /\ r < End(B, b)
        /\ rest \in Nat \ {0}
    BY CutPlace, Zenon
  <1>2. /\ N \in [Units -> Blocks] /\ Relinked(B, N, b, r, n)
        /\ N[r].size = rest /\ N[r].previous = b /\ N[r].next = n /\ N[r].free = TRUE
        /\ N[b].size = size /\ N[b].previous = B[b].previous
        /\ N[b].next = r /\ N[b].free = B[b].free
        /\ n # NULL => N[n].previous = r /\ N[n].free = B[n].free
    <2>1. CutFields(B, N, b, r, n, size)
      BY CutTable, Zenon
    <2> QED
      BY <2>1, Zenon DEF CutFields
  <1>3. Joined(B, b) /\ b \in Units /\ b \in Nat /\ B[b].size \in Nat /\ End(B, b) \in Nat
    BY HeaderTypes, ZenonT(60) DEF Chain
  <1> HIDE DEF N
  <1>4. r \in Nat /\ End(N, r) = End(B, b) /\ End(N, b) = r
    <2>1. N[r].size = rest /\ N[b].size = size
      BY <1>2, Zenon
    <2>2. b \in Nat /\ B[b].size \in Nat
      BY <1>3, Zenon
    <2> QED
      BY <2>1, <2>2, HeapNumbers DEF End
  <1>5. n # NULL => n \in Live(B) /\ n = End(B, b) /\ B[n].previous = b
    BY <1>3, Zenon DEF Joined
  <1>6. b # r /\ n # r /\ n # b
    <2>1. b # r
      BY <1>1, <1>3, <1>4
    <2>2. r # NULL
      BY <1>1, HeapNumbers, ZenonT(60)
    <2>3. n # NULL => n # b
      BY <1>1, <1>3, <1>4, <1>5
    <2>4. b # NULL
      BY <1>3, HeapNumbers, Zenon
    <2> QED
      BY <1>1, <1>5, <2>1, <2>2, <2>3, <2>4, ZenonT(60)
  <1> HIDE DEF r, n, rest
  <1>7. \A c \in Live(B) : c \in Units /\ c # r /\ B[c].size # 0
    BY <1>1, Zenon DEF Chain, Joined, Live
  <1>8. ASSUME NEW c \in Live(B), c # b
        PROVE  /\ N[c].size = B[c].size /\ N[c].next = B[c].next
               /\ End(N, c) = End(B, c) /\ N[c].free = B[c].free
               /\ c # n => N[c].previous = B[c].previous
    <2>1. N[c].size = B[c].size /\ N[c].next = B[c].next /\ (c # n => N[c] = B[c])
      BY <1>2, <1>7, <1>8, Zenon DEF Relinked
    <2>2. c = n => n # NULL
      BY <1>7, HeapNumbers, Zenon
    <2> QED
      BY <1>2, <2>1, <2>2, Zenon DEF End
  <1>9. Live(N) = Live(B) \cup {r}
    <2>1. Nothing.size = 0
      BY Zenon DEF Nothing
    <2>2. size # 0 /\ rest # 0
      BY <1>1, Zenon
    <2>3. r \in Live(N) /\ b \in Live(N)
      BY <1>1, <1>2, <1>3, <2>1, <2>2, Zenon DEF Live
    <2>4. \A c \in Live(B) : c # b => c \in Live(N)
      BY <1>7, <1>8, <2>1, Zenon DEF Live
    <2>5. \A c \in Units : c \notin Live(B) /\ c # r => c \notin Live(N)
      <3> SUFFICES ASSUME NEW c \in Units, c \notin Live(B), c # r
                   PROVE  c \notin Live(N)
        BY Zenon
      <3>1. c # b /\ c # n
        BY <1>5, HeapNumbers, Zenon
      <3>2. N[c] = B[c]
        BY <1>2, <3>1, Zenon DEF Relinked
      <3> QED
        BY <3>2, Zenon DEF Live
    <2> QED
      BY <1>1, <2>3, <2>4, <2>5, ZenonT(60) DEF Live
  <1>10. ASSUME NEW c \in Live(N)
         PROVE  Joined(N, c)
    <2>1. CASE c = r
      <3>1. r # first_block
        BY <1>1, <1>3, <1>4 DEF first_block
      <3>2. N[r].next = NULL => End(N, r) = HeapSize
        BY <1>2, <1>3, <1>4, Zenon DEF Joined, n
      <3>3. N[r].next # NULL => /\ N[r].next \in Live(N) /\ N[r].next = End(N, r)
                                /\ N[N[r].next].previous = r
        BY <1>2, <1>4, <1>5, <1>9, Zenon
      <3>4. N[r].size # 0
        BY <1>1, <1>2, Zenon
      <3> QED
        BY <1>2, <1>9, <2>1, <3>1, <3>2, <3>3, <3>4, ZenonT(60) DEF Joined
    <2>2. CASE c = b
      <3>1. r # NULL
        BY <1>1, HeapNumbers, Zenon
      <3>2. b # first_block => B[b].previous \in Live(B) /\ B[B[b].previous].next = b
        BY <1>3, Zenon DEF Joined
      <3>3. b # first_block => B[b].previous # b
        BY <1>6, <3>2, Zenon DEF n
      <3>7. b # first_block => N[B[b].previous].next = b
        BY <1>8, <3>2, <3>3, Zenon
      <3>4. b # first_block => /\ N[b].previous \in Live(N)
                               /\ N[N[b].previous].next = b
        BY <1>2, <1>9, <3>2, <3>7, Zenon
      <3>5. size # 0
        BY Zenon
      <3>6. b = first_block => N[b].previous = NULL
        BY <1>2, <1>3, Zenon DEF Joined
      <3> QED
        BY <1>2, <1>4, <1>9, <2>2, <3>1, <3>4, <3>5, <3>6, Zenon DEF Joined
    <2>3. CASE c # r /\ c # b
      <3>1. c \in Live(B) /\ Joined(B, c)
        BY <1>9, <2>3, Zenon DEF Chain
      <3>2. /\ N[c].size = B[c].size /\ N[c].next = B[c].next /\ End(N, c) = End(B, c)
            /\ c # n => N[c].previous = B[c].previous
        BY <1>8, <2>3, <3>1, Zenon
      <3>3. ASSUME B[c].next # NULL
            PROVE  B[c].next \in Live(N) /\ N[B[c].next].previous = c
        <4>1. B[c].next \in Live(B) /\ B[B[c].next].previous = c
          BY <3>1, <3>3, Zenon DEF Joined
        <4>2. B[c].next # n
          BY <1>5, <2>3, <3>3, <4>1, Zenon
        <4>3. N[B[c].next].previous = B[B[c].next].previous
          BY <1>2, <1>8, <4>1, <4>2, Zenon
        <4> QED
          BY <1>9, <4>1, <4>3, Zenon
      <3>4. ASSUME c # first_block
            PROVE  N[c].previous \in Live(N) /\ N[N[c].previous].next = c
        <4>1. B[c].previous \in Live(B) /\ B[B[c].previous].next = c
          BY <3>1, <3>4, Zenon DEF Joined
        <4>2. CASE c = n
          <5>1. n # NULL
            BY <3>1, <4>2, HeapNumbers, Zenon DEF Live
          <5> QED
            BY <1>2, <1>9, <4>2, <5>1, Zenon
        <4>3. CASE c # n
          <5>1. B[c].previous # b
            BY <4>1, <4>3, Zenon DEF n
          <5> QED
            BY <1>8, <1>9, <3>2, <4>1, <4>3, <5>1, Zenon
        <4> QED
          BY <4>2, <4>3, Zenon
      <3>5. c = first_block => c # n
        <4>1. c = n => n # NULL
          BY <3>1, HeapNumbers, Zenon DEF Live
        <4>2. n # NULL => n # first_block
          <5> SUFFICES ASSUME n # NULL PROVE n # first_block
            BY Zenon
          <5>1. n = End(B, b) /\ b < End(B, b)
            BY <1>5, HeaderTypes, Zenon
          <5> QED
            BY <1>3, <5>1 DEF first_block
        <4> QED
          BY <4>1, <4>2, Zenon
      <3> QED
        BY <3>1, <3>2, <3>3, <3>4, <3>5, Zenon DEF Joined
    <2> QED
      BY <2>1, <2>2, <2>3, Zenon
  <1>11. ASSUME NEW c \in Live(N), NEW d \in Live(N), c < d
         PROVE  End(N, c) <= d
    <2>1. \A x, y \in Live(B) : x < y => End(B, x) <= y
      BY Zenon DEF Chain
    <2>2. \A x \in Live(B) : x \in Nat /\ End(B, x) \in Nat /\ x < End(B, x)
      BY HeaderTypes, Zenon
    <2>3. CASE c = r
      <3>1. d # r /\ d \in Live(B)
        BY <1>4, <1>9, <1>11, <2>3, SMTT(60)
      <3>2. b < d
        BY <1>1, <1>3, <1>4, <1>11, <2>2, <2>3, <3>1, SMTT(60)
      <3> QED
        BY <1>4, <2>1, <2>3, <3>1, <3>2, Zenon
    <2>4. CASE c = b
      <3>1. CASE d = r
        BY <1>4, <2>4, <3>1, SMTT(60)
      <3>2. CASE d # r
        <4>1. d \in Live(B)
          BY <1>9, <3>2, Zenon
        <4>2. End(B, b) <= d
          BY <1>11, <2>1, <2>4, <4>1, Zenon
        <4> QED
          BY <1>1, <1>3, <1>4, <2>2, <2>4, <4>1, <4>2, SMTT(60)
      <3> QED
        BY <3>1, <3>2, Zenon
    <2>5. CASE c # r /\ c # b
      <3>1. c \in Live(B) /\ End(N, c) = End(B, c)
        BY <1>8, <1>9, <2>5, Zenon
      <3>2. CASE d # r
        BY <1>9, <1>11, <2>1, <3>1, <3>2, ZenonT(60)
      <3>3. CASE d = r
        <4>1. c < b
          <5>0. b \in Int /\ c \in Int /\ c # b
            BY <1>3, <2>2, <2>5, <3>1, SMTT(60)
          <5> SUFFICES ASSUME b < c PROVE FALSE
            BY <5>0, SMTT(60)
          <5>1. End(B, b) <= c
            BY <2>1, <3>1, Zenon
          <5> QED
            BY <1>1, <1>3, <1>4, <1>11, <2>2, <3>1, <3>3, <5>1, SMTT(60)
        <4>2. End(B, c) <= b
          BY <2>1, <3>1, <4>1, Zenon
        <4> QED
          BY <1>1, <1>3, <1>4, <2>2, <3>1, <3>3, <4>2, SMTT(60)
      <3> QED
        BY <3>2, <3>3, Zenon
    <2> QED
      BY <2>3, <2>4, <2>5, Zenon
  <1>12. Chain(N)
    BY <1>2, <1>9, <1>10, <1>11, Zenon DEF Chain
  <1> QED
    BY <1>1, <1>2, <1>8, <1>9, <1>12, Zenon DEF CutResult, N, r, n

\* The block of b takes in the one that follows.
Absorb(B, b) ==
  LET next == B[b].next
      merged == [B EXCEPT ![b].size = @ + Header + B[next].size,
                          ![b].next = B[next].next, ![next] = Nothing]
  IN IF merged[b].next = NULL THEN merged
     ELSE [merged EXCEPT ![merged[b].next].previous = b]

\* The fields of the table after that.
AbsorbFields(B, N, b, n, nn) ==
  /\ N \in [Units -> Blocks]
  /\ Relinked(B, N, b, n, nn)
  /\ N[n] = Nothing
  /\ N[b].size = B[b].size + Header + B[n].size /\ N[b].previous = B[b].previous
  /\ N[b].next = nn /\ N[b].free = B[b].free
  /\ nn # NULL => N[nn].previous = b /\ N[nn].free = B[nn].free

\* Three headers in a row.
LEMMA Neighbours ==
  ASSUME NEW B, Chain(B), NEW b \in Live(B), B[b].next # NULL
  PROVE  LET n == B[b].next
             nn == B[n].next
         IN /\ n \in Live(B) /\ n = End(B, b) /\ B[n].previous = b /\ b < n /\ b # n
            /\ nn = NULL => End(B, n) = HeapSize
            /\ nn # NULL => nn \in Live(B) /\ nn = End(B, n) /\ B[nn].previous = n
            /\ nn # n /\ nn # b
PROOF
  <1> DEFINE n == B[b].next
             nn == B[n].next
  <1>1. n \in Live(B) /\ n = End(B, b) /\ B[n].previous = b
    BY Zenon DEF Chain, Joined
  <1>2. /\ nn = NULL => End(B, n) = HeapSize
        /\ nn # NULL => nn \in Live(B) /\ nn = End(B, n) /\ B[nn].previous = n
    BY <1>1, Zenon DEF Chain, Joined
  <1>3. b \in Nat /\ b < End(B, b) /\ b \in Units
    BY HeaderTypes, Zenon
  <1>4. n \in Nat /\ n < End(B, n) /\ n \in Units /\ End(B, n) \in Nat
    BY <1>1, HeaderTypes, Zenon
  <1> HIDE DEF n, nn
  <1>5. b < n /\ b # n
    BY <1>1, <1>3, <1>4
  <1>6. nn # n /\ nn # b
    <2>1. CASE nn = NULL
      BY <1>3, <1>4, <2>1, HeapNumbers, Zenon
    <2>2. CASE nn # NULL
      BY <1>2, <1>3, <1>4, <1>5, <2>2, SMTT(60)
    <2> QED
      BY <2>1, <2>2, Zenon
  <1> QED
    BY <1>1, <1>2, <1>5, <1>6, Zenon DEF n, nn

\* What merge_next writes.
LEMMA AbsorbTable ==
  ASSUME NEW B, Chain(B), NEW b \in Live(B), B[b].next # NULL
  PROVE  AbsorbFields(B, Absorb(B, b), b, B[b].next, B[B[b].next].next)
PROOF
  <1> DEFINE n == B[b].next
             nn == B[n].next
             sum == B[b].size + Header + B[n].size
             rb == [B[b] EXCEPT !.size = sum, !.next = nn]
             merged == [B EXCEPT ![b] = rb, ![n] = Nothing]
             N == Absorb(B, b)
             rn == [B[nn] EXCEPT !.previous = b]
  <1>1. /\ n \in Live(B) /\ b # n /\ nn # n /\ nn # b
        /\ nn # NULL => nn \in Live(B)
    BY Neighbours, Zenon
  <1>2. B \in [Units -> Blocks] /\ b \in Units /\ n \in Units
    BY <1>1, Zenon DEF Chain, Live
  <1>3. B[b] \in Blocks /\ B[n] \in Blocks
    BY <1>2, Zenon
  <1>4. nn \in Units \cup {NULL} /\ b \in Units \cup {NULL}
    BY <1>2, <1>3, Zenon DEF Blocks
  <1>5. nn # NULL => nn \in Units /\ B[nn] \in Blocks
    BY <1>1, <1>2, Zenon DEF Live
  <1>6. sum \in Nat
    BY <1>1, HeaderTypes, HeapNumbers, SMTT(60)
  <1>7. Nothing \in Blocks
    BY DEF Nothing, Blocks
  <1> DEFINE absorbed == [B EXCEPT ![b].size = @ + Header + B[n].size,
                                   ![b].next = B[n].next, ![n] = Nothing]
  <1>8. absorbed = merged
    BY <1>2, Zenon
  <1>16. N = IF absorbed[b].next = NULL THEN absorbed
             ELSE [absorbed EXCEPT ![absorbed[b].next].previous = b]
    BY Zenon DEF Absorb
  <1> HIDE DEF absorbed, N
  <1> HIDE DEF sum
  <1>9. /\ rb \in Blocks /\ rb.size = sum /\ rb.previous = B[b].previous /\ rb.next = nn
        /\ rb.free = B[b].free
    BY <1>3, <1>4, <1>6, Zenon DEF Blocks
  <1>10. nn # NULL => /\ rn \in Blocks /\ rn.size = B[nn].size /\ rn.next = B[nn].next
                      /\ rn.previous = b /\ rn.free = B[nn].free
    BY <1>4, <1>5, Zenon DEF Blocks
  <1> HIDE DEF rb
  <1>11. /\ merged \in [Units -> Blocks] /\ merged[b] = rb /\ merged[n] = Nothing
         /\ \A c \in Units : c \notin {b, n} => merged[c] = B[c]
    BY <1>1, <1>2, <1>7, <1>9, Zenon
  <1> HIDE DEF merged, n, nn
  <1>12. merged[b].next = nn
    BY <1>9, <1>11, Zenon
  <1>13. N = IF nn = NULL THEN merged ELSE [merged EXCEPT ![nn].previous = b]
    BY <1>8, <1>12, <1>16, Zenon
  <1>14. CASE nn = NULL
    <2>1. N = merged
      BY <1>13, <1>14, Zenon
    <2>2. Relinked(B, N, b, n, nn)
      BY <1>11, <2>1, Zenon DEF Relinked
    <2>3. AbsorbFields(B, N, b, n, nn)
      BY <1>9, <1>11, <1>14, <2>1, <2>2, ZenonT(60) DEF AbsorbFields, sum
    <2> QED
      BY <2>3, Zenon DEF N, n, nn
  <1>15. CASE nn # NULL
    <2>1. merged[nn] = B[nn]
      BY <1>1, <1>5, <1>11, <1>15, Zenon
    <2>2. N = [merged EXCEPT ![nn] = rn]
      BY <1>5, <1>11, <1>13, <1>15, <2>1, Zenon
    <2> HIDE DEF rn
    <2>3. /\ N \in [Units -> Blocks] /\ N[nn] = rn /\ N[n] = Nothing /\ N[b] = rb
          /\ \A c \in Units : c \notin {b, n, nn} => N[c] = B[c]
      BY <1>1, <1>2, <1>5, <1>10, <1>11, <1>15, <2>2, Zenon
    <2>4. Relinked(B, N, b, n, nn)
      BY <1>10, <1>15, <2>3, Zenon DEF Relinked
    <2>5. AbsorbFields(B, N, b, n, nn)
      BY <1>9, <1>10, <1>15, <2>3, <2>4, Zenon DEF AbsorbFields, sum
    <2> QED
      BY <2>5, Zenon DEF N, n, nn
  <1> QED
    BY <1>14, <1>15, Zenon

\* What taking in the next block leaves.
AbsorbResult(B, N, b, n) ==
  /\ Chain(N)
  /\ Live(N) = Live(B) \ {n} /\ b # n /\ n \in Live(B)
  /\ \A c \in Live(N) : N[c].free = B[c].free /\ B[c].size <= N[c].size
  /\ \A c \in Live(N) \ {b} : N[c].next = B[c].next
  /\ N[b].next = B[n].next /\ N[b].previous = B[b].previous

\* A chain with two neighbours made one is a chain.
LEMMA AbsorbChain ==
  ASSUME NEW B, Chain(B), NEW b \in Live(B), B[b].next # NULL
  PROVE  AbsorbResult(B, Absorb(B, b), b, B[b].next)
PROOF
  <1> DEFINE N == Absorb(B, b)
             n == B[b].next
             nn == B[n].next
  <1>1. /\ n \in Live(B) /\ n = End(B, b) /\ B[n].previous = b /\ b < n /\ b # n
        /\ nn = NULL => End(B, n) = HeapSize
        /\ nn # NULL => nn \in Live(B) /\ nn = End(B, n) /\ B[nn].previous = n
        /\ nn # n /\ nn # b
    BY Neighbours, Zenon
  <1>2. /\ N \in [Units -> Blocks] /\ Relinked(B, N, b, n, nn) /\ N[n] = Nothing
        /\ N[b].size = B[b].size + Header + B[n].size /\ N[b].previous = B[b].previous
        /\ N[b].next = nn /\ N[b].free = B[b].free
        /\ nn # NULL => N[nn].previous = b /\ N[nn].free = B[nn].free
    <2>1. AbsorbFields(B, N, b, n, nn)
      BY AbsorbTable, Zenon
    <2> QED
      BY <2>1, Zenon DEF AbsorbFields
  <1>3. /\ Joined(B, b) /\ b \in Units /\ b \in Nat /\ B[b].size \in Nat \ {0}
        /\ End(B, b) \in Nat
    BY HeaderTypes, Zenon DEF Chain
  <1>4. /\ Joined(B, n) /\ n \in Units /\ n \in Nat /\ B[n].size \in Nat \ {0}
        /\ End(B, n) \in Nat
    BY <1>1, HeaderTypes, ZenonT(60) DEF Chain
  <1> HIDE DEF N, n, nn
  <1>5. End(N, b) = End(B, n) /\ N[b].size # 0 /\ B[b].size <= N[b].size
    <2>1. n = End(B, b) /\ N[b].size = B[b].size + Header + B[n].size
      BY <1>1, <1>2, Zenon
    <2>2. /\ b \in Nat /\ B[b].size \in Nat /\ B[b].size # 0
          /\ n \in Nat /\ B[n].size \in Nat
      BY <1>3, <1>4, Zenon
    <2> QED
      BY <2>1, <2>2, HeapNumbers, SMT DEF End
  <1>6. \A c \in Live(B) : c \in Units /\ B[c].size # 0 /\ B[c].size \in Nat
    BY HeaderTypes, Zenon
  <1>7. ASSUME NEW c \in Live(B), c \notin {b, n}
        PROVE  /\ N[c].size = B[c].size /\ N[c].next = B[c].next
               /\ End(N, c) = End(B, c) /\ N[c].free = B[c].free
               /\ c # nn => N[c].previous = B[c].previous
    <2>1. N[c].size = B[c].size /\ N[c].next = B[c].next /\ (c # nn => N[c] = B[c])
      BY <1>2, <1>6, <1>7, Zenon DEF Relinked
    <2>2. c = nn => nn # NULL
      BY <1>6, HeapNumbers, Zenon
    <2> QED
      BY <1>2, <2>1, <2>2, Zenon DEF End
  <1>8. Live(N) = Live(B) \ {n}
    <2>1. Nothing.size = 0
      BY Zenon DEF Nothing
    <2>2. b \in Live(N) /\ n \notin Live(N)
      BY <1>2, <1>3, <1>5, <2>1, Zenon DEF Live
    <2>3. \A c \in Live(B) : c \notin {b, n} => c \in Live(N)
      BY <1>6, <1>7, <2>1, Zenon DEF Live
    <2>4. \A c \in Units : c \notin Live(B) => c \notin Live(N)
      <3> SUFFICES ASSUME NEW c \in Units, c \notin Live(B)
                   PROVE  c \notin Live(N)
        BY Zenon
      <3>1. c \notin {b, n} /\ c # nn
        BY <1>1, HeapNumbers, Zenon
      <3>2. N[c] = B[c]
        BY <1>2, <3>1, Zenon DEF Relinked
      <3> QED
        BY <3>2, Zenon DEF Live
    <2> QED
      BY <2>2, <2>3, <2>4, Zenon DEF Live
  <1>9. ASSUME NEW c \in Live(N), c # first_block, c # nn
        PROVE  /\ B[c].previous \in Live(B) \ {b, n}
               /\ N[B[c].previous].next = c
    <2>1. c \in Live(B) /\ c # n /\ Joined(B, c)
      BY <1>8, Zenon DEF Chain
    <2>2. B[c].previous \in Live(B) /\ B[B[c].previous].next = c
      BY <1>9, <2>1, Zenon DEF Joined
    <2>3. B[c].previous \notin {b, n}
      BY <1>9, <2>1, <2>2, Zenon DEF n, nn
    <2> QED
      BY <1>7, <2>2, <2>3, Zenon
  <1>10. nn # first_block
    <2>1. CASE nn = NULL
      BY <2>1, HeapNumbers, ZenonT(60)
    <2>2. CASE nn # NULL
      <3>1. nn = n + Header + B[n].size
        BY <1>1, <2>2, Zenon DEF End
      <3>2. n \in Nat /\ B[n].size \in Nat /\ B[n].size # 0 /\ b \in Nat /\ b < n
        BY <1>1, <1>3, <1>4, Zenon
      <3> QED
        BY <3>1, <3>2, HeapNumbers, SMT DEF first_block
    <2> QED
      BY <2>1, <2>2, Zenon
  <1>11. Joined(N, b)
    <2>1. N[b].next = NULL => End(N, b) = HeapSize
      BY <1>1, <1>2, <1>5, Zenon
    <2>2. N[b].next # NULL => /\ N[b].next \in Live(N) /\ N[b].next = End(N, b)
                              /\ N[N[b].next].previous = b
      BY <1>1, <1>2, <1>5, <1>8, Zenon
    <2>3. b = first_block => N[b].previous = NULL
      BY <1>2, <1>3, Zenon DEF Joined
    <2>4. b \in Live(N)
      BY <1>1, <1>8, Zenon
    <2>5. b # first_block => B[b].previous \in Live(N) /\ N[B[b].previous].next = b
      BY <1>1, <1>8, <1>9, <2>4, Zenon
    <2> QED
      BY <1>2, <1>5, <2>1, <2>2, <2>3, <2>5, Zenon DEF Joined
  <1>12. ASSUME NEW c \in Live(N), c # b
         PROVE  Joined(N, c)
    <2>1. c \in Live(B) /\ c \notin {b, n} /\ Joined(B, c)
      BY <1>8, <1>12, Zenon DEF Chain
    <2>2. /\ N[c].size = B[c].size /\ N[c].next = B[c].next /\ End(N, c) = End(B, c)
          /\ c # nn => N[c].previous = B[c].previous
      BY <1>7, <2>1, Zenon
    <2>3. ASSUME B[c].next # NULL
          PROVE  B[c].next \in Live(N) /\ N[B[c].next].previous = c
      <3>1. B[c].next \in Live(B) /\ B[B[c].next].previous = c
        BY <2>1, <2>3, Zenon DEF Joined
      <3>2. B[c].next # n /\ B[c].next # nn
        BY <1>1, <2>1, <2>3, <3>1, Zenon
      <3>3. N[B[c].next].previous = B[B[c].next].previous
        BY <1>2, <1>7, <3>1, <3>2, Zenon
      <3> QED
        BY <1>8, <3>1, <3>2, <3>3, Zenon
    <2>4. c = nn => N[c].previous \in Live(N) /\ N[N[c].previous].next = c
      <3>1. c = nn => nn # NULL
        BY <1>6, <2>1, HeapNumbers, Zenon
      <3> QED
        BY <1>1, <1>2, <1>8, <3>1, Zenon
    <2>5. c # first_block /\ c # nn => /\ N[c].previous \in Live(N)
                                       /\ N[N[c].previous].next = c
      BY <1>8, <1>9, <2>2, Zenon
    <2> QED
      BY <1>10, <2>1, <2>2, <2>3, <2>4, <2>5, Zenon DEF Joined
  <1>13. ASSUME NEW c \in Live(N), NEW d \in Live(N), c < d
         PROVE  End(N, c) <= d
    <2>1. c \in Live(B) /\ d \in Live(B) /\ c # n /\ d # n
      BY <1>8, Zenon
    <2>2. End(B, c) <= d /\ c \in Nat /\ d \in Nat
      BY <1>13, <2>1, HeaderTypes, Zenon DEF Chain
    <2>3. CASE c # b
      BY <1>7, <2>1, <2>2, <2>3, Zenon
    <2>4. CASE c = b
      <3>1. n < d
        BY <1>1, <1>4, <2>1, <2>2, <2>4, SMTT(60)
      <3>2. End(B, n) <= d
        BY <1>1, <2>1, <3>1, Zenon DEF Chain
      <3> QED
        BY <1>5, <2>4, <3>2, ZenonT(60)
    <2> QED
      BY <2>3, <2>4, Zenon
  <1>14. Chain(N)
    <2>1. first_block # n
      BY <1>1, <1>3, <1>4, SMTT(60) DEF first_block
    <2>2. first_block \in Live(N)
      BY <1>8, <2>1, Zenon DEF Chain
    <2> QED
      BY <1>2, <1>11, <1>12, <1>13, <2>2, ZenonT(60) DEF Chain
  <1>15. \A c \in Live(N) : N[c].free = B[c].free /\ B[c].size <= N[c].size
    <2> SUFFICES ASSUME NEW c \in Live(N)
                 PROVE  N[c].free = B[c].free /\ B[c].size <= N[c].size
      BY Zenon
    <2>1. CASE c = b
      BY <1>2, <1>5, <2>1, Zenon
    <2>2. CASE c # b
      <3>1. N[c].free = B[c].free /\ N[c].size = B[c].size /\ B[c].size \in Nat
        BY <1>6, <1>7, <1>8, <2>2, Zenon
      <3> QED
        BY <3>1
    <2> QED
      BY <2>1, <2>2, Zenon
  <1>16. \A c \in Live(N) \ {b} : N[c].next = B[c].next
    BY <1>7, <1>8, Zenon
  <1> QED
    BY <1>1, <1>2, <1>8, <1>14, <1>15, <1>16, Zenon DEF AbsorbResult, N, n, nn

\* heap_alloc takes a free block, cut if it is large, or fails.
LEMMA AllocInv ==
  ASSUME HeapInv, NEW size \in 1..MaxRequest, heap_alloc(size)
  PROVE  HeapInv'
PROOF
  <1>1. /\ Chain(block) /\ Coalesced(block) /\ List = Live(block)
        /\ held \in [InUse(block) -> Nat \ {0}]
        /\ \A c \in InUse(block) : held[c] <= block[c].size
    BY ListIsLive, Zenon DEF HeapInv
  <1>2. size \in Nat \ {0}
    BY HeapAssumption
  <1> DEFINE fits == {b \in List : block[b].free /\ block[b].size >= size}
             chosen == CHOOSE b \in fits : \A c \in fits : b <= c
  <1>3. chosen \in fits
    <2>1. fits # {}
      BY Zenon DEF heap_alloc
    <2>2. fits \subseteq Nat
      BY <1>1, HeaderTypes, Zenon
    <2>3. \E b \in fits : \A c \in fits : b <= c
      BY <2>1, <2>2, LeastNatural, Zenon
    <2> QED
      BY <2>3, Zenon
  <1>4. /\ block' = [split_block(chosen, size) EXCEPT ![chosen].free = FALSE]
        /\ held' = [c \in DOMAIN held \cup {chosen} |->
                      IF c = chosen THEN size ELSE held[c]]
    BY Zenon DEF heap_alloc
  <1>5. PICK b : b = chosen
    BY Zenon
  <1>6. /\ b \in Live(block) /\ block[b].free /\ block[b].size >= size
        /\ block' = Flagged(split_block(b, size), b, FALSE)
        /\ held' = [c \in DOMAIN held \cup {b} |-> IF c = b THEN size ELSE held[c]]
    BY <1>1, <1>3, <1>4, <1>5, Zenon DEF Flagged
  <1> HIDE DEF chosen
  <1> DEFINE T == split_block(b, size)
  <1>7. \A c \in Live(block) : Joined(block, c)
    BY <1>1, Zenon DEF Chain
  <1>8. /\ Chain(T) /\ b \in Live(T) /\ Live(block) \subseteq Live(T)
        /\ \A c \in Live(T) \ Live(block) : T[c].free
        /\ \A c \in Live(block) : T[c].free = block[c].free
        /\ \A c \in Live(block) \ {b} : T[c].size = block[c].size
        /\ size <= T[b].size
        /\ \A x \in Live(T) : T[x].free /\ T[x].next \notin {NULL, b} /\ x # b
             => ~T[T[x].next].free
    <2>1. CASE block[b].size < size + Header + 1
      <3>1. T = block
        BY <2>1, ZenonT(60) DEF split_block
      <3>2. size <= block[b].size
        <4>1. size \in Nat /\ block[b].size \in Nat /\ block[b].size >= size
          BY <1>1, <1>2, <1>6, HeaderTypes, Zenon
        <4> QED
          BY <4>1, SMT
      <3>3. \A x \in Live(block) : block[x].free /\ block[x].next # NULL
              => ~block[block[x].next].free
        BY <1>1, Zenon DEF Coalesced
      <3> HIDE DEF T
      <3> QED
        BY <1>1, <1>6, <3>1, <3>2, <3>3, Zenon
    <2>2. CASE ~(block[b].size < size + Header + 1)
      <3> DEFINE r == b + Header + size
      <3>1. T = Cut(block, b, size)
        BY <2>2, Zenon DEF split_block, Cut
      <3>2. /\ Chain(T)
            /\ Live(T) = Live(block) \cup {r} /\ r \notin Live(block)
            /\ \A c \in Live(block) : T[c].free = block[c].free
            /\ \A c \in Live(block) \ {b} : T[c].size = block[c].size
                                            /\ T[c].next = block[c].next
            /\ T[b].size = size /\ T[b].next = r
            /\ T[r].next = block[b].next /\ T[r].free = TRUE
        <4>1. CutResult(block, T, b, r, size)
          BY <1>1, <1>2, <1>6, <2>2, <3>1, CutChain, Zenon
        <4> QED
          BY <4>1, Zenon DEF CutResult
      <3> HIDE DEF r, T
      <3>3. ASSUME NEW x \in Live(T), T[x].free, T[x].next \notin {NULL, b}, x # b
            PROVE  ~T[T[x].next].free
        <4>1. CASE x = r
          <5>1. block[b].next \in Live(block) /\ ~block[block[b].next].free
            BY <1>1, <1>6, <1>7, <3>2, <3>3, <4>1, Zenon DEF Joined, Coalesced
          <5> QED
            BY <3>2, <4>1, <5>1, ZenonT(60)
        <4>2. CASE x # r
          <5>1. x \in Live(block) /\ T[x].next = block[x].next /\ block[x].free
            BY <3>2, <3>3, <4>2, Zenon
          <5>2. block[x].next \in Live(block) /\ ~block[block[x].next].free
            BY <1>1, <1>7, <3>3, <5>1, ZenonT(60) DEF Joined, Coalesced
          <5> QED
            BY <3>2, <5>1, <5>2, Zenon
        <4> QED
          BY <4>1, <4>2, Zenon
      <3>4. size <= T[b].size
        <4>1. size \in Nat /\ T[b].size = size
          BY <1>2, <3>2, Zenon
        <4> QED
          BY <4>1, SMT
      <3> QED
        BY <1>6, <3>2, <3>3, <3>4, Zenon
    <2> QED
      BY <2>1, <2>2, Zenon
  <1> HIDE DEF T
  <1>9. /\ Chain(block') /\ Live(block') = Live(T)
        /\ \A c \in Live(T) : /\ block'[c].size = T[c].size
                              /\ block'[c].next = T[c].next
                              /\ block'[c].free = IF c = b THEN FALSE ELSE T[c].free
    <2>1. FlagResult(T, Flagged(T, b, FALSE), b, FALSE)
      BY <1>8, FlagChain, Zenon
    <2>2. block' = Flagged(T, b, FALSE)
      BY <1>6, Zenon DEF T
    <2> QED
      BY <2>1, <2>2, Zenon DEF FlagResult
  <1>10. InUse(block') = InUse(block) \cup {b}
    <2>1. ~block'[b].free /\ b \in Live(block')
      BY <1>8, <1>9, Zenon
    <2>2. \A c \in Live(T) : c # b => block'[c].free = T[c].free
      BY <1>9, Zenon
    <2>3. ASSUME NEW c \in Live(T), c # b
          PROVE  ~block'[c].free <=> c \in Live(block) /\ ~block[c].free
      BY <1>8, <2>2, <2>3, Zenon
    <2>4. Live(block') = Live(T) /\ Live(block) \subseteq Live(T)
      BY <1>8, <1>9, Zenon
    <2>5. ASSUME NEW c PROVE c \in InUse(block') <=> c \in InUse(block) \cup {b}
      <3>1. CASE c = b
        BY <2>1, <3>1, Zenon DEF InUse
      <3>2. CASE c # b
        BY <2>3, <2>4, <3>2, Zenon DEF InUse
      <3> QED
        BY <3>1, <3>2, Zenon
    <2> QED
      BY <2>5, Zenon
  <1>11. Coalesced(block')
    <2> SUFFICES ASSUME NEW x \in Live(block'), block'[x].free, block'[x].next # NULL
                 PROVE  ~block'[block'[x].next].free
      BY Zenon DEF Coalesced
    <2>1. x # b /\ T[x].free /\ x \in Live(T) /\ block'[x].next = T[x].next
      BY <1>9, Zenon
    <2>2. T[x].next \in Live(T)
      BY <1>8, <2>1, Zenon DEF Chain, Joined
    <2>3. T[x].next # b => ~T[T[x].next].free
      BY <1>8, <2>1, Zenon
    <2> QED
      BY <1>9, <2>1, <2>2, <2>3, Zenon
  <1>12. held' \in [InUse(block') -> Nat \ {0}]
    BY <1>1, <1>2, <1>6, <1>10, Zenon
  <1>13. ASSUME NEW c \in InUse(block')
         PROVE  held'[c] <= block'[c].size
    <2>1. CASE c = b
      BY <1>6, <1>8, <1>9, <2>1, Zenon
    <2>2. CASE c # b
      <3>1. c \in InUse(block) /\ c \in Live(block)
        BY <1>10, <2>2, Zenon DEF InUse
      <3>2. held'[c] = held[c]
        BY <1>1, <1>6, <2>2, <3>1, Zenon
      <3>3. block'[c].size = block[c].size
        BY <1>8, <1>9, <2>2, <3>1, Zenon
      <3> QED
        BY <1>1, <3>1, <3>2, <3>3, Zenon
    <2> QED
      BY <2>1, <2>2, Zenon
  <1>14. Chain(block)' /\ Coalesced(block)' /\ InUse(block)' = InUse(block')
    BY <1>9, <1>11, Zenon DEF Chain, Coalesced, InUse, Live, Joined, End
  <1> QED
    BY <1>12, <1>13, <1>14, Zenon DEF HeapInv

\* A free block takes in the one behind it, which is free too.
LEMMA FreeInv ==
  ASSUME HeapInv, NEW b \in DOMAIN held, heap_free(b)
  PROVE  HeapInv'
PROOF
  <1>1. /\ Chain(block) /\ Coalesced(block)
        /\ held \in [InUse(block) -> Nat \ {0}]
        /\ \A c \in InUse(block) : held[c] <= block[c].size
    BY Zenon DEF HeapInv
  <1>2. b \in Live(block) /\ b \in InUse(block)
    BY <1>1, Zenon DEF InUse
  <1> DEFINE A == Flagged(block, b, TRUE)
             M == merge_next(A, b)
             before == M[b].previous
  <1>3. /\ block' = IF before # NULL /\ M[before].free THEN merge_next(M, before) ELSE M
        /\ held' = [c \in DOMAIN held \ {b} |-> held[c]]
    BY Zenon DEF heap_free, Flagged
  <1>4. /\ Chain(A) /\ Live(A) = Live(block) /\ A[b].free
        /\ \A c \in Live(A) : A[c].size = block[c].size /\ A[c].next = block[c].next
        /\ \A c \in Live(A) \ {b} : A[c].free = block[c].free
    <2>1. FlagResult(block, A, b, TRUE)
      BY <1>1, <1>2, FlagChain, Zenon
    <2> HIDE DEF A
    <2> QED
      BY <1>2, <2>1, Zenon DEF FlagResult
  <1> HIDE DEF A
  <1>5. \A c \in Live(A) : A[c].size \in Nat
    BY <1>4, HeaderTypes, Zenon
  <1>6. \A x \in Live(A) : A[x].next # NULL => A[x].next \in Live(A)
    BY <1>4, Zenon DEF Chain, Joined
  <1>7. \A x \in Live(A) \ {b} : A[x].free /\ A[x].next \notin {NULL, b}
          => ~A[A[x].next].free
    <2> SUFFICES ASSUME NEW x \in Live(A) \ {b}, A[x].free, A[x].next \notin {NULL, b}
                 PROVE  ~A[A[x].next].free
      BY Zenon
    <2>1. block[x].free /\ block[x].next # NULL /\ x \in Live(block)
      BY <1>4, Zenon
    <2>2. ~block[block[x].next].free
      BY <1>1, <2>1, Zenon DEF Coalesced
    <2>3. A[x].next = block[x].next /\ A[x].next \in Live(A) \ {b}
      BY <1>4, <1>6, Zenon
    <2>4. A[A[x].next].free = block[A[x].next].free
      BY <1>4, <2>3, Zenon
    <2> QED
      BY <2>2, <2>3, <2>4, Zenon
  <1>8. /\ Chain(M) /\ b \in Live(M) /\ Live(M) \subseteq Live(block)
        /\ M[b].free
        /\ \A c \in Live(block) \ Live(M) : block[c].free
        /\ \A c \in Live(M) \ {b} : M[c].free = block[c].free
        /\ \A c \in Live(M) : block[c].size <= M[c].size
        /\ \A x \in Live(M) : M[x].free /\ M[x].next \notin {NULL, b} => ~M[M[x].next].free
    <2> DEFINE n == A[b].next
    <2>1. CASE n = NULL \/ ~A[n].free
      <3>1. M = A
        BY <2>1, Zenon DEF merge_next
      <3> HIDE DEF M
      <3>2. \A c \in Live(A) : block[c].size <= A[c].size
        BY <1>4, <1>5
      <3>3. \A x \in Live(A) : A[x].free /\ A[x].next \notin {NULL, b} => ~A[A[x].next].free
        BY <1>7, <2>1, Zenon
      <3> QED
        BY <1>2, <1>4, <3>1, <3>2, <3>3, ZenonT(60)
    <2>2. CASE n # NULL /\ A[n].free
      <3>1. M = Absorb(A, b)
        BY <2>2, Zenon DEF merge_next, Absorb
      <3>2. AbsorbResult(A, M, b, n)
        BY <1>2, <1>4, <2>2, <3>1, AbsorbChain, Zenon
      <3> HIDE DEF M, n
      <3>3. /\ Chain(M) /\ Live(M) = Live(A) \ {n} /\ b # n /\ n \in Live(A)
            /\ \A c \in Live(M) : M[c].free = A[c].free /\ A[c].size <= M[c].size
            /\ \A c \in Live(M) \ {b} : M[c].next = A[c].next
            /\ M[b].next = A[n].next
        BY <3>2, Zenon DEF AbsorbResult
      <3>4. \A x \in Live(M) : M[x].next # NULL => M[x].next \in Live(M)
        BY <3>3, Zenon DEF Chain, Joined
      <3>5. ASSUME NEW x \in Live(M), M[x].free, M[x].next \notin {NULL, b}
            PROVE  ~M[M[x].next].free
        <4>1. M[M[x].next].free = A[M[x].next].free
          BY <3>3, <3>4, <3>5, Zenon
        <4>2. CASE x = b
          <5>1. ~A[A[n].next].free
            BY <1>7, <2>2, <3>3, <3>5, <4>2, Zenon
          <5> QED
            BY <3>3, <4>1, <4>2, <5>1, Zenon
        <4>3. CASE x # b
          <5>1. M[x].next = A[x].next /\ A[x].free /\ x \in Live(A) \ {b}
            BY <3>3, <3>5, <4>3, Zenon
          <5> QED
            BY <1>7, <3>5, <4>1, <5>1, Zenon
        <4> QED
          BY <4>2, <4>3, Zenon
      <3>6. b \in Live(M) /\ M[b].free /\ Live(M) \subseteq Live(block)
        BY <1>2, <1>4, <3>3, Zenon
      <3>7. \A c \in Live(block) \ Live(M) : block[c].free
        BY <1>4, <2>2, <3>3, Zenon
      <3>8. \A c \in Live(M) : block[c].size <= M[c].size
        BY <1>4, <3>3, Zenon
      <3>9. \A c \in Live(M) \ {b} : M[c].free = block[c].free
        BY <1>4, <3>3, Zenon
      <3> QED
        BY <3>3, <3>5, <3>6, <3>7, <3>8, <3>9, ZenonT(60)
    <2> QED
      BY <2>1, <2>2, Zenon
  <1> HIDE DEF M
  <1>9. \A c \in Live(block) : block[c].size \in Nat
    BY <1>1, HeaderTypes, Zenon
  <1>10. \A c \in Live(M) : M[c].size \in Nat
    BY <1>8, HeaderTypes, Zenon
  <1>11. /\ Chain(block') /\ Coalesced(block')
         /\ InUse(block') = InUse(block) \ {b}
         /\ \A c \in InUse(block') : block[c].size <= block'[c].size
    <2>1. CASE ~(before # NULL /\ M[before].free)
      <3>1. block' = M
        BY <1>3, <2>1, Zenon
      <3>2. ASSUME NEW x \in Live(M), M[x].free, M[x].next = b
            PROVE  FALSE
        <4>1. b # NULL /\ x # NULL
          BY <1>8, HeapNumbers, Zenon DEF Live
        <4>2. M[b].previous = x
          BY <1>8, <3>2, <4>1, Zenon DEF Chain, Joined
        <4> QED
          BY <2>1, <3>2, <4>1, <4>2, Zenon
      <3> HIDE DEF before
      <3>3. Coalesced(M)
        BY <1>8, <3>2, Zenon DEF Coalesced
      <3>4. InUse(M) = InUse(block) \ {b}
        BY <1>8, Zenon DEF InUse
      <3>5. \A c \in InUse(M) : block[c].size <= M[c].size
        BY <1>8, Zenon DEF InUse
      <3> QED
        BY <1>8, <3>1, <3>3, <3>4, <3>5, Zenon
    <2>2. CASE before # NULL /\ M[before].free
      <3> DEFINE P == merge_next(M, before)
      <3>1. block' = P
        BY <1>3, <2>2, Zenon
      <3>2. before \in Live(M) /\ M[before].next = b /\ b # NULL
        <4>1. b # first_block /\ b # NULL
          BY <1>8, <2>2, HeapNumbers, ZenonT(60) DEF Chain, Joined, Live
        <4> QED
          BY <1>8, <4>1, Zenon DEF Chain, Joined
      <3> HIDE DEF before
      <3>3. P = Absorb(M, before)
        BY <1>8, <3>2, Zenon DEF merge_next, Absorb
      <3>4. AbsorbResult(M, P, before, b)
        <4>1. AbsorbResult(M, Absorb(M, before), before, M[before].next)
          BY <1>8, <3>2, AbsorbChain, Zenon
        <4> QED
          BY <3>2, <3>3, <4>1, Zenon
      <3> HIDE DEF P
      <3>5. /\ Chain(P) /\ Live(P) = Live(M) \ {b} /\ before # b
            /\ \A c \in Live(P) : P[c].free = M[c].free /\ M[c].size <= P[c].size
            /\ \A c \in Live(P) \ {before} : P[c].next = M[c].next
            /\ P[before].next = M[b].next
        BY <3>4, Zenon DEF AbsorbResult
      <3>6. Coalesced(P)
        <4> SUFFICES ASSUME NEW x \in Live(P), P[x].free, P[x].next # NULL
                     PROVE  ~P[P[x].next].free
          BY Zenon DEF Coalesced
        <4>1. P[x].next \in Live(P)
          BY <3>5, Zenon DEF Chain, Joined
        <4>2. P[x].next # b /\ P[P[x].next].free = M[P[x].next].free
          BY <3>5, <4>1, Zenon
        <4>3. CASE x = before
          BY <1>8, <3>5, <4>2, <4>3, Zenon
        <4>4. CASE x # before
          <5>1. P[x].next = M[x].next /\ M[x].free /\ x \in Live(M)
            BY <3>5, <4>4, Zenon
          <5> QED
            BY <1>8, <4>2, <5>1, Zenon
        <4> QED
          BY <4>3, <4>4, Zenon
      <3>7. InUse(P) = InUse(block) \ {b}
        <4>1. ASSUME NEW c PROVE c \in InUse(P) <=> c \in InUse(block) \ {b}
          BY <1>8, <3>5, ZenonT(60) DEF InUse
        <4> QED
          BY <4>1, Zenon
      <3>8. \A c \in InUse(P) : block[c].size <= P[c].size
        <4> SUFFICES ASSUME NEW c \in InUse(P) PROVE block[c].size <= P[c].size
          BY Zenon
        <4>1. c \in Live(P) /\ c \in Live(M) /\ c \in Live(block)
          BY <1>8, <3>5, Zenon DEF InUse
        <4>2. P[c].size \in Nat
          BY <3>5, <4>1, HeaderTypes, Zenon
        <4>3. block[c].size <= M[c].size /\ M[c].size <= P[c].size
          BY <1>8, <3>5, <4>1, Zenon
        <4> QED
          BY <1>9, <1>10, <4>1, <4>2, <4>3, SMTT(60)
      <3> QED
        BY <3>1, <3>5, <3>6, <3>7, <3>8, Zenon
    <2> QED
      BY <2>1, <2>2, Zenon
  <1>12. held' \in [InUse(block') -> Nat \ {0}]
    BY <1>1, <1>3, <1>11, Zenon
  <1>13. ASSUME NEW c \in InUse(block')
         PROVE  held'[c] <= block'[c].size
    <2>1. c \in InUse(block) /\ held'[c] = held[c]
      BY <1>1, <1>3, <1>11, Zenon
    <2>2. held[c] \in Nat /\ held[c] <= block[c].size /\ block[c].size <= block'[c].size
      BY <1>1, <1>11, <2>1
    <2>3. block[c].size \in Nat /\ block'[c].size \in Nat
      <3>1. c \in Live(block) /\ c \in Live(block')
        BY <2>1, Zenon DEF InUse
      <3> QED
        BY <1>9, <1>11, <3>1, HeaderTypes, Zenon
    <2> QED
      BY <2>1, <2>2, <2>3
  <1>14. Chain(block)' /\ Coalesced(block)' /\ InUse(block)' = InUse(block')
    BY <1>11, Zenon DEF Chain, Coalesced, InUse, Live, Joined, End
  <1> QED
    BY <1>12, <1>13, <1>14, Zenon DEF HeapInv

\* heap_init makes one free block.
LEMMA HeapInitInv == heap_init => HeapInv
PROOF
  <1> SUFFICES ASSUME heap_init PROVE HeapInv
    BY Zenon
  <1> DEFINE first == [size |-> HeapSize - Header, previous |-> NULL, next |-> NULL,
                       free |-> TRUE]
  <1>1. /\ first \in Blocks /\ Nothing \in Blocks /\ first # Nothing
        /\ first.size # 0 /\ first.size = HeapSize - Header
        /\ first.previous = NULL /\ first.next = NULL /\ first.free = TRUE
    BY HeapAssumption DEF Blocks, Nothing
  <1>2. block = [b \in Units |-> IF b = first_block THEN first ELSE Nothing] /\ held = << >>
    BY Zenon DEF heap_init
  <1> HIDE DEF first
  <1>3. block \in [Units -> Blocks] /\ block[first_block] = first /\ Live(block) = {first_block}
    BY <1>1, <1>2, HeapNumbers, Zenon DEF Live
  <1>4. End(block, first_block) = HeapSize
    BY <1>1, <1>3, HeapAssumption DEF End, first_block
  <1>5. Joined(block, first_block)
    BY <1>1, <1>3, <1>4, Zenon DEF Joined
  <1>6. ~(first_block < first_block)
    BY DEF first_block
  <1>7. Chain(block)
    BY <1>3, <1>5, <1>6, Zenon DEF Chain
  <1>8. Coalesced(block) /\ InUse(block) = {}
    BY <1>1, <1>3, Zenon DEF Coalesced, InUse
  <1>9. held \in [{} -> Nat \ {0}]
    BY <1>2
  <1> QED
    BY <1>7, <1>8, <1>9, Zenon DEF HeapInv

\* The list of heap.c tiles the heap in order of address, no two neighbours
\* are free, and what callers hold lies inside blocks in use and apart from
\* every header and every other block, after any sequence of heap_alloc and
\* heap_free, for a heap of any size.
THEOREM HeapIsSound == HeapSpec => []HeapSound
PROOF
  <1>1. HeapInv /\ [HeapNext]_heap_vars => HeapInv'
    <2>1. HeapInv /\ HeapNext => HeapInv'
      BY AllocInv, FreeInv, Zenon DEF HeapNext
    <2>2. HeapInv /\ UNCHANGED heap_vars => HeapInv'
      BY DEF heap_vars, HeapInv
    <2> QED
      BY <2>1, <2>2, Zenon
  <1> QED
    BY <1>1, HeapInitInv, HeapInvSound, PTL DEF HeapSpec
=============================================================================
