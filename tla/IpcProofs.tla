----------------------------- MODULE IpcProofs ------------------------------
(***************************************************************************)
(* Proofs about Ipc, for any number of processes, descriptors and objects  *)
(* and any sizes: descriptors name live objects and memory files count     *)
(* them; rings deliver what was put, epoll reports what is ready, and      *)
(* timers count every expiration.                                          *)
(***************************************************************************)
EXTENDS Ipc, FiniteSetTheorems, TLAPS

-----------------------------------------------------------------------------
(* Numbers and sets *)

\* A nonempty set of numbers has a least one.
LEMMA LeastNatural ==
  ASSUME NEW S, S \subseteq Nat, S # {}
  PROVE  \E x \in S : \A y \in S : x <= y
PROOF
  <1> DEFINE R == {ss \in Nat \X Nat : ss[1] < ss[2]}
  <1>1. IsWellFoundedOn(R, Nat)
    BY NatLessThanWellFounded, Zenon DEF OpToRel
  <1>2. \E x \in S : \A y \in S : <<y, x>> \notin R
    <2> HIDE DEF R
    <2> QED
      BY <1>1, WFMin, Zenon
  <1>3. \A x, y \in Nat : <<y, x>> \notin R => x <= y
    OBVIOUS
  <1> QED
    BY <1>2, <1>3, Zenon

\* The cardinality of a set of which one part is replaced by another.
LEMMA ReplacePart ==
  ASSUME NEW H, NEW R, NEW A, IsFiniteSet(H), IsFiniteSet(A),
         R \subseteq H, A \cap (H \ R) = {}
  PROVE  Cardinality((H \ R) \cup A) = Cardinality(H) - Cardinality(R) + Cardinality(A)
PROOF
  <1>1. IsFiniteSet(H \ R) /\ Cardinality(H \ R) = Cardinality(H) - Cardinality(H \cap R)
    BY FS_Difference, Zenon
  <1>2. Cardinality(H \cap R) = Cardinality(R)
    <2>1. H \cap R = R
      BY Zenon
    <2> QED
      BY <2>1, Zenon
  <1>3. IsFiniteSet(R)
    BY FS_Subset, Zenon
  <1>4. Cardinality((H \ R) \cup A)
          = Cardinality(H \ R) + Cardinality(A) - Cardinality((H \ R) \cap A)
    BY <1>1, FS_Union, Zenon
  <1>5. (H \ R) \cap A = {}
    BY Zenon
  <1>6. Cardinality((H \ R) \cap A) = 0
    BY <1>5, FS_EmptySet, Zenon
  <1>7. /\ Cardinality(H) \in Nat /\ Cardinality(A) \in Nat
        /\ Cardinality(R) \in Nat /\ Cardinality(H \ R) \in Nat
    BY <1>1, <1>3, FS_CardinalityType, Zenon
  <1> QED
    BY <1>1, <1>2, <1>4, <1>6, <1>7

\* Pairs with a fixed first component.
LEMMA Slice ==
  ASSUME NEW x, NEW A, IsFiniteSet(A)
  PROVE  IsFiniteSet({x} \X A) /\ Cardinality({x} \X A) = Cardinality(A)
PROOF
  <1>1. IsFiniteSet({x}) /\ Cardinality({x}) = 1
    BY FS_Singleton, Zenon
  <1>2. Cardinality(A) \in Nat
    BY FS_CardinalityType, Zenon
  <1> QED
    BY <1>1, <1>2, FS_Product

\* A multiple of n strictly between -n and n is 0.
LEMMA Times == ASSUME NEW n \in Nat \ {0}, NEW p \in Int, n * p < n, n * p > -n PROVE p = 0
<1>1. p >= 1 => n * p >= n
  OBVIOUS
<1>2. p <= -1 => n * (-p) >= n
  OBVIOUS
<1> QED
  BY <1>1, <1>2

\* What % and \div compute.
LEMMA IntDivision ==
  ASSUME NEW n \in Nat \ {0}, NEW a \in Int
  PROVE  a % n \in 0..(n - 1) /\ a = n * (a \div n) + (a % n) /\ a \div n \in Int
OBVIOUS

\* Quotient and remainder.
LEMMA Division ==
  ASSUME NEW n \in Nat \ {0}, NEW a \in Nat
  PROVE  a % n \in 0..(n - 1) /\ a = n * (a \div n) + (a % n) /\ a \div n \in Nat
OBVIOUS

\* A remainder is the only number below n that differs by a multiple of n.
LEMMA RemainderIs ==
  ASSUME NEW n \in Nat \ {0}, NEW a \in Int, NEW p \in Int, NEW d \in 0..(n - 1), a = n * p + d
  PROVE  a % n = d
<1> DEFINE q == a \div n
           r == a % n
<1>1. r \in 0..(n - 1) /\ a = n * q + r /\ q \in Int
  BY IntDivision, Zenon
<1> HIDE DEF q, r
<1>2. n * (p - q) = r - d /\ p - q \in Int
  BY <1>1
<1>3. p - q = 0
  <2> DEFINE z == p - q
  <2> HIDE DEF z
  <2>1. n * z < n /\ n * z > -n /\ z \in Int
    BY <1>1, <1>2 DEF z
  <2>2. z = 0
    BY <2>1, Times, Zenon
  <2> QED BY <2>2 DEF z
<1>4. n * (p - q) = 0
  BY <1>3
<1>5. r = d
  BY <1>1, <1>2, <1>4
<1> QED
  BY <1>5, Zenon DEF r

\* Offsets may be reduced before they are added.
LEMMA ModAdd ==
  ASSUME NEW n \in Nat \ {0}, NEW a \in Nat, NEW k \in Nat
  PROVE  ((a % n) + k) % n = (a + k) % n
<1> DEFINE q == a \div n
           r == a % n
           s == (r + k) \div n
           d == (r + k) % n
<1>1. r \in 0..(n - 1) /\ a = n * q + r /\ q \in Int
  BY IntDivision
<1> HIDE DEF q, r
<1>2. r + k \in Int
  BY <1>1
<1>3. d \in 0..(n - 1) /\ r + k = n * s + d /\ s \in Int
  BY <1>2, IntDivision, Zenon
<1> HIDE DEF s, d
<1>4. a + k = n * (q + s) + d /\ q + s \in Int /\ a + k \in Int
  BY <1>1, <1>3
<1>5. (a + k) % n = d
  BY <1>3, <1>4, RemainderIs, Zenon
<1> QED
  BY <1>5, Zenon DEF d, r

\* The distance from one place of a ring to another.
LEMMA RingDistance ==
  ASSUME NEW n \in Nat \ {0}, NEW b \in Nat, NEW d \in 0..(n - 1)
  PROVE  (((b + d) % n) - (b % n)) % n = d
<1> DEFINE q == b \div n
           r == b % n
           s == (b + d) \div n
           t == (b + d) % n
<1>1. r \in 0..(n - 1) /\ b = n * q + r /\ q \in Int
  BY IntDivision
<1>2. t \in 0..(n - 1) /\ b + d = n * s + t /\ s \in Int
  <2>1. b + d \in Int
    OBVIOUS
  <2> QED BY <2>1, IntDivision, Zenon
<1> HIDE DEF q, r, s, t
<1>3. t - r = n * (q - s) + d /\ q - s \in Int /\ t - r \in Int
  BY <1>1, <1>2
<1>4. (t - r) % n = d
  BY <1>3, RemainderIs, Zenon
<1> QED
  BY <1>4, Zenon DEF t, r

\* A whole ring later comes the same slot.
LEMMA ModWrap ==
  ASSUME NEW n \in Nat \ {0}, NEW a \in Nat, NEW b \in Nat, b = a + n
  PROVE  b % n = a % n
<1> DEFINE q == a \div n
           r == a % n
<1>1. r \in 0..(n - 1) /\ a = n * q + r /\ q \in Int
  BY IntDivision
<1> HIDE DEF q, r
<1>2. b = n * (q + 1) + r /\ q + 1 \in Int /\ b \in Int
  BY <1>1
<1>3. b % n = r
  BY <1>1, <1>2, RemainderIs, Zenon
<1> QED
  BY <1>3, Zenon DEF r

\* The quotient is the only number with a remainder below n.
LEMMA QuotientIs ==
  ASSUME NEW n \in Nat \ {0}, NEW a \in Int, NEW p \in Int, NEW d \in 0..(n - 1), a = n * p + d
  PROVE  a \div n = p
<1> DEFINE q == a \div n
           r == a % n
<1>1. r \in 0..(n - 1) /\ a = n * q + r /\ q \in Int
  BY IntDivision
<1> HIDE DEF q, r
<1>2. n * (p - q) = r - d /\ p - q \in Int
  BY <1>1
<1>3. p - q = 0
  <2> DEFINE z == p - q
  <2> HIDE DEF z
  <2>1. z \in Int /\ n * z < n /\ n * z > -n
    BY <1>1, <1>2 DEF z
  <2>2. z = 0
    BY <2>1, Times, Zenon
  <2> QED
    BY <2>2, Zenon DEF z
<1> QED
  BY <1>1, <1>3 DEF q

\* How many of the numbers from f to s are a multiple of i after f.
LEMMA Multiples ==
  ASSUME NEW i \in Nat \ {0}, NEW f \in Nat, NEW s \in Nat, f <= s
  PROVE  Cardinality({t \in f..s : (t - f) % i = 0}) = 1 + (s - f) \div i
<1> DEFINE q == (s - f) \div i
           n == 1 + q
           T == {t \in f..s : (t - f) % i = 0}
           b == [k \in 1..n |-> f + i * (k - 1)]
<1>1. q \in Nat /\ i * q <= s - f /\ s - f < i * q + i
  <2>1. s - f \in Nat
    OBVIOUS
  <2>2. (s - f) % i \in 0..(i - 1) /\ s - f = i * q + ((s - f) % i) /\ q \in Nat
    BY <2>1, Division, Zenon
  <2> HIDE DEF q
  <2> QED
    BY <2>2
<1> HIDE DEF q
<1>2. n \in Nat
  BY <1>1
<1>3. \A k \in 1..n : i * (k - 1) \in Nat /\ i * (k - 1) <= i * q
  BY <1>1
<1>4. b \in [1..n -> T]
  <2> SUFFICES ASSUME NEW k \in 1..n PROVE f + i * (k - 1) \in T
    BY Zenon
  <2> DEFINE m == i * (k - 1)
  <2>1. m \in Nat /\ m <= s - f /\ k - 1 \in Int
    BY <1>1, <1>3
  <2>2. m % i = 0
    <3>1. m = i * (k - 1) + 0 /\ 0 \in 0..(i - 1) /\ m \in Int
      BY <2>1
    <3> HIDE DEF m
    <3> QED
      BY <3>1, <2>1, RemainderIs, Zenon
  <2> HIDE DEF m
  <2>3. (f + m) - f = m /\ f + m \in f..s
    BY <2>1
  <2>4. f + m \in T
    BY <2>2, <2>3, Zenon
  <2> QED
    BY <2>4, Zenon DEF m
<1>5. b \in Injection(1..n, T)
  <2>1. ASSUME NEW j \in 1..n, NEW k \in 1..n, b[j] = b[k] PROVE j = k
    <3>1. i * (j - 1) = i * (k - 1)
      BY <2>1, <1>3
    <3>2. i * (j - k) = 0 /\ j - k \in Int
      BY <3>1, <1>2
    <3> DEFINE z == j - k
    <3> HIDE DEF z
    <3>3. z \in Int /\ i * z < i /\ i * z > -i
      BY <3>2 DEF z
    <3>4. z = 0
      BY <3>3, Times, Zenon
    <3> QED
      BY <3>4, <1>2 DEF z
  <2> HIDE DEF b, n, T
  <2> QED
    BY <1>4, <2>1, Zenon DEF Injection, IsInjective
<1>6. b \in Surjection(1..n, T)
  <2>1. ASSUME NEW t \in T PROVE \E k \in 1..n : b[k] = t
    <3> DEFINE d == (t - f) \div i
    <3>0. t - f \in Nat /\ t - f <= s - f /\ (t - f) % i = 0
      OBVIOUS
    <3>1. t - f = i * d + 0 /\ d \in Nat
      BY <3>0, Division, Zenon
    <3> HIDE DEF d
    <3>2. d <= q
      <4>1. i * d < i * q + i
        BY <3>0, <3>1, <1>1
      <4>2. d >= q + 1 => i * d >= i * (q + 1)
        BY <3>1, <1>1
      <4>3. i * (q + 1) = i * q + i
        BY <1>1
      <4> QED
        BY <4>1, <4>2, <4>3, <3>1, <1>1
    <3>3. d + 1 \in 1..n /\ f + i * ((d + 1) - 1) = t
      BY <3>1, <3>2, <1>1
    <3>4. b[d + 1] = f + i * ((d + 1) - 1)
      BY <3>3, Zenon
    <3> QED
      BY <3>3, <3>4, Zenon
  <2> HIDE DEF b, n, T
  <2> QED
    BY <1>4, <2>1, Zenon DEF Surjection
<1>7. ExistsBijection(1..n, T)
  <2> HIDE DEF b, n, T
  <2> QED
    BY <1>5, <1>6, Zenon DEF ExistsBijection, Bijection
<1>8. Cardinality(T) = n
  <2> HIDE DEF b, n, T
  <2> QED
    BY <1>2, <1>7, FS_CountingElements, Zenon
<1> QED
  BY <1>8, Zenon DEF q

-----------------------------------------------------------------------------
(* Descriptors *)

\* The types of the descriptors that have one endpoint.
Simple == {"pipe_read", "pipe_write", "event", "timer", "epoll", "memfd"}

Files == {None} \cup {Descriptor(t, o, 0) : t \in Simple, o \in Ids}
                \cup {Descriptor("socket", o, e) : o \in Ids, e \in {0, 1}}

\* The fields of a descriptor.
LEMMA Parts ==
  ASSUME NEW t, NEW o, NEW e
  PROVE  /\ Descriptor(t, o, e).type = t
         /\ Descriptor(t, o, e).object = o
         /\ Descriptor(t, o, e).endpoint = e
PROOF
  BY Zenon DEF Descriptor

\* A closed descriptor has no type.
LEMMA NoneType == None.type = "none"
PROOF
  BY Zenon DEF None

\* The table of a process and the descriptor a call made, named as such.
LEMMA FileParts ==
  ASSUME NEW f \in Files
  PROVE  \/ f = None
         \/ /\ f.type \in Simple /\ f.object \in Ids /\ f.endpoint = 0
            /\ f = Descriptor(f.type, f.object, 0)
         \/ /\ f.type = "socket" /\ f.object \in Ids /\ f.endpoint \in {0, 1}
PROOF
  <1>1. CASE f = None
    BY <1>1, Zenon
  <1>2. CASE f \in {Descriptor(t, o, 0) : t \in Simple, o \in Ids}
    <2>1. PICK t \in Simple, o \in Ids : f = Descriptor(t, o, 0)
      BY <1>2
    <2>2. f.type = t /\ f.object = o /\ f.endpoint = 0
      BY <2>1, Zenon DEF Descriptor
    <2> QED
      BY <2>1, <2>2, Zenon
  <1>3. CASE f \in {Descriptor("socket", o, e) : o \in Ids, e \in {0, 1}}
    <2>1. PICK o \in Ids, e \in {0, 1} : f = Descriptor("socket", o, e)
      BY <1>3
    <2>2. f.type = "socket" /\ f.object = o /\ f.endpoint = e
      BY <2>1, Zenon DEF Descriptor
    <2> QED
      BY <2>1, <2>2, Zenon
  <1>4. \/ f = None
        \/ f \in {Descriptor(t, o, 0) : t \in Simple, o \in Ids}
        \/ f \in {Descriptor("socket", o, e) : o \in Ids, e \in {0, 1}}
    BY DEF Files
  <1> QED
    BY <1>1, <1>2, <1>3, <1>4

\* The kind of a descriptor's object.
LEMMA FileKind ==
  ASSUME NEW f \in Files, f # None
  PROVE  /\ KindOf(f) \in Kinds /\ f.object \in Ids
         /\ KindOf(f) = "memfd" => f = Descriptor("memfd", f.object, 0)
         /\ f = Descriptor("memfd", f.object, 0) => KindOf(f) = "memfd"
PROOF
  <1>1. CASE f.type = "socket" /\ f.object \in Ids
    BY <1>1, Parts DEF KindOf, Kinds
  <1>2. CASE f.type \in Simple /\ f.object \in Ids /\ f = Descriptor(f.type, f.object, 0)
    BY <1>2, Parts DEF KindOf, Kinds, Simple
  <1> QED
    BY <1>1, <1>2, FileParts, Zenon

-----------------------------------------------------------------------------
(* Counting the descriptors of a memory file *)

Memory(o) == Descriptor("memfd", o, 0)
Names(o) == {c \in Processes \X Fds : File(c[1], c[2]) = Memory(o)}
Row(p, o) == {fd \in Fds : File(p, fd) = Memory(o)}

Tables == [Processes -> [Fds -> Files]]

\* Finitely many descriptors name an object.
LEMMA FiniteRows ==
  ASSUME workload \in Workloads
  PROVE  /\ IsFiniteSet(Fds) /\ Fds \subseteq Nat /\ Ids \subseteq Nat
         /\ \A o : IsFiniteSet(Names(o)) /\ Cardinality(Names(o)) \in Nat
         /\ \A p, o : IsFiniteSet(Row(p, o)) /\ Cardinality(Row(p, o)) \in Nat
PROOF
  <1>1. workload.fds \in Nat /\ workload.objects \in Nat
    BY SizesAssumption, Zenon
  <1>2. IsFiniteSet(Fds) /\ Fds \subseteq Nat /\ Ids \subseteq Nat
    <2>1. 3 \in Int /\ workload.fds + 2 \in Int
      BY <1>1
    <2>2. IsFiniteSet(Fds)
      BY <2>1, FS_Interval, Zenon DEF Fds
    <2> QED
      BY <1>1, <2>2 DEF Fds, Ids
  <1>3. IsFiniteSet(Processes \X Fds)
    BY <1>2, SizesAssumption, FS_Product, Zenon
  <1>4. ASSUME NEW o PROVE IsFiniteSet(Names(o))
    BY <1>3, FS_Subset, Zenon DEF Names
  <1>5. ASSUME NEW p, NEW o PROVE IsFiniteSet(Row(p, o))
    BY <1>2, FS_Subset, Zenon DEF Row
  <1> QED
    BY <1>2, <1>4, <1>5, FS_CardinalityType, Zenon

\* A step changes the table of p only.
OnlyTable(p) == \A q \in Processes : q # p => descriptors'[q] = descriptors[q]

\* It makes f the descriptor fd of p.
Stored(p, fd, f) == \A x \in Fds : descriptors'[p][x] = IF x = fd THEN f ELSE descriptors[p][x]

\* Every descriptor it leaves in the table of p is a copy of one.
Copied(p) ==
  \A fd \in Fds : \/ descriptors'[p][fd] = None
                  \/ \E q \in Processes, e \in Fds : descriptors'[p][fd] = File(q, e)

\* The table of p names every memory file as the descriptors given up and
\* taken say.
Renamed(p, released, retained) ==
  \A o \in Ids : /\ Naming(released, o) \in Nat /\ Naming(retained, o) \in Nat
                 /\ Cardinality(Row(p, o)') =
                      Cardinality(Row(p, o)) - Naming(released, o) + Naming(retained, o)

\* A step that changes the table of p only changes the descriptors that name
\* a memory file by the change in that table.
LEMMA RowChange ==
  ASSUME workload \in Workloads, workload' = workload, NEW p \in Processes, NEW o,
         OnlyTable(p)
  PROVE  Cardinality(Names(o)') =
           Cardinality(Names(o)) - Cardinality(Row(p, o)) + Cardinality(Row(p, o)')
PROOF
  <1> DEFINE R == {p} \X Row(p, o)
             A == {p} \X Row(p, o)'
  <1>1. Fds' = Fds
    BY Zenon DEF Fds
  <1>2. Names(o)' = (Names(o) \ R) \cup A
    BY <1>1, ZenonT(60) DEF OnlyTable, Names, Row, File, Memory, Descriptor
  <1>3. R \subseteq Names(o) /\ A \cap (Names(o) \ R) = {}
    BY <1>1, Zenon DEF Names, Row
  <1>4. IsFiniteSet(Names(o)) /\ IsFiniteSet(Row(p, o))
    BY FiniteRows, Zenon
  <1>5. IsFiniteSet(Row(p, o)')
    BY <1>1, FiniteRows, FS_Subset, Zenon DEF Row
  <1>6. /\ Cardinality(R) = Cardinality(Row(p, o))
        /\ IsFiniteSet(A) /\ Cardinality(A) = Cardinality(Row(p, o)')
    BY <1>4, <1>5, Slice, Zenon
  <1> HIDE DEF R, A
  <1> QED
    BY <1>2, <1>3, <1>4, <1>6, ReplacePart

-----------------------------------------------------------------------------
(* Descriptors name objects in use *)

FileTypes ==
  /\ workload \in Workloads
  /\ state \in [Processes -> {"free", "running", "zombie"}]
  /\ descriptors \in Tables
  /\ used \in [Kinds -> SUBSET Ids]
  /\ references \in [Ids -> Int]

\* A free slot has no descriptors; reset_process_slot closed them.
FreeClosed == \A p \in Processes : state[p] = "free" => \A fd \in Fds : File(p, fd) = None

Live(f) == f # None => f.object \in used[KindOf(f)]
AllLive == \A p \in Processes, fd \in Fds : Live(File(p, fd))

Counted ==
  \A o \in Ids : /\ references[o] = Cardinality(Names(o))
                 /\ o \in used["memfd"] <=> references[o] > 0

FilesInv == FileTypes /\ FreeClosed /\ AllLive /\ Counted

\* The invariant makes descriptors valid.
LEMMA FilesInvValid == FilesInv => DescriptorsValid
PROOF
  BY Zenon DEF FilesInv, AllLive, Live, Counted, Names, Memory, DescriptorsValid

\* The cells of a table with a given content.
Cells(P, F, T, m) == {c \in P \X F : T[c[1]][c[2]] = m}

\* A count is positive exactly when something is counted.
LEMMA CellCounted ==
  ASSUME NEW P, NEW F, NEW T, NEW m, IsFiniteSet(P), IsFiniteSet(F)
  PROVE  Cardinality(Cells(P, F, T, m)) > 0 <=> \E p \in P, fd \in F : T[p][fd] = m
PROOF
  <1> DEFINE S == {c \in P \X F : T[c[1]][c[2]] = m}
  <1>1. IsFiniteSet(P \X F)
    BY FS_Product, Zenon
  <1>2. IsFiniteSet(S)
    BY <1>1, FS_Subset, Zenon
  <1>3. Cardinality(S) \in Nat /\ (Cardinality(S) = 0 <=> S = {})
    BY <1>2, FS_EmptySet, FS_CardinalityType, Zenon
  <1>4. ASSUME NEW p \in P, NEW fd \in F, T[p][fd] = m PROVE S # {}
    <2>1. <<p, fd>> \in S
      BY <1>4, Zenon
    <2> QED BY <2>1
  <1>5. ASSUME S # {} PROVE \E p \in P, fd \in F : T[p][fd] = m
    <2>1. PICK c \in S : TRUE
      BY <1>5, Zenon
    <2>2. c[1] \in P /\ c[2] \in F /\ T[c[1]][c[2]] = m
      BY <2>1, Zenon
    <2> QED BY <2>2
  <1> HIDE DEF S
  <1>6. Cardinality(S) > 0 <=> S # {}
    BY <1>3
  <1>7. S # {} <=> \E p \in P, fd \in F : T[p][fd] = m
    BY <1>4, <1>5, Zenon
  <1> QED
    BY <1>6, <1>7, Zenon DEF S, Cells

\* A descriptor of a memory file is counted, before and after a step.
LEMMA NamedCounted ==
  ASSUME workload \in Workloads, workload' = workload, NEW o
  PROVE  /\ Cardinality(Names(o)) > 0 <=>
              \E p \in Processes, fd \in Fds : File(p, fd) = Memory(o)
         /\ Cardinality(Names(o)') > 0 <=>
              \E p \in Processes, fd \in Fds : File(p, fd)' = Memory(o)
PROOF
  <1>1. IsFiniteSet(Processes) /\ IsFiniteSet(Fds)
    BY FiniteRows, SizesAssumption, Zenon
  <1>2. Fds' = Fds
    BY Zenon DEF Fds
  <1>3. Names(o) = Cells(Processes, Fds, descriptors, Memory(o))
    BY Zenon DEF Names, File, Cells
  <1>4. Names(o)' = Cells(Processes, Fds, descriptors', Memory(o))
    BY <1>2, Zenon DEF Names, File, Memory, Descriptor, Cells
  <1>5. Cardinality(Names(o)) > 0 <=>
          \E p \in Processes, fd \in Fds : descriptors[p][fd] = Memory(o)
    BY <1>1, <1>3, CellCounted
  <1>6. Cardinality(Names(o)') > 0 <=>
          \E p \in Processes, fd \in Fds : descriptors'[p][fd] = Memory(o)
    BY <1>1, <1>4, CellCounted
  <1> QED
    BY <1>5, <1>6, Zenon DEF File

\* What holds of the counts once the table of p has changed.
LEMMA CountsFollow ==
  ASSUME FilesInv, workload' = workload, NEW p \in Processes, OnlyTable(p),
         \A o \in Ids : references'[o] =
           references[o] - Cardinality(Row(p, o)) + Cardinality(Row(p, o)')
  PROVE  \A o \in Ids : references'[o] = Cardinality(Names(o)')
PROOF
  <1> SUFFICES ASSUME NEW o \in Ids PROVE references'[o] = Cardinality(Names(o)')
    BY Zenon
  <1>1. Cardinality(Names(o)') =
          Cardinality(Names(o)) - Cardinality(Row(p, o)) + Cardinality(Row(p, o)')
    BY RowChange, Zenon DEF FilesInv, FileTypes
  <1>2. references[o] = Cardinality(Names(o))
    BY Zenon DEF FilesInv, Counted
  <1>3. references'[o] = references[o] - Cardinality(Row(p, o)) + Cardinality(Row(p, o)')
    BY Zenon
  <1> QED
    BY <1>1, <1>2, <1>3, Zenon

\* close, dup, clone and the reset of a slot: descriptors of one table change
\* into None or into copies of existing ones, and Recount follows them.
LEMMA RecountStep ==
  ASSUME FilesInv, workload' = workload, NEW p \in Processes,
         NEW released, NEW retained, Recount(released, retained),
         descriptors' \in Tables, OnlyTable(p), Copied(p), Renamed(p, released, retained)
  PROVE  /\ used' \in [Kinds -> SUBSET Ids] /\ references' \in [Ids -> Int]
         /\ AllLive' /\ Counted'
PROOF
  <1>0. FileTypes /\ AllLive /\ Counted /\ workload \in Workloads /\ "memfd" \in Kinds
    BY Zenon DEF FilesInv, FileTypes, Kinds
  <1>1. Ids' = Ids /\ Fds' = Fds
    BY Zenon DEF Ids, Fds
  <1>2. \A o \in Ids : references'[o] = references[o] - Naming(released, o) + Naming(retained, o)
    BY Zenon DEF Recount
  <1>3. references' \in [Ids -> Int]
    <2>1. \A o \in Ids : references[o] - Naming(released, o) + Naming(retained, o) \in Int
      BY <1>0 DEF FileTypes, Renamed
    <2> QED
      BY <2>1, Zenon DEF Recount
  <1>4. used' = [used EXCEPT !["memfd"] = {o \in used["memfd"] : references'[o] > 0}]
    BY Zenon DEF Recount
  <1>5. used' \in [Kinds -> SUBSET Ids]
    BY <1>0, <1>4, Zenon DEF FileTypes
  <1>6. \A o \in Ids : references'[o] = Cardinality(Names(o)')
    <2>1. \A o \in Ids : references'[o] =
            references[o] - Cardinality(Row(p, o)) + Cardinality(Row(p, o)')
      <3> SUFFICES ASSUME NEW o \in Ids
                   PROVE  references'[o] =
                     references[o] - Cardinality(Row(p, o)) + Cardinality(Row(p, o)')
        BY Zenon
      <3>1. Cardinality(Row(p, o)) \in Nat /\ references[o] \in Int
        BY <1>0, FiniteRows, Zenon DEF FileTypes
      <3> QED
        BY <3>1, <1>2 DEF Renamed
    <2> QED
      BY <2>1, CountsFollow, Zenon
  <1>7. \A q \in Processes, fd \in Fds : File(q, fd)' # None =>
          \E r \in Processes, e \in Fds : File(q, fd)' = File(r, e)
    BY DEF File, OnlyTable, Copied
  <1>8. ASSUME NEW o \in Ids PROVE references'[o] > 0 <=>
          \E q \in Processes, fd \in Fds : File(q, fd)' = Memory(o)
    <2>1. Cardinality(Names(o)') > 0 <=>
            \E q \in Processes, fd \in Fds : File(q, fd)' = Memory(o)
      BY <1>0, NamedCounted, Zenon
    <2> QED
      BY <2>1, <1>6, Zenon
  <1>9. ASSUME NEW o \in Ids, references'[o] > 0 PROVE o \in used["memfd"]
    <2>1. PICK q \in Processes, fd \in Fds : File(q, fd)' = Memory(o)
      BY <1>8, <1>9, Zenon
    <2>2. Memory(o) # None
      BY Parts, NoneType DEF Memory
    <2>3. PICK r \in Processes, e \in Fds : File(r, e) = Memory(o)
      BY <2>1, <2>2, <1>7
    <2>4. references[o] > 0
      BY <2>3, <1>0, NamedCounted, Zenon DEF Counted
    <2> QED
      BY <2>4, <1>0, Zenon DEF Counted
  <1>10. \A o \in Ids : o \in used'["memfd"] <=> references'[o] > 0
    <2>1. used'["memfd"] = {o \in used["memfd"] : references'[o] > 0}
      BY <1>0, <1>4, Zenon DEF FileTypes
    <2> QED
      BY <2>1, <1>9, Zenon
  <1>11. Counted'
    BY <1>1, <1>6, <1>10, Zenon DEF Counted
  <1>12. AllLive'
    <2> SUFFICES ASSUME NEW q \in Processes, NEW fd \in Fds, File(q, fd)' # None
                 PROVE  File(q, fd)'.object \in used'[KindOf(File(q, fd)')]
      BY <1>1, Zenon DEF AllLive, Live, KindOf, None
    <2> DEFINE f == File(q, fd)'
    <2>1. PICK r \in Processes, e \in Fds : f = File(r, e)
      BY <1>7, Zenon
    <2>2. f \in Files
      BY <2>1, <1>0, Zenon DEF FileTypes, Tables, File
    <2>3. f.object \in used[KindOf(f)]
      BY <2>1, <1>0, Zenon DEF AllLive, Live
    <2>4. KindOf(f) \in Kinds /\ f.object \in Ids
      BY <2>2, FileKind, Zenon
    <2>5. CASE KindOf(f) # "memfd"
      BY <2>3, <2>4, <2>5, <1>0, <1>4, Zenon DEF FileTypes
    <2>6. CASE KindOf(f) = "memfd"
      <3>1. f = Memory(f.object)
        BY <2>2, <2>6, FileKind, Zenon DEF Memory
      <3>2. references'[f.object] > 0
        BY <3>1, <2>4, <1>8, Zenon
      <3> QED
        BY <3>2, <2>4, <2>6, <1>10, Zenon
    <2> QED
      BY <2>5, <2>6, Zenon
  <1> QED
    BY <1>3, <1>5, <1>11, <1>12, Zenon

\* Steps that change no descriptor: calls that transfer data, ticks, the start
\* and the exit of a process, an object that leaks.
LEMMA SameDescriptors ==
  ASSUME FilesInv, UNCHANGED <<workload, descriptors, references>>,
         state' \in [Processes -> {"free", "running", "zombie"}],
         \A p \in Processes : state'[p] = "free" => state[p] = "free",
         used' \in [Kinds -> SUBSET Ids], used'["memfd"] = used["memfd"],
         \A kind \in Kinds : used[kind] \subseteq used'[kind]
  PROVE  FilesInv'
PROOF
  <1>0. FileTypes /\ FreeClosed /\ AllLive /\ Counted
    BY Zenon DEF FilesInv
  <1>1. Ids' = Ids /\ Fds' = Fds /\ Files' = Files /\ Tables' = Tables
    BY DEF Ids, Fds, Files, Tables, Ids, None, Descriptor
  <1>2. FileTypes'
    BY <1>0, <1>1, Zenon DEF FileTypes
  <1>3. FreeClosed'
    BY <1>0, <1>1, Zenon DEF FreeClosed, File, None
  <1>4. AllLive'
    <2> SUFFICES ASSUME NEW p \in Processes, NEW fd \in Fds, File(p, fd) # None
                 PROVE  File(p, fd).object \in used'[KindOf(File(p, fd))]
      BY <1>1, Zenon DEF AllLive, Live, KindOf, None, File
    <2>1. File(p, fd) \in Files
      BY <1>0, Zenon DEF FileTypes, Tables, File
    <2>2. KindOf(File(p, fd)) \in Kinds
      BY <2>1, FileKind, Zenon
    <2> QED
      BY <2>2, <1>0, Zenon DEF AllLive, Live
  <1>5. Counted'
    <2>1. \A o : Names(o)' = Names(o)
      BY <1>1, Zenon DEF Names, File, Memory, Descriptor
    <2> QED
      BY <2>1, <1>0, <1>1, Zenon DEF Counted
  <1> QED
    BY <1>2, <1>3, <1>4, <1>5, Zenon DEF FilesInv

\* The number of the descriptors of one table that name a memory file.
LEMMA NamingRow ==
  ASSUME FileTypes, NEW p \in Processes, NEW o
  PROVE  Naming(descriptors[p], o) = Cardinality(Row(p, o)) /\ Naming(descriptors[p], o) \in Nat
PROOF
  <1>1. DOMAIN descriptors[p] = Fds
    BY Zenon DEF FileTypes, Tables
  <1>2. Naming(descriptors[p], o) = Cardinality(Row(p, o))
    BY <1>1, Zenon DEF Naming, Row, File, Memory
  <1> QED
    BY <1>2, FiniteRows DEF FileTypes

\* No descriptors name nothing.
LEMMA NamingNothing == ASSUME NEW o PROVE Naming(<< >>, o) = 0
PROOF
  <1>1. {fd \in DOMAIN << >> : << >>[fd] = Descriptor("memfd", o, 0)} = {}
    OBVIOUS
  <1> QED
    BY <1>1, FS_EmptySet, Zenon DEF Naming

\* A table with one descriptor.
One(fd, f) == [x \in {fd} |-> f]

\* One descriptor names its object once.
LEMMA NamingOne ==
  ASSUME NEW fd, NEW f, NEW o
  PROVE  Naming(One(fd, f), o) = IF f = Memory(o) THEN 1 ELSE 0
PROOF
  <1> DEFINE S == {x \in {fd} : [y \in {fd} |-> f][x] = Descriptor("memfd", o, 0)}
  <1>1. Naming(One(fd, f), o) = Cardinality(S)
    BY Zenon DEF Naming, One
  <1>2. CASE f = Memory(o)
    <2>1. S = {fd}
      BY <1>2, Zenon DEF Memory
    <2> QED
      BY <1>1, <1>2, <2>1, FS_Singleton, Zenon
  <1>3. CASE f # Memory(o)
    <2>1. S = {}
      BY <1>3, Zenon DEF Memory
    <2> QED
      BY <1>1, <1>3, <2>1, FS_EmptySet, Zenon
  <1> QED
    BY <1>2, <1>3, Zenon

\* One descriptor of a table is replaced.
LEMMA RowOne ==
  ASSUME FileTypes, workload' = workload, NEW p \in Processes, NEW fd \in Fds, NEW f, NEW o,
         Stored(p, fd, f)
  PROVE  Cardinality(Row(p, o)') = Cardinality(Row(p, o))
           - (IF File(p, fd) = Memory(o) THEN 1 ELSE 0) + (IF f = Memory(o) THEN 1 ELSE 0)
PROOF
  <1>1. Fds' = Fds
    BY Zenon DEF Fds
  <1>2. \A x \in Fds : descriptors'[p][x] = IF x = fd THEN f ELSE descriptors[p][x]
    BY Zenon DEF Stored
  <1>3. Row(p, o)' = {x \in Fds : descriptors'[p][x] = Memory(o)}
    BY <1>1, Zenon DEF Row, File, Memory, Descriptor
  <1>4. Row(p, o) = {x \in Fds : descriptors[p][x] = Memory(o)}
    BY Zenon DEF Row, File
  <1>5. IsFiniteSet(Row(p, o)) /\ Cardinality(Row(p, o)) \in Nat
    BY FiniteRows, Zenon DEF FileTypes
  <1>6. CASE f = Memory(o) /\ File(p, fd) = Memory(o)
    <2>1. Row(p, o)' = Row(p, o)
      BY <1>2, <1>3, <1>4, <1>6, Zenon DEF File
    <2> QED
      BY <2>1, <1>5, <1>6
  <1>7. CASE f = Memory(o) /\ File(p, fd) # Memory(o)
    <2>1. Row(p, o)' = Row(p, o) \cup {fd} /\ fd \notin Row(p, o)
      BY <1>2, <1>3, <1>4, <1>7, Zenon DEF File
    <2>2. Cardinality(Row(p, o)') = Cardinality(Row(p, o)) + 1
      BY <2>1, <1>5, FS_AddElement, Zenon
    <2> QED
      BY <2>2, <1>5, <1>7
  <1>8. CASE f # Memory(o) /\ File(p, fd) = Memory(o)
    <2>1. Row(p, o)' = Row(p, o) \ {fd} /\ fd \in Row(p, o)
      BY <1>2, <1>3, <1>4, <1>8, Zenon DEF File
    <2>2. Cardinality(Row(p, o)') = Cardinality(Row(p, o)) - 1
      BY <2>1, <1>5, FS_RemoveElement, Zenon
    <2> QED
      BY <2>2, <1>5, <1>8
  <1>9. CASE f # Memory(o) /\ File(p, fd) # Memory(o)
    <2>1. Row(p, o)' = Row(p, o)
      BY <1>2, <1>3, <1>4, <1>9, Zenon DEF File
    <2> QED
      BY <2>1, <1>5, <1>9
  <1> QED
    BY <1>6, <1>7, <1>8, <1>9, Zenon

\* close gives a memory file back with its last descriptor.
LEMMA CloseFiles ==
  ASSUME FilesInv, NEW p \in Processes, NEW fd \in Fds, Close(p, fd)
  PROVE  FilesInv'
PROOF
  <1> DEFINE released == One(fd, File(p, fd))
  <1>0. FileTypes /\ FreeClosed
    BY Zenon DEF FilesInv
  <1>1. /\ descriptors' = [descriptors EXCEPT ![p][fd] = None] /\ Recount(released, << >>)
        /\ state' = state /\ workload' = workload /\ state[p] # "free"
    BY Zenon DEF Close, Running, One
  <1>2. None \in Files
    BY DEF Files
  <1>3. descriptors' \in Tables
    BY <1>0, <1>1, <1>2, Zenon DEF FileTypes, Tables
  <1>4. OnlyTable(p)
    BY <1>0, <1>1, Zenon DEF FileTypes, Tables, OnlyTable
  <1>5. Stored(p, fd, None)
    BY <1>0, <1>1, Zenon DEF FileTypes, Tables, Stored
  <1>6. Renamed(p, released, << >>)
    <2> SUFFICES ASSUME NEW o \in Ids
                 PROVE  /\ Naming(released, o) \in Nat /\ Naming(<< >>, o) \in Nat
                        /\ Cardinality(Row(p, o)') =
                             Cardinality(Row(p, o)) - Naming(released, o) + Naming(<< >>, o)
      BY Zenon DEF Renamed
    <2>1. Naming(released, o) = (IF File(p, fd) = Memory(o) THEN 1 ELSE 0) /\ Naming(<< >>, o) = 0
      BY NamingOne, NamingNothing, SMTT(60)
    <2>2. None # Memory(o)
      BY Parts, NoneType, SMTT(60) DEF Memory
    <2>3. Cardinality(Row(p, o)') = Cardinality(Row(p, o))
            - (IF File(p, fd) = Memory(o) THEN 1 ELSE 0) + (IF None = Memory(o) THEN 1 ELSE 0)
      BY <1>0, <1>1, <1>5, RowOne
    <2> HIDE DEF released
    <2> QED
      BY <2>1, <2>2, <2>3
  <1> HIDE DEF released
  <1>7. /\ used' \in [Kinds -> SUBSET Ids] /\ references' \in [Ids -> Int]
        /\ AllLive' /\ Counted'
    <2>1. Copied(p)
      BY <1>5, Zenon DEF File, Stored, Copied
    <2> QED
      BY <1>1, <1>3, <1>4, <1>6, <2>1, RecountStep, Zenon
  <1>8. Ids' = Ids /\ Fds' = Fds /\ Tables' = Tables
    BY <1>1 DEF Ids, Fds, Files, Tables, None, Descriptor
  <1>9. FreeClosed'
    BY <1>0, <1>1, <1>4, <1>8 DEF FreeClosed, File, None, OnlyTable
  <1> QED
    BY <1>0, <1>1, <1>3, <1>7, <1>8, <1>9, Zenon DEF FilesInv, FileTypes

\* dup and dup2, which closes the new number first.
LEMMA DuplicateFiles ==
  ASSUME FilesInv, NEW p \in Processes, NEW old \in Fds, NEW new \in Fds, Duplicate(p, old, new)
  PROVE  FilesInv'
PROOF
  <1> DEFINE released == One(new, File(p, new))
             retained == One(old, File(p, old))
  <1>0. FileTypes /\ FreeClosed
    BY Zenon DEF FilesInv
  <1>1. /\ descriptors' = [descriptors EXCEPT ![p][new] = File(p, old)]
        /\ Recount(released, retained)
        /\ state' = state /\ workload' = workload /\ state[p] # "free"
    BY Zenon DEF Duplicate, Running, One
  <1>2. File(p, old) \in Files
    BY <1>0, Zenon DEF FileTypes, Tables, File
  <1>3. descriptors' \in Tables
    BY <1>0, <1>1, <1>2, Zenon DEF FileTypes, Tables
  <1>4. OnlyTable(p)
    BY <1>0, <1>1, Zenon DEF FileTypes, Tables, OnlyTable
  <1>5. Stored(p, new, File(p, old))
    BY <1>0, <1>1, Zenon DEF FileTypes, Tables, Stored
  <1>6. Renamed(p, released, retained)
    <2> SUFFICES ASSUME NEW o \in Ids
                 PROVE  /\ Naming(released, o) \in Nat /\ Naming(retained, o) \in Nat
                        /\ Cardinality(Row(p, o)') =
                             Cardinality(Row(p, o)) - Naming(released, o) + Naming(retained, o)
      BY Zenon DEF Renamed
    <2>1. /\ Naming(released, o) = IF File(p, new) = Memory(o) THEN 1 ELSE 0
          /\ Naming(retained, o) = IF File(p, old) = Memory(o) THEN 1 ELSE 0
      BY NamingOne
    <2>2. Cardinality(Row(p, o)') = Cardinality(Row(p, o))
            - (IF File(p, new) = Memory(o) THEN 1 ELSE 0)
            + (IF File(p, old) = Memory(o) THEN 1 ELSE 0)
      BY <1>0, <1>1, <1>5, RowOne
    <2> HIDE DEF released, retained
    <2> QED
      BY <2>1, <2>2
  <1> HIDE DEF released, retained
  <1>7. /\ used' \in [Kinds -> SUBSET Ids] /\ references' \in [Ids -> Int]
        /\ AllLive' /\ Counted'
    <2>1. Copied(p)
      BY <1>5, Zenon DEF File, Stored, Copied
    <2> QED
      BY <1>1, <1>3, <1>4, <1>6, <2>1, RecountStep, Zenon
  <1>8. Ids' = Ids /\ Fds' = Fds /\ Tables' = Tables
    BY <1>1 DEF Ids, Fds, Files, Tables, None, Descriptor
  <1>9. FreeClosed'
    BY <1>0, <1>1, <1>4, <1>8 DEF FreeClosed, File, None, OnlyTable
  <1> QED
    BY <1>0, <1>1, <1>3, <1>7, <1>8, <1>9, Zenon DEF FilesInv, FileTypes

\* A child inherits the descriptors and counts them.
LEMMA CloneFiles ==
  ASSUME FilesInv, NEW p \in Processes, NEW c \in Processes, Clone(p, c)
  PROVE  FilesInv'
PROOF
  <1>0. FileTypes /\ FreeClosed
    BY Zenon DEF FilesInv
  <1>1. /\ descriptors' = [descriptors EXCEPT ![c] = descriptors[p]]
        /\ Recount(<< >>, descriptors[p])
        /\ state' = [state EXCEPT ![c] = "running"]
        /\ workload' = workload /\ state[c] = "free" /\ p # c
    BY Zenon DEF Clone, Running
  <1>3. descriptors' \in Tables
    BY <1>0, <1>1, Zenon DEF FileTypes, Tables
  <1>4. OnlyTable(c)
    BY <1>0, <1>1, Zenon DEF FileTypes, Tables, OnlyTable
  <1>5. descriptors'[c] = descriptors[p]
    BY <1>0, <1>1, Zenon DEF FileTypes, Tables
  <1>8. Ids' = Ids /\ Fds' = Fds /\ Tables' = Tables
    BY <1>1 DEF Ids, Fds, Files, Tables, None, Descriptor
  <1>6. Renamed(c, << >>, descriptors[p])
    <2> SUFFICES ASSUME NEW o \in Ids
                 PROVE  /\ Naming(<< >>, o) \in Nat /\ Naming(descriptors[p], o) \in Nat
                        /\ Cardinality(Row(c, o)') =
                             Cardinality(Row(c, o)) - Naming(<< >>, o) + Naming(descriptors[p], o)
      BY Zenon DEF Renamed
    <2>1. Naming(<< >>, o) = 0
      BY NamingNothing, Zenon
    <2>2. Naming(descriptors[p], o) = Cardinality(Row(p, o)) /\ Naming(descriptors[p], o) \in Nat
      BY <1>0, NamingRow, Zenon
    <2>3. None # Memory(o)
      BY Parts, NoneType DEF Memory
    <2>4. Row(c, o) = {}
      BY <2>3, <1>0, <1>1, Zenon DEF FreeClosed, Row
    <2>5. Row(c, o)' = Row(p, o)
      BY <1>5, <1>8, Zenon DEF Row, File, Memory, Descriptor
    <2>6. Cardinality(Row(c, o)) = 0
      BY <2>4, FS_EmptySet, Zenon
    <2>7. Cardinality(Row(c, o)') = Cardinality(Row(p, o))
      BY <2>5, Zenon
    <2> QED
      BY <2>1, <2>2, <2>6, <2>7
  <1>7. /\ used' \in [Kinds -> SUBSET Ids] /\ references' \in [Ids -> Int]
        /\ AllLive' /\ Counted'
    <2>1. Copied(c)
      BY <1>5, Zenon DEF File, Stored, Copied
    <2> QED
      BY <1>1, <1>3, <1>4, <1>6, <2>1, RecountStep, Zenon
  <1>9. FreeClosed'
    <2>1. \A q \in Processes : state'[q] = "free" => q # c /\ state[q] = "free"
      BY <1>0, <1>1, Zenon DEF FileTypes
    <2> QED
      BY <2>1, <1>0, <1>4, <1>8, SMTT(60) DEF FreeClosed, File, None, OnlyTable
  <1>10. state' \in [Processes -> {"free", "running", "zombie"}]
    BY <1>0, <1>1, Zenon DEF FileTypes
  <1> QED
    BY <1>0, <1>1, <1>3, <1>7, <1>8, <1>9, <1>10, Zenon DEF FilesInv, FileTypes

\* reset_process_slot closes all descriptors.
LEMMA ResetFiles ==
  ASSUME FilesInv, NEW p \in Processes, Reset(p)
  PROVE  FilesInv'
PROOF
  <1>0. FileTypes /\ FreeClosed
    BY Zenon DEF FilesInv
  <1>1. /\ descriptors' = [descriptors EXCEPT ![p] = [fd \in Fds |-> None]]
        /\ Recount(descriptors[p], << >>)
        /\ state' = [state EXCEPT ![p] = "free"]
        /\ workload' = workload
    BY Zenon DEF Reset
  <1>2. None \in Files
    BY DEF Files
  <1>3. descriptors' \in Tables
    BY <1>0, <1>1, <1>2, Zenon DEF FileTypes, Tables
  <1>4. OnlyTable(p)
    BY <1>0, <1>1, Zenon DEF FileTypes, Tables, OnlyTable
  <1>5. \A x \in Fds : descriptors'[p][x] = None
    BY <1>0, <1>1, Zenon DEF FileTypes, Tables
  <1>8. Ids' = Ids /\ Fds' = Fds /\ Tables' = Tables
    BY <1>1 DEF Ids, Fds, Files, Tables, None, Descriptor
  <1>6. Renamed(p, descriptors[p], << >>)
    <2> SUFFICES ASSUME NEW o \in Ids
                 PROVE  /\ Naming(descriptors[p], o) \in Nat /\ Naming(<< >>, o) \in Nat
                        /\ Cardinality(Row(p, o)') =
                             Cardinality(Row(p, o)) - Naming(descriptors[p], o) + Naming(<< >>, o)
      BY Zenon DEF Renamed
    <2>1. Naming(<< >>, o) = 0
      BY NamingNothing, Zenon
    <2>2. Naming(descriptors[p], o) = Cardinality(Row(p, o)) /\ Naming(descriptors[p], o) \in Nat
      BY <1>0, NamingRow, Zenon
    <2>3. None # Memory(o)
      BY Parts, NoneType DEF Memory
    <2>4. Row(p, o)' = {x \in Fds : descriptors'[p][x] = Memory(o)}
      BY <1>8, Zenon DEF Row, File, Memory, Descriptor
    <2>5. Row(p, o)' = {}
      BY <2>3, <2>4, <1>5, Zenon
    <2>6. Cardinality(Row(p, o)') = 0
      BY <2>5, FS_EmptySet, Zenon
    <2> QED
      BY <2>1, <2>2, <2>6
  <1>7. /\ used' \in [Kinds -> SUBSET Ids] /\ references' \in [Ids -> Int]
        /\ AllLive' /\ Counted'
    BY <1>1, <1>3, <1>4, <1>5, <1>6, RecountStep, Zenon DEF Copied
  <1>9. FreeClosed'
    <2>1. \A q \in Processes : state'[q] = "free" => q = p \/ state[q] = "free"
      BY <1>0, <1>1, Zenon DEF FileTypes
    <2> QED
      BY <2>1, <1>0, <1>4, <1>5, <1>8 DEF FreeClosed, File, None, OnlyTable
  <1>10. state' \in [Processes -> {"free", "running", "zombie"}]
    BY <1>0, <1>1, Zenon DEF FileTypes
  <1> QED
    BY <1>0, <1>1, <1>3, <1>7, <1>8, <1>9, <1>10, Zenon DEF FilesInv, FileTypes

-----------------------------------------------------------------------------
(* New descriptors *)

\* A nonempty set of numbers has a minimum.
LEMMA MinNatural ==
  ASSUME NEW S, S \subseteq Nat, S # {}
  PROVE  Min(S) \in S
PROOF
  <1>1. \E x \in S : \A y \in S : x <= y
    BY LeastNatural, Zenon
  <1> QED
    BY <1>1, Zenon DEF Min

\* The allocators return objects that are not in use.
LEMMA Allocated ==
  ASSUME FileTypes, NEW kind \in Kinds, NEW o \in allocate(kind)
  PROVE  o \in Ids /\ o \notin used[kind]
PROOF
  <1>1. used[kind] \subseteq Ids /\ Ids \subseteq Nat
    BY FiniteRows, Zenon DEF FileTypes
  <1>2. used[kind] # Ids /\ o = Min(Ids \ used[kind])
    BY Zenon DEF allocate
  <1>3. Ids \ used[kind] # {} /\ Ids \ used[kind] \subseteq Nat
    BY <1>1, <1>2, Zenon
  <1>4. Min(Ids \ used[kind]) \in Ids \ used[kind]
    BY <1>3, MinNatural, Zenon
  <1> QED
    BY <1>2, <1>4, Zenon

\* A step that only adds objects and descriptors of objects in use.
LEMMA AddedLive ==
  ASSUME FilesInv, workload' = workload, NEW p \in Processes, OnlyTable(p),
         \A kind \in Kinds : used[kind] \subseteq used'[kind],
         \A x \in Fds : \/ descriptors'[p][x] = descriptors[p][x]
                        \/ descriptors'[p][x].object \in used'[KindOf(descriptors'[p][x])]
  PROVE  AllLive'
PROOF
  <1>0. FileTypes /\ AllLive
    BY Zenon DEF FilesInv
  <1>1. Fds' = Fds
    BY Zenon DEF Fds
  <1> SUFFICES ASSUME NEW q \in Processes, NEW x \in Fds, File(q, x)' # None
               PROVE  File(q, x)'.object \in used'[KindOf(File(q, x)')]
    BY <1>1, Zenon DEF AllLive, Live, KindOf, None
  <1>2. CASE File(q, x)' = File(q, x)
    <2> DEFINE f == File(q, x)
    <2>1. f \in Files /\ f # None
      BY <1>0, <1>2, Zenon DEF FileTypes, Tables, File
    <2>2. KindOf(f) \in Kinds /\ f.object \in used[KindOf(f)]
      BY <2>1, <1>0, FileKind, Zenon DEF AllLive, Live
    <2> HIDE DEF f
    <2>3. f.object \in used'[KindOf(f)]
      BY <2>2, Zenon
    <2> QED
      BY <2>3, <1>2, Zenon DEF f
  <1>3. CASE File(q, x)' # File(q, x)
    <2>1. q = p
      BY <1>3, Zenon DEF OnlyTable, File
    <2> QED
      BY <2>1, <1>3, Zenon DEF File
  <1> QED
    BY <1>2, <1>3, Zenon

\* eventfd, timerfd_create, epoll_create and memfd_create.
LEMMA CreateOneFiles ==
  ASSUME FilesInv, NEW p \in Processes, NEW kind \in {"timer", "epoll", "memfd", "event"},
         NEW value, NEW semaphore, CreateOne(p, kind, value, semaphore)
  PROVE  FilesInv'
PROOF
  <1>0. FileTypes /\ FreeClosed /\ Counted
    BY Zenon DEF FilesInv
  <1> DEFINE fd == Min(FreeFds(p))
  <1>1. PICK o \in allocate(kind) :
          /\ used' = [used EXCEPT ![kind] = @ \cup {o}]
          /\ descriptors' = [descriptors EXCEPT ![p][fd] = Descriptor(kind, o, 0)]
          /\ references' = IF kind # "memfd" THEN references ELSE [references EXCEPT ![o] = 1]
    BY Zenon DEF CreateOne
  <1>2. state' = state /\ workload' = workload /\ state[p] # "free" /\ FreeFds(p) # {}
    BY Zenon DEF CreateOne, Running
  <1> DEFINE f == Descriptor(kind, o, 0)
  <1>3. kind \in Kinds /\ kind \in Simple
    BY Zenon DEF Kinds, Simple
  <1>4. o \in Ids /\ o \notin used[kind]
    BY <1>0, <1>3, Allocated, Zenon
  <1>5. fd \in Fds /\ File(p, fd) = None
    <2>1. FreeFds(p) \subseteq Nat
      BY <1>0, FiniteRows, Zenon DEF FileTypes, FreeFds
    <2>2. fd \in FreeFds(p)
      BY <2>1, <1>2, MinNatural, Zenon
    <2> QED
      BY <2>2, Zenon DEF FreeFds, File
  <1>6. f \in Files
    BY <1>3, <1>4 DEF Files
  <1>7. f.type = kind /\ f.object = o /\ KindOf(f) = kind
    <2>1. f.type = kind /\ f.object = o
      BY Zenon DEF Descriptor
    <2> HIDE DEF f
    <2> QED
      BY <2>1, Zenon DEF KindOf
  <1>8. \A x : f = Memory(x) <=> kind = "memfd" /\ x = o
    BY Zenon DEF Memory, Descriptor
  <1> HIDE DEF fd
  <1>9. descriptors' \in Tables /\ OnlyTable(p) /\ Stored(p, fd, f)
    <2> HIDE DEF f
    <2>1. descriptors' = [descriptors EXCEPT ![p][fd] = f]
      BY <1>1, Zenon DEF f
    <2> QED
      BY <2>1, <1>0, <1>5, <1>6, Zenon DEF FileTypes, Tables, OnlyTable, Stored
  <1> HIDE DEF f
  <1>10. Ids' = Ids /\ Fds' = Fds /\ Tables' = Tables
    BY <1>2 DEF Ids, Fds, Files, Tables, None, Descriptor
  <1>11. /\ used' \in [Kinds -> SUBSET Ids] /\ used'[kind] = used[kind] \cup {o}
         /\ \A k \in Kinds : k # kind => used'[k] = used[k]
    BY <1>0, <1>1, <1>3, <1>4, Zenon DEF FileTypes
  <1>12. references' \in [Ids -> Int]
    BY <1>0, <1>1, <1>4 DEF FileTypes
  <1>13. AllLive'
    <2>1. \A k \in Kinds : used[k] \subseteq used'[k]
      BY <1>11, Zenon
    <2>2. \A x \in Fds : \/ descriptors'[p][x] = descriptors[p][x]
                         \/ descriptors'[p][x].object \in used'[KindOf(descriptors'[p][x])]
      BY <1>7, <1>9, <1>11, Zenon DEF Stored
    <2> QED
      BY <2>1, <2>2, <1>2, <1>9, AddedLive, Zenon
  <1>14. ASSUME NEW x \in Ids
         PROVE  references'[x] = references[x] - Cardinality(Row(p, x)) + Cardinality(Row(p, x)')
    <2>1. Cardinality(Row(p, x)') = Cardinality(Row(p, x))
            - (IF File(p, fd) = Memory(x) THEN 1 ELSE 0) + (IF f = Memory(x) THEN 1 ELSE 0)
      BY <1>0, <1>2, <1>5, <1>9, RowOne, SMTT(60)
    <2>2. File(p, fd) # Memory(x)
      BY <1>5, Parts, NoneType DEF Memory
    <2>3. Cardinality(Row(p, x)) \in Nat /\ references[x] \in Int
      BY <1>0, FiniteRows, Zenon DEF FileTypes
    <2>4. CASE kind = "memfd" /\ x = o
      <3>1. references[x] = 0
        <4>1. references[x] = Cardinality(Names(x)) /\ ~(references[x] > 0)
          BY <2>4, <1>0, <1>4, Zenon DEF Counted
        <4>2. Cardinality(Names(x)) \in Nat
          BY <1>0, FiniteRows, Zenon DEF FileTypes
        <4> QED BY <4>1, <4>2
      <3>2. references'[x] = 1
        BY <2>4, <1>0, <1>1, <1>4, Zenon DEF FileTypes
      <3>3. f = Memory(x)
        BY <2>4, <1>8, ZenonT(60)
      <3> QED
        BY <2>1, <2>2, <2>3, <3>1, <3>2, <3>3, SMTT(60)
    <2>5. CASE ~(kind = "memfd" /\ x = o)
      <3>1. references'[x] = references[x]
        BY <2>5, <1>0, <1>1, <1>4, Zenon DEF FileTypes
      <3>2. f # Memory(x)
        BY <2>5, <1>8, Zenon
      <3> QED
        BY <2>1, <2>2, <2>3, <3>1, <3>2, SMTT(60)
    <2> QED
      BY <2>4, <2>5, Zenon
  <1>15. \A x \in Ids : references'[x] = Cardinality(Names(x)')
    BY <1>2, <1>9, <1>14, CountsFollow, Zenon
  <1>16. \A x \in Ids : x \in used'["memfd"] <=> references'[x] > 0
    <2>0. "memfd" \in Kinds
      BY Zenon DEF Kinds
    <2>1. CASE kind = "memfd"
      BY <2>1, <1>0, <1>1, <1>4, <1>11, SMTT(60) DEF FileTypes, Counted
    <2>2. CASE kind # "memfd"
      BY <2>0, <2>2, <1>0, <1>1, <1>11, Zenon DEF Counted
    <2> QED BY <2>1, <2>2
  <1>17. Counted'
    BY <1>10, <1>15, <1>16, Zenon DEF Counted
  <1>18. FreeClosed'
    BY <1>0, <1>2, <1>9, <1>10, SMTT(60) DEF FreeClosed, File, None, OnlyTable
  <1> QED
    BY <1>0, <1>2, <1>9, <1>10, <1>11, <1>12, <1>13, <1>17, <1>18, ZenonT(60)
       DEF FilesInv, FileTypes

\* pipe and socketpair.
LEMMA CreatePairFiles ==
  ASSUME FilesInv, NEW p \in Processes, NEW kind \in {"pipe", "socket"}, CreatePair(p, kind)
  PROVE  FilesInv'
PROOF
  <1>0. FileTypes /\ FreeClosed /\ Counted
    BY Zenon DEF FilesInv
  <1> DEFINE first == Min(FreeFds(p))
             second == Min(FreeFds(p) \ {first})
             F(o) == IF kind = "pipe" THEN Descriptor("pipe_read", o, 0)
                                      ELSE Descriptor("socket", o, 0)
             S(o) == IF kind = "pipe" THEN Descriptor("pipe_write", o, 0)
                                      ELSE Descriptor("socket", o, 1)
  <1>1. PICK o \in allocate(kind) :
          /\ used' = [used EXCEPT ![kind] = @ \cup {o}]
          /\ descriptors' = [descriptors EXCEPT ![p][first] = F(o), ![p][second] = S(o)]
    BY Zenon DEF CreatePair
  <1>2. /\ state' = state /\ workload' = workload /\ references' = references
        /\ state[p] # "free" /\ Cardinality(FreeFds(p)) >= 2
    BY Zenon DEF CreatePair, Running
  <1>3. kind \in Kinds /\ kind # "memfd" /\ "memfd" \in Kinds
    BY Zenon DEF Kinds
  <1>4. o \in Ids /\ o \notin used[kind]
    BY <1>0, <1>3, Allocated, Zenon
  <1>5. /\ first \in Fds /\ second \in Fds /\ first # second
        /\ File(p, first) = None /\ File(p, second) = None
    <2>1. FreeFds(p) \subseteq Nat /\ IsFiniteSet(FreeFds(p))
      BY <1>0, FiniteRows, FS_Subset, Zenon DEF FileTypes, FreeFds
    <2>2. FreeFds(p) # {}
      <3>1. Cardinality({}) = 0
        BY FS_EmptySet, Zenon
      <3> QED
        BY <3>1, <1>2
    <2>3. first \in FreeFds(p)
      BY <2>1, <2>2, MinNatural, Zenon
    <2> HIDE DEF first
    <2>4. Cardinality(FreeFds(p) \ {first}) = Cardinality(FreeFds(p)) - 1
      BY <2>1, <2>3, FS_RemoveElement, Zenon
    <2>5. FreeFds(p) \ {first} # {} /\ FreeFds(p) \ {first} \subseteq Nat
      <3>1. Cardinality({}) = 0
        BY FS_EmptySet
      <3>2. Cardinality(FreeFds(p)) \in Nat
        BY <2>1, FS_CardinalityType, Zenon
      <3> QED
        BY <3>1, <3>2, <2>1, <2>4, <1>2, SMTT(60)
    <2>6. second \in FreeFds(p) \ {first}
      BY <2>5, MinNatural, Zenon
    <2> QED
      BY <2>3, <2>6, Zenon DEF FreeFds, File
  <1> DEFINE f == F(o)
             g == S(o)
  <1>6. f \in Files /\ g \in Files
    BY <1>4 DEF Files, Simple
  <1>7. f.object = o /\ KindOf(f) = kind /\ g.object = o /\ KindOf(g) = kind
    BY Zenon DEF Descriptor, KindOf
  <1>8. \A x : f # Memory(x) /\ g # Memory(x)
    BY Zenon DEF Memory, Descriptor
  <1> HIDE DEF first, second
  <1>9. /\ descriptors' \in Tables /\ OnlyTable(p)
        /\ \A x \in Fds : descriptors'[p][x] =
             IF x = second THEN g ELSE IF x = first THEN f ELSE descriptors[p][x]
    <2>1. descriptors' = [descriptors EXCEPT ![p][first] = f, ![p][second] = g]
      BY <1>1, Zenon
    <2> HIDE DEF f, g
    <2> QED
      BY <2>1, <1>0, <1>5, <1>6, Zenon DEF FileTypes, Tables, OnlyTable
  <1> HIDE DEF f, g, F, S
  <1>10. Ids' = Ids /\ Fds' = Fds /\ Tables' = Tables
    BY <1>2 DEF Ids, Fds, Files, Tables, None, Descriptor
  <1>11. /\ used' \in [Kinds -> SUBSET Ids] /\ used'[kind] = used[kind] \cup {o}
         /\ \A k \in Kinds : k # kind => used'[k] = used[k]
    BY <1>0, <1>1, <1>3, <1>4, Zenon DEF FileTypes
  <1>13. AllLive'
    <2>1. \A k \in Kinds : used[k] \subseteq used'[k]
      BY <1>11, Zenon
    <2>2. \A x \in Fds : \/ descriptors'[p][x] = descriptors[p][x]
                         \/ descriptors'[p][x].object \in used'[KindOf(descriptors'[p][x])]
      BY <1>7, <1>9, <1>11, ZenonT(60)
    <2> QED
      BY <2>1, <2>2, <1>2, <1>9, AddedLive, Zenon
  <1>14. ASSUME NEW x \in Ids
         PROVE  references'[x] = references[x] - Cardinality(Row(p, x)) + Cardinality(Row(p, x)')
    <2>1. None # Memory(x)
      BY Parts, NoneType, SMTT(60) DEF Memory
    <2>2. Row(p, x)' = {y \in Fds : descriptors'[p][y] = Memory(x)}
      BY <1>10, Zenon DEF Row, File, Memory, Descriptor
    <2>3. \A y \in Fds : descriptors'[p][y] = Memory(x) <=> descriptors[p][y] = Memory(x)
      BY <1>5, <1>8, <1>9, <2>1, Zenon DEF File
    <2>4. Row(p, x)' = Row(p, x)
      BY <2>2, <2>3, Zenon DEF Row, File
    <2>5. Cardinality(Row(p, x)) \in Nat /\ references[x] \in Int
      BY <1>0, FiniteRows, Zenon DEF FileTypes
    <2> QED
      BY <2>4, <2>5, <1>2
  <1>15. \A x \in Ids : references'[x] = Cardinality(Names(x)')
    BY <1>2, <1>9, <1>14, CountsFollow, Zenon
  <1>17. Counted'
    BY <1>0, <1>2, <1>3, <1>10, <1>11, <1>15, ZenonT(60) DEF Counted
  <1>18. FreeClosed'
    BY <1>0, <1>2, <1>9, <1>10 DEF FreeClosed, File, None, OnlyTable
  <1> QED
    BY <1>0, <1>2, <1>9, <1>10, <1>11, <1>13, <1>17, <1>18, ZenonT(60) DEF FilesInv, FileTypes

\* A creation that finds no descriptor keeps the object.
LEMMA CreateLeaksFiles ==
  ASSUME FilesInv, NEW p \in Processes, NEW kind \in Kinds, CreateLeaks(p, kind)
  PROVE  FilesInv'
PROOF
  <1>0. FileTypes
    BY Zenon DEF FilesInv
  <1>1. PICK o \in allocate(kind) : used' = [used EXCEPT ![kind] = @ \cup {o}]
    BY Zenon DEF CreateLeaks
  <1>2. /\ UNCHANGED <<workload, descriptors, references>> /\ state' = state
        /\ kind # "memfd" /\ "memfd" \in Kinds
    BY Zenon DEF CreateLeaks, Kinds
  <1>3. o \in Ids
    BY <1>0, Allocated, Zenon
  <1>4. /\ used' \in [Kinds -> SUBSET Ids] /\ used'["memfd"] = used["memfd"]
        /\ \A k \in Kinds : used[k] \subseteq used'[k]
    BY <1>0, <1>1, <1>2, <1>3, Zenon DEF FileTypes
  <1>5. state' \in [Processes -> {"free", "running", "zombie"}]
    BY <1>0, <1>2, Zenon DEF FileTypes
  <1> QED
    BY <1>2, <1>4, <1>5, SameDescriptors, Zenon

\* Calls that leave the tables and the use of objects alone.
LEMMA QuietFiles ==
  ASSUME FilesInv, UNCHANGED <<state, descriptors, used, references, workload>>
  PROVE  FilesInv'
PROOF
  <1>1. UNCHANGED <<workload, descriptors, references>> /\ state' = state /\ used' = used
    BY Zenon
  <1>2. /\ used' \in [Kinds -> SUBSET Ids] /\ used'["memfd"] = used["memfd"]
        /\ \A k \in Kinds : used[k] \subseteq used'[k]
        /\ state' \in [Processes -> {"free", "running", "zombie"}]
    BY <1>1, Zenon DEF FilesInv, FileTypes
  <1> QED
    BY <1>1, <1>2, SameDescriptors, Zenon

\* A program starts or ends; its descriptors stay.
LEMMA StateFiles ==
  ASSUME FilesInv, NEW p \in Processes, Load(p) \/ Exit(p)
  PROVE  FilesInv'
PROOF
  <1>0. FileTypes
    BY Zenon DEF FilesInv
  <1>1. UNCHANGED <<workload, descriptors, references>> /\ used' = used
    BY Zenon DEF Load, Exit, objects
  <1>2. \E s \in {"running", "zombie"} : state' = [state EXCEPT ![p] = s]
    BY Zenon DEF Load, Exit
  <1>3. /\ state' \in [Processes -> {"free", "running", "zombie"}]
        /\ \A q \in Processes : state'[q] = "free" => state[q] = "free"
    BY <1>0, <1>2, Zenon DEF FileTypes
  <1>4. /\ used' \in [Kinds -> SUBSET Ids] /\ used'["memfd"] = used["memfd"]
        /\ \A k \in Kinds : used[k] \subseteq used'[k]
    BY <1>0, <1>1, Zenon DEF FileTypes
  <1> QED
    BY <1>1, <1>3, <1>4, SameDescriptors, Zenon

\* Every action keeps the invariant of the descriptors.
LEMMA FilesStep ==
  ASSUME FilesInv, [Next]_vars
  PROVE  FilesInv'
PROOF
  <1>1. ASSUME NEW p \in Processes, Creation(p) PROVE FilesInv'
    BY <1>1, CreatePairFiles, CreateOneFiles, CreateLeaksFiles, Zenon DEF Creation
  <1>2. ASSUME NEW p \in Processes, Sharing(p) PROVE FilesInv'
    BY <1>2, CloseFiles, DuplicateFiles, CloneFiles, StateFiles, ResetFiles, Zenon DEF Sharing
  <1>3. ASSUME NEW p \in Processes, NEW fd \in Fds, Transfer(p, fd) PROVE FilesInv'
    <2>1. UNCHANGED <<state, descriptors, used, references, workload>>
      BY <1>3, Zenon DEF Transfer, QueueWrite, QueueRead, EventWrite, EventRead, SetTime,
        SetTimeOverflow, TimerRead, EpollCtl
    <2> QED
      BY <2>1, QuietFiles, Zenon
  <1>4. CASE Tick \/ UNCHANGED vars
    <2>1. UNCHANGED <<state, descriptors, used, references, workload>>
      BY <1>4, Zenon DEF Tick, vars, objects
    <2> QED
      BY <2>1, QuietFiles, Zenon
  <1> QED
    BY <1>1, <1>2, <1>3, <1>4, Zenon DEF Next

\* No descriptor is open at the start.
LEMMA FilesInit == Init => FilesInv
PROOF
  <1> SUFFICES ASSUME Init PROVE FilesInv
    BY Zenon
  <1>1. FileTypes
    BY DEF Init, FileTypes, Tables, Files
  <1>2. FreeClosed /\ AllLive
    BY Zenon DEF Init, FreeClosed, AllLive, Live, File
  <1>3. Counted
    <2> SUFFICES ASSUME NEW o \in Ids
                 PROVE  /\ references[o] = Cardinality(Names(o))
                        /\ o \in used["memfd"] <=> references[o] > 0
      BY Zenon DEF Counted
    <2>1. None # Memory(o)
      BY Parts, NoneType DEF Memory
    <2>2. Names(o) = {}
      BY <2>1, Zenon DEF Init, Names, File
    <2>3. Cardinality(Names(o)) = 0
      BY <2>2, FS_EmptySet, Zenon
    <2> QED
      BY <2>3 DEF Init, Kinds
  <1> QED
    BY <1>1, <1>2, <1>3, Zenon DEF FilesInv

\* Whatever processes open, duplicate, inherit and close, no descriptor names
\* an object that was given back: a memory file counts exactly the descriptors
\* that name it, in all tables.
THEOREM DescriptorsAreValid == Spec => []DescriptorsValid
PROOF
  <1>1. FilesInv /\ [Next]_vars => FilesInv'
    BY FilesStep, Zenon
  <1> QED
    BY <1>1, FilesInit, FilesInvValid, PTL DEF Spec

-----------------------------------------------------------------------------
(* Pipes and socket pairs *)

Places == 0..(BufferSize - 1)
Queues == [data : [Places -> Nat], read_offset : Places, write_offset : Places,
           count : 0..BufferSize]

QueueTypes ==
  /\ queue \in [QueueIds -> Queues]
  /\ sent \in [QueueIds -> Nat]
  /\ received \in [QueueIds -> Nat]

\* Nothing was ever sent through an object that is not in use.
Untouched ==
  \A q \in QueueIds : q[2] \notin used[q[1]] => sent[q] = 0 /\ received[q] = 0 /\ q \notin skipped

\* Ring r holds the bytes after the got first of all that were put.
Ring(r, got, put) ==
  /\ got + r.count = put
  /\ r.write_offset = (r.read_offset + r.count) % BufferSize
  /\ \A k \in 1..r.count : r.data[(r.read_offset + k - 1) % BufferSize] = got + k

AllRings == \A q \in QueueIds : q \notin skipped => Ring(queue[q], received[q], sent[q])

QueueInv == QueueTypes /\ Untouched /\ AllRings

\* The invariant makes the rings exact.
LEMMA QueueInvExact == QueueInv => QueueExact
PROOF
  BY Zenon DEF QueueInv, AllRings, Ring, QueueExact

\* A write of k bytes at the write offset.
Written(r, k, put) ==
  [i \in Places |->
     IF 1 + ((i - r.write_offset) % BufferSize) <= k
     THEN put + (1 + ((i - r.write_offset) % BufferSize)) ELSE r.data[i]]

\* A ring's bytes after a write.
LEMMA WrittenType ==
  ASSUME NEW r \in Queues, NEW k \in Nat, NEW put \in Nat
  PROVE  Written(r, k, put) \in [Places -> Nat]
PROOF
  <1> SUFFICES ASSUME NEW i \in Places
               PROVE  (IF 1 + ((i - r.write_offset) % BufferSize) <= k
                       THEN put + (1 + ((i - r.write_offset) % BufferSize)) ELSE r.data[i]) \in Nat
    BY Zenon DEF Written
  <1>1. BufferSize \in Nat \ {0} /\ i - r.write_offset \in Int /\ r.data[i] \in Nat
    BY SizesAssumption, SMTT(60) DEF Places, Queues
  <1> DEFINE d == (i - r.write_offset) % BufferSize
  <1>2. d \in 0..(BufferSize - 1)
    BY <1>1, IntDivision, Zenon
  <1> HIDE DEF d
  <1>3. put + (1 + d) \in Nat
    BY <1>1, <1>2
  <1> QED
    BY <1>1, <1>3, Zenon DEF d

\* queue_write_user puts k bytes behind those that are waiting.
LEMMA WrittenRing ==
  ASSUME NEW r \in Queues, NEW w \in Queues, NEW got \in Nat, NEW put \in Nat,
         NEW k \in 0..(BufferSize - r.count), Ring(r, got, put),
         w.data = Written(r, k, put), w.read_offset = r.read_offset,
         w.write_offset = (r.write_offset + k) % BufferSize, w.count = r.count + k
  PROVE  Ring(w, got, put + k)
PROOF
  <1> DEFINE n == BufferSize
             c == r.count
             o == r.read_offset
  <1>1. n \in Nat \ {0} /\ c \in 0..n /\ o \in 0..(n - 1) /\ k \in 0..(n - c)
    BY SizesAssumption, Zenon DEF Queues, Places
  <1>2. r.write_offset = (o + c) % n /\ got + c = put
    BY Zenon DEF Ring
  <1> HIDE DEF n, c, o
  <1>3. (((o + c) % n) + k) % n = (o + (c + k)) % n
    <2>1. o + c \in Nat /\ k \in Nat /\ (o + c) + k = o + (c + k)
      BY <1>1
    <2>2. (((o + c) % n) + k) % n = ((o + c) + k) % n
      BY <2>1, <1>1, ModAdd, Zenon
    <2> QED
      BY <2>1, <2>2, Zenon
  <1>4. w.write_offset = (w.read_offset + w.count) % n
    BY <1>2, <1>3, Zenon DEF n, c, o
  <1>5. got + w.count = put + k
    <2>1. w.count = c + k
      BY Zenon DEF c
    <2>2. got + (c + k) = put + k
      BY <1>1, <1>2
    <2> QED
      BY <2>1, <2>2, Zenon
  <1>6. ASSUME NEW j \in 1..(c + k)
        PROVE  Written(r, k, put)[(o + j - 1) % n] = got + j
    <2> DEFINE i == (o + j - 1) % n
               d == (i - r.write_offset) % n
    <2>1. o + j - 1 \in Nat
      BY <1>1
    <2>2. i \in Places
      BY <2>1, <1>1, Division, Zenon DEF Places, n
    <2>3. Written(r, k, put)[i] = IF 1 + d <= k THEN put + (1 + d) ELSE r.data[i]
      BY <2>2, Zenon DEF Written, n
    <2>4. CASE j <= c
      <3> DEFINE e == j - 1 - c + n
      <3>1. e \in 0..(n - 1) /\ o + c \in Nat /\ (o + c) + e \in Nat
              /\ (o + c) + e = (o + j - 1) + n
        BY <2>4, <1>1
      <3>2. ((o + c) + e) % n = i
        BY <3>1, <2>1, <1>1, ModWrap, Zenon
      <3>3. d = e
        <4> HIDE DEF e
        <4>1. ((((o + c) + e) % n) - ((o + c) % n)) % n = e
          BY <3>1, <1>1, RingDistance, Zenon
        <4> QED
          BY <4>1, <3>2, <1>2, Zenon
      <3>4. ~(1 + d <= k)
        BY <3>3, <2>4, <1>1
      <3>5. r.data[i] = got + j
        <4>1. j \in 1..r.count
          BY <2>4, <1>1 DEF c
        <4> QED
          BY <4>1, Zenon DEF Ring, o, n
      <3> QED
        BY <2>3, <3>4, <3>5, Zenon
    <2>5. CASE ~(j <= c)
      <3> DEFINE e == j - c - 1
      <3>1. e \in 0..(n - 1) /\ o + c \in Nat /\ (o + c) + e = o + j - 1
        BY <2>5, <1>1
      <3>2. d = e
        <4> HIDE DEF e
        <4>1. ((((o + c) + e) % n) - ((o + c) % n)) % n = e
          BY <3>1, <1>1, RingDistance, Zenon
        <4> QED
          BY <4>1, <3>1, <1>2, Zenon
      <3>3. 1 + d <= k /\ put + (1 + d) = got + j
        <4> HIDE DEF d
        <4> QED
          BY <3>2, <2>5, <1>1, <1>2
      <3> QED
        BY <2>3, <3>3, Zenon
    <2> QED
      BY <2>4, <2>5, Zenon
  <1> QED
    BY <1>4, <1>5, <1>6, Zenon DEF Ring, n, c, o

\* queue_read_user takes the m bytes at the read offset.
LEMMA ReadRing ==
  ASSUME NEW r \in Queues, NEW w \in Queues, NEW got \in Nat, NEW put \in Nat,
         NEW m \in 0..r.count, Ring(r, got, put),
         w.data = r.data, w.write_offset = r.write_offset,
         w.read_offset = (r.read_offset + m) % BufferSize, w.count = r.count - m
  PROVE  Ring(w, got + m, put)
PROOF
  <1> DEFINE n == BufferSize
             c == r.count
             o == r.read_offset
  <1>1. n \in Nat \ {0} /\ c \in 0..n /\ o \in 0..(n - 1) /\ m \in 0..c
    BY SizesAssumption, Zenon DEF Queues, Places
  <1>2. r.write_offset = (o + c) % n /\ got + c = put
    BY Zenon DEF Ring
  <1> HIDE DEF n, c, o
  <1>3. (((o + m) % n) + (c - m)) % n = (o + c) % n
    <2>1. o + m \in Nat /\ c - m \in Nat /\ (o + m) + (c - m) = o + c
      BY <1>1
    <2>2. (((o + m) % n) + (c - m)) % n = ((o + m) + (c - m)) % n
      BY <2>1, <1>1, ModAdd, Zenon
    <2> QED
      BY <2>1, <2>2, Zenon
  <1>4. w.write_offset = (w.read_offset + w.count) % n
    BY <1>2, <1>3, Zenon DEF n, c, o
  <1>5. (got + m) + w.count = put
    BY <1>1, <1>2 DEF c
  <1>6. ASSUME NEW j \in 1..(c - m)
        PROVE  r.data[(((o + m) % n) + j - 1) % n] = (got + m) + j
    <2> DEFINE x == (o + m) % n
    <2>1. o + m \in Nat /\ j - 1 \in Nat /\ (o + m) + (j - 1) = o + (m + j) - 1
      BY <1>1
    <2>2. x \in 0..(n - 1)
      BY <2>1, <1>1, Division, Zenon
    <2>3. (x + (j - 1)) % n = (o + (m + j) - 1) % n
      <3>1. (x + (j - 1)) % n = ((o + m) + (j - 1)) % n
        BY <2>1, <1>1, ModAdd, Zenon
      <3> QED
        BY <3>1, <2>1, Zenon
    <2> HIDE DEF x
    <2>4. x + (j - 1) = x + j - 1
      BY <2>2, Zenon
    <2>5. m + j \in 1..r.count
      BY <1>1 DEF c
    <2>6. r.data[(o + (m + j) - 1) % n] = got + (m + j)
      BY <2>5, Zenon DEF Ring, o, n
    <2>7. got + (m + j) = (got + m) + j
      BY <1>1
    <2> QED
      BY <2>3, <2>4, <2>6, <2>7, Zenon DEF x
  <1> QED
    BY <1>4, <1>5, <1>6, Zenon DEF Ring, n, c, o

\* The queue behind a descriptor belongs to an object in use.
LEMMA QueueInUse ==
  ASSUME FilesInv, NEW p \in Processes, NEW fd \in Fds,
         NEW q \in descriptor_read_queue(File(p, fd)) \cup descriptor_write_queue(File(p, fd))
  PROVE  q \in QueueIds /\ q[2] \in used[q[1]]
PROOF
  <1> DEFINE f == File(p, fd)
  <1>1. f \in Files /\ Live(f)
    BY Zenon DEF FilesInv, FileTypes, Tables, AllLive, File
  <1> HIDE DEF f
  <1>2. f # None
    BY NoneType, Zenon DEF descriptor_read_queue, descriptor_write_queue, f
  <1>3. f.object \in Ids /\ f.object \in used[KindOf(f)]
    BY <1>1, <1>2, FileKind, Zenon DEF Live
  <1>4. CASE f.type = "socket"
    <2>1. f.endpoint \in {0, 1} /\ KindOf(f) = "socket"
      BY <1>1, <1>2, <1>4, FileParts, Zenon DEF KindOf, Simple
    <2>2. \E e \in {0, 1} : q = <<"socket", f.object, e>>
      BY <1>4, <2>1 DEF descriptor_read_queue, descriptor_write_queue, f
    <2> QED
      BY <1>3, <2>1, <2>2 DEF QueueIds
  <1>5. CASE f.type \in {"pipe_read", "pipe_write"}
    <2>1. KindOf(f) = "pipe" /\ q = <<"pipe", f.object, 0>>
      BY <1>5, Zenon DEF descriptor_read_queue, descriptor_write_queue, KindOf, f
    <2> QED
      BY <1>3, <2>1 DEF QueueIds
  <1> QED
    BY <1>4, <1>5, Zenon DEF descriptor_read_queue, descriptor_write_queue, f

\* A transfer changes one queue, of an object in use.
LEMMA TransferQueues ==
  ASSUME QueueInv, NEW q \in QueueIds, q[2] \in used[q[1]],
         workload' = workload, used' = used,
         NEW w \in Queues, NEW put \in Nat, NEW got \in Nat,
         queue' = [queue EXCEPT ![q] = w],
         sent' = [sent EXCEPT ![q] = put], received' = [received EXCEPT ![q] = got],
         skipped' = skipped \/ skipped' = skipped \cup {q},
         q \notin skipped' => Ring(w, got, put)
  PROVE  QueueInv'
PROOF
  <1>0. QueueTypes /\ Untouched /\ AllRings
    BY Zenon DEF QueueInv
  <1>1. QueueIds' = QueueIds /\ Queues' = Queues
    BY DEF QueueIds, Ids, Queues, Places
  <1>2. QueueTypes'
    BY <1>0, <1>1, Zenon DEF QueueTypes
  <1>3. \A x \in QueueIds : x # q => /\ queue'[x] = queue[x] /\ sent'[x] = sent[x]
                                     /\ received'[x] = received[x]
                                     /\ x \in skipped' <=> x \in skipped
    BY <1>0, Zenon DEF QueueTypes
  <1>4. queue'[q] = w /\ sent'[q] = put /\ received'[q] = got
    BY <1>0, Zenon DEF QueueTypes
  <1>5. Untouched'
    BY <1>0, <1>1, <1>3, Zenon DEF Untouched
  <1>6. AllRings'
    <2> SUFFICES ASSUME NEW x \in QueueIds, x \notin skipped'
                 PROVE  Ring(queue'[x], received'[x], sent'[x])
      BY <1>1, Zenon DEF AllRings, Ring
    <2>1. CASE x = q
      BY <2>1, <1>4, Zenon
    <2>2. CASE x # q
      BY <2>2, <1>0, <1>3, Zenon DEF AllRings
    <2> QED
      BY <2>1, <2>2, Zenon
  <1> QED
    BY <1>2, <1>5, <1>6, Zenon DEF QueueInv

\* A ring after a write and after a read.
After(r, d, x, y) == [r EXCEPT !.data = d, !.write_offset = x, !.count = y]
Rest(r, o, y) == [r EXCEPT !.read_offset = o, !.count = y]

\* A ring after a write.
LEMMA AfterFields ==
  ASSUME NEW r \in Queues, NEW d \in [Places -> Nat], NEW x \in Places, NEW y \in 0..BufferSize
  PROVE  /\ After(r, d, x, y) \in Queues
         /\ After(r, d, x, y).data = d /\ After(r, d, x, y).read_offset = r.read_offset
         /\ After(r, d, x, y).write_offset = x /\ After(r, d, x, y).count = y
PROOF
  BY Zenon DEF Queues, After

\* A ring after a read.
LEMMA RestFields ==
  ASSUME NEW r \in Queues, NEW o \in Places, NEW y \in 0..BufferSize
  PROVE  /\ Rest(r, o, y) \in Queues
         /\ Rest(r, o, y).data = r.data /\ Rest(r, o, y).read_offset = o
         /\ Rest(r, o, y).write_offset = r.write_offset /\ Rest(r, o, y).count = y
PROOF
  BY Zenon DEF Queues, Rest

\* A write to a pipe or socket, in chunks, to the limit or to a fault.
LEMMA QueueWriteStep ==
  ASSUME FilesInv, QueueInv, NEW p \in Processes, NEW fd \in Fds, NEW n \in 1..BufferSize,
         QueueWrite(p, fd, n)
  PROVE  QueueInv'
PROOF
  <1>0. QueueTypes /\ AllRings
    BY Zenon DEF QueueInv
  <1>1. workload' = workload /\ used' = used /\ received' = received /\ skipped' = skipped
    BY Zenon DEF QueueWrite
  <1>2. PICK q \in descriptor_write_queue(File(p, fd)) :
          /\ Count(q) < BufferSize
          /\ \E k \in {Accepted(q, n)} \cup Faults(Accepted(q, n)) :
               /\ queue' = [queue EXCEPT
                    ![q].data = [i \in DOMAIN @ |->
                       LET place == 1 + ((i - queue[q].write_offset) % BufferSize)
                       IN IF place <= k THEN sent[q] + place ELSE @[i]],
                    ![q].write_offset = (@ + k) % BufferSize,
                    ![q].count = @ + k]
               /\ sent' = [sent EXCEPT ![q] = @ + k]
    BY ZenonT(60) DEF QueueWrite
  <1> DEFINE r == queue[q]
             put == sent[q]
  <1>3. q \in QueueIds /\ q[2] \in used[q[1]]
    BY QueueInUse, Zenon
  <1>4. r \in Queues /\ put \in Nat /\ received[q] \in Nat
    BY <1>0, <1>3, Zenon DEF QueueTypes
  <1>5. PICK k \in {Accepted(q, n)} \cup Faults(Accepted(q, n)) :
          /\ queue' = [queue EXCEPT
               ![q].data = [i \in DOMAIN @ |->
                  LET place == 1 + ((i - queue[q].write_offset) % BufferSize)
                  IN IF place <= k THEN sent[q] + place ELSE @[i]],
               ![q].write_offset = (@ + k) % BufferSize,
               ![q].count = @ + k]
          /\ sent' = [sent EXCEPT ![q] = @ + k]
    BY <1>2, Zenon
  <1>6. k \in 0..(BufferSize - r.count) /\ k \in Nat
    <2>1. Accepted(q, n) \in 0..(BufferSize - r.count)
      BY <1>4, SizesAssumption DEF Accepted, Smaller, Count, Queues
    <2>2. r.count \in 0..BufferSize /\ BufferSize \in Nat
      BY <1>4, SizesAssumption, Zenon DEF Queues
    <2> QED
      BY <2>1, <2>2, SMTT(60) DEF Faults
  <1> DEFINE D == Written(r, k, put)
             x == (r.write_offset + k) % BufferSize
             y == r.count + k
             w == After(r, D, x, y)
  <1>7. queue' = [queue EXCEPT ![q] = w]
    <2>1. DOMAIN r.data = Places
      BY <1>4, Zenon DEF Queues
    <2>2. [i \in DOMAIN r.data |->
             LET place == 1 + ((i - r.write_offset) % BufferSize)
             IN IF place <= k THEN put + place ELSE r.data[i]] = Written(r, k, put)
      BY <2>1, Zenon DEF Written
    <2> QED
      BY <2>2, <1>5, Zenon DEF After
  <1>8. /\ w \in Queues /\ w.data = D /\ w.read_offset = r.read_offset
        /\ w.write_offset = x /\ w.count = y
    <2>1. D \in [Places -> Nat]
      BY <1>4, <1>6, WrittenType, Zenon
    <2>2. x \in Places
      <3>1. r.write_offset + k \in Nat /\ BufferSize \in Nat \ {0}
        BY <1>4, <1>6, SizesAssumption, SMTT(60) DEF Queues, Places
      <3> QED
        BY <3>1, Division, ZenonT(60) DEF Places
    <2>3. y \in 0..BufferSize
      BY <1>4, <1>6, SizesAssumption DEF Queues
    <2> HIDE DEF D, x, y, r
    <2>4. r \in Queues
      BY <1>4, Zenon
    <2> QED
      BY <2>1, <2>2, <2>3, <2>4, AfterFields, SMTT(60)
  <1>9. q \notin skipped' => Ring(w, received[q], put + k)
    <2> SUFFICES ASSUME q \notin skipped PROVE Ring(w, received[q], put + k)
      BY <1>1, Zenon
    <2>1. Ring(r, received[q], put)
      BY <1>0, <1>3, ZenonT(60) DEF AllRings
    <2> HIDE DEF w, r, put
    <2> QED
      BY <2>1, <1>4, <1>6, <1>8, WrittenRing, Zenon
  <1>10. sent' = [sent EXCEPT ![q] = put + k] /\ put + k \in Nat
    <2>1. sent' = [sent EXCEPT ![q] = put + k]
      BY <1>5, Zenon
    <2> HIDE DEF put
    <2> QED
      BY <2>1, <1>4, <1>6, SMTT(60)
  <1>11. received' = [received EXCEPT ![q] = received[q]]
    BY <1>0, <1>1, <1>3, Zenon DEF QueueTypes
  <1> HIDE DEF w, r, put
  <1> QED
    BY <1>1, <1>3, <1>4, <1>7, <1>8, <1>9, <1>10, <1>11, TransferQueues, ZenonT(60)

\* A read from a pipe or socket, in chunks, to the end or to a fault.
LEMMA QueueReadStep ==
  ASSUME FilesInv, QueueInv, NEW p \in Processes, NEW fd \in Fds, NEW n \in 1..BufferSize,
         QueueRead(p, fd, n)
  PROVE  QueueInv'
PROOF
  <1>0. QueueTypes /\ AllRings
    BY DEF QueueInv
  <1>1. workload' = workload /\ used' = used /\ sent' = sent
    BY Zenon DEF QueueRead
  <1>2. PICK q \in descriptor_read_queue(File(p, fd)) :
          LET m == Available(q, n) IN
          \/ /\ queue' = [queue EXCEPT ![q].read_offset = (@ + m) % BufferSize,
                                       ![q].count = @ - m]
             /\ received' = [received EXCEPT ![q] = @ + m]
             /\ UNCHANGED skipped
          \/ \E k \in Faults(m) :
               /\ queue' = [queue EXCEPT
                    ![q].read_offset = (@ + k + Smaller(Chunk, m - k)) % BufferSize,
                    ![q].count = @ - k]
               /\ received' = [received EXCEPT ![q] = @ + k]
               /\ skipped' = skipped \cup {q}
    BY Zenon DEF QueueRead
  <1> DEFINE r == queue[q]
             got == received[q]
             m == Available(q, n)
  <1>3. q \in QueueIds /\ q[2] \in used[q[1]]
    BY QueueInUse, Zenon
  <1>4. r \in Queues /\ got \in Nat /\ sent[q] \in Nat
    BY <1>0, <1>3, Zenon DEF QueueTypes
  <1>5. m \in 0..r.count /\ r.count \in 0..BufferSize /\ BufferSize \in Nat \ {0}
    BY <1>4, SizesAssumption DEF Available, Smaller, Count, Queues
  <1>6. sent' = [sent EXCEPT ![q] = sent[q]]
    BY <1>0, <1>1, <1>3, Zenon DEF QueueTypes
  <1>7. CASE /\ queue' = [queue EXCEPT ![q].read_offset = (@ + m) % BufferSize, ![q].count = @ - m]
             /\ received' = [received EXCEPT ![q] = @ + m]
             /\ UNCHANGED skipped
    <2> DEFINE x == (r.read_offset + m) % BufferSize
               y == r.count - m
               w == Rest(r, x, y)
    <2>1. queue' = [queue EXCEPT ![q] = w]
      BY <1>7, Zenon DEF Rest
    <2>2. /\ w \in Queues /\ w.data = r.data /\ w.read_offset = x
          /\ w.write_offset = r.write_offset /\ w.count = y
      <3>1. x \in Places
        <4>1. r.read_offset + m \in Nat
          BY <1>4, <1>5, SMTT(60) DEF Queues, Places
        <4> QED
          BY <4>1, <1>5, Division, ZenonT(60) DEF Places
      <3>2. y \in 0..BufferSize
        <4> HIDE DEF r, m
        <4> QED BY <1>5
      <3> HIDE DEF x, y, r
      <3>3. r \in Queues
        BY <1>4, Zenon
      <3> QED
        BY <3>1, <3>2, <3>3, RestFields, SMTT(60)
    <2>3. received' = [received EXCEPT ![q] = got + m]
      BY <1>7, Zenon
    <2>4. got + m \in Nat
      <3> HIDE DEF r, m, got
      <3> QED BY <1>4, <1>5, SMTT(60)
    <2>5. q \notin skipped' => Ring(w, got + m, sent[q])
      <3> SUFFICES ASSUME q \notin skipped PROVE Ring(w, got + m, sent[q])
        BY <1>7, Zenon
      <3>1. Ring(r, got, sent[q])
        BY <1>0, <1>3, Zenon DEF AllRings
      <3> HIDE DEF w, r, got, m
      <3> QED
        BY <3>1, <2>2, <1>4, <1>5, ReadRing, ZenonT(60)
    <2>6. skipped' = skipped
      BY <1>7, Zenon
    <2> HIDE DEF w, r, got, m
    <2> QED
      BY <2>1, <2>2, <2>3, <2>4, <2>5, <2>6, <1>1, <1>3, <1>4, <1>6, TransferQueues, ZenonT(60)
  <1>8. ASSUME NEW k \in Faults(m),
               queue' = [queue EXCEPT ![q].read_offset = (@ + k + Smaller(Chunk, m - k)) % BufferSize,
                                      ![q].count = @ - k],
               received' = [received EXCEPT ![q] = @ + k], skipped' = skipped \cup {q}
        PROVE  QueueInv'
    <2>0. k \in 0..r.count /\ k <= m
      <3> HIDE DEF r, m
      <3> QED BY <1>5 DEF Faults
    <2> DEFINE x == (r.read_offset + k + Smaller(Chunk, m - k)) % BufferSize
               y == r.count - k
               w == Rest(r, x, y)
    <2>1. queue' = [queue EXCEPT ![q] = w]
      BY <1>8, Zenon DEF Rest
    <2>2. w \in Queues
      <3>1. x \in Places
        <4>1. r.read_offset \in Nat
          BY <1>4, <1>5, SMTT(60) DEF Queues, Places
        <4>2. Smaller(Chunk, m - k) \in Nat
          <5> HIDE DEF r, m
          <5> QED BY <2>0, <1>5, SizesAssumption, SMTT(60) DEF Smaller
        <4>3. r.read_offset + k + Smaller(Chunk, m - k) \in Nat
          <5> HIDE DEF r, m
          <5> QED BY <4>1, <4>2, <2>0, <1>5, SMTT(60)
        <4> QED
          BY <4>3, <1>5, Division, Zenon DEF Places
      <3>2. y \in 0..BufferSize
        <4> HIDE DEF r, m
        <4> QED BY <2>0, <1>5
      <3> HIDE DEF x, y
      <3> QED
        BY <3>1, <3>2, <1>4, RestFields, Zenon
    <2>3. received' = [received EXCEPT ![q] = got + k]
      BY <1>8, Zenon
    <2>4. got + k \in Nat
      <3> HIDE DEF r, m, got
      <3> QED BY <2>0, <1>4, <1>5
    <2>5. q \in skipped' /\ skipped' = skipped \cup {q}
      BY <1>8, Zenon
    <2>6. skipped' = skipped \/ skipped' = skipped \cup {q}
      BY <2>5, Zenon
    <2> HIDE DEF w, r, got, m
    <2> QED
      BY <2>1, <2>2, <2>3, <2>4, <2>5, <2>6, <1>1, <1>3, <1>4, <1>6, TransferQueues, ZenonT(60)
  <1> QED
    BY <1>2, <1>7, <1>8, Zenon

\* A new pair has empty queues, and nothing was sent through them before.
LEMMA CreatePairQueues ==
  ASSUME FilesInv, QueueInv, NEW p \in Processes, NEW kind \in {"pipe", "socket"},
         CreatePair(p, kind)
  PROVE  QueueInv'
PROOF
  <1>0. QueueTypes /\ Untouched /\ AllRings /\ FileTypes
    BY Zenon DEF QueueInv, FilesInv
  <1>1. PICK o \in allocate(kind) :
          /\ used' = [used EXCEPT ![kind] = @ \cup {o}]
          /\ queue' = [q \in QueueIds |->
                         IF q[1] = kind /\ q[2] = o THEN EmptyQueue ELSE queue[q]]
    BY Zenon DEF CreatePair
  <1>2. workload' = workload /\ sent' = sent /\ received' = received /\ skipped' = skipped
    BY Zenon DEF CreatePair, history
  <1>3. kind \in Kinds
    BY Zenon DEF Kinds
  <1>4. o \in Ids /\ o \notin used[kind]
    BY <1>0, <1>3, Allocated, Zenon
  <1>5. QueueIds' = QueueIds /\ Queues' = Queues
    BY <1>2, SMTT(60) DEF QueueIds, Ids, Queues, Places
  <1>6. EmptyQueue \in Queues /\ EmptyQueue.count = 0 /\ EmptyQueue.read_offset = 0
          /\ EmptyQueue.write_offset = 0
    BY SizesAssumption DEF EmptyQueue, Queues, Places
  <1>7. QueueTypes'
    <2>1. queue' \in [QueueIds -> Queues]
      BY <1>0, <1>1, <1>6, Zenon DEF QueueTypes
    <2> QED
      BY <2>1, <1>0, <1>2, <1>5, Zenon DEF QueueTypes
  <1>8. \A q \in QueueIds : q[1] \in Kinds
    BY DEF QueueIds, Kinds
  <1>9. Untouched'
    <2>1. \A k \in Kinds : used[k] \subseteq used'[k]
      BY <1>0, <1>1, <1>3, Zenon DEF FileTypes
    <2> QED
      BY <2>1, <1>0, <1>2, <1>5, <1>8, ZenonT(60) DEF Untouched
  <1>10. Ring(EmptyQueue, 0, 0)
    <2>1. (0 + 0) % BufferSize = 0
      BY SizesAssumption
    <2> QED
      BY <2>1, <1>6 DEF Ring
  <1>11. AllRings'
    <2> SUFFICES ASSUME NEW q \in QueueIds, q \notin skipped
                 PROVE  Ring(queue'[q], received[q], sent[q])
      BY <1>2, <1>5, Zenon DEF AllRings, Ring
    <2>1. CASE q[1] = kind /\ q[2] = o
      <3>1. sent[q] = 0 /\ received[q] = 0 /\ queue'[q] = EmptyQueue
        BY <2>1, <1>0, <1>1, <1>4, Zenon DEF Untouched
      <3> QED
        BY <3>1, <1>10, Zenon
    <2>2. CASE ~(q[1] = kind /\ q[2] = o)
      <3>1. queue'[q] = queue[q]
        BY <2>2, <1>1, Zenon
      <3> QED
        BY <3>1, <1>0, Zenon DEF AllRings
    <2> QED
      BY <2>1, <2>2, Zenon
  <1> QED
    BY <1>7, <1>9, <1>11, Zenon DEF QueueInv

\* Steps that transfer nothing; no object of a kind with queues is given back.
LEMMA QuietQueues ==
  ASSUME QueueInv, UNCHANGED <<queue, sent, received, skipped, workload>>,
         used["pipe"] \subseteq used'["pipe"], used["socket"] \subseteq used'["socket"]
  PROVE  QueueInv'
PROOF
  <1>1. QueueIds' = QueueIds /\ Queues' = Queues
    BY DEF QueueIds, Ids, Queues, Places
  <1>2. \A q \in QueueIds : q[1] \in {"pipe", "socket"}
    BY DEF QueueIds
  <1>3. QueueTypes' /\ AllRings'
    BY <1>1, ZenonT(60) DEF QueueInv, QueueTypes, AllRings, Ring
  <1>4. Untouched'
    BY <1>1, <1>2, Zenon DEF QueueInv, Untouched
  <1> QED
    BY <1>3, <1>4, Zenon DEF QueueInv

\* What the steps do to the use of objects of the kinds other than memory
\* files: it only grows.
LEMMA UsedGrows ==
  ASSUME FilesInv, [Next]_vars
  PROVE  \A kind \in Kinds \ {"memfd"} : used[kind] \subseteq used'[kind]
PROOF
  <1> SUFFICES ASSUME NEW kind \in Kinds \ {"memfd"} PROVE used[kind] \subseteq used'[kind]
    BY Zenon
  <1>0. used \in [Kinds -> SUBSET Ids]
    BY Zenon DEF FilesInv, FileTypes
  <1>1. ASSUME NEW k \in Kinds, NEW o, used' = [used EXCEPT ![k] = @ \cup {o}]
        PROVE  used[kind] \subseteq used'[kind]
    BY <1>0, <1>1, Zenon
  <1>2. ASSUME NEW released, NEW retained, Recount(released, retained)
        PROVE  used[kind] \subseteq used'[kind]
    BY <1>0, <1>2, Zenon DEF Recount
  <1>3. ASSUME NEW p \in Processes, Creation(p) PROVE used[kind] \subseteq used'[kind]
    <2>1. \E k \in Kinds, o \in Ids : used' = [used EXCEPT ![k] = @ \cup {o}]
      <3>1. \A k \in Kinds : \A o \in allocate(k) : o \in Ids
        BY Allocated, Zenon DEF FilesInv
      <3>2. ASSUME NEW k \in {"pipe", "socket"}, CreatePair(p, k)
            PROVE  \E o \in Ids : used' = [used EXCEPT ![k] = @ \cup {o}]
        BY <3>1, <3>2, Zenon DEF CreatePair, Kinds
      <3>3. ASSUME NEW k \in {"timer", "epoll", "memfd", "event"}, NEW v, NEW s, CreateOne(p, k, v, s)
            PROVE  \E o \in Ids : used' = [used EXCEPT ![k] = @ \cup {o}]
        BY <3>1, <3>3, Zenon DEF CreateOne, Kinds
      <3>4. ASSUME NEW k \in Kinds, CreateLeaks(p, k)
            PROVE  \E o \in Ids : used' = [used EXCEPT ![k] = @ \cup {o}]
        BY <3>1, <3>4, Zenon DEF CreateLeaks
      <3> QED
        BY <1>3, <3>2, <3>3, <3>4, Zenon DEF Creation, Kinds
    <2> QED
      BY <2>1, <1>1, Zenon
  <1>4. ASSUME NEW p \in Processes, Sharing(p) PROVE used[kind] \subseteq used'[kind]
    <2>1. used' = used \/ \E released, retained : Recount(released, retained)
      BY <1>4, Zenon DEF Sharing, Close, Duplicate, Clone, Load, Exit, Reset, objects
    <2> QED
      BY <2>1, <1>2, Zenon
  <1>5. ASSUME NEW p \in Processes, NEW fd \in Fds, Transfer(p, fd)
        PROVE  used[kind] \subseteq used'[kind]
    <2>1. used' = used
      BY <1>5, Zenon DEF Transfer, QueueWrite, QueueRead, EventWrite, EventRead, SetTime,
        SetTimeOverflow, TimerRead, EpollCtl
    <2> QED
      BY <2>1, Zenon
  <1>6. CASE Tick \/ UNCHANGED vars
    BY <1>6, Zenon DEF Tick, vars, objects
  <1> QED
    BY <1>3, <1>4, <1>5, <1>6, Zenon DEF Next

\* Every action keeps the invariant of the rings.
LEMMA QueueStep ==
  ASSUME FilesInv, QueueInv, [Next]_vars
  PROVE  QueueInv'
PROOF
  <1>0. used["pipe"] \subseteq used'["pipe"] /\ used["socket"] \subseteq used'["socket"]
    BY UsedGrows, Zenon DEF Kinds
  <1>1. ASSUME UNCHANGED <<queue, sent, received, skipped, workload>> PROVE QueueInv'
    BY <1>0, <1>1, QuietQueues, Zenon
  <1>2. ASSUME NEW p \in Processes, Creation(p) PROVE QueueInv'
    <2>1. ASSUME NEW kind, NEW value, NEW semaphore, CreateOne(p, kind, value, semaphore)
          PROVE  UNCHANGED <<queue, sent, received, skipped, workload>>
      BY <2>1, Zenon DEF CreateOne, history
    <2>2. ASSUME NEW kind, CreateLeaks(p, kind)
          PROVE  UNCHANGED <<queue, sent, received, skipped, workload>>
      BY <2>2, Zenon DEF CreateLeaks, history
    <2> QED
      BY <2>1, <2>2, <1>1, <1>2, CreatePairQueues, Zenon DEF Creation
  <1>3. ASSUME NEW p \in Processes, Sharing(p) PROVE QueueInv'
    <2>1. UNCHANGED <<queue, sent, received, skipped, workload>>
      BY <1>3, Zenon DEF Sharing, Close, Duplicate, Clone, Load, Exit, Reset, objects, history
    <2> QED
      BY <2>1, <1>1, Zenon
  <1>4. ASSUME NEW p \in Processes, NEW fd \in Fds, Transfer(p, fd) PROVE QueueInv'
    <2>1. ASSUME NEW n \in 1..BufferSize, QueueWrite(p, fd, n) PROVE QueueInv'
      BY <2>1, QueueWriteStep, Zenon
    <2>2. ASSUME NEW n \in 1..BufferSize, QueueRead(p, fd, n) PROVE QueueInv'
      BY <2>2, QueueReadStep, Zenon
    <2>3. ASSUME NEW value, EventWrite(p, fd, value) \/ EventRead(p, fd) \/ TimerRead(p, fd)
          PROVE  UNCHANGED <<queue, sent, received, skipped, workload>>
      BY <2>3, Zenon DEF EventWrite, EventRead, TimerRead, history
    <2>4. ASSUME NEW value, NEW interval, NEW absolute,
                 SetTime(p, fd, value, interval, absolute) \/ SetTimeOverflow(p, fd, interval)
          PROVE  UNCHANGED <<queue, sent, received, skipped, workload>>
      BY <2>4, Zenon DEF SetTime, SetTimeOverflow
    <2>5. ASSUME NEW target, NEW operation, NEW events, EpollCtl(p, fd, target, operation, events)
          PROVE  UNCHANGED <<queue, sent, received, skipped, workload>>
      BY <2>5, Zenon DEF EpollCtl, history
    <2> QED
      BY <2>1, <2>2, <2>3, <2>4, <2>5, <1>1, <1>4, Zenon DEF Transfer
  <1>5. CASE Tick \/ UNCHANGED vars
    <2>1. UNCHANGED <<queue, sent, received, skipped, workload>>
      BY <1>5, Zenon DEF Tick, vars, objects, history
    <2> QED
      BY <2>1, <1>1, Zenon
  <1> QED
    BY <1>2, <1>3, <1>4, <1>5, ZenonT(60) DEF Next

\* All rings are empty at the start.
LEMMA QueueInit == Init => QueueInv
PROOF
  <1> SUFFICES ASSUME Init PROVE QueueInv
    BY Zenon
  <1>1. EmptyQueue \in Queues /\ EmptyQueue.count = 0 /\ EmptyQueue.read_offset = 0
          /\ EmptyQueue.write_offset = 0
    BY SizesAssumption DEF EmptyQueue, Queues, Places
  <1>2. QueueTypes /\ Untouched
    BY <1>1, Zenon DEF Init, QueueTypes, Untouched
  <1>3. Ring(EmptyQueue, 0, 0)
    <2>1. (0 + 0) % BufferSize = 0
      BY SizesAssumption
    <2> QED
      BY <2>1, <1>1 DEF Ring
  <1>4. AllRings
    <2> SUFFICES ASSUME NEW q \in QueueIds PROVE Ring(queue[q], received[q], sent[q])
      BY Zenon DEF AllRings
    <2>1. queue[q] = EmptyQueue /\ received[q] = 0 /\ sent[q] = 0
      BY Zenon DEF Init
    <2> QED
      BY <2>1, <1>3, Zenon
  <1> QED
    BY <1>2, <1>4, Zenon DEF QueueInv

\* Whoever writes and reads a pipe or a socket pair, in chunks of any size,
\* through rings of any size, every byte is delivered once and in order, until
\* a read of that queue faults.
THEOREM QueuesAreExact == Spec => []QueueExact
PROOF
  <1>1. Init => FilesInv /\ QueueInv
    BY FilesInit, QueueInit, Zenon
  <1>2. FilesInv /\ QueueInv /\ [Next]_vars => FilesInv' /\ QueueInv'
    BY FilesStep, QueueStep, Zenon
  <1> QED
    BY <1>1, <1>2, QueueInvExact, PTL DEF Spec

-----------------------------------------------------------------------------
(* Eventfds and epoll *)

Counters == [counter : 0..(EventMax - 1), semaphore : BOOLEAN]
Entries == [used : BOOLEAN, descriptor : Fds \cup {0}, events : SUBSET {"IN", "OUT"}]

EventTypes == event \in [Ids -> Counters]
EpollTypes == epoll \in [Ids -> [1..NEntries -> Entries]]

\* One entry for a descriptor.
Single(entries) ==
  \A i, j \in 1..NEntries :
    entries[i].used /\ entries[j].used /\ entries[i].descriptor = entries[j].descriptor => i = j

AllSingle == \A o \in Ids : Single(epoll[o])

ReadyInv == EventTypes /\ EpollTypes /\ AllSingle

\* The object of a descriptor is one of its table.
LEMMA ObjectId ==
  ASSUME FilesInv, NEW p \in Processes, NEW fd \in Fds, File(p, fd).type # "none"
  PROVE  File(p, fd).object \in Ids
PROOF
  <1>1. File(p, fd) \in Files /\ File(p, fd) # None
    BY NoneType, Zenon DEF FilesInv, FileTypes, Tables, File
  <1> QED
    BY <1>1, FileKind, Zenon

\* A counter passes neither of its limits.
LEMMA EventStep ==
  ASSUME FilesInv, EventTypes, NEW p \in Processes, NEW fd \in Fds, NEW value \in 0..EventMax,
         EventWrite(p, fd, value) \/ EventRead(p, fd)
  PROVE  EventTypes'
PROOF
  <1> DEFINE o == File(p, fd).object
             c == event[o].counter
  <1>1. workload' = workload /\ File(p, fd).type = "event"
    BY Zenon DEF EventWrite, EventRead
  <1>2. o \in Ids
    BY <1>1, ObjectId, Zenon
  <1>3. c \in 0..(EventMax - 1) /\ EventMax \in Nat \ {0, 1} /\ event[o] \in Counters
    BY <1>2, SizesAssumption, Zenon DEF EventTypes, Counters
  <1>4. \E n \in 0..(EventMax - 1) : event' = [event EXCEPT ![o].counter = n]
    <2>1. CASE EventWrite(p, fd, value)
      <3>1. event' = [event EXCEPT ![o].counter = (c + value) % (EventMax + 1)]
        BY <2>1, Zenon DEF EventWrite
      <3>2. c + value \in 0..(EventMax - 1)
        <4>1. EventFits(c, value)
          BY <2>1, Zenon DEF EventWrite
        <4> HIDE DEF c
        <4> QED
          BY <4>1, <1>3 DEF EventFits
      <3>3. (c + value) % (EventMax + 1) = c + value
        <4> HIDE DEF c
        <4>1. /\ EventMax + 1 \in Nat \ {0} /\ c + value \in Int /\ 0 \in Int
              /\ c + value \in 0..((EventMax + 1) - 1) /\ c + value = (EventMax + 1) * 0 + (c + value)
          BY <3>2, <1>3
        <4> QED
          BY <4>1, RemainderIs, Zenon
      <3> QED
        BY <3>1, <3>2, <3>3, Zenon
    <2>2. CASE EventRead(p, fd)
      <3>1. /\ c # 0
            /\ event' = [event EXCEPT ![o].counter = IF event[o].semaphore THEN c - 1 ELSE 0]
        BY <2>2, Zenon DEF EventRead
      <3>2. (IF event[o].semaphore THEN c - 1 ELSE 0) \in 0..(EventMax - 1)
        <4> HIDE DEF c
        <4> QED
          BY <3>1, <1>3
      <3> QED
        BY <3>1, <3>2, Zenon
    <2> QED
      BY <2>1, <2>2, Zenon
  <1>5. Ids' = Ids
    BY <1>1, Zenon DEF Ids
  <1> HIDE DEF o, c
  <1>6. event' \in [Ids -> Counters]
    BY <1>2, <1>4, Zenon DEF EventTypes, Counters
  <1> QED
    BY <1>5, <1>6, Zenon DEF EventTypes, Counters

\* epoll_ctl keeps one entry for a descriptor.
LEMMA EpollStep ==
  ASSUME FilesInv, EpollTypes, AllSingle, NEW p \in Processes, NEW fd \in Fds,
         NEW target \in Fds, NEW operation \in {"ADD", "MOD", "DEL"},
         NEW events \in {{"IN"}, {"OUT"}}, EpollCtl(p, fd, target, operation, events)
  PROVE  EpollTypes' /\ AllSingle'
PROOF
  <1> DEFINE o == File(p, fd).object
             e == epoll[o]
             slots == IF operation = "ADD" THEN AddSlot(e, target) ELSE Existing(e, target)
             new == IF operation = "DEL" THEN NoEntry
                    ELSE [used |-> TRUE, descriptor |-> target, events |-> events]
  <1>1. /\ workload' = workload /\ File(p, fd).type = "epoll" /\ slots # {}
        /\ epoll' = [epoll EXCEPT ![o][Max(slots)] = new]
    BY Zenon DEF EpollCtl
  <1>2. o \in Ids
    BY <1>1, ObjectId, Zenon
  <1> HIDE DEF o
  <1>3. e \in [1..NEntries -> Entries] /\ Single(e)
    BY <1>2, Zenon DEF EpollTypes, AllSingle
  <1> HIDE DEF e
  <1>4. PICK s \in 1..NEntries :
          /\ slots = {s}
          /\ operation # "DEL" => \A i \in 1..NEntries :
               e[i].used /\ e[i].descriptor = target => i = s
    <2>1. CASE operation = "ADD"
      <3>1. Existing(e, target) = {} /\ Unused(e) # {} /\ slots = {Min(Unused(e))}
        BY <2>1, <1>1, Zenon DEF AddSlot
      <3>2. Unused(e) \subseteq 1..NEntries /\ Unused(e) \subseteq Nat
        BY <1>3 DEF Unused
      <3>3. Min(Unused(e)) \in Unused(e)
        BY <3>1, <3>2, MinNatural, Zenon
      <3>4. \A i \in 1..NEntries : ~(e[i].used /\ e[i].descriptor = target)
        BY <3>1, <1>3, Zenon DEF Existing
      <3> QED
        BY <3>1, <3>2, <3>3, <3>4, Zenon
    <2>2. CASE operation # "ADD"
      <3>1. slots = Existing(e, target)
        BY <2>2, Zenon
      <3>2. PICK s \in Existing(e, target) : TRUE
        BY <3>1, <1>1, Zenon
      <3>3. s \in 1..NEntries /\ e[s].used /\ e[s].descriptor = target
        BY <3>2, <1>3, Zenon DEF Existing
      <3>4. \A i \in 1..NEntries : e[i].used /\ e[i].descriptor = target => i = s
        BY <3>3, <1>3, Zenon DEF Single
      <3>5. Existing(e, target) = {s}
        BY <3>2, <3>4, <1>3, Zenon DEF Existing
      <3> QED
        BY <3>1, <3>3, <3>4, <3>5, Zenon
    <2> QED
      BY <2>1, <2>2, Zenon
  <1> HIDE DEF slots
  <1>5. Max(slots) = s
    BY <1>4 DEF Max
  <1>6. /\ new \in Entries
        /\ new.used => operation # "DEL" /\ new.descriptor = target
    BY Zenon DEF NoEntry, Entries
  <1> HIDE DEF new
  <1> DEFINE f == [e EXCEPT ![s] = new]
  <1>7. epoll' = [epoll EXCEPT ![o] = f]
    BY <1>1, <1>5, Zenon DEF e
  <1>8. f \in [1..NEntries -> Entries]
    BY <1>3, <1>6, Zenon
  <1>9. Single(f)
    <2>1. \A i \in 1..NEntries : f[i] = IF i = s THEN new ELSE e[i]
      BY <1>3, Zenon
    <2> HIDE DEF f
    <2> QED
      BY <2>1, <1>3, <1>4, <1>6, SMTT(60) DEF Single
  <1> HIDE DEF f
  <1>10. Ids' = Ids /\ Entries' = Entries
    BY <1>1, Zenon DEF Ids, Entries, Fds
  <1>11. EpollTypes'
    BY <1>2, <1>7, <1>8, <1>10, Zenon DEF EpollTypes
  <1>12. \A x \in Ids : Single(epoll'[x])
    BY <1>2, <1>7, <1>9, Zenon DEF EpollTypes, AllSingle
  <1> QED
    BY <1>10, <1>11, <1>12, Zenon DEF AllSingle, Single

\* A new object starts with an empty counter or set.
LEMMA CreateOneReady ==
  ASSUME FilesInv, ReadyInv, NEW p \in Processes, NEW kind \in Kinds, NEW value \in {0, 1},
         NEW semaphore \in BOOLEAN, CreateOne(p, kind, value, semaphore)
  PROVE  ReadyInv'
PROOF
  <1>1. PICK o \in allocate(kind) :
          /\ event' = IF kind # "event" THEN event
                      ELSE [event EXCEPT ![o] = [counter |-> value, semaphore |-> semaphore]]
          /\ epoll' = IF kind # "epoll" THEN epoll ELSE [epoll EXCEPT ![o] = NoEntries]
    BY Zenon DEF CreateOne
  <1>2. workload' = workload
    BY Zenon DEF CreateOne
  <1>3. o \in Ids /\ Ids' = Ids /\ Entries' = Entries /\ Counters' = Counters
    BY <1>1, <1>2, Allocated, Zenon DEF FilesInv, Ids, Entries, Fds, Counters
  <1>4. [counter |-> value, semaphore |-> semaphore] \in Counters
    BY SizesAssumption DEF Counters
  <1>5. NoEntry \in Entries /\ NoEntry.used = FALSE
    BY Zenon DEF NoEntry, Entries
  <1>6. NoEntries \in [1..NEntries -> Entries] /\ Single(NoEntries)
    BY <1>5, Zenon DEF NoEntries, Single
  <1>7. EventTypes'
    BY <1>1, <1>3, <1>4, Zenon DEF ReadyInv, EventTypes
  <1>8. epoll' \in [Ids -> [1..NEntries -> Entries]]
    BY <1>1, <1>3, <1>6, Zenon DEF ReadyInv, EpollTypes
  <1>9. \A x \in Ids : epoll'[x] = NoEntries \/ epoll'[x] = epoll[x]
    BY <1>1, <1>3, Zenon DEF ReadyInv, EpollTypes
  <1>10. \A x \in Ids : Single(epoll'[x])
    BY <1>9, <1>6, Zenon DEF ReadyInv, AllSingle
  <1> QED
    BY <1>3, <1>7, <1>8, <1>10, Zenon DEF ReadyInv, EpollTypes, AllSingle, Single

\* Actions on other objects.
LEMMA QuietReady ==
  ASSUME ReadyInv, UNCHANGED <<event, epoll, workload>>
  PROVE  ReadyInv'
PROOF
  <1>1. event' = event /\ epoll' = epoll /\ workload' = workload
    BY Zenon
  <1>2. Ids' = Ids /\ Entries' = Entries /\ Counters' = Counters
    BY <1>1, Zenon DEF Ids, Entries, Fds, Counters
  <1> QED
    BY <1>1, <1>2, Zenon DEF ReadyInv, EventTypes, EpollTypes, AllSingle, Single

\* Every action keeps the invariant of events and epoll sets.
LEMMA ReadyStep ==
  ASSUME FilesInv, ReadyInv, [Next]_vars
  PROVE  ReadyInv'
PROOF
  <1>1. ASSUME NEW p \in Processes, Creation(p) PROVE ReadyInv'
    <2>1. ASSUME NEW kind \in {"timer", "epoll", "memfd"}, CreateOne(p, kind, 0, FALSE)
          PROVE  ReadyInv'
      BY <2>1, Zenon, CreateOneReady DEF Kinds
    <2>2. ASSUME NEW value \in {0, 1}, NEW semaphore \in BOOLEAN,
                 CreateOne(p, "event", value, semaphore)
          PROVE  ReadyInv'
      BY <2>2, CreateOneReady, Zenon DEF Kinds
    <2>3. ASSUME NEW kind, CreatePair(p, kind) \/ CreateLeaks(p, kind)
          PROVE  UNCHANGED <<event, epoll, workload>>
      BY <2>3, Zenon DEF CreatePair, CreateLeaks
    <2> QED
      BY <2>1, <2>2, <2>3, <1>1, QuietReady, Zenon DEF Creation
  <1>2. ASSUME NEW p \in Processes, Sharing(p) PROVE ReadyInv'
    <2>1. UNCHANGED <<event, epoll, workload>>
      BY <1>2, Zenon DEF Sharing, Close, Duplicate, Clone, Load, Exit, Reset, objects
    <2> QED
      BY <2>1, QuietReady, Zenon
  <1>3. ASSUME NEW p \in Processes, NEW fd \in Fds, Transfer(p, fd) PROVE ReadyInv'
    <2>1. ASSUME NEW n, QueueWrite(p, fd, n) \/ QueueRead(p, fd, n)
          PROVE  UNCHANGED <<event, epoll, workload>>
      BY <2>1, Zenon DEF QueueWrite, QueueRead
    <2>2. ASSUME NEW value \in 0..EventMax, EventWrite(p, fd, value) \/ EventRead(p, fd)
          PROVE  ReadyInv'
      <3>1. EventTypes'
        BY <2>2, EventStep, Zenon DEF ReadyInv
      <3>2. epoll' = epoll /\ workload' = workload
        BY <2>2, Zenon DEF EventWrite, EventRead
      <3>3. Ids' = Ids /\ Entries' = Entries
        BY <3>2, Zenon DEF Ids, Entries, Fds
      <3> QED
        BY <3>1, <3>2, <3>3, Zenon DEF ReadyInv, EpollTypes, AllSingle, Single
    <2>3. 0 \in 0..EventMax
      BY SizesAssumption
    <2>4. ASSUME NEW value, NEW interval, NEW absolute,
                 \/ SetTime(p, fd, value, interval, absolute)
                 \/ SetTimeOverflow(p, fd, interval) \/ TimerRead(p, fd)
          PROVE  UNCHANGED <<event, epoll, workload>>
      BY <2>4, Zenon DEF SetTime, SetTimeOverflow, TimerRead
    <2>5. ASSUME NEW target \in Fds, NEW operation \in {"ADD", "MOD", "DEL"},
                 NEW events \in {{"IN"}, {"OUT"}}, EpollCtl(p, fd, target, operation, events)
          PROVE  ReadyInv'
      <3>1. EpollTypes' /\ AllSingle'
        BY <2>5, EpollStep, Zenon DEF ReadyInv
      <3>2. event' = event /\ workload' = workload
        BY <2>5, Zenon DEF EpollCtl
      <3>3. Ids' = Ids /\ Counters' = Counters
        BY <3>2, Zenon DEF Ids, Counters
      <3> QED
        BY <3>1, <3>2, <3>3, Zenon DEF ReadyInv, EventTypes
    <2> QED
      BY <2>1, <2>2, <2>3, <2>4, <2>5, <1>3, QuietReady, ZenonT(60) DEF Transfer
  <1>4. CASE Tick \/ UNCHANGED vars
    <2>1. UNCHANGED <<event, epoll, workload>>
      BY <1>4, Zenon DEF Tick, vars, objects
    <2> QED
      BY <2>1, QuietReady, Zenon
  <1> QED
    BY <1>1, <1>2, <1>3, <1>4, Zenon DEF Next

\* Counters and sets are empty at the start.
LEMMA ReadyInit == Init => ReadyInv
PROOF
  <1> SUFFICES ASSUME Init PROVE ReadyInv
    OBVIOUS
  <1>1. [counter |-> 0, semaphore |-> FALSE] \in Counters
    BY SizesAssumption DEF Counters
  <1>2. NoEntry \in Entries /\ NoEntry.used = FALSE
    BY Zenon DEF NoEntry, Entries
  <1>3. NoEntries \in [1..NEntries -> Entries] /\ Single(NoEntries)
    BY <1>2, Zenon DEF NoEntries, Single
  <1>4. EventTypes /\ EpollTypes
    BY <1>1, <1>3, Zenon DEF Init, EventTypes, EpollTypes
  <1>5. \A x \in Ids : epoll[x] = NoEntries
    BY Zenon DEF Init
  <1> QED
    BY <1>3, <1>4, <1>5, Zenon DEF ReadyInv, AllSingle

\* A descriptor that is written through a queue has one of QueueIds.
LEMMA WriteQueueId ==
  ASSUME FilesInv, NEW p \in Processes, NEW fd \in Fds,
         NEW q \in descriptor_write_queue(File(p, fd))
  PROVE  q \in QueueIds
PROOF
  <1>1. CASE File(p, fd).type = "pipe_write"
    <2>1. File(p, fd).object \in Ids
      BY <1>1, ObjectId, Zenon
    <2> QED
      BY <1>1, <2>1 DEF descriptor_write_queue, QueueIds
  <1>2. CASE File(p, fd).type = "socket"
    <2>1. File(p, fd).object \in Ids
      BY <1>2, ObjectId, Zenon
    <2>2. File(p, fd).endpoint \in {0, 1}
      BY <1>2, FileParts, NoneType, Zenon DEF FilesInv, FileTypes, Tables, File, Simple
    <2> QED
      BY <1>2, <2>1, <2>2, SMTT(60) DEF descriptor_write_queue, QueueIds
  <1> QED
    BY <1>1, <1>2, Zenon DEF descriptor_write_queue

\* The invariants make the reports exact.
LEMMA ReadyInvExact == FilesInv /\ QueueInv /\ ReadyInv => ReadyExact
PROOF
  <1> SUFFICES ASSUME FilesInv, QueueInv, ReadyInv PROVE ReadyExact
    BY Zenon
  <1>1. ASSUME NEW p \in Processes, NEW fd \in Fds
        PROVE  LET file == File(p, fd)
                   writable == \/ /\ file.type = "event"
                                  /\ EventFits(event[file.object].counter, 1)
                               \/ \E q \in descriptor_write_queue(file) : Accepted(q, 1) = 1
                               \/ file.type = "memfd"
               IN "OUT" \in descriptor_ready_events(p, fd) <=> writable
    <2> DEFINE file == File(p, fd)
    <2>1. file.type = "event" =>
            (EventWritable(event[file.object].counter) <=> EventFits(event[file.object].counter, 1))
      <3> SUFFICES ASSUME file.type = "event"
                   PROVE  EventWritable(event[file.object].counter)
                            <=> EventFits(event[file.object].counter, 1)
        BY Zenon
      <3>1. file.object \in Ids
        BY ObjectId, Zenon
      <3>2. event[file.object].counter \in 0..(EventMax - 1)
        BY <3>1, Zenon DEF ReadyInv, EventTypes, Counters
      <3> QED
        BY <3>2, SizesAssumption DEF EventWritable, EventFits
    <2>2. \A q \in descriptor_write_queue(file) : Count(q) < BufferSize <=> Accepted(q, 1) = 1
      <3> SUFFICES ASSUME NEW q \in descriptor_write_queue(file)
                   PROVE  Count(q) < BufferSize <=> Accepted(q, 1) = 1
        BY Zenon
      <3>1. q \in QueueIds
        BY WriteQueueId, Zenon
      <3>2. Count(q) \in 0..BufferSize
        BY <3>1, Zenon DEF QueueInv, QueueTypes, Queues, Count
      <3> QED
        BY <3>2, SizesAssumption DEF Accepted, Smaller
    <2>3. "OUT" \in descriptor_ready_events(p, fd) <=>
            \/ file.type = "event" /\ EventWritable(event[file.object].counter)
            \/ \E q \in descriptor_write_queue(file) : Count(q) < BufferSize
            \/ file.type = "memfd"
      BY Zenon DEF descriptor_ready_events
    <2> QED
      BY <2>1, <2>2, <2>3, Zenon
  <1>2. ASSUME NEW p \in Processes, NEW fd \in Fds, File(p, fd).type = "epoll",
               NEW r1 \in epoll_wait(p, fd), NEW r2 \in epoll_wait(p, fd), r1[1] = r2[1]
        PROVE  r1 = r2
    <2> DEFINE e == epoll[File(p, fd).object]
               Report(x) == <<x.descriptor, x.events \cap descriptor_ready_events(p, x.descriptor)>>
    <2>1. Single(e)
      BY <1>2, ObjectId, Zenon DEF ReadyInv, AllSingle
    <2>2. PICK i \in 1..NEntries : e[i].used /\ r1 = Report(e[i])
      BY Zenon DEF epoll_wait
    <2>3. PICK j \in 1..NEntries : e[j].used /\ r2 = Report(e[j])
      BY Zenon DEF epoll_wait
    <2>4. e[i].descriptor = e[j].descriptor
      BY <1>2, <2>2, <2>3, Zenon
    <2>5. i = j
      BY <2>1, <2>2, <2>3, <2>4, Zenon DEF Single
    <2> QED
      BY <2>2, <2>3, <2>5, Zenon
  <1> QED
    BY <1>1, <1>2, Zenon DEF ReadyExact

\* poll and epoll tell the truth about every descriptor, and epoll reports a
\* descriptor once, for any sizes of the tables, rings and counters.
THEOREM ReadinessIsExact == Spec => []ReadyExact
PROOF
  <1>1. Init => FilesInv /\ QueueInv /\ ReadyInv
    BY FilesInit, QueueInit, ReadyInit, Zenon
  <1>2. FilesInv /\ QueueInv /\ ReadyInv /\ [Next]_vars => FilesInv' /\ QueueInv' /\ ReadyInv'
    BY FilesStep, QueueStep, ReadyStep, Zenon
  <1> QED
    BY <1>1, <1>2, ReadyInvExact, PTL DEF Spec

-----------------------------------------------------------------------------
(* Timerfds *)

Timers == [expires : Nat, interval : Nat]
Armed == [first : Nat, taken : Nat]

TimerTypes ==
  timer \in [Ids -> Timers] /\ armed \in [Ids -> Armed] /\ scheduler_ticks \in Nat

\* A timer that first expires at `first` and of which `taken` expirations were
\* taken by `now` next expires at `expires`.
Progress(expires, interval, first, taken, now) ==
  \/ first = 0 /\ taken = 0 /\ expires = 0
  \/ /\ first # 0 /\ interval # 0
     /\ expires = first + interval * taken
     /\ taken # 0 => expires - interval <= now
  \/ first # 0 /\ interval = 0 /\ taken = 0 /\ expires = first
  \/ first # 0 /\ interval = 0 /\ taken = 1 /\ expires = 0 /\ first <= now

AllProgress ==
  \A o \in Ids : Progress(timer[o].expires, timer[o].interval, armed[o].first,
                          armed[o].taken, scheduler_ticks)

\* A timer nobody has was never set.
Unset == \A o \in Ids : o \notin used["timer"] => armed[o].first = 0 /\ armed[o].taken = 0

TimerInv == TimerTypes /\ AllProgress /\ Unset

\* What a read of a periodic timer takes, and where it leaves the timer.
LEMMA PeriodicRead ==
  ASSUME NEW i \in Nat \ {0}, NEW expires \in Nat, NEW now \in Nat, expires <= now,
         NEW n, n = 1 + (now - expires) \div i
  PROVE  /\ n \in Nat \ {0}
         /\ expires + i * n - i <= now /\ now < expires + i * n
PROOF
  <1> DEFINE q == (now - expires) \div i
             r == (now - expires) % i
  <1>1. now - expires \in Nat
    OBVIOUS
  <1>2. r \in 0..(i - 1) /\ now - expires = i * q + r /\ q \in Nat
    BY <1>1, Division, Zenon
  <1>3. n = 1 + q
    BY Zenon
  <1> HIDE DEF q, r
  <1>4. i * n = i + i * q /\ i * q \in Nat
    BY <1>2, <1>3
  <1> QED
    BY <1>2, <1>3, <1>4, SMTT(60)

\* The periods since the first deadline are those taken and those a read would
\* take.
LEMMA PeriodicTaken ==
  ASSUME NEW i \in Nat \ {0}, NEW first \in Nat, NEW taken \in Nat, NEW now \in Nat,
         NEW expires, expires = first + i * taken, expires <= now
  PROVE  (now - first) \div i = taken + (now - expires) \div i
PROOF
  <1> DEFINE q == (now - expires) \div i
             r == (now - expires) % i
  <1>1. now - expires \in Nat /\ i * taken \in Nat
    OBVIOUS
  <1>2. r \in 0..(i - 1) /\ now - expires = i * q + r /\ q \in Nat
    BY <1>1, Division, Zenon
  <1> HIDE DEF q, r
  <1>3. i * (taken + q) = i * taken + i * q /\ i * q \in Nat
    BY <1>2
  <1>4. now - first = i * (taken + q) + r /\ taken + q \in Int /\ now - first \in Int
    BY <1>1, <1>2, <1>3, SMTT(60)
  <1>5. (now - first) \div i = taken + q
    BY <1>2, <1>4, QuotientIs, Zenon
  <1> QED
    BY <1>5, Zenon DEF q

\* Before the next deadline, all periods are taken.
LEMMA PeriodicEarly ==
  ASSUME NEW i \in Nat \ {0}, NEW first \in Nat, NEW taken \in Nat \ {0}, NEW now \in Nat,
         NEW expires, expires = first + i * taken, now < expires, expires - i <= now
  PROVE  (now - first) \div i = taken - 1 /\ first <= now
PROOF
  <1>1. i * (taken - 1) = i * taken - i /\ i * taken \in Nat /\ i * (taken - 1) \in Nat
    OBVIOUS
  <1> DEFINE d == now - (expires - i)
  <1>2. d \in 0..(i - 1) /\ now - first = i * (taken - 1) + d /\ taken - 1 \in Int
          /\ now - first \in Int /\ first <= now
    BY <1>1
  <1> HIDE DEF d
  <1> QED
    BY <1>2, QuotientIs, Zenon

\* The number of expirations due, in closed form.
LEMMA DueIs ==
  ASSUME NEW first \in Nat, NEW interval \in Nat, scheduler_ticks \in Nat
  PROVE  /\ first = 0 \/ scheduler_ticks < first => Due(first, interval) = 0
         /\ first # 0 /\ interval = 0 /\ first <= scheduler_ticks => Due(first, interval) = 1
         /\ first # 0 /\ interval # 0 /\ first <= scheduler_ticks =>
              Due(first, interval) = 1 + (scheduler_ticks - first) \div interval
PROOF
  <1> DEFINE S == {t \in first..scheduler_ticks :
                     IF interval = 0 THEN t = first ELSE (t - first) % interval = 0}
  <1>1. Due(first, interval) = IF first = 0 THEN 0 ELSE Cardinality(S)
    BY Zenon DEF Due
  <1>2. ASSUME scheduler_ticks < first PROVE Cardinality(S) = 0
    <2>1. S = {}
      BY <1>2
    <2> QED
      BY <2>1, FS_EmptySet, Zenon
  <1>3. ASSUME interval = 0, first <= scheduler_ticks PROVE Cardinality(S) = 1
    <2>1. S = {first}
      BY <1>3
    <2> QED
      BY <2>1, FS_Singleton, Zenon
  <1>4. ASSUME interval # 0, first <= scheduler_ticks
        PROVE  Cardinality(S) = 1 + (scheduler_ticks - first) \div interval
    <2>1. S = {t \in first..scheduler_ticks : (t - first) % interval = 0}
      BY <1>4, Zenon
    <2> QED
      BY <1>4, <2>1, Multiples, Zenon
  <1> HIDE DEF S
  <1> QED
    BY <1>1, <1>2, <1>3, <1>4, Zenon

\* The invariant makes expirations exact.
LEMMA TimerInvExact == TimerInv => ExpirationsExact
PROOF
  <1> SUFFICES ASSUME TimerInv, NEW o \in Ids
               PROVE  armed[o].taken
                        + (IF Expired(timer[o]) THEN TimerTaken(timer[o]).expirations ELSE 0)
                        = Due(armed[o].first, timer[o].interval)
    BY Zenon DEF ExpirationsExact
  <1> DEFINE expires == timer[o].expires
             interval == timer[o].interval
             first == armed[o].first
             taken == armed[o].taken
             due == Due(first, interval)
             now == scheduler_ticks
             next == IF Expired(timer[o]) THEN TimerTaken(timer[o]).expirations ELSE 0
  <1>1. expires \in Nat /\ interval \in Nat /\ first \in Nat /\ taken \in Nat /\ now \in Nat
    BY Zenon DEF TimerInv, TimerTypes, Timers, Armed
  <1>2. Progress(expires, interval, first, taken, now)
    BY Zenon DEF TimerInv, AllProgress
  <1>3. next = IF expires # 0 /\ now >= expires
               THEN IF interval = 0 THEN 1 ELSE 1 + (now - expires) \div interval
               ELSE 0
    BY Zenon DEF Expired, TimerTaken
  <1>4. /\ first = 0 \/ now < first => due = 0
        /\ first # 0 /\ interval = 0 /\ first <= now => due = 1
        /\ first # 0 /\ interval # 0 /\ first <= now => due = 1 + (now - first) \div interval
    BY <1>1, DueIs, Zenon
  <1>5. SUFFICES taken + next = due
    BY Zenon
  <1> HIDE DEF expires, interval, first, taken, due, now, next
  <1>6. CASE first = 0 /\ taken = 0 /\ expires = 0
    BY <1>3, <1>4, <1>6, SMTT(60)
  <1>7. CASE /\ first # 0 /\ interval # 0
             /\ expires = first + interval * taken
             /\ taken # 0 => expires - interval <= now
    <2>1. CASE expires <= now
      <3>1. (now - first) \div interval = taken + (now - expires) \div interval
        <4>1. interval \in Nat \ {0}
          BY <1>1, <1>7, Zenon
        <4> QED
          BY <4>1, <1>1, <1>7, <2>1, PeriodicTaken, SMTT(30)
      <3>2. first <= now /\ expires # 0
        <4>1. interval * taken \in Nat
          BY <1>1
        <4> QED
          BY <4>1, <2>1, <1>1, <1>7
      <3>3. (now - expires) \div interval \in Int
        BY <1>1, <1>7, IntDivision, SMTT(60)
      <3> QED
        BY <3>1, <3>2, <3>3, <2>1, <1>1, <1>3, <1>4, <1>7, SMTT(60)
    <2>2. CASE now < expires /\ taken # 0
      <3>1. (now - first) \div interval = taken - 1 /\ first <= now
        BY <1>1, <1>7, <2>2, PeriodicEarly, Zenon
      <3>2. next = 0
        BY <2>2, <1>1, <1>3, SMTT(60)
      <3> QED
        BY <3>1, <3>2, <1>1, <1>4, <1>7, SMTT(60)
    <2>3. CASE now < expires /\ taken = 0
      <3>1. next = 0 /\ expires = first
        BY <2>3, <1>1, <1>3, <1>7, SMTT(60)
      <3> QED
        BY <3>1, <2>3, <1>4, SMTT(60)
    <2> QED
      BY <2>1, <2>2, <2>3, <1>1, SMTT(60)
  <1>8. CASE first # 0 /\ interval = 0 /\ taken = 0 /\ expires = first
    BY <1>1, <1>3, <1>4, <1>8, SMTT(60)
  <1>9. CASE first # 0 /\ interval = 0 /\ taken = 1 /\ expires = 0 /\ first <= now
    BY <1>1, <1>3, <1>4, <1>9, SMTT(60)
  <1> QED
    BY <1>2, <1>6, <1>7, <1>8, <1>9, Zenon DEF Progress

\* The timer one call sets.
SetClock(o, t, a) ==
  timer' = [timer EXCEPT ![o] = t] /\ armed' = [armed EXCEPT ![o] = a]

\* Setting one timer.
LEMMA ClockStep ==
  ASSUME TimerInv, UNCHANGED <<scheduler_ticks, workload, used>>, NEW o \in Ids,
         o \in used["timer"], NEW t \in Timers, NEW a \in Armed, SetClock(o, t, a),
         Progress(t.expires, t.interval, a.first, a.taken, scheduler_ticks)
  PROVE  TimerInv'
PROOF
  <1>1. scheduler_ticks' = scheduler_ticks /\ workload' = workload /\ used' = used
    BY Zenon
  <1>2. Ids' = Ids
    BY <1>1, Zenon DEF Ids
  <1>3. timer' \in [Ids -> Timers] /\ armed' \in [Ids -> Armed] /\ scheduler_ticks \in Nat
    BY Zenon DEF SetClock, TimerInv, TimerTypes
  <1>4. \A x \in Ids : /\ timer'[x] = IF x = o THEN t ELSE timer[x]
                       /\ armed'[x] = IF x = o THEN a ELSE armed[x]
    BY Zenon DEF SetClock, TimerInv, TimerTypes
  <1>5. TimerTypes'
    BY <1>1, <1>2, <1>3, Zenon DEF TimerTypes, Timers, Armed
  <1>6. AllProgress'
    <2>1. ASSUME NEW x \in Ids
          PROVE  Progress(timer'[x].expires, timer'[x].interval, armed'[x].first,
                          armed'[x].taken, scheduler_ticks)
      <3>1. CASE x = o
        BY <3>1, <1>4, Zenon
      <3>2. CASE x # o
        BY <3>2, <1>4, Zenon DEF TimerInv, AllProgress
      <3> QED
        BY <3>1, <3>2, Zenon
    <2> QED
      BY <2>1, <1>1, <1>2, Zenon DEF AllProgress
  <1>7. Unset'
    BY <1>1, <1>2, <1>4, Zenon DEF TimerInv, Unset
  <1> QED
    BY <1>5, <1>6, <1>7, Zenon DEF TimerInv

\* A timer descriptor names a timer in use.
LEMMA TimerInUse ==
  ASSUME FilesInv, NEW p \in Processes, NEW fd \in Fds, File(p, fd).type = "timer"
  PROVE  File(p, fd).object \in Ids /\ File(p, fd).object \in used["timer"]
PROOF
  <1>1. File(p, fd) # None
    BY NoneType, Zenon
  <1>2. File(p, fd).object \in used[KindOf(File(p, fd))]
    BY <1>1, FilesInvValid, Zenon DEF DescriptorsValid
  <1>3. KindOf(File(p, fd)) = "timer"
    BY Zenon DEF KindOf
  <1> QED
    BY <1>2, <1>3, ObjectId, Zenon

\* timerfd_settime starts or stops the timer.
LEMMA SetTimeStep ==
  ASSUME FilesInv, TimerInv, NEW p \in Processes, NEW fd \in Fds, NEW value \in 0..MaxPeriod,
         NEW interval \in 0..MaxPeriod, NEW absolute \in BOOLEAN,
         SetTime(p, fd, value, interval, absolute)
  PROVE  TimerInv'
PROOF
  <1> DEFINE o == File(p, fd).object
             expires == IF value = 0 \/ absolute THEN value ELSE scheduler_ticks + value
             t == [expires |-> expires, interval |-> interval]
             a == [first |-> expires, taken |-> 0]
  <1>1. /\ scheduler_ticks' = scheduler_ticks /\ workload' = workload /\ used' = used
        /\ File(p, fd).type = "timer" /\ SetClock(o, t, a)
    BY Zenon DEF SetTime, SetClock
  <1>2. o \in Ids /\ o \in used["timer"]
    BY <1>1, TimerInUse, Zenon
  <1>3. expires \in Nat
    BY DEF TimerInv, TimerTypes
  <1> HIDE DEF expires
  <1>4. t \in Timers /\ a \in Armed
    BY <1>3 DEF Timers, Armed
  <1>5. t.expires = expires /\ t.interval = interval /\ a.first = expires /\ a.taken = 0
    BY Zenon
  <1> HIDE DEF t, a, o
  <1>6. Progress(t.expires, t.interval, a.first, a.taken, scheduler_ticks)
    BY <1>3, <1>5 DEF Progress
  <1> QED
    BY <1>1, <1>2, <1>4, <1>6, ClockStep, Zenon

\* timerfd_settime with a time that does not fit.
LEMMA SetTimeOverflowStep ==
  ASSUME FilesInv, TimerInv, NEW p \in Processes, NEW fd \in Fds, NEW interval \in 0..MaxPeriod,
         SetTimeOverflow(p, fd, interval)
  PROVE  TimerInv'
PROOF
  <1> DEFINE o == File(p, fd).object
             t == [timer[o] EXCEPT !.interval = interval]
             a == [first |-> timer[o].expires, taken |-> 0]
  <1>1. /\ scheduler_ticks' = scheduler_ticks /\ workload' = workload /\ used' = used
        /\ File(p, fd).type = "timer" /\ SetClock(o, t, a)
    BY Zenon DEF SetTimeOverflow, SetClock
  <1>2. o \in Ids /\ o \in used["timer"]
    BY <1>1, TimerInUse, Zenon
  <1>3. timer[o] \in Timers
    BY <1>2, Zenon DEF TimerInv, TimerTypes
  <1> HIDE DEF o
  <1>4. /\ t.expires = timer[o].expires /\ t.interval = interval
        /\ a.first = timer[o].expires /\ a.taken = 0
        /\ timer[o].expires \in Nat /\ t \in Timers
    BY <1>3 DEF Timers
  <1>5. a \in Armed
    BY <1>4, Zenon DEF Armed
  <1> HIDE DEF t, a
  <1>6. Progress(t.expires, t.interval, a.first, a.taken, scheduler_ticks)
    BY <1>4 DEF Progress
  <1> QED
    BY <1>1, <1>2, <1>4, <1>5, <1>6, ClockStep, ZenonT(60)

\* A read takes the expirations due and moves the deadline on the grid.
LEMMA TimerReadStep ==
  ASSUME FilesInv, TimerInv, NEW p \in Processes, NEW fd \in Fds, TimerRead(p, fd)
  PROVE  TimerInv'
PROOF
  <1> DEFINE o == File(p, fd).object
             taken == TimerTaken(timer[o])
             t == [timer[o] EXCEPT !.expires = taken.expires]
             a == [armed[o] EXCEPT !.taken = @ + taken.expirations]
             now == scheduler_ticks
  <1>1. /\ scheduler_ticks' = scheduler_ticks /\ workload' = workload /\ used' = used
        /\ File(p, fd).type = "timer" /\ SetClock(o, t, a) /\ Expired(timer[o])
    BY Zenon DEF TimerRead, SetClock
  <1>2. o \in Ids /\ o \in used["timer"]
    BY <1>1, TimerInUse, Zenon
  <1>3. timer[o] \in Timers /\ armed[o] \in Armed /\ now \in Nat
    BY <1>2, Zenon DEF TimerInv, TimerTypes
  <1>4. Progress(timer[o].expires, timer[o].interval, armed[o].first, armed[o].taken, now)
    BY <1>2, Zenon DEF TimerInv, AllProgress
  <1> HIDE DEF o
  <1>5. /\ taken.expirations \in Nat /\ taken.expires \in Nat
        /\ Progress(taken.expires, timer[o].interval, armed[o].first,
                    armed[o].taken + taken.expirations, now)
    <2> DEFINE e == timer[o].expires
               i == timer[o].interval
               f == armed[o].first
               k == armed[o].taken
               n == 1 + (now - e) \div i
    <2>1. e \in Nat /\ i \in Nat /\ f \in Nat /\ k \in Nat
      BY <1>3, Zenon DEF Timers, Armed
    <2>2. e # 0 /\ e <= now
      BY <1>1, <1>3, <2>1, Zenon DEF Expired
    <2>3. i = 0 => taken.expirations = 1 /\ taken.expires = 0
      BY Zenon DEF TimerTaken
    <2>4. i # 0 => taken.expirations = n /\ taken.expires = e + n * i
      BY Zenon DEF TimerTaken
    <2>5. Progress(e, i, f, k, now)
      BY <1>4, Zenon
    <2> HIDE DEF e, i, f, k, taken, now
    <2>6. CASE i = 0
      <3>1. f # 0 /\ k = 0 /\ e = f
        BY <2>5, <2>6, <2>2, Zenon DEF Progress
      <3> QED
        BY <3>1, <2>1, <2>2, <2>3, <2>6, SMTT(60) DEF Progress, e, i, f, k
    <2>7. CASE i # 0
      <3>1. f # 0 /\ e = f + i * k
        BY <2>5, <2>7, <2>2, Zenon DEF Progress
      <3>2. n \in Nat \ {0} /\ e + i * n - i <= now
        BY <1>3, <2>1, <2>2, <2>7, PeriodicRead, Zenon
      <3>3. taken.expirations = n /\ taken.expires = e + n * i
        BY <2>4, <2>7, Zenon
      <3> HIDE DEF n
      <3>4. n * i = i * n /\ i * (k + n) = i * k + i * n /\ i * n \in Nat
        BY <3>2, <2>1, SMTT(60)
      <3>5. taken.expires = f + i * (k + n) /\ taken.expires - i <= now /\ taken.expires \in Nat
              /\ k + n \in Nat
        BY <3>1, <3>2, <3>3, <3>4, <2>1, SMTT(60)
      <3>6. Progress(taken.expires, i, f, k + n, now)
        BY <3>1, <3>5, <2>7, Zenon DEF Progress
      <3> QED
        BY <3>2, <3>3, <3>5, <3>6, Zenon DEF i, f, k
    <2> QED
      BY <2>6, <2>7, Zenon
  <1> HIDE DEF taken
  <1>6. /\ t \in Timers /\ t.expires = taken.expires /\ t.interval = timer[o].interval
        /\ a \in Armed /\ a.first = armed[o].first /\ a.taken = armed[o].taken + taken.expirations
    BY <1>3, <1>5 DEF Timers, Armed
  <1> HIDE DEF t, a
  <1>7. Progress(t.expires, t.interval, a.first, a.taken, scheduler_ticks)
    BY <1>5, <1>6, Zenon
  <1> QED
    BY <1>1, <1>2, <1>6, <1>7, ClockStep, ZenonT(60)

\* What a timer has delivered stays right when time passes.
LEMMA ProgressLater ==
  ASSUME NEW e \in Nat, NEW i \in Nat, NEW f \in Nat, NEW k \in Nat, NEW now \in Nat,
         NEW later \in Nat, now <= later, Progress(e, i, f, k, now)
  PROVE  Progress(e, i, f, k, later)
PROOF
  <1>1. e - i <= now => e - i <= later
    BY SMT
  <1>2. f <= now => f <= later
    BY SMT
  <1> QED
    BY <1>1, <1>2, Zenon DEF Progress

\* A step that leaves the timers alone, while time may pass.
LEMMA QuietTimers ==
  ASSUME TimerInv, UNCHANGED <<timer, armed, workload>>, scheduler_ticks' \in Nat,
         scheduler_ticks <= scheduler_ticks', used["timer"] \subseteq used'["timer"]
  PROVE  TimerInv'
PROOF
  <1>1. timer' = timer /\ armed' = armed /\ workload' = workload
    BY Zenon
  <1>2. Ids' = Ids /\ scheduler_ticks \in Nat
    BY <1>1, Zenon DEF Ids, TimerInv, TimerTypes
  <1>3. TimerTypes'
    BY <1>1, <1>2, Zenon DEF TimerInv, TimerTypes, Timers, Armed
  <1>4. AllProgress'
    <2>1. ASSUME NEW x \in Ids
          PROVE  Progress(timer[x].expires, timer[x].interval, armed[x].first,
                          armed[x].taken, scheduler_ticks')
      <3>1. /\ timer[x].expires \in Nat /\ timer[x].interval \in Nat
            /\ armed[x].first \in Nat /\ armed[x].taken \in Nat
        BY Zenon DEF TimerInv, TimerTypes, Timers, Armed
      <3>2. Progress(timer[x].expires, timer[x].interval, armed[x].first,
                     armed[x].taken, scheduler_ticks)
        BY Zenon DEF TimerInv, AllProgress
      <3> QED
        BY <3>1, <3>2, <1>2, ProgressLater, Zenon
    <2> QED
      BY <2>1, <1>1, <1>2, ZenonT(60) DEF AllProgress
  <1>5. Unset'
    BY <1>1, <1>2, Zenon DEF TimerInv, Unset
  <1> QED
    BY <1>3, <1>4, <1>5, Zenon DEF TimerInv

\* A new timer is not set.
LEMMA CreateOneTimers ==
  ASSUME FilesInv, TimerInv, NEW p \in Processes, NEW kind \in Kinds, NEW value, NEW semaphore,
         CreateOne(p, kind, value, semaphore), used["timer"] \subseteq used'["timer"]
  PROVE  TimerInv'
PROOF
  <1> DEFINE new == [expires |-> 0, interval |-> 0]
  <1>1. PICK o \in allocate(kind) :
          timer' = IF kind # "timer" THEN timer ELSE [timer EXCEPT ![o] = new]
    BY Zenon DEF CreateOne
  <1>2. scheduler_ticks' = scheduler_ticks /\ armed' = armed /\ workload' = workload
    BY Zenon DEF CreateOne, history
  <1>3. o \in Ids /\ o \notin used[kind]
    BY <1>1, Allocated, Zenon DEF FilesInv
  <1>4. CASE kind # "timer"
    <2>1. timer' = timer /\ scheduler_ticks \in Nat
      BY <1>1, <1>4, Zenon DEF TimerInv, TimerTypes
    <2>2. scheduler_ticks' \in Nat /\ scheduler_ticks <= scheduler_ticks'
      BY <1>2, <2>1
    <2> QED
      BY <1>2, <2>1, <2>2, QuietTimers, Zenon
  <1>5. CASE kind = "timer"
    <2>0. Ids' = Ids /\ new \in Timers /\ new.expires = 0 /\ new.interval = 0
      BY <1>2, Zenon DEF Ids, Timers
    <2> HIDE DEF new
    <2>1. \A x \in Ids : timer'[x] = IF x = o THEN new ELSE timer[x]
      BY <1>1, <1>5, <1>3, Zenon DEF TimerInv, TimerTypes
    <2>2. timer' \in [Ids -> Timers]
      BY <1>1, <1>5, <1>3, <2>0, Zenon DEF TimerInv, TimerTypes
    <2>3. TimerTypes'
      BY <1>2, <2>0, <2>2, Zenon DEF TimerInv, TimerTypes, Timers, Armed
    <2>4. AllProgress'
      <3>1. ASSUME NEW x \in Ids
            PROVE  Progress(timer'[x].expires, timer'[x].interval, armed[x].first,
                            armed[x].taken, scheduler_ticks)
        <4>1. CASE x = o
          <5>1. armed[x].first = 0 /\ armed[x].taken = 0
            BY <4>1, <1>3, <1>5, Zenon DEF TimerInv, Unset
          <5>2. timer'[x].expires = 0
            BY <4>1, <2>0, <2>1, Zenon
          <5> QED
            BY <5>1, <5>2, Zenon DEF Progress
        <4>2. CASE x # o
          BY <4>2, <2>1, Zenon DEF TimerInv, AllProgress
        <4> QED
          BY <4>1, <4>2, Zenon
      <3> QED
        BY <3>1, <1>2, <2>0, Zenon DEF AllProgress
    <2>5. Unset'
      BY <1>2, <2>0, Zenon DEF TimerInv, Unset
    <2> QED
      BY <2>3, <2>4, <2>5, Zenon DEF TimerInv
  <1> QED
    BY <1>4, <1>5, Zenon

\* Every action keeps the invariant of the timers; a tick brings deadlines
\* nearer.
LEMMA TimerStep ==
  ASSUME FilesInv, TimerInv, [Next]_vars
  PROVE  TimerInv'
PROOF
  <1>0. used["timer"] \subseteq used'["timer"]
    BY UsedGrows, Zenon DEF Kinds
  <1>a. scheduler_ticks \in Nat
    BY Zenon DEF TimerInv, TimerTypes
  <1>1. ASSUME UNCHANGED <<timer, armed, workload, scheduler_ticks>> PROVE TimerInv'
    <2>1. scheduler_ticks' \in Nat /\ scheduler_ticks <= scheduler_ticks'
      BY <1>1, <1>a
    <2> QED
      BY <2>1, <1>0, <1>1, QuietTimers, Zenon
  <1>2. ASSUME NEW p \in Processes, Creation(p) PROVE TimerInv'
    <2>1. ASSUME NEW kind \in {"timer", "epoll", "memfd", "event"}, NEW value, NEW semaphore,
                 CreateOne(p, kind, value, semaphore)
          PROVE  TimerInv'
      <3>1. kind \in Kinds
        BY Zenon DEF Kinds
      <3> QED
        BY <2>1, <3>1, <1>0, CreateOneTimers, Zenon
    <2>2. ASSUME NEW kind, CreatePair(p, kind) \/ CreateLeaks(p, kind)
          PROVE  UNCHANGED <<timer, armed, workload, scheduler_ticks>>
      BY <2>2, Zenon DEF CreatePair, CreateLeaks, history
    <2> QED
      BY <2>1, <2>2, <1>1, <1>2, Zenon DEF Creation
  <1>3. ASSUME NEW p \in Processes, Sharing(p) PROVE TimerInv'
    <2>1. UNCHANGED <<timer, armed, workload, scheduler_ticks>>
      BY <1>3, Zenon DEF Sharing, Close, Duplicate, Clone, Load, Exit, Reset, objects, history
    <2> QED
      BY <2>1, <1>1, Zenon
  <1>4. ASSUME NEW p \in Processes, NEW fd \in Fds, Transfer(p, fd) PROVE TimerInv'
    <2>1. ASSUME NEW n, QueueWrite(p, fd, n) \/ QueueRead(p, fd, n)
          PROVE  UNCHANGED <<timer, armed, workload, scheduler_ticks>>
      BY <2>1, Zenon DEF QueueWrite, QueueRead
    <2>2. ASSUME NEW value, EventWrite(p, fd, value) \/ EventRead(p, fd)
          PROVE  UNCHANGED <<timer, armed, workload, scheduler_ticks>>
      BY <2>2, Zenon DEF EventWrite, EventRead, history
    <2>3. ASSUME NEW target, NEW operation, NEW events, EpollCtl(p, fd, target, operation, events)
          PROVE  UNCHANGED <<timer, armed, workload, scheduler_ticks>>
      BY <2>3, Zenon DEF EpollCtl, history
    <2> QED
      BY <2>1, <2>2, <2>3, <1>1, <1>4, SetTimeStep, SetTimeOverflowStep, TimerReadStep, ZenonT(60)
        DEF Transfer
  <1>5. CASE Tick
    <2>1. UNCHANGED <<timer, armed, workload>> /\ scheduler_ticks' = scheduler_ticks + 1
      BY <1>5, Zenon DEF Tick, objects, history
    <2>2. scheduler_ticks' \in Nat /\ scheduler_ticks <= scheduler_ticks'
      BY <2>1, <1>a
    <2> QED
      BY <2>1, <2>2, <1>0, QuietTimers, Zenon
  <1>6. CASE UNCHANGED vars
    BY <1>1, <1>6, Zenon DEF vars, objects, history
  <1> QED
    BY <1>2, <1>3, <1>4, <1>5, <1>6, Zenon DEF Next

\* No timer is set at the start.
LEMMA TimerInit == Init => TimerInv
PROOF
  <1> SUFFICES ASSUME Init PROVE TimerInv
    OBVIOUS
  <1>1. [expires |-> 0, interval |-> 0] \in Timers /\ [first |-> 0, taken |-> 0] \in Armed
    BY Zenon DEF Timers, Armed
  <1>2. TimerTypes
    BY <1>1, Zenon DEF Init, TimerTypes
  <1>3. \A o \in Ids : armed[o].first = 0 /\ armed[o].taken = 0 /\ timer[o].expires = 0
    BY SMTT(60) DEF Init
  <1> QED
    BY <1>2, <1>3, Zenon DEF TimerInv, AllProgress, Unset, Progress

\* However late and however often a timerfd is read, it reports every
\* expiration of its period once, for any period and any tick.
THEOREM ExpirationsAreExact == Spec => []ExpirationsExact
PROOF
  <1>1. Init => FilesInv /\ TimerInv
    BY FilesInit, TimerInit
  <1>2. FilesInv /\ TimerInv /\ [Next]_vars => FilesInv' /\ TimerInv'
    BY FilesStep, TimerStep
  <1> QED
    BY <1>1, <1>2, TimerInvExact, PTL DEF Spec
=============================================================================
