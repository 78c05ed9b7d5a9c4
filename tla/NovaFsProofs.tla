----------------------------- MODULE NovaFsProofs ---------------------------
(***************************************************************************)
(* Proofs about NovaFs, for any volume, any tree of names and any contents:*)
(* the directory on the disk is whole after every step and every crash,    *)
(* what a call promised is still there after a restart, and a file that    *)
(* grows is found with its old or its new contents.                        *)
(***************************************************************************)
EXTENDS NovaFs, WellFoundedInduction, TLAPS

-----------------------------------------------------------------------------
(* Numbers and sets *)

\* A nonempty set of numbers has a least one.
LEMMA LeastNatural ==
  ASSUME NEW S, S \subseteq Nat, S # {}
  PROVE  \E x \in S : \A y \in S : x <= y
PROOF
  <1> DEFINE R == {ss \in Nat \X Nat : ss[1] < ss[2]}
  <1>1. IsWellFoundedOn(R, Nat)
    BY NatLessThanWellFounded, Zenon DEF OpToRel
  <1>2. \E x \in S : \A y \in S : <<y, x>> \notin R
    <2> HIDE DEF R
    <2> QED
      BY <1>1, WFMin, Zenon
  <1>3. \A x, y \in Nat : <<y, x>> \notin R => x <= y
    OBVIOUS
  <1> QED
    BY <1>2, <1>3, Zenon

\* The largest value of a function over a nonempty set of indices.
LEMMA LargestValue ==
  ASSUME NEW N \in Nat, NEW f \in [1..N -> Nat], NEW S \in SUBSET (1..N), S # {}
  PROVE  \E m \in S : \A k \in S : f[k] <= f[m]
PROOF
  <1>0. \A k \in 1..N : f[k] \in Nat
    BY Zenon
  <1> DEFINE Bounded(n) == \E b \in Nat : \A k \in 1..n : f[k] <= b
  <1>1. Bounded(0)
    <2>1. \A k \in 1..0 : f[k] <= 0
      OBVIOUS
    <2> QED
      BY <2>1, Zenon
  <1>2. ASSUME NEW n \in 1..N, Bounded(n - 1) PROVE Bounded(n)
    <2>1. PICK b \in Nat : \A k \in 1..(n - 1) : f[k] <= b
      BY <1>2, Zenon
    <2>2. b + f[n] \in Nat
      BY <1>0
    <2>3. \A k \in 1..n : f[k] <= b + f[n]
      BY <2>1, <1>0
    <2> QED
      BY <2>2, <2>3, Zenon
  <1> HIDE DEF Bounded
  <1> DEFINE B == {n \in 0..N : ~Bounded(n)}
  <1>3. B = {}
    <2> SUFFICES ASSUME B # {} PROVE FALSE
      BY Zenon
    <2>1. B \subseteq Nat
      OBVIOUS
    <2>2. PICK n \in B : \A y \in B : n <= y
      BY <2>1, LeastNatural, Zenon
    <2>3. n \in 0..N /\ ~Bounded(n)
      BY Zenon
    <2>4. n \in 1..N
      BY <2>3, <1>1
    <2>5. n - 1 \in B
      BY <2>3, <2>4, <1>2
    <2> QED
      BY <2>2, <2>4, <2>5
  <1>4. PICK b \in Nat : \A k \in 1..N : f[k] <= b
    <2>1. N \in 0..N
      OBVIOUS
    <2>2. Bounded(N)
      BY <2>1, <1>3, Zenon
    <2> QED
      BY <2>2, Zenon DEF Bounded
  <1> DEFINE U == {u \in Nat : \A k \in S : f[k] <= u}
  <1>5. U \subseteq Nat /\ b \in U
    BY <1>4, Zenon
  <1>6. PICK u \in U : \A y \in U : u <= y
    BY <1>5, LeastNatural, Zenon
  <1>7. u \in Nat /\ \A k \in S : f[k] \in Nat /\ f[k] <= u
    BY <1>0, Zenon
  <1>8. ASSUME \A m \in S : f[m] # u PROVE u - 1 \in U
    <2>1. \A k \in S : f[k] <= u - 1
      BY <1>7, <1>8
    <2>2. PICK k \in S : f[k] \in Nat /\ f[k] <= u - 1
      BY <2>1, <1>7, Zenon
    <2>3. u - 1 \in Nat
      BY <2>2, <1>7
    <2> QED
      BY <2>1, <2>3, Zenon
  <1> HIDE DEF U
  <1>9. \E m \in S : f[m] = u
    BY <1>6, <1>7, <1>8
  <1> QED
    BY <1>7, <1>9, Zenon

-----------------------------------------------------------------------------
(* Tables of entries *)

Types == {"none", "file", "directory", "symlink"}
Records == [name : Names \cup {Root}, type : Types, start : Nat, size : Nat, capacity : Nat]

\* A free slot has no name, and an entry fits its extent.
Whole(e) ==
  e \in Records /\ e.size <= e.capacity /\ (e.type = "none" <=> e.name = Root)

End(e) == e.start + e.capacity

\* Two entries that share no sector.
Apart(e, f) ==
  e.capacity = 0 \/ f.capacity = 0 \/ End(e) <= f.start \/ End(f) <= e.start

\* The extent of d is that of e, or lies before it.
Behind(d, e) == (d.start = e.start /\ d.capacity = e.capacity) \/ End(d) <= e.start

TableOK(dir) ==
  /\ dir \in [Indices -> Records]
  /\ \A i \in Indices : Whole(dir[i])
  /\ \A i, j \in Used(dir) : i # j => dir[i].name # dir[j].name /\ Apart(dir[i], dir[j])
  /\ Connected(dir)

Put(dir, i, e) == [dir EXCEPT ![i] = e]

\* The name lies in a directory.
Housed(dir, n) ==
  \/ Parent[n] = Root
  \/ \E j \in Used(dir) : dir[j].name = Parent[n] /\ dir[j].type = "directory"

\* Slot i can take entry e: nobody else has its name or its sectors, and no
\* directory disappears.
CanHold(dir, i, e) ==
  /\ Whole(e) /\ e.type # "none"
  /\ dir[i].type = "directory" => e.type = "directory" /\ e.name = dir[i].name
  /\ \A j \in Used(dir) \ {i} : dir[j].name # e.name /\ Apart(dir[j], e)

\* A table with one entry replaced.
LEMMA PutIs ==
  ASSUME NEW dir \in [Indices -> Records], NEW i \in Indices, NEW e \in Records
  PROVE  /\ Put(dir, i, e) \in [Indices -> Records]
         /\ \A j \in Indices : Put(dir, i, e)[j] = IF j = i THEN e ELSE dir[j]
PROOF
  BY Zenon DEF Put

\* Apart is symmetric.
LEMMA ApartSymmetric ==
  ASSUME NEW e, NEW f, Apart(e, f) PROVE Apart(f, e)
PROOF
  BY Zenon DEF Apart

\* Entries that are apart share no sector.
LEMMA ApartIs ==
  ASSUME NEW e \in Records, NEW f \in Records, Apart(e, f)
  PROVE  Extent(e) \cap Extent(f) = {}
PROOF
  <1>1. e.start \in Nat /\ e.capacity \in Nat /\ f.start \in Nat /\ f.capacity \in Nat
    BY Zenon DEF Records
  <1> QED
    BY <1>1 DEF Apart, Extent, End

\* A table stays sound when a slot gets an entry it can hold.
LEMMA TablePut ==
  ASSUME NEW dir, TableOK(dir), NEW i \in Indices, NEW e, CanHold(dir, i, e),
         Housed(dir, e.name)
  PROVE  TableOK(Put(dir, i, e))
PROOF
  <1> DEFINE new == Put(dir, i, e)
  <1>1. dir \in [Indices -> Records] /\ e \in Records /\ Whole(e) /\ e.type # "none"
    BY Zenon DEF TableOK, CanHold, Whole
  <1>2. new \in [Indices -> Records] /\ \A j \in Indices : new[j] = IF j = i THEN e ELSE dir[j]
    BY <1>1, PutIs
  <1> HIDE DEF new
  <1>3. \A j \in Indices : Whole(new[j])
    BY <1>1, <1>2, Zenon DEF TableOK
  <1>4. \A j \in Indices : j \in Used(new) <=> j = i \/ j \in Used(dir)
    BY <1>1, <1>2, Zenon DEF Used
  <1>5. \A j \in Used(new) : j \in Indices
    BY Zenon DEF Used
  <1>6. ASSUME NEW j \in Used(new), NEW k \in Used(new), j # k
        PROVE  new[j].name # new[k].name /\ Apart(new[j], new[k])
    <2>1. CASE j # i /\ k # i
      <3>1. j \in Used(dir) /\ k \in Used(dir) /\ new[j] = dir[j] /\ new[k] = dir[k]
        BY <1>2, <1>4, <1>5, <2>1, Zenon
      <3> QED
        BY <3>1, <1>6, Zenon DEF TableOK
    <2>2. CASE j = i
      <3>1. k \in Used(dir) \ {i} /\ new[j] = e /\ new[k] = dir[k]
        BY <1>2, <1>4, <1>5, <1>6, <2>2, Zenon
      <3>2. dir[k].name # e.name /\ Apart(dir[k], e)
        BY <3>1, Zenon DEF CanHold
      <3> QED
        BY <3>1, <3>2, ApartSymmetric, Zenon
    <2>3. CASE k = i
      <3>1. j \in Used(dir) \ {i} /\ new[k] = e /\ new[j] = dir[j]
        BY <1>2, <1>4, <1>5, <1>6, <2>3, Zenon
      <3>2. dir[j].name # e.name /\ Apart(dir[j], e)
        BY <3>1, Zenon DEF CanHold
      <3> QED
        BY <3>1, <3>2, Zenon
    <2> QED
      BY <2>1, <2>2, <2>3, Zenon
  <1>7. \A n : Housed(dir, n) => Housed(new, n)
    <2> SUFFICES ASSUME NEW n, NEW j \in Used(dir), dir[j].name = Parent[n],
                        dir[j].type = "directory"
                 PROVE  \E k \in Used(new) : new[k].name = Parent[n] /\ new[k].type = "directory"
      BY Zenon DEF Housed
    <2>1. j \in Indices /\ j \in Used(new)
      BY <1>4, Zenon DEF Used
    <2>2. CASE j = i
      BY <2>1, <2>2, <1>2, Zenon DEF CanHold
    <2>3. CASE j # i
      BY <2>1, <2>3, <1>2, Zenon
    <2> QED
      BY <2>2, <2>3, Zenon
  <1>8. \A j \in Used(new) : Housed(new, new[j].name)
    <2> SUFFICES ASSUME NEW j \in Used(new) PROVE Housed(dir, new[j].name)
      BY <1>7, Zenon
    <2>1. CASE j = i
      BY <2>1, <1>2, Zenon
    <2>2. CASE j # i
      <3>1. j \in Used(dir) /\ new[j] = dir[j]
        BY <2>2, <1>2, <1>4, <1>5, Zenon
      <3> QED
        BY <3>1, ZenonT(60) DEF TableOK, Connected, Housed
    <2> QED
      BY <2>1, <2>2, Zenon
  <1>9. Connected(new)
    BY <1>8, Zenon DEF Connected, Housed
  <1>10. TableOK(new)
    BY <1>2, <1>3, <1>6, <1>9, Zenon DEF TableOK
  <1> QED
    BY <1>10, Zenon DEF new

\* A free slot.
LEMMA NoEntryWhole == Whole(NoEntry) /\ NoEntry.type = "none" /\ NoEntry.capacity = 0
PROOF
  BY DEF NoEntry, Whole, Records, Types

\* fs_delete removes no directory that has entries.
LEMMA TableRemove ==
  ASSUME NEW dir, TableOK(dir), NEW i \in Used(dir),
         dir[i].type = "directory" => \A j \in Used(dir) : Parent[dir[j].name] # dir[i].name
  PROVE  TableOK(Put(dir, i, NoEntry)) /\ Used(Put(dir, i, NoEntry)) = Used(dir) \ {i}
PROOF
  <1> DEFINE new == Put(dir, i, NoEntry)
  <1>1. /\ dir \in [Indices -> Records] /\ NoEntry \in Records /\ i \in Indices
        /\ NoEntry.type = "none" /\ Whole(NoEntry)
    BY NoEntryWhole, Zenon DEF TableOK, Whole, Used
  <1>2. new \in [Indices -> Records] /\ \A j \in Indices : new[j] = IF j = i THEN NoEntry ELSE dir[j]
    BY <1>1, PutIs
  <1> HIDE DEF new
  <1>3. \A j \in Indices : Whole(new[j])
    BY <1>1, <1>2, Zenon DEF TableOK
  <1>4. Used(new) = Used(dir) \ {i}
    BY <1>1, <1>2, Zenon DEF Used
  <1>5. \A j \in Used(new) : j \in Used(dir) /\ new[j] = dir[j]
    BY <1>2, <1>4, Zenon DEF Used
  <1>6. \A j, k \in Used(new) : j # k => new[j].name # new[k].name /\ Apart(new[j], new[k])
    BY <1>5, Zenon DEF TableOK
  <1>7. Connected(new)
    <2> SUFFICES ASSUME NEW j \in Used(new), Parent[new[j].name] # Root
                 PROVE  \E k \in Used(new) : new[k].name = Parent[new[j].name]
                                               /\ new[k].type = "directory"
      BY Zenon DEF Connected
    <2>1. j \in Used(dir) /\ new[j] = dir[j]
      BY <1>5, Zenon
    <2>2. PICK k \in Used(dir) : dir[k].name = Parent[dir[j].name] /\ dir[k].type = "directory"
      BY <2>1, Zenon DEF TableOK, Connected
    <2>3. k # i
      BY <2>1, <2>2, Zenon
    <2> QED
      BY <2>1, <2>2, <2>3, <1>4, <1>5, Zenon
  <1>8. TableOK(new)
    BY <1>2, <1>3, <1>6, <1>7, Zenon DEF TableOK
  <1> QED
    BY <1>4, <1>8, Zenon DEF new

-----------------------------------------------------------------------------
(* The directory on disk, which lags behind the one in memory *)

\* Table d holds entries of e, in the extents they have or had before; no
\* extent of d is one of another entry of e; directories are in both.
Lags(d, e) ==
  /\ TableOK(d)
  /\ \A i \in Used(d) : i \in Used(e) /\ d[i].name = e[i].name /\ Behind(d[i], e[i])
  /\ \A i \in Used(d), j \in Used(e) : i # j => Apart(d[i], e[j])
  /\ \A i \in Indices : d[i].type = "directory" <=> e[i].type = "directory"

\* Entry c, in slot i of memory, takes no sector of the others in d.
FitsDisk(d, i, c) ==
  /\ \A j \in Used(d) \ {i} : Apart(d[j], c)
  /\ i \in Used(d) => d[i].name = c.name /\ Behind(d[i], c)

\* A name with a directory in memory has one on disk.
LEMMA HousedToo ==
  ASSUME NEW d, NEW e, Lags(d, e), NEW n, Housed(e, n)
  PROVE  Housed(d, n)
PROOF
  <1> SUFFICES ASSUME NEW j \in Used(e), e[j].name = Parent[n], e[j].type = "directory"
               PROVE  \E k \in Used(d) : d[k].name = Parent[n] /\ d[k].type = "directory"
    BY Zenon DEF Housed
  <1>1. j \in Indices /\ d[j].type = "directory"
    BY Zenon DEF Used, Lags
  <1>2. j \in Used(d)
    BY <1>1, Zenon DEF Used
  <1> QED
    BY <1>1, <1>2, Zenon DEF Lags

\* What slot i can take in memory it can take on disk.
LEMMA HoldsToo ==
  ASSUME NEW d, NEW e, Lags(d, e), NEW i \in Indices, NEW c, CanHold(e, i, c), FitsDisk(d, i, c)
  PROVE  CanHold(d, i, c)
PROOF
  <1>1. \A j \in Used(d) \ {i} : d[j].name # c.name /\ Apart(d[j], c)
    <2> SUFFICES ASSUME NEW j \in Used(d) \ {i} PROVE d[j].name # c.name
      BY Zenon DEF FitsDisk
    <2>1. j \in Used(e) \ {i} /\ d[j].name = e[j].name
      BY Zenon DEF Lags
    <2> QED
      BY <2>1, Zenon DEF CanHold
  <1>2. d[i].type = "directory" => c.type = "directory" /\ c.name = d[i].name
    <2> SUFFICES ASSUME d[i].type = "directory"
                 PROVE  c.type = "directory" /\ c.name = d[i].name
      BY Zenon
    <2>1. i \in Used(d) /\ e[i].type = "directory"
      BY Zenon DEF Used, Lags
    <2> QED
      BY <2>1, Zenon DEF CanHold, FitsDisk
  <1> QED
    BY <1>1, <1>2, Zenon DEF CanHold

\* What stands after a Put.
LEMMA PutUsed ==
  ASSUME NEW dir, TableOK(dir), NEW i \in Indices, NEW e, CanHold(dir, i, e)
  PROVE  /\ \A j \in Indices : Put(dir, i, e)[j] = IF j = i THEN e ELSE dir[j]
         /\ \A j \in Used(Put(dir, i, e)) : j \in Indices /\ (j = i \/ j \in Used(dir))
         /\ i \in Used(Put(dir, i, e))
         /\ Used(dir) \subseteq Used(Put(dir, i, e))
PROOF
  <1>1. dir \in [Indices -> Records] /\ e \in Records /\ e.type # "none"
    BY Zenon DEF TableOK, CanHold, Whole
  <1>2. \A j \in Indices : Put(dir, i, e)[j] = IF j = i THEN e ELSE dir[j]
    BY <1>1, PutIs
  <1> QED
    BY <1>1, <1>2, Zenon DEF Used

\* An extent that does not change.
LEMMA BehindSame == ASSUME NEW e PROVE Behind(e, e)
PROOF
  BY Zenon DEF Behind

\* The entry changes in memory only.
LEMMA LagsMemory ==
  ASSUME NEW d, NEW e, TableOK(e), Lags(d, e), NEW i \in Indices, NEW c, CanHold(e, i, c),
         c.type # "directory", FitsDisk(d, i, c)
  PROVE  Lags(d, Put(e, i, c))
PROOF
  <1> DEFINE f == Put(e, i, c)
  <1>1. /\ \A j \in Indices : f[j] = IF j = i THEN c ELSE e[j]
        /\ \A j \in Used(f) : j \in Indices /\ (j = i \/ j \in Used(e))
        /\ i \in Used(f) /\ Used(e) \subseteq Used(f)
    BY PutUsed, Zenon
  <1> HIDE DEF f
  <1>2. ASSUME NEW j \in Used(d)
        PROVE  j \in Used(f) /\ d[j].name = f[j].name /\ Behind(d[j], f[j])
    <2>1. j \in Used(e) /\ d[j].name = e[j].name /\ Behind(d[j], e[j]) /\ j \in Indices
      BY Zenon DEF Lags, Used
    <2>2. CASE j = i
      BY <2>1, <2>2, <1>1, Zenon DEF FitsDisk
    <2>3. CASE j # i
      BY <2>1, <2>3, <1>1, Zenon
    <2> QED
      BY <2>2, <2>3, Zenon
  <1>3. ASSUME NEW j \in Used(d), NEW k \in Used(f), j # k PROVE Apart(d[j], f[k])
    <2>1. CASE k = i
      <3>1. j \in Used(d) \ {i} /\ f[k] = c
        BY <2>1, <1>1, <1>3, Zenon
      <3> QED
        BY <3>1, Zenon DEF FitsDisk
    <2>2. CASE k # i
      <3>1. k \in Used(e) /\ f[k] = e[k]
        BY <2>2, <1>1, Zenon
      <3> QED
        BY <3>1, <1>3, Zenon DEF Lags
    <2> QED
      BY <2>1, <2>2, Zenon
  <1>4. \A j \in Indices : d[j].type = "directory" <=> f[j].type = "directory"
    <2>1. e[i].type # "directory"
      BY Zenon DEF CanHold
    <2> QED
      BY <2>1, <1>1, Zenon DEF Lags
  <1>5. Lags(d, f)
    BY <1>2, <1>3, <1>4, Zenon DEF Lags
  <1> QED
    BY <1>5, Zenon DEF f

\* The entry is saved.
LEMMA LagsSave ==
  ASSUME NEW d, NEW e, TableOK(e), Lags(d, e), NEW i \in Indices, NEW c, CanHold(e, i, c),
         CanHold(d, i, c), Housed(e, c.name)
  PROVE  Lags(Put(d, i, c), Put(e, i, c))
PROOF
  <1> DEFINE f == Put(e, i, c)
             g == Put(d, i, c)
  <1>1. /\ \A j \in Indices : f[j] = IF j = i THEN c ELSE e[j]
        /\ \A j \in Used(f) : j \in Indices /\ (j = i \/ j \in Used(e))
        /\ i \in Used(f) /\ Used(e) \subseteq Used(f)
    BY PutUsed, Zenon
  <1>2. /\ \A j \in Indices : g[j] = IF j = i THEN c ELSE d[j]
        /\ \A j \in Used(g) : j \in Indices /\ (j = i \/ j \in Used(d))
        /\ i \in Used(g) /\ Used(d) \subseteq Used(g)
    BY PutUsed, Zenon DEF Lags
  <1>3. TableOK(g)
    BY HousedToo, TablePut, Zenon DEF Lags
  <1> HIDE DEF f, g
  <1>4. ASSUME NEW j \in Used(g)
        PROVE  j \in Used(f) /\ g[j].name = f[j].name /\ Behind(g[j], f[j])
    <2>1. CASE j = i
      BY <2>1, <1>1, <1>2, BehindSame, Zenon
    <2>2. CASE j # i
      <3>1. j \in Used(d) /\ g[j] = d[j] /\ f[j] = e[j]
        BY <2>2, <1>1, <1>2, Zenon
      <3> QED
        BY <3>1, <1>1, Zenon DEF Lags
    <2> QED
      BY <2>1, <2>2, Zenon
  <1>5. ASSUME NEW j \in Used(g), NEW k \in Used(f), j # k PROVE Apart(g[j], f[k])
    <2>1. CASE j = i
      <3>1. k \in Used(e) \ {i} /\ f[k] = e[k] /\ g[j] = c
        BY <2>1, <1>1, <1>2, <1>5, Zenon
      <3>2. Apart(e[k], c)
        BY <3>1, Zenon DEF CanHold
      <3> QED
        BY <3>1, <3>2, ApartSymmetric, Zenon
    <2>2. CASE k = i
      <3>1. j \in Used(d) \ {i} /\ g[j] = d[j] /\ f[k] = c
        BY <2>2, <1>1, <1>2, <1>5, Zenon
      <3> QED
        BY <3>1, Zenon DEF CanHold
    <2>3. CASE j # i /\ k # i
      <3>1. j \in Used(d) /\ k \in Used(e) /\ g[j] = d[j] /\ f[k] = e[k]
        BY <2>3, <1>1, <1>2, Zenon
      <3> QED
        BY <3>1, <1>5, Zenon DEF Lags
    <2> QED
      BY <2>1, <2>2, <2>3, Zenon
  <1>6. \A j \in Indices : g[j].type = "directory" <=> f[j].type = "directory"
    BY <1>1, <1>2, Zenon DEF Lags
  <1>7. Lags(g, f)
    BY <1>3, <1>4, <1>5, <1>6, Zenon DEF Lags
  <1> QED
    BY <1>7, Zenon DEF f, g

\* The entry is deleted.
LEMMA LagsRemove ==
  ASSUME NEW d, NEW e, TableOK(e), Lags(d, e), NEW i \in Used(e),
         e[i].type = "directory" => \A j \in Used(e) : Parent[e[j].name] # e[i].name
  PROVE  Lags(Put(d, i, NoEntry), Put(e, i, NoEntry))
PROOF
  <1> DEFINE f == Put(e, i, NoEntry)
             g == Put(d, i, NoEntry)
  <1>0. /\ d \in [Indices -> Records] /\ e \in [Indices -> Records] /\ i \in Indices
        /\ NoEntry \in Records /\ NoEntry.type = "none"
    BY NoEntryWhole, Zenon DEF Lags, TableOK, Used, Whole
  <1>1. /\ \A j \in Indices : f[j] = IF j = i THEN NoEntry ELSE e[j]
        /\ \A j \in Indices : g[j] = IF j = i THEN NoEntry ELSE d[j]
    <2>1. \A j \in Indices : f[j] = IF j = i THEN NoEntry ELSE e[j]
      BY <1>0, PutIs
    <2>2. \A j \in Indices : g[j] = IF j = i THEN NoEntry ELSE d[j]
      BY <1>0, Zenon DEF Put
    <2> QED
      BY <2>1, <2>2, Zenon
  <1>2. Used(f) = Used(e) \ {i}
    BY TableRemove, Zenon
  <1>3. Used(g) = Used(d) \ {i} /\ TableOK(g)
    <2>1. CASE i \in Used(d)
      <3>1. d[i].type = "directory" => \A j \in Used(d) : Parent[d[j].name] # d[i].name
        BY <2>1, <1>0, Zenon DEF Lags
      <3> QED
        BY <2>1, <3>1, TableRemove, Zenon DEF Lags
    <2>2. CASE i \notin Used(d)
      <3>1. d[i].type = "none" /\ d[i].name = Root /\ Whole(d[i])
        BY <2>2, <1>0, Zenon DEF Used, Lags, TableOK, Whole
      <3>2. \A j \in Indices : g[j].type = d[j].type
        BY <1>1, <3>1, <1>0, Zenon
      <3>3. Used(g) = Used(d)
        BY <3>2, Zenon DEF Used
      <3>4. \A j \in Used(d) : j \in Indices /\ g[j] = d[j]
        BY <1>1, <2>2, Zenon DEF Used
      <3>5. g \in [Indices -> Records] /\ \A j \in Indices : Whole(g[j])
        BY <1>0, <1>1, PutIs, NoEntryWhole, Zenon DEF Lags, TableOK
      <3>6. \A j, k \in Used(g) : j # k => g[j].name # g[k].name /\ Apart(g[j], g[k])
        <4> SUFFICES ASSUME NEW j \in Used(d), NEW k \in Used(d), j # k
                     PROVE  g[j].name # g[k].name /\ Apart(g[j], g[k])
          BY <3>3, Zenon
        <4>1. g[j] = d[j] /\ g[k] = d[k]
          BY <3>4, Zenon
        <4>2. d[j].name # d[k].name /\ Apart(d[j], d[k])
          BY Zenon DEF Lags, TableOK
        <4> QED
          BY <4>1, <4>2, Zenon
      <3>7. Connected(g)
        <4> SUFFICES ASSUME NEW j \in Used(d), Parent[g[j].name] # Root
                     PROVE  \E k \in Used(d) : g[k].name = Parent[g[j].name]
                                               /\ g[k].type = "directory"
          BY <3>3, Zenon DEF Connected
        <4>1. g[j] = d[j]
          BY <3>4, Zenon
        <4>2. PICK k \in Used(d) : d[k].name = Parent[d[j].name] /\ d[k].type = "directory"
          BY <4>1, Zenon DEF Lags, TableOK, Connected
        <4>3. g[k] = d[k]
          BY <3>4, Zenon
        <4> QED
          BY <4>1, <4>2, <4>3, Zenon
      <3> QED
        BY <3>3, <3>5, <3>6, <3>7, <2>2, Zenon DEF TableOK
    <2> QED
      BY <2>1, <2>2, Zenon
  <1> HIDE DEF f, g
  <1>4. \A j \in Used(g) : j \in Used(f) /\ g[j].name = f[j].name /\ Behind(g[j], f[j])
    BY <1>1, <1>2, <1>3, Zenon DEF Lags, Used
  <1>5. \A j \in Used(g), k \in Used(f) : j # k => Apart(g[j], f[k])
    BY <1>1, <1>2, <1>3, Zenon DEF Lags, Used
  <1>6. \A j \in Indices : g[j].type = "directory" <=> f[j].type = "directory"
    BY <1>1, Zenon DEF Lags
  <1>7. Lags(g, f)
    BY <1>3, <1>4, <1>5, <1>6, Zenon DEF Lags
  <1> QED
    BY <1>7, Zenon DEF f, g

-----------------------------------------------------------------------------
(* What a path holds *)

ReadIn(dk, e) ==
  [k \in 1..e.size |-> IF OnDisk(e.start + k - 1) THEN dk[e.start + k - 1] ELSE "error"]
Told(dk, e) == <<e.type>> \o ReadIn(dk, e)
HoldIn(dir, dk, n) ==
  IF Named(dir, n) = {} THEN <<"absent">> ELSE Told(dk, dir[Lowest(Named(dir, n))])

\* What a path holds, as a function of directory and disk.
LEMMA HoldingIs ==
  ASSUME NEW dir, NEW n PROVE Holding(dir, n) = HoldIn(dir, disk, n)
PROOF
  BY Zenon DEF Holding, HoldIn, Told, ReadIn, ReadSectors

\* The lowest of one.
LEMMA LowestOne ==
  ASSUME NEW j \in Int PROVE Lowest({j}) = j
PROOF
  <1>1. \E x \in {j} : \A y \in {j} : x <= y
    OBVIOUS
  <1> QED
    BY <1>1, Zenon DEF Lowest

\* Names are unique: a path has one entry, or none.
LEMMA HoldEntry ==
  ASSUME NEW dir, TableOK(dir), NEW j \in Used(dir), NEW dk
  PROVE  HoldIn(dir, dk, dir[j].name) = Told(dk, dir[j])
PROOF
  <1>1. Named(dir, dir[j].name) = {j}
    <2>1. \A k \in Used(dir) : dir[k].name = dir[j].name => k = j
      BY Zenon DEF TableOK
    <2> QED
      BY <2>1, Zenon DEF Named
  <1>2. j \in Int
    BY DEF Used, Indices
  <1>3. Lowest({j}) = j
    BY <1>2, LowestOne, Zenon
  <1>4. {j} # {}
    BY Zenon
  <1> QED
    BY <1>1, <1>3, <1>4, Zenon DEF HoldIn

\* The slots with a name are in use.
LEMMA NamedIs ==
  ASSUME NEW dir, TableOK(dir), NEW n \in Names
  PROVE  Named(dir, n) = {j \in Indices : dir[j].name = n}
PROOF
  <1>1. n # Root
    BY TreeAssumption, Zenon
  <1>2. \A j \in Indices : dir[j].name = n => dir[j].type # "none"
    BY <1>1, Zenon DEF TableOK, Whole
  <1> QED
    BY <1>2, Zenon DEF Named, Used

\* A change of slot i leaves the other paths what they were.
LEMMA HoldOther ==
  ASSUME NEW dir, TableOK(dir), NEW new, TableOK(new), NEW i \in Indices,
         \A j \in Indices : j # i => new[j] = dir[j],
         NEW n \in Names, dir[i].name # n, new[i].name # n, NEW dk
  PROVE  HoldIn(new, dk, n) = HoldIn(dir, dk, n)
PROOF
  <1>1. \A j \in Indices : new[j].name = n <=> dir[j].name = n
    BY Zenon
  <1>2. Named(new, n) = Named(dir, n)
    <2>1. Named(new, n) = {j \in Indices : new[j].name = n}
      BY NamedIs
    <2>2. Named(dir, n) = {j \in Indices : dir[j].name = n}
      BY NamedIs
    <2> QED
      BY <2>1, <2>2, <1>1, Zenon
  <1>3. CASE Named(dir, n) = {}
    BY <1>2, <1>3, Zenon DEF HoldIn
  <1>4. CASE Named(dir, n) # {}
    <2>1. PICK j : j \in Named(dir, n) /\ j \in Named(new, n)
      BY <1>4, <1>2, Zenon
    <2>2. j \in Used(dir) /\ j \in Used(new) /\ j \in Indices /\ dir[j].name = n /\ new[j].name = n
      BY <2>1, Zenon DEF Named, Used
    <2>3. HoldIn(dir, dk, n) = Told(dk, dir[j]) /\ HoldIn(new, dk, n) = Told(dk, new[j])
      BY <2>2, HoldEntry, Zenon
    <2>4. new[j] = dir[j]
      BY <2>2, Zenon
    <2> QED
      BY <2>3, <2>4, Zenon
  <1> QED
    BY <1>3, <1>4, Zenon

\* A write outside a path's extent does not change what it holds.
LEMMA ToldSame ==
  ASSUME NEW dk, NEW e, Whole(e), NEW lba \in Nat, lba \notin Extent(e), NEW v
  PROVE  Told([dk EXCEPT ![lba] = v], e) = Told(dk, e)
PROOF
  <1> DEFINE dk2 == [dk EXCEPT ![lba] = v]
  <1>1. e.start \in Nat /\ e.size \in Nat /\ e.capacity \in Nat /\ e.size <= e.capacity
    BY Zenon DEF Whole, Records
  <1>2. ASSUME NEW k \in 1..e.size PROVE dk2[e.start + k - 1] = dk[e.start + k - 1]
    <2>1. e.start + k - 1 \in Extent(e)
      BY <1>1 DEF Extent
    <2>2. e.start + k - 1 # lba
      BY <2>1, Zenon
    <2> QED
      BY <2>2
  <1> HIDE DEF dk2
  <1>3. ReadIn(dk2, e) = ReadIn(dk, e)
    BY <1>2, Zenon DEF ReadIn
  <1> QED
    BY <1>3, Zenon DEF Told, dk2

\* The disk after one sector's write.
Written(dk, lba, v) == [dk EXCEPT ![lba] = v]

\* A write outside a path's extent does not change what the directory gives.
LEMMA HoldDisk ==
  ASSUME NEW dir, TableOK(dir), NEW dk, NEW lba \in Nat, NEW v, NEW n,
         \A j \in Used(dir) : dir[j].name = n => lba \notin Extent(dir[j])
  PROVE  HoldIn(dir, Written(dk, lba, v), n) = HoldIn(dir, dk, n)
PROOF
  <1>1. CASE Named(dir, n) = {}
    BY <1>1, Zenon DEF HoldIn
  <1>2. CASE Named(dir, n) # {}
    <2>1. PICK j : j \in Used(dir) /\ dir[j].name = n
      BY <1>2, Zenon DEF Named
    <2>2. Whole(dir[j]) /\ lba \notin Extent(dir[j])
      BY <2>1, Zenon DEF TableOK, Used
    <2> DEFINE dk2 == Written(dk, lba, v)
    <2>3. Told(dk2, dir[j]) = Told(dk, dir[j])
      BY <2>2, ToldSame, Zenon DEF Written
    <2> HIDE DEF dk2
    <2>4. HoldIn(dir, dk, n) = Told(dk, dir[j]) /\ HoldIn(dir, dk2, n) = Told(dk2, dir[j])
      BY <2>1, HoldEntry, Zenon
    <2>5. HoldIn(dir, dk2, n) = HoldIn(dir, dk, n)
      BY <2>3, <2>4, Zenon
    <2> QED
      BY <2>5, Zenon DEF dk2
  <1> QED
    BY <1>1, <1>2, Zenon

-----------------------------------------------------------------------------
(* Where a new extent goes, and a new entry *)

\* The sizes of a volume.
LEMMA VolumeFacts ==
  ASSUME volume \in Volumes
  PROVE  /\ MaxEntries \in Nat /\ Sectors \in Nat /\ MaxSize \in Nat
         /\ volume.names \subseteq Names /\ Zero \in Values /\ volume.links \subseteq Links
PROOF
  BY VolumesAssumption, Zenon DEF MaxEntries, Sectors, MaxSize, Values, Links

\* next_data_lba lies behind every extent in use.
LEMMA NextBehind ==
  ASSUME volume \in Volumes, TableOK(entries)
  PROVE  /\ next_data_lba \in Nat
         /\ \A i \in Used(entries) : End(entries[i]) <= next_data_lba
PROOF
  <1> DEFINE f == [i \in 1..MaxEntries |-> End(entries[i])]
             ends == {entries[i].start + entries[i].capacity : i \in Used(entries)}
  <1>1. \A i \in Indices : End(entries[i]) \in Nat
    <2> SUFFICES ASSUME NEW i \in Indices PROVE End(entries[i]) \in Nat
      BY Zenon
    <2>1. entries[i] \in Records
      BY Zenon DEF TableOK
    <2> QED
      BY <2>1 DEF Records, End
  <1>2. f \in [1..MaxEntries -> Nat]
    BY <1>1, Zenon DEF Indices
  <1>3. Used(entries) \in SUBSET (1..MaxEntries)
    BY Zenon DEF Used, Indices
  <1>4. CASE Used(entries) = {}
    <2>1. ends = {}
      BY <1>4, Zenon
    <2> QED
      BY <2>1, <1>4, Zenon DEF next_data_lba
  <1>5. CASE Used(entries) # {}
    <2>1. PICK m \in Used(entries) : \A k \in Used(entries) : f[k] <= f[m]
      BY <1>2, <1>3, <1>5, VolumeFacts, LargestValue, Zenon
    <2>2. \A k \in Used(entries) : f[k] = End(entries[k])
      BY <1>3, Zenon
    <2>3. End(entries[m]) \in ends /\ \A x \in ends : End(entries[m]) >= x
      <3>1. \A k \in Used(entries) : End(entries[k]) <= End(entries[m])
        BY <2>1, <2>2, Zenon
      <3> QED
        BY <3>1, Zenon DEF End
    <2>4. ends # {} /\ \E e \in ends : \A x \in ends : e >= x
      BY <2>3, Zenon
    <2>5. next_data_lba \in ends /\ \A x \in ends : next_data_lba >= x
      BY <2>4, Zenon DEF next_data_lba
    <2>6. \A k \in Used(entries) : End(entries[k]) \in ends
      BY Zenon DEF End
    <2>7. \A x \in ends : x \in Nat
      BY <1>1, <1>3, Zenon DEF End, Indices
    <2> HIDE DEF ends, f
    <2> QED
      BY <2>5, <2>6, <2>7, <1>1, Zenon DEF Used
  <1> QED
    BY <1>4, <1>5, Zenon

\* A new entry takes a free slot, and its name is new.
LEMMA AllocateIs ==
  ASSUME volume \in Volumes, TableOK(entries), NEW n \in Names, NEW i \in allocate_entry(n)
  PROVE  /\ i \in Indices /\ i \notin Used(entries) /\ Housed(entries, n)
         /\ \A j \in Indices : entries[j].name # n
         /\ Named(entries, n) = {}
PROOF
  <1>1. /\ Named(entries, n) = {} /\ parent_directory_exists(n) /\ Used(entries) # Indices
        /\ i = Lowest(Indices \ Used(entries))
    BY Zenon DEF allocate_entry
  <1>2. Indices \ Used(entries) # {} /\ Indices \ Used(entries) \subseteq Nat
    BY <1>1, VolumeFacts DEF Used, Indices
  <1>3. \E x \in Indices \ Used(entries) : \A y \in Indices \ Used(entries) : x <= y
    BY <1>2, LeastNatural, Zenon
  <1>4. i \in Indices \ Used(entries)
    BY <1>1, <1>3, Zenon DEF Lowest
  <1>5. Housed(entries, n)
    BY <1>1, Zenon DEF parent_directory_exists, Housed, Named
  <1>6. \A j \in Indices : entries[j].name # n
    BY <1>1, NamedIs
  <1> QED
    BY <1>1, <1>4, <1>5, <1>6, Zenon

\* The volume does not change, so a statement about the next state's tables is
\* one about primed tables.
LEMMA SameVolume ==
  ASSUME volume' = volume
  PROVE  /\ Indices' = Indices /\ Sectors' = Sectors /\ Faults' = Faults
         /\ DirectoryKept' = DirectoryKept /\ Trusted' = Trusted
PROOF
  BY Zenon DEF Indices, MaxEntries, Sectors, Faults, DirectoryKept, Trusted

\* The volume does not change, so the slots in use are those of the new
\* tables.
LEMMA SameUsed ==
  ASSUME volume' = volume
  PROVE  /\ Used(entries)' = Used(entries')
         /\ Used(directory)' = Used(directory')
PROOF
  BY SameVolume, Zenon DEF Used

\* The volume does not change, so soundness of tables means the same.
LEMMA SameTable ==
  ASSUME volume' = volume
  PROVE  /\ TableOK(entries)' <=> TableOK(entries')
         /\ Lags(directory, entries)' <=> Lags(directory', entries')
PROOF
  <1>1. Indices' = Indices /\ Used(entries)' = Used(entries') /\ Used(directory)' = Used(directory')
    BY SameVolume, SameUsed, Zenon
  <1>2. TableOK(entries)' <=> TableOK(entries')
    BY <1>1, ZenonT(60) DEF TableOK, Connected
  <1>3. TableOK(directory)' <=> TableOK(directory')
    BY <1>1, ZenonT(60) DEF TableOK, Connected
  <1>4. Lags(directory, entries)' <=> Lags(directory', entries')
    BY <1>1, <1>3, Zenon DEF Lags
  <1> QED
    BY <1>2, <1>4, Zenon

\* The volume does not change, so what paths hold means the same.
LEMMA SameHold ==
  ASSUME volume' = volume, NEW n
  PROVE  /\ HoldIn(entries, disk, n)' = HoldIn(entries', disk', n)
         /\ HoldIn(directory, disk, n)' = HoldIn(directory', disk', n)
PROOF
  <1>1. Used(entries)' = Used(entries') /\ Used(directory)' = Used(directory') /\ Sectors' = Sectors
    BY SameVolume, SameUsed, Zenon
  <1>2. HoldIn(entries, disk, n)' = HoldIn(entries', disk', n)
    BY <1>1, Zenon DEF HoldIn, Named, Told, ReadIn, OnDisk
  <1>3. HoldIn(directory, disk, n)' = HoldIn(directory', disk', n)
    BY <1>1, Zenon DEF HoldIn, Named, Told, ReadIn, OnDisk
  <1> QED
    BY <1>2, <1>3, Zenon

-----------------------------------------------------------------------------
(* The invariant *)

Stored == Values \cup volume.links
Tickets == [lba : Nat, value : Stored, entry : Records]

\* Entry c may stand in slot i of memory and then be saved there: it lies in
\* a directory, keeps the slot's name, and takes no sector of another entry,
\* in memory or on disk.
Ready(e, d, i, c) ==
  /\ CanHold(e, i, c) /\ c.type \in {"file", "symlink"} /\ Housed(e, c.name)
  /\ i \in Used(e) => e[i].name = c.name
  /\ DirectoryKept => FitsDisk(d, i, c)

\* The caller of the operation in progress knows nothing of its path, and
\* everything the operation will write lies in its own extent.
Working(o, e, d, pr) ==
  /\ o = Plan(o.kind, o.index, o.writes, o.final)
  /\ o.index \in Used(e) /\ pr[e[o.index].name] = Unknown
  /\ Ready(e, d, o.index, o.final)
  /\ o.writes \in Seq(Tickets)
  /\ \A k \in 1..Len(o.writes) : /\ Ready(e, d, o.index, o.writes[k].entry)
                                 /\ o.writes[k].lba \in Extent(o.final)

Held(dir, dk, pr) == \A n \in Names : pr[n] \in {Unknown, HoldIn(dir, dk, n)}

\* The directories and what they hold agree with what callers were told.
Tables(e, d, dk, pr) ==
  /\ TableOK(e) /\ Held(e, dk, pr)
  /\ DirectoryKept => Lags(d, e) /\ Held(d, dk, pr)

\* What holds on a volume no reboot of which reads a directory that lost
\* writes.
Sound(e, d, dk, o, pr) ==
  /\ dk \in [0..(Sectors - 1) -> Stored] /\ DOMAIN pr = Names
  /\ Tables(e, d, dk, pr)
  /\ o # Idle => Working(o, e, d, pr)

VolumeInv ==
  /\ volume \in Volumes
  /\ Trusted => Sound(entries, directory, disk, op, promised)

-----------------------------------------------------------------------------
(* Entries that are ready *)

Sized(c, s) == [c EXCEPT !.size = s]
Moved(c, s, n) == [c EXCEPT !.start = s, !.capacity = n]
Linked(c) == [c EXCEPT !.type = "symlink"]

\* An entry with another size.
LEMMA SizedIs ==
  ASSUME NEW c \in Records, NEW s \in Nat
  PROVE  /\ Sized(c, s) \in Records
         /\ Sized(c, s).name = c.name /\ Sized(c, s).type = c.type /\ Sized(c, s).size = s
         /\ Sized(c, s).start = c.start /\ Sized(c, s).capacity = c.capacity
PROOF
  BY Zenon DEF Sized, Records

\* An entry in another extent.
LEMMA MovedIs ==
  ASSUME NEW x \in Records, NEW at \in Nat, NEW room \in Nat
  PROVE  /\ Moved(x, at, room) \in Records
         /\ Moved(x, at, room).name = x.name /\ Moved(x, at, room).type = x.type
         /\ Moved(x, at, room).size = x.size
         /\ Moved(x, at, room).start = at /\ Moved(x, at, room).capacity = room
PROOF
  BY Zenon DEF Moved, Records

\* An entry turned into a link.
LEMMA LinkedIs ==
  ASSUME NEW c \in Records
  PROVE  /\ Linked(c) \in Records
         /\ Linked(c).name = c.name /\ Linked(c).type = "symlink" /\ Linked(c).size = c.size
         /\ Linked(c).start = c.start /\ Linked(c).capacity = c.capacity
PROOF
  BY Zenon DEF Linked, Records, Types

\* Another entry of the same name in the same extent is ready too.
LEMMA ReadySame ==
  ASSUME NEW e, NEW d, NEW i, NEW c, Ready(e, d, i, c), NEW b, Whole(b),
         b.name = c.name, b.type \in {"file", "symlink"},
         b.start = c.start, b.capacity = c.capacity
  PROVE  Ready(e, d, i, b)
PROOF
  <1>1. \A x : Apart(x, c) => Apart(x, b)
    BY Zenon DEF Apart, End
  <1>2. \A x : Behind(x, c) => Behind(x, b)
    BY Zenon DEF Behind
  <1>3. c.type # "directory" /\ b.type # "none"
    BY Zenon DEF Ready
  <1>4. CanHold(e, i, b)
    BY <1>1, <1>3, Zenon DEF Ready, CanHold
  <1>5. FitsDisk(d, i, c) => FitsDisk(d, i, b)
    BY <1>1, <1>2, Zenon DEF FitsDisk
  <1>6. Housed(e, b.name)
    BY Zenon DEF Ready
  <1> QED
    BY <1>4, <1>5, <1>6, Zenon DEF Ready

\* An entry that is ready stays so with a size that fits.
LEMMA ReadySized ==
  ASSUME NEW e, NEW d, NEW i, NEW c, Ready(e, d, i, c), NEW s \in Nat, s <= c.capacity
  PROVE  Ready(e, d, i, Sized(c, s))
PROOF
  <1>1. c \in Records /\ c.type \in {"file", "symlink"} /\ (c.type = "none" <=> c.name = Root)
    BY Zenon DEF Ready, CanHold, Whole
  <1> DEFINE b == Sized(c, s)
  <1>2. /\ b \in Records /\ b.name = c.name /\ b.type = c.type /\ b.size = s
        /\ b.start = c.start /\ b.capacity = c.capacity
    BY <1>1, SizedIs, Zenon
  <1> HIDE DEF b
  <1>3. Whole(b) /\ b.type \in {"file", "symlink"}
    BY <1>1, <1>2, Zenon DEF Whole
  <1>4. Ready(e, d, i, b)
    BY <1>2, <1>3, ReadySame, Zenon
  <1> QED
    BY <1>4, Zenon DEF b

\* An entry that is ready stays so as a link.
LEMMA ReadyLinked ==
  ASSUME NEW e, NEW d, NEW i, NEW c, Ready(e, d, i, c)
  PROVE  Ready(e, d, i, Linked(c))
PROOF
  <1>1. /\ c \in Records /\ c.type # "none" /\ (c.type = "none" <=> c.name = Root)
        /\ c.size <= c.capacity
    BY Zenon DEF Ready, CanHold, Whole
  <1> DEFINE b == Linked(c)
  <1>2. /\ b \in Records /\ b.name = c.name /\ b.type = "symlink" /\ b.size = c.size
        /\ b.start = c.start /\ b.capacity = c.capacity
    BY <1>1, LinkedIs, Zenon
  <1> HIDE DEF b
  <1>3. Whole(b) /\ b.type \in {"file", "symlink"}
    BY <1>1, <1>2, Zenon DEF Whole
  <1>4. Ready(e, d, i, b)
    BY <1>2, <1>3, ReadySame, Zenon
  <1> QED
    BY <1>4, Zenon DEF b

\* An extent behind all others is free, in memory and on disk.
LEMMA ReadyMoved ==
  ASSUME NEW e, NEW d, TableOK(e), DirectoryKept => Lags(d, e), NEW i \in Indices, NEW c,
         Ready(e, d, i, c), NEW s \in Nat, \A j \in Used(e) : End(e[j]) <= s,
         NEW n \in Nat, c.capacity <= n
  PROVE  Ready(e, d, i, Moved(c, s, n))
PROOF
  <1>1. /\ c \in Records /\ c.type \in {"file", "symlink"} /\ (c.type = "none" <=> c.name = Root)
        /\ c.size <= c.capacity
    BY Zenon DEF Ready, CanHold, Whole
  <1>2. c.size \in Nat /\ c.capacity \in Nat
    BY <1>1, Zenon DEF Records
  <1> DEFINE b == Moved(c, s, n)
  <1>3. /\ b \in Records /\ b.name = c.name /\ b.type = c.type /\ b.size = c.size
        /\ b.start = s /\ b.capacity = n
    BY <1>1, MovedIs
  <1> HIDE DEF b
  <1>4. Whole(b) /\ b.type \in {"file", "symlink"} /\ b.type # "none"
    BY <1>1, <1>2, <1>3 DEF Whole
  <1>5. \A j \in Used(e) : Apart(e[j], b)
    BY <1>3, Zenon DEF Apart
  <1>6. CanHold(e, i, b)
    BY <1>3, <1>4, <1>5, Zenon DEF Ready, CanHold
  <1>7. ASSUME DirectoryKept, NEW j \in Used(d) PROVE End(d[j]) <= s
    <2>1. j \in Used(e) /\ Behind(d[j], e[j]) /\ d[j] \in Records /\ e[j] \in Records
      BY <1>7, Zenon DEF Lags, TableOK, Used
    <2>2. End(e[j]) <= s
      BY <2>1, Zenon
    <2>3. /\ d[j].start \in Nat /\ d[j].capacity \in Nat
          /\ e[j].start \in Nat /\ e[j].capacity \in Nat
      BY <2>1, Zenon DEF Records
    <2> QED
      BY <2>1, <2>2, <2>3 DEF Behind, End
  <1>8. ASSUME DirectoryKept PROVE FitsDisk(d, i, b)
    <2>1. \A j \in Used(d) : Apart(d[j], b) /\ Behind(d[j], b)
      BY <1>7, <1>8, <1>3, Zenon DEF Apart, Behind
    <2> QED
      BY <2>1, <1>3, <1>8, Zenon DEF FitsDisk, Ready
  <1>9. Housed(e, b.name)
    BY <1>3, Zenon DEF Ready
  <1>10. Ready(e, d, i, b)
    BY <1>3, <1>4, <1>6, <1>8, <1>9, Zenon DEF Ready
  <1> QED
    BY <1>10, Zenon DEF b

\* Changing the slot in memory leaves what is ready for it ready.
LEMMA ReadyAfter ==
  ASSUME NEW e, NEW d, TableOK(e), NEW i \in Indices, NEW c, Ready(e, d, i, c),
         NEW b, Ready(e, d, i, b), b.name = c.name
  PROVE  Ready(Put(e, i, c), d, i, b)
PROOF
  <1> DEFINE f == Put(e, i, c)
  <1>0. CanHold(e, i, c) /\ CanHold(e, i, b) /\ c.type # "directory"
    BY Zenon DEF Ready
  <1>1. /\ \A j \in Indices : f[j] = IF j = i THEN c ELSE e[j]
        /\ \A j \in Used(f) : j \in Indices /\ (j = i \/ j \in Used(e))
        /\ i \in Used(f) /\ Used(e) \subseteq Used(f)
    BY <1>0, PutUsed, Zenon
  <1> HIDE DEF f
  <1>2. \A j \in Used(f) \ {i} : j \in Used(e) \ {i} /\ f[j] = e[j]
    BY <1>1, Zenon
  <1>3. CanHold(f, i, b)
    BY <1>0, <1>1, <1>2, Zenon DEF CanHold
  <1>4. Housed(f, b.name)
    <2> SUFFICES ASSUME Parent[b.name] # Root
                 PROVE  \E j \in Used(f) : f[j].name = Parent[b.name] /\ f[j].type = "directory"
      BY Zenon DEF Housed
    <2>1. PICK j \in Used(e) : e[j].name = Parent[b.name] /\ e[j].type = "directory"
      BY Zenon DEF Ready, Housed
    <2>2. j # i /\ j \in Indices
      BY <2>1, <1>0, Zenon DEF CanHold, Used
    <2>3. j \in Used(f) /\ f[j] = e[j]
      BY <1>1, <2>2, Zenon
    <2> QED
      BY <2>1, <2>3, Zenon
  <1>5. Ready(f, d, i, b)
    BY <1>1, <1>3, <1>4, Zenon DEF Ready
  <1> QED
    BY <1>5, Zenon DEF f

-----------------------------------------------------------------------------
(* What callers were told *)

\* Promises survive a change of an entry nothing is promised of.
LEMMA HeldChange ==
  ASSUME NEW dir, TableOK(dir), NEW new, TableOK(new), NEW i \in Indices,
         \A j \in Indices : j # i => new[j] = dir[j],
         NEW dk, NEW pr, Held(dir, dk, pr),
         \A n \in Names : dir[i].name = n \/ new[i].name = n => pr[n] = Unknown
  PROVE  Held(new, dk, pr)
PROOF
  <1> SUFFICES ASSUME NEW n \in Names, pr[n] # Unknown PROVE pr[n] = HoldIn(new, dk, n)
    BY Zenon DEF Held
  <1>0. dir[i].name # n
    BY Zenon
  <1>1. new[i].name # n
    BY Zenon
  <1>2. HoldIn(new, dk, n) = HoldIn(dir, dk, n)
    BY <1>0, <1>1, HoldOther, ZenonT(60)
  <1>3. pr[n] = HoldIn(dir, dk, n)
    BY Zenon DEF Held
  <1> QED
    BY <1>2, <1>3, Zenon

\* Promises survive a write to a sector outside the extents they are about.
LEMMA HeldDisk ==
  ASSUME NEW dir, TableOK(dir), NEW dk, NEW pr, Held(dir, dk, pr), NEW lba \in Nat, NEW v,
         \A j \in Used(dir) : pr[dir[j].name] # Unknown => lba \notin Extent(dir[j])
  PROVE  Held(dir, [dk EXCEPT ![lba] = v], pr)
PROOF
  <1> DEFINE dk2 == Written(dk, lba, v)
  <1>1. ASSUME NEW n \in Names, pr[n] # Unknown PROVE HoldIn(dir, dk2, n) = HoldIn(dir, dk, n)
    <2>1. \A j \in Used(dir) : dir[j].name = n => lba \notin Extent(dir[j])
      BY <1>1, Zenon
    <2> QED
      BY <2>1, HoldDisk, ZenonT(60)
  <1> HIDE DEF dk2
  <1>2. Held(dir, dk2, pr)
    BY <1>1, Zenon DEF Held
  <1> QED
    BY <1>2, Zenon DEF dk2, Written

Tell(pr, n, v) == [pr EXCEPT ![n] = v]

\* What callers know after they are told one thing more.
LEMMA TellIs ==
  ASSUME NEW pr, DOMAIN pr = Names, NEW n \in Names, NEW v
  PROVE  /\ DOMAIN Tell(pr, n, v) = Names
         /\ \A m \in Names : Tell(pr, n, v)[m] = IF m = n THEN v ELSE pr[m]
PROOF
  BY Zenon DEF Tell

\* A promise may be withdrawn, or made when it is true.
LEMMA HeldTell ==
  ASSUME NEW dir, NEW dk, NEW pr, DOMAIN pr = Names, Held(dir, dk, pr), NEW n \in Names, NEW v,
         v \in {Unknown, HoldIn(dir, dk, n)}
  PROVE  Held(dir, dk, Tell(pr, n, v))
PROOF
  <1>1. \A m \in Names : Tell(pr, n, v)[m] = IF m = n THEN v ELSE pr[m]
    BY TellIs
  <1> QED
    BY <1>1, Zenon DEF Held

-----------------------------------------------------------------------------
(* Steps on the tables *)

\* An entry that is ready has a name.
LEMMA ReadyNamed ==
  ASSUME NEW e, NEW d, NEW i, NEW c, Ready(e, d, i, c) PROVE c.name \in Names
PROOF
  <1>1. c \in Records /\ c.type # "none" /\ (c.type = "none" <=> c.name = Root)
    BY Zenon DEF Ready, CanHold, Whole
  <1>2. c.name \in Names \cup {Root}
    BY <1>1, Zenon DEF Records
  <1> QED
    BY <1>1, <1>2, Zenon

\* A name that is not the root's stands in a used slot.
LEMMA NamedUsed ==
  ASSUME NEW dir, TableOK(dir), NEW i \in Indices, dir[i].name \in Names
  PROVE  i \in Used(dir)
PROOF
  BY TreeAssumption, Zenon DEF TableOK, Whole, Used

\* An entry of which nothing is promised may be replaced.
LEMMA HeldPut ==
  ASSUME NEW dir, TableOK(dir), NEW i \in Indices, NEW c, CanHold(dir, i, c), Housed(dir, c.name),
         i \in Used(dir) => dir[i].name = c.name,
         NEW dk, NEW pr, Held(dir, dk, pr), pr[c.name] = Unknown
  PROVE  Held(Put(dir, i, c), dk, pr)
PROOF
  <1> DEFINE new == Put(dir, i, c)
  <1>1. \A j \in Indices : new[j] = IF j = i THEN c ELSE dir[j]
    BY PutUsed
  <1>2. TableOK(new)
    BY TablePut, Zenon
  <1> HIDE DEF new
  <1>3. \A j \in Indices : j # i => new[j] = dir[j]
    BY <1>1, Zenon
  <1>4. \A n \in Names : dir[i].name = n \/ new[i].name = n => pr[n] = Unknown
    BY <1>1, NamedUsed, Zenon
  <1>5. Held(new, dk, pr)
    BY <1>2, <1>3, <1>4, HeldChange
  <1> QED
    BY <1>5, Zenon DEF new

\* A change in memory alone keeps tables and promises in agreement.
LEMMA MemoryStep ==
  ASSUME NEW e, NEW d, NEW dk, NEW pr, Tables(e, d, dk, pr), NEW i \in Indices, NEW c,
         Ready(e, d, i, c), pr[c.name] = Unknown
  PROVE  Tables(Put(e, i, c), d, dk, pr)
PROOF
  <1>1. /\ TableOK(e) /\ CanHold(e, i, c) /\ Housed(e, c.name) /\ c.type # "directory"
        /\ i \in Used(e) => e[i].name = c.name
        /\ Held(e, dk, pr)
    BY Zenon DEF Tables, Ready
  <1>2. TableOK(Put(e, i, c))
    BY <1>1, TablePut, Zenon
  <1>3. Held(Put(e, i, c), dk, pr)
    BY <1>1, HeldPut, Zenon
  <1>4. DirectoryKept => Lags(d, Put(e, i, c)) /\ Held(d, dk, pr)
    BY <1>1, LagsMemory, Zenon DEF Tables, Ready
  <1> QED
    BY <1>2, <1>3, <1>4, Zenon DEF Tables

\* So does a change that is saved to disk.
LEMMA SaveStep ==
  ASSUME NEW e, NEW d, NEW dk, NEW pr, Tables(e, d, dk, pr), NEW i \in Indices, NEW c,
         Ready(e, d, i, c), pr[c.name] = Unknown
  PROVE  Tables(Put(e, i, c), Put(d, i, c), dk, pr)
PROOF
  <1>1. /\ TableOK(e) /\ CanHold(e, i, c) /\ Housed(e, c.name)
    BY Zenon DEF Tables, Ready
  <1>2. TableOK(Put(e, i, c)) /\ Held(Put(e, i, c), dk, pr)
    BY MemoryStep, Zenon DEF Tables
  <1>3. ASSUME DirectoryKept
        PROVE  Lags(Put(d, i, c), Put(e, i, c)) /\ Held(Put(d, i, c), dk, pr)
    <2>1. Lags(d, e) /\ Held(d, dk, pr) /\ FitsDisk(d, i, c) /\ TableOK(d)
      BY <1>3, Zenon DEF Tables, Ready, Lags
    <2>2. CanHold(d, i, c) /\ Housed(d, c.name)
      BY <2>1, <1>1, HoldsToo, HousedToo, Zenon
    <2>3. Lags(Put(d, i, c), Put(e, i, c))
      BY <2>1, <2>2, <1>1, LagsSave, Zenon
    <2>4. i \in Used(d) => d[i].name = c.name
      BY <2>1, Zenon DEF FitsDisk
    <2>5. Held(Put(d, i, c), dk, pr)
      BY <2>1, <2>2, <2>4, HeldPut, Zenon
    <2> QED
      BY <2>3, <2>5, Zenon
  <1> QED
    BY <1>2, <1>3, Zenon DEF Tables

\* So does a write to the operation's own extent.
LEMMA DiskStep ==
  ASSUME NEW e, NEW d, NEW dk, NEW pr, Tables(e, d, dk, pr), NEW i \in Indices, NEW c,
         Ready(e, d, i, c), pr[c.name] = Unknown, NEW lba \in Nat, lba \in Extent(c), NEW v
  PROVE  Tables(e, d, [dk EXCEPT ![lba] = v], pr)
PROOF
  <1>1. TableOK(e) /\ Held(e, dk, pr) /\ CanHold(e, i, c) /\ c \in Records
        /\ (i \in Used(e) => e[i].name = c.name)
    BY Zenon DEF Tables, Ready, CanHold, Whole
  <1>2. \A x \in Records : Apart(x, c) => lba \notin Extent(x)
    BY <1>1, ApartIs, Zenon
  <1>3. ASSUME NEW j \in Used(e), pr[e[j].name] # Unknown PROVE lba \notin Extent(e[j])
    <2>1. j \in Used(e) \ {i} /\ e[j] \in Records
      BY <1>1, <1>3, Zenon DEF TableOK, Used
    <2> QED
      BY <2>1, <1>1, <1>2, Zenon DEF CanHold
  <1>4. Held(e, [dk EXCEPT ![lba] = v], pr)
    BY <1>1, <1>3, HeldDisk, Zenon
  <1>5. ASSUME DirectoryKept PROVE Held(d, [dk EXCEPT ![lba] = v], pr)
    <2>1. Lags(d, e) /\ Held(d, dk, pr) /\ FitsDisk(d, i, c) /\ TableOK(d)
      BY <1>5, Zenon DEF Tables, Ready, Lags
    <2>2. ASSUME NEW j \in Used(d), pr[d[j].name] # Unknown PROVE lba \notin Extent(d[j])
      <3>1. j \in Used(d) \ {i} /\ d[j] \in Records
        BY <2>1, <2>2, Zenon DEF TableOK, Used, FitsDisk
      <3> QED
        BY <3>1, <2>1, <1>2, Zenon DEF FitsDisk
    <2> QED
      BY <2>1, <2>2, HeldDisk, Zenon
  <1> QED
    BY <1>1, <1>4, <1>5, Zenon DEF Tables

\* So does the withdrawal of a promise.
LEMMA TellStep ==
  ASSUME NEW e, NEW d, NEW dk, NEW pr, Tables(e, d, dk, pr), DOMAIN pr = Names, NEW n \in Names
  PROVE  Tables(e, d, dk, Tell(pr, n, Unknown))
PROOF
  BY HeldTell, Zenon DEF Tables

\* The operation goes on after its entry changed in memory.
LEMMA WorkingAfter ==
  ASSUME NEW o, NEW e, NEW d, NEW pr, TableOK(e), Working(o, e, d, pr), NEW c,
         Ready(e, d, o.index, c)
  PROVE  Working(o, Put(e, o.index, c), d, pr)
PROOF
  <1> DEFINE i == o.index
             f == Put(e, i, c)
  <1>1. i \in Indices /\ i \in Used(e) /\ CanHold(e, i, c)
    BY Zenon DEF Working, Used, Ready
  <1>2. \A b : Ready(e, d, i, b) => b.name = c.name /\ e[i].name = b.name
    BY <1>1, Zenon DEF Ready
  <1>3. \A b : Ready(e, d, i, b) => Ready(f, d, i, b)
    BY <1>1, <1>2, ReadyAfter, Zenon
  <1>4. i \in Used(f) /\ f[i] = c
    BY <1>1, PutUsed
  <1>5. c.name = e[i].name
    BY <1>2, Zenon
  <1> HIDE DEF i, f
  <1>6. Working(o, f, d, pr)
    BY <1>3, <1>4, <1>5, Zenon DEF Working, i
  <1> QED
    BY <1>6, Zenon DEF f, i

-----------------------------------------------------------------------------
(* The invariant in the next state *)

\* The volume does not change, so Ready means the same after a step.
LEMMA SameReady ==
  ASSUME volume' = volume, NEW i, NEW c
  PROVE  Ready(entries, directory, i, c)' <=> Ready(entries', directory', i, c)
PROOF
  <1>1. /\ Used(entries)' = Used(entries') /\ Used(directory)' = Used(directory')
        /\ DirectoryKept' = DirectoryKept
    BY SameVolume, SameUsed, Zenon
  <1> QED
    BY <1>1, Zenon DEF Ready, CanHold, Housed, FitsDisk

\* And so does Sound.
LEMMA SameSound ==
  ASSUME volume' = volume
  PROVE  Sound(entries, directory, disk, op, promised)'
           <=> Sound(entries', directory', disk', op', promised')
PROOF
  <1>1. /\ Used(entries)' = Used(entries') /\ Sectors' = Sectors
        /\ DirectoryKept' = DirectoryKept /\ Stored' = Stored
    BY SameVolume, SameUsed, Zenon DEF Stored, Values
  <1>2. Tickets' = Tickets
    BY <1>1, Zenon DEF Tickets
  <1>3. Held(entries, disk, promised)' <=> Held(entries', disk', promised')
    BY SameHold, Zenon DEF Held
  <1>4. Held(directory, disk, promised)' <=> Held(directory', disk', promised')
    BY SameHold, Zenon DEF Held
  <1>5. Tables(entries, directory, disk, promised)' <=> Tables(entries', directory', disk', promised')
    BY <1>1, <1>3, <1>4, SameTable, Zenon DEF Tables
  <1>6. Working(op, entries, directory, promised)' <=> Working(op', entries', directory', promised')
    BY <1>1, <1>2, SameReady, Zenon DEF Working
  <1> QED
    BY <1>1, <1>5, <1>6, Zenon DEF Sound

-----------------------------------------------------------------------------
(* The steps of an operation in progress *)

\* The fields of an operation.
LEMMA PlanIs ==
  ASSUME NEW k, NEW i, NEW w, NEW f
  PROVE  /\ Plan(k, i, w, f).kind = k /\ Plan(k, i, w, f).index = i
         /\ Plan(k, i, w, f).writes = w /\ Plan(k, i, w, f).final = f
PROOF
  BY Zenon DEF Plan

\* The write at the head of the operation.
LEMMA HeadIs ==
  ASSUME Sound(entries, directory, disk, op, promised), op # Idle, op.writes # << >>
  PROVE  /\ op.index \in Indices
         /\ Head(op.writes) \in Tickets
         /\ Head(op.writes).lba \in Extent(op.final)
         /\ Ready(entries, directory, op.index, Head(op.writes).entry)
         /\ promised[Head(op.writes).entry.name] = Unknown
         /\ Ready(entries, directory, op.index, op.final)
         /\ promised[op.final.name] = Unknown
PROOF
  <1>1. Working(op, entries, directory, promised)
    BY Zenon DEF Sound
  <1>2. op.writes \in Seq(Tickets) /\ 1 \in 1..Len(op.writes) /\ Head(op.writes) = op.writes[1]
    BY <1>1 DEF Working
  <1>3. Head(op.writes) \in Tickets
    BY <1>2
  <1>4. /\ Ready(entries, directory, op.index, Head(op.writes).entry)
        /\ Head(op.writes).lba \in Extent(op.final)
    BY <1>1, <1>2, Zenon DEF Working
  <1>5. op.index \in Used(entries) /\ op.index \in Indices
    BY <1>1, Zenon DEF Working, Used
  <1>6. \A c : Ready(entries, directory, op.index, c) => c.name = entries[op.index].name
    BY <1>5, Zenon DEF Ready
  <1> QED
    BY <1>1, <1>3, <1>4, <1>5, <1>6, Zenon DEF Working

\* The operation goes on with the remaining writes.
LEMMA WorkingRest ==
  ASSUME NEW e, NEW d, NEW pr, Working(op, e, d, pr), op.writes # << >>,
         op' = [op EXCEPT !.writes = Tail(@)]
  PROVE  Working(op', e, d, pr)
PROOF
  <1> DEFINE w == Tail(op.writes)
  <1>1. op' = Plan(op.kind, op.index, w, op.final)
    BY Zenon DEF Working, Plan
  <1>2. op'.kind = op.kind /\ op'.index = op.index /\ op'.writes = w /\ op'.final = op.final
    BY <1>1, PlanIs
  <1>3. /\ w \in Seq(Tickets)
        /\ \A k \in 1..Len(w) : w[k] = op.writes[k + 1] /\ k + 1 \in 1..Len(op.writes)
    BY DEF Working
  <1> HIDE DEF w
  <1>4. \A k \in 1..Len(w) : Ready(e, d, op.index, w[k].entry) /\ w[k].lba \in Extent(op.final)
    BY <1>3, Zenon DEF Working
  <1> QED
    BY <1>1, <1>2, <1>3, <1>4, Zenon DEF Working

\* The fields of a write it has to make.
LEMMA TicketIs ==
  ASSUME NEW h \in Tickets PROVE h.lba \in Nat /\ h.value \in Stored /\ h.entry \in Records
PROOF
  BY Zenon DEF Tickets

\* A data sector is written.
LEMMA DataWriteStep ==
  ASSUME volume \in Volumes, Sound(entries, directory, disk, op, promised), DataWrite
  PROVE  Sound(entries', directory', disk', op', promised')
PROOF
  <1> DEFINE h == Head(op.writes)
  <1>1. op # Idle /\ op.writes # << >> /\ OnDisk(h.lba)
    BY Zenon DEF DataWrite
  <1>2. /\ entries' = Put(entries, op.index, h.entry)
        /\ disk' = [disk EXCEPT ![h.lba] = h.value]
        /\ op' = [op EXCEPT !.writes = Tail(@)]
        /\ directory' = directory /\ promised' = promised
    BY Zenon DEF DataWrite, Put
  <1>3. /\ op.index \in Indices /\ h \in Tickets /\ h.lba \in Extent(op.final)
        /\ Ready(entries, directory, op.index, h.entry) /\ promised[h.entry.name] = Unknown
        /\ Ready(entries, directory, op.index, op.final) /\ promised[op.final.name] = Unknown
    BY <1>1, HeadIs, Zenon
  <1>4. h.lba \in Nat /\ h.value \in Stored
    BY <1>3, TicketIs, Zenon
  <1> HIDE DEF h
  <1>5. /\ Tables(entries, directory, disk, promised) /\ TableOK(entries)
        /\ Working(op, entries, directory, promised)
        /\ disk \in [0..(Sectors - 1) -> Stored] /\ DOMAIN promised = Names
    BY <1>1, Zenon DEF Sound, Tables
  <1>6. h.lba \in 0..(Sectors - 1)
    BY <1>1, <1>4, VolumeFacts DEF OnDisk
  <1>7. disk' \in [0..(Sectors - 1) -> Stored]
    BY <1>2, <1>4, <1>5, <1>6, Zenon
  <1>8. Tables(entries, directory, disk', promised)
    BY <1>2, <1>3, <1>4, <1>5, DiskStep, Zenon
  <1>9. Tables(entries', directory, disk', promised)
    BY <1>2, <1>3, <1>8, MemoryStep, Zenon
  <1>10. Working(op, entries', directory, promised)
    BY <1>2, <1>3, <1>5, WorkingAfter, Zenon
  <1>11. Working(op', entries', directory, promised)
    BY <1>1, <1>2, <1>10, WorkingRest, Zenon
  <1> QED
    BY <1>2, <1>5, <1>7, <1>9, <1>11, Zenon DEF Sound

\* A data sector's write fails and ends the operation.
LEMMA DataFaultStep ==
  ASSUME volume \in Volumes, Sound(entries, directory, disk, op, promised), DataFault
  PROVE  Sound(entries', directory', disk', op', promised')
PROOF
  <1> DEFINE h == Head(op.writes)
  <1>1. /\ op # Idle /\ op.writes # << >>
        /\ disk' = disk \/ (OnDisk(h.lba) /\ disk' = [disk EXCEPT ![h.lba] = h.value])
    BY Zenon DEF DataFault
  <1>2. /\ entries' = Put(entries, op.index, h.entry)
        /\ op' = Idle /\ directory' = directory /\ promised' = promised
    BY Zenon DEF DataFault, Put
  <1>3. /\ op.index \in Indices /\ h \in Tickets /\ h.lba \in Extent(op.final)
        /\ Ready(entries, directory, op.index, h.entry) /\ promised[h.entry.name] = Unknown
        /\ Ready(entries, directory, op.index, op.final) /\ promised[op.final.name] = Unknown
    BY <1>1, HeadIs, Zenon
  <1>4. h.lba \in Nat /\ h.value \in Stored
    BY <1>3, TicketIs, Zenon
  <1> HIDE DEF h
  <1>5. /\ Tables(entries, directory, disk, promised)
        /\ disk \in [0..(Sectors - 1) -> Stored] /\ DOMAIN promised = Names
    BY Zenon DEF Sound
  <1>6. OnDisk(h.lba) => h.lba \in 0..(Sectors - 1)
    BY <1>4, VolumeFacts DEF OnDisk
  <1>7. disk' \in [0..(Sectors - 1) -> Stored]
    BY <1>1, <1>4, <1>5, <1>6, Zenon
  <1>8. Tables(entries, directory, disk', promised)
    <2>1. Tables(entries, directory, [disk EXCEPT ![h.lba] = h.value], promised)
      BY <1>3, <1>4, <1>5, DiskStep, Zenon
    <2> QED
      BY <2>1, <1>1, <1>5, Zenon
  <1>9. Tables(entries', directory, disk', promised)
    BY <1>2, <1>3, <1>8, MemoryStep, Zenon
  <1> QED
    BY <1>2, <1>5, <1>7, <1>9, Zenon DEF Sound

\* An entry that was saved is still ready.
LEMMA ReadySaved ==
  ASSUME NEW e, NEW d, TableOK(e), DirectoryKept => TableOK(d) /\ Lags(d, e), NEW i \in Indices,
         NEW c, Ready(e, d, i, c)
  PROVE  Ready(Put(e, i, c), Put(d, i, c), i, c)
PROOF
  <1>1. Ready(Put(e, i, c), d, i, c)
    BY ReadyAfter, Zenon
  <1>2. ASSUME DirectoryKept PROVE FitsDisk(Put(d, i, c), i, c)
    <2>1. TableOK(d) /\ Lags(d, e) /\ CanHold(e, i, c) /\ FitsDisk(d, i, c)
      BY <1>2, Zenon DEF Ready
    <2>2. CanHold(d, i, c)
      BY <2>1, HoldsToo, Zenon
    <2> DEFINE g == Put(d, i, c)
    <2>3. /\ \A j \in Indices : g[j] = IF j = i THEN c ELSE d[j]
          /\ \A j \in Used(g) : j \in Indices /\ (j = i \/ j \in Used(d))
      BY <2>1, <2>2, PutUsed
    <2> HIDE DEF g
    <2>4. \A j \in Used(g) \ {i} : j \in Used(d) \ {i} /\ g[j] = d[j]
      BY <2>3, Zenon
    <2>5. g[i] = c
      BY <2>3, Zenon
    <2>6. FitsDisk(g, i, c)
      BY <2>1, <2>4, <2>5, BehindSame, Zenon DEF FitsDisk
    <2> QED
      BY <2>6, Zenon DEF g
  <1> QED
    BY <1>1, <1>2, Zenon DEF Ready

\* What the caller is told is what the disk holds.
LEMMA PromiseIs ==
  ASSUME NEW e PROVE <<e.type>> \o ReadSectors(e) = Told(disk, e)
PROOF
  BY Zenon DEF Told, ReadIn, ReadSectors

\* A path holds what its new entry says.
LEMMA PutEntry ==
  ASSUME NEW dir, TableOK(dir), NEW i \in Indices, NEW c, CanHold(dir, i, c), Housed(dir, c.name),
         NEW dk
  PROVE  HoldIn(Put(dir, i, c), dk, c.name) = Told(dk, c)
PROOF
  <1>1. TableOK(Put(dir, i, c))
    BY TablePut, Zenon
  <1>2. i \in Used(Put(dir, i, c)) /\ Put(dir, i, c)[i] = c
    BY PutUsed
  <1> QED
    BY <1>1, <1>2, HoldEntry, Zenon

\* save_entry succeeds: the promise is made.
LEMMA SavedStep ==
  ASSUME volume \in Volumes, Sound(entries, directory, disk, op, promised), Save
  PROVE  Sound(entries', directory', disk', op', promised')
PROOF
  <1> DEFINE c == op.final
             i == op.index
  <1>1. /\ op # Idle
        /\ entries' = Put(entries, i, c) /\ directory' = Put(directory, i, c)
        /\ disk' = disk
    BY Zenon DEF Save, Put
  <1>2. /\ Tables(entries, directory, disk, promised) /\ TableOK(entries)
        /\ Working(op, entries, directory, promised)
        /\ disk \in [0..(Sectors - 1) -> Stored] /\ DOMAIN promised = Names
        /\ DirectoryKept => Lags(directory, entries) /\ TableOK(directory)
    BY <1>1, Zenon DEF Sound, Tables, Lags
  <1>3. /\ i \in Used(entries) /\ i \in Indices /\ Ready(entries, directory, i, c)
        /\ c.name = entries[i].name /\ promised[c.name] = Unknown
    BY <1>2, Zenon DEF Working, Ready, Used
  <1>4. Tables(entries', directory', disk, promised)
    BY <1>1, <1>2, <1>3, SaveStep, Zenon
  <1>5. CASE op.kind = "symlink"
    <2>1. /\ op' = Plan("write", i, << >>, Linked(c)) /\ promised' = promised
      BY <1>5, Zenon DEF Save, Linked
    <2>2. Ready(entries', directory', i, c)
      BY <1>1, <1>2, <1>3, ReadySaved, Zenon
    <2>3. Ready(entries', directory', i, Linked(c))
      BY <2>2, ReadyLinked, Zenon
    <2>4. i \in Used(entries') /\ entries'[i] = c
      BY <1>1, <1>2, <1>3, PutUsed, SMTT(60) DEF Ready
    <2>5. op'.kind = "write" /\ op'.index = i /\ op'.writes = << >> /\ op'.final = Linked(c)
      BY <2>1, PlanIs
    <2>6. << >> \in Seq(Tickets) /\ Len(<< >>) = 0
      OBVIOUS
    <2>7. \A k \in 1..0 : FALSE
      OBVIOUS
    <2> HIDE DEF c, i
    <2>8. Working(op', entries', directory', promised')
      BY <2>1, <2>3, <2>4, <2>5, <2>6, <2>7, <1>3, Zenon DEF Working
    <2> QED
      BY <2>1, <2>8, <1>1, <1>2, <1>4, Zenon DEF Sound
  <1>6. CASE op.kind # "symlink"
    <2>1. op' = Idle /\ promised' = Tell(promised, c.name, Told(disk, c))
      BY <1>6, PromiseIs, Zenon DEF Save, Promise, Tell
    <2>2. c.name \in Names
      BY <1>3, ReadyNamed, Zenon
    <2>3. HoldIn(entries', disk, c.name) = Told(disk, c)
      BY <1>1, <1>2, <1>3, PutEntry, ZenonT(60) DEF Ready
    <2>4. ASSUME DirectoryKept PROVE HoldIn(directory', disk, c.name) = Told(disk, c)
      <3>1. /\ Lags(directory, entries) /\ TableOK(directory) /\ FitsDisk(directory, i, c)
            /\ CanHold(entries, i, c) /\ Housed(entries, c.name)
        BY <2>4, <1>2, <1>3, Zenon DEF Ready
      <3>2. CanHold(directory, i, c) /\ Housed(directory, c.name)
        BY <3>1, <1>3, HoldsToo, HousedToo, ZenonT(60)
      <3> QED
        BY <3>1, <3>2, <1>1, <1>3, PutEntry, ZenonT(60)
    <2>5. Held(entries', disk, promised')
      BY <2>1, <2>2, <2>3, <1>2, <1>4, HeldTell, Zenon DEF Tables
    <2>6. DirectoryKept => Held(directory', disk, promised')
      BY <2>1, <2>2, <2>4, <1>2, <1>4, HeldTell, Zenon DEF Tables
    <2>7. DOMAIN promised' = Names
      BY <2>1, <2>2, <1>2, TellIs
    <2> QED
      BY <2>1, <2>5, <2>6, <2>7, <1>1, <1>2, <1>4, Zenon DEF Sound, Tables
  <1> QED
    BY <1>5, <1>6, Zenon

\* save_entry fails: the change stays in memory.
LEMMA SaveFaultStep ==
  ASSUME volume \in Volumes, Sound(entries, directory, disk, op, promised), SaveFault
  PROVE  Sound(entries', directory', disk', op', promised')
PROOF
  <1> DEFINE c == op.final
             i == op.index
  <1>1. /\ op # Idle
        /\ entries' = Put(entries, i, c) /\ directory' = directory
        /\ disk' = disk /\ op' = Idle /\ promised' = promised
    BY Zenon DEF SaveFault, Put
  <1>2. /\ Tables(entries, directory, disk, promised)
        /\ Working(op, entries, directory, promised)
    BY <1>1, Zenon DEF Sound
  <1>3. /\ i \in Indices /\ Ready(entries, directory, i, c) /\ promised[c.name] = Unknown
    BY <1>2, Zenon DEF Working, Ready, Used
  <1>4. Tables(entries', directory, disk, promised)
    BY <1>1, <1>2, <1>3, MemoryStep, Zenon
  <1> QED
    BY <1>1, <1>4, Zenon DEF Sound

\* Power fails; fs_init reads the directory again.
LEMMA CrashStep ==
  ASSUME volume \in Volumes, Sound(entries, directory, disk, op, promised), Crash, Trusted
  PROVE  Sound(entries', directory', disk', op', promised')
PROOF
  <1>1. /\ entries' = directory /\ directory' = directory
        /\ disk' = disk /\ op' = Idle /\ promised' = promised
    BY Zenon DEF Crash
  <1>2. DirectoryKept
    BY Zenon DEF Crash, Trusted
  <1>3. TableOK(directory) /\ Held(directory, disk, promised)
    BY <1>2, Zenon DEF Sound, Tables, Lags
  <1>4. Lags(directory, directory)
    BY <1>3, BehindSame, Zenon DEF Lags, TableOK
  <1>5. Tables(directory, directory, disk, promised)
    BY <1>3, <1>4, Zenon DEF Tables
  <1> QED
    BY <1>1, <1>5, Zenon DEF Sound

-----------------------------------------------------------------------------
(* Operations that write the directory only *)

\* Promises survive a change of one entry and news of its path.
LEMMA HeldNew ==
  ASSUME NEW dir, TableOK(dir), NEW new, TableOK(new), NEW i \in Indices,
         \A j \in Indices : j # i => new[j] = dir[j],
         NEW dk, NEW pr, DOMAIN pr = Names, Held(dir, dk, pr), NEW n \in Names,
         dir[i].name \in {Root, n}, new[i].name \in {Root, n},
         NEW v, v \in {Unknown, HoldIn(new, dk, n)}
  PROVE  Held(new, dk, Tell(pr, n, v))
PROOF
  <1>1. \A m \in Names : Tell(pr, n, v)[m] = IF m = n THEN v ELSE pr[m]
    BY TellIs
  <1> SUFFICES ASSUME NEW m \in Names PROVE Tell(pr, n, v)[m] \in {Unknown, HoldIn(new, dk, m)}
    BY Zenon DEF Held
  <1>2. CASE m = n
    BY <1>1, <1>2, Zenon
  <1>3. CASE m # n
    <2>1. dir[i].name # m /\ new[i].name # m
      BY <1>3, TreeAssumption, Zenon
    <2>2. HoldIn(new, dk, m) = HoldIn(dir, dk, m)
      BY <2>1, HoldOther
    <2>3. Tell(pr, n, v)[m] = pr[m] /\ pr[m] \in {Unknown, HoldIn(dir, dk, m)}
      BY <1>1, <1>3, Zenon DEF Held
    <2> QED
      BY <2>2, <2>3, Zenon
  <1> QED
    BY <1>2, <1>3, Zenon

\* fs_chmod writes the entry as memory has it, which the disk may lack.
LEMMA ChmodStep ==
  ASSUME volume \in Volumes, Sound(entries, directory, disk, op, promised), NEW n, Chmod(n)
  PROVE  Sound(entries', directory', disk', op', promised')
PROOF
  <1>1. op = Idle /\ entries' = entries /\ disk' = disk /\ op' = op /\ promised' = promised
    BY Zenon DEF Chmod
  <1>2. Tables(entries, directory, disk, promised) /\ TableOK(entries)
    BY Zenon DEF Sound, Tables
  <1>3. PICK i \in Named(entries, n) :
          directory' = Put(directory, i, entries[i])
          \/ ("directory" \in Faults /\ directory' = directory)
    BY Zenon DEF Chmod, Put
  <1>4. CASE ~DirectoryKept \/ directory' = directory
    BY <1>1, <1>2, <1>4, Zenon DEF Sound, Tables
  <1>5. CASE DirectoryKept /\ directory' = Put(directory, i, entries[i])
    <2> DEFINE c == entries[i]
               g == Put(directory, i, c)
    <2>1. i \in Used(entries) /\ i \in Indices
      BY Zenon DEF Named, Used
    <2>2. Lags(directory, entries) /\ Held(directory, disk, promised) /\ TableOK(directory)
      BY <1>2, <1>5, Zenon DEF Tables, Lags
    <2>3. Whole(c) /\ c.type # "none" /\ Housed(entries, c.name)
      BY <2>1, <1>2, Zenon DEF TableOK, Used, Connected, Housed
    <2>4. CanHold(entries, i, c)
      BY <2>1, <2>3, <1>2, Zenon DEF CanHold, TableOK
    <2>5. FitsDisk(directory, i, c)
      BY <2>1, <2>2, Zenon DEF FitsDisk, Lags
    <2>6. CanHold(directory, i, c) /\ Housed(directory, c.name)
      BY <2>1, <2>2, <2>3, <2>4, <2>5, HoldsToo, HousedToo, Zenon
    <2>7. Put(entries, i, c) = entries
      BY <1>2, <2>1, Zenon DEF Put, TableOK
    <2>8. Lags(g, Put(entries, i, c))
      BY <1>2, <2>1, <2>2, <2>3, <2>4, <2>6, LagsSave, Zenon
    <2>9. Lags(g, entries) /\ TableOK(g)
      BY <2>7, <2>8, Zenon DEF Lags
    <2>10. \A j \in Indices : g[j] = IF j = i THEN c ELSE directory[j]
      BY <2>1, <2>2, <2>6, PutUsed, SMTT(60)
    <2>11. directory[i].name \in {Root, c.name}
      BY <2>1, <2>2, Zenon DEF Lags, TableOK, Whole, Used
    <2>12. HoldIn(g, disk, c.name) = Told(disk, c) /\ HoldIn(entries, disk, c.name) = Told(disk, c)
      BY <1>2, <2>1, <2>2, <2>6, PutEntry, HoldEntry, ZenonT(60)
    <2> HIDE DEF g, c
    <2>13. Held(g, disk, promised)
      <3> SUFFICES ASSUME NEW m \in Names, promised[m] # Unknown
                   PROVE  promised[m] = HoldIn(g, disk, m)
        BY Zenon DEF Held
      <3>1. promised[m] = HoldIn(entries, disk, m) /\ promised[m] = HoldIn(directory, disk, m)
        BY <1>2, <2>2, Zenon DEF Tables, Held
      <3>2. CASE m = c.name
        BY <3>1, <3>2, <2>12, Zenon
      <3>3. CASE m # c.name
        <4>1. directory[i].name # m /\ g[i].name # m
          BY <3>3, <2>1, <2>10, <2>11, TreeAssumption, Zenon
        <4>2. \A j \in Indices : j # i => g[j] = directory[j]
          BY <2>10, Zenon
        <4>3. HoldIn(g, disk, m) = HoldIn(directory, disk, m)
          BY <4>1, <4>2, <2>1, <2>2, <2>9, HoldOther, ZenonT(60)
        <4> QED
          BY <4>3, <3>1, Zenon
      <3> QED
        BY <3>2, <3>3, Zenon
    <2>14. directory' = g
      BY <1>5, Zenon DEF g, c
    <2> QED
      BY <1>1, <1>2, <2>9, <2>13, <2>14, Zenon DEF Sound, Tables
  <1> QED
    BY <1>3, <1>4, <1>5, Zenon DEF DirectoryKept

\* SaveAlone with an entry c for path n, which the slot's old entry, if any,
\* was for too; v is what the caller is told.
LEMMA AloneStep ==
  ASSUME Sound(entries, directory, disk, op, promised), op = Idle, NEW i \in Indices,
         NEW c \in Records, NEW n \in Names, NEW v,
         TableOK(Put(entries, i, c)),
         DirectoryKept => Lags(Put(directory, i, c), Put(entries, i, c)),
         entries[i].name \in {Root, n}, c.name \in {Root, n},
         v = HoldIn(Put(entries, i, c), disk, n),
         DirectoryKept => v = HoldIn(Put(directory, i, c), disk, n),
         entries' = Put(entries, i, c), disk' = disk, op' = op,
         \/ directory' = Put(directory, i, c) /\ promised' = Tell(promised, n, v)
         \/ "directory" \in Faults /\ directory' = directory /\ promised' = Tell(promised, n, Unknown)
  PROVE  Sound(entries', directory', disk', op', promised')
PROOF
  <1>1. /\ Tables(entries, directory, disk, promised) /\ TableOK(entries)
        /\ Held(entries, disk, promised) /\ DOMAIN promised = Names
        /\ entries \in [Indices -> Records]
    BY Zenon DEF Sound, Tables, TableOK
  <1>2. \A j \in Indices : entries'[j] = IF j = i THEN c ELSE entries[j]
    BY <1>1, PutIs
  <1>3. \A j \in Indices : j # i => entries'[j] = entries[j]
    BY <1>2, Zenon
  <1>4. entries'[i].name \in {Root, n} /\ TableOK(entries')
    BY <1>2, Zenon
  <1>5. Held(entries', disk, Tell(promised, n, v))
    BY <1>1, <1>3, <1>4, HeldNew, Zenon
  <1>6. Held(entries', disk, Tell(promised, n, Unknown))
    BY <1>1, <1>3, <1>4, HeldNew, Zenon
  <1>7. Held(entries', disk, promised') /\ DOMAIN promised' = Names
    <2>1. \A x : DOMAIN Tell(promised, n, x) = Names
      BY <1>1, TellIs, Zenon
    <2>2. CASE promised' = Tell(promised, n, v)
      BY <2>1, <2>2, <1>5, Zenon
    <2>3. CASE promised' = Tell(promised, n, Unknown)
      BY <2>1, <2>3, <1>6, Zenon
    <2> QED
      BY <2>2, <2>3, Zenon
  <1>8. ASSUME DirectoryKept PROVE Lags(directory', entries') /\ Held(directory', disk, promised')
    <2>1. directory' = Put(directory, i, c) /\ promised' = Tell(promised, n, v)
      BY <1>8, Zenon DEF DirectoryKept
    <2>2. /\ Held(directory, disk, promised) /\ TableOK(directory)
          /\ Lags(directory, entries) /\ directory \in [Indices -> Records]
      BY <1>1, <1>8, Zenon DEF Tables, Lags, TableOK
    <2>3. Lags(directory', entries') /\ TableOK(directory')
      BY <2>1, <1>8, Zenon DEF Lags
    <2>4. \A j \in Indices : directory'[j] = IF j = i THEN c ELSE directory[j]
      BY <2>1, <2>2, PutIs, SMTT(60)
    <2>5. \A j \in Indices : j # i => directory'[j] = directory[j]
      BY <2>4, Zenon
    <2>6. directory[i].name \in {Root, n}
      BY <2>2, ZenonT(60) DEF Lags, TableOK, Whole, Used
    <2>7. directory'[i].name \in {Root, n}
      BY <2>4, Zenon
    <2>8. v \in {Unknown, HoldIn(directory', disk, n)}
      BY <2>1, <1>8, Zenon
    <2>9. Held(directory', disk, promised')
      BY <2>1, <2>2, <2>3, <2>5, <2>6, <2>7, <2>8, <1>1, HeldNew, SMTT(60)
    <2> QED
      BY <2>3, <2>9, Zenon
  <1>9. Tables(entries', directory', disk, promised')
    BY <1>4, <1>7, <1>8, Zenon DEF Tables
  <1> QED
    BY <1>7, <1>9, Zenon DEF Sound

\* fs_delete frees the slot in memory, then on disk.
LEMMA DeleteStep ==
  ASSUME volume \in Volumes, Sound(entries, directory, disk, op, promised),
         NEW n \in volume.names, Delete(n)
  PROVE  Sound(entries', directory', disk', op', promised')
PROOF
  <1>0. op = Idle /\ n \in Names
    BY VolumeFacts, Zenon DEF Delete
  <1>1. PICK i \in Named(entries, n) :
          /\ entries[i].type = "directory" => \A j \in Used(entries) : Parent[entries[j].name] # n
          /\ SaveAlone(i, NoEntry)
    BY Zenon DEF Delete
  <1>2. i \in Used(entries) /\ i \in Indices /\ entries[i].name = n
    BY Zenon DEF Named, Used
  <1>3. /\ entries' = Put(entries, i, NoEntry) /\ disk' = disk /\ op' = op
        /\ \/ /\ directory' = Put(directory, i, NoEntry)
              /\ promised' = Tell(promised, n, <<"absent">>)
           \/ /\ "directory" \in Faults /\ directory' = directory
              /\ promised' = Tell(promised, n, Unknown)
    BY <1>1, <1>2, Zenon DEF SaveAlone, Put, Tell
  <1>4. TableOK(entries) /\ (DirectoryKept => Lags(directory, entries))
    BY Zenon DEF Sound, Tables
  <1>5. TableOK(Put(entries, i, NoEntry)) /\ Used(Put(entries, i, NoEntry)) = Used(entries) \ {i}
    BY <1>1, <1>2, <1>4, TableRemove, Zenon
  <1>6. DirectoryKept => Lags(Put(directory, i, NoEntry), Put(entries, i, NoEntry))
    BY <1>1, <1>2, <1>4, LagsRemove, Zenon
  <1>7. NoEntry \in Records /\ NoEntry.name = Root
    BY NoEntryWhole, Zenon DEF NoEntry, Whole
  <1> DEFINE f == Put(entries, i, NoEntry)
             g == Put(directory, i, NoEntry)
  <1>8. \A j \in Indices : f[j] = IF j = i THEN NoEntry ELSE entries[j]
    BY <1>2, <1>4, <1>7, PutIs, SMTT(60) DEF TableOK
  <1> HIDE DEF f, g
  <1>9. ASSUME NEW j \in Used(f) PROVE f[j].name # n
    BY <1>2, <1>4, <1>5, <1>8, ZenonT(60) DEF TableOK, Used, f
  <1>10. HoldIn(f, disk, n) = <<"absent">>
    <2>1. Named(f, n) = {}
      BY <1>9, Zenon DEF Named
    <2> QED
      BY <2>1, Zenon DEF HoldIn
  <1>11. DirectoryKept => HoldIn(g, disk, n) = <<"absent">>
    <2> SUFFICES ASSUME DirectoryKept PROVE HoldIn(g, disk, n) = <<"absent">>
      BY Zenon
    <2>1. Lags(g, f)
      BY <1>6, Zenon DEF f, g
    <2>2. Named(g, n) = {}
      BY <2>1, <1>9, Zenon DEF Named, Lags
    <2> QED
      BY <2>2, Zenon DEF HoldIn
  <1>12. entries[i].name \in {Root, n} /\ NoEntry.name \in {Root, n}
    BY <1>2, <1>7, Zenon
  <1> QED
    BY <1>0, <1>2, <1>3, <1>5, <1>6, <1>7, <1>10, <1>11, <1>12, AloneStep, ZenonT(60) DEF f, g

\* A new entry, without an extent.
New(n, t) == [NoEntry EXCEPT !.name = n, !.type = t]

\* A new entry has no extent.
LEMMA NewIs ==
  ASSUME NEW n \in Names, NEW t \in {"file", "directory"}
  PROVE  /\ New(n, t) \in Records /\ New(n, t).name = n /\ New(n, t).type = t
         /\ New(n, t).start = 0 /\ New(n, t).size = 0 /\ New(n, t).capacity = 0
         /\ Whole(New(n, t)) /\ New(n, t) # NoEntry
PROOF
  <1>1. /\ New(n, t).name = n /\ New(n, t).type = t
        /\ New(n, t).start = 0 /\ New(n, t).size = 0 /\ New(n, t).capacity = 0
    BY Zenon DEF New, NoEntry
  <1>2. New(n, t) \in Records
    BY Zenon DEF New, NoEntry, Records, Types
  <1>3. n # Root /\ t # "none" /\ NoEntry.type = "none"
    BY TreeAssumption, Zenon DEF NoEntry
  <1>4. 0 <= 0
    OBVIOUS
  <1>5. Whole(New(n, t))
    BY <1>1, <1>2, <1>3, <1>4, Zenon DEF Whole
  <1> QED
    BY <1>1, <1>2, <1>3, <1>5, Zenon

\* It can go into the slot allocate_entry finds, in memory and on disk.
LEMMA NewFits ==
  ASSUME volume \in Volumes, TableOK(entries), DirectoryKept => Lags(directory, entries),
         NEW n \in Names, NEW i \in allocate_entry(n), NEW t \in {"file", "directory"}
  PROVE  /\ i \in Indices /\ i \notin Used(entries)
         /\ CanHold(entries, i, New(n, t)) /\ Housed(entries, n)
         /\ DirectoryKept => FitsDisk(directory, i, New(n, t))
PROOF
  <1> DEFINE c == New(n, t)
  <1>1. Whole(c) /\ c.name = n /\ c.type = t /\ c.capacity = 0 /\ t # "none"
    BY NewIs
  <1>2. /\ i \in Indices /\ i \notin Used(entries) /\ Housed(entries, n)
        /\ \A j \in Indices : entries[j].name # n
    BY AllocateIs, Zenon
  <1> HIDE DEF c
  <1>3. \A x : Apart(x, c)
    BY <1>1, Zenon DEF Apart
  <1>4. entries[i].type = "none"
    BY <1>2, Zenon DEF Used
  <1>5. CanHold(entries, i, c)
    BY <1>1, <1>2, <1>3, <1>4, SMTT(60) DEF CanHold, Used
  <1>6. DirectoryKept => FitsDisk(directory, i, c)
    BY <1>2, <1>3, ZenonT(60) DEF FitsDisk, Lags
  <1> QED
    BY <1>2, <1>5, <1>6, SMTT(60) DEF c

\* fs_mkdir takes a free slot.
LEMMA MkdirStep ==
  ASSUME volume \in Volumes, Sound(entries, directory, disk, op, promised),
         NEW n \in volume.names, Mkdir(n)
  PROVE  Sound(entries', directory', disk', op', promised')
PROOF
  <1> DEFINE c == New(n, "directory")
  <1>0. op = Idle /\ n \in Names
    BY VolumeFacts, Zenon DEF Mkdir
  <1>1. PICK i \in allocate_entry(n) : SaveAlone(i, c)
    BY Zenon DEF Mkdir, New
  <1>2. c \in Records /\ c.name = n /\ c.type = "directory" /\ c.size = 0 /\ c # NoEntry
    BY <1>0, NewIs, Zenon
  <1>3. /\ TableOK(entries) /\ (DirectoryKept => Lags(directory, entries))
        /\ entries \in [Indices -> Records]
    BY Zenon DEF Sound, Tables, TableOK
  <1>4. /\ i \in Indices /\ i \notin Used(entries)
        /\ CanHold(entries, i, c) /\ Housed(entries, n)
        /\ DirectoryKept => FitsDisk(directory, i, c)
    BY <1>0, <1>3, NewFits
  <1> HIDE DEF c
  <1>5. /\ entries' = Put(entries, i, c) /\ disk' = disk /\ op' = op
        /\ \/ /\ directory' = Put(directory, i, c)
              /\ promised' = Tell(promised, n, <<"directory">>)
           \/ /\ "directory" \in Faults /\ directory' = directory
              /\ promised' = Tell(promised, n, Unknown)
    BY <1>1, <1>2, Zenon DEF SaveAlone, Put, Tell
  <1>6. TableOK(Put(entries, i, c))
    BY <1>2, <1>3, <1>4, TablePut, Zenon
  <1>7. DirectoryKept => /\ Lags(directory, entries) /\ TableOK(directory)
                         /\ CanHold(directory, i, c) /\ Housed(directory, n)
    BY <1>3, <1>4, HoldsToo, HousedToo, Zenon DEF Lags
  <1>8. DirectoryKept => Lags(Put(directory, i, c), Put(entries, i, c))
    BY <1>2, <1>3, <1>4, <1>7, LagsSave, ZenonT(60)
  <1>9. Told(disk, c) = <<"directory">>
    <2>1. ReadIn(disk, c) = << >>
      BY <1>2 DEF ReadIn
    <2> QED
      BY <2>1, <1>2 DEF Told
  <1>10. HoldIn(Put(entries, i, c), disk, n) = <<"directory">>
    BY <1>2, <1>3, <1>4, <1>9, PutEntry, Zenon
  <1>11. DirectoryKept => HoldIn(Put(directory, i, c), disk, n) = <<"directory">>
    BY <1>2, <1>4, <1>7, <1>9, PutEntry, Zenon
  <1>12. entries[i].name \in {Root, n}
    BY <1>3, <1>4, Zenon DEF TableOK, Whole, Used
  <1> QED
    BY <1>0, <1>2, <1>4, <1>5, <1>6, <1>8, <1>10, <1>11, <1>12, AloneStep, SMTT(60)

-----------------------------------------------------------------------------
(* Operations that write data *)

\* The entry of a path that exists is ready for its own slot.
LEMMA ReadyOwn ==
  ASSUME NEW e, NEW d, TableOK(e), DirectoryKept => Lags(d, e), NEW i \in Used(e),
         e[i].type \in {"file", "symlink"}
  PROVE  Ready(e, d, i, e[i])
PROOF
  <1>1. i \in Indices /\ Whole(e[i]) /\ e[i].type # "none" /\ Housed(e, e[i].name)
    BY Zenon DEF TableOK, Used, Connected, Housed
  <1>2. CanHold(e, i, e[i])
    BY <1>1, Zenon DEF CanHold, TableOK
  <1>3. DirectoryKept => FitsDisk(d, i, e[i])
    BY Zenon DEF FitsDisk, Lags
  <1> QED
    BY <1>1, <1>2, <1>3, Zenon DEF Ready

\* The entry an operation on path n starts with.
LEMMA TargetIs ==
  ASSUME volume \in Volumes, TableOK(entries), DirectoryKept => Lags(directory, entries),
         NEW n \in Names, NEW i \in Target(n)
  PROVE  /\ i \in Indices
         /\ Ready(entries, directory, i, EntryFor(n, i)) /\ EntryFor(n, i).type = "file"
         /\ Named(entries, n) # {} => i \in Used(entries) /\ EntryFor(n, i) = entries[i]
         /\ Named(entries, n) = {} => EntryFor(n, i).start = 0 /\ EntryFor(n, i).capacity = 0
PROOF
  <1>1. CASE Named(entries, n) # {}
    <2>1. i \in Indices /\ entries[i].type = "file" /\ EntryFor(n, i) = entries[i]
      BY <1>1, Zenon DEF Target, EntryFor
    <2>2. i \in Used(entries)
      BY <2>1, Zenon DEF Used
    <2>3. Ready(entries, directory, i, entries[i])
      BY <2>1, <2>2, ReadyOwn, Zenon
    <2> QED
      BY <1>1, <2>1, <2>2, <2>3, SMTT(60)
  <1>2. CASE Named(entries, n) = {}
    <2>1. i \in allocate_entry(n) /\ EntryFor(n, i) = New(n, "file")
      BY <1>2, Zenon DEF Target, EntryFor, New
    <2> DEFINE c == New(n, "file")
    <2>2. /\ i \in Indices /\ i \notin Used(entries)
          /\ CanHold(entries, i, c) /\ Housed(entries, n)
          /\ DirectoryKept => FitsDisk(directory, i, c)
      BY <2>1, NewFits
    <2>3. c.name = n /\ c.type = "file" /\ c.start = 0 /\ c.capacity = 0
      BY NewIs, Zenon
    <2> HIDE DEF c
    <2>4. Ready(entries, directory, i, c)
      BY <2>2, <2>3 DEF Ready
    <2>5. EntryFor(n, i) = c
      BY <2>1, Zenon DEF c
    <2> QED
      BY <1>2, <2>2, <2>3, <2>4, <2>5, Zenon
  <1> QED
    BY <1>1, <1>2, Zenon

\* Every file has a sector.
LEMMA NeededIs ==
  ASSUME NEW s \in Nat
  PROVE  NeededSectors(s) \in Nat /\ s <= NeededSectors(s) /\ 1 <= NeededSectors(s)
PROOF
  BY DEF NeededSectors, Max2

\* The entry after it got the room it needs.
LEMMA PlacedIs ==
  ASSUME volume \in Volumes, TableOK(entries), NEW c \in Records, NEW s \in Nat
  PROVE  LET p == Placed(c, s) IN
         /\ p \in Records /\ p.name = c.name /\ p.type = c.type /\ p.size = c.size
         /\ p.capacity >= NeededSectors(s)
         /\ p = c \/ (p = Moved(c, next_data_lba, NeededSectors(s))
                      /\ c.capacity <= NeededSectors(s))
PROOF
  <1>1. next_data_lba \in Nat /\ NeededSectors(s) \in Nat
    BY NextBehind, NeededIs, Zenon
  <1>2. c.capacity \in Nat
    BY Zenon DEF Records
  <1>3. CASE c.capacity >= NeededSectors(s)
    BY <1>3, Zenon DEF Placed
  <1>4. CASE ~(c.capacity >= NeededSectors(s))
    <2> DEFINE b == Moved(c, next_data_lba, NeededSectors(s))
    <2>1. Placed(c, s) = b
      BY <1>4, Zenon DEF Placed, Moved
    <2>2. /\ b \in Records /\ b.name = c.name /\ b.type = c.type /\ b.size = c.size
          /\ b.capacity = NeededSectors(s)
      BY <1>1, Zenon DEF Moved, Records
    <2>3. c.capacity <= NeededSectors(s) /\ NeededSectors(s) >= NeededSectors(s)
      BY <1>1, <1>2, <1>4
    <2> HIDE DEF b
    <2> QED
      BY <2>1, <2>2, <2>3, Zenon DEF b
  <1> QED
    BY <1>3, <1>4

\* Tables f and g that hold nothing behind next_data_lba.
LEMMA PlacedReady ==
  ASSUME volume \in Volumes, TableOK(entries),
         NEW f, NEW g, TableOK(f), DirectoryKept => Lags(g, f),
         \A j \in Used(f) : End(f[j]) <= next_data_lba,
         NEW i \in Indices, NEW c, Ready(f, g, i, c), NEW s \in Nat
  PROVE  Ready(f, g, i, Placed(c, s))
PROOF
  <1>1. c \in Records
    BY Zenon DEF Ready, CanHold, Whole
  <1>2. Placed(c, s) = c \/ (Placed(c, s) = Moved(c, next_data_lba, NeededSectors(s))
                             /\ c.capacity <= NeededSectors(s))
    BY <1>1, PlacedIs, Zenon
  <1>3. next_data_lba \in Nat /\ NeededSectors(s) \in Nat
    BY NextBehind, NeededIs, Zenon
  <1>4. CASE Placed(c, s) = c
    BY <1>4, Zenon
  <1>5. CASE Placed(c, s) = Moved(c, next_data_lba, NeededSectors(s))
             /\ c.capacity <= NeededSectors(s)
    BY <1>3, <1>5, ReadyMoved, Zenon
  <1> QED
    BY <1>2, <1>4, <1>5, Zenon

-----------------------------------------------------------------------------
(* The writes of an operation *)

\* One write that stays in the extent of c, with an entry that is ready.
Ticket(l, v, e) == [lba |-> l, value |-> v, entry |-> e]
Good(t, e, d, i, c) == t \in Tickets /\ Ready(e, d, i, t.entry) /\ t.lba \in Extent(c)
AllGood(w, e, d, i, c) == w \in Seq(Tickets) /\ \A k \in 1..Len(w) : Good(w[k], e, d, i, c)

\* A write into the extent to be saved is good.
LEMMA TicketGood ==
  ASSUME NEW l \in Nat, NEW v \in Stored, NEW b, NEW e, NEW d, NEW i, NEW c,
         Ready(e, d, i, b), l \in Extent(c)
  PROVE  Good(Ticket(l, v, b), e, d, i, c)
PROOF
  <1>1. b \in Records
    BY Zenon DEF Ready, CanHold, Whole
  <1>2. Ticket(l, v, b) \in Tickets
    BY <1>1, Zenon DEF Ticket, Tickets
  <1>3. Ticket(l, v, b).entry = b /\ Ticket(l, v, b).lba = l
    BY Zenon DEF Ticket
  <1> QED
    BY <1>2, <1>3, Zenon DEF Good

\* A list of good writes is good.
LEMMA RowGood ==
  ASSUME NEW n \in Nat, NEW w, NEW e, NEW d, NEW i, NEW c,
         DOMAIN w = 1..n, w = [k \in 1..n |-> w[k]],
         \A k \in 1..n : Good(w[k], e, d, i, c)
  PROVE  AllGood(w, e, d, i, c)
PROOF
  <1>1. \A k \in 1..n : w[k] \in Tickets
    BY Zenon DEF Good
  <1>2. w \in [1..n -> Tickets]
    BY <1>1, Zenon
  <1>3. w \in Seq(Tickets)
    BY <1>2
  <1>4. Len(w) = n
    BY <1>2, <1>3
  <1> QED
    BY <1>3, <1>4, Zenon DEF AllGood

\* So is one such list after another.
LEMMA BothGood ==
  ASSUME NEW e, NEW d, NEW i, NEW c, NEW v, AllGood(v, e, d, i, c), NEW w, AllGood(w, e, d, i, c)
  PROVE  AllGood(v \o w, e, d, i, c)
PROOF
  <1>1. v \in Seq(Tickets) /\ w \in Seq(Tickets)
    BY Zenon DEF AllGood
  <1>2. v \o w \in Seq(Tickets) /\ Len(v \o w) = Len(v) + Len(w) /\ Len(v) \in Nat /\ Len(w) \in Nat
    BY <1>1
  <1>3. ASSUME NEW k \in 1..Len(v \o w) PROVE Good((v \o w)[k], e, d, i, c)
    <2>1. CASE k <= Len(v)
      <3>1. k \in 1..Len(v) /\ (v \o w)[k] = v[k]
        BY <2>1, <1>1, <1>2
      <3> QED
        BY <3>1, Zenon DEF AllGood
    <2>2. CASE ~(k <= Len(v))
      <3>1. k - Len(v) \in 1..Len(w) /\ (v \o w)[k] = w[k - Len(v)]
        BY <2>2, <1>1, <1>2
      <3> QED
        BY <3>1, Zenon DEF AllGood
    <2> QED
      BY <2>1, <2>2, Zenon
  <1> QED
    BY <1>2, <1>3, Zenon DEF AllGood

\* An operation starts: its plan is sound when its writes are.
LEMMA PlanWorking ==
  ASSUME NEW kind, NEW e, NEW d, NEW pr, NEW i \in Used(e), NEW c, Ready(e, d, i, c),
         pr[c.name] = Unknown, NEW w, AllGood(w, e, d, i, c)
  PROVE  Working(Plan(kind, i, w, c), e, d, pr)
PROOF
  <1> DEFINE o == Plan(kind, i, w, c)
  <1>1. o.kind = kind /\ o.index = i /\ o.writes = w /\ o.final = c
    BY PlanIs
  <1>2. o = Plan(o.kind, o.index, o.writes, o.final)
    BY <1>1, Zenon
  <1> HIDE DEF o
  <1>3. e[i].name = c.name
    BY Zenon DEF Ready
  <1>4. \A k \in 1..Len(w) : Ready(e, d, i, w[k].entry) /\ w[k].lba \in Extent(c)
    BY Zenon DEF AllGood, Good
  <1>5. Working(o, e, d, pr)
    BY <1>1, <1>2, <1>3, <1>4, Zenon DEF Working, AllGood
  <1> QED
    BY <1>5, Zenon DEF o

\* The writes of write_entry_data.
LEMMA WritesGood ==
  ASSUME NEW e, NEW d, NEW i, NEW b, Ready(e, d, i, b), NEW data \in Seq(Stored),
         Len(data) <= b.capacity, NEW c, Extent(c) = Extent(b)
  PROVE  AllGood(Writes(b, data), e, d, i, c)
PROOF
  <1> DEFINE w == Writes(b, data)
             n == Len(data)
  <1>1. n \in Nat /\ DOMAIN data = 1..n /\ \A k \in 1..n : data[k] \in Stored
    OBVIOUS
  <1>2. b \in Records /\ b.start \in Nat /\ b.capacity \in Nat
    <2>1. b \in Records
      BY Zenon DEF Ready, CanHold, Whole
    <2> QED
      BY <2>1, Zenon DEF Records
  <1>3. w = [k \in 1..n |-> Ticket(b.start + k - 1, data[k], b)]
    BY <1>1, Zenon DEF Writes, Ticket
  <1>4. ASSUME NEW k \in 1..n PROVE Good(Ticket(b.start + k - 1, data[k], b), e, d, i, c)
    <2>1. b.start + k - 1 \in Nat /\ b.start + k - 1 \in Extent(b)
      BY <1>1, <1>2, SMTT(60) DEF Extent
    <2> QED
      BY <2>1, <1>1, TicketGood, Zenon
  <1> HIDE DEF w, n
  <1>5. DOMAIN w = 1..n /\ w = [k \in 1..n |-> w[k]] /\ \A k \in 1..n : Good(w[k], e, d, i, c)
    BY <1>3, <1>4, Zenon
  <1>6. AllGood(w, e, d, i, c)
    BY <1>1, <1>5, RowGood, Zenon
  <1> QED
    BY <1>6, Zenon DEF w

\* Contents are padded to whole sectors.
LEMMA PaddedIs ==
  ASSUME volume \in Volumes, NEW data \in Seq(Stored)
  PROVE  /\ Padded(data) \in Seq(Stored) /\ Len(Padded(data)) = NeededSectors(Len(data))
         /\ Len(data) \in Nat
PROOF
  <1>1. Zero \in Stored
    BY VolumeFacts, Zenon DEF Stored
  <1>2. CASE data = << >>
    <2>1. Padded(data) = <<Zero>> /\ Len(data) = 0 /\ Len(<<Zero>>) = 1
      BY <1>2, Zenon DEF Padded
    <2>2. NeededSectors(0) = 1
      BY DEF NeededSectors, Max2
    <2>3. <<Zero>> \in Seq(Stored)
      BY <1>1
    <2> QED
      BY <2>1, <2>2, <2>3, SMTT(60)
  <1>3. CASE data # << >>
    <2>1. Padded(data) = data /\ Len(data) \in Nat /\ Len(data) >= 1
      BY <1>3 DEF Padded
    <2>2. NeededSectors(Len(data)) = Len(data)
      BY <2>1, Zenon DEF NeededSectors, Max2
    <2> QED
      BY <2>1, <2>2, Zenon
  <1> QED
    BY <1>2, <1>3, Zenon

\* What is ready for slot i, before and after the entry c goes into it.
LEMMA StartWriteStep ==
  ASSUME volume \in Volumes, Sound(entries, directory, disk, op, promised),
         NEW kind, NEW n, NEW i \in Indices, NEW data \in Seq(Stored),
         Ready(entries, directory, i, EntryFor(n, i)), StartWrite(kind, n, i, data)
  PROVE  Sound(entries', directory', disk', op', promised')
PROOF
  <1> DEFINE s == Len(data)
             b == EntryFor(n, i)
             c == Placed(b, s)
             pr == Tell(promised, b.name, Unknown)
             w == Writes(c, Padded(data))
  <1>1. /\ entries' = Put(entries, i, c) /\ directory' = directory /\ disk' = disk
        /\ promised' = pr
        /\ op' = Idle \/ op' = Plan(kind, i, w, Sized(c, s))
    BY Zenon DEF StartWrite, Begin, Put, Tell, Sized
  <1>2. /\ Tables(entries, directory, disk, promised) /\ TableOK(entries)
        /\ disk \in [0..(Sectors - 1) -> Stored] /\ DOMAIN promised = Names
        /\ DirectoryKept => Lags(directory, entries)
    BY Zenon DEF Sound, Tables
  <1>3. s \in Nat /\ Padded(data) \in Seq(Stored) /\ Len(Padded(data)) = NeededSectors(s)
    BY PaddedIs, Zenon
  <1>4. b \in Records /\ b.name \in Names
    BY ReadyNamed, Zenon DEF Ready, CanHold, Whole
  <1>5. \A j \in Used(entries) : End(entries[j]) <= next_data_lba
    BY <1>2, NextBehind, Zenon
  <1>6. Ready(entries, directory, i, c)
    BY <1>2, <1>3, <1>5, PlacedReady, ZenonT(60)
  <1>7. c \in Records /\ c.name = b.name /\ c.capacity >= NeededSectors(s)
    BY <1>2, <1>3, <1>4, PlacedIs, SMTT(60)
  <1> HIDE DEF s, b, c, pr, w
  <1>8. Tables(entries, directory, disk, pr) /\ DOMAIN pr = Names /\ pr[c.name] = Unknown
    <2>1. Tables(entries, directory, disk, pr)
      BY <1>2, <1>4, TellStep, ZenonT(60) DEF pr
    <2>2. DOMAIN pr = Names /\ \A m \in Names : pr[m] = IF m = b.name THEN Unknown ELSE promised[m]
      BY <1>2, <1>4, TellIs, SMTT(60) DEF pr
    <2> QED
      BY <2>1, <2>2, <1>4, <1>7, Zenon
  <1>9. Tables(entries', directory, disk, pr)
    BY <1>1, <1>6, <1>8, MemoryStep, Zenon
  <1>10. CASE op' = Idle
    BY <1>1, <1>2, <1>8, <1>9, <1>10, Zenon DEF Sound
  <1>11. CASE op' = Plan(kind, i, w, Sized(c, s))
    <2>1. c.capacity \in Nat /\ NeededSectors(s) \in Nat /\ s <= NeededSectors(s)
      BY <1>3, <1>7, NeededIs, Zenon DEF Records
    <2>2. s <= c.capacity /\ NeededSectors(s) <= c.capacity
      BY <2>1, <1>3, <1>7, SMTT(60)
    <2>3. Ready(entries', directory, i, c)
      BY <1>1, <1>2, <1>6, ReadyAfter, Zenon
    <2>4. Ready(entries', directory, i, Sized(c, s))
      BY <2>2, <2>3, <1>3, ReadySized, Zenon
    <2>5. /\ Sized(c, s).name = c.name /\ Sized(c, s).start = c.start
          /\ Sized(c, s).capacity = c.capacity
      BY <1>3, <1>7, SizedIs, Zenon
    <2>6. Extent(Sized(c, s)) = Extent(c)
      BY <2>5, Zenon DEF Extent
    <2>7. AllGood(w, entries', directory, i, Sized(c, s))
      BY <2>2, <2>3, <2>6, <1>3, WritesGood, SMTT(60) DEF w
    <2>8. i \in Used(entries')
      BY <1>1, <1>2, <1>6, PutUsed, Zenon DEF Ready
    <2>9. pr[Sized(c, s).name] = Unknown
      BY <2>5, <1>8, Zenon
    <2>10. Working(op', entries', directory, pr)
      BY <2>4, <2>7, <2>8, <2>9, <1>11, PlanWorking, ZenonT(60)
    <2> QED
      BY <2>10, <1>1, <1>2, <1>8, <1>9, ZenonT(60) DEF Sound
  <1> QED
    BY <1>1, <1>10, <1>11, Zenon

\* The contents callers write can be stored.
LEMMA ContentsAre ==
  ASSUME volume \in Volumes, NEW data \in Contents PROVE data \in Seq(Stored)
PROOF
  <1>1. PICK n \in 0..MaxSize : data \in [1..n -> Values]
    BY Zenon DEF Contents
  <1>2. n \in Nat /\ data \in [1..n -> Stored]
    BY <1>1, VolumeFacts DEF Stored
  <1> QED
    BY <1>2

\* fs_write plans its writes in the old extent or behind all others.
LEMMA WriteStep ==
  ASSUME volume \in Volumes, Sound(entries, directory, disk, op, promised),
         NEW n \in volume.names, NEW data \in Contents, Write(n, data)
  PROVE  Sound(entries', directory', disk', op', promised')
PROOF
  <1>1. PICK i \in Target(n) : StartWrite("write", n, i, data)
    BY Zenon DEF Write
  <1>2. n \in Names /\ data \in Seq(Stored)
    BY VolumeFacts, ContentsAre
  <1>3. TableOK(entries) /\ (DirectoryKept => Lags(directory, entries))
    BY Zenon DEF Sound, Tables
  <1>4. i \in Indices /\ Ready(entries, directory, i, EntryFor(n, i))
    BY <1>2, <1>3, TargetIs, Zenon
  <1> QED
    BY <1>1, <1>2, <1>4, StartWriteStep, Zenon

\* fs_symlink writes a file, and marks it afterwards.
LEMMA SymlinkStep ==
  ASSUME volume \in Volumes, Sound(entries, directory, disk, op, promised),
         NEW n \in volume.names, NEW link \in volume.links, Symlink(link, n)
  PROVE  Sound(entries', directory', disk', op', promised')
PROOF
  <1>1. PICK i \in allocate_entry(n) : StartWrite("symlink", n, i, <<link>>)
    BY Zenon DEF Symlink
  <1>2. n \in Names /\ Named(entries, n) = {}
    BY VolumeFacts, Zenon DEF Symlink
  <1>3. TableOK(entries) /\ (DirectoryKept => Lags(directory, entries))
    BY Zenon DEF Sound, Tables
  <1>4. i \in Target(n)
    BY <1>2, Zenon DEF Target
  <1>5. i \in Indices /\ Ready(entries, directory, i, EntryFor(n, i))
    BY <1>2, <1>3, <1>4, TargetIs, Zenon
  <1>6. <<link>> \in Seq(Stored)
    <2>1. link \in Stored
      BY Zenon DEF Stored
    <2> QED
      BY <2>1
  <1> QED
    BY <1>1, <1>5, <1>6, StartWriteStep, Zenon

-----------------------------------------------------------------------------
(* fs_write_at *)

\* The fields of an entry that is ready.
LEMMA ReadyFields ==
  ASSUME NEW e, NEW d, NEW i, NEW b, Ready(e, d, i, b)
  PROVE  /\ b \in Records /\ b.start \in Nat /\ b.capacity \in Nat /\ b.size \in Nat
         /\ b.size <= b.capacity
PROOF
  <1>1. b \in Records /\ b.size <= b.capacity
    BY Zenon DEF Ready, CanHold, Whole
  <1> QED
    BY <1>1, Zenon DEF Records

\* The copy fs_write_at makes goes to the extent it will save.
LEMMA CopyGood ==
  ASSUME volume \in Volumes, disk \in [0..(Sectors - 1) -> Stored],
         NEW e, NEW d, NEW i, NEW b, Ready(e, d, i, b), NEW m, Ready(e, d, i, m),
         m # b => b.start + b.capacity <= Sectors, NEW c, Extent(c) = Extent(m)
  PROVE  AllGood(CopyWrites(b, m), e, d, i, c)
PROOF
  <1>1. CASE m = b
    <2>1. CopyWrites(b, m) = << >>
      BY <1>1, Zenon DEF CopyWrites
    <2>2. << >> \in Seq(Tickets) /\ \A k \in 1..Len(<< >>) : FALSE
      OBVIOUS
    <2> QED
      BY <2>1, <2>2, Zenon DEF AllGood
  <1>2. CASE m # b
    <2> DEFINE Value(k) == IF k <= b.capacity THEN disk[b.start + k - 1] ELSE Zero
               n == m.capacity
               w == CopyWrites(b, m)
    <2>1. b.start \in Nat /\ b.capacity \in Nat /\ m.start \in Nat /\ n \in Nat
      BY ReadyFields, Zenon
    <2>2. Zero \in Stored /\ Sectors \in Nat
      BY VolumeFacts, Zenon DEF Stored
    <2>3. w = [k \in 1..n |-> Ticket(m.start + k - 1, Value(k), b)]
      BY <1>2, Zenon DEF CopyWrites, Ticket
    <2>4. ASSUME NEW k \in 1..n PROVE Value(k) \in Stored
      <3>1. CASE k <= b.capacity
        <4>1. b.start + k - 1 \in 0..(Sectors - 1)
          BY <3>1, <2>1, <2>2, <1>2, SMTT(60)
        <4> QED
          BY <3>1, <4>1, SMTT(60)
      <3>2. CASE ~(k <= b.capacity)
        BY <3>2, <2>2, Zenon
      <3> QED
        BY <3>1, <3>2
    <2> HIDE DEF Value
    <2>5. ASSUME NEW k \in 1..n PROVE Good(Ticket(m.start + k - 1, Value(k), b), e, d, i, c)
      <3>1. m.start + k - 1 \in Nat /\ m.start + k - 1 \in Extent(m)
        BY <2>1, SMTT(60) DEF Extent
      <3> QED
        BY <3>1, <2>4, TicketGood, Zenon
    <2> HIDE DEF w, n
    <2>6. DOMAIN w = 1..n /\ w = [k \in 1..n |-> w[k]] /\ \A k \in 1..n : Good(w[k], e, d, i, c)
      BY <2>3, <2>5, Zenon
    <2>7. AllGood(w, e, d, i, c)
      BY <2>1, <2>6, RowGood, Zenon
    <2> QED
      BY <2>7, Zenon DEF w
  <1> QED
    BY <1>1, <1>2, Zenon

\* So do the zeroes up to the offset.
LEMMA GapGood ==
  ASSUME volume \in Volumes, NEW e, NEW d, NEW i, NEW m, Ready(e, d, i, m),
         NEW offset \in Nat, offset <= m.capacity, NEW c, Extent(c) = Extent(m)
  PROVE  AllGood(GapWrites(m, offset), e, d, i, c)
PROOF
  <1> DEFINE n == Max2(0, offset - m.size)
             w == GapWrites(m, offset)
  <1>1. m.start \in Nat /\ m.capacity \in Nat /\ m.size \in Nat
    BY ReadyFields, Zenon
  <1>2. n \in Nat /\ (n = 0 \/ n = offset - m.size)
    BY <1>1 DEF Max2
  <1>3. Zero \in Stored
    BY VolumeFacts, Zenon DEF Stored
  <1>4. w = [k \in 1..n |-> Ticket(m.start + m.size + k - 1, Zero, m)]
    BY Zenon DEF GapWrites, Ticket
  <1> HIDE DEF w, n
  <1>5. ASSUME NEW k \in 1..n PROVE Good(Ticket(m.start + m.size + k - 1, Zero, m), e, d, i, c)
    <2>1. m.start + m.size + k - 1 \in Nat /\ m.start + m.size + k - 1 \in Extent(m)
      <3>1. k \in Nat /\ k >= 1 /\ k <= offset - m.size
        BY <1>1, <1>2
      <3>2. /\ m.start + m.size + k - 1 \in Nat
            /\ m.start + m.size + k - 1 \in m.start..(m.start + m.capacity - 1)
        BY <1>1, <3>1
      <3> QED
        BY <3>2, Zenon DEF Extent
    <2> QED
      BY <2>1, <1>3, TicketGood, Zenon
  <1>6. DOMAIN w = 1..n /\ w = [k \in 1..n |-> w[k]] /\ \A k \in 1..n : Good(w[k], e, d, i, c)
    BY <1>4, <1>5, Zenon
  <1>7. AllGood(w, e, d, i, c)
    BY <1>2, <1>6, RowGood, Zenon
  <1> QED
    BY <1>7, Zenon DEF w

\* So does the data.
LEMMA AtGood ==
  ASSUME NEW e, NEW d, NEW i, NEW m, Ready(e, d, i, m), NEW offset \in Nat,
         NEW data \in Seq(Stored), offset + Len(data) <= m.capacity, NEW c, Extent(c) = Extent(m)
  PROVE  AllGood(AtWrites(m, offset, data), e, d, i, c)
PROOF
  <1> DEFINE n == Len(data)
             w == AtWrites(m, offset, data)
  <1>1. m.start \in Nat /\ m.capacity \in Nat
    BY ReadyFields, Zenon
  <1>2. n \in Nat /\ DOMAIN data = 1..n /\ \A k \in 1..n : data[k] \in Stored
    OBVIOUS
  <1>3. w = [k \in 1..n |-> Ticket(m.start + offset + k - 1, data[k], m)]
    BY <1>2, Zenon DEF AtWrites, Ticket
  <1>4. ASSUME NEW k \in 1..n PROVE Good(Ticket(m.start + offset + k - 1, data[k], m), e, d, i, c)
    <2>1. m.start + offset + k - 1 \in Nat /\ m.start + offset + k - 1 \in Extent(m)
      BY <1>1, <1>2, SMTT(60) DEF Extent
    <2> QED
      BY <2>1, <1>2, TicketGood, Zenon
  <1> HIDE DEF w, n
  <1>5. DOMAIN w = 1..n /\ w = [k \in 1..n |-> w[k]] /\ \A k \in 1..n : Good(w[k], e, d, i, c)
    BY <1>3, <1>4, Zenon
  <1>6. AllGood(w, e, d, i, c)
    BY <1>2, <1>5, RowGood, Zenon
  <1> QED
    BY <1>6, Zenon DEF w

\* The plan of fs_write_at, in tables where its entry b stands in slot i.
LEMMA WriteAtPlan ==
  ASSUME volume \in Volumes, disk \in [0..(Sectors - 1) -> Stored], TableOK(entries),
         NEW f, NEW g, TableOK(f), DirectoryKept => Lags(g, f),
         \A j \in Used(f) : End(f[j]) <= next_data_lba,
         NEW i \in Used(f), NEW b, Ready(f, g, i, b), NEW pr, pr[b.name] = Unknown,
         NEW offset \in Nat, NEW data \in Seq(Stored), NEW m, m = Placed(b, NewSize(b, offset, data)),
         m # b => b.start + b.capacity <= Sectors
  PROVE  Working(Plan("write", i,
                      CopyWrites(b, m) \o GapWrites(m, offset) \o AtWrites(m, offset, data),
                      Sized(m, NewSize(b, offset, data))), f, g, pr)
PROOF
  <1> DEFINE s == NewSize(b, offset, data)
             c == Sized(m, s)
             w == CopyWrites(b, m) \o GapWrites(m, offset) \o AtWrites(m, offset, data)
  <1>1. b \in Records /\ b.size \in Nat /\ Len(data) \in Nat
    BY ReadyFields
  <1>2. s \in Nat /\ offset + Len(data) <= s
    BY <1>1 DEF NewSize, Max2
  <1> HIDE DEF s
  <1>3. i \in Indices /\ m = Placed(b, s)
    BY Zenon DEF Used, s
  <1>4. Ready(f, g, i, m)
    BY <1>2, <1>3, PlacedReady, Zenon
  <1>5. m \in Records /\ m.name = b.name /\ m.capacity >= NeededSectors(s)
    <2>1. /\ Placed(b, s) \in Records /\ Placed(b, s).name = b.name
          /\ Placed(b, s).capacity >= NeededSectors(s)
      BY <1>1, <1>2, PlacedIs
    <2> QED
      BY <2>1, <1>3, Zenon
  <1>6. m.capacity \in Nat /\ NeededSectors(s) \in Nat /\ s <= NeededSectors(s)
    BY <1>2, <1>4, ReadyFields, NeededIs, Zenon
  <1>7. s <= m.capacity /\ offset + Len(data) <= m.capacity /\ offset <= m.capacity
    BY <1>1, <1>2, <1>5, <1>6, SMTT(60)
  <1>8. Ready(f, g, i, c)
    BY <1>2, <1>4, <1>7, ReadySized, Zenon
  <1>9. c.name = m.name /\ c.start = m.start /\ c.capacity = m.capacity
    BY <1>2, <1>5, SizedIs, Zenon
  <1>10. Extent(c) = Extent(m)
    BY <1>9, Zenon DEF Extent
  <1> HIDE DEF c
  <1>11. AllGood(CopyWrites(b, m), f, g, i, c)
    BY <1>4, <1>10, CopyGood, SMTT(60)
  <1>12. AllGood(GapWrites(m, offset), f, g, i, c)
    BY <1>4, <1>7, <1>10, GapGood, SMTT(60)
  <1>13. AllGood(AtWrites(m, offset, data), f, g, i, c)
    BY <1>4, <1>7, <1>10, AtGood, SMTT(60)
  <1>14. AllGood(w, f, g, i, c)
    BY <1>11, <1>12, <1>13, BothGood, Zenon
  <1> HIDE DEF w
  <1>15. pr[c.name] = Unknown
    BY <1>5, <1>9, Zenon
  <1>16. Working(Plan("write", i, w, c), f, g, pr)
    BY <1>8, <1>14, <1>15, PlanWorking, Zenon
  <1> QED
    BY <1>16, Zenon DEF w, c, s

\* fs_write_at as a whole.
LEMMA WriteAtStep ==
  ASSUME volume \in Volumes, Sound(entries, directory, disk, op, promised),
         NEW n \in volume.names, NEW offset \in Nat, NEW data \in Contents,
         WriteAt(n, offset, data)
  PROVE  Sound(entries', directory', disk', op', promised')
PROOF
  <1> DEFINE Wr(b, m) == CopyWrites(b, m) \o GapWrites(m, offset) \o AtWrites(m, offset, data)
             Goal(i, b, m, s) ==
               op' = Idle \/ ((m # b => b.start + b.capacity <= Sectors)
                              /\ op' = Plan("write", i, Wr(b, m), Sized(m, s)))
             Size(b) == NewSize(b, offset, data)
  <1>0. n \in Names /\ data \in Seq(Stored)
    BY VolumeFacts, ContentsAre
  <1>1. PICK i \in Target(n) :
          /\ entries' = Put(entries, i, EntryFor(n, i)) /\ disk' = disk
          /\ promised' = Tell(promised, EntryFor(n, i).name, Unknown)
          /\ \/ /\ directory' = IF Named(entries, n) = {}
                                THEN Put(directory, i, EntryFor(n, i)) ELSE directory
                /\ Goal(i, EntryFor(n, i), Placed(EntryFor(n, i), Size(EntryFor(n, i))),
                        Size(EntryFor(n, i)))
             \/ directory' = directory /\ op' = Idle
    BY Zenon DEF WriteAt, Begin, Put, Tell, Sized
  <1> DEFINE b == EntryFor(n, i)
             s == Size(b)
             m == Placed(b, s)
             pr == Tell(promised, b.name, Unknown)
  <1>2. /\ Tables(entries, directory, disk, promised) /\ TableOK(entries)
        /\ disk \in [0..(Sectors - 1) -> Stored] /\ DOMAIN promised = Names
        /\ DirectoryKept => Lags(directory, entries) /\ TableOK(directory)
    BY Zenon DEF Sound, Tables, Lags
  <1>3. /\ i \in Indices /\ Ready(entries, directory, i, b)
        /\ Named(entries, n) # {} => i \in Used(entries) /\ b = entries[i]
        /\ Named(entries, n) = {} => b.start = 0 /\ b.capacity = 0
    BY <1>0, <1>2, TargetIs, Zenon
  <1>4. /\ entries' = Put(entries, i, b) /\ disk' = disk /\ promised' = pr
        /\ \/ /\ directory' = IF Named(entries, n) = {} THEN Put(directory, i, b) ELSE directory
              /\ Goal(i, b, m, s)
           \/ directory' = directory /\ op' = Idle
    BY <1>1, Zenon
  <1> HIDE DEF b, m, pr, s, Goal, Size, Wr
  <1>5. b.name \in Names
    BY <1>3, ReadyNamed, Zenon
  <1>6. Tables(entries, directory, disk, pr) /\ DOMAIN pr = Names /\ pr[b.name] = Unknown
    <2>1. Tables(entries, directory, disk, pr)
      BY <1>2, <1>5, TellStep, ZenonT(60) DEF pr
    <2>2. DOMAIN pr = Names /\ \A x \in Names : pr[x] = IF x = b.name THEN Unknown ELSE promised[x]
      BY <1>2, <1>5, TellIs, SMTT(60) DEF pr
    <2> QED
      BY <2>1, <2>2, <1>5, Zenon
  <1>7. directory' = directory \/ directory' = Put(directory, i, b)
    BY <1>4, Zenon
  <1>8. Tables(entries', directory', disk, pr)
    BY <1>3, <1>4, <1>6, <1>7, MemoryStep, SaveStep, Zenon
  <1>9. CASE op' = Idle
    BY <1>2, <1>4, <1>6, <1>8, <1>9, Zenon DEF Sound
  <1>10. CASE op' # Idle
    <2>1. Ready(entries', directory', i, b)
      BY <1>2, <1>3, <1>4, <1>7, ReadyAfter, ReadySaved, ZenonT(60)
    <2>2. i \in Used(entries') /\ TableOK(entries') /\ (DirectoryKept => Lags(directory', entries'))
      BY <1>2, <1>3, <1>4, <1>8, PutUsed, ZenonT(60) DEF Ready, Tables
    <2>3. /\ \A j \in Indices : entries'[j] = IF j = i THEN b ELSE entries[j]
          /\ \A j \in Used(entries') : j \in Indices /\ (j = i \/ j \in Used(entries))
      <3>1. CanHold(entries, i, b)
        BY <1>3, Zenon DEF Ready
      <3> QED
        BY <3>1, <1>2, <1>3, <1>4, PutUsed, SMTT(60)
    <2>4. next_data_lba \in Nat /\ \A j \in Used(entries) : End(entries[j]) <= next_data_lba
      BY <1>2, NextBehind, Zenon
    <2>5. End(b) <= next_data_lba
      <3>1. CASE Named(entries, n) # {}
        BY <3>1, <1>3, <2>4, ZenonT(60)
      <3>2. CASE Named(entries, n) = {}
        BY <3>2, <1>3, <2>4, SMTT(60) DEF End
      <3> QED
        BY <3>1, <3>2, Zenon
    <2>6. \A j \in Used(entries') : End(entries'[j]) <= next_data_lba
      BY <2>3, <2>4, <2>5, Zenon
    <2>7. /\ m # b => b.start + b.capacity <= Sectors
          /\ op' = Plan("write", i, Wr(b, m), Sized(m, s))
      BY <1>4, <1>10, Zenon DEF Goal
    <2>8. m = Placed(b, NewSize(b, offset, data)) /\ s = NewSize(b, offset, data)
      BY Zenon DEF m, s, Size
    <2>9. Working(op', entries', directory', pr)
      BY <1>0, <1>2, <1>6, <2>1, <2>2, <2>6, <2>7, <2>8, WriteAtPlan, ZenonT(60) DEF Wr
    <2> QED
      BY <2>9, <1>2, <1>4, <1>6, <1>8, Zenon DEF Sound
  <1> QED
    BY <1>9, <1>10, SMTT(60)

-----------------------------------------------------------------------------
(* The theorems *)

\* A volume starts empty.
LEMMA VolumeInit == Init => VolumeInv
PROOF
  <1> SUFFICES ASSUME Init PROVE VolumeInv
    BY Zenon
  <1>0. /\ volume \in Volumes /\ op = Idle /\ directory = entries
        /\ entries = [i \in Indices |-> NoEntry] /\ disk = [s \in 0..(Sectors - 1) |-> Zero]
        /\ promised = [n \in Names |-> <<"absent">>]
    BY Zenon DEF Init
  <1>1. Whole(NoEntry) /\ NoEntry \in Records /\ NoEntry.type = "none"
    BY NoEntryWhole, Zenon DEF Whole
  <1>2. /\ entries \in [Indices -> Records] /\ \A i \in Indices : entries[i] = NoEntry
    BY <1>0, <1>1
  <1>3. Used(entries) = {}
    BY <1>1, <1>2, SMTT(60) DEF Used
  <1>4. TableOK(entries)
    BY <1>1, <1>2, <1>3, SMTT(60) DEF TableOK, Connected
  <1>5. Lags(entries, entries)
    BY <1>3, <1>4 DEF Lags
  <1>6. \A n : HoldIn(entries, disk, n) = <<"absent">>
    BY <1>3 DEF HoldIn, Named
  <1>7. Held(entries, disk, promised) /\ DOMAIN promised = Names
    BY <1>0, <1>6, Zenon DEF Held
  <1>8. disk \in [0..(Sectors - 1) -> Stored]
    <2>1. Zero \in Stored
      BY <1>0, VolumeFacts DEF Stored
    <2> QED
      BY <2>1, <1>0, Zenon
  <1> QED
    BY <1>0, <1>4, <1>5, <1>7, <1>8, Zenon DEF VolumeInv, Sound, Tables

\* No step changes which volume it is.
LEMMA NextKeeps == Next => volume' = volume
PROOF
  <1> SUFFICES ASSUME Next PROVE volume' = volume
    BY Zenon
  <1>1. ASSUME NEW n, NEW data, Write(n, data) PROVE volume' = volume
    BY <1>1, Zenon DEF Write, StartWrite
  <1>2. ASSUME NEW n, NEW offset, NEW data, WriteAt(n, offset, data) PROVE volume' = volume
    BY <1>2, Zenon DEF WriteAt
  <1>3. ASSUME NEW n, NEW link, Symlink(link, n) PROVE volume' = volume
    BY <1>3, Zenon DEF Symlink, StartWrite
  <1>4. ASSUME NEW n, Mkdir(n) \/ Delete(n) \/ Chmod(n) PROVE volume' = volume
    BY <1>4, Zenon DEF Mkdir, Delete, Chmod, SaveAlone
  <1>5. ASSUME DataWrite \/ DataFault \/ Save \/ SaveFault \/ Crash PROVE volume' = volume
    BY <1>5, Zenon DEF DataWrite, DataFault, Save, SaveFault, Crash
  <1> QED
    BY <1>1, <1>2, <1>3, <1>4, <1>5, Zenon DEF Next

\* Every step keeps the invariant.
LEMMA VolumeNext == VolumeInv /\ [Next]_vars => VolumeInv'
PROOF
  <1> SUFFICES ASSUME VolumeInv, [Next]_vars PROVE VolumeInv'
    BY Zenon
  <1>1. volume' = volume
    BY NextKeeps, Zenon DEF vars
  <1>2. volume \in Volumes /\ volume' \in Volumes /\ (Trusted' <=> Trusted)
    <2>1. volume \in Volumes
      BY Zenon DEF VolumeInv
    <2>2. Trusted' = Trusted
      BY <1>1, SameVolume, Zenon
    <2> QED
      BY <2>1, <2>2, <1>1, Zenon
  <1> SUFFICES ASSUME Trusted PROVE Sound(entries', directory', disk', op', promised')
    BY <1>1, <1>2, SameSound, Zenon DEF VolumeInv
  <1>3. Sound(entries, directory, disk, op, promised)
    BY Zenon DEF VolumeInv
  <1>4. CASE UNCHANGED vars
    <2>1. /\ entries' = entries /\ directory' = directory /\ disk' = disk
          /\ op' = op /\ promised' = promised
      BY <1>4, SMTT(60) DEF vars
    <2> QED
      BY <2>1, <1>3, Zenon
  <1>5. CASE \E n \in volume.names, data \in Contents : Write(n, data)
    BY <1>2, <1>3, <1>5, WriteStep, SMTT(60)
  <1>6. CASE \E n \in volume.names, offset \in 0..MaxSize, data \in Contents \ {<< >>} :
               offset + Len(data) <= MaxSize /\ WriteAt(n, offset, data)
    <2>1. PICK n \in volume.names, offset \in 0..MaxSize, data \in Contents \ {<< >>} :
            WriteAt(n, offset, data)
      BY <1>6
    <2>2. offset \in Nat /\ data \in Contents
      BY <1>2, VolumeFacts, SMTT(60)
    <2> QED
      BY <1>2, <1>3, <2>1, <2>2, WriteAtStep, ZenonT(60)
  <1>7. CASE \E n \in volume.names, link \in volume.links : Symlink(link, n)
    BY <1>2, <1>3, <1>7, SymlinkStep, SMTT(60)
  <1>8. CASE \E n \in volume.names : Mkdir(n) \/ Delete(n) \/ Chmod(n)
    BY <1>2, <1>3, <1>8, MkdirStep, DeleteStep, ChmodStep, Zenon
  <1>9. CASE DataWrite
    BY <1>2, <1>3, <1>9, DataWriteStep, SMTT(60)
  <1>10. CASE DataFault
    BY <1>2, <1>3, <1>10, DataFaultStep, SMTT(60)
  <1>11. CASE Save
    BY <1>2, <1>3, <1>11, SavedStep
  <1>12. CASE SaveFault
    BY <1>2, <1>3, <1>12, SaveFaultStep
  <1>13. CASE Crash
    BY <1>2, <1>3, <1>13, CrashStep, SMTT(60)
  <1> QED
    BY <1>4, <1>5, <1>6, <1>7, <1>8, <1>9, <1>10, <1>11, <1>12, <1>13, ZenonT(60) DEF Next

\* The invariant of the file system.
THEOREM VolumeInvariant == Spec => []VolumeInv
PROOF
  BY VolumeInit, VolumeNext, PTL DEF Spec

\* Both directories a reader may see are sound and keep the promises.
LEMMA SeenIs ==
  ASSUME VolumeInv, NEW dir \in Seen
  PROVE  TableOK(dir) /\ Held(dir, disk, promised)
PROOF
  <1>1. Trusted /\ (dir = entries \/ (dir = directory /\ DirectoryKept))
    BY Zenon DEF Seen, Trusted
  <1>2. Tables(entries, directory, disk, promised)
    BY <1>1, Zenon DEF VolumeInv, Sound
  <1> QED
    BY <1>1, <1>2, Zenon DEF Tables, Lags

\* The file system's directories in memory and on disk are sound whatever is
\* interrupted: no file outgrows its extent, no sector has two owners, and
\* every entry lies in a directory (next_data_lba, save_entry, fs_delete).
THEOREM VolumeIsSound == Spec => []VolumeSound
PROOF
  <1>1. VolumeInv => VolumeSound
    <2> SUFFICES ASSUME VolumeInv, NEW dir \in Seen
                 PROVE  /\ Disjoint(dir) /\ Connected(dir)
                        /\ \A i \in Used(dir) : dir[i].size <= dir[i].capacity
      BY Zenon DEF VolumeSound
    <2>1. TableOK(dir)
      BY SeenIs, Zenon
    <2>2. ASSUME NEW i \in Used(dir) PROVE dir[i] \in Records /\ dir[i].size <= dir[i].capacity
      BY <2>1, Zenon DEF TableOK, Used, Whole
    <2>3. ASSUME NEW i \in Used(dir), NEW j \in Used(dir), i # j
          PROVE  Extent(dir[i]) \cap Extent(dir[j]) = {}
      <3>1. Apart(dir[i], dir[j])
        BY <2>1, <2>3, Zenon DEF TableOK
      <3> QED
        BY <3>1, <2>2, ApartIs, Zenon
    <2> QED
      BY <2>1, <2>2, <2>3, Zenon DEF Disjoint, TableOK
  <1> QED
    BY <1>1, VolumeInvariant, PTL

\* What fs_write, fs_symlink, fs_mkdir and fs_delete reported is what a reader
\* and a reboot find, whatever happens to operations on other paths.
THEOREM PromisesAreDurable == Spec => []Durability
PROOF
  <1>1. VolumeInv => Durability
    <2> SUFFICES ASSUME VolumeInv, NEW dir \in Seen, NEW n \in Names
                 PROVE  promised[n] \in {Unknown, Holding(dir, n)}
      BY Zenon DEF Durability
    <2>1. Held(dir, disk, promised)
      BY SeenIs, Zenon
    <2> QED
      BY <2>1, HoldingIs, Zenon DEF Held
  <1> QED
    BY <1>1, VolumeInvariant, PTL

\* Growing a file never changes what a crash would find before the step that
\* saves its entry (fs_write_at copies first; write_entry_data writes to the
\* new extent).
THEOREM GrowthIsAtomic == Spec => GrowAtomic
PROOF
  <1> DEFINE Growing(n) ==
               /\ DirectoryKept
               /\ op # Idle /\ op.kind = "write" /\ op.writes # << >>
               /\ directory[op.index].name = n
               /\ directory[op.index].capacity < op.final.capacity
  <1>1. ASSUME VolumeInv, [Next]_vars, NEW n \in Names, Growing(n)
        PROVE  Holding(directory, n)' = Holding(directory, n)
    <2> DEFINE h == Head(op.writes)
    <2>1. volume' = volume
      BY <1>1, NextKeeps, Zenon DEF vars
    <2>2. Holding(directory, n)' = HoldIn(directory', disk', n)
      <3>1. Holding(directory, n)' = HoldIn(directory, disk, n)'
        BY Zenon DEF Holding, HoldIn, Told, ReadIn, ReadSectors
      <3> QED
        BY <3>1, <2>1, SameHold, Zenon
    <2>3. Holding(directory, n) = HoldIn(directory, disk, n)
      BY HoldingIs, Zenon
    <2> SUFFICES HoldIn(directory', disk', n) = HoldIn(directory, disk, n)
      BY <2>2, <2>3, Zenon
    <2>4. Sound(entries, directory, disk, op, promised)
      BY <1>1, Zenon DEF VolumeInv, Trusted
    <2>5. /\ op.index \in Indices /\ h \in Tickets /\ h.lba \in Extent(op.final)
          /\ Ready(entries, directory, op.index, op.final)
      BY <1>1, <2>4, HeadIs, Zenon
    <2>6. Lags(directory, entries) /\ TableOK(directory) /\ FitsDisk(directory, op.index, op.final)
      BY <1>1, <2>4, <2>5, Zenon DEF Sound, Tables, Lags, Ready
    <2>7. op.index \in Used(directory)
      BY <1>1, <2>5, <2>6, NamedUsed, Zenon
    <2>8. h.lba \notin Extent(directory[op.index])
      <3>1. Behind(directory[op.index], op.final)
        BY <2>6, <2>7, Zenon DEF FitsDisk
      <3>2. /\ directory[op.index] \in Records /\ op.final \in Records
        BY <2>5, <2>6, ReadyFields, Zenon DEF TableOK
      <3>3. /\ directory[op.index].start \in Nat /\ directory[op.index].capacity \in Nat
            /\ op.final.start \in Nat /\ op.final.capacity \in Nat
        BY <3>2 DEF Records
      <3>4. directory[op.index].capacity < op.final.capacity
        BY <1>1, Zenon
      <3>5. directory[op.index].start + directory[op.index].capacity <= op.final.start
        BY <3>1, <3>3, <3>4 DEF Behind, End
      <3> QED
        BY <3>3, <3>5, <2>5 DEF Extent
    <2>9. ASSUME NEW j \in Used(directory), directory[j].name = n PROVE j = op.index
      BY <1>1, <2>6, <2>7, <2>9, Zenon DEF TableOK
    <2>10. h.lba \in Nat
      BY <2>5, TicketIs, Zenon
    <2>11. HoldIn(directory, Written(disk, h.lba, h.value), n) = HoldIn(directory, disk, n)
      <3>1. \A j \in Used(directory) : directory[j].name = n => h.lba \notin Extent(directory[j])
        BY <2>8, <2>9, Zenon
      <3> QED
        BY <3>1, <2>6, <2>10, HoldDisk, ZenonT(60)
    <2>12. /\ directory' = directory
           /\ disk' = disk \/ disk' = Written(disk, h.lba, h.value)
      <3>1. op # Idle /\ op.writes # << >>
        BY <1>1, Zenon
      <3>2. CASE DataWrite
        BY <3>2, Zenon DEF DataWrite, Written
      <3>3. CASE DataFault
        BY <3>3, Zenon DEF DataFault, Written
      <3>4. CASE Crash
        BY <3>4, Zenon DEF Crash
      <3>5. CASE UNCHANGED vars
        BY <3>5, Zenon DEF vars
      <3> QED
        BY <3>1, <3>2, <3>3, <3>4, <3>5, <1>1, ZenonT(60)
           DEF Next, Write, WriteAt, Symlink, Mkdir, Delete, Chmod, Save, SaveFault
    <2> QED
      BY <2>11, <2>12, Zenon
  <1>2. VolumeInv /\ [Next]_vars =>
          [\A n \in Names : Growing(n) => Holding(directory, n)' = Holding(directory, n)]_vars
    BY <1>1, Zenon
  <1> QED
    BY <1>2, VolumeInvariant, PTL DEF Spec, GrowAtomic
=============================================================================
