------------------------------- MODULE VmBasics -----------------------------
(* Facts about Vm that both its invariants and its refinement rest on, for *)
(* every value of its constants: what a reference count says about the     *)
(* holders of a frame, what frames an allocation draws, and what the       *)
(* kernel's functions on page records compute.                             *)
EXTENDS Vm, FiniteSetTheorems, TLAPS

-----------------------------------------------------------------------------
(* Counting holders *)

\* Two different elements make a cardinality of two at least.
LEMMA TwoElements ==
  ASSUME NEW H, IsFiniteSet(H), NEW x \in H, NEW y \in H, x # y
  PROVE  Cardinality(H) >= 2
PROOF
  <1>1. IsFiniteSet({x}) /\ Cardinality({x}) = 1
    BY FS_Singleton, Zenon
  <1>2. Cardinality({x} \cup {y}) = 2 /\ IsFiniteSet({x} \cup {y})
    <2>1. y \notin {x}
      BY Zenon
    <2>2. Cardinality({x} \cup {y}) = Cardinality({x}) + 1 /\ IsFiniteSet({x} \cup {y})
      BY <1>1, <2>1, FS_AddElement, Zenon
    <2> QED
      BY <1>1, <2>2
  <1>3. {x} \cup {y} \subseteq H
    BY Zenon
  <1>4. Cardinality({x} \cup {y}) <= Cardinality(H)
    BY <1>3, FS_Subset, Zenon
  <1>5. Cardinality(H) \in Nat
    BY FS_CardinalityType, Zenon
  <1> QED
    BY <1>2, <1>4, <1>5, Zenon

\* Pages and file pages are finite, hence so are the sets of holders.
LEMMA FiniteHolders ==
  /\ IsFiniteSet(Pages)
  /\ IsFiniteSet(FilePages)
  /\ \A f : IsFiniteSet(PageHolders(f)) /\ IsFiniteSet(FileHolders(f))
PROOF
  <1>1. IsFiniteSet(Pages) /\ IsFiniteSet(FilePages)
    BY PagesAssumption, FS_Interval DEF Pages, FilePages
  <1>2. IsFiniteSet(Spaces \X Pages) /\ IsFiniteSet(Memfds \X FilePages)
    BY <1>1, SpacesAssumption, FS_Product, Zenon
  <1> QED
    BY <1>1, <1>2, FS_Subset, Zenon DEF PageHolders, FileHolders

\* Nothing holds a free frame.
LEMMA FreeUnheld ==
  ASSUME TypeOK, RefcountExact, NEW f \in FreeFrames
  PROVE  /\ f \in Frames /\ references[f] = 0
         /\ \A t \in Spaces, a \in Pages : page[t][a].frame # f
         /\ \A m \in Memfds, i \in FilePages : memfd[m].frames[i] # f
         /\ PageHolders(f) = {} /\ FileHolders(f) = {}
PROOF
  <1>1. f \in Frames /\ references[f] = 0
    BY Zenon DEF FreeFrames
  <1>2. IsFiniteSet(PageHolders(f)) /\ IsFiniteSet(FileHolders(f))
    BY FiniteHolders, Zenon
  <1>3. Cardinality(PageHolders(f)) = 0 /\ Cardinality(FileHolders(f)) = 0
    <2>1. Cardinality(PageHolders(f)) \in Nat /\ Cardinality(FileHolders(f)) \in Nat
      BY <1>2, FS_CardinalityType, Zenon
    <2> QED
      BY <1>1, <2>1 DEF RefcountExact
  <1>4. PageHolders(f) = {} /\ FileHolders(f) = {}
    BY <1>2, <1>3, FS_EmptySet, Zenon
  <1>5. \A t \in Spaces, a \in Pages : page[t][a].frame # f
    <2> SUFFICES ASSUME NEW t \in Spaces, NEW a \in Pages, page[t][a].frame = f
                 PROVE  FALSE
      BY Zenon
    <2>1. <<t, a>> \in PageHolders(f)
      BY Zenon DEF PageHolders
    <2> QED
      BY <1>4, <2>1, Zenon
  <1>6. \A m \in Memfds, i \in FilePages : memfd[m].frames[i] # f
    <2> SUFFICES ASSUME NEW m \in Memfds, NEW i \in FilePages, memfd[m].frames[i] = f
                 PROVE  FALSE
      BY Zenon
    <2>1. <<m, i>> \in FileHolders(f)
      BY Zenon DEF FileHolders
    <2> QED
      BY <1>4, <2>1, Zenon
  <1> QED
    BY <1>1, <1>4, <1>5, <1>6, Zenon

\* A page whose frame is counted at most once is its only holder.
LEMMA SoleHolder ==
  ASSUME TypeOK, RefcountExact, NEW s \in Spaces, NEW a \in Pages,
         Mapped(s, a), ~(references[page[s][a].frame] > 1)
  PROVE  /\ \A t \in Spaces, b \in Pages :
              page[t][b].frame = page[s][a].frame => t = s /\ b = a
         /\ \A m \in Memfds, i \in FilePages : memfd[m].frames[i] # page[s][a].frame
PROOF
  <1> DEFINE f == page[s][a].frame
  <1>1. f \in Frames
    BY DEF TypeOK, PageRecords, Mapped
  <1>2. <<s, a>> \in PageHolders(f)
    BY Zenon DEF PageHolders
  <1>3. IsFiniteSet(PageHolders(f)) /\ IsFiniteSet(FileHolders(f))
    BY FiniteHolders, Zenon
  <1>4. Cardinality(PageHolders(f)) \in Nat /\ Cardinality(FileHolders(f)) \in Nat
    BY <1>3, FS_CardinalityType, Zenon
  <1>5. Cardinality(PageHolders(f)) + Cardinality(FileHolders(f)) <= 1
    BY <1>1, <1>4 DEF RefcountExact, TypeOK
  <1>6. Cardinality(PageHolders(f)) # 0
    BY <1>2, <1>3, FS_EmptySet, Zenon
  <1>7. Cardinality(PageHolders(f)) = 1 /\ Cardinality(FileHolders(f)) = 0
    BY <1>4, <1>5, <1>6
  <1>8. ASSUME NEW t \in Spaces, NEW b \in Pages, page[t][b].frame = f
        PROVE  t = s /\ b = a
    <2>1. <<t, b>> \in PageHolders(f)
      BY <1>8, Zenon DEF PageHolders
    <2>2. <<t, b>> = <<s, a>>
      BY <1>2, <1>3, <1>7, <2>1, TwoElements
    <2> QED
      BY <2>2, Zenon
  <1>9. ASSUME NEW m \in Memfds, NEW i \in FilePages, memfd[m].frames[i] = f
        PROVE  FALSE
    <2>1. <<m, i>> \in FileHolders(f)
      BY <1>9, Zenon DEF FileHolders
    <2> QED
      BY <1>3, <1>7, <2>1, FS_EmptySet, Zenon
  <1> QED
    BY <1>8, <1>9, Zenon

-----------------------------------------------------------------------------
(* Frames and ranges *)

\* The ranges of the calls are sets of pages.
LEMMA IntervalPages ==
  ASSUME NEW range \in Intervals
  PROVE  range \in SUBSET Pages
PROOF
  BY Zenon DEF Intervals

\* Drawn frames are distinct free frames.
LEMMA FreshFrames ==
  ASSUME NEW S, NEW g \in Fresh(S)
  PROVE  \A a \in S : /\ g[a] \in FreeFrames
                      /\ g[a] \in Frames
                      /\ g[a] \in Drawn(g)
                      /\ \A b \in S : g[b] = g[a] => b = a
PROOF
  BY Zenon DEF Fresh, FreeFrames, Drawn

\* A drawn frame is used once by the pages it was drawn for.
LEMMA DrawnOnce ==
  ASSUME NEW S, NEW g \in Fresh(S), NEW f
  PROVE  /\ f \in Drawn(g) => Cardinality({x \in S : g[x] = f}) = 1
         /\ f \notin Drawn(g) => Cardinality({x \in S : g[x] = f}) = 0
         /\ Drawn(g) \subseteq FreeFrames
         /\ DOMAIN g = S
         /\ f \in Drawn(g) <=> \E x \in S : g[x] = f
PROOF
  <1>1. DOMAIN g = S /\ Drawn(g) \subseteq FreeFrames
    BY Zenon DEF Fresh, Drawn
  <1>2. f \in Drawn(g) <=> \E x \in S : g[x] = f
    BY <1>1, Zenon DEF Drawn
  <1>3. ASSUME f \in Drawn(g)
        PROVE  Cardinality({x \in S : g[x] = f}) = 1
    <2>1. PICK y \in S : g[y] = f
      BY <1>2, <1>3, Zenon
    <2>2. {x \in S : g[x] = f} = {y}
      BY <2>1, Zenon DEF Fresh
    <2> QED
      BY <2>2, FS_Singleton, Zenon
  <1>4. ASSUME f \notin Drawn(g)
        PROVE  Cardinality({x \in S : g[x] = f}) = 0
    <2>1. {x \in S : g[x] = f} = {}
      BY <1>2, <1>4, Zenon
    <2> QED
      BY <2>1, FS_EmptySet, Zenon
  <1> QED
    BY <1>1, <1>2, <1>3, <1>4, Zenon

\* The pages of a mapping stand for pages of the object within its size.
LEMMA BackingInFile ==
  ASSUME NEW range \in Intervals, NEW off \in Nat, NEW size \in 0..NFilePages,
         off + Cardinality(range) <= size
  PROVE  \A a \in range : /\ BackingPage(range, off, a) \in FilePages
                           /\ BackingPage(range, off, a) <= size
PROOF
  <1>1. PICK lo \in Pages, hi \in Pages : lo <= hi /\ range = lo..hi
    BY Zenon DEF Intervals
  <1>2. lo \in Nat /\ hi \in Nat
    BY <1>1, PagesAssumption DEF Pages
  <1>3. Cardinality(range) = hi - lo + 1
    BY <1>1, <1>2, FS_Interval
  <1>4. lo \in range /\ \A b \in range : lo <= b
    BY <1>1, <1>2
  <1>5. First(range) = lo
    <2>1. \A a \in range : (\A b \in range : a <= b) => a = lo
      BY <1>1, <1>2
    <2> QED
      BY <1>4, <2>1, Zenon DEF First
  <1> QED
    BY <1>1, <1>2, <1>3, <1>5, PagesAssumption, SMTT(60) DEF BackingPage, FilePages

-----------------------------------------------------------------------------
(* Page records *)

\* A page a store may hit without a fault although it is private.
Exclusive(p) == "W" \in p.protection /\ ~p.copy_on_write /\ ~p.shared

\* The fields of the entry written for a record.
LEMMA FlagsFields ==
  ASSUME NEW p \in PageRecords
  PROVE  /\ page_flags(p) \in Entries
         /\ page_flags(p).frame = p.frame
         /\ page_flags(p).write <=> "W" \in p.protection /\ ~p.copy_on_write
PROOF
  <1> DEFINE w == "W" \in p.protection /\ ~p.copy_on_write
             x == "X" \in p.protection
  <1>1. page_flags(p) = [frame |-> p.frame, write |-> w, exec |-> x]
    BY Zenon DEF page_flags
  <1>2. p.frame \in Frames \cup {NoFrame}
    BY Zenon DEF PageRecords
  <1>3. w \in BOOLEAN /\ x \in BOOLEAN
    OBVIOUS
  <1> HIDE DEF w, x
  <1>4. /\ page_flags(p) \in Entries
        /\ page_flags(p).frame = p.frame
        /\ page_flags(p).write = w
    BY <1>1, <1>2, <1>3 DEF Entries
  <1> QED
    BY <1>4, Zenon DEF w

\* With matching entries, a hardware-writable private page is Exclusive.
LEMMA WritableEntry ==
  ASSUME page \in [Spaces -> [Pages -> PageRecords]], EntriesMatch
  PROVE  \A s \in Spaces, a \in Pages :
           /\ entry[s][a].frame = page[s][a].frame
           /\ entry[s][a].write /\ ~page[s][a].shared <=> Exclusive(page[s][a])
PROOF
  <1> SUFFICES ASSUME NEW s \in Spaces, NEW a \in Pages
               PROVE  /\ entry[s][a].frame = page[s][a].frame
                      /\ entry[s][a].write /\ ~page[s][a].shared
                           <=> Exclusive(page[s][a])
    BY Zenon
  <1>1. page[s][a] \in PageRecords
    BY Zenon
  <1>2. entry[s][a] = page_flags(page[s][a])
    BY Zenon DEF EntriesMatch
  <1>3. /\ entry[s][a].frame = page[s][a].frame
        /\ entry[s][a].write <=>
             "W" \in page[s][a].protection /\ ~page[s][a].copy_on_write
    BY <1>1, <1>2, FlagsFields, Zenon
  <1> QED
    BY <1>3, Zenon DEF Exclusive

\* WriteIsolation in terms of records.
LEMMA IsolationByRecord ==
  ASSUME page \in [Spaces -> [Pages -> PageRecords]], EntriesMatch
  PROVE  WriteIsolation <=>
           \A s \in Spaces, a \in Pages : Exclusive(page[s][a]) =>
             /\ \A t \in Spaces, b \in Pages :
                  page[t][b].frame = page[s][a].frame => t = s /\ b = a
             /\ \A m \in Memfds, i \in FilePages : memfd[m].frames[i] # page[s][a].frame
PROOF
  BY WritableEntry DEF WriteIsolation

\* A shared page is never copied on a write, and no page is writable and
\* executable unless some segment of a program is.
Proper(p) ==
  /\ p.shared => ~p.copy_on_write
  /\ (\A protection \in ImageProtections : ~WriteExec(protection)) => ~WriteExec(p.protection)

ProperRecords == \A s \in Spaces, a \in Pages : Proper(page[s][a])

\* What the changes the kernel makes to a record do to its protection.
LEMMA RecordProtections ==
  ASSUME NEW p \in PageRecords, NEW protection
  PROVE  /\ Reprotected(p, protection).protection = protection
         /\ \A f : Privatized(p, f).protection = p.protection
         /\ CowCopy(p).protection = p.protection
         /\ CowSource(p).protection = p.protection
PROOF
  BY Zenon DEF PageRecords, Reprotected, Privatized, CowCopy, CowSource

\* vm_protect keeps the frame and its role, and leaves a page writable only
\* when the frame has no other holder.
LEMMA ReprotectedFields ==
  ASSUME NEW p \in PageRecords, NEW protection \in SUBSET {"R", "W", "X"}
  PROVE  /\ Reprotected(p, protection) \in PageRecords
         /\ Reprotected(p, protection).frame = p.frame
         /\ Reprotected(p, protection).shared = p.shared
         /\ Exclusive(Reprotected(p, protection)) => ~(references[p.frame] > 1)
PROOF
  <1> DEFINE c == ~p.shared /\ "W" \in protection /\ references[p.frame] > 1
  <1>1. Reprotected(p, protection) =
          [p EXCEPT !.protection = protection, !.copy_on_write = c]
    BY Zenon DEF Reprotected
  <1>2. c \in BOOLEAN
    BY Zenon
  <1> HIDE DEF c
  <1>3. /\ Reprotected(p, protection) \in PageRecords
        /\ Reprotected(p, protection).frame = p.frame
        /\ Reprotected(p, protection).shared = p.shared
        /\ Reprotected(p, protection).protection = protection
        /\ Reprotected(p, protection).copy_on_write = c
    BY <1>1, <1>2, Zenon DEF PageRecords
  <1> QED
    BY <1>3, Zenon DEF Exclusive, c

\* make_private gives a page its own frame or finds it is the only holder.
LEMMA PrivateFields ==
  ASSUME NEW p \in PageRecords, NEW x \in Frames \cup {NoFrame}
  PROVE  /\ Privatized(p, x) \in PageRecords
         /\ Privatized(p, x).frame = x
         /\ Privatized(p, x).shared = p.shared
         /\ Exclusive(Privatized(p, x)) => Exclusive(p) \/ p.copy_on_write
PROOF
  <1> DEFINE q == Privatized(p, x)
  <1>1. /\ q \in PageRecords /\ q.frame = x /\ q.shared = p.shared
        /\ q.protection = p.protection /\ p.copy_on_write \in BOOLEAN
    BY Zenon DEF PageRecords, Privatized
  <1> QED
    BY <1>1, Zenon DEF Exclusive

\* The two sides of a clone keep frame and role and leave nothing writable
\* without a fault.
LEMMA CowFields ==
  ASSUME NEW p \in PageRecords
  PROVE  /\ CowCopy(p) \in PageRecords /\ CowSource(p) \in PageRecords
         /\ CowCopy(p).frame = p.frame /\ CowSource(p).frame = p.frame
         /\ CowCopy(p).shared = p.shared /\ CowSource(p).shared = p.shared
         /\ ~Exclusive(CowCopy(p)) /\ ~Exclusive(CowSource(p))
PROOF
  <1> DEFINE c == ShareCow(p)
  <1>1. c \in BOOLEAN
    BY Zenon DEF ShareCow
  <1>2. CowCopy(p) = [p EXCEPT !.copy_on_write = c]
    BY Zenon DEF CowCopy
  <1>3. CowSource(p) = IF c THEN [p EXCEPT !.copy_on_write = TRUE] ELSE p
    BY Zenon DEF CowSource
  <1>4. c <=> ~p.shared /\ "W" \in p.protection
    BY Zenon DEF ShareCow
  <1> HIDE DEF c
  <1>5. /\ CowCopy(p) \in PageRecords
        /\ CowCopy(p).frame = p.frame /\ CowCopy(p).shared = p.shared
        /\ CowCopy(p).protection = p.protection /\ CowCopy(p).copy_on_write = c
    BY <1>1, <1>2, Zenon DEF PageRecords
  <1>6. /\ CowSource(p) \in PageRecords
        /\ CowSource(p).frame = p.frame /\ CowSource(p).shared = p.shared
        /\ CowSource(p).protection = p.protection
        /\ c => CowSource(p).copy_on_write = TRUE
    BY <1>1, <1>3, Zenon DEF PageRecords
  <1> QED
    BY <1>4, <1>5, <1>6, Zenon DEF Exclusive

=============================================================================
