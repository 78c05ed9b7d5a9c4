------------------------------- MODULE VmProofs -----------------------------
(* Proofs about Vm, for every value of its constants: IndInv is inductive, *)
(* hence reference counts are exact, no writable frame is shared by        *)
(* mistake and no page is both writable and executable.                    *)
EXTENDS VmBasics

-----------------------------------------------------------------------------
(* Cardinalities *)

\* The cardinality of a set of which one part is replaced by another.
LEMMA ReplacePart ==
  ASSUME NEW H, NEW R, NEW A, IsFiniteSet(H), IsFiniteSet(A),
         R \subseteq H, A \cap (H \ R) = {}
  PROVE  Cardinality((H \ R) \cup A) = Cardinality(H) - Cardinality(R) + Cardinality(A)
PROOF
  <1>1. IsFiniteSet(H \ R) /\ Cardinality(H \ R) = Cardinality(H) - Cardinality(H \cap R)
    BY FS_Difference, Zenon
  <1>2. Cardinality(H \cap R) = Cardinality(R)
    <2>1. H \cap R = R
      BY Zenon
    <2> QED
      BY <2>1, Zenon
  <1>3. IsFiniteSet(R)
    BY FS_Subset, Zenon
  <1>4. Cardinality((H \ R) \cup A)
          = Cardinality(H \ R) + Cardinality(A) - Cardinality((H \ R) \cap A)
    BY <1>1, FS_Union, Zenon
  <1>5. (H \ R) \cap A = {}
    BY Zenon
  <1>6. Cardinality((H \ R) \cap A) = 0
    BY <1>5, FS_EmptySet, Zenon
  <1>7. /\ Cardinality(H) \in Nat /\ Cardinality(A) \in Nat
        /\ Cardinality(R) \in Nat /\ Cardinality(H \ R) \in Nat
    BY <1>1, <1>3, FS_CardinalityType, Zenon
  <1> QED
    BY <1>1, <1>2, <1>4, <1>6, <1>7

\* Pairs with a fixed first component.
LEMMA Slice ==
  ASSUME NEW x, NEW A, IsFiniteSet(A)
  PROVE  IsFiniteSet({x} \X A) /\ Cardinality({x} \X A) = Cardinality(A)
PROOF
  <1>1. IsFiniteSet({x}) /\ Cardinality({x}) = 1
    BY FS_Singleton, Zenon
  <1>2. Cardinality(A) \in Nat
    BY FS_CardinalityType, Zenon
  <1> QED
    BY <1>1, <1>2, FS_Product

-----------------------------------------------------------------------------
(* Counting holders over one step *)
\* A step that rewrites only the records of range in space s changes the
\* number of pages holding f by the change of Uses.
LEMMA PageHoldersChange ==
  ASSUME NEW s \in Spaces, NEW range \in SUBSET Pages, NEW f,
         \A t \in Spaces, a \in Pages :
           t # s \/ a \notin range => page'[t][a].frame = page[t][a].frame
  PROVE  /\ Cardinality(PageHolders(f)') =
              Cardinality(PageHolders(f)) - Uses(s, range, f) + Uses(s, range, f)'
         /\ Cardinality(PageHolders(f)) \in Nat
         /\ Cardinality(PageHolders(f)') \in Nat
         /\ Uses(s, range, f) \in Nat
         /\ Uses(s, range, f)' \in Nat
PROOF
  <1> DEFINE H == PageHolders(f)
             G == PageHolders(f)'
             old == {z \in range : page[s][z].frame = f}
             new == {z \in range : page'[s][z].frame = f}
  <1>1. IsFiniteSet(H) /\ IsFiniteSet(old) /\ IsFiniteSet(new)
    BY FiniteHolders, FS_Subset, Zenon
  <1>2. G = (H \ ({s} \X old)) \cup ({s} \X new)
    BY DEF PageHolders
  <1>3. /\ {s} \X old \subseteq H
        /\ ({s} \X new) \cap (H \ ({s} \X old)) = {}
    BY Zenon DEF PageHolders
  <1>4. Cardinality(old) = Uses(s, range, f) /\ Cardinality(new) = Uses(s, range, f)'
    BY Zenon DEF Uses
  <1> DEFINE R == {s} \X old
             A == {s} \X new
  <1>5. /\ IsFiniteSet(A)
        /\ Cardinality(R) = Cardinality(old)
        /\ Cardinality(A) = Cardinality(new)
    BY <1>1, Slice, Zenon
  <1>6. G = (H \ R) \cup A /\ R \subseteq H /\ A \cap (H \ R) = {}
    BY <1>2, <1>3, Zenon
  <1>7. Cardinality(old) \in Nat /\ Cardinality(new) \in Nat /\ Cardinality(H) \in Nat
    BY <1>1, FS_CardinalityType, Zenon
  <1> HIDE DEF H, G, old, new, R, A
  <1>8. /\ Cardinality((H \ R) \cup A)
             = Cardinality(H) - Cardinality(R) + Cardinality(A)
        /\ IsFiniteSet(H \ R)
    <2>1. IsFiniteSet(H \ R)
      BY <1>1, FS_Difference, Zenon
    <2> QED
      BY <1>1, <1>5, <1>6, <2>1, ReplacePart
  <1>9. IsFiniteSet((H \ R) \cup A)
    BY <1>5, <1>8, FS_Union, Zenon
  <1>10. /\ Cardinality(G) = Cardinality(H) - Cardinality(old) + Cardinality(new)
         /\ IsFiniteSet(G)
    BY <1>5, <1>6, <1>8, <1>9, Zenon
  <1>11. Cardinality(G) \in Nat
    BY <1>10, FS_CardinalityType, Zenon
  <1> QED
    BY <1>4, <1>7, <1>10, <1>11, Zenon DEF H, G

\* The same for the slots of memfd m in files.
LEMMA FileHoldersChange ==
  ASSUME NEW m \in Memfds, NEW files \in SUBSET FilePages, NEW f,
         \A n \in Memfds, i \in FilePages :
           n # m \/ i \notin files => memfd'[n].frames[i] = memfd[n].frames[i]
  PROVE  /\ Cardinality(FileHolders(f)') =
              Cardinality(FileHolders(f)) - Drops(m, files, f) + Drops(m, files, f)'
         /\ Cardinality(FileHolders(f)) \in Nat
         /\ Cardinality(FileHolders(f)') \in Nat
         /\ Drops(m, files, f) \in Nat
         /\ Drops(m, files, f)' \in Nat
PROOF
  <1> DEFINE H == FileHolders(f)
             G == FileHolders(f)'
             old == {z \in files : memfd[m].frames[z] = f}
             new == {z \in files : memfd'[m].frames[z] = f}
  <1>1. IsFiniteSet(H) /\ IsFiniteSet(old) /\ IsFiniteSet(new)
    BY FiniteHolders, FS_Subset, Zenon
  <1>2. G = (H \ ({m} \X old)) \cup ({m} \X new)
    BY DEF FileHolders
  <1>3. /\ {m} \X old \subseteq H
        /\ ({m} \X new) \cap (H \ ({m} \X old)) = {}
    BY Zenon DEF FileHolders
  <1>4. Cardinality(old) = Drops(m, files, f) /\ Cardinality(new) = Drops(m, files, f)'
    BY Zenon DEF Drops
  <1> DEFINE R == {m} \X old
             A == {m} \X new
  <1>5. /\ IsFiniteSet(A)
        /\ Cardinality(R) = Cardinality(old)
        /\ Cardinality(A) = Cardinality(new)
    BY <1>1, Slice, Zenon
  <1>6. G = (H \ R) \cup A /\ R \subseteq H /\ A \cap (H \ R) = {}
    BY <1>2, <1>3, Zenon
  <1>7. Cardinality(old) \in Nat /\ Cardinality(new) \in Nat /\ Cardinality(H) \in Nat
    BY <1>1, FS_CardinalityType, Zenon
  <1> HIDE DEF H, G, old, new, R, A
  <1>8. /\ Cardinality((H \ R) \cup A)
             = Cardinality(H) - Cardinality(R) + Cardinality(A)
        /\ IsFiniteSet(H \ R)
    <2>1. IsFiniteSet(H \ R)
      BY <1>1, FS_Difference, Zenon
    <2> QED
      BY <1>1, <1>5, <1>6, <2>1, ReplacePart
  <1>9. IsFiniteSet((H \ R) \cup A)
    BY <1>5, <1>8, FS_Union, Zenon
  <1>10. /\ Cardinality(G) = Cardinality(H) - Cardinality(old) + Cardinality(new)
         /\ IsFiniteSet(G)
    BY <1>5, <1>6, <1>8, <1>9, Zenon
  <1>11. Cardinality(G) \in Nat
    BY <1>10, FS_CardinalityType, Zenon
  <1> QED
    BY <1>4, <1>7, <1>10, <1>11, Zenon DEF H, G

-----------------------------------------------------------------------------
(* Reference counts over one step *)

\* No frame but those of range in s changes hands.
OnlyPages(s, range) ==
  /\ \A t \in Spaces, a \in Pages :
       t # s \/ a \notin range => page'[t][a].frame = page[t][a].frame
  /\ \A m \in Memfds, i \in FilePages : memfd'[m].frames[i] = memfd[m].frames[i]

\* Unchanged memfd frames keep their holders.
LEMMA SameFileHolders ==
  ASSUME NEW f, \A m \in Memfds, i \in FilePages : memfd'[m].frames[i] = memfd[m].frames[i]
  PROVE  /\ Cardinality(FileHolders(f)') = Cardinality(FileHolders(f))
         /\ Cardinality(FileHolders(f)) \in Nat
PROOF
  <1>1. FileHolders(f)' = FileHolders(f)
    BY DEF FileHolders
  <1> QED
    BY <1>1, FiniteHolders, FS_CardinalityType, Zenon

\* Likewise for unchanged pages.
LEMMA SamePageHolders ==
  ASSUME NEW f, \A t \in Spaces, a \in Pages : page'[t][a].frame = page[t][a].frame
  PROVE  /\ Cardinality(PageHolders(f)') = Cardinality(PageHolders(f))
         /\ Cardinality(PageHolders(f)) \in Nat
PROOF
  <1>1. PageHolders(f)' = PageHolders(f)
    BY Zenon DEF PageHolders
  <1> QED
    BY <1>1, FiniteHolders, FS_CardinalityType, Zenon

\* Counts that follow Uses stay exact.
LEMMA CountPages ==
  ASSUME TypeOK, RefcountExact, NEW s \in Spaces, NEW range \in SUBSET Pages,
         OnlyPages(s, range),
         \A f \in Frames :
           references'[f] = references[f] - Uses(s, range, f) + Uses(s, range, f)'
  PROVE  RefcountExact'
PROOF
  <1> SUFFICES ASSUME NEW f \in Frames
               PROVE  references'[f] = Cardinality(PageHolders(f)')
                                         + Cardinality(FileHolders(f)')
    BY Zenon DEF RefcountExact
  <1>1. /\ Cardinality(PageHolders(f)') =
              Cardinality(PageHolders(f)) - Uses(s, range, f) + Uses(s, range, f)'
        /\ Cardinality(PageHolders(f)) \in Nat
        /\ Uses(s, range, f) \in Nat
        /\ Uses(s, range, f)' \in Nat
    BY PageHoldersChange DEF OnlyPages
  <1>2. /\ Cardinality(FileHolders(f)') = Cardinality(FileHolders(f))
        /\ Cardinality(FileHolders(f)) \in Nat
    BY SameFileHolders, Zenon DEF OnlyPages
  <1>3. references[f] = Cardinality(PageHolders(f)) + Cardinality(FileHolders(f))
    BY Zenon DEF RefcountExact
  <1> QED
    BY <1>1, <1>2, <1>3

\* New frames for the pages of S, whose old frames are released.
LEMMA CountFresh ==
  ASSUME TypeOK, RefcountExact, NEW s \in Spaces, NEW S \in SUBSET Pages,
         NEW g \in Fresh(S), OnlyPages(s, S),
         \A a \in S : page'[s][a].frame = g[a],
         references' = [f \in Frames |->
           IF f \in Drawn(g) THEN 1 ELSE references[f] - Uses(s, S, f)]
  PROVE  RefcountExact'
PROOF
  <1> SUFFICES ASSUME NEW f \in Frames
               PROVE  references'[f] = references[f] - Uses(s, S, f) + Uses(s, S, f)'
    BY CountPages, Zenon
  <1>1. Uses(s, S, f)' = Cardinality({a \in S : g[a] = f})
    <2>1. {a \in S : page'[s][a].frame = f} = {a \in S : g[a] = f}
      BY Zenon
    <2> QED
      BY <2>1, Zenon DEF Uses
  <1>2. Uses(s, S, f) \in Nat
    BY PageHoldersChange, Zenon DEF OnlyPages
  <1>3. references[f] \in Nat
    BY Zenon DEF TypeOK
  <1>4. CASE f \in Drawn(g)
    <2>1. f \in FreeFrames
      BY <1>4, DrawnOnce, Zenon
    <2>2. references[f] = 0 /\ \A a \in S : page[s][a].frame # f
      BY <2>1, FreeUnheld, Zenon
    <2>3. Uses(s, S, f) = 0
      <3>1. {a \in S : page[s][a].frame = f} = {}
        BY <2>2, Zenon
      <3> QED
        BY <3>1, FS_EmptySet, Zenon DEF Uses
    <2> QED
      BY <1>1, <1>4, <2>2, <2>3, DrawnOnce
  <1>5. CASE f \notin Drawn(g)
    <2>1. Uses(s, S, f)' = 0
      BY <1>1, <1>5, DrawnOnce, Zenon
    <2> QED
      BY <1>2, <1>3, <1>5, <2>1
  <1> QED
    BY <1>4, <1>5, Zenon

\* Pages of S that become absent.
LEMMA CountUnmap ==
  ASSUME TypeOK, RefcountExact, NEW s \in Spaces, NEW S \in SUBSET Pages,
         OnlyPages(s, S), \A a \in S : page'[s][a].frame = NoFrame,
         references' = [f \in Frames |-> references[f] - Uses(s, S, f)]
  PROVE  RefcountExact'
PROOF
  <1> SUFFICES ASSUME NEW f \in Frames
               PROVE  references'[f] = references[f] - Uses(s, S, f) + Uses(s, S, f)'
    BY CountPages, Zenon
  <1>1. {a \in S : page'[s][a].frame = f} = {}
    BY FramesAssumption, Zenon
  <1>2. Uses(s, S, f)' = 0
    BY <1>1, FS_EmptySet, Zenon DEF Uses
  <1>3. Uses(s, S, f) \in Nat /\ references[f] \in Nat
    BY PageHoldersChange, Zenon DEF OnlyPages, TypeOK
  <1> QED
    BY <1>2, <1>3

\* A step that moves no frame and changes no count.
LEMMA CountSame ==
  ASSUME TypeOK, RefcountExact,
         \A t \in Spaces, a \in Pages : page'[t][a].frame = page[t][a].frame,
         \A m \in Memfds, i \in FilePages : memfd'[m].frames[i] = memfd[m].frames[i],
         references' = references
  PROVE  RefcountExact'
PROOF
  <1> SUFFICES ASSUME NEW f \in Frames
               PROVE  references'[f] = Cardinality(PageHolders(f)')
                                         + Cardinality(FileHolders(f)')
    BY Zenon DEF RefcountExact
  <1> QED
    BY SamePageHolders, SameFileHolders, Zenon DEF RefcountExact

-----------------------------------------------------------------------------
(* Isolation over a step that rewrites pages of one space *)
\* The new records a handler may install: a cleared one, one with a frame
\* nobody holds, or the old frame in the same role.
Legal(s, range, rec) ==
  \A a \in range :
    /\ rec[a] \in PageRecords
    /\ \/ rec[a] = Unmapped
       \/ /\ rec[a].frame \in FreeFrames
          /\ \A b \in range : rec[b].frame = rec[a].frame => b = a
       \/ /\ Mapped(s, a)
          /\ rec[a].frame = page[s][a].frame
          /\ rec[a].shared = page[s][a].shared
          /\ Exclusive(rec[a]) =>
               Exclusive(page[s][a]) \/ ~(references[page[s][a].frame] > 1)

\* SetPages, pointwise.
LEMMA SetPagesEffect ==
  ASSUME TypeOK, NEW s \in Spaces, NEW range \in SUBSET Pages, NEW rec,
         \A a \in range : rec[a] \in PageRecords, SetPages(s, range, rec)
  PROVE  /\ page' \in [Spaces -> [Pages -> PageRecords]]
         /\ entry' \in [Spaces -> [Pages -> Entries]]
         /\ \A t \in Spaces, a \in Pages :
              /\ t # s \/ a \notin range => /\ page'[t][a] = page[t][a]
                                            /\ entry'[t][a] = entry[t][a]
              /\ t = s /\ a \in range => /\ page'[t][a] = rec[a]
                                         /\ entry'[t][a] = page_flags(rec[a])
PROOF
  <1>1. \A a \in range : page_flags(rec[a]) \in Entries
    BY FlagsFields, Zenon
  <1>2. page' \in [Spaces -> [Pages -> PageRecords]]
    BY Zenon DEF SetPages, TypeOK
  <1>3. entry' \in [Spaces -> [Pages -> Entries]]
    BY <1>1, Zenon DEF SetPages, TypeOK
  <1>4. \A t \in Spaces, a \in Pages :
          /\ t # s \/ a \notin range => /\ page'[t][a] = page[t][a]
                                        /\ entry'[t][a] = entry[t][a]
          /\ t = s /\ a \in range => /\ page'[t][a] = rec[a]
                                     /\ entry'[t][a] = page_flags(rec[a])
    BY Zenon DEF SetPages, TypeOK
  <1> QED
    BY <1>2, <1>3, <1>4, Zenon

\* Roles survive when the pages stay and objects only lose frames.
LEMMA RolesShrink ==
  ASSUME FrameRoles, page' = page,
         \A n \in Memfds, i \in FilePages :
           memfd'[n].frames[i] = NoFrame \/ memfd'[n].frames[i] = memfd[n].frames[i]
  PROVE  FrameRoles'
PROOF
  BY SMT DEF FrameRoles, Mapped

\* A frame backs one page of one object.
LEMMA RolesOfObjects ==
  ASSUME FrameRoles, NEW n \in Memfds, NEW q \in Memfds, NEW i \in FilePages,
         NEW j \in FilePages, memfd[n].frames[i] # NoFrame,
         memfd[n].frames[i] = memfd[q].frames[j]
  PROVE  n = q /\ i = j
PROOF
  BY SMT DEF FrameRoles

\* Two pages with one frame have one role.
LEMMA RolesOfPages ==
  ASSUME FrameRoles, NEW s \in Spaces, NEW t \in Spaces, NEW a \in Pages, NEW b \in Pages,
         page[s][a].frame # NoFrame, page[s][a].frame = page[t][b].frame
  PROVE  /\ page[s][a].shared = page[t][b].shared
         /\ page[s][a].shared \/ a = b
PROOF
  BY SMT DEF FrameRoles, Mapped

\* A page that holds a frame of an object is shared.
LEMMA RolesOfShared ==
  ASSUME FrameRoles, NEW s \in Spaces, NEW a \in Pages, NEW n \in Memfds,
         NEW i \in FilePages, page[s][a].frame # NoFrame,
         memfd[n].frames[i] = page[s][a].frame
  PROVE  page[s][a].shared
PROOF
  BY SMT DEF FrameRoles, Mapped

\* Isolation survives when the pages stay and objects only lose frames.
LEMMA IsolationShrink ==
  ASSUME WriteIsolation, page' = page, entry' = entry,
         \A s \in Spaces, a \in Pages :
           entry[s][a].write /\ ~page[s][a].shared => entry[s][a].frame # NoFrame,
         \A n \in Memfds, i \in FilePages :
           memfd'[n].frames[i] = NoFrame \/ memfd'[n].frames[i] = memfd[n].frames[i]
  PROVE  WriteIsolation'
PROOF
  BY SMT DEF WriteIsolation

\* A step that touches neither pages, entries nor objects keeps isolation.
LEMMA IsolationSame ==
  ASSUME WriteIsolation, page' = page, entry' = entry, memfd' = memfd
  PROVE  WriteIsolation'
PROOF
  BY SMT DEF WriteIsolation

\* Isolation after a step, from what the page records say.
LEMMA IsolationNext ==
  ASSUME page' \in [Spaces -> [Pages -> PageRecords]], EntriesMatch',
         \A t \in Spaces, a \in Pages : Exclusive(page'[t][a]) =>
           /\ \A u \in Spaces, b \in Pages :
                page'[u][b].frame = page'[t][a].frame => u = t /\ b = a
           /\ \A n \in Memfds, i \in FilePages :
                memfd'[n].frames[i] # page'[t][a].frame
  PROVE  WriteIsolation'
PROOF
  <1>1. \A t \in Spaces, a \in Pages :
          /\ entry'[t][a].frame = page'[t][a].frame
          /\ entry'[t][a].write /\ ~page'[t][a].shared => Exclusive(page'[t][a])
    BY FlagsFields DEF EntriesMatch, Exclusive
  <1> QED
    BY <1>1, SMT DEF WriteIsolation

\* The invariants other than the count survive a legal rewrite.
LEMMA PagesStep ==
  ASSUME IndInv, NEW s \in Spaces, NEW range \in SUBSET Pages, NEW rec,
         SetPages(s, range, rec), Legal(s, range, rec), memfd' = memfd,
         \A t \in Spaces \ live' :
           \/ t \notin live /\ t # s
           \/ t = s /\ range = Pages /\ \A a \in Pages : rec[a] = Unmapped
  PROVE  /\ page' \in [Spaces -> [Pages -> PageRecords]]
         /\ entry' \in [Spaces -> [Pages -> Entries]]
         /\ EntriesMatch' /\ WriteIsolation' /\ FrameRoles' /\ CleanRecords'
PROOF
  <1> USE DEF IndInv
  <1>1. /\ page' \in [Spaces -> [Pages -> PageRecords]]
        /\ entry' \in [Spaces -> [Pages -> Entries]]
        /\ \A t \in Spaces, a \in Pages :
             /\ t # s \/ a \notin range => /\ page'[t][a] = page[t][a]
                                           /\ entry'[t][a] = entry[t][a]
             /\ t = s /\ a \in range => /\ page'[t][a] = rec[a]
                                        /\ entry'[t][a] = page_flags(rec[a])
    <2>1. \A a \in range : rec[a] \in PageRecords
      BY Zenon DEF Legal
    <2>2. TypeOK
      BY Zenon
    <2> QED
      BY <2>1, <2>2, SetPagesEffect, ZenonT(30) DEF SetPages
  <1>2. EntriesMatch'
    BY <1>1 DEF EntriesMatch
  \* A new record that is mapped is new or kept.
  <1>3. \A f \in FreeFrames :
          /\ \A t \in Spaces, a \in Pages : page[t][a].frame # f
          /\ \A m \in Memfds, i \in FilePages : memfd[m].frames[i] # f
    BY FreeUnheld, Zenon
  <1>4. \A t \in Spaces, a \in Pages :
          \/ page'[t][a] = Unmapped
          \/ /\ page'[t][a].frame \in FreeFrames
             /\ \A u \in Spaces, b \in Pages :
                  page'[u][b].frame = page'[t][a].frame => u = t /\ b = a
          \/ /\ Mapped(t, a)
             /\ page'[t][a].frame = page[t][a].frame
             /\ page'[t][a].shared = page[t][a].shared
             /\ Exclusive(page'[t][a]) =>
                  Exclusive(page[t][a]) \/ ~(references[page[t][a].frame] > 1)
    <2> SUFFICES ASSUME NEW t \in Spaces, NEW a \in Pages
                 PROVE  \/ page'[t][a] = Unmapped
                        \/ /\ page'[t][a].frame \in FreeFrames
                           /\ \A u \in Spaces, b \in Pages :
                                page'[u][b].frame = page'[t][a].frame => u = t /\ b = a
                        \/ /\ Mapped(t, a)
                           /\ page'[t][a].frame = page[t][a].frame
                           /\ page'[t][a].shared = page[t][a].shared
                           /\ Exclusive(page'[t][a]) =>
                                \/ Exclusive(page[t][a])
                                \/ ~(references[page[t][a].frame] > 1)
      BY Zenon
    <2>1. CASE t # s \/ a \notin range
      <3>1. page'[t][a] = page[t][a]
        BY <1>1, <2>1, Zenon
      <3>2. Mapped(t, a) \/ page[t][a] = Unmapped
        BY Zenon DEF CleanRecords
      <3> QED
        BY <3>1, <3>2, Zenon
    <2>2. CASE t = s /\ a \in range
      <3>1. page'[t][a] = rec[a]
        BY <1>1, <2>2, Zenon
      <3>2. CASE /\ rec[a].frame \in FreeFrames
                 /\ \A b \in range : rec[b].frame = rec[a].frame => b = a
        <4>1. ASSUME NEW u \in Spaces, NEW b \in Pages,
                     page'[u][b].frame = page'[t][a].frame
              PROVE  u = t /\ b = a
          <5>1. page[u][b].frame # rec[a].frame
            BY <1>3, <3>2, Zenon
          <5>2. u = s /\ b \in range
            BY <1>1, <3>1, <4>1, <5>1, SMTT(60)
          <5> QED
            BY <1>1, <2>2, <3>1, <3>2, <4>1, <5>2, SMTT(60)
        <4> QED
          BY <3>1, <3>2, <4>1, Zenon
      <3> QED
        BY <2>2, <3>1, <3>2, Zenon DEF Legal
    <2> QED
      BY <2>1, <2>2, Zenon
  <1>5. FrameRoles'
    BY <1>3, <1>4, FramesAssumption DEF FrameRoles, Mapped, Unmapped
  <1>6. \A t \in Spaces, a \in Pages :
          Mapped(t, a) /\ (Exclusive(page[t][a]) \/ ~(references[page[t][a].frame] > 1)) =>
            /\ \A u \in Spaces, b \in Pages :
                 page[u][b].frame = page[t][a].frame => u = t /\ b = a
            /\ \A m \in Memfds, i \in FilePages : memfd[m].frames[i] # page[t][a].frame
    <2>1. ASSUME NEW t \in Spaces, NEW a \in Pages, Mapped(t, a), Exclusive(page[t][a])
          PROVE  /\ \A u \in Spaces, b \in Pages :
                      page[u][b].frame = page[t][a].frame => u = t /\ b = a
                 /\ \A m \in Memfds, i \in FilePages :
                      memfd[m].frames[i] # page[t][a].frame
      BY <2>1, IsolationByRecord, Zenon DEF TypeOK
    <2> QED
      BY <2>1, SoleHolder, Zenon
  <1>7. WriteIsolation'
    <2>1. SUFFICES ASSUME NEW t \in Spaces, NEW a \in Pages, Exclusive(page'[t][a])
                 PROVE  /\ \A u \in Spaces, b \in Pages :
                             page'[u][b].frame = page'[t][a].frame => u = t /\ b = a
                        /\ \A m \in Memfds, i \in FilePages :
                             memfd'[m].frames[i] # page'[t][a].frame
      <3>1. \A t \in Spaces, a \in Pages :
              /\ entry'[t][a] = page_flags(page'[t][a])
              /\ page'[t][a] \in PageRecords
        BY <1>1, <1>2 DEF EntriesMatch
      <3>2. \A t \in Spaces, a \in Pages :
              /\ entry'[t][a].frame = page'[t][a].frame
              /\ entry'[t][a].write /\ ~page'[t][a].shared => Exclusive(page'[t][a])
        BY <3>1, FlagsFields DEF Exclusive
      <3> QED
        BY <3>2 DEF WriteIsolation
    <2>2. page'[t][a] # Unmapped
      BY <2>1 DEF Exclusive, Unmapped
    <2>3. CASE /\ page'[t][a].frame \in FreeFrames
               /\ \A u \in Spaces, b \in Pages :
                    page'[u][b].frame = page'[t][a].frame => u = t /\ b = a
      BY <1>3, <2>3, Zenon
    <2>4. CASE /\ Mapped(t, a)
               /\ page'[t][a].frame = page[t][a].frame
               /\ Exclusive(page[t][a]) \/ ~(references[page[t][a].frame] > 1)
      <3>1. \A u \in Spaces, b \in Pages : page'[u][b].frame # page[t][a].frame
              \/ page'[u][b].frame = page[u][b].frame
        BY <1>3, <1>4, <2>4, FramesAssumption, SMTT(60) DEF Mapped, Unmapped
      <3> QED
        BY <1>6, <2>4, <3>1, SMTT(60)
    <2> QED
      BY <1>4, <2>1, <2>2, <2>3, <2>4, Zenon
  <1>8. CleanRecords'
    <2>1. ASSUME NEW t \in Spaces, NEW a \in Pages, page'[t][a].frame = NoFrame
          PROVE  page'[t][a] = Unmapped
      BY <1>4, <2>1, FramesAssumption DEF FreeFrames, Mapped
    <2>2. ASSUME NEW t \in Spaces, NEW a \in Pages, t \notin live'
          PROVE  page'[t][a] = Unmapped
      <3>1. CASE t # s
        <4>1. t \notin live
          BY <2>2, <3>1
        <4>2. page'[t][a] = page[t][a]
          BY <1>1, <3>1
        <4> QED
          BY <4>1, <4>2, Zenon DEF CleanRecords
      <3>2. CASE t = s
        BY <1>1, <2>2, <3>2
      <3> QED
        BY <3>1, <3>2
    <2> QED
      BY <2>1, <2>2, Zenon DEF CleanRecords, Mapped
  <1> QED
    BY <1>1, <1>2, <1>5, <1>7, <1>8, Zenon

-----------------------------------------------------------------------------
(* The two shapes of a step *)

\* Uses counts.
LEMMA UsesNat ==
  ASSUME NEW s, NEW range \in SUBSET Pages, NEW f
  PROVE  Uses(s, range, f) \in Nat
PROOF
  <1>1. IsFiniteSet({a \in range : page[s][a].frame = f})
    BY FiniteHolders, FS_Subset, Zenon
  <1> QED
    BY <1>1, FS_CardinalityType, Zenon DEF Uses

\* Drops counts.
LEMMA DropsNat ==
  ASSUME NEW m, NEW files \in SUBSET FilePages, NEW f
  PROVE  Drops(m, files, f) \in Nat
PROOF
  <1>1. IsFiniteSet({i \in files : memfd[m].frames[i] = f})
    BY FiniteHolders, FS_Subset, Zenon
  <1> QED
    BY <1>1, FS_CardinalityType, Zenon DEF Drops

\* Exact counts are natural numbers.
LEMMA CountsAreNat ==
  ASSUME RefcountExact', references' \in [Frames -> Int]
  PROVE  references' \in [Frames -> Nat]
PROOF
  <1>1. \A f \in Frames : references'[f] \in Nat
    <2> SUFFICES ASSUME NEW f \in Frames PROVE references'[f] \in Nat
      BY Zenon
    <2>1. IsFiniteSet(Spaces \X Pages) /\ IsFiniteSet(Memfds \X FilePages)
      BY FiniteHolders, SpacesAssumption, FS_Product
    <2>2. /\ PageHolders(f)' \subseteq Spaces \X Pages
          /\ FileHolders(f)' \subseteq Memfds \X FilePages
      BY Zenon DEF PageHolders, FileHolders
    <2>3. IsFiniteSet(PageHolders(f)') /\ IsFiniteSet(FileHolders(f)')
      BY <2>1, <2>2, FS_Subset
    <2>4. Cardinality(PageHolders(f)') \in Nat /\ Cardinality(FileHolders(f)') \in Nat
      BY <2>3, FS_CardinalityType, Zenon
    <2> QED
      BY <2>4 DEF RefcountExact
  <1> QED
    BY <1>1, Zenon

\* munmap, and a failed or displacing mmap.
LEMMA UnmapRangeInv ==
  ASSUME IndInv, NEW s \in live, NEW range \in SUBSET Pages,
         UnmapRange(s, range), UNCHANGED <<data, memfd>>,
         live' = live \/ (range = Pages /\ live' = live \ {s})
  PROVE  IndInv'
PROOF
  <1> USE DEF IndInv
  <1> DEFINE rec == [a \in range |-> Unmapped]
  <1>1. s \in Spaces /\ live' \subseteq Spaces
    BY Zenon DEF TypeOK
  <1>2. SetPages(s, range, rec)
    BY Zenon DEF UnmapRange
  <1>3. Unmapped \in PageRecords
    BY Zenon DEF Unmapped, PageRecords
  <1>4. Legal(s, range, rec)
    BY <1>3, Zenon DEF Legal
  <1>5. \A t \in Spaces \ live' :
          \/ t \notin live /\ t # s
          \/ t = s /\ range = Pages /\ \A a \in Pages : rec[a] = Unmapped
    OBVIOUS
  <1>6. /\ page' \in [Spaces -> [Pages -> PageRecords]]
        /\ entry' \in [Spaces -> [Pages -> Entries]]
        /\ EntriesMatch' /\ WriteIsolation' /\ FrameRoles' /\ CleanRecords'
    <2> HIDE DEF rec
    <2> QED
      BY <1>1, <1>2, <1>4, <1>5, PagesStep, Zenon DEF SetPages
  <1>7. \A t \in Spaces, a \in Pages :
          /\ t # s \/ a \notin range => page'[t][a] = page[t][a]
          /\ t = s /\ a \in range => page'[t][a] = Unmapped
    BY <1>1, <1>2, Zenon DEF SetPages, TypeOK
  <1>8. RefcountExact'
    <2>1. OnlyPages(s, range)
      BY <1>7, Zenon DEF OnlyPages
    <2>2. \A a \in range : page'[s][a].frame = NoFrame
      BY <1>1, <1>7 DEF Unmapped
    <2> QED
      BY <1>1, <2>1, <2>2, CountUnmap, Zenon DEF UnmapRange, OnlyPages
  <1>9. references' \in [Frames -> Nat]
    <2>1. references' \in [Frames -> Int]
      BY UsesNat DEF UnmapRange, TypeOK
    <2> QED
      BY <1>8, <2>1, CountsAreNat, Zenon
  <1>10. TypeOK'
    BY <1>1, <1>6, <1>9, Zenon DEF TypeOK
  <1> QED
    BY <1>6, <1>8, <1>10, SMTT(60)

\* The common shape of mmap, brk, faults, copies and image loading: the pages
\* of S get new frames, the other pages of range keep theirs.
LEMMA FreshStep ==
  ASSUME IndInv, NEW s \in Spaces, NEW range \in SUBSET Pages, NEW S \in SUBSET range,
         NEW g \in Fresh(S), NEW rec, SetPages(s, range, rec), Legal(s, range, rec),
         \A a \in S : rec[a].frame = g[a],
         \A a \in range \ S : rec[a].frame = page[s][a].frame,
         references' = [f \in Frames |->
           IF f \in Drawn(g) THEN 1 ELSE references[f] - Uses(s, S, f)],
         data' \in [Frames -> Values], memfd' = memfd,
         live' \subseteq Spaces, live \cup {s} \subseteq live'
  PROVE  IndInv'
PROOF
  <1> USE DEF IndInv
  <1>1. /\ page' \in [Spaces -> [Pages -> PageRecords]]
        /\ entry' \in [Spaces -> [Pages -> Entries]]
        /\ EntriesMatch' /\ WriteIsolation' /\ FrameRoles' /\ CleanRecords'
    <2>1. \A t \in Spaces \ live' :
            \/ t \notin live /\ t # s
            \/ t = s /\ range = Pages /\ \A a \in Pages : rec[a] = Unmapped
      BY Zenon
    <2> QED
      BY <2>1, PagesStep, Zenon DEF SetPages
  <1>2. \A t \in Spaces, a \in Pages :
          /\ t # s \/ a \notin range => page'[t][a] = page[t][a]
          /\ t = s /\ a \in range => page'[t][a] = rec[a]
    BY Zenon DEF SetPages, TypeOK
  <1>3. RefcountExact'
    <2>1. OnlyPages(s, S)
      BY <1>2, Zenon DEF OnlyPages
    <2>2. \A a \in S : page'[s][a].frame = g[a]
      BY <1>2, Zenon
    <2> QED
      BY <2>1, <2>2, CountFresh DEF OnlyPages
  <1>4. references' \in [Frames -> Nat]
    <2>1. references' \in [Frames -> Int]
      BY UsesNat DEF TypeOK
    <2> QED
      BY <1>3, <2>1, CountsAreNat, Zenon
  <1>5. TypeOK'
    BY <1>1, <1>4, Zenon DEF TypeOK
  <1> QED
    BY <1>1, <1>3, <1>5, Zenon

-----------------------------------------------------------------------------
(* The handlers *)

\* New mappings with their own frames: anonymous and file mmap.
LEMMA MapFreshInv ==
  ASSUME IndInv, NEW s \in live, NEW range \in SUBSET Pages, NEW g \in Fresh(range),
         NEW contents \in [range -> Values],
         NEW protection \in SUBSET {"R", "W", "X"}, NEW shared \in BOOLEAN,
         MapFresh(s, range, g, contents, protection, shared), UNCHANGED <<live, memfd>>
  PROVE  IndInv'
PROOF
  <1> DEFINE rec == [a \in range |-> [frame |-> g[a], protection |-> protection,
                                      copy_on_write |-> FALSE, shared |-> shared]]
  <1>1. s \in Spaces /\ live \subseteq Spaces
    BY Zenon DEF IndInv, TypeOK
  <1>2. SetPages(s, range, rec)
    BY Zenon DEF MapFresh
  <1>3. \A a \in range : rec[a].frame = g[a] /\ rec[a] \in PageRecords
    BY FreshFrames, Zenon DEF PageRecords
  <1> HIDE DEF rec
  <1>4. Legal(s, range, rec)
    BY <1>3, FreshFrames DEF Legal
  <1>5. data' \in [Frames -> Values]
    <2>1. ASSUME NEW f \in Drawn(g)
          PROVE  contents[CHOOSE a \in range : g[a] = f] \in Values
      <3>1. \E a \in range : g[a] = f
        BY Zenon DEF Drawn, Fresh
      <3> DEFINE c == CHOOSE a \in range : g[a] = f
      <3>2. c \in range
        BY <3>1, Zenon
      <3> HIDE DEF c
      <3>3. contents[c] \in Values
        BY <3>2, Zenon
      <3> QED
        BY <3>3, Zenon DEF c
    <2>2. data \in [Frames -> Values]
      BY Zenon DEF IndInv, TypeOK
    <2>3. data' = [f \in Frames |->
            IF f \in Drawn(g) THEN contents[CHOOSE a \in range : g[a] = f] ELSE data[f]]
      BY Zenon DEF MapFresh
    <2> QED
      BY <2>1, <2>2, <2>3
  <1>6. references' = [f \in Frames |->
          IF f \in Drawn(g) THEN 1 ELSE references[f] - Uses(s, range, f)]
    BY Zenon DEF MapFresh
  <1>7. /\ range \in SUBSET range
        /\ \A a \in range : rec[a].frame = g[a]
        /\ \A a \in range \ range : rec[a].frame = page[s][a].frame
        /\ memfd' = memfd /\ live' \subseteq Spaces /\ live \cup {s} \subseteq live'
    BY <1>1, <1>3, Zenon
  <1> QED
    BY <1>1, <1>2, <1>4, <1>5, <1>6, <1>7, FreshStep, SMTT(60)

\* Absent pages use no frame.
LEMMA UnmappedUses ==
  ASSUME NEW s, NEW S, \A a \in S : ~Mapped(s, a), NEW f \in Frames
  PROVE  Uses(s, S, f) = 0
PROOF
  <1>1. {a \in S : page[s][a].frame = f} = {}
    BY FramesAssumption, Zenon DEF Mapped
  <1> QED
    BY <1>1, FS_EmptySet, Zenon DEF Uses

\* vm_map_page over a range: brk and the demand-paged stack.
LEMMA MapMissingInv ==
  ASSUME IndInv, NEW s \in live, NEW range \in SUBSET Pages,
         NEW protection \in SUBSET {"R", "W", "X"},
         MapMissing(s, range, protection), UNCHANGED <<live, memfd>>
  PROVE  IndInv'
PROOF
  <1> DEFINE S == {a \in range : ~Mapped(s, a)}
  <1>1. s \in Spaces /\ live \subseteq Spaces
    BY Zenon DEF IndInv, TypeOK
  <1>2. PICK g \in Fresh(S) :
          /\ references' = [f \in Frames |-> IF f \in Drawn(g) THEN 1 ELSE references[f]]
          /\ data' = [f \in Frames |-> IF f \in Drawn(g) THEN Zero ELSE data[f]]
          /\ SetPages(s, range, [a \in range |->
               IF Mapped(s, a) THEN Reprotected(page[s][a], protection)
               ELSE [frame |-> g[a], protection |-> protection,
                     copy_on_write |-> FALSE, shared |-> FALSE]])
    BY Zenon DEF MapMissing
  <1> DEFINE rec == [a \in range |->
               IF Mapped(s, a) THEN Reprotected(page[s][a], protection)
               ELSE [frame |-> g[a], protection |-> protection,
                     copy_on_write |-> FALSE, shared |-> FALSE]]
  <1>3. ASSUME NEW a \in range, Mapped(s, a)
        PROVE  /\ rec[a] \in PageRecords
               /\ rec[a].frame = page[s][a].frame
               /\ rec[a].shared = page[s][a].shared
               /\ Exclusive(rec[a]) => ~(references[page[s][a].frame] > 1)
    <2>1. page[s][a] \in PageRecords
      BY <1>1, Zenon DEF IndInv, TypeOK
    <2>2. rec[a] = Reprotected(page[s][a], protection)
      BY <1>3, Zenon
    <2> HIDE DEF rec
    <2>3. /\ Reprotected(page[s][a], protection) \in PageRecords
          /\ Reprotected(page[s][a], protection).frame = page[s][a].frame
          /\ Reprotected(page[s][a], protection).shared = page[s][a].shared
          /\ Exclusive(Reprotected(page[s][a], protection))
               => ~(references[page[s][a].frame] > 1)
      BY <2>1, ReprotectedFields, Zenon
    <2> QED
      BY <2>2, <2>3, Zenon
  <1>4. ASSUME NEW a \in S
        PROVE  rec[a] \in PageRecords /\ rec[a].frame = g[a]
    BY <1>4, FreshFrames, Zenon DEF PageRecords
  <1>5. SetPages(s, range, rec)
    BY <1>2, Zenon
  <1> HIDE DEF rec
  <1>6. Legal(s, range, rec)
    <2> SUFFICES ASSUME NEW a \in range
                 PROVE  /\ rec[a] \in PageRecords
                        /\ \/ /\ rec[a].frame \in FreeFrames
                              /\ \A b \in range : rec[b].frame = rec[a].frame => b = a
                           \/ /\ Mapped(s, a)
                              /\ rec[a].frame = page[s][a].frame
                              /\ rec[a].shared = page[s][a].shared
                              /\ Exclusive(rec[a]) =>
                                   ~(references[page[s][a].frame] > 1)
      BY Zenon DEF Legal
    <2>1. CASE Mapped(s, a)
      BY <1>3, <2>1, Zenon
    <2>2. CASE a \in S
      <3>1. rec[a].frame \in FreeFrames
        BY <1>4, <2>2, FreshFrames
      <3>2. \A b \in range : rec[b].frame = rec[a].frame => b = a
        <4> SUFFICES ASSUME NEW b \in range, rec[b].frame = rec[a].frame
                     PROVE  b = a
          BY Zenon
        <4>1. CASE Mapped(s, b)
          BY <1>1, <1>3, <3>1, <4>1, FreeUnheld, Zenon DEF IndInv
        <4>2. CASE b \in S
          BY <1>4, <2>2, <4>2, FreshFrames, SMTT(60)
        <4> QED
          BY <4>1, <4>2, Zenon
      <3> QED
        BY <1>4, <2>2, <3>1, <3>2, Zenon
    <2> QED
      BY <2>1, <2>2, Zenon
  <1>7. references' = [f \in Frames |->
          IF f \in Drawn(g) THEN 1 ELSE references[f] - Uses(s, S, f)]
    <2>1. \A a \in S : ~Mapped(s, a)
      BY Zenon
    <2>2. \A f \in Frames : references[f] \in Nat
      BY Zenon DEF IndInv, TypeOK
    <2> HIDE DEF S
    <2>3. \A f \in Frames : Uses(s, S, f) = 0
      BY <2>1, UnmappedUses, Zenon
    <2> QED
      BY <1>2, <2>2, <2>3
  <1>8. data' \in [Frames -> Values]
    BY <1>2, ValuesAssumption, Zenon DEF IndInv, TypeOK
  <1>9. /\ S \in SUBSET range
        /\ \A a \in S : rec[a].frame = g[a]
        /\ \A a \in range \ S : rec[a].frame = page[s][a].frame
        /\ memfd' = memfd /\ live' \subseteq Spaces /\ live \cup {s} \subseteq live'
    BY <1>1, <1>3, <1>4, Zenon
  <1> HIDE DEF S
  <1> QED
    BY <1>1, <1>5, <1>6, <1>7, <1>8, <1>9, FreshStep, SMTT(60)

\* The copy-on-write fault and vm_copy_to_user.
LEMMA MakePrivateInv ==
  ASSUME IndInv, NEW s \in live, NEW set \in SUBSET Pages,
         NEW g \in Fresh({a \in set : MustCopy(s, a)}),
         \A a \in set : Mapped(s, a),
         MakePrivate(s, set, g), data' \in [Frames -> Values], UNCHANGED <<live, memfd>>
  PROVE  IndInv'
PROOF
  <1> DEFINE S == {a \in set : MustCopy(s, a)}
             rec == [a \in set |->
               Privatized(page[s][a], IF a \in DOMAIN g THEN g[a] ELSE page[s][a].frame)]
  <1>1. s \in Spaces /\ live \subseteq Spaces
    BY Zenon DEF IndInv, TypeOK
  <1>2. DOMAIN g = S
    BY Zenon DEF Fresh
  <1>3. SetPages(s, set, rec)
    BY Zenon DEF MakePrivate
  <1>4. \A a \in set : page[s][a] \in PageRecords
    BY <1>1, ZenonT(60) DEF IndInv, TypeOK
  <1>5. ASSUME NEW a \in set
        PROVE  /\ rec[a] \in PageRecords
               /\ rec[a].frame = IF a \in S THEN g[a] ELSE page[s][a].frame
               /\ rec[a].shared = page[s][a].shared
               /\ Exclusive(rec[a]) => Exclusive(page[s][a]) \/ page[s][a].copy_on_write
    <2> DEFINE x == IF a \in S THEN g[a] ELSE page[s][a].frame
    <2>1. x \in Frames \cup {NoFrame}
      BY <1>4, FreshFrames, Zenon DEF PageRecords
    <2>2. rec[a] = Privatized(page[s][a], x)
      BY <1>2, Zenon
    <2>3. page[s][a] \in PageRecords
      BY <1>4, Zenon
    <2> HIDE DEF rec, x
    <2>4. rec[a].frame = x
      BY <2>1, <2>2, <2>3, PrivateFields
    <2> QED
      BY <2>1, <2>2, <2>3, <2>4, PrivateFields, SMTT(60) DEF x
  <1> HIDE DEF rec
  <1>6. Legal(s, set, rec)
    <2> SUFFICES ASSUME NEW a \in set
                 PROVE  \/ /\ rec[a].frame \in FreeFrames
                           /\ \A b \in set : rec[b].frame = rec[a].frame => b = a
                        \/ /\ Mapped(s, a)
                           /\ rec[a].frame = page[s][a].frame
                           /\ rec[a].shared = page[s][a].shared
                           /\ Exclusive(rec[a]) => \/ Exclusive(page[s][a])
                                                   \/ ~(references[page[s][a].frame] > 1)
      BY <1>5, Zenon DEF Legal
    <2>1. CASE a \in S
      <3>1. rec[a].frame = g[a] /\ g[a] \in FreeFrames
        BY <1>5, <2>1, FreshFrames, Zenon
      <3>2. \A b \in set : rec[b].frame = rec[a].frame => b = a
        <4> SUFFICES ASSUME NEW b \in set, rec[b].frame = rec[a].frame
                     PROVE  b = a
          BY Zenon
        <4>1. CASE b \in S
          BY <1>5, <2>1, <3>1, <4>1, FreshFrames, SMTT(60)
        <4>2. CASE b \notin S
          BY <1>1, <1>5, <3>1, <4>2, FreeUnheld, SMTT(60) DEF IndInv
        <4> QED
          BY <4>1, <4>2, Zenon
      <3> QED
        BY <3>1, <3>2, Zenon
    <2>2. CASE a \notin S
      <3>1. ~page[s][a].copy_on_write \/ ~(references[page[s][a].frame] > 1)
        BY <2>2, Zenon DEF MustCopy
      <3> QED
        BY <1>5, <2>2, <3>1, Zenon
    <2> QED
      BY <2>1, <2>2, Zenon
  <1>7. references' = [f \in Frames |->
          IF f \in Drawn(g) THEN 1 ELSE references[f] - Uses(s, S, f)]
    BY <1>2, Zenon DEF MakePrivate
  <1>8. /\ S \in SUBSET set
        /\ \A a \in S : rec[a].frame = g[a]
        /\ \A a \in set \ S : rec[a].frame = page[s][a].frame
        /\ memfd' = memfd /\ live' \subseteq Spaces /\ live \cup {s} \subseteq live'
    BY <1>1, <1>5, Zenon
  <1>9. g \in Fresh(S)
    BY Zenon
  <1> HIDE DEF S
  <1> QED
    BY <1>1, <1>3, <1>6, <1>7, <1>8, <1>9, FreshStep, ZenonT(60)

\* Steps that move no frame: mprotect, and the source of a failed clone.
LEMMA KeepStep ==
  ASSUME IndInv, NEW s \in live, NEW range \in SUBSET Pages, NEW rec,
         SetPages(s, range, rec), Legal(s, range, rec),
         \A a \in range : rec[a].frame = page[s][a].frame,
         UNCHANGED <<references, data, live, memfd>>
  PROVE  IndInv'
PROOF
  <1> USE DEF IndInv
  <1>1. s \in Spaces /\ live \subseteq Spaces
    BY Zenon DEF TypeOK
  <1>2. /\ page' \in [Spaces -> [Pages -> PageRecords]]
        /\ entry' \in [Spaces -> [Pages -> Entries]]
        /\ EntriesMatch' /\ WriteIsolation' /\ FrameRoles' /\ CleanRecords'
    <2>1. \A t \in Spaces \ live' :
            \/ t \notin live /\ t # s
            \/ t = s /\ range = Pages /\ \A a \in Pages : rec[a] = Unmapped
      BY Zenon
    <2> QED
      BY <1>1, <2>1, PagesStep, Zenon
  <1>3. \A t \in Spaces, a \in Pages : page'[t][a].frame = page[t][a].frame
    BY <1>1, Zenon DEF SetPages, TypeOK
  <1>4. RefcountExact'
    BY <1>3, CountSame, Zenon
  <1>5. TypeOK'
    BY <1>2, Zenon DEF TypeOK
  <1> QED
    BY <1>2, <1>4, <1>5, Zenon

\* mprotect.
LEMMA MprotectInv ==
  ASSUME IndInv, NEW s \in Spaces, NEW range \in SUBSET Pages,
         NEW protection \in SUBSET {"R", "W", "X"}, Mprotect(s, range, protection)
  PROVE  IndInv'
PROOF
  <1> DEFINE rec == [a \in range |-> Reprotected(page[s][a], protection)]
  <1>1. s \in live /\ SetPages(s, range, rec) /\ \A a \in range : Mapped(s, a)
    BY Zenon DEF Mprotect
  <1>2. ASSUME NEW a \in range
        PROVE  /\ rec[a] \in PageRecords
               /\ rec[a].frame = page[s][a].frame
               /\ rec[a].shared = page[s][a].shared
               /\ Exclusive(rec[a]) => ~(references[page[s][a].frame] > 1)
    <2>1. page[s][a] \in PageRecords
      BY Zenon DEF IndInv, TypeOK
    <2>2. rec[a] = Reprotected(page[s][a], protection)
      BY Zenon
    <2> HIDE DEF rec
    <2>3. /\ Reprotected(page[s][a], protection) \in PageRecords
          /\ Reprotected(page[s][a], protection).frame = page[s][a].frame
          /\ Reprotected(page[s][a], protection).shared = page[s][a].shared
          /\ Exclusive(Reprotected(page[s][a], protection))
               => ~(references[page[s][a].frame] > 1)
      BY <2>1, ReprotectedFields, Zenon
    <2> QED
      BY <2>2, <2>3, Zenon
  <1> HIDE DEF rec
  <1>3. Legal(s, range, rec)
    BY <1>1, <1>2, Zenon DEF Legal
  <1>4. UNCHANGED <<references, data, live, memfd>>
    BY Zenon DEF Mprotect
  <1> QED
    BY <1>1, <1>2, <1>3, <1>4, KeepStep, SMTT(60)

\* A user store changes contents only.
LEMMA UserWriteInv ==
  ASSUME IndInv, NEW s \in Spaces, NEW a \in Pages, NEW v \in Values, UserWrite(s, a, v)
  PROVE  IndInv'
PROOF
  <1>1. /\ page' = page /\ entry' = entry /\ memfd' = memfd
        /\ references' = references /\ live' = live
    BY Zenon DEF UserWrite
  <1>2. data' \in [Frames -> Values]
    BY Zenon DEF UserWrite, IndInv, TypeOK
  <1>3. TypeOK'
    BY <1>1, <1>2, Zenon DEF IndInv, TypeOK
  <1>4. RefcountExact'
    BY <1>1, CountSame, ZenonT(60) DEF IndInv
  <1>5. EntriesMatch' /\ WriteIsolation' /\ FrameRoles' /\ CleanRecords'
    <2>1. EntriesMatch' /\ CleanRecords'
      BY <1>1, Zenon DEF IndInv, EntriesMatch, CleanRecords, Mapped
    <2>2. WriteIsolation'
      BY <1>1, IsolationSame, Zenon DEF IndInv
    <2>3. FrameRoles'
      BY <1>1, RolesShrink, Zenon DEF IndInv
    <2> QED
      BY <2>1, <2>2, <2>3, Zenon
  <1> QED
    BY <1>3, <1>4, <1>5, Zenon DEF IndInv

\* The copy-on-write fault.
LEMMA CowFaultInv ==
  ASSUME IndInv, NEW s \in Spaces, NEW a \in Pages, CowFault(s, a)
  PROVE  IndInv'
PROOF
  <1>1. PICK g \in Fresh({b \in {a} : MustCopy(s, b)}) :
          /\ MakePrivate(s, {a}, g)
          /\ data' = [f \in Frames |->
               IF f \in Drawn(g) THEN data[page[s][a].frame] ELSE data[f]]
    BY Zenon DEF CowFault
  <1>2. s \in live /\ entry[s][a].frame # NoFrame /\ UNCHANGED <<live, memfd>>
    BY Zenon DEF CowFault
  <1>3. page[s][a] \in PageRecords
    BY Zenon DEF IndInv, TypeOK
  <1>4. entry[s][a].frame = page[s][a].frame
    BY WritableEntry, Zenon DEF IndInv, TypeOK
  <1>5. Mapped(s, a) /\ page[s][a].frame \in Frames
    BY <1>2, <1>3, <1>4, Zenon DEF Mapped, PageRecords
  <1>6. data' \in [Frames -> Values]
    BY <1>1, <1>5, Zenon DEF IndInv, TypeOK
  <1>7. \A b \in {a} : Mapped(s, b)
    BY <1>5, Zenon
  <1> QED
    BY <1>1, <1>2, <1>6, <1>7, MakePrivateInv, SMTT(60)

\* Kernel copies to user memory.
LEMMA CopyToUserInv ==
  ASSUME IndInv, NEW s \in Spaces, NEW range \in SUBSET Pages, NEW v \in Values,
         CopyToUser(s, range, v)
  PROVE  IndInv'
PROOF
  <1>1. PICK done \in SUBSET range :
          /\ s \in live
          /\ \A a \in done : Mapped(s, a)
          /\ \E g \in Fresh({a \in done : MustCopy(s, a)}) :
               /\ MakePrivate(s, done, g)
               /\ data' = [f \in Frames |->
                    IF \E a \in done : f = (IF a \in DOMAIN g THEN g[a] ELSE page[s][a].frame)
                    THEN v ELSE data[f]]
          /\ UNCHANGED <<live, memfd>>
    BY Zenon DEF CopyToUser
  <1>2. PICK g \in Fresh({a \in done : MustCopy(s, a)}) :
          /\ MakePrivate(s, done, g)
          /\ data' = [f \in Frames |->
               IF \E a \in done : f = (IF a \in DOMAIN g THEN g[a] ELSE page[s][a].frame)
               THEN v ELSE data[f]]
    BY <1>1, Zenon
  <1>3. data \in [Frames -> Values]
    BY Zenon DEF IndInv, TypeOK
  <1>4. data' \in [Frames -> Values]
    BY <1>2, <1>3, Zenon
  <1> QED
    BY <1>1, <1>2, <1>4, MakePrivateInv, Zenon

\* A new space: the pages of the image and the stack get their own frames.
LEMMA LoadImageInv ==
  ASSUME IndInv, NEW s \in Spaces, NEW range \in SUBSET Pages,
         NEW protection \in SUBSET {"R", "W", "X"}, NEW v \in Values,
         LoadImage(s, range, protection, v)
  PROVE  IndInv'
PROOF
  <1> DEFINE pages == range \cup {NPages}
  <1>1. PICK g \in Fresh(pages) :
          /\ references' = [f \in Frames |-> IF f \in Drawn(g) THEN 1 ELSE references[f]]
          /\ data' = [f \in Frames |-> IF f \in Drawn(g) THEN v ELSE data[f]]
          /\ SetPages(s, pages, [a \in pages |->
               [frame |-> g[a],
                protection |-> IF a \in range THEN protection ELSE {"R", "W"},
                copy_on_write |-> FALSE, shared |-> FALSE]])
    BY Zenon DEF LoadImage
  <1> DEFINE rec == [a \in pages |->
               [frame |-> g[a],
                protection |-> IF a \in range THEN protection ELSE {"R", "W"},
                copy_on_write |-> FALSE, shared |-> FALSE]]
  <1>2. SetPages(s, pages, rec)
    BY <1>1, Zenon
  <1>3. pages \in SUBSET Pages
    BY PagesAssumption DEF Pages
  <1>4. \A a \in pages : rec[a].frame = g[a] /\ rec[a] \in PageRecords
    BY FreshFrames, Zenon DEF PageRecords
  <1>5. s \notin live /\ live' = live \cup {s} /\ memfd' = memfd
    BY ZenonT(60) DEF LoadImage
  <1> HIDE DEF rec, pages
  <1>6. Legal(s, pages, rec)
    BY <1>4, FreshFrames, SMTT(60) DEF Legal
  <1>7. \A a \in pages : ~Mapped(s, a)
    BY <1>3, <1>5, SMTT(60) DEF IndInv, CleanRecords, Mapped, Unmapped
  <1>8. references' = [f \in Frames |->
          IF f \in Drawn(g) THEN 1 ELSE references[f] - Uses(s, pages, f)]
    <2>1. \A f \in Frames : references[f] \in Nat
      BY Zenon DEF IndInv, TypeOK
    <2>2. \A f \in Frames : Uses(s, pages, f) = 0
      BY <1>7, UnmappedUses, Zenon
    <2> QED
      BY <1>1, <2>1, <2>2, SMTT(60)
  <1>9. data' \in [Frames -> Values]
    BY <1>1, Zenon DEF IndInv, TypeOK
  <1>10. /\ pages \in SUBSET pages
         /\ \A a \in pages : rec[a].frame = g[a]
         /\ \A a \in pages \ pages : rec[a].frame = page[s][a].frame
         /\ live' \subseteq Spaces /\ live \cup {s} \subseteq live'
    BY <1>4, <1>5, Zenon DEF IndInv, TypeOK
  <1> QED
    BY <1>1, <1>2, <1>3, <1>5, <1>6, <1>8, <1>9, <1>10, FreshStep, SMTT(60)

\* The source of a failed clone.
LEMMA CloneFailInv ==
  ASSUME IndInv, NEW s \in Spaces, NEW done \in SUBSET Pages, CloneFail(s, done)
  PROVE  IndInv'
PROOF
  <1> DEFINE range == {a \in done : ShareCow(page[s][a])}
             rec == [a \in range |-> CowSource(page[s][a])]
  <1>1. SetPages(s, range, rec)
    <2>1. MarkCow(s, done) =
            [a \in Pages |-> IF a \in range THEN rec[a] ELSE page[s][a]]
      BY Zenon DEF MarkCow, CowSource
    <2>2. MarkCowEntries(s, done) =
            [a \in Pages |-> IF a \in range THEN page_flags(rec[a]) ELSE entry[s][a]]
      BY Zenon DEF MarkCowEntries
    <2> HIDE DEF range, rec
    <2> QED
      BY <2>1, <2>2, Zenon DEF CloneFail, SetPages
  <1>2. s \in live /\ UNCHANGED <<references, data, live, memfd>>
    BY Zenon DEF CloneFail
  <1>3. \A a \in range : page[s][a] \in PageRecords /\ Mapped(s, a)
    <2>1. \A a \in range : page[s][a] \in PageRecords /\ page[s][a] # Unmapped
      BY DEF IndInv, TypeOK, ShareCow, Unmapped
    <2> QED
      BY <2>1, Zenon DEF IndInv, CleanRecords
  <1>4. \A a \in range : rec[a] = CowSource(page[s][a])
    BY Zenon
  <1>5. range \in SUBSET Pages
    BY Zenon
  <1> HIDE DEF range, rec
  <1>6. Legal(s, range, rec)
    BY <1>3, <1>4, CowFields, ZenonT(60) DEF Legal
  <1>7. \A a \in range : rec[a].frame = page[s][a].frame
    BY <1>3, <1>4, CowFields, Zenon
  <1> QED
    BY <1>1, <1>2, <1>5, <1>6, <1>7, KeepStep, SMTT(60)

\* fork: every page of the source gains one holder and nothing stays writable
\* without a fault on either side.
LEMMA CloneInv ==
  ASSUME IndInv, NEW s \in Spaces, NEW d \in Spaces, Clone(s, d)
  PROVE  IndInv'
PROOF
  <1> USE DEF IndInv
  <1>1. /\ s \in live /\ d \notin live /\ s # d
        /\ live' = live \cup {d} /\ data' = data /\ memfd' = memfd
    BY Zenon DEF Clone
  <1>2. \A a \in Pages : page[s][a] \in PageRecords
    BY Zenon DEF TypeOK
  <1>3. \A a \in Pages :
          /\ page'[d][a] = CowCopy(page[s][a])
          /\ entry'[d][a] = page_flags(CowCopy(page[s][a]))
          /\ page'[s][a] = CowSource(page[s][a])
          /\ entry'[s][a] = page_flags(CowSource(page[s][a]))
    <2> SUFFICES ASSUME NEW a \in Pages
                 PROVE  /\ page'[d][a] = CowCopy(page[s][a])
                        /\ entry'[d][a] = page_flags(CowCopy(page[s][a]))
                        /\ page'[s][a] = CowSource(page[s][a])
                        /\ entry'[s][a] = page_flags(CowSource(page[s][a]))
      BY Zenon
    <2>1. /\ page'[d][a] = CowCopy(page[s][a])
          /\ entry'[d][a] = page_flags(CowCopy(page[s][a]))
          /\ page'[s][a] = MarkCow(s, Pages)[a]
          /\ entry'[s][a] = MarkCowEntries(s, Pages)[a]
      BY <1>1, Zenon DEF Clone, TypeOK
    <2>2. MarkCow(s, Pages)[a] = CowSource(page[s][a])
      BY Zenon DEF MarkCow
    <2>3. MarkCowEntries(s, Pages)[a] =
            IF ShareCow(page[s][a]) THEN page_flags(CowSource(page[s][a])) ELSE entry[s][a]
      BY Zenon DEF MarkCowEntries
    <2>4. ~ShareCow(page[s][a]) => entry[s][a] = page_flags(CowSource(page[s][a]))
      BY Zenon DEF CowSource, EntriesMatch
    <2> QED
      BY <2>1, <2>2, <2>3, <2>4, Zenon
  <1>4. \A t \in Spaces \ {s, d}, a \in Pages :
          page'[t][a] = page[t][a] /\ entry'[t][a] = entry[t][a]
    BY Zenon DEF Clone, TypeOK
  <1>5. \A t \in {s, d}, a \in Pages :
          /\ page'[t][a] \in PageRecords
          /\ page'[t][a].frame = page[s][a].frame
          /\ page'[t][a].shared = page[s][a].shared
          /\ ~Exclusive(page'[t][a])
          /\ entry'[t][a] = page_flags(page'[t][a])
    BY <1>2, <1>3, CowFields
  <1>6. page' \in [Spaces -> [Pages -> PageRecords]]
    <2>1. MarkCow(s, Pages) \in [Pages -> PageRecords]
      BY <1>2, CowFields, Zenon DEF MarkCow
    <2>2. [a \in Pages |-> CowCopy(page[s][a])] \in [Pages -> PageRecords]
      BY <1>2, CowFields, Zenon
    <2> QED
      BY <2>1, <2>2, Zenon DEF Clone, TypeOK
  <1>7. EntriesMatch'
    BY <1>4, <1>5, ZenonT(60) DEF EntriesMatch
  <1>8. entry' \in [Spaces -> [Pages -> Entries]]
    <2>1. MarkCowEntries(s, Pages) \in [Pages -> Entries]
      <3>1. \A a \in Pages : page_flags(CowSource(page[s][a])) \in Entries
        BY <1>2, CowFields, FlagsFields, Zenon
      <3>2. \A a \in Pages : entry[s][a] \in Entries
        BY Zenon DEF TypeOK
      <3> QED
        BY <3>1, <3>2, Zenon DEF MarkCowEntries
    <2>2. [a \in Pages |-> page_flags(CowCopy(page[s][a]))] \in [Pages -> Entries]
      BY <1>2, CowFields, FlagsFields, Zenon
    <2> QED
      BY <2>1, <2>2, Zenon DEF Clone, TypeOK
  <1>9. CleanRecords'
    <2> SUFFICES ASSUME NEW t \in Spaces, NEW a \in Pages,
                        ~Mapped(t, a)' \/ t \notin live'
                 PROVE  page'[t][a] = Unmapped
      BY Zenon DEF CleanRecords
    <2>1. CASE t \in {s, d}
      <3>1. page[s][a].frame = NoFrame
        BY <1>1, <1>5, <2>1, Zenon DEF Mapped
      <3>2. page[s][a] = Unmapped
        BY <3>1, Zenon DEF CleanRecords, Mapped
      <3>3. CowCopy(Unmapped) = Unmapped /\ CowSource(Unmapped) = Unmapped
        <4>1. ShareCow(Unmapped) = FALSE
          BY Zenon DEF ShareCow, Unmapped
        <4>2. CowSource(Unmapped) = Unmapped
          BY <4>1, Zenon DEF CowSource
        <4>3. CowCopy(Unmapped) = [Unmapped EXCEPT !.copy_on_write = FALSE]
          BY <4>1, Zenon DEF CowCopy
        <4>4. [Unmapped EXCEPT !.copy_on_write = FALSE] = Unmapped
          <5>1. Unmapped \in PageRecords /\ Unmapped.copy_on_write = FALSE
            BY Zenon DEF Unmapped, PageRecords
          <5> QED
            BY <5>1, Zenon DEF PageRecords
        <4> QED
          BY <4>2, <4>3, <4>4, Zenon
      <3> QED
        BY <1>3, <2>1, <3>2, <3>3, Zenon
    <2>2. CASE t \notin {s, d}
      BY <1>1, <1>4, <2>2, ZenonT(60) DEF CleanRecords, Mapped
    <2> QED
      BY <2>1, <2>2, Zenon
  \* Every holder after the step stands for a holder before it.
  <1> DEFINE from(t) == IF t = d THEN s ELSE t
  <1>10. \A t \in Spaces, a \in Pages :
           /\ from(t) \in Spaces
           /\ page'[t][a].frame = page[from(t)][a].frame
           /\ page'[t][a].shared = page[from(t)][a].shared
           /\ Exclusive(page'[t][a]) => t \notin {s, d} /\ Exclusive(page[t][a])
    BY <1>4, <1>5, ZenonT(60)
  <1> HIDE DEF from
  <1>11. FrameRoles'
    BY <1>1, <1>10, SMTT(60) DEF FrameRoles, Mapped
  <1>12. WriteIsolation'
    <2>1. \A t \in Spaces, a \in Pages : Exclusive(page'[t][a]) =>
            /\ \A u \in Spaces, b \in Pages :
                 page'[u][b].frame = page'[t][a].frame => u = t /\ b = a
            /\ \A m \in Memfds, i \in FilePages :
                 memfd'[m].frames[i] # page'[t][a].frame
      <3> SUFFICES ASSUME NEW t \in Spaces, NEW a \in Pages, Exclusive(page'[t][a])
                   PROVE  /\ \A u \in Spaces, b \in Pages :
                               page'[u][b].frame = page'[t][a].frame => u = t /\ b = a
                          /\ \A m \in Memfds, i \in FilePages :
                               memfd'[m].frames[i] # page'[t][a].frame
        BY Zenon
      <3>1. t \notin {s, d} /\ Exclusive(page[t][a]) /\ page'[t][a] = page[t][a]
        BY <1>4, <1>10, ZenonT(60)
      <3>2. /\ \A u \in Spaces, b \in Pages :
                 page[u][b].frame = page[t][a].frame => u = t /\ b = a
            /\ \A m \in Memfds, i \in FilePages : memfd[m].frames[i] # page[t][a].frame
        BY <3>1, IsolationByRecord, Zenon DEF TypeOK
      <3>3. \A u \in Spaces : from(u) = t => u = t
        BY <3>1, Zenon DEF from
      <3> QED
        BY <1>1, <1>10, <3>1, <3>2, <3>3, SMTT(60)
    <2> QED
      BY <1>6, <1>7, <2>1, IsolationNext, Zenon
  <1>13. RefcountExact'
    <2>1. OnlyPages(d, Pages)
      BY <1>1, <1>4, <1>5, Zenon DEF OnlyPages
    <2>2. ASSUME NEW f \in Frames
          PROVE  references'[f] = references[f] - Uses(d, Pages, f) + Uses(d, Pages, f)'
      <3>1. Uses(d, Pages, f) = 0
        BY <1>1, UnmappedUses DEF CleanRecords, Mapped, Unmapped
      <3>2. Uses(d, Pages, f)' = Uses(s, Pages, f)
        <4>1. {a \in Pages : page'[d][a].frame = f} = {a \in Pages : page[s][a].frame = f}
          BY <1>5, Zenon
        <4> QED
          BY <4>1, Zenon DEF Uses
      <3>3. references'[f] = references[f] + Uses(s, Pages, f)
        BY Zenon DEF Clone
      <3>4. references[f] \in Nat /\ Uses(s, Pages, f) \in Nat
        BY UsesNat, Zenon DEF TypeOK
      <3> QED
        BY <3>1, <3>2, <3>3, <3>4, SMTT(60)
    <2> QED
      BY <2>1, <2>2, CountPages, Zenon
  <1>14. references' \in [Frames -> Nat]
    <2>1. \A f \in Frames : references[f] \in Nat /\ Uses(s, Pages, f) \in Nat
      BY UsesNat, Zenon DEF TypeOK
    <2> QED
      BY <2>1 DEF Clone
  <1>15. TypeOK'
    BY <1>1, <1>6, <1>8, <1>14, Zenon DEF TypeOK
  <1> QED
    BY <1>7, <1>9, <1>11, <1>12, <1>13, <1>15, Zenon

-----------------------------------------------------------------------------
(* Steps that give an object frames *)

\* Object m gains the frames of h and no other object frame changes.
Grown(m, h) ==
  \A n \in Memfds, i \in FilePages :
    memfd'[n].frames[i] = IF n = m /\ i \in DOMAIN h THEN h[i] ELSE memfd[n].frames[i]

\* Page records a mapping of an object may install: a cleared one, one with a
\* frame of its own, or a shared one with a frame of the object.
Mappable(range, rec, m) ==
  \A a \in range :
    /\ rec[a] \in PageRecords
    /\ \/ rec[a] = Unmapped
       \/ /\ rec[a].frame \in FreeFrames
          /\ ~rec[a].shared
          /\ \A b \in range : rec[b].frame = rec[a].frame => b = a
          /\ \A n \in Memfds, i \in FilePages : memfd'[n].frames[i] # rec[a].frame
       \/ /\ rec[a].frame # NoFrame
          /\ rec[a].shared
          /\ \E i \in FilePages : memfd'[m].frames[i] = rec[a].frame

\* h draws frames for holes of m among files, and the step puts them there.
FillsFrom(m, files, h) ==
  /\ files \in SUBSET FilePages
  /\ h \in Fresh(Holes(m, files))
  /\ Grown(m, h)

\* The step replaces the pages of range in s by such records.
Installs(s, range, rec, m) ==
  /\ range \in SUBSET Pages
  /\ Mappable(range, rec, m)
  /\ \A a \in range : s \in live
  /\ \A t \in Spaces, a \in Pages :
       /\ t # s \/ a \notin range => page'[t][a] = page[t][a]
       /\ t = s /\ a \in range => page'[t][a] = rec[a]

\* How many of the new records hold frame f.
Installed(range, rec, f) == Cardinality({a \in range : rec[a].frame = f})

\* Counts of object frames over such a step.
LEMMA CountGrown ==
  ASSUME TypeOK, RefcountExact, NEW m \in Memfds, NEW files \in SUBSET FilePages,
         NEW h \in Fresh(Holes(m, files)), Grown(m, h), NEW f \in Frames
  PROVE  /\ Cardinality(FileHolders(f)') =
              Cardinality(FileHolders(f)) + (IF f \in Drawn(h) THEN 1 ELSE 0)
         /\ Cardinality(FileHolders(f)) \in Nat
         /\ Cardinality(FileHolders(f)') \in Nat
PROOF
  <1>1. PICK holes : holes = DOMAIN h
    BY Zenon
  <1>2. /\ holes = Holes(m, files)
        /\ holes \in SUBSET FilePages /\ \A i \in holes : memfd[m].frames[i] = NoFrame
    <2>1. DOMAIN h = Holes(m, files)
      BY Zenon DEF Fresh
    <2> QED
      BY <1>1, <2>1, Zenon DEF Holes
  <1>3. \A n \in Memfds, i \in FilePages :
          n # m \/ i \notin holes => memfd'[n].frames[i] = memfd[n].frames[i]
    BY <1>1, Zenon DEF Grown
  <1>4. /\ Cardinality(FileHolders(f)') =
              Cardinality(FileHolders(f)) - Drops(m, holes, f) + Drops(m, holes, f)'
        /\ Cardinality(FileHolders(f)) \in Nat
        /\ Cardinality(FileHolders(f)') \in Nat
    BY ZenonT(60), <1>2, <1>3, FileHoldersChange
  <1>5. Drops(m, holes, f) = 0
    <2>1. {i \in holes : memfd[m].frames[i] = f} = {}
      BY <1>2, FramesAssumption, Zenon
    <2> QED
      BY <2>1, FS_EmptySet, Zenon DEF Drops
  <1>6. Drops(m, holes, f)' = Cardinality({i \in holes : h[i] = f})
    <2>1. {i \in holes : memfd'[m].frames[i] = f} = {i \in holes : h[i] = f}
      BY <1>1, <1>2, Zenon DEF Grown
    <2> QED
      BY <2>1, Zenon DEF Drops
  <1>7. Cardinality({i \in holes : h[i] = f}) = IF f \in Drawn(h) THEN 1 ELSE 0
    BY <1>2, DrawnOnce
  <1> QED
    BY <1>4, <1>5, <1>6, <1>7, SMTT(60)

\* Roles and isolation over a step that grows an object and maps pages.
LEMMA GrowStep ==
  ASSUME IndInv, NEW m \in Memfds, NEW files, NEW h, FillsFrom(m, files, h),
         NEW s, NEW range, NEW rec, Installs(s, range, rec, m),
         page' \in [Spaces -> [Pages -> PageRecords]], EntriesMatch', live' = live
  PROVE  WriteIsolation' /\ FrameRoles' /\ CleanRecords'
PROOF
  <1>0. /\ TypeOK /\ RefcountExact /\ EntriesMatch
        /\ WriteIsolation /\ FrameRoles /\ CleanRecords
    BY Zenon DEF IndInv
  <1>a. h \in Fresh(Holes(m, files)) /\ Grown(m, h)
    BY Zenon DEF FillsFrom
  <1>b. range \in SUBSET Pages /\ Mappable(range, rec, m)
    BY Zenon DEF Installs
  <1>c. \A t \in Spaces, a \in Pages :
          /\ ~(t = s /\ a \in range) => page'[t][a] = page[t][a]
          /\ t = s /\ a \in range => page'[t][a] = rec[a]
    BY Zenon DEF Installs
  <1>1. \A i \in DOMAIN h :
          /\ i \in FilePages /\ memfd[m].frames[i] = NoFrame
          /\ h[i] \in Frames
          /\ \A j \in DOMAIN h : h[i] = h[j] => i = j
          /\ \A t \in Spaces, a \in Pages : page[t][a].frame # h[i]
          /\ \A n \in Memfds, j \in FilePages : memfd[n].frames[j] # h[i]
    <2>1. DOMAIN h = Holes(m, files)
      BY <1>a, DrawnOnce, Zenon
    <2>2. \A i \in DOMAIN h : h[i] \in FreeFrames /\ \A j \in DOMAIN h : h[i] = h[j] => i = j
      BY <1>a, <2>1, FreshFrames, Zenon
    <2>3. \A f \in FreeFrames :
            /\ f \in Frames
            /\ \A t \in Spaces, a \in Pages : page[t][a].frame # f
            /\ \A n \in Memfds, j \in FilePages : memfd[n].frames[j] # f
      BY <1>0, FreeUnheld, Zenon
    <2> QED
      <3> SUFFICES ASSUME NEW i \in DOMAIN h
                   PROVE  /\ i \in FilePages /\ memfd[m].frames[i] = NoFrame
                          /\ h[i] \in Frames
                          /\ \A j \in DOMAIN h : h[i] = h[j] => i = j
                          /\ \A t \in Spaces, a \in Pages : page[t][a].frame # h[i]
                          /\ \A n \in Memfds, j \in FilePages : memfd[n].frames[j] # h[i]
        BY Zenon
      <3>1. i \in FilePages /\ memfd[m].frames[i] = NoFrame
        BY <2>1, Zenon DEF Holes, FillsFrom
      <3>2. h[i] \in FreeFrames /\ \A j \in DOMAIN h : h[i] = h[j] => i = j
        BY <2>2, Zenon
      <3> QED
        BY <2>3, <3>1, <3>2, Zenon
  \* Where a frame of an object comes from.
  <1>2. \A n \in Memfds, i \in FilePages :
          \/ n = m /\ i \in DOMAIN h /\ memfd'[n].frames[i] = h[i]
          \/ memfd'[n].frames[i] = memfd[n].frames[i]
    BY <1>a, ZenonT(60) DEF Grown
  <1>3. \A n, q \in Memfds, i, j \in FilePages :
          memfd'[n].frames[i] # NoFrame /\ memfd'[n].frames[i] = memfd'[q].frames[j] =>
            n = q /\ i = j
    <2> SUFFICES ASSUME NEW n \in Memfds, NEW q \in Memfds, NEW i \in FilePages,
                        NEW j \in FilePages, memfd'[n].frames[i] # NoFrame,
                        memfd'[n].frames[i] = memfd'[q].frames[j]
                 PROVE  n = q /\ i = j
      BY SMT
    <2>1. CASE /\ memfd'[n].frames[i] = memfd[n].frames[i]
               /\ memfd'[q].frames[j] = memfd[q].frames[j]
      <3>1. memfd[n].frames[i] # NoFrame /\ memfd[n].frames[i] = memfd[q].frames[j]
        BY <2>1, Zenon
      <3> QED
        BY <1>0, <3>1, RolesOfObjects, SMT
    <2>2. CASE n = m /\ i \in DOMAIN h /\ memfd'[n].frames[i] = h[i]
      BY <1>1, <1>2, <2>2, SMT
    <2>3. CASE q = m /\ j \in DOMAIN h /\ memfd'[q].frames[j] = h[j]
      BY <1>1, <1>2, <2>3, SMT
    <2> QED
      BY <1>2, <2>1, <2>2, <2>3, Zenon
  \* What the new pages hold.
  <1>4. \A a \in range :
          \/ rec[a] = Unmapped
          \/ /\ rec[a].frame # NoFrame /\ ~rec[a].shared
             /\ \A t \in Spaces, b \in Pages : page[t][b].frame # rec[a].frame
             /\ \A b \in range : rec[b].frame = rec[a].frame => b = a
             /\ \A n \in Memfds, i \in FilePages : memfd'[n].frames[i] # rec[a].frame
          \/ /\ rec[a].frame # NoFrame /\ rec[a].shared
             /\ \E i \in FilePages : memfd'[m].frames[i] = rec[a].frame
    <2>1. \A f \in FreeFrames :
            f # NoFrame /\ \A t \in Spaces, b \in Pages : page[t][b].frame # f
      BY <1>0, FreeUnheld, FramesAssumption, Zenon
    <2> QED
      BY <1>b, <2>1, Zenon DEF Mappable
  <1>5. Unmapped.frame = NoFrame /\ Unmapped.protection = {}
    BY Zenon DEF Unmapped
  <1>6. \A t \in Spaces, a \in Pages, n \in Memfds, i \in FilePages :
          page'[t][a].frame # NoFrame /\ memfd'[n].frames[i] = page'[t][a].frame =>
            page'[t][a].shared
    <2> SUFFICES ASSUME NEW t \in Spaces, NEW a \in Pages, NEW n \in Memfds,
                        NEW i \in FilePages, page'[t][a].frame # NoFrame,
                        memfd'[n].frames[i] = page'[t][a].frame
                 PROVE  page'[t][a].shared
      BY ZenonT(60)
    <2>1. CASE t = s /\ a \in range
      <3>1. page'[t][a] = rec[a]
        BY <1>c, <2>1, Zenon
      <3> QED
        BY <1>4, <1>5, <2>1, <3>1, Zenon
    <2>2. CASE ~(t = s /\ a \in range)
      <3>1. page'[t][a] = page[t][a]
        BY <1>c, <2>2, Zenon
      <3>2. memfd'[n].frames[i] = memfd[n].frames[i]
        BY <1>1, <1>2, <3>1, SMT
      <3> QED
        BY <1>0, <3>1, <3>2, RolesOfShared, Zenon
    <2> QED
      BY <2>1, <2>2, Zenon
  <1>7. CleanRecords'
    <2> SUFFICES ASSUME NEW t \in Spaces, NEW a \in Pages
                 PROVE  /\ page'[t][a].frame = NoFrame => page'[t][a] = Unmapped
                        /\ t \notin live => page'[t][a] = Unmapped
      BY Zenon DEF CleanRecords, Mapped
    <2>1. CASE t = s /\ a \in range
      <3>1. page'[t][a] = rec[a] /\ t \in live
        BY <1>c, <2>1, Zenon DEF Installs
      <3> QED
        BY <1>4, <2>1, <3>1, Zenon
    <2>2. CASE ~(t = s /\ a \in range)
      <3>1. page'[t][a] = page[t][a]
        BY <1>c, <2>2, Zenon
      <3> QED
        BY <1>0, <3>1, Zenon DEF CleanRecords, Mapped
    <2> QED
      BY <2>1, <2>2, Zenon
  \* An old page and a new one with the same frame share an object's frame.
  <1>8. \A a \in range, t \in Spaces, b \in Pages :
          /\ t # s \/ b \notin range
          /\ rec[a].frame # NoFrame
          /\ page[t][b].frame = rec[a].frame
          => rec[a].shared /\ page[t][b].shared
    <2> SUFFICES ASSUME NEW a \in range, NEW t \in Spaces, NEW b \in Pages,
                        t # s \/ b \notin range, rec[a].frame # NoFrame,
                        page[t][b].frame = rec[a].frame
                 PROVE  rec[a].shared /\ page[t][b].shared
      BY Zenon
    <2>1. PICK i \in FilePages : memfd'[m].frames[i] = rec[a].frame
      BY <1>4, <1>5, Zenon
    <2>2. rec[a].shared
      BY <1>4, <1>5, Zenon
    <2>3. page'[t][b] = page[t][b]
      BY <1>c, ZenonT(60)
    <2>4. page'[t][b].frame # NoFrame /\ memfd'[m].frames[i] = page'[t][b].frame
      BY <2>1, <2>3, Zenon
    <2>5. page'[t][b].shared
      BY <1>6, <2>4, Zenon
    <2> QED
      BY <2>2, <2>3, <2>5, Zenon
  <1>9. \A t, u \in Spaces, a, b \in Pages :
          page'[t][a].frame # NoFrame /\ page'[t][a].frame = page'[u][b].frame =>
            /\ page'[t][a].shared = page'[u][b].shared
            /\ page'[t][a].shared \/ a = b
    <2> SUFFICES ASSUME NEW t \in Spaces, NEW u \in Spaces, NEW a \in Pages, NEW b \in Pages,
                        page'[t][a].frame # NoFrame,
                        page'[t][a].frame = page'[u][b].frame
                 PROVE  /\ page'[t][a].shared = page'[u][b].shared
                        /\ page'[t][a].shared \/ a = b
      BY ZenonT(60)
    <2>0. page'[t][a].shared \in BOOLEAN /\ page'[u][b].shared \in BOOLEAN
      BY ZenonT(60) DEF PageRecords
    <2>1. CASE (t = s /\ a \in range) /\ (u = s /\ b \in range)
      <3>1. page'[t][a] = rec[a] /\ page'[u][b] = rec[b]
        BY <1>c, <2>1, Zenon
      <3> QED
        BY <1>4, <1>5, <2>0, <2>1, <3>1, Zenon
    <2>2. CASE (t = s /\ a \in range) /\ ~(u = s /\ b \in range)
      <3>1. page'[t][a] = rec[a] /\ page'[u][b] = page[u][b]
        BY <1>c, <2>2, Zenon
      <3>2. rec[a].shared /\ page[u][b].shared
        BY <1>8, <2>2, <3>1, Zenon
      <3> QED
        BY <2>0, <3>1, <3>2, Zenon
    <2>3. CASE ~(t = s /\ a \in range) /\ (u = s /\ b \in range)
      <3>1. page'[t][a] = page[t][a] /\ page'[u][b] = rec[b]
        BY <1>c, <2>3, Zenon
      <3>2. rec[b].shared /\ page[t][a].shared
        BY <1>8, <2>3, <3>1, Zenon
      <3> QED
        BY <2>0, <3>1, <3>2, Zenon
    <2>4. CASE ~(t = s /\ a \in range) /\ ~(u = s /\ b \in range)
      <3>1. page'[t][a] = page[t][a] /\ page'[u][b] = page[u][b]
        BY <1>c, <2>4, Zenon
      <3> QED
        BY <1>0, <3>1, RolesOfPages, SMT
    <2> QED
      BY <2>1, <2>2, <2>3, <2>4, ZenonT(60)
  <1>10. FrameRoles'
    BY <1>3, <1>6, <1>9, Zenon DEF FrameRoles, Mapped
  <1>11. \A t \in Spaces, a \in Pages : Exclusive(page'[t][a]) =>
           /\ \A u \in Spaces, b \in Pages :
                page'[u][b].frame = page'[t][a].frame => u = t /\ b = a
           /\ \A n \in Memfds, i \in FilePages :
                memfd'[n].frames[i] # page'[t][a].frame
    <2> SUFFICES ASSUME NEW t \in Spaces, NEW a \in Pages, Exclusive(page'[t][a])
                 PROVE  /\ \A u \in Spaces, b \in Pages :
                             page'[u][b].frame = page'[t][a].frame => u = t /\ b = a
                        /\ \A n \in Memfds, i \in FilePages :
                             memfd'[n].frames[i] # page'[t][a].frame
      BY Zenon
    <2>1. page'[t][a].frame # NoFrame /\ ~page'[t][a].shared
      <3>1. page'[t][a] # Unmapped
        BY <1>5, Zenon DEF Exclusive
      <3> QED
        BY <1>7, <3>1, Zenon DEF CleanRecords, Mapped, Exclusive
    <2>2. ASSUME NEW u \in Spaces, NEW b \in Pages, page'[u][b].frame = page'[t][a].frame
          PROVE  u = t /\ b = a
      <3>1. ~page'[u][b].shared /\ page'[u][b].frame # NoFrame
        BY <1>9, <2>1, <2>2, SMT
      <3>2. CASE (t = s /\ a \in range) /\ (u = s /\ b \in range)
        <4>1. page'[t][a] = rec[a] /\ page'[u][b] = rec[b]
          BY <1>c, <3>2, Zenon
        <4> QED
          BY <1>4, <1>5, <2>1, <2>2, <3>2, <4>1, Zenon
      <3>3. CASE (t = s /\ a \in range) /\ ~(u = s /\ b \in range)
        <4>1. page'[t][a] = rec[a] /\ page'[u][b] = page[u][b]
          BY <1>c, <3>3, Zenon
        <4> QED
          BY <1>8, <2>1, <2>2, <3>3, <4>1, Zenon
      <3>4. CASE ~(t = s /\ a \in range) /\ (u = s /\ b \in range)
        <4>1. page'[t][a] = page[t][a] /\ page'[u][b] = rec[b]
          BY <1>c, <3>4, Zenon
        <4> QED
          BY <1>8, <2>2, <3>1, <3>4, <4>1, Zenon
      <3>5. CASE ~(t = s /\ a \in range) /\ ~(u = s /\ b \in range)
        <4>1. page'[t][a] = page[t][a] /\ page'[u][b] = page[u][b]
          BY <1>c, <3>5, Zenon
        <4>2. page \in [Spaces -> [Pages -> PageRecords]]
          BY <1>0, Zenon DEF TypeOK
        <4> QED
          BY <1>0, <2>2, <4>1, <4>2, IsolationByRecord, SMT
      <3> QED
        BY <3>2, <3>3, <3>4, <3>5, ZenonT(60)
    <2> QED
      BY <1>6, <2>1, <2>2, Zenon
  <1>12. WriteIsolation'
    BY <1>11, IsolationNext, Zenon
  <1> QED
    BY <1>7, <1>10, <1>12, Zenon

-----------------------------------------------------------------------------
(* linux_mmap of an object *)
\* A drawn frame was free and used nowhere.
LEMMA DrawnUnused ==
  ASSUME TypeOK, RefcountExact, NEW S, NEW h \in Fresh(S), NEW s \in Spaces,
         NEW range \in SUBSET Pages, NEW f \in Drawn(h)
  PROVE  references[f] = 0 /\ Uses(s, range, f) = 0
PROOF
  <1>1. f \in FreeFrames
    BY Zenon DEF Drawn, Fresh
  <1>2. references[f] = 0 /\ \A a \in Pages : page[s][a].frame # f
    BY <1>1, FreeUnheld, Zenon
  <1>3. {a \in range : page[s][a].frame = f} = {}
    BY <1>2, Zenon
  <1> QED
    BY <1>2, <1>3, FS_EmptySet, Zenon DEF Uses

\* FillHoles in terms of Grown; objects stay objects.
LEMMA FillHolesEffect ==
  ASSUME TypeOK, NEW m \in Memfds, NEW S \in SUBSET FilePages, NEW h \in Fresh(S),
         FillHoles(m, h)
  PROVE  /\ Grown(m, h)
         /\ memfd' \in [Memfds -> Objects]
         /\ \A i \in FilePages : memfd'[m].frames[i] = Backing(m, h, i)
PROOF
  <1>1. DOMAIN h = S /\ \A i \in S : h[i] \in Frames
    BY Zenon DEF Fresh, FreeFrames
  <1>2. \A i \in FilePages : Backing(m, h, i) \in Frames \cup {NoFrame}
    BY <1>1 DEF Backing, TypeOK, Objects
  <1> DEFINE new == [i \in FilePages |-> Backing(m, h, i)]
  <1>3. new \in [FilePages -> Frames \cup {NoFrame}]
    BY <1>2, Zenon
  <1>4. memfd' = [memfd EXCEPT ![m].frames = new]
    BY Zenon DEF FillHoles
  <1>5. \A i \in FilePages : new[i] = Backing(m, h, i)
    BY Zenon
  <1> HIDE DEF new
  <1>6. memfd' \in [Memfds -> Objects]
    BY <1>3, <1>4, SMTT(60) DEF TypeOK, Objects
  <1>7. /\ memfd'[m].frames = new
        /\ \A n \in Memfds \ {m} : memfd'[n] = memfd[n]
    BY <1>4, Zenon DEF TypeOK, Objects
  <1> QED
    BY <1>5, <1>6, <1>7, Zenon DEF Grown, Backing

\* Contents stay contents when drawn frames are zeroed.
LEMMA DataZeroed ==
  ASSUME TypeOK, NEW D
  PROVE  [f \in Frames |-> IF f \in D THEN Zero ELSE data[f]] \in [Frames -> Values]
PROOF
  BY ValuesAssumption, Zenon DEF TypeOK

\* A step that fills holes of an object and rewrites pages of one space
\* preserves the invariant when the counts follow.
LEMMA MapStep ==
  ASSUME IndInv, NEW s \in live, NEW m \in Memfds, NEW files, NEW h,
         FillsFrom(m, files, h), NEW range \in SUBSET Pages, NEW rec,
         SetPages(s, range, rec), Mappable(range, rec, m), live' = live,
         data' \in [Frames -> Values], memfd' \in [Memfds -> Objects],
         references' \in [Frames -> Int],
         \A f \in Frames : references'[f] =
           references[f] - Uses(s, range, f) + Installed(range, rec, f)
             + (IF f \in Drawn(h) THEN 1 ELSE 0)
  PROVE  IndInv'
PROOF
  <1> USE DEF IndInv
  <1>1. s \in Spaces
    BY Zenon DEF TypeOK
  <1>2. /\ page' \in [Spaces -> [Pages -> PageRecords]]
        /\ entry' \in [Spaces -> [Pages -> Entries]]
        /\ \A t \in Spaces, a \in Pages :
             /\ t # s \/ a \notin range => /\ page'[t][a] = page[t][a]
                                           /\ entry'[t][a] = entry[t][a]
             /\ t = s /\ a \in range => /\ page'[t][a] = rec[a]
                                        /\ entry'[t][a] = page_flags(rec[a])
    <2>1. TypeOK /\ \A a \in range : rec[a] \in PageRecords
      BY Zenon DEF Mappable
    <2> QED
      BY <1>1, <2>1, SetPagesEffect, ZenonT(30) DEF SetPages
  <1>3. EntriesMatch'
    BY <1>2, ZenonT(60) DEF EntriesMatch
  <1>4. WriteIsolation' /\ FrameRoles' /\ CleanRecords'
    <2> HIDE DEF IndInv
    <2>1. Installs(s, range, rec, m)
      BY <1>2, Zenon DEF Installs
    <2>2. page' \in [Spaces -> [Pages -> PageRecords]]
      BY <1>2, Zenon
    <2> QED
      BY <1>3, <2>1, <2>2, GrowStep, ZenonT(60)
  <1>5. RefcountExact'
    <2> SUFFICES ASSUME NEW f \in Frames
                 PROVE  references'[f] = Cardinality(PageHolders(f)')
                                           + Cardinality(FileHolders(f)')
      BY Zenon DEF RefcountExact
    <2>1. /\ Cardinality(FileHolders(f)') =
               Cardinality(FileHolders(f)) + (IF f \in Drawn(h) THEN 1 ELSE 0)
          /\ Cardinality(FileHolders(f)) \in Nat
      BY CountGrown, ZenonT(60) DEF FillsFrom
    <2>2. /\ Cardinality(PageHolders(f)') =
               Cardinality(PageHolders(f)) - Uses(s, range, f) + Uses(s, range, f)'
          /\ Cardinality(PageHolders(f)) \in Nat
          /\ Uses(s, range, f) \in Nat /\ Uses(s, range, f)' \in Nat
      <3>1. \A t \in Spaces, a \in Pages :
              t # s \/ a \notin range => page'[t][a].frame = page[t][a].frame
        BY <1>2, Zenon
      <3> QED
        BY ZenonT(60), <1>1, <3>1, PageHoldersChange
    <2>3. Uses(s, range, f)' = Installed(range, rec, f)
      <3>1. {a \in range : page'[s][a].frame = f} = {a \in range : rec[a].frame = f}
        BY <1>1, <1>2, ZenonT(60)
      <3> QED
        BY <3>1, ZenonT(30) DEF Uses, Installed
    <2> QED
      BY <2>1, <2>2, <2>3, SMTT(60) DEF RefcountExact
  <1>6. TypeOK'
    BY <1>2, <1>5, CountsAreNat, ZenonT(60) DEF TypeOK
  <1> QED
    BY <1>3, <1>4, <1>5, <1>6, Zenon

\* linux_mmap of a memory file that runs out of frames part-way.
LEMMA MmapMemfdFailInv ==
  ASSUME IndInv, NEW s \in Spaces, NEW range \in Intervals, NEW protection,
         NEW m \in Memfds, NEW off \in Nat, NEW k,
         MmapMemfdFail(s, range, protection, m, off, k)
  PROVE  IndInv'
PROOF
  <1> DEFINE files == (off + 1)..(off + k)
             rec == [a \in range |-> Unmapped]
  <1>0. TypeOK /\ RefcountExact
    BY SMTT(20) DEF IndInv
  <1>1. PICK h \in Fresh(Holes(m, files)) :
          /\ references' = [f \in Frames |->
               IF f \in Drawn(h) THEN 1 ELSE references[f] - Uses(s, range, f)]
          /\ data' = [f \in Frames |-> IF f \in Drawn(h) THEN Zero ELSE data[f]]
          /\ FillHoles(m, h)
    BY Zenon DEF MmapMemfdFail
  <1>2. SetPages(s, range, rec) /\ live' = live /\ s \in live
    BY Zenon DEF MmapMemfdFail
  <1>3. range \in SUBSET Pages
    BY IntervalPages, Zenon
  <1>4. files \in SUBSET FilePages
    <2>1. /\ k \in 0..Cardinality(range)
          /\ k > 0 => off + Cardinality(range) <= memfd[m].size
          /\ memfd[m].size \in 0..NFilePages
      BY <1>0, Zenon DEF MmapMemfdFail, TypeOK, Objects
    <2>2. Cardinality(range) \in Nat
      BY <1>3, FiniteHolders, FS_Subset, FS_CardinalityType, Zenon
    <2> QED
      BY <2>1, <2>2, PagesAssumption, SMTT(60) DEF FilePages
  <1>5. Unmapped \in PageRecords /\ Unmapped.frame = NoFrame
    BY Zenon DEF Unmapped, PageRecords
  <1>6. \A a \in range : rec[a] = Unmapped /\ rec[a] \in PageRecords
    BY <1>5, SMTT(60)
  <1>7. Holes(m, files) \in SUBSET FilePages
    BY <1>4, SMTT(60) DEF Holes
  <1> HIDE DEF files, rec
  <1>8. Grown(m, h) /\ memfd' \in [Memfds -> Objects]
    BY <1>0, <1>1, <1>7, FillHolesEffect, ZenonT(60)
  <1>9. FillsFrom(m, files, h)
    BY <1>1, <1>4, <1>8, ZenonT(60) DEF FillsFrom
  <1>10. Mappable(range, rec, m)
    BY <1>6, Zenon DEF Mappable
  <1>11. data' \in [Frames -> Values]
    BY <1>0, <1>1, DataZeroed, ZenonT(60)
  <1>12. references' \in [Frames -> Int]
    BY <1>0, <1>1, <1>3, UsesNat, SMTT(60) DEF TypeOK
  <1>13. \A f \in Frames : references'[f] =
           references[f] - Uses(s, range, f) + Installed(range, rec, f)
             + (IF f \in Drawn(h) THEN 1 ELSE 0)
    <2> SUFFICES ASSUME NEW f \in Frames
                 PROVE  references'[f] =
                          references[f] - Uses(s, range, f)
                            + Installed(range, rec, f)
                            + (IF f \in Drawn(h) THEN 1 ELSE 0)
      BY Zenon
    <2>1. Installed(range, rec, f) = 0
      <3>1. {a \in range : rec[a].frame = f} = {}
        BY <1>5, <1>6, FramesAssumption, Zenon
      <3> QED
        BY <3>1, FS_EmptySet, Zenon DEF Installed
    <2>2. f \in Drawn(h) => references[f] = 0 /\ Uses(s, range, f) = 0
      BY <1>0, <1>3, DrawnUnused, Zenon
    <2>3. references[f] \in Nat /\ Uses(s, range, f) \in Nat
      BY <1>0, <1>3, UsesNat, ZenonT(60) DEF TypeOK
    <2>4. references'[f] = IF f \in Drawn(h) THEN 1 ELSE references[f] - Uses(s, range, f)
      BY <1>1, Zenon
    <2>5. CASE f \in Drawn(h)
      BY <2>1, <2>2, <2>4, <2>5, SMT
    <2>6. CASE f \notin Drawn(h)
      BY <2>1, <2>3, <2>4, <2>6, SMT
    <2> QED
      BY <2>5, <2>6, Zenon
  <1> QED
    BY <1>2, <1>3, <1>8, <1>9, <1>10, <1>11, <1>12, <1>13, MapStep, SMTT(60)

\* linux_mmap of a memory file with MAP_SHARED: pages join the file's frames.
LEMMA MmapMemfdSharedInv ==
  ASSUME IndInv, NEW s \in Spaces, NEW range \in Intervals,
         NEW protection \in SUBSET {"R", "W", "X"},
         NEW m \in Memfds, NEW off \in Nat,
         MmapMemfdShared(s, range, protection, m, off)
  PROVE  IndInv'
PROOF
  <1> DEFINE back(a) == BackingPage(range, off, a)
             files == {back(a) : a \in range}
  <1>0. TypeOK /\ RefcountExact
    BY Zenon DEF IndInv
  <1>1. PICK h \in Fresh(Holes(m, files)) :
          /\ references' = [f \in Frames |->
               references[f] - Uses(s, range, f)
                 + Cardinality({a \in range : Backing(m, h, back(a)) = f})
                 + (IF f \in Drawn(h) THEN 1 ELSE 0)]
          /\ data' = [f \in Frames |-> IF f \in Drawn(h) THEN Zero ELSE data[f]]
          /\ FillHoles(m, h)
          /\ SetPages(s, range, [a \in range |->
               [frame |-> Backing(m, h, back(a)), protection |-> protection,
                copy_on_write |-> FALSE, shared |-> TRUE]])
    BY Zenon DEF MmapMemfdShared
  <1> DEFINE rec == [a \in range |->
               [frame |-> Backing(m, h, back(a)), protection |-> protection,
                copy_on_write |-> FALSE, shared |-> TRUE]]
  <1>2. live' = live /\ s \in live
    BY Zenon DEF MmapMemfdShared
  <1>3. range \in SUBSET Pages
    BY IntervalPages, Zenon
  <1>4. \A a \in range : back(a) \in FilePages
    <2>1. /\ off + Cardinality(range) <= memfd[m].size
          /\ memfd[m].size \in 0..NFilePages
      BY <1>0, Zenon DEF MmapMemfdShared, TypeOK, Objects
    <2> QED
      BY <2>1, BackingInFile, Zenon
  <1>5. files \in SUBSET FilePages /\ \A a \in range : back(a) \in files
    BY <1>4, Zenon
  <1>6. SetPages(s, range, rec)
    BY <1>1, Zenon
  <1> HIDE DEF back, files
  <1>7. Holes(m, files) \in SUBSET FilePages
    BY <1>5, Zenon DEF Holes
  <1>8. /\ Grown(m, h) /\ memfd' \in [Memfds -> Objects]
        /\ \A i \in FilePages : memfd'[m].frames[i] = Backing(m, h, i)
    BY <1>0, <1>1, <1>7, FillHolesEffect, Zenon
  <1>9. FillsFrom(m, files, h)
    BY <1>1, <1>5, <1>8, ZenonT(60) DEF FillsFrom
  <1>10. \A a \in range : Backing(m, h, back(a)) \in Frames
    <2>1. DOMAIN h = Holes(m, files) /\ \A i \in Holes(m, files) : h[i] \in Frames
      BY <1>1, Zenon DEF Fresh, FreeFrames
    <2>2. \A i \in FilePages : memfd[m].frames[i] \in Frames \cup {NoFrame}
      BY <1>0, ZenonT(60) DEF TypeOK, Objects
    <2> QED
      BY <1>5, <2>1, <2>2, ZenonT(60) DEF Backing, Holes
  <1>11. \A a \in range : /\ rec[a] \in PageRecords /\ rec[a].shared
                          /\ rec[a].frame = Backing(m, h, back(a))
    BY <1>10, Zenon DEF PageRecords
  <1> HIDE DEF rec
  <1>12. Mappable(range, rec, m)
    <2>1. \A a \in range : rec[a].frame # NoFrame
      BY <1>10, <1>11, FramesAssumption, Zenon
    <2>2. \A a \in range : \E i \in FilePages : memfd'[m].frames[i] = rec[a].frame
      BY <1>4, <1>8, <1>11, ZenonT(60)
    <2> QED
      BY <1>11, <2>1, <2>2, Zenon DEF Mappable
  <1>13. data' \in [Frames -> Values]
    BY ZenonT(60), <1>0, <1>1, DataZeroed
  <1>14. \A f \in Frames : /\ {a \in range : rec[a].frame = f}
                                = {a \in range : Backing(m, h, back(a)) = f}
                           /\ Installed(range, rec, f) \in Nat
    <2>1. \A f : {a \in range : rec[a].frame = f}
                   = {a \in range : Backing(m, h, back(a)) = f}
      BY <1>11, Zenon
    <2>2. \A f : IsFiniteSet({a \in range : rec[a].frame = f})
      BY ZenonT(60), <1>3, FiniteHolders, FS_Subset
    <2> QED
      BY <2>1, <2>2, FS_CardinalityType, Zenon DEF Installed
  <1>15. \A f \in Frames : references'[f] =
           references[f] - Uses(s, range, f) + Installed(range, rec, f)
             + (IF f \in Drawn(h) THEN 1 ELSE 0)
    <2>1. \A f \in Frames :
            Installed(range, rec, f)
              = Cardinality({a \in range : Backing(m, h, back(a)) = f})
      BY <1>14, Zenon DEF Installed
    <2> QED
      BY <1>1, <2>1, Zenon
  <1>16. references' \in [Frames -> Int]
    <2>1. \A f \in Frames : references'[f] \in Int
      <3> SUFFICES ASSUME NEW f \in Frames PROVE references'[f] \in Int
        BY Zenon
      <3>1. references[f] \in Nat /\ Uses(s, range, f) \in Nat
        BY <1>0, <1>3, UsesNat, Zenon DEF TypeOK
      <3>2. PICK c : c = Installed(range, rec, f)
        BY Zenon
      <3>3. c \in Nat
        BY <1>14, <3>2, ZenonT(60)
      <3>4. references'[f] = references[f] - Uses(s, range, f) + c
                               + (IF f \in Drawn(h) THEN 1 ELSE 0)
        BY <1>15, <3>2, Zenon
      <3> QED
        BY <3>1, <3>3, <3>4
    <2>2. \E F : references' = [f \in Frames |-> F[f]]
      <3> WITNESS references'
      <3> QED
        BY <1>1, Zenon
    <2> QED
      BY <2>1, <2>2, Zenon
  <1> QED
    BY <1>2, <1>3, <1>6, <1>8, <1>9, <1>12, <1>13, <1>15, <1>16, MapStep, SMTT(60)

\* linux_mmap of a memory file with MAP_PRIVATE: pages are copies.
LEMMA MmapMemfdPrivateInv ==
  ASSUME IndInv, NEW s \in Spaces, NEW range \in Intervals,
         NEW protection \in SUBSET {"R", "W", "X"},
         NEW m \in Memfds, NEW off \in Nat,
         MmapMemfdPrivate(s, range, protection, m, off)
  PROVE  IndInv'
PROOF
  <1> DEFINE back(a) == BackingPage(range, off, a)
             files == {back(a) : a \in range}
             contents(g, f) ==
               LET i == back(CHOOSE a \in range : g[a] = f)
               IN IF i \in Holes(m, files) THEN Zero ELSE data[memfd[m].frames[i]]
  <1>0. TypeOK /\ RefcountExact
    BY DEF IndInv
  <1>1. PICK h \in Fresh(Holes(m, files)), g \in Fresh(range) :
          /\ Drawn(h) \cap Drawn(g) = {}
          /\ references' = [f \in Frames |->
               IF f \in Drawn(g) \cup Drawn(h) THEN 1
               ELSE references[f] - Uses(s, range, f)]
          /\ data' = [f \in Frames |->
               IF f \in Drawn(h) THEN Zero
               ELSE IF f \in Drawn(g) THEN contents(g, f) ELSE data[f]]
          /\ FillHoles(m, h)
          /\ SetPages(s, range, [a \in range |->
               [frame |-> g[a], protection |-> protection,
                copy_on_write |-> FALSE, shared |-> FALSE]])
    BY Zenon DEF MmapMemfdPrivate
  <1> DEFINE rec == [a \in range |->
               [frame |-> g[a], protection |-> protection,
                copy_on_write |-> FALSE, shared |-> FALSE]]
  <1>1r. references' = [f \in Frames |->
               IF f \in Drawn(g) \cup Drawn(h) THEN 1
               ELSE references[f] - Uses(s, range, f)]
    BY <1>1, Zenon
  <1>2. live' = live /\ s \in live
    BY Zenon DEF MmapMemfdPrivate
  <1>3. range \in SUBSET Pages
    BY IntervalPages, Zenon
  <1>4. \A a \in range : back(a) \in FilePages
    <2>1. /\ off + Cardinality(range) <= memfd[m].size
          /\ memfd[m].size \in 0..NFilePages
      BY <1>0, Zenon DEF MmapMemfdPrivate, TypeOK, Objects
    <2> QED
      BY <2>1, BackingInFile, Zenon
  <1>5. files \in SUBSET FilePages /\ \A a \in range : back(a) \in files
    BY <1>4, Zenon
  <1>6. SetPages(s, range, rec)
    BY <1>1, Zenon
  <1>7. data' \in [Frames -> Values]
    <2>1. \A f \in Drawn(g) : contents(g, f) \in Values
      <3> SUFFICES ASSUME NEW f \in Drawn(g) PROVE contents(g, f) \in Values
        BY Zenon
      <3> DEFINE a == CHOOSE x \in range : g[x] = f
      <3>1. \E x \in range : g[x] = f
        BY <1>1, Zenon DEF Drawn, Fresh
      <3>2. a \in range
        BY <3>1, Zenon
      <3> HIDE DEF a
      <3>3. back(a) \in FilePages /\ back(a) \in files
        BY <1>4, <3>2, SMTT(60)
      <3>4. back(a) \notin Holes(m, files) => memfd[m].frames[back(a)] \in Frames
        BY <1>0, <3>3 DEF Holes, TypeOK, Objects
      <3>5. \A f1 \in Frames : data[f1] \in Values
        BY <1>0, Zenon DEF TypeOK
      <3> HIDE DEF back, files
      <3> QED
        BY <3>4, <3>5, ValuesAssumption, ZenonT(60) DEF contents, a
    <2> HIDE DEF contents, files
    <2> QED
      BY <1>0, <1>1, <2>1, ValuesAssumption, ZenonT(60) DEF TypeOK
  <1> HIDE DEF back, files, contents
  <1>8. Holes(m, files) \in SUBSET FilePages
    BY <1>5, Zenon DEF Holes
  <1>9. /\ Grown(m, h) /\ memfd' \in [Memfds -> Objects]
        /\ \A i \in FilePages : memfd'[m].frames[i] = Backing(m, h, i)
    BY <1>0, <1>1, <1>8, FillHolesEffect, Zenon
  <1>10. FillsFrom(m, files, h)
    BY <1>1, <1>5, <1>9, Zenon DEF FillsFrom
  <1>11. \A a \in range : /\ rec[a] \in PageRecords /\ ~rec[a].shared
                          /\ rec[a].frame = g[a]
    BY FreshFrames, Zenon DEF PageRecords
  <1> HIDE DEF rec
  <1>12. Mappable(range, rec, m)
    <2>1. \A a \in range : rec[a].frame \in FreeFrames /\ rec[a].frame \in Drawn(g)
      BY <1>11, FreshFrames, ZenonT(60)
    <2>2. \A a, b \in range : rec[b].frame = rec[a].frame => b = a
      BY <1>11, FreshFrames
    <2>3. \A a \in range, n \in Memfds, i \in FilePages :
            memfd'[n].frames[i] # rec[a].frame
      <3>1. \A f \in FreeFrames, n \in Memfds, i \in FilePages : memfd[n].frames[i] # f
        BY <1>0, FreeUnheld, ZenonT(60)
      <3>2. \A i \in DOMAIN h : h[i] \in Drawn(h)
        BY DEF Drawn
      <3> QED
        BY <1>1, <1>9, <2>1, <3>1, <3>2, ZenonT(60) DEF Grown
    <2> QED
      BY <1>11, <2>1, <2>2, <2>3, ZenonT(30) DEF Mappable
  <1>13. references' \in [Frames -> Int]
    <2>1. \A f \in Frames : references[f] \in Nat
      BY <1>0 DEF TypeOK
    <2>2. \A f \in Frames : Uses(s, range, f) \in Nat
      BY <1>3, UsesNat, SMTT(60)
    <2>3. \A f \in Frames : references[f] - Uses(s, range, f) \in Int
      BY <2>1, <2>2, SMTT(60)
    <2> QED
      BY <1>1r, <2>3
  <1>14. \A f \in Frames : references'[f] =
           references[f] - Uses(s, range, f) + Installed(range, rec, f)
             + (IF f \in Drawn(h) THEN 1 ELSE 0)
    <2> SUFFICES ASSUME NEW f \in Frames
                 PROVE  references'[f] =
                          references[f] - Uses(s, range, f)
                            + Installed(range, rec, f)
                            + (IF f \in Drawn(h) THEN 1 ELSE 0)
      BY Zenon
    <2>1. Installed(range, rec, f) = IF f \in Drawn(g) THEN 1 ELSE 0
      <3>1. {a \in range : rec[a].frame = f} = {a \in range : g[a] = f}
        BY <1>11, ZenonT(60)
      <3>2. Cardinality({a \in range : g[a] = f}) = IF f \in Drawn(g) THEN 1 ELSE 0
        BY DrawnOnce
      <3> QED
        BY <3>1, <3>2, Zenon DEF Installed
    <2>2. f \in Drawn(h) \cup Drawn(g) => references[f] = 0 /\ Uses(s, range, f) = 0
      BY <1>0, <1>3, DrawnUnused, Zenon
    <2>3. references[f] \in Nat /\ Uses(s, range, f) \in Nat
      BY <1>0, <1>3, UsesNat, Zenon DEF TypeOK
    <2>4. references'[f] = IF f \in Drawn(g) \cup Drawn(h) THEN 1
                           ELSE references[f] - Uses(s, range, f)
      BY <1>1r, Zenon
    <2>5. ~(f \in Drawn(g) /\ f \in Drawn(h))
      BY <1>1, Zenon
    <2>6. CASE f \in Drawn(g)
      BY <2>1, <2>2, <2>4, <2>5, <2>6, SMT
    <2>7. CASE f \notin Drawn(g)
      BY <2>1, <2>2, <2>3, <2>4, <2>7, SMT
    <2> QED
      BY <2>6, <2>7, Zenon
  <1> QED
    <2>1. memfd' \in [Memfds -> Objects]
      BY <1>9, Zenon
    <2> QED
      BY <1>2, <1>3, <1>6, <1>7, <1>10, <1>12, <1>13, <1>14, <2>1, MapStep, SMTT(60)

-----------------------------------------------------------------------------
(* memfd calls that touch no page *)

\* Releasing the frames of the file pages of cut.
LEMMA ShrinkStep ==
  ASSUME IndInv, NEW m \in Memfds, NEW cut \in SUBSET FilePages,
         UNCHANGED <<data, live, page, entry>>, memfd' \in [Memfds -> Objects],
         \A n \in Memfds, i \in FilePages :
           memfd'[n].frames[i] = IF n = m /\ i \in cut THEN NoFrame ELSE memfd[n].frames[i],
         references' = [f \in Frames |-> references[f] - Drops(m, cut, f)]
  PROVE  IndInv'
PROOF
  <1> USE DEF IndInv
  <1>1. \A n \in Memfds, i \in FilePages :
          memfd'[n].frames[i] = NoFrame \/ memfd'[n].frames[i] = memfd[n].frames[i]
    BY Zenon
  <1>2. EntriesMatch' /\ CleanRecords'
    BY ZenonT(60) DEF EntriesMatch, CleanRecords, Mapped
  <1>3. FrameRoles'
    BY <1>1, RolesShrink, Zenon
  <1>4. WriteIsolation'
    <2>1. \A s \in Spaces, a \in Pages :
            entry[s][a].write /\ ~page[s][a].shared => entry[s][a].frame # NoFrame
      <3> SUFFICES ASSUME NEW s \in Spaces, NEW a \in Pages, entry[s][a].write,
                          ~page[s][a].shared
                   PROVE  entry[s][a].frame # NoFrame
        BY ZenonT(60)
      <3>1. entry[s][a].frame = page[s][a].frame /\ Exclusive(page[s][a])
        BY WritableEntry, ZenonT(60) DEF TypeOK
      <3>2. page[s][a] # Unmapped
        BY <3>1, SMTT(60) DEF Exclusive, Unmapped
      <3> QED
        BY <3>1, <3>2, ZenonT(60) DEF CleanRecords, Mapped
    <2> QED
      BY <1>1, <2>1, IsolationShrink, Zenon
  <1>5. RefcountExact'
    <2> SUFFICES ASSUME NEW f \in Frames
                 PROVE  references'[f] = Cardinality(PageHolders(f)')
                                           + Cardinality(FileHolders(f)')
      BY ZenonT(60) DEF RefcountExact
    <2>1. /\ Cardinality(FileHolders(f)') =
               Cardinality(FileHolders(f)) - Drops(m, cut, f) + Drops(m, cut, f)'
          /\ Cardinality(FileHolders(f)) \in Nat
          /\ Drops(m, cut, f) \in Nat
      BY ZenonT(60), FileHoldersChange
    <2>2. Drops(m, cut, f)' = 0
      <3>1. {i \in cut : memfd'[m].frames[i] = f} = {}
        BY FramesAssumption, ZenonT(60)
      <3> QED
        BY <3>1, FS_EmptySet, Zenon DEF Drops
    <2>3. /\ Cardinality(PageHolders(f)') = Cardinality(PageHolders(f))
          /\ Cardinality(PageHolders(f)) \in Nat
      BY SamePageHolders, ZenonT(60)
    <2> QED
      BY <2>1, <2>2, <2>3, SMTT(60) DEF RefcountExact
  <1>6. references' \in [Frames -> Nat]
    <2>1. references' \in [Frames -> Int]
      BY DropsNat DEF TypeOK
    <2> QED
      BY <1>5, <2>1, CountsAreNat, ZenonT(60)
  <1>7. TypeOK'
    BY <1>6, Zenon DEF TypeOK
  <1> QED
    BY <1>2, <1>3, <1>4, <1>5, <1>7, Zenon

\* memfd_create starts with no frames.
LEMMA MemfdCreateInv ==
  ASSUME IndInv, NEW m \in Memfds, MemfdCreate(m)
  PROVE  IndInv'
PROOF
  <1>1. memfd' \in [Memfds -> Objects]
    BY Zenon DEF MemfdCreate, IndInv, TypeOK, Objects
  <1>2. \A n \in Memfds : memfd'[n].frames = memfd[n].frames
    BY DEF MemfdCreate, IndInv, TypeOK, Objects
  <1>3. references' = [f \in Frames |-> references[f] - Drops(m, {}, f)]
    <2>1. \A f : Drops(m, {}, f) = 0
      <3>1. \A f : {i \in {} : memfd[m].frames[i] = f} = {}
        OBVIOUS
      <3> QED
        BY <3>1, FS_EmptySet, SMTT(60) DEF Drops
    <2>2. references \in [Frames -> Nat] /\ references' = references
      BY DEF MemfdCreate, IndInv, TypeOK
    <2> QED
      BY <2>1, <2>2, SMTT(60)
  <1>4. UNCHANGED <<data, live, page, entry>>
    BY DEF MemfdCreate
  <1>5. \A n \in Memfds, i \in FilePages :
          memfd'[n].frames[i] = IF n = m /\ i \in {} THEN NoFrame ELSE memfd[n].frames[i]
    BY ZenonT(60), <1>2
  <1>6. {} \in SUBSET FilePages
    OBVIOUS
  <1> QED
    BY <1>1, <1>3, <1>4, <1>5, <1>6, ShrinkStep, ZenonT(60)

\* ftruncate lets go of the frames past the new size.
LEMMA FtruncateInv ==
  ASSUME IndInv, NEW m \in Memfds, NEW size \in 0..NFilePages, Ftruncate(m, size)
  PROVE  IndInv'
PROOF
  <1>1. PICK cut : cut = (size + 1)..memfd[m].size
    OBVIOUS
  <1>2. memfd[m].size \in 0..NFilePages
    BY DEF IndInv, TypeOK, Objects
  <1>3. cut \in SUBSET FilePages
    BY <1>1, <1>2, PagesAssumption, SMTT(60) DEF FilePages
  <1>4. /\ references' = [f \in Frames |-> references[f] - Drops(m, cut, f)]
        /\ memfd' = [memfd EXCEPT
             ![m].size = size,
             ![m].frames = [i \in FilePages |-> IF i \in cut THEN NoFrame ELSE @[i]]]
        /\ UNCHANGED <<data, live, page, entry>>
    BY <1>1, Zenon DEF Ftruncate
  <1>5. memfd' \in [Memfds -> Objects]
    BY <1>4, ZenonT(60) DEF IndInv, TypeOK, Objects
  <1>6. \A n \in Memfds, i \in FilePages :
          memfd'[n].frames[i] = IF n = m /\ i \in cut THEN NoFrame ELSE memfd[n].frames[i]
    BY <1>4 DEF IndInv, TypeOK, Objects
  <1> QED
    BY <1>3, <1>4, <1>5, <1>6, ShrinkStep, Zenon

\* The last close of a memory file lets go of all its frames.
LEMMA MemfdReleaseInv ==
  ASSUME IndInv, NEW m \in Memfds, MemfdRelease(m)
  PROVE  IndInv'
PROOF
  <1>1. NoObject \in Objects /\ \A i \in FilePages : NoObject.frames[i] = NoFrame
    BY PagesAssumption DEF NoObject, Objects
  <1>2. /\ references' = [f \in Frames |-> references[f] - Drops(m, FilePages, f)]
        /\ memfd' = [memfd EXCEPT ![m] = NoObject]
        /\ UNCHANGED <<data, live, page, entry>>
    BY DEF MemfdRelease
  <1>3. memfd' \in [Memfds -> Objects]
    BY <1>1, <1>2, ZenonT(60) DEF IndInv, TypeOK
  <1>4. \A n \in Memfds, i \in FilePages :
          memfd'[n].frames[i] =
            IF n = m /\ i \in FilePages THEN NoFrame ELSE memfd[n].frames[i]
    BY <1>1, <1>2, ZenonT(60) DEF IndInv, TypeOK
  <1> QED
    BY <1>2, <1>3, <1>4, ShrinkStep, SMTT(60)

\* A write to a memory file fills holes with fresh frames and stores.
LEMMA MemfdWriteInv ==
  ASSUME IndInv, NEW m \in Memfds, NEW lo \in FilePages, NEW hi \in FilePages,
         NEW next \in Nat, NEW v \in Values, MemfdWrite(m, lo, hi, next, v)
  PROVE  IndInv'
PROOF
  <1> USE DEF IndInv
  <1> DEFINE done == lo..(next - 1)
  <1>1. PICK h \in Fresh(Holes(m, done)) :
          /\ references' = [f \in Frames |-> IF f \in Drawn(h) THEN 1 ELSE references[f]]
          /\ data' = [f \in Frames |->
               IF \E i \in done : Backing(m, h, i) = f THEN v ELSE data[f]]
          /\ memfd' = [memfd EXCEPT
               ![m].size = IF hi > @ THEN hi ELSE @,
               ![m].frames = [i \in FilePages |-> Backing(m, h, i)]]
    BY DEF MemfdWrite
  <1>2. UNCHANGED <<live, page, entry>>
    BY DEF MemfdWrite
  <1>3. done \in SUBSET FilePages
    BY PagesAssumption DEF MemfdWrite, FilePages
  <1>4. data' \in [Frames -> Values]
    BY <1>1, Zenon DEF TypeOK
  <1> HIDE DEF done
  <1>5. \A i \in FilePages : Backing(m, h, i) \in Frames \cup {NoFrame}
    <2>1. DOMAIN h = Holes(m, done) /\ \A i \in DOMAIN h : h[i] \in Frames
      BY <1>1, Zenon DEF Fresh, FreeFrames
    <2> QED
      BY <2>1 DEF Backing, TypeOK, Objects
  <1> DEFINE new == [i \in FilePages |-> Backing(m, h, i)]
             size == IF hi > memfd[m].size THEN hi ELSE memfd[m].size
  <1>6. new \in [FilePages -> Frames \cup {NoFrame}] /\ size \in 0..NFilePages
    BY <1>5, PagesAssumption, SMTT(60) DEF TypeOK, Objects, FilePages
  <1>7. \A i \in FilePages : new[i] = Backing(m, h, i)
    BY Zenon
  <1>8. memfd' = [memfd EXCEPT ![m].size = size, ![m].frames = new]
    BY <1>1 DEF TypeOK, Objects
  <1> HIDE DEF new, size
  <1>9. memfd' \in [Memfds -> Objects]
    BY <1>6, <1>8, ZenonT(60) DEF TypeOK, Objects
  <1>10. Grown(m, h)
    <2>1. /\ memfd'[m].frames = new
          /\ \A n \in Memfds \ {m} : memfd'[n] = memfd[n]
      BY <1>8 DEF TypeOK, Objects
    <2> QED
      BY <1>7, <2>1, Zenon DEF Grown, Backing
  <1>11. FillsFrom(m, done, h)
    BY <1>1, <1>3, <1>10, SMTT(60) DEF FillsFrom
  <1>12. EntriesMatch' /\ page' \in [Spaces -> [Pages -> PageRecords]]
    BY <1>2, ZenonT(60) DEF EntriesMatch, TypeOK
  <1>13. WriteIsolation' /\ FrameRoles' /\ CleanRecords'
    <2>1. Installs(m, {}, <<>>, m)
      BY <1>2, Zenon DEF Installs, Mappable
    <2> QED
      BY <1>2, <1>11, <1>12, <2>1, GrowStep, ZenonT(60)
  <1>14. RefcountExact'
    <2> SUFFICES ASSUME NEW f \in Frames
                 PROVE  references'[f] = Cardinality(PageHolders(f)')
                                           + Cardinality(FileHolders(f)')
      BY Zenon DEF RefcountExact
    <2>1. /\ Cardinality(FileHolders(f)') =
               Cardinality(FileHolders(f)) + (IF f \in Drawn(h) THEN 1 ELSE 0)
          /\ Cardinality(FileHolders(f)) \in Nat
      BY <1>11, CountGrown, Zenon DEF FillsFrom
    <2>2. /\ Cardinality(PageHolders(f)') = Cardinality(PageHolders(f))
          /\ Cardinality(PageHolders(f)) \in Nat
      BY <1>2, SamePageHolders, Zenon
    <2>3. f \in Drawn(h) => references[f] = 0
      <3>1. Drawn(h) \subseteq FreeFrames
        BY <1>1, DrawnOnce, Zenon
      <3> QED
        BY <3>1, Zenon DEF FreeFrames
    <2> QED
      BY <1>1, <2>1, <2>2, <2>3, SMTT(60) DEF RefcountExact
  <1>15. TypeOK'
    BY <1>1, <1>2, <1>4, <1>9, SMTT(60) DEF TypeOK
  <1> QED
    BY <1>12, <1>13, <1>14, <1>15, ZenonT(60)

-----------------------------------------------------------------------------
(* The invariant *)

\* Nothing is mapped and every frame is free.
LEMMA InitInv ==
  Init => IndInv
PROOF
  <1> SUFFICES ASSUME Init PROVE IndInv
    BY Zenon
  <1>1. Unmapped \in PageRecords /\ Unmapped.frame = NoFrame /\ Unmapped.protection = {}
    BY Zenon DEF Unmapped, PageRecords
  <1>2. NoEntry \in Entries /\ NoEntry.write = FALSE
    BY Zenon DEF NoEntry, Entries
  <1>3. NoEntry = page_flags(Unmapped)
    <2> DEFINE w == "W" \in Unmapped.protection /\ ~Unmapped.copy_on_write
               x == "X" \in Unmapped.protection
    <2>1. w = FALSE /\ x = FALSE
      BY <1>1
    <2>2. page_flags(Unmapped) = [frame |-> Unmapped.frame, write |-> w, exec |-> x]
      BY Zenon DEF page_flags
    <2> HIDE DEF w, x
    <2> QED
      BY <1>1, <2>1, <2>2, Zenon DEF NoEntry
  <1>4. NoObject \in Objects /\ \A i \in FilePages : NoObject.frames[i] = NoFrame
    BY PagesAssumption DEF NoObject, Objects
  <1>5. /\ \A s \in Spaces, a \in Pages : page[s][a] = Unmapped /\ entry[s][a] = NoEntry
        /\ \A m \in Memfds : memfd[m] = NoObject
        /\ \A f \in Frames : references[f] = 0
    BY Zenon DEF Init
  <1>6. TypeOK
    BY <1>1, <1>2, <1>4, ValuesAssumption, Zenon DEF Init, TypeOK
  <1>7. EntriesMatch /\ CleanRecords
    BY <1>3, <1>5, Zenon DEF EntriesMatch, CleanRecords
  <1>8. WriteIsolation /\ FrameRoles
    BY <1>1, <1>2, <1>4, <1>5, ZenonT(60) DEF WriteIsolation, FrameRoles, Mapped
  <1>9. RefcountExact
    <2>1. \A f \in Frames : PageHolders(f) = {} /\ FileHolders(f) = {}
      BY <1>1, <1>4, <1>5, FramesAssumption, ZenonT(60) DEF PageHolders, FileHolders
    <2> QED
      BY <1>5, <2>1, FS_EmptySet, SMTT(60) DEF RefcountExact
  <1> QED
    BY <1>6, <1>7, <1>8, <1>9, SMTT(60) DEF IndInv

\* Anonymous linux_mmap: old pages go, fresh frames come.
LEMMA MmapAnonymousInv ==
  ASSUME IndInv, NEW s \in Spaces, NEW range \in SUBSET Pages,
         NEW protection \in SUBSET {"R", "W", "X"}, NEW shared \in BOOLEAN,
         MmapAnonymous(s, range, protection, shared)
  PROVE  IndInv'
PROOF
  <1>1. s \in live /\ UNCHANGED <<live, memfd>>
    BY Zenon DEF MmapAnonymous
  <1>2. [a \in range |-> Zero] \in [range -> Values]
    BY ValuesAssumption, Zenon
  <1>3. CASE \E g \in Fresh(range) :
               MapFresh(s, range, g, [a \in range |-> Zero], protection, shared)
    BY <1>1, <1>2, <1>3, MapFreshInv, SMTT(60)
  <1>4. CASE UnmapRange(s, range) /\ UNCHANGED data
    BY <1>1, <1>4, UnmapRangeInv, Zenon
  <1> QED
    BY <1>3, <1>4, Zenon DEF MmapAnonymous

\* linux_mmap of a NovaFS file: as anonymous, with contents.
LEMMA MmapFileInv ==
  ASSUME IndInv, NEW s \in Spaces, NEW range \in SUBSET Pages,
         NEW protection \in SUBSET {"R", "W", "X"}, NEW contents \in [range -> Values],
         MmapFile(s, range, protection, contents)
  PROVE  IndInv'
PROOF
  BY MapFreshInv, ZenonT(60) DEF MmapFile

\* A step of one space.
LEMMA SpaceStepInv ==
  ASSUME IndInv, NEW s \in Spaces, SpaceNext(s)
  PROVE  IndInv'
PROOF
  <1>1. \A range \in Intervals : range \in SUBSET Pages
    BY IntervalPages, Zenon
  <1>2. \A protection \in Protections \cup ImageProtections :
          protection \in SUBSET {"R", "W", "X"}
    BY ProtectionsAssumption, Zenon
  <1>3. {"R", "W"} \in SUBSET {"R", "W", "X"}
    BY Zenon
  <1>4. ASSUME NEW range \in Intervals, NEW protection \in Protections,
               MmapNext(s, range, protection)
        PROVE  IndInv'
    <2>1. range \in SUBSET Pages /\ protection \in SUBSET {"R", "W", "X"}
      BY <1>1, <1>2, Zenon
    <2>2. ASSUME NEW shared \in BOOLEAN, MmapAnonymous(s, range, protection, shared)
          PROVE  IndInv'
      BY <2>1, <2>2, MmapAnonymousInv, Zenon
    <2>3. ASSUME NEW contents \in [range -> Values],
                 MmapFile(s, range, protection, contents)
          PROVE  IndInv'
      BY <2>1, <2>3, MmapFileInv, Zenon
    <2>4. ASSUME NEW m \in Memfds, NEW off \in 0..NFilePages,
                 \/ MmapMemfdShared(s, range, protection, m, off)
                 \/ MmapMemfdPrivate(s, range, protection, m, off)
                 \/ \E k \in 0..NFilePages : MmapMemfdFail(s, range, protection, m, off, k)
          PROVE  IndInv'
      <3>1. off \in Nat
        BY PagesAssumption
      <3>2. CASE MmapMemfdShared(s, range, protection, m, off)
        BY <2>1, <3>1, <3>2, MmapMemfdSharedInv, Zenon
      <3>3. CASE MmapMemfdPrivate(s, range, protection, m, off)
        BY <2>1, <3>1, <3>3, MmapMemfdPrivateInv, Zenon
      <3>4. CASE \E k \in 0..NFilePages : MmapMemfdFail(s, range, protection, m, off, k)
        BY <2>1, <3>1, <3>4, MmapMemfdFailInv, Zenon
      <3> QED
        BY <2>4, <3>2, <3>3, <3>4, ZenonT(60)
    <2>5. CASE Mprotect(s, range, protection)
      BY <2>1, <2>5, MprotectInv, Zenon
    <2> QED
      BY <1>4, <2>2, <2>3, <2>4, <2>5, ZenonT(60) DEF MmapNext
  <1>5. ASSUME NEW range \in Intervals, NEW protection \in ImageProtections,
               NEW v \in Values, LoadImage(s, range, protection, v)
        PROVE  IndInv'
    BY <1>1, <1>2, <1>5, LoadImageInv, Zenon
  <1>6. ASSUME NEW range \in Intervals, Munmap(s, range)
        PROVE  IndInv'
    BY <1>1, <1>6, UnmapRangeInv, Zenon DEF Munmap
  <1>7. ASSUME NEW range \in Intervals, BrkGrow(s, range)
        PROVE  IndInv'
    BY <1>1, <1>3, <1>7, MapMissingInv, SMTT(60) DEF BrkGrow
  <1>8. ASSUME NEW range \in Intervals, NEW v \in Values, CopyToUser(s, range, v)
        PROVE  IndInv'
    BY <1>1, <1>8, CopyToUserInv, Zenon
  <1>9. ASSUME NEW a \in Pages, DemandFault(s, a)
        PROVE  IndInv'
    <2>1. {a} \in SUBSET Pages
      BY Zenon
    <2> QED
      BY <1>3, <1>9, <2>1, MapMissingInv, Zenon DEF DemandFault
  <1>10. ASSUME NEW a \in Pages, NEW v \in Values, UserWrite(s, a, v)
         PROVE  IndInv'
    BY <1>10, UserWriteInv, Zenon
  <1>11. ASSUME NEW a \in Pages, CowFault(s, a)
         PROVE  IndInv'
    BY <1>11, CowFaultInv, Zenon
  <1>12. ASSUME NEW d \in Spaces, Clone(s, d)
         PROVE  IndInv'
    BY <1>12, CloneInv, Zenon
  <1>13. ASSUME NEW done \in SUBSET Pages, CloneFail(s, done)
         PROVE  IndInv'
    BY <1>13, CloneFailInv, Zenon
  <1>14. CASE Release(s)
    <2>1. Pages \in SUBSET Pages
      BY Zenon
    <2> QED
      BY <1>14, <2>1, UnmapRangeInv, Zenon DEF Release
  <1> QED
    BY <1>4, <1>5, <1>6, <1>7, <1>8, <1>9, <1>10, <1>11, <1>12, <1>13, <1>14, ZenonT(60)
    DEF SpaceNext

\* A step of one object.
LEMMA MemfdStepInv ==
  ASSUME IndInv, NEW m \in Memfds, MemfdNext(m)
  PROVE  IndInv'
PROOF
  <1>1. ASSUME NEW lo \in FilePages, NEW hi \in FilePages,
               NEW next \in 1..(NFilePages + 1), NEW v \in Values,
               MemfdWrite(m, lo, hi, next, v)
        PROVE  IndInv'
    <2>1. next \in Nat
      BY PagesAssumption
    <2> QED
      BY <1>1, <2>1, MemfdWriteInv, Zenon
  <1> QED
    BY <1>1, MemfdCreateInv, FtruncateInv, MemfdReleaseInv, Zenon DEF MemfdNext

\* IndInv is inductive: it holds of the empty machine, and every handler,
\* fault, store and failing path of the memory system preserves it.
THEOREM Inductive == Spec => []IndInv
PROOF
  <1>1. Init => IndInv
    BY InitInv, Zenon
  <1>2. IndInv /\ [Next]_vars => IndInv'
    <2> SUFFICES ASSUME IndInv, [Next]_vars PROVE IndInv'
      BY Zenon
    <2>1. CASE \E s \in Spaces : SpaceNext(s)
      BY <2>1, SpaceStepInv, Zenon
    <2>2. CASE \E m \in Memfds : MemfdNext(m)
      BY <2>2, MemfdStepInv, Zenon
    <2>3. CASE UNCHANGED vars
      <3>1. UNCHANGED <<references, data, live, page, entry, memfd>>
        BY <2>3, Zenon DEF vars
      <3>2. TypeOK'
        BY <3>1, ZenonT(60) DEF IndInv, TypeOK
      <3>3. RefcountExact'
        BY <3>1, Zenon DEF IndInv, RefcountExact, PageHolders, FileHolders
      <3>4. EntriesMatch'
        BY <3>1, ZenonT(60) DEF IndInv, EntriesMatch
      <3>5. WriteIsolation'
        BY <3>1, IsolationSame, Zenon DEF IndInv
      <3>6. FrameRoles'
        BY <3>1, RolesShrink, Zenon DEF IndInv
      <3>7. CleanRecords'
        BY <3>1, Zenon DEF IndInv, CleanRecords, Mapped
      <3> QED
        BY <3>2, <3>3, <3>4, <3>5, <3>6, <3>7, SMTT(60) DEF IndInv
    <2> QED
      BY <2>1, <2>2, <2>3, Zenon DEF Next
  <1> QED
    BY <1>1, <1>2, PTL DEF Spec

\* Every variable keeps its type.
THEOREM TypeCorrect == Spec => []TypeOK
PROOF
  <1>1. IndInv => TypeOK
    BY Zenon DEF IndInv
  <1> QED
    BY <1>1, Inductive, PTL

\* The count of every frame is the number of its holders, for any number of
\* spaces, pages, frames and memfd objects.
THEOREM ReferencesExact == Spec => []RefcountExact
PROOF
  <1>1. IndInv => RefcountExact
    BY Zenon DEF IndInv
  <1> QED
    BY <1>1, Inductive, PTL

\* A private page the hardware lets a process write is held by nobody else.
THEOREM Isolation == Spec => []WriteIsolation
PROOF
  <1>1. IndInv => WriteIsolation
    BY Zenon DEF IndInv
  <1> QED
    BY <1>1, Inductive, PTL

-----------------------------------------------------------------------------
(* Writable or executable *)
LEMMA ProperStep ==
  ASSUME TypeOK, ProperRecords, NEW s \in Spaces, NEW range \in SUBSET Pages, NEW rec,
         SetPages(s, range, rec), \A a \in range : Proper(rec[a])
  PROVE  ProperRecords'
PROOF
  <1>1. \A t \in Spaces, a \in Pages : page'[t][a] \in {page[t][a], rec[a]}
          /\ (page'[t][a] # page[t][a] => a \in range)
    BY Zenon DEF SetPages, TypeOK
  <1> QED
    BY <1>1, Zenon DEF ProperRecords

\* The records a handler installs.
LEMMA ProperNew ==
  ASSUME NEW p, ~p.copy_on_write, ~WriteExec(p.protection)
  PROVE  Proper(p)
PROOF
  BY Zenon DEF Proper

\* The absent record is proper, and so is the stack's protection.
LEMMA ProperUnmapped == Proper(Unmapped) /\ ~WriteExec({"R", "W"})
PROOF
  <1>1. Unmapped.copy_on_write = FALSE /\ Unmapped.protection = {}
    BY DEF Unmapped
  <1>2. ~WriteExec({}) /\ ~WriteExec({"R", "W"})
    BY Zenon DEF WriteExec
  <1> QED
    BY <1>1, <1>2, Zenon DEF Proper

\* No change the kernel makes marks a shared record copy-on-write.
LEMMA RecordMarks ==
  ASSUME NEW p \in PageRecords, NEW protection
  PROVE  /\ Reprotected(p, protection).shared => ~Reprotected(p, protection).copy_on_write
         /\ \A f : ~Privatized(p, f).copy_on_write
         /\ CowCopy(p).shared => ~CowCopy(p).copy_on_write
         /\ Proper(p) /\ CowSource(p).shared => ~CowSource(p).copy_on_write
PROOF
  <1> DEFINE cow == ~p.shared /\ "W" \in protection /\ references[p.frame] > 1
  <1>1. /\ Reprotected(p, protection).shared = p.shared
        /\ Reprotected(p, protection).copy_on_write = cow
    BY Zenon DEF PageRecords, Reprotected
  <1>2. \A f : Privatized(p, f).copy_on_write = FALSE
    BY Zenon DEF PageRecords, Privatized
  <1>3. CowCopy(p).shared = p.shared /\ CowCopy(p).copy_on_write = ShareCow(p)
    BY Zenon DEF PageRecords, CowCopy
  <1>4. CowSource(p) = p \/ (ShareCow(p) /\ CowSource(p).shared = p.shared)
    BY Zenon DEF PageRecords, CowSource
  <1> QED
    BY <1>1, <1>2, <1>3, <1>4, Zenon DEF ShareCow, Proper

\* Each of those changes keeps a proper record proper.
LEMMA ProperCopies ==
  ASSUME TypeOK, ProperRecords, NEW s \in Spaces, NEW a \in Pages
  PROVE  /\ \A protection :
              ~WriteExec(protection) => Proper(Reprotected(page[s][a], protection))
         /\ \A f : Proper(Privatized(page[s][a], f))
         /\ Proper(CowCopy(page[s][a]))
         /\ Proper(CowSource(page[s][a]))
PROOF
  <1>1. page[s][a] \in PageRecords /\ Proper(page[s][a])
    BY Zenon DEF TypeOK, ProperRecords
  <1>2. ASSUME NEW protection, ~WriteExec(protection)
        PROVE  Proper(Reprotected(page[s][a], protection))
    <2>1. Reprotected(page[s][a], protection).protection = protection
      BY <1>1, RecordProtections, Zenon
    <2>2. Reprotected(page[s][a], protection).shared =>
            ~Reprotected(page[s][a], protection).copy_on_write
      BY <1>1, RecordMarks, Zenon
    <2> QED
      BY <1>2, <2>1, <2>2, Zenon DEF Proper
  <1>3. \A f : Proper(Privatized(page[s][a], f))
    BY <1>1, RecordProtections, RecordMarks, Zenon DEF Proper
  <1>4. Proper(CowCopy(page[s][a]))
    BY <1>1, RecordProtections, RecordMarks, Zenon DEF Proper
  <1>5. Proper(CowSource(page[s][a]))
    BY <1>1, RecordProtections, RecordMarks, Zenon DEF Proper
  <1> QED
    BY <1>2, <1>3, <1>4, <1>5, Zenon

\* Unmapping leaves proper records.
LEMMA ProperUnmap ==
  ASSUME TypeOK, ProperRecords, NEW s \in Spaces, NEW range \in SUBSET Pages,
         SetPages(s, range, [a \in range |-> Unmapped])
  PROVE  ProperRecords'
PROOF
  <1>1. \A a \in range : Proper([b \in range |-> Unmapped][a])
    BY ProperUnmapped, Zenon
  <1> QED
    BY <1>1, ProperStep, Zenon

\* Every form of linux_mmap checked the protection it maps with.
LEMMA ProperMmap ==
  ASSUME TypeOK, ProperRecords, NEW s \in Spaces, NEW range \in SUBSET Pages,
         NEW protection, MmapNext(s, range, protection)
  PROVE  ProperRecords'
PROOF
  <1>1. ~WriteExec(protection)
    BY ZenonT(60) DEF MmapNext, MmapAnonymous, MmapFile, MmapMemfdShared, MmapMemfdPrivate,
           MmapMemfdFail, Mprotect
  <1>2. \/ SetPages(s, range, [a \in range |-> Unmapped])
        \/ \E rec : SetPages(s, range, rec)
                    /\ \A a \in range : Proper(rec[a])
    <2>1. ASSUME NEW frame, NEW shared,
                 SetPages(s, range, [a \in range |->
                   [frame |-> frame[a], protection |-> protection,
                    copy_on_write |-> FALSE, shared |-> shared]])
          PROVE  \E rec : SetPages(s, range, rec)
                          /\ \A a \in range : Proper(rec[a])
      <3> DEFINE rec == [a \in range |->
                   [frame |-> frame[a], protection |-> protection,
                    copy_on_write |-> FALSE, shared |-> shared]]
      <3>1. \A a \in range : Proper(rec[a])
        BY <1>1, ProperNew, Zenon
      <3>2. SetPages(s, range, rec)
        BY <2>1, Zenon
      <3> HIDE DEF rec
      <3> QED
        BY <3>1, <3>2, Zenon
    <2>2. CASE \E shared \in BOOLEAN : MmapAnonymous(s, range, protection, shared)
      <3>1. PICK shared \in BOOLEAN : MmapAnonymous(s, range, protection, shared)
        BY <2>2, Zenon
      <3>2. CASE UnmapRange(s, range)
        BY <3>2, Zenon DEF UnmapRange
      <3>3. ASSUME NEW g, MapFresh(s, range, g, [a \in range |-> Zero], protection, shared)
            PROVE  \E rec : SetPages(s, range, rec)
                            /\ \A a \in range : Proper(rec[a])
        BY <2>1, <3>3, Zenon DEF MapFresh
      <3> QED
        BY <3>1, <3>2, <3>3, Zenon DEF MmapAnonymous
    <2>3. CASE \E contents \in [range -> Values] : MmapFile(s, range, protection, contents)
      <3>1. PICK g :
              SetPages(s, range, [a \in range |->
                [frame |-> g[a], protection |-> protection,
                 copy_on_write |-> FALSE, shared |-> FALSE]])
        BY <2>3, Zenon DEF MmapFile, MapFresh
      <3> QED
        BY <2>1, <3>1, Zenon
    <2>4. CASE \E m \in Memfds, off \in 0..NFilePages :
                 MmapMemfdPrivate(s, range, protection, m, off)
      <3>1. PICK g :
              SetPages(s, range, [a \in range |->
                [frame |-> g[a], protection |-> protection,
                 copy_on_write |-> FALSE, shared |-> FALSE]])
        BY <2>4, Zenon DEF MmapMemfdPrivate
      <3> QED
        BY <2>1, <3>1, Zenon
    <2>5. CASE \E m \in Memfds, off \in 0..NFilePages :
                 MmapMemfdShared(s, range, protection, m, off)
      <3>1. PICK m \in Memfds, off \in 0..NFilePages :
              MmapMemfdShared(s, range, protection, m, off)
        BY <2>5, Zenon
      <3>2. PICK h :
              SetPages(s, range, [a \in range |->
                [frame |-> Backing(m, h, BackingPage(range, off, a)),
                 protection |-> protection, copy_on_write |-> FALSE, shared |-> TRUE]])
        BY <3>1, Zenon DEF MmapMemfdShared
      <3> DEFINE rec == [a \in range |->
                [frame |-> Backing(m, h, BackingPage(range, off, a)),
                 protection |-> protection, copy_on_write |-> FALSE, shared |-> TRUE]]
      <3>3. \A a \in range : Proper(rec[a])
        BY <1>1, ProperNew, Zenon
      <3>4. SetPages(s, range, rec)
        BY <3>2, Zenon
      <3> HIDE DEF rec
      <3> QED
        BY <3>3, <3>4, Zenon
    <2>6. CASE \E m \in Memfds, off \in 0..NFilePages, k \in 0..NFilePages :
                 MmapMemfdFail(s, range, protection, m, off, k)
      BY <2>6, Zenon DEF MmapMemfdFail
    <2>7. CASE Mprotect(s, range, protection)
      <3> DEFINE rec == [a \in range |-> Reprotected(page[s][a], protection)]
      <3>1. SetPages(s, range, rec)
        BY <2>7, Zenon DEF Mprotect
      <3>2. \A a \in range : Proper(rec[a])
        BY <1>1, ProperCopies, Zenon
      <3> HIDE DEF rec
      <3> QED
        BY <3>1, <3>2, Zenon
    <2> QED
      BY <2>2, <2>3, <2>4, <2>5, <2>6, <2>7, Zenon DEF MmapNext
  <1> QED
    BY <1>1, <1>2, ProperUnmap, ProperStep, Zenon

\* Stack and heap pages are never executable.
LEMMA ProperMapMissing ==
  ASSUME TypeOK, ProperRecords, NEW s \in Spaces, NEW range \in SUBSET Pages,
         MapMissing(s, range, {"R", "W"})
  PROVE  ProperRecords'
PROOF
  <1>1. PICK g : SetPages(s, range, [a \in range |->
          IF Mapped(s, a) THEN Reprotected(page[s][a], {"R", "W"})
          ELSE [frame |-> g[a], protection |-> {"R", "W"},
                copy_on_write |-> FALSE, shared |-> FALSE]])
    BY Zenon DEF MapMissing
  <1> DEFINE rec == [a \in range |->
          IF Mapped(s, a) THEN Reprotected(page[s][a], {"R", "W"})
          ELSE [frame |-> g[a], protection |-> {"R", "W"},
                copy_on_write |-> FALSE, shared |-> FALSE]]
  <1>2. \A a \in range : Proper(rec[a])
    <2> SUFFICES ASSUME NEW a \in range PROVE Proper(rec[a])
      BY Zenon
    <2>1. CASE Mapped(s, a)
      BY <2>1, ProperUnmapped, ProperCopies, Zenon
    <2>2. CASE ~Mapped(s, a)
      BY <2>2, ProperUnmapped, ProperNew, Zenon
    <2> QED
      BY <2>1, <2>2, Zenon
  <1>4. SetPages(s, range, rec)
    BY <1>1, Zenon
  <1> HIDE DEF rec
  <1> QED
    BY <1>2, <1>4, ProperStep, Zenon

\* A private copy keeps the protection of the page.
LEMMA ProperMakePrivate ==
  ASSUME TypeOK, ProperRecords, NEW s \in Spaces, NEW set \in SUBSET Pages, NEW g,
         MakePrivate(s, set, g)
  PROVE  ProperRecords'
PROOF
  <1> DEFINE rec == [a \in set |->
       Privatized(page[s][a], IF a \in DOMAIN g THEN g[a] ELSE page[s][a].frame)]
  <1>1. SetPages(s, set, rec)
    BY Zenon DEF MakePrivate
  <1>2. \A a \in set : Proper(rec[a])
    BY ProperCopies, Zenon
  <1> HIDE DEF rec
  <1> QED
    BY <1>1, <1>2, ProperStep, Zenon

\* The pages of a segment have its protection.
LEMMA ProperLoadImage ==
  ASSUME TypeOK, ProperRecords, NEW s \in Spaces, NEW range \in SUBSET Pages,
         NEW protection \in ImageProtections, NEW v,
         LoadImage(s, range, protection, v)
  PROVE  ProperRecords'
PROOF
  <1> DEFINE pages == range \cup {NPages}
             rec(g) == [a \in pages |->
               [frame |-> g[a],
                protection |-> IF a \in range THEN protection ELSE {"R", "W"},
                copy_on_write |-> FALSE, shared |-> FALSE]]
  <1>1. PICK g : SetPages(s, pages, rec(g))
    BY Zenon DEF LoadImage
  <1>2. pages \in SUBSET Pages
    BY PagesAssumption DEF Pages
  <1>4. \A a \in pages : /\ rec(g)[a].protection \in {protection, {"R", "W"}}
                          /\ rec(g)[a].copy_on_write = FALSE
    BY Zenon
  <1>5. \A a \in pages : Proper(rec(g)[a])
    BY <1>4, ProperUnmapped, Zenon DEF Proper
  <1> HIDE DEF rec, pages
  <1> QED
    BY <1>1, <1>2, <1>5, ProperStep, Zenon

\* Parent and child keep the protections of a page that is cloned.
LEMMA ProperClone ==
  ASSUME TypeOK, ProperRecords, NEW s \in Spaces, NEW d \in Spaces, Clone(s, d)
  PROVE  ProperRecords'
PROOF
  <1>1. ASSUME NEW t \in Spaces, NEW a \in Pages
        PROVE  page'[t][a] \in {page[t][a], CowCopy(page[s][a]), CowSource(page[s][a])}
    BY Zenon DEF Clone, MarkCow, TypeOK
  <1> QED
    BY <1>1, ProperCopies, ZenonT(60) DEF ProperRecords

\* So does the parent when the clone fails.
LEMMA ProperCloneFail ==
  ASSUME TypeOK, ProperRecords, NEW s \in Spaces, NEW done, CloneFail(s, done)
  PROVE  ProperRecords'
PROOF
  <1>1. ASSUME NEW t \in Spaces, NEW a \in Pages
        PROVE  page'[t][a] \in {page[t][a], CowSource(page[s][a])}
    BY Zenon DEF CloneFail, MarkCow, TypeOK
  <1> QED
    BY <1>1, ProperCopies, Zenon DEF ProperRecords

\* Every record is proper in every reachable state.
THEOREM RecordsAreProper == Spec => []ProperRecords
PROOF
  <1>1. Init => ProperRecords
    <2> SUFFICES ASSUME Init, NEW s \in Spaces, NEW a \in Pages PROVE Proper(page[s][a])
      BY Zenon DEF ProperRecords
    <2>1. page[s][a] = Unmapped
      BY Zenon DEF Init
    <2> QED
      BY <2>1, ProperUnmapped, Zenon
  <1>2. ASSUME TypeOK, ProperRecords, [Next]_vars
        PROVE  ProperRecords'
    <2>1. \A range \in Intervals : range \in SUBSET Pages
      BY IntervalPages, Zenon
    <2>2. ASSUME NEW s \in Spaces, SpaceNext(s)
          PROVE  ProperRecords'
      <3>1. ASSUME NEW range \in Intervals, NEW protection \in Protections,
                   MmapNext(s, range, protection)
            PROVE  ProperRecords'
        BY <1>2, <2>1, <3>1, ProperMmap, ZenonT(60)
      <3>2. ASSUME NEW range \in Intervals, NEW protection \in ImageProtections,
                   NEW v \in Values, LoadImage(s, range, protection, v)
            PROVE  ProperRecords'
        BY <1>2, <2>1, <3>2, ProperLoadImage, ZenonT(60)
      <3>3. ASSUME NEW range \in Intervals, Munmap(s, range)
            PROVE  ProperRecords'
        BY <1>2, <2>1, <3>3, ProperUnmap, ZenonT(60) DEF Munmap, UnmapRange
      <3>4. ASSUME NEW range \in Intervals, BrkGrow(s, range)
            PROVE  ProperRecords'
        BY <1>2, <2>1, <3>4, ProperMapMissing, ZenonT(60) DEF BrkGrow
      <3>5. ASSUME NEW range \in Intervals, NEW v \in Values, CopyToUser(s, range, v)
            PROVE  ProperRecords'
        <4>1. PICK done, g : done \in SUBSET range /\ MakePrivate(s, done, g)
          BY <3>5, Zenon DEF CopyToUser
        <4>2. done \in SUBSET Pages
          BY <2>1, <4>1, Zenon
        <4> QED
          BY <1>2, <4>1, <4>2, ProperMakePrivate, ZenonT(60)
      <3>6. ASSUME NEW a \in Pages, CowFault(s, a)
            PROVE  ProperRecords'
        <4>1. PICK g : MakePrivate(s, {a}, g)
          BY <3>6, Zenon DEF CowFault
        <4>2. {a} \in SUBSET Pages
          BY Zenon
        <4> QED
          BY <1>2, <4>1, <4>2, ProperMakePrivate, Zenon
      <3>7. ASSUME NEW a \in Pages, DemandFault(s, a)
            PROVE  ProperRecords'
        <4>1. {a} \in SUBSET Pages
          OBVIOUS
        <4> QED
          BY <1>2, <3>7, <4>1, ProperMapMissing, ZenonT(60) DEF DemandFault
      <3>8. ASSUME NEW a \in Pages, NEW v \in Values, UserWrite(s, a, v)
            PROVE  ProperRecords'
        BY <1>2, <3>8, Zenon DEF UserWrite, ProperRecords
      <3>9. ASSUME NEW d \in Spaces, Clone(s, d)
            PROVE  ProperRecords'
        BY <1>2, <3>9, ProperClone, Zenon
      <3>10. ASSUME NEW done \in SUBSET Pages, CloneFail(s, done)
             PROVE  ProperRecords'
        BY <1>2, <3>10, ProperCloneFail, Zenon
      <3>11. CASE Release(s)
        <4>1. Pages \in SUBSET Pages
          BY Zenon
        <4> QED
          BY <1>2, <3>11, <4>1, ProperUnmap, ZenonT(60) DEF Release, UnmapRange
      <3> QED
        BY <2>2, <3>1, <3>2, <3>3, <3>4, <3>5, <3>6, <3>7, <3>8, <3>9, <3>10, <3>11, ZenonT(60)
        DEF SpaceNext
    <2>3. ASSUME NEW m \in Memfds, MemfdNext(m)
          PROVE  ProperRecords'
      <3>1. page' = page
        BY <2>3, Zenon DEF MemfdNext, MemfdCreate, Ftruncate, MemfdWrite, MemfdRelease
      <3> QED
        BY <1>2, <3>1, Zenon DEF ProperRecords
    <2>4. CASE UNCHANGED vars
      BY <1>2, <2>4, Zenon DEF vars, ProperRecords
    <2> QED
      BY <1>2, <2>2, <2>3, <2>4, Zenon DEF Next
  <1> QED
    BY <1>1, <1>2, TypeCorrect, PTL DEF Spec

\* No page is ever writable and executable, whatever is mapped, forked,
\* reprotected and loaded, when no segment of a program is both (the ELF
\* loader maps segments with the protection they ask for).
THEOREM WriteOrExecute ==
  ASSUME \A protection \in ImageProtections : ~WriteExec(protection)
  PROVE  Spec => []WriteXorExec
PROOF
  <1>1. ProperRecords => WriteXorExec
    BY Zenon DEF ProperRecords, Proper, WriteXorExec
  <1> QED
    BY <1>1, RecordsAreProper, PTL
=============================================================================
