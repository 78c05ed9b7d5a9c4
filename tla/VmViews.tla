------------------------------- MODULE VmViews ------------------------------
(* What programs see of each step of Vm, through the refinement mapping of *)
(* VmRefinement: every handler is a step of Memory or changes nothing.     *)
EXTENDS VmRefinement, VmBasics

-----------------------------------------------------------------------------
(* The refinement mapping *)

\* What programs see at each page.
CellsSeen ==
  \A s \in Spaces, a \in Pages :
    /\ Mem[s][a] = Cell(s, a)
    /\ ~Mapped(s, a) => Cell(s, a) = M!Nothing
    /\ Mapped(s, a) /\ page[s][a].shared =>
         Cell(s, a) = M!Shared(page[s][a].protection, page[s][a].frame)
    /\ Mapped(s, a) /\ ~page[s][a].shared =>
         Cell(s, a) = M!Private(page[s][a].protection, data[page[s][a].frame])
    /\ (Cell(s, a).kind = "none") <=> ~Mapped(s, a)
    /\ (Cell(s, a).kind = "shared") <=> Mapped(s, a) /\ page[s][a].shared
    /\ (Cell(s, a).kind = "private") <=> Mapped(s, a) /\ ~page[s][a].shared

\* Records of the three kinds of cells.
LEMMA Kinds ==
  /\ M!Nothing.kind = "none"
  /\ \A p, x : /\ M!Shared(p, x).kind = "shared"
               /\ M!Shared(p, x).protection = p /\ M!Shared(p, x).segment = x
               /\ M!Private(p, x).kind = "private"
               /\ M!Private(p, x).protection = p /\ M!Private(p, x).value = x
  /\ "none" # "shared" /\ "none" # "private" /\ "shared" # "private"
PROOF
  BY Zenon DEF M!Nothing, M!Shared, M!Private

\* The mapping gives what CellsSeen says.
LEMMA CellsAre == CellsSeen
PROOF
  <1> SUFFICES ASSUME NEW s \in Spaces, NEW a \in Pages
      PROVE  /\ Mem[s][a] = Cell(s, a)
             /\ ~Mapped(s, a) => Cell(s, a) = M!Nothing
             /\ Mapped(s, a) /\ page[s][a].shared =>
                  Cell(s, a) = M!Shared(page[s][a].protection, page[s][a].frame)
             /\ Mapped(s, a) /\ ~page[s][a].shared =>
                  Cell(s, a) = M!Private(page[s][a].protection, data[page[s][a].frame])
             /\ (Cell(s, a).kind = "none") <=> ~Mapped(s, a)
             /\ (Cell(s, a).kind = "shared") <=> Mapped(s, a) /\ page[s][a].shared
             /\ (Cell(s, a).kind = "private") <=> Mapped(s, a) /\ ~page[s][a].shared
    BY Zenon DEF CellsSeen
  <1>1. Mem[s][a] = Cell(s, a)
    BY Zenon DEF Mem
  <1>2. CASE ~Mapped(s, a)
    <2>1. Cell(s, a) = M!Nothing
      BY <1>2, Zenon DEF Cell, Mapped, M!Nothing
    <2> QED
      BY <1>1, <1>2, <2>1, Kinds, Zenon
  <1>3. CASE Mapped(s, a) /\ page[s][a].shared
    <2>1. Cell(s, a) = M!Shared(page[s][a].protection, page[s][a].frame)
      BY <1>3, Zenon DEF Cell, Mapped, M!Shared
    <2>2. Cell(s, a).kind = "shared"
      BY <2>1 DEF M!Shared
    <2> QED
      BY <1>1, <1>3, <2>1, <2>2, Kinds, Zenon
  <1>4. CASE Mapped(s, a) /\ ~page[s][a].shared
    <2>1. Cell(s, a) = M!Private(page[s][a].protection, data[page[s][a].frame])
      BY <1>4, Zenon DEF Cell, Mapped, M!Private
    <2>2. Cell(s, a).kind = "private"
      BY <2>1 DEF M!Private
    <2> QED
      BY <1>1, <1>4, <2>1, <2>2, Kinds, Zenon
  <1> QED
    BY <1>2, <1>3, <1>4, Zenon

\* And after a step.
LEMMA CellsAreNext == CellsSeen'
PROOF
  BY CellsAre, PTL

\* What makes a frame a segment, and what the segments and files look like.
SegmentsSeen ==
  \A f \in Frames :
    /\ IsSegment(f) <=>
         \/ \E m \in Memfds, i \in FilePages : memfd[m].frames[i] = f
         \/ \E s \in Spaces, a \in Pages : page[s][a].frame = f /\ page[s][a].shared
    /\ M!InUse(f) <=> IsSegment(f)
    /\ Segment[f] = IF IsSegment(f) THEN data[f] ELSE Zero

\* The contents of shared frames are what SegmentsSeen says.
LEMMA SegmentsAre == SegmentsSeen
PROOF
  <1> SUFFICES ASSUME NEW f \in Frames
      PROVE  /\ IsSegment(f) <=>
                  \/ \E m \in Memfds, i \in FilePages : memfd[m].frames[i] = f
                  \/ \E s \in Spaces, a \in Pages :
                       page[s][a].frame = f /\ page[s][a].shared
             /\ M!InUse(f) <=> IsSegment(f)
             /\ Segment[f] = IF IsSegment(f) THEN data[f] ELSE Zero
    BY Zenon DEF SegmentsSeen
  <1>1. FileHolders(f) # {} <=> \E m \in Memfds, i \in FilePages : memfd[m].frames[i] = f
    <2>1. ASSUME NEW m \in Memfds, NEW i \in FilePages, memfd[m].frames[i] = f
          PROVE  <<m, i>> \in FileHolders(f)
      BY <2>1, Zenon DEF FileHolders
    <2>2. ASSUME NEW h \in FileHolders(f)
          PROVE  h[1] \in Memfds /\ h[2] \in FilePages /\ memfd[h[1]].frames[h[2]] = f
      BY Zenon DEF FileHolders
    <2> QED
      BY <2>1, <2>2, Zenon
  <1>2. (\E h \in PageHolders(f) : page[h[1]][h[2]].shared) <=>
          \E s \in Spaces, a \in Pages : page[s][a].frame = f /\ page[s][a].shared
    <2>1. ASSUME NEW s \in Spaces, NEW a \in Pages, page[s][a].frame = f, page[s][a].shared
          PROVE  \E h \in PageHolders(f) : page[h[1]][h[2]].shared
      <3>1. <<s, a>> \in PageHolders(f)
        BY <2>1, Zenon DEF PageHolders
      <3>2. <<s, a>>[1] = s /\ <<s, a>>[2] = a
        OBVIOUS
      <3> QED
        BY <2>1, <3>1, <3>2, Zenon
    <2>2. ASSUME NEW h \in PageHolders(f)
          PROVE  h[1] \in Spaces /\ h[2] \in Pages /\ page[h[1]][h[2]].frame = f
      BY Zenon DEF PageHolders
    <2> QED
      BY <2>1, <2>2, Zenon
  <1>3. IsSegment(f) <=>
          \/ \E m \in Memfds, i \in FilePages : memfd[m].frames[i] = f
          \/ \E s \in Spaces, a \in Pages : page[s][a].frame = f /\ page[s][a].shared
    BY <1>1, <1>2, Zenon DEF IsSegment
  <1>4. ASSUME NEW s \in Spaces, NEW a \in Pages
        PROVE  (Mem[s][a].kind = "shared" /\ Mem[s][a].segment = f) <=>
                 (page[s][a].frame = f /\ page[s][a].shared)
    <2>1. f # NoFrame
      BY FramesAssumption, Zenon
    <2>2. /\ Mem[s][a] = Cell(s, a)
          /\ (Cell(s, a).kind = "shared") <=> Mapped(s, a) /\ page[s][a].shared
          /\ Mapped(s, a) /\ page[s][a].shared =>
               Cell(s, a) = M!Shared(page[s][a].protection, page[s][a].frame)
      BY CellsAre, Zenon DEF CellsSeen
    <2>3. Mapped(s, a) /\ page[s][a].shared => Mem[s][a].segment = page[s][a].frame
      BY <2>2 DEF M!Shared
    <2> QED
      BY <2>1, <2>2, <2>3, Zenon DEF Mapped
  <1>5. ASSUME NEW m \in Memfds
        PROVE  File[m].segments = memfd[m].frames
    BY Zenon DEF File
  <1>6. M!InUse(f) <=>
          \/ \E s \in Spaces, a \in Pages : Mem[s][a].kind = "shared" /\ Mem[s][a].segment = f
          \/ \E m \in Memfds, i \in FilePages : File[m].segments[i] = f
    BY Zenon DEF M!InUse, M!Pages, M!FilePages, Pages, FilePages
  <1>7. M!InUse(f) <=> IsSegment(f)
    <2>1. (\E s \in Spaces, a \in Pages :
              Mem[s][a].kind = "shared" /\ Mem[s][a].segment = f) <=>
            \E s \in Spaces, a \in Pages : page[s][a].frame = f /\ page[s][a].shared
      BY <1>4, Zenon
    <2>2. (\E m \in Memfds, i \in FilePages : File[m].segments[i] = f) <=>
            \E m \in Memfds, i \in FilePages : memfd[m].frames[i] = f
      BY <1>5, Zenon
    <2> QED
      BY <1>3, <1>6, <2>1, <2>2, Zenon
  <1>8. Segment[f] = IF IsSegment(f) THEN data[f] ELSE Zero
    BY Zenon DEF Segment
  <1> QED
    BY <1>3, <1>7, <1>8, Zenon

\* And after a step.
LEMMA SegmentsAreNext == SegmentsSeen'
PROOF
  BY SegmentsAre, PTL

\* The initial states are those of Memory.
LEMMA InitImplements == Init => M!Init
PROOF
  <1> SUFFICES ASSUME Init PROVE M!Init
    BY Zenon
  <1>1. \A s \in Spaces, a \in Pages : page[s][a] = Unmapped
    BY Zenon DEF Init
  <1>2. \A m \in Memfds : memfd[m] = NoObject
    BY Zenon DEF Init
  <1>3. Unmapped.frame = NoFrame
    BY Zenon DEF Unmapped
  <1>4. Mem = [s \in Spaces |-> [a \in M!Pages |-> M!Nothing]]
    BY <1>1, <1>3, CellsAre, Zenon DEF CellsSeen, Mem, Mapped, M!Pages, Pages
  <1>5. Segment = [f \in Frames |-> Zero]
    BY Zenon DEF Segment, Init
  <1>6. File = [m \in Memfds |-> M!NoFile]
    <2>1. ASSUME NEW m \in Memfds
          PROVE  [used |-> memfd[m].used, size |-> memfd[m].size,
                  segments |-> memfd[m].frames] = M!NoFile
      <3>1. memfd[m].used = FALSE /\ memfd[m].size = 0
            /\ memfd[m].frames = [i \in FilePages |-> NoFrame]
        BY <1>2 DEF NoObject
      <3> QED
        BY <3>1, Zenon DEF M!NoFile, M!FilePages, FilePages
    <2> QED
      BY <2>1, Zenon DEF File
  <1> QED
    BY <1>4, <1>5, <1>6, Zenon DEF M!Init, Init

-----------------------------------------------------------------------------
(* Steps through the mapping *)

\* The two modules number pages alike.
LEMMA SameSets ==
  /\ M!Pages = Pages /\ M!FilePages = FilePages /\ M!StackPages = StackPages
  /\ M!Intervals = Intervals
  /\ \A range : M!First(range) = First(range)
PROOF
  BY Zenon DEF M!Pages, Pages, M!FilePages, FilePages, M!StackPages, StackPages,
    M!Intervals, Intervals, M!First, First

\* A page that keeps its protection and role looks the same if its frame, or
\* at least what a private frame holds, is the same.
LEMMA CellKept ==
  ASSUME NEW t \in Spaces, NEW b \in Pages,
         Mapped(t, b)' <=> Mapped(t, b),
         Mapped(t, b) =>
           /\ page'[t][b].protection = page[t][b].protection
           /\ page'[t][b].shared = page[t][b].shared
           /\ page[t][b].shared => page'[t][b].frame = page[t][b].frame
           /\ ~page[t][b].shared => data'[page'[t][b].frame] = data[page[t][b].frame]
  PROVE  Cell(t, b)' = Cell(t, b)
PROOF
  <1>1. CASE ~Mapped(t, b)
    <2>1. Cell(t, b) = M!Nothing
      BY <1>1, CellsAre, Zenon DEF CellsSeen
    <2>2. Cell(t, b)' = M!Nothing
      BY <1>1, CellsAreNext, Zenon DEF CellsSeen, M!Nothing
    <2> QED
      BY <2>1, <2>2, Zenon
  <1>2. CASE Mapped(t, b) /\ page[t][b].shared
    <2>1. Cell(t, b) = M!Shared(page[t][b].protection, page[t][b].frame)
      BY <1>2, CellsAre, Zenon DEF CellsSeen
    <2>2. Cell(t, b)' = M!Shared(page'[t][b].protection, page'[t][b].frame)
      BY <1>2, CellsAreNext, Zenon DEF CellsSeen
    <2> QED
      BY <1>2, <2>1, <2>2, Zenon
  <1>3. CASE Mapped(t, b) /\ ~page[t][b].shared
    BY <1>3, CellsAre, CellsAreNext, ZenonT(60) DEF CellsSeen
  <1> QED
    BY <1>1, <1>2, <1>3, Zenon

\* Nothing that programs see names a free frame.
LEMMA FreeUnseen ==
  ASSUME TypeOK, RefcountExact
  PROVE  \A f \in FreeFrames :
           f \in Frames /\ ~IsSegment(f) /\ Segment[f] = Zero /\ f \in M!Unused
PROOF
  <1> SUFFICES ASSUME NEW f \in FreeFrames
      PROVE  f \in Frames /\ ~IsSegment(f) /\ Segment[f] = Zero /\ f \in M!Unused
    BY Zenon
  <1>1. /\ f \in Frames
        /\ PageHolders(f) = {} /\ FileHolders(f) = {}
    BY FreeUnheld, Zenon
  <1>2. ~IsSegment(f)
    BY <1>1, Zenon DEF IsSegment
  <1> QED
    BY <1>1, <1>2, SegmentsAre, Zenon DEF SegmentsSeen, M!Unused

\* Frames that are free are new segments to Memory.
LEMMA FreshNew ==
  ASSUME TypeOK, RefcountExact, NEW S, NEW g \in Fresh(S)
  PROVE  g \in M!New(S)
PROOF
  BY FreeUnseen, Zenon DEF Fresh, M!New

\* The contents of segments after a step, for SetSegments.
LEMMA SegmentsSet ==
  ASSUME NEW new, \A f \in Frames : IsSegment(f)' => data'[f] = new[f]
  PROVE  M!SetSegments(new)
PROOF
  <1>1. \A f \in Frames : M!InUse(f)' <=> IsSegment(f)'
    BY SegmentsAreNext, Zenon DEF SegmentsSeen
  <1>2. Segment' = [f \in Frames |-> IF IsSegment(f)' THEN data'[f] ELSE Zero]
    BY Zenon DEF Segment
  <1>3. Segment' = [f \in Frames |-> IF M!InUse(f)' THEN new[f] ELSE Zero]
    BY <1>1, <1>2, Zenon
  <1> QED
    BY <1>3, Zenon DEF M!SetSegments

\* No segment comes, goes or changes.
LEMMA SegmentsSame ==
  ASSUME \A f \in Frames : IsSegment(f)' <=> IsSegment(f),
         \A f \in Frames : IsSegment(f) => data'[f] = data[f]
  PROVE  Segment' = Segment
PROOF
  BY Zenon DEF Segment

\* A step that stores nothing in frames that are in use: what is shared after
\* it was a segment before, or is a new frame that holds zeroes.
LEMMA SegmentStep ==
  ASSUME TypeOK, RefcountExact,
         \A f \in Frames \ FreeFrames : data'[f] = data[f],
         \A f \in FreeFrames : IsSegment(f)' => data'[f] = Zero,
         \A t \in Spaces, b \in Pages :
           page'[t][b].frame \in Frames /\ page'[t][b].shared =>
             page'[t][b].frame \in FreeFrames \/ IsSegment(page'[t][b].frame),
         \A m \in Memfds, i \in FilePages :
           memfd'[m].frames[i] \in Frames =>
             memfd'[m].frames[i] \in FreeFrames \/ IsSegment(memfd'[m].frames[i])
  PROVE  M!SetSegments(Segment)
PROOF
  <1>1. ASSUME NEW f \in Frames, IsSegment(f)'
        PROVE  data'[f] = Segment[f]
    <2>1. CASE f \in FreeFrames
      BY <1>1, <2>1, FreeUnseen, Zenon
    <2>2. CASE f \notin FreeFrames
      <3>1. \/ \E m \in Memfds, i \in FilePages : memfd'[m].frames[i] = f
            \/ \E t \in Spaces, b \in Pages : page'[t][b].frame = f /\ page'[t][b].shared
        BY <1>1, SegmentsAreNext, Zenon DEF SegmentsSeen
      <3>2. IsSegment(f)
        BY <2>2, <3>1, Zenon
      <3>3. Segment[f] = data[f]
        BY <3>2, SegmentsAre, Zenon DEF SegmentsSeen
      <3> QED
        BY <2>2, <3>3, Zenon
    <2> QED
      BY <2>1, <2>2, Zenon
  <1> QED
    BY <1>1, SegmentsSet, Zenon

\* What holds a frame makes it a segment.
LEMMA Holders ==
  ASSUME TypeOK
  PROVE  /\ \A t \in Spaces, b \in Pages :
              Mapped(t, b) => /\ page[t][b].frame \in Frames
                              /\ page[t][b].shared => IsSegment(page[t][b].frame)
         /\ \A m \in Memfds, i \in FilePages :
              /\ memfd[m].frames[i] \in Frames \cup {NoFrame}
              /\ memfd[m].frames[i] # NoFrame => IsSegment(memfd[m].frames[i])
PROOF
  <1>1. ASSUME NEW t \in Spaces, NEW b \in Pages, Mapped(t, b)
        PROVE  page[t][b].frame \in Frames
    BY <1>1 DEF TypeOK, PageRecords, Mapped
  <1>2. ASSUME NEW m \in Memfds, NEW i \in FilePages
        PROVE  memfd[m].frames[i] \in Frames \cup {NoFrame}
    <2>1. memfd[m] \in Objects
      BY Zenon DEF TypeOK
    <2> QED
      BY <2>1 DEF Objects
  <1> QED
    BY <1>1, <1>2, SegmentsAre, Zenon DEF SegmentsSeen

\* What programs see at a page after a step.
LEMMA CellsAfter ==
  \A t \in Spaces, b \in Pages :
    /\ page'[t][b].frame = NoFrame => Cell(t, b)' = M!Nothing
    /\ page'[t][b].frame # NoFrame /\ page'[t][b].shared =>
         Cell(t, b)' = M!Shared(page'[t][b].protection, page'[t][b].frame)
    /\ page'[t][b].frame # NoFrame /\ ~page'[t][b].shared =>
         Cell(t, b)' = M!Private(page'[t][b].protection, data'[page'[t][b].frame])
PROOF
  <1> SUFFICES ASSUME NEW t \in Spaces, NEW b \in Pages
      PROVE  /\ page'[t][b].frame = NoFrame => Cell(t, b)' = M!Nothing
             /\ page'[t][b].frame # NoFrame /\ page'[t][b].shared =>
                  Cell(t, b)' = M!Shared(page'[t][b].protection, page'[t][b].frame)
             /\ page'[t][b].frame # NoFrame /\ ~page'[t][b].shared =>
                  Cell(t, b)' = M!Private(page'[t][b].protection, data'[page'[t][b].frame])
    BY Zenon
  <1>1. page'[t][b].frame = NoFrame => Cell(t, b)' = M!Nothing
    BY CellsAreNext, Zenon DEF CellsSeen, Mapped, M!Nothing
  <1>2. page'[t][b].frame # NoFrame /\ page'[t][b].shared =>
          Cell(t, b)' = M!Shared(page'[t][b].protection, page'[t][b].frame)
    BY CellsAreNext, Zenon DEF CellsSeen, Mapped
  <1>3. page'[t][b].frame # NoFrame /\ ~page'[t][b].shared =>
          Cell(t, b)' = M!Private(page'[t][b].protection, data'[page'[t][b].frame])
    BY CellsAreNext, Zenon DEF CellsSeen, Mapped
  <1> QED
    BY <1>1, <1>2, <1>3, Zenon

\* Pages that a step does not touch look the same when the step stores only
\* in free frames.
LEMMA OtherCells ==
  ASSUME TypeOK, RefcountExact, NEW s \in Spaces, NEW range \in SUBSET Pages,
         \A t \in Spaces, b \in Pages :
           t # s \/ b \notin range => page'[t][b] = page[t][b],
         \A f \in Frames \ FreeFrames : data'[f] = data[f]
  PROVE  \A t \in Spaces, b \in Pages : t # s \/ b \notin range => Cell(t, b)' = Cell(t, b)
PROOF
  <1> SUFFICES ASSUME NEW t \in Spaces, NEW b \in Pages, t # s \/ b \notin range
      PROVE  Cell(t, b)' = Cell(t, b)
    BY Zenon
  <1>1. page'[t][b] = page[t][b]
    BY Zenon
  <1>2. Mapped(t, b) => page[t][b].frame \in Frames \ FreeFrames
    BY Holders, FreeUnheld, Zenon
  <1> QED
    BY <1>1, <1>2, CellKept, Zenon DEF Mapped

\* Cells of a range that a step rewrites.
LEMMA CellsOf ==
  ASSUME NEW s \in Spaces, NEW range,
         \A t \in Spaces, b \in Pages : t # s \/ b \notin range => Cell(t, b)' = Cell(t, b)
  PROVE  Mem' = [Mem EXCEPT ![s] =
                   [b \in M!Pages |-> IF b \in range THEN Cell(s, b)' ELSE Mem[s][b]]]
PROOF
  <1>1. Mem' = [t \in Spaces |-> [b \in Pages |-> Cell(t, b)']]
    BY Zenon DEF Mem
  <1>2. \A t \in Spaces, b \in Pages : Mem[t][b] = Cell(t, b)
    BY CellsAre, Zenon DEF CellsSeen
  <1>3. Mem = [t \in Spaces |-> [b \in Pages |-> Cell(t, b)]]
    BY Zenon DEF Mem
  <1>4. ASSUME NEW t \in Spaces
        PROVE  [b \in Pages |-> Cell(t, b)'] =
                 IF t = s THEN [b \in Pages |-> IF b \in range THEN Cell(s, b)' ELSE Mem[s][b]]
                 ELSE Mem[t]
    <2>1. CASE t = s
      BY <1>2, <2>1, Zenon
    <2>2. CASE t # s
      BY <1>3, <2>2, Zenon
    <2> QED
      BY <2>1, <2>2, Zenon
  <1>5. DOMAIN Mem = Spaces
    BY <1>3, Zenon
  <1>6. Mem' = [t \in Spaces |-> IF t = s
                 THEN [b \in Pages |-> IF b \in range THEN Cell(s, b)' ELSE Mem[s][b]]
                 ELSE Mem[t]]
    BY <1>1, <1>4, Zenon
  <1> QED
    BY <1>5, <1>6, SameSets, Zenon

-----------------------------------------------------------------------------
(* Mappings *)

\* Mapping fresh frames changes what is seen at the range only, and gives new
\* segments zeroes.
LEMMA FreshSeen ==
  ASSUME IndInv, NEW s \in Spaces, NEW range \in SUBSET Pages, NEW g \in Fresh(range),
         NEW contents, NEW protection \in SUBSET {"R", "W", "X"}, NEW shared \in BOOLEAN,
         MapFresh(s, range, g, contents, protection, shared), memfd' = memfd,
         shared => \A a \in range : contents[a] = Zero
  PROVE  /\ \A t \in Spaces, b \in Pages : t # s \/ b \notin range => Cell(t, b)' = Cell(t, b)
         /\ \A b \in range :
              Cell(s, b)' = IF shared THEN M!Shared(protection, g[b])
                            ELSE M!Private(protection, contents[b])
         /\ M!SetSegments(Segment)
PROOF
  <1> DEFINE new(a) == [frame |-> g[a], protection |-> protection,
                        copy_on_write |-> FALSE, shared |-> shared]
             rec == [a \in range |-> new(a)]
  <1>1. \A a \in range : /\ g[a] \in FreeFrames /\ g[a] \in Frames /\ g[a] \in Drawn(g)
                         /\ \A b \in range : g[b] = g[a] => b = a
    BY FreshFrames, Zenon
  <1>2. SetPages(s, range, rec)
    BY Zenon DEF MapFresh
  <1>3. \A a \in range : new(a).frame = g[a] /\ new(a).protection = protection
                         /\ new(a).shared = shared
    OBVIOUS
  <1> HIDE DEF new
  <1>4. \A t \in Spaces, b \in Pages :
          /\ t # s \/ b \notin range => page'[t][b] = page[t][b]
          /\ t = s /\ b \in range => page'[t][b] = new(b)
    BY <1>2, Zenon DEF SetPages, IndInv, TypeOK
  <1>5. Drawn(g) \subseteq FreeFrames
    BY DrawnOnce, Zenon
  <1>6. \A f \in Frames \ FreeFrames : data'[f] = data[f]
    BY <1>5, Zenon DEF MapFresh
  <1>7. \A b \in range : data'[g[b]] = contents[b]
    <2> SUFFICES ASSUME NEW b \in range PROVE data'[g[b]] = contents[b]
      BY Zenon
    <2>1. (CHOOSE a \in range : g[a] = g[b]) = b
      BY <1>1, Zenon
    <2>2. data'[g[b]] = contents[CHOOSE a \in range : g[a] = g[b]]
      BY <1>1, Zenon DEF MapFresh
    <2> QED
      BY <2>1, <2>2, Zenon
  <1>8. \A t \in Spaces, b \in Pages : t # s \/ b \notin range => Cell(t, b)' = Cell(t, b)
    <2>1. \A t \in Spaces, b \in Pages : t # s \/ b \notin range => page'[t][b] = page[t][b]
      BY <1>4, Zenon
    <2>2. TypeOK /\ RefcountExact
      BY Zenon DEF IndInv
    <2> QED
      BY <1>6, <2>1, <2>2, OtherCells, Zenon
  <1>9. ASSUME NEW b \in range
        PROVE  Cell(s, b)' = IF shared THEN M!Shared(protection, g[b])
                             ELSE M!Private(protection, contents[b])
    <2>1. b \in Pages /\ page'[s][b] = new(b)
      BY <1>4, Zenon
    <2>2. /\ page'[s][b].frame = g[b] /\ page'[s][b].protection = protection
          /\ page'[s][b].shared = shared
      BY <1>3, <2>1, Zenon
    <2>3. g[b] # NoFrame
      BY <1>1, FramesAssumption, Zenon
    <2> QED
      BY <1>7, <2>1, <2>2, <2>3, CellsAfter, ZenonT(60)
  <1>10. M!SetSegments(Segment)
    <2>1. ASSUME NEW t \in Spaces, NEW b \in Pages,
                 page'[t][b].frame \in Frames, page'[t][b].shared
          PROVE  \/ /\ page'[t][b].frame \in FreeFrames
                    /\ data'[page'[t][b].frame] = Zero
                 \/ /\ page'[t][b].frame \notin FreeFrames
                    /\ IsSegment(page'[t][b].frame)
      <3>1. CASE t = s /\ b \in range
        <4>1. page'[t][b] = new(b)
          BY <1>4, <3>1, Zenon
        <4>2. page'[t][b].frame = g[b] /\ shared
          BY <1>3, <2>1, <3>1, <4>1, ZenonT(60)
        <4> QED
          BY <1>1, <1>7, <3>1, <4>2, Zenon
      <3>2. CASE t # s \/ b \notin range
        <4>1. page'[t][b] = page[t][b]
          BY <1>4, <3>2, Zenon
        <4>2. Mapped(t, b)
          BY <2>1, <4>1, FramesAssumption, Zenon DEF Mapped
        <4> QED
          BY <2>1, <4>1, <4>2, Holders, FreeUnheld, Zenon DEF IndInv
      <3> QED
        BY <3>1, <3>2, Zenon
    <2>2. ASSUME NEW m \in Memfds, NEW i \in FilePages, memfd'[m].frames[i] \in Frames
          PROVE  /\ memfd'[m].frames[i] \notin FreeFrames
                 /\ IsSegment(memfd'[m].frames[i])
      BY <2>2, Holders, FreeUnheld, FramesAssumption, Zenon DEF IndInv
    <2>3. ASSUME NEW f \in FreeFrames, IsSegment(f)'
          PROVE  data'[f] = Zero
      <3>1. f \in Frames
        BY Zenon DEF FreeFrames
      <3>2. \/ \E m \in Memfds, i \in FilePages : memfd'[m].frames[i] = f
            \/ \E t \in Spaces, b \in Pages : page'[t][b].frame = f /\ page'[t][b].shared
        BY <2>3, <3>1, SegmentsAreNext, Zenon DEF SegmentsSeen
      <3> QED
        BY <2>1, <2>2, <3>1, <3>2, Zenon
    <2> QED
      BY <1>6, <2>1, <2>2, <2>3, SegmentStep, Zenon DEF IndInv
  <1> QED
    BY <1>8, <1>9, <1>10, Zenon

\* Emptied pages, with whatever is unmapped around them left alone.
LEMMA EmptiedSeen ==
  ASSUME IndInv, NEW s \in Spaces, NEW range \in SUBSET Pages,
         SetPages(s, range, [a \in range |-> Unmapped]),
         \A f \in Frames \ FreeFrames : data'[f] = data[f]
  PROVE  /\ \A t \in Spaces, b \in Pages :
              /\ t # s \/ b \notin range => page'[t][b] = page[t][b]
              /\ t = s /\ b \in range => page'[t][b] = Unmapped
         /\ M!SetCells(s, range, LAMBDA a : M!Nothing)
         /\ \A t \in Spaces, b \in Pages :
              page'[t][b].frame \in Frames =>
                /\ page'[t][b] = page[t][b]
                /\ page'[t][b].frame \notin FreeFrames
                /\ page'[t][b].shared => IsSegment(page'[t][b].frame)
PROOF
  <1>1. \A t \in Spaces, b \in Pages :
          /\ t # s \/ b \notin range => page'[t][b] = page[t][b]
          /\ t = s /\ b \in range => page'[t][b] = Unmapped
    BY Zenon DEF SetPages, IndInv, TypeOK
  <1>2. Unmapped.frame = NoFrame
    BY DEF Unmapped
  <1>3. TypeOK /\ RefcountExact
    BY Zenon DEF IndInv
  <1>4. \A t \in Spaces, b \in Pages : t # s \/ b \notin range => Cell(t, b)' = Cell(t, b)
    <2>1. \A t \in Spaces, b \in Pages : t # s \/ b \notin range => page'[t][b] = page[t][b]
      BY <1>1, Zenon
    <2> QED
      BY <1>3, <2>1, OtherCells, Zenon
  <1>5. \A b \in range : Cell(s, b)' = M!Nothing
    BY <1>1, <1>2, CellsAfter, Zenon
  <1>6. M!SetCells(s, range, LAMBDA a : M!Nothing)
    <2>1. Mem' = [Mem EXCEPT ![s] =
                   [b \in M!Pages |-> IF b \in range THEN Cell(s, b)' ELSE Mem[s][b]]]
      BY <1>4, CellsOf, Zenon
    <2>2. [b \in M!Pages |-> IF b \in range THEN Cell(s, b)' ELSE Mem[s][b]] =
            [b \in M!Pages |-> IF b \in range THEN M!Nothing ELSE Mem[s][b]]
      BY <1>5, Zenon
    <2> QED
      BY <2>1, <2>2, Zenon DEF M!SetCells
  <1>7. ASSUME NEW t \in Spaces, NEW b \in Pages, page'[t][b].frame \in Frames
        PROVE  /\ page'[t][b] = page[t][b]
               /\ page'[t][b].frame \notin FreeFrames
               /\ page'[t][b].shared => IsSegment(page'[t][b].frame)
    <2>1. page'[t][b] = page[t][b]
      BY <1>1, <1>2, <1>7, FramesAssumption, Zenon
    <2>2. Mapped(t, b)
      BY <1>7, <2>1, FramesAssumption, Zenon DEF Mapped
    <2> QED
      BY <1>3, <1>7, <2>1, <2>2, Holders, FreeUnheld, ZenonT(60)
  <1> QED
    BY <1>1, <1>6, <1>7, Zenon

\* munmap, the shrinking brk and every displaced range are the abstract unmap.
LEMMA UnmapSeen ==
  ASSUME IndInv, NEW s \in Spaces, NEW range \in SUBSET Pages,
         UnmapRange(s, range), UNCHANGED <<data, memfd>>
  PROVE  /\ M!SetCells(s, range, LAMBDA a : M!Nothing)
         /\ M!SetSegments(Segment)
         /\ File' = File
PROOF
  <1>1. SetPages(s, range, [a \in range |-> Unmapped])
    BY Zenon DEF UnmapRange
  <1>2. \A f \in Frames \ FreeFrames : data'[f] = data[f]
    BY Zenon
  <1>3. TypeOK /\ RefcountExact
    BY Zenon DEF IndInv
  <1>4. /\ M!SetCells(s, range, LAMBDA a : M!Nothing)
        /\ \A t \in Spaces, b \in Pages :
              page'[t][b].frame \in Frames =>
                /\ page'[t][b].frame \notin FreeFrames
                /\ page'[t][b].shared => IsSegment(page'[t][b].frame)
    BY <1>1, <1>2, EmptiedSeen, Zenon
  <1>5. \A m \in Memfds, i \in FilePages :
          memfd'[m].frames[i] \in Frames =>
            /\ memfd'[m].frames[i] \notin FreeFrames
            /\ IsSegment(memfd'[m].frames[i])
    BY <1>3, Holders, FreeUnheld, FramesAssumption, Zenon
  <1>6. ASSUME NEW f \in FreeFrames, IsSegment(f)' PROVE data'[f] = Zero
    <2>1. f \in Frames
      BY Zenon DEF FreeFrames
    <2>2. \/ \E m \in Memfds, i \in FilePages : memfd'[m].frames[i] = f
          \/ \E t \in Spaces, b \in Pages : page'[t][b].frame = f /\ page'[t][b].shared
      BY <1>6, <2>1, SegmentsAreNext, Zenon DEF SegmentsSeen
    <2> QED
      BY <1>4, <1>5, <2>1, <2>2, Zenon
  <1>7. M!SetSegments(Segment)
    BY <1>2, <1>3, <1>4, <1>5, <1>6, SegmentStep, Zenon
  <1>8. File' = File
    BY Zenon DEF File
  <1> QED
    BY <1>4, <1>7, <1>8, Zenon

\* The abstract conditions of mmap are the concrete ones.
LEMMA AllowedSame ==
  ASSUME NEW range, NEW protection
  PROVE  Placed(range) /\ ~WriteExec(protection) <=> M!Allowed(range, protection)
PROOF
  BY Zenon DEF Placed, WriteExec, M!Allowed, M!StackPages, StackPages

\* Anonymous mmap: new zeroed pages, or only the displaced range.
LEMMA MmapAnonymousSeen ==
  ASSUME IndInv, NEW s \in Spaces, NEW range \in Intervals, NEW protection \in Protections,
         NEW shared \in BOOLEAN, MmapAnonymous(s, range, protection, shared)
  PROVE  \/ M!MapPrivate(s, range, protection, [a \in range |-> Zero])
         \/ M!MapShared(s, range, protection)
         \/ M!Unmap(s, range)
PROOF
  <1>1. range \in SUBSET Pages
    BY IntervalPages, Zenon
  <1>2. protection \in SUBSET {"R", "W", "X"}
    BY ProtectionsAssumption, Zenon
  <1>3. /\ s \in live /\ M!Allowed(range, protection)
        /\ live' = live /\ memfd' = memfd
    BY AllowedSame, Zenon DEF MmapAnonymous
  <1>4. File' = File
    BY <1>3, Zenon DEF File
  <1>5. CASE UnmapRange(s, range) /\ UNCHANGED data
    <2>1. /\ M!SetCells(s, range, LAMBDA a : M!Nothing)
          /\ M!SetSegments(Segment)
      BY <1>1, <1>3, <1>5, UnmapSeen, Zenon
    <2> QED
      BY <1>3, <1>4, <2>1, Zenon DEF M!Unmap
  <1>6. ASSUME NEW g \in Fresh(range),
               MapFresh(s, range, g, [a \in range |-> Zero], protection, shared)
        PROVE  \/ M!MapPrivate(s, range, protection, [a \in range |-> Zero])
               \/ M!MapShared(s, range, protection)
    <2> DEFINE contents == [a \in range |-> Zero]
    <2>1. \A a \in range : contents[a] = Zero
      BY Zenon
    <2>2. MapFresh(s, range, g, contents, protection, shared)
      BY <1>6, Zenon
    <2> HIDE DEF contents
    <2>3. /\ \A t \in Spaces, b \in Pages :
               t # s \/ b \notin range => Cell(t, b)' = Cell(t, b)
          /\ \A b \in range :
               Cell(s, b)' = IF shared THEN M!Shared(protection, g[b])
                             ELSE M!Private(protection, contents[b])
          /\ M!SetSegments(Segment)
      BY <1>1, <1>2, <1>3, <2>1, <2>2, FreshSeen, Zenon
    <2>4. Mem' = [Mem EXCEPT ![s] =
                   [b \in M!Pages |-> IF b \in range THEN Cell(s, b)' ELSE Mem[s][b]]]
      BY <2>3, CellsOf, Zenon
    <2>5. CASE shared
      <3>1. M!SetCells(s, range, LAMBDA a : M!Shared(protection, g[a]))
        BY <2>3, <2>4, <2>5, Zenon DEF M!SetCells
      <3>2. g \in M!New(range)
        BY FreshNew, Zenon DEF IndInv
      <3> QED
        BY <1>3, <1>4, <2>3, <3>1, <3>2, Zenon DEF M!MapShared
    <2>6. CASE ~shared
      <3>1. M!SetCells(s, range, LAMBDA a : M!Private(protection, contents[a]))
        BY <2>3, <2>4, <2>6, Zenon DEF M!SetCells
      <3>2. M!MapPrivate(s, range, protection, contents)
        BY <1>3, <1>4, <2>3, <3>1, Zenon DEF M!MapPrivate
      <3> QED
        BY <3>2, Zenon DEF contents
    <2> QED
      BY <2>5, <2>6, Zenon
  <1> QED
    BY <1>5, <1>6, Zenon DEF MmapAnonymous

\* mmap of a file: private pages with the file's contents.
LEMMA MmapFileSeen ==
  ASSUME IndInv, NEW s \in Spaces, NEW range \in Intervals, NEW protection \in Protections,
         NEW contents, MmapFile(s, range, protection, contents)
  PROVE  M!MapPrivate(s, range, protection, contents)
PROOF
  <1>1. range \in SUBSET Pages
    BY IntervalPages, Zenon
  <1>2. protection \in SUBSET {"R", "W", "X"}
    BY ProtectionsAssumption, Zenon
  <1>3. /\ s \in live /\ M!Allowed(range, protection)
        /\ live' = live /\ memfd' = memfd
    BY AllowedSame, Zenon DEF MmapFile
  <1>4. File' = File
    BY <1>3, Zenon DEF File
  <1>5. PICK g \in Fresh(range) : MapFresh(s, range, g, contents, protection, FALSE)
    BY Zenon DEF MmapFile
  <1>6. /\ \A t \in Spaces, b \in Pages :
             t # s \/ b \notin range => Cell(t, b)' = Cell(t, b)
        /\ \A b \in range :
             Cell(s, b)' = IF FALSE THEN M!Shared(protection, g[b])
                           ELSE M!Private(protection, contents[b])
        /\ M!SetSegments(Segment)
    BY <1>1, <1>2, <1>3, <1>5, FreshSeen, Zenon
  <1>7. Mem' = [Mem EXCEPT ![s] =
                 [b \in M!Pages |-> IF b \in range THEN Cell(s, b)' ELSE Mem[s][b]]]
    BY <1>6, CellsOf, Zenon
  <1>8. M!SetCells(s, range, LAMBDA a : M!Private(protection, contents[a]))
    BY <1>6, <1>7, Zenon DEF M!SetCells
  <1> QED
    BY <1>3, <1>4, <1>6, <1>8, Zenon DEF M!MapPrivate

-----------------------------------------------------------------------------
(* Mappings of memfd objects *)

\* What programs see of a memory file.
LEMMA FileFields ==
  \A m \in Memfds :
    /\ File[m] = [used |-> memfd[m].used, size |-> memfd[m].size, segments |-> memfd[m].frames]
    /\ File[m].used = memfd[m].used /\ File[m].size = memfd[m].size
    /\ File[m].segments = memfd[m].frames
PROOF
  BY Zenon DEF File

\* And after a step.
LEMMA FileFieldsNext ==
  \A m \in Memfds :
    /\ File'[m] = [used |-> memfd'[m].used, size |-> memfd'[m].size,
                   segments |-> memfd'[m].frames]
    /\ File'[m].segments = memfd'[m].frames
PROOF
  BY Zenon DEF File

\* An object that keeps its use and size, and gets the frames new.
LEMMA FileSet ==
  ASSUME TypeOK, NEW m \in Memfds, NEW new,
         memfd' = [memfd EXCEPT ![m].frames = new]
  PROVE  /\ File' = [File EXCEPT ![m].segments = new]
         /\ \A n \in Memfds \ {m} : memfd'[n] = memfd[n]
         /\ memfd'[m].frames = new
PROOF
  <1>1. memfd[m] \in Objects /\ DOMAIN memfd = Memfds
    BY Zenon DEF TypeOK
  <1>2. /\ memfd'[m].used = memfd[m].used /\ memfd'[m].size = memfd[m].size
        /\ memfd'[m].frames = new
    BY <1>1 DEF Objects
  <1>3. \A n \in Memfds \ {m} : memfd'[n] = memfd[n]
    BY <1>1, Zenon
  <1>4. DOMAIN File = Memfds /\ DOMAIN File' = Memfds
    BY Zenon DEF File
  <1>5. File'[m] = [File[m] EXCEPT !.segments = new]
    <2>1. File'[m] = [used |-> memfd[m].used, size |-> memfd[m].size, segments |-> new]
      BY <1>2, FileFieldsNext, Zenon
    <2>2. File[m] =
            [used |-> memfd[m].used, size |-> memfd[m].size, segments |-> memfd[m].frames]
      BY FileFields, Zenon
    <2> QED
      BY <2>1, <2>2
  <1>6. \A n \in Memfds \ {m} : File'[n] = File[n]
    BY <1>3, Zenon DEF File
  <1>7. File' = [n \in Memfds |-> File'[n]]
    BY Zenon DEF File
  <1>8. File' = [n \in Memfds |-> IF n = m THEN [File[m] EXCEPT !.segments = new] ELSE File[n]]
    BY <1>5, <1>6, <1>7, Zenon
  <1>9. File' = [File EXCEPT ![m].segments = new]
    BY <1>4, <1>8, Zenon
  <1> QED
    BY <1>2, <1>3, <1>9, Zenon

\* Creating the missing frames of an object fills holes with zeroed segments.
LEMMA FillSeen ==
  ASSUME TypeOK, RefcountExact, NEW m \in Memfds, NEW files \in SUBSET FilePages,
         NEW h \in Fresh(Holes(m, files)), FillHoles(m, h)
  PROVE  /\ M!FillHoles(m, files)
         /\ \A i \in FilePages : /\ memfd'[m].frames[i] = Backing(m, h, i)
                                 /\ File'[m].segments[i] = Backing(m, h, i)
         /\ \A n \in Memfds \ {m} : memfd'[n] = memfd[n]
PROOF
  <1> DEFINE new == [i \in FilePages |-> Backing(m, h, i)]
  <1>1. \A i \in FilePages : new[i] = Backing(m, h, i)
    BY Zenon
  <1>2. new = [i \in FilePages |-> IF i \in DOMAIN h THEN h[i] ELSE File[m].segments[i]]
    BY FileFields, Zenon DEF Backing
  <1>3. memfd' = [memfd EXCEPT ![m].frames = new]
    BY Zenon DEF FillHoles
  <1>4. new = [i \in M!FilePages |-> IF i \in DOMAIN h THEN h[i] ELSE File[m].segments[i]]
    BY <1>2, SameSets, Zenon
  <1> HIDE DEF new
  <1>5. /\ File' = [File EXCEPT ![m].segments = new]
        /\ \A n \in Memfds \ {m} : memfd'[n] = memfd[n]
        /\ memfd'[m].frames = new
    BY <1>3, FileSet, Zenon
  <1>6. Holes(m, files) = {i \in files : File[m].segments[i] = NoFrame}
    BY FileFields, Zenon DEF Holes
  <1>7. h \in M!New({i \in files : File[m].segments[i] = NoFrame})
    BY <1>6, FreshNew, Zenon
  <1>8. M!FillHoles(m, files)
    <2>1. File' = [File EXCEPT ![m].segments =
             [i \in M!FilePages |-> IF i \in DOMAIN h THEN h[i] ELSE File[m].segments[i]]]
      BY <1>4, <1>5, Zenon
    <2> QED
      BY <1>7, <2>1, Zenon DEF M!FillHoles
  <1>9. \A i \in FilePages : /\ memfd'[m].frames[i] = Backing(m, h, i)
                             /\ File'[m].segments[i] = Backing(m, h, i)
    BY <1>1, <1>5, FileFieldsNext, Zenon
  <1> QED
    BY <1>5, <1>8, <1>9, Zenon

\* What the frames of the objects are after holes were filled.
LEMMA FilledFrames ==
  ASSUME TypeOK, RefcountExact, NEW m \in Memfds, NEW files \in SUBSET FilePages,
         NEW h \in Fresh(Holes(m, files)),
         \A i \in FilePages : memfd'[m].frames[i] = Backing(m, h, i),
         \A n \in Memfds \ {m} : memfd'[n] = memfd[n]
  PROVE  \A n \in Memfds, i \in FilePages :
           memfd'[n].frames[i] \in Frames =>
             \/ memfd'[n].frames[i] \in Drawn(h) /\ memfd'[n].frames[i] \in FreeFrames
             \/ memfd'[n].frames[i] \notin FreeFrames /\ IsSegment(memfd'[n].frames[i])
PROOF
  <1> SUFFICES ASSUME NEW n \in Memfds, NEW i \in FilePages, memfd'[n].frames[i] \in Frames
      PROVE  \/ memfd'[n].frames[i] \in Drawn(h) /\ memfd'[n].frames[i] \in FreeFrames
             \/ memfd'[n].frames[i] \notin FreeFrames /\ IsSegment(memfd'[n].frames[i])
    BY Zenon
  <1>1. CASE n = m /\ i \in DOMAIN h
    BY <1>1, FreshFrames, Zenon DEF Backing, Fresh
  <1>2. CASE ~(n = m /\ i \in DOMAIN h)
    <2>1. memfd'[n].frames[i] = memfd[n].frames[i]
      BY <1>2, Zenon DEF Backing
    <2> QED
      BY <2>1, Holders, FreeUnheld, FramesAssumption, ZenonT(60)
  <1> QED
    BY <1>1, <1>2, Zenon

\* A mapping of an object that fails is the abstract unmap; the object may
\* keep some zeroed segments in place of holes.
LEMMA MmapMemfdFailSeen ==
  ASSUME IndInv, NEW s \in Spaces, NEW range \in Intervals, NEW protection,
         NEW m \in Memfds, NEW off \in Nat, NEW k \in Nat,
         MmapMemfdFail(s, range, protection, m, off, k)
  PROVE  M!Unmap(s, range)
PROOF
  <1> DEFINE files == (off + 1)..(off + k)
  <1>0. TypeOK /\ RefcountExact /\ range \in SUBSET Pages
    BY IntervalPages, Zenon DEF IndInv
  <1>1. /\ s \in live /\ live' = live /\ memfd[m].used
        /\ k \in 0..Cardinality(range)
        /\ k > 0 => off + Cardinality(range) <= memfd[m].size
        /\ SetPages(s, range, [a \in range |-> Unmapped])
    BY Zenon DEF MmapMemfdFail
  <1>2. PICK h \in Fresh(Holes(m, files)) :
          /\ data' = [f \in Frames |-> IF f \in Drawn(h) THEN Zero ELSE data[f]]
          /\ FillHoles(m, h)
    BY Zenon DEF MmapMemfdFail
  <1>3. memfd[m].size \in 0..NFilePages
    BY <1>0 DEF TypeOK, Objects
  <1>4. Cardinality(range) \in Nat
    <2>1. IsFiniteSet(range)
      <3>1. IsFiniteSet(Pages)
        BY PagesAssumption, FS_Interval DEF Pages
      <3> QED
        BY <1>0, <3>1, FS_Subset, Zenon
    <2> QED
      BY <2>1, FS_CardinalityType, Zenon
  <1>5. \A i \in files : i \in FilePages /\ i <= memfd[m].size
    BY <1>1, <1>3, <1>4, PagesAssumption, SMTT(60) DEF FilePages
  <1> HIDE DEF files
  <1>6. files \in SUBSET FilePages
    BY <1>5, Zenon
  <1>7. /\ M!FillHoles(m, files)
        /\ \A i \in FilePages : memfd'[m].frames[i] = Backing(m, h, i)
        /\ \A n \in Memfds \ {m} : memfd'[n] = memfd[n]
    BY <1>0, <1>2, <1>6, FillSeen, Zenon
  <1>8. Drawn(h) \subseteq FreeFrames
    BY DrawnOnce, Zenon
  <1>9. \A f \in Frames \ FreeFrames : data'[f] = data[f]
    BY <1>2, <1>8, Zenon
  <1>10. /\ M!SetCells(s, range, LAMBDA a : M!Nothing)
         /\ \A t \in Spaces, b \in Pages :
              page'[t][b].frame \in Frames =>
                /\ page'[t][b].frame \notin FreeFrames
                /\ page'[t][b].shared => IsSegment(page'[t][b].frame)
    <2>1. SetPages(s, range, [a \in range |-> Unmapped])
      BY <1>1, Zenon
    <2> QED
      BY <1>0, <1>9, <2>1, EmptiedSeen, Zenon
  <1>11. \A n \in Memfds, i \in FilePages :
           memfd'[n].frames[i] \in Frames =>
             \/ memfd'[n].frames[i] \in Drawn(h) /\ memfd'[n].frames[i] \in FreeFrames
             \/ memfd'[n].frames[i] \notin FreeFrames /\ IsSegment(memfd'[n].frames[i])
    BY <1>0, <1>6, <1>7, FilledFrames, Zenon
  <1>12. ASSUME NEW f \in FreeFrames, IsSegment(f)' PROVE data'[f] = Zero
    <2>1. f \in Frames
      BY Zenon DEF FreeFrames
    <2>2. \/ \E n \in Memfds, i \in FilePages : memfd'[n].frames[i] = f
          \/ \E t \in Spaces, b \in Pages : page'[t][b].frame = f /\ page'[t][b].shared
      BY <1>12, <2>1, SegmentsAreNext, Zenon DEF SegmentsSeen
    <2>3. f \in Drawn(h)
      BY <1>10, <1>11, <2>1, <2>2, Zenon
    <2> QED
      BY <1>2, <2>1, <2>3, Zenon
  <1>13. M!SetSegments(Segment)
    BY <1>0, <1>9, <1>10, <1>11, <1>12, SegmentStep, ZenonT(60)
  <1>14. File[m].used /\ (\A i \in files : i <= File[m].size) /\ files \in SUBSET M!FilePages
    BY <1>1, <1>5, <1>6, FileFields, SameSets, Zenon
  <1> QED
    BY <1>1, <1>7, <1>10, <1>13, <1>14, Zenon DEF M!Unmap

\* Cardinality as Memory sees it.
LEMMA SameCardinality == \A S : M!Cardinality(S) = Cardinality(S)
PROOF
  BY Zenon DEF M!Cardinality, Cardinality

\* Pages of a mapping and of the object behind it, as both modules compute them.
LEMMA BackPages ==
  ASSUME TypeOK, NEW range \in Intervals, NEW m \in Memfds, NEW off \in Nat,
         off + Cardinality(range) <= memfd[m].size
  PROVE  /\ \A a \in range : /\ BackingPage(range, off, a) = off + 1 + a - M!First(range)
                             /\ BackingPage(range, off, a) \in FilePages
         /\ {BackingPage(range, off, a) : a \in range} \in SUBSET FilePages
         /\ {BackingPage(range, off, a) : a \in range} =
              {off + 1 + a - M!First(range) : a \in range}
PROOF
  <1>1. memfd[m].size \in 0..NFilePages
    BY DEF TypeOK, Objects
  <1>2. \A a \in range : BackingPage(range, off, a) \in FilePages
    BY <1>1, BackingInFile, Zenon
  <1>3. \A a : BackingPage(range, off, a) = off + 1 + a - M!First(range)
    BY Zenon DEF BackingPage, First, M!First
  <1> QED
    BY <1>2, <1>3, Zenon

\* The abstract mapping of an object's pages, from its parts.
LEMMA MapFileIs ==
  ASSUME TypeOK, NEW s \in Spaces, NEW range \in Intervals, NEW protection,
         NEW shared \in BOOLEAN, NEW m \in Memfds, NEW off \in Nat,
         off + Cardinality(range) <= memfd[m].size, memfd[m].used,
         s \in live, live' = live, M!Allowed(range, protection),
         M!FillHoles(m, {BackingPage(range, off, a) : a \in range}),
         M!SetSegments(Segment),
         \A t \in Spaces, b \in Pages : t # s \/ b \notin range => Cell(t, b)' = Cell(t, b),
         \A b \in range : Cell(s, b)' =
           IF shared THEN M!Shared(protection, File'[m].segments[BackingPage(range, off, b)])
           ELSE M!Private(protection, M!FileValue(m, BackingPage(range, off, b)))
  PROVE  M!MapFile(s, range, protection, shared, m, off)
PROOF
  <1> DEFINE back(a) == off + 1 + a - M!First(range)
             cell(a) == IF shared THEN M!Shared(protection, File'[m].segments[back(a)])
                        ELSE M!Private(protection, M!FileValue(m, back(a)))
  <1>1. \A a \in range : BackingPage(range, off, a) = back(a)
    BY BackPages, Zenon
  <1>2. M!FillHoles(m, {back(a) : a \in range})
    BY BackPages, Zenon
  <1>3. \A b \in range : Cell(s, b)' = cell(b)
    BY <1>1, Zenon
  <1>4. File[m].used /\ off + Cardinality(range) <= File[m].size
    BY FileFields, Zenon
  <1>5. Mem' = [Mem EXCEPT ![s] =
                 [b \in M!Pages |-> IF b \in range THEN Cell(s, b)' ELSE Mem[s][b]]]
    BY CellsOf, Zenon
  <1>6. Mem' = [Mem EXCEPT ![s] =
                 [b \in M!Pages |-> IF b \in range THEN cell(b) ELSE Mem[s][b]]]
    BY <1>3, <1>5, Zenon
  <1> QED
    BY <1>2, <1>4, <1>6, SameCardinality, Zenon DEF M!MapFile, M!SetCells

\* MAP_SHARED of an object: its pages name the object's segments.
LEMMA MmapMemfdSharedSeen ==
  ASSUME IndInv, NEW s \in Spaces, NEW range \in Intervals,
         NEW protection \in Protections, NEW m \in Memfds, NEW off \in Nat,
         MmapMemfdShared(s, range, protection, m, off)
  PROVE  M!MapFile(s, range, protection, TRUE, m, off)
PROOF
  <1> DEFINE back(a) == BackingPage(range, off, a)
             files == {back(a) : a \in range}
  <1>0. TypeOK /\ RefcountExact /\ range \in SUBSET Pages
    BY IntervalPages, Zenon DEF IndInv
  <1>1. /\ s \in live /\ live' = live /\ memfd[m].used
        /\ off + Cardinality(range) <= memfd[m].size
        /\ M!Allowed(range, protection)
    BY AllowedSame, Zenon DEF MmapMemfdShared
  <1>2. PICK h \in Fresh(Holes(m, files)) :
          /\ data' = [f \in Frames |-> IF f \in Drawn(h) THEN Zero ELSE data[f]]
          /\ FillHoles(m, h)
          /\ SetPages(s, range, [a \in range |->
               [frame |-> Backing(m, h, back(a)), protection |-> protection,
                copy_on_write |-> FALSE, shared |-> TRUE]])
    BY Zenon DEF MmapMemfdShared
  <1> DEFINE new(a) == [frame |-> Backing(m, h, back(a)), protection |-> protection,
                        copy_on_write |-> FALSE, shared |-> TRUE]
  <1>3. /\ \A a \in range : back(a) \in FilePages
        /\ files \in SUBSET FilePages
    BY <1>0, <1>1, BackPages, ZenonT(60)
  <1>4. \A t \in Spaces, b \in Pages :
          /\ t # s \/ b \notin range => page'[t][b] = page[t][b]
          /\ t = s /\ b \in range => page'[t][b] = new(b)
    BY <1>0, <1>2, Zenon DEF SetPages, TypeOK
  <1>5. \A a \in range : /\ new(a).frame = Backing(m, h, back(a))
                         /\ new(a).protection = protection /\ new(a).shared = TRUE
    BY Zenon
  <1>6. \A a \in range : back(a) \in files
    BY Zenon
  <1>7. M!FillHoles(m, files)
    BY <1>0, <1>2, <1>3, FillSeen, Zenon
  <1> HIDE DEF new, files
  <1>8. /\ \A i \in FilePages : /\ memfd'[m].frames[i] = Backing(m, h, i)
                                /\ File'[m].segments[i] = Backing(m, h, i)
        /\ \A n \in Memfds \ {m} : memfd'[n] = memfd[n]
    BY <1>0, <1>2, <1>3, FillSeen, ZenonT(60)
  <1>9. \A n \in Memfds, i \in FilePages :
          memfd'[n].frames[i] \in Frames =>
            \/ memfd'[n].frames[i] \in Drawn(h) /\ memfd'[n].frames[i] \in FreeFrames
            \/ memfd'[n].frames[i] \notin FreeFrames /\ IsSegment(memfd'[n].frames[i])
    BY <1>0, <1>3, <1>8, FilledFrames, ZenonT(60)
  <1>10. Drawn(h) \subseteq FreeFrames
    BY DrawnOnce, Zenon
  <1>11. \A f \in Frames \ FreeFrames : data'[f] = data[f]
    BY <1>2, <1>10, Zenon
  <1>12. \A i \in files : Backing(m, h, i) \in Frames
    <2> SUFFICES ASSUME NEW i \in files PROVE Backing(m, h, i) \in Frames
      BY Zenon
    <2>1. DOMAIN h = Holes(m, files) /\ \A j \in Holes(m, files) : h[j] \in Frames
      BY FreshFrames, DrawnOnce, ZenonT(60)
    <2>2. i \in FilePages /\ memfd[m].frames[i] \in Frames \cup {NoFrame}
      BY <1>0, <1>3, Holders, Zenon
    <2> QED
      BY <2>1, <2>2, Zenon DEF Backing, Holes
  <1>13. \A t \in Spaces, b \in Pages : t # s \/ b \notin range => Cell(t, b)' = Cell(t, b)
    <2>1. \A t \in Spaces, b \in Pages : t # s \/ b \notin range => page'[t][b] = page[t][b]
      BY <1>4, Zenon
    <2> QED
      BY <1>0, <1>11, <2>1, OtherCells, Zenon
  <1>14. ASSUME NEW b \in range
         PROVE  Cell(s, b)' = M!Shared(protection, File'[m].segments[back(b)])
    <2>1. b \in Pages /\ page'[s][b] = new(b)
      BY <1>0, <1>4, Zenon
    <2>2. /\ page'[s][b].frame = Backing(m, h, back(b))
          /\ page'[s][b].protection = protection /\ page'[s][b].shared
      BY <1>5, <2>1, Zenon
    <2>3. page'[s][b].frame # NoFrame
      BY <1>6, <1>12, <2>2, FramesAssumption, ZenonT(60)
    <2>4. Cell(s, b)' = M!Shared(protection, Backing(m, h, back(b)))
      BY <2>1, <2>2, <2>3, CellsAfter, ZenonT(60)
    <2> QED
      BY <1>3, <1>8, <2>4, Zenon
  <1>15. ASSUME NEW t \in Spaces, NEW b \in Pages,
                page'[t][b].frame \in Frames, page'[t][b].shared
         PROVE  \/ page'[t][b].frame \in Drawn(h) /\ page'[t][b].frame \in FreeFrames
                \/ page'[t][b].frame \notin FreeFrames /\ IsSegment(page'[t][b].frame)
    <2>1. CASE t = s /\ b \in range
      <3>1. page'[t][b].frame = memfd'[m].frames[back(b)]
        BY <1>3, <1>4, <1>5, <1>8, <2>1, ZenonT(60)
      <3> QED
        BY <1>3, <1>9, <1>15, <2>1, <3>1, ZenonT(60)
    <2>2. CASE t # s \/ b \notin range
      <3>1. page'[t][b] = page[t][b]
        BY <1>4, <2>2, Zenon
      <3>2. Mapped(t, b)
        BY <1>15, <3>1, FramesAssumption, Zenon DEF Mapped
      <3> QED
        BY <1>0, <1>15, <3>1, <3>2, Holders, FreeUnheld, ZenonT(60)
    <2> QED
      BY <2>1, <2>2, Zenon
  <1>16. ASSUME NEW f \in FreeFrames, IsSegment(f)' PROVE data'[f] = Zero
    <2>1. f \in Frames
      BY Zenon DEF FreeFrames
    <2>2. \/ \E n \in Memfds, i \in FilePages : memfd'[n].frames[i] = f
          \/ \E t \in Spaces, b \in Pages : page'[t][b].frame = f /\ page'[t][b].shared
      BY <1>16, <2>1, SegmentsAreNext, ZenonT(60) DEF SegmentsSeen
    <2>3. f \in Drawn(h)
      BY <1>9, <1>15, <2>1, <2>2, ZenonT(60)
    <2> QED
      BY <1>2, <2>1, <2>3, Zenon
  <1>17. M!SetSegments(Segment)
    BY <1>0, <1>9, <1>11, <1>15, <1>16, SegmentStep, ZenonT(60)
  <1>18. \A b \in range : Cell(s, b)' =
           IF TRUE THEN M!Shared(protection, File'[m].segments[BackingPage(range, off, b)])
           ELSE M!Private(protection, M!FileValue(m, BackingPage(range, off, b)))
    BY <1>14, Zenon
  <1>19. M!FillHoles(m, {BackingPage(range, off, a) : a \in range})
    BY <1>7, Zenon DEF files
  <1> QED
    BY <1>0, <1>1, <1>13, <1>17, <1>18, <1>19, MapFileIs, ZenonT(60)

\* What a read of an object's page finds.
LEMMA FileContents ==
  ASSUME TypeOK, NEW m \in Memfds, NEW i \in FilePages
  PROVE  M!FileValue(m, i) =
           IF memfd[m].frames[i] = NoFrame THEN Zero ELSE data[memfd[m].frames[i]]
PROOF
  <1>1. File[m].segments = memfd[m].frames
    BY FileFields, Zenon
  <1>2. memfd[m].frames[i] # NoFrame => Segment[memfd[m].frames[i]] = data[memfd[m].frames[i]]
    BY Holders, SegmentsAre, Zenon DEF SegmentsSeen
  <1> QED
    BY <1>1, <1>2, Zenon DEF M!FileValue

\* MAP_PRIVATE of an object: private copies of what its pages hold.
LEMMA MmapMemfdPrivateSeen ==
  ASSUME IndInv, NEW s \in Spaces, NEW range \in Intervals,
         NEW protection \in Protections, NEW m \in Memfds, NEW off \in Nat,
         MmapMemfdPrivate(s, range, protection, m, off)
  PROVE  M!MapFile(s, range, protection, FALSE, m, off)
PROOF
  <1> DEFINE back(a) == BackingPage(range, off, a)
             files == {back(a) : a \in range}
             contents(g, f) ==
               LET i == back(CHOOSE a \in range : g[a] = f)
               IN IF i \in Holes(m, files) THEN Zero ELSE data[memfd[m].frames[i]]
  <1>0. TypeOK /\ RefcountExact /\ range \in SUBSET Pages
    BY IntervalPages, Zenon DEF IndInv
  <1>1. /\ s \in live /\ live' = live /\ memfd[m].used
        /\ off + Cardinality(range) <= memfd[m].size
        /\ M!Allowed(range, protection)
    BY AllowedSame, Zenon DEF MmapMemfdPrivate
  <1>2. PICK h \in Fresh(Holes(m, files)), g \in Fresh(range) :
          /\ Drawn(h) \cap Drawn(g) = {}
          /\ data' = [f \in Frames |->
               IF f \in Drawn(h) THEN Zero
               ELSE IF f \in Drawn(g) THEN contents(g, f) ELSE data[f]]
          /\ FillHoles(m, h)
          /\ SetPages(s, range, [a \in range |->
               [frame |-> g[a], protection |-> protection,
                copy_on_write |-> FALSE, shared |-> FALSE]])
    BY Zenon DEF MmapMemfdPrivate
  <1> DEFINE new(a) == [frame |-> g[a], protection |-> protection,
                        copy_on_write |-> FALSE, shared |-> FALSE]
  <1>3. /\ \A a \in range : back(a) \in FilePages
        /\ files \in SUBSET FilePages
    BY <1>0, <1>1, BackPages, ZenonT(60)
  <1>4. \A t \in Spaces, b \in Pages :
          /\ t # s \/ b \notin range => page'[t][b] = page[t][b]
          /\ t = s /\ b \in range => page'[t][b] = new(b)
    BY <1>0, <1>2, Zenon DEF SetPages, TypeOK
  <1>5. \A a \in range : /\ new(a).frame = g[a]
                         /\ new(a).protection = protection /\ new(a).shared = FALSE
    BY Zenon
  <1>6. \A a \in range : back(a) \in files
    BY Zenon
  <1>7. M!FillHoles(m, files)
    BY <1>0, <1>2, <1>3, FillSeen, Zenon
  <1>8. \A a \in range : /\ g[a] \in FreeFrames /\ g[a] \in Frames /\ g[a] \in Drawn(g)
                         /\ \A b \in range : g[b] = g[a] => b = a
    BY FreshFrames, Zenon
  <1>9. ASSUME NEW b \in range
        PROVE  data'[g[b]] = M!FileValue(m, back(b))
    <2>1. (CHOOSE a \in range : g[a] = g[b]) = b
      BY <1>8, Zenon
    <2>2. g[b] \in Frames /\ g[b] \notin Drawn(h) /\ g[b] \in Drawn(g)
      BY <1>2, <1>8, Zenon
    <2>3. data'[g[b]] = contents(g, g[b])
      BY <1>2, <2>2, Zenon
    <2>4. contents(g, g[b]) =
            IF back(b) \in Holes(m, files) THEN Zero ELSE data[memfd[m].frames[back(b)]]
      BY <2>1, Zenon
    <2>5. back(b) \in Holes(m, files) <=> memfd[m].frames[back(b)] = NoFrame
      BY <1>6, Zenon DEF Holes
    <2> HIDE DEF contents
    <2> QED
      BY <1>0, <1>3, <2>3, <2>4, <2>5, FileContents, ZenonT(60)
  <1> HIDE DEF new, files, contents
  <1>10. /\ \A i \in FilePages : memfd'[m].frames[i] = Backing(m, h, i)
         /\ \A n \in Memfds \ {m} : memfd'[n] = memfd[n]
    BY <1>0, <1>2, <1>3, FillSeen, ZenonT(60)
  <1>11. \A n \in Memfds, i \in FilePages :
           memfd'[n].frames[i] \in Frames =>
             \/ memfd'[n].frames[i] \in Drawn(h) /\ memfd'[n].frames[i] \in FreeFrames
             \/ memfd'[n].frames[i] \notin FreeFrames /\ IsSegment(memfd'[n].frames[i])
    BY <1>0, <1>3, <1>10, FilledFrames, Zenon
  <1>12. Drawn(h) \subseteq FreeFrames /\ Drawn(g) \subseteq FreeFrames
    BY DrawnOnce, Zenon
  <1>13. \A f \in Frames \ FreeFrames : data'[f] = data[f]
    BY <1>2, <1>12, Zenon
  <1>14. \A t \in Spaces, b \in Pages : t # s \/ b \notin range => Cell(t, b)' = Cell(t, b)
    <2>1. \A t \in Spaces, b \in Pages : t # s \/ b \notin range => page'[t][b] = page[t][b]
      BY <1>4, Zenon
    <2> QED
      BY <1>0, <1>13, <2>1, OtherCells, Zenon
  <1>15. ASSUME NEW b \in range
         PROVE  Cell(s, b)' = M!Private(protection, M!FileValue(m, back(b)))
    <2>1. b \in Pages /\ page'[s][b] = new(b)
      BY <1>0, <1>4, Zenon
    <2>2. /\ page'[s][b].frame = g[b]
          /\ page'[s][b].protection = protection /\ ~page'[s][b].shared
      BY <1>5, <2>1, Zenon
    <2>3. page'[s][b].frame # NoFrame
      BY <1>8, <2>2, FramesAssumption, Zenon
    <2>4. Cell(s, b)' = M!Private(protection, data'[g[b]])
      BY <2>1, <2>2, <2>3, CellsAfter, ZenonT(60)
    <2> QED
      BY <1>9, <2>4, Zenon
  <1>16. ASSUME NEW t \in Spaces, NEW b \in Pages,
                page'[t][b].frame \in Frames, page'[t][b].shared
         PROVE  page'[t][b].frame \notin FreeFrames /\ IsSegment(page'[t][b].frame)
    <2>1. ~(t = s /\ b \in range)
      BY <1>4, <1>5, <1>16, ZenonT(60)
    <2>2. page'[t][b] = page[t][b]
      BY <1>4, <2>1, Zenon
    <2>3. Mapped(t, b)
      BY <1>16, <2>2, FramesAssumption, Zenon DEF Mapped
    <2> QED
      BY <1>0, <1>16, <2>2, <2>3, Holders, FreeUnheld, ZenonT(60)
  <1>17. ASSUME NEW f \in FreeFrames, IsSegment(f)' PROVE data'[f] = Zero
    <2>1. f \in Frames
      BY Zenon DEF FreeFrames
    <2>2. \/ \E n \in Memfds, i \in FilePages : memfd'[n].frames[i] = f
          \/ \E t \in Spaces, b \in Pages : page'[t][b].frame = f /\ page'[t][b].shared
      BY <1>17, <2>1, SegmentsAreNext, ZenonT(60) DEF SegmentsSeen
    <2>3. f \in Drawn(h)
      BY <1>11, <1>16, <2>1, <2>2, ZenonT(60)
    <2> QED
      BY <1>2, <2>1, <2>3, Zenon
  <1>18. M!SetSegments(Segment)
    BY <1>0, <1>11, <1>13, <1>16, <1>17, SegmentStep, ZenonT(60)
  <1>19. \A b \in range : Cell(s, b)' =
           IF FALSE THEN M!Shared(protection, File'[m].segments[BackingPage(range, off, b)])
           ELSE M!Private(protection, M!FileValue(m, BackingPage(range, off, b)))
    BY <1>15, Zenon
  <1>20. M!FillHoles(m, {BackingPage(range, off, a) : a \in range})
    BY <1>7, Zenon DEF files
  <1> QED
    BY <1>0, <1>1, <1>14, <1>18, <1>19, <1>20, MapFileIs, ZenonT(60)

-----------------------------------------------------------------------------
(* mprotect, brk, faults and stores *)

\* Changing one field of a cell.
LEMMA CellChanges ==
  \A p, q, x, v :
    /\ [M!Private(p, x) EXCEPT !.protection = q] = M!Private(q, x)
    /\ [M!Shared(p, x) EXCEPT !.protection = q] = M!Shared(q, x)
    /\ [M!Private(p, x) EXCEPT !.value = v] = M!Private(p, v)
PROOF
  BY DEF M!Private, M!Shared

\* Sharing stays as it is: no segment comes, goes or changes.
LEMMA SegmentsFixed ==
  ASSUME \A t \in Spaces, b \in Pages, f \in Frames :
           (page'[t][b].frame = f /\ page'[t][b].shared) <=>
             (page[t][b].frame = f /\ page[t][b].shared),
         memfd' = memfd,
         \A f \in Frames : IsSegment(f) => data'[f] = data[f]
  PROVE  Segment' = Segment
PROOF
  <1>1. ASSUME NEW f \in Frames
        PROVE  IsSegment(f)' <=> IsSegment(f)
    <2>1. IsSegment(f) <=>
            \/ \E m \in Memfds, i \in FilePages : memfd[m].frames[i] = f
            \/ \E s \in Spaces, a \in Pages : page[s][a].frame = f /\ page[s][a].shared
      BY SegmentsAre, Zenon DEF SegmentsSeen
    <2>2. IsSegment(f)' <=>
            \/ \E m \in Memfds, i \in FilePages : memfd'[m].frames[i] = f
            \/ \E s \in Spaces, a \in Pages : page'[s][a].frame = f /\ page'[s][a].shared
      BY SegmentsAreNext, Zenon DEF SegmentsSeen
    <2>3. (\E s \in Spaces, a \in Pages : page'[s][a].frame = f /\ page'[s][a].shared) <=>
            (\E s \in Spaces, a \in Pages : page[s][a].frame = f /\ page[s][a].shared)
      <3>1. ASSUME NEW s \in Spaces, NEW a \in Pages
            PROVE  (page'[s][a].frame = f /\ page'[s][a].shared) <=>
                     (page[s][a].frame = f /\ page[s][a].shared)
        BY Zenon
      <3> QED
        BY <3>1, Zenon
    <2>4. (\E m \in Memfds, i \in FilePages : memfd'[m].frames[i] = f) <=>
            (\E m \in Memfds, i \in FilePages : memfd[m].frames[i] = f)
      BY ZenonT(60)
    <2> QED
      BY <2>1, <2>2, <2>3, <2>4, ZenonT(60)
  <1> QED
    BY <1>1, SegmentsSame, Zenon

\* A page that only changes its protection.
LEMMA CellReprotected ==
  ASSUME NEW s \in Spaces, NEW a \in Pages, NEW protection, Mapped(s, a),
         page'[s][a].frame = page[s][a].frame,
         page'[s][a].shared = page[s][a].shared,
         page'[s][a].protection = protection,
         ~page[s][a].shared => data'[page[s][a].frame] = data[page[s][a].frame]
  PROVE  /\ Cell(s, a)' = [Mem[s][a] EXCEPT !.protection = protection]
         /\ Mem[s][a].kind # "none"
PROOF
  <1>1. Mem[s][a] = Cell(s, a) /\ Mem[s][a].kind # "none"
    BY CellsAre, Zenon DEF CellsSeen
  <1>2. page'[s][a].frame # NoFrame
    BY Zenon DEF Mapped
  <1>3. CASE page[s][a].shared
    <2>1. Cell(s, a) = M!Shared(page[s][a].protection, page[s][a].frame)
      BY <1>3, CellsAre, Zenon DEF CellsSeen
    <2>2. Cell(s, a)' = M!Shared(protection, page[s][a].frame)
      BY <1>2, <1>3, CellsAfter, Zenon
    <2>3. [Mem[s][a] EXCEPT !.protection = protection] =
            [M!Shared(page[s][a].protection, page[s][a].frame) EXCEPT !.protection = protection]
      BY <1>1, <2>1, ZenonT(60)
    <2>4. [Mem[s][a] EXCEPT !.protection = protection] = M!Shared(protection, page[s][a].frame)
      BY <2>3, CellChanges
    <2> QED
      BY <1>1, <2>2, <2>4, Zenon
  <1>4. CASE ~page[s][a].shared
    <2>1. Cell(s, a) = M!Private(page[s][a].protection, data[page[s][a].frame])
      BY <1>4, CellsAre, Zenon DEF CellsSeen
    <2>2. Cell(s, a)' = M!Private(protection, data[page[s][a].frame])
      BY <1>2, <1>4, CellsAfter, Zenon
    <2>3. [Mem[s][a] EXCEPT !.protection = protection] =
            [M!Private(page[s][a].protection, data[page[s][a].frame])
               EXCEPT !.protection = protection]
      BY <1>1, <2>1, ZenonT(60)
    <2>4. [Mem[s][a] EXCEPT !.protection = protection] =
            M!Private(protection, data[page[s][a].frame])
      BY <2>3, CellChanges, SMTT(60)
    <2> QED
      BY <1>1, <2>2, <2>4, Zenon
  <1> QED
    BY <1>1, <1>3, <1>4, Zenon

\* mprotect changes protections and nothing else that programs see.
LEMMA MprotectSeen ==
  ASSUME IndInv, NEW s \in Spaces, NEW range \in Intervals, NEW protection \in Protections,
         Mprotect(s, range, protection)
  PROVE  M!Protect(s, range, protection)
PROOF
  <1> DEFINE rec == [a \in range |-> Reprotected(page[s][a], protection)]
  <1>0. TypeOK /\ RefcountExact /\ range \in SUBSET Pages
    BY IntervalPages, Zenon DEF IndInv
  <1>1. /\ s \in live /\ ~WriteExec(protection) /\ \A a \in range : Mapped(s, a)
        /\ data' = data /\ live' = live /\ memfd' = memfd
        /\ SetPages(s, range, rec)
    BY Zenon DEF Mprotect
  <1>2. protection \in SUBSET {"R", "W", "X"}
    BY ProtectionsAssumption, Zenon
  <1>3. \A t \in Spaces, b \in Pages : page[t][b] \in PageRecords
    BY <1>0, Zenon DEF TypeOK
  <1>4. \A t \in Spaces, b \in Pages :
          /\ t # s \/ b \notin range => page'[t][b] = page[t][b]
          /\ t = s /\ b \in range => page'[t][b] = Reprotected(page[s][b], protection)
    BY <1>0, <1>1, Zenon DEF SetPages, TypeOK
  <1>5. ASSUME NEW b \in range
        PROVE  /\ page'[s][b].frame = page[s][b].frame
               /\ page'[s][b].shared = page[s][b].shared
               /\ page'[s][b].protection = protection
    <2>1. b \in Pages /\ page[s][b] \in PageRecords
          /\ page'[s][b] = Reprotected(page[s][b], protection)
      BY <1>0, <1>3, <1>4, Zenon
    <2>2. /\ Reprotected(page[s][b], protection).frame = page[s][b].frame
          /\ Reprotected(page[s][b], protection).shared = page[s][b].shared
      BY <1>2, <2>1, ReprotectedFields, Zenon
    <2>3. Reprotected(page[s][b], protection).protection = protection
      BY <2>1, RecordProtections, Zenon
    <2> QED
      BY <2>1, <2>2, <2>3, Zenon
  <1>6. \A t \in Spaces, b \in Pages : t # s \/ b \notin range => Cell(t, b)' = Cell(t, b)
    <2>1. \A t \in Spaces, b \in Pages : t # s \/ b \notin range => page'[t][b] = page[t][b]
      BY <1>4, Zenon
    <2>2. \A f \in Frames \ FreeFrames : data'[f] = data[f]
      BY <1>1, Zenon
    <2> QED
      BY <1>0, <2>1, <2>2, OtherCells, Zenon
  <1>7. \A b \in range : /\ Cell(s, b)' = [Mem[s][b] EXCEPT !.protection = protection]
                         /\ Mem[s][b].kind # "none"
    BY <1>0, <1>1, <1>5, CellReprotected, ZenonT(60)
  <1>8. Mem' = [Mem EXCEPT ![s] =
                 [b \in M!Pages |-> IF b \in range THEN Cell(s, b)' ELSE Mem[s][b]]]
    BY <1>6, CellsOf, Zenon
  <1>9. M!SetCells(s, range, LAMBDA a : [Mem[s][a] EXCEPT !.protection = protection])
    BY <1>7, <1>8, Zenon DEF M!SetCells
  <1>10. Segment' = Segment
    <2>1. \A t \in Spaces, b \in Pages, f \in Frames :
            (page'[t][b].frame = f /\ page'[t][b].shared) <=>
              (page[t][b].frame = f /\ page[t][b].shared)
      BY <1>4, <1>5, ZenonT(60)
    <2> QED
      BY <1>1, <2>1, SegmentsFixed, Zenon
  <1>11. File' = File
    BY <1>1, Zenon DEF File
  <1> QED
    BY <1>1, <1>7, <1>9, <1>10, <1>11, ZenonT(60) DEF M!Protect, WriteExec

\* Missing pages of the heap or of the stack appear zeroed.
LEMMA MapMissingSeen ==
  ASSUME IndInv, NEW s \in Spaces, NEW range \in SUBSET Pages,
         \A a \in range : a < MmapBase \/ a \in StackPages, s \in live,
         MapMissing(s, range, {"R", "W"}), live' = live, memfd' = memfd
  PROVE  M!Extend(s, range)
PROOF
  <1> DEFINE rw == {"R", "W"}
             S == {a \in range : ~Mapped(s, a)}
  <1>0. TypeOK /\ RefcountExact
    BY Zenon DEF IndInv
  <1>1. PICK g \in Fresh(S) :
     /\ data' = [f \in Frames |-> IF f \in Drawn(g) THEN Zero ELSE data[f]]
     /\ SetPages(s, range, [a \in range |->
          IF Mapped(s, a) THEN Reprotected(page[s][a], rw)
          ELSE [frame |-> g[a], protection |-> rw,
                copy_on_write |-> FALSE, shared |-> FALSE]])
    BY Zenon DEF MapMissing
  <1> DEFINE new(a) == [frame |-> g[a], protection |-> rw,
                        copy_on_write |-> FALSE, shared |-> FALSE]
  <1>2. \A t \in Spaces, b \in Pages :
          /\ t # s \/ b \notin range => page'[t][b] = page[t][b]
          /\ t = s /\ b \in range =>
               page'[t][b] = IF Mapped(s, b) THEN Reprotected(page[s][b], rw) ELSE new(b)
    BY <1>0, <1>1, Zenon DEF SetPages, TypeOK
  <1>3. \A a \in range : new(a).frame = g[a] /\ new(a).protection = rw
                         /\ new(a).shared = FALSE
    BY Zenon
  <1>4. rw \in SUBSET {"R", "W", "X"}
    BY Zenon
  <1>5. \A a \in S : g[a] \in FreeFrames /\ g[a] \in Frames /\ g[a] \in Drawn(g)
    BY FreshFrames, Zenon
  <1>6. Drawn(g) \subseteq FreeFrames
    BY DrawnOnce, Zenon
  <1>7. \A f \in Frames \ FreeFrames : data'[f] = data[f]
    BY <1>1, <1>6, Zenon
  <1>8. \A b \in S : data'[g[b]] = Zero
    BY <1>1, <1>5, Zenon
  <1>9. \A b \in range : ~Mapped(s, b) => b \in S
    BY Zenon
  <1> HIDE DEF new, rw, S
  <1>10. ASSUME NEW b \in range, Mapped(s, b)
         PROVE  /\ page'[s][b].frame = page[s][b].frame
                /\ page'[s][b].shared = page[s][b].shared
                /\ page'[s][b].protection = rw
    <2>1. b \in Pages /\ page[s][b] \in PageRecords
          /\ page'[s][b] = Reprotected(page[s][b], rw)
      BY <1>0, <1>2, <1>10, Zenon DEF TypeOK
    <2>2. /\ Reprotected(page[s][b], rw).frame = page[s][b].frame
          /\ Reprotected(page[s][b], rw).shared = page[s][b].shared
      BY <1>4, <2>1, ReprotectedFields, Zenon
    <2>3. Reprotected(page[s][b], rw).protection = rw
      BY <2>1, RecordProtections, Zenon
    <2> QED
      BY <2>1, <2>2, <2>3, ZenonT(60)
  <1>11. ASSUME NEW b \in range, ~Mapped(s, b)
         PROVE  /\ page'[s][b].frame = g[b] /\ g[b] \in FreeFrames /\ g[b] # NoFrame
                /\ page'[s][b].protection = rw /\ ~page'[s][b].shared
                /\ data'[page'[s][b].frame] = Zero
    <2>1. page'[s][b] = new(b)
      BY <1>2, <1>11, Zenon
    <2>2. b \in S /\ g[b] \in FreeFrames /\ g[b] # NoFrame /\ data'[g[b]] = Zero
      BY <1>5, <1>8, <1>9, <1>11, FramesAssumption, ZenonT(60)
    <2>3. /\ page'[s][b].frame = g[b]
          /\ page'[s][b].protection = rw /\ page'[s][b].shared = FALSE
      BY <1>3, <2>1, Zenon
    <2> QED
      BY <2>2, <2>3, Zenon
  <1>12. \A t \in Spaces, b \in Pages : t # s \/ b \notin range => Cell(t, b)' = Cell(t, b)
    <2>1. \A t \in Spaces, b \in Pages : t # s \/ b \notin range => page'[t][b] = page[t][b]
      BY <1>2, Zenon
    <2> QED
      BY <1>0, <1>7, <2>1, OtherCells, ZenonT(60)
  <1>13. ASSUME NEW b \in range
         PROVE  Cell(s, b)' = IF Mem[s][b].kind = "none" THEN M!Private(rw, Zero)
                              ELSE [Mem[s][b] EXCEPT !.protection = rw]
    <2>0. b \in Pages
      BY Zenon
    <2>1. CASE Mapped(s, b)
      <3>1. page[s][b].frame \in Frames \ FreeFrames
        BY <1>0, <2>1, Holders, FreeUnheld, ZenonT(60)
      <3>2. /\ Cell(s, b)' = [Mem[s][b] EXCEPT !.protection = rw]
            /\ Mem[s][b].kind # "none"
        <4>1. /\ page'[s][b].frame = page[s][b].frame
              /\ page'[s][b].shared = page[s][b].shared
              /\ page'[s][b].protection = rw
          BY <1>10, <2>1, Zenon
        <4>2. data'[page[s][b].frame] = data[page[s][b].frame]
          BY <1>7, <3>1, Zenon
        <4> QED
          BY <2>0, <2>1, <4>1, <4>2, CellReprotected, ZenonT(60)
      <3> QED
        BY <3>2, Zenon
    <2>2. CASE ~Mapped(s, b)
      <3>1. Mem[s][b].kind = "none"
        <4>1. Mem[s][b] = Cell(s, b) /\ Cell(s, b).kind = "none"
          BY <2>0, <2>2, CellsAre, Zenon DEF CellsSeen
        <4> QED
          BY <4>1, Zenon
      <3>2. Cell(s, b)' = M!Private(rw, Zero)
        <4>1. /\ page'[s][b].frame # NoFrame /\ page'[s][b].protection = rw
              /\ ~page'[s][b].shared /\ data'[page'[s][b].frame] = Zero
          BY <1>11, <2>2, Zenon
        <4> QED
          BY <2>0, <4>1, CellsAfter, Zenon
      <3> QED
        BY <3>1, <3>2, Zenon
    <2> QED
      BY <2>1, <2>2, Zenon
  <1>14. Mem' = [Mem EXCEPT ![s] =
                 [b \in M!Pages |-> IF b \in range THEN Cell(s, b)' ELSE Mem[s][b]]]
    BY <1>12, CellsOf, Zenon
  <1>15. M!SetCells(s, range, LAMBDA a :
           IF Mem[s][a].kind = "none" THEN M!Private(rw, Zero)
           ELSE [Mem[s][a] EXCEPT !.protection = rw])
    BY <1>13, <1>14, Zenon DEF M!SetCells
  <1>16. Segment' = Segment
    <2>1. ASSUME NEW t \in Spaces, NEW b \in Pages, NEW f \in Frames
          PROVE  (page'[t][b].frame = f /\ page'[t][b].shared) <=>
                   (page[t][b].frame = f /\ page[t][b].shared)
      <3>1. CASE t # s \/ b \notin range
        BY <1>2, <3>1, Zenon
      <3>2. CASE t = s /\ b \in range /\ Mapped(s, b)
        BY <1>10, <3>2, Zenon
      <3>3. CASE t = s /\ b \in range /\ ~Mapped(s, b)
        BY <1>11, <3>3, FramesAssumption, Zenon DEF Mapped
      <3> QED
        BY <3>1, <3>2, <3>3, Zenon
    <2>2. \A f \in Frames : IsSegment(f) => data'[f] = data[f]
      BY <1>0, <1>7, FreeUnseen, Zenon
    <2> QED
      BY <2>1, <2>2, SegmentsFixed, Zenon
  <1>17. File' = File
    BY Zenon DEF File
  <1>18. \A a \in range : a < MmapBase \/ a \in M!StackPages
    BY SameSets, Zenon
  <1> QED
    BY <1>15, <1>16, <1>17, <1>18, ZenonT(60) DEF M!Extend, rw

\* The frames a store goes to: for a shared page its own, for a private page
\* one that no other page and no object holds.
Targets(s, set, target) ==
  \A a \in set :
    /\ Mapped(s, a) /\ "W" \in page[s][a].protection /\ target[a] \in Frames
    /\ page[s][a].shared => target[a] = page[s][a].frame
    /\ ~page[s][a].shared =>
         /\ \A t \in Spaces, b \in Pages : page[t][b].frame = target[a] => t = s /\ b = a
         /\ \A m \in Memfds, i \in FilePages : memfd[m].frames[i] # target[a]

\* The stored pages keep their protection and role.
Stores(s, set, target, v) ==
  /\ \A t \in Spaces, b \in Pages : t # s \/ b \notin set => page'[t][b] = page[t][b]
  /\ \A a \in set : /\ page'[s][a].frame = target[a]
                    /\ page'[s][a].protection = page[s][a].protection
                    /\ page'[s][a].shared = page[s][a].shared
                    /\ data'[target[a]] = v
  /\ \A f \in Frames : (\A a \in set : f # target[a]) => data'[f] = data[f]
  /\ live' = live /\ memfd' = memfd

\* A store to such frames is seen at the pages of set and through the segments
\* they share, and nowhere else.
LEMMA WriteSeen ==
  ASSUME IndInv, NEW s \in live, NEW set \in SUBSET Pages, NEW v, NEW target,
         Targets(s, set, target), Stores(s, set, target, v)
  PROVE  M!Write(s, set, v)
PROOF
  <1>0. TypeOK /\ FrameRoles /\ s \in Spaces
    BY Zenon DEF IndInv, TypeOK
  <1>1. \A t \in Spaces, b \in Pages : Mapped(t, b) => page[t][b].frame \in Frames
    BY <1>0, Holders, Zenon
  <1>2. ASSUME NEW a \in set
        PROVE  /\ a \in Pages /\ Mapped(s, a) /\ "W" \in page[s][a].protection
               /\ page'[s][a].frame # NoFrame
               /\ page'[s][a].frame = target[a]
               /\ page'[s][a].protection = page[s][a].protection
               /\ page'[s][a].shared = page[s][a].shared
               /\ data'[page'[s][a].frame] = v
    <2>1. Mapped(s, a) /\ "W" \in page[s][a].protection /\ target[a] \in Frames
      BY Zenon DEF Targets
    <2>2. /\ page'[s][a].frame = target[a]
          /\ page'[s][a].protection = page[s][a].protection
          /\ page'[s][a].shared = page[s][a].shared
          /\ data'[target[a]] = v
      BY Zenon DEF Stores
    <2>3. target[a] # NoFrame /\ a \in Pages
      BY <2>1, FramesAssumption, Zenon
    <2> QED
      BY <2>1, <2>2, <2>3, Zenon
  <1>3. ASSUME NEW a \in set, page[s][a].shared
        PROVE  /\ Cell(s, a)' = Mem[s][a]
               /\ Mem[s][a].kind = "shared" /\ Mem[s][a].segment = page[s][a].frame
               /\ target[a] = page[s][a].frame
               /\ Mem[s][a].protection = page[s][a].protection
    <2>1. target[a] = page[s][a].frame
      BY <1>3, Zenon DEF Targets
    <2>2. Mem[s][a] = M!Shared(page[s][a].protection, page[s][a].frame)
      BY <1>0, <1>2, <1>3, CellsAre, ZenonT(60) DEF CellsSeen
    <2>3. Cell(s, a)' = M!Shared(page'[s][a].protection, page'[s][a].frame)
      BY <1>0, <1>2, <1>3, CellsAfter, ZenonT(60)
    <2>4. Cell(s, a)' = Mem[s][a]
      BY <1>2, <2>1, <2>2, <2>3, ZenonT(60)
    <2>5. /\ Mem[s][a].kind = "shared" /\ Mem[s][a].segment = page[s][a].frame
          /\ Mem[s][a].protection = page[s][a].protection
      BY <2>2 DEF M!Shared
    <2> QED
      BY <2>1, <2>4, <2>5, Zenon
  <1>4. ASSUME NEW a \in set, ~page[s][a].shared
        PROVE  /\ Cell(s, a)' = [Mem[s][a] EXCEPT !.value = v]
               /\ Mem[s][a].kind = "private"
               /\ Mem[s][a].protection = page[s][a].protection
    <2>1. Mem[s][a] = M!Private(page[s][a].protection, data[page[s][a].frame])
      BY <1>0, <1>2, <1>4, CellsAre, ZenonT(60) DEF CellsSeen
    <2>2. Cell(s, a)' = M!Private(page'[s][a].protection, data'[page'[s][a].frame])
      BY <1>0, <1>2, <1>4, CellsAfter, ZenonT(60)
    <2>3. Cell(s, a)' = M!Private(page[s][a].protection, v)
      BY <1>2, <2>2, Zenon
    <2>4. [Mem[s][a] EXCEPT !.value = v] =
            [M!Private(page[s][a].protection, data[page[s][a].frame]) EXCEPT !.value = v]
      BY <2>1, ZenonT(60)
    <2>5. [Mem[s][a] EXCEPT !.value = v] = M!Private(page[s][a].protection, v)
      BY <2>4, CellChanges, SMTT(60)
    <2>6. Mem[s][a].kind = "private" /\ Mem[s][a].protection = page[s][a].protection
      BY <2>1 DEF M!Private
    <2> QED
      BY <2>3, <2>5, <2>6, Zenon
  <1>5. ASSUME NEW t \in Spaces, NEW b \in Pages, t # s \/ b \notin set
        PROVE  Cell(t, b)' = Cell(t, b)
    <2>1. page'[t][b] = page[t][b]
      BY <1>5, Zenon DEF Stores
    <2>2. ASSUME Mapped(t, b), ~page[t][b].shared
          PROVE  data'[page[t][b].frame] = data[page[t][b].frame]
      <3>1. ASSUME NEW a \in set, page[t][b].frame = target[a] PROVE FALSE
        <4>1. CASE ~page[s][a].shared
          BY <1>5, <3>1, <4>1, Zenon DEF Targets
        <4>2. CASE page[s][a].shared
          <5>1. page[s][a].frame = page[t][b].frame /\ a \in Pages
            BY <1>3, <3>1, <4>2, Zenon
          <5> QED
            <6>1. \A x, y \in Spaces, c, d \in Pages :
                    Mapped(x, c) /\ page[x][c].frame = page[y][d].frame =>
                      page[x][c].shared = page[y][d].shared
              BY <1>0 DEF FrameRoles
            <6>2. page[t][b].shared = page[s][a].shared
              BY <1>0, <2>2, <5>1, <6>1, ZenonT(60)
            <6> QED
              BY <2>2, <4>2, <6>2, ZenonT(60)
        <4> QED
          BY <4>1, <4>2, Zenon
      <3>2. page[t][b].frame \in Frames
        BY <1>1, <2>2, Zenon
      <3> QED
        BY <3>1, <3>2, Zenon DEF Stores
    <2> QED
      BY <2>1, <2>2, CellKept, Zenon DEF Mapped
  <1>6. Mem' = [Mem EXCEPT ![s] =
                 [b \in M!Pages |-> IF b \in set THEN Cell(s, b)' ELSE Mem[s][b]]]
    BY <1>0, <1>5, CellsOf, Zenon
  <1>7. \A a \in set : Cell(s, a)' = IF Mem[s][a].kind = "private"
                                     THEN [Mem[s][a] EXCEPT !.value = v] ELSE Mem[s][a]
    <2> SUFFICES ASSUME NEW a \in set
        PROVE  Cell(s, a)' = IF Mem[s][a].kind = "private"
                             THEN [Mem[s][a] EXCEPT !.value = v] ELSE Mem[s][a]
      BY Zenon
    <2>1. CASE page[s][a].shared
      <3>1. Cell(s, a)' = Mem[s][a] /\ Mem[s][a].kind = "shared"
        BY <1>3, <2>1, Zenon
      <3>2. Mem[s][a].kind # "private"
        BY <3>1, Kinds, Zenon
      <3> QED
        BY <3>1, <3>2, Zenon
    <2>2. CASE ~page[s][a].shared
      <3>1. Cell(s, a)' = [Mem[s][a] EXCEPT !.value = v] /\ Mem[s][a].kind = "private"
        BY <1>4, <2>2, Zenon
      <3> QED
        BY <3>1, Zenon
    <2> QED
      BY <2>1, <2>2, Zenon
  <1>8. M!SetCells(s, set, LAMBDA a :
          IF Mem[s][a].kind = "private" THEN [Mem[s][a] EXCEPT !.value = v] ELSE Mem[s][a])
    BY <1>6, <1>7, Zenon DEF M!SetCells
  <1>9. \A a \in set : M!Writable(s, a)
    <2> SUFFICES ASSUME NEW a \in set PROVE M!Writable(s, a)
      BY Zenon
    <2>1. Mem[s][a].kind \in {"shared", "private"}
          /\ Mem[s][a].protection = page[s][a].protection
      BY <1>3, <1>4, Zenon
    <2> QED
      BY <1>2, <2>1, Kinds, Zenon DEF M!Writable
  <1>10. ASSUME NEW f \in Frames
         PROVE  Segment'[f] =
                  IF \E a \in set : Mem[s][a].kind = "shared" /\ Mem[s][a].segment = f
                  THEN v ELSE Segment[f]
    <2>1. /\ Segment[f] = IF IsSegment(f) THEN data[f] ELSE Zero
          /\ IsSegment(f) <=>
               \/ \E m \in Memfds, i \in FilePages : memfd[m].frames[i] = f
               \/ \E t \in Spaces, b \in Pages : page[t][b].frame = f /\ page[t][b].shared
      BY SegmentsAre, Zenon DEF SegmentsSeen
    <2>2. /\ Segment'[f] = IF IsSegment(f)' THEN data'[f] ELSE Zero
          /\ IsSegment(f)' <=>
               \/ \E m \in Memfds, i \in FilePages : memfd'[m].frames[i] = f
               \/ \E t \in Spaces, b \in Pages : page'[t][b].frame = f /\ page'[t][b].shared
      BY SegmentsAreNext, Zenon DEF SegmentsSeen
    <2>3. ASSUME NEW t \in Spaces, NEW b \in Pages
          PROVE  (page'[t][b].frame = f /\ page'[t][b].shared) <=>
                   (page[t][b].frame = f /\ page[t][b].shared)
      <3>1. CASE t = s /\ b \in set
        <4>1. page'[s][b].shared = page[s][b].shared /\ page'[s][b].frame = target[b]
          BY <1>2, <3>1, Zenon
        <4>2. page[s][b].shared => target[b] = page[s][b].frame
          BY <1>3, <3>1, Zenon
        <4> QED
          BY <3>1, <4>1, <4>2, Zenon
      <3>2. CASE t # s \/ b \notin set
        BY <3>2, ZenonT(60) DEF Stores
      <3> QED
        BY <3>1, <3>2, Zenon
    <2>4. memfd' = memfd
      BY Zenon DEF Stores
    <2>5. IsSegment(f)' <=> IsSegment(f)
      <3>1. (\E t \in Spaces, b \in Pages : page'[t][b].frame = f /\ page'[t][b].shared) <=>
              (\E t \in Spaces, b \in Pages : page[t][b].frame = f /\ page[t][b].shared)
        BY <2>3, Zenon
      <3>2. (\E m \in Memfds, i \in FilePages : memfd'[m].frames[i] = f) <=>
              (\E m \in Memfds, i \in FilePages : memfd[m].frames[i] = f)
        BY <2>4, Zenon
      <3> QED
        BY <2>1, <2>2, <3>1, <3>2, ZenonT(60)
    <2>6. CASE \E a \in set : Mem[s][a].kind = "shared" /\ Mem[s][a].segment = f
      <3>1. PICK a \in set : Mem[s][a].kind = "shared" /\ Mem[s][a].segment = f
        BY <2>6, Zenon
      <3>2. page[s][a].shared
        BY <1>4, <3>1, Kinds, Zenon
      <3>3. page[s][a].frame = f /\ target[a] = f /\ a \in Pages
        BY <1>3, <3>1, <3>2, ZenonT(60)
      <3>4. IsSegment(f) /\ data'[f] = v
        BY <1>0, <2>1, <3>2, <3>3, ZenonT(60) DEF Stores
      <3> QED
        BY <2>2, <2>5, <2>6, <3>4, ZenonT(60)
    <2>7. CASE ~\E a \in set : Mem[s][a].kind = "shared" /\ Mem[s][a].segment = f
      <3>1. ASSUME IsSegment(f), NEW a \in set, f = target[a] PROVE FALSE
        <4>1. ~page[s][a].shared
          BY <1>3, <2>7, <3>1, ZenonT(60)
        <4>2. /\ \A t \in Spaces, b \in Pages : page[t][b].frame = f => t = s /\ b = a
              /\ \A m \in Memfds, i \in FilePages : memfd[m].frames[i] # f
          BY <3>1, <4>1, Zenon DEF Targets
        <4> QED
          BY <2>1, <3>1, <4>1, <4>2, ZenonT(60)
      <3>2. IsSegment(f) => data'[f] = data[f]
        BY <3>1, Zenon DEF Stores
      <3> QED
        BY <2>1, <2>2, <2>5, <2>7, <3>2, Zenon
    <2> QED
      BY <2>6, <2>7, Zenon
  <1>11. Segment' = [f \in Frames |->
           IF \E a \in set : Mem[s][a].kind = "shared" /\ Mem[s][a].segment = f
           THEN v ELSE Segment[f]]
    <2>1. Segment' = [f \in Frames |-> Segment'[f]]
      BY Zenon DEF Segment
    <2> QED
      BY <1>10, <2>1, Zenon
  <1>12. File' = File /\ live' = live
    BY Zenon DEF File, Stores
  <1> QED
    BY <1>8, <1>9, <1>11, <1>12, ZenonT(60) DEF M!Write

\* A writable private page that is not marked copy-on-write has its frame to
\* itself.
LEMMA ExclusiveHolder ==
  ASSUME IndInv, NEW s \in Spaces, NEW a \in Pages, Exclusive(page[s][a])
  PROVE  /\ \A t \in Spaces, b \in Pages :
              page[t][b].frame = page[s][a].frame => t = s /\ b = a
         /\ \A m \in Memfds, i \in FilePages : memfd[m].frames[i] # page[s][a].frame
PROOF
  <1>1. page \in [Spaces -> [Pages -> PageRecords]] /\ EntriesMatch /\ WriteIsolation
    BY Zenon DEF IndInv, TypeOK
  <1> QED
    BY <1>1, IsolationByRecord, Zenon

\* A user store through a writable entry.
LEMMA UserWriteSeen ==
  ASSUME IndInv, NEW s \in Spaces, NEW a \in Pages, NEW v \in Values, UserWrite(s, a, v)
  PROVE  M!Write(s, {a}, v)
PROOF
  <1> DEFINE target == [b \in {a} |-> page[s][a].frame]
  <1>0. /\ TypeOK /\ EntriesMatch /\ page[s][a] \in PageRecords
        /\ page \in [Spaces -> [Pages -> PageRecords]]
    BY Zenon DEF IndInv, TypeOK
  <1>1. entry[s][a] = page_flags(page[s][a])
    BY <1>0, Zenon DEF EntriesMatch
  <1>2. /\ entry[s][a].frame = page[s][a].frame
        /\ entry[s][a].write => "W" \in page[s][a].protection /\ ~page[s][a].copy_on_write
    BY <1>0, <1>1, FlagsFields, Zenon
  <1>3. /\ s \in live /\ Mapped(s, a) /\ "W" \in page[s][a].protection
        /\ ~page[s][a].copy_on_write
        /\ data' = [data EXCEPT ![page[s][a].frame] = v]
        /\ live' = live /\ page' = page /\ memfd' = memfd
    BY <1>2, Zenon DEF UserWrite, Mapped
  <1>4. page[s][a].frame \in Frames
    BY <1>0, <1>3, Holders, Zenon
  <1>5. ~page[s][a].shared =>
          /\ \A t \in Spaces, b \in Pages : page[t][b].frame = page[s][a].frame => t = s /\ b = a
          /\ \A m \in Memfds, i \in FilePages : memfd[m].frames[i] # page[s][a].frame
    BY <1>3, ExclusiveHolder, Zenon DEF Exclusive
  <1>6. \A b \in {a} : target[b] = page[s][b].frame /\ b = a
    BY Zenon
  <1>7. DOMAIN data = Frames
    BY <1>0, Zenon DEF TypeOK
  <1> HIDE DEF target
  <1>8. target[a] = page[s][a].frame
    BY <1>6, Zenon
  <1>9. Targets(s, {a}, target)
    BY <1>3, <1>4, <1>5, <1>6, <1>8, ZenonT(60) DEF Targets
  <1>10. Stores(s, {a}, target, v)
    <2>1. data'[page[s][a].frame] = v
      BY <1>3, <1>4, <1>7, Zenon
    <2>2. \A f \in Frames : f # page[s][a].frame => data'[f] = data[f]
      BY <1>3, <1>7, Zenon
    <2> QED
      BY <1>3, <1>6, <1>8, <2>1, <2>2, ZenonT(60) DEF Stores
  <1> QED
    BY <1>3, <1>9, <1>10, WriteSeen, ZenonT(60)

\* make_private on the pages of set, pointwise.
Copied(s, set, g) ==
  /\ \A t \in Spaces, b \in Pages : t # s \/ b \notin set => page'[t][b] = page[t][b]
  /\ \A b \in set :
       /\ page'[s][b].frame = IF MustCopy(s, b) THEN g[b] ELSE page[s][b].frame
       /\ page'[s][b].protection = page[s][b].protection
       /\ page'[s][b].shared = page[s][b].shared
  /\ \A b \in set : b \in DOMAIN g <=> MustCopy(s, b)
  /\ \A b \in set : MustCopy(s, b) => g[b] \in FreeFrames /\ g[b] \in Frames
                                      /\ g[b] \in Drawn(g)
  /\ Drawn(g) \subseteq FreeFrames

\* What make_private does, page by page.
LEMMA PrivateEffect ==
  ASSUME TypeOK, NEW s \in Spaces, NEW set \in SUBSET Pages,
         NEW g \in Fresh({b \in set : MustCopy(s, b)}), MakePrivate(s, set, g)
  PROVE  Copied(s, set, g)
PROOF
  <1> DEFINE S == {b \in set : MustCopy(s, b)}
             frame(b) == IF b \in DOMAIN g THEN g[b] ELSE page[s][b].frame
  <1>1. \A b \in set : b \in S <=> MustCopy(s, b)
    BY Zenon
  <1>2. DOMAIN g = S /\ Drawn(g) \subseteq FreeFrames
    BY DrawnOnce, Zenon
  <1>3. \A b \in S : g[b] \in FreeFrames /\ g[b] \in Frames /\ g[b] \in Drawn(g)
    BY FreshFrames, Zenon
  <1>4. \A t \in Spaces, b \in Pages :
          /\ t # s \/ b \notin set => page'[t][b] = page[t][b]
          /\ t = s /\ b \in set => page'[t][b] = Privatized(page[s][b], frame(b))
    BY Zenon DEF MakePrivate, SetPages, TypeOK
  <1>5. \A b \in set : frame(b) = IF b \in DOMAIN g THEN g[b] ELSE page[s][b].frame
    BY Zenon
  <1> HIDE DEF S, frame
  <1>6. ASSUME NEW b \in set
        PROVE  /\ page'[s][b].frame = IF MustCopy(s, b) THEN g[b] ELSE page[s][b].frame
               /\ page'[s][b].protection = page[s][b].protection
               /\ page'[s][b].shared = page[s][b].shared
    <2>1. b \in Pages /\ page[s][b] \in PageRecords
          /\ page'[s][b] = Privatized(page[s][b], frame(b))
      BY <1>4, Zenon DEF TypeOK
    <2>2. page[s][b].frame \in Frames \cup {NoFrame}
      BY <2>1 DEF PageRecords
    <2>3. frame(b) = (IF MustCopy(s, b) THEN g[b] ELSE page[s][b].frame)
          /\ frame(b) \in Frames \cup {NoFrame}
      BY <1>1, <1>2, <1>3, <1>5, <2>2, ZenonT(60)
    <2>4. /\ Privatized(page[s][b], frame(b)).frame = frame(b)
          /\ Privatized(page[s][b], frame(b)).shared = page[s][b].shared
      BY <2>1, <2>3, PrivateFields, Zenon
    <2>5. Privatized(page[s][b], frame(b)).protection = page[s][b].protection
      BY <2>1, RecordProtections, Zenon
    <2> QED
      BY <2>1, <2>3, <2>4, <2>5, ZenonT(60)
  <1> QED
    BY <1>1, <1>2, <1>3, <1>4, <1>6, ZenonT(60) DEF Copied

\* vm_copy_to_user stores to the pages it reached.
LEMMA CopyToUserSeen ==
  ASSUME IndInv, ProperRecords, NEW s \in Spaces, NEW range \in SUBSET Pages,
         NEW v \in Values, CopyToUser(s, range, v)
  PROVE  \E set \in SUBSET Pages : M!Write(s, set, v)
PROOF
  <1>0. TypeOK /\ RefcountExact
    BY Zenon DEF IndInv
  <1>1. PICK done \in SUBSET range :
          /\ s \in live
          /\ \A a \in done : Mapped(s, a) /\ "W" \in page[s][a].protection
          /\ \E g \in Fresh({a \in done : MustCopy(s, a)}) :
               /\ MakePrivate(s, done, g)
               /\ data' = [f \in Frames |->
                    IF \E a \in done : f = (IF a \in DOMAIN g THEN g[a] ELSE page[s][a].frame)
                    THEN v ELSE data[f]]
          /\ UNCHANGED <<live, memfd>>
    BY Zenon DEF CopyToUser
  <1>2. PICK g \in Fresh({a \in done : MustCopy(s, a)}) :
               /\ MakePrivate(s, done, g)
               /\ data' = [f \in Frames |->
                    IF \E a \in done : f = (IF a \in DOMAIN g THEN g[a] ELSE page[s][a].frame)
                    THEN v ELSE data[f]]
    BY <1>1, Zenon
  <1>3. done \in SUBSET Pages
    BY Zenon
  <1> DEFINE target == [a \in done |-> IF a \in DOMAIN g THEN g[a] ELSE page[s][a].frame]
  <1>4. /\ \A t \in Spaces, b \in Pages : t # s \/ b \notin done => page'[t][b] = page[t][b]
        /\ \A b \in done :
              /\ page'[s][b].frame = IF MustCopy(s, b) THEN g[b] ELSE page[s][b].frame
              /\ page'[s][b].protection = page[s][b].protection
              /\ page'[s][b].shared = page[s][b].shared
        /\ \A b \in done : b \in DOMAIN g <=> MustCopy(s, b)
        /\ \A b \in done : MustCopy(s, b) => g[b] \in FreeFrames /\ g[b] \in Frames
                                             /\ g[b] \in Drawn(g)
    <2>1. Copied(s, done, g)
      BY <1>0, <1>2, <1>3, PrivateEffect, ZenonT(60)
    <2> QED
      BY <2>1, Zenon DEF Copied
  <1>5. \A a \in done : target[a] = IF MustCopy(s, a) THEN g[a] ELSE page[s][a].frame
    BY <1>4, Zenon
  <1>6. \A a \in done : target[a] = IF a \in DOMAIN g THEN g[a] ELSE page[s][a].frame
    BY Zenon
  <1> HIDE DEF target
  <1>7. ASSUME NEW a \in done
        PROVE  /\ Mapped(s, a) /\ "W" \in page[s][a].protection /\ target[a] \in Frames
               /\ page[s][a].shared => target[a] = page[s][a].frame
               /\ ~page[s][a].shared =>
                    /\ \A t \in Spaces, b \in Pages :
                         page[t][b].frame = target[a] => t = s /\ b = a
                    /\ \A m \in Memfds, i \in FilePages : memfd[m].frames[i] # target[a]
    <2>1. a \in Pages /\ Mapped(s, a) /\ "W" \in page[s][a].protection
      BY <1>1, <1>3, Zenon
    <2>2. page[s][a].frame \in Frames
      BY <1>0, <2>1, Holders, ZenonT(60)
    <2>3. page[s][a].shared => ~page[s][a].copy_on_write
      BY <2>1, Zenon DEF ProperRecords, Proper
    <2>4. CASE MustCopy(s, a)
      <3>1. target[a] = g[a] /\ g[a] \in FreeFrames /\ g[a] \in Frames
        BY <1>4, <1>5, <2>4, ZenonT(60)
      <3>2. /\ \A t \in Spaces, b \in Pages : page[t][b].frame # g[a]
            /\ \A m \in Memfds, i \in FilePages : memfd[m].frames[i] # g[a]
        BY <1>0, <3>1, FreeUnheld, ZenonT(60)
      <3>3. ~page[s][a].shared
        BY <2>3, <2>4, Zenon DEF MustCopy
      <3> QED
        BY <2>1, <3>1, <3>2, <3>3, ZenonT(60)
    <2>5. CASE ~MustCopy(s, a)
      <3>1. target[a] = page[s][a].frame
        BY <1>5, <2>5, Zenon
      <3>2. ASSUME ~page[s][a].shared
            PROVE  /\ \A t \in Spaces, b \in Pages :
                         page[t][b].frame = page[s][a].frame => t = s /\ b = a
                   /\ \A m \in Memfds, i \in FilePages :
                         memfd[m].frames[i] # page[s][a].frame
        <4>1. CASE page[s][a].copy_on_write
          <5>1. ~(references[page[s][a].frame] > 1)
            BY <2>5, <4>1, Zenon DEF MustCopy
          <5> QED
            BY <1>0, <2>1, <5>1, SoleHolder, ZenonT(60)
        <4>2. CASE ~page[s][a].copy_on_write
          <5>1. Exclusive(page[s][a])
            BY <2>1, <3>2, <4>2, ZenonT(60) DEF Exclusive
          <5> QED
            BY <2>1, <5>1, ExclusiveHolder, ZenonT(60)
        <4> QED
          BY <4>1, <4>2, Zenon
      <3> QED
        BY <2>1, <2>2, <3>1, <3>2, ZenonT(60)
    <2> QED
      BY <2>4, <2>5, Zenon
  <1>8. Targets(s, done, target)
    BY <1>7, Zenon DEF Targets
  <1>9. Stores(s, done, target, v)
    <2>1. \A a \in done : page'[s][a].frame = target[a]
      BY <1>4, <1>5, Zenon
    <2>2. ASSUME NEW a \in done PROVE data'[target[a]] = v
      <3>1. target[a] \in Frames
        BY <1>7, Zenon
      <3>2. target[a] = IF a \in DOMAIN g THEN g[a] ELSE page[s][a].frame
        BY <1>6, Zenon
      <3>3. \E b \in done : target[a] = (IF b \in DOMAIN g THEN g[b] ELSE page[s][b].frame)
        BY <3>2, Zenon
      <3> QED
        BY <1>2, <3>1, <3>3, Zenon
    <2>3. ASSUME NEW f \in Frames, \A a \in done : f # target[a] PROVE data'[f] = data[f]
      <3>1. ~\E a \in done : f = (IF a \in DOMAIN g THEN g[a] ELSE page[s][a].frame)
        BY <1>6, <2>3, Zenon
      <3> QED
        BY <1>2, <3>1, Zenon
    <2> QED
      BY <1>1, <1>4, <2>1, <2>2, <2>3, ZenonT(60) DEF Stores
  <1>10. M!Write(s, done, v)
    BY <1>1, <1>3, <1>8, <1>9, WriteSeen, ZenonT(60)
  <1> QED
    BY <1>3, <1>10, Zenon

\* A copy-on-write fault is invisible: the page holds what it held.
LEMMA CowFaultSeen ==
  ASSUME IndInv, ProperRecords, NEW s \in Spaces, NEW a \in Pages, CowFault(s, a)
  PROVE  UNCHANGED M!vars
PROOF
  <1>0. TypeOK /\ RefcountExact
    BY Zenon DEF IndInv
  <1>1. /\ live' = live /\ memfd' = memfd /\ page[s][a].copy_on_write
        /\ entry[s][a].frame # NoFrame
    BY Zenon DEF CowFault
  <1>2. PICK g \in Fresh({b \in {a} : MustCopy(s, b)}) :
          /\ MakePrivate(s, {a}, g)
          /\ data' = [f \in Frames |->
               IF f \in Drawn(g) THEN data[page[s][a].frame] ELSE data[f]]
    BY Zenon DEF CowFault
  <1>3. /\ \A t \in Spaces, b \in Pages : t # s \/ b \notin {a} => page'[t][b] = page[t][b]
        /\ page'[s][a].frame = IF MustCopy(s, a) THEN g[a] ELSE page[s][a].frame
        /\ page'[s][a].protection = page[s][a].protection
        /\ page'[s][a].shared = page[s][a].shared
        /\ MustCopy(s, a) => g[a] \in FreeFrames /\ g[a] \in Frames /\ g[a] \in Drawn(g)
        /\ Drawn(g) \subseteq FreeFrames
    <2>1. {a} \in SUBSET Pages
      BY Zenon
    <2>2. Copied(s, {a}, g)
      BY <1>0, <1>2, <2>1, PrivateEffect, ZenonT(60)
    <2> QED
      BY <2>2, Zenon DEF Copied
  <1>4. ~page[s][a].shared
    BY <1>1, Zenon DEF ProperRecords, Proper
  <1>5. page[s][a].frame \in Frames \ FreeFrames /\ Mapped(s, a)
    <2>1. page \in [Spaces -> [Pages -> PageRecords]] /\ EntriesMatch
      BY Zenon DEF IndInv, TypeOK
    <2>2. Mapped(s, a)
      BY <1>1, <2>1, WritableEntry, Zenon DEF Mapped
    <2> QED
      BY <1>0, <2>2, Holders, FreeUnheld, ZenonT(60)
  <1>6. \A f \in Frames \ FreeFrames : data'[f] = data[f]
    BY <1>2, <1>3, Zenon
  <1>7. page'[s][a].frame # NoFrame /\ data'[page'[s][a].frame] = data[page[s][a].frame]
    <2>1. CASE MustCopy(s, a)
      BY <1>2, <1>3, <2>1, FramesAssumption, ZenonT(60)
    <2>2. CASE ~MustCopy(s, a)
      BY <1>3, <1>5, <1>6, <2>2, FramesAssumption, ZenonT(60)
    <2> QED
      BY <2>1, <2>2, Zenon
  <1>8. \A t \in Spaces, b \in Pages : Cell(t, b)' = Cell(t, b)
    <2>1. \A t \in Spaces, b \in Pages : t # s \/ b \notin {a} => Cell(t, b)' = Cell(t, b)
      <3>1. {a} \in SUBSET Pages
        BY Zenon
      <3>2. \A t \in Spaces, b \in Pages : t # s \/ b \notin {a} => page'[t][b] = page[t][b]
        BY <1>3, Zenon
      <3> QED
        BY <1>0, <1>6, <3>1, <3>2, OtherCells, ZenonT(60)
    <2>2. Cell(s, a)' = Cell(s, a)
      BY <1>3, <1>4, <1>5, <1>7, CellKept, ZenonT(60) DEF Mapped
    <2> QED
      BY <2>1, <2>2, Zenon
  <1>9. Mem' = Mem
    BY <1>8, Zenon DEF Mem
  <1>10. Segment' = Segment
    <2>1. ASSUME NEW t \in Spaces, NEW b \in Pages, NEW f \in Frames
          PROVE  (page'[t][b].frame = f /\ page'[t][b].shared) <=>
                   (page[t][b].frame = f /\ page[t][b].shared)
      <3>1. CASE t = s /\ b = a
        BY <1>3, <1>4, <3>1, Zenon
      <3>2. CASE ~(t = s /\ b = a)
        BY <1>3, <3>2, Zenon
      <3> QED
        BY <3>1, <3>2, Zenon
    <2>2. \A f \in Frames : IsSegment(f) => data'[f] = data[f]
      BY <1>0, <1>6, FreeUnseen, ZenonT(60)
    <2> QED
      BY <1>1, <2>1, <2>2, SegmentsFixed, ZenonT(60)
  <1>11. File' = File
    BY <1>1, Zenon DEF File
  <1> QED
    BY <1>1, <1>9, <1>10, <1>11, ZenonT(60) DEF M!vars

-----------------------------------------------------------------------------
(* Spaces *)

\* The marks of a clone change neither frame nor protection nor role.
LEMMA CowSame ==
  ASSUME NEW p \in PageRecords
  PROVE  /\ CowCopy(p).frame = p.frame /\ CowSource(p).frame = p.frame
         /\ CowCopy(p).shared = p.shared /\ CowSource(p).shared = p.shared
         /\ CowCopy(p).protection = p.protection /\ CowSource(p).protection = p.protection
PROOF
  <1>1. CowCopy(p).protection = p.protection /\ CowSource(p).protection = p.protection
    BY RecordProtections, Zenon
  <1> QED
    BY <1>1, CowFields, Zenon

\* A clone that fails leaves marks that programs do not see.
LEMMA CloneFailSeen ==
  ASSUME IndInv, NEW s \in Spaces, NEW done \in SUBSET Pages, CloneFail(s, done)
  PROVE  UNCHANGED M!vars
PROOF
  <1>0. TypeOK /\ \A t \in Spaces, b \in Pages : page[t][b] \in PageRecords
    BY Zenon DEF IndInv, TypeOK
  <1>1. live' = live /\ memfd' = memfd /\ data' = data
    BY Zenon DEF CloneFail
  <1>2. \A t \in Spaces, b \in Pages : page'[t][b] \in {page[t][b], CowSource(page[t][b])}
    BY <1>0, Zenon DEF CloneFail, MarkCow, TypeOK
  <1>3. ASSUME NEW t \in Spaces, NEW b \in Pages
        PROVE  /\ page'[t][b].frame = page[t][b].frame
               /\ page'[t][b].shared = page[t][b].shared
               /\ page'[t][b].protection = page[t][b].protection
    <2>1. CASE page'[t][b] = page[t][b]
      BY <2>1, Zenon
    <2>2. CASE page'[t][b] = CowSource(page[t][b])
      BY <1>0, <2>2, CowSame, Zenon
    <2> QED
      BY <1>2, <2>1, <2>2, Zenon
  <1>4. ASSUME NEW t \in Spaces, NEW b \in Pages PROVE Cell(t, b)' = Cell(t, b)
    BY <1>1, <1>3, CellKept, Zenon DEF Mapped
  <1>5. Mem' = Mem
    BY <1>4, Zenon DEF Mem
  <1>6. Segment' = Segment
    <2>1. \A t \in Spaces, b \in Pages, f \in Frames :
            (page'[t][b].frame = f /\ page'[t][b].shared) <=>
              (page[t][b].frame = f /\ page[t][b].shared)
      BY <1>3, Zenon
    <2> QED
      BY <1>1, <2>1, SegmentsFixed, Zenon
  <1>7. File' = File
    BY <1>1, Zenon DEF File
  <1> QED
    BY <1>1, <1>5, <1>6, <1>7, ZenonT(60) DEF M!vars

\* A clone copies every private page at once, as far as programs see.
LEMMA CloneSeen ==
  ASSUME IndInv, NEW s \in Spaces, NEW d \in Spaces, Clone(s, d)
  PROVE  M!Fork(s, d)
PROOF
  <1>0. /\ TypeOK /\ CleanRecords /\ DOMAIN page = Spaces
        /\ \A t \in Spaces, b \in Pages : page[t][b] \in PageRecords
    BY Zenon DEF IndInv, TypeOK
  <1>1. /\ s \in live /\ d \in Spaces \ live /\ live' = live \cup {d}
        /\ memfd' = memfd /\ data' = data
        /\ page' = [page EXCEPT ![d] = [a \in Pages |-> CowCopy(page[s][a])],
                                ![s] = MarkCow(s, Pages)]
    BY Zenon DEF Clone
  <1>2. s # d
    BY <1>1, Zenon
  <1>3. \A b \in Pages : /\ page'[d][b] = CowCopy(page[s][b])
                         /\ page'[s][b] = CowSource(page[s][b])
                         /\ \A t \in Spaces \ {s, d} : page'[t][b] = page[t][b]
    BY <1>0, <1>1, <1>2, Zenon DEF MarkCow
  <1>4. ASSUME NEW t \in Spaces \ {d}, NEW b \in Pages
        PROVE  /\ page'[t][b].frame = page[t][b].frame
               /\ page'[t][b].shared = page[t][b].shared
               /\ page'[t][b].protection = page[t][b].protection
    <2>1. CASE t = s
      BY <1>0, <1>3, <2>1, CowSame, ZenonT(60)
    <2>2. CASE t # s
      BY <1>3, <2>2, Zenon
    <2> QED
      BY <2>1, <2>2, Zenon
  <1>5. ASSUME NEW b \in Pages
        PROVE  /\ page'[d][b].frame = page[s][b].frame
               /\ page'[d][b].shared = page[s][b].shared
               /\ page'[d][b].protection = page[s][b].protection
    BY <1>0, <1>3, CowSame, ZenonT(60)
  <1>6. \A b \in Pages : page[d][b].frame = NoFrame
    <2>1. Unmapped.frame = NoFrame
      BY DEF Unmapped
    <2> QED
      BY <1>0, <1>1, <2>1, ZenonT(60) DEF CleanRecords
  <1>7. ASSUME NEW t \in Spaces \ {d}, NEW b \in Pages PROVE Cell(t, b)' = Cell(t, b)
    BY <1>1, <1>4, CellKept, ZenonT(60) DEF Mapped
  <1>8. ASSUME NEW b \in Pages PROVE Cell(d, b)' = Mem[s][b]
    <2>1. Mem[s][b] = Cell(s, b)
      BY CellsAre, Zenon DEF CellsSeen
    <2>2. CASE page[s][b].frame = NoFrame
      <3>1. Cell(d, b)' = M!Nothing
        BY <1>5, <2>2, CellsAfter, ZenonT(60)
      <3>2. Cell(s, b) = M!Nothing
        BY <2>2, CellsAre, Zenon DEF CellsSeen, Mapped
      <3> QED
        BY <2>1, <3>1, <3>2, ZenonT(60)
    <2>3. CASE page[s][b].frame # NoFrame /\ page[s][b].shared
      <3>1. Cell(d, b)' = M!Shared(page[s][b].protection, page[s][b].frame)
        BY <1>5, <2>3, CellsAfter, ZenonT(60)
      <3>2. Cell(s, b) = M!Shared(page[s][b].protection, page[s][b].frame)
        BY <2>3, CellsAre, Zenon DEF CellsSeen, Mapped
      <3> QED
        BY <2>1, <3>1, <3>2, Zenon
    <2>4. CASE page[s][b].frame # NoFrame /\ ~page[s][b].shared
      <3>1. Cell(d, b)' = M!Private(page[s][b].protection, data[page[s][b].frame])
        BY <1>1, <1>5, <2>4, CellsAfter, ZenonT(60)
      <3>2. Cell(s, b) = M!Private(page[s][b].protection, data[page[s][b].frame])
        BY <2>4, CellsAre, Zenon DEF CellsSeen, Mapped
      <3> QED
        BY <2>1, <3>1, <3>2, ZenonT(60)
    <2> QED
      BY <2>2, <2>3, <2>4, ZenonT(60)
  <1>9. Mem' = [Mem EXCEPT ![d] = Mem[s]]
    <2>1. Mem' = [Mem EXCEPT ![d] =
                   [b \in M!Pages |-> IF b \in Pages THEN Cell(d, b)' ELSE Mem[d][b]]]
      <3>1. \A t \in Spaces, b \in Pages : t # d \/ b \notin Pages => Cell(t, b)' = Cell(t, b)
        BY <1>7, Zenon
      <3> QED
        BY <3>1, CellsOf, Zenon
    <2>2. Mem[s] = [b \in Pages |-> Mem[s][b]]
      BY Zenon DEF Mem
    <2>3. [b \in M!Pages |-> IF b \in Pages THEN Cell(d, b)' ELSE Mem[d][b]] = Mem[s]
      BY <1>8, <2>2, SameSets, ZenonT(60)
    <2> QED
      BY <2>1, <2>3, Zenon
  <1>10. Segment' = Segment
    <2>1. ASSUME NEW f \in Frames PROVE IsSegment(f)' <=> IsSegment(f)
      <3>1. IsSegment(f) <=>
              \/ \E m \in Memfds, i \in FilePages : memfd[m].frames[i] = f
              \/ \E t \in Spaces, b \in Pages : page[t][b].frame = f /\ page[t][b].shared
        BY SegmentsAre, Zenon DEF SegmentsSeen
      <3>2. IsSegment(f)' <=>
              \/ \E m \in Memfds, i \in FilePages : memfd'[m].frames[i] = f
              \/ \E t \in Spaces, b \in Pages : page'[t][b].frame = f /\ page'[t][b].shared
        BY SegmentsAreNext, Zenon DEF SegmentsSeen
      <3>3. f # NoFrame
        BY FramesAssumption, Zenon
      <3>4. ASSUME NEW t \in Spaces, NEW b \in Pages, page[t][b].frame = f, page[t][b].shared
            PROVE  page'[t][b].frame = f /\ page'[t][b].shared
        BY <1>4, <1>6, <3>3, <3>4, ZenonT(60)
      <3>5. ASSUME NEW t \in Spaces, NEW b \in Pages, page'[t][b].frame = f, page'[t][b].shared
            PROVE  \E u \in Spaces : page[u][b].frame = f /\ page[u][b].shared
        <4>1. CASE t = d
          BY <1>5, <3>5, <4>1, Zenon
        <4>2. CASE t # d
          BY <1>4, <3>5, <4>2, ZenonT(60)
        <4> QED
          BY <4>1, <4>2, Zenon
      <3>6. (\E t \in Spaces, b \in Pages : page'[t][b].frame = f /\ page'[t][b].shared) <=>
              (\E t \in Spaces, b \in Pages : page[t][b].frame = f /\ page[t][b].shared)
        BY <3>4, <3>5, Zenon
      <3>7. (\E m \in Memfds, i \in FilePages : memfd'[m].frames[i] = f) <=>
              (\E m \in Memfds, i \in FilePages : memfd[m].frames[i] = f)
        BY <1>1, Zenon
      <3> QED
        BY <3>1, <3>2, <3>6, <3>7, ZenonT(60)
    <2> QED
      BY <1>1, <2>1, SegmentsSame, ZenonT(60)
  <1>11. File' = File
    BY <1>1, Zenon DEF File
  <1> QED
    BY <1>1, <1>9, <1>10, <1>11, ZenonT(60) DEF M!Fork

\* A new image is the abstract load; the space was empty before.
LEMMA LoadImageSeen ==
  ASSUME IndInv, NEW s \in Spaces, NEW range \in Intervals,
         NEW protection \in SUBSET {"R", "W", "X"}, NEW v \in Values,
         LoadImage(s, range, protection, v)
  PROVE  M!Load(s, range, protection, v)
PROOF
  <1> DEFINE pages == range \cup {NPages}
             chosen(a) == IF a \in range THEN protection ELSE {"R", "W"}
             new == [a \in Pages |-> IF a \in range THEN M!Private(protection, v)
                       ELSE IF a = NPages THEN M!Private({"R", "W"}, v) ELSE M!Nothing]
  <1>0. /\ TypeOK /\ RefcountExact /\ CleanRecords
        /\ range \in SUBSET Pages
    BY IntervalPages, Zenon DEF IndInv
  <1>1. NPages \in Pages
    BY PagesAssumption DEF Pages
  <1>2. pages \in SUBSET Pages
    BY <1>0, <1>1, Zenon
  <1>3. /\ s \in Spaces \ live /\ (\A a \in range : a < MmapBase)
        /\ live' = live \cup {s} /\ memfd' = memfd
    BY Zenon DEF LoadImage
  <1>4. PICK g \in Fresh(pages) :
          /\ data' = [f \in Frames |-> IF f \in Drawn(g) THEN v ELSE data[f]]
          /\ SetPages(s, pages, [a \in pages |->
               [frame |-> g[a], protection |-> chosen(a),
                copy_on_write |-> FALSE, shared |-> FALSE]])
    BY Zenon DEF LoadImage
  <1>5. \A a \in pages : g[a] \in FreeFrames /\ g[a] \in Frames /\ g[a] \in Drawn(g)
    BY FreshFrames, Zenon DEF Fresh, Drawn
  <1>6. Drawn(g) \subseteq FreeFrames
    BY DrawnOnce, Zenon
  <1> HIDE DEF pages, chosen
  <1>7. /\ \A t \in Spaces, b \in Pages : t # s \/ b \notin pages => page'[t][b] = page[t][b]
        /\ \A b \in pages : page'[s][b] = [frame |-> g[b], protection |-> chosen(b),
                                           copy_on_write |-> FALSE, shared |-> FALSE]
    BY <1>0, <1>2, <1>4, ZenonT(60) DEF SetPages, TypeOK
  <1>8. \A b \in pages : /\ page'[s][b].frame = g[b] /\ page'[s][b].protection = chosen(b)
                         /\ page'[s][b].shared = FALSE
    <2> SUFFICES ASSUME NEW b \in pages
        PROVE  /\ page'[s][b].frame = g[b] /\ page'[s][b].protection = chosen(b)
               /\ page'[s][b].shared = FALSE
      BY Zenon
    <2>1. page'[s][b] = [frame |-> g[b], protection |-> chosen(b),
                         copy_on_write |-> FALSE, shared |-> FALSE]
      BY <1>7, Zenon
    <2> QED
      BY <2>1
  <1>9. \A b \in Pages : ~page[s][b].shared /\ page[s][b].frame = NoFrame
    <2>1. ~Unmapped.shared /\ Unmapped.frame = NoFrame
      BY DEF Unmapped
    <2> QED
      BY <1>0, <1>3, <2>1, ZenonT(60) DEF CleanRecords
  <1>10. \A f \in Frames \ FreeFrames : data'[f] = data[f]
    BY <1>4, <1>6, Zenon
  <1>11. \A b \in pages : Cell(s, b)' = M!Private(chosen(b), v)
    <2> SUFFICES ASSUME NEW b \in pages PROVE Cell(s, b)' = M!Private(chosen(b), v)
      BY Zenon
    <2>1. data'[g[b]] = v /\ g[b] # NoFrame /\ b \in Pages
      BY <1>2, <1>4, <1>5, FramesAssumption, ZenonT(60)
    <2> QED
      BY <1>8, <2>1, CellsAfter, ZenonT(60)
  <1>12. \A t \in Spaces, b \in Pages : t # s \/ b \notin pages => Cell(t, b)' = Cell(t, b)
    <2>1. \A t \in Spaces, b \in Pages : t # s \/ b \notin pages => page'[t][b] = page[t][b]
      BY <1>7, Zenon
    <2> QED
      BY <1>0, <1>2, <1>10, <2>1, OtherCells, ZenonT(60)
  <1>13. \A b \in Pages : Mem[s][b] = M!Nothing
    <2>1. \A b \in Pages : Mem[s][b] = Cell(s, b)
      BY CellsAre, Zenon DEF CellsSeen
    <2>2. ASSUME NEW b \in Pages PROVE Cell(s, b) = M!Nothing
      <3>1. ~Mapped(s, b)
        BY <1>9, Zenon DEF Mapped
      <3> QED
        BY <3>1, CellsAre, Zenon DEF CellsSeen
    <2> QED
      BY <2>1, <2>2, Zenon
  <1>14. \A b \in Pages : (IF b \in pages THEN Cell(s, b)' ELSE Mem[s][b]) = new[b]
    BY <1>11, <1>13, Zenon DEF pages, chosen
  <1>15. Mem' = [Mem EXCEPT ![s] = new]
    <2>1. Mem' = [Mem EXCEPT ![s] =
                   [b \in M!Pages |-> IF b \in pages THEN Cell(s, b)' ELSE Mem[s][b]]]
      BY <1>12, CellsOf, Zenon
    <2>2. [b \in M!Pages |-> IF b \in pages THEN Cell(s, b)' ELSE Mem[s][b]] =
            [b \in Pages |-> new[b]]
      BY <1>14, SameSets, Zenon
    <2>3. [b \in Pages |-> new[b]] = new
      BY Zenon
    <2> QED
      BY <2>1, <2>2, <2>3, ZenonT(60)
  <1>16. Segment' = Segment
    <2>1. ASSUME NEW t \in Spaces, NEW b \in Pages, NEW f \in Frames
          PROVE  (page'[t][b].frame = f /\ page'[t][b].shared) <=>
                   (page[t][b].frame = f /\ page[t][b].shared)
      <3>1. CASE t = s /\ b \in pages
        BY <1>8, <1>9, <3>1, ZenonT(60)
      <3>2. CASE ~(t = s /\ b \in pages)
        BY <1>7, <3>2, ZenonT(60)
      <3> QED
        BY <3>1, <3>2, Zenon
    <2>2. \A f \in Frames : IsSegment(f) => data'[f] = data[f]
      BY <1>0, <1>10, FreeUnseen, ZenonT(60)
    <2> QED
      BY <1>3, <2>1, <2>2, SegmentsFixed, ZenonT(60)
  <1>17. File' = File
    BY <1>3, Zenon DEF File
  <1> QED
    BY <1>3, <1>15, <1>16, <1>17, SameSets, ZenonT(60) DEF M!Load

\* A space that goes away takes its private pages along.
LEMMA ReleaseSeen ==
  ASSUME IndInv, NEW s \in Spaces, Release(s)
  PROVE  M!Exit(s)
PROOF
  <1>1. s \in live /\ live' = live \ {s} /\ UnmapRange(s, Pages)
    BY Zenon DEF Release
  <1>2. UNCHANGED <<data, memfd>> /\ Pages \in SUBSET Pages
    BY Zenon DEF Release
  <1>3. /\ M!SetCells(s, Pages, LAMBDA a : M!Nothing)
        /\ M!SetSegments(Segment) /\ File' = File
    BY <1>1, <1>2, UnmapSeen, Zenon
  <1>4. Mem' = [Mem EXCEPT ![s] =
                  [a \in M!Pages |-> IF a \in Pages THEN M!Nothing ELSE Mem[s][a]]]
    BY <1>3, Zenon DEF M!SetCells
  <1>5. [a \in M!Pages |-> IF a \in Pages THEN M!Nothing ELSE Mem[s][a]] =
          [a \in M!Pages |-> M!Nothing]
    BY SameSets, Zenon
  <1> QED
    BY <1>1, <1>3, <1>4, <1>5, ZenonT(60) DEF M!Exit

\* munmap and the shrinking brk.
LEMMA MunmapSeen ==
  ASSUME IndInv, NEW s \in Spaces, NEW range \in Intervals, Munmap(s, range)
  PROVE  M!Unmap(s, range)
PROOF
  <1>1. /\ s \in live /\ live' = live /\ UnmapRange(s, range)
        /\ range \in SUBSET Pages
    BY IntervalPages, Zenon DEF Munmap
  <1>2. UNCHANGED <<data, memfd>>
    BY Zenon DEF Munmap
  <1>3. /\ M!SetCells(s, range, LAMBDA a : M!Nothing)
        /\ M!SetSegments(Segment) /\ File' = File
    BY <1>1, <1>2, UnmapSeen, ZenonT(60)
  <1> QED
    BY <1>1, <1>3, Zenon DEF M!Unmap

\* The growing brk and the demand-paged stack.
LEMMA BrkGrowSeen ==
  ASSUME IndInv, NEW s \in Spaces, NEW range \in Intervals, BrkGrow(s, range)
  PROVE  M!Extend(s, range)
PROOF
  <1>1. /\ s \in live /\ live' = live /\ memfd' = memfd /\ MapMissing(s, range, {"R", "W"})
        /\ range \in SUBSET Pages
    BY IntervalPages, Zenon DEF BrkGrow
  <1>2. \A a \in range : a < MmapBase \/ a \in StackPages
    BY Zenon DEF BrkGrow
  <1> QED
    BY <1>1, <1>2, MapMissingSeen, ZenonT(60)

\* A fault below the stack extends it by a page.
LEMMA DemandFaultSeen ==
  ASSUME IndInv, NEW s \in Spaces, NEW a \in Pages, DemandFault(s, a)
  PROVE  M!Extend(s, {a}) /\ {a} \in Intervals
PROOF
  <1>1. /\ s \in live /\ live' = live /\ memfd' = memfd /\ MapMissing(s, {a}, {"R", "W"})
        /\ {a} \in SUBSET Pages
    BY Zenon DEF DemandFault
  <1>2. \A b \in {a} : b < MmapBase \/ b \in StackPages
    BY Zenon DEF DemandFault
  <1>3. {a} = a..a /\ a <= a
    BY DEF Pages
  <1>4. {a} \in Intervals
    BY <1>1, <1>3, Zenon DEF Intervals
  <1> QED
    BY <1>1, <1>2, <1>4, MapMissingSeen, ZenonT(60)

-----------------------------------------------------------------------------
(* memfd objects *)

FileIs(r, used, size, segments) == r = [used |-> used, size |-> size, segments |-> segments]

\* Updates of an object's fields.
LEMMA FileUsed ==
  ASSUME NEW used, NEW size, NEW segments, NEW new, NEW r, NEW q,
         FileIs(r, used, size, segments), FileIs(q, new, size, segments)
  PROVE  q = [r EXCEPT !.used = new]
PROOF
  BY DEF FileIs

\* A file that changes in its segments only.
LEMMA FileSegments ==
  ASSUME NEW used, NEW size, NEW segments, NEW new, NEW r, NEW q,
         FileIs(r, used, size, segments), FileIs(q, used, size, new)
  PROVE  q = [r EXCEPT !.segments = new]
PROOF
  BY DEF FileIs

\* A file that changes in its size only.
LEMMA FileSize ==
  ASSUME NEW used, NEW size, NEW segments, NEW new, NEW r, NEW q,
         FileIs(r, used, size, segments), FileIs(q, used, new, segments)
  PROVE  q = [r EXCEPT !.size = new]
PROOF
  BY DEF FileIs

\* An object that gets a size and frames.
LEMMA FileChange ==
  ASSUME NEW m \in Memfds, NEW size, NEW new,
         \A n \in Memfds \ {m} : memfd'[n] = memfd[n],
         memfd'[m].used = memfd[m].used, memfd'[m].size = size, memfd'[m].frames = new
  PROVE  File' = [File EXCEPT ![m].size = size, ![m].segments = new]
PROOF
  <1>1. DOMAIN File = Memfds
    BY Zenon DEF File
  <1>2. FileIs(File'[m], memfd[m].used, size, new)
    BY FileFieldsNext, Zenon DEF FileIs
  <1>3. FileIs(File[m], memfd[m].used, memfd[m].size, memfd[m].frames)
    BY FileFields, Zenon DEF FileIs
  <1>4. File'[m] = [File[m] EXCEPT !.size = size, !.segments = new]
    <2> DEFINE resized == [used |-> memfd[m].used, size |-> size, segments |-> memfd[m].frames]
    <2>1. FileIs(resized, memfd[m].used, size, memfd[m].frames)
      BY Zenon DEF FileIs
    <2> HIDE DEF resized
    <2>2. resized = [File[m] EXCEPT !.size = size]
      BY <1>3, <2>1, FileSize, ZenonT(60)
    <2>3. File'[m] = [resized EXCEPT !.segments = new]
      BY <1>2, <2>1, FileSegments, ZenonT(60)
    <2> QED
      BY <2>2, <2>3, Zenon
  <1>5. \A n \in Memfds \ {m} : File'[n] = File[n]
    BY Zenon DEF File
  <1>6. File' = [n \in Memfds |-> File'[n]]
    BY Zenon DEF File
  <1>7. File' = [n \in Memfds |->
                  IF n = m THEN [File[m] EXCEPT !.size = size, !.segments = new] ELSE File[n]]
    BY <1>4, <1>5, <1>6, ZenonT(60)
  <1> QED
    BY <1>1, <1>7, Zenon

\* A step that touches no page and no contents, and at most drops frames of
\* objects.
LEMMA DropSeen ==
  ASSUME TypeOK, RefcountExact, page' = page, data' = data,
         \A n \in Memfds, i \in FilePages :
           memfd'[n].frames[i] \in {memfd[n].frames[i], NoFrame}
  PROVE  Mem' = Mem /\ M!SetSegments(Segment)
PROOF
  <1>1. \A t \in Spaces, b \in Pages : Cell(t, b)' = Cell(t, b)
    BY CellKept, Zenon DEF Mapped
  <1>2. Mem' = Mem
    BY <1>1, Zenon DEF Mem
  <1>3. \A n \in Memfds, i \in FilePages :
          memfd'[n].frames[i] \in Frames =>
            memfd'[n].frames[i] \notin FreeFrames /\ IsSegment(memfd'[n].frames[i])
    <2> SUFFICES ASSUME NEW n \in Memfds, NEW i \in FilePages, memfd'[n].frames[i] \in Frames
        PROVE  memfd'[n].frames[i] \notin FreeFrames /\ IsSegment(memfd'[n].frames[i])
      BY Zenon
    <2>1. memfd'[n].frames[i] = memfd[n].frames[i] /\ memfd[n].frames[i] # NoFrame
      BY FramesAssumption, Zenon
    <2> QED
      BY <2>1, Holders, FreeUnheld, ZenonT(60)
  <1>4. \A t \in Spaces, b \in Pages :
          page'[t][b].frame \in Frames =>
            /\ page'[t][b].frame \notin FreeFrames
            /\ page'[t][b].shared => IsSegment(page'[t][b].frame)
    <2> SUFFICES ASSUME NEW t \in Spaces, NEW b \in Pages, page[t][b].frame \in Frames
        PROVE  /\ page[t][b].frame \notin FreeFrames
               /\ page[t][b].shared => IsSegment(page[t][b].frame)
      BY Zenon
    <2>1. Mapped(t, b)
      BY FramesAssumption, Zenon DEF Mapped
    <2> QED
      BY <2>1, Holders, FreeUnheld, ZenonT(60)
  <1>5. ASSUME NEW f \in FreeFrames, IsSegment(f)' PROVE data'[f] = Zero
    <2>1. f \in Frames
      BY Zenon DEF FreeFrames
    <2>2. \/ \E m \in Memfds, i \in FilePages : memfd'[m].frames[i] = f
          \/ \E t \in Spaces, b \in Pages : page'[t][b].frame = f /\ page'[t][b].shared
      BY <1>5, <2>1, SegmentsAreNext, ZenonT(60) DEF SegmentsSeen
    <2> QED
      BY <1>3, <1>4, <2>1, <2>2, ZenonT(60)
  <1>6. \A f \in Frames \ FreeFrames : data'[f] = data[f]
    BY Zenon
  <1>7. M!SetSegments(Segment)
    BY <1>3, <1>4, <1>5, <1>6, SegmentStep, ZenonT(60)
  <1> QED
    BY <1>2, <1>7, Zenon

\* memfd_create creates an empty object.
LEMMA MemfdCreateSeen ==
  ASSUME IndInv, NEW m \in Memfds, MemfdCreate(m)
  PROVE  M!Create(m)
PROOF
  <1>0. memfd[m] \in Objects /\ DOMAIN memfd = Memfds
    BY Zenon DEF IndInv, TypeOK
  <1>1. /\ ~memfd[m].used /\ page' = page /\ data' = data /\ live' = live
        /\ memfd' = [memfd EXCEPT ![m].used = TRUE]
    BY Zenon DEF MemfdCreate
  <1>2. \A n \in Memfds \ {m} : memfd'[n] = memfd[n]
    BY <1>0, <1>1, ZenonT(60)
  <1>3. /\ memfd'[m].used = TRUE /\ memfd'[m].size = memfd[m].size
        /\ memfd'[m].frames = memfd[m].frames
    BY <1>0, <1>1, SMTT(60) DEF Objects
  <1>4. File' = [File EXCEPT ![m].used = TRUE]
    <2>1. DOMAIN File = Memfds
      BY Zenon DEF File
    <2>2. FileIs(File'[m], TRUE, memfd[m].size, memfd[m].frames)
      BY <1>3, FileFieldsNext, ZenonT(60) DEF FileIs
    <2>3. FileIs(File[m], memfd[m].used, memfd[m].size, memfd[m].frames)
      BY FileFields, ZenonT(60) DEF FileIs
    <2>4. File'[m] = [File[m] EXCEPT !.used = TRUE]
      BY <2>2, <2>3, FileUsed, ZenonT(60)
    <2>5. \A n \in Memfds \ {m} : File'[n] = File[n]
      BY <1>2, Zenon DEF File
    <2>6. File' = [n \in Memfds |-> File'[n]]
      BY Zenon DEF File
    <2>7. File' = [n \in Memfds |-> IF n = m THEN [File[m] EXCEPT !.used = TRUE] ELSE File[n]]
      BY <2>4, <2>5, <2>6, Zenon
    <2> QED
      BY <2>1, <2>7, ZenonT(60)
  <1>5. \A t \in Spaces, b \in Pages : Cell(t, b)' = Cell(t, b)
    BY <1>1, CellKept, Zenon DEF Mapped
  <1>6. Mem' = Mem
    BY <1>5, Zenon DEF Mem
  <1>7. \A n \in Memfds, i \in FilePages : memfd'[n].frames[i] = memfd[n].frames[i]
    BY <1>2, <1>3, Zenon
  <1>8. ASSUME NEW f \in Frames PROVE IsSegment(f)' <=> IsSegment(f)
    <2>1. IsSegment(f) <=>
            \/ \E n \in Memfds, i \in FilePages : memfd[n].frames[i] = f
            \/ \E t \in Spaces, b \in Pages : page[t][b].frame = f /\ page[t][b].shared
      BY SegmentsAre, Zenon DEF SegmentsSeen
    <2>2. IsSegment(f)' <=>
            \/ \E n \in Memfds, i \in FilePages : memfd'[n].frames[i] = f
            \/ \E t \in Spaces, b \in Pages : page'[t][b].frame = f /\ page'[t][b].shared
      BY SegmentsAreNext, Zenon DEF SegmentsSeen
    <2>3. (\E n \in Memfds, i \in FilePages : memfd'[n].frames[i] = f) <=>
            (\E n \in Memfds, i \in FilePages : memfd[n].frames[i] = f)
      BY <1>7, Zenon
    <2> QED
      BY <1>1, <2>1, <2>2, <2>3, ZenonT(60)
  <1>9. Segment' = Segment
    BY <1>1, <1>8, SegmentsSame, ZenonT(60)
  <1> QED
    BY <1>1, <1>4, <1>6, <1>9, FileFields, ZenonT(60) DEF M!Create

\* No object has a frame past its size, so that what growth uncovers is holes.
Sized ==
  \A m \in Memfds, i \in FilePages : memfd[m].frames[i] # NoFrame => i <= memfd[m].size

\* What ftruncate leaves of an object.
LEMMA Truncated ==
  ASSUME IndInv, NEW m \in Memfds, NEW size \in 0..NFilePages, Ftruncate(m, size)
  PROVE  /\ memfd[m].used
         /\ page' = page /\ data' = data /\ live' = live
         /\ \A n \in Memfds \ {m} : memfd'[n] = memfd[n]
         /\ memfd'[m].used = memfd[m].used /\ memfd'[m].size = size
         /\ memfd'[m].frames = [i \in FilePages |->
              IF i \in (size + 1)..memfd[m].size THEN NoFrame ELSE memfd[m].frames[i]]
PROOF
  <1> DEFINE cut == (size + 1)..memfd[m].size
             new == [i \in FilePages |-> IF i \in cut THEN NoFrame ELSE memfd[m].frames[i]]
  <1>1. memfd[m] \in Objects /\ DOMAIN memfd = Memfds
    BY Zenon DEF IndInv, TypeOK
  <1>2. /\ memfd[m].used /\ page' = page /\ data' = data /\ live' = live
        /\ memfd' = [memfd EXCEPT
             ![m].size = size,
             ![m].frames = [i \in FilePages |-> IF i \in cut THEN NoFrame ELSE @[i]]]
    BY Zenon DEF Ftruncate
  <1>3. memfd' = [memfd EXCEPT ![m].size = size, ![m].frames = new]
    BY <1>1, <1>2, SMTT(60) DEF Objects
  <1> HIDE DEF new
  <1>4. \A n \in Memfds \ {m} : memfd'[n] = memfd[n]
    BY <1>1, <1>3, ZenonT(60)
  <1>5. memfd'[m].used = memfd[m].used /\ memfd'[m].size = size /\ memfd'[m].frames = new
    BY <1>1, <1>3, SMTT(60) DEF Objects
  <1> QED
    BY <1>2, <1>4, <1>5, ZenonT(60) DEF new

\* ftruncate cuts the object, and what it adds later reads as zeroes.
LEMMA FtruncateSeen ==
  ASSUME IndInv, Sized, NEW m \in Memfds, NEW size \in 0..NFilePages, Ftruncate(m, size)
  PROVE  M!Truncate(m, size)
PROOF
  <1> DEFINE cut == (size + 1)..memfd[m].size
             new == [i \in M!FilePages |-> IF i > size THEN NoFrame ELSE File[m].segments[i]]
  <1>1. /\ memfd[m].used
        /\ page' = page /\ data' = data /\ live' = live
        /\ \A n \in Memfds \ {m} : memfd'[n] = memfd[n]
        /\ memfd'[m].used = memfd[m].used /\ memfd'[m].size = size
        /\ memfd'[m].frames =
             [i \in FilePages |-> IF i \in cut THEN NoFrame ELSE memfd[m].frames[i]]
    BY Truncated, Zenon
  <1>2. ASSUME NEW i \in FilePages
        PROVE  (IF i \in cut THEN NoFrame ELSE memfd[m].frames[i]) =
                 IF i > size THEN NoFrame ELSE memfd[m].frames[i]
    <2>1. memfd[m].size \in Nat /\ i \in Nat /\ size \in Nat
      <3>1. memfd[m] \in Objects
        BY Zenon DEF IndInv, TypeOK
      <3> QED
        BY <3>1, PagesAssumption, SMTT(60) DEF Objects, FilePages
    <2>2. i \in cut <=> i > size /\ i <= memfd[m].size
      BY <2>1, SMTT(60)
    <2>3. i > size /\ i \notin cut => memfd[m].frames[i] = NoFrame
      BY <2>2, Zenon DEF Sized
    <2> QED
      BY <2>2, <2>3, ZenonT(60)
  <1>3. memfd'[m].frames = new
    <2>1. new = [i \in FilePages |-> IF i > size THEN NoFrame ELSE memfd[m].frames[i]]
      BY FileFields, SameSets, ZenonT(60)
    <2> HIDE DEF new, cut
    <2> QED
      BY <1>1, <1>2, <2>1, ZenonT(60)
  <1>4. File' = [File EXCEPT ![m].size = size, ![m].segments = new]
    <2> HIDE DEF new
    <2> QED
      BY <1>1, <1>3, FileChange, ZenonT(60)
  <1>5. TypeOK /\ RefcountExact
    BY Zenon DEF IndInv
  <1>6. \A n \in Memfds, i \in FilePages :
          memfd'[n].frames[i] \in {memfd[n].frames[i], NoFrame}
    <2> SUFFICES ASSUME NEW n \in Memfds, NEW i \in FilePages
        PROVE  memfd'[n].frames[i] \in {memfd[n].frames[i], NoFrame}
      BY Zenon
    <2>1. CASE n = m
      BY <1>1, <2>1, ZenonT(60)
    <2>2. CASE n # m
      BY <1>1, <2>2, ZenonT(60)
    <2> QED
      BY <2>1, <2>2, Zenon
  <1>7. Mem' = Mem /\ M!SetSegments(Segment)
    BY <1>1, <1>5, <1>6, DropSeen, ZenonT(60)
  <1>8. File[m].used /\ live' = live
    BY <1>1, FileFields, ZenonT(60)
  <1> QED
    BY <1>4, <1>7, <1>8, SMTT(60) DEF M!Truncate

\* The last close ends the object; pages that map it keep its segments.
LEMMA MemfdReleaseSeen ==
  ASSUME IndInv, NEW m \in Memfds, MemfdRelease(m)
  PROVE  M!Close(m)
PROOF
  <1>0. TypeOK /\ RefcountExact /\ DOMAIN memfd = Memfds
    BY Zenon DEF IndInv, TypeOK
  <1>1. /\ memfd[m].used /\ page' = page /\ data' = data /\ live' = live
        /\ memfd' = [memfd EXCEPT ![m] = NoObject]
    BY Zenon DEF MemfdRelease
  <1>2. memfd'[m] = NoObject /\ \A n \in Memfds \ {m} : memfd'[n] = memfd[n]
    BY <1>0, <1>1, ZenonT(60)
  <1>3. /\ NoObject.used = FALSE /\ NoObject.size = 0
        /\ NoObject.frames = [i \in FilePages |-> NoFrame]
    BY DEF NoObject
  <1>4. File'[m] = M!NoFile
    BY <1>2, <1>3, FileFieldsNext, SameSets, ZenonT(60) DEF M!NoFile
  <1>5. File' = [File EXCEPT ![m] = M!NoFile]
    <2>1. DOMAIN File = Memfds /\ File' = [n \in Memfds |-> File'[n]]
      BY Zenon DEF File
    <2>2. \A n \in Memfds \ {m} : File'[n] = File[n]
      BY <1>2, Zenon DEF File
    <2> QED
      BY <1>4, <2>1, <2>2, ZenonT(60)
  <1>6. \A n \in Memfds, i \in FilePages :
          memfd'[n].frames[i] \in {memfd[n].frames[i], NoFrame}
    BY <1>2, <1>3, ZenonT(60)
  <1>7. Mem' = Mem /\ M!SetSegments(Segment)
    BY <1>0, <1>1, <1>6, DropSeen, ZenonT(60)
  <1> QED
    BY <1>1, <1>5, <1>7, FileFields, ZenonT(60) DEF M!Close

\* Stores of v to the pages of done of an object, with new frames for holes.
Stored(m, done, v) ==
  \E h \in Fresh(Holes(m, done)) :
    /\ data' = [f \in Frames |->
         IF \E i \in done : Backing(m, h, i) = f THEN v ELSE data[f]]
    /\ memfd'[m].frames = [i \in FilePages |-> Backing(m, h, i)]

\* What a write leaves of an object.
LEMMA Written ==
  ASSUME IndInv, NEW m \in Memfds, NEW lo \in FilePages, NEW hi \in FilePages,
         NEW next \in Nat, NEW v \in Values, MemfdWrite(m, lo, hi, next, v)
  PROVE  /\ memfd[m].used /\ lo <= hi /\ next \in lo..(hi + 1)
         /\ lo..(next - 1) \in SUBSET FilePages
         /\ \A i \in lo..(next - 1) : i <= hi
         /\ page' = page /\ live' = live
         /\ \A n \in Memfds \ {m} : memfd'[n] = memfd[n]
         /\ memfd'[m].used = memfd[m].used
         /\ memfd'[m].size = IF hi > memfd[m].size THEN hi ELSE memfd[m].size
         /\ Stored(m, lo..(next - 1), v)
PROOF
  <1> DEFINE done == lo..(next - 1)
             size == IF hi > memfd[m].size THEN hi ELSE memfd[m].size
             new(h) == [i \in FilePages |-> Backing(m, h, i)]
  <1>1. memfd[m] \in Objects /\ DOMAIN memfd = Memfds
    BY Zenon DEF IndInv, TypeOK
  <1>2. /\ memfd[m].used /\ lo <= hi /\ next \in lo..(hi + 1)
        /\ page' = page /\ live' = live
    BY Zenon DEF MemfdWrite
  <1>3. done \in SUBSET FilePages /\ \A i \in done : i <= hi
    BY <1>2, PagesAssumption, SMTT(60) DEF FilePages
  <1>4. PICK h \in Fresh(Holes(m, done)) :
          /\ data' = [f \in Frames |->
               IF \E i \in done : Backing(m, h, i) = f THEN v ELSE data[f]]
          /\ memfd' = [memfd EXCEPT
               ![m].size = IF hi > @ THEN hi ELSE @,
               ![m].frames = new(h)]
    BY ZenonT(60) DEF MemfdWrite
  <1>5. memfd' = [memfd EXCEPT ![m].size = size, ![m].frames = new(h)]
    BY <1>1, <1>4, SMTT(60) DEF Objects
  <1> HIDE DEF new, size, done
  <1>6. \A n \in Memfds \ {m} : memfd'[n] = memfd[n]
    BY <1>1, <1>5, ZenonT(60)
  <1>7. memfd'[m].used = memfd[m].used /\ memfd'[m].size = size /\ memfd'[m].frames = new(h)
    BY <1>1, <1>5, SMTT(60) DEF Objects
  <1>8. Stored(m, done, v)
    BY <1>4, <1>7, ZenonT(60) DEF Stored, new
  <1> QED
    BY <1>2, <1>3, <1>6, <1>7, <1>8, ZenonT(60) DEF size, done

\* A write reaches the object and every shared mapping of it, no private page.
LEMMA MemfdWriteSeen ==
  ASSUME IndInv, NEW m \in Memfds, NEW lo \in FilePages, NEW hi \in FilePages,
         NEW next \in Nat, NEW v \in Values, MemfdWrite(m, lo, hi, next, v)
  PROVE  M!FileWrite(m, lo, hi, next, v)
PROOF
  <1> DEFINE done == lo..(next - 1)
             size == IF hi > memfd[m].size THEN hi ELSE memfd[m].size
  <1>0. TypeOK /\ RefcountExact /\ FrameRoles
    BY Zenon DEF IndInv
  <1>1. /\ memfd[m].used /\ lo <= hi /\ next \in lo..(hi + 1)
        /\ done \in SUBSET FilePages
        /\ page' = page /\ live' = live
        /\ \A n \in Memfds \ {m} : memfd'[n] = memfd[n]
        /\ memfd'[m].used = memfd[m].used /\ memfd'[m].size = size
    BY Written, Zenon
  <1>2. PICK h \in Fresh(Holes(m, done)) :
          /\ data' = [f \in Frames |->
               IF \E i \in done : Backing(m, h, i) = f THEN v ELSE data[f]]
          /\ memfd'[m].frames = [i \in FilePages |-> Backing(m, h, i)]
    <2>1. Stored(m, done, v)
      BY Written, Zenon
    <2> QED
      BY <2>1, Zenon DEF Stored
  <1>3. File[m].used /\ File[m].size = memfd[m].size /\ File[m].segments = memfd[m].frames
    BY <1>1, FileFields, ZenonT(60)
  <1> HIDE DEF done, size
  <1>4. DOMAIN h = Holes(m, done) /\ Drawn(h) \subseteq FreeFrames
        /\ \A i \in DOMAIN h : h[i] \in Drawn(h)
    BY DrawnOnce, FreshFrames, ZenonT(60)
  <1>5. h \in M!New({i \in done : File[m].segments[i] = NoFrame})
    <2>1. Holes(m, done) = {i \in done : File[m].segments[i] = NoFrame}
      BY <1>3, ZenonT(60) DEF Holes
    <2>2. h \in M!New(Holes(m, done))
      BY <1>0, FreshNew, ZenonT(60)
    <2> QED
      BY <2>1, <2>2, ZenonT(60)
  <1>6. /\ \A i \in FilePages : /\ memfd'[m].frames[i] = Backing(m, h, i)
                                /\ File'[m].segments[i] = Backing(m, h, i)
        /\ memfd'[m].frames =
             [i \in M!FilePages |-> IF i \in DOMAIN h THEN h[i] ELSE File[m].segments[i]]
    <2>1. \A i \in FilePages : memfd'[m].frames[i] = Backing(m, h, i)
      BY <1>2, Zenon
    <2>2. File'[m].segments = memfd'[m].frames
      BY FileFieldsNext, Zenon
    <2>3. [i \in FilePages |-> Backing(m, h, i)] =
            [i \in M!FilePages |-> IF i \in DOMAIN h THEN h[i] ELSE File[m].segments[i]]
      BY <1>3, SameSets, ZenonT(60) DEF Backing
    <2> QED
      BY <1>2, <2>1, <2>2, <2>3, ZenonT(60)
  <1>7. File' = [File EXCEPT ![m].size = size, ![m].segments =
          [i \in M!FilePages |-> IF i \in DOMAIN h THEN h[i] ELSE File[m].segments[i]]]
    BY <1>1, <1>6, FileChange, ZenonT(60)
  <1>8. \A i \in done : i \notin DOMAIN h => IsSegment(memfd[m].frames[i])
                                             /\ memfd[m].frames[i] # NoFrame
    <2>1. \A i \in done : i \notin DOMAIN h => memfd[m].frames[i] # NoFrame
      BY <1>4, Zenon DEF Holes
    <2> QED
      BY <1>0, <1>1, <2>1, Holders, Zenon
  <1>9. ASSUME NEW t \in Spaces, NEW b \in Pages, Mapped(t, b), ~page[t][b].shared
        PROVE  data'[page[t][b].frame] = data[page[t][b].frame]
    <2>1. page[t][b].frame \in Frames
      BY <1>0, <1>9, Holders, ZenonT(60)
    <2>2. ASSUME NEW i \in done PROVE Backing(m, h, i) # page[t][b].frame
      <3>1. CASE i \in DOMAIN h
        <4>1. h[i] \in FreeFrames
          BY <1>4, <3>1, ZenonT(60)
        <4>2. page[t][b].frame # h[i]
          BY <1>0, <4>1, FreeUnheld, ZenonT(60)
        <4> QED
          BY <3>1, <4>2, ZenonT(60) DEF Backing
      <3>2. CASE i \notin DOMAIN h
        <4>1. i \in FilePages /\ Backing(m, h, i) = memfd[m].frames[i]
          BY <1>1, <3>2, ZenonT(60) DEF Backing
        <4>2. memfd[m].frames[i] = page[t][b].frame => page[t][b].shared
          BY <1>0, <1>9, <4>1, SMTT(60) DEF FrameRoles
        <4> QED
          BY <1>9, <4>1, <4>2, ZenonT(60)
      <3> QED
        BY <3>1, <3>2, ZenonT(60)
    <2> QED
      BY <1>2, <2>1, <2>2, Zenon
  <1>10. \A t \in Spaces, b \in Pages : Cell(t, b)' = Cell(t, b)
    BY <1>1, <1>9, CellKept, ZenonT(60) DEF Mapped
  <1>11. Mem' = Mem
    BY <1>10, ZenonT(60) DEF Mem
  <1> DEFINE new == [x \in Frames |->
               IF \E i \in done : File'[m].segments[i] = x THEN v ELSE Segment[x]]
  <1>12. ASSUME NEW f \in Frames, IsSegment(f)' PROVE data'[f] = new[f]
    <2>1. (\E i \in done : File'[m].segments[i] = f) <=> (\E i \in done : Backing(m, h, i) = f)
      BY <1>1, <1>6, ZenonT(60)
    <2>2. CASE \E i \in done : Backing(m, h, i) = f
      BY <1>2, <2>1, <2>2, ZenonT(60)
    <2>3. CASE ~\E i \in done : Backing(m, h, i) = f
      <3>1. data'[f] = data[f] /\ new[f] = Segment[f]
        BY <1>2, <2>1, <2>3, ZenonT(60)
      <3>2. \/ \E n \in Memfds, i \in FilePages : memfd'[n].frames[i] = f
            \/ \E t \in Spaces, b \in Pages : page'[t][b].frame = f /\ page'[t][b].shared
        BY <1>12, SegmentsAreNext, ZenonT(60) DEF SegmentsSeen
      <3>3. ASSUME NEW n \in Memfds, NEW i \in FilePages, memfd'[n].frames[i] = f
            PROVE  memfd[n].frames[i] = f
        <4>1. CASE n # m
          BY <1>1, <3>3, <4>1, ZenonT(60)
        <4>2. CASE n = m
          <5>1. Backing(m, h, i) = f
            BY <1>6, <3>3, <4>2, ZenonT(60)
          <5>2. i \notin DOMAIN h
            BY <1>4, <2>3, <5>1, ZenonT(60) DEF Holes
          <5> QED
            BY <4>2, <5>1, <5>2, ZenonT(60) DEF Backing
        <4> QED
          BY <4>1, <4>2, ZenonT(60)
      <3>4. IsSegment(f)
        BY <1>1, <3>2, <3>3, SegmentsAre, ZenonT(60) DEF SegmentsSeen
      <3>5. Segment[f] = data[f]
        BY <3>4, SegmentsAre, ZenonT(60) DEF SegmentsSeen
      <3> QED
        BY <3>1, <3>5, ZenonT(60)
    <2> QED
      BY <2>2, <2>3, ZenonT(60)
  <1>13. M!SetSegments(new)
    <2> HIDE DEF new
    <2> QED
      BY <1>12, SegmentsSet, ZenonT(60)
  <1>14. File[m].used /\ live' = live /\ size = IF hi > File[m].size THEN hi ELSE File[m].size
    BY <1>1, <1>3, ZenonT(60) DEF size
  <1> QED
    BY <1>1, <1>5, <1>7, <1>11, <1>13, <1>14, ZenonT(60) DEF M!FileWrite, done

-----------------------------------------------------------------------------
(* Frames of objects lie within their size *)

\* Holes are filled below the size only.
LEMMA SizedFill ==
  ASSUME TypeOK, Sized, NEW m \in Memfds, NEW files \in SUBSET FilePages,
         \A i \in files : i <= memfd[m].size,
         NEW h \in Fresh(Holes(m, files)), FillHoles(m, h)
  PROVE  Sized'
PROOF
  <1> DEFINE new == [i \in FilePages |-> Backing(m, h, i)]
  <1>1. memfd[m] \in Objects /\ DOMAIN memfd = Memfds
    BY Zenon DEF TypeOK
  <1>2. memfd' = [memfd EXCEPT ![m].frames = new]
    BY Zenon DEF FillHoles
  <1>3. \A i \in FilePages : new[i] = Backing(m, h, i)
    BY Zenon
  <1> HIDE DEF new
  <1>4. memfd'[m].size = memfd[m].size /\ memfd'[m].frames = new
    BY <1>1, <1>2, SMTT(60) DEF Objects
  <1>5. \A n \in Memfds \ {m} : memfd'[n] = memfd[n]
    BY <1>1, <1>2, ZenonT(60)
  <1>6. DOMAIN h = Holes(m, files) /\ Holes(m, files) \subseteq files
    BY Zenon DEF Fresh, Holes
  <1> SUFFICES ASSUME NEW n \in Memfds, NEW i \in FilePages, memfd'[n].frames[i] # NoFrame
      PROVE  i <= memfd'[n].size
    BY Zenon DEF Sized
  <1>7. CASE n # m
    BY <1>5, <1>7, ZenonT(60) DEF Sized
  <1>8. CASE n = m /\ i \in DOMAIN h
    BY <1>4, <1>6, <1>8, ZenonT(60)
  <1>9. CASE n = m /\ i \notin DOMAIN h
    <2>1. memfd'[n].frames[i] = memfd[n].frames[i]
      BY <1>3, <1>4, <1>9, ZenonT(60) DEF Backing
    <2> QED
      BY <1>4, <1>9, <2>1, ZenonT(60) DEF Sized
  <1> QED
    BY <1>7, <1>8, <1>9, ZenonT(60)

\* No form of linux_mmap gives an object frames past its size.
LEMMA SizedMmap ==
  ASSUME IndInv, Sized, NEW s \in Spaces, NEW range \in Intervals, NEW protection,
         MmapNext(s, range, protection)
  PROVE  Sized'
PROOF
  <1>0. TypeOK /\ \A m \in Memfds : memfd[m].size \in 0..NFilePages
    <2>1. TypeOK /\ \A m \in Memfds : memfd[m] \in Objects
      BY Zenon DEF IndInv, TypeOK
    <2> QED
      BY <2>1, SMTT(60) DEF Objects
  <1>1. CASE memfd' = memfd
    BY <1>1, Zenon DEF Sized
  <1>2. ASSUME NEW m \in Memfds, NEW off \in Nat, memfd[m].used,
               off + Cardinality(range) <= memfd[m].size,
               NEW h \in Fresh(Holes(m, {BackingPage(range, off, a) : a \in range})),
               FillHoles(m, h)
        PROVE  Sized'
    <2>1. \A a \in range : /\ BackingPage(range, off, a) \in FilePages
                           /\ BackingPage(range, off, a) <= memfd[m].size
      BY <1>0, <1>2, BackingInFile, ZenonT(60)
    <2> DEFINE files == {BackingPage(range, off, a) : a \in range}
    <2>2. files \in SUBSET FilePages /\ \A i \in files : i <= memfd[m].size
      BY <2>1, Zenon
    <2>3. h \in Fresh(Holes(m, files))
      BY Zenon
    <2> HIDE DEF files
    <2> QED
      BY <1>0, <1>2, <2>2, <2>3, SizedFill, ZenonT(60)
  <1>3. ASSUME NEW m \in Memfds, NEW off \in Nat, NEW k \in Nat,
               MmapMemfdFail(s, range, protection, m, off, k)
        PROVE  Sized'
    <2> DEFINE files == (off + 1)..(off + k)
    <2>1. /\ k \in 0..Cardinality(range)
          /\ k > 0 => off + Cardinality(range) <= memfd[m].size
      BY <1>3, Zenon DEF MmapMemfdFail
    <2>2. PICK h \in Fresh(Holes(m, files)) : FillHoles(m, h)
      BY <1>3, Zenon DEF MmapMemfdFail
    <2>3. memfd[m].size \in 0..NFilePages
      BY <1>0, Zenon
    <2>4. Cardinality(range) \in Nat
      <3>1. IsFiniteSet(Pages) /\ range \in SUBSET Pages
        BY PagesAssumption, IntervalPages, FS_Interval, SMTT(60) DEF Pages
      <3>2. IsFiniteSet(range)
        BY <3>1, FS_Subset, ZenonT(60)
      <3> QED
        BY <3>2, FS_CardinalityType, ZenonT(60)
    <2>5. \A i \in files : i \in FilePages /\ i <= memfd[m].size
      BY <2>1, <2>3, <2>4, PagesAssumption, SMTT(60) DEF FilePages
    <2> HIDE DEF files
    <2>6. files \in SUBSET FilePages /\ \A i \in files : i <= memfd[m].size
      BY <2>5, Zenon
    <2> QED
      BY <1>0, <2>2, <2>6, SizedFill, ZenonT(60)
  <1>4. \A off \in 0..NFilePages : off \in Nat
    BY PagesAssumption, SMTT(60)
  <1>5. ASSUME NEW m \in Memfds, NEW off \in 0..NFilePages,
               MmapMemfdShared(s, range, protection, m, off)
        PROVE  Sized'
    BY <1>2, <1>4, <1>5, ZenonT(60) DEF MmapMemfdShared
  <1>6. ASSUME NEW m \in Memfds, NEW off \in 0..NFilePages,
               MmapMemfdPrivate(s, range, protection, m, off)
        PROVE  Sized'
    BY <1>2, <1>4, <1>6, ZenonT(60) DEF MmapMemfdPrivate
  <1>7. ASSUME NEW shared, MmapAnonymous(s, range, protection, shared)
        PROVE  Sized'
    BY <1>1, <1>7, ZenonT(60) DEF MmapAnonymous
  <1>8. ASSUME NEW contents, MmapFile(s, range, protection, contents)
        PROVE  Sized'
    BY <1>1, <1>8, ZenonT(60) DEF MmapFile
  <1>9. CASE Mprotect(s, range, protection)
    BY <1>1, <1>9, ZenonT(60) DEF Mprotect
  <1> QED
    BY <1>3, <1>4, <1>5, <1>6, <1>7, <1>8, <1>9, ZenonT(60) DEF MmapNext

\* Nor do the calls on the object itself.
LEMMA SizedMemfd ==
  ASSUME IndInv, Sized, NEW m \in Memfds, MemfdNext(m)
  PROVE  Sized'
PROOF
  <1>0. /\ memfd[m] \in Objects /\ DOMAIN memfd = Memfds
        /\ \A i \in FilePages : i \in Nat
    <2>1. memfd[m] \in Objects /\ DOMAIN memfd = Memfds
      BY Zenon DEF IndInv, TypeOK
    <2>2. \A i \in FilePages : i \in Nat
      BY PagesAssumption, SMTT(60) DEF FilePages
    <2> QED
      BY <2>1, <2>2, ZenonT(60)
  <1>1. memfd[m].size \in Nat
    BY <1>0, PagesAssumption, SMTT(60) DEF Objects
  <1>2. ASSUME MemfdCreate(m) PROVE Sized'
    <2>1. memfd' = [memfd EXCEPT ![m].used = TRUE]
      BY <1>2, Zenon DEF MemfdCreate
    <2>2. \A n \in Memfds \ {m} : memfd'[n] = memfd[n]
      BY <1>0, <2>1, ZenonT(60)
    <2>3. memfd'[m].size = memfd[m].size /\ memfd'[m].frames = memfd[m].frames
      BY <1>0, <2>1, SMTT(60) DEF Objects
    <2> QED
      BY <2>2, <2>3, ZenonT(60) DEF Sized
  <1>3. ASSUME NEW size \in 0..NFilePages, Ftruncate(m, size) PROVE Sized'
    <2> DEFINE cut == (size + 1)..memfd[m].size
    <2>1. /\ \A n \in Memfds \ {m} : memfd'[n] = memfd[n]
          /\ memfd'[m].size = size
          /\ memfd'[m].frames =
               [i \in FilePages |-> IF i \in cut THEN NoFrame ELSE memfd[m].frames[i]]
      BY <1>3, Truncated, ZenonT(60)
    <2>2. \A i \in FilePages : i \notin cut /\ i <= memfd[m].size => i <= size
      BY <1>0, <1>1, SMTT(60)
    <2> HIDE DEF cut
    <2> SUFFICES ASSUME NEW n \in Memfds, NEW i \in FilePages, memfd'[n].frames[i] # NoFrame
        PROVE  i <= memfd'[n].size
      BY Zenon DEF Sized
    <2>3. CASE n # m
      BY <2>1, <2>3, ZenonT(60) DEF Sized
    <2>4. CASE n = m
      <3>1. i \notin cut /\ memfd[m].frames[i] # NoFrame
        BY <2>1, <2>4, ZenonT(60)
      <3>2. i <= memfd[m].size
        BY <3>1, Zenon DEF Sized
      <3> QED
        BY <2>1, <2>2, <2>4, <3>1, <3>2, ZenonT(60)
    <2> QED
      BY <2>3, <2>4, ZenonT(60)
  <1>4. ASSUME NEW lo \in FilePages, NEW hi \in FilePages, NEW next \in 1..(NFilePages + 1),
               NEW v \in Values, MemfdWrite(m, lo, hi, next, v)
        PROVE  Sized'
    <2> DEFINE done == lo..(next - 1)
               size == IF hi > memfd[m].size THEN hi ELSE memfd[m].size
    <2>0. next \in Nat
      BY PagesAssumption, SMTT(60)
    <2>1. /\ \A i \in done : i <= hi
          /\ \A n \in Memfds \ {m} : memfd'[n] = memfd[n]
          /\ memfd'[m].size = size /\ Stored(m, done, v)
          /\ done \in SUBSET FilePages
      BY <1>4, <2>0, Written, ZenonT(60)
    <2>2. PICK h \in Fresh(Holes(m, done)) :
            memfd'[m].frames = [i \in FilePages |-> Backing(m, h, i)]
      BY <2>1, ZenonT(60) DEF Stored
    <2>3. \A i \in FilePages : i <= hi \/ i <= memfd[m].size => i <= size
      BY <1>0, <1>1, SMTT(60)
    <2> HIDE DEF done, size
    <2>4. DOMAIN h \subseteq done
      BY Zenon DEF Fresh, Holes
    <2> SUFFICES ASSUME NEW n \in Memfds, NEW i \in FilePages, memfd'[n].frames[i] # NoFrame
        PROVE  i <= memfd'[n].size
      BY Zenon DEF Sized
    <2>5. CASE n # m
      BY <2>1, <2>5, ZenonT(60) DEF Sized
    <2>6. CASE n = m /\ i \in DOMAIN h
      BY <2>1, <2>3, <2>4, <2>6, ZenonT(60)
    <2>7. CASE n = m /\ i \notin DOMAIN h
      <3>1. memfd[m].frames[i] # NoFrame
        BY <2>2, <2>7, Zenon DEF Backing
      <3>2. i <= memfd[m].size
        BY <3>1, Zenon DEF Sized
      <3> QED
        BY <2>1, <2>3, <2>7, <3>2, ZenonT(60)
    <2> QED
      BY <2>5, <2>6, <2>7, ZenonT(60)
  <1>5. ASSUME MemfdRelease(m) PROVE Sized'
    <2>1. memfd'[m] = NoObject /\ \A n \in Memfds \ {m} : memfd'[n] = memfd[n]
      BY <1>0, <1>5, ZenonT(60) DEF MemfdRelease
    <2>2. \A i \in FilePages : NoObject.frames[i] = NoFrame
      BY DEF NoObject
    <2> QED
      BY <2>1, <2>2, ZenonT(60) DEF Sized
  <1> QED
    BY <1>2, <1>3, <1>4, <1>5, ZenonT(60) DEF MemfdNext

-----------------------------------------------------------------------------
(* The refinement *)

\* Steps of Memory on a range, by name.
LEMMA RangeSteps ==
  ASSUME NEW s \in Spaces, NEW range \in Intervals
  PROVE  /\ \A protection \in Protections :
              /\ \A contents \in [range -> Values] :
                   M!MapPrivate(s, range, protection, contents) => M!Next
              /\ M!MapShared(s, range, protection) => M!Next
              /\ M!Protect(s, range, protection) => M!Next
              /\ \A shared \in BOOLEAN, m \in Memfds, off \in 0..NFilePages :
                   M!MapFile(s, range, protection, shared, m, off) => M!Next
         /\ \A protection \in ImageProtections, v \in Values :
              M!Load(s, range, protection, v) => M!Next
         /\ M!Unmap(s, range) => M!Next
         /\ M!Extend(s, range) => M!Next
PROOF
  <1>1. range \in M!Intervals
    BY SameSets, ZenonT(60)
  <1>2. \A protection \in Protections :
          /\ \A contents \in [range -> Values] :
               M!MapPrivate(s, range, protection, contents) => M!Next
          /\ M!MapShared(s, range, protection) => M!Next
          /\ M!Protect(s, range, protection) => M!Next
          /\ \A shared \in BOOLEAN, m \in Memfds, off \in 0..NFilePages :
               M!MapFile(s, range, protection, shared, m, off) => M!Next
    BY <1>1, ZenonT(60) DEF M!Next
  <1>3. /\ \A protection \in ImageProtections, v \in Values :
             M!Load(s, range, protection, v) => M!Next
        /\ M!Unmap(s, range) => M!Next
        /\ M!Extend(s, range) => M!Next
    BY <1>1, Zenon DEF M!Next
  <1> QED
    BY <1>2, <1>3, ZenonT(60)

\* The other steps of Memory, by name.
LEMMA OtherSteps ==
  /\ \A s \in Spaces, set \in SUBSET Pages, v \in Values : M!Write(s, set, v) => M!Next
  /\ \A s, d \in Spaces : M!Fork(s, d) => M!Next
  /\ \A s \in Spaces : M!Exit(s) => M!Next
  /\ \A m \in Memfds :
       /\ M!Create(m) => M!Next
       /\ M!Close(m) => M!Next
       /\ \A size \in 0..NFilePages : M!Truncate(m, size) => M!Next
       /\ \A lo, hi \in FilePages, next \in 1..(NFilePages + 1), v \in Values :
            M!FileWrite(m, lo, hi, next, v) => M!Next
PROOF
  <1>1. \A s \in Spaces, set \in SUBSET Pages, v \in Values : M!Write(s, set, v) => M!Next
    BY SameSets, ZenonT(60) DEF M!Next
  <1>2. /\ \A s, d \in Spaces : M!Fork(s, d) => M!Next
        /\ \A s \in Spaces : M!Exit(s) => M!Next
    BY Zenon DEF M!Next
  <1>3. \A m \in Memfds :
          /\ M!Create(m) => M!Next
          /\ M!Close(m) => M!Next
          /\ \A size \in 0..NFilePages : M!Truncate(m, size) => M!Next
    BY Zenon DEF M!Next
  <1>4. \A m \in Memfds, lo, hi \in FilePages, next \in 1..(NFilePages + 1), v \in Values :
          M!FileWrite(m, lo, hi, next, v) => M!Next
    BY SameSets, ZenonT(60) DEF M!Next
  <1> QED
    BY <1>1, <1>2, <1>3, <1>4, ZenonT(60)

\* A step of mmap or mprotect is a step of Memory.
LEMMA MmapImplements ==
  ASSUME IndInv, NEW s \in Spaces, NEW range \in Intervals, NEW protection \in Protections,
         MmapNext(s, range, protection)
  PROVE  M!Next
PROOF
  <1>1. ASSUME NEW shared \in BOOLEAN, MmapAnonymous(s, range, protection, shared)
        PROVE  M!Next
    <2>1. [a \in range |-> Zero] \in [range -> Values]
      BY ValuesAssumption, Zenon
    <2>2. \/ M!MapPrivate(s, range, protection, [a \in range |-> Zero])
          \/ M!MapShared(s, range, protection)
          \/ M!Unmap(s, range)
      BY <1>1, MmapAnonymousSeen, ZenonT(60)
    <2> QED
      BY <2>1, <2>2, RangeSteps, ZenonT(60)
  <1>2. ASSUME NEW contents \in [range -> Values], MmapFile(s, range, protection, contents)
        PROVE  M!Next
    BY <1>2, MmapFileSeen, RangeSteps, ZenonT(60)
  <1>3. ASSUME NEW m \in Memfds, NEW off \in 0..NFilePages,
               \/ MmapMemfdShared(s, range, protection, m, off)
               \/ MmapMemfdPrivate(s, range, protection, m, off)
               \/ \E k \in 0..NFilePages : MmapMemfdFail(s, range, protection, m, off, k)
        PROVE  M!Next
    <2>1. off \in Nat /\ \A k \in 0..NFilePages : k \in Nat
      BY PagesAssumption, SMTT(60)
    <2>2. CASE MmapMemfdShared(s, range, protection, m, off)
      <3>1. M!MapFile(s, range, protection, TRUE, m, off)
        BY <2>1, <2>2, MmapMemfdSharedSeen, ZenonT(60)
      <3> QED
        BY <3>1, RangeSteps, ZenonT(60)
    <2>3. CASE MmapMemfdPrivate(s, range, protection, m, off)
      <3>1. M!MapFile(s, range, protection, FALSE, m, off)
        BY <2>1, <2>3, MmapMemfdPrivateSeen, ZenonT(60)
      <3> QED
        BY <3>1, RangeSteps, ZenonT(60)
    <2>4. CASE \E k \in 0..NFilePages : MmapMemfdFail(s, range, protection, m, off, k)
      BY <2>1, <2>4, MmapMemfdFailSeen, RangeSteps, ZenonT(60)
    <2> QED
      BY <1>3, <2>2, <2>3, <2>4, ZenonT(60)
  <1>4. CASE Mprotect(s, range, protection)
    BY <1>4, MprotectSeen, RangeSteps, ZenonT(60)
  <1> QED
    BY <1>1, <1>2, <1>3, <1>4, ZenonT(60) DEF MmapNext

\* A step of a space is a step of Memory, or one that programs cannot see.
LEMMA SpaceImplements ==
  ASSUME IndInv, ProperRecords, NEW s \in Spaces, SpaceNext(s)
  PROVE  M!Next \/ UNCHANGED M!vars
PROOF
  <1>1. ASSUME NEW range \in Intervals, NEW protection \in Protections,
               MmapNext(s, range, protection)
        PROVE  M!Next
    BY <1>1, MmapImplements, ZenonT(60)
  <1>2. ASSUME NEW range \in Intervals, NEW protection \in ImageProtections,
               NEW v \in Values, LoadImage(s, range, protection, v)
        PROVE  M!Next
    <2>1. protection \in SUBSET {"R", "W", "X"}
      BY ProtectionsAssumption, Zenon
    <2>2. M!Load(s, range, protection, v)
      BY <1>2, <2>1, LoadImageSeen, ZenonT(60)
    <2> QED
      BY <2>2, RangeSteps, ZenonT(60)
  <1>3. ASSUME NEW range \in Intervals, Munmap(s, range)
        PROVE  M!Next
    BY <1>3, MunmapSeen, RangeSteps, ZenonT(60)
  <1>4. ASSUME NEW range \in Intervals, BrkGrow(s, range)
        PROVE  M!Next
    BY <1>4, BrkGrowSeen, RangeSteps, ZenonT(60)
  <1>5. ASSUME NEW range \in Intervals, NEW v \in Values, CopyToUser(s, range, v)
        PROVE  M!Next
    <2>1. range \in SUBSET Pages
      BY IntervalPages, Zenon
    <2>2. \E set \in SUBSET Pages : M!Write(s, set, v)
      BY <1>5, <2>1, CopyToUserSeen, ZenonT(60)
    <2> QED
      BY <2>2, OtherSteps, ZenonT(60)
  <1>6. ASSUME NEW a \in Pages, NEW v \in Values, UserWrite(s, a, v)
        PROVE  M!Next
    <2>1. M!Write(s, {a}, v) /\ {a} \in SUBSET Pages
      BY <1>6, UserWriteSeen, ZenonT(60)
    <2> QED
      BY <2>1, OtherSteps, ZenonT(60)
  <1>7. ASSUME NEW a \in Pages, CowFault(s, a)
        PROVE  UNCHANGED M!vars
    BY <1>7, CowFaultSeen, ZenonT(60)
  <1>8. ASSUME NEW a \in Pages, DemandFault(s, a)
        PROVE  M!Next
    <2>1. M!Extend(s, {a}) /\ {a} \in Intervals
      BY <1>8, DemandFaultSeen, ZenonT(60)
    <2> QED
      BY <2>1, RangeSteps, ZenonT(60)
  <1>9. ASSUME NEW d \in Spaces, Clone(s, d)
        PROVE  M!Next
    BY <1>9, CloneSeen, OtherSteps, ZenonT(60)
  <1>10. ASSUME NEW done \in SUBSET Pages, CloneFail(s, done)
         PROVE  UNCHANGED M!vars
    BY <1>10, CloneFailSeen, ZenonT(60)
  <1>11. CASE Release(s)
    BY <1>11, ReleaseSeen, OtherSteps, ZenonT(60)
  <1> QED
    BY <1>1, <1>2, <1>3, <1>4, <1>5, <1>6, <1>7, <1>8, <1>9, <1>10, <1>11, ZenonT(60)
    DEF SpaceNext

\* A step of an object is a step of Memory.
LEMMA MemfdImplements ==
  ASSUME IndInv, Sized, NEW m \in Memfds, MemfdNext(m)
  PROVE  M!Next
PROOF
  <1>1. CASE MemfdCreate(m)
    BY <1>1, MemfdCreateSeen, OtherSteps, ZenonT(60)
  <1>2. ASSUME NEW size \in 0..NFilePages, Ftruncate(m, size)
        PROVE  M!Next
    BY <1>2, FtruncateSeen, OtherSteps, ZenonT(60)
  <1>3. ASSUME NEW lo \in FilePages, NEW hi \in FilePages, NEW next \in 1..(NFilePages + 1),
               NEW v \in Values, MemfdWrite(m, lo, hi, next, v)
        PROVE  M!Next
    <2>1. next \in Nat
      BY PagesAssumption
    <2>2. M!FileWrite(m, lo, hi, next, v)
      BY <1>3, <2>1, MemfdWriteSeen, ZenonT(60)
    <2> QED
      BY <2>2, OtherSteps, ZenonT(60)
  <1>4. CASE MemfdRelease(m)
    BY <1>4, MemfdReleaseSeen, OtherSteps, ZenonT(60)
  <1> QED
    BY <1>1, <1>2, <1>3, <1>4, ZenonT(60) DEF MemfdNext

\* A step that changes nothing is invisible.
LEMMA StutterSeen ==
  ASSUME UNCHANGED vars
  PROVE  UNCHANGED M!vars
PROOF
  <1>1. page' = page /\ data' = data /\ memfd' = memfd /\ live' = live
    BY Zenon DEF vars
  <1>2. \A t \in Spaces, b \in Pages : Cell(t, b)' = Cell(t, b)
    BY <1>1, CellKept, ZenonT(60) DEF Mapped
  <1>3. Mem' = Mem
    BY <1>2, Zenon DEF Mem
  <1>4. Segment' = Segment
    BY <1>1, SegmentsFixed, ZenonT(60)
  <1>5. File' = File
    BY <1>1, Zenon DEF File
  <1> QED
    BY <1>1, <1>3, <1>4, <1>5, ZenonT(60) DEF M!vars

=============================================================================
