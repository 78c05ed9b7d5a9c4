--------------------------------- MODULE Vm ---------------------------------
(***************************************************************************)
(* Virtual memory of NovaOS: kernel/vm.c and the system-call handlers of   *)
(* kernel/process.c that drive it (mmap, munmap, mprotect, brk, clone,     *)
(* execve, the page-fault handler, user copies and memfd objects).         *)
(*                                                                         *)
(* Handlers run with interrupts masked on the only CPU, so each of them is *)
(* one action.  What interleaves is the user-mode store (UserWrite) with   *)
(* the handlers of every process.                                          *)
(*                                                                         *)
(* A page's 4096 bytes are one value.  A frame is free exactly when its    *)
(* reference count is 0.  Every allocation (heap, page records, page       *)
(* tables, hash slots) may fail: a failing handler is a disjunct of its    *)
(* action.                                                                 *)
(***************************************************************************)
EXTENDS Integers, FiniteSets

CONSTANTS
  Spaces,       \* identities of AddressSpace objects
  Frames,       \* VmFrame objects the heap can hold
  NoFrame,      \* the NULL VmFrame pointer
  NPages,       \* user pages of a space, numbered from 1
  MmapBase,     \* pages below it are the image and the brk heap
  StackBase,    \* first page of the stack window (StackBase .. NPages)
  Memfds,       \* slots of memfd_objects
  NFilePages,   \* largest memfd size in pages (MAX_MEMFD_SIZE)
  Values,       \* contents of a page
  Zero,         \* contents of a zeroed page
  Protections,  \* protections callers of mmap and mprotect pass
  ImageProtections \* protections of ELF segments

ASSUME FramesAssumption == IsFiniteSet(Frames) /\ NoFrame \notin Frames
ASSUME SpacesAssumption == IsFiniteSet(Spaces) /\ IsFiniteSet(Memfds)
ASSUME PagesAssumption ==
  /\ NPages \in Nat \ {0}
  /\ StackBase \in 1..NPages
  /\ MmapBase \in 1..StackBase
  /\ NFilePages \in Nat
ASSUME ValuesAssumption == Zero \in Values
ASSUME ProtectionsAssumption ==
  Protections \cup ImageProtections \subseteq SUBSET {"R", "W", "X"}

Pages == 1..NPages
FilePages == 1..NFilePages
StackPages == StackBase..NPages
Intervals == {r \in SUBSET Pages : \E lo, hi \in Pages : lo <= hi /\ r = lo..hi}

VARIABLES
  references,   \* VmFrame.references of every frame
  data,         \* VmFrame.data of every frame
  live,         \* the spaces that exist
  page,         \* VmSpace.pages, by virtual page
  entry,        \* the hardware page-table entries
  memfd         \* memfd_objects

vars == <<references, data, live, page, entry, memfd>>

-----------------------------------------------------------------------------
(* Records *)

PageRecords ==
  [frame : Frames \cup {NoFrame}, protection : SUBSET {"R", "W", "X"},
   copy_on_write : BOOLEAN, shared : BOOLEAN]

\* A record cleared by memset.
Unmapped ==
  [frame |-> NoFrame, protection |-> {}, copy_on_write |-> FALSE, shared |-> FALSE]

Entries == [frame : Frames \cup {NoFrame}, write : BOOLEAN, exec : BOOLEAN]

NoEntry == [frame |-> NoFrame, write |-> FALSE, exec |-> FALSE]

\* page_flags: the entry the kernel writes for a page record.
page_flags(p) ==
  [frame |-> p.frame,
   write |-> "W" \in p.protection /\ ~p.copy_on_write,
   exec  |-> "X" \in p.protection]

Objects == [used : BOOLEAN, size : 0..NFilePages,
            frames : [FilePages -> Frames \cup {NoFrame}]]

NoObject == [used |-> FALSE, size |-> 0, frames |-> [i \in FilePages |-> NoFrame]]

Mapped(s, a) == page[s][a].frame # NoFrame

FreeFrames == {f \in Frames : references[f] = 0}

\* The ways to draw one new frame for every element of a set.
Fresh(S) ==
  {g \in [S -> FreeFrames] : \A x, y \in S : g[x] = g[y] => x = y}

Drawn(g) == {g[x] : x \in DOMAIN g}

\* How many of the pages in range of space s hold frame f.
Uses(s, range, f) == Cardinality({a \in range : page[s][a].frame = f})

-----------------------------------------------------------------------------
(* Effects shared by the handlers.  rec gives the new record of each page  *)
(* of range.                                                               *)

\* Records and entries of range are rewritten together.
SetPages(s, range, rec) ==
  /\ page' = [page EXCEPT ![s] =
                [a \in Pages |-> IF a \in range THEN rec[a] ELSE page[s][a]]]
  /\ entry' = [entry EXCEPT ![s] =
                [a \in Pages |-> IF a \in range THEN page_flags(rec[a]) ELSE entry[s][a]]]

\* vm_unmap_page on each page of range; a page that is absent is skipped.
UnmapRange(s, range) ==
  /\ references' = [f \in Frames |-> references[f] - Uses(s, range, f)]
  /\ SetPages(s, range, [a \in range |-> Unmapped])

\* vm_map_page on each page of range after it has been emptied: new frames
\* g, with the given contents, owned by their page alone.
MapFresh(s, range, g, contents, protection, shared) ==
  /\ references' = [f \in Frames |->
       IF f \in Drawn(g) THEN 1 ELSE references[f] - Uses(s, range, f)]
  /\ data' = [f \in Frames |->
       IF f \in Drawn(g) THEN contents[CHOOSE a \in range : g[a] = f] ELSE data[f]]
  /\ SetPages(s, range, [a \in range |->
       [frame |-> g[a], protection |-> protection,
        copy_on_write |-> FALSE, shared |-> shared]])

\* The ranges linux_mmap accepts.  MAP_FIXED takes any range below the stack
\* and empties it; without it vm_find_free_range picks one that is empty.
Placed(range) == range \cap StackPages = {}

WriteExec(protection) == {"W", "X"} \subseteq protection

-----------------------------------------------------------------------------
(* mmap, munmap, mprotect and brk *)

\* linux_mmap without a descriptor.  MAP_SHARED marks the new pages shared
\* (vm_mark_shared) before the call returns.  On failure the pages mapped so
\* far are unmapped again, and what MAP_FIXED displaced stays unmapped.
MmapAnonymous(s, range, protection, shared) ==
  /\ s \in live /\ Placed(range) /\ ~WriteExec(protection)
  /\ \/ \E g \in Fresh(range) :
          MapFresh(s, range, g, [a \in range |-> Zero], protection, shared)
     \/ UnmapRange(s, range) /\ UNCHANGED data
  /\ UNCHANGED <<live, memfd>>

\* linux_mmap of a NovaFS file, always private: pages are mapped writable,
\* filled with the file's contents and then given their final protection.
MmapFile(s, range, protection, contents) ==
  /\ s \in live /\ Placed(range) /\ ~WriteExec(protection)
  /\ \E g \in Fresh(range) : MapFresh(s, range, g, contents, protection, FALSE)
  /\ UNCHANGED <<live, memfd>>

First(range) == CHOOSE a \in range : \A b \in range : a <= b

\* The file page behind page a of a mapping of range at page offset off.
BackingPage(range, off, a) == off + 1 + a - First(range)

\* memfd_frame(create) for the pages of a mapping: h draws frames for holes.
Backing(m, h, i) == IF i \in DOMAIN h THEN h[i] ELSE memfd[m].frames[i]

FillHoles(m, h) ==
  memfd' = [memfd EXCEPT ![m].frames = [i \in FilePages |-> Backing(m, h, i)]]

Holes(m, files) == {i \in files : memfd[m].frames[i] = NoFrame}

\* linux_mmap of a memfd, MAP_SHARED: each page maps the object's own frame.
MmapMemfdShared(s, range, protection, m, off) ==
  LET back(a) == BackingPage(range, off, a)
      files == {back(a) : a \in range}
      gained(f, h) == Cardinality({a \in range : Backing(m, h, back(a)) = f})
  IN /\ s \in live /\ Placed(range) /\ ~WriteExec(protection)
     /\ memfd[m].used /\ off + Cardinality(range) <= memfd[m].size
     /\ \E h \in Fresh(Holes(m, files)) :
          /\ references' = [f \in Frames |->
               references[f] - Uses(s, range, f) + gained(f, h)
                 + (IF f \in Drawn(h) THEN 1 ELSE 0)]
          /\ data' = [f \in Frames |-> IF f \in Drawn(h) THEN Zero ELSE data[f]]
          /\ FillHoles(m, h)
          /\ SetPages(s, range, [a \in range |->
               [frame |-> Backing(m, h, back(a)), protection |-> protection,
                copy_on_write |-> FALSE, shared |-> TRUE]])
     /\ UNCHANGED live

\* linux_mmap of a memfd, MAP_PRIVATE: each page gets a copy of the object's
\* frame, which is created first if the object has a hole there.
MmapMemfdPrivate(s, range, protection, m, off) ==
  LET back(a) == BackingPage(range, off, a)
      holes == Holes(m, {back(a) : a \in range})
  IN /\ s \in live /\ Placed(range) /\ ~WriteExec(protection)
     /\ memfd[m].used /\ off + Cardinality(range) <= memfd[m].size
     /\ \E h \in Fresh(holes), g \in Fresh(range) :
          /\ Drawn(h) \cap Drawn(g) = {}
          /\ references' = [f \in Frames |->
               IF f \in Drawn(g) \cup Drawn(h) THEN 1
               ELSE references[f] - Uses(s, range, f)]
          /\ data' = [f \in Frames |->
               IF f \in Drawn(h) THEN Zero
               ELSE IF f \in Drawn(g)
                    THEN LET i == back(CHOOSE a \in range : g[a] = f)
                         IN IF i \in holes THEN Zero ELSE data[memfd[m].frames[i]]
                    ELSE data[f]]
          /\ FillHoles(m, h)
          /\ SetPages(s, range, [a \in range |->
               [frame |-> g[a], protection |-> protection,
                copy_on_write |-> FALSE, shared |-> FALSE]])
     /\ UNCHANGED live

\* A mapping of a memfd that fails: the displaced range stays unmapped, the
\* pages mapped so far are unmapped again, and the object keeps the frames
\* created for the first k pages (none when the range exceeds the object).
MmapMemfdFail(s, range, protection, m, off, k) ==
  /\ s \in live /\ Placed(range) /\ ~WriteExec(protection)
  /\ memfd[m].used
  /\ k \in 0..Cardinality(range)
  /\ k > 0 => off + Cardinality(range) <= memfd[m].size
  /\ \E h \in Fresh(Holes(m, (off + 1)..(off + k))) :
       /\ references' = [f \in Frames |->
            IF f \in Drawn(h) THEN 1 ELSE references[f] - Uses(s, range, f)]
       /\ data' = [f \in Frames |-> IF f \in Drawn(h) THEN Zero ELSE data[f]]
       /\ FillHoles(m, h)
  /\ SetPages(s, range, [a \in range |-> Unmapped])
  /\ UNCHANGED live

\* SYS_MUNMAP, and the shrinking half of linux_brk.
Munmap(s, range) ==
  /\ s \in live
  /\ UnmapRange(s, range)
  /\ UNCHANGED <<data, live, memfd>>

\* vm_protect's new record: a private page that becomes writable while its
\* frame is still shared must be copied on the first write.
Reprotected(p, protection) ==
  [p EXCEPT !.protection = protection,
            !.copy_on_write = ~p.shared /\ "W" \in protection
                              /\ references[p.frame] > 1]

\* Mutant: mprotect does not refuse WRITE with EXEC.
Mprotect_Unchecked(s, range, protection) ==
  /\ s \in live
  /\ \A a \in range : Mapped(s, a)
  /\ SetPages(s, range, [a \in range |-> Reprotected(page[s][a], protection)])
  /\ UNCHANGED <<references, data, live, memfd>>

\* SYS_MPROTECT: every page of the range must be mapped, else nothing changes.
Mprotect(s, range, protection) ==
  /\ s \in live /\ ~WriteExec(protection)
  /\ \A a \in range : Mapped(s, a)
  /\ SetPages(s, range, [a \in range |-> Reprotected(page[s][a], protection)])
  /\ UNCHANGED <<references, data, live, memfd>>

\* vm_map_page over range: an existing page is only reprotected, an absent
\* one gets a zeroed frame.
MapMissing(s, range, protection) ==
  \E g \in Fresh({a \in range : ~Mapped(s, a)}) :
     /\ references' = [f \in Frames |-> IF f \in Drawn(g) THEN 1 ELSE references[f]]
     /\ data' = [f \in Frames |-> IF f \in Drawn(g) THEN Zero ELSE data[f]]
     /\ SetPages(s, range, [a \in range |->
          IF Mapped(s, a) THEN Reprotected(page[s][a], protection)
          ELSE [frame |-> g[a], protection |-> protection,
                copy_on_write |-> FALSE, shared |-> FALSE]])

\* The growing half of linux_brk.  A failure keeps the pages mapped before it,
\* so a failed call has the effect of a shorter one.
BrkGrow(s, range) ==
  /\ s \in live /\ \A a \in range : a < MmapBase
  /\ MapMissing(s, range, {"R", "W"})
  /\ UNCHANGED <<live, memfd>>

-----------------------------------------------------------------------------
(* Faults, user stores and kernel copies *)

\* A user store through a writable entry.
UserWrite(s, a, v) ==
  /\ s \in live
  /\ entry[s][a].frame # NoFrame /\ entry[s][a].write
  /\ data' = [data EXCEPT ![entry[s][a].frame] = v]
  /\ UNCHANGED <<references, live, page, entry, memfd>>

\* Mutant: the shared frame is made writable in place.
MustCopy_Never(s, a) == FALSE

\* make_private needs a frame of its own only while the old one is shared.
MustCopy(s, a) == page[s][a].copy_on_write /\ references[page[s][a].frame] > 1

\* make_private's new record.
Privatized(p, frame) == [p EXCEPT !.frame = frame, !.copy_on_write = FALSE]

\* Mutant: the old frame is not released.
MakePrivate_Leak(s, set, g) ==
  /\ references' = [f \in Frames |-> IF f \in Drawn(g) THEN 1 ELSE references[f]]
  /\ SetPages(s, set, [a \in set |->
       Privatized(page[s][a], IF a \in DOMAIN g THEN g[a] ELSE page[s][a].frame)])

\* make_private on every page of set, of which g gives the copies.
MakePrivate(s, set, g) ==
  /\ references' = [f \in Frames |->
       IF f \in Drawn(g) THEN 1 ELSE references[f] - Uses(s, DOMAIN g, f)]
  /\ SetPages(s, set, [a \in set |->
       Privatized(page[s][a], IF a \in DOMAIN g THEN g[a] ELSE page[s][a].frame)])

\* vm_handle_page_fault on a store to a present, read-only entry.
CowFault(s, a) ==
  /\ s \in live
  /\ entry[s][a].frame # NoFrame /\ ~entry[s][a].write
  /\ page[s][a].copy_on_write /\ "W" \in page[s][a].protection
  /\ \E g \in Fresh({b \in {a} : MustCopy(s, b)}) :
       /\ MakePrivate(s, {a}, g)
       /\ data' = [f \in Frames |->
            IF f \in Drawn(g) THEN data[page[s][a].frame] ELSE data[f]]
  /\ UNCHANGED <<live, memfd>>

\* vm_handle_page_fault on an absent page of the stack window.
DemandFault(s, a) ==
  /\ s \in live
  /\ a \in StackPages /\ entry[s][a].frame = NoFrame
  /\ MapMissing(s, {a}, {"R", "W"})
  /\ UNCHANGED <<live, memfd>>

\* vm_copy_to_user of v over range: it stops at the first page that is absent,
\* not writable or cannot be copied, with the pages before it written.
CopyToUser(s, range, v) ==
  \E done \in SUBSET range :
    /\ s \in live
    /\ \A a \in done, b \in range \ done : a < b
    /\ \A a \in done : Mapped(s, a) /\ "W" \in page[s][a].protection
    /\ done # range => LET stop == First(range \ done) IN
         ~Mapped(s, stop) \/ "W" \notin page[s][stop].protection \/ MustCopy(s, stop)
    /\ \E g \in Fresh({a \in done : MustCopy(s, a)}) :
         /\ MakePrivate(s, done, g)
         /\ data' = [f \in Frames |->
              IF \E a \in done : f = (IF a \in DOMAIN g THEN g[a] ELSE page[s][a].frame)
              THEN v ELSE data[f]]
    /\ UNCHANGED <<live, memfd>>

-----------------------------------------------------------------------------
(* Address spaces *)

\* Pages a clone shares copy-on-write, and the records of the two sides.
ShareCow(p) == ~p.shared /\ "W" \in p.protection

CowCopy(p) == [p EXCEPT !.copy_on_write = ShareCow(p)]

\* Mutant: the source of a clone stays writable.
CowSource_Unmarked(p) == p

CowSource(p) == IF ShareCow(p) THEN [p EXCEPT !.copy_on_write = TRUE] ELSE p

\* The source's side of vm_space_clone_cow for the pages of set.
MarkCow(s, set) ==
  [a \in Pages |-> IF a \in set THEN CowSource(page[s][a]) ELSE page[s][a]]

MarkCowEntries(s, set) ==
  [a \in Pages |-> IF a \in set /\ ShareCow(page[s][a])
                   THEN page_flags(CowSource(page[s][a])) ELSE entry[s][a]]

\* address_space_clone: d becomes a copy-on-write copy of s.
Clone(s, d) ==
  /\ s \in live /\ d \in Spaces \ live
  /\ live' = live \cup {d}
  /\ references' = [f \in Frames |-> references[f] + Uses(s, Pages, f)]
  /\ page' = [page EXCEPT ![d] = [a \in Pages |-> CowCopy(page[s][a])],
                          ![s] = MarkCow(s, Pages)]
  /\ entry' = [entry EXCEPT ![d] = [a \in Pages |-> page_flags(CowCopy(page[s][a]))],
                            ![s] = MarkCowEntries(s, Pages)]
  /\ UNCHANGED <<data, memfd>>

\* address_space_clone that fails after the pages of done: the copy is
\* destroyed, the source keeps its copy-on-write marks.
CloneFail(s, done) ==
  /\ s \in live
  /\ page' = [page EXCEPT ![s] = MarkCow(s, done)]
  /\ entry' = [entry EXCEPT ![s] = MarkCowEntries(s, done)]
  /\ UNCHANGED <<references, data, live, memfd>>

\* address_space_create and load_elf_image, for a new process or execve: a
\* segment with contents v, and the top page of the stack.
LoadImage(s, range, protection, v) ==
  LET pages == range \cup {NPages}
  IN /\ s \in Spaces \ live
     /\ \A a \in range : a < MmapBase
     /\ live' = live \cup {s}
     /\ \E g \in Fresh(pages) :
          /\ references' = [f \in Frames |-> IF f \in Drawn(g) THEN 1 ELSE references[f]]
          /\ data' = [f \in Frames |-> IF f \in Drawn(g) THEN v ELSE data[f]]
          /\ SetPages(s, pages, [a \in pages |->
               [frame |-> g[a],
                protection |-> IF a \in range THEN protection ELSE {"R", "W"},
                copy_on_write |-> FALSE, shared |-> FALSE]])
     /\ UNCHANGED memfd

\* address_space_release by the last thread of the space.
Release(s) ==
  /\ s \in live
  /\ live' = live \ {s}
  /\ UnmapRange(s, Pages)
  /\ UNCHANGED <<data, memfd>>

-----------------------------------------------------------------------------
(* memfd objects *)

MemfdCreate(m) ==
  /\ ~memfd[m].used
  /\ memfd' = [memfd EXCEPT ![m].used = TRUE]
  /\ UNCHANGED <<references, data, live, page, entry>>

\* The frames of object m released when the file pages of set are dropped.
Drops(m, set, f) == Cardinality({i \in set : memfd[m].frames[i] = f})

\* linux_ftruncate (memfd_set_size): shrinking releases the frames of the
\* pages between the new and the old size.
Ftruncate(m, size) ==
  LET cut == (size + 1)..memfd[m].size
  IN /\ memfd[m].used
     /\ references' = [f \in Frames |-> references[f] - Drops(m, cut, f)]
     /\ memfd' = [memfd EXCEPT
          ![m].size = size,
          ![m].frames = [i \in FilePages |-> IF i \in cut THEN NoFrame ELSE @[i]]]
     /\ UNCHANGED <<data, live, page, entry>>

\* memfd_write_user of v to the file pages lo..hi.  The size grows first; a
\* fault or a failed allocation keeps the pages before next.
MemfdWrite(m, lo, hi, next, v) ==
  LET done == lo..(next - 1)
  IN /\ memfd[m].used /\ lo <= hi /\ next \in lo..(hi + 1)
     /\ \E h \in Fresh(Holes(m, done)) :
          /\ references' = [f \in Frames |-> IF f \in Drawn(h) THEN 1 ELSE references[f]]
          /\ data' = [f \in Frames |->
               IF \E i \in done : Backing(m, h, i) = f THEN v ELSE data[f]]
          /\ memfd' = [memfd EXCEPT
               ![m].size = IF hi > @ THEN hi ELSE @,
               ![m].frames = [i \in FilePages |-> Backing(m, h, i)]]
     /\ UNCHANGED <<live, page, entry>>

\* memfd_release_object when the last descriptor goes.
MemfdRelease(m) ==
  /\ memfd[m].used
  /\ references' = [f \in Frames |-> references[f] - Drops(m, FilePages, f)]
  /\ memfd' = [memfd EXCEPT ![m] = NoObject]
  /\ UNCHANGED <<data, live, page, entry>>

-----------------------------------------------------------------------------

Init ==
  /\ references = [f \in Frames |-> 0]
  /\ data = [f \in Frames |-> Zero]
  /\ live = {}
  /\ page = [s \in Spaces |-> [a \in Pages |-> Unmapped]]
  /\ entry = [s \in Spaces |-> [a \in Pages |-> NoEntry]]
  /\ memfd = [m \in Memfds |-> NoObject]

MmapNext(s, range, protection) ==
  \/ \E shared \in BOOLEAN : MmapAnonymous(s, range, protection, shared)
  \/ \E contents \in [range -> Values] : MmapFile(s, range, protection, contents)
  \/ \E m \in Memfds, off \in 0..NFilePages :
       \/ MmapMemfdShared(s, range, protection, m, off)
       \/ MmapMemfdPrivate(s, range, protection, m, off)
       \/ \E k \in 0..NFilePages : MmapMemfdFail(s, range, protection, m, off, k)
  \/ Mprotect(s, range, protection)

SpaceNext(s) ==
  \/ \E range \in Intervals :
       \/ \E protection \in Protections : MmapNext(s, range, protection)
       \/ \E protection \in ImageProtections, v \in Values :
            LoadImage(s, range, protection, v)
       \/ Munmap(s, range)
       \/ BrkGrow(s, range)
       \/ \E v \in Values : CopyToUser(s, range, v)
  \/ \E a \in Pages :
       \/ \E v \in Values : UserWrite(s, a, v)
       \/ CowFault(s, a)
       \/ DemandFault(s, a)
  \/ \E d \in Spaces : Clone(s, d)
  \/ \E done \in SUBSET Pages : CloneFail(s, done)
  \/ Release(s)

MemfdNext(m) ==
  \/ MemfdCreate(m)
  \/ \E size \in 0..NFilePages : Ftruncate(m, size)
  \/ \E lo, hi \in FilePages, next \in 1..(NFilePages + 1), v \in Values :
       MemfdWrite(m, lo, hi, next, v)
  \/ MemfdRelease(m)

Next == (\E s \in Spaces : SpaceNext(s)) \/ (\E m \in Memfds : MemfdNext(m))

Spec == Init /\ [][Next]_vars

-----------------------------------------------------------------------------
(* Properties *)

\* Every variable stays in its domain.
TypeOK ==
  /\ references \in [Frames -> Nat]
  /\ data \in [Frames -> Values]
  /\ live \subseteq Spaces
  /\ page \in [Spaces -> [Pages -> PageRecords]]
  /\ entry \in [Spaces -> [Pages -> Entries]]
  /\ memfd \in [Memfds -> Objects]

PageHolders(f) == {h \in Spaces \X Pages : page[h[1]][h[2]].frame = f}

FileHolders(f) == {h \in Memfds \X FilePages : memfd[h[1]].frames[h[2]] = f}

\* vm_frame_retain and vm_frame_release balance over every handler and every
\* rollback: a frame's count is the number of page records and memfd slots
\* that point at it, so no frame leaks and none is freed while in use.
RefcountExact ==
  \A f \in Frames :
    references[f] = Cardinality(PageHolders(f)) + Cardinality(FileHolders(f))

\* The hardware sees what the records say: an entry that still allowed writes
\* after a clone, or a frame that was replaced, would break isolation.
EntriesMatch ==
  \A s \in Spaces, a \in Pages : entry[s][a] = page_flags(page[s][a])

\* A store through a writable entry of a private page reaches no other page
\* of any space and no memfd: nothing else holds its frame.
WriteIsolation ==
  \A s \in Spaces, a \in Pages :
    entry[s][a].write /\ ~page[s][a].shared =>
      /\ \A t \in Spaces, b \in Pages :
           page[t][b].frame = entry[s][a].frame => t = s /\ b = a
      /\ \A m \in Memfds, i \in FilePages : memfd[m].frames[i] # entry[s][a].frame

\* What may hold one frame: shared mappings and one memfd slot, or private
\* pages at the same address of different spaces.
FrameRoles ==
  /\ \A s, t \in Spaces, a, b \in Pages :
       Mapped(s, a) /\ page[s][a].frame = page[t][b].frame =>
         /\ page[s][a].shared = page[t][b].shared
         /\ page[s][a].shared \/ a = b
  /\ \A s \in Spaces, a \in Pages, m \in Memfds, i \in FilePages :
       Mapped(s, a) /\ memfd[m].frames[i] = page[s][a].frame => page[s][a].shared
  /\ \A m, n \in Memfds, i, j \in FilePages :
       memfd[m].frames[i] # NoFrame /\ memfd[m].frames[i] = memfd[n].frames[j] =>
         m = n /\ i = j

\* mmap and mprotect refuse WRITE with EXEC, and the writable phase of a file
\* mapping ends inside the call: no page is ever writable and executable when
\* no ELF segment is.
WriteXorExec ==
  \A s \in Spaces, a \in Pages : ~WriteExec(page[s][a].protection)

\* An absent page, and every page of a space that does not exist, has the
\* cleared record.
CleanRecords ==
  \A s \in Spaces, a \in Pages :
    ~Mapped(s, a) \/ s \notin live => page[s][a] = Unmapped

\* The inductive invariant behind RefcountExact and WriteIsolation: a handler
\* can count and copy correctly only if absent records are clean, entries
\* agree with records and frames keep their roles.
IndInv ==
  /\ TypeOK
  /\ RefcountExact
  /\ EntriesMatch
  /\ WriteIsolation
  /\ FrameRoles
  /\ CleanRecords

=============================================================================
