------------------------------- MODULE Memory -------------------------------
(***************************************************************************)
(* What the virtual memory of NovaOS promises to programs, without frames, *)
(* reference counts, copy-on-write or page tables.                         *)
(*                                                                         *)
(* A space owns the contents of its private pages outright; a fork copies  *)
(* them at once.  Shared pages name a segment, and everything that names   *)
(* the same segment sees the same contents.  A memfd is a sequence of      *)
(* segments, with holes that read as zeroes.                               *)
(***************************************************************************)
EXTENDS Integers, FiniteSets

CONSTANTS Spaces, Segments, NoSegment, NPages, MmapBase, StackBase,
          Memfds, NFilePages, Values, Zero, Protections, ImageProtections

Pages == 1..NPages
FilePages == 1..NFilePages
StackPages == StackBase..NPages
Intervals == {r \in SUBSET Pages : \E lo, hi \in Pages : lo <= hi /\ r = lo..hi}

VARIABLES
  live,     \* the spaces that exist
  mem,      \* what each space has at each page
  segment,  \* contents of the segments; Zero for one that is not in use
  file      \* memfd objects

vars == <<live, mem, segment, file>>

Nothing == [kind |-> "none"]
Private(protection, v) == [kind |-> "private", protection |-> protection, value |-> v]
Shared(protection, x) == [kind |-> "shared", protection |-> protection, segment |-> x]

NoFile == [used |-> FALSE, size |-> 0, segments |-> [i \in FilePages |-> NoSegment]]

InUse(x) ==
  \/ \E s \in Spaces, a \in Pages : mem[s][a].kind = "shared" /\ mem[s][a].segment = x
  \/ \E m \in Memfds, i \in FilePages : file[m].segments[i] = x

Unused == {x \in Segments : ~InUse(x)}

\* Segments that nothing names any more lose their contents.
SetSegments(new) ==
  segment' = [x \in Segments |-> IF InUse(x)' THEN new[x] ELSE Zero]

SetCells(s, range, cell(_)) ==
  mem' = [mem EXCEPT ![s] = [a \in Pages |-> IF a \in range THEN cell(a) ELSE mem[s][a]]]

\* Distinct unused segments for the elements of S.
New(S) == {g \in [S -> Unused] : \A x, y \in S : g[x] = g[y] => x = y}

Writable(s, a) == mem[s][a].kind # "none" /\ "W" \in mem[s][a].protection

Allowed(range, protection) ==
  range \cap StackPages = {} /\ ~({"W", "X"} \subseteq protection)

\* Holes of memfd m among files may turn into zeroed segments.
FillHoles(m, files) ==
  \E g \in New({i \in files : file[m].segments[i] = NoSegment}) :
    file' = [file EXCEPT ![m].segments =
               [i \in FilePages |-> IF i \in DOMAIN g THEN g[i] ELSE @[i]]]

FileValue(m, i) ==
  IF file[m].segments[i] = NoSegment THEN Zero ELSE segment[file[m].segments[i]]

First(range) == CHOOSE a \in range : \A b \in range : a <= b

-----------------------------------------------------------------------------
(* Mappings *)

MapPrivate(s, range, protection, contents) ==
  /\ s \in live /\ Allowed(range, protection)
  /\ SetCells(s, range, LAMBDA a : Private(protection, contents[a]))
  /\ SetSegments(segment)
  /\ UNCHANGED <<live, file>>

MapShared(s, range, protection) ==
  /\ s \in live /\ Allowed(range, protection)
  /\ \E g \in New(range) : SetCells(s, range, LAMBDA a : Shared(protection, g[a]))
  /\ SetSegments(segment)
  /\ UNCHANGED <<live, file>>

\* A mapping of the pages of memfd m from off on, which must exist.
MapFile(s, range, protection, shared, m, off) ==
  LET back(a) == off + 1 + a - First(range)
  IN /\ s \in live /\ Allowed(range, protection)
     /\ file[m].used /\ off + Cardinality(range) <= file[m].size
     /\ FillHoles(m, {back(a) : a \in range})
     /\ SetCells(s, range, LAMBDA a :
          IF shared THEN Shared(protection, file'[m].segments[back(a)])
          ELSE Private(protection, FileValue(m, back(a))))
     /\ SetSegments(segment)
     /\ UNCHANGED live

\* munmap, brk, and every mapping that fails after it displaced a range.
Unmap(s, range) ==
  /\ s \in live
  /\ SetCells(s, range, LAMBDA a : Nothing)
  /\ \/ UNCHANGED file
     \/ \E m \in Memfds, files \in SUBSET FilePages :
          /\ file[m].used /\ \A i \in files : i <= file[m].size
          /\ FillHoles(m, files)
  /\ SetSegments(segment)
  /\ UNCHANGED live

\* mprotect changes no contents.
Protect(s, range, protection) ==
  /\ s \in live /\ ~({"W", "X"} \subseteq protection)
  /\ \A a \in range : mem[s][a].kind # "none"
  /\ SetCells(s, range, LAMBDA a : [mem[s][a] EXCEPT !.protection = protection])
  /\ UNCHANGED <<live, segment, file>>

\* brk and the demand-paged stack: absent pages appear zeroed.
Extend(s, range) ==
  /\ s \in live /\ \A a \in range : a < MmapBase \/ a \in StackPages
  /\ SetCells(s, range, LAMBDA a :
       IF mem[s][a].kind = "none" THEN Private({"R", "W"}, Zero)
       ELSE [mem[s][a] EXCEPT !.protection = {"R", "W"}])
  /\ UNCHANGED <<live, segment, file>>

\* Stores of v to the pages of set.
Write(s, set, v) ==
  /\ s \in live /\ \A a \in set : Writable(s, a)
  /\ SetCells(s, set, LAMBDA a :
       IF mem[s][a].kind = "private" THEN [mem[s][a] EXCEPT !.value = v] ELSE mem[s][a])
  /\ segment' = [x \in Segments |->
       IF \E a \in set : mem[s][a].kind = "shared" /\ mem[s][a].segment = x
       THEN v ELSE segment[x]]
  /\ UNCHANGED <<live, file>>

-----------------------------------------------------------------------------
(* Spaces and memfd objects *)

Fork(s, d) ==
  /\ s \in live /\ d \in Spaces \ live
  /\ live' = live \cup {d}
  /\ mem' = [mem EXCEPT ![d] = mem[s]]
  /\ UNCHANGED <<segment, file>>

Load(s, range, protection, v) ==
  /\ s \in Spaces \ live /\ \A a \in range : a < MmapBase
  /\ live' = live \cup {s}
  /\ mem' = [mem EXCEPT ![s] = [a \in Pages |->
       IF a \in range THEN Private(protection, v)
       ELSE IF a = NPages THEN Private({"R", "W"}, v) ELSE Nothing]]
  /\ UNCHANGED <<segment, file>>

Exit(s) ==
  /\ s \in live
  /\ live' = live \ {s}
  /\ mem' = [mem EXCEPT ![s] = [a \in Pages |-> Nothing]]
  /\ SetSegments(segment)
  /\ UNCHANGED file

Create(m) ==
  /\ ~file[m].used
  /\ file' = [file EXCEPT ![m].used = TRUE]
  /\ UNCHANGED <<live, mem, segment>>

\* Truncated pages become holes, so that growing again reads zeroes.
Truncate(m, size) ==
  /\ file[m].used
  /\ file' = [file EXCEPT
       ![m].size = size,
       ![m].segments = [i \in FilePages |-> IF i > size THEN NoSegment ELSE @[i]]]
  /\ SetSegments(segment)
  /\ UNCHANGED <<live, mem>>

\* A write of lo..hi that stored the pages below next.
FileWrite(m, lo, hi, next, v) ==
  LET done == lo..(next - 1)
  IN /\ file[m].used /\ lo <= hi /\ next \in lo..(hi + 1)
     /\ \E g \in New({i \in done : file[m].segments[i] = NoSegment}) :
          file' = [file EXCEPT
            ![m].size = IF hi > @ THEN hi ELSE @,
            ![m].segments = [i \in FilePages |-> IF i \in DOMAIN g THEN g[i] ELSE @[i]]]
     /\ SetSegments([x \in Segments |->
          IF \E i \in done : file'[m].segments[i] = x THEN v ELSE segment[x]])
     /\ UNCHANGED <<live, mem>>

Close(m) ==
  /\ file[m].used
  /\ file' = [file EXCEPT ![m] = NoFile]
  /\ SetSegments(segment)
  /\ UNCHANGED <<live, mem>>

-----------------------------------------------------------------------------

Init ==
  /\ live = {}
  /\ mem = [s \in Spaces |-> [a \in Pages |-> Nothing]]
  /\ segment = [x \in Segments |-> Zero]
  /\ file = [m \in Memfds |-> NoFile]

Next ==
  \/ \E s \in Spaces, range \in Intervals :
       \/ \E protection \in Protections :
            \/ \E contents \in [range -> Values] : MapPrivate(s, range, protection, contents)
            \/ MapShared(s, range, protection)
            \/ \E shared \in BOOLEAN, m \in Memfds, off \in 0..NFilePages :
                 MapFile(s, range, protection, shared, m, off)
            \/ Protect(s, range, protection)
       \/ \E protection \in ImageProtections, v \in Values : Load(s, range, protection, v)
       \/ Unmap(s, range)
       \/ Extend(s, range)
  \/ \E s \in Spaces, set \in SUBSET Pages, v \in Values : Write(s, set, v)
  \/ \E s, d \in Spaces : Fork(s, d)
  \/ \E s \in Spaces : Exit(s)
  \/ \E m \in Memfds :
       \/ Create(m)
       \/ \E size \in 0..NFilePages : Truncate(m, size)
       \/ \E lo, hi \in FilePages, next \in 1..(NFilePages + 1), v \in Values :
            FileWrite(m, lo, hi, next, v)
       \/ Close(m)

Spec == Init /\ [][Next]_vars

=============================================================================
