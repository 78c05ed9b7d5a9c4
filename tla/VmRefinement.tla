---------------------------- MODULE VmRefinement ----------------------------
(* Vm implements Memory: the refinement mapping. *)
EXTENDS Vm

\* A private page is read through its frame; a shared page names its frame.
Cell(s, a) ==
  LET p == page[s][a]
  IN CASE p.frame = NoFrame -> [kind |-> "none"]
       [] p.frame # NoFrame /\ p.shared ->
            [kind |-> "shared", protection |-> p.protection, segment |-> p.frame]
       [] OTHER ->
            [kind |-> "private", protection |-> p.protection, value |-> data[p.frame]]

IsSegment(f) ==
  FileHolders(f) # {} \/ \E h \in PageHolders(f) : page[h[1]][h[2]].shared

Mem == [s \in Spaces |-> [a \in Pages |-> Cell(s, a)]]
Segment == [f \in Frames |-> IF IsSegment(f) THEN data[f] ELSE Zero]
File == [m \in Memfds |-> [used |-> memfd[m].used, size |-> memfd[m].size,
                           segments |-> memfd[m].frames]]

M == INSTANCE Memory WITH
  Segments <- Frames, NoSegment <- NoFrame, mem <- Mem, segment <- Segment, file <- File

\* Copy-on-write, reference counts and page tables are invisible to programs:
\* the kernel behaves as Memory, where a fork copies every private page at
\* once and a fault or a failed clone changes nothing.
ImplementsMemory == M!Spec

=============================================================================
