----------------------------- MODULE VmImplements ---------------------------
(* Vm implements Memory, for every value of the constants. *)
EXTENDS VmViews, VmProofs

-----------------------------------------------------------------------------
\* No object ever has a frame past its size.
THEOREM FramesWithinSize == Spec => []Sized
PROOF
  <1>1. Init => Sized
    <2>1. \A i \in FilePages : NoObject.frames[i] = NoFrame
      BY DEF NoObject
    <2> QED
      BY <2>1, ZenonT(60) DEF Init, Sized
  <1>2. ASSUME IndInv, Sized, [Next]_vars
        PROVE  Sized'
    <2>1. ASSUME NEW s \in Spaces, SpaceNext(s) PROVE Sized'
      <3>1. \/ \E range \in Intervals, protection \in Protections :
                 MmapNext(s, range, protection)
            \/ memfd' = memfd
        BY <2>1, ZenonT(60) DEF SpaceNext, LoadImage, Munmap, BrkGrow, CopyToUser, UserWrite,
             CowFault, DemandFault, Clone, CloneFail, Release
      <3>2. CASE memfd' = memfd
        BY <1>2, <3>2, ZenonT(60) DEF Sized
      <3> QED
        BY <1>2, <3>1, <3>2, SizedMmap, ZenonT(60)
    <2>2. ASSUME NEW m \in Memfds, MemfdNext(m) PROVE Sized'
      BY <1>2, <2>2, SizedMemfd, ZenonT(60)
    <2>3. CASE UNCHANGED vars
      BY <1>2, <2>3, ZenonT(60) DEF vars, Sized
    <2> QED
      BY <1>2, <2>1, <2>2, <2>3, ZenonT(60) DEF Next
  <1> QED
    BY <1>1, <1>2, Inductive, PTL DEF Spec

\* vm.c and the handlers that drive it behave, for programs, as a memory in
\* which every space owns its private pages and a fork copies them at once:
\* copy-on-write, reference counts, shared frames, page tables and failed
\* clones are invisible, for every number of spaces, pages, frames and objects.
THEOREM Implements == Spec => ImplementsMemory
PROOF
  <1>1. Init => M!Init
    BY InitImplements, SMTT(60)
  <1>2. ASSUME IndInv, ProperRecords, Sized, [Next]_vars
        PROVE  [M!Next]_(M!vars)
    <2>1. ASSUME NEW s \in Spaces, SpaceNext(s) PROVE M!Next \/ UNCHANGED M!vars
      BY <1>2, <2>1, SpaceImplements, ZenonT(60)
    <2>2. ASSUME NEW m \in Memfds, MemfdNext(m) PROVE M!Next
      BY <1>2, <2>2, MemfdImplements, ZenonT(60)
    <2>3. CASE UNCHANGED vars
      BY <2>3, StutterSeen, Zenon
    <2> QED
      BY <1>2, <2>1, <2>2, <2>3, ZenonT(60) DEF Next
  <1> QED
    BY <1>1, <1>2, Inductive, RecordsAreProper, FramesWithinSize, PTL
    DEF Spec, ImplementsMemory, M!Spec

=============================================================================
