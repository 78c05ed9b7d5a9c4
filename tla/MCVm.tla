-------------------------------- MODULE MCVm --------------------------------
(* Instances of Vm for TLC. *)
EXTENDS VmRefinement, TLC

\* What programs ask for; the last is refused.  What images are mapped with.
Requested == {{"R", "W"}, {"R", "W", "X"}}
Images == {{"R"}, {"R", "W"}}
Symmetry == Permutations(Frames) \cup Permutations(Spaces)
=============================================================================
