----------------------------- MODULE MCPageIndex ----------------------------
(* A page index of two records for TLC. *)
EXTENDS PageIndex

SevenPages == 0..6
=============================================================================
