------------------------- MODULE MCGoSuffixTreeSet --------------------------
(* The instance of GoSuffixTreeSet that TLC checks. *)
EXTENDS GoSuffixTreeSet
=============================================================================
