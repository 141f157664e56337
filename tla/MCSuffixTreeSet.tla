--------------------------- MODULE MCSuffixTreeSet --------------------------
(* The instance of SuffixTreeSet that TLC checks. *)
EXTENDS SuffixTreeSet, TLC

Symmetry == Permutations(Tokens) \cup Permutations(Objects)
=============================================================================
