----------------------- MODULE MCSuffixTreeSetProtocol ----------------------
(* The instance of SuffixTreeSetProtocol that TLC checks. *)
EXTENDS SuffixTreeSetProtocol, TLC

Symmetry == Permutations(Tokens) \cup Permutations(Objects)
=============================================================================
