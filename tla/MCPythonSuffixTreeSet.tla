----------------------- MODULE MCPythonSuffixTreeSet ------------------------
(* The instance of PythonSuffixTreeSet that TLC checks. *)
EXTENDS PythonSuffixTreeSet

Symmetry == Permutations(Objects)
=============================================================================
