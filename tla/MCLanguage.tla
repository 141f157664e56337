---------------------------- MODULE MCLanguage -----------------------------
(* The instance of Language that TLC checks. *)
EXTENDS Language

\* All strings of one or two characters, and of three those that end in two of a
\* kind after the other: an encoder without a token may lie on the way to them.
SomeStrings ==
    UNION {[1 .. n -> Chars] : n \in 1 .. 2}
      \cup {s \in [1 .. 3 -> Chars] : s[1] # s[2] /\ s[2] = s[3]}
Symmetry == Permutations(Chars)
=============================================================================
