---------------------------- MODULE SuffixPaths -----------------------------
(***************************************************************************)
(* A node of a suffix tree is named by its path: the context it stands for, *)
(* in reading order.  The program walks a context from its last token, so  *)
(* the parent of a node drops its FIRST token, the children of a node put   *)
(* one token in front, and the set of trees itself is the root <<>>.       *)
(***************************************************************************)
EXTENDS Samplers, SequencesExt

CONSTANT B   \* the longest context parsed, the block size

ASSUME BlockAssumption == B \in Nat

Paths == UNION {[1 .. n -> Tokens] : n \in 0 .. B}
Contexts == Paths \ {<<>>}

\* The children of q among the nodes N.
Children(N, q) == {r \in N : r # <<>> /\ Tail(r) = q}

\* The nodes of N at or below q: those whose context ends in q.
Below(N, q) == {r \in N : q \in Suffixes(r)}

\* The context before the i-th token (from 0) of s: at most b tokens.
Window(s, i, b) == SubSeq(s, IF i < b THEN 1 ELSE i - b + 1, i)

\* The pattern that the i-th token of s makes with the context before it.
Pattern(s, i, b) == [next |-> s[i + 1], prefix |-> Window(s, i, b), at |-> i]
=============================================================================
