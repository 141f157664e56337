------------------------------ MODULE Samplers ------------------------------
(***************************************************************************)
(* The count sampler at every node of a suffix tree (src/src/sampler.rs).  *)
(* A sampler keeps, for each token, how often it was observed, and beside  *)
(* the counts their total, which `sample` trusts.  The map from tokens to  *)
(* counts is total here: a count of 0 stands for an absent key.            *)
(***************************************************************************)
EXTENDS Naturals, FiniteSets

CONSTANT Tokens

ASSUME TokensAssumption == IsFiniteSet(Tokens)

(***************************************************************************)
(* The sum of f over the finite set S, as the size of a disjoint union: a  *)
(* form without recursion, about which the proofs can reason.              *)
(***************************************************************************)
SumOver(S, f) == Cardinality(UNION {{x} \X (1 .. f[x]) : x \in S})

Counts == [Tokens -> Nat]
Sampler == [total : Nat, counts : Counts]

NoCounts == [t \in Tokens |-> 0]
EmptySampler == [total |-> 0, counts |-> NoCounts]

IsEmpty(s) == s.total = 0
Support(s) == {t \in Tokens : s.counts[t] > 0}

\* The check the program itself offers: the total is the sum of the counts.
Verify(s) == s.total = SumOver(Tokens, s.counts)

AddCounts(s, c) ==
    [total |-> s.total + SumOver(Tokens, c),
     counts |-> [t \in Tokens |-> s.counts[t] + c[t]]]

MergeSamplers(s, other) == AddCounts(s, other.counts)

(***************************************************************************)
(* What `sample` can return.  It draws r below `total` and walks the map in *)
(* hash order, so each counted token can come first; when the total is     *)
(* larger than the counts, r can outlast the walk ("sampler malformed").   *)
(***************************************************************************)
Empty == "sampler is empty"
Malformed == "sampler malformed"

Draws(s) ==
    IF s.total = 0 THEN {Empty}
    ELSE Support(s) \cup
           (IF s.total > SumOver(Tokens, s.counts) THEN {Malformed} ELSE {})
=============================================================================
