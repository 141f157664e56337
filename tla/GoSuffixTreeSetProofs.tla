----------------------- MODULE GoSuffixTreeSetProofs ------------------------
(***************************************************************************)
(* Theorems about GoSuffixTreeSet.  The counts of its trees are, in every  *)
(* state, those of a table of observations, gathered at every suffix of    *)
(* the contexts they were made after; the depths of its stored trees are   *)
(* stale, but never lead outside the longest context.                      *)
(***************************************************************************)
EXTENDS GoSuffixTreeSet, SuffixPathsProofs

-----------------------------------------------------------------------------
(* The counts *)

(* What is counted of patterns is what they add to the table. *)
LEMMA SeenGathers ==
  ASSUME NEW N \in Trees, NEW O \in Tables(N, {<<>>}), NEW patterns, Patterned(patterns)
  PROVE  LET A == Together(O, TableOf(patterns))
         IN  A \in Tables(N \cup Touched(patterns), {<<>>}) /\ Seen(Gatherings(O), patterns) = Gatherings(A)
<1> DEFINE W == TableOf(patterns)
           M == {<<>>} \cup Touched(patterns)
           A == Together(O, W)
<1>1. M \in Trees /\ W \in Tables(M, {<<>>})
  BY PatternsTable, PatternsTree, RootIsWhole, RootIsPath DEF Trees
<1>2. /\ A \in Tables(N \cup M, {<<>>})
      /\ \A q \in Paths \ {<<>>} : \A t \in Tokens :
           Gatherings(A)[q][t] = Gatherings(O)[q][t] + Gatherings(W)[q][t]
  <2>1. {<<>>} \cup {<<>>} = {<<>>}
    OBVIOUS
  <2> HIDE DEF M, W
  <2> QED BY <1>1, <2>1, TogetherTables
<1>3. N \cup M = N \cup Touched(patterns)
  BY DEF Trees, Whole
<1>4. ASSUME NEW q \in Paths \ {<<>>}, NEW t \in Tokens
      PROVE  Gatherings(A)[q][t] = Seen(Gatherings(O), patterns)[q][t]
  <2>1. Gatherings(A)[q][t] = Gatherings(O)[q][t] + Gatherings(W)[q][t]
    BY <1>2
  <2>2. Gatherings(W)[q][t] = Gathered(Of(W, t), q)
    BY DEF Gatherings
  <2>3. Of(W, t) = Exactly(patterns, t)
    BY DEF Of, TableOf, Exactly
  <2>4. Gathered(Exactly(patterns, t), q)
          = Cardinality({x \in patterns : x.next = t /\ q \in Suffixes(x.prefix)})
    BY PatternsGather
  <2> QED BY <2>1, <2>2, <2>3, <2>4 DEF Seen
<1>5. \A t \in Tokens : /\ Gatherings(A)[<<>>][t] = 0
                        /\ Seen(Gatherings(O), patterns)[<<>>][t] = 0
  BY RootIsPath DEF Seen, Gatherings
<1>6. /\ Seen(Gatherings(O), patterns)
           = [q \in Paths |-> [t \in Tokens |-> Seen(Gatherings(O), patterns)[q][t]]]
      /\ Gatherings(A) = [q \in Paths |-> [t \in Tokens |-> Gatherings(A)[q][t]]]
  BY DEF Seen, Gatherings
<1> HIDE DEF A
<1>7. Seen(Gatherings(O), patterns) = Gatherings(A)
  <2> DEFINE G == Gatherings(A)
             S == Seen(Gatherings(O), patterns)
  <2>1. \A q \in Paths : \A t \in Tokens : S[q][t] = G[q][t]
    BY <1>4, <1>5
  <2> HIDE DEF G, S
  <2>2. \A q \in Paths : [t \in Tokens |-> S[q][t]] = [t \in Tokens |-> G[q][t]]
    BY <2>1
  <2>3. S = [q \in Paths |-> [t \in Tokens |-> S[q][t]]]
    BY <1>6 DEF S
  <2>4. G = [q \in Paths |-> [t \in Tokens |-> G[q][t]]]
    BY <1>6 DEF G
  <2>5. S = G
    BY <2>2, <2>3, <2>4
  <2> QED BY <2>5 DEF S, G
<1> QED BY <1>2, <1>3, <1>7 DEF A

-----------------------------------------------------------------------------
(* The message of the trees *)

\* What is written of the trees N with the totals T and the counts C.
MessageOf(N, T, C) ==
    {[path |-> q, total |-> T[q],
      counts |-> {[token |-> t, count |-> C[q][t]] :
                    t \in {u \in Tokens : C[q][u] > 0}}] : q \in N \ {<<>>}}

(* It can be read back: the nodes, the totals and the counts. *)
LEMMA MessageRead ==
  ASSUME NEW N \in Trees, NEW T, NEW C \in [Paths -> Counts],
         \A q \in Paths : q \notin N \/ q = <<>> => C[q] = NoCounts
  PROVE  /\ NodesIn(MessageOf(N, T, C)) = N
         /\ CountsIn(MessageOf(N, T, C)) = C
         /\ \A q \in Paths : TotalsIn(MessageOf(N, T, C))[q]
                               = IF q \in N \ {<<>>} THEN T[q] ELSE 0
<1> DEFINE m == MessageOf(N, T, C)
           entries(q) == {[token |-> t, count |-> C[q][t]] : t \in {u \in Tokens : C[q][u] > 0}}
           item(q) == [path |-> q, total |-> T[q], counts |-> entries(q)]
<1>1. m = {item(q) : q \in N \ {<<>>}}
  BY DEF MessageOf
<1>2. /\ N \subseteq Paths /\ <<>> \in N
      /\ \A q : item(q).path = q /\ item(q).total = T[q] /\ item(q).counts = entries(q)
  BY DEF Trees, Whole
<1> HIDE DEF m, item, entries
<1>3. NodesIn(m) = N
  BY <1>1, <1>2 DEF NodesIn
<1>4. ASSUME NEW q \in N \ {<<>>}
      PROVE  EntryAt(m, q) = item(q)
  <2>1. item(q) \in m /\ \A x \in m : x.path = q => x = item(q)
    BY <1>1, <1>2
  <2> QED BY <1>2, <2>1 DEF EntryAt
<1>5. \A q \in Paths : TotalsIn(m)[q] = IF q \in N \ {<<>>} THEN T[q] ELSE 0
  BY <1>2, <1>3, <1>4 DEF TotalsIn
<1>6. ASSUME NEW q \in Paths, NEW t \in Tokens
      PROVE  CountsIn(m)[q][t] = C[q][t]
  <2> DEFINE all == IF q \in NodesIn(m) \ {<<>>} THEN EntryAt(m, q).counts ELSE {}
             e == {c \in all : c.token = t}
  <2>1. CountsIn(m)[q][t] = IF e = {} THEN 0 ELSE (CHOOSE c \in e : TRUE).count
    BY DEF CountsIn
  <2>2. C[q][t] \in Nat
    BY DEF Counts
  <2>3. CASE q \notin N \/ q = <<>>
    <3>1. all = {}
      BY <1>3, <2>3
    <3>2. e = {}
      BY <3>1
    <3> HIDE DEF e
    <3> QED BY <2>1, <2>3, <3>2 DEF NoCounts
  <2>4. CASE q \in N \ {<<>>}
    <3>1. all = entries(q)
      BY <1>2, <1>3, <1>4, <2>4
    <3> HIDE DEF all
    <3>2. \A c : c \in e <=> C[q][t] > 0 /\ c = [token |-> t, count |-> C[q][t]]
      BY <3>1 DEF entries
    <3> HIDE DEF e
    <3>3. CASE C[q][t] > 0
      <4>1. [token |-> t, count |-> C[q][t]] \in e
        BY <3>2, <3>3
      <4>2. (CHOOSE c \in e : TRUE) = [token |-> t, count |-> C[q][t]]
        BY <3>2, <4>1
      <4> DEFINE one == CHOOSE c \in e : TRUE
      <4>3. e # {} /\ one.count = C[q][t]
        <5> HIDE DEF one
        <5>1. one = [token |-> t, count |-> C[q][t]]
          BY <4>2 DEF one
        <5> QED BY <4>1, <5>1
      <4>4. CountsIn(m)[q][t] = IF e = {} THEN 0 ELSE one.count
        BY <2>1
      <4> HIDE DEF one
      <4> QED BY <4>3, <4>4
    <3>4. CASE ~(C[q][t] > 0)
      BY <2>1, <2>2, <3>2, <3>4
    <3> QED BY <3>3, <3>4
  <2> QED BY <2>3, <2>4
<1>7. CountsIn(m) = C
  <2>1. CountsIn(m) = [q \in Paths |-> [t \in Tokens |-> CountsIn(m)[q][t]]]
    BY DEF CountsIn
  <2>2. C = [q \in Paths |-> [t \in Tokens |-> C[q][t]]]
    BY DEF Counts
  <2> QED BY <1>6, <2>1, <2>2
<1> QED BY <1>3, <1>5, <1>7 DEF m

(* The model of the C++ program is the message of what its patterns gather, *)
(* and its totals are the sums of the counts.                               *)
LEMMA ModelIsMessage ==
  ASSUME NEW patterns, Patterned(patterns)
  PROVE  LET N == {<<>>} \cup Touched(patterns)
             C == Gatherings(TableOf(patterns))
             T == [q \in Paths |-> Cardinality({x \in patterns : q \in Suffixes(x.prefix)})]
         IN  /\ Model(patterns) = MessageOf(N, T, C)
             /\ \A q \in Paths \ {<<>>} : T[q] = SumOver(Tokens, C[q])
<1> DEFINE N == {<<>>} \cup Touched(patterns)
           C == Gatherings(TableOf(patterns))
           T == [q \in Paths |-> Cardinality({x \in patterns : q \in Suffixes(x.prefix)})]
           ways == UNION {Suffixes(x.prefix) : x \in patterns}
           seen(q, t) == Cardinality({x \in patterns : x.next = t /\ q \in Suffixes(x.prefix)})
           first(q) == {[token |-> t, count |-> seen(q, t)] : t \in {u \in Tokens : seen(q, u) > 0}}
           second(q) == {[token |-> t, count |-> C[q][t]] : t \in {u \in Tokens : C[q][u] > 0}}
<1>1. ASSUME NEW q \in Paths \ {<<>>}, NEW t \in Tokens
      PROVE  C[q][t] = seen(q, t)
  <2>1. Of(TableOf(patterns), t) = Exactly(patterns, t)
    BY DEF Of, TableOf, Exactly
  <2> QED BY <2>1, PatternsGather DEF Gatherings
<1>2. N \ {<<>>} = ways \ {<<>>}
  <2>1. Touched(patterns) = ways
    BY DEF Touched
  <2> HIDE DEF ways
  <2> QED BY <2>1
<1>3. N \subseteq Paths
  BY PatternsTree, RootIsWhole, RootIsPath DEF Trees
<1>4. Model(patterns) = {[path |-> q, total |-> Cardinality({x \in patterns : q \in Suffixes(x.prefix)}),
                          counts |-> first(q)] : q \in N \ {<<>>}}
  <2>1. Model(patterns) = {[path |-> q, total |-> Cardinality({x \in patterns : q \in Suffixes(x.prefix)}),
                            counts |-> first(q)] : q \in ways \ {<<>>}}
    BY DEF Model
  <2> HIDE DEF ways, N, first
  <2> QED BY <1>2, <2>1
<1>5. MessageOf(N, T, C) = {[path |-> q, total |-> T[q], counts |-> second(q)] : q \in N \ {<<>>}}
  BY DEF MessageOf
<1>6. \A q \in N : T[q] = Cardinality({x \in patterns : q \in Suffixes(x.prefix)})
  BY <1>3
<1>7. ASSUME NEW q \in Paths \ {<<>>}
      PROVE  T[q] = SumOver(Tokens, C[q])
  <2> DEFINE g == C[q]
  <2>1. \A t \in Tokens : g[t] = Gathered(Exactly(patterns, t), q)
    BY OfTable DEF Gatherings
  <2>2. T[q] = Cardinality({x \in patterns : q \in Suffixes(x.prefix)})
    OBVIOUS
  <2> HIDE DEF g, T
  <2>3. T[q] = SumOver(Tokens, g)
    BY <2>1, <2>2, PatternsTotal
  <2> QED BY <2>3 DEF g
<1> HIDE DEF N, C, T, seen
<1>8. ASSUME NEW q \in N \ {<<>>}
      PROVE  first(q) = second(q)
  BY <1>1, <1>3
<1> HIDE DEF first, second
<1>9. Model(patterns) = MessageOf(N, T, C)
  BY <1>4, <1>5, <1>6, <1>8
<1> QED BY <1>7, <1>9 DEF N, C, T

-----------------------------------------------------------------------------
(* The depths *)

\* The stored depths lead to the end of some context, and that of the set is no shorter
\* than any context.
Stale(N, D) ==
    /\ D \in [Paths -> Nat]
    /\ \A q \in Paths \ N : D[q] = 0
    /\ \A q \in N : \E r \in N : D[q] + Len(q) = Len(r)
    /\ \A q \in N : Len(q) <= D[<<>>]

(* Reading computes the depths anew. *)
LEMMA DepthsRead ==
  ASSUME NEW m, NodesIn(m) \in Trees
  PROVE  Stale(NodesIn(m), DepthsIn(m))
<1> DEFINE N == NodesIn(m)
           D == DepthsIn(m)
           down(q) == {Len(r) - Len(q) : r \in Below(N, q)}
<1>1. Whole(N) /\ <<>> \in N /\ N \subseteq Paths
  BY DEF Trees, Whole
<1>2. \A q \in Paths : D[q] = IF q \notin N THEN 0 ELSE Max(down(q))
  BY DEF DepthsIn
<1> HIDE DEF N
<1>3. ASSUME NEW q \in N
      PROVE  /\ Max(down(q)) \in Nat
             /\ \E r \in N : Max(down(q)) + Len(q) = Len(r)
             /\ \A r \in Below(N, q) : Len(r) - Len(q) <= Max(down(q))
  <2>1. \A r \in Below(N, q) : /\ Len(r) - Len(q) \in Nat /\ Len(r) - Len(q) <= B
                               /\ r \in N /\ Len(r) \in Nat /\ Len(q) \in Nat
    <3> SUFFICES ASSUME NEW r \in Below(N, q)
                 PROVE  /\ Len(r) - Len(q) \in Nat /\ Len(r) - Len(q) <= B
                        /\ r \in N /\ Len(r) \in Nat /\ Len(q) \in Nat
      OBVIOUS
    <3>1. r \in N /\ Len(r) \in Nat /\ Len(q) \in Nat /\ Len(q) <= Len(r) /\ Len(r) <= B
      BY <1>1, BelowFacts
    <3> QED BY <3>1, BlockAssumption
  <2>2. Len(q) - Len(q) \in down(q)
    BY <1>1, OwnBelow
  <2>3. /\ down(q) \subseteq Nat /\ down(q) # {} /\ \A x \in down(q) : x <= B
    BY <2>1, <2>2
  <2>4. Max(down(q)) \in down(q) /\ \A x \in down(q) : x <= Max(down(q))
    <3> HIDE DEF down
    <3> QED BY <2>3, BlockAssumption, Greatest
  <2>5. PICK r \in Below(N, q) : Max(down(q)) = Len(r) - Len(q)
    BY <2>4
  <2>6. r \in N /\ Len(r) \in Nat /\ Len(q) \in Nat
    BY <2>1
  <2>7. \A z \in Below(N, q) : Len(z) - Len(q) \in down(q)
    OBVIOUS
  <2> HIDE DEF down
  <2>8. Max(down(q)) + Len(q) = Len(r)
    BY <2>5, <2>6
  <2> QED BY <2>3, <2>4, <2>6, <2>7, <2>8
<1>4. ASSUME NEW q \in N
      PROVE  Len(q) <= D[<<>>]
  <2>1. q \in Below(N, <<>>)
    BY <1>1, SuffixesArePaths DEF Below
  <2>2. D[<<>>] = Max(down(<<>>))
    BY <1>1, <1>2
  <2>3. Len(q) - Len(<<>>) <= Max(down(<<>>))
    BY <1>1, <1>3, <2>1
  <2>4. Len(q) \in Nat /\ Len(<<>>) = 0
    BY <1>1, PathFacts
  <2> HIDE DEF down, D
  <2> QED BY <2>2, <2>3, <2>4
<1> HIDE DEF down
<1>5. D \in [Paths -> Nat]
  <2>1. \A q \in Paths : D[q] \in Nat
    BY <1>2, <1>3
  <2>2. D = [q \in Paths |-> D[q]]
    BY DEF DepthsIn
  <2> QED BY <2>1, <2>2
<1>6. \A q \in N : D[q] = Max(down(q))
  BY <1>1, <1>2
<1> QED BY <1>2, <1>3, <1>4, <1>5, <1>6 DEF Stale, N

(* Parsing takes the longest way that a copy with a stale depth seems to go. *)
LEMMA DepthsLearned ==
  ASSUME NEW N \in Trees, NEW D, Stale(N, D), NEW patterns, Patterned(patterns)
  PROVE  Stale(N \cup Touched(patterns), [D EXCEPT ![<<>>] = Learned(D, patterns)])
<1> DEFINE M == N \cup Touched(patterns)
           ways == {D[<<>>]} \cup {D[q] + Len(q) : q \in Touched(patterns)}
           E == [D EXCEPT ![<<>>] = Learned(D, patterns)]
<1>1. /\ Touched(patterns) \subseteq Paths /\ N \subseteq Paths /\ <<>> \in N /\ <<>> \in Paths
      /\ \A q \in Paths : Len(q) \in Nat /\ Len(q) <= B
  BY TouchedIsClosed, RootIsPath, PathFacts DEF Patterned, Contexts, Trees, Whole
<1>2. ASSUME NEW q \in M
      PROVE  D[q] \in Nat /\ \E r \in M : D[q] + Len(q) = Len(r)
  <2>1. CASE q \in N
    BY <1>1, <2>1 DEF Stale
  <2>2. CASE q \notin N
    <3>1. q \in Paths /\ D[q] = 0 /\ Len(q) \in Nat
      BY <1>1, <2>2 DEF Stale
    <3> QED BY <3>1
  <2> QED BY <2>1, <2>2
<1>3. Len(<<>>) = 0 /\ \E r \in M : D[<<>>] = Len(r)
  BY <1>1, <1>2
<1>4. \A x \in ways : \E r \in M : x = Len(r)
  BY <1>2, <1>3
<1>5. ways \subseteq Nat /\ ways # {} /\ \A x \in ways : x <= B
  BY <1>1, <1>4
<1>6. Max(ways) \in ways /\ \A x \in ways : x <= Max(ways)
  <2> HIDE DEF ways
  <2> QED BY <1>5, BlockAssumption, Greatest
<1>7. Learned(D, patterns) = Max(ways)
  BY DEF Learned, Touched
<1>8. /\ D[<<>>] \in ways
      /\ \A q \in Touched(patterns) : D[q] + Len(q) \in ways
  OBVIOUS
<1> HIDE DEF ways
<1>9. ASSUME NEW q \in M
      PROVE  Len(q) <= Max(ways)
  <2>1. Len(q) \in Nat /\ D[q] \in Nat /\ Max(ways) \in Nat /\ D[<<>>] \in Nat
    BY <1>1, <1>2, <1>5, <1>6
  <2>2. CASE q \in N
    <3>1. Len(q) <= D[<<>>] /\ D[<<>>] <= Max(ways)
      BY <1>6, <1>8, <2>2 DEF Stale
    <3> QED BY <2>1, <3>1
  <2>3. CASE q \in Touched(patterns)
    <3>1. D[q] + Len(q) <= Max(ways)
      BY <1>6, <1>8, <2>3
    <3> QED BY <2>1, <3>1
  <2> QED BY <2>2, <2>3
<1>10. /\ E[<<>>] = Max(ways) /\ Max(ways) \in Nat
       /\ \A q \in Paths \ {<<>>} : E[q] = D[q]
       /\ E \in [Paths -> Nat]
  BY <1>1, <1>5, <1>6, <1>7 DEF Stale
<1>11. \A q \in M : \E r \in M : E[q] + Len(q) = Len(r)
  <2>1. \E r \in M : E[<<>>] + Len(<<>>) = Len(r)
    BY <1>3, <1>4, <1>6, <1>10
  <2> QED BY <1>1, <1>2, <1>10, <2>1
<1>12. \A q \in Paths \ M : E[q] = 0
  BY <1>1, <1>10 DEF Stale
<1> HIDE DEF E
<1> QED BY <1>9, <1>10, <1>11, <1>12 DEF Stale, E

-----------------------------------------------------------------------------
(* The trees in every state *)

\* The counts C of the trees N are gathered from a table of observations.
Gathering(N, C) == \E O \in Tables(N, {<<>>}) : C = Gatherings(O)

\* No total is above the sum of the counts, and every total of a C++ model is the sum.
Totalled(N, C, T, tr) ==
    /\ T \in [Paths -> Nat]
    /\ \A q \in Paths : T[q] <= SumOver(Tokens, C[q])
    /\ tr = "cpp" => \A q \in N \ {<<>>} : T[q] = SumOver(Tokens, C[q])

GoInv ==
    /\ nodes \in Trees
    /\ Gathering(nodes, counts)
    /\ Totalled(nodes, counts, total, trainer)
    /\ Stale(nodes, depth)
    /\ trainer \in {"go", "cpp", "both"}
    /\ parsed \in 0 .. MaxParsed

(* Nothing is observed by empty trees. *)
LEMMA NothingObserved ==
  /\ {<<>>} \in Trees /\ NoneCounted \in Tables({<<>>}, {<<>>})
  /\ NoneCounted = Gatherings(NoneCounted)
  /\ Stale({<<>>}, Zeros)
<1>1. {<<>>} \in Trees
  BY RootIsWhole, RootIsPath DEF Trees
<1>2. NoneCounted = Blank
  BY DEF NoneCounted, Blank
<1>3. Stale({<<>>}, Zeros)
  BY RootIsPath DEF Stale, Zeros
<1> QED BY <1>1, <1>2, <1>3, BlankTable

-----------------------------------------------------------------------------
(* The steps *)

(* What the patterns add is what the trees have learned. *)
LEMMA MirrorOfTogether ==
  ASSUME NEW O \in [Paths -> Counts], NEW W \in [Paths -> Counts]
  PROVE  EF!Minus(Mirror(Together(O, W)), Mirror(O)) = Mirror(W)
<1> DEFINE F == Mirror(Together(O, W))
           G == Mirror(O)
<1>1. ASSUME NEW p \in Contexts, NEW t \in Tokens
      PROVE  F[p][t] - G[p][t] = W[p][t]
  <2>1. p \in Paths /\ O[p][t] \in Nat /\ W[p][t] \in Nat
    BY DEF Contexts, Counts
  <2>2. F[p][t] = O[p][t] + W[p][t] /\ G[p][t] = O[p][t]
    BY <2>1 DEF Mirror, Together
  <2> HIDE DEF F, G
  <2> QED BY <2>1, <2>2
<1> HIDE DEF F, G
<1>2. EF!Minus(F, G) = [p \in Contexts |-> [t \in Tokens |-> F[p][t] - G[p][t]]]
  BY DEF EF!Minus, EF!Contexts, EF!Paths, Contexts, Paths
<1>3. EF!Minus(F, G) = Mirror(W)
  BY <1>1, <1>2 DEF Mirror
<1> QED BY <1>3 DEF F, G

(* To observe patterns after what was known is to add them to the table. *)
LEMMA ObserveAdds ==
  ASSUME NEW N \in Trees, NEW O \in Tables(N, {<<>>}), NEW D, Stale(N, D),
         NEW patterns, Patterned(patterns), Observe(N, Gatherings(O), D, patterns)
  PROVE  LET A == Together(O, TableOf(patterns))
         IN  /\ nodes' \in Trees /\ A \in Tables(nodes', {<<>>}) /\ counts' = Gatherings(A)
             /\ Stale(nodes', depth')
             /\ \A q \in Paths : /\ SumOver(Tokens, Gatherings(O)[q]) \in Nat
                                 /\ SumOver(Tokens, Gatherings(O)[q]) <= SumOver(Tokens, counts'[q])
<1> DEFINE A == Together(O, TableOf(patterns))
<1>1. /\ nodes' = N \cup Touched(patterns)
      /\ counts' = Seen(Gatherings(O), patterns)
      /\ depth' = [D EXCEPT ![<<>>] = Learned(D, patterns)]
  BY DEF Observe, Touched
<1>2. nodes' \in Trees /\ Stale(nodes', depth')
  BY <1>1, PatternsTree, DepthsLearned
<1>3. A \in Tables(nodes', {<<>>}) /\ counts' = Gatherings(A)
  BY <1>1, SeenGathers
<1>4. ASSUME NEW q \in Paths
      PROVE  /\ SumOver(Tokens, Gatherings(O)[q]) \in Nat
             /\ SumOver(Tokens, Gatherings(O)[q]) <= SumOver(Tokens, counts'[q])
  <2> DEFINE f == Gatherings(O)[q]
             g == counts'[q]
  <2>1. ASSUME NEW t \in Tokens
        PROVE  f[t] \in Nat /\ g[t] \in Nat /\ f[t] <= g[t]
    <3>1. f[t] \in Nat
      BY GatheringsFacts DEF Counts
    <3>2. g[t] \in Nat
      BY <1>2, <1>3, GatheringsFacts DEF Counts
    <3>3. CASE q = <<>>
      BY <1>1, <3>1, <3>3 DEF Seen, Gatherings
    <3>4. CASE q # <<>>
      <4> DEFINE hits == {x \in patterns : x.next = t /\ q \in Suffixes(x.prefix)}
      <4>1. Cardinality(hits) \in Nat
        BY FS_Subset, FS_CardinalityType DEF Patterned
      <4>2. g[t] = f[t] + Cardinality(hits)
        BY <1>1, <3>4 DEF Seen
      <4> HIDE DEF hits, f, g
      <4> QED BY <3>1, <4>1, <4>2
    <3> QED BY <3>1, <3>2, <3>3, <3>4
  <2> HIDE DEF f, g
  <2>2. SumOver(Tokens, f) \in Nat /\ SumOver(Tokens, f) <= SumOver(Tokens, g)
    BY <2>1, TokensAssumption, SumType, SumGrows
  <2> QED BY <2>2 DEF f, g
<1> QED BY <1>2, <1>3, <1>4

(* A parse keeps the invariant and adds its patterns. *)
LEMMA GrownTrees ==
  ASSUME GoInv, NEW patterns, Patterned(patterns), Observe(nodes, counts, depth, patterns),
         MoreByGo, UNCHANGED total, parsed' \in 0 .. MaxParsed
  PROVE  /\ GoInv'
         /\ EF!Minus(OwnPart(nodes', counts'), OwnPart(nodes, counts)) = Mirror(TableOf(patterns))
<1>1. PICK O \in Tables(nodes, {<<>>}) : counts = Gatherings(O)
  BY DEF GoInv, Gathering
<1> DEFINE A == Together(O, TableOf(patterns))
<1>2. /\ nodes' \in Trees /\ A \in Tables(nodes', {<<>>}) /\ counts' = Gatherings(A)
      /\ Stale(nodes', depth')
      /\ \A q \in Paths : /\ SumOver(Tokens, counts[q]) \in Nat
                          /\ SumOver(Tokens, counts[q]) <= SumOver(Tokens, counts'[q])
  BY <1>1, ObserveAdds DEF GoInv
<1>3. ASSUME NEW q \in Paths
      PROVE  total'[q] <= SumOver(Tokens, counts'[q])
  <2>1. /\ total[q] \in Nat /\ total[q] <= SumOver(Tokens, counts[q])
        /\ counts' \in [Paths -> Counts]
    BY <1>2, GatheringsFacts DEF GoInv, Totalled
  <2>2. SumOver(Tokens, counts'[q]) \in Nat
    BY <2>1, TokensAssumption, SumType DEF Counts
  <2> QED BY <1>2, <2>1, <2>2
<1>4. trainer' \in {"go", "both"}
  BY DEF MoreByGo, GoInv
<1>5. GoInv'
  BY <1>2, <1>3, <1>4 DEF GoInv, Gathering, Totalled
<1>6. OwnPart(nodes', counts') = Mirror(A) /\ OwnPart(nodes, counts) = Mirror(O)
  BY <1>1, <1>2, OwnIsMirror DEF GoInv
<1>7. O \in [Paths -> Counts] /\ TableOf(patterns) \in [Paths -> Counts]
  BY PatternsTable DEF Tables
<1>8. EF!Minus(Mirror(A), Mirror(O)) = Mirror(TableOf(patterns))
  BY <1>7, MirrorOfTogether
<1> QED BY <1>5, <1>6, <1>8

(* New trees know their patterns only. *)
LEMMA NewTrees ==
  ASSUME NEW patterns, Patterned(patterns), Observe({<<>>}, NoneCounted, Zeros, patterns),
         total' = Zeros, trainer' = "go", parsed' \in 0 .. MaxParsed
  PROVE  GoInv' /\ OwnPart(nodes', counts') = Mirror(TableOf(patterns))
<1> DEFINE W == TableOf(patterns)
<1>1. W \in [Paths -> Counts]
  BY PatternsTable DEF Tables
<1>2. Together(NoneCounted, W) = W
  BY <1>1, TogetherWithNothing DEF NoneCounted, Blank
<1>3. /\ nodes' \in Trees /\ W \in Tables(nodes', {<<>>}) /\ counts' = Gatherings(W)
      /\ Stale(nodes', depth')
  BY <1>2, NothingObserved, ObserveAdds
<1>4. ASSUME NEW q \in Paths
      PROVE  total'[q] \in Nat /\ total'[q] <= SumOver(Tokens, counts'[q])
  <2>1. counts'[q] \in Counts
    BY <1>3, GatheringsFacts
  <2>2. SumOver(Tokens, counts'[q]) \in Nat
    BY <2>1, TokensAssumption, SumType DEF Counts
  <2>3. total'[q] = 0
    BY DEF Zeros
  <2> QED BY <2>2, <2>3
<1>5. total' \in [Paths -> Nat]
  BY DEF Zeros
<1>6. GoInv'
  BY <1>3, <1>4, <1>5 DEF GoInv, Gathering, Totalled
<1> QED BY <1>3, <1>6, OwnIsMirror

(* What is read from a message is what was written. *)
LEMMA LoadedTrees ==
  ASSUME NEW N \in Trees, NEW O \in Tables(N, {<<>>}), NEW T,
         \A q \in Paths \ {<<>>} : T[q] \in Nat /\ T[q] <= SumOver(Tokens, Gatherings(O)[q]),
         Load(MessageOf(N, T, Gatherings(O))),
         trainer' \in {"go", "cpp", "both"},
         trainer' = "cpp" => \A q \in N \ {<<>>} : T[q] = SumOver(Tokens, Gatherings(O)[q]),
         parsed' \in 0 .. MaxParsed
  PROVE  GoInv' /\ nodes' = N /\ counts' = Gatherings(O)
<1> DEFINE C == Gatherings(O)
           m == MessageOf(N, T, C)
<1>1. /\ C \in [Paths -> Counts]
      /\ \A q \in Paths : q \notin N \/ q = <<>> => C[q] = NoCounts
  BY GatheringsFacts
<1>2. N \subseteq Paths
  BY DEF Trees
<1> HIDE DEF C
<1>3. /\ NodesIn(m) = N /\ CountsIn(m) = C
      /\ \A q \in Paths : TotalsIn(m)[q] = IF q \in N \ {<<>>} THEN T[q] ELSE 0
  BY <1>1, MessageRead
<1>4. nodes' = N /\ counts' = C /\ total' = TotalsIn(m) /\ depth' = DepthsIn(m)
  BY <1>3 DEF Load, C
<1> HIDE DEF m
<1>5. Stale(nodes', depth')
  BY <1>3, <1>4, DepthsRead
<1>6. ASSUME NEW q \in Paths
      PROVE  total'[q] \in Nat /\ total'[q] <= SumOver(Tokens, C[q])
  <2>1. SumOver(Tokens, C[q]) \in Nat
    BY <1>1, TokensAssumption, SumType DEF Counts
  <2>2. CASE q \in N \ {<<>>}
    BY <1>3, <1>4, <2>2 DEF C
  <2>3. CASE q \notin N \ {<<>>}
    BY <1>3, <1>4, <2>1, <2>3
  <2> QED BY <2>2, <2>3
<1>7. total' \in [Paths -> Nat]
  <2>1. TotalsIn(m) = [q \in Paths |-> TotalsIn(m)[q]]
    BY DEF TotalsIn
  <2> QED BY <1>4, <1>6, <2>1
<1>8. trainer' = "cpp" => \A q \in N \ {<<>>} : total'[q] = SumOver(Tokens, C[q])
  BY <1>2, <1>3, <1>4 DEF C
<1>9. Gathering(N, C)
  BY DEF Gathering, C
<1> QED BY <1>4, <1>5, <1>6, <1>7, <1>8, <1>9 DEF GoInv, Totalled, C

(* One pattern is one lesson, *)
LEMMA OnePattern ==
  ASSUME NEW p \in Contexts, NEW t \in Tokens
  PROVE  LET patterns == {[next |-> t, prefix |-> p, at |-> 0]}
         IN  Patterned(patterns) /\ Mirror(TableOf(patterns)) = Lesson(p, t)
<1> DEFINE patterns == {[next |-> t, prefix |-> p, at |-> 0]}
           W == TableOf(patterns)
<1>1. /\ Patterned(patterns)
      /\ \A q \in Contexts : \A u \in Tokens : W[q][u] = IF q = p /\ u = t THEN 1 ELSE 0
  BY OnePatternTable
<1> HIDE DEF patterns, W
<1>2. Mirror(W) = Lesson(p, t)
  BY <1>1 DEF Mirror, Lesson
<1> QED BY <1>1, <1>2 DEF patterns, W

(* and the patterns of a part of a text are the lesson of the tokens behind it. *)
LEMMA PartOfText ==
  ASSUME NEW s \in Texts, NEW b \in 1 .. B, NEW m \in Nat, m >= 1, NEW n \in Int, n < Len(s)
  PROVE  LET patterns == {Pattern(s, i, b) : i \in m .. n}
         IN  /\ Patterned(patterns)
             /\ Mirror(TableOf(patterns)) = TextLesson(s, b, m + 1, n + 1)
<1>1. s \in Seq(Tokens) /\ b \in Nat /\ \A i \in m .. n : i \in 1 .. Len(s)
  BY DEF Texts
<1>2. \A i \in m .. n : Window(s, i, b) \in Contexts
  BY <1>1, WindowIsContext
<1> DEFINE patterns == {Pattern(s, i, b) : i \in m .. n}
           W == TableOf(patterns)
<1>3. /\ Patterned(patterns)
      /\ \A p \in Contexts : \A t \in Tokens :
           W[p][t] = Cardinality({i \in m + 1 .. n + 1 :
                        s[i] = t /\ p = SubSeq(s, Max({1, i - b}), i - 1)})
  BY <1>1, <1>2, PartOfTextTable
<1> HIDE DEF patterns, W
<1>4. Mirror(W) = TextLesson(s, b, m + 1, n + 1)
  BY <1>3 DEF Mirror, TextLesson
<1> QED BY <1>3, <1>4 DEF patterns, W

\* What the abstract specification sees.
Occ == [o \in {"trees"} |-> Own]

LEMMA OwnIs == Own = OwnPart(nodes, counts) /\ Own' = OwnPart(nodes', counts')
BY DEF Own, OwnPart

(* A lesson learned and a lesson put in the place of all are abstract steps. *)
LEMMA LearnedOne ==
  ASSUME EF!Minus(OwnPart(nodes', counts'), OwnPart(nodes, counts)) \in Lessons
  PROVE  EF!Next
<1>1. Occ["trees"] = OwnPart(nodes, counts) /\ Occ'["trees"] = OwnPart(nodes', counts')
  BY OwnIs DEF Occ
<1>2. EF!Learn(Occ, Occ', "trees")
  BY <1>1 DEF EF!Learn, EF!Others
<1> QED BY <1>2 DEF EF!Next, Occ

LEMMA RelearnedOne ==
  ASSUME OwnPart(nodes', counts') \in Corpora
  PROVE  EF!Next
<1>1. Occ'["trees"] = OwnPart(nodes', counts')
  BY OwnIs DEF Occ
<1>2. EF!Relearn(Occ, Occ', "trees")
  BY <1>1 DEF EF!Relearn, EF!Others
<1> QED BY <1>2 DEF EF!Next, Occ

(* Dumping and loading keep the trees, their counts and the block size. *)
LEMMA Reloaded ==
  ASSUME GoInv, Reload
  PROVE  /\ GoInv' /\ nodes' = nodes /\ counts' = counts /\ depth'[<<>>] = depth[<<>>]
<1>1. PICK O \in Tables(nodes, {<<>>}) : counts = Gatherings(O)
  BY DEF GoInv, Gathering
<1>2. Message = MessageOf(nodes, total, counts)
  BY DEF Message, MessageOf
<1>3. Load(MessageOf(nodes, total, Gatherings(O))) /\ UNCHANGED <<trainer, parsed>>
  BY <1>1, <1>2 DEF Reload
<1>4. /\ \A q \in Paths \ {<<>>} : total[q] \in Nat /\ total[q] <= SumOver(Tokens, Gatherings(O)[q])
      /\ trainer' = "cpp" => \A q \in nodes \ {<<>>} : total[q] = SumOver(Tokens, Gatherings(O)[q])
      /\ trainer' \in {"go", "cpp", "both"} /\ parsed' \in 0 .. MaxParsed
      /\ nodes \in Trees
  BY <1>1, <1>3 DEF GoInv, Totalled
<1>5. GoInv' /\ nodes' = nodes /\ counts' = counts
  BY <1>1, <1>3, <1>4, LoadedTrees
<1>6. ASSUME NEW D, Stale(nodes, D), NEW E, Stale(nodes, E)
      PROVE  D[<<>>] <= E[<<>>]
  <2>1. <<>> \in nodes /\ nodes \subseteq Paths /\ <<>> \in Paths /\ Len(<<>>) = 0
    BY RootIsPath DEF GoInv, Trees, Whole
  <2>2. PICK r \in nodes : D[<<>>] + Len(<<>>) = Len(r)
    BY <1>6, <2>1 DEF Stale
  <2>3. D[<<>>] \in Nat /\ E[<<>>] \in Nat /\ Len(r) <= E[<<>>]
    BY <1>6, <2>1 DEF Stale
  <2> QED BY <2>1, <2>2, <2>3
<1>7. Stale(nodes, depth) /\ Stale(nodes, depth')
  BY <1>5 DEF GoInv
<1>8. depth[<<>>] \in Nat /\ depth'[<<>>] \in Nat
  BY <1>7, RootIsPath DEF Stale
<1>9. depth'[<<>>] = depth[<<>>]
  BY <1>6, <1>7, <1>8
<1> QED BY <1>5, <1>9

(* Every step keeps the invariant, and learns, learns anew, or changes nothing. *)
LEMMA GoStep ==
  ASSUME GoInv, Next
  PROVE  GoInv' /\ [EF!Next]_Occ
<1>1. ASSUME NEW p \in Contexts, NEW t \in Tokens, Parse(p, t)
      PROVE  GoInv' /\ EF!Next
  <2> DEFINE patterns == {[next |-> t, prefix |-> p, at |-> 0]}
  <2>1. Patterned(patterns) /\ Mirror(TableOf(patterns)) = Lesson(p, t)
    BY OnePattern
  <2>2. Observe(nodes, counts, depth, patterns) /\ MoreByGo /\ UNCHANGED total
    BY <1>1 DEF Parse
  <2>3. parsed' \in 0 .. MaxParsed
    BY <1>1, BoundsAssumption DEF Parse, GoInv
  <2> HIDE DEF patterns
  <2>4. GoInv' /\ EF!Minus(OwnPart(nodes', counts'), OwnPart(nodes, counts)) = Lesson(p, t)
    BY <2>1, <2>2, <2>3, GrownTrees
  <2>5. Lesson(p, t) \in Lessons
    BY DEF Lessons
  <2> QED BY <2>4, <2>5, LearnedOne
<1>2. ASSUME NEW s \in Texts, NEW b \in 1 .. B, ParseAll(s, b)
      PROVE  GoInv' /\ EF!Next
  <2> DEFINE n == Len(s) - 1
             patterns == {Pattern(s, i, b) : i \in 1 .. n}
  <2>1. n \in Int /\ n < Len(s) /\ n + 1 = Len(s) /\ 1 + 1 = 2 /\ 1 \in Nat /\ 1 >= 1
    BY DEF Texts
  <2>2. /\ Observe(nodes, counts, depth, patterns) /\ MoreByGo /\ UNCHANGED total
        /\ parsed + Cardinality(patterns) <= MaxParsed
        /\ parsed' = parsed + Cardinality(patterns)
    BY <1>2 DEF ParseAll
  <2>3. Patterned(patterns) /\ Mirror(TableOf(patterns)) = TextLesson(s, b, 2, Len(s))
    <3>1. /\ Patterned(patterns)
          /\ Mirror(TableOf(patterns)) = TextLesson(s, b, 1 + 1, n + 1)
      <4> HIDE DEF n
      <4> QED BY <2>1, PartOfText
    <3> HIDE DEF n, patterns
    <3> QED BY <2>1, <3>1
  <2> HIDE DEF patterns, n
  <2>4. parsed' \in 0 .. MaxParsed
    <3>1. Cardinality(patterns) \in Nat
      BY <2>3, FS_CardinalityType DEF Patterned
    <3> QED BY <2>2, <3>1, BoundsAssumption DEF GoInv
  <2>5. GoInv' /\ EF!Minus(OwnPart(nodes', counts'), OwnPart(nodes, counts))
                    = TextLesson(s, b, 2, Len(s))
    BY <2>2, <2>3, <2>4, GrownTrees
  <2>6. TextLesson(s, b, 2, Len(s)) \in Lessons
    BY DEF Lessons
  <2> QED BY <2>5, <2>6, LearnedOne
<1>3. ASSUME NEW s \in Texts, NEW b \in 1 .. B,
             NEW patterns, patterns = {Pattern(s, i, b) : i \in b .. Len(s) - 2}
      PROVE  /\ Patterned(patterns) /\ Cardinality(patterns) \in Nat
             /\ Mirror(TableOf(patterns)) \in Corpora
  <2> DEFINE n == Len(s) - 2
  <2>1. n \in Int /\ n < Len(s) /\ n + 1 = Len(s) - 1 /\ b \in Nat /\ b >= 1
    BY BlockAssumption DEF Texts
  <2> HIDE DEF n
  <2>2. patterns = {Pattern(s, i, b) : i \in b .. n}
    BY <1>3 DEF n
  <2>3. Patterned(patterns) /\ Mirror(TableOf(patterns)) = TextLesson(s, b, b + 1, n + 1)
    BY <2>1, <2>2, PartOfText
  <2>4. Mirror(TableOf(patterns)) = TextLesson(s, b, b + 1, Len(s) - 1)
    BY <2>1, <2>3
  <2>5. TextLesson(s, b, b + 1, Len(s) - 1) \in Corpora
    BY DEF Corpora
  <2> QED BY <2>3, <2>4, <2>5, FS_CardinalityType DEF Patterned
<1>4. ASSUME NEW s \in Texts, NEW b \in 1 .. B, ParseCorpus(s, b)
      PROVE  GoInv' /\ EF!Next
  <2> DEFINE patterns == {Pattern(s, i, b) : i \in b .. Len(s) - 2}
  <2>1. /\ Observe({<<>>}, NoneCounted, Zeros, patterns) /\ total' = Zeros /\ trainer' = "go"
        /\ Cardinality(patterns) <= MaxParsed /\ parsed' = Cardinality(patterns)
    BY <1>4 DEF ParseCorpus
  <2>2. /\ Patterned(patterns) /\ Cardinality(patterns) \in Nat
        /\ Mirror(TableOf(patterns)) \in Corpora
    BY <1>3
  <2> HIDE DEF patterns
  <2>3. parsed' \in 0 .. MaxParsed
    BY <2>1, <2>2, BoundsAssumption
  <2>4. GoInv' /\ OwnPart(nodes', counts') = Mirror(TableOf(patterns))
    BY <2>1, <2>2, <2>3, NewTrees
  <2> QED BY <2>2, <2>4, RelearnedOne
<1>5. ASSUME NEW s \in Texts, NEW b \in 1 .. B, LoadCpp(s, b)
      PROVE  GoInv' /\ EF!Next
  <2> DEFINE patterns == {Pattern(s, i, b) : i \in b .. Len(s) - 2}
             N == {<<>>} \cup Touched(patterns)
             W == TableOf(patterns)
             T == [q \in Paths |-> Cardinality({x \in patterns : q \in Suffixes(x.prefix)})]
  <2>1. /\ Load(Model(patterns)) /\ trainer' = "cpp"
        /\ Cardinality(patterns) <= MaxParsed /\ parsed' = Cardinality(patterns)
    BY <1>5 DEF LoadCpp, Trained
  <2>2. /\ Patterned(patterns) /\ Cardinality(patterns) \in Nat /\ Mirror(W) \in Corpora
    BY <1>3
  <2> HIDE DEF patterns
  <2>3. parsed' \in 0 .. MaxParsed
    BY <2>1, <2>2, BoundsAssumption
  <2>4. N \in Trees /\ W \in Tables(N, {<<>>})
    BY <2>2, PatternsTable, PatternsTree, NothingObserved
  <2>5. /\ Model(patterns) = MessageOf(N, T, Gatherings(W))
        /\ \A q \in Paths \ {<<>>} : T[q] = SumOver(Tokens, Gatherings(W)[q])
    BY <2>2, ModelIsMessage
  <2> HIDE DEF N, W, T
  <2>6. \A q \in Paths \ {<<>>} :
          T[q] \in Nat /\ T[q] <= SumOver(Tokens, Gatherings(W)[q])
    <3> SUFFICES ASSUME NEW q \in Paths \ {<<>>}
                 PROVE  SumOver(Tokens, Gatherings(W)[q]) \in Nat
      BY <2>5
    <3>1. Gatherings(W)[q] \in Counts
      BY <2>4, GatheringsFacts
    <3> QED BY <3>1, TokensAssumption, SumType DEF Counts
  <2>7. N \subseteq Paths
    BY <2>4 DEF Trees
  <2>8. GoInv' /\ nodes' = N /\ counts' = Gatherings(W)
    BY <2>1, <2>3, <2>4, <2>5, <2>6, <2>7, LoadedTrees
  <2>9. OwnPart(nodes', counts') = Mirror(W)
    BY <2>4, <2>8, OwnIsMirror
  <2> QED BY <2>2, <2>8, <2>9, RelearnedOne DEF W
<1>6. ASSUME Reload
      PROVE  GoInv' /\ UNCHANGED Occ
  BY <1>6, Reloaded, OwnIs DEF Occ
<1> QED BY <1>1, <1>2, <1>4, <1>5, <1>6 DEF Next

(* No trees, no counts, no depth: the invariant holds at first. *)
LEMMA GoStart ==
  ASSUME Init
  PROVE  GoInv /\ EF!Init
<1>1. /\ nodes = {<<>>} /\ counts = NoneCounted /\ total = Zeros /\ depth = Zeros
      /\ trainer = "go" /\ parsed = 0
  BY DEF Init
<1>2. Gathering(nodes, counts)
  BY <1>1, NothingObserved DEF Gathering
<1>3. Totalled(nodes, counts, total, trainer)
  <2>1. ASSUME NEW q \in Paths
        PROVE  total[q] \in Nat /\ total[q] <= SumOver(Tokens, counts[q])
    <3>1. counts[q] = NoCounts /\ total[q] = 0
      BY <1>1 DEF NoneCounted, Zeros
    <3>2. SumOver(Tokens, NoCounts) \in Nat
      BY TokensAssumption, SumType DEF NoCounts
    <3> QED BY <3>1, <3>2
  <2> QED BY <1>1, <2>1 DEF Totalled, Zeros
<1>4. GoInv
  BY <1>1, <1>2, <1>3, NothingObserved, BoundsAssumption DEF GoInv
<1>5. OwnPart(nodes, counts) = Mirror(NoneCounted)
  BY <1>1, NothingObserved, OwnIsMirror
<1>6. Mirror(NoneCounted) = EF!Nothing
  <2>1. \A p \in Contexts : [t \in Tokens |-> NoneCounted[p][t]] = NoCounts
    BY DEF NoneCounted, NoCounts, Contexts
  <2> QED BY <2>1 DEF Mirror, EF!Nothing, EF!NoCounts, NoCounts, EF!Contexts, EF!Paths,
                      Contexts, Paths
<1> QED BY <1>4, <1>5, <1>6, OwnIs DEF EF!Init

LEMMA GoInvAlways == Spec => []GoInv
<1>1. Init => GoInv
  BY GoStart
<1>2. GoInv /\ [Next]_vars => GoInv'
  <2>1. GoInv /\ UNCHANGED vars => GoInv'
    BY DEF GoInv, vars, Gathering, Totalled, Stale
  <2> QED BY <2>1, GoStep
<1> QED BY <1>1, <1>2, PTL DEF Spec

-----------------------------------------------------------------------------
(* Theorems *)

(***************************************************************************)
(* The variables keep their types.                                         *)
(***************************************************************************)
THEOREM TypesAlways == Spec => []TypeOK
<1>1. GoInv => TypeOK
  <2> SUFFICES ASSUME GoInv
               PROVE  TypeOK
    OBVIOUS
  <2>1. nodes \in SUBSET Paths
    BY DEF GoInv, Trees
  <2>2. counts \in [Paths -> Counts]
    BY GatheringsFacts DEF GoInv, Gathering
  <2> QED BY <2>1, <2>2 DEF GoInv, Totalled, Stale, TypeOK
<1> QED BY <1>1, GoInvAlways, PTL

(***************************************************************************)
(* However stale the depths of the stored trees are, the set's own, which  *)
(* the server takes for its block size, is the length of the longest       *)
(* context parsed: a copy's depth always leads to the end of some context. *)
(***************************************************************************)
THEOREM DepthIsBlockSizeAlways == Spec => []DepthIsBlockSize
<1>1. GoInv => DepthIsBlockSize
  <2> SUFFICES ASSUME GoInv
               PROVE  depth[<<>>] = Max({Len(q) : q \in nodes})
    BY DEF DepthIsBlockSize
  <2> DEFINE lengths == {Len(q) : q \in nodes}
  <2>1. nodes \subseteq Paths /\ <<>> \in nodes /\ Stale(nodes, depth)
    BY DEF GoInv, Trees, Whole
  <2>2. Len(<<>>) = 0 /\ \A q \in nodes : Len(q) \in Nat
    BY <2>1, PathFacts
  <2>3. PICK r \in nodes : depth[<<>>] + Len(<<>>) = Len(r)
    BY <2>1 DEF Stale
  <2>4. depth[<<>>] = Len(r)
    BY <2>1, <2>2, <2>3, RootIsPath DEF Stale
  <2>5. lengths \subseteq Int /\ depth[<<>>] \in lengths /\ \A y \in lengths : y <= depth[<<>>]
    <3>1. \A q \in nodes : Len(q) <= depth[<<>>]
      BY <2>1 DEF Stale
    <3>2. \A q \in nodes : Len(q) \in Int
      BY <2>2
    <3> HIDE DEF GoInv
    <3> QED BY <2>4, <3>1, <3>2
  <2> HIDE DEF lengths
  <2>6. Max(lengths) = depth[<<>>]
    BY <2>5, LargestIs
  <2> QED BY <2>6 DEF lengths
<1> QED BY <1>1, GoInvAlways, PTL

(***************************************************************************)
(* The server reads what the parser held: trees, counts and block size     *)
(* survive the dump, although the depths of the trees are not written.     *)
(***************************************************************************)
THEOREM DumpKeepsModelAlways == Spec => DumpKeepsModel
<1>1. GoInv /\ [Next]_vars =>
        [Reload => nodes' = nodes /\ counts' = counts /\ depth'[<<>>] = depth[<<>>]]_vars
  BY Reloaded
<1> QED BY <1>1, GoInvAlways, PTL DEF Spec, DumpKeepsModel

(***************************************************************************)
(* Parse and ParseAll add each pattern of a text once to the table of      *)
(* observations, a parsed corpus and a model of the C++ program take its   *)
(* place, and to dump and to load the trees changes nothing in it.         *)
(***************************************************************************)
THEOREM ObservationsAlways == Spec => ImplementsEmpiricalFrequency
<1>1. Init => EF!Init
  BY GoStart
<1>2. GoInv /\ Next => [EF!Next]_Occ
  BY GoStep
<1>3. UNCHANGED vars => UNCHANGED Occ
  BY OwnIs DEF vars, Occ
<1>4. GoInv /\ [Next]_vars => [EF!Next]_([o \in {"trees"} |-> Own])
  BY <1>2, <1>3 DEF Occ
<1>5. Spec => EF!Spec
  BY <1>1, <1>4, GoInvAlways, PTL DEF Spec, EF!Spec
<1> QED BY <1>5 DEF ImplementsEmpiricalFrequency

-----------------------------------------------------------------------------
(* Sampling *)

(* A context leads to its longest suffix in the trees: to none when its last token has no tree. *)
LEMMA DeepestFacts ==
  ASSUME GoInv, NEW p \in Contexts
  PROVE  /\ Deepest(p) \in nodes /\ Deepest(p) \in Paths
         /\ Deepest(p) = <<>> <=> <<Last(p)>> \notin nodes
         /\ Deepest(p) = Descent(nodes, p)
<1>1. Whole(nodes) /\ nodes \subseteq Paths /\ p \in Paths
  BY DEF GoInv, Trees, Contexts
<1>2. Deepest(p) \in nodes
  BY <1>1, DescentStops DEF Deepest
<1>3. Deepest(p) = <<>> <=> <<Last(p)>> \notin nodes
  BY <1>1, DescentStarts DEF Deepest
<1>4. Deepest(p) = Descent(nodes, p)
  BY DEF Deepest, Descent
<1> QED BY <1>1, <1>2, <1>3, <1>4

(* A tree gives what it counted, and nothing else: its total is not above the sum. *)
LEMMA TreeDraws ==
  ASSUME GoInv, NEW q \in nodes, q # <<>>
  PROVE  GoDraws(q) = {t \in Tokens : counts[q][t] > 0}
<1>1. PICK O \in Tables(nodes, {<<>>}) : counts = Gatherings(O)
  BY DEF GoInv, Gathering
<1>2. q \in Paths /\ counts[q] \in Counts /\ \E t \in Tokens : counts[q][t] > 0
  BY <1>1, GatheringsFacts DEF GoInv, Trees
<1> DEFINE c == counts[q]
<1>3. \A t \in Tokens : c[t] \in Nat
  BY <1>2 DEF Counts
<1> HIDE DEF c
<1>4. SumOver(Tokens, c) \in Nat /\ SumOver(Tokens, c) > 0
  <2>1. \E t \in Tokens : c[t] > 0
    BY <1>2 DEF c
  <2> QED BY <1>3, <2>1, TokensAssumption, SumType, SumPositive
<1>5. total[q] \in Nat /\ total[q] <= SumOver(Tokens, c)
  BY <1>2 DEF GoInv, Totalled, c
<1>6. ~ (SumOver(Tokens, c) = 0 \/ total[q] > SumOver(Tokens, c))
  BY <1>4, <1>5
<1> QED BY <1>6 DEF GoDraws, c

(* So a context gives tokens that did follow, or it is the error of an unknown token. *)
LEMMA SampleFacts ==
  ASSUME GoInv, NEW p \in Contexts
  PROVE  \/ /\ <<Last(p)>> \in nodes
            /\ Sample(p) = {t \in Tokens : counts[Deepest(p)][t] > 0}
         \/ <<Last(p)>> \notin nodes /\ Sample(p) = {UnknownToken}
<1>1. p # <<>>
  BY DEF Contexts
<1>2. CASE Deepest(p) = <<>>
  BY <1>1, <1>2, DeepestFacts DEF Sample
<1>3. CASE Deepest(p) # <<>>
  BY <1>1, <1>3, DeepestFacts, TreeDraws DEF Sample
<1> QED BY <1>2, <1>3

-----------------------------------------------------------------------------
(* Generation *)

\* What generation keeps while there is no error.
NoError == ""

Start(p) == [text |-> p, error |-> NoError]

\* One turn of the loop of Generate, from one of the states it can be in.
Continued(size, b, g) ==
    IF g.error # NoError THEN {g}
    ELSE {IF t \notin Tokens THEN [g EXCEPT !.error = t]
          ELSE IF Len(g.text) = size THEN [g EXCEPT !.error = Panic]
          ELSE [g EXCEPT !.text = Append(@, t)] :
            t \in Sample(Window(g.text, Len(g.text), b))}

\* f gives the states Generate can be in with i tokens, for each i.
Unrolled(size, b, p, last, f) ==
    f = [i \in Len(p) .. last |->
           IF i = Len(p) THEN {Start(p)} ELSE UNION {Continued(size, b, g) : g \in f[i - 1]}]

\* Where the loop of Generate ends: the first block is filled, whatever the size.
EndOf(size, b, p) == IF Len(p) < b THEN Max({size, b}) ELSE size

(* Generate is its loop, unrolled. *)
LEMMA GenerateIs ==
  ASSUME NEW size, NEW b, NEW p, ~ (Len(p) > size)
  PROVE  Generate(size, b, p) = (CHOOSE f : Unrolled(size, b, p, EndOf(size, b, p), f))[EndOf(size, b, p)]
BY DEF Generate, Unrolled, Continued, Start, NoError, EndOf

\* A text and the error that ended it.
Outcomes == [text : Seq(Tokens),
             error : {NoError, Panic, NeedsPrefix, UnknownToken, Malformed}]

(* A turn of the loop gives texts and errors. *)
LEMMA OutcomesContinue ==
  ASSUME NEW size, NEW b, NEW g \in Outcomes
  PROVE  Continued(size, b, g) \subseteq Outcomes
<1> DEFINE errors == {NoError, Panic, NeedsPrefix, UnknownToken, Malformed}
<1>1. g = [text |-> g.text, error |-> g.error] /\ g.text \in Seq(Tokens) /\ g.error \in errors
  BY DEF Outcomes
<1>2. \A q : Sample(q) \subseteq Tokens \cup errors
  BY DEF Sample, GoDraws
<1>3. {NoError, Panic} \subseteq errors
  OBVIOUS
<1>4. \A h : h \in Outcomes <=> \E s \in Seq(Tokens) : \E e \in errors : h = [text |-> s, error |-> e]
  BY DEF Outcomes
<1> HIDE DEF errors
<1>5. SUFFICES ASSUME NEW h \in Continued(size, b, g), g.error = NoError
               PROVE  h \in Outcomes
  BY DEF Continued
<1>6. PICK t \in Sample(Window(g.text, Len(g.text), b)) :
        h = IF t \notin Tokens THEN [g EXCEPT !.error = t]
            ELSE IF Len(g.text) = size THEN [g EXCEPT !.error = Panic]
            ELSE [g EXCEPT !.text = Append(@, t)]
  BY <1>5 DEF Continued
<1>7. CASE t \notin Tokens
  <2>1. t \in errors /\ h = [text |-> g.text, error |-> t]
    BY <1>1, <1>2, <1>6, <1>7
  <2> QED BY <1>1, <1>4, <2>1
<1>8. CASE t \in Tokens /\ Len(g.text) = size
  <2>1. h = [text |-> g.text, error |-> Panic]
    BY <1>1, <1>6, <1>8
  <2> QED BY <1>1, <1>3, <1>4, <2>1
<1>9. CASE t \in Tokens /\ Len(g.text) # size
  <2> DEFINE s == g.text
             longer == Append(s, t)
  <2>1. longer \in Seq(Tokens)
    BY <1>1, <1>9
  <2>2. h = [g EXCEPT !.text = longer]
    BY <1>6, <1>9
  <2> HIDE DEF longer
  <2>3. h = [text |-> longer, error |-> g.error]
    BY <1>1, <2>2
  <2> QED BY <1>1, <1>4, <2>1, <2>3
<1> QED BY <1>7, <1>8, <1>9

\* f gives the turns of the loop that end with what Generate gives.
Generated(size, b, p, last, f) ==
    /\ Generate(size, b, p) = f[last]
    /\ f[Len(p)] = {Start(p)}
    /\ \A i \in Len(p) .. last :
         i # last => \A h \in f[i + 1] : \E g \in f[i] : h \in Continued(size, b, g)

(* The loop can be unrolled: Generate is where its turns end. *)
LEMMA GenerateTurns ==
  ASSUME NEW size \in Nat, NEW b \in Nat, NEW p \in Seq(Tokens), Len(p) <= size,
         NEW last \in Nat, last = EndOf(size, b, p), Len(p) <= last
  PROVE  \E f : Generated(size, b, p, last, f)
<1> DEFINE first == Len(p)
           step == [g \in Outcomes |-> Continued(size, b, g)]
<1>1. first \in Nat /\ {Start(p)} \in SUBSET Outcomes
  BY DEF Start, Outcomes
<1>2. step \in [Outcomes -> SUBSET Outcomes] /\ \A g \in Outcomes : step[g] = Continued(size, b, g)
  BY OutcomesContinue
<1> HIDE DEF first, step
<1>3. PICK h \in [first .. last -> SUBSET Outcomes] : Turns({Start(p)}, step, first, last, h)
  BY <1>1, <1>2, LoopUnrolls DEF first
<1> DEFINE loop == [i \in first .. last |->
                      IF i = first THEN {Start(p)} ELSE UNION {Continued(size, b, g) : g \in h[i - 1]}]
<1>4. ASSUME NEW i \in first .. last
      PROVE  h[i] = loop[i]
  <2>1. h[i] = IF i = first THEN {Start(p)} ELSE UNION {step[g] : g \in h[i - 1]}
    BY <1>3 DEF Turns
  <2>2. CASE i = first
    BY <2>1, <2>2
  <2>3. CASE i # first
    <3>1. h[i - 1] \subseteq Outcomes
      BY <1>1, <2>3
    <3>2. UNION {step[g] : g \in h[i - 1]} = UNION {Continued(size, b, g) : g \in h[i - 1]}
      BY <1>2, <3>1
    <3> QED BY <2>1, <2>3, <3>2
  <2> QED BY <2>2, <2>3
<1>5. h = loop
  <2> HIDE DEF loop
  <2>1. h = [i \in first .. last |-> h[i]] /\ loop = [i \in first .. last |-> loop[i]]
    BY DEF loop
  <2> QED BY <1>4, <2>1
<1>6. Unrolled(size, b, p, last, h)
  BY <1>5, Zenon DEF Unrolled, first
<1> DEFINE f == CHOOSE x : Unrolled(size, b, p, last, x)
<1>7. Unrolled(size, b, p, last, f)
  BY <1>6
<1>8. Generate(size, b, p) = f[last]
  BY <1>1, GenerateIs DEF first
<1> HIDE DEF f
<1>9. \A i \in first .. last :
        f[i] = IF i = first THEN {Start(p)} ELSE UNION {Continued(size, b, g) : g \in f[i - 1]}
  BY <1>7 DEF Unrolled, first
<1>10. f[first] = {Start(p)}
  <2>1. first \in first .. last
    BY <1>1 DEF first
  <2> QED BY <1>9, <2>1
<1>11. ASSUME NEW i \in first .. last, i # last, NEW x \in f[i + 1]
       PROVE  \E g \in f[i] : x \in Continued(size, b, g)
  <2>1. i + 1 \in first .. last /\ i + 1 # first /\ (i + 1) - 1 = i
    BY <1>1, <1>11
  <2>2. f[i + 1] = UNION {Continued(size, b, g) : g \in f[i]}
    BY <1>9, <2>1
  <2> QED BY <1>11, <2>2
<1> QED BY <1>8, <1>10, <1>11 DEF Generated, first

(* A text that goes on behind the prompt still does with one more token that did follow. *)
LEMMA LongerContinues ==
  ASSUME NEW p \in Seq(Tokens), NEW s \in Seq(Tokens), NEW b \in Nat, NEW other,
         Continues(s, p, b, other), NEW t \in Tokens,
         t \in other \/ counts[Deepest(Window(s, Len(s), b))][t] > 0
  PROVE  Continues(Append(s, t), p, b, other)
<1> DEFINE r == Append(s, t)
           n == Len(s)
<1>1. /\ r \in Seq(Tokens) /\ Len(r) = n + 1 /\ r[n + 1] = t /\ \A j \in 1 .. n : r[j] = s[j]
      /\ n \in Nat /\ Len(p) \in Nat /\ IsPrefix(p, s)
  BY DEF Continues
<1>2. Len(p) <= n
  BY <1>1 DEF IsPrefix
<1>3. \A j \in Len(p) + 1 .. n :
        s[j] \in other \/ counts[Deepest(Window(s, j - 1, b))][s[j]] > 0
  BY DEF Continues
<1>4. \A j \in 0 .. n : Window(r, j, b) = Window(s, j, b)
  BY WindowBefore
<1> HIDE DEF r, n
<1>5. IsPrefix(p, r)
  <2>1. SubSeq(r, 1, Len(p)) = SubSeq(s, 1, Len(p))
    BY <1>1, <1>2 DEF n
  <2> QED BY <1>1, <1>2, <2>1 DEF IsPrefix, n
<1>6. ASSUME NEW j \in Len(p) + 1 .. n + 1
      PROVE  r[j] \in other \/ counts[Deepest(Window(r, j - 1, b))][r[j]] > 0
  <2>1. CASE j = n + 1
    <3>1. j - 1 = n /\ n \in 0 .. n
      BY <1>1, <2>1
    <3>2. Window(r, j - 1, b) = Window(s, n, b) /\ r[j] = t
      BY <1>1, <1>4, <2>1, <3>1
    <3> QED BY <3>2 DEF n
  <2>2. CASE j # n + 1
    <3>1. j \in Len(p) + 1 .. n /\ j \in 1 .. n /\ j - 1 \in 0 .. n
      BY <1>1, <2>2
    <3>2. Window(r, j - 1, b) = Window(s, j - 1, b) /\ r[j] = s[j]
      BY <1>1, <1>4, <3>1
    <3> QED BY <1>3, <3>1, <3>2
  <2> QED BY <2>1, <2>2
<1>7. Continues(r, p, b, other)
  BY <1>1, <1>5, <1>6 DEF Continues
<1> QED BY <1>7 DEF r

(* A prompt goes on behind itself. *)
LEMMA PromptContinues ==
  ASSUME NEW p \in Seq(Tokens), NEW b, NEW other
  PROVE  Continues(p, p, b, other)
<1>1. IsPrefix(p, p)
  BY DEF IsPrefix
<1>2. \A i \in Len(p) + 1 .. Len(p) : FALSE
  OBVIOUS
<1> QED BY <1>1, <1>2 DEF Continues

(* The context in front of the next token is never empty, and ends in the last token. *)
LEMMA NextWindow ==
  ASSUME NEW s \in Seq(Tokens), NEW b \in 1 .. B, Len(s) >= 1
  PROVE  LET w == Window(s, Len(s), b)
         IN  w \in Contexts /\ Last(w) = Last(s)
<1>1. Len(s) \in 1 .. Len(s)
  OBVIOUS
<1> QED BY <1>1, WindowIsContext, WindowEnds DEF Last

(* Errors can be told from none. *)
LEMMA ErrorsDiffer ==
  /\ Panic # NoError /\ UnknownToken # NoError /\ OutOfRange # NoError
BY Zenon DEF Panic, UnknownToken, OutOfRange, NoError

\* What Generate has after the turn that should make it i tokens.
Half(size, b, p, i, g) ==
    /\ g.text \in Seq(Tokens) /\ Continues(g.text, p, b, {})
    /\ \/ g.error = NoError /\ Len(g.text) = i /\ i <= size
       \/ g.error = Panic /\ Len(p) < b /\ size < b
       \/ g.error = UnknownToken /\ Len(g.text) > Len(p) /\ <<Last(g.text)>> \notin nodes

(* A turn leads from there to the same with one token more. *)
LEMMA HalfGrows ==
  ASSUME GoInv, NEW p \in Contexts, <<Last(p)>> \in nodes, NEW size \in Nat, NEW b \in 1 .. B,
         NEW i \in Nat, Len(p) <= i, i = size => Len(p) < b /\ size < b,
         NEW g \in Outcomes, Half(size, b, p, i, g), NEW h \in Continued(size, b, g)
  PROVE  Half(size, b, p, i + 1, h)
<1>1. /\ p \in Seq(Tokens) /\ Len(p) \in Nat /\ Len(p) >= 1 /\ b \in Nat
      /\ g.text \in Seq(Tokens) /\ Continues(g.text, p, b, {})
  BY PathFacts, BlockAssumption DEF Contexts, Half
<1>2. CASE g.error # NoError
  <2>1. h = g
    BY <1>2 DEF Continued
  <2> QED BY <1>2, <2>1 DEF Half
<1>3. CASE g.error = NoError
  <2> DEFINE s == g.text
             w == Window(s, Len(s), b)
  <2>1. Len(s) = i /\ i <= size
    BY <1>3, ErrorsDiffer DEF Half
  <2>2. w \in Contexts /\ Last(w) = Last(s)
    BY <1>1, <2>1, NextWindow
  <2>3. PICK t \in Sample(w) :
          h = IF t \notin Tokens THEN [g EXCEPT !.error = t]
              ELSE IF Len(s) = size THEN [g EXCEPT !.error = Panic]
              ELSE [g EXCEPT !.text = Append(@, t)]
    BY <1>3 DEF Continued
  <2>4. g = [text |-> s, error |-> NoError] /\ s \in Seq(Tokens)
    BY <1>1, <1>3 DEF Outcomes
  <2> HIDE DEF w
  <2>5. CASE <<Last(s)>> \notin nodes
    <3>1. t = UnknownToken /\ t \notin Tokens
      BY <2>2, <2>5, SampleFacts, GoErrorsAssumption
    <3>2. h.text = s /\ h.error = UnknownToken
      BY <2>3, <2>4, <3>1
    <3>3. Len(s) # Len(p)
      <4>1. SUFFICES ASSUME Len(s) = Len(p)
                     PROVE  FALSE
        OBVIOUS
      <4>2. SubSeq(s, 1, Len(p)) = p
        BY <1>1 DEF Continues, IsPrefix
      <4>3. s = p
        BY <1>1, <4>1, <4>2
      <4> QED BY <2>5, <4>3
    <3>4. Len(s) > Len(p)
      BY <1>1, <2>1, <3>3
    <3> QED BY <1>1, <2>5, <3>2, <3>4 DEF Half
  <2>6. CASE <<Last(s)>> \in nodes
    <3>1. t \in Tokens /\ counts[Deepest(w)][t] > 0
      BY <2>2, <2>6, SampleFacts
    <3>2. CASE Len(s) = size
      <4>1. h.text = s /\ h.error = Panic
        BY <2>3, <2>4, <3>1, <3>2
      <4> QED BY <1>1, <2>1, <3>2, <4>1 DEF Half
    <3>3. CASE Len(s) # size
      <4> DEFINE r == Append(s, t)
      <4>1. h.text = r /\ h.error = NoError
        <5>1. h = [g EXCEPT !.text = r]
          BY <2>3, <3>1, <3>3
        <5> HIDE DEF r
        <5> QED BY <2>4, <5>1
      <4>2. r \in Seq(Tokens) /\ Len(r) = i + 1 /\ i + 1 <= size
        BY <1>1, <2>1, <3>1, <3>3
      <4>3. Continues(r, p, b, {})
        BY <1>1, <3>1, LongerContinues DEF w
      <4> HIDE DEF r
      <4> QED BY <4>1, <4>2, <4>3 DEF Half
    <3> QED BY <3>2, <3>3
  <2> QED BY <2>5, <2>6
<1> QED BY <1>2, <1>3

(* The larger of two numbers. *)
LEMMA LargerOf ==
  ASSUME NEW m \in Nat, NEW n \in Nat
  PROVE  Max({m, n}) = IF m <= n THEN n ELSE m
<1> DEFINE x == IF m <= n THEN n ELSE m
           S == {m, n}
<1>1. S \subseteq Int /\ x \in S /\ \A y \in S : y <= x
  OBVIOUS
<1> HIDE DEF S, x
<1>2. Max(S) = x
  BY <1>1, LargestIs
<1> QED BY <1>2 DEF S, x

(* Where the loop ends: with a text of the size asked for, or larger with the first block. *)
LEMMA EndFacts ==
  ASSUME NEW size \in Nat, NEW b \in Nat, NEW p \in Seq(Tokens), Len(p) <= size
  PROVE  LET last == EndOf(size, b, p)
         IN  /\ last \in Nat /\ size <= last
             /\ last # size => Len(p) < b /\ size < b
BY LargerOf DEF EndOf

(* What every turn of the loop gives, for a prompt that fits and ends in a known token. *)
LEMMA TurnsAnswer ==
  ASSUME GoInv, NEW p \in Contexts, <<Last(p)>> \in nodes, NEW size \in Nat, Len(p) <= size,
         NEW b \in 1 .. B, NEW last \in Nat, last = EndOf(size, b, p),
         NEW f, Generated(size, b, p, last, f)
  PROVE  \A i \in Len(p) .. last : \A x \in f[i] : x \in Outcomes /\ Half(size, b, p, i, x)
<1> DEFINE first == Len(p)
           T == {i \in first .. last :
                   \A x \in f[i] : x \in Outcomes /\ Half(size, b, p, i, x)}
<1>1. p \in Seq(Tokens) /\ first \in Nat /\ b \in Nat
  BY PathFacts, BlockAssumption DEF Contexts
<1>2. size <= last /\ (last # size => Len(p) < b /\ size < b)
  BY <1>1, EndFacts
<1>3. first \in T
  <2>1. f[first] = {Start(p)} /\ first \in first .. last
    BY <1>1, <1>2 DEF Generated
  <2>2. Start(p).text = p /\ Start(p).error = NoError /\ Start(p) \in Outcomes
    BY <1>1 DEF Start, Outcomes
  <2>3. Half(size, b, p, first, Start(p))
    BY <1>1, <2>2, PromptContinues DEF Half
  <2> QED BY <2>1, <2>2, <2>3
<1>4. ASSUME NEW i \in first .. last, i \in T, i # last
      PROVE  i + 1 \in T
  <2>1. i + 1 \in first .. last /\ i \in Nat /\ first <= i
    BY <1>1, <1>4
  <2>2. \A y \in f[i + 1] : \E x \in f[i] : y \in Continued(size, b, x)
    BY <1>4 DEF Generated
  <2>3. i = size => Len(p) < b /\ size < b
    BY <1>2, <1>4
  <2>4. ASSUME NEW y \in f[i + 1]
        PROVE  y \in Outcomes /\ Half(size, b, p, i + 1, y)
    <3>1. PICK x \in f[i] : y \in Continued(size, b, x)
      BY <2>2
    <3>2. x \in Outcomes /\ Half(size, b, p, i, x)
      BY <1>4
    <3> QED BY <1>1, <2>1, <2>3, <3>1, <3>2, OutcomesContinue, HalfGrows
  <2> QED BY <2>1, <2>4
<1> HIDE DEF T
<1>5. \A i \in first .. last : i \in T
  BY <1>1, <1>3, <1>4, Stepwise
<1> QED BY <1>5 DEF T

(* So this is what Generate answers. *)
LEMMA GenerateAnswers ==
  ASSUME GoInv, NEW p \in Contexts, <<Last(p)>> \in nodes, NEW size \in Nat, Len(p) <= size,
         NEW b \in 1 .. B, NEW g \in Generate(size, b, p)
  PROVE  Half(size, b, p, EndOf(size, b, p), g)
<1> DEFINE last == EndOf(size, b, p)
<1>1. p \in Seq(Tokens) /\ Len(p) \in Nat /\ b \in Nat
  BY PathFacts, BlockAssumption DEF Contexts
<1>2. last \in Nat /\ Len(p) <= last /\ last = EndOf(size, b, p)
  BY <1>1, EndFacts
<1> HIDE DEF last
<1>3. PICK f : Generated(size, b, p, last, f)
  BY <1>1, <1>2, GenerateTurns
<1>4. last \in Len(p) .. last /\ g \in f[last]
  BY <1>1, <1>2, <1>3 DEF Generated
<1>5. Half(size, b, p, last, g)
  BY <1>2, <1>3, <1>4, TurnsAnswer
<1> QED BY <1>2, <1>5

\* What KnownTokenAnswers asks of one answer.
Known(size, b, p, g) ==
    /\ Continues(g.text, p, b, {})
    /\ \/ g.error = NoError /\ Len(g.text) = size
       \/ g.error = Panic /\ (Len(p) > size \/ (Len(p) < b /\ size < b))
       \/ g.error = UnknownToken /\ Len(g.text) > Len(p) /\ <<Last(g.text)>> \notin nodes

(***************************************************************************)
(* Whatever the totals and the depths, Generate continues a prompt that    *)
(* ends in a known token with tokens that did follow the longest known     *)
(* suffix.  "sampler malformed" cannot happen, an unknown token only       *)
(* behind one drawn, and a panic only when the prompt or its first block   *)
(* does not fit.                                                           *)
(***************************************************************************)
THEOREM KnownTokenAnswersAlways == Spec => []KnownTokenAnswers
<1>1. GoInv => KnownTokenAnswers
  <2> SUFFICES ASSUME GoInv, NEW p \in Contexts, <<Last(p)>> \in nodes,
                      NEW size \in 0 .. B + 1, NEW b \in 1 .. B, NEW g \in Generate(size, b, p)
               PROVE  Known(size, b, p, g)
    BY Zenon DEF KnownTokenAnswers, Known, NoError
  <2>1. p \in Seq(Tokens) /\ size \in Nat /\ b \in Nat /\ Len(p) \in Nat
    BY PathFacts, BlockAssumption DEF Contexts
  <2>2. CASE Len(p) > size
    <3>1. g = [text |-> p, error |-> Panic]
      BY <2>2 DEF Generate
    <3>2. g.text = p /\ g.error = Panic
      BY <3>1
    <3> QED BY <2>1, <2>2, <3>2, PromptContinues DEF Known
  <2>3. CASE Len(p) <= size
    <3>1. Half(size, b, p, EndOf(size, b, p), g)
      BY <2>1, <2>3, GenerateAnswers
    <3>2. size <= EndOf(size, b, p) /\ EndOf(size, b, p) \in Nat
      BY <2>1, <2>3, EndFacts
    <3>3. EndOf(size, b, p) <= size => EndOf(size, b, p) = size
      BY <2>1, <3>2
    <3> QED BY <3>1, <3>3 DEF Half, Known
  <2> QED BY <2>1, <2>2, <2>3
<1> QED BY <1>1, GoInvAlways, PTL

-----------------------------------------------------------------------------
(* A model of the C++ program *)

CppContinued(N, C, b, g) ==
    IF g.error # NoError THEN {g}
    ELSE {IF t \in Tokens THEN [g EXCEPT !.text = Append(@, t)] ELSE [g EXCEPT !.error = t] :
            t \in CppSample(N, C, Window(g.text, Len(g.text), b))}

CppUnrolled(N, C, b, p, last, f) ==
    f = [i \in Len(p) .. last |->
           IF i = Len(p) THEN {Start(p)} ELSE UNION {CppContinued(N, C, b, g) : g \in f[i - 1]}]

\* The last turn of its loop, and what is left then.
CppEndOf(n, b, p) == IF b < Len(p) + n THEN Len(p) + n - 1 ELSE Len(p) + n

CppLeft(n, b, p, g) ==
    IF g.error # NoError THEN g
    ELSE IF b < Len(p) + n THEN [g EXCEPT !.text = Append(@, Unset)]
    ELSE [g EXCEPT !.error = TooLarge]

(* Its generation is its loop, unrolled, and the end. *)
LEMMA CppGenerateIs ==
  ASSUME NEW N, NEW C, NEW n, NEW b, NEW p, p # <<>>
  PROVE  LET last == CppEndOf(n, b, p)
         IN  CppGenerate(N, C, n, b, p)
               = {CppLeft(n, b, p, g) : g \in (CHOOSE f : CppUnrolled(N, C, b, p, last, f))[last]}
BY DEF CppGenerate, CppUnrolled, CppContinued, CppEndOf, CppLeft, Start, NoError

CppOutcomes == [text : Seq(Tokens), error : {NoError, OutOfRange}]

LEMMA CppOutcomesContinue ==
  ASSUME NEW N, NEW C, NEW b, NEW g \in CppOutcomes
  PROVE  CppContinued(N, C, b, g) \subseteq CppOutcomes
<1> DEFINE errors == {NoError, OutOfRange}
           s == g.text
<1>1. g = [text |-> s, error |-> g.error] /\ s \in Seq(Tokens) /\ g.error \in errors
  BY DEF CppOutcomes
<1>2. \A q : CppSample(N, C, q) \subseteq Tokens \cup errors
  BY Token0Assumption DEF CppSample, CppDraws
<1>3. \A h : h \in CppOutcomes <=> \E r \in Seq(Tokens) : \E e \in errors : h = [text |-> r, error |-> e]
  BY DEF CppOutcomes
<1> HIDE DEF errors
<1>4. SUFFICES ASSUME NEW h \in CppContinued(N, C, b, g), g.error = NoError
               PROVE  h \in CppOutcomes
  BY DEF CppContinued
<1>5. PICK t \in CppSample(N, C, Window(s, Len(s), b)) :
        h = IF t \in Tokens THEN [g EXCEPT !.text = Append(@, t)] ELSE [g EXCEPT !.error = t]
  BY <1>4 DEF CppContinued
<1>6. CASE t \notin Tokens
  <2>1. t \in errors /\ h = [text |-> s, error |-> t]
    BY <1>1, <1>2, <1>5, <1>6
  <2> QED BY <1>1, <1>3, <2>1
<1>7. CASE t \in Tokens
  <2> DEFINE longer == Append(s, t)
  <2>1. longer \in Seq(Tokens)
    BY <1>1, <1>7
  <2>2. h = [g EXCEPT !.text = longer]
    BY <1>5, <1>7
  <2> HIDE DEF longer
  <2>3. h = [text |-> longer, error |-> g.error]
    BY <1>1, <2>2
  <2> QED BY <1>1, <1>3, <2>1, <2>3
<1> QED BY <1>6, <1>7

\* f gives the turns of its loop, and what is left of the last are its answers.
CppGenerated(N, C, n, b, p, last, f) ==
    /\ CppGenerate(N, C, n, b, p) = {CppLeft(n, b, p, g) : g \in f[last]}
    /\ f[Len(p)] = {Start(p)}
    /\ \A i \in Len(p) .. last :
         i # last => \A h : h \in f[i + 1] <=> \E g \in f[i] : h \in CppContinued(N, C, b, g)

LEMMA CppGenerateTurns ==
  ASSUME NEW N, NEW C, NEW n \in Nat, NEW b \in Nat, NEW p \in Seq(Tokens), p # <<>>,
         NEW last \in Nat, last = CppEndOf(n, b, p), Len(p) <= last
  PROVE  \E f : CppGenerated(N, C, n, b, p, last, f)
<1> DEFINE first == Len(p)
           step == [g \in CppOutcomes |-> CppContinued(N, C, b, g)]
<1>1. first \in Nat /\ {Start(p)} \in SUBSET CppOutcomes
  BY DEF Start, CppOutcomes
<1>2. /\ step \in [CppOutcomes -> SUBSET CppOutcomes]
      /\ \A g \in CppOutcomes : step[g] = CppContinued(N, C, b, g)
  BY CppOutcomesContinue
<1> HIDE DEF first, step
<1>3. PICK h \in [first .. last -> SUBSET CppOutcomes] : Turns({Start(p)}, step, first, last, h)
  BY <1>1, <1>2, LoopUnrolls DEF first
<1> DEFINE loop == [i \in first .. last |->
                      IF i = first THEN {Start(p)}
                      ELSE UNION {CppContinued(N, C, b, g) : g \in h[i - 1]}]
<1>4. ASSUME NEW i \in first .. last
      PROVE  h[i] = loop[i]
  <2>1. h[i] = IF i = first THEN {Start(p)} ELSE UNION {step[g] : g \in h[i - 1]}
    BY <1>3 DEF Turns
  <2>2. CASE i = first
    BY <2>1, <2>2
  <2>3. CASE i # first
    <3>1. h[i - 1] \subseteq CppOutcomes
      BY <1>1, <2>3
    <3>2. UNION {step[g] : g \in h[i - 1]} = UNION {CppContinued(N, C, b, g) : g \in h[i - 1]}
      BY <1>2, <3>1
    <3> QED BY <2>1, <2>3, <3>2
  <2> QED BY <2>2, <2>3
<1>5. h = loop
  <2> HIDE DEF loop
  <2>1. h = [i \in first .. last |-> h[i]] /\ loop = [i \in first .. last |-> loop[i]]
    BY DEF loop
  <2> QED BY <1>4, <2>1
<1>6. CppUnrolled(N, C, b, p, last, h)
  BY <1>5, Zenon DEF CppUnrolled, first
<1> DEFINE f == CHOOSE x : CppUnrolled(N, C, b, p, last, x)
<1>7. CppUnrolled(N, C, b, p, last, f)
  BY <1>6
<1>8. CppGenerate(N, C, n, b, p) = {CppLeft(n, b, p, g) : g \in f[last]}
  BY CppGenerateIs
<1> HIDE DEF f
<1>9. \A i \in first .. last :
        f[i] = IF i = first THEN {Start(p)}
               ELSE UNION {CppContinued(N, C, b, g) : g \in f[i - 1]}
  BY <1>7 DEF CppUnrolled, first
<1>10. f[first] = {Start(p)}
  <2>1. first \in first .. last
    BY <1>1 DEF first
  <2> QED BY <1>9, <2>1
<1>11. ASSUME NEW i \in first .. last, i # last, NEW k
       PROVE  k \in f[i + 1] <=> \E g \in f[i] : k \in CppContinued(N, C, b, g)
  <2>1. i + 1 \in first .. last /\ i + 1 # first /\ (i + 1) - 1 = i
    BY <1>1, <1>11
  <2>2. f[i + 1] = UNION {CppContinued(N, C, b, g) : g \in f[i]}
    BY <1>9, <2>1
  <2> QED BY <2>2
<1> QED BY <1>8, <1>10, <1>11 DEF CppGenerated, first

\* What its loop has after the turn that should make it i tokens.
CppHalf(b, p, i, g) ==
    /\ g.text \in Seq(Tokens) /\ Continues(g.text, p, b, {Token0})
    /\ \/ g.error = NoError /\ Len(g.text) = i
       \/ g.error = OutOfRange /\ <<Last(g.text)>> \notin nodes

(* What it draws: the error of an unknown token, or tokens that did follow, or the token 0. *)
LEMMA CppSampleFacts ==
  ASSUME GoInv, NEW p \in Contexts
  PROVE  \/ /\ <<Last(p)>> \in nodes
            /\ CppSample(nodes, counts, p) = {t \in Tokens : counts[Deepest(p)][t] > 0} \cup {Token0}
         \/ <<Last(p)>> \notin nodes /\ CppSample(nodes, counts, p) = {OutOfRange}
<1>1. /\ Deepest(p) = <<>> <=> <<Last(p)>> \notin nodes
      /\ Descent(nodes, p) = Deepest(p)
  BY DeepestFacts
<1> QED BY <1>1 DEF CppSample, CppDraws

LEMMA CppHalfGrows ==
  ASSUME GoInv, NEW p \in Contexts, NEW b \in 1 .. B, NEW i \in Nat, Len(p) <= i,
         NEW g \in CppOutcomes, CppHalf(b, p, i, g), NEW h \in CppContinued(nodes, counts, b, g)
  PROVE  CppHalf(b, p, i + 1, h)
<1>1. /\ p \in Seq(Tokens) /\ Len(p) \in Nat /\ Len(p) >= 1 /\ b \in Nat
      /\ g.text \in Seq(Tokens) /\ Continues(g.text, p, b, {Token0})
  BY PathFacts, BlockAssumption DEF Contexts, CppHalf
<1>2. CASE g.error # NoError
  <2>1. h = g
    BY <1>2 DEF CppContinued
  <2> QED BY <1>2, <2>1 DEF CppHalf
<1>3. CASE g.error = NoError
  <2> DEFINE s == g.text
             w == Window(s, Len(s), b)
  <2>1. Len(s) = i
    BY <1>3, ErrorsDiffer DEF CppHalf
  <2>2. w \in Contexts /\ Last(w) = Last(s)
    BY <1>1, <2>1, NextWindow
  <2>3. PICK t \in CppSample(nodes, counts, w) :
          h = IF t \in Tokens THEN [g EXCEPT !.text = Append(@, t)] ELSE [g EXCEPT !.error = t]
    BY <1>3 DEF CppContinued
  <2>4. g = [text |-> s, error |-> NoError] /\ s \in Seq(Tokens)
    BY <1>1, <1>3 DEF CppOutcomes
  <2> HIDE DEF w
  <2>5. CASE <<Last(s)>> \notin nodes
    <3>1. t = OutOfRange /\ t \notin Tokens
      BY <2>2, <2>5, CppSampleFacts, CppErrorAssumption
    <3>2. h.text = s /\ h.error = OutOfRange
      BY <2>3, <2>4, <3>1
    <3> QED BY <1>1, <2>5, <3>2 DEF CppHalf
  <2>6. CASE <<Last(s)>> \in nodes
    <3>1. t \in Tokens /\ (t \in {Token0} \/ counts[Deepest(w)][t] > 0)
      BY <2>2, <2>6, CppSampleFacts, Token0Assumption
    <3> DEFINE r == Append(s, t)
    <3>2. h.text = r /\ h.error = NoError
      <4>1. h = [g EXCEPT !.text = r]
        BY <2>3, <3>1
      <4> HIDE DEF r
      <4> QED BY <2>4, <4>1
    <3>3. r \in Seq(Tokens) /\ Len(r) = i + 1
      BY <1>1, <2>1, <3>1
    <3>4. Continues(r, p, b, {Token0})
      BY <1>1, <3>1, LongerContinues DEF w
    <3> HIDE DEF r
    <3> QED BY <3>2, <3>3, <3>4 DEF CppHalf
  <2> QED BY <2>5, <2>6
<1> QED BY <1>2, <1>3

LEMMA CppTurnsAnswer ==
  ASSUME GoInv, NEW p \in Contexts, NEW n \in Nat, NEW b \in 1 .. B, NEW last \in Nat,
         NEW f, CppGenerated(nodes, counts, n, b, p, last, f)
  PROVE  \A i \in Len(p) .. last : \A x \in f[i] : x \in CppOutcomes /\ CppHalf(b, p, i, x)
<1> DEFINE first == Len(p)
           T == {i \in first .. last : \A x \in f[i] : x \in CppOutcomes /\ CppHalf(b, p, i, x)}
<1>1. p \in Seq(Tokens) /\ first \in Nat /\ b \in Nat
  BY PathFacts, BlockAssumption DEF Contexts
<1>2. SUFFICES ASSUME first <= last
               PROVE  \A i \in first .. last : i \in T
  BY <1>1
<1>3. first \in T
  <2>1. f[first] = {Start(p)} /\ first \in first .. last
    BY <1>1, <1>2 DEF CppGenerated
  <2>2. Start(p).text = p /\ Start(p).error = NoError /\ Start(p) \in CppOutcomes
    BY <1>1 DEF Start, CppOutcomes
  <2>3. CppHalf(b, p, first, Start(p))
    BY <1>1, <2>2, PromptContinues DEF CppHalf
  <2> QED BY <2>1, <2>2, <2>3
<1>4. ASSUME NEW i \in first .. last, i \in T, i # last
      PROVE  i + 1 \in T
  <2>1. i + 1 \in first .. last /\ i \in Nat /\ first <= i
    BY <1>1, <1>4
  <2>2. ASSUME NEW y \in f[i + 1]
        PROVE  y \in CppOutcomes /\ CppHalf(b, p, i + 1, y)
    <3>1. PICK x \in f[i] : y \in CppContinued(nodes, counts, b, x)
      BY <1>4 DEF CppGenerated
    <3>2. x \in CppOutcomes /\ CppHalf(b, p, i, x)
      BY <1>4
    <3> QED BY <1>1, <2>1, <3>1, <3>2, CppOutcomesContinue, CppHalfGrows
  <2> QED BY <2>1, <2>2
<1> HIDE DEF T
<1> QED BY <1>1, <1>3, <1>4, Stepwise

(* What Generate can go on with in a turn, the C++ program can too. *)
LEMMA TurnServed ==
  ASSUME GoInv, NEW size \in Nat, NEW b \in 1 .. B, NEW g \in Outcomes, g.error = NoError,
         Len(g.text) >= 1, Len(g.text) # size,
         NEW h \in Continued(size, b, g), h.error = NoError
  PROVE  /\ h \in CppContinued(nodes, counts, b, g)
         /\ \E t \in Tokens : h.text = Append(g.text, t)
<1> DEFINE s == g.text
           w == Window(s, Len(s), b)
<1>1. g = [text |-> s, error |-> NoError] /\ s \in Seq(Tokens)
  BY DEF Outcomes
<1>2. w \in Contexts /\ Last(w) = Last(s)
  BY <1>1, NextWindow
<1>3. PICK t \in Sample(w) :
        h = IF t \notin Tokens THEN [g EXCEPT !.error = t]
            ELSE IF Len(s) = size THEN [g EXCEPT !.error = Panic]
            ELSE [g EXCEPT !.text = Append(@, t)]
  BY DEF Continued
<1>4. t \in Tokens
  <2>1. SUFFICES ASSUME t \notin Tokens
                 PROVE  FALSE
    OBVIOUS
  <2>2. t = UnknownToken
    <3>1. t \in Sample(w) /\ w \in Contexts
      BY <1>2
    <3> HIDE DEF w
    <3>2. \/ Sample(w) = {u \in Tokens : counts[Deepest(w)][u] > 0}
          \/ Sample(w) = {UnknownToken}
      BY <3>1, SampleFacts
    <3> QED BY <2>1, <3>1, <3>2
  <2>3. h.error = UnknownToken
    BY <1>1, <1>3, <2>1, <2>2
  <2> QED BY <2>3, ErrorsDiffer
<1>5. h = [g EXCEPT !.text = Append(@, t)]
  BY <1>3, <1>4
<1>6. t \in CppSample(nodes, counts, w)
  <2>1. <<Last(w)>> \in nodes /\ counts[Deepest(w)][t] > 0
    BY <1>2, <1>4, SampleFacts, GoErrorsAssumption
  <2> QED BY <1>2, <1>4, <2>1, CppSampleFacts
<1>7. h \in CppContinued(nodes, counts, b, g)
  <2>1. h = IF t \in Tokens THEN [g EXCEPT !.text = Append(@, t)] ELSE [g EXCEPT !.error = t]
    BY <1>4, <1>5
  <2> QED BY <1>6, <2>1 DEF CppContinued
<1>8. h.text = Append(s, t)
  <2> DEFINE r == Append(s, t)
  <2>1. h = [g EXCEPT !.text = r]
    BY <1>5
  <2> HIDE DEF r
  <2>2. h.text = r
    BY <1>1, <2>1
  <2> QED BY <2>2 DEF r
<1> QED BY <1>4, <1>7, <1>8

(* So whatever Generate has without an error, but for the last token, it can have too. *)
LEMMA TurnsServed ==
  ASSUME GoInv, NEW p \in Contexts, <<Last(p)>> \in nodes, NEW n \in 1 .. B, NEW b \in 1 .. B,
         NEW size \in Nat, size = Len(p) + n, b < size,
         NEW f, Generated(size, b, p, size, f),
         NEW last \in Nat, last + 1 = size,
         NEW e, CppGenerated(nodes, counts, n, b, p, last, e)
  PROVE  \A i \in Len(p) .. last : \A g \in f[i] : g.error = NoError => g \in e[i]
<1> DEFINE first == Len(p)
           T == {i \in first .. last : \A g \in f[i] : g.error = NoError => g \in e[i]}
<1>1. p \in Seq(Tokens) /\ first \in Nat /\ first >= 1 /\ b \in Nat /\ n \in Nat /\ n >= 1
  BY PathFacts, BlockAssumption DEF Contexts
<1>2. first <= last /\ size = EndOf(size, b, p) /\ first <= size
  BY <1>1, LargerOf DEF EndOf
<1>3. \A i \in first .. size : \A x \in f[i] : x \in Outcomes /\ Half(size, b, p, i, x)
  BY <1>2, TurnsAnswer
<1>4. first \in T
  BY <1>1, <1>2 DEF Generated, CppGenerated
<1>5. ASSUME NEW i \in first .. last, i \in T, i # last
      PROVE  i + 1 \in T
  <2>1. i + 1 \in first .. last /\ i \in first .. size /\ i # size /\ i >= 1
    BY <1>1, <1>5
  <2>2. ASSUME NEW h \in f[i + 1], h.error = NoError
        PROVE  h \in e[i + 1]
    <3>1. PICK g \in f[i] : h \in Continued(size, b, g)
      BY <2>1 DEF Generated
    <3>2. g \in Outcomes /\ Half(size, b, p, i, g)
      BY <1>3, <2>1
    <3>3. g.error = NoError
      BY <2>2, <3>1 DEF Continued
    <3>4. Len(g.text) = i
      BY <3>2, <3>3, ErrorsDiffer DEF Half
    <3>5. h \in CppContinued(nodes, counts, b, g)
      BY <2>1, <2>2, <3>1, <3>2, <3>3, <3>4, TurnServed
    <3>6. g \in e[i]
      BY <1>5, <3>3
    <3> QED BY <1>5, <3>5, <3>6 DEF CppGenerated
  <2> QED BY <2>1, <2>2
<1> HIDE DEF T
<1>6. \A i \in first .. last : i \in T
  BY <1>1, <1>4, <1>5, Stepwise
<1> QED BY <1>6 DEF T

(* The front of a text with one more at its end is the text. *)
LEMMA FrontOfLonger ==
  ASSUME NEW s \in Seq(Tokens), NEW x
  PROVE  LET r == Append(s, x)
         IN  Front(r) = s /\ Last(r) = x /\ Len(r) = Len(s) + 1
<1> DEFINE S == Tokens \cup {x}
           r == Append(s, x)
           n == Len(s)
<1>1. s \in Seq(S) /\ x \in S
  <2>1. Tokens \subseteq S /\ x \in S
    OBVIOUS
  <2> HIDE DEF S
  <2> QED BY <2>1
<1> HIDE DEF S
<1>2. /\ r \in Seq(S) /\ Len(r) = n + 1 /\ r[n + 1] = x /\ \A j \in 1 .. n : r[j] = s[j]
      /\ n \in Nat /\ n = Len(s)
  BY <1>1
<1> HIDE DEF r, n
<1>3. SubSeq(r, 1, n) = s
  <2>1. SubSeq(r, 1, n) \in Seq(S) /\ Len(SubSeq(r, 1, n)) = n
    BY <1>2
  <2>2. \A j \in 1 .. n : SubSeq(r, 1, n)[j] = s[j]
    BY <1>2
  <2> QED BY <1>1, <1>2, <2>1, <2>2
<1>4. Len(r) - 1 = n
  BY <1>2
<1>5. Front(r) = s /\ Last(r) = x /\ Len(r) = n + 1
  BY <1>2, <1>3, <1>4 DEF Front, Last
<1> QED BY <1>5 DEF r, n

\* What CppModelServed asks of one prompt.
Served(p, n, b) ==
    LET here == CppGenerate(nodes, counts, n, b, p)
        there == Generate(Len(p) + n, b, p)
    IN  /\ \A g \in there : g.error = NoError /\ b < Len(p) + n =>
             \E h \in here : h.error = NoError /\ Front(h.text) = Front(g.text)
        /\ \A h \in here :
             \/ /\ h.error = NoError /\ Len(h.text) = Len(p) + n /\ Last(h.text) = Unset
                /\ Continues(Front(h.text), p, b, {Token0})
             \/ h.error = TooLarge /\ b >= Len(p) + n
             \/ h.error = OutOfRange /\ <<Last(h.text)>> \notin nodes

(* What it leaves of a turn without an error, when the window fits. *)
LEMMA LeftFacts ==
  ASSUME NEW n \in Nat, NEW b \in Nat, NEW p \in Seq(Tokens), b < Len(p) + n,
         NEW x \in CppOutcomes, x.error = NoError
  PROVE  LET h == CppLeft(n, b, p, x)
         IN  /\ h.error = NoError /\ Front(h.text) = x.text
             /\ Last(h.text) = Unset /\ Len(h.text) = Len(x.text) + 1
<1> DEFINE h == CppLeft(n, b, p, x)
           r == Append(x.text, Unset)
<1>1. x = [text |-> x.text, error |-> NoError] /\ x.text \in Seq(Tokens)
  BY DEF CppOutcomes
<1>2. h = [x EXCEPT !.text = r]
  BY DEF CppLeft
<1> HIDE DEF h
<1>3. Front(r) = x.text /\ Last(r) = Unset /\ Len(r) = Len(x.text) + 1
  BY <1>1, FrontOfLonger
<1> HIDE DEF r
<1>4. h.text = r /\ h.error = NoError
  BY <1>1, <1>2
<1>5. h.error = NoError /\ Front(h.text) = x.text /\ Last(h.text) = Unset /\ Len(h.text) = Len(x.text) + 1
  BY <1>3, <1>4
<1> QED BY <1>5 DEF h

(* What the server generates, the C++ program can, up to its last token. *)
LEMMA CanServe ==
  ASSUME GoInv, NEW p \in Contexts, <<Last(p)>> \in nodes, NEW n \in 1 .. B, NEW b \in 1 .. B,
         b < Len(p) + n, NEW g \in Generate(Len(p) + n, b, p), g.error = NoError
  PROVE  \E h \in CppGenerate(nodes, counts, n, b, p) :
           h.error = NoError /\ Front(h.text) = Front(g.text)
<1> DEFINE first == Len(p)
           size == first + n
           last == first + n - 1
<1>1. p \in Seq(Tokens) /\ first \in Nat /\ first >= 1 /\ b \in Nat /\ n \in Nat /\ n >= 1 /\ p # <<>>
  BY PathFacts, BlockAssumption DEF Contexts
<1>2. /\ size \in Nat /\ last \in Nat /\ last + 1 = size /\ first <= last /\ last < size
      /\ last >= 1 /\ size = first + n /\ b < size /\ last = CppEndOf(n, b, p)
  BY <1>1 DEF CppEndOf
<1> HIDE DEF size, last
<1>3. size = EndOf(size, b, p) /\ first <= size /\ g \in Generate(size, b, p)
  BY <1>1, <1>2, LargerOf DEF EndOf
<1>4. PICK f : Generated(size, b, p, size, f)
  BY <1>1, <1>2, <1>3, GenerateTurns
<1>5. PICK e : CppGenerated(nodes, counts, n, b, p, last, e)
  BY <1>1, <1>2, CppGenerateTurns
<1>6. last \in first .. last /\ last \in first .. size /\ last # size
  BY <1>1, <1>2
<1>7. PICK x \in f[last] : g \in Continued(size, b, x)
  BY <1>2, <1>3, <1>4, <1>6 DEF Generated
<1>8. x \in Outcomes /\ Half(size, b, p, last, x)
  BY <1>2, <1>3, <1>4, <1>6, TurnsAnswer
<1>9. x.error = NoError
  BY <1>7 DEF Continued
<1>10. Len(x.text) = last /\ x.text \in Seq(Tokens)
  BY <1>8, <1>9, ErrorsDiffer DEF Half
<1>11. PICK t \in Tokens : g.text = Append(x.text, t)
  BY <1>2, <1>7, <1>8, <1>9, <1>10, TurnServed
<1>12. Front(g.text) = x.text
  BY <1>10, <1>11, FrontOfLonger
<1>13. x \in e[last]
  BY <1>2, <1>4, <1>5, <1>6, <1>9, TurnsServed
<1>14. x \in CppOutcomes
  BY <1>5, <1>6, <1>13, <1>1, <1>2, CppTurnsAnswer
<1> DEFINE h == CppLeft(n, b, p, x)
<1>15. h \in CppGenerate(nodes, counts, n, b, p)
  BY <1>5, <1>13 DEF CppGenerated
<1>16. h.error = NoError /\ Front(h.text) = x.text
  BY <1>1, <1>9, <1>14, LeftFacts
<1> HIDE DEF h
<1> QED BY <1>12, <1>15, <1>16

(* What the C++ program generates itself. *)
LEMMA CppAnswers ==
  ASSUME GoInv, NEW p \in Contexts, NEW n \in 1 .. B, NEW b \in 1 .. B,
         NEW h \in CppGenerate(nodes, counts, n, b, p)
  PROVE  \/ /\ h.error = NoError /\ Len(h.text) = Len(p) + n /\ Last(h.text) = Unset
            /\ Continues(Front(h.text), p, b, {Token0})
         \/ h.error = TooLarge /\ b >= Len(p) + n
         \/ h.error = OutOfRange /\ <<Last(h.text)>> \notin nodes
<1> DEFINE last == CppEndOf(n, b, p)
<1>1. p \in Seq(Tokens) /\ Len(p) \in Nat /\ Len(p) >= 1 /\ b \in Nat /\ n \in Nat /\ n >= 1 /\ p # <<>>
  BY PathFacts, BlockAssumption DEF Contexts
<1>2. /\ last \in Nat /\ Len(p) <= last /\ last = CppEndOf(n, b, p)
      /\ b < Len(p) + n => last + 1 = Len(p) + n
  BY <1>1 DEF CppEndOf
<1> HIDE DEF last
<1>3. PICK e : CppGenerated(nodes, counts, n, b, p, last, e)
  BY <1>1, <1>2, CppGenerateTurns
<1>4. PICK x \in e[last] : h = CppLeft(n, b, p, x)
  BY <1>3 DEF CppGenerated
<1>5. last \in Len(p) .. last
  BY <1>1, <1>2
<1>6. x \in CppOutcomes /\ CppHalf(b, p, last, x)
  BY <1>1, <1>2, <1>3, <1>5, CppTurnsAnswer
<1>7. CASE x.error # NoError
  <2>1. h = x
    BY <1>4, <1>7 DEF CppLeft
  <2> QED BY <1>6, <1>7, <2>1 DEF CppHalf
<1>8. CASE x.error = NoError /\ b < Len(p) + n
  <2>1. /\ h.error = NoError /\ Front(h.text) = x.text
        /\ Last(h.text) = Unset /\ Len(h.text) = Len(x.text) + 1
    BY <1>1, <1>4, <1>6, <1>8, LeftFacts
  <2>2. Len(x.text) = last /\ Continues(x.text, p, b, {Token0})
    BY <1>6, <1>8, ErrorsDiffer DEF CppHalf
  <2> QED BY <1>2, <1>8, <2>1, <2>2
<1>9. CASE x.error = NoError /\ ~ (b < Len(p) + n)
  <2>1. h = [x EXCEPT !.error = TooLarge]
    BY <1>4, <1>9 DEF CppLeft
  <2>2. x = [text |-> x.text, error |-> x.error]
    BY <1>6 DEF CppOutcomes
  <2>3. h.error = TooLarge
    BY <2>1, <2>2
  <2> QED BY <1>1, <1>9, <2>3
<1> QED BY <1>7, <1>8, <1>9

(***************************************************************************)
(* A model of the C++ program, once loaded, has totals that are the sums   *)
(* of its counts.  All the server generates from it without an error the   *)
(* C++ program can too, up to the last token, which it leaves unset; what  *)
(* it generates besides has the token 0 where it did not follow, or ends   *)
(* in an exception: the window is too large, or a token unknown.           *)
(***************************************************************************)
THEOREM CppModelServedAlways == Spec => []CppModelServed
<1>1. GoInv => CppModelServed
  <2> SUFFICES ASSUME GoInv, trainer = "cpp"
               PROVE  /\ \A q \in nodes \ {<<>>} : total[q] = SumOver(Tokens, counts[q])
                      /\ \A p \in Contexts, n \in 1 .. B, b \in 1 .. B :
                           <<Last(p)>> \in nodes => Served(p, n, b)
    BY Zenon DEF CppModelServed, Served, NoError
  <2>1. \A q \in nodes \ {<<>>} : total[q] = SumOver(Tokens, counts[q])
    BY DEF GoInv, Totalled
  <2>2. ASSUME NEW p \in Contexts, NEW n \in 1 .. B, NEW b \in 1 .. B, <<Last(p)>> \in nodes
        PROVE  Served(p, n, b)
    <3>1. \A g \in Generate(Len(p) + n, b, p) : g.error = NoError /\ b < Len(p) + n =>
            \E h \in CppGenerate(nodes, counts, n, b, p) :
              h.error = NoError /\ Front(h.text) = Front(g.text)
      BY <2>2, CanServe
    <3>2. \A h \in CppGenerate(nodes, counts, n, b, p) :
            \/ /\ h.error = NoError /\ Len(h.text) = Len(p) + n /\ Last(h.text) = Unset
               /\ Continues(Front(h.text), p, b, {Token0})
            \/ h.error = TooLarge /\ b >= Len(p) + n
            \/ h.error = OutOfRange /\ <<Last(h.text)>> \notin nodes
      BY CppAnswers
    <3> QED BY <3>1, <3>2, Zenon DEF Served
  <2> QED BY <2>1, <2>2
<1> QED BY <1>1, GoInvAlways, PTL
=============================================================================
