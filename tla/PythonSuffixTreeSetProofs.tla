--------------------- MODULE PythonSuffixTreeSetProofs ----------------------
(***************************************************************************)
(* Theorems about PythonSuffixTreeSet.  What the trees of an object count  *)
(* is gathered from a table of observations that every call changes as it  *)
(* promises; the set's sampler counts a part of it; the depths are heights *)
(* while texts are only parsed, and never below them before a reload.      *)
(***************************************************************************)
EXTENDS PythonSuffixTreeSet, SuffixPathsProofs

-----------------------------------------------------------------------------
(* One object *)

\* The nodes below which nothing may have been observed: the set itself, and trees
\* made without a text.
Idle(n, h) == {q \in Paths : Len(q) <= IF h = "parsed" /\ n = 0 THEN 0 ELSE 1}

\* The counts C are gathered from the table O, those of the set in part.
Counted(C, O, h) ==
    \A q \in Paths : \A t \in Tokens :
      /\ C[q][t] <= Gathered(Of(O, t), q)
      /\ q # <<>> \/ h = "parsed" => C[q][t] = Gathered(Of(O, t), q)

Totalled(C, T) == \A q \in Paths : T[q] = SumOver(Tokens, C[q])

\* No depth leads beyond the end of every context below.
Reaches(N, D) == \A q \in N : \E r \in Below(N, q) : D[q] + Len(q) <= Len(r)

\* Every context below is within the depth; of the set, if anything was observed.
Covers(N, D, O) ==
    /\ \A q \in N \ {<<>>} : \A r \in Below(N, q) : Len(r) <= D[q] + Len(q)
    /\ O # Blank => \A r \in N : Len(r) <= D[<<>>]

Deep(N, D, O, h) ==
    /\ \A q \in Paths \ N : D[q] = 0
    /\ h = "parsed" => Reaches(N, D)
    /\ h # "reloaded" => Covers(N, D, O)

\* The values that the variables have for one object.
Typed(N, C, T, D, n, h) ==
    /\ N \in Trees /\ C \in [Paths -> Counts] /\ T \in [Paths -> Nat]
    /\ D \in [Paths -> 0 .. MaxDepth] /\ n \in Nat /\ h \in Histories

\* The object has observed what the table O says.
Knows(N, C, T, D, n, h, O) ==
    /\ Typed(N, C, T, D, n, h)
    /\ O \in Tables(N, Idle(n, h))
    /\ Counted(C, O, h) /\ Totalled(C, T) /\ Deep(N, D, O, h)

(* What a table says is in the counts of all nodes but the set. *)
LEMMA OwnIsKnown ==
  ASSUME NEW N \in Trees, NEW E, NEW O \in Tables(N, E), NEW C, NEW h, Counted(C, O, h)
  PROVE  OwnPart(N, C) = Mirror(O)
<1> DEFINE G == Gatherings(O)
           own(A, p, t) == A[p][t] - SumOver(Children(N, p), [r \in Children(N, p) |-> A[r][t]])
<1>1. \A q \in Contexts : \A t \in Tokens : C[q][t] = G[q][t]
  BY DEF Counted, Gatherings, Contexts
<1>2. \A p \in Contexts : \A r \in Children(N, p) : r \in Contexts
  BY DEF Children, Contexts, Trees
<1> HIDE DEF G
<1>3. ASSUME NEW p \in Contexts, NEW t \in Tokens
      PROVE  own(C, p, t) = own(G, p, t)
  <2> DEFINE kids == Children(N, p)
  <2>1. \A r \in kids : C[r][t] = G[r][t]
    BY <1>1, <1>2
  <2> HIDE DEF kids
  <2>2. [r \in kids |-> C[r][t]] = [r \in kids |-> G[r][t]]
    BY <2>1
  <2> QED BY <1>1, <2>2 DEF kids
<1>4. /\ OwnPart(N, C) = [p \in Contexts |-> [t \in Tokens |-> own(C, p, t)]]
      /\ OwnPart(N, G) = [p \in Contexts |-> [t \in Tokens |-> own(G, p, t)]]
  BY DEF OwnPart
<1> HIDE DEF own
<1>5. OwnPart(N, C) = OwnPart(N, G)
  BY <1>3, <1>4
<1>6. OwnPart(N, G) = Mirror(O)
  BY OwnIsMirror DEF G
<1> QED BY <1>5, <1>6

(* Outside the trees nothing is gathered. *)
LEMMA NothingOutside ==
  ASSUME NEW N \in Trees, NEW E, NEW O \in Tables(N, E), NEW q \in Paths, NEW t \in Tokens
  PROVE  /\ Of(O, t) \in [Paths -> Nat] /\ Gathered(Of(O, t), q) \in Nat
         /\ q \notin N => Gathered(Of(O, t), q) = 0
         /\ q \in N \ E => \E u \in Tokens : Gathered(Of(O, u), q) > 0
<1>1. Of(O, t) \in [Paths -> Nat]
  BY OfFacts
<1>2. Gathered(Of(O, t), q) \in Nat
  BY <1>1, GatheredType
<1>3. ASSUME q \notin N
      PROVE  Gathered(Of(O, t), q) = 0
  <2>1. Gatherings(O)[q] = NoCounts /\ q # <<>>
    BY <1>3, GatheringsFacts DEF Trees, Whole
  <2>2. Gatherings(O)[q][t] = Gathered(Of(O, t), q)
    BY <2>1 DEF Gatherings
  <2> QED BY <2>1, <2>2 DEF NoCounts
<1>4. ASSUME q \in N \ E
      PROVE  \E u \in Tokens : Gathered(Of(O, u), q) > 0
  <2>1. PICK r \in Below(N, q) : \E u \in Tokens : O[r][u] > 0
    BY <1>4 DEF Tables
  <2>2. PICK u \in Tokens : O[r][u] > 0
    BY <2>1
  <2>3. r \in Below(Paths, q) /\ r \in Paths
    BY DEF Below, Trees
  <2>4. Of(O, u) \in [Paths -> Nat] /\ Of(O, u)[r] > 0
    BY <2>2, <2>3, OfFacts
  <2> QED BY <2>3, <2>4, GatheredType
<1> QED BY <1>1, <1>2, <1>3, <1>4

(* A table holds for more nodes, as long as they may be empty. *)
LEMMA WiderTable ==
  ASSUME NEW N, NEW E, NEW O \in Tables(N, E), NEW M, N \subseteq M, NEW F,
         E \cap N \subseteq F, M \ N \subseteq F
  PROVE  O \in Tables(M, F)
<1>1. ASSUME NEW q \in M \ F
      PROVE  \E r \in Below(M, q) : \E t \in Tokens : O[r][t] > 0
  <2>1. q \in N \ E
    OBVIOUS
  <2>2. PICK r \in Below(N, q) : \E t \in Tokens : O[r][t] > 0
    BY <2>1 DEF Tables
  <2> QED BY <2>2 DEF Below
<1>2. O \in [Paths -> Counts] /\ O[<<>>] = NoCounts /\ \A q \in Paths \ M : O[q] = NoCounts
  BY DEF Tables
<1> QED BY <1>1, <1>2 DEF Tables

-----------------------------------------------------------------------------
(* Making trees *)

(* Short paths: the set itself, and the tree of a token. *)
LEMMA ShortPaths ==
  /\ <<>> \in Paths /\ Len(<<>>) = 0
  /\ \A t \in Tokens : <<t>> \in Paths /\ Len(<<t>>) = 1 /\ Suffixes(<<t>>) = {<<>>, <<t>>}
<1> SUFFICES ASSUME NEW t \in Tokens
             PROVE  <<t>> \in Paths /\ Len(<<t>>) = 1 /\ Suffixes(<<t>>) = {<<>>, <<t>>}
  BY RootIsPath
<1>1. <<t>> \in Seq(Tokens) /\ Len(<<t>>) = 1
  OBVIOUS
<1>2. <<t>> \in Paths
  <2>1. 1 <= B
    BY BlockAssumption, PythonAssumption
  <2> QED BY <1>1, <2>1, PathFacts
<1>3. ASSUME NEW q \in Suffixes(<<t>>)
      PROVE  q = <<>> \/ q = <<t>>
  <2>1. q \in Seq(Tokens) /\ Len(q) <= 1 /\ q = SubSeq(<<t>>, (1 - Len(q)) + 1, 1)
    BY <1>1, SuffixByLength
  <2>2. CASE Len(q) = 0
    BY <2>1, <2>2
  <2>3. CASE Len(q) = 1
    <3>1. q = SubSeq(<<t>>, 1, 1)
      BY <2>1, <2>3
    <3>2. SubSeq(<<t>>, 1, Len(<<t>>)) = <<t>>
      BY <1>1, SubSeqFull
    <3> QED BY <1>1, <3>1, <3>2
  <2> QED BY <2>1, <2>2, <2>3
<1>4. <<t>> \in Suffixes(<<t>>) /\ <<>> \in Suffixes(<<t>>)
  BY <1>1, <1>2, OwnSuffix, SuffixesArePaths
<1> QED BY <1>1, <1>2, <1>3, <1>4

(* The constructor's trees go with any others, and may be empty. *)
LEMMA MadeTrees ==
  ASSUME NEW N \in Trees, NEW n \in Nat
  PROVE  /\ Made(n) \in Trees /\ Made(n) \cup N \in Trees
         /\ \A q \in Made(n) : q \in Paths /\ Len(q) <= 1
         /\ Made(0) = {<<>>}
<1>1. \A q \in Made(n) : q \in Paths /\ Len(q) <= 1 /\ Suffixes(q) \subseteq Made(n)
  <2>1. Suffixes(<<>>) = {<<>>}
    BY RootIsWhole, SuffixesArePaths, RootIsPath DEF Whole
  <2>2. ASSUME NEW t \in Tokens, <<t>> \in Made(n)
        PROVE  Suffixes(<<t>>) \subseteq Made(n)
    BY <2>2, ShortPaths DEF Made
  <2>3. \A q \in Made(n) : q = <<>> \/ \E t \in Tokens : q = <<t>>
    BY DEF Made
  <2>4. <<>> \in Made(n)
    BY DEF Made
  <2> SUFFICES ASSUME NEW q \in Made(n)
               PROVE  q \in Paths /\ Len(q) <= 1 /\ Suffixes(q) \subseteq Made(n)
    OBVIOUS
  <2>5. CASE q = <<>>
    BY <2>1, <2>4, <2>5, ShortPaths
  <2>6. ASSUME NEW t \in Tokens, q = <<t>>
        PROVE  q \in Paths /\ Len(q) <= 1 /\ Suffixes(q) \subseteq Made(n)
    BY <2>2, <2>6, ShortPaths
  <2> QED BY <2>3, <2>5, <2>6
<1>2. <<>> \in Made(n)
  BY DEF Made
<1>3. Made(0) = {<<>>}
  BY PythonAssumption DEF Made
<1> QED BY <1>1, <1>2, <1>3 DEF Trees, Whole

(* A new object knows nothing. *)
LEMMA NewKnows ==
  ASSUME NEW n \in Nat
  PROVE  Knows(Made(n), NoneCounted, Zeros, Zeros, n, "parsed", Blank)
<1> DEFINE N == Made(n)
<1>1. N \in Trees /\ \A q \in N : q \in Paths /\ Len(q) <= 1
  <2>1. {<<>>} \in Trees
    BY RootIsWhole, RootIsPath DEF Trees
  <2> QED BY <2>1, MadeTrees
<1>2. N \subseteq Idle(n, "parsed")
  <2>1. CASE n = 0
    <3>1. N = {<<>>}
      BY <1>1, <2>1, MadeTrees
    <3> QED BY <2>1, <3>1, ShortPaths DEF Idle
  <2>2. CASE n # 0
    BY <1>1, <2>2 DEF Idle
  <2> QED BY <2>1, <2>2
<1> HIDE DEF N
<1>3. Blank \in Tables(N, Idle(n, "parsed"))
  BY <1>2, BlankTable
<1>4. Counted(NoneCounted, Blank, "parsed")
  <2>1. \A q : \A t \in Tokens : Gathered(Of(Blank, t), q) = 0
    BY <1>2, BlankTable
  <2>2. \A q \in Paths : \A t \in Tokens : NoneCounted[q][t] = 0
    BY DEF NoneCounted, NoCounts
  <2> QED BY <2>1, <2>2 DEF Counted
<1>5. Totalled(NoneCounted, Zeros)
  <2>1. \A q \in Paths : NoneCounted[q] = NoCounts /\ Zeros[q] = 0
    BY DEF NoneCounted, Zeros
  <2>2. SumOver(Tokens, NoCounts) = 0
    BY SumZero DEF NoCounts
  <2> QED BY <2>1, <2>2 DEF Totalled
<1>6. Deep(N, Zeros, Blank, "parsed")
  <2>1. \A q \in Paths : Zeros[q] = 0
    BY DEF Zeros
  <2>2. ASSUME NEW q \in N
        PROVE  q \in Below(N, q) /\ Len(q) \in Nat /\ Zeros[q] = 0
    BY <1>1, <2>1, OwnBelow, PathFacts DEF Trees
  <2>3. Reaches(N, Zeros)
    BY <2>2 DEF Reaches
  <2>4. ASSUME NEW q \in N \ {<<>>}, NEW r \in Below(N, q)
        PROVE  Len(r) <= Zeros[q] + Len(q)
    <3>1. r \in N /\ Len(r) \in Nat /\ Len(q) \in Nat /\ q \in Seq(Tokens)
      BY <1>1, BelowFacts DEF Trees
    <3>2. Len(r) <= 1 /\ Len(q) >= 1 /\ Zeros[q] = 0
      BY <1>1, <2>2, <3>1
    <3> QED BY <3>1, <3>2
  <2> QED BY <1>1, <2>1, <2>3, <2>4 DEF Deep, Covers
<1>7. Typed(N, NoneCounted, Zeros, Zeros, n, "parsed")
  BY <1>1, PythonAssumption
  DEF Typed, NoneCounted, Zeros, NoCounts, Counts, Histories
<1> QED BY <1>3, <1>4, <1>5, <1>6, <1>7 DEF Knows, N

-----------------------------------------------------------------------------
(* Observing *)

(* What two tables gather together. *)
LEMMA GatheredTogether ==
  ASSUME NEW O \in [Paths -> Counts], NEW W \in [Paths -> Counts], NEW q, NEW t \in Tokens
  PROVE  /\ Gathered(Of(O, t), q) \in Nat /\ Gathered(Of(W, t), q) \in Nat
         /\ Gathered(Of(Together(O, W), t), q) = Gathered(Of(O, t), q) + Gathered(Of(W, t), q)
<1>1. Of(O, t) \in [Paths -> Nat] /\ Of(W, t) \in [Paths -> Nat]
  BY DEF Of, Counts
<1>2. \A r \in Paths : Of(Together(O, W), t)[r] = Of(O, t)[r] + Of(W, t)[r]
  BY DEF Of, Together
<1> QED BY <1>1, <1>2, GatheredType, GatheredPlus

(* Every node of the way counts the successor, and its total with it. *)
LEMMA CountsLearned ==
  ASSUME NEW C \in [Paths -> Counts], NEW T \in [Paths -> Nat], NEW h,
         NEW O \in [Paths -> Counts], Counted(C, O, h), Totalled(C, T),
         NEW told, Patterned(told)
  PROVE  /\ Added(C, told) \in [Paths -> Counts] /\ AddedTotals(C, T, told) \in [Paths -> Nat]
         /\ Counted(Added(C, told), Together(O, TableOf(told)), h)
         /\ Totalled(Added(C, told), AddedTotals(C, T, told))
<1> DEFINE W == TableOf(told)
           more(q, t) == Cardinality({x \in told : x.next = t /\ q \in Suffixes(x.prefix)})
           all(q) == Cardinality({x \in told : q \in Suffixes(x.prefix)})
<1>1. W \in [Paths -> Counts]
  BY PatternsTable DEF Tables
<1>2. ASSUME NEW q \in Paths, NEW t \in Tokens
      PROVE  /\ C[q][t] \in Nat /\ more(q, t) \in Nat
             /\ more(q, t) = Gathered(Of(W, t), q)
             /\ Added(C, told)[q][t] = C[q][t] + more(q, t)
  <2>1. more(q, t) = Gathered(Of(W, t), q)
    BY PatternsGather, OfTable
  <2>2. Gathered(Of(W, t), q) \in Nat
    BY <1>1, GatheredTogether
  <2> QED BY <2>1, <2>2 DEF Added, Counts
<1>3. ASSUME NEW q \in Paths
      PROVE  /\ all(q) \in Nat /\ T[q] \in Nat
             /\ AddedTotals(C, T, told)[q] = T[q] + all(q)
             /\ T[q] + all(q) = SumOver(Tokens, Added(C, told)[q])
  <2> DEFINE f == C[q]
             g == [t \in Tokens |-> more(q, t)]
             k == Added(C, told)[q]
  <2>1. \A t \in Tokens : f[t] \in Nat /\ g[t] \in Nat /\ k[t] = f[t] + g[t]
    BY <1>2
  <2>2. \A t \in Tokens : g[t] = Gathered(Exactly(told, t), q)
    BY <1>2, OfTable
  <2>3. T[q] = SumOver(Tokens, f)
    BY DEF Totalled
  <2> HIDE DEF f, g, k
  <2>4. SumOver(Tokens, k) = SumOver(Tokens, f) + SumOver(Tokens, g)
    BY <2>1, TokensAssumption, SumPlus
  <2>5. all(q) = SumOver(Tokens, g)
    BY <2>2, PatternsTotal
  <2>6. SumOver(Tokens, g) \in Nat
    BY <2>1, TokensAssumption, SumType
  <2>7. AddedTotals(C, T, told)[q] = T[q] + all(q)
    BY DEF AddedTotals
  <2> HIDE DEF all
  <2> QED BY <2>3, <2>4, <2>5, <2>6, <2>7 DEF k
<1>4. Counted(Added(C, told), Together(O, W), h)
  <2> SUFFICES ASSUME NEW q \in Paths, NEW t \in Tokens
               PROVE  /\ Added(C, told)[q][t] <= Gathered(Of(Together(O, W), t), q)
                      /\ q # <<>> \/ h = "parsed" =>
                           Added(C, told)[q][t] = Gathered(Of(Together(O, W), t), q)
    BY Zenon DEF Counted
  <2> HIDE DEF W, more
  <2>1. /\ Gathered(Of(O, t), q) \in Nat /\ Gathered(Of(W, t), q) \in Nat
        /\ Gathered(Of(Together(O, W), t), q) = Gathered(Of(O, t), q) + Gathered(Of(W, t), q)
    BY <1>1, GatheredTogether
  <2>2. /\ C[q][t] <= Gathered(Of(O, t), q)
        /\ q # <<>> \/ h = "parsed" => C[q][t] = Gathered(Of(O, t), q)
    BY DEF Counted
  <2> QED BY <1>2, <2>1, <2>2
<1>5. Added(C, told) \in [Paths -> Counts]
  <2>1. Added(C, told) = [q \in Paths |-> [t \in Tokens |-> Added(C, told)[q][t]]]
    BY DEF Added
  <2> HIDE DEF more
  <2>2. \A q \in Paths : \A t \in Tokens : Added(C, told)[q][t] \in Nat
    BY <1>2
  <2> QED BY <2>1, <2>2 DEF Counts
<1>6. AddedTotals(C, T, told) \in [Paths -> Nat]
  <2>1. AddedTotals(C, T, told) = [q \in Paths |-> AddedTotals(C, T, told)[q]]
    BY DEF AddedTotals
  <2> HIDE DEF all
  <2> QED BY <1>3, <2>1
<1>7. Totalled(Added(C, told), AddedTotals(C, T, told))
  BY <1>3 DEF Totalled
<1> QED BY <1>4, <1>5, <1>6, <1>7

(* A depth is the largest of its old value and the ways to what was touched below. *)
LEMMA RaisedIs ==
  ASSUME NEW D \in [Paths -> 0 .. MaxDepth], NEW told, Patterned(told), NEW q \in Paths
  PROVE  /\ Raised(D, told)[q] \in Nat /\ D[q] <= Raised(D, told)[q]
         /\ \A r \in Below(Touched(told), q) :
              /\ D[r] \in Nat /\ Len(r) \in Nat /\ Len(q) \in Nat
              /\ D[r] + Len(r) <= Raised(D, told)[q] + Len(q)
         /\ \/ Raised(D, told)[q] = D[q]
            \/ \E r \in Below(Touched(told), q) :
                 Raised(D, told)[q] + Len(q) = D[r] + Len(r)
<1> DEFINE on == Touched(told)
           ways == {D[q]} \cup {D[r] + Len(r) - Len(q) : r \in Below(on, q)}
           R == Raised(D, told)[q]
<1>1. R = Max(ways)
  BY DEF Raised, Touched
<1>2. ASSUME NEW r \in Below(on, q)
      PROVE  /\ D[r] \in Nat /\ Len(r) \in Nat /\ Len(q) \in Nat
             /\ Len(q) <= Len(r) /\ Len(r) <= B /\ D[r] <= MaxDepth
  <2>1. r \in Paths /\ q \in Suffixes(r)
    BY TouchedIsClosed DEF Below, Patterned, Contexts
  <2>2. r \in Seq(Tokens) /\ Len(r) <= B
    BY <2>1, PathFacts
  <2>3. q \in Seq(Tokens) /\ Len(q) <= Len(r)
    BY <2>1, <2>2, SuffixFacts
  <2> QED BY <2>1, <2>2, <2>3, PythonAssumption
<1>3. D[q] \in Nat /\ D[q] <= MaxDepth /\ MaxDepth \in Nat /\ B \in Nat
  BY PythonAssumption, BlockAssumption
<1>4. \A x \in ways : x \in Nat /\ x <= MaxDepth + B
  <2>1. ASSUME NEW r \in Below(on, q)
        PROVE  D[r] + Len(r) - Len(q) \in Nat /\ D[r] + Len(r) - Len(q) <= MaxDepth + B
    BY <1>2, <1>3
  <2> QED BY <1>3, <2>1
<1>5. D[q] \in ways /\ \A r \in Below(on, q) : D[r] + Len(r) - Len(q) \in ways
  OBVIOUS
<1>6. \A x \in ways : x = D[q] \/ \E r \in Below(on, q) : x = D[r] + Len(r) - Len(q)
  OBVIOUS
<1> HIDE DEF ways, on, R
<1>7. R \in ways /\ \A x \in ways : x <= R
  <2>1. ways \subseteq Nat /\ ways # {} /\ MaxDepth + B \in Nat
    BY <1>3, <1>4, <1>5
  <2> QED BY <1>1, <1>4, <2>1, Greatest
<1>8. R \in Nat
  BY <1>4, <1>7
<1>9. ASSUME NEW r \in Below(on, q)
      PROVE  D[r] + Len(r) <= R + Len(q)
  <2>1. D[r] + Len(r) - Len(q) <= R
    BY <1>5, <1>7
  <2> QED BY <1>2, <1>8, <2>1
<1>10. R = D[q] \/ \E r \in Below(on, q) : R + Len(q) = D[r] + Len(r)
  <2>1. CASE R = D[q]
    BY <2>1
  <2>2. ASSUME NEW r \in Below(on, q), R = D[r] + Len(r) - Len(q)
        PROVE  R + Len(q) = D[r] + Len(r)
    BY <1>2, <1>8, <2>2
  <2> QED BY <1>6, <1>7, <2>1, <2>2
<1> QED BY <1>2, <1>5, <1>7, <1>8, <1>9, <1>10 DEF on, R

(* While nothing was observed the trees are short. *)
LEMMA BlankIsShort ==
  ASSUME NEW N \in Trees, NEW n, NEW h, Blank \in Tables(N, Idle(n, h)), NEW q \in N
  PROVE  q \in Paths /\ Len(q) \in Nat /\ Len(q) <= 1
<1>1. q \in Idle(n, h)
  <2>1. ASSUME q \notin Idle(n, h)
        PROVE  FALSE
    <3>1. PICK r \in Below(N, q) : \E t \in Tokens : Blank[r][t] > 0
      BY <2>1 DEF Tables
    <3>2. PICK t \in Tokens : Blank[r][t] > 0
      BY <3>1
    <3>3. r \in Paths
      BY DEF Below, Trees
    <3> QED BY <3>2, <3>3 DEF Blank, NoCounts
  <2> QED BY <2>1
<1> QED BY <1>1, PathFacts DEF Idle

(* The depths rise to the heights of what was parsed, and no further. *)
LEMMA DepthsLearned ==
  ASSUME NEW N \in Trees, NEW D \in [Paths -> 0 .. MaxDepth], NEW n, NEW h,
         NEW O \in Tables(N, Idle(n, h)), Deep(N, D, O, h),
         NEW told, Patterned(told), told # {},
         \A q \in Paths : Raised(D, told)[q] <= MaxDepth,
         NEW A
  PROVE  /\ Raised(D, told) \in [Paths -> 0 .. MaxDepth]
         /\ Deep(N \cup Touched(told), Raised(D, told), A, h)
<1> DEFINE on == Touched(told)
           M == N \cup on
           R == Raised(D, told)
<1>1. /\ Whole(N) /\ N \subseteq Paths /\ on \subseteq Paths /\ Whole(M) /\ Whole(on)
      /\ <<>> \in on
  <2>1. \A x \in told : x.prefix \in Contexts /\ x.prefix \in Paths
    BY DEF Patterned, Contexts
  <2>2. Whole(on)
    BY <2>1, TouchedIsWhole
  <2>3. Whole(N)
    BY DEF Trees
  <2>4. Whole(M)
    BY <2>1, <2>3, TouchedIsClosed, GrownIsWhole
  <2> QED BY <2>2, <2>3, <2>4 DEF Whole
<1>2. \A q \in Paths :
        /\ R[q] \in Nat /\ D[q] \in Nat /\ D[q] <= R[q] /\ Len(q) \in Nat
        /\ \A r \in Below(on, q) : /\ D[r] \in Nat /\ Len(r) \in Nat /\ Len(q) \in Nat
                                   /\ D[r] + Len(r) <= R[q] + Len(q)
        /\ R[q] = D[q] \/ \E r \in Below(on, q) : R[q] + Len(q) = D[r] + Len(r)
  <2>1. \A q \in Paths : D[q] \in Nat
    BY PythonAssumption
  <2> SUFFICES ASSUME NEW q \in Paths
               PROVE  /\ R[q] \in Nat /\ D[q] <= R[q] /\ Len(q) \in Nat
                      /\ \A r \in Below(on, q) :
                           /\ D[r] \in Nat /\ Len(r) \in Nat /\ Len(q) \in Nat
                           /\ D[r] + Len(r) <= R[q] + Len(q)
                      /\ \/ R[q] = D[q]
                         \/ \E r \in Below(on, q) : R[q] + Len(q) = D[r] + Len(r)
    BY <2>1
  <2>2. Len(q) \in Nat
    BY PathFacts
  <2> QED BY <2>2, RaisedIs
<1>3. R \in [Paths -> 0 .. MaxDepth]
  <2>1. \A q \in Paths : R[q] \in 0 .. MaxDepth
    BY <1>2, PythonAssumption
  <2>2. R = [q \in Paths |-> R[q]]
    BY DEF Raised
  <2> HIDE DEF R
  <2> QED BY <2>1, <2>2
<1> HIDE DEF on, R
<1>4. ASSUME NEW q \in Paths \ M
      PROVE  R[q] = 0
  <2>1. D[q] = 0
    BY DEF Deep
  <2>2. Below(on, q) = {}
    BY <1>1 DEF Below, Whole
  <2> QED BY <1>2, <2>1, <2>2
<1>5. ASSUME h = "parsed"
      PROVE  Reaches(M, R)
  <2>1. ASSUME NEW r \in M
        PROVE  \E z \in Below(M, r) : D[r] + Len(r) <= Len(z)
    <3>1. CASE r \in N
      <4>1. PICK z \in Below(N, r) : D[r] + Len(r) <= Len(z)
        BY <1>5, <3>1 DEF Deep, Reaches
      <4> QED BY <4>1 DEF Below
    <3>2. CASE r \notin N
      <4>1. D[r] = 0 /\ r \in Paths /\ Len(r) \in Nat
        BY <1>1, <1>2, <3>2 DEF Deep
      <4>2. r \in Below(M, r)
        BY <1>1, OwnBelow
      <4> QED BY <4>1, <4>2
    <3> QED BY <3>1, <3>2
  <2> SUFFICES ASSUME NEW q \in M
               PROVE  \E z \in Below(M, q) : R[q] + Len(q) <= Len(z)
    BY DEF Reaches
  <2>2. q \in Paths
    BY <1>1
  <2>3. CASE R[q] = D[q]
    BY <2>1, <2>3
  <2>4. ASSUME NEW r \in Below(on, q), R[q] + Len(q) = D[r] + Len(r)
        PROVE  \E z \in Below(M, q) : R[q] + Len(q) <= Len(z)
    <3>1. r \in M /\ q \in Suffixes(r)
      BY DEF Below
    <3>2. PICK z \in Below(M, r) : D[r] + Len(r) <= Len(z)
      BY <2>1, <3>1
    <3>3. z \in M /\ r \in Suffixes(z) /\ z \in Seq(Tokens)
      BY <1>1, BelowFacts, <3>2
    <3>4. q \in Suffixes(z)
      BY <3>1, <3>3, SuffixOfSuffix
    <3> QED BY <2>4, <3>2, <3>3, <3>4 DEF Below
  <2> QED BY <1>2, <2>2, <2>3, <2>4
<1>6. ASSUME NEW q \in Paths, NEW r \in Below(on, q)
      PROVE  Len(r) <= R[q] + Len(q)
  <2>1. /\ D[r] \in Nat /\ Len(r) \in Nat /\ Len(q) \in Nat /\ R[q] \in Nat
        /\ D[r] + Len(r) <= R[q] + Len(q)
    BY <1>2
  <2> QED BY <2>1
<1>7. ASSUME h # "reloaded"
      PROVE  Covers(M, R, A)
  <2>1. Covers(N, D, O)
    BY <1>7 DEF Deep
  <2>2. ASSUME NEW q \in M \ {<<>>}, NEW r \in Below(M, q)
        PROVE  Len(r) <= R[q] + Len(q)
    <3>1. q \in Paths /\ r \in M /\ q \in Suffixes(r) /\ r \in Paths
      BY <1>1 DEF Below
    <3>2. CASE r \in on
      BY <1>6, <3>1, <3>2 DEF Below
    <3>3. CASE r \in N
      <4>1. q \in N /\ r \in Below(N, q)
        BY <1>1, <3>1, <3>3 DEF Below, Whole
      <4>2. Len(r) <= D[q] + Len(q)
        BY <2>1, <4>1 DEF Covers
      <4>3. D[q] \in Nat /\ R[q] \in Nat /\ D[q] <= R[q] /\ Len(q) \in Nat /\ Len(r) \in Nat
        BY <1>2, <3>1
      <4> QED BY <4>2, <4>3
    <3> QED BY <3>1, <3>2, <3>3
  <2>3. ASSUME NEW r \in M
        PROVE  Len(r) <= R[<<>>]
    <3>1. /\ <<>> \in Paths /\ Len(<<>>) = 0 /\ r \in Paths /\ Len(r) \in Nat
          /\ D[<<>>] \in Nat /\ R[<<>>] \in Nat /\ D[<<>>] <= R[<<>>]
      BY <1>1, <1>2, RootIsPath
    <3>2. \A z \in on : Len(z) <= R[<<>>]
      <4> SUFFICES ASSUME NEW z \in on
                   PROVE  Len(z) <= R[<<>>]
        OBVIOUS
      <4>1. <<>> \in Suffixes(z) /\ z \in Paths /\ Len(z) \in Nat
        BY <1>1, <1>2, SuffixesArePaths
      <4>2. z \in Below(on, <<>>)
        BY <4>1 DEF Below
      <4>3. Len(z) <= R[<<>>] + Len(<<>>)
        BY <1>6, <3>1, <4>2
      <4> QED BY <3>1, <4>3
    <3>3. CASE r \in on
      BY <3>2, <3>3
    <3>4. CASE r \in N /\ O # Blank
      <4>1. Len(r) <= D[<<>>]
        BY <2>1, <3>4 DEF Covers
      <4> QED BY <3>1, <4>1
    <3>5. CASE r \in N /\ O = Blank
      <4>1. Len(r) <= 1
        BY <3>5, BlankIsShort
      <4>2. PICK x \in told : TRUE
        OBVIOUS
      <4>3. x.prefix \in Contexts /\ x.prefix \in Paths
        BY DEF Patterned, Contexts
      <4>4. x.prefix \in on
        BY <4>3, PathFacts, OwnSuffix DEF on, Touched
      <4>5. Len(x.prefix) \in Nat /\ Len(x.prefix) >= 1
        BY <4>3, PathFacts DEF Contexts
      <4> QED BY <3>1, <3>2, <4>1, <4>4, <4>5
    <3> QED BY <3>3, <3>4, <3>5
  <2> QED BY <2>2, <2>3 DEF Covers
<1> QED BY <1>3, <1>4, <1>5, <1>7 DEF Deep, on, R

(* Observing patterns adds them to the table. *)
LEMMA ObserveKnows ==
  ASSUME NEW N, NEW C, NEW T, NEW D, NEW n, NEW h, NEW O, Knows(N, C, T, D, n, h, O),
         NEW told, Patterned(told), told # {},
         \A q \in Paths : Raised(D, told)[q] <= MaxDepth
  PROVE  Knows(N \cup Touched(told), Added(C, told), AddedTotals(C, T, told),
               Raised(D, told), n, h, Together(O, TableOf(told)))
<1> DEFINE W == TableOf(told)
           A == Together(O, W)
           M == {<<>>} \cup Touched(told)
           E == Idle(n, h)
<1>1. /\ N \in Trees /\ C \in [Paths -> Counts] /\ T \in [Paths -> Nat]
      /\ D \in [Paths -> 0 .. MaxDepth] /\ n \in Nat /\ h \in Histories
      /\ O \in Tables(N, E) /\ Counted(C, O, h) /\ Totalled(C, T) /\ Deep(N, D, O, h)
  BY DEF Knows, Typed
<1>2. O \in [Paths -> Counts]
  BY <1>1 DEF Tables
<1>3. /\ Added(C, told) \in [Paths -> Counts] /\ AddedTotals(C, T, told) \in [Paths -> Nat]
      /\ Counted(Added(C, told), A, h)
      /\ Totalled(Added(C, told), AddedTotals(C, T, told))
  BY <1>1, <1>2, CountsLearned
<1>4. /\ Raised(D, told) \in [Paths -> 0 .. MaxDepth]
      /\ Deep(N \cup Touched(told), Raised(D, told), A, h)
  BY <1>1, DepthsLearned
<1>5. N \cup Touched(told) \in Trees
  BY <1>1, PatternsTree
<1>6. A \in Tables(N \cup Touched(told), E)
  <2>1. M \in Trees /\ W \in Tables(M, {<<>>})
    BY PatternsTable, PatternsTree, RootIsWhole, RootIsPath DEF Trees
  <2>2. N \cup M = N \cup Touched(told)
    BY <1>1 DEF Trees, Whole
  <2>3. <<>> \in E
    BY ShortPaths DEF Idle
  <2>4. E \cup {<<>>} = E
    BY <2>3
  <2> HIDE DEF M, W, E
  <2>5. A \in Tables(N \cup M, E \cup {<<>>})
    BY <1>1, <2>1, TogetherTables
  <2> QED BY <2>2, <2>4, <2>5
<1> HIDE DEF A
<1> QED BY <1>1, <1>3, <1>4, <1>5, <1>6 DEF Knows, Typed, A

-----------------------------------------------------------------------------
(* Merging *)

(* An object whose trees know something has observed something. *)
LEMMA WorthObserved ==
  ASSUME NEW x, Worth(x), NEW W,
         Knows(nodes[x], counts[x], total[x], depth[x], size[x], history[x], W)
  PROVE  /\ W # Blank
         /\ \E r \in nodes[x] : Len(r) = 1
<1> DEFINE N == nodes[x]
           kids == Children(N, <<>>)
           T == total[x]
<1>1. /\ Whole(N) /\ N \in Trees /\ T \in [Paths -> Nat] /\ counts[x] \in [Paths -> Counts]
      /\ Counted(counts[x], W, history[x]) /\ Totalled(counts[x], T)
      /\ W \in Tables(N, Idle(size[x], history[x]))
  BY DEF Knows, Typed, Trees
<1>2. IsFiniteSet(kids) /\ kids \subseteq Paths
  BY <1>1, TreeFinite
<1>3. SumOver(kids, T) > 0
  BY DEF Worth, Mass
<1> HIDE DEF T
<1>4. PICK r \in kids : T[r] > 0
  <2> HIDE DEF kids
  <2> QED BY <1>1, <1>2, <1>3, SumPositive
<1>5. r \in Paths /\ r # <<>> /\ r \in N /\ Tail(r) = <<>>
  BY <1>2 DEF Children
<1>6. Len(r) = 1
  <2>1. r \in Seq(Tokens) /\ Len(Tail(r)) = 0
    BY <1>5, PathFacts
  <2>2. Len(Tail(r)) = Len(r) - 1
    BY <1>5, <2>1, HeadTailProperties
  <2>3. Len(r) \in Nat
    BY <2>1
  <2> QED BY <2>1, <2>2, <2>3
<1>7. PICK t \in Tokens : counts[x][r][t] > 0
  <2> DEFINE f == counts[x][r]
  <2>1. \A t \in Tokens : f[t] \in Nat
    BY <1>1, <1>5 DEF Counts
  <2>2. SumOver(Tokens, f) > 0
    BY <1>1, <1>4, <1>5 DEF Totalled
  <2> HIDE DEF f
  <2>3. \E t \in Tokens : f[t] > 0
    BY <2>1, <2>2, TokensAssumption, SumPositive
  <2> QED BY <2>3 DEF f
<1>8. Gathered(Of(W, t), r) > 0
  BY <1>1, <1>5, <1>7 DEF Counted
<1>9. Gathered(Of(Blank, t), r) = 0
  <2>1. {} \subseteq {}
    OBVIOUS
  <2> QED BY <2>1, BlankTable
<1> QED BY <1>5, <1>6, <1>8, <1>9

(* A merge adds up the counts, those of the set apart. *)
LEMMA CountsMerged ==
  ASSUME NEW o, NEW x, NEW O, NEW W,
         Knows(nodes[o], counts[o], total[o], depth[o], size[o], history[o], O),
         Knows(nodes[x], counts[x], total[x], depth[x], size[x], history[x], W),
         NEW h, h # "parsed"
  PROVE  /\ MergedCounts(o, x) \in [Paths -> Counts] /\ MergedTotals(o, x) \in [Paths -> Nat]
         /\ Counted(MergedCounts(o, x), Together(O, W), h)
         /\ Totalled(MergedCounts(o, x), MergedTotals(o, x))
<1> DEFINE C == counts[o]
           A == counts[x]
           P == MergedCounts(o, x)
           Q == MergedTotals(o, x)
<1>1. /\ C \in [Paths -> Counts] /\ A \in [Paths -> Counts]
      /\ total[o] \in [Paths -> Nat] /\ total[x] \in [Paths -> Nat]
      /\ Counted(C, O, history[o]) /\ Counted(A, W, history[x])
      /\ Totalled(C, total[o]) /\ Totalled(A, total[x])
      /\ O \in [Paths -> Counts] /\ W \in [Paths -> Counts]
  BY DEF Knows, Typed, Tables
<1>2. ASSUME NEW q \in Paths, NEW t \in Tokens
      PROVE  /\ C[q][t] \in Nat /\ A[q][t] \in Nat
             /\ P[q][t] = IF q = <<>> THEN C[q][t] ELSE C[q][t] + A[q][t]
  BY <1>1 DEF MergedCounts, Counts
<1>3. \A q \in Paths : Q[q] = IF q = <<>> THEN total[o][q] ELSE total[o][q] + total[x][q]
  BY DEF MergedTotals
<1>4. P \in [Paths -> Counts]
  <2>1. P = [q \in Paths |-> [t \in Tokens |-> P[q][t]]]
    BY DEF MergedCounts
  <2> HIDE DEF P, C, A
  <2>2. \A q \in Paths : \A t \in Tokens : P[q][t] \in Nat
    BY <1>2
  <2> QED BY <2>1, <2>2 DEF Counts
<1>5. Q \in [Paths -> Nat]
  <2>1. Q = [q \in Paths |-> Q[q]]
    BY DEF MergedTotals
  <2> HIDE DEF Q
  <2> QED BY <1>1, <1>3, <2>1
<1>6. Counted(P, Together(O, W), h)
  <2> SUFFICES ASSUME NEW q \in Paths, NEW t \in Tokens
               PROVE  /\ P[q][t] <= Gathered(Of(Together(O, W), t), q)
                      /\ q # <<>> => P[q][t] = Gathered(Of(Together(O, W), t), q)
    BY Zenon DEF Counted
  <2>1. /\ Gathered(Of(O, t), q) \in Nat /\ Gathered(Of(W, t), q) \in Nat
        /\ Gathered(Of(Together(O, W), t), q) = Gathered(Of(O, t), q) + Gathered(Of(W, t), q)
    BY <1>1, GatheredTogether
  <2>2. /\ C[q][t] <= Gathered(Of(O, t), q)
        /\ q # <<>> => C[q][t] = Gathered(Of(O, t), q)
        /\ q # <<>> => A[q][t] = Gathered(Of(W, t), q)
    BY <1>1 DEF Counted
  <2> HIDE DEF P, C, A
  <2> QED BY <1>2, <2>1, <2>2
<1>7. Totalled(P, Q)
  <2> SUFFICES ASSUME NEW q \in Paths
               PROVE  Q[q] = SumOver(Tokens, P[q])
    BY DEF Totalled
  <2> DEFINE f == C[q]
             g == A[q]
             k == P[q]
  <2>1. total[o][q] = SumOver(Tokens, f) /\ total[x][q] = SumOver(Tokens, g)
    BY <1>1 DEF Totalled
  <2>2. \A t \in Tokens : /\ f[t] \in Nat /\ g[t] \in Nat
                          /\ k[t] = IF q = <<>> THEN f[t] ELSE f[t] + g[t]
    BY <1>2
  <2> HIDE DEF f, g, k, Q
  <2>3. CASE q = <<>>
    <3>1. SumOver(Tokens, k) = SumOver(Tokens, f)
      BY <2>2, <2>3, SumSame
    <3> QED BY <1>3, <2>1, <2>3, <3>1 DEF k
  <2>4. CASE q # <<>>
    <3>1. SumOver(Tokens, k) = SumOver(Tokens, f) + SumOver(Tokens, g)
      BY <2>2, <2>4, TokensAssumption, SumPlus
    <3> QED BY <1>3, <2>1, <2>4, <3>1 DEF k
  <2> QED BY <2>3, <2>4
<1> QED BY <1>4, <1>5, <1>6, <1>7

(* The merged depth of a tree is its own and the larger one, or the only one. *)
LEMMA DepthMergedIs ==
  ASSUME NEW o, NEW x, depth[o] \in [Paths -> Nat], depth[x] \in [Paths -> Nat],
         NEW q \in Paths
  PROVE  LET d == MergedDepths(o, x)[q]
             own == depth[o][q]
             other == depth[x][q]
         IN  /\ d \in Nat /\ own \in Nat /\ other \in Nat
             /\ q = <<>> \/ q \in nodes[o] => own <= d
             /\ q = <<>> \/ q \in nodes[x] => other <= d
             /\ q \notin nodes[x] /\ q # <<>> => d = own
<1> DEFINE D == MergedDepths(o, x)
           own == depth[o][q]
           other == depth[x][q]
           larger == Max({own, other})
<1>1. own \in Nat /\ other \in Nat
  OBVIOUS
<1>2. D[q] = IF q \in Both(nodes[o], nodes[x]) THEN own + larger
             ELSE IF q = <<>> THEN larger
             ELSE IF q \in Missing(nodes[o], nodes[x]) THEN other
             ELSE own
  BY DEF MergedDepths
<1> HIDE DEF D, own, other
<1>3. larger \in Nat /\ own <= larger /\ other <= larger
  <2>1. CASE own <= other
    <3>1. larger = other
      <4>1. /\ {own, other} \subseteq Int /\ other \in {own, other}
            /\ \A y \in {own, other} : y <= other
        BY <1>1, <2>1
      <4> QED BY <4>1, LargestIs
    <3> QED BY <1>1, <2>1, <3>1
  <2>2. CASE ~ (own <= other)
    <3>1. larger = own
      <4>1. /\ {own, other} \subseteq Int /\ own \in {own, other}
            /\ \A y \in {own, other} : y <= own
        BY <1>1, <2>2
      <4> QED BY <4>1, LargestIs
    <3> QED BY <1>1, <2>2, <3>1
  <2> QED BY <2>1, <2>2
<1> HIDE DEF larger
<1>4. /\ D[q] \in Nat
      /\ q = <<>> \/ q \in nodes[o] => own <= D[q]
      /\ q = <<>> \/ q \in nodes[x] => other <= D[q]
      /\ q \notin nodes[x] /\ q # <<>> => D[q] = own
  BY <1>1, <1>2, <1>3 DEF Both, Missing
<1> QED BY <1>1, <1>4 DEF D, own, other

(* A merge never leaves a depth below the height, nor invents one outside the trees. *)
LEMMA DepthsMerged ==
  ASSUME NEW o, NEW x, NEW O, NEW W,
         Knows(nodes[o], counts[o], total[o], depth[o], size[o], history[o], O),
         Knows(nodes[x], counts[x], total[x], depth[x], size[x], history[x], W),
         Worth(x), \A q \in Paths : MergedDepths(o, x)[q] <= MaxDepth,
         NEW h, h # "parsed",
         h # "reloaded" => history[o] # "reloaded" /\ history[x] # "reloaded",
         NEW Z
  PROVE  /\ MergedDepths(o, x) \in [Paths -> 0 .. MaxDepth]
         /\ Deep(nodes[o] \cup nodes[x], MergedDepths(o, x), Z, h)
<1> DEFINE N == nodes[o]
           M == nodes[x]
           D == depth[o]
           E == depth[x]
           R == MergedDepths(o, x)
<1>1. /\ N \in Trees /\ M \in Trees /\ Whole(N) /\ Whole(M) /\ N \subseteq Paths /\ M \subseteq Paths
      /\ <<>> \in N /\ <<>> \in M
      /\ D \in [Paths -> Nat] /\ E \in [Paths -> Nat]
      /\ O \in Tables(N, Idle(size[o], history[o])) /\ W \in Tables(M, Idle(size[x], history[x]))
      /\ Deep(N, D, O, history[o]) /\ Deep(M, E, W, history[x])
  BY PythonAssumption DEF Knows, Typed, Trees, Whole
<1>2. \A q \in Paths :
        /\ R[q] \in Nat /\ D[q] \in Nat /\ E[q] \in Nat /\ Len(q) \in Nat
        /\ q = <<>> \/ q \in N => D[q] <= R[q]
        /\ q = <<>> \/ q \in M => E[q] <= R[q]
        /\ q \notin M /\ q # <<>> => R[q] = D[q]
  <2> SUFFICES ASSUME NEW q \in Paths
               PROVE  /\ R[q] \in Nat /\ D[q] \in Nat /\ E[q] \in Nat /\ Len(q) \in Nat
                      /\ q = <<>> \/ q \in N => D[q] <= R[q]
                      /\ q = <<>> \/ q \in M => E[q] <= R[q]
                      /\ q \notin M /\ q # <<>> => R[q] = D[q]
    OBVIOUS
  <2>1. depth[o] \in [Paths -> Nat] /\ depth[x] \in [Paths -> Nat]
    BY <1>1
  <2>2. Len(q) \in Nat
    BY PathFacts
  <2> QED BY <2>1, <2>2, DepthMergedIs
<1>3. R = [q \in Paths |-> R[q]]
  BY DEF MergedDepths
<1>4. W # Blank /\ \E r \in M : Len(r) = 1
  BY WorthObserved
<1> HIDE DEF N, M, D, E, R
<1>5. R \in [Paths -> 0 .. MaxDepth]
  <2>1. \A q \in Paths : R[q] \in 0 .. MaxDepth
    BY <1>2, PythonAssumption DEF R
  <2> QED BY <1>3, <2>1
<1>6. ASSUME NEW q \in Paths \ (N \cup M)
      PROVE  R[q] = 0
  BY <1>1, <1>2 DEF Deep
<1>7. ASSUME h # "reloaded"
      PROVE  Covers(N \cup M, R, Z)
  <2>1. Covers(N, D, O) /\ Covers(M, E, W)
    BY <1>1, <1>7 DEF Deep
  <2>2. ASSUME NEW q \in (N \cup M) \ {<<>>}, NEW r \in Below(N \cup M, q)
        PROVE  Len(r) <= R[q] + Len(q)
    <3>1. q \in Paths /\ r \in Paths /\ q \in Suffixes(r) /\ r \in N \cup M
      BY <1>1 DEF Below
    <3>2. CASE r \in N
      <4>1. q \in N /\ r \in Below(N, q)
        BY <1>1, <3>1, <3>2 DEF Below, Whole
      <4>2. Len(r) <= D[q] + Len(q)
        BY <2>1, <4>1 DEF Covers
      <4>3. D[q] \in Nat /\ R[q] \in Nat /\ D[q] <= R[q] /\ Len(q) \in Nat /\ Len(r) \in Nat
        BY <1>2, <3>1, <4>1
      <4> QED BY <4>2, <4>3
    <3>3. CASE r \in M
      <4>1. q \in M /\ r \in Below(M, q)
        BY <1>1, <3>1, <3>3 DEF Below, Whole
      <4>2. Len(r) <= E[q] + Len(q)
        BY <2>1, <4>1 DEF Covers
      <4>3. E[q] \in Nat /\ R[q] \in Nat /\ E[q] <= R[q] /\ Len(q) \in Nat /\ Len(r) \in Nat
        BY <1>2, <3>1, <4>1
      <4> QED BY <4>2, <4>3
    <3> QED BY <3>1, <3>2, <3>3
  <2>3. ASSUME NEW r \in N \cup M
        PROVE  Len(r) <= R[<<>>]
    <3>1. /\ r \in Paths /\ Len(r) \in Nat /\ R[<<>>] \in Nat /\ D[<<>>] \in Nat /\ E[<<>>] \in Nat
          /\ D[<<>>] <= R[<<>>] /\ E[<<>>] <= R[<<>>]
      BY <1>1, <1>2
    <3>2. \A z \in M : Len(z) <= E[<<>>]
      BY <1>4, <2>1 DEF Covers
    <3>3. CASE r \in M
      BY <3>1, <3>2, <3>3
    <3>4. CASE r \in N /\ O # Blank
      <4>1. Len(r) <= D[<<>>]
        BY <2>1, <3>4 DEF Covers
      <4> QED BY <3>1, <4>1
    <3>5. CASE r \in N /\ O = Blank
      <4>1. Len(r) <= 1
        BY <1>1, <3>5, BlankIsShort
      <4>2. 1 <= E[<<>>]
        BY <1>4, <3>2
      <4> QED BY <3>1, <4>1, <4>2
    <3> QED BY <3>3, <3>4, <3>5
  <2> QED BY <2>2, <2>3 DEF Covers
<1> QED BY <1>5, <1>6, <1>7 DEF Deep, N, M, R

(* A merge adds the one table to the other. *)
LEMMA MergeKnows ==
  ASSUME NEW o, NEW x, NEW O, NEW W,
         Knows(nodes[o], counts[o], total[o], depth[o], size[o], history[o], O),
         Knows(nodes[x], counts[x], total[x], depth[x], size[x], history[x], W),
         Worth(x), \A q \in Paths : MergedDepths(o, x)[q] <= MaxDepth
  PROVE  Knows(nodes[o] \cup nodes[x], MergedCounts(o, x), MergedTotals(o, x),
               MergedDepths(o, x), size[o],
               IF "reloaded" \in {history[o], history[x]} THEN "reloaded" ELSE "merged",
               Together(O, W))
<1> DEFINE h == IF "reloaded" \in {history[o], history[x]} THEN "reloaded" ELSE "merged"
           N == nodes[o]
           M == nodes[x]
           E == Idle(size[o], history[o])
           F == Idle(size[x], history[x])
<1>1. /\ h # "parsed" /\ h \in Histories
      /\ h # "reloaded" => history[o] # "reloaded" /\ history[x] # "reloaded"
  BY DEF Histories
<1>2. /\ N \in Trees /\ M \in Trees /\ O \in Tables(N, E) /\ W \in Tables(M, F) /\ size[o] \in Nat
  BY DEF Knows, Typed
<1>3. E \cup F \subseteq Idle(size[o], h)
  BY <1>1, PathFacts DEF Idle
<1> HIDE DEF h, E, F
<1>4. /\ MergedCounts(o, x) \in [Paths -> Counts] /\ MergedTotals(o, x) \in [Paths -> Nat]
      /\ Counted(MergedCounts(o, x), Together(O, W), h)
      /\ Totalled(MergedCounts(o, x), MergedTotals(o, x))
  BY <1>1, CountsMerged
<1>5. /\ MergedDepths(o, x) \in [Paths -> 0 .. MaxDepth]
      /\ Deep(N \cup M, MergedDepths(o, x), Together(O, W), h)
  BY <1>1, DepthsMerged
<1> HIDE DEF N, M
<1>6. Together(O, W) \in Tables(N \cup M, Idle(size[o], h))
  <2>1. Together(O, W) \in Tables(N \cup M, E \cup F)
    BY <1>2, TogetherTables
  <2> QED BY <1>3, <2>1, WiderTable
<1>7. N \cup M \in Trees
  <2>1. Whole(N) /\ Whole(M) /\ M \subseteq Paths
    BY <1>2 DEF Trees
  <2>2. Whole(N \cup M)
    BY <2>1, GrownIsWhole DEF Whole
  <2> QED BY <2>2 DEF Trees, Whole
<1> QED BY <1>1, <1>2, <1>4, <1>5, <1>6, <1>7 DEF Knows, Typed, N, M, h

-----------------------------------------------------------------------------
(* The protocol buffer *)

(* What comes back from the message: the trees, and empty ones; all counts but the set's. *)
LEMMA MessageRead ==
  ASSUME NEW o, nodes[o] \in Trees, IsFiniteSet(nodes[o])
  PROVE  LET m == Message(o)
             k == Cardinality({x \in m : Len(x.path) = 1})
         IN  /\ k \in Nat
             /\ NodesIn(m) = Made(k) \cup nodes[o]
             /\ \A q \in Paths :
                  /\ CountsIn(m)[q] = IF q \in nodes[o] \ {<<>>} THEN counts[o][q] ELSE NoCounts
                  /\ TotalsIn(m)[q] = IF q \in nodes[o] \ {<<>>} THEN total[o][q] ELSE 0
<1> DEFINE m == Message(o)
           N == nodes[o]
           item(q) == [path |-> q, total |-> total[o][q], counts |-> counts[o][q]]
           roots == {x \in m : Len(x.path) = 1}
           k == Cardinality(roots)
           f == [q \in N \ {<<>>} |-> item(q)]
<1>1. m = {item(q) : q \in N \ {<<>>}}
  BY DEF Message
<1>2. \A q : item(q).path = q /\ item(q).total = total[o][q] /\ item(q).counts = counts[o][q]
  OBVIOUS
<1>3. f \in Surjection(N \ {<<>>}, m)
  BY <1>1 DEF Surjection
<1>4. <<>> \in N
  BY DEF Trees, Whole
<1> HIDE DEF item, f, m, N
<1>5. k \in Nat
  <2>1. IsFiniteSet(N \ {<<>>})
    BY FS_Subset DEF N
  <2>2. IsFiniteSet(m)
    BY <1>3, <2>1, FS_Surjection
  <2>3. IsFiniteSet(roots)
    BY <2>2, FS_Subset
  <2> QED BY <2>3, FS_CardinalityType
<1>6. NodesIn(m) = Made(k) \cup N
  <2>1. {x.path : x \in m} = N \ {<<>>}
    BY <1>1, <1>2
  <2>2. NodesIn(m) = Made(k) \cup {x.path : x \in m}
    BY DEF NodesIn
  <2>3. <<>> \in Made(k)
    BY DEF Made
  <2> HIDE DEF k
  <2> QED BY <1>4, <2>1, <2>2, <2>3
<1>7. ASSUME NEW q \in N \ {<<>>}
      PROVE  At(m, q) = item(q)
  <2>1. item(q) \in m /\ \A x \in m : x.path = q => x = item(q)
    BY <1>1, <1>2
  <2> QED BY <1>2, <2>1 DEF At
<1>8. \A q : (\E x \in m : x.path = q) <=> q \in N \ {<<>>}
  BY <1>1, <1>2
<1>9. ASSUME NEW q \in Paths
      PROVE  /\ CountsIn(m)[q] = IF q \in N \ {<<>>} THEN counts[o][q] ELSE NoCounts
             /\ TotalsIn(m)[q] = IF q \in N \ {<<>>} THEN total[o][q] ELSE 0
  <2>1. /\ CountsIn(m)[q] = IF \E x \in m : x.path = q THEN At(m, q).counts ELSE NoCounts
        /\ TotalsIn(m)[q] = IF \E x \in m : x.path = q THEN At(m, q).total ELSE 0
    BY DEF CountsIn, TotalsIn
  <2> QED BY <1>2, <1>7, <1>8, <2>1
<1> QED BY <1>5, <1>6, <1>9 DEF m, N

(* A round trip keeps what was observed. *)
LEMMA ReloadKnows ==
  ASSUME NEW o, NEW O,
         Knows(nodes[o], counts[o], total[o], depth[o], size[o], history[o], O)
  PROVE  LET m == Message(o)
             k == Cardinality({x \in m : Len(x.path) = 1})
         IN  Knows(NodesIn(m), CountsIn(m), TotalsIn(m), Zeros, k, "reloaded", O)
<1> DEFINE m == Message(o)
           k == Cardinality({x \in m : Len(x.path) = 1})
           N == nodes[o]
           M == NodesIn(m)
           C == counts[o]
           P == CountsIn(m)
           Q == TotalsIn(m)
           E == Idle(size[o], history[o])
           F == Idle(k, "reloaded")
<1>1. /\ N \in Trees /\ C \in [Paths -> Counts] /\ total[o] \in [Paths -> Nat]
      /\ O \in Tables(N, E) /\ Counted(C, O, history[o]) /\ Totalled(C, total[o])
  BY DEF Knows, Typed
<1>2. IsFiniteSet(N)
  BY <1>1, PathsFinite, FS_Subset DEF Trees
<1>3. /\ k \in Nat /\ M = Made(k) \cup N
      /\ \A q \in Paths :
           /\ P[q] = IF q \in N \ {<<>>} THEN C[q] ELSE NoCounts
           /\ Q[q] = IF q \in N \ {<<>>} THEN total[o][q] ELSE 0
  BY <1>1, <1>2, MessageRead
<1>4. P = [q \in Paths |-> P[q]] /\ Q = [q \in Paths |-> Q[q]]
  BY DEF CountsIn, TotalsIn
<1> HIDE DEF m, k, N, M, C, P, Q, E, F
<1>5. M \in Trees /\ \A q \in Made(k) : q \in Paths /\ Len(q) <= 1
  BY <1>1, <1>3, MadeTrees
<1>6. O \in Tables(M, F)
  <2>1. E \cap N \subseteq F /\ M \ N \subseteq F
    <3>1. \A q \in Idle(size[o], history[o]) : q \in Paths /\ Len(q) <= 1
      BY PathFacts DEF Idle
    <3>2. \A q \in Paths : Len(q) <= 1 => q \in F
      BY DEF Idle, F
    <3> QED BY <1>3, <1>5, <3>1, <3>2 DEF E
  <2> QED BY <1>1, <1>3, <2>1, WiderTable
<1>7. NoCounts \in Counts /\ SumOver(Tokens, NoCounts) = 0 /\ \A t \in Tokens : NoCounts[t] = 0
  BY SumZero DEF NoCounts, Counts
<1>8. P \in [Paths -> Counts] /\ Q \in [Paths -> Nat]
  BY <1>1, <1>3, <1>4, <1>7
<1>9. Totalled(P, Q)
  BY <1>1, <1>3, <1>7 DEF Totalled
<1>10. Counted(P, O, "reloaded")
  <2> SUFFICES ASSUME NEW q \in Paths, NEW t \in Tokens
               PROVE  /\ P[q][t] <= Gathered(Of(O, t), q)
                      /\ q # <<>> => P[q][t] = Gathered(Of(O, t), q)
    BY Zenon DEF Counted
  <2>1. /\ Gathered(Of(O, t), q) \in Nat
        /\ q \notin N => Gathered(Of(O, t), q) = 0
    BY <1>1, NothingOutside
  <2>2. C[q][t] \in Nat /\ C[q][t] <= Gathered(Of(O, t), q)
    BY <1>1 DEF Counted, Counts
  <2>3. q # <<>> => C[q][t] = Gathered(Of(O, t), q)
    BY <1>1 DEF Counted
  <2>4. P[q] = IF q \in N \ {<<>>} THEN C[q] ELSE NoCounts
    BY <1>3
  <2>5. CASE q \in N \ {<<>>}
    BY <2>2, <2>3, <2>4, <2>5
  <2>6. CASE q \notin N \ {<<>>}
    <3>1. P[q][t] = 0
      BY <1>7, <2>4, <2>6
    <3> QED BY <2>1, <2>6, <3>1
  <2> QED BY <2>5, <2>6
<1>11. Deep(M, Zeros, O, "reloaded")
  BY DEF Deep, Zeros
<1>12. Typed(M, P, Q, Zeros, k, "reloaded")
  BY <1>3, <1>5, <1>8, PythonAssumption DEF Typed, Zeros, Histories
<1> QED BY <1>6, <1>9, <1>10, <1>11, <1>12 DEF Knows, F, M, P, Q, m, k

-----------------------------------------------------------------------------
(* Lessons *)

(* The least of two numbers. *)
LEMMA LeastOfTwo ==
  ASSUME NEW a \in Int, NEW b \in Int
  PROVE  Min({a, b}) = IF a <= b THEN a ELSE b
<1> DEFINE S == {a, b}
           l == IF a <= b THEN a ELSE b
<1>1. l \in S /\ \A y \in S : l <= y
  OBVIOUS
<1>2. \A z \in S : (\A y \in S : z <= y) => z = l
  OBVIOUS
<1> HIDE DEF S, l
<1>3. Min(S) = l
  <2>1. Min(S) \in S /\ \A y \in S : Min(S) <= y
    BY <1>1, Zenon DEF Min
  <2> QED BY <1>2, <2>1
<1> QED BY <1>3 DEF S, l

(* A part of a text teaches the tokens behind it. *)
LEMMA PartTeaches ==
  ASSUME NEW s \in Texts, NEW b \in Nat, NEW m \in Nat, m >= 1, NEW n \in Int, n < Len(s),
         \A i \in m .. n : Pattern(s, i, b).prefix \in Contexts
  PROVE  LET told == {Pattern(s, i, b) : i \in m .. n}
         IN  Patterned(told) /\ Mirror(TableOf(told)) = TextLesson(s, b, m + 1, n + 1)
<1> DEFINE told == {Pattern(s, i, b) : i \in m .. n}
           W == TableOf(told)
<1>1. s \in Seq(Tokens)
  BY DEF Texts
<1>2. \A i \in m .. n : Window(s, i, b) \in Contexts
  BY DEF Pattern
<1>3. /\ Patterned(told)
      /\ \A p \in Contexts : \A t \in Tokens :
           W[p][t] = Cardinality({i \in m + 1 .. n + 1 :
                        s[i] = t /\ p = SubSeq(s, Max({1, i - b}), i - 1)})
  BY <1>1, <1>2, PartOfTextTable
<1> HIDE DEF told, W
<1>4. Mirror(W) = TextLesson(s, b, m + 1, n + 1)
  BY <1>3 DEF Mirror, TextLesson
<1> QED BY <1>3, <1>4 DEF W, told

(* The two ways to parse a text are lessons. *)
LEMMA TextIsLesson ==
  ASSUME NEW s \in Texts, NEW b \in 1 .. B + 1
  PROVE  /\ TextLesson(s, b, 2, LastSuccessor(s, b)) \in Lessons
         /\ TextLesson(s, b, b + 1, Len(s) - 1) \in Lessons
<1> DEFINE first(z, a) == TextLesson(z, a, 2, LastSuccessor(z, a))
           second(z, a) == TextLesson(z, a, a + 1, Len(z) - 1)
           all == {{first(z, a), second(z, a)} : z \in Texts, a \in 1 .. B + 1}
<1>1. UNION all \subseteq Lessons
  BY DEF Lessons
<1> HIDE DEF first, second
<1>2. {first(s, b), second(s, b)} \in all
  OBVIOUS
<1> HIDE DEF all
<1>3. first(s, b) \in Lessons /\ second(s, b) \in Lessons
  BY <1>1, <1>2
<1> QED BY <1>3 DEF first, second

(* parse_all adds the patterns of its text once, also when it stops half way through. *)
LEMMA TextTeaches ==
  ASSUME NEW s \in Texts, NEW b \in 1 .. B + 1, NEW ignore_start \in BOOLEAN,
         NEW told, told = Blocks(s, b) \cup (IF ignore_start THEN {} ELSE Leading(s, b)),
         {x.prefix : x \in told} \subseteq Contexts
  PROVE  Patterned(told) /\ Mirror(TableOf(told)) \in Lessons
<1> DEFINE l == Len(s)
<1>1. s \in Seq(Tokens) /\ l \in Nat /\ b \in Nat /\ b >= 1 /\ l \in Int /\ b \in Int
  BY BlockAssumption DEF Texts
<1> HIDE DEF l
<1>2. CASE ignore_start
  <2> DEFINE n == l - 2
  <2>1. told = {Pattern(s, i, b) : i \in b .. n}
    BY <1>2 DEF Blocks, l
  <2>2. n \in Int /\ n < l /\ n + 1 = l - 1
    BY <1>1
  <2> HIDE DEF n
  <2>3. Patterned(told) /\ Mirror(TableOf(told)) = TextLesson(s, b, b + 1, n + 1)
    <3>1. n < Len(s)
      BY <2>2 DEF l
    <3>2. \A i \in b .. n : Pattern(s, i, b).prefix \in Contexts
      BY <2>1
    <3> DEFINE same == {Pattern(s, i, b) : i \in b .. n}
    <3>3. Patterned(same) /\ Mirror(TableOf(same)) = TextLesson(s, b, b + 1, n + 1)
      BY <1>1, <2>2, <3>1, <3>2, PartTeaches
    <3>4. told = same
      BY <2>1
    <3> HIDE DEF same
    <3> QED BY <3>3, <3>4
  <2>4. Mirror(TableOf(told)) = TextLesson(s, b, b + 1, Len(s) - 1)
    BY <2>2, <2>3 DEF l
  <2>5. TextLesson(s, b, b + 1, Len(s) - 1) \in Lessons
    BY TextIsLesson
  <2> QED BY <2>3, <2>4, <2>5
<1>3. CASE ~ignore_start
  <2> DEFINE n == IF l <= b THEN l - 1 ELSE l - 2
             k == IF b <= l THEN b ELSE l
  <2>1. told = {Pattern(s, i, b) : i \in b .. l - 2} \cup {Pattern(s, i, b) : i \in 1 .. k - 1}
    <3>1. Leading(s, b) = {Pattern(s, i, b) : i \in 1 .. k - 1}
      <4>1. Min({b, Len(s)}) = k
        BY <1>1, LeastOfTwo DEF l
      <4> HIDE DEF k
      <4> QED BY <4>1 DEF Leading
    <3> HIDE DEF k
    <3> QED BY <1>3, <3>1 DEF Blocks, l
  <2>2. 1 .. n = (b .. l - 2) \cup (1 .. k - 1)
    BY <1>1
  <2>3. n \in Int /\ n < l /\ 1 \in Nat /\ 1 >= 1 /\ 1 + 1 = 2
    BY <1>1
  <2>4. n + 1 = LastSuccessor(s, b)
    BY <1>1 DEF LastSuccessor, l
  <2> HIDE DEF n, k
  <2>5. told = {Pattern(s, i, b) : i \in 1 .. n}
    BY <2>1, <2>2
  <2>6. Patterned(told) /\ Mirror(TableOf(told)) = TextLesson(s, b, 1 + 1, n + 1)
    <3>1. n < Len(s)
      BY <2>3 DEF l
    <3> DEFINE m == 1
               same == {Pattern(s, i, b) : i \in m .. n}
    <3>2. \A i \in m .. n : Pattern(s, i, b).prefix \in Contexts
      BY <2>5
    <3>3. told = same /\ m \in Nat /\ m >= 1
      BY <2>5
    <3> HIDE DEF m
    <3>4. Patterned(same) /\ Mirror(TableOf(same)) = TextLesson(s, b, m + 1, n + 1)
      BY <1>1, <2>3, <3>1, <3>2, <3>3, PartTeaches
    <3> HIDE DEF same
    <3>5. Patterned(told) /\ Mirror(TableOf(told)) = TextLesson(s, b, m + 1, n + 1)
      BY <3>3, <3>4
    <3> QED BY <3>5 DEF m
  <2>7. Mirror(TableOf(told)) = TextLesson(s, b, 2, LastSuccessor(s, b))
    BY <2>3, <2>4, <2>6
  <2>8. TextLesson(s, b, 2, LastSuccessor(s, b)) \in Lessons
    BY TextIsLesson
  <2> QED BY <2>6, <2>7, <2>8
<1> QED BY <1>2, <1>3

(* One pattern is a lesson. *)
LEMMA PatternTeaches ==
  ASSUME NEW p \in Contexts, NEW t \in Tokens,
         NEW told, told = {[next |-> t, prefix |-> p, at |-> 0]}
  PROVE  Patterned(told) /\ Mirror(TableOf(told)) \in Lessons
<1> DEFINE W == TableOf(told)
<1>1. /\ Patterned(told)
      /\ \A q \in Contexts : \A u \in Tokens : W[q][u] = IF q = p /\ u = t THEN 1 ELSE 0
  BY OnePatternTable
<1> HIDE DEF W
<1>2. Mirror(W) = Lesson(p, t)
  BY <1>1 DEF Mirror, Lesson
<1>3. Lesson(p, t) \in Lessons
  BY DEF Lessons
<1> QED BY <1>1, <1>2, <1>3 DEF W

-----------------------------------------------------------------------------
(* The steps *)

\* o has observed what the table O says.
Known(o, O) == Knows(nodes[o], counts[o], total[o], depth[o], size[o], history[o], O)

(***************************************************************************)
(* The inductive invariant: every object is explained by some table.       *)
(***************************************************************************)
PyInv ==
    /\ nodes \in [Objects -> Trees] /\ counts \in [Objects -> [Paths -> Counts]]
    /\ total \in [Objects -> [Paths -> Nat]] /\ depth \in [Objects -> [Paths -> 0 .. MaxDepth]]
    /\ size \in [Objects -> Nat] /\ history \in [Objects -> Histories]
    /\ \A o \in Objects : \E O : Known(o, O)

Occ == [o \in Objects |-> Own(o)]

(* What was observed after exactly a context is what the table says. *)
LEMMA OwnOf ==
  ASSUME NEW o, NEW O, Known(o, O)
  PROVE  Own(o) = Mirror(O)
<1>1. Own(o) = OwnPart(nodes[o], counts[o])
  BY DEF Own, OwnPart
<1>2. /\ nodes[o] \in Trees /\ O \in Tables(nodes[o], Idle(size[o], history[o]))
      /\ Counted(counts[o], O, history[o])
  BY DEF Known, Knows, Typed
<1> QED BY <1>1, <1>2, OwnIsKnown

LEMMA OwnNext ==
  ASSUME NEW o, NEW O, Known(o, O)'
  PROVE  Own(o)' = Mirror(O)
<1>1. Own(o)' = OwnPart(nodes'[o], counts'[o])
  BY DEF Own, OwnPart
<1>2. /\ nodes'[o] \in Trees /\ O \in Tables(nodes'[o], Idle(size'[o], history'[o]))
      /\ Counted(counts'[o], O, history'[o])
  BY DEF Known, Knows, Typed
<1> QED BY <1>1, <1>2, OwnIsKnown

\* A call gives the variables of o these values.
Becomes(o, N, C, T, D, n, h) ==
    /\ nodes' = [nodes EXCEPT ![o] = N] /\ counts' = [counts EXCEPT ![o] = C]
    /\ total' = [total EXCEPT ![o] = T] /\ depth' = [depth EXCEPT ![o] = D]
    /\ size' = [size EXCEPT ![o] = n] /\ history' = [history EXCEPT ![o] = h]

(* A call changes one object. *)
LEMMA Changed ==
  ASSUME PyInv, NEW o \in Objects, NEW N, NEW C, NEW T, NEW D, NEW n, NEW h,
         NEW O, Knows(N, C, T, D, n, h, O), Becomes(o, N, C, T, D, n, h)
  PROVE  PyInv' /\ Occ' = [Occ EXCEPT ![o] = Mirror(O)]
<1>1. Typed(N, C, T, D, n, h)
  BY DEF Knows
<1>2. /\ nodes' \in [Objects -> Trees] /\ counts' \in [Objects -> [Paths -> Counts]]
      /\ total' \in [Objects -> [Paths -> Nat]] /\ depth' \in [Objects -> [Paths -> 0 .. MaxDepth]]
      /\ size' \in [Objects -> Nat] /\ history' \in [Objects -> Histories]
  BY <1>1 DEF PyInv, Typed, Becomes
<1>3. /\ nodes'[o] = N /\ counts'[o] = C /\ total'[o] = T /\ depth'[o] = D
      /\ size'[o] = n /\ history'[o] = h
  BY DEF PyInv, Becomes
<1>4. Known(o, O)'
  BY <1>3 DEF Known
<1>5. ASSUME NEW x \in Objects, x # o
      PROVE  /\ nodes'[x] = nodes[x] /\ counts'[x] = counts[x] /\ total'[x] = total[x]
             /\ depth'[x] = depth[x] /\ size'[x] = size[x] /\ history'[x] = history[x]
  BY <1>5 DEF PyInv, Becomes
<1>6. ASSUME NEW x \in Objects, x # o
      PROVE  /\ \E A : Known(x, A)'
             /\ Own(x)' = Own(x)
  <2>1. PICK A : Known(x, A)
    BY DEF PyInv
  <2>2. Known(x, A)'
    BY <1>5, <1>6, <2>1 DEF Known
  <2>3. Own(x)' = Mirror(A)
    BY <2>2, OwnNext
  <2>4. Own(x) = Mirror(A)
    BY <2>1, OwnOf
  <2> QED BY <2>2, <2>3, <2>4
<1>7. \A x \in Objects : \E A : Known(x, A)'
  BY <1>4, <1>6
<1>8. PyInv'
  BY <1>2, <1>7 DEF PyInv
<1>9. Own(o)' = Mirror(O)
  BY <1>4, OwnNext
<1>10. Occ' = [Occ EXCEPT ![o] = Mirror(O)]
  BY <1>6, <1>9 DEF Occ
<1> QED BY <1>8, <1>10

(* What the abstract specification calls a plus and a minus. *)
LEMMA MirrorOfTogether ==
  ASSUME NEW O \in [Paths -> Counts], NEW W \in [Paths -> Counts]
  PROVE  /\ EF!Minus(Mirror(Together(O, W)), Mirror(O)) = Mirror(W)
         /\ EF!Plus(Mirror(O), Mirror(W)) = Mirror(Together(O, W))
<1> DEFINE F == Mirror(Together(O, W))
           G == Mirror(O)
           H == Mirror(W)
<1>1. ASSUME NEW p \in Contexts, NEW t \in Tokens
      PROVE  F[p][t] - G[p][t] = W[p][t] /\ G[p][t] + H[p][t] = O[p][t] + W[p][t]
  <2>1. p \in Paths /\ O[p][t] \in Nat /\ W[p][t] \in Nat
    BY DEF Contexts, Counts
  <2>2. F[p][t] = O[p][t] + W[p][t] /\ G[p][t] = O[p][t] /\ H[p][t] = W[p][t]
    BY <2>1 DEF Mirror, Together
  <2> HIDE DEF F, G, H
  <2> QED BY <2>1, <2>2
<1>2. F = [p \in Contexts |-> [t \in Tokens |-> O[p][t] + W[p][t]]]
  BY DEF Mirror, Together, Contexts
<1> HIDE DEF F, G, H
<1>3. EF!Minus(F, G) = [p \in Contexts |-> [t \in Tokens |-> F[p][t] - G[p][t]]]
  BY DEF EF!Minus, EF!Contexts, EF!Paths, Contexts, Paths
<1>4. EF!Minus(F, G) = H
  BY <1>1, <1>3 DEF Mirror, H
<1>5. EF!Plus(G, H) = [p \in Contexts |-> [t \in Tokens |-> G[p][t] + H[p][t]]]
  BY DEF EF!Plus, EF!Contexts, EF!Paths, Contexts, Paths
<1>6. EF!Plus(G, H) = F
  BY <1>1, <1>2, <1>5
<1> QED BY <1>4, <1>6 DEF F, G, H

(* A new object has observed nothing. *)
LEMMA NothingIs == Mirror(Blank) = EF!Nothing
<1>1. \A p \in Contexts : [t \in Tokens |-> Blank[p][t]] = NoCounts
  BY DEF Blank, NoCounts, Contexts
<1> QED BY <1>1 DEF Mirror, EF!Nothing, EF!NoCounts, NoCounts, EF!Contexts, EF!Paths, Contexts, Paths

LEMMA NewStep ==
  ASSUME PyInv, NEW o \in Objects, NEW n \in 0 .. MaxSize, New(o, n)
  PROVE  PyInv' /\ EF!Forget(Occ, Occ', o)
<1>1. n \in Nat
  OBVIOUS
<1>2. Knows(Made(n), NoneCounted, Zeros, Zeros, n, "parsed", Blank)
  BY <1>1, NewKnows
<1>3. Becomes(o, Made(n), NoneCounted, Zeros, Zeros, n, "parsed")
  BY DEF New, Becomes
<1>4. PyInv' /\ Occ' = [Occ EXCEPT ![o] = Mirror(Blank)]
  BY <1>2, <1>3, Changed
<1> QED BY <1>4, NothingIs DEF EF!Forget

(* Patterns that are a lesson, observed, are learned. *)
LEMMA ObserveStep ==
  ASSUME PyInv, NEW o \in Objects, NEW told, Observe(o, told), Patterned(told),
         Mirror(TableOf(told)) \in Lessons
  PROVE  PyInv' /\ EF!Learn(Occ, Occ', o)
<1> DEFINE W == TableOf(told)
<1>1. PICK O : Known(o, O)
  BY DEF PyInv
<1> DEFINE A == Together(O, W)
<1>2. /\ told # {}
      /\ nodes' = [nodes EXCEPT ![o] = @ \cup Touched(told)]
      /\ counts' = [counts EXCEPT ![o] = Added(@, told)]
      /\ total' = [total EXCEPT ![o] = AddedTotals(counts[o], @, told)]
      /\ depth' = [depth EXCEPT ![o] = Raised(@, told)]
      /\ \A q \in Paths : depth'[o][q] <= MaxDepth
      /\ size' = size /\ history' = history
  BY DEF Observe, Touched
<1>3. \A q \in Paths : Raised(depth[o], told)[q] <= MaxDepth
  <2>1. depth'[o] = Raised(depth[o], told)
    BY <1>2 DEF PyInv
  <2> QED BY <1>2, <2>1
<1>4. Knows(nodes[o] \cup Touched(told), Added(counts[o], told),
            AddedTotals(counts[o], total[o], told), Raised(depth[o], told), size[o], history[o], A)
  BY <1>1, <1>2, <1>3, ObserveKnows DEF Known
<1> HIDE DEF A
<1>5. Becomes(o, nodes[o] \cup Touched(told), Added(counts[o], told),
              AddedTotals(counts[o], total[o], told), Raised(depth[o], told), size[o], history[o])
  <2>1. size' = [size EXCEPT ![o] = size[o]] /\ history' = [history EXCEPT ![o] = history[o]]
    BY <1>2 DEF PyInv
  <2> QED BY <1>2, <2>1 DEF Becomes
<1>6. PyInv' /\ Occ' = [Occ EXCEPT ![o] = Mirror(A)]
  BY <1>4, <1>5, Changed
<1>7. Occ[o] = Mirror(O)
  BY <1>1, OwnOf DEF Occ
<1>8. Occ'[o] = Mirror(A) /\ \A x \in Objects \ {o} : Occ'[x] = Occ[x]
  BY <1>6 DEF Occ
<1>9. EF!Minus(Occ'[o], Occ[o]) = Mirror(W)
  <2>1. O \in [Paths -> Counts] /\ W \in [Paths -> Counts]
    BY <1>1, PatternsTable DEF Known, Knows, Tables
  <2> HIDE DEF W
  <2> QED BY <1>7, <1>8, <2>1, MirrorOfTogether DEF A
<1> QED BY <1>6, <1>8, <1>9 DEF EF!Learn, EF!Others

LEMMA MergeStep ==
  ASSUME PyInv, NEW o \in Objects, NEW x \in Objects, Merge(o, x)
  PROVE  PyInv' /\ EF!Add(Occ, Occ', o, x)
<1> DEFINE h == IF "reloaded" \in {history[o], history[x]} THEN "reloaded" ELSE "merged"
<1>1. PICK O : Known(o, O)
  BY DEF PyInv
<1>2. PICK W : Known(x, W)
  BY DEF PyInv
<1> DEFINE A == Together(O, W)
<1>3. /\ Worth(x)
      /\ nodes' = [nodes EXCEPT ![o] = nodes[o] \cup nodes[x]]
      /\ counts' = [counts EXCEPT ![o] = MergedCounts(o, x)]
      /\ total' = [total EXCEPT ![o] = MergedTotals(o, x)]
      /\ depth' = [depth EXCEPT ![o] = MergedDepths(o, x)]
      /\ \A q \in Paths : depth'[o][q] <= MaxDepth
      /\ history' = [history EXCEPT ![o] = h]
      /\ size' = [size EXCEPT ![o] = size[o]]
  BY DEF Merge, PyInv
<1>4. \A q \in Paths : MergedDepths(o, x)[q] <= MaxDepth
  <2>1. depth'[o] = MergedDepths(o, x)
    BY <1>3 DEF PyInv
  <2> QED BY <1>3, <2>1
<1>5. Knows(nodes[o] \cup nodes[x], MergedCounts(o, x), MergedTotals(o, x),
            MergedDepths(o, x), size[o], h, A)
  BY <1>1, <1>2, <1>3, <1>4, MergeKnows DEF Known
<1> HIDE DEF A, h
<1>6. PyInv' /\ Occ' = [Occ EXCEPT ![o] = Mirror(A)]
  <2>1. Becomes(o, nodes[o] \cup nodes[x], MergedCounts(o, x), MergedTotals(o, x),
                MergedDepths(o, x), size[o], h)
    BY <1>3 DEF Becomes
  <2> QED BY <1>5, <2>1, Changed
<1>7. Occ[o] = Mirror(O) /\ Occ[x] = Mirror(W)
  BY <1>1, <1>2, OwnOf DEF Occ
<1>8. EF!Plus(Mirror(O), Mirror(W)) = Mirror(A)
  <2>1. O \in [Paths -> Counts] /\ W \in [Paths -> Counts]
    BY <1>1, <1>2 DEF Known, Knows, Tables
  <2> QED BY <2>1, MirrorOfTogether DEF A
<1> QED BY <1>6, <1>7, <1>8 DEF EF!Add

LEMMA ReloadStep ==
  ASSUME PyInv, NEW o \in Objects, Reload(o)
  PROVE  PyInv' /\ Occ' = Occ
<1> DEFINE m == Message(o)
           k == Cardinality({x \in m : Len(x.path) = 1})
<1>1. PICK O : Known(o, O)
  BY DEF PyInv
<1>2. Knows(NodesIn(m), CountsIn(m), TotalsIn(m), Zeros, k, "reloaded", O)
  BY <1>1, ReloadKnows DEF Known
<1>3. /\ nodes' = [nodes EXCEPT ![o] = NodesIn(m)]
      /\ counts' = [counts EXCEPT ![o] = CountsIn(m)]
      /\ total' = [total EXCEPT ![o] = TotalsIn(m)]
      /\ depth' = [depth EXCEPT ![o] = Zeros]
      /\ size' = [size EXCEPT ![o] = k]
      /\ history' = [history EXCEPT ![o] = "reloaded"]
  BY DEF Reload
<1> HIDE DEF m, k
<1>4. PyInv' /\ Occ' = [Occ EXCEPT ![o] = Mirror(O)]
  <2>1. Becomes(o, NodesIn(m), CountsIn(m), TotalsIn(m), Zeros, k, "reloaded")
    BY <1>3 DEF Becomes
  <2> QED BY <1>2, <2>1, Changed
<1>5. Occ[o] = Mirror(O)
  BY <1>1, OwnOf DEF Occ
<1>6. Occ = [Occ EXCEPT ![o] = Occ[o]]
  BY DEF Occ
<1> QED BY <1>4, <1>5, <1>6

(* Every call keeps the invariant and does what it promises. *)
LEMMA PyStep ==
  ASSUME PyInv, Next
  PROVE  PyInv' /\ [EF!Next]_Occ
<1>1. PICK o \in Objects :
        \/ \E n \in 0 .. MaxSize : New(o, n)
        \/ \E p \in Contexts, t \in Tokens : Parse(o, p, t)
        \/ \E s \in Texts, b \in 1 .. B + 1, ignore_start \in BOOLEAN :
             ParseAll(o, s, b, ignore_start)
        \/ \E x \in Objects : Merge(o, x)
        \/ Reload(o)
  BY DEF Next
<1>2. ASSUME NEW n \in 0 .. MaxSize, New(o, n)
      PROVE  PyInv' /\ [EF!Next]_Occ
  <2>1. PyInv' /\ EF!Forget(Occ, Occ', o)
    BY <1>2, NewStep
  <2> QED BY <2>1 DEF EF!Next, Occ
<1>3. ASSUME NEW p \in Contexts, NEW t \in Tokens, Parse(o, p, t)
      PROVE  PyInv' /\ [EF!Next]_Occ
  <2> DEFINE told == {[next |-> t, prefix |-> p, at |-> 0]}
  <2>1. Observe(o, told)
    BY <1>3 DEF Parse
  <2>2. Patterned(told) /\ Mirror(TableOf(told)) \in Lessons
    BY PatternTeaches
  <2> HIDE DEF told
  <2>3. PyInv' /\ EF!Learn(Occ, Occ', o)
    BY <2>1, <2>2, ObserveStep
  <2> QED BY <2>3 DEF EF!Next, Occ
<1>4. ASSUME NEW s \in Texts, NEW b \in 1 .. B + 1, NEW ignore_start \in BOOLEAN,
             ParseAll(o, s, b, ignore_start)
      PROVE  PyInv' /\ [EF!Next]_Occ
  <2> DEFINE told == Blocks(s, b) \cup (IF ignore_start THEN {} ELSE Leading(s, b))
  <2>1. Observe(o, told)
    BY <1>4 DEF ParseAll
  <2>2. {x.prefix : x \in told} \subseteq Contexts
    BY <2>1 DEF Observe
  <2>3. Patterned(told) /\ Mirror(TableOf(told)) \in Lessons
    BY <2>2, TextTeaches
  <2> HIDE DEF told
  <2>4. PyInv' /\ EF!Learn(Occ, Occ', o)
    BY <2>1, <2>3, ObserveStep
  <2> QED BY <2>4 DEF EF!Next, Occ
<1>5. ASSUME NEW x \in Objects, Merge(o, x)
      PROVE  PyInv' /\ [EF!Next]_Occ
  <2>1. PyInv' /\ EF!Add(Occ, Occ', o, x)
    BY <1>5, MergeStep
  <2> QED BY <2>1 DEF EF!Next, Occ
<1>6. ASSUME Reload(o)
      PROVE  PyInv' /\ [EF!Next]_Occ
  BY <1>6, ReloadStep
<1> QED BY <1>1, <1>2, <1>3, <1>4, <1>5, <1>6

LEMMA PyStart ==
  ASSUME Init
  PROVE  PyInv /\ EF!Init
<1>1. Knows(Made(0), NoneCounted, Zeros, Zeros, 0, "parsed", Blank)
  BY NewKnows
<1>2. Typed(Made(0), NoneCounted, Zeros, Zeros, 0, "parsed")
  BY <1>1 DEF Knows
<1>3. \A o \in Objects : Known(o, Blank)
  BY <1>1 DEF Init, Known
<1>4. PyInv
  BY <1>2, <1>3 DEF PyInv, Init, Typed
<1>5. \A o \in Objects : Own(o) = Mirror(Blank)
  BY <1>3, OwnOf
<1>6. [o \in Objects |-> Own(o)] = [o \in Objects |-> EF!Nothing]
  BY <1>5, NothingIs
<1> QED BY <1>4, <1>6 DEF EF!Init

LEMMA PyInvAlways == Spec => []PyInv
<1>1. Init => PyInv
  BY PyStart
<1>2. PyInv /\ [Next]_vars => PyInv'
  <2>1. PyInv /\ UNCHANGED vars => PyInv'
    BY DEF PyInv, vars, Known
  <2> QED BY <2>1, PyStep
<1> QED BY <1>1, <1>2, PTL DEF Spec

-----------------------------------------------------------------------------
(* Theorems *)

(***************************************************************************)
(* A text adds its patterns once, also when parse_all stops half way, a    *)
(* merge adds up what both observed, a new object has observed nothing,    *)
(* and a round trip through the protocol buffer changes nothing.           *)
(***************************************************************************)
THEOREM ObservationsAlways == Spec => ImplementsEmpiricalFrequency
<1>1. Init => EF!Init
  BY PyStart
<1>2. PyInv /\ Next => [EF!Next]_Occ
  BY PyStep
<1>3. UNCHANGED vars => UNCHANGED Occ
  BY DEF vars, Occ, Own
<1>4. PyInv /\ [Next]_vars => [EF!Next]_([o \in Objects |-> Own(o)])
  BY <1>2, <1>3 DEF Occ
<1>5. Spec => EF!Spec
  BY <1>1, <1>4, PyInvAlways, PTL DEF Spec, EF!Spec
<1> QED BY <1>5 DEF ImplementsEmpiricalFrequency

(***************************************************************************)
(* The variables keep their types: whole trees, and numbers that a depth   *)
(* may reach.                                                              *)
(***************************************************************************)
THEOREM TypesAlways == Spec => []TypeOK
<1>1. PyInv => TypeOK
  <2> SUFFICES ASSUME PyInv
               PROVE  TypeOK
    OBVIOUS
  <2>1. ASSUME NEW o \in Objects
        PROVE  nodes[o] \subseteq Paths /\ {Tail(q) : q \in nodes[o] \ {<<>>}} \subseteq nodes[o]
    <3>1. Whole(nodes[o])
      BY DEF PyInv, Trees
    <3>2. ASSUME NEW q \in nodes[o], q # <<>>
          PROVE  Tail(q) \in nodes[o]
      <4>1. q \in Seq(Tokens) /\ q \in Suffixes(q) /\ Suffixes(q) \subseteq nodes[o]
        BY <3>1, PathFacts, OwnSuffix DEF Whole
      <4> QED BY <3>2, <4>1, SuffixFacts
    <3> QED BY <3>1, <3>2 DEF Whole
  <2>2. nodes \in [Objects -> SUBSET Paths]
    BY <2>1 DEF PyInv
  <2> QED BY <2>1, <2>2 DEF PyInv, TypeOK
<1> QED BY <1>1, PyInvAlways, PTL

(* What all trees count for a token is what is gathered at the set. *)
LEMMA RootsGather ==
  ASSUME NEW o, NEW O, Known(o, O), NEW t \in Tokens
  PROVE  LET roots == Children(nodes[o], <<>>)
         IN  SumOver(roots, [r \in roots |-> counts[o][r][t]]) = Gathered(Of(O, t), <<>>)
<1> DEFINE N == nodes[o]
           roots == Children(N, <<>>)
           F == Of(O, t)
           g == [r \in roots |-> counts[o][r][t]]
<1>1. /\ N \in Trees /\ O \in Tables(N, Idle(size[o], history[o]))
      /\ Counted(counts[o], O, history[o])
  BY DEF Known, Knows, Typed
<1>2. /\ F \in [Paths -> Nat] /\ \A q \in Paths \ N : F[q] = 0
      /\ Whole(N) /\ <<>> \in Paths /\ F[<<>>] = 0
  BY <1>1, OfFacts, RootIsPath DEF Trees
<1>3. \A r \in roots : r \in Paths /\ r # <<>>
  BY <1>2, TreeFinite DEF Children
<1>4. \A r \in roots : g[r] = Gathered(F, r)
  BY <1>1, <1>3 DEF Counted
<1>5. IsFiniteSet(roots) /\ \A r \in roots : g[r] \in Nat
  BY <1>2, <1>3, <1>4, TreeFinite, GatheredType
<1> HIDE DEF F, g, N
<1>6. Gathered(F, <<>>) = F[<<>>] + SumOver(roots, g)
  BY <1>2, <1>4, GatheredFromChildren
<1>7. SumOver(roots, g) \in Nat
  BY <1>5, SumType
<1> HIDE DEF roots
<1>8. SumOver(roots, g) = Gathered(F, <<>>)
  BY <1>2, <1>6, <1>7
<1> QED BY <1>8 DEF roots, g, F, N

(***************************************************************************)
(* The set's sampler counts all that the trees count while texts are only  *)
(* parsed, and a part of it after merges and reloads.                      *)
(***************************************************************************)
THEOREM SetSamplesPartAlways == Spec => []SetSamplesPart
<1>1. PyInv => SetSamplesPart
  <2> SUFFICES ASSUME PyInv, NEW o \in Objects, NEW t \in Tokens
               PROVE  LET roots == Children(nodes[o], <<>>)
                          seen == SumOver(roots, [r \in roots |-> counts[o][r][t]])
                      IN  /\ counts[o][<<>>][t] <= seen
                          /\ history[o] = "parsed" => counts[o][<<>>][t] = seen
    BY Zenon DEF SetSamplesPart
  <2>1. PICK O : Known(o, O)
    BY DEF PyInv
  <2>2. Counted(counts[o], O, history[o])
    BY <2>1 DEF Known, Knows
  <2>3. /\ counts[o][<<>>][t] <= Gathered(Of(O, t), <<>>)
        /\ history[o] = "parsed" => counts[o][<<>>][t] = Gathered(Of(O, t), <<>>)
    BY <2>2, RootIsPath DEF Counted
  <2> QED BY <2>1, <2>3, RootsGather
<1> QED BY <1>1, PyInvAlways, PTL

(***************************************************************************)
(* A depth is never below the height before a reload, and is the height    *)
(* while texts are only parsed.                                            *)
(***************************************************************************)
THEOREM DepthsCoverTreesAlways == Spec => []DepthsCoverTrees
<1>1. PyInv => DepthsCoverTrees
  <2> SUFFICES ASSUME PyInv, NEW o \in Objects, NEW q \in Paths, q \in nodes[o],
                      q # <<>> \/ Mass(o) > 0
               PROVE  LET height == Max({Len(r) - Len(q) : r \in Below(nodes[o], q)}) IN
                      /\ history[o] = "parsed" => depth[o][q] = height
                      /\ history[o] # "reloaded" => depth[o][q] >= height
    BY Zenon DEF DepthsCoverTrees
  <2> DEFINE N == nodes[o]
             heights == {Len(r) - Len(q) : r \in Below(N, q)}
             d == depth[o][q]
  <2>1. PICK O : Known(o, O)
    BY DEF PyInv
  <2>2. N \in Trees /\ Whole(N) /\ d \in Nat /\ B \in Nat /\ Deep(N, depth[o], O, history[o])
    BY <2>1, PythonAssumption, BlockAssumption DEF Known, Knows, Typed, Trees
  <2>3. ASSUME NEW r \in Below(N, q)
        PROVE  r \in N /\ Len(r) \in Nat /\ Len(q) \in Nat /\ Len(q) <= Len(r) /\ Len(r) <= B
    BY <2>2, BelowFacts
  <2>4. q \in Below(N, q)
    BY <2>2, OwnBelow
  <2>5. ASSUME history[o] # "reloaded", NEW r \in Below(N, q)
        PROVE  Len(r) - Len(q) <= d
    <3>1. Covers(N, depth[o], O)
      BY <2>2, <2>5 DEF Deep
    <3>2. CASE q # <<>>
      <4>1. Len(r) <= d + Len(q)
        BY <3>1, <3>2 DEF Covers
      <4> QED BY <2>2, <2>3, <4>1
    <3>3. CASE q = <<>>
      <4>1. O # Blank
        BY <2>1, <3>3, WorthObserved DEF Worth, Known
      <4>2. Len(r) <= d /\ Len(q) = 0
        BY <2>3, <3>1, <3>3, <4>1 DEF Covers
      <4> QED BY <2>2, <2>3, <4>2
    <3> QED BY <3>2, <3>3
  <2>6. heights \subseteq Nat /\ heights # {} /\ \A y \in heights : y <= B
    <3>1. \A r \in Below(N, q) : Len(r) - Len(q) \in Nat /\ Len(r) - Len(q) <= B
      BY <2>2, <2>3
    <3> QED BY <2>4, <3>1
  <2>7. ASSUME history[o] # "reloaded"
        PROVE  Max(heights) <= d
    <3>1. \A y \in heights : y <= d
      BY <2>5, <2>7
    <3> HIDE DEF heights, d
    <3> QED BY <2>2, <2>6, <3>1, Greatest
  <2>8. ASSUME history[o] = "parsed"
        PROVE  d = Max(heights)
    <3>1. PICK r \in Below(N, q) : d + Len(q) <= Len(r)
      BY <2>2, <2>8 DEF Deep, Reaches
    <3>2. Len(r) - Len(q) <= d
      BY <2>5, <2>8
    <3>3. d = Len(r) - Len(q)
      BY <2>2, <2>3, <3>1, <3>2
    <3>4. d \in heights /\ \A y \in heights : y <= d
      BY <2>5, <2>8, <3>3
    <3> HIDE DEF heights, d
    <3>5. heights \subseteq Int
      BY <2>6
    <3>6. Max(heights) = d
      BY <3>4, <3>5, LargestIs
    <3> QED BY <3>6
  <2>9. Max(heights) \in Nat
    <3> HIDE DEF heights
    <3> QED BY <2>2, <2>6, Greatest
  <2> HIDE DEF heights, d
  <2>10. (history[o] # "reloaded" => d >= Max(heights)) /\ (history[o] = "parsed" => d = Max(heights))
    BY <2>2, <2>7, <2>8, <2>9
  <2> QED BY <2>10 DEF heights, d
<1> QED BY <1>1, PyInvAlways, PTL

-----------------------------------------------------------------------------
(* The three descents *)

(* What is left of a sequence at its end is a suffix of that length. *)
LEMMA EndingFacts ==
  ASSUME NEW p \in Seq(Tokens), NEW n \in 0 .. Len(p)
  PROVE  /\ Ending(p, n) \in Suffixes(p) /\ Ending(p, n) \in Seq(Tokens) /\ Len(Ending(p, n)) = n
         /\ Ending(p, Len(p)) = p /\ Ending(p, 0) = <<>>
         /\ \A q \in Suffixes(p) : Len(q) = n => q = Ending(p, n)
<1> DEFINE l == Len(p)
<1>1. l \in Nat /\ n \in Nat /\ n <= l /\ l = Len(p)
  OBVIOUS
<1>2. SubSeq(p, l + 1, l) = <<>> /\ SubSeq(p, 1, l) = p
  BY SubSeqEmpty, SubSeqFull
<1> HIDE DEF l
<1>3. Ending(p, 0) = <<>> /\ Ending(p, l) = p
  <2>1. l - 0 + 1 = l + 1 /\ l - l + 1 = 1
    BY <1>1
  <2> QED BY <1>1, <1>2, <2>1 DEF Ending
<1>4. \A q \in Suffixes(p) : Len(q) = n => q = Ending(p, n)
  BY SuffixByLength DEF Ending
<1>5. CASE n = 0
  BY <1>1, <1>3, <1>4, <1>5, EmptySeq DEF Suffixes
<1>6. CASE n # 0
  <2> DEFINE i == l - n + 1
  <2>1. i \in 1 .. l /\ l - i + 1 = n
    BY <1>1, <1>6
  <2>2. Ending(p, n) = SubSeq(p, i, l)
    BY <1>1 DEF Ending
  <2> HIDE DEF i
  <2>3. Ending(p, n) \in Suffixes(p)
    BY <1>1, <2>1, <2>2 DEF Suffixes
  <2>4. SubSeq(p, i, l) \in Seq(Tokens) /\ Len(SubSeq(p, i, l)) = n
    BY <1>1, <2>1
  <2> QED BY <1>1, <1>3, <1>4, <2>2, <2>3, <2>4
<1> QED BY <1>5, <1>6

\* The longest ending of p that is a node of N.
Longest(N, p, d) ==
    /\ d \in Suffixes(p) \cap N /\ d \in Seq(Tokens)
    /\ \A q \in Suffixes(p) \cap N : Len(q) <= Len(d)

LEMMA LongestExists ==
  ASSUME NEW N, Whole(N), NEW p \in Seq(Tokens)
  PROVE  \E d : Longest(N, p, d)
<1> DEFINE known == Suffixes(p) \cap N
           lengths == {Len(q) : q \in known}
<1>1. \A q \in known : q \in Seq(Tokens) /\ Len(q) \in Nat /\ Len(q) <= Len(p)
  BY SuffixFacts
<1>2. <<>> \in known
  BY DEF Whole, Suffixes
<1> HIDE DEF known
<1>3. lengths \subseteq Nat /\ lengths # {} /\ (\A n \in lengths : n <= Len(p)) /\ Len(p) \in Nat
  <2>1. lengths \subseteq Nat /\ \A n \in lengths : n <= Len(p)
    BY <1>1
  <2>2. Len(<<>>) \in lengths
    BY <1>2
  <2>3. Len(p) \in Nat
    OBVIOUS
  <2> QED BY <2>1, <2>2, <2>3
<1>4. Max(lengths) \in lengths /\ \A n \in lengths : n <= Max(lengths)
  <2> HIDE DEF lengths
  <2> QED BY <1>3, Greatest
<1>5. PICK d \in known : Len(d) = Max(lengths)
  BY <1>4
<1>6. \A q \in known : Len(q) <= Len(d)
  BY <1>4, <1>5
<1> QED BY <1>1, <1>5, <1>6 DEF Longest, known

(* Exactly the endings up to the longest one are nodes. *)
LEMMA EndingsKnown ==
  ASSUME NEW N, Whole(N), NEW p \in Seq(Tokens), NEW d, Longest(N, p, d)
  PROVE  /\ Len(d) \in 0 .. Len(p) /\ d = Ending(p, Len(d))
         /\ \A n \in 0 .. Len(p) : Ending(p, n) \in N <=> n <= Len(d)
<1>1. d \in Suffixes(p) /\ d \in N /\ d \in Seq(Tokens) /\ Len(d) \in Nat
  BY DEF Longest
<1>2. Len(d) <= Len(p)
  BY <1>1, SuffixFacts
<1>3. Len(d) \in 0 .. Len(p)
  <2>1. Len(p) \in Nat
    OBVIOUS
  <2> QED BY <1>1, <1>2, <2>1
<1>4. d = Ending(p, Len(d))
  BY <1>1, <1>3, EndingFacts
<1>5. ASSUME NEW n \in 0 .. Len(p), Ending(p, n) \in N
      PROVE  n <= Len(d)
  <2>1. Ending(p, n) \in Suffixes(p) /\ Len(Ending(p, n)) = n
    BY EndingFacts
  <2> QED BY <1>5, <2>1 DEF Longest
<1>6. ASSUME NEW n \in 0 .. Len(p), n <= Len(d)
      PROVE  Ending(p, n) \in N
  <2>1. n \in 0 .. Len(d)
    BY <1>6
  <2>2. Ending(d, n) \in Suffixes(d) /\ Len(Ending(d, n)) = n
    BY <1>1, <2>1, EndingFacts
  <2>3. Ending(d, n) \in Suffixes(p)
    BY <1>1, <2>2, SuffixOfSuffix
  <2>4. Ending(d, n) = Ending(p, n)
    BY <2>2, <2>3, EndingFacts
  <2> QED BY <1>1, <2>2, <2>4 DEF Whole
<1> QED BY <1>3, <1>4, <1>5, <1>6

\* f is the descent from the set along p.
Descent(N, p, f) ==
    f = [n \in 0 .. Len(p) |->
           IF n < Len(p) /\ Ending(p, n + 1) \in N THEN f[n + 1] ELSE Ending(p, n)]

LEMMA ReachedIs ==
  ASSUME NEW o, Whole(nodes[o]), NEW p \in Seq(Tokens)
  PROVE  Longest(nodes[o], p, Reached(o, p))
<1> DEFINE N == nodes[o]
           l == Len(p)
<1>1. PICK d : Longest(N, p, d)
  BY LongestExists
<1> DEFINE m == Len(d)
<1>2. /\ m \in 0 .. l /\ d = Ending(p, m) /\ l \in Nat /\ m \in Nat /\ l = Len(p)
      /\ \A n \in 0 .. l : Ending(p, n) \in N <=> n <= m
  BY <1>1, EndingsKnown
<1> HIDE DEF m, l, N
<1>3. \E f : Descent(N, p, f)
  <2> DEFINE f == [n \in 0 .. l |-> IF n <= m THEN d ELSE Ending(p, n)]
             g == [n \in 0 .. l |->
                     IF n < l /\ Ending(p, n + 1) \in N THEN f[n + 1] ELSE Ending(p, n)]
  <2>1. ASSUME NEW n \in 0 .. l
        PROVE  f[n] = g[n]
    <3>1. f[n] = IF n <= m THEN d ELSE Ending(p, n)
      OBVIOUS
    <3>2. g[n] = IF n < l /\ Ending(p, n + 1) \in N THEN f[n + 1] ELSE Ending(p, n)
      OBVIOUS
    <3>3. CASE n < m
      <4>1. n + 1 \in 0 .. l /\ n + 1 <= m /\ n < l
        BY <1>2, <3>3
      <4>2. f[n + 1] = d /\ Ending(p, n + 1) \in N
        BY <1>2, <4>1
      <4> HIDE DEF f, g
      <4> QED BY <1>2, <3>1, <3>2, <3>3, <4>1, <4>2
    <3>4. CASE n >= m
      <4>1. ~ (n < l /\ Ending(p, n + 1) \in N)
        <5> SUFFICES ASSUME n < l
                     PROVE  Ending(p, n + 1) \notin N
          OBVIOUS
        <5>1. n + 1 \in 0 .. l /\ ~ (n + 1 <= m)
          BY <1>2, <3>4
        <5> QED BY <1>2, <5>1
      <4>2. g[n] = Ending(p, n)
        BY <3>2, <4>1
      <4>3. n <= m => n = m
        BY <1>2, <3>4
      <4> HIDE DEF f, g
      <4> QED BY <1>2, <3>1, <4>2, <4>3
    <3> QED BY <1>2, <3>3, <3>4
  <2>2. f = g
    <3>1. f = [n \in 0 .. l |-> f[n]] /\ g = [n \in 0 .. l |-> g[n]]
      OBVIOUS
    <3> HIDE DEF f, g
    <3> QED BY <2>1, <3>1
  <2> HIDE DEF f
  <2>3. Descent(N, p, f)
    BY <1>2, <2>2 DEF Descent
  <2> QED BY <2>3
<1> DEFINE f == CHOOSE x : Descent(N, p, x)
<1>4. Descent(N, p, f)
  BY <1>3
<1>5. Reached(o, p) = f[0]
  BY DEF Reached, Descent, N
<1> HIDE DEF f
<1>6. ASSUME NEW n \in 0 .. l
      PROVE  f[n] = IF n < l /\ Ending(p, n + 1) \in N THEN f[n + 1] ELSE Ending(p, n)
  BY <1>2, <1>4 DEF Descent
<1> DEFINE T == {i \in 0 .. m : f[m - i] = d}
<1>7. 0 \in T
  <2>1. m \in 0 .. l /\ m - 0 = m /\ 0 \in 0 .. m
    BY <1>2
  <2>2. ~ (m < l /\ Ending(p, m + 1) \in N)
    <3> SUFFICES ASSUME m < l
                 PROVE  Ending(p, m + 1) \notin N
      OBVIOUS
    <3>1. m + 1 \in 0 .. l /\ ~ (m + 1 <= m)
      BY <1>2
    <3> QED BY <1>2, <3>1
  <2>3. f[m] = d
    BY <1>2, <1>6, <2>1, <2>2
  <2> QED BY <2>1, <2>3
<1>8. ASSUME NEW i \in 0 .. m, i \in T, i # m
      PROVE  i + 1 \in T
  <2>1. m - (i + 1) \in 0 .. l /\ m - (i + 1) < l /\ (m - (i + 1)) + 1 = m - i /\ m - i \in 0 .. l
        /\ m - i <= m /\ i + 1 \in 0 .. m
    BY <1>2, <1>8
  <2>2. Ending(p, m - i) \in N /\ f[m - i] = d
    BY <1>2, <1>8, <2>1
  <2>3. f[m - (i + 1)] = d
    BY <1>6, <2>1, <2>2
  <2> QED BY <2>1, <2>3
<1>9. m \in T
  <2> HIDE DEF T
  <2>1. \A i \in 0 .. m : i \in T
    BY <1>2, <1>7, <1>8, Stepwise
  <2> QED BY <1>2, <2>1
<1>10. f[0] = d
  BY <1>2, <1>9
<1> QED BY <1>1, <1>5, <1>10 DEF N

\* f says from which depth on p is found.
Finding(N, p, f) ==
    f = [n \in 1 .. Len(p) |-> n = Len(p) \/ (Ending(p, n + 1) \in N /\ f[n + 1])]

(* match raises for a single known token, and knows of longer contexts. *)
LEMMA MatchIs ==
  ASSUME NEW o, Whole(nodes[o]), NEW p \in Seq(Tokens), p # <<>>
  PROVE  match(o, p) = IF p \notin nodes[o] THEN {FALSE}
                       ELSE IF Len(p) = 1 THEN {} ELSE {TRUE}
<1> DEFINE N == nodes[o]
           l == Len(p)
<1>1. /\ l \in Nat /\ l > 0 /\ Ending(p, l) = p /\ l = Len(p)
      /\ p \in N => \A n \in 1 .. l : Ending(p, n) \in N
  <2>1. Len(p) \in 0 .. Len(p)
    OBVIOUS
  <2>2. p \in N => Suffixes(p) \subseteq N
    BY DEF Whole
  <2>3. p \in N => \A n \in 0 .. Len(p) : Ending(p, n) \in N
    BY <2>2, EndingFacts
  <2> QED BY <2>1, <2>3, EndingFacts, EmptySeq
<1> HIDE DEF l, N
<1>2. \E f : Finding(N, p, f)
  <2> DEFINE f == [n \in 1 .. l |-> n = l \/ p \in N]
             g == [n \in 1 .. l |-> n = l \/ (Ending(p, n + 1) \in N /\ f[n + 1])]
  <2>1. ASSUME NEW n \in 1 .. l
        PROVE  f[n] = g[n]
    <3>1. f[n] = (n = l \/ p \in N)
      OBVIOUS
    <3>2. g[n] = (n = l \/ (Ending(p, n + 1) \in N /\ f[n + 1]))
      OBVIOUS
    <3>3. CASE n = l
      BY <3>1, <3>2, <3>3
    <3>4. CASE n # l
      <4>1. n + 1 \in 1 .. l
        BY <1>1, <3>4
      <4>2. f[n + 1] = (n + 1 = l \/ p \in N)
        BY <4>1
      <4> HIDE DEF f, g
      <4>3. CASE p \in N
        <5>1. f[n + 1] = TRUE /\ Ending(p, n + 1) \in N
          BY <1>1, <4>1, <4>2, <4>3
        <5>2. g[n] = TRUE /\ f[n] = TRUE
          BY <3>1, <3>2, <4>3, <5>1
        <5> QED BY <5>2
      <4>4. CASE p \notin N
        <5>1. f[n] = FALSE
          BY <3>1, <3>4, <4>4
        <5>2. ~ (Ending(p, n + 1) \in N /\ f[n + 1])
          BY <1>1, <4>2, <4>4
        <5>3. g[n] = FALSE
          BY <3>2, <3>4, <5>2
        <5> QED BY <5>1, <5>3
      <4> QED BY <4>3, <4>4
    <3> QED BY <3>3, <3>4
  <2>2. f = g
    <3>1. f = [n \in 1 .. l |-> f[n]] /\ g = [n \in 1 .. l |-> g[n]]
      OBVIOUS
    <3> HIDE DEF f, g
    <3> QED BY <2>1, <3>1
  <2> HIDE DEF f
  <2>3. Finding(N, p, f)
    BY <1>1, <2>2 DEF Finding
  <2> QED BY <2>3
<1> DEFINE f == CHOOSE x : Finding(N, p, x)
<1>3. Finding(N, p, f)
  BY <1>2
<1>4. match(o, p) = IF Ending(p, 1) \notin N THEN {FALSE} ELSE IF l = 1 THEN {} ELSE {f[1]}
  BY <1>1 DEF match, Finding, N
<1> HIDE DEF f
<1>5. ASSUME NEW n \in 1 .. l
      PROVE  f[n] <=> (n = l \/ (Ending(p, n + 1) \in N /\ f[n + 1]))
  BY <1>1, <1>3 DEF Finding
<1>6. ASSUME l # 1
      PROVE  /\ p \in N => f[1] = TRUE
             /\ p \notin N => f[1] = FALSE
  <2>0. \E z \in Nat : l = z + 2
    <3>1. l - 2 \in Nat /\ l = (l - 2) + 2
      BY <1>1, <1>6
    <3> QED BY <3>1
  <2> PICK z \in Nat : l = z + 2
    BY <2>0
  <2> DEFINE T == {i \in 0 .. z : f[l - (i + 1)] <=> p \in N}
  <2>1. 0 \in T
    <3>1. /\ l - 1 \in 1 .. l /\ l - 1 # l /\ (l - 1) + 1 = l /\ l \in 1 .. l /\ 0 \in 0 .. z
          /\ l - (0 + 1) = l - 1
      BY <1>1, <1>6
    <3>2. f[l]
      BY <1>5, <3>1
    <3>3. f[l - 1] <=> p \in N
      BY <1>1, <1>5, <3>1, <3>2
    <3> QED BY <3>1, <3>3
  <2>2. ASSUME NEW i \in 0 .. z, i \in T, i # z
        PROVE  i + 1 \in T
    <3> DEFINE n == l - ((i + 1) + 1)
    <3>1. n \in 1 .. l /\ n # l /\ n + 1 = l - (i + 1) /\ n + 1 \in 1 .. l /\ i + 1 \in 0 .. z
      BY <1>1, <1>6, <2>2
    <3> HIDE DEF n
    <3>2. f[n + 1] <=> p \in N
      BY <2>2, <3>1
    <3>3. f[n] <=> Ending(p, n + 1) \in N /\ f[n + 1]
      BY <1>5, <3>1
    <3>4. f[n] <=> p \in N
      BY <1>1, <3>1, <3>2, <3>3
    <3> QED BY <3>1, <3>4 DEF n
  <2> HIDE DEF T
  <2>4. \A i \in 0 .. z : i \in T
    BY <2>1, <2>2, Stepwise
  <2>5. z \in T /\ l - (z + 1) = 1
    BY <2>4
  <2>6. f[1] <=> p \in N
    BY <2>5 DEF T
  <2>7. f[1] \in BOOLEAN
    <3>1. f[1] = (1 = l \/ (Ending(p, 1 + 1) \in N /\ f[1 + 1]))
      BY <1>1, <1>3 DEF Finding
    <3> QED BY <3>1
  <2>8. ASSUME p \notin N
        PROVE  f[1] = FALSE
    <3>1. ~ f[1]
      BY <2>6, <2>8
    <3> QED BY <2>7, <3>1, Zenon
  <2> QED BY <2>6, <2>7, <2>8
<1>7. p \in N => Ending(p, 1) \in N
  BY <1>1
<1>8. CASE l = 1
  <2>1. Ending(p, 1) = p
    BY <1>1, <1>8
  <2> QED BY <1>1, <1>4, <1>8, <2>1 DEF N
<1>9. CASE l # 1 /\ Ending(p, 1) \notin N
  BY <1>1, <1>4, <1>7, <1>9 DEF N
<1>10. CASE l # 1 /\ Ending(p, 1) \in N
  <2>1. /\ p \in N => f[1] = TRUE
        /\ p \notin N => f[1] = FALSE
    BY <1>6, <1>10
  <2>2. match(o, p) = {f[1]}
    BY <1>4, <1>10
  <2>3. l = Len(p) /\ Len(p) # 1
    BY <1>1, <1>10
  <2>4. CASE p \in N
    BY <2>1, <2>2, <2>3, <2>4 DEF N
  <2>5. CASE p \notin N
    <3>1. f[1] = FALSE
      BY <2>1, <2>5
    <3>2. match(o, p) = {FALSE}
      BY <2>2, <3>1
    <3> QED BY <2>5, <3>2 DEF N
  <2> QED BY <2>4, <2>5
<1> QED BY <1>8, <1>9, <1>10

\* The nodes without children at or below q.
Leaves(N, q) == {r \in Below(N, q) : Children(N, r) = {}}

(* A node without children is its own leaf; the leaves below others are those of children. *)
LEMMA LeavesBelow ==
  ASSUME NEW N, Whole(N), NEW q \in N
  PROVE  /\ Children(N, q) = {} => Leaves(N, q) = {q}
         /\ Children(N, q) # {} => Leaves(N, q) = UNION {Leaves(N, k) : k \in Children(N, q)}
<1> DEFINE kids == Children(N, q)
<1>1. q \in Below(N, q)
  BY OwnBelow
<1>2. ASSUME kids = {}
      PROVE  Leaves(N, q) = {q}
  <2>1. \A r \in Below(N, q) : r = q
    BY <1>2, NextDown
  <2> QED BY <1>1, <1>2, <2>1 DEF Leaves
<1>3. ASSUME kids # {}, NEW r \in Leaves(N, q)
      PROVE  \E k \in kids : r \in Leaves(N, k)
  <2>1. r \in Below(N, q) /\ Children(N, r) = {}
    BY <1>3 DEF Leaves
  <2>2. r # q
    BY <1>3, <2>1
  <2>3. PICK k \in kids : r \in Below(N, k)
    BY <2>1, <2>2, NextDown
  <2> QED BY <2>1, <2>3 DEF Leaves
<1>4. ASSUME NEW k \in kids, NEW r \in Leaves(N, k)
      PROVE  r \in Leaves(N, q)
  <2>1. r \in Below(N, k) /\ Children(N, r) = {}
    BY <1>4 DEF Leaves
  <2>2. r \in Below(N, q)
    BY <2>1, UpFromChild
  <2> QED BY <2>1, <2>2 DEF Leaves
<1> HIDE DEF kids
<1>5. kids # {} => Leaves(N, q) = UNION {Leaves(N, k) : k \in kids}
  BY <1>3, <1>4
<1> QED BY <1>2, <1>5 DEF kids

\* What the leaves at or below q give, and a function f of that for each node.
Given(N, leaf, q) == UNION {leaf[r] : r \in Leaves(N, q)}

Walk(N, leaf, f) ==
    f = [q \in Paths |-> IF Children(N, q) = {} THEN leaf[q]
                         ELSE UNION {f[r] : r \in Children(N, q)}]

(* A leaf gives its own, a node that is none what its children give. *)
LEMMA GivenBelow ==
  ASSUME NEW N, Whole(N), NEW leaf, NEW q \in N
  PROVE  /\ Children(N, q) = {} => Given(N, leaf, q) = leaf[q]
         /\ Children(N, q) # {} =>
              Given(N, leaf, q) = UNION {Given(N, leaf, k) : k \in Children(N, q)}
<1>1. /\ Children(N, q) = {} => Leaves(N, q) = {q}
      /\ Children(N, q) # {} => Leaves(N, q) = UNION {Leaves(N, k) : k \in Children(N, q)}
  BY LeavesBelow
<1>2. ASSUME Children(N, q) = {}
      PROVE  Given(N, leaf, q) = leaf[q]
  BY <1>1, <1>2 DEF Given
<1>3. ASSUME Children(N, q) # {}
      PROVE  Given(N, leaf, q) = UNION {Given(N, leaf, k) : k \in Children(N, q)}
  BY <1>1, <1>3 DEF Given
<1> QED BY <1>2, <1>3

(* The walk down a tree finds what its leaves give. *)
LEMMA LeavesGive ==
  ASSUME NEW o, Whole(nodes[o]), NEW leaf, NEW e \in Paths
  PROVE  FromLeaves(o, leaf, e) =
           IF e \in nodes[o] THEN Given(nodes[o], leaf, e) ELSE leaf[e]
<1> DEFINE N == nodes[o]
<1>1. /\ N \subseteq Paths /\ <<>> \in N
      /\ \A q \in Paths \ N : Children(N, q) = {}
      /\ \A q : Children(N, q) \subseteq N
  BY NoChildOutside DEF Whole, Children
<1>2. \E f : Walk(N, leaf, f)
  <2> DEFINE f == [q \in Paths |-> IF q \in N THEN Given(N, leaf, q) ELSE leaf[q]]
             g == [q \in Paths |-> IF Children(N, q) = {} THEN leaf[q]
                                   ELSE UNION {f[r] : r \in Children(N, q)}]
  <2>1. \A q \in Paths : f[q] = IF q \in N THEN Given(N, leaf, q) ELSE leaf[q]
    OBVIOUS
  <2>2. \A q \in Paths : g[q] = IF Children(N, q) = {} THEN leaf[q]
                                ELSE UNION {f[r] : r \in Children(N, q)}
    OBVIOUS
  <2>3. f = [q \in Paths |-> f[q]] /\ g = [q \in Paths |-> g[q]]
    OBVIOUS
  <2> HIDE DEF f
  <2>4. ASSUME NEW q \in Paths
        PROVE  f[q] = g[q]
    <3> DEFINE kids == Children(N, q)
    <3> HIDE DEF g
    <3>1. CASE q \notin N
      <4>1. kids = {}
        BY <1>1, <3>1
      <4>2. f[q] = leaf[q]
        BY <2>1, <3>1
      <4> QED BY <2>2, <4>1, <4>2
    <3>2. CASE q \in N /\ kids = {}
      <4>1. Given(N, leaf, q) = leaf[q]
        BY <3>2, GivenBelow
      <4>2. f[q] = leaf[q]
        BY <2>1, <3>2, <4>1
      <4> QED BY <2>2, <3>2, <4>2
    <3>3. CASE q \in N /\ kids # {}
      <4>1. \A r \in kids : f[r] = Given(N, leaf, r)
        BY <1>1, <2>1
      <4>2. Given(N, leaf, q) = UNION {Given(N, leaf, k) : k \in kids}
        BY <3>3, GivenBelow
      <4>3. f[q] = Given(N, leaf, q) /\ g[q] = UNION {f[r] : r \in kids}
        BY <2>1, <2>2, <3>3
      <4> HIDE DEF kids
      <4> QED BY <4>1, <4>2, <4>3
    <3> QED BY <3>1, <3>2, <3>3
  <2>5. f = g
    <3> HIDE DEF g
    <3> QED BY <2>3, <2>4
  <2>6. Walk(N, leaf, f)
    BY <2>5 DEF Walk
  <2> QED BY <2>6
<1> DEFINE f == CHOOSE x : Walk(N, leaf, x)
<1>3. Walk(N, leaf, f)
  BY <1>2
<1>4. FromLeaves(o, leaf, e) = f[e]
  BY DEF FromLeaves, Walk
<1> HIDE DEF f, N
<1>5. \A q \in Paths : f[q] = IF Children(N, q) = {} THEN leaf[q]
                              ELSE UNION {f[r] : r \in Children(N, q)}
  BY <1>3 DEF Walk
<1>6. Whole(N)
  BY DEF N
<1> DEFINE T == {i \in 0 .. B : \A q \in N : Len(q) >= B - i => f[q] = Given(N, leaf, q)}
<1>7. ASSUME NEW q \in N, \A k \in Children(N, q) : f[k] = Given(N, leaf, k)
      PROVE  f[q] = Given(N, leaf, q)
  <2> DEFINE kids == Children(N, q)
  <2>1. f[q] = IF kids = {} THEN leaf[q] ELSE UNION {f[r] : r \in kids}
    BY <1>1, <1>5
  <2>2. /\ kids = {} => Given(N, leaf, q) = leaf[q]
        /\ kids # {} => Given(N, leaf, q) = UNION {Given(N, leaf, k) : k \in kids}
    BY <1>6, GivenBelow
  <2>3. \A k \in kids : f[k] = Given(N, leaf, k)
    BY <1>7
  <2> HIDE DEF kids
  <2> QED BY <2>1, <2>2, <2>3
<1>8. \A q \in N : Len(q) \in Nat /\ Len(q) <= B /\ q \in Seq(Tokens)
  BY <1>1, PathFacts
<1>9. \A q \in N : \A k \in Children(N, q) : k \in N /\ Len(k) = Len(q) + 1
  <2> SUFFICES ASSUME NEW q \in N, NEW k \in Children(N, q)
               PROVE  k \in N /\ Len(k) = Len(q) + 1
    OBVIOUS
  <2>1. k \in N
    BY <1>1
  <2>2. k \in Below(N, k)
    BY <1>6, <2>1, OwnBelow
  <2> QED BY <1>6, <2>1, <2>2, UpFromChild
<1>10. 0 \in T
  <2>1. ASSUME NEW q \in N, Len(q) >= B - 0
        PROVE  f[q] = Given(N, leaf, q)
    <3>1. Children(N, q) = {}
      BY <1>8, <1>9, <2>1, BlockAssumption
    <3> QED BY <1>7, <3>1
  <2>2. 0 \in 0 .. B
    BY BlockAssumption
  <2> QED BY <2>1, <2>2
<1>11. ASSUME NEW i \in 0 .. B, i \in T, i # B
       PROVE  i + 1 \in T
  <2>1. i + 1 \in 0 .. B
    BY <1>11, BlockAssumption
  <2>2. ASSUME NEW q \in N, Len(q) >= B - (i + 1)
        PROVE  f[q] = Given(N, leaf, q)
    <3>1. \A k \in Children(N, q) : k \in N /\ Len(k) >= B - i
      BY <1>8, <1>9, <2>2, BlockAssumption
    <3> QED BY <1>7, <1>11, <3>1
  <2> QED BY <2>1, <2>2
<1>12. e \in N => f[e] = Given(N, leaf, e)
  <2> SUFFICES ASSUME e \in N
               PROVE  f[e] = Given(N, leaf, e)
    OBVIOUS
  <2> HIDE DEF T
  <2>1. B \in T
    <3>1. \A i \in 0 .. B : i \in T
      BY <1>10, <1>11, BlockAssumption, Stepwise
    <3> QED BY <3>1, BlockAssumption
  <2>2. \A q \in N : Len(q) >= B - B => f[q] = Given(N, leaf, q)
    BY <2>1 DEF T
  <2>3. e \in N /\ Len(e) >= B - B
    BY <1>8, BlockAssumption
  <2> QED BY <2>2, <2>3
<1>13. e \notin N => f[e] = leaf[e]
  BY <1>1, <1>5
<1> QED BY <1>4, <1>12, <1>13 DEF N

(* What prefixes lists are the leaves of the trees. *)
LEMMA PrefixesAre ==
  ASSUME NEW o, Whole(nodes[o])
  PROVE  prefixes(o) = Leaves(nodes[o], <<>>) \ {<<>>}
<1> DEFINE leaf == [q \in Paths |-> {q}]
           N == nodes[o]
<1>1. <<>> \in N /\ N \subseteq Paths
  BY DEF Whole
<1>2. FromLeaves(o, leaf, <<>>) = Given(N, leaf, <<>>)
  <2> HIDE DEF leaf
  <2> QED BY <1>1, LeavesGive
<1>3. Leaves(N, <<>>) \subseteq Paths
  BY <1>1 DEF Leaves, Below
<1>4. \A r \in Leaves(N, <<>>) : leaf[r] = {r}
  BY <1>3
<1> HIDE DEF leaf
<1>5. Given(N, leaf, <<>>) = Leaves(N, <<>>)
  BY <1>4 DEF Given
<1> QED BY <1>2, <1>5 DEF prefixes, leaf

(* What patterns lists are the leaves of the trees made in advance, with their successors. *)
LEMMA PatternsAre ==
  ASSUME NEW o, Whole(nodes[o]), B > 0,
         \A q \in Paths \ nodes[o] : Support([counts |-> counts[o][q]]) = {},
         NEW x
  PROVE  x \in patterns(o) <=>
           \E t \in Tokens : /\ t < size[o] /\ <<t>> \in nodes[o]
                             /\ \E r \in Leaves(nodes[o], <<t>>) :
                                  x \in [prefix : {r}, next : Support([counts |-> counts[o][r]])]
<1> DEFINE leaf == LeafPatterns(o)
           N == nodes[o]
           row(r) == [prefix : {r}, next : Support([counts |-> counts[o][r]])]
<1>1. \A q \in Paths : FromLeaves(o, leaf, q) = IF q \in N THEN Given(N, leaf, q) ELSE leaf[q]
  <2> HIDE DEF leaf
  <2> QED BY LeavesGive
<1>2. \A q \in Paths : leaf[q] = row(q)
  BY DEF LeafPatterns
<1>3. \A q : \A r \in Leaves(N, q) : r \in Paths
  BY DEF Leaves, Below, Whole
<1>4. \A t \in Tokens : <<t>> \in Paths
  BY ShortPaths, BlockAssumption
<1>5. \A q \in Paths \ N : row(q) = {}
  OBVIOUS
<1> HIDE DEF leaf, row
<1>6. \A q : x \in Given(N, leaf, q) <=> \E r \in Leaves(N, q) : x \in row(r)
  BY <1>2, <1>3 DEF Given
<1>7. \A t \in Tokens :
        x \in FromLeaves(o, leaf, <<t>>) <=>
          <<t>> \in N /\ \E r \in Leaves(N, <<t>>) : x \in row(r)
  <2> SUFFICES ASSUME NEW t \in Tokens
               PROVE  x \in FromLeaves(o, leaf, <<t>>) <=>
                        <<t>> \in N /\ \E r \in Leaves(N, <<t>>) : x \in row(r)
    OBVIOUS
  <2> DEFINE q == <<t>>
  <2>1. q \in Paths
    BY <1>4
  <2> HIDE DEF q
  <2>2. CASE q \in N
    BY <1>1, <1>6, <2>1, <2>2 DEF q
  <2>3. CASE q \notin N
    <3>1. FromLeaves(o, leaf, q) = {}
      BY <1>1, <1>2, <1>5, <2>1, <2>3
    <3> QED BY <2>3, <3>1 DEF q
  <2> QED BY <2>2, <2>3
<1>8. patterns(o) = UNION {FromLeaves(o, leaf, <<t>>) : t \in {u \in Tokens : u < size[o]}}
  BY DEF patterns, leaf
<1> QED BY <1>7, <1>8 DEF row

(* Every node has a leaf below it. *)
LEMMA LeafBelow ==
  ASSUME NEW N, Whole(N), NEW q \in N
  PROVE  \E r \in Leaves(N, <<>>) : q \in Suffixes(r) /\ Len(q) <= Len(r)
<1> DEFINE lengths == {Len(r) : r \in Below(N, q)}
<1>1. q \in Below(N, q)
  BY OwnBelow
<1>2. \A r \in Below(N, q) : /\ r \in N /\ q \in Suffixes(r) /\ Len(r) \in Nat /\ Len(q) \in Nat
                             /\ Len(q) <= Len(r) /\ Len(r) <= B
  BY BelowFacts
<1>3. lengths \subseteq Nat /\ lengths # {} /\ \A n \in lengths : n <= B
  BY <1>1, <1>2
<1>4. Max(lengths) \in lengths /\ \A n \in lengths : n <= Max(lengths)
  <2> HIDE DEF lengths
  <2> QED BY <1>3, BlockAssumption, Greatest
<1>5. PICK r \in Below(N, q) : Len(r) = Max(lengths)
  BY <1>4
<1>6. \A z \in Below(N, q) : Len(z) <= Len(r)
  BY <1>4, <1>5
<1> HIDE DEF lengths
<1>7. Children(N, r) = {}
  <2> SUFFICES ASSUME NEW k \in Children(N, r)
               PROVE  FALSE
    OBVIOUS
  <2>1. k \in N
    BY DEF Children
  <2>2. k \in Below(N, k)
    BY <2>1, OwnBelow
  <2>3. k \in Below(N, r) /\ Len(k) = Len(r) + 1
    BY <2>2, UpFromChild
  <2>4. k \in Seq(Tokens) /\ r \in Suffixes(k)
    BY <2>1, <2>3, PathFacts DEF Below, Whole
  <2>5. q \in Suffixes(k)
    BY <1>2, <2>4, SuffixOfSuffix
  <2>6. k \in Below(N, q)
    BY <2>1, <2>5 DEF Below
  <2> QED BY <1>2, <1>6, <2>3, <2>6
<1>8. <<>> \in Suffixes(r)
  BY DEF Suffixes
<1> QED BY <1>2, <1>7, <1>8 DEF Leaves, Below

-----------------------------------------------------------------------------
(* Sampling *)

(* A node that may not be empty counts something, and any total is the sum of its counts. *)
LEMMA NodeCounts ==
  ASSUME NEW o, NEW O, Known(o, O), NEW q \in Paths
  PROVE  /\ total[o][q] = SumOver(Tokens, counts[o][q])
         /\ total[o][q] \in Nat
         /\ total[o][q] > 0 <=> \E t \in Tokens : counts[o][q][t] > 0
         /\ q # <<>> /\ total[o][q] > 0 => q \in nodes[o]
         /\ q \in nodes[o] \ Idle(size[o], history[o]) /\ q # <<>> => total[o][q] > 0
<1> DEFINE N == nodes[o]
           c == counts[o][q]
           n == total[o][q]
<1>1. /\ N \in Trees /\ counts[o] \in [Paths -> Counts] /\ total[o] \in [Paths -> Nat]
      /\ O \in Tables(N, Idle(size[o], history[o]))
      /\ Counted(counts[o], O, history[o]) /\ Totalled(counts[o], total[o])
  BY DEF Known, Knows, Typed
<1>2. n = SumOver(Tokens, c) /\ n \in Nat /\ \A t \in Tokens : c[t] \in Nat
  BY <1>1 DEF Totalled, Counts
<1>3. n > 0 <=> \E t \in Tokens : c[t] > 0
  <2> HIDE DEF c, n
  <2> QED BY <1>2, TokensAssumption, SumPositive
<1>4. ASSUME q # <<>>, n > 0
      PROVE  q \in N
  <2>1. PICK t \in Tokens : c[t] > 0
    BY <1>3, <1>4
  <2>2. Gathered(Of(O, t), q) > 0
    BY <1>1, <1>4, <2>1 DEF Counted
  <2>3. q \notin N => Gathered(Of(O, t), q) = 0
    BY <1>1, NothingOutside
  <2> QED BY <2>2, <2>3
<1>5. ASSUME q \in N \ Idle(size[o], history[o]), q # <<>>
      PROVE  n > 0
  <2>1. \E t \in Tokens : TRUE
    <3>1. PICK r \in Below(N, q) : \E t \in Tokens : O[r][t] > 0
      BY <1>1, <1>5 DEF Tables
    <3> QED BY <3>1
  <2>2. PICK t \in Tokens : TRUE
    BY <2>1
  <2>3. \E u \in Tokens : Gathered(Of(O, u), q) > 0
    BY <1>1, <1>5, <2>2, NothingOutside
  <2>4. \E u \in Tokens : c[u] > 0
    BY <1>1, <1>5, <2>3 DEF Counted
  <2> QED BY <1>3, <2>4
<1> QED BY <1>2, <1>3, <1>4, <1>5 DEF N, c, n

(* A context is answered by its node, if it has one. *)
LEMMA NodeReached ==
  ASSUME NEW o, Whole(nodes[o]), NEW p \in nodes[o]
  PROVE  Reached(o, p) = p
<1> DEFINE N == nodes[o]
           d == Reached(o, p)
<1>1. p \in Seq(Tokens) /\ p \in Paths
  BY PathFacts DEF Whole
<1>2. Longest(N, p, d)
  BY <1>1, ReachedIs
<1> HIDE DEF d
<1>3. Len(p) \in 0 .. Len(p) /\ p = Ending(p, Len(p))
  <2>1. Len(p) \in 0 .. Len(p)
    BY <1>1
  <2> QED BY <1>1, <2>1, EndingFacts
<1>4. p \in Suffixes(p)
  BY <1>1, <1>3, EndingFacts
<1>5. Len(d) = Len(p)
  <2>1. Len(p) <= Len(d)
    BY <1>2, <1>4 DEF Longest
  <2>2. Len(d) <= Len(p) /\ Len(d) \in Nat
    BY <1>1, <1>2, SuffixFacts DEF Longest
  <2> QED BY <1>1, <2>1, <2>2
<1>6. d = p
  BY <1>1, <1>2, <1>3, <1>5, EndingFacts DEF Longest
<1> QED BY <1>6 DEF d

(* The tree of a context is that of its last token. *)
LEMMA TreeOfLast ==
  ASSUME NEW r \in Seq(Tokens), r # <<>>, NEW t \in Tokens
  PROVE  <<t>> \in Suffixes(r) <=> Last(r) = t
<1>1. 1 \in 0 .. Len(r) /\ Len(r) \in 1 .. Len(r)
  BY EmptySeq
<1>2. Ending(r, 1) = <<Last(r)>>
  <2>1. Ending(r, 1) = SubSeq(r, Len(r), Len(r))
    <3>1. Len(r) - 1 + 1 = Len(r)
      BY <1>1
    <3> QED BY <3>1 DEF Ending
  <2>2. SubSeq(r, Len(r), Len(r)) = <<r[Len(r)]>>
    <3> DEFINE n == Len(r)
               z == SubSeq(r, n, n)
    <3>1. z \in Seq(Tokens) /\ Len(z) = 1 /\ \A i \in 1 .. 1 : z[i] = r[n]
      <4>1. n \in Int /\ n - n + 1 = 1 /\ \A i \in 1 .. 1 : n + i - 1 = n
        BY <1>1
      <4> HIDE DEF n
      <4>2. n \in 1 .. Len(r)
        BY <1>1 DEF n
      <4> QED BY <4>1, <4>2, SubSeqProperties
    <3> HIDE DEF z
    <3>2. z = <<z[1]>> /\ z[1] = r[n]
      BY <3>1
    <3> QED BY <3>2 DEF z
  <2> QED BY <2>1, <2>2 DEF Last
<1>3. Len(<<t>>) = 1
  OBVIOUS
<1>4. <<t>> \in Suffixes(r) => <<t>> = <<Last(r)>>
  BY <1>1, <1>2, <1>3, EndingFacts
<1>5. <<Last(r)>> \in Suffixes(r)
  BY <1>1, <1>2, EndingFacts
<1> QED BY <1>4, <1>5

(***************************************************************************)
(* match knows the contexts of two tokens or more that end one of those    *)
(* that prefixes lists, and raises for a single token that was seen;       *)
(* search returns the longest ending that is listed; and patterns lists,   *)
(* for the trees made in advance, each leaf with what sample draws there.  *)
(***************************************************************************)
THEOREM ListingsAgreeAlways == Spec => []ListingsAgree
<1>1. PyInv => ListingsAgree
  <2> SUFFICES ASSUME PyInv, NEW o \in Objects
               PROVE  LET listed == (UNION {Suffixes(p) : p \in prefixes(o)}) \ {<<>>} IN
                      /\ \A p \in Contexts :
                           /\ match(o, p) = IF p \notin listed THEN {FALSE}
                                            ELSE IF Len(p) = 1 THEN {} ELSE {TRUE}
                           /\ \A q \in Suffixes(p) \ {<<>>} :
                                q \in listed <=> Len(q) <= Len(search(o, p))
                      /\ patterns(o) =
                           {x \in [prefix : {p \in prefixes(o) : Last(p) < size[o]}, next : Tokens] :
                              x.next \in sample(o, x.prefix)}
    BY Zenon DEF ListingsAgree
  <2> DEFINE N == nodes[o]
             listed == (UNION {Suffixes(p) : p \in prefixes(o)}) \ {<<>>}
             drawn(r) == Support([counts |-> counts[o][r]])
  <2>1. Whole(N) /\ N \subseteq Paths
    BY DEF PyInv, Trees
  <2>2. \A p \in Contexts : p \in Paths /\ p # <<>> /\ p \in Seq(Tokens)
    BY PathFacts DEF Contexts
  <2>3. prefixes(o) = Leaves(N, <<>>) \ {<<>>}
    BY <2>1, PrefixesAre
  <2>4. \A r \in Leaves(N, <<>>) : r \in N
    BY DEF Leaves, Below
  <2>5. \A p \in Contexts : p \in listed <=> p \in N
    <3>1. ASSUME NEW p \in Contexts, p \in N
          PROVE  \E r \in prefixes(o) : p \in Suffixes(r)
      <4>1. PICK r \in Leaves(N, <<>>) : p \in Suffixes(r) /\ Len(p) <= Len(r)
        BY <2>1, <3>1, LeafBelow
      <4>2. r # <<>>
        <5>1. Len(p) >= 1 /\ Len(<<>>) = 0
          BY <2>2, EmptySeq
        <5> QED BY <4>1, <5>1
      <4> QED BY <2>3, <4>1, <4>2
    <3>2. ASSUME NEW r \in prefixes(o), NEW p \in Suffixes(r)
          PROVE  p \in N
      BY <2>1, <2>3, <2>4 DEF Whole
    <3> QED BY <2>2, <3>1, <3>2
  <2> HIDE DEF listed
  <2>6. ASSUME NEW p \in Contexts
        PROVE  match(o, p) = IF p \notin listed THEN {FALSE}
                             ELSE IF Len(p) = 1 THEN {} ELSE {TRUE}
    BY <2>1, <2>2, <2>5, MatchIs
  <2>7. ASSUME NEW p \in Contexts, NEW q \in Suffixes(p) \ {<<>>}
        PROVE  q \in listed <=> Len(q) <= Len(search(o, p))
    <3> DEFINE d == Reached(o, p)
    <3>1. p \in Seq(Tokens) /\ p \in Paths
      BY <2>2
    <3>2. Longest(N, p, d)
      BY <2>1, <3>1, ReachedIs
    <3> HIDE DEF d
    <3>3. q \in Contexts /\ q \in Seq(Tokens) /\ Len(q) \in 0 .. Len(p) /\ q = Ending(p, Len(q))
      <4>1. q \in Seq(Tokens) /\ Len(q) <= Len(p) /\ q \in Paths
        BY <3>1, SuffixFacts, SuffixesArePaths
      <4>2. Len(q) \in 0 .. Len(p)
        BY <3>1, <4>1
      <4> QED BY <3>1, <4>1, <4>2, EndingFacts DEF Contexts
    <3>4. Ending(p, Len(q)) \in N <=> Len(q) <= Len(d)
      BY <2>1, <3>1, <3>2, <3>3, EndingsKnown
    <3> QED BY <2>5, <3>3, <3>4 DEF search, d
  <2>8. \A q \in Paths \ N : drawn(q) = {}
    <3> SUFFICES ASSUME NEW q \in Paths \ N
                 PROVE  drawn(q) = {}
      OBVIOUS
    <3>1. PICK O : Known(o, O)
      BY DEF PyInv
    <3>2. /\ total[o][q] > 0 <=> \E t \in Tokens : counts[o][q][t] > 0
          /\ q # <<>> /\ total[o][q] > 0 => q \in N
      BY <3>1, NodeCounts
    <3>3. q # <<>>
      BY <2>1 DEF Whole
    <3>4. \A t \in Tokens : ~ (counts[o][q][t] > 0)
      BY <3>2, <3>3
    <3> QED BY <3>4 DEF Support
  <2>9. \A r \in prefixes(o) : drawn(r) = sample(o, r)
    BY <2>1, <2>3, <2>4, NodeReached DEF sample
  <2>10. \A r \in prefixes(o) : r \in Seq(Tokens) /\ r # <<>> /\ Suffixes(r) \subseteq N
    BY <2>1, <2>3, <2>4, PathFacts DEF Whole
  <2>11. \A r \in prefixes(o) : Last(r) \in Tokens
    BY <2>10, EmptySeq DEF Last
  <2>12. ASSUME NEW t \in Tokens
         PROVE  \A r : r \in Leaves(N, <<t>>) <=> r \in prefixes(o) /\ Last(r) = t
    <3>1. ASSUME NEW r \in Leaves(N, <<t>>)
          PROVE  r \in prefixes(o) /\ Last(r) = t
      <4>1. r \in N /\ <<t>> \in Suffixes(r) /\ Children(N, r) = {} /\ r \in Seq(Tokens)
        BY <2>1, PathFacts DEF Leaves, Below
      <4>2. <<>> \in Suffixes(r) /\ r # <<>>
        <5>1. <<>> \in Suffixes(r)
          BY DEF Suffixes
        <5>2. Len(<<t>>) = 1 /\ Len(<<t>>) <= Len(r)
          BY <4>1, SuffixFacts
        <5>3. Len(<<>>) = 0
          BY EmptySeq
        <5> QED BY <5>1, <5>2, <5>3
      <4> QED BY <2>3, <4>1, <4>2, TreeOfLast DEF Leaves, Below
    <3>2. ASSUME NEW r \in prefixes(o), Last(r) = t
          PROVE  r \in Leaves(N, <<t>>)
      <4>1. <<t>> \in Suffixes(r)
        BY <2>10, <3>2, TreeOfLast
      <4> QED BY <2>3, <4>1 DEF Leaves, Below
    <3> QED BY <3>1, <3>2
  <2>13. \A t \in Tokens : \A r \in Leaves(N, <<t>>) : <<t>> \in N
    BY <2>10, <2>12, TreeOfLast
  <2>14. \A x : x \in patterns(o) <=>
            \E r \in prefixes(o) : Last(r) < size[o] /\ x \in [prefix : {r}, next : drawn(r)]
    <3> SUFFICES ASSUME NEW x
                 PROVE  x \in patterns(o) <=>
                          \E r \in prefixes(o) : /\ Last(r) < size[o]
                                                 /\ x \in [prefix : {r}, next : drawn(r)]
      OBVIOUS
    <3>1. x \in patterns(o) <=>
            \E t \in Tokens : /\ t < size[o] /\ <<t>> \in N
                              /\ \E r \in Leaves(N, <<t>>) : x \in [prefix : {r}, next : drawn(r)]
      BY <2>1, <2>8, PatternsAre, PythonAssumption
    <3> HIDE DEF drawn
    <3> QED BY <2>11, <2>12, <2>13, <3>1
  <2>15. \A r : drawn(r) \subseteq Tokens
    BY DEF Support
  <2> HIDE DEF drawn
  <2>16. patterns(o) =
           {x \in [prefix : {p \in prefixes(o) : Last(p) < size[o]}, next : Tokens] :
              x.next \in sample(o, x.prefix)}
    <3>1. ASSUME NEW x \in patterns(o)
          PROVE  /\ x \in [prefix : {p \in prefixes(o) : Last(p) < size[o]}, next : Tokens]
                 /\ x.next \in sample(o, x.prefix)
      <4>1. PICK r \in prefixes(o) : Last(r) < size[o] /\ x \in [prefix : {r}, next : drawn(r)]
        BY <2>14, <3>1
      <4>2. x.prefix = r /\ x.next \in drawn(r)
        BY <4>1
      <4>3. x \in [prefix : {p \in prefixes(o) : Last(p) < size[o]}, next : Tokens]
        BY <2>15, <4>1, <4>2
      <4> QED BY <2>9, <4>1, <4>2, <4>3
    <3>2. ASSUME NEW x \in [prefix : {p \in prefixes(o) : Last(p) < size[o]}, next : Tokens],
                 x.next \in sample(o, x.prefix)
          PROVE  x \in patterns(o)
      <4>1. x.prefix \in prefixes(o) /\ Last(x.prefix) < size[o]
            /\ x = [prefix |-> x.prefix, next |-> x.next]
        OBVIOUS
      <4>2. x.next \in drawn(x.prefix)
        BY <2>9, <3>2, <4>1
      <4>3. x \in [prefix : {x.prefix}, next : drawn(x.prefix)]
        BY <4>1, <4>2
      <4> QED BY <2>14, <4>1, <4>3
    <3> QED BY <3>1, <3>2
  <2> QED BY <2>6, <2>7, <2>16 DEF listed
<1> QED BY <1>1, PyInvAlways, PTL

(* The walk over the counts of a node with a positive total ends with a token. *)
LEMMA Answers ==
  ASSUME NEW o, NEW O, Known(o, O), NEW p \in Seq(Tokens),
         Reached(o, p) \in Paths, total[o][Reached(o, p)] > 0
  PROVE  /\ ~ raises(o, p)
         /\ sample(o, p) \subseteq Tokens /\ sample(o, p) # {}
<1> DEFINE q == Reached(o, p)
<1>1. /\ total[o][q] = SumOver(Tokens, counts[o][q]) /\ total[o][q] \in Nat /\ total[o][q] > 0
      /\ \E t \in Tokens : counts[o][q][t] > 0
  BY NodeCounts
<1>2. raises(o, p) <=> total[o][q] = 0 \/ total[o][q] > SumOver(Tokens, counts[o][q])
  BY DEF raises, Malforms
<1>3. sample(o, p) = {t \in Tokens : counts[o][q][t] > 0}
  BY DEF sample, Support
<1> HIDE DEF q
<1>4. ~ raises(o, p)
  BY <1>1, <1>2
<1> QED BY <1>1, <1>3, <1>4

LEMMA NotEmpty == \A r \in Seq(Tokens) : r # <<>> <=> Len(r) >= 1
BY EmptySeq

(* The nodes that may be empty are the set and the trees of tokens. *)
LEMMA IdleIsShort ==
  ASSUME NEW n, NEW h, NEW q \in Idle(n, h)
  PROVE  Len(q) \in Nat /\ Len(q) <= 1
<1>1. q \in Seq(Tokens) /\ Len(q) <= IF h = "parsed" /\ n = 0 THEN 0 ELSE 1
  BY PathFacts DEF Idle
<1>2. Len(q) \in Nat
  BY <1>1
<1> QED BY <1>1, <1>2

(* What sample and probability say after a token that was seen as a context. *)
LEMMA SeenAnswers ==
  ASSUME NEW o, NEW O, Known(o, O), NEW p \in Contexts,
         NEW e \in Suffixes(p), Len(e) = 1, total[o][e] > 0
  PROVE  /\ ~raises(o, p)
         /\ sample(o, p) = {t \in Tokens : probability(o, p, t).count > 0}
         /\ \A t \in Tokens : probability(o, p, t).total =
              SumOver(Tokens, [u \in Tokens |-> probability(o, p, u).count])
<1> DEFINE N == nodes[o]
<1>1. Whole(N) /\ N \subseteq Paths
  BY DEF Known, Knows, Typed, Trees
<1>2. p \in Seq(Tokens) /\ p \in Paths
  BY PathFacts DEF Contexts
<1>3. e \in Paths /\ e \in Seq(Tokens) /\ e # <<>>
  BY <1>2, SuffixesArePaths, SuffixFacts, NotEmpty
<1>4. PICK q : q = Reached(o, p) /\ Longest(N, p, q)
  BY <1>1, <1>2, ReachedIs
<1>5. e \in N
  BY <1>3, NodeCounts
<1>6. q \in N /\ q \in Paths /\ q \in Suffixes(p) /\ q \in Seq(Tokens) /\ Len(e) <= Len(q)
  BY <1>1, <1>4, <1>5 DEF Longest
<1>7. Len(q) \in Nat /\ Len(q) >= 1 /\ q # <<>>
  BY <1>6, NotEmpty
<1>8. total[o][q] > 0
  <2>1. CASE q \in Idle(size[o], history[o])
    <3>1. Len(q) <= 1
      BY <2>1, IdleIsShort
    <3>2. Len(q) = Len(e)
      <4> HIDE DEF N
      <4> DEFINE k == Len(q)
      <4>1. k \in Nat /\ k >= 1 /\ k <= 1
        BY <1>7, <3>1
      <4> HIDE DEF k
      <4>2. k = 1
        BY <4>1
      <4> QED BY <4>2 DEF k
    <3>3. q = e
      BY <1>2, <1>6, <3>2, SuffixByLength
    <3> QED BY <3>3
  <2>2. CASE q \notin Idle(size[o], history[o])
    BY <1>6, <1>7, <2>2, NodeCounts
  <2> QED BY <2>1, <2>2
<1>9. ~ raises(o, p)
  BY <1>2, <1>4, <1>6, <1>8, Answers
<1>10. \A t \in Tokens : /\ probability(o, p, t).count = counts[o][q][t]
                         /\ probability(o, p, t).total = total[o][q]
  BY <1>4 DEF probability
<1>11. sample(o, p) = {t \in Tokens : counts[o][q][t] > 0}
  BY <1>4 DEF sample, Support
<1>12. total[o][q] = SumOver(Tokens, counts[o][q])
  BY <1>6, NodeCounts
<1>13. SumOver(Tokens, [u \in Tokens |-> probability(o, p, u).count]) = SumOver(Tokens, counts[o][q])
  <2> DEFINE f == [u \in Tokens |-> probability(o, p, u).count]
             g == counts[o][q]
  <2>1. \A u \in Tokens : f[u] = g[u]
    BY <1>10
  <2> HIDE DEF f, g
  <2>2. SumOver(Tokens, f) = SumOver(Tokens, g)
    BY <2>1, SumSame
  <2> QED BY <2>2 DEF f, g
<1> QED BY <1>9, <1>10, <1>11, <1>12, <1>13

(***************************************************************************)
(* After a token that was seen as a context nothing raises: sample draws   *)
(* exactly the tokens to which probability gives a share of the whole.     *)
(***************************************************************************)
THEOREM SeenTokenAnswersAlways == Spec => []SeenTokenAnswers
<1> DEFINE Answered(o, p) ==
             /\ ~raises(o, p)
             /\ sample(o, p) = {t \in Tokens : probability(o, p, t).count > 0}
             /\ \A t \in Tokens : probability(o, p, t).total =
                  SumOver(Tokens, [u \in Tokens |-> probability(o, p, u).count])
<1>1. PyInv => \A o \in Objects, p \in Contexts, e \in Paths :
                 e \in Suffixes(p) /\ Len(e) = 1 /\ total[o][e] > 0 => Answered(o, p)
  BY SeenAnswers DEF PyInv
<1>2. \A p \in Contexts : LET e == Ending(p, 1) IN e \in Paths /\ e \in Suffixes(p) /\ Len(e) = 1
  <2> SUFFICES ASSUME NEW p \in Contexts
               PROVE  LET e == Ending(p, 1) IN e \in Paths /\ e \in Suffixes(p) /\ Len(e) = 1
    OBVIOUS
  <2> DEFINE m == 1
  <2>1. p \in Seq(Tokens) /\ p \in Paths /\ m \in 0 .. Len(p) /\ m = 1
    BY PathFacts, NotEmpty DEF Contexts
  <2> HIDE DEF m
  <2>2. Ending(p, m) \in Suffixes(p) /\ Len(Ending(p, m)) = m
    BY <2>1, EndingFacts
  <2>3. Ending(p, m) \in Paths
    BY <2>1, <2>2, SuffixesArePaths
  <2> QED BY <2>1, <2>2, <2>3
<1>3. PyInv => SeenTokenAnswers
  <2> HIDE DEF Answered
  <2>1. PyInv => \A o \in Objects, p \in Contexts : total[o][Ending(p, 1)] > 0 => Answered(o, p)
    BY <1>1, <1>2
  <2> QED BY <2>1, Zenon DEF SeenTokenAnswers, Answered
<1> QED BY <1>3, PyInvAlways, PTL

(* Trees that were only parsed and seen something answer after any text. *)
LEMMA AlwaysAnswers ==
  ASSUME NEW o, NEW O, Known(o, O), history[o] = "parsed", size[o] = 0, total[o][<<>>] > 0,
         NEW p \in Seq(Tokens)
  PROVE  ~ raises(o, p) /\ sample(o, p) \subseteq Tokens
<1> DEFINE q == Reached(o, p)
<1>1. Whole(nodes[o]) /\ nodes[o] \subseteq Paths
  BY DEF Known, Knows, Typed, Trees
<1>2. Longest(nodes[o], p, q)
  BY <1>1, ReachedIs
<1>3. q \in nodes[o] /\ q \in Paths /\ q \in Seq(Tokens)
  BY <1>1, <1>2 DEF Longest
<1>4. total[o][q] > 0
  <2> HIDE DEF q
  <2>1. CASE q = <<>>
    BY <2>1
  <2>2. CASE q # <<>>
    <3>1. Len(q) \in Nat /\ Len(q) # 0
      BY <1>3, <2>2, EmptySeq
    <3>2. q \notin Idle(size[o], history[o])
      BY <3>1 DEF Idle
    <3> QED BY <1>3, <2>2, <3>2, NodeCounts
  <2> QED BY <2>1, <2>2
<1> QED BY <1>3, <1>4, Answers

\* What one more turn of generate makes of the lists with what was drawn before turn i.
Drawn(o, window, prompt, i, before) ==
    {code \in before : Len(code) < Len(prompt) + i - 1 \/ raises(o, Latest(code, window))}
      \cup UNION {{Append(code, t) : t \in sample(o, Latest(code, window))} :
                   code \in {c \in before : Len(c) = Len(prompt) + i - 1}}

\* f gives the lists after each turn of generate.
Growing(o, n, window, prompt, f) ==
    f = [i \in 0 .. n |-> IF i = 0 THEN {prompt} ELSE Drawn(o, window, prompt, i, f[i - 1])]

LEMMA GenerateIs ==
  ASSUME NEW o, NEW n \in Nat, NEW window, NEW prompt
  PROVE  \E f : Growing(o, n, window, prompt, f) /\ generate(o, n, window, prompt) = f[n]
<1>1. generate(o, n, window, prompt) = (CHOOSE f : Growing(o, n, window, prompt, f))[n]
  BY DEF generate, Growing, Drawn
<1> DEFINE step(i, Z) == Drawn(o, window, prompt, i, Z)
           T == {m \in 0 .. n : \E f : Growing(o, m, window, prompt, f)}
<1> HIDE DEF step
<1>2. 0 \in T
  <2> DEFINE f == [i \in 0 .. 0 |-> {prompt}]
             g == [i \in 0 .. 0 |-> IF i = 0 THEN {prompt} ELSE step(i, f[i - 1])]
  <2>1. \A i \in 0 .. 0 : i = 0
    OBVIOUS
  <2>2. f = g
    BY <2>1
  <2>3. Growing(o, 0, window, prompt, f)
    BY <2>2, Zenon DEF Growing, step
  <2> QED BY <2>3
<1>3. ASSUME NEW m \in 0 .. n, m \in T, m # n
      PROVE  m + 1 \in T
  <2>1. m \in Nat /\ m + 1 \in 0 .. n
    BY <1>3
  <2>2. PICK f : Growing(o, m, window, prompt, f)
    BY <1>3
  <2>3. \A i \in 0 .. m : f[i] = IF i = 0 THEN {prompt} ELSE step(i, f[i - 1])
    BY <2>2 DEF Growing, step
  <2> DEFINE h == [i \in 0 .. m + 1 |-> IF i = m + 1 THEN step(m + 1, f[m]) ELSE f[i]]
             g == [i \in 0 .. m + 1 |-> IF i = 0 THEN {prompt} ELSE step(i, h[i - 1])]
  <2>4. /\ \A i \in 0 .. m : h[i] = f[i]
        /\ h[m + 1] = step(m + 1, f[m])
    BY <2>1
  <2>5. \A i \in 0 .. m + 1 : g[i] = IF i = 0 THEN {prompt} ELSE step(i, h[i - 1])
    OBVIOUS
  <2>6. h = [i \in 0 .. m + 1 |-> h[i]] /\ g = [i \in 0 .. m + 1 |-> g[i]]
    OBVIOUS
  <2> HIDE DEF h
  <2>7. ASSUME NEW i \in 0 .. m + 1
        PROVE  h[i] = g[i]
    <3> HIDE DEF g
    <3>1. CASE i = m + 1
      <4>1. i # 0 /\ i - 1 = m /\ m \in 0 .. m
        BY <2>1, <3>1
      <4>2. h[i - 1] = f[m]
        BY <2>4, <4>1
      <4> QED BY <2>4, <2>5, <3>1, <4>1, <4>2
    <3>2. CASE i # m + 1 /\ i # 0
      <4>1. i \in 0 .. m /\ i - 1 \in 0 .. m
        BY <2>1, <3>2
      <4>2. h[i] = f[i] /\ h[i - 1] = f[i - 1]
        BY <2>4, <4>1
      <4>3. f[i] = step(i, f[i - 1]) /\ g[i] = step(i, h[i - 1])
        BY <2>3, <2>5, <3>2, <4>1
      <4> QED BY <4>2, <4>3
    <3>3. CASE i = 0
      <4>1. i \in 0 .. m
        BY <2>1, <3>3
      <4> QED BY <2>3, <2>4, <2>5, <3>3, <4>1
    <3> QED BY <3>1, <3>2, <3>3
  <2>8. h = g
    <3> HIDE DEF g
    <3> QED BY <2>6, <2>7
  <2>9. Growing(o, m + 1, window, prompt, h)
    BY <2>8, Zenon DEF Growing, step
  <2> QED BY <2>1, <2>9
<1>4. n \in T
  <2> HIDE DEF T
  <2>1. \A m \in 0 .. n : m \in T
    BY <1>2, <1>3, Stepwise
  <2> QED BY <2>1
<1>5. \E f : Growing(o, n, window, prompt, f)
  BY <1>4
<1> QED BY <1>1, <1>5

\* A list that begins with the prompt and has i tokens more.
Begun(prompt, i, code) ==
    code \in Seq(Tokens) /\ Len(code) = Len(prompt) + i /\ IsPrefix(prompt, code)

(* However many tokens are asked for, all of them are generated. *)
LEMMA GenerationGoesOn ==
  ASSUME NEW o, NEW O, Known(o, O), history[o] = "parsed", size[o] = 0, total[o][<<>>] > 0,
         NEW n \in Nat, NEW window \in Nat, NEW prompt \in Seq(Tokens)
  PROVE  \A code \in generate(o, n, window, prompt) : Begun(prompt, n, code)
<1>1. PICK f : Growing(o, n, window, prompt, f) /\ generate(o, n, window, prompt) = f[n]
  BY GenerateIs
<1>2. \A i \in 0 .. n : f[i] = IF i = 0 THEN {prompt} ELSE Drawn(o, window, prompt, i, f[i - 1])
  BY <1>1 DEF Growing
<1> DEFINE T == {i \in 0 .. n : \A code \in f[i] : Begun(prompt, i, code)}
<1>3. 0 \in T
  <2>1. f[0] = {prompt} /\ 0 \in 0 .. n
    BY <1>2
  <2>2. Begun(prompt, 0, prompt)
    BY DEF Begun, IsPrefix
  <2> QED BY <2>1, <2>2
<1>4. ASSUME NEW i \in 0 .. n, i \in T, i # n
      PROVE  i + 1 \in T
  <2>1. i + 1 \in 0 .. n /\ i + 1 # 0 /\ (i + 1) - 1 = i /\ i \in Nat
    BY <1>4
  <2>2. f[i + 1] = Drawn(o, window, prompt, i + 1, f[i])
    BY <1>2, <2>1
  <2>3. ASSUME NEW code \in f[i]
        PROVE  /\ code \in Seq(Tokens) /\ Len(code) = Len(prompt) + i /\ IsPrefix(prompt, code)
               /\ ~ raises(o, Latest(code, window)) /\ sample(o, Latest(code, window)) \subseteq Tokens
    <3>1. Begun(prompt, i, code)
      BY <1>4
    <3>2. Latest(code, window) \in Seq(Tokens)
      <4>1. code \in Seq(Tokens) /\ Len(code) \in Nat
        BY <3>1 DEF Begun
      <4>2. CASE window = 0 \/ Len(code) < window
        BY <4>1, <4>2 DEF Latest
      <4>3. CASE ~ (window = 0 \/ Len(code) < window)
        <5>1. window \in 0 .. Len(code)
          BY <4>1, <4>3
        <5>2. Ending(code, window) \in Seq(Tokens)
          BY <4>1, <5>1, EndingFacts
        <5> QED BY <4>3, <5>2 DEF Latest
      <4> QED BY <4>2, <4>3
    <3> QED BY <3>1, <3>2, AlwaysAnswers DEF Begun
  <2>4. ASSUME NEW next \in f[i + 1]
        PROVE  Begun(prompt, i + 1, next)
    <3>1. \A code \in f[i] : ~ (Len(code) < (Len(prompt) + (i + 1)) - 1)
      BY <2>1, <2>3
    <3>2. PICK code \in f[i] : \E t \in sample(o, Latest(code, window)) : next = Append(code, t)
      BY <2>2, <2>3, <3>1 DEF Drawn
    <3>3. PICK t \in Tokens : next = Append(code, t)
      BY <2>3, <3>2
    <3>4. code \in Seq(Tokens) /\ Len(code) = Len(prompt) + i /\ IsPrefix(prompt, code)
      BY <2>3
    <3>5. next \in Seq(Tokens) /\ Len(next) = Len(prompt) + (i + 1)
      <4>1. next \in Seq(Tokens) /\ Len(next) = Len(code) + 1 /\ Len(prompt) \in Nat
        BY <3>3, <3>4
      <4> QED BY <2>1, <3>4, <4>1
    <3>6. IsPrefix(prompt, next)
      <4> DEFINE l == Len(prompt)
      <4>1. l \in Nat /\ l <= Len(code) /\ l <= Len(next)
        BY <2>1, <3>4, <3>5
      <4>2. SubSeq(prompt, 1, l) = SubSeq(code, 1, l)
        BY <3>4 DEF IsPrefix
      <4> HIDE DEF l
      <4>3. SubSeq(next, 1, l) = SubSeq(code, 1, l)
        <5>1. /\ SubSeq(next, 1, l) \in Seq(Tokens) /\ SubSeq(code, 1, l) \in Seq(Tokens)
              /\ Len(SubSeq(next, 1, l)) = l /\ Len(SubSeq(code, 1, l)) = l
          BY <3>4, <3>5, <4>1
        <5>2. \A j \in 1 .. l : SubSeq(next, 1, l)[j] = SubSeq(code, 1, l)[j]
          BY <3>3, <3>4, <3>5, <4>1
        <5> QED BY <5>1, <5>2
      <4> QED BY <4>1, <4>2, <4>3 DEF IsPrefix, l
    <3> QED BY <3>5, <3>6 DEF Begun
  <2> QED BY <2>1, <2>4
<1>5. n \in T
  <2> HIDE DEF T
  <2>1. \A i \in 0 .. n : i \in T /\ i # n => i + 1 \in T
    BY <1>4
  <2> DEFINE first == 0
  <2>2. first \in Nat /\ first \in T /\ \A i \in first .. n : i \in T /\ i # n => i + 1 \in T
    BY <1>3, <2>1
  <2>3. n \in first .. n
    OBVIOUS
  <2> HIDE DEF first
  <2>4. \A i \in first .. n : i \in T
    BY <2>2, Stepwise
  <2> QED BY <2>3, <2>4
<1> QED BY <1>1, <1>5

(***************************************************************************)
(* Trees that were only parsed generate all the tokens they are asked for. *)
(***************************************************************************)
THEOREM GenerationCompletesAlways == Spec => []GenerationCompletes
<1>1. PyInv => GenerationCompletes
  <2> SUFFICES ASSUME PyInv, NEW o \in Objects, history[o] = "parsed", size[o] = 0,
                      total[o][<<>>] > 0, NEW prompt \in Paths, NEW window \in 0 .. B,
                      NEW code \in generate(o, 2, window, prompt)
               PROVE  Len(code) = Len(prompt) + 2 /\ IsPrefix(prompt, code)
    BY Zenon DEF GenerationCompletes
  <2>1. PICK O : Known(o, O)
    BY DEF PyInv
  <2> DEFINE n == 2
  <2>2. prompt \in Seq(Tokens) /\ window \in Nat /\ n \in Nat /\ code \in generate(o, n, window, prompt)
    BY PathFacts
  <2> HIDE DEF n
  <2>3. Begun(prompt, n, code)
    BY <2>1, <2>2, GenerationGoesOn
  <2> QED BY <2>3 DEF Begun, n
<1> QED BY <1>1, PyInvAlways, PTL
=============================================================================
