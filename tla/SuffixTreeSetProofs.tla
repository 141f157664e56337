------------------------ MODULE SuffixTreeSetProofs -------------------------
(***************************************************************************)
(* Theorems about SuffixTreeSet and SuffixTreeSetProtocol, for every       *)
(* vocabulary, block size, pool of objects and bound.  Whatever is called, *)
(* the trees are whole, every total is the sum of its counts, every depth  *)
(* is a height, and every variable keeps its type.  An object used as its  *)
(* methods intend is known by what was observed: its nodes are the         *)
(* contexts observed and their suffixes, its samplers the observations     *)
(* themselves or, once it is dense, what densify makes of them.            *)
(***************************************************************************)
EXTENDS SuffixTreeSetProtocol, SuffixPathsProofs

-----------------------------------------------------------------------------
(* The nodes *)

(* The contexts parse_all takes out of a text are nonempty paths. *)
LEMMA PatternPrefixes ==
  ASSUME NEW s \in Texts, NEW b \in 1 .. B, Len(s) > b, NEW i \in Positions(s, b)
  PROVE  Pattern(s, i, b).prefix \in Contexts
<1>1. s \in Seq(Tokens) /\ Len(s) \in Nat
  BY DEF Texts
<1>2. i \in 1 .. Len(s) /\ b \in Nat
  BY <1>1, BlockAssumption DEF Positions
<1> DEFINE from == IF i < b THEN 1 ELSE i - b + 1
<1>3. from \in 1 .. i /\ i - from + 1 <= b
  BY <1>2
<1>4. /\ SubSeq(s, from, i) \in Seq(Tokens)
      /\ Len(SubSeq(s, from, i)) = i - from + 1
  BY <1>1, <1>2, <1>3
<1>5. Len(SubSeq(s, from, i)) # 0 /\ Len(SubSeq(s, from, i)) <= B
  BY <1>2, <1>3, <1>4, BlockAssumption
<1>6. SubSeq(s, from, i) \in Paths /\ SubSeq(s, from, i) # <<>>
  BY <1>4, <1>5, PathFacts, EmptySeq
<1> QED BY <1>6 DEF Pattern, Window, Contexts

NodesOK == nodes \in [Objects -> SUBSET Paths]

(* Observing adds whole contexts with all their suffixes. *)
LEMMA ObserveNodes ==
  ASSUME NodesOK, SuffixClosed, NEW o \in Objects, NEW patterns, NEW dense,
         \A x \in patterns : x.prefix \in Paths,
         Observe(o, patterns, dense)
  PROVE  NodesOK' /\ SuffixClosed'
<1> DEFINE touched == UNION {Suffixes(x.prefix) : x \in patterns}
<1>1. nodes' = [nodes EXCEPT ![o] = @ \cup touched]
  BY DEF Observe
<1>2. touched \subseteq Paths
  BY SuffixesArePaths
<1>3. \A q \in touched : q # <<>> => Tail(q) \in touched
  BY SuffixFacts, PathFacts
<1> QED BY <1>1, <1>2, <1>3 DEF NodesOK, SuffixClosed

(* The message of an object lists its nodes, no more and no fewer. *)
LEMMA NodesInMessage == \A S, N, D : NodesIn(Message(S, N, D)) = N
<1> SUFFICES ASSUME NEW S, NEW N, NEW D
             PROVE  NodesIn(Message(S, N, D)) = N
  OBVIOUS
<1> DEFINE entry(q) ==
      [path |-> q, depth |-> D[q], total |-> S[q].total,
       counts |-> {[token |-> t, count |-> S[q].counts[t]] : t \in Support(S[q])}]
<1>1. Message(S, N, D) = {entry(q) : q \in N}
  BY DEF Message
<1>2. \A q : entry(q).path = q
  OBVIOUS
<1> HIDE DEF entry
<1> QED BY <1>1, <1>2 DEF NodesIn

(***************************************************************************)
(* In every sequence of calls, the suffixes of a node's context are nodes:  *)
(* parse creates the whole way down, merge moves subtrees to the place     *)
(* their parents have, deserialize rebuilds what was written.              *)
(***************************************************************************)
THEOREM SuffixClosedAlways == Spec => []SuffixClosed
<1>1. Init => NodesOK /\ SuffixClosed
  BY RootIsPath DEF Init, NodesOK, SuffixClosed
<1>2. NodesOK /\ SuffixClosed /\ [Next]_vars => NodesOK' /\ SuffixClosed'
  <2> SUFFICES ASSUME NodesOK, SuffixClosed, [Next]_vars
               PROVE  NodesOK' /\ SuffixClosed'
    OBVIOUS
  <2>1. ASSUME NEW o \in Objects, New(o)
        PROVE  NodesOK' /\ SuffixClosed'
    BY RootIsPath, <2>1 DEF New, NodesOK, SuffixClosed
  <2>2. ASSUME NEW o \in Objects, NEW p \in Contexts, NEW t \in Tokens,
               NEW dense \in BOOLEAN, Parse(o, p, t, dense)
        PROVE  NodesOK' /\ SuffixClosed'
    BY <2>2, ObserveNodes DEF Parse, Contexts
  <2>3. ASSUME NEW o \in Objects, NEW s \in Texts, NEW b \in 1 .. B,
               NEW dense \in BOOLEAN, ParseAll(o, s, b, dense)
        PROVE  NodesOK' /\ SuffixClosed'
    <3>1. \A x \in {Pattern(s, i, b) : i \in Positions(s, b)} : x.prefix \in Paths
      BY <2>3, PatternPrefixes DEF ParseAll, Contexts
    <3> QED BY <2>3, <3>1, ObserveNodes DEF ParseAll
  <2>4. ASSUME NEW o \in Objects, Densify(o) \/ Sparsify(o)
        PROVE  NodesOK' /\ SuffixClosed'
    BY <2>4 DEF Densify, Sparsify, NodesOK, SuffixClosed
  <2>5. ASSUME NEW o \in Objects, NEW x \in Objects, Merge(o, x)
        PROVE  NodesOK' /\ SuffixClosed'
    <3>1. /\ o # x
          /\ nodes' = [nodes EXCEPT ![o] = @ \cup nodes[x], ![x] = {<<>>}]
      BY <2>5 DEF Merge
    <3> QED BY RootIsPath, <3>1 DEF NodesOK, SuffixClosed
  <2>6. ASSUME NEW o \in Objects, NEW x \in Objects, Reload(o, x)
        PROVE  NodesOK' /\ SuffixClosed'
    <3>1. nodes' = [nodes EXCEPT ![o] = nodes[x]]
      BY <2>6, NodesInMessage DEF Reload
    <3> QED BY <3>1 DEF NodesOK, SuffixClosed
  <2>7. CASE UNCHANGED vars
    BY <2>7 DEF vars, NodesOK, SuffixClosed
  <2> QED BY <2>1, <2>2, <2>3, <2>4, <2>5, <2>6, <2>7 DEF Next, ParseCall
<1> QED BY <1>1, <1>2, PTL DEF Spec

-----------------------------------------------------------------------------
(* The trees stay whole *)

\* Every object has a whole tree.
TreesOK == nodes \in [Objects -> Trees]

(* Parsing, one pattern or a text, is observing finitely many patterns. *)
LEMMA ParseObserves ==
  ASSUME NEW o \in Objects, ParseCall(o)
  PROVE  \E patterns : \E dense \in BOOLEAN :
           /\ IsFiniteSet(patterns) /\ \A x \in patterns : x.prefix \in Contexts
           /\ patterns # {} /\ Observe(o, patterns, dense)
<1>1. ASSUME NEW p \in Contexts, NEW t \in Tokens, NEW dense \in BOOLEAN, Parse(o, p, t, dense)
      PROVE  \E patterns :
               /\ IsFiniteSet(patterns) /\ \A x \in patterns : x.prefix \in Contexts
               /\ patterns # {} /\ Observe(o, patterns, dense)
  <2> DEFINE x == [next |-> t, prefix |-> p, at |-> 0]
  <2>1. IsFiniteSet({x}) /\ Observe(o, {x}, dense)
    BY <1>1, FS_Singleton DEF Parse
  <2>2. x.prefix \in Contexts
    OBVIOUS
  <2> HIDE DEF x
  <2> QED BY <2>1, <2>2
<1>2. ASSUME NEW s \in Texts, NEW b \in 1 .. B, NEW dense \in BOOLEAN, ParseAll(o, s, b, dense)
      PROVE  \E patterns :
               /\ IsFiniteSet(patterns) /\ \A x \in patterns : x.prefix \in Contexts
               /\ patterns # {} /\ Observe(o, patterns, dense)
  <2> DEFINE at == Positions(s, b)
             patterns == {Pattern(s, i, b) : i \in at}
             f == [i \in at |-> Pattern(s, i, b)]
  <2>1. Len(s) \in Nat /\ Len(s) >= 3 /\ Len(s) > b /\ b \in Nat /\ b >= 1
    BY <1>2 DEF Texts, ParseAll
  <2>2. 1 \in at /\ at \subseteq 1 .. Len(s)
    BY <2>1 DEF Positions
  <2>3. IsFiniteSet(at)
    <3>1. IsFiniteSet(1 .. Len(s))
      BY <2>1, FS_Interval
    <3> QED BY <2>2, <3>1, FS_Subset
  <2>4. \A i \in at : Pattern(s, i, b).prefix \in Contexts
    BY <2>1, PatternPrefixes
  <2>5. f \in Surjection(at, patterns)
    BY DEF Surjection
  <2>6. Pattern(s, 1, b) \in patterns /\ \A x \in patterns : x.prefix \in Contexts
    BY <2>2, <2>4
  <2>7. Observe(o, patterns, dense)
    BY <1>2 DEF ParseAll
  <2> HIDE DEF patterns, f, at
  <2>8. IsFiniteSet(patterns)
    BY <2>3, <2>5, FS_Surjection
  <2> QED BY <2>6, <2>7, <2>8
<1> QED BY <1>1, <1>2 DEF ParseCall

(* No call leaves a tree with a hole. *)
LEMMA TreesStayWhole == Spec => []TreesOK
<1>1. Init => TreesOK
  BY RootIsWhole, RootIsPath DEF Init, TreesOK, Trees
<1>2. TreesOK /\ [Next]_vars => TreesOK'
  <2> SUFFICES ASSUME TreesOK, [Next]_vars
               PROVE  TreesOK'
    OBVIOUS
  <2> USE DEF TreesOK
  <2>1. ASSUME NEW o \in Objects, New(o)
        PROVE  TreesOK'
    <3>1. {<<>>} \in Trees
      BY RootIsWhole, RootIsPath DEF Trees
    <3> QED BY <2>1, <3>1 DEF New
  <2>2. ASSUME NEW o \in Objects, ParseCall(o)
        PROVE  TreesOK'
    <3>1. PICK patterns : \E dense \in BOOLEAN :
            /\ IsFiniteSet(patterns) /\ \A x \in patterns : x.prefix \in Contexts
            /\ patterns # {} /\ Observe(o, patterns, dense)
      BY <2>2, ParseObserves
    <3>2. nodes' = [nodes EXCEPT ![o] = nodes[o] \cup Touched(patterns)]
      BY <3>1 DEF Observe, Touched
    <3>3. nodes[o] \cup Touched(patterns) \in Trees
      BY <3>1, TouchedIsClosed, GrownIsWhole DEF Trees, Contexts
    <3> QED BY <3>2, <3>3
  <2>3. ASSUME NEW o \in Objects, Densify(o) \/ Sparsify(o)
        PROVE  TreesOK'
    BY <2>3 DEF Densify, Sparsify
  <2>4. ASSUME NEW o \in Objects, NEW x \in Objects, Merge(o, x)
        PROVE  TreesOK'
    <3>1. /\ o # x
          /\ nodes' = [nodes EXCEPT ![o] = nodes[o] \cup nodes[x], ![x] = {<<>>}]
      BY <2>4 DEF Merge
    <3>2. nodes[o] \cup nodes[x] \in Trees /\ {<<>>} \in Trees
      BY GrownIsWhole, RootIsWhole, RootIsPath DEF Trees, Whole
    <3> QED BY <3>1, <3>2
  <2>5. ASSUME NEW o \in Objects, NEW x \in Objects, Reload(o, x)
        PROVE  TreesOK'
    <3>1. nodes' = [nodes EXCEPT ![o] = nodes[x]]
      BY <2>5, NodesInMessage DEF Reload
    <3> QED BY <3>1
  <2>6. CASE UNCHANGED vars
    BY <2>6 DEF vars
  <2> QED BY <2>1, <2>2, <2>3, <2>4, <2>5, <2>6 DEF Next
<1> QED BY <1>1, <1>2, PTL DEF Spec

-----------------------------------------------------------------------------
(* Densify *)

\* How often t was counted, node by node.
CountsOf(S, t) == [r \in Paths |-> S[r].counts[t]]

(* After densify the total of a node is the sum of its counts, because the child's *)
(* counts are added one by one after the child has been densified itself. *)
LEMMA DensifiedVerifies ==
  ASSUME NEW N, Whole(N), NEW S \in [Paths -> Sampler], \A q \in Paths : Verify(S[q]),
         NEW q \in Paths
  PROVE  Densified(S, N)[q] \in Sampler /\ Verify(Densified(S, N)[q])
<1> DEFINE kids == Children(N, q)
           D(k) == DensifiedCounts(S, N, k)
           v == [x \in kids \X Tokens |-> D(x[1])[x[2]]]
           E == [t \in Tokens |-> kids]
           w == [t \in Tokens |-> [k \in kids |-> D(k)[t]]]
           g == [t \in Tokens |-> SumOver(kids, w[t])]
<1>1. IsFiniteSet(kids) /\ kids \subseteq Paths /\ IsFiniteSet(Tokens)
  BY TreeFinite, TokensAssumption
<1>2. \A t \in Tokens : CountsOf(S, t) \in [Paths -> Nat]
  BY DEF CountsOf, Sampler, Counts
<1>3. ASSUME NEW k \in Paths, NEW t \in Tokens
      PROVE  /\ D(k)[t] = Share(N, CountsOf(S, t), k)
             /\ D(k)[t] \in Nat
  <2> DEFINE A == {k} \cup Below(N, k)
             a == [r \in A |-> S[r].counts[t]]
  <2>1. IsFiniteSet(A) /\ A \subseteq Paths
    BY TreeFinite, FS_AddElement
  <2>2. D(k)[t] = SumOver(A, a)
    BY DEF DensifiedCounts
  <2>3. \A r \in A : a[r] = CountsOf(S, t)[r] /\ CountsOf(S, t)[r] \in Nat
    BY <1>2, <2>1 DEF CountsOf
  <2> HIDE DEF A, a, D
  <2>4. SumOver(A, a) = SumOver(A, CountsOf(S, t)) /\ SumOver(A, CountsOf(S, t)) \in Nat
    BY <2>1, <2>3, SumSame, SumType
  <2> QED BY <2>2, <2>4 DEF A, Share
<1>4. D(q) \in [Tokens -> Nat]
  <2>1. D(q) = [t \in Tokens |-> D(q)[t]]
    BY DEF DensifiedCounts
  <2> HIDE DEF D
  <2> QED BY <1>3, <2>1
<1>5. ASSUME NEW t \in Tokens
      PROVE  /\ \A k \in kids : w[t][k] = D(k)[t] /\ w[t][k] \in Nat
             /\ g[t] = SumOver(kids, w[t]) /\ g[t] \in Nat
             /\ S[q].counts[t] \in Nat
             /\ D(q)[t] = S[q].counts[t] + g[t]
  <2>1. \A k \in kids : w[t][k] = D(k)[t] /\ D(k)[t] \in Nat
    BY <1>1, <1>3
  <2>2. g[t] = SumOver(kids, w[t])
    OBVIOUS
  <2> HIDE DEF kids, v, E, w, g, D
  <2>3. g[t] \in Nat
    BY <1>1, <2>1, <2>2, SumType
  <2>4. \A k \in Children(N, q) : w[t][k] = Share(N, CountsOf(S, t), k)
    BY <1>1, <1>3, <2>1 DEF kids
  <2>5. Share(N, CountsOf(S, t), q)
          = CountsOf(S, t)[q] + SumOver(Children(N, q), w[t])
    <3> DEFINE F == CountsOf(S, t)
               h == w[t]
    <3>1. F \in [Paths -> Nat]
      BY <1>2
    <3>2. \A k \in Children(N, q) : h[k] = Share(N, F, k)
      BY <2>4
    <3> HIDE DEF F, h
    <3>3. Share(N, F, q) = F[q] + SumOver(Children(N, q), h)
      BY <3>1, <3>2, SumOverChildren
    <3> QED BY <3>3 DEF F, h
  <2>6. CountsOf(S, t)[q] = S[q].counts[t] /\ CountsOf(S, t)[q] \in Nat
    BY <1>2 DEF CountsOf
  <2> QED BY <1>3, <2>1, <2>2, <2>3, <2>5, <2>6 DEF kids
<1>6. SumOver(kids \X Tokens, v) = SumOver(Tokens, g)
  <2>1. \A t \in Tokens : /\ IsFiniteSet(E[t]) /\ g[t] = SumOver(E[t], w[t])
                          /\ \A k \in E[t] : /\ w[t][k] \in Nat /\ v[<<k, t>>] = w[t][k]
                                             /\ <<k, t>> \in kids \X Tokens
    BY <1>1, <1>5
  <2>2. \A z \in kids \X Tokens : \E t \in Tokens : \E k \in E[t] : z = <<k, t>>
    OBVIOUS
  <2> DEFINE table == kids \X Tokens
  <2> HIDE DEF v, E, w, g, table
  <2>3. SumOver(table, v) = SumOver(Tokens, g)
    <3>1. /\ \A t \in Tokens : IsFiniteSet(E[t])
          /\ \A t \in Tokens : \A k \in E[t] : w[t][k] \in Nat
      BY <2>1
    <3>2. /\ \A t \in Tokens : \A k \in E[t] : <<k, t>> \in table
          /\ \A t \in Tokens : \A k \in E[t] : v[<<k, t>>] = w[t][k]
      BY <2>1 DEF table
    <3>3. \A t \in Tokens : g[t] = SumOver(E[t], w[t])
      BY <2>1
    <3>4. \A z \in table : \E t \in Tokens : \E k \in E[t] : z = <<k, t>>
      BY <2>2 DEF table
    <3> QED BY <1>1, <3>1, <3>2, <3>3, <3>4, SumByColumns
  <2> QED BY <2>3 DEF table
<1>7. S[q].total \in Nat /\ S[q].total = SumOver(Tokens, S[q].counts)
  BY DEF Sampler, Verify
<1>8. Densified(S, N)[q] = [total |-> S[q].total + SumOver(kids \X Tokens, v), counts |-> D(q)]
  BY DEF Densified
<1> HIDE DEF v, E, w, g, D, kids
<1>9. SumOver(Tokens, D(q)) = SumOver(Tokens, S[q].counts) + SumOver(Tokens, g)
  BY <1>1, <1>5, SumPlus
<1>10. SumOver(Tokens, g) \in Nat
  BY <1>1, <1>5, SumType
<1> QED BY <1>4, <1>6, <1>7, <1>8, <1>9, <1>10 DEF Sampler, Counts, Verify

-----------------------------------------------------------------------------
(* Sparsify *)

(* What the children that are not skipped take is there to be taken. *)
LEMMA SkippedFits ==
  ASSUME NEW S, NEW N, NEW skipped \in Skips(S, N), NEW q \in N \ {<<>>}, NEW t \in Tokens
  PROVE  Removed(S, N, q, t, skipped) <= S[q].counts[t]
BY Zenon DEF Skips

(* Sparsify takes from a node what the children it does not skip have, which is no *)
(* more than there is, and takes the same from the total. *)
LEMMA SparsifiedVerifies ==
  ASSUME NEW N, Whole(N), NEW S \in [Paths -> Sampler], \A q \in Paths : Verify(S[q]),
         NEW skipped \in Skips(S, N), NEW q \in Paths
  PROVE  /\ Sparsified(S, N, skipped)[q] \in Sampler
         /\ Verify(Sparsified(S, N, skipped)[q])
<1>1. CASE q = <<>>
  <2>1. Sparsified(S, N, skipped)[q] = EmptySampler
    BY <1>1 DEF Sparsified
  <2> QED BY <2>1, EmptyVerifies
<1>2. CASE q # <<>>
  <2> DEFINE kids == Children(N, q)
             kept == {x \in kids \X Tokens : x \notin skipped}
             v == [x \in kept |-> S[x[1]].counts[x[2]]]
             E == [t \in Tokens |-> {r \in kids : <<r, t>> \notin skipped}]
             w == [t \in Tokens |-> [r \in E[t] |-> S[r].counts[t]]]
             g == [t \in Tokens |-> Removed(S, N, q, t, skipped)]
             rest == [t \in Tokens |-> S[q].counts[t] - Removed(S, N, q, t, skipped)]
  <2>1. IsFiniteSet(kids) /\ kids \subseteq Paths /\ IsFiniteSet(Tokens)
    BY TreeFinite, TokensAssumption
  <2>2. ASSUME NEW t \in Tokens
        PROVE  IsFiniteSet(E[t]) /\ E[t] \subseteq kids
    <3>1. E[t] \subseteq kids
      OBVIOUS
    <3> QED BY <2>1, <3>1, FS_Subset
  <2>3. ASSUME NEW t \in Tokens, NEW r \in E[t]
        PROVE  /\ w[t][r] \in Nat /\ <<r, t>> \in kept /\ v[<<r, t>>] = w[t][r]
    <3>1. r \in kids /\ <<r, t>> \notin skipped /\ r \in Paths
      BY <2>1
    <3>2. S[r].counts[t] \in Nat
      BY <3>1 DEF Sampler, Counts
    <3>3. w[t][r] = S[r].counts[t]
      OBVIOUS
    <3>4. <<r, t>> \in kept
      BY <3>1
    <3> QED BY <3>2, <3>3, <3>4
  <2>4. ASSUME NEW t \in Tokens
        PROVE  g[t] = SumOver(E[t], w[t])
    BY DEF Removed
  <2>5. \A z \in kept : \E t \in Tokens : \E r \in E[t] : z = <<r, t>>
    OBVIOUS
  <2>6. Sparsified(S, N, skipped)[q] = [total |-> S[q].total - SumOver(kept, v), counts |-> rest]
    BY <1>2 DEF Sparsified
  <2> HIDE DEF v, E, w, kept
  <2>7. ASSUME NEW t \in Tokens
        PROVE  g[t] \in Nat /\ S[q].counts[t] \in Nat /\ g[t] <= S[q].counts[t]
    <3>1. S[q].counts[t] \in Nat
      BY DEF Sampler, Counts
    <3>2. g[t] \in Nat
      <4>1. \A r \in E[t] : w[t][r] \in Nat
        BY <2>3
      <4> QED BY <2>2, <2>4, <4>1, SumType
    <3>3. CASE q \in N
      <4>1. Removed(S, N, q, t, skipped) <= S[q].counts[t]
        BY <1>2, <3>3, SkippedFits, Zenon
      <4> QED BY <3>1, <3>2, <4>1
    <3>4. CASE q \notin N
      <4>1. E[t] = {}
        BY <2>2, <3>4, NoChildOutside
      <4>2. g[t] = 0
        BY <2>4, <4>1, SumEmpty
      <4> QED BY <3>1, <4>2
    <3> QED BY <3>1, <3>2, <3>3, <3>4
  <2>8. ASSUME NEW t \in Tokens
        PROVE  /\ rest[t] \in Nat /\ g[t] \in Nat /\ S[q].counts[t] = rest[t] + g[t]
               /\ rest[t] = S[q].counts[t] - Removed(S, N, q, t, skipped)
    BY <2>7
  <2> HIDE DEF g, kids
  <2>9. SumOver(kept, v) = SumOver(Tokens, g)
    <3>1. /\ \A t \in Tokens : IsFiniteSet(E[t])
          /\ \A t \in Tokens : \A r \in E[t] : w[t][r] \in Nat
      BY <2>2, <2>3
    <3>2. /\ \A t \in Tokens : \A r \in E[t] : <<r, t>> \in kept
          /\ \A t \in Tokens : \A r \in E[t] : v[<<r, t>>] = w[t][r]
      BY <2>3
    <3>3. \A t \in Tokens : g[t] = SumOver(E[t], w[t])
      BY <2>4
    <3> QED BY <2>1, <2>5, <3>1, <3>2, <3>3, SumByColumns
  <2>10. rest \in [Tokens -> Nat]
    <3>1. \A t \in Tokens : S[q].counts[t] - Removed(S, N, q, t, skipped) \in Nat
      BY <2>8
    <3> QED BY <3>1
  <2> HIDE DEF rest
  <2>11. SumOver(Tokens, S[q].counts) = SumOver(Tokens, rest) + SumOver(Tokens, g)
    <3> DEFINE all == S[q].counts
    <3>1. \A t \in Tokens : rest[t] \in Nat /\ g[t] \in Nat /\ all[t] = rest[t] + g[t]
      BY <2>8
    <3> HIDE DEF all
    <3>2. SumOver(Tokens, all) = SumOver(Tokens, rest) + SumOver(Tokens, g)
      BY <2>1, <3>1, SumPlus
    <3> QED BY <3>2 DEF all
  <2>12. SumOver(Tokens, g) \in Nat /\ SumOver(Tokens, rest) \in Nat
    BY <2>1, <2>8, SumType
  <2>13. S[q].total = SumOver(Tokens, S[q].counts)
    BY DEF Verify
  <2>14. S[q].total - SumOver(kept, v) = SumOver(Tokens, rest)
    BY <2>9, <2>11, <2>12, <2>13
  <2> QED BY <2>6, <2>10, <2>12, <2>14 DEF Sampler, Counts, Verify
<1> QED BY <1>1, <1>2

-----------------------------------------------------------------------------
(* The totals of whole objects *)

\* The samplers of an object, each with the sum of its counts as its total.
Summed == {S \in [Paths -> Sampler] : \A q \in Paths : Verify(S[q])}

\* The samplers S after the patterns are counted at the touched nodes.
ObservedSamplers(S, touched, patterns, dense) ==
    [q \in Paths |->
       IF q \notin touched THEN S[q]
       ELSE AddCounts(S[q], [t \in Tokens |-> CountOf(patterns, q, t, dense)])]

(* Counting patterns keeps every total a sum. *)
LEMMA ObservedIsSummed ==
  ASSUME NEW S \in Summed, NEW touched, NEW patterns, IsFiniteSet(patterns), NEW dense
  PROVE  ObservedSamplers(S, touched, patterns, dense) \in Summed
<1> DEFINE c(q) == [t \in Tokens |-> CountOf(patterns, q, t, dense)]
           R == [q \in Paths |-> IF q \notin touched THEN S[q] ELSE AddCounts(S[q], c(q))]
<1>1. ASSUME NEW q
      PROVE  c(q) \in Counts
  <2>1. ASSUME NEW t
        PROVE  CountOf(patterns, q, t, dense) \in Nat
    <3> DEFINE hits == {x \in patterns : x.next = t /\ q \in Counted(x.prefix, dense)}
    <3>1. IsFiniteSet(hits)
      BY FS_Subset
    <3>2. Cardinality(hits) \in Nat
      BY <3>1, FS_CardinalityType
    <3> QED BY <3>2 DEF CountOf
  <2> QED BY <2>1 DEF Counts
<1> HIDE DEF c
<1>2. ASSUME NEW q \in Paths
      PROVE  R[q] \in Sampler /\ Verify(R[q])
  <2>1. S[q] \in Sampler /\ Verify(S[q])
    BY DEF Summed
  <2>2. AddCounts(S[q], c(q)) \in Sampler /\ Verify(AddCounts(S[q], c(q)))
    BY <1>1, <2>1, AddVerifies
  <2> QED BY <2>1, <2>2
<1>3. R \in [Paths -> Sampler]
  BY <1>2
<1>4. \A q \in Paths : Verify(R[q])
  BY <1>2
<1> HIDE DEF R
<1>5. R \in Summed
  BY <1>3, <1>4 DEF Summed
<1> QED BY <1>5 DEF R, c, ObservedSamplers

(* Densify keeps every total a sum. *)
LEMMA DensifiedIsSummed ==
  ASSUME NEW S \in Summed, NEW N \in Trees
  PROVE  Densified(S, N) \in Summed
<1> DEFINE R == Densified(S, N)
<1>1. ASSUME NEW q \in Paths
      PROVE  R[q] \in Sampler /\ Verify(R[q])
  BY DensifiedVerifies DEF Summed, Trees
<1>2. R = [q \in Paths |-> R[q]]
  BY DEF Densified
<1> HIDE DEF R
<1>3. R \in [Paths -> Sampler]
  BY <1>1, <1>2
<1> QED BY <1>1, <1>3 DEF R, Summed

(* Sparsify keeps every total a sum, whatever it skips. *)
LEMMA SparsifiedIsSummed ==
  ASSUME NEW S \in Summed, NEW N \in Trees, NEW skipped \in Skips(S, N)
  PROVE  Sparsified(S, N, skipped) \in Summed
<1> DEFINE R == Sparsified(S, N, skipped)
<1>1. ASSUME NEW q \in Paths
      PROVE  R[q] \in Sampler /\ Verify(R[q])
  BY SparsifiedVerifies DEF Summed, Trees
<1>2. R = [q \in Paths |-> R[q]]
  BY DEF Sparsified
<1> HIDE DEF R
<1>3. R \in [Paths -> Sampler]
  BY <1>1, <1>2
<1> QED BY <1>1, <1>3 DEF R, Summed

(* Merging keeps every total a sum. *)
LEMMA MergedIsSummed ==
  ASSUME NEW S \in Summed, NEW R \in Summed
  PROVE  MergedSamplers(S, R) \in Summed
<1> DEFINE M == MergedSamplers(S, R)
<1>1. ASSUME NEW q \in Paths
      PROVE  M[q] \in Sampler /\ Verify(M[q])
  <2>1. M[q] = MergeSamplers(S[q], R[q])
    BY DEF MergedSamplers
  <2> QED BY <2>1, MergeVerifies DEF Summed
<1>2. M = [q \in Paths |-> M[q]]
  BY DEF MergedSamplers
<1> HIDE DEF M
<1>3. M \in [Paths -> Sampler]
  BY <1>1, <1>2
<1> QED BY <1>1, <1>3 DEF M, Summed

(* An object whose trees were taken keeps a sum in its own sampler. *)
LEMMA DrainedIsSummed ==
  ASSUME NEW S \in Summed
  PROVE  [q \in Paths |-> IF q = <<>> THEN S[q] ELSE EmptySampler] \in Summed
BY EmptyVerifies DEF Summed

(* A new object has only empty samplers. *)
LEMMA NewIsSummed == [q \in Paths |-> EmptySampler] \in Summed
BY EmptyVerifies DEF Summed

\* The message of one node.
Entry(S, D, q) ==
    [path |-> q, depth |-> D[q], total |-> S[q].total,
     counts |-> {[token |-> t, count |-> S[q].counts[t]] : t \in Support(S[q])}]

(* from_proto finds for every node the message that proto wrote for it. *)
LEMMA EntryFound ==
  ASSUME NEW S, NEW N, NEW D, NEW q \in N
  PROVE  EntryAt(Message(S, N, D), q) = Entry(S, D, q)
<1> DEFINE m == Message(S, N, D)
<1>1. m = {Entry(S, D, r) : r \in N}
  BY DEF Message, Entry
<1>2. \A r : Entry(S, D, r).path = r
  BY DEF Entry
<1> HIDE DEF m
<1>3. Entry(S, D, q) \in m /\ \A x \in m : x.path = q => x = Entry(S, D, q)
  BY <1>1, <1>2
<1>4. EntryAt(m, q) \in m /\ EntryAt(m, q).path = q
  BY <1>2, <1>3 DEF EntryAt
<1> QED BY <1>3, <1>4 DEF m

\* The samplers S of the nodes N, and no others.
Stored(S, N) == [q \in Paths |-> IF q \in N THEN S[q] ELSE EmptySampler]

(* What is read back is what was written, and nothing where nothing was. *)
LEMMA LoadedIsStored ==
  ASSUME NEW S \in [Paths -> Sampler], NEW N \in SUBSET Paths, NEW D
  PROVE  SamplersIn(Message(S, N, D)) = Stored(S, N)
<1> DEFINE entry(q) == Entry(S, D, q)
           m == Message(S, N, D)
<1>1. ASSUME NEW q \in N
      PROVE  EntryAt(m, q) = entry(q)
  BY EntryFound
<1>2. NodesIn(m) = N
  BY NodesInMessage
<1>3. ASSUME NEW q \in N
      PROVE  SamplersIn(m)[q] = S[q]
  <2> DEFINE e(t) == {c \in entry(q).counts : c.token = t}
             count(t) == IF e(t) = {} THEN 0 ELSE (CHOOSE c \in e(t) : TRUE).count
  <2>1. /\ q \in Paths /\ S[q] = [total |-> S[q].total, counts |-> [t \in Tokens |-> S[q].counts[t]]]
        /\ \A t \in Tokens : S[q].counts[t] \in Nat
    BY DEF Sampler, Counts
  <2>2. ASSUME NEW t \in Tokens
        PROVE  count(t) = S[q].counts[t]
    <3> DEFINE z == [token |-> t, count |-> S[q].counts[t]]
    <3>1. entry(q).counts = {[token |-> u, count |-> S[q].counts[u]] : u \in Support(S[q])}
      BY DEF Entry
    <3>2. CASE S[q].counts[t] > 0
      <4>1. e(t) = {z}
        BY <3>1, <3>2 DEF Support
      <4> HIDE DEF e
      <4>2. count(t) = z.count
        BY <4>1
      <4> QED BY <4>2
    <3>3. CASE ~(S[q].counts[t] > 0)
      <4>1. e(t) = {}
        BY <3>1, <3>3 DEF Support
      <4> HIDE DEF e
      <4>2. count(t) = 0
        BY <4>1
      <4> QED BY <2>1, <3>3, <4>2
    <3> QED BY <3>2, <3>3
  <2>3. SamplersIn(m)[q] = [total |-> entry(q).total, counts |-> [t \in Tokens |-> count(t)]]
    <3> HIDE DEF entry, m
    <3> QED BY <1>1, <1>2, <2>1 DEF SamplersIn
  <2>4. entry(q).total = S[q].total
    BY DEF Entry
  <2> HIDE DEF count, e, entry, m
  <2>5. [t \in Tokens |-> count(t)] = [t \in Tokens |-> S[q].counts[t]]
    BY <2>2
  <2> QED BY <2>1, <2>3, <2>4, <2>5
<1>4. ASSUME NEW q \in Paths, q \notin N
      PROVE  SamplersIn(m)[q] = EmptySampler
  BY <1>2, <1>4 DEF SamplersIn
<1>5. SamplersIn(m) = [q \in Paths |-> SamplersIn(m)[q]]
  BY DEF SamplersIn
<1> HIDE DEF m
<1> QED BY <1>3, <1>4, <1>5 DEF m, Stored

\* Every object's samplers have the sums of their counts as totals.
TotalsOK == sampler \in [Objects -> Summed]

(* Every call leaves sums behind, given the whole trees it works on. *)
LEMMA TotalsStep ==
  ASSUME TreesOK, TotalsOK, [Next]_vars
  PROVE  TotalsOK'
<1>1. ASSUME NEW o \in Objects
      PROVE  /\ sampler[o] \in Summed /\ sampler[o] \in [Paths -> Sampler]
             /\ nodes[o] \in Trees /\ nodes[o] \in SUBSET Paths
  BY DEF TreesOK, TotalsOK, Summed, Trees
<1>2. ASSUME NEW o \in Objects, New(o)
      PROVE  TotalsOK'
  BY <1>2, NewIsSummed DEF New, TotalsOK
<1>3. ASSUME NEW o \in Objects, ParseCall(o)
      PROVE  TotalsOK'
  <2>1. PICK patterns : \E dense \in BOOLEAN :
          /\ IsFiniteSet(patterns) /\ \A x \in patterns : x.prefix \in Contexts
          /\ patterns # {} /\ Observe(o, patterns, dense)
    BY <1>3, ParseObserves
  <2>2. PICK dense \in BOOLEAN : Observe(o, patterns, dense)
    BY <2>1
  <2> DEFINE R == ObservedSamplers(sampler[o], Touched(patterns), patterns, dense)
  <2>3. sampler' = [sampler EXCEPT ![o] = R]
    BY <2>2 DEF Observe, ObservedSamplers, Touched
  <2>4. R \in Summed
    BY <1>1, <2>1, ObservedIsSummed
  <2> HIDE DEF R
  <2> QED BY <2>3, <2>4 DEF TotalsOK
<1>4. ASSUME NEW o \in Objects, Densify(o)
      PROVE  TotalsOK'
  <2>1. sampler' = [sampler EXCEPT ![o] = Densified(sampler[o], nodes[o])]
    BY <1>4 DEF Densify
  <2> QED BY <1>1, <2>1, DensifiedIsSummed DEF TotalsOK
<1>5. ASSUME NEW o \in Objects, Sparsify(o)
      PROVE  TotalsOK'
  <2>1. PICK skipped \in Skips(sampler[o], nodes[o]) :
          sampler' = [sampler EXCEPT ![o] = Sparsified(sampler[o], nodes[o], skipped)]
    BY <1>5 DEF Sparsify
  <2> QED BY <1>1, <2>1, SparsifiedIsSummed DEF TotalsOK
<1>6. ASSUME NEW o \in Objects, NEW x \in Objects, Merge(o, x)
      PROVE  TotalsOK'
  <2> DEFINE kept == [q \in Paths |-> IF q = <<>> THEN sampler[x][q] ELSE EmptySampler]
  <2>1. /\ o # x
        /\ sampler' = [sampler EXCEPT ![o] = MergedSamplers(sampler[o], sampler[x]), ![x] = kept]
    BY <1>6 DEF Merge, TotalsOK
  <2>2. kept \in Summed /\ MergedSamplers(sampler[o], sampler[x]) \in Summed
    BY <1>1, DrainedIsSummed, MergedIsSummed
  <2> HIDE DEF kept
  <2> QED BY <2>1, <2>2 DEF TotalsOK
<1>7. ASSUME NEW o \in Objects, NEW x \in Objects, Reload(o, x)
      PROVE  TotalsOK'
  <2> DEFINE R == Stored(sampler[x], nodes[x])
  <2>1. SamplersIn(Message(sampler[x], nodes[x], depth[x])) = R
    BY <1>1, LoadedIsStored
  <2>2. sampler' = [sampler EXCEPT ![o] = R]
    BY <1>7, <2>1 DEF Reload
  <2>3. R \in Summed
    BY <1>1, EmptyVerifies DEF Summed, Stored
  <2> HIDE DEF R
  <2> QED BY <2>2, <2>3 DEF TotalsOK
<1>8. CASE UNCHANGED vars
  BY <1>8 DEF vars, TotalsOK
<1> QED BY <1>2, <1>3, <1>4, <1>5, <1>6, <1>7, <1>8 DEF Next

(* The samplers are typed and their totals are sums in every state. *)
LEMMA TotalsAlways == Spec => []TotalsOK
<1>1. Init => TotalsOK
  BY NewIsSummed DEF Init, TotalsOK
<1>2. TreesOK /\ TotalsOK /\ [Next]_vars => TotalsOK'
  BY TotalsStep
<1> QED BY <1>1, <1>2, TreesStayWhole, PTL DEF Spec

(***************************************************************************)
(* `verify` never fails, whatever mixture of calls was made: no order of   *)
(* parse, densify, sparsify, merge and deserialize, and nothing sparsify   *)
(* skips, parts a sampler's total from the sum of its counts.              *)
(***************************************************************************)
THEOREM SamplersVerifyAlways == Spec => []SamplersVerify
<1>1. TotalsOK => SamplersVerify
  BY DEF TotalsOK, Summed, SamplersVerify
<1> QED BY <1>1, TotalsAlways, PTL

-----------------------------------------------------------------------------
(* The heights of one tree *)

(***************************************************************************)
(* D[q] + Len(q) is how long a context the node at q says there is below   *)
(* it: no longer one is there, and below a node of a tree one that long.   *)
(***************************************************************************)
HeightsOK(N, D) ==
    /\ D \in [Paths -> Nat]
    /\ \A q \in Paths : D[q] + Len(q) <= B
    /\ \A q \in N : \A r \in Below(N, q) : Len(r) <= D[q] + Len(q)
    /\ \A q \in N \ {<<>>} : \E r \in Below(N, q) : Len(r) = D[q] + Len(q)
    /\ \A q \in Paths \ N : D[q] = 0

(* The heights of a tree that is a root and no more. *)
LEMMA RootHeights ==
  ASSUME NEW D \in [Paths -> Nat], D[<<>>] <= B, \A q \in Paths \ {<<>>} : D[q] = 0
  PROVE  HeightsOK({<<>>}, D)
<1>1. \A q \in Paths : Len(q) \in Nat /\ Len(q) <= B
  BY PathFacts
<1>2. Len(<<>>) = 0
  BY EmptySeq
<1>3. \A q \in Paths : D[q] + Len(q) <= B
  BY <1>1, <1>2, BlockAssumption
<1>4. \A q \in {<<>>} : \A r \in Below({<<>>}, q) : Len(r) <= D[q] + Len(q)
  BY <1>2, RootIsPath DEF Below
<1> QED BY <1>3, <1>4 DEF HeightsOK

(* Merge keeps the greater depth, which is the height of the two trees together. *)
LEMMA MergedHeights ==
  ASSUME NEW N, Whole(N), NEW M, Whole(M), NEW D, HeightsOK(N, D), NEW E, HeightsOK(M, E)
  PROVE  HeightsOK(N \cup M, MergedDepths(D, E))
<1> DEFINE G == MergedDepths(D, E)
<1>1. ASSUME NEW q \in Paths
      PROVE  /\ D[q] \in Nat /\ E[q] \in Nat /\ G[q] \in Nat /\ Len(q) \in Nat
             /\ G[q] = (IF D[q] < E[q] THEN E[q] ELSE D[q])
             /\ D[q] <= G[q] /\ E[q] <= G[q] /\ G[q] + Len(q) <= B
  <2>1. /\ D[q] \in Nat /\ E[q] \in Nat /\ Len(q) \in Nat
        /\ D[q] + Len(q) <= B /\ E[q] + Len(q) <= B
    BY PathFacts DEF HeightsOK
  <2>2. G[q] = (IF D[q] < E[q] THEN E[q] ELSE D[q])
    BY DEF MergedDepths
  <2> HIDE DEF G
  <2> QED BY <2>1, <2>2, BlockAssumption
<1>2. G = [q \in Paths |-> G[q]]
  BY DEF MergedDepths
<1> HIDE DEF G
<1>3. G \in [Paths -> Nat] /\ \A q \in Paths : G[q] + Len(q) <= B
  BY <1>1, <1>2
<1>4. N \subseteq Paths /\ M \subseteq Paths
  BY DEF Whole
<1>5. ASSUME NEW q \in N \cup M, NEW r \in Below(N \cup M, q)
      PROVE  Len(r) <= G[q] + Len(q)
  <2>1. q \in Paths /\ r \in N \cup M /\ r \in Paths /\ Len(r) \in Nat
    BY <1>4, PathFacts DEF Below
  <2>2. CASE r \in N
    <3>1. r \in Below(N, q)
      BY <2>2 DEF Below
    <3>2. q \in N
      BY <3>1, BelowFacts
    <3>3. Len(r) <= D[q] + Len(q)
      BY <3>1, <3>2 DEF HeightsOK
    <3> QED BY <1>1, <2>1, <3>3
  <2>3. CASE r \in M
    <3>1. r \in Below(M, q)
      BY <2>3 DEF Below
    <3>2. q \in M
      BY <3>1, BelowFacts
    <3>3. Len(r) <= E[q] + Len(q)
      BY <3>1, <3>2 DEF HeightsOK
    <3> QED BY <1>1, <2>1, <3>3
  <2> QED BY <2>1, <2>2, <2>3
<1>6. ASSUME NEW q \in (N \cup M) \ {<<>>}
      PROVE  \E r \in Below(N \cup M, q) : Len(r) = G[q] + Len(q)
  <2>1. /\ q \in Paths
        /\ Below(N, q) \subseteq Below(N \cup M, q) /\ Below(M, q) \subseteq Below(N \cup M, q)
    BY <1>4 DEF Below
  <2>2. CASE q \in N /\ G[q] = D[q]
    <3>1. PICK r \in Below(N, q) : Len(r) = D[q] + Len(q)
      BY <2>2 DEF HeightsOK
    <3> QED BY <2>1, <2>2, <3>1
  <2>3. CASE q \in M /\ G[q] = E[q]
    <3>1. PICK r \in Below(M, q) : Len(r) = E[q] + Len(q)
      BY <2>3 DEF HeightsOK
    <3> QED BY <2>1, <2>3, <3>1
  <2>4. q \notin N => D[q] = 0
    BY <2>1 DEF HeightsOK
  <2>5. q \notin M => E[q] = 0
    BY <2>1 DEF HeightsOK
  <2>6. (q \in N /\ G[q] = D[q]) \/ (q \in M /\ G[q] = E[q])
    <3>1. q \in N \/ q \in M
      OBVIOUS
    <3>2. /\ D[q] \in Nat /\ E[q] \in Nat
          /\ G[q] = (IF D[q] < E[q] THEN E[q] ELSE D[q])
      BY <1>1, <2>1
    <3> QED BY <2>4, <2>5, <3>1, <3>2
  <2> QED BY <2>2, <2>3, <2>6
<1>7. ASSUME NEW q \in Paths \ (N \cup M)
      PROVE  G[q] = 0
  <2>1. D[q] = 0 /\ E[q] = 0
    BY DEF HeightsOK
  <2> QED BY <1>1, <2>1
<1> QED BY <1>3, <1>5, <1>6, <1>7 DEF HeightsOK, G

\* The depths D after the way back up from the touched nodes T.
Deepened(D, T) ==
    [q \in Paths |-> IF q \notin T THEN D[q] ELSE Max({D[q]} \cup Reached(D, T, q))]

(* The depth that a touched node gets is its own or one that a node below passed up. *)
LEMMA DeepenedBounds ==
  ASSUME NEW N, Whole(N), NEW D, HeightsOK(N, D), NEW T, Whole(T), NEW q \in T
  PROVE  LET d == Deepened(D, T)[q]
         IN  /\ d \in Nat /\ D[q] <= d
             /\ \A r \in Below(T, q) : D[r] + Len(r) <= d + Len(q)
             /\ d = D[q] \/ \E r \in Below(T, q) : d + Len(q) = D[r] + Len(r)
<1> DEFINE all == {D[q]} \cup Reached(D, T, q)
           d == Deepened(D, T)[q]
<1>1. q \in Paths /\ d = Max(all)
  BY DEF Whole, Deepened
<1>2. D[q] \in Nat /\ Len(q) \in Nat /\ D[q] + Len(q) <= B
  BY <1>1, PathFacts DEF HeightsOK
<1>3. ASSUME NEW r \in Below(T, q)
      PROVE  /\ D[r] \in Nat /\ Len(r) \in Nat /\ Len(q) <= Len(r) /\ D[r] + Len(r) <= B
             /\ D[r] + Len(r) - Len(q) \in all
  BY BelowFacts DEF HeightsOK, Reached
<1>4. \A x \in all : x = D[q] \/ \E r \in Below(T, q) : x = D[r] + Len(r) - Len(q)
  BY DEF Reached
<1>5. D[q] \in all
  OBVIOUS
<1> HIDE DEF all, d
<1>6. \A x \in all : x \in Nat /\ x <= B
  <2> SUFFICES ASSUME NEW x \in all
               PROVE  x \in Nat /\ x <= B
    OBVIOUS
  <2>1. CASE x = D[q]
    BY <1>2, <2>1, BlockAssumption
  <2>2. ASSUME NEW r \in Below(T, q), x = D[r] + Len(r) - Len(q)
        PROVE  x \in Nat /\ x <= B
    BY <1>2, <1>3, <2>2, BlockAssumption
  <2> QED BY <1>4, <2>1, <2>2
<1>7. d \in all /\ \A x \in all : x <= d
  <2>1. all \subseteq Nat /\ all # {} /\ B \in Nat /\ \A x \in all : x <= B
    BY <1>5, <1>6, BlockAssumption
  <2> QED BY <1>1, <2>1, Greatest
<1>8. d \in Nat /\ D[q] <= d
  BY <1>5, <1>6, <1>7
<1>9. ASSUME NEW r \in Below(T, q)
      PROVE  D[r] + Len(r) <= d + Len(q)
  <2>1. D[r] + Len(r) - Len(q) <= d
    BY <1>3, <1>7
  <2> QED BY <1>2, <1>3, <1>8, <2>1
<1>10. d = D[q] \/ \E r \in Below(T, q) : d + Len(q) = D[r] + Len(r)
  <2>1. ASSUME NEW r \in Below(T, q), d = D[r] + Len(r) - Len(q)
        PROVE  d + Len(q) = D[r] + Len(r)
    BY <1>2, <1>3, <2>1
  <2> QED BY <1>4, <1>7, <2>1
<1> QED BY <1>8, <1>9, <1>10 DEF d

(* A parse leaves the heights right: on the way back up the old heights and the new *)
(* nodes' are all compared. *)
LEMMA ObservedHeights ==
  ASSUME NEW N, Whole(N), NEW D, HeightsOK(N, D), NEW T, Whole(T)
  PROVE  HeightsOK(N \cup T, Deepened(D, T))
<1> DEFINE G == Deepened(D, T)
<1>1. N \subseteq Paths /\ T \subseteq Paths
  BY DEF Whole
<1>2. ASSUME NEW q \in Paths
      PROVE  Len(q) \in Nat /\ Len(q) <= B /\ D[q] \in Nat /\ D[q] + Len(q) <= B
  BY PathFacts DEF HeightsOK
<1>3. ASSUME NEW q \in Paths, q \notin T
      PROVE  G[q] = D[q]
  BY <1>3 DEF Deepened
<1>4. ASSUME NEW q \in T
      PROVE  /\ G[q] \in Nat /\ D[q] <= G[q]
             /\ \A r \in Below(T, q) : D[r] + Len(r) <= G[q] + Len(q)
             /\ G[q] = D[q] \/ \E r \in Below(T, q) : G[q] + Len(q) = D[r] + Len(r)
  BY DeepenedBounds
<1>5. G = [q \in Paths |-> G[q]]
  BY DEF Deepened
<1> HIDE DEF G
<1>6. ASSUME NEW q \in Paths
      PROVE  G[q] \in Nat /\ D[q] <= G[q] /\ G[q] + Len(q) <= B
  <2>1. CASE q \notin T
    BY <1>2, <1>3, <2>1
  <2>2. CASE q \in T
    <3>1. G[q] \in Nat /\ D[q] <= G[q]
      BY <1>4, <2>2
    <3>2. CASE G[q] = D[q]
      BY <1>2, <3>1, <3>2
    <3>3. ASSUME NEW r \in Below(T, q), G[q] + Len(q) = D[r] + Len(r)
          PROVE  G[q] + Len(q) <= B
      <4>1. r \in Paths
        BY BelowFacts
      <4> QED BY <1>2, <3>3, <4>1
    <3> QED BY <1>4, <2>2, <3>1, <3>2, <3>3
  <2> QED BY <2>1, <2>2
<1>7. G \in [Paths -> Nat] /\ \A q \in Paths : G[q] + Len(q) <= B
  BY <1>5, <1>6
<1>8. ASSUME NEW q \in N \cup T, NEW r \in Below(N \cup T, q)
      PROVE  Len(r) <= G[q] + Len(q)
  <2>1. q \in Paths /\ r \in N \cup T /\ r \in Paths
    BY <1>1 DEF Below
  <2>2. CASE r \in N
    <3>1. r \in Below(N, q)
      BY <2>2 DEF Below
    <3>2. q \in N
      BY <3>1, BelowFacts
    <3>3. Len(r) <= D[q] + Len(q)
      BY <3>1, <3>2 DEF HeightsOK
    <3> QED BY <1>2, <1>6, <2>1, <3>3
  <2>3. CASE r \in T
    <3>1. r \in Below(T, q)
      BY <2>3 DEF Below
    <3>2. q \in T
      BY <3>1, BelowFacts
    <3>3. D[r] + Len(r) <= G[q] + Len(q)
      BY <1>4, <3>1, <3>2
    <3> QED BY <1>2, <1>6, <2>1, <3>3
  <2> QED BY <2>1, <2>2, <2>3
<1>9. ASSUME NEW q \in Paths, q # <<>>, q \in N \cup T
      PROVE  \E r \in Below(N \cup T, q) : Len(r) = D[q] + Len(q)
  <2>1. Below(N, q) \subseteq Below(N \cup T, q) /\ Below(T, q) \subseteq Below(N \cup T, q)
    BY DEF Below
  <2>2. CASE q \in N
    <3>1. PICK r \in Below(N, q) : Len(r) = D[q] + Len(q)
      BY <1>9, <2>2 DEF HeightsOK
    <3> QED BY <2>1, <3>1
  <2>3. CASE q \notin N
    <3>1. D[q] = 0
      BY <2>3 DEF HeightsOK
    <3>2. q \in Below(T, q)
      BY <1>9, <2>3, OwnBelow
    <3>3. Len(q) = D[q] + Len(q)
      BY <1>2, <3>1
    <3> QED BY <2>1, <3>2, <3>3
  <2> QED BY <2>2, <2>3
<1>10. ASSUME NEW q \in (N \cup T) \ {<<>>}
       PROVE  \E r \in Below(N \cup T, q) : Len(r) = G[q] + Len(q)
  <2>1. q \in Paths /\ q # <<>>
    BY <1>1
  <2>2. CASE G[q] = D[q]
    BY <1>9, <2>1, <2>2
  <2>3. ASSUME q \in T, NEW r \in Below(T, q), G[q] + Len(q) = D[r] + Len(r)
        PROVE  \E s \in Below(N \cup T, q) : Len(s) = G[q] + Len(q)
    <3>1. r \in T /\ r \in Paths /\ q \in Suffixes(r) /\ Len(q) <= Len(r) /\ Len(q) \in Nat
          /\ q \in Seq(Tokens)
      BY BelowFacts
    <3>2. Len(q) # 0
      BY <2>1, <3>1, EmptySeq
    <3>3. r # <<>>
      BY <3>1, <3>2, EmptySeq
    <3>4. PICK s \in Below(N \cup T, r) : Len(s) = D[r] + Len(r)
      BY <1>9, <3>1, <3>3
    <3>5. s \in N \cup T /\ r \in Suffixes(s) /\ s \in Seq(Tokens)
      BY <1>1, PathFacts DEF Below
    <3>6. q \in Suffixes(s)
      BY <3>1, <3>5, SuffixOfSuffix
    <3> QED BY <2>3, <3>4, <3>5, <3>6 DEF Below
  <2> QED BY <1>3, <1>4, <2>1, <2>2, <2>3
<1>11. ASSUME NEW q \in Paths \ (N \cup T)
       PROVE  G[q] = 0
  <2>1. D[q] = 0
    BY DEF HeightsOK
  <2> QED BY <1>3, <2>1
<1> QED BY <1>7, <1>8, <1>10, <1>11 DEF HeightsOK, G

(* The depths that are read back are those that were written. *)
LEMMA LoadedDepths ==
  ASSUME NEW S, NEW N, NEW D, HeightsOK(N, D)
  PROVE  DepthsIn(Message(S, N, D)) = D
<1> DEFINE m == Message(S, N, D)
<1>1. ASSUME NEW q \in N
      PROVE  EntryAt(m, q).depth = D[q]
  BY EntryFound DEF Entry
<1>2. NodesIn(m) = N
  BY NodesInMessage
<1> HIDE DEF m
<1>3. ASSUME NEW q \in Paths
      PROVE  DepthsIn(m)[q] = D[q]
  <2>1. q \notin N => D[q] = 0
    BY DEF HeightsOK
  <2> QED BY <1>1, <1>2, <2>1 DEF DepthsIn
<1>4. D = [q \in Paths |-> D[q]]
  BY DEF HeightsOK
<1>5. DepthsIn(m) = [q \in Paths |-> DepthsIn(m)[q]]
  BY DEF DepthsIn
<1> QED BY <1>3, <1>4, <1>5 DEF m

(* With the heights right, the greatest height below a node of a tree is its depth; *)
(* the root's may be greater. *)
LEMMA HeightIsGreatest ==
  ASSUME NEW N, Whole(N), NEW D, HeightsOK(N, D), NEW q \in N
  PROVE  LET height == Max({Len(r) - Len(q) : r \in Below(N, q)})
         IN  /\ q # <<>> => D[q] = height
             /\ q = <<>> => D[q] >= height
<1> DEFINE heights == {Len(r) - Len(q) : r \in Below(N, q)}
           height == Max(heights)
<1>1. q \in Below(N, q)
  BY OwnBelow
<1>2. Len(q) \in Nat /\ D[q] \in Nat
  BY <1>1, BelowFacts DEF HeightsOK
<1>3. ASSUME NEW r \in Below(N, q)
      PROVE  /\ Len(r) \in Nat /\ Len(r) - Len(q) \in Nat /\ Len(r) - Len(q) <= D[q]
             /\ Len(r) - Len(q) \in heights
  <2>1. Len(r) \in Nat /\ Len(q) <= Len(r)
    BY BelowFacts
  <2>2. Len(r) <= D[q] + Len(q)
    BY DEF HeightsOK
  <2> QED BY <1>2, <2>1, <2>2
<1>4. \A x \in heights : x \in Nat /\ x <= D[q]
  BY <1>3
<1>5. heights # {}
  BY <1>1
<1>6. q # <<>> => D[q] \in heights
  <2> SUFFICES ASSUME q # <<>>
               PROVE  D[q] \in heights
    OBVIOUS
  <2>1. PICK r \in Below(N, q) : Len(r) = D[q] + Len(q)
    BY DEF HeightsOK
  <2>2. D[q] = Len(r) - Len(q)
    BY <1>2, <1>3, <2>1
  <2> QED BY <1>3, <2>2
<1> HIDE DEF heights
<1>7. height \in heights /\ \A x \in heights : x <= height
  <2>1. heights \subseteq Nat
    BY <1>4
  <2> QED BY <1>2, <1>4, <1>5, <2>1, Greatest
<1>8. height \in Nat /\ height <= D[q] /\ (q # <<>> => D[q] <= height)
  BY <1>4, <1>6, <1>7
<1> HIDE DEF height
<1>9. (q # <<>> => D[q] = height) /\ (q = <<>> => D[q] >= height)
  BY <1>2, <1>8
<1> QED BY <1>9 DEF height, heights

-----------------------------------------------------------------------------
(* The depths of all objects, and the types *)

\* Every object's depths are the heights of its trees.
DepthsOK ==
    /\ depth \in [Objects -> [Paths -> Nat]]
    /\ \A o \in Objects : HeightsOK(nodes[o], depth[o])

(* A call that gives o these nodes and depths, right for each other, leaves all right. *)
LEMMA OneObject ==
  ASSUME TreesOK, DepthsOK, NEW o \in Objects, NEW N, NEW D, HeightsOK(N, D),
         nodes' = [nodes EXCEPT ![o] = N], depth' = [depth EXCEPT ![o] = D]
  PROVE  DepthsOK'
<1>1. D \in [Paths -> Nat]
  BY DEF HeightsOK
<1>2. depth' \in [Objects -> [Paths -> Nat]]
  BY <1>1 DEF DepthsOK
<1>3. ASSUME NEW u \in Objects
      PROVE  HeightsOK(nodes'[u], depth'[u])
  <2>1. CASE u = o
    <3>1. nodes'[u] = N /\ depth'[u] = D
      BY <2>1 DEF TreesOK, DepthsOK
    <3> QED BY <3>1
  <2>2. CASE u # o
    <3>1. nodes'[u] = nodes[u] /\ depth'[u] = depth[u]
      BY <2>2 DEF TreesOK, DepthsOK
    <3> QED BY <3>1 DEF DepthsOK
  <2> QED BY <2>1, <2>2
<1> QED BY <1>2, <1>3 DEF DepthsOK

(* Every call leaves heights behind, given the whole trees it works on. *)
LEMMA DepthsStep ==
  ASSUME TreesOK, DepthsOK, [Next]_vars
  PROVE  DepthsOK'
<1>1. ASSUME NEW o \in Objects
      PROVE  /\ Whole(nodes[o]) /\ HeightsOK(nodes[o], depth[o])
             /\ depth[o] \in [Paths -> Nat] /\ <<>> \in Paths /\ Len(<<>>) = 0
  BY RootIsPath, EmptySeq DEF TreesOK, DepthsOK, Trees
<1>2. ASSUME NEW o \in Objects, New(o)
      PROVE  DepthsOK'
  <2> DEFINE D == [q \in Paths |-> 0]
  <2>1. nodes' = [nodes EXCEPT ![o] = {<<>>}] /\ depth' = [depth EXCEPT ![o] = D]
    BY <1>2 DEF New
  <2>2. D \in [Paths -> Nat] /\ D[<<>>] <= B /\ \A q \in Paths \ {<<>>} : D[q] = 0
    BY RootIsPath, BlockAssumption
  <2> HIDE DEF D
  <2>3. HeightsOK({<<>>}, D)
    BY <2>2, RootHeights
  <2> QED BY <2>1, <2>3, OneObject
<1>3. ASSUME NEW o \in Objects, ParseCall(o)
      PROVE  DepthsOK'
  <2>1. PICK patterns : \E dense \in BOOLEAN :
          /\ IsFiniteSet(patterns) /\ \A x \in patterns : x.prefix \in Contexts
          /\ patterns # {} /\ Observe(o, patterns, dense)
    BY <1>3, ParseObserves
  <2> DEFINE T == Touched(patterns)
             N == nodes[o] \cup T
             D == Deepened(depth[o], T)
  <2>2. nodes' = [nodes EXCEPT ![o] = N] /\ depth' = [depth EXCEPT ![o] = D]
    BY <2>1 DEF Observe, Touched, Deepened
  <2>3. HeightsOK(N, D)
    BY <1>1, <2>1, TouchedIsWhole, ObservedHeights
  <2> HIDE DEF N, D
  <2> QED BY <2>2, <2>3, OneObject
<1>4. ASSUME NEW o \in Objects, Densify(o) \/ Sparsify(o)
      PROVE  DepthsOK'
  BY <1>4 DEF Densify, Sparsify, DepthsOK
<1>5. ASSUME NEW o \in Objects, NEW x \in Objects, Merge(o, x)
      PROVE  DepthsOK'
  <2> DEFINE N == nodes[o] \cup nodes[x]
             D == MergedDepths(depth[o], depth[x])
             E == [q \in Paths |-> IF q = <<>> THEN depth[x][q] ELSE 0]
  <2>1. /\ o # x
        /\ nodes' = [nodes EXCEPT ![o] = N, ![x] = {<<>>}]
        /\ depth' = [depth EXCEPT ![o] = D, ![x] = E]
    BY <1>5 DEF Merge, TreesOK, DepthsOK
  <2>2. HeightsOK(N, D)
    BY <1>1, MergedHeights
  <2>3. HeightsOK({<<>>}, E)
    <3>1. E \in [Paths -> Nat] /\ E[<<>>] = depth[x][<<>>] /\ \A q \in Paths \ {<<>>} : E[q] = 0
      BY <1>1
    <3>2. depth[x][<<>>] + Len(<<>>) <= B
      BY <1>1 DEF HeightsOK
    <3>3. E[<<>>] <= B
      BY <1>1, <3>1, <3>2
    <3> HIDE DEF E
    <3> QED BY <3>1, <3>3, RootHeights
  <2> HIDE DEF N, D, E
  <2>4. D \in [Paths -> Nat] /\ E \in [Paths -> Nat]
    BY <2>2, <2>3 DEF HeightsOK
  <2>5. depth' \in [Objects -> [Paths -> Nat]]
    BY <2>1, <2>4 DEF DepthsOK
  <2>6. ASSUME NEW u \in Objects
        PROVE  HeightsOK(nodes'[u], depth'[u])
    <3>1. CASE u = o
      <4>1. nodes'[u] = N /\ depth'[u] = D
        BY <2>1, <3>1 DEF TreesOK, DepthsOK
      <4> QED BY <2>2, <4>1
    <3>2. CASE u = x
      <4>1. nodes'[u] = {<<>>} /\ depth'[u] = E
        BY <2>1, <3>2 DEF TreesOK, DepthsOK
      <4> QED BY <2>3, <4>1
    <3>3. CASE u # o /\ u # x
      <4>1. nodes'[u] = nodes[u] /\ depth'[u] = depth[u]
        BY <2>1, <3>3 DEF TreesOK, DepthsOK
      <4> QED BY <1>1, <4>1
    <3> QED BY <3>1, <3>2, <3>3
  <2> QED BY <2>5, <2>6 DEF DepthsOK
<1>6. ASSUME NEW o \in Objects, NEW x \in Objects, Reload(o, x)
      PROVE  DepthsOK'
  <2>1. nodes' = [nodes EXCEPT ![o] = nodes[x]]
    BY <1>6, NodesInMessage DEF Reload
  <2>2. DepthsIn(Message(sampler[x], nodes[x], depth[x])) = depth[x]
    BY <1>1, LoadedDepths
  <2>3. depth' = [depth EXCEPT ![o] = depth[x]]
    BY <1>6, <2>2 DEF Reload
  <2> QED BY <1>1, <2>1, <2>3, OneObject
<1>7. CASE UNCHANGED vars
  BY <1>7 DEF vars, DepthsOK
<1> QED BY <1>2, <1>3, <1>4, <1>5, <1>6, <1>7 DEF Next

(* The depths are typed and are heights in every state. *)
LEMMA DepthsAlways == Spec => []DepthsOK
<1>1. Init => DepthsOK
  <2> SUFFICES ASSUME Init
               PROVE  DepthsOK
    OBVIOUS
  <2> DEFINE D == [q \in Paths |-> 0]
  <2>1. D \in [Paths -> Nat] /\ D[<<>>] <= B /\ \A q \in Paths \ {<<>>} : D[q] = 0
    BY RootIsPath, BlockAssumption
  <2>2. nodes = [o \in Objects |-> {<<>>}] /\ depth = [o \in Objects |-> D]
    BY DEF Init
  <2> HIDE DEF D
  <2>3. HeightsOK({<<>>}, D)
    BY <2>1, RootHeights
  <2> QED BY <2>1, <2>2, <2>3 DEF DepthsOK
<1>2. TreesOK /\ DepthsOK /\ [Next]_vars => DepthsOK'
  BY DepthsStep
<1> QED BY <1>1, <1>2, TreesStayWhole, PTL DEF Spec

(***************************************************************************)
(* In every sequence of calls the `depth` of a tree node is the height of  *)
(* the subtree below it, and the set's own depth is at least the height of *)
(* its highest tree.                                                       *)
(***************************************************************************)
THEOREM DepthIsHeightAlways == Spec => []DepthIsHeight
<1>1. TreesOK /\ DepthsOK => DepthIsHeight
  <2> SUFFICES ASSUME TreesOK, DepthsOK, NEW o \in Objects, NEW q \in nodes[o]
               PROVE  LET height == Max({Len(r) - Len(q) : r \in Below(nodes[o], q)})
                      IN  /\ q # <<>> => depth[o][q] = height
                          /\ q = <<>> => depth[o][q] >= height
    BY DEF DepthIsHeight
  <2>1. Whole(nodes[o]) /\ HeightsOK(nodes[o], depth[o])
    BY DEF TreesOK, DepthsOK, Trees
  <2> QED BY <2>1, HeightIsGreatest
<1> QED BY <1>1, TreesStayWhole, DepthsAlways, PTL

\* The variables that no other one depends on.
FormsOK == form \in [Objects -> Forms] /\ parsed \in 0 .. MaxParsed

(* The form of an object stays one of five and the bound on the parses is kept. *)
LEMMA FormsAlways == Spec => []FormsOK
<1>1. Init => FormsOK
  BY BoundsAssumption DEF Init, FormsOK, Forms
<1>2. FormsOK /\ [Next]_vars => FormsOK'
  <2> SUFFICES ASSUME FormsOK, [Next]_vars
               PROVE  FormsOK'
    OBVIOUS
  <2> USE DEF FormsOK, Forms
  <2>1. \A f \in Forms : \A g \in Forms :
          Join(f, g) \in Forms /\ DensifiedForm(f) \in Forms /\ SparsifiedForm(f) \in Forms
    BY DEF Join, DensifiedForm, SparsifiedForm
  <2>2. ASSUME NEW o \in Objects, New(o)
        PROVE  FormsOK'
    BY <2>2 DEF New
  <2>3. ASSUME NEW o \in Objects, ParseCall(o)
        PROVE  FormsOK'
    <3>1. PICK patterns : \E dense \in BOOLEAN :
            /\ IsFiniteSet(patterns) /\ \A x \in patterns : x.prefix \in Contexts
            /\ patterns # {} /\ Observe(o, patterns, dense)
      BY <2>3, ParseObserves
    <3>2. PICK dense \in BOOLEAN : Observe(o, patterns, dense)
      BY <3>1
    <3>3. Cardinality(patterns) \in Nat
      BY <3>1, FS_CardinalityType
    <3>4. parsed' \in 0 .. MaxParsed
      BY <3>2, <3>3 DEF Observe
    <3>5. form' = [form EXCEPT ![o] = Join(form[o], IF dense THEN "dense" ELSE "sparse")]
      BY <3>2 DEF Observe
    <3>6. Join(form[o], IF dense THEN "dense" ELSE "sparse") \in Forms
      BY <2>1
    <3> QED BY <3>4, <3>5, <3>6
  <2>4. ASSUME NEW o \in Objects, Densify(o)
        PROVE  FormsOK'
    BY <2>1, <2>4 DEF Densify
  <2>5. ASSUME NEW o \in Objects, Sparsify(o)
        PROVE  FormsOK'
    BY <2>1, <2>5 DEF Sparsify
  <2>6. ASSUME NEW o \in Objects, NEW x \in Objects, Merge(o, x)
        PROVE  FormsOK'
    BY <2>1, <2>6 DEF Merge
  <2>7. ASSUME NEW o \in Objects, NEW x \in Objects, Reload(o, x)
        PROVE  FormsOK'
    BY <2>7 DEF Reload
  <2>8. CASE UNCHANGED vars
    BY <2>8 DEF vars
  <2> QED BY <2>2, <2>3, <2>4, <2>5, <2>6, <2>7, <2>8 DEF Next
<1> QED BY <1>1, <1>2, PTL DEF Spec

(***************************************************************************)
(* Every variable keeps its type: counts and totals are never taken below  *)
(* zero by sparsify, and no depth is computed out of an empty set.         *)
(***************************************************************************)
THEOREM TypesAlways == Spec => []TypeOK
<1>1. TreesOK /\ TotalsOK /\ DepthsOK /\ FormsOK => TypeOK
  <2> SUFFICES ASSUME TreesOK, TotalsOK, DepthsOK, FormsOK
               PROVE  TypeOK
    OBVIOUS
  <2>1. nodes \in [Objects -> SUBSET Paths]
    BY DEF TreesOK, Trees
  <2>2. sampler \in [Objects -> [Paths -> Sampler]]
    BY DEF TotalsOK, Summed
  <2> QED BY <2>1, <2>2 DEF DepthsOK, FormsOK, TypeOK
<1> QED BY <1>1, TreesStayWhole, TotalsAlways, DepthsAlways, FormsAlways, PTL


-----------------------------------------------------------------------------
(* Samplers and their counts *)

(* Samplers that verify are the same if they count the same. *)
LEMMA SameCounts ==
  ASSUME NEW s \in Sampler, Verify(s), NEW r \in Sampler, Verify(r),
         \A t \in Tokens : s.counts[t] = r.counts[t]
  PROVE  s = r
<1>1. s.counts \in [Tokens -> Nat] /\ r.counts \in [Tokens -> Nat]
  BY DEF Sampler, Counts
<1>2. s.counts = r.counts
  BY <1>1
<1>3. s.total = r.total
  BY <1>2 DEF Verify
<1> QED BY <1>2, <1>3 DEF Sampler

(* So are families of them. *)
LEMMA SameFamily ==
  ASSUME NEW S \in Summed, NEW R \in Summed,
         \A q \in Paths : \A t \in Tokens : S[q].counts[t] = R[q].counts[t]
  PROVE  S = R
<1>1. \A q \in Paths : S[q] = R[q]
  BY SameCounts DEF Summed
<1> QED BY <1>1 DEF Summed

(* A sampler that verifies has a total if it has counted a token. *)
LEMMA TotalPositive ==
  ASSUME NEW s \in Sampler, Verify(s)
  PROVE  /\ s.total > 0 <=> \E t \in Tokens : s.counts[t] > 0
         /\ s.total = 0 => s = EmptySampler
<1>1. \A t \in Tokens : s.counts[t] \in Nat
  BY DEF Sampler, Counts
<1>2. s.total = SumOver(Tokens, s.counts) /\ s.total \in Nat
  BY DEF Verify, Sampler
<1>3. s.total > 0 <=> \E t \in Tokens : s.counts[t] > 0
  BY <1>1, <1>2, SumPositive, TokensAssumption
<1>4. ASSUME s.total = 0
      PROVE  s = EmptySampler
  <2>1. \A t \in Tokens : s.counts[t] = EmptySampler.counts[t]
    BY <1>1, <1>3, <1>4 DEF EmptySampler, NoCounts
  <2> QED BY <2>1, EmptyVerifies, SameCounts
<1> QED BY <1>3, <1>4

(* The empty sampler has counted nothing. *)
LEMMA EmptyCounts == EmptySampler.total = 0 /\ \A t \in Tokens : EmptySampler.counts[t] = 0
BY DEF EmptySampler, NoCounts

-----------------------------------------------------------------------------
(* What was observed *)

(***************************************************************************)
(* The observations an object with the nodes N can have made, each in the  *)
(* sampler of its context: none at the root and outside N, and some below  *)
(* every node of a tree.                                                   *)
(***************************************************************************)
Observations(N) ==
    {S \in Summed :
       /\ S[<<>>] = EmptySampler
       /\ \A q \in Paths \ N : S[q] = EmptySampler
       /\ \A q \in N \ {<<>>} : \E r \in Below(N, q) : S[r].total > 0}

\* The samplers that show the observations S in the given form.
Shown(f, S, N) == IF f = "dense" THEN Densified(S, N) ELSE S

\* The observations, as the abstract specification keeps them.
Table(S) == [p \in Contexts |-> [t \in Tokens |-> S[p].counts[t]]]

(* The observations of one token are numbers, none at the root and outside the tree. *)
LEMMA ObservedCounts ==
  ASSUME NEW N \in Trees, NEW S \in Observations(N), NEW t \in Tokens
  PROVE  /\ CountsOf(S, t) \in [Paths -> Nat]
         /\ CountsOf(S, t)[<<>>] = 0
         /\ \A q \in Paths \ N : CountsOf(S, t)[q] = 0
         /\ \A q \in Paths : CountsOf(S, t)[q] = S[q].counts[t] /\ S[q].counts[t] \in Nat
<1>1. S \in [Paths -> Sampler]
  BY DEF Observations, Summed
<1>2. \A q \in Paths : CountsOf(S, t)[q] = S[q].counts[t] /\ S[q].counts[t] \in Nat
  BY <1>1 DEF CountsOf, Sampler, Counts
<1>3. CountsOf(S, t) = [q \in Paths |-> CountsOf(S, t)[q]]
  BY DEF CountsOf
<1>4. CountsOf(S, t) \in [Paths -> Nat]
  BY <1>2, <1>3
<1>5. S[<<>>].counts[t] = 0 /\ \A q \in Paths \ N : S[q].counts[t] = 0
  BY EmptyCounts DEF Observations
<1> QED BY <1>2, <1>4, <1>5, RootIsPath

(* A context that is known ends every context at and below its node. *)
LEMMA DensifiedGathers ==
  ASSUME NEW N \in Trees, NEW S \in Observations(N), NEW q \in Paths, NEW t \in Tokens
  PROVE  Densified(S, N)[q].counts[t] = Gathered(CountsOf(S, t), q)
<1> DEFINE A == {q} \cup Below(N, q)
           a == [r \in A |-> S[r].counts[t]]
<1>1. Whole(N)
  BY DEF Trees
<1>2. IsFiniteSet(A) /\ A \subseteq Paths
  BY <1>1, TreeFinite, FS_AddElement
<1>3. Densified(S, N)[q].counts[t] = SumOver(A, a)
  BY DEF Densified, DensifiedCounts
<1>4. \A r \in A : a[r] = CountsOf(S, t)[r]
  BY <1>2, ObservedCounts
<1> HIDE DEF a
<1>5. SumOver(A, a) = Share(N, CountsOf(S, t), q)
  BY <1>4, SumSame DEF Share
<1>6. Share(N, CountsOf(S, t), q) = Gathered(CountsOf(S, t), q)
  <2> DEFINE F == CountsOf(S, t)
  <2>1. F \in [Paths -> Nat] /\ \A r \in Paths \ N : F[r] = 0
    BY ObservedCounts
  <2> HIDE DEF F
  <2>2. Share(N, F, q) = Gathered(F, q)
    BY <1>1, <2>1, ShareIsGathered
  <2> QED BY <2>2 DEF F
<1> QED BY <1>3, <1>5, <1>6

(* Densify keeps the totals right. *)
LEMMA DensifiedSums ==
  ASSUME NEW N \in Trees, NEW S \in Observations(N)
  PROVE  Densified(S, N) \in Summed
BY DensifiedIsSummed DEF Observations

(* A dense node counts what it observed itself and what its children count. *)
LEMMA TakenByChildren ==
  ASSUME NEW N \in Trees, NEW S \in Observations(N), NEW q \in Paths, NEW t \in Tokens
  PROVE  LET D == Densified(S, N)
         IN  /\ Removed(D, N, q, t, {}) \in Nat
             /\ D[q].counts[t] = S[q].counts[t] + Removed(D, N, q, t, {})
<1> DEFINE D == Densified(S, N)
           F == CountsOf(S, t)
           kids == Children(N, q)
           g == [r \in kids |-> D[r].counts[t]]
<1>1. Whole(N)
  BY DEF Trees
<1>2. IsFiniteSet(kids) /\ kids \subseteq Paths
  BY <1>1, TreeFinite
<1>3. F \in [Paths -> Nat] /\ (\A r \in Paths \ N : F[r] = 0) /\ F[q] = S[q].counts[t]
  BY ObservedCounts
<1>4. \A k \in kids : g[k] = Gathered(F, k) /\ g[k] \in Nat
  <2>1. \A k \in kids : D[k].counts[t] = Gathered(F, k)
    BY <1>2, DensifiedGathers
  <2> HIDE DEF F, kids, D
  <2> QED BY <1>3, <2>1, GatheredType
<1>5. Removed(D, N, q, t, {}) = SumOver(kids, g)
  <2>1. {r \in Children(N, q) : <<r, t>> \notin {}} = kids
    OBVIOUS
  <2> HIDE DEF D
  <2> QED BY <2>1 DEF Removed
<1>6. D[q].counts[t] = Gathered(F, q)
  BY DensifiedGathers
<1> HIDE DEF D, F, g
<1>7. Gathered(F, q) = F[q] + SumOver(kids, g)
  BY <1>1, <1>3, <1>4, GatheredFromChildren
<1>8. SumOver(kids, g) \in Nat
  BY <1>2, <1>4, SumType
<1> QED BY <1>3, <1>5, <1>6, <1>7, <1>8 DEF D

(* So sparsify finds everything it wants to take, and skips nothing. *)
LEMMA NothingSkipped ==
  ASSUME NEW N \in Trees, NEW S \in Observations(N)
  PROVE  Skips(Densified(S, N), N) = {{}}
<1> DEFINE D == Densified(S, N)
<1>1. ASSUME NEW q \in Paths, NEW t \in Tokens
      PROVE  Removed(D, N, q, t, {}) <= D[q].counts[t] /\ ~(Removed(D, N, q, t, {}) > D[q].counts[t])
  <2>1. S[q].counts[t] \in Nat
    BY ObservedCounts
  <2>2. Removed(D, N, q, t, {}) \in Nat /\ D[q].counts[t] = S[q].counts[t] + Removed(D, N, q, t, {})
    BY TakenByChildren
  <2> QED BY <2>1, <2>2
<1> HIDE DEF D
<1>2. N \subseteq Paths /\ \A q \in N \ {<<>>} : Tail(q) \in Paths
  <2>1. Whole(N)
    BY DEF Trees
  <2>2. ASSUME NEW q \in N \ {<<>>}
        PROVE  Tail(q) \in Paths
    <3>1. q \in Paths /\ q \in Seq(Tokens) /\ Suffixes(q) \subseteq Paths
      BY <2>1, PathFacts, SuffixesArePaths DEF Whole
    <3> QED BY <3>1, OwnSuffix, SuffixFacts
  <2> QED BY <2>1, <2>2 DEF Whole
<1>3. Contested(D, N) = {}
  BY <1>1, <1>2 DEF Contested
<1>4. {} \in Skips(D, N)
  BY <1>1, <1>2, <1>3 DEF Skips
<1>5. Skips(D, N) \subseteq {{}}
  BY <1>3 DEF Skips
<1> QED BY <1>4, <1>5 DEF D

(* densify and then sparsify give back what was observed. *)
LEMMA DenseSparse ==
  ASSUME NEW N \in Trees, NEW S \in Observations(N)
  PROVE  Sparsified(Densified(S, N), N, {}) = S
<1> DEFINE D == Densified(S, N)
           P == Sparsified(D, N, {})
<1>1. S \in Summed /\ S[<<>>] = EmptySampler
  BY DEF Observations
<1>2. D \in Summed
  BY DensifiedSums
<1>3. P \in Summed
  <2>1. {} \in Skips(D, N)
    BY NothingSkipped
  <2> HIDE DEF D
  <2> QED BY <1>2, <2>1, SparsifiedIsSummed
<1>4. ASSUME NEW q \in Paths, NEW t \in Tokens
      PROVE  P[q].counts[t] = S[q].counts[t]
  <2>1. CASE q = <<>>
    <3>1. P[q] = EmptySampler
      BY <2>1 DEF Sparsified
    <3> QED BY <1>1, <2>1, <3>1
  <2>2. CASE q # <<>>
    <3> HIDE DEF D
    <3>1. P[q].counts[t] = D[q].counts[t] - Removed(D, N, q, t, {})
      BY <2>2 DEF Sparsified
    <3>2. S[q].counts[t] \in Nat
      BY ObservedCounts
    <3>3. Removed(D, N, q, t, {}) \in Nat /\ D[q].counts[t] = S[q].counts[t] + Removed(D, N, q, t, {})
      BY TakenByChildren DEF D
    <3> HIDE DEF P
    <3> QED BY <3>1, <3>2, <3>3
  <2> QED BY <2>1, <2>2
<1> HIDE DEF P, D
<1>5. P = S
  BY <1>1, <1>3, <1>4, SameFamily
<1> QED BY <1>5 DEF P, D

(* Where there is no node, nothing is shown. *)
LEMMA NothingOutside ==
  ASSUME NEW N \in Trees, NEW S \in Observations(N), NEW f, NEW q \in Paths \ N
  PROVE  Shown(f, S, N)[q] = EmptySampler
<1> DEFINE D == Densified(S, N)
<1>1. S[q] = EmptySampler
  BY DEF Observations
<1>2. ASSUME NEW t \in Tokens
      PROVE  D[q].counts[t] = EmptySampler.counts[t]
  <2> DEFINE F == CountsOf(S, t)
  <2>1. F \in [Paths -> Nat] /\ \A r \in Paths \ N : F[r] = 0
    BY ObservedCounts
  <2>2. D[q].counts[t] = Gathered(F, q)
    BY DensifiedGathers
  <2>3. \A r \in Below(Paths, q) : r \in Paths \ N
    BY DEF Below, Trees, Whole
  <2> HIDE DEF F, D
  <2>4. \A r \in Below(Paths, q) : F[r] = 0
    BY <2>1, <2>3
  <2>5. Gathered(F, q) = 0
    BY <2>4, SumZero DEF Gathered
  <2> QED BY <2>2, <2>5, EmptyCounts
<1>3. D[q] \in Sampler /\ Verify(D[q])
  BY DensifiedSums DEF Summed
<1> HIDE DEF D
<1>4. D[q] = EmptySampler
  BY <1>2, <1>3, EmptyVerifies, SameCounts
<1> QED BY <1>1, <1>4 DEF Shown, D

(* A node of a tree that is dense has counted exactly what followed the contexts below. *)
LEMMA DenseCounts ==
  ASSUME NEW N \in Trees, NEW S \in Observations(N), NEW q \in Paths, NEW t \in Tokens
  PROVE  Densified(S, N)[q].counts[t] > 0
           <=> \E r \in Below(N, q) \ {<<>>} : S[r].counts[t] > 0
<1> DEFINE F == CountsOf(S, t)
<1>1. /\ F \in [Paths -> Nat] /\ F[<<>>] = 0 /\ \A r \in Paths \ N : F[r] = 0
      /\ \A r \in Paths : F[r] = S[r].counts[t]
  BY ObservedCounts
<1>2. Densified(S, N)[q].counts[t] = Gathered(F, q)
  BY DensifiedGathers
<1>3. N \subseteq Paths
  BY DEF Trees
<1> HIDE DEF F
<1>4. Gathered(F, q) > 0 <=> \E r \in Below(Paths, q) : F[r] > 0
  BY <1>1, GatheredType
<1>5. \A r \in Below(Paths, q) : F[r] > 0 => r \in Below(N, q) \ {<<>>}
  BY <1>1 DEF Below
<1>6. \A r \in Below(N, q) : r \in Below(Paths, q)
  BY <1>3 DEF Below
<1>7. \A r \in Below(Paths, q) : r \in Paths
  BY DEF Below
<1> QED BY <1>1, <1>2, <1>4, <1>5, <1>6, <1>7

-----------------------------------------------------------------------------
(* Parsing *)

\* The patterns a parse can hand down: some, with a context and a token each.
Given(patterns) == Patterned(patterns) /\ patterns # {}

\* What patterns teach: how often each token follows each context.
Learned(patterns) ==
    [p \in Contexts |-> [t \in Tokens |-> CountOf(patterns, p, t, FALSE)]]

\* The observations of t that the patterns bring to each context.
News(patterns, t) == [q \in Paths |-> CountOf(patterns, q, t, FALSE)]

(* A sparse parse counts a pattern at its context alone. *)
LEMMA NewsFacts ==
  ASSUME NEW patterns, Given(patterns), NEW t \in Tokens
  PROVE  /\ News(patterns, t) = Exactly(patterns, t)
         /\ News(patterns, t) \in [Paths -> Nat]
         /\ \A q \in Paths : q \notin Touched(patterns) => News(patterns, t)[q] = 0
         /\ News(patterns, t)[<<>>] = 0
         /\ \A x \in patterns : x.next = t => News(patterns, t)[x.prefix] > 0
<1>1. ASSUME NEW q \in Paths
      PROVE  News(patterns, t)[q] = Exactly(patterns, t)[q]
  <2>1. {x \in patterns : x.next = t /\ q \in Counted(x.prefix, FALSE)}
          = {x \in patterns : x.next = t /\ x.prefix = q}
    BY DEF Counted
  <2> QED BY <2>1 DEF News, CountOf, Exactly
<1>2. News(patterns, t) = Exactly(patterns, t)
  BY <1>1 DEF News, Exactly
<1> QED BY <1>2, ExactlyFacts DEF Given

(* A dense parse counts at a node what a sparse one counts at the contexts below it. *)
LEMMA DenseNews ==
  ASSUME NEW patterns, Given(patterns), NEW t \in Tokens, NEW q \in Paths
  PROVE  CountOf(patterns, q, t, TRUE) = Gathered(News(patterns, t), q)
<1>1. CountOf(patterns, q, t, TRUE)
        = Cardinality({x \in patterns : x.next = t /\ q \in Suffixes(x.prefix)})
  BY DEF CountOf, Counted
<1>2. News(patterns, t) = Exactly(patterns, t)
  BY NewsFacts
<1> QED BY <1>1, <1>2, PatternsGather DEF Given

(* What a parse, sparse or dense, leaves in the samplers. *)
LEMMA ObservedAt ==
  ASSUME NEW R \in Summed, NEW patterns, Given(patterns), NEW dense \in BOOLEAN,
         NEW q \in Paths, NEW t \in Tokens
  PROVE  ObservedSamplers(R, Touched(patterns), patterns, dense)[q].counts[t]
           = R[q].counts[t] + CountOf(patterns, q, t, dense)
<1>1. CASE q \in Touched(patterns)
  BY <1>1 DEF ObservedSamplers, AddCounts
<1>2. CASE q \notin Touched(patterns)
  <2>1. {x \in patterns : x.next = t /\ q \in Counted(x.prefix, dense)} = {}
    <3>1. \A x \in patterns : x.prefix \in Suffixes(x.prefix)
      BY PathFacts, OwnSuffix DEF Given, Patterned, Contexts
    <3>2. \A x \in patterns : q \notin Counted(x.prefix, dense)
      BY <1>2, <3>1 DEF Counted, Touched
    <3> QED BY <3>2
  <2>2. CountOf(patterns, q, t, dense) = 0
    BY <2>1, FS_EmptySet DEF CountOf
  <2>3. R[q].counts[t] \in Nat
    BY DEF Summed, Sampler, Counts
  <2> QED BY <1>2, <2>2, <2>3 DEF ObservedSamplers
<1> QED BY <1>1, <1>2

(* A sparse parse adds observations to observations. *)
LEMMA SparseParse ==
  ASSUME NEW N \in Trees, NEW S \in Observations(N), NEW patterns, Given(patterns)
  PROVE  LET T == Touched(patterns)
             R == ObservedSamplers(S, T, patterns, FALSE)
         IN  /\ R \in Observations(N \cup T)
             /\ \A q \in Paths : \A t \in Tokens :
                  R[q].counts[t] = S[q].counts[t] + News(patterns, t)[q]
<1> DEFINE T == Touched(patterns)
           R == ObservedSamplers(S, T, patterns, FALSE)
<1>1. S \in Summed /\ R \in Summed
  BY ObservedIsSummed DEF Observations, Given, Patterned
<1>2. ASSUME NEW q \in Paths, NEW t \in Tokens
      PROVE  /\ R[q].counts[t] = S[q].counts[t] + News(patterns, t)[q]
             /\ S[q].counts[t] \in Nat /\ News(patterns, t)[q] \in Nat
  BY <1>1, ObservedAt, ObservedCounts, NewsFacts DEF News
<1>3. N \subseteq Paths /\ \A q \in Paths : R[q] \in Sampler /\ Verify(R[q]) /\ S[q] \in Sampler /\ Verify(S[q])
  BY <1>1 DEF Summed, Trees
<1> HIDE DEF R
<1>4. ASSUME NEW q \in Paths, q = <<>> \/ q \notin N \cup T
      PROVE  R[q] = EmptySampler
  <2>1. S[q] = EmptySampler
    BY <1>4 DEF Observations
  <2>2. \A t \in Tokens : R[q].counts[t] = EmptySampler.counts[t]
    BY <1>2, <1>4, <2>1, NewsFacts, EmptyCounts
  <2> QED BY <1>3, <2>2, EmptyVerifies, SameCounts
<1>5. ASSUME NEW q \in (N \cup T) \ {<<>>}
      PROVE  \E r \in Below(N \cup T, q) : R[r].total > 0
  <2>1. CASE q \in N
    <3>1. PICK r \in Below(N, q) : S[r].total > 0
      BY <1>5, <2>1 DEF Observations
    <3>2. r \in Paths /\ r \in Below(N \cup T, q)
      BY <1>3 DEF Below
    <3>3. PICK t \in Tokens : S[r].counts[t] > 0
      BY <1>3, <3>1, <3>2, TotalPositive
    <3>4. R[r].counts[t] > 0
      BY <1>2, <3>2, <3>3
    <3> QED BY <1>3, <3>2, <3>4, TotalPositive
  <2>2. CASE q \in T
    <3>1. PICK x \in patterns : q \in Suffixes(x.prefix)
      BY <2>2 DEF Touched
    <3>2. x.prefix \in Paths /\ x.next \in Tokens /\ x.prefix \in Suffixes(x.prefix)
      BY PathFacts, OwnSuffix DEF Given, Patterned, Contexts
    <3>3. x.prefix \in Below(N \cup T, q)
      BY <3>1, <3>2 DEF Below, Touched
    <3>4. News(patterns, x.next)[x.prefix] > 0
      BY <3>2, NewsFacts
    <3>5. R[x.prefix].counts[x.next] > 0
      BY <1>2, <3>2, <3>4
    <3> QED BY <1>3, <3>2, <3>3, <3>5, TotalPositive
  <2> QED BY <1>5, <2>1, <2>2
<1>6. R \in Observations(N \cup T)
  BY <1>1, <1>4, <1>5, RootIsPath DEF Observations
<1> QED BY <1>2, <1>6 DEF R

(* A dense parse shows what a sparse parse of the same patterns would have observed. *)
LEMMA DenseParse ==
  ASSUME NEW N \in Trees, NEW S \in Observations(N), NEW patterns, Given(patterns)
  PROVE  LET T == Touched(patterns)
         IN  ObservedSamplers(Densified(S, N), T, patterns, TRUE)
               = Densified(ObservedSamplers(S, T, patterns, FALSE), N \cup T)
<1> DEFINE T == Touched(patterns)
           D == Densified(S, N)
           R == ObservedSamplers(S, T, patterns, FALSE)
           E == ObservedSamplers(D, T, patterns, TRUE)
           G == Densified(R, N \cup T)
<1>1. R \in Observations(N \cup T)
  BY SparseParse
<1>2. N \cup T \in Trees
  <2>1. Whole(T)
    BY TouchedIsWhole DEF Given, Patterned
  <2> QED BY <2>1, GrownIsWhole DEF Trees, Whole
<1>3. D \in Summed
  BY DensifiedSums
<1>4. E \in Summed
  <2> HIDE DEF D
  <2> QED BY <1>3, ObservedIsSummed DEF Given, Patterned
<1>5. G \in Summed
  <2> HIDE DEF R
  <2> QED BY <1>1, <1>2, DensifiedSums
<1>6. ASSUME NEW q \in Paths, NEW t \in Tokens
      PROVE  E[q].counts[t] = G[q].counts[t]
  <2> DEFINE F == CountsOf(S, t)
             H == CountsOf(R, t)
             A == News(patterns, t)
  <2>1. E[q].counts[t] = D[q].counts[t] + CountOf(patterns, q, t, TRUE)
    <3> HIDE DEF D
    <3> QED BY <1>3, ObservedAt
  <2>2. D[q].counts[t] = Gathered(F, q) /\ CountOf(patterns, q, t, TRUE) = Gathered(A, q)
    BY DensifiedGathers, DenseNews
  <2>3. G[q].counts[t] = Gathered(H, q)
    <3> HIDE DEF R
    <3> QED BY <1>1, <1>2, DensifiedGathers
  <2>4. F \in [Paths -> Nat] /\ A \in [Paths -> Nat]
    BY ObservedCounts, NewsFacts
  <2>5. \A r \in Paths : H[r] = F[r] + A[r]
    <3>1. \A r \in Paths : R[r].counts[t] = S[r].counts[t] + A[r]
      BY SparseParse
    <3> HIDE DEF R, A
    <3> QED BY <3>1 DEF CountsOf
  <2> HIDE DEF F, H, A, D, R, E, G
  <2>6. Gathered(H, q) = Gathered(F, q) + Gathered(A, q)
    BY <2>4, <2>5, GatheredPlus
  <2> QED BY <2>1, <2>2, <2>3, <2>6
<1> HIDE DEF E, G
<1>7. E = G
  BY <1>4, <1>5, <1>6, SameFamily
<1> QED BY <1>7 DEF E, G

-----------------------------------------------------------------------------
(* Merging *)

(* Merging adds the observations of the one to those of the other. *)
LEMMA MergedObservations ==
  ASSUME NEW N \in Trees, NEW S \in Observations(N), NEW M \in Trees, NEW R \in Observations(M)
  PROVE  MergedSamplers(S, R) \in Observations(N \cup M)
<1> DEFINE G == MergedSamplers(S, R)
<1>1. S \in Summed /\ R \in Summed /\ G \in Summed
  BY MergedIsSummed DEF Observations
<1>2. ASSUME NEW q \in Paths, NEW t \in Tokens
      PROVE  /\ G[q].counts[t] = S[q].counts[t] + R[q].counts[t]
             /\ S[q].counts[t] \in Nat /\ R[q].counts[t] \in Nat
  <2>1. G[q].counts[t] = S[q].counts[t] + R[q].counts[t]
    BY DEF MergedSamplers, MergeSamplers, AddCounts
  <2> HIDE DEF G
  <2> QED BY <2>1, ObservedCounts
<1>3. /\ N \subseteq Paths /\ M \subseteq Paths
      /\ \A q \in Paths : /\ S[q] \in Sampler /\ Verify(S[q]) /\ R[q] \in Sampler /\ Verify(R[q])
                          /\ G[q] \in Sampler /\ Verify(G[q])
  BY <1>1 DEF Summed, Trees
<1> HIDE DEF G
<1>4. ASSUME NEW q \in Paths, q = <<>> \/ q \notin N \cup M
      PROVE  G[q] = EmptySampler
  <2>1. S[q] = EmptySampler /\ R[q] = EmptySampler
    BY <1>4 DEF Observations
  <2>2. \A t \in Tokens : G[q].counts[t] = EmptySampler.counts[t]
    BY <1>2, <2>1, EmptyCounts
  <2> QED BY <1>3, <2>2, EmptyVerifies, SameCounts
<1>5. ASSUME NEW q \in (N \cup M) \ {<<>>}
      PROVE  \E r \in Below(N \cup M, q) : G[r].total > 0
  <2>1. \E r \in Paths : /\ r \in Below(N \cup M, q)
                         /\ S[r].total > 0 \/ R[r].total > 0
    <3>1. CASE q \in N
      <4>1. PICK r \in Below(N, q) : S[r].total > 0
        BY <1>5, <3>1 DEF Observations
      <4> QED BY <1>3, <4>1 DEF Below
    <3>2. CASE q \in M
      <4>1. PICK r \in Below(M, q) : R[r].total > 0
        BY <1>5, <3>2 DEF Observations
      <4> QED BY <1>3, <4>1 DEF Below
    <3> QED BY <1>5, <3>1, <3>2
  <2>2. PICK r \in Paths : /\ r \in Below(N \cup M, q)
                           /\ S[r].total > 0 \/ R[r].total > 0
    BY <2>1
  <2>3. PICK t \in Tokens : S[r].counts[t] > 0 \/ R[r].counts[t] > 0
    BY <1>3, <2>2, TotalPositive
  <2>4. G[r].counts[t] > 0
    BY <1>2, <2>3
  <2> QED BY <1>3, <2>2, <2>4, TotalPositive
<1>6. G \in Observations(N \cup M)
  BY <1>1, <1>4, <1>5, RootIsPath DEF Observations
<1> QED BY <1>6 DEF G

(* Dense samplers merge to what densify makes of the merged observations. *)
LEMMA MergedDense ==
  ASSUME NEW N \in Trees, NEW S \in Observations(N), NEW M \in Trees, NEW R \in Observations(M)
  PROVE  MergedSamplers(Densified(S, N), Densified(R, M))
           = Densified(MergedSamplers(S, R), N \cup M)
<1> DEFINE D == Densified(S, N)
           E == Densified(R, M)
           G == MergedSamplers(S, R)
           V == MergedSamplers(D, E)
           W == Densified(G, N \cup M)
<1>1. G \in Observations(N \cup M)
  BY MergedObservations
<1>2. N \cup M \in Trees
  BY GrownIsWhole DEF Trees, Whole
<1>3. D \in Summed /\ E \in Summed
  BY DensifiedSums
<1>4. V \in Summed
  <2> HIDE DEF D, E
  <2> QED BY <1>3, MergedIsSummed
<1>5. W \in Summed
  <2> HIDE DEF G
  <2> QED BY <1>1, <1>2, DensifiedSums
<1>6. ASSUME NEW q \in Paths, NEW t \in Tokens
      PROVE  V[q].counts[t] = W[q].counts[t]
  <2> DEFINE F == CountsOf(S, t)
             A == CountsOf(R, t)
             H == CountsOf(G, t)
  <2>1. V[q].counts[t] = D[q].counts[t] + E[q].counts[t]
    <3> HIDE DEF D, E
    <3> QED BY DEF MergedSamplers, MergeSamplers, AddCounts
  <2>2. D[q].counts[t] = Gathered(F, q) /\ E[q].counts[t] = Gathered(A, q)
    BY DensifiedGathers
  <2>3. W[q].counts[t] = Gathered(H, q)
    <3> HIDE DEF G
    <3> QED BY <1>1, <1>2, DensifiedGathers
  <2>4. F \in [Paths -> Nat] /\ A \in [Paths -> Nat]
    BY ObservedCounts
  <2>5. \A r \in Paths : H[r] = F[r] + A[r]
    BY DEF MergedSamplers, MergeSamplers, AddCounts, CountsOf
  <2> HIDE DEF F, A, H, D, E, G, V, W
  <2>6. Gathered(H, q) = Gathered(F, q) + Gathered(A, q)
    BY <2>4, <2>5, GatheredPlus
  <2> QED BY <2>1, <2>2, <2>3, <2>6
<1> HIDE DEF V, W
<1>7. V = W
  BY <1>4, <1>5, <1>6, SameFamily
<1> QED BY <1>7 DEF V, W

-----------------------------------------------------------------------------
(* A new object *)

\* No sampler has counted anything.
Untouched == [q \in Paths |-> EmptySampler]

(* An object of the root alone has observed nothing, and densify makes nothing of it. *)
LEMMA BlankFacts ==
  /\ {<<>>} \in Trees /\ Untouched \in Observations({<<>>})
  /\ \A S \in Observations({<<>>}) : S = Untouched
  /\ Densified(Untouched, {<<>>}) = Untouched
<1>1. {<<>>} \in Trees
  BY RootIsWhole, RootIsPath DEF Trees
<1>2. Untouched \in Observations({<<>>})
  <2>1. Untouched \in Summed
    BY NewIsSummed DEF Untouched
  <2> QED BY <2>1, RootIsPath DEF Observations, Untouched
<1>3. ASSUME NEW S \in Observations({<<>>})
      PROVE  S = Untouched
  <2>1. S \in [Paths -> Sampler] /\ \A q \in Paths : S[q] = EmptySampler
    BY DEF Observations, Summed
  <2> QED BY <2>1 DEF Untouched
<1>4. Densified(Untouched, {<<>>}) = Untouched
  <2> DEFINE D == Densified(Untouched, {<<>>})
  <2>1. D \in Summed /\ Untouched \in Summed
    BY <1>1, <1>2, DensifiedSums DEF Observations
  <2>2. ASSUME NEW q \in Paths, NEW t \in Tokens
        PROVE  D[q].counts[t] = Untouched[q].counts[t]
    <3> DEFINE F == CountsOf(Untouched, t)
    <3>1. D[q].counts[t] = Gathered(F, q)
      BY <1>1, <1>2, DensifiedGathers
    <3>2. \A r \in Below(Paths, q) : F[r] = 0
      BY EmptyCounts DEF CountsOf, Untouched, Below
    <3> HIDE DEF F
    <3>3. Gathered(F, q) = 0
      BY <3>2, SumZero DEF Gathered
    <3> QED BY <3>1, <3>3, EmptyCounts DEF Untouched
  <2> HIDE DEF D
  <2>3. D = Untouched
    BY <2>1, <2>2, SameFamily
  <2> QED BY <2>3 DEF D
<1> QED BY <1>1, <1>2, <1>3, <1>4

-----------------------------------------------------------------------------
(* An object used as intended *)

(***************************************************************************)
(* The nodes N, samplers R and depths D of an object of the form f are     *)
(* those that some observations lead to: with none of its own it has only  *)
(* the root, its samplers show them, and its own depth is that of a node.  *)
(* What a drained object keeps in its root is not looked at.               *)
(***************************************************************************)
Intended(f, N, R, D) ==
    /\ f \in {"new", "sparse", "dense", "drained"}
    /\ f \in {"new", "drained"} <=> N = {<<>>}
    /\ f # "drained" => \E S \in Observations(N) : R = Shown(f, S, N)
    /\ f # "drained" => \E r \in N : Len(r) = D[<<>>]

\* Own, of an object of the form f with the nodes N and the samplers R.
OwnOf(f, N, R) ==
    [p \in Contexts |-> [t \in Tokens |->
       CASE f = "sparse" -> R[p].counts[t]
         [] f = "dense" -> R[p].counts[t] - Removed(R, N, p, t, {})
         [] OTHER -> 0]]

(* A new object may count as sparse or as dense. *)
LEMMA ShownAs ==
  ASSUME NEW N \in Trees, NEW S \in Observations(N), NEW f, f = "new" => N = {<<>>},
         NEW h \in {"new", "sparse", "dense"}, f \in {"new", h}
  PROVE  Shown(f, S, N) = Shown(h, S, N)
<1>1. CASE f = h
  BY <1>1
<1>2. CASE f # h
  <2>1. N = {<<>>} /\ S = Untouched /\ f = "new"
    BY <1>2, BlankFacts
  <2>2. Densified(S, N) = S
    BY <2>1, BlankFacts
  <2> QED BY <2>1, <2>2 DEF Shown
<1> QED BY <1>1, <1>2

(* What an object shows is read back as what it observed. *)
LEMMA OwnIsTable ==
  ASSUME NEW N \in Trees, NEW S \in Observations(N), NEW f \in {"new", "sparse", "dense"},
         f = "new" => N = {<<>>}
  PROVE  OwnOf(f, N, Shown(f, S, N)) = Table(S)
<1> DEFINE R == Shown(f, S, N)
           own(p, t) == CASE f = "sparse" -> R[p].counts[t]
                          [] f = "dense" -> R[p].counts[t] - Removed(R, N, p, t, {})
                          [] OTHER -> 0
<1>1. ASSUME NEW p \in Contexts, NEW t \in Tokens
      PROVE  own(p, t) = S[p].counts[t]
  <2>1. p \in Paths /\ S[p].counts[t] \in Nat
    BY ObservedCounts DEF Contexts
  <2>2. CASE f = "new"
    <3>1. N = {<<>>} /\ S = Untouched
      BY <2>2, BlankFacts
    <3>2. S[p].counts[t] = 0
      BY <2>1, <3>1, EmptyCounts DEF Untouched
    <3> HIDE DEF R
    <3> QED BY <2>2, <3>2
  <2>3. CASE f = "sparse"
    <3>1. R = S
      BY <2>3 DEF Shown
    <3> HIDE DEF R
    <3> QED BY <2>3, <3>1
  <2>4. CASE f = "dense"
    <3>1. R = Densified(S, N)
      BY <2>4 DEF Shown
    <3>2. /\ Removed(R, N, p, t, {}) \in Nat
          /\ R[p].counts[t] = S[p].counts[t] + Removed(R, N, p, t, {})
      BY <2>1, <3>1, TakenByChildren
    <3> HIDE DEF R
    <3>3. own(p, t) = R[p].counts[t] - Removed(R, N, p, t, {})
      BY <2>4
    <3> HIDE DEF own
    <3> QED BY <2>1, <3>2, <3>3
  <2> QED BY <2>2, <2>3, <2>4
<1>2. OwnOf(f, N, R) = [p \in Contexts |-> [t \in Tokens |-> own(p, t)]]
  BY DEF OwnOf
<1> HIDE DEF own, R
<1>3. OwnOf(f, N, R) = Table(S)
  BY <1>1, <1>2 DEF Table
<1> QED BY <1>3 DEF R

(* An object that observed something, or nothing yet, has made these observations. *)
LEMMA ObservationsOf ==
  ASSUME NEW N \in Trees, NEW f, f # "drained", NEW R, NEW D, Intended(f, N, R, D)
  PROVE  \E S \in Observations(N) :
           /\ R = Shown(f, S, N) /\ OwnOf(f, N, R) = Table(S)
           /\ f \in {"new", "sparse", "dense"} /\ (f = "new" => N = {<<>>})
<1>1. f \in {"new", "sparse", "dense"} /\ (f = "new" => N = {<<>>})
  BY DEF Intended
<1>2. PICK S \in Observations(N) : R = Shown(f, S, N)
  BY DEF Intended
<1> QED BY <1>1, <1>2, OwnIsTable

\* Two tables together.
Added(f, g) == [p \in Contexts |-> [t \in Tokens |-> f[p][t] + g[p][t]]]

\* What a parse makes of a new object.
Kind(dense) == IF dense THEN "dense" ELSE "sparse"

(* A parse of the right kind leaves an object as intended, and adds its patterns. *)
LEMMA ParsedObject ==
  ASSUME NEW N \in Trees, NEW f, NEW R, NEW D, Intended(f, N, R, D), HeightsOK(N, D),
         NEW patterns, Given(patterns), NEW dense \in BOOLEAN,
         NEW g, g = Join(f, Kind(dense)), g # "mixed"
  PROVE  LET T == Touched(patterns)
             P == ObservedSamplers(R, T, patterns, dense)
         IN  /\ Intended(g, N \cup T, P, Deepened(D, T))
             /\ OwnOf(g, N \cup T, P) = Added(OwnOf(f, N, R), Learned(patterns))
<1> DEFINE T == Touched(patterns)
           P == ObservedSamplers(R, T, patterns, dense)
<1>1. f # "drained" /\ g = Kind(dense) /\ f \in {"new", g}
  BY DEF Join, Intended, Kind
<1>2. PICK S \in Observations(N) :
        /\ R = Shown(f, S, N) /\ OwnOf(f, N, R) = Table(S)
        /\ f \in {"new", "sparse", "dense"} /\ (f = "new" => N = {<<>>})
  BY <1>1, ObservationsOf
<1> DEFINE Q == ObservedSamplers(S, T, patterns, FALSE)
<1>3. Q \in Observations(N \cup T)
  BY SparseParse
<1>4. Whole(N) /\ Whole(T) /\ N \cup T \in Trees
  <2>1. Whole(T)
    BY TouchedIsWhole DEF Given, Patterned
  <2> QED BY <2>1, GrownIsWhole DEF Trees, Whole
<1>5. P = Shown(g, Q, N \cup T)
  <2>1. R = Shown(g, S, N)
    <3>1. g \in {"new", "sparse", "dense"}
      BY <1>1 DEF Kind
    <3> QED BY <1>1, <1>2, <3>1, ShownAs
  <2>2. CASE dense
    <3>1. R = Densified(S, N) /\ dense = TRUE /\ g = "dense"
      BY <1>1, <2>1, <2>2 DEF Shown, Kind
    <3>2. P = Densified(Q, N \cup T)
      BY <3>1, DenseParse
    <3> QED BY <3>1, <3>2 DEF Shown
  <2>3. CASE ~dense
    <3>1. R = S /\ dense = FALSE /\ g = "sparse"
      BY <1>1, <2>1, <2>3 DEF Shown, Kind
    <3> QED BY <3>1 DEF Shown
  <2> QED BY <2>2, <2>3
<1>6. N \cup T # {<<>>}
  <2>1. PICK x \in patterns : TRUE
    BY DEF Given
  <2>2. x.prefix # <<>> /\ x.prefix \in Suffixes(x.prefix)
    BY PathFacts, OwnSuffix DEF Given, Patterned, Contexts
  <2> QED BY <2>2 DEF Touched
<1>7. \E r \in N \cup T : Len(r) = Deepened(D, T)[<<>>]
  <2> DEFINE d == Deepened(D, T)[<<>>]
  <2>1. <<>> \in T /\ Len(<<>>) = 0
    BY <1>4, EmptySeq DEF Whole
  <2>2. d \in Nat /\ (d = D[<<>>] \/ \E r \in Below(T, <<>>) : d + Len(<<>>) = D[r] + Len(r))
    BY <1>4, <2>1, DeepenedBounds
  <2> HIDE DEF d
  <2>3. CASE d = D[<<>>]
    BY <1>1, <2>3 DEF Intended, d
  <2>4. ASSUME NEW r \in Below(T, <<>>), d + Len(<<>>) = D[r] + Len(r)
        PROVE  \E s \in N \cup T : Len(s) = d
    <3>1. r \in T /\ r \in Paths /\ Len(r) \in Nat
      BY <1>4, BelowFacts
    <3>2. CASE r = <<>>
      <4>1. D[<<>>] \in Nat
        BY RootIsPath DEF HeightsOK
      <4>2. d = D[<<>>]
        BY <2>1, <2>2, <2>4, <3>2, <4>1
      <4> QED BY <2>3, <4>2 DEF d
    <3>3. CASE r \in N /\ r # <<>>
      <4>1. PICK s \in Below(N, r) : Len(s) = D[r] + Len(r)
        BY <3>3 DEF HeightsOK
      <4>2. s \in N /\ d + 0 = Len(s)
        BY <2>1, <2>4, <4>1 DEF Below
      <4> QED BY <2>2, <4>2
    <3>4. CASE r \notin N
      <4>1. D[r] = 0
        BY <3>1, <3>4 DEF HeightsOK
      <4>2. Len(r) = d
        BY <2>1, <2>2, <2>4, <3>1, <4>1
      <4> QED BY <3>1, <4>2
    <3> QED BY <3>2, <3>3, <3>4
  <2> QED BY <2>2, <2>3, <2>4 DEF d
<1>8. Intended(g, N \cup T, P, Deepened(D, T))
  <2>1. g \in {"sparse", "dense"}
    BY <1>1 DEF Kind
  <2> HIDE DEF P, Q, T
  <2> QED BY <1>3, <1>5, <1>6, <1>7, <2>1 DEF Intended
<1>9. OwnOf(g, N \cup T, P) = Table(Q)
  <2>1. g \in {"new", "sparse", "dense"} /\ g # "new"
    BY <1>1 DEF Kind
  <2> HIDE DEF P, Q, T
  <2> QED BY <1>3, <1>4, <1>5, <2>1, OwnIsTable
<1>10. Table(Q) = Added(Table(S), Learned(patterns))
  <2>1. ASSUME NEW p \in Contexts, NEW t \in Tokens
        PROVE  Table(Q)[p][t] = Table(S)[p][t] + Learned(patterns)[p][t]
    <3>1. p \in Paths /\ Learned(patterns)[p][t] = News(patterns, t)[p]
      BY DEF Contexts, Learned, News
    <3>2. Q[p].counts[t] = S[p].counts[t] + News(patterns, t)[p]
      BY <3>1, SparseParse
    <3> HIDE DEF Q
    <3> QED BY <3>1, <3>2 DEF Table
  <2>2. Table(Q) = [p \in Contexts |-> [t \in Tokens |-> Table(Q)[p][t]]]
    BY DEF Table
  <2> HIDE DEF Q
  <2> QED BY <2>1, <2>2 DEF Added
<1> HIDE DEF P, Q, T
<1>11. OwnOf(g, N \cup T, P) = Added(OwnOf(f, N, R), Learned(patterns))
  BY <1>2, <1>9, <1>10
<1> QED BY <1>8, <1>11 DEF P, T

\* A table without observations.
Unobserved == [p \in Contexts |-> NoCounts]

(* A new object has observed nothing, and nothing is known of a drained one. *)
LEMMA EmptyObject ==
  ASSUME NEW f \in {"new", "drained"}, NEW D, D[<<>>] = 0 \/ f = "drained", NEW R,
         R = Untouched \/ f = "drained"
  PROVE  Intended(f, {<<>>}, R, D) /\ OwnOf(f, {<<>>}, R) = Unobserved
<1>1. f # "drained" => \E S \in Observations({<<>>}) : R = Shown(f, S, {<<>>})
  BY BlankFacts DEF Shown
<1>2. f # "drained" => \E r \in {<<>>} : Len(r) = D[<<>>]
  BY EmptySeq
<1>3. OwnOf(f, {<<>>}, R) = Unobserved
  BY DEF OwnOf, Unobserved, NoCounts
<1> QED BY <1>1, <1>2, <1>3 DEF Intended

(* Merging two objects that are not drained, and not of two kinds, adds their tables. *)
LEMMA MergedObject ==
  ASSUME NEW N \in Trees, NEW f, f # "drained", NEW R, NEW D, Intended(f, N, R, D),
         NEW M \in Trees, NEW e, e # "drained", NEW P, NEW E, Intended(e, M, P, E),
         NEW g, g = Join(f, e), g # "mixed"
  PROVE  /\ Intended(g, N \cup M, MergedSamplers(R, P), MergedDepths(D, E))
         /\ OwnOf(g, N \cup M, MergedSamplers(R, P)) = Added(OwnOf(f, N, R), OwnOf(e, M, P))
<1>1. PICK S \in Observations(N) :
        /\ R = Shown(f, S, N) /\ OwnOf(f, N, R) = Table(S)
        /\ f \in {"new", "sparse", "dense"} /\ (f = "new" => N = {<<>>})
  BY ObservationsOf
<1>2. PICK Z \in Observations(M) :
        /\ P = Shown(e, Z, M) /\ OwnOf(e, M, P) = Table(Z)
        /\ e \in {"new", "sparse", "dense"} /\ (e = "new" => M = {<<>>})
  BY ObservationsOf
<1>3. /\ g \in {"new", "sparse", "dense"} /\ f \in {"new", g} /\ e \in {"new", g}
      /\ g = "new" <=> f = "new" /\ e = "new"
  BY <1>1, <1>2 DEF Join
<1> DEFINE Q == MergedSamplers(S, Z)
<1>4. Q \in Observations(N \cup M) /\ N \cup M \in Trees
  BY MergedObservations, GrownIsWhole DEF Trees, Whole
<1>5. MergedSamplers(R, P) = Shown(g, Q, N \cup M)
  <2>1. R = Shown(g, S, N) /\ P = Shown(g, Z, M)
    BY <1>1, <1>2, <1>3, ShownAs
  <2>2. CASE g = "dense"
    <3>1. R = Densified(S, N) /\ P = Densified(Z, M)
      BY <2>1, <2>2 DEF Shown
    <3>2. MergedSamplers(R, P) = Densified(Q, N \cup M)
      BY <3>1, MergedDense
    <3> QED BY <2>2, <3>2 DEF Shown
  <2>3. CASE g # "dense"
    BY <2>1, <2>3 DEF Shown
  <2> QED BY <2>2, <2>3
<1>6. g \in {"new", "drained"} <=> N \cup M = {<<>>}
  <2>1. (f = "new" <=> N = {<<>>}) /\ (e = "new" <=> M = {<<>>})
    BY <1>1, <1>2 DEF Intended
  <2>2. <<>> \in N /\ <<>> \in M
    BY DEF Trees, Whole
  <2>3. N \cup M = {<<>>} <=> N = {<<>>} /\ M = {<<>>}
    BY <2>2
  <2> QED BY <1>3, <2>1, <2>3
<1>7. \E r \in N \cup M : Len(r) = MergedDepths(D, E)[<<>>]
  <2>1. PICK r \in N : Len(r) = D[<<>>]
    BY DEF Intended
  <2>2. PICK s \in M : Len(s) = E[<<>>]
    BY DEF Intended
  <2>3. MergedDepths(D, E)[<<>>] = (IF D[<<>>] < E[<<>>] THEN E[<<>>] ELSE D[<<>>])
    BY RootIsPath DEF MergedDepths
  <2> QED BY <2>1, <2>2, <2>3
<1> HIDE DEF Q
<1>8. Intended(g, N \cup M, MergedSamplers(R, P), MergedDepths(D, E))
  <2>1. g \in {"new", "sparse", "dense", "drained"}
    BY <1>3
  <2> QED BY <1>4, <1>5, <1>6, <1>7, <2>1 DEF Intended
<1>9. OwnOf(g, N \cup M, MergedSamplers(R, P)) = Table(Q)
  <2>1. g = "new" => N \cup M = {<<>>}
    BY <1>6
  <2> QED BY <1>3, <1>4, <1>5, <2>1, OwnIsTable
<1>10. Table(Q) = Added(Table(S), Table(Z))
  <2>1. \A p \in Contexts : \A t \in Tokens : Q[p].counts[t] = S[p].counts[t] + Z[p].counts[t]
    BY DEF Q, MergedSamplers, MergeSamplers, AddCounts, Contexts
  <2> QED BY <2>1 DEF Table, Added
<1> QED BY <1>1, <1>2, <1>8, <1>9, <1>10

(* The object whose trees were taken is drained, or still new. *)
LEMMA DrainedObject ==
  ASSUME NEW M \in Trees, NEW e, e # "drained", NEW P, NEW E, Intended(e, M, P, E)
  PROVE  LET g == IF e = "new" THEN "new" ELSE "drained"
             kept == [q \in Paths |-> IF q = <<>> THEN P[q] ELSE EmptySampler]
         IN  /\ Intended(g, {<<>>}, kept, [q \in Paths |-> IF q = <<>> THEN E[q] ELSE 0])
             /\ OwnOf(g, {<<>>}, kept) = Unobserved
<1> DEFINE g == IF e = "new" THEN "new" ELSE "drained"
           kept == [q \in Paths |-> IF q = <<>> THEN P[q] ELSE EmptySampler]
           D == [q \in Paths |-> IF q = <<>> THEN E[q] ELSE 0]
<1>1. CASE e = "new"
  <2>1. M = {<<>>} /\ \E S \in Observations(M) : P = Shown(e, S, M)
    BY <1>1 DEF Intended
  <2>2. P = Untouched
    BY <1>1, <2>1, BlankFacts DEF Shown
  <2>3. kept = Untouched
    BY <2>2 DEF Untouched
  <2>4. D[<<>>] = 0
    <3>1. E[<<>>] = 0
      BY <1>1, <2>1, EmptySeq DEF Intended
    <3> QED BY <3>1, RootIsPath
  <2>5. g = "new"
    BY <1>1
  <2> HIDE DEF g, kept, D
  <2>6. Intended(g, {<<>>}, kept, D) /\ OwnOf(g, {<<>>}, kept) = Unobserved
    BY <2>3, <2>4, <2>5, EmptyObject
  <2> QED BY <2>6 DEF g, kept, D
<1>2. CASE e # "new"
  <2>1. g = "drained"
    BY <1>2
  <2> HIDE DEF g, kept, D
  <2>2. Intended(g, {<<>>}, kept, D) /\ OwnOf(g, {<<>>}, kept) = Unobserved
    BY <2>1, EmptyObject
  <2> QED BY <2>2 DEF g, kept, D
<1> QED BY <1>1, <1>2

(* densify, of what is new or sparse, keeps what was observed. *)
LEMMA DensifiedObject ==
  ASSUME NEW N \in Trees, NEW f, NEW R, NEW D, Intended(f, N, R, D),
         NEW g, g = DensifiedForm(f), g # "mixed"
  PROVE  /\ Intended(g, N, Densified(R, N), D)
         /\ OwnOf(g, N, Densified(R, N)) = OwnOf(f, N, R)
<1>1. f \in {"new", "sparse"} /\ g \in {"new", "dense"} /\ (f = "new" <=> g = "new")
  BY DEF DensifiedForm
<1>2. PICK S \in Observations(N) :
        /\ R = Shown(f, S, N) /\ OwnOf(f, N, R) = Table(S)
        /\ f \in {"new", "sparse", "dense"} /\ (f = "new" => N = {<<>>})
  <2>1. f # "drained"
    BY <1>1
  <2> QED BY <2>1, ObservationsOf
<1>3. R = S
  BY <1>1, <1>2 DEF Shown
<1>4. Densified(R, N) = Shown(g, S, N)
  <2>1. CASE g = "dense"
    BY <1>3, <2>1 DEF Shown
  <2>2. CASE g = "new"
    <3>1. N = {<<>>} /\ S = Untouched
      BY <1>1, <1>2, <2>2, BlankFacts
    <3> QED BY <1>3, <2>2, <3>1, BlankFacts DEF Shown
  <2> QED BY <1>1, <2>1, <2>2
<1>5. OwnOf(g, N, Densified(R, N)) = Table(S)
  BY <1>1, <1>2, <1>4, OwnIsTable
<1>6. Intended(g, N, Densified(R, N), D)
  BY <1>1, <1>4 DEF Intended
<1> QED BY <1>2, <1>5, <1>6

(* So does sparsify, of what is new or dense, whatever order it goes in. *)
LEMMA SparsifiedObject ==
  ASSUME NEW N \in Trees, NEW f, NEW R, NEW D, Intended(f, N, R, D),
         NEW g, g = SparsifiedForm(f), g # "mixed", NEW skipped \in Skips(R, N)
  PROVE  /\ Intended(g, N, Sparsified(R, N, skipped), D)
         /\ OwnOf(g, N, Sparsified(R, N, skipped)) = OwnOf(f, N, R)
<1>1. f \in {"new", "dense"} /\ g \in {"new", "sparse"} /\ (f = "new" <=> g = "new")
  BY DEF SparsifiedForm
<1>2. PICK S \in Observations(N) :
        /\ R = Shown(f, S, N) /\ OwnOf(f, N, R) = Table(S)
        /\ f \in {"new", "sparse", "dense"} /\ (f = "new" => N = {<<>>})
  <2>1. f # "drained"
    BY <1>1
  <2> QED BY <2>1, ObservationsOf
<1>3. R = Densified(S, N)
  <2>1. R = Shown("dense", S, N)
    BY <1>1, <1>2, ShownAs
  <2> QED BY <2>1 DEF Shown
<1>4. skipped = {} /\ Sparsified(R, N, skipped) = S
  <2>1. skipped = {}
    BY <1>3, NothingSkipped
  <2> QED BY <1>3, <2>1, DenseSparse
<1>5. Sparsified(R, N, skipped) = Shown(g, S, N)
  BY <1>1, <1>4 DEF Shown
<1>6. OwnOf(g, N, Sparsified(R, N, skipped)) = Table(S)
  BY <1>1, <1>2, <1>5, OwnIsTable
<1>7. Intended(g, N, Sparsified(R, N, skipped), D)
  BY <1>1, <1>5 DEF Intended
<1> QED BY <1>2, <1>6, <1>7

(* A round trip through the protocol buffer changes nothing that is looked at. *)
LEMMA ReloadedObject ==
  ASSUME NEW N \in Trees, NEW f, NEW R, NEW D, Intended(f, N, R, D)
  PROVE  /\ Intended(f, N, Stored(R, N), D)
         /\ OwnOf(f, N, Stored(R, N)) = OwnOf(f, N, R)
<1>1. CASE f = "drained"
  <2>1. N = {<<>>}
    BY <1>1 DEF Intended
  <2> QED BY <1>1, <2>1, EmptyObject
<1>2. CASE f # "drained"
  <2>1. PICK S \in Observations(N) : R = Shown(f, S, N)
    BY <1>2 DEF Intended
  <2>2. \A q \in Paths \ N : R[q] = EmptySampler
    BY <2>1, NothingOutside
  <2>3. R \in Summed
    BY <2>1, DensifiedSums DEF Shown, Observations
  <2>4. R = [q \in Paths |-> R[q]]
    BY <2>3 DEF Summed
  <2>5. Stored(R, N) = R
    BY <2>2, <2>4 DEF Stored
  <2> QED BY <2>5
<1> QED BY <1>1, <1>2

\* An object as intended that has observed c: what the calls hand on to each other.
Knows(f, N, R, D, c) == N \in Trees /\ Intended(f, N, R, D) /\ OwnOf(f, N, R) = c

(* The four calls that rebuild an object, as steps from knowledge to knowledge. *)
LEMMA ParsedKnows ==
  ASSUME NEW f, NEW N, NEW R, NEW D, NEW c, Knows(f, N, R, D, c), HeightsOK(N, D),
         NEW patterns, Given(patterns), NEW dense \in BOOLEAN,
         Join(f, Kind(dense)) # "mixed"
  PROVE  Knows(Join(f, Kind(dense)), N \cup Touched(patterns),
               ObservedSamplers(R, Touched(patterns), patterns, dense),
               Deepened(D, Touched(patterns)), Added(c, Learned(patterns)))
<1> DEFINE g == Join(f, Kind(dense))
           T == Touched(patterns)
           P == ObservedSamplers(R, T, patterns, dense)
<1>1. N \in Trees /\ Intended(f, N, R, D) /\ OwnOf(f, N, R) = c
  BY DEF Knows
<1>2. g = Join(f, Kind(dense)) /\ g # "mixed"
  OBVIOUS
<1>3. N \cup T \in Trees
  <2>1. Whole(T)
    BY TouchedIsWhole DEF Given, Patterned
  <2> QED BY <1>1, <2>1, GrownIsWhole DEF Trees, Whole
<1> HIDE DEF g
<1>4. /\ Intended(g, N \cup T, P, Deepened(D, T))
      /\ OwnOf(g, N \cup T, P) = Added(OwnOf(f, N, R), Learned(patterns))
  BY <1>1, <1>2, ParsedObject
<1> HIDE DEF P, T
<1>5. Knows(g, N \cup T, P, Deepened(D, T), Added(c, Learned(patterns)))
  BY <1>1, <1>3, <1>4 DEF Knows
<1> QED BY <1>5 DEF g, P, T

LEMMA MergedKnows ==
  ASSUME NEW f, NEW N, NEW R, NEW D, NEW c, Knows(f, N, R, D, c), f # "drained",
         NEW e, NEW M, NEW P, NEW E, NEW d, Knows(e, M, P, E, d), e # "drained",
         Join(f, e) # "mixed"
  PROVE  Knows(Join(f, e), N \cup M, MergedSamplers(R, P), MergedDepths(D, E), Added(c, d))
<1> DEFINE g == Join(f, e)
<1>1. g = Join(f, e) /\ g # "mixed" /\ N \in Trees /\ M \in Trees
  BY DEF Knows
<1>2. Intended(f, N, R, D) /\ Intended(e, M, P, E)
  BY DEF Knows
<1> HIDE DEF g
<1>3. /\ Intended(g, N \cup M, MergedSamplers(R, P), MergedDepths(D, E))
      /\ OwnOf(g, N \cup M, MergedSamplers(R, P)) = Added(OwnOf(f, N, R), OwnOf(e, M, P))
  BY <1>1, <1>2, MergedObject, SMTT(60)
<1>4. N \cup M \in Trees
  BY <1>1, GrownIsWhole DEF Trees, Whole
<1> QED BY <1>1, <1>3, <1>4 DEF Knows, g

LEMMA DensifiedKnows ==
  ASSUME NEW f, NEW N, NEW R, NEW D, NEW c, Knows(f, N, R, D, c), DensifiedForm(f) # "mixed"
  PROVE  Knows(DensifiedForm(f), N, Densified(R, N), D, c)
<1> DEFINE g == DensifiedForm(f)
<1>1. g = DensifiedForm(f) /\ g # "mixed" /\ N \in Trees /\ Intended(f, N, R, D)
  BY DEF Knows
<1> HIDE DEF g
<1>2. Intended(g, N, Densified(R, N), D) /\ OwnOf(g, N, Densified(R, N)) = OwnOf(f, N, R)
  BY <1>1, DensifiedObject
<1> QED BY <1>1, <1>2 DEF Knows, g

LEMMA SparsifiedKnows ==
  ASSUME NEW f, NEW N, NEW R, NEW D, NEW c, Knows(f, N, R, D, c),
         SparsifiedForm(f) # "mixed", NEW skipped \in Skips(R, N)
  PROVE  Knows(SparsifiedForm(f), N, Sparsified(R, N, skipped), D, c)
<1> DEFINE g == SparsifiedForm(f)
<1>1. g = SparsifiedForm(f) /\ g # "mixed" /\ N \in Trees /\ Intended(f, N, R, D)
  BY DEF Knows
<1> HIDE DEF g
<1>2. /\ Intended(g, N, Sparsified(R, N, skipped), D)
      /\ OwnOf(g, N, Sparsified(R, N, skipped)) = OwnOf(f, N, R)
  BY <1>1, SparsifiedObject
<1> QED BY <1>1, <1>2 DEF Knows, g

-----------------------------------------------------------------------------
(* What a parse teaches *)

(* One pattern teaches one observation. *)
LEMMA ParseTeaches ==
  ASSUME NEW p \in Contexts, NEW t \in Tokens
  PROVE  LET patterns == {[next |-> t, prefix |-> p, at |-> 0]}
         IN  Given(patterns) /\ Learned(patterns) = Lesson(p, t)
<1> DEFINE x == [next |-> t, prefix |-> p, at |-> 0]
<1>1. x.next = t /\ x.prefix = p
  OBVIOUS
<1> HIDE DEF x
<1>2. Given({x})
  BY <1>1, FS_Singleton DEF Given, Patterned
<1>3. ASSUME NEW q \in Contexts, NEW u \in Tokens
      PROVE  CountOf({x}, q, u, FALSE) = IF q = p /\ u = t THEN 1 ELSE 0
  <2> DEFINE hits == {y \in {x} : y.next = u /\ q \in Counted(y.prefix, FALSE)}
  <2>1. hits = IF q = p /\ u = t THEN {x} ELSE {}
    BY <1>1 DEF Counted
  <2>2. Cardinality({x}) = 1 /\ Cardinality({}) = 0
    BY FS_Singleton, FS_EmptySet
  <2>3. CountOf({x}, q, u, FALSE) = Cardinality(hits)
    BY DEF CountOf
  <2> HIDE DEF hits
  <2> QED BY <2>1, <2>2, <2>3
<1>4. Learned({x}) = Lesson(p, t)
  BY <1>3 DEF Learned, Lesson
<1> QED BY <1>2, <1>4 DEF x

(* Together the two loops of parse_all visit each position from 1 to Len(s) - 2. *)
LEMMA AllPositions ==
  ASSUME NEW s \in Texts, NEW b \in 1 .. B, Len(s) > b
  PROVE  /\ s \in Seq(Tokens) /\ Len(s) \in Nat /\ Len(s) >= 3 /\ b \in Nat
         /\ Positions(s, b) = 1 .. Len(s) - 2
<1>1. s \in Seq(Tokens) /\ Len(s) \in Nat /\ Len(s) >= 3
  BY DEF Texts
<1>2. b \in Nat /\ b >= 1
  BY BlockAssumption
<1>3. Positions(s, b) = 1 .. Len(s) - 2
  BY <1>1, <1>2 DEF Positions
<1> QED BY <1>1, <1>2, <1>3

(* parse_all teaches what TextLesson says: each position gives one pattern. *)
LEMMA TextTeaches ==
  ASSUME NEW s \in Texts, NEW b \in 1 .. B, Len(s) > b
  PROVE  LET patterns == {Pattern(s, i, b) : i \in Positions(s, b)}
         IN  Given(patterns) /\ Learned(patterns) = TextLesson(s, b)
<1> DEFINE n == Len(s) - 2
           patterns == {Pattern(s, i, b) : i \in 1 .. n}
<1>1. /\ s \in Seq(Tokens) /\ Len(s) \in Nat /\ Len(s) >= 3 /\ b \in Nat
      /\ Positions(s, b) = 1 .. n
  BY AllPositions
<1>2. n \in Int /\ n < Len(s) /\ 1 \in 1 .. n
  BY <1>1
<1>3. /\ Patterned(patterns)
      /\ \A p \in Contexts : \A t \in Tokens :
           Exactly(patterns, t)[p]
             = Cardinality({i \in 1 + 1 .. n + 1 :
                  s[i] = t /\ p = SubSeq(s, Max({1, i - b}), i - 1)})
  <2>1. 1 \in Nat /\ 1 >= 1
    OBVIOUS
  <2>2. \A i \in 1 .. n : Window(s, i, b) \in Contexts
    <3>1. \A i \in 1 .. n : i \in 1 .. Len(s)
      BY <1>1
    <3> QED BY <1>1, <3>1, WindowIsContext
  <2> DEFINE m == 1
  <2>3. m \in Nat /\ m >= 1 /\ \A i \in m .. n : Window(s, i, b) \in Contexts
    BY <2>1, <2>2
  <2>4. s \in Seq(Tokens) /\ b \in Nat /\ n \in Int /\ n < Len(s)
    BY <1>1, <1>2
  <2> HIDE DEF n, m
  <2>5. LET told == {Pattern(s, i, b) : i \in m .. n}
        IN  /\ Patterned(told)
            /\ \A p \in Contexts : \A t \in Tokens :
                 Exactly(told, t)[p]
                   = Cardinality({i \in m + 1 .. n + 1 :
                        s[i] = t /\ p = SubSeq(s, Max({1, i - b}), i - 1)})
    BY <2>3, <2>4, TextPatterns
  <2> QED BY <2>5 DEF m
<1>4. Given(patterns)
  BY <1>2, <1>3 DEF Given
<1>5. n + 1 = Len(s) - 1 /\ 1 + 1 = 2
  BY <1>1
<1> HIDE DEF patterns
<1>6. ASSUME NEW p \in Contexts, NEW t \in Tokens
      PROVE  CountOf(patterns, p, t, FALSE) = TextLesson(s, b)[p][t]
  <2>1. CountOf(patterns, p, t, FALSE) = Exactly(patterns, t)[p]
    <3>1. p \in Paths /\ News(patterns, t) = Exactly(patterns, t)
      BY <1>4, NewsFacts DEF Contexts
    <3> QED BY <3>1 DEF News
  <2> QED BY <1>3, <1>5, <2>1 DEF TextLesson
<1>7. Learned(patterns) = TextLesson(s, b)
  BY <1>6 DEF Learned, TextLesson
<1> QED BY <1>1, <1>4, <1>7 DEF patterns

(* Every parse observes patterns that make one of the abstract lessons. *)
LEMMA ParseIsLesson ==
  ASSUME NEW o \in Objects, ParseCall(o)
  PROVE  \E patterns : \E dense \in BOOLEAN :
           Given(patterns) /\ Learned(patterns) \in Lessons /\ Observe(o, patterns, dense)
<1>1. ASSUME NEW p \in Contexts, NEW t \in Tokens, NEW dense \in BOOLEAN, Parse(o, p, t, dense)
      PROVE  \E patterns :
               Given(patterns) /\ Learned(patterns) \in Lessons /\ Observe(o, patterns, dense)
  <2> DEFINE patterns == {[next |-> t, prefix |-> p, at |-> 0]}
  <2>1. Observe(o, patterns, dense)
    BY <1>1 DEF Parse
  <2>2. Given(patterns) /\ Learned(patterns) = Lesson(p, t)
    BY ParseTeaches
  <2>3. Lesson(p, t) \in Lessons
    BY DEF Lessons
  <2> HIDE DEF patterns
  <2> QED BY <2>1, <2>2, <2>3
<1>2. ASSUME NEW s \in Texts, NEW b \in 1 .. B, NEW dense \in BOOLEAN, ParseAll(o, s, b, dense)
      PROVE  \E patterns :
               Given(patterns) /\ Learned(patterns) \in Lessons /\ Observe(o, patterns, dense)
  <2> DEFINE patterns == {Pattern(s, i, b) : i \in Positions(s, b)}
  <2>1. Len(s) > b /\ Observe(o, patterns, dense)
    BY <1>2 DEF ParseAll
  <2>2. Given(patterns) /\ Learned(patterns) = TextLesson(s, b)
    BY <2>1, TextTeaches
  <2>3. TextLesson(s, b) \in Lessons
    BY <2>1 DEF Lessons
  <2> HIDE DEF patterns
  <2> QED BY <2>1, <2>2, <2>3
<1> QED BY <1>1, <1>2 DEF ParseCall

-----------------------------------------------------------------------------
(* All objects *)

\* Every object is as the intended calls leave it.
IntendedOK == \A o \in Objects : Intended(form[o], nodes[o], sampler[o], depth[o])

\* What the abstract specification keeps.
Occ == [o \in Objects |-> Own(o)]

\* The invariant that the steps below start from.
ProtocolInv == TreesOK /\ TotalsOK /\ DepthsOK /\ FormsOK /\ IntendedOK

(* Own looks at the form, the nodes and the samplers of one object. *)
LEMMA OwnAgain ==
  \A o \in Objects :
    /\ Own(o) = OwnOf(form[o], nodes[o], sampler[o])
    /\ Own(o)' = OwnOf(form'[o], nodes'[o], sampler'[o])
BY DEF Own, OwnOf

\* A call that changes o alone, and what it observed to c.
Becomes(o, f, N, R, D) ==
    /\ form' = [form EXCEPT ![o] = f] /\ nodes' = [nodes EXCEPT ![o] = N]
    /\ sampler' = [sampler EXCEPT ![o] = R] /\ depth' = [depth EXCEPT ![o] = D]

Observed(o, c) == IntendedOK' /\ Occ' = [Occ EXCEPT ![o] = c]

(* A call that leaves o as intended and touches no other object leaves all as intended. *)
LEMMA OneIntended ==
  ASSUME ProtocolInv, NEW o \in Objects, NEW f, NEW N, NEW R, NEW D, Intended(f, N, R, D),
         Becomes(o, f, N, R, D)
  PROVE  Observed(o, OwnOf(f, N, R))
<1>1. /\ form'[o] = f /\ nodes'[o] = N /\ sampler'[o] = R /\ depth'[o] = D
      /\ \A u \in Objects \ {o} : /\ form'[u] = form[u] /\ nodes'[u] = nodes[u]
                                  /\ sampler'[u] = sampler[u] /\ depth'[u] = depth[u]
  BY DEF ProtocolInv, TreesOK, TotalsOK, DepthsOK, FormsOK, Becomes
<1>2. IntendedOK'
  <2> SUFFICES ASSUME NEW u \in Objects
               PROVE  Intended(form'[u], nodes'[u], sampler'[u], depth'[u])
    BY DEF IntendedOK
  <2>1. CASE u = o
    BY <1>1, <2>1
  <2>2. CASE u # o
    BY <1>1, <2>2 DEF ProtocolInv, IntendedOK
  <2> QED BY <2>1, <2>2
<1>3. ASSUME NEW u \in Objects
      PROVE  Own(u)' = IF u = o THEN OwnOf(f, N, R) ELSE Own(u)
  BY <1>1, OwnAgain
<1> QED BY <1>2, <1>3 DEF Occ, Observed

(* What is known of an object in a state of the invariant. *)
LEMMA ObjectFacts ==
  ASSUME ProtocolInv, NEW o \in Objects
  PROVE  /\ Intended(form[o], nodes[o], sampler[o], depth[o])
         /\ nodes[o] \in Trees /\ sampler[o] \in Summed /\ HeightsOK(nodes[o], depth[o])
         /\ form[o] \in Forms /\ Own(o) = OwnOf(form[o], nodes[o], sampler[o])
         /\ Own(o) = Occ[o]
         /\ Knows(form[o], nodes[o], sampler[o], depth[o], Own(o))
BY OwnAgain DEF ProtocolInv, TreesOK, TotalsOK, DepthsOK, FormsOK, IntendedOK, Occ, Knows

(* The observations of an object, and the form its samplers show them in. *)
LEMMA ObjectObservations ==
  ASSUME ProtocolInv, NEW o \in Objects, form[o] # "drained"
  PROVE  \E S \in Observations(nodes[o]) :
           sampler[o] = Shown(form[o], S, nodes[o]) /\ Own(o) = Table(S)
<1> DEFINE f == form[o]
           N == nodes[o]
           R == sampler[o]
           D == depth[o]
<1>1. Intended(f, N, R, D) /\ N \in Trees /\ Own(o) = OwnOf(f, N, R) /\ f # "drained"
  BY ObjectFacts
<1> HIDE DEF f, N, R, D
<1>2. PICK S \in Observations(N) : R = Shown(f, S, N) /\ OwnOf(f, N, R) = Table(S)
  BY <1>1, ObservationsOf
<1> QED BY <1>1, <1>2 DEF f, N, R, D

(* A table plus a lesson, minus the table, is the lesson. *)
LEMMA LessonLearned ==
  ASSUME NEW N \in Trees, NEW f, NEW R \in Summed, NEW D, Intended(f, N, R, D),
         NEW patterns, Given(patterns)
  PROVE  EF!Minus(Added(OwnOf(f, N, R), Learned(patterns)), OwnOf(f, N, R)) = Learned(patterns)
<1> DEFINE F == OwnOf(f, N, R)
           L == Learned(patterns)
<1>1. ASSUME NEW p \in Contexts, NEW t \in Tokens
      PROVE  F[p][t] \in Nat /\ L[p][t] \in Nat
  <2>1. p \in Paths
    BY DEF Contexts
  <2>2. L[p][t] \in Nat
    <3>1. L[p][t] = News(patterns, t)[p]
      BY <2>1 DEF Learned, News
    <3> QED BY <2>1, <3>1, NewsFacts
  <2>3. F[p][t] \in Nat
    <3>1. CASE f = "drained"
      BY <3>1 DEF OwnOf
    <3>2. CASE f # "drained"
      <4>1. PICK S \in Observations(N) : F = Table(S)
        BY <3>2, ObservationsOf
      <4>2. S[p].counts[t] \in Nat
        BY <2>1, ObservedCounts
      <4> QED BY <4>1, <4>2 DEF Table
    <3> QED BY <3>1, <3>2
  <2> QED BY <2>2, <2>3
<1>2. L = [p \in Contexts |-> [t \in Tokens |-> L[p][t]]]
  BY DEF Learned
<1> HIDE DEF F, L
<1>3. EF!Minus(Added(F, L), F)
        = [p \in Contexts |-> [t \in Tokens |-> Added(F, L)[p][t] - F[p][t]]]
  BY DEF EF!Minus, EF!Contexts, EF!Paths, Contexts, Paths
<1>4. \A p \in Contexts : \A t \in Tokens : Added(F, L)[p][t] - F[p][t] = L[p][t]
  BY <1>1 DEF Added
<1>5. EF!Minus(Added(F, L), F) = L
  BY <1>2, <1>3, <1>4
<1> QED BY <1>5 DEF F, L

(* The abstract specification's constants and sums are those used here. *)
LEMMA Abstract ==
  /\ EF!Nothing = Unobserved
  /\ \A f, g : EF!Plus(f, g) = Added(f, g)
BY DEF EF!Nothing, EF!Plus, EF!NoCounts, EF!Contexts, EF!Paths, Contexts, Paths, NoCounts,
       Unobserved, Added

(* Every call of the protocol leaves every object as intended, and does to the tables *)
(* what one step of the abstract specification does, or nothing. *)
LEMMA ProtocolStep ==
  ASSUME ProtocolInv, Protocol
  PROVE  IntendedOK' /\ [EF!Next]_Occ
<1>1. ASSUME NEW o \in Objects, New(o)
      PROVE  IntendedOK' /\ EF!Next
  <2> DEFINE D == [q \in Paths |-> 0]
  <2>1. Becomes(o, "new", {<<>>}, Untouched, D)
    BY <1>1 DEF New, Untouched, Becomes
  <2>2. D[<<>>] = 0
    BY RootIsPath
  <2> HIDE DEF D
  <2>3. Intended("new", {<<>>}, Untouched, D) /\ OwnOf("new", {<<>>}, Untouched) = Unobserved
    BY <2>2, EmptyObject
  <2>4. IntendedOK' /\ Occ' = [Occ EXCEPT ![o] = Unobserved]
    <3>1. Observed(o, OwnOf("new", {<<>>}, Untouched))
      BY <2>1, <2>3, OneIntended, Zenon
    <3> QED BY <2>3, <3>1 DEF Observed
  <2>5. EF!Forget(Occ, Occ', o)
    BY <2>4, Abstract DEF EF!Forget
  <2> QED BY <2>4, <2>5 DEF EF!Next, Occ
<1>2. ASSUME NEW o \in Objects, ParseCall(o)
      PROVE  IntendedOK' /\ EF!Next
  <2>1. PICK patterns : \E dense \in BOOLEAN :
          Given(patterns) /\ Learned(patterns) \in Lessons /\ Observe(o, patterns, dense)
    BY <1>2, ParseIsLesson
  <2>2. PICK dense \in BOOLEAN : Observe(o, patterns, dense)
    BY <2>1
  <2> DEFINE T == Touched(patterns)
             g == Join(form[o], Kind(dense))
             N == nodes[o] \cup T
             R == ObservedSamplers(sampler[o], T, patterns, dense)
             D == Deepened(depth[o], T)
  <2>3. Becomes(o, g, N, R, D)
    BY <2>2 DEF Observe, ObservedSamplers, Touched, Deepened, Becomes, Kind
  <2>4. g # "mixed"
    <3>1. form'[o] # "mixed"
      BY DEF Protocol
    <3> QED BY <2>3, <3>1 DEF ProtocolInv, FormsOK, Becomes
  <2>5. Intended(g, N, R, D) /\ OwnOf(g, N, R) = Added(Own(o), Learned(patterns))
    <3>1. /\ Knows(form[o], nodes[o], sampler[o], depth[o], Own(o))
          /\ HeightsOK(nodes[o], depth[o])
      BY ObjectFacts
    <3>2. Given(patterns)
      BY <2>1
    <3>3. Knows(g, N, R, D, Added(Own(o), Learned(patterns)))
      BY <2>4, <3>1, <3>2, ParsedKnows, Zenon
    <3> HIDE DEF g, N, R, D
    <3> QED BY <3>3 DEF Knows
  <2> HIDE DEF g, N, R, D
  <2>6. IntendedOK' /\ Occ' = [Occ EXCEPT ![o] = Added(Own(o), Learned(patterns))]
    <3>1. Observed(o, OwnOf(g, N, R))
      BY <2>3, <2>5, OneIntended, Zenon
    <3> QED BY <2>5, <3>1 DEF Observed
  <2>7. EF!Learn(Occ, Occ', o)
    <3>1. Occ[o] = Own(o) /\ Occ = [u \in Objects |-> Occ[u]]
      BY DEF Occ
    <3>2. EF!Minus(Added(Own(o), Learned(patterns)), Own(o)) = Learned(patterns)
      <4>1. /\ Intended(form[o], nodes[o], sampler[o], depth[o])
            /\ nodes[o] \in Trees /\ sampler[o] \in Summed
            /\ Own(o) = OwnOf(form[o], nodes[o], sampler[o])
        BY ObjectFacts
      <4> DEFINE F == OwnOf(form[o], nodes[o], sampler[o])
      <4>2. EF!Minus(Added(F, Learned(patterns)), F) = Learned(patterns)
        BY <2>1, <4>1, LessonLearned, Zenon
      <4> HIDE DEF F
      <4>3. Own(o) = F
        BY <4>1 DEF F
      <4> QED BY <4>2, <4>3
    <3>3. Occ'[o] = Added(Own(o), Learned(patterns)) /\ \A u \in Objects \ {o} : Occ'[u] = Occ[u]
      BY <2>6, <3>1
    <3> QED BY <2>1, <3>1, <3>2, <3>3 DEF EF!Learn, EF!Others
  <2> QED BY <2>6, <2>7 DEF EF!Next, Occ
<1>3. ASSUME NEW o \in Objects, Densify(o) \/ Sparsify(o)
      PROVE  IntendedOK' /\ UNCHANGED Occ
  <2>1. /\ Knows(form[o], nodes[o], sampler[o], depth[o], Own(o))
        /\ Occ = [Occ EXCEPT ![o] = Own(o)]
    BY ObjectFacts DEF Occ
  <2>2. /\ nodes' = [nodes EXCEPT ![o] = nodes[o]] /\ depth' = [depth EXCEPT ![o] = depth[o]]
        /\ form'[o] # "mixed"
    BY <1>3 DEF Densify, Sparsify, Protocol, ProtocolInv, TreesOK, DepthsOK
  <2>3. \E f, R : /\ form' = [form EXCEPT ![o] = f] /\ sampler' = [sampler EXCEPT ![o] = R]
                  /\ Intended(f, nodes[o], R, depth[o]) /\ OwnOf(f, nodes[o], R) = Own(o)
    <3>1. CASE Densify(o)
      <4> DEFINE f == DensifiedForm(form[o])
                 R == Densified(sampler[o], nodes[o])
      <4>1. form' = [form EXCEPT ![o] = f] /\ sampler' = [sampler EXCEPT ![o] = R]
        BY <3>1 DEF Densify
      <4>2. f # "mixed"
        BY <2>2, <4>1 DEF ProtocolInv, FormsOK
      <4>3. Intended(f, nodes[o], R, depth[o]) /\ OwnOf(f, nodes[o], R) = Own(o)
        <5>1. Knows(f, nodes[o], R, depth[o], Own(o))
          BY <2>1, <4>2, DensifiedKnows, Zenon
        <5> HIDE DEF f, R
        <5> QED BY <5>1 DEF Knows
      <4> QED BY <4>1, <4>3, Zenon
    <3>2. CASE Sparsify(o)
      <4>1. PICK skipped \in Skips(sampler[o], nodes[o]) :
              sampler' = [sampler EXCEPT ![o] = Sparsified(sampler[o], nodes[o], skipped)]
        BY <3>2 DEF Sparsify
      <4> DEFINE f == SparsifiedForm(form[o])
                 R == Sparsified(sampler[o], nodes[o], skipped)
      <4>2. form' = [form EXCEPT ![o] = f] /\ sampler' = [sampler EXCEPT ![o] = R]
        BY <3>2, <4>1 DEF Sparsify
      <4>3. f # "mixed"
        BY <2>2, <4>2 DEF ProtocolInv, FormsOK
      <4>4. Intended(f, nodes[o], R, depth[o]) /\ OwnOf(f, nodes[o], R) = Own(o)
        <5>1. Knows(f, nodes[o], R, depth[o], Own(o))
          BY <2>1, <4>3, SparsifiedKnows, Zenon
        <5> HIDE DEF f, R
        <5> QED BY <5>1 DEF Knows
      <4> QED BY <4>2, <4>4, Zenon
    <3> QED BY <1>3, <3>1, <3>2
  <2>4. IntendedOK' /\ Occ' = [Occ EXCEPT ![o] = Own(o)]
    <3>1. PICK f, R : /\ form' = [form EXCEPT ![o] = f] /\ sampler' = [sampler EXCEPT ![o] = R]
                      /\ Intended(f, nodes[o], R, depth[o]) /\ OwnOf(f, nodes[o], R) = Own(o)
      BY <2>3, Zenon
    <3>2. Becomes(o, f, nodes[o], R, depth[o])
      BY <2>2, <3>1 DEF Becomes
    <3>3. Observed(o, OwnOf(f, nodes[o], R))
      BY <3>1, <3>2, OneIntended, Zenon
    <3> QED BY <3>1, <3>3 DEF Observed
  <2> QED BY <2>1, <2>4, Zenon
<1>4. ASSUME NEW o \in Objects, NEW x \in Objects, Merge(o, x)
      PROVE  IntendedOK' /\ EF!Next
  <2> DEFINE g == Join(form[o], form[x])
             N == nodes[o] \cup nodes[x]
             R == MergedSamplers(sampler[o], sampler[x])
             D == MergedDepths(depth[o], depth[x])
             e == IF form[x] = "new" THEN "new" ELSE "drained"
             kept == [q \in Paths |-> IF q = <<>> THEN sampler[x][q] ELSE EmptySampler]
             E == [q \in Paths |-> IF q = <<>> THEN depth[x][q] ELSE 0]
  <2>1. /\ o # x
        /\ form' = [form EXCEPT ![o] = IF "drained" \in {form[o], form[x]} THEN "mixed" ELSE g,
                                ![x] = e]
        /\ nodes' = [nodes EXCEPT ![o] = N, ![x] = {<<>>}]
        /\ sampler' = [sampler EXCEPT ![o] = R, ![x] = kept]
        /\ depth' = [depth EXCEPT ![o] = D, ![x] = E]
    <3>1. /\ form \in [Objects -> Forms] /\ nodes \in [Objects -> Trees]
          /\ sampler \in [Objects -> Summed] /\ depth \in [Objects -> [Paths -> Nat]]
      BY DEF ProtocolInv, FormsOK, TreesOK, TotalsOK, DepthsOK
    <3> HIDE DEF g, N, R, D
    <3> QED BY <1>4, <3>1 DEF Merge, g, N, R, D
  <2>2. form[o] # "drained" /\ form[x] # "drained" /\ g # "mixed"
    <3>1. form'[o] # "mixed"
      BY DEF Protocol
    <3>2. form'[o] = IF "drained" \in {form[o], form[x]} THEN "mixed" ELSE g
      BY <2>1 DEF ProtocolInv, FormsOK
    <3> HIDE DEF g
    <3> QED BY <3>1, <3>2
  <2>3. /\ Intended(form[o], nodes[o], sampler[o], depth[o])
        /\ Intended(form[x], nodes[x], sampler[x], depth[x])
        /\ nodes[o] \in Trees /\ nodes[x] \in Trees
        /\ Own(o) = OwnOf(form[o], nodes[o], sampler[o])
        /\ Own(x) = OwnOf(form[x], nodes[x], sampler[x])
    BY ObjectFacts
  <2>4. Intended(g, N, R, D) /\ OwnOf(g, N, R) = Added(Own(o), Own(x))
    <3>1. /\ Knows(form[o], nodes[o], sampler[o], depth[o], Own(o))
          /\ Knows(form[x], nodes[x], sampler[x], depth[x], Own(x))
      BY ObjectFacts
    <3>2. Knows(g, N, R, D, Added(Own(o), Own(x)))
      BY <2>2, <3>1, MergedKnows, Zenon
    <3> HIDE DEF g, N, R, D
    <3> QED BY <3>2 DEF Knows
  <2>5. Intended(e, {<<>>}, kept, E) /\ OwnOf(e, {<<>>}, kept) = Unobserved
    BY <2>2, <2>3, DrainedObject, Zenon
  <2>6. /\ form'[o] = g /\ nodes'[o] = N /\ sampler'[o] = R /\ depth'[o] = D
        /\ form'[x] = e /\ nodes'[x] = {<<>>} /\ sampler'[x] = kept /\ depth'[x] = E
        /\ \A u \in Objects \ {o, x} : /\ form'[u] = form[u] /\ nodes'[u] = nodes[u]
                                       /\ sampler'[u] = sampler[u] /\ depth'[u] = depth[u]
    <3> HIDE DEF g, N, R, D, e, kept, E
    <3> QED BY <2>1, <2>2 DEF ProtocolInv, FormsOK, TreesOK, TotalsOK, DepthsOK
  <2> HIDE DEF g, N, R, D, e, kept, E
  <2>7. IntendedOK'
    <3> SUFFICES ASSUME NEW u \in Objects
                 PROVE  Intended(form'[u], nodes'[u], sampler'[u], depth'[u])
      BY DEF IntendedOK
    <3>1. CASE u = o
      BY <2>4, <2>6, <3>1
    <3>2. CASE u = x
      BY <2>5, <2>6, <3>2
    <3>3. CASE u # o /\ u # x
      BY <2>6, <3>3 DEF ProtocolInv, IntendedOK
    <3> QED BY <3>1, <3>2, <3>3
  <2>8. ASSUME NEW u \in Objects
        PROVE  Own(u)' = IF u = x THEN Unobserved
                         ELSE IF u = o THEN Added(Own(o), Own(x)) ELSE Own(u)
    <3>1. CASE u = o
      BY <2>1, <2>4, <2>6, <3>1, OwnAgain
    <3>2. CASE u = x
      BY <2>5, <2>6, <3>2, OwnAgain
    <3>3. CASE u # o /\ u # x
      BY <2>6, <3>3, OwnAgain
    <3> QED BY <3>1, <3>2, <3>3
  <2>9. EF!Absorb(Occ, Occ', o, x)
    <3>1. Occ' = [Occ EXCEPT ![o] = Added(Own(o), Own(x)), ![x] = Unobserved]
      BY <2>8 DEF Occ
    <3>2. Occ[o] = Own(o) /\ Occ[x] = Own(x)
      BY DEF Occ
    <3>3. Occ' = [Occ EXCEPT ![o] = Added(Occ[o], Occ[x]), ![x] = Unobserved]
      BY <3>1, <3>2
    <3> QED BY <3>3, Abstract DEF EF!Absorb
  <2> QED BY <2>7, <2>9 DEF EF!Next, Occ
<1>5. ASSUME NEW o \in Objects, NEW x \in Objects, Reload(o, x)
      PROVE  IntendedOK' /\ EF!Next
  <2> DEFINE R == Stored(sampler[x], nodes[x])
  <2>1. /\ Intended(form[x], nodes[x], sampler[x], depth[x])
        /\ nodes[x] \in Trees /\ sampler[x] \in Summed /\ HeightsOK(nodes[x], depth[x])
        /\ Own(x) = OwnOf(form[x], nodes[x], sampler[x])
    BY ObjectFacts
  <2>2. /\ form' = [form EXCEPT ![o] = form[x]] /\ nodes' = [nodes EXCEPT ![o] = nodes[x]]
        /\ sampler' = [sampler EXCEPT ![o] = R] /\ depth' = [depth EXCEPT ![o] = depth[x]]
    <3>1. SamplersIn(Message(sampler[x], nodes[x], depth[x])) = R
      BY <2>1, LoadedIsStored DEF Summed, Trees
    <3>2. DepthsIn(Message(sampler[x], nodes[x], depth[x])) = depth[x]
      BY <2>1, LoadedDepths, Zenon
    <3>3. NodesIn(Message(sampler[x], nodes[x], depth[x])) = nodes[x]
      BY NodesInMessage
    <3> HIDE DEF R
    <3> QED BY <1>5, <3>1, <3>2, <3>3 DEF Reload
  <2>3. /\ Intended(form[x], nodes[x], R, depth[x])
        /\ OwnOf(form[x], nodes[x], R) = Own(x)
    BY <2>1, ReloadedObject, Zenon
  <2> HIDE DEF R
  <2>4. IntendedOK' /\ Occ' = [Occ EXCEPT ![o] = OwnOf(form[x], nodes[x], R)]
    <3>1. Becomes(o, form[x], nodes[x], R, depth[x])
      BY <2>2 DEF Becomes
    <3>2. Observed(o, OwnOf(form[x], nodes[x], R))
      BY <2>3, <3>1, OneIntended, Zenon
    <3> QED BY <3>2 DEF Observed
  <2>5. EF!Copy(Occ, Occ', o, x)
    <3>1. Occ[x] = Own(x)
      BY DEF Occ
    <3> QED BY <2>3, <2>4, <3>1 DEF EF!Copy
  <2> QED BY <2>4, <2>5 DEF EF!Next, Occ
<1> QED BY <1>1, <1>2, <1>3, <1>4, <1>5 DEF Protocol, Next

(* A new pool of objects is as intended, and no table has an observation. *)
LEMMA ProtocolStart ==
  ASSUME Init
  PROVE  IntendedOK /\ EF!Init
<1> DEFINE D == [q \in Paths |-> 0]
<1>1. D[<<>>] = 0
  BY RootIsPath
<1>2. /\ nodes = [o \in Objects |-> {<<>>}] /\ sampler = [o \in Objects |-> Untouched]
      /\ depth = [o \in Objects |-> D] /\ form = [o \in Objects |-> "new"]
  BY DEF Init, Untouched
<1> HIDE DEF D
<1>3. Intended("new", {<<>>}, Untouched, D) /\ OwnOf("new", {<<>>}, Untouched) = Unobserved
  BY <1>1, EmptyObject
<1>4. IntendedOK
  BY <1>2, <1>3 DEF IntendedOK
<1>5. \A o \in Objects : Own(o) = Unobserved
  BY <1>2, <1>3, OwnAgain
<1>6. EF!Init
  BY <1>5, Abstract DEF EF!Init
<1> QED BY <1>4, <1>6

(* In every sequence of intended calls every object is as intended. *)
LEMMA ProtocolInvAlways == ProtocolSpec => []ProtocolInv
<1>1. ProtocolSpec => Spec
  <2>1. [Protocol]_vars => [Next]_vars
    BY DEF Protocol
  <2> QED BY <2>1, PTL DEF ProtocolSpec, Spec
<1>2. Init => IntendedOK
  BY ProtocolStart
<1>3. ProtocolInv /\ Protocol => IntendedOK'
  BY ProtocolStep
<1>4. IntendedOK /\ UNCHANGED vars => IntendedOK'
  BY DEF IntendedOK, vars
<1>5. TreesOK /\ TotalsOK /\ DepthsOK /\ FormsOK /\ IntendedOK /\ [Protocol]_vars => IntendedOK'
  BY <1>3, <1>4 DEF ProtocolInv
<1>6. TreesOK /\ TotalsOK /\ DepthsOK /\ FormsOK /\ IntendedOK => ProtocolInv
  BY DEF ProtocolInv
<1> QED BY <1>1, <1>2, <1>5, <1>6, TreesStayWhole, TotalsAlways, DepthsAlways, FormsAlways,
           PTL DEF ProtocolSpec

(***************************************************************************)
(* Every call changes what was observed exactly as its name promises: the  *)
(* suffix trees with their samplers implement the table of observations.   *)
(* Parsing adds each pattern once, merge moves the observations, densify,  *)
(* sparsify and a round trip through the protocol buffer change nothing.   *)
(***************************************************************************)
THEOREM ObservationsAlways == ProtocolSpec => ImplementsEmpiricalFrequency
<1>1. Init => EF!Init
  BY ProtocolStart
<1>2. ProtocolInv /\ Protocol => [EF!Next]_Occ
  BY ProtocolStep
<1>3. UNCHANGED vars => UNCHANGED Occ
  BY OwnAgain DEF vars, Occ
<1>4. ProtocolInv /\ [Protocol]_vars => [EF!Next]_([o \in Objects |-> Own(o)])
  BY <1>2, <1>3 DEF Occ
<1>5. ProtocolSpec => EF!Spec
  BY <1>1, <1>4, ProtocolInvAlways, PTL DEF ProtocolSpec, EF!Spec
<1> QED BY <1>5 DEF ImplementsEmpiricalFrequency

-----------------------------------------------------------------------------
(* Densify and sparsify *)

(***************************************************************************)
(* densify and sparsify undo each other to the last count, at the root and *)
(* in inner nodes, for every object that is dense or sparse.               *)
(***************************************************************************)
THEOREM ConversionsRestoreAlways == ProtocolSpec => []ConversionsRestore
<1>1. ProtocolInv => ConversionsRestore
  <2> SUFFICES ASSUME ProtocolInv, NEW o \in Objects, form[o] \in {"sparse", "dense"}
               PROVE  /\ form[o] = "dense" =>
                           Densified(Sparsified(sampler[o], nodes[o], {}), nodes[o]) = sampler[o]
                      /\ form[o] = "sparse" =>
                           Sparsified(Densified(sampler[o], nodes[o]), nodes[o], {}) = sampler[o]
    BY DEF ConversionsRestore, DensifyRestores, SparsifyRestores
  <2>1. nodes[o] \in Trees /\ Intended(form[o], nodes[o], sampler[o], depth[o])
    BY ObjectFacts
  <2>2. PICK S \in Observations(nodes[o]) : sampler[o] = Shown(form[o], S, nodes[o])
    BY <2>1 DEF Intended
  <2>3. Sparsified(Densified(S, nodes[o]), nodes[o], {}) = S
    BY <2>1, DenseSparse
  <2> QED BY <2>2, <2>3 DEF Shown
<1> QED BY <1>1, ProtocolInvAlways, PTL

-----------------------------------------------------------------------------
(* Queries *)

(* The contexts that were observed and their suffixes are the nodes, no more, no fewer. *)
LEMMA NodesAreEnds ==
  ASSUME NEW N \in Trees, N # {<<>>}, NEW S \in Observations(N)
  PROVE  UNION {Suffixes(r) : r \in {p \in Contexts : Table(S)[p] # NoCounts}} = N
<1> DEFINE known == {p \in Contexts : Table(S)[p] # NoCounts}
<1>1. Whole(N) /\ N \subseteq Paths
  BY DEF Trees
<1>2. \A p \in known : p \in N
  <2>1. \A p \in Contexts : p \notin N => S[p] = EmptySampler
    BY DEF Observations, Contexts
  <2>2. \A p \in Contexts : p \notin N => Table(S)[p] = NoCounts
    BY <2>1 DEF Table, EmptySampler, NoCounts
  <2> QED BY <2>2
<1>3. ASSUME NEW q \in N \ {<<>>}
      PROVE  \E r \in known : q \in Suffixes(r)
  <2>1. PICK r \in Below(N, q) : S[r].total > 0
    BY DEF Observations
  <2>2. r \in Paths /\ q \in Suffixes(r)
    BY <1>1 DEF Below
  <2>3. r # <<>>
    BY <2>1, EmptyCounts DEF Observations
  <2>4. S[r] \in Sampler /\ Verify(S[r])
    BY <2>2 DEF Observations, Summed
  <2>5. PICK t \in Tokens : S[r].counts[t] > 0
    BY <2>1, <2>4, TotalPositive
  <2>6. Table(S)[r][t] > 0 /\ r \in Contexts
    BY <2>2, <2>3, <2>5 DEF Table, Contexts
  <2>7. NoCounts[t] = 0
    BY DEF NoCounts
  <2> QED BY <2>2, <2>6, <2>7
<1>4. \E r \in known : <<>> \in Suffixes(r)
  <2>1. PICK q \in N : q # <<>>
    BY <1>1 DEF Whole
  <2>2. PICK r \in known : q \in Suffixes(r)
    BY <1>3, <2>1
  <2> QED BY <2>2 DEF Suffixes
<1>5. \A r \in known : Suffixes(r) \subseteq N
  BY <1>1, <1>2 DEF Whole
<1> HIDE DEF known
<1>6. UNION {Suffixes(r) : r \in known} = N
  BY <1>3, <1>4, <1>5
<1> QED BY <1>6 DEF known

(* The descent along p stops at the longest suffix of p that has a node. *)
LEMMA DeepestFound ==
  ASSUME TreesOK, NEW o \in Objects, NEW p \in Paths
  PROVE  /\ Deepest(o, p) \in Suffixes(p) \cap nodes[o]
         /\ \A q \in Suffixes(p) \cap nodes[o] : Len(q) <= Len(Deepest(o, p))
BY DescentStops DEF TreesOK, Trees, Deepest

(***************************************************************************)
(* match_length finds the longest suffix of a prompt that ends an observed *)
(* context, and matches holds when that is all of the prompt.              *)
(***************************************************************************)
THEOREM MatchesObservedAlways == ProtocolSpec => []MatchesObserved
<1>1. ProtocolInv => MatchesObserved
  <2> SUFFICES ASSUME ProtocolInv, NEW o \in Objects, form[o] \in {"sparse", "dense"},
                      NEW p \in Contexts
               PROVE  LET known == {r \in Contexts : Own(o)[r] # NoCounts}
                          ends == UNION {Suffixes(r) : r \in known}
                      IN  /\ MatchLength(o, p)
                               = Max({0} \cup {Len(q) : q \in Suffixes(p) \cap ends})
                          /\ Matches(o, p) <=> p \in ends
    BY DEF MatchesObserved
  <2> DEFINE N == nodes[o]
             lengths == {0} \cup {Len(q) : q \in Suffixes(p) \cap N}
             d == Deepest(o, p)
  <2>1. /\ N \in Trees /\ Intended(form[o], N, sampler[o], depth[o])
        /\ Own(o) = OwnOf(form[o], N, sampler[o])
    BY ObjectFacts
  <2>2. PICK S \in Observations(N) : Own(o) = Table(S)
    <3>1. form[o] # "drained"
      OBVIOUS
    <3> QED BY <3>1, ObjectObservations
  <2>3. N # {<<>>}
    BY <2>1 DEF Intended
  <2>4. UNION {Suffixes(r) : r \in {q \in Contexts : Own(o)[q] # NoCounts}} = N
    BY <2>1, <2>2, <2>3, NodesAreEnds
  <2>5. p \in Paths /\ p \in Seq(Tokens) /\ Len(p) \in Nat /\ p # <<>>
    BY PathFacts DEF Contexts
  <2>6. d \in Suffixes(p) \cap N /\ \A q \in Suffixes(p) \cap N : Len(q) <= Len(d)
    BY <2>5, DeepestFound DEF ProtocolInv
  <2>7. \A q \in Suffixes(p) : Len(q) \in Nat /\ Len(q) <= Len(p) /\ q \in Seq(Tokens)
    BY <2>5, SuffixFacts
  <2> HIDE DEF d, N
  <2>8. Len(d) = Max(lengths)
    <3>1. lengths \subseteq Nat /\ lengths # {} /\ \A n \in lengths : n <= Len(d)
      BY <2>6, <2>7
    <3>2. Len(d) \in lengths /\ Len(d) \in Nat
      BY <2>6, <2>7
    <3> DEFINE m == Max(lengths)
    <3> HIDE DEF lengths
    <3>3. m \in lengths /\ \A n \in lengths : n <= m
      BY <3>1, <3>2, Greatest
    <3> HIDE DEF m
    <3>4. m \in Nat /\ m <= Len(d) /\ Len(d) <= m
      BY <3>1, <3>2, <3>3
    <3>5. Len(d) = m
      BY <3>2, <3>4
    <3> QED BY <3>5 DEF m
  <2>9. d = p <=> p \in N
    <3>1. ASSUME p \in N
          PROVE  d = p
      <4>1. p \in Suffixes(p)
        BY <2>5, OwnSuffix
      <4>2. Len(d) = Len(p)
        BY <2>5, <2>6, <2>7, <3>1, <4>1
      <4> QED BY <2>5, <2>6, <4>1, <4>2, SuffixByLength
    <3> QED BY <2>6, <3>1
  <2>10. MatchLength(o, p) = Len(d) /\ (Matches(o, p) <=> p \in N)
    BY <2>5, <2>9 DEF MatchLength, Matches, d
  <2> QED BY <2>4, <2>8, <2>10
<1> QED BY <1>1, ProtocolInvAlways, PTL

-----------------------------------------------------------------------------
(* One object for one table *)

(* Two families of observations with the same table are the same, on the same nodes. *)
LEMMA SameTable ==
  ASSUME NEW N \in Trees, NEW S \in Observations(N), NEW M \in Trees, NEW R \in Observations(M),
         Table(S) = Table(R), N # {<<>>}, M # {<<>>}
  PROVE  S = R /\ N = M
<1>1. S \in Summed /\ R \in Summed
  BY DEF Observations
<1>2. ASSUME NEW q \in Paths, NEW t \in Tokens
      PROVE  S[q].counts[t] = R[q].counts[t]
  <2>1. CASE q = <<>>
    BY <2>1 DEF Observations
  <2>2. CASE q # <<>>
    <3>1. q \in Contexts
      BY <2>2 DEF Contexts
    <3>2. Table(S)[q][t] = S[q].counts[t] /\ Table(R)[q][t] = R[q].counts[t]
      BY <3>1 DEF Table
    <3> QED BY <3>2
  <2> QED BY <2>1, <2>2
<1>3. S = R
  BY <1>1, <1>2, SameFamily
<1>4. /\ UNION {Suffixes(r) : r \in {p \in Contexts : Table(S)[p] # NoCounts}} = N
      /\ UNION {Suffixes(r) : r \in {p \in Contexts : Table(R)[p] # NoCounts}} = M
  BY NodesAreEnds
<1> QED BY <1>3, <1>4

(* The heights of a tree and a root as deep as its deepest node are its depths. *)
LEMMA SameDepths ==
  ASSUME NEW N, Whole(N), NEW D, HeightsOK(N, D), NEW E, HeightsOK(N, E),
         \E r \in N : Len(r) = D[<<>>], \E r \in N : Len(r) = E[<<>>]
  PROVE  D = E
<1>1. D \in [Paths -> Nat] /\ E \in [Paths -> Nat]
  BY DEF HeightsOK
<1>2. ASSUME NEW q \in Paths
      PROVE  D[q] = E[q]
  <2>1. CASE q \notin N
    BY <2>1 DEF HeightsOK
  <2>2. CASE q \in N /\ q # <<>>
    <3> DEFINE height == Max({Len(r) - Len(q) : r \in Below(N, q)})
    <3>1. D[q] = height
      BY <2>2, HeightIsGreatest
    <3>2. E[q] = height
      BY <2>2, HeightIsGreatest
    <3> HIDE DEF height
    <3> QED BY <3>1, <3>2
  <2>3. CASE q = <<>>
    <3>1. Len(<<>>) = 0 /\ <<>> \in N /\ D[<<>>] \in Nat /\ E[<<>>] \in Nat
      BY <1>1, EmptySeq, RootIsPath DEF Whole
    <3>2. \A r \in N : r \in Below(N, <<>>)
      BY DEF Below, Suffixes
    <3>3. \A r \in N : Len(r) <= D[<<>>] + Len(<<>>) /\ Len(r) <= E[<<>>] + Len(<<>>)
      BY <3>1, <3>2 DEF HeightsOK
    <3>4. PICK r \in N : Len(r) = D[<<>>]
      OBVIOUS
    <3>5. PICK s \in N : Len(s) = E[<<>>]
      OBVIOUS
    <3>6. D[<<>>] <= E[<<>>] + 0 /\ E[<<>>] <= D[<<>>] + 0
      BY <3>1, <3>3, <3>4, <3>5
    <3> QED BY <2>3, <3>1, <3>6
  <2> QED BY <2>1, <2>2, <2>3
<1> QED BY <1>1, <1>2

(***************************************************************************)
(* What an object is depends only on what it observed, and not on the      *)
(* order of parses and merges that brought it there: two of the same kind  *)
(* with the same observations have the same nodes, samplers and depths.    *)
(***************************************************************************)
THEOREM CanonicalAlways == ProtocolSpec => []Canonical
<1>1. ProtocolInv => Canonical
  <2> SUFFICES ASSUME ProtocolInv, NEW o \in Objects, NEW x \in Objects, form[o] = form[x],
                      form[o] \in {"sparse", "dense"}, Own(o) = Own(x)
               PROVE  nodes[o] = nodes[x] /\ sampler[o] = sampler[x] /\ depth[o] = depth[x]
    BY DEF Canonical
  <2>1. ASSUME NEW u \in {o, x}
        PROVE  /\ nodes[u] \in Trees /\ nodes[u] # {<<>>} /\ HeightsOK(nodes[u], depth[u])
               /\ \E r \in nodes[u] : Len(r) = depth[u][<<>>]
               /\ \E S \in Observations(nodes[u]) :
                    sampler[u] = Shown(form[u], S, nodes[u]) /\ Own(u) = Table(S)
    <3>1. u \in Objects /\ form[u] \in {"sparse", "dense"} /\ form[u] # "drained"
      OBVIOUS
    <3>2. /\ Intended(form[u], nodes[u], sampler[u], depth[u])
          /\ nodes[u] \in Trees /\ HeightsOK(nodes[u], depth[u])
          /\ Own(u) = OwnOf(form[u], nodes[u], sampler[u])
      BY <3>1, ObjectFacts
    <3>3. nodes[u] # {<<>>} /\ \E r \in nodes[u] : Len(r) = depth[u][<<>>]
      BY <3>1, <3>2 DEF Intended
    <3>4. \E S \in Observations(nodes[u]) :
            sampler[u] = Shown(form[u], S, nodes[u]) /\ Own(u) = Table(S)
      BY <3>1, ObjectObservations
    <3> QED BY <3>2, <3>3, <3>4
  <2>2. PICK S \in Observations(nodes[o]) :
          sampler[o] = Shown(form[o], S, nodes[o]) /\ Own(o) = Table(S)
    BY <2>1
  <2>3. PICK R \in Observations(nodes[x]) :
          sampler[x] = Shown(form[x], R, nodes[x]) /\ Own(x) = Table(R)
    BY <2>1
  <2>4. S = R /\ nodes[o] = nodes[x]
    <3>1. nodes[o] \in Trees /\ nodes[x] \in Trees /\ nodes[o] # {<<>>} /\ nodes[x] # {<<>>}
      BY <2>1
    <3>2. Table(S) = Table(R)
      BY <2>2, <2>3
    <3> QED BY <3>1, <3>2, SameTable
  <2>5. depth[o] = depth[x]
    <3> DEFINE N == nodes[o]
               D == depth[o]
               E == depth[x]
    <3>1. /\ Whole(N) /\ HeightsOK(N, D) /\ HeightsOK(N, E)
          /\ \E r \in N : Len(r) = D[<<>>]
          /\ \E r \in N : Len(r) = E[<<>>]
      BY <2>1, <2>4 DEF Trees
    <3> HIDE DEF N, D, E
    <3>2. D = E
      BY <3>1, SameDepths
    <3> QED BY <3>2 DEF D, E
  <2> QED BY <2>2, <2>3, <2>4, <2>5
<1> QED BY <1>1, ProtocolInvAlways, PTL

-----------------------------------------------------------------------------
(* The answers of a dense object *)

(***************************************************************************)
(* In a dense object the sampler of every node counts exactly the tokens   *)
(* that followed the contexts ending there, at least one; its total is     *)
(* their sum, so drawing from it gives one of them and never an error.     *)
(***************************************************************************)
LEMMA DenseDraws ==
  ASSUME ProtocolInv, NEW o \in Objects, form[o] = "dense", NEW q \in nodes[o]
  PROVE  /\ Support(sampler[o][q]) = Followed(o, q)
         /\ Draws(sampler[o][q]) = Followed(o, q)
         /\ Followed(o, q) # {} /\ Followed(o, q) \subseteq Followed(o, <<>>)
         /\ sampler[o][q].total = SumOver(Tokens, sampler[o][q].counts)
         /\ sampler[o][q].counts \in Counts
         /\ <<>> \in nodes[o]
<1> DEFINE N == nodes[o]
           D == sampler[o][q]
<1>1. /\ N \in Trees /\ Intended("dense", N, sampler[o], depth[o])
      /\ Own(o) = OwnOf("dense", N, sampler[o]) /\ sampler[o] \in Summed
  BY ObjectFacts
<1>2. PICK S \in Observations(N) :
        /\ sampler[o] = Densified(S, N) /\ Own(o) = Table(S)
  <2>1. form[o] # "drained"
    OBVIOUS
  <2> QED BY <2>1, ObjectObservations DEF Shown
<1>3. Whole(N) /\ N \subseteq Paths /\ q \in Paths /\ N # {<<>>} /\ <<>> \in N
  BY <1>1 DEF Trees, Whole, Intended
<1>4. \A r \in N : r \in Paths /\ r \in Seq(Tokens)
  BY <1>3, PathFacts
<1>5. \A r \in N \ {<<>>} : \A t \in Tokens : Own(o)[r][t] = S[r].counts[t]
  BY <1>2, <1>4 DEF Table, Contexts
<1>6. \A t \in Tokens :
        D.counts[t] > 0 <=> \E r \in Below(N, q) \ {<<>>} : Own(o)[r][t] > 0
  <2>1. \A t \in Tokens :
          D.counts[t] > 0 <=> \E r \in Below(N, q) \ {<<>>} : S[r].counts[t] > 0
    BY <1>1, <1>2, <1>3, DenseCounts
  <2>2. Below(N, q) \subseteq N
    BY DEF Below
  <2> QED BY <1>5, <2>1, <2>2
<1>7. D \in Sampler /\ Verify(D)
  BY <1>1, <1>3 DEF Summed
<1>8. Support(D) = Followed(o, q)
  BY <1>6 DEF Support, Followed
<1>9. Followed(o, q) # {}
  <2>1. PICK r \in Below(N, q) \ {<<>>} : S[r].total > 0
    <3>1. \A x \in N \ {<<>>} : \E r \in Below(N, x) : S[r].total > 0
      BY <1>2 DEF Observations
    <3>2. S[<<>>].total = 0
      BY <1>2 DEF Observations, EmptySampler
    <3>3. CASE q # <<>>
      <4>1. PICK r \in Below(N, q) : S[r].total > 0
        BY <3>1, <3>3
      <4>2. r # <<>>
        BY <3>2, <4>1
      <4> QED BY <4>1, <4>2
    <3>4. CASE q = <<>>
      <4>1. PICK x \in N : x # <<>>
        BY <1>3
      <4>2. PICK r \in Below(N, x) : S[r].total > 0
        BY <3>1, <4>1
      <4>3. r \in N /\ r # <<>> /\ r \in Paths
        BY <1>3, <3>2, <4>2 DEF Below
      <4>4. <<>> \in Suffixes(r)
        BY <4>3, SuffixesArePaths
      <4> QED BY <3>4, <4>2, <4>3, <4>4 DEF Below
    <3> QED BY <3>3, <3>4
  <2>2. S[r] \in Sampler /\ Verify(S[r]) /\ r \in N \ {<<>>}
    BY <1>2, <1>4, <2>1 DEF Observations, Summed, Below
  <2>3. PICK t \in Tokens : S[r].counts[t] > 0
    BY <2>1, <2>2, TotalPositive
  <2>4. Own(o)[r][t] > 0
    BY <1>5, <2>2, <2>3
  <2> QED BY <2>1, <2>3, <2>4 DEF Followed
<1>10. Followed(o, q) \subseteq Followed(o, <<>>)
  <2>1. Below(N, q) \subseteq Below(N, <<>>)
    BY <1>4, SuffixesArePaths DEF Below
  <2> QED BY <2>1 DEF Followed
<1>11. D.total = SumOver(Tokens, D.counts) /\ D.total > 0 /\ D.total \in Nat
  <2>1. D.total > 0
    BY <1>7, <1>8, <1>9, TotalPositive DEF Support
  <2> QED BY <1>7, <2>1 DEF Verify, Sampler
<1>12. Draws(D) = Support(D)
  <2> HIDE DEF D
  <2> QED BY <1>11 DEF Draws
<1> QED BY <1>3, <1>7, <1>8, <1>9, <1>10, <1>11, <1>12 DEF Sampler

\* A context that is not empty leads to a node.
LEMMA DenseSample ==
  ASSUME ProtocolInv, NEW o \in Objects, form[o] = "dense", NEW p \in Contexts
  PROVE  /\ Deepest(o, p) \in nodes[o]
         /\ Sample(o, p) = Followed(o, Deepest(o, p))
         /\ Sample(o, p) # {} /\ Sample(o, p) \subseteq Tokens
<1> DEFINE d == Deepest(o, p)
<1>1. d \in nodes[o]
  BY DeepestFound DEF ProtocolInv, Contexts
<1>2. Sample(o, p) = Draws(sampler[o][d])
  BY DEF Sample, Contexts
<1> HIDE DEF d
<1>3. Draws(sampler[o][d]) = Followed(o, d) /\ Followed(o, d) # {}
  BY <1>1, DenseDraws
<1> QED BY <1>1, <1>2, <1>3 DEF d, Followed

\* What generate keeps while there is no error.
NoError == ""

\* One turn of the loop of generate, from one of the states it can be in.
Continued(o, b, g) ==
    IF g.error # NoError THEN {g}
    ELSE {IF t \in Tokens THEN [text |-> Append(g.text, t), error |-> NoError]
          ELSE [text |-> g.text, error |-> t] :
            t \in Sample(o, Window(g.text, Len(g.text), b))}

Start(p) == [text |-> p, error |-> NoError]

\* f gives the states generate can be in with i tokens, for each i.
Unrolled(o, b, p, first, last, f) ==
    f = [i \in first .. last |->
           IF i = first THEN {Start(p)} ELSE UNION {Continued(o, b, g) : g \in f[i - 1]}]

(* generate is its loop, unrolled. *)
LEMMA GenerateIs ==
  ASSUME NEW o, NEW size, NEW b, NEW p, p # <<>>
  PROVE  LET first == Len(p)
             last == Max({first, b, size})
         IN  generate(o, size, b, p) = (CHOOSE f : Unrolled(o, b, p, first, last, f))[last]
BY DEF generate, Unrolled, Continued, Start, NoError

(* The loop can be unrolled to any length. *)
LEMMA UnrolledExists ==
  ASSUME NEW o, NEW b, NEW p, NEW first \in Nat, NEW last \in Nat, first <= last
  PROVE  \E f : Unrolled(o, b, p, first, last, f)
<1> DEFINE bad == {n \in first .. last : ~ \E f : Unrolled(o, b, p, first, n, f)}
<1>1. SUFFICES bad = {}
  BY <1>1
<1>2. SUFFICES ASSUME bad # {}
               PROVE  FALSE
  OBVIOUS
<1>3. bad \subseteq Nat
  OBVIOUS
<1> HIDE DEF bad
<1>4. PICK n \in bad : \A m \in bad : n <= m
  BY <1>2, <1>3, Least
<1>5. n \in first .. last /\ ~ \E f : Unrolled(o, b, p, first, n, f)
  BY <1>4 DEF bad
<1>6. CASE n = first
  <2> DEFINE h == [i \in first .. first |-> {Start(p)}]
  <2>1. h = [i \in first .. first |->
               IF i = first THEN {Start(p)} ELSE UNION {Continued(o, b, g) : g \in h[i - 1]}]
    <3> DEFINE loop == [i \in first .. first |->
                          IF i = first THEN {Start(p)}
                          ELSE UNION {Continued(o, b, g) : g \in h[i - 1]}]
    <3>1. \A i \in first .. first : i = first
      OBVIOUS
    <3>2. \A i \in first .. first : loop[i] = h[i]
      BY <3>1
    <3> QED BY <3>2
  <2> HIDE DEF h
  <2>2. Unrolled(o, b, p, first, first, h)
    BY <2>1, Zenon DEF Unrolled
  <2> QED BY <1>5, <1>6, <2>2
<1>7. CASE n # first
  <2>1. n - 1 \in first .. last /\ n - 1 \notin bad /\ n \in Nat
    BY <1>4, <1>5, <1>7
  <2>2. PICK f : Unrolled(o, b, p, first, n - 1, f)
    BY <2>1 DEF bad
  <2> DEFINE more == UNION {Continued(o, b, g) : g \in f[n - 1]}
             h == [i \in first .. n |-> IF i = n THEN more ELSE f[i]]
             loop == [i \in first .. n |->
                        IF i = first THEN {Start(p)}
                        ELSE UNION {Continued(o, b, g) : g \in h[i - 1]}]
  <2>3. \A i \in first .. n - 1 :
          f[i] = IF i = first THEN {Start(p)} ELSE UNION {Continued(o, b, g) : g \in f[i - 1]}
    BY <2>2 DEF Unrolled
  <2>4. \A i \in first .. n : h[i] = IF i = n THEN more ELSE f[i]
    OBVIOUS
  <2>5. ASSUME NEW i \in first .. n
        PROVE  loop[i] = h[i]
    <3>0. loop[i] = IF i = first THEN {Start(p)}
                    ELSE UNION {Continued(o, b, g) : g \in h[i - 1]}
      OBVIOUS
    <3> HIDE DEF loop, h
    <3>1. CASE i = first
      <4>1. i # n /\ i \in first .. n - 1
        BY <1>5, <1>7, <2>1, <3>1
      <4> QED BY <2>3, <2>4, <3>0, <3>1, <4>1
    <3>2. CASE i # first /\ i # n
      <4>1. i \in first .. n - 1 /\ i - 1 \in first .. n /\ i - 1 # n
        BY <2>1, <3>2
      <4>2. h[i - 1] = f[i - 1] /\ h[i] = f[i]
        BY <2>4, <3>2, <4>1
      <4> QED BY <2>3, <3>0, <3>2, <4>1, <4>2
    <3>3. CASE i = n
      <4>1. n - 1 \in first .. n /\ n - 1 # n
        BY <2>1
      <4>2. h[n - 1] = f[n - 1] /\ h[n] = more
        BY <2>4, <3>3, <4>1
      <4> QED BY <1>7, <3>0, <3>3, <4>2
    <3> QED BY <3>1, <3>2, <3>3
  <2>6. h = loop
    BY <2>5
  <2>7. Unrolled(o, b, p, first, n, h)
    <3> HIDE DEF h
    <3> QED BY <2>6, Zenon DEF Unrolled
  <2> HIDE DEF h
  <2> QED BY <1>5, <2>7
<1> QED BY <1>6, <1>7

\* An answer of i tokens: no error, and each token followed the longest known context before it.
Answer(o, b, p, i, g) ==
    /\ g.error = NoError
    /\ g.text \in Seq(Tokens) /\ Len(g.text) = i /\ IsPrefix(p, g.text)
    /\ \A j \in Len(p) + 1 .. i :
         g.text[j] \in Followed(o, Deepest(o, Window(g.text, j - 1, b)))

(* From an answer, a turn of the loop gives answers one token longer. *)
LEMMA AnswerGrows ==
  ASSUME ProtocolInv, NEW o \in Objects, form[o] = "dense", NEW b \in 1 .. B,
         NEW p \in Contexts, NEW i \in Nat, i >= Len(p), NEW g, Answer(o, b, p, i, g),
         NEW h \in Continued(o, b, g)
  PROVE  Answer(o, b, p, i + 1, h)
<1> DEFINE s == g.text
           w == Window(s, i, b)
<1>1. s \in Seq(Tokens) /\ Len(s) = i /\ IsPrefix(p, s) /\ g.error = NoError /\ b \in Nat
  BY DEF Answer
<1>2. p \in Seq(Tokens) /\ Len(p) \in Nat /\ Len(p) >= 1
  BY PathFacts DEF Contexts
<1>3. w \in Contexts
  <2>1. i \in 1 .. Len(s)
    BY <1>1, <1>2
  <2> HIDE DEF s
  <2> QED BY <1>1, <2>1, WindowIsContext
<1>4. Sample(o, w) = Followed(o, Deepest(o, w)) /\ Sample(o, w) \subseteq Tokens
  BY <1>3, DenseSample
<1>5. PICK t \in Sample(o, w) : h = [text |-> Append(s, t), error |-> NoError]
  BY <1>1, <1>4 DEF Continued
<1>6. t \in Tokens /\ t \in Followed(o, Deepest(o, w))
  BY <1>4
<1>7. \A j \in Len(p) + 1 .. i : s[j] \in Followed(o, Deepest(o, Window(s, j - 1, b)))
  BY DEF Answer
<1> DEFINE r == Append(s, t)
<1>8. h.text = r /\ h.error = NoError
  BY <1>5
<1> HIDE DEF s, w
<1>9. r \in Seq(Tokens) /\ Len(r) = i + 1 /\ r[i + 1] = t /\ \A j \in 1 .. i : r[j] = s[j]
  BY <1>1, <1>6
<1>10. IsPrefix(p, r)
  <2>1. SubSeq(r, 1, Len(p)) = SubSeq(s, 1, Len(p))
    BY <1>1, <1>2, <1>9
  <2> QED BY <1>1, <1>2, <1>9, <2>1 DEF IsPrefix
<1>11. ASSUME NEW j \in Len(p) + 1 .. i + 1
       PROVE  r[j] \in Followed(o, Deepest(o, Window(r, j - 1, b)))
  <2>1. j - 1 \in 0 .. Len(s)
    BY <1>1, <1>2
  <2>2. Window(r, j - 1, b) = Window(s, j - 1, b)
    BY <1>1, <1>6, <2>1, WindowBefore
  <2> HIDE DEF r
  <2>3. CASE j = i + 1
    <3>1. j - 1 = i
      BY <2>3
    <3>2. Window(s, j - 1, b) = w
      BY <3>1 DEF w
    <3> QED BY <1>6, <1>9, <2>2, <2>3, <3>2
  <2>4. CASE j # i + 1
    <3>1. j \in Len(p) + 1 .. i /\ j \in 1 .. i
      BY <1>2, <2>4
    <3> QED BY <1>7, <1>9, <2>2, <3>1
  <2> QED BY <2>3, <2>4
<1> HIDE DEF r
<1> QED BY <1>8, <1>9, <1>10, <1>11 DEF Answer

(* generate gives nothing but answers of the length asked for. *)
LEMMA GenerateAnswers ==
  ASSUME ProtocolInv, NEW o \in Objects, form[o] = "dense", NEW b \in 1 .. B,
         NEW p \in Contexts, NEW size \in Nat, NEW g \in generate(o, size, b, p)
  PROVE  Answer(o, b, p, Max({size, Len(p), b}), g)
<1> DEFINE first == Len(p)
           last == Max({first, b, size})
<1>1. p \in Seq(Tokens) /\ Len(p) \in Nat /\ p # <<>> /\ b \in Nat
  BY PathFacts DEF Contexts
<1>2. last \in Nat /\ first <= last
  <2> DEFINE S == {first, b, size}
  <2>1. S \subseteq Nat /\ S # {}
    BY <1>1
  <2>2. \E m \in Nat : \A x \in S : x <= m
    <3>1. first + b + size \in Nat /\ \A x \in S : x <= first + b + size
      BY <1>1
    <3> QED BY <3>1
  <2>3. first \in S
    OBVIOUS
  <2> HIDE DEF S
  <2>4. Max(S) \in S /\ \A x \in S : x <= Max(S)
    BY <2>1, <2>2, Greatest
  <2> QED BY <2>1, <2>3, <2>4 DEF S
<1>3. Max({size, Len(p), b}) = last
  <2>1. {size, Len(p), b} = {first, b, size}
    OBVIOUS
  <2> QED BY <2>1
<1> DEFINE f == CHOOSE x : Unrolled(o, b, p, first, last, x)
<1>4. generate(o, size, b, p) = f[last]
  BY <1>1, GenerateIs
<1> HIDE DEF last
<1>5. Unrolled(o, b, p, first, last, f)
  BY <1>1, <1>2, UnrolledExists
<1> HIDE DEF f
<1>6. \A i \in first .. last :
        f[i] = IF i = first THEN {Start(p)} ELSE UNION {Continued(o, b, x) : x \in f[i - 1]}
  BY <1>5 DEF Unrolled
<1> DEFINE bad == {i \in first .. last : ~ \A x \in f[i] : Answer(o, b, p, i, x)}
<1>7. ASSUME bad # {}
      PROVE  FALSE
  <2>1. bad \subseteq Nat
    BY <1>1, <1>2
  <2> HIDE DEF bad
  <2>2. PICK i \in bad : \A j \in bad : i <= j
    BY <1>7, <2>1, Least
  <2>3. i \in first .. last /\ ~ \A x \in f[i] : Answer(o, b, p, i, x)
    BY <2>2 DEF bad
  <2>4. CASE i = first
    <3>1. f[i] = {Start(p)}
      BY <1>6, <2>3, <2>4
    <3>2. Start(p).text = p /\ Start(p).error = NoError
      BY DEF Start
    <3>3. IsPrefix(p, p)
      BY <1>1 DEF IsPrefix
    <3>4. \A j \in Len(p) + 1 .. i : FALSE
      BY <1>1, <2>4
    <3>5. Answer(o, b, p, i, Start(p))
      BY <1>1, <2>4, <3>2, <3>3, <3>4 DEF Answer
    <3> QED BY <2>3, <3>1, <3>5
  <2>5. CASE i # first
    <3>1. i - 1 \in first .. last /\ i - 1 \notin bad /\ i - 1 \in Nat /\ i = (i - 1) + 1
      BY <1>1, <1>2, <2>1, <2>2, <2>3, <2>5
    <3>2. \A x \in f[i - 1] : Answer(o, b, p, i - 1, x)
      BY <3>1 DEF bad
    <3>3. f[i] = UNION {Continued(o, b, x) : x \in f[i - 1]}
      BY <1>6, <2>3, <2>5
    <3>4. ASSUME NEW h \in f[i]
          PROVE  Answer(o, b, p, i, h)
      <4>1. PICK x \in f[i - 1] : h \in Continued(o, b, x)
        BY <3>3
      <4> DEFINE k == i - 1
      <4>2. k \in Nat /\ k >= Len(p) /\ i = k + 1
        BY <1>1, <3>1
      <4>3. Answer(o, b, p, k, x)
        BY <3>2, <4>1
      <4> HIDE DEF k
      <4>4. Answer(o, b, p, k + 1, h)
        BY <4>1, <4>2, <4>3, AnswerGrows
      <4> QED BY <4>2, <4>4
    <3> QED BY <2>3, <3>4
  <2> QED BY <2>4, <2>5
<1>8. last \in first .. last
  BY <1>1, <1>2
<1>9. \A x \in f[last] : Answer(o, b, p, last, x)
  BY <1>7, <1>8
<1> QED BY <1>3, <1>4, <1>9

\* What DenseAnswers asks of one prompt.
AnswersWell(o, p) ==
    LET drawn == Sample(o, p)
        share(t) == probability(o, p, t)
    IN  /\ drawn # {} /\ drawn = Followed(o, Deepest(o, p))
        /\ {t \in Tokens : share(t).count > 0} = Followed(o, <<>>)
        /\ \A t \in drawn :
             share(t).total = SumOver(drawn, [u \in drawn |-> share(u).count])
        /\ \A size \in 0 .. B + 1, b \in 1 .. B : \A g \in generate(o, size, b, p) :
             /\ g.error = ""
             /\ IsPrefix(p, g.text) /\ Len(g.text) = Max({size, Len(p), b})
             /\ \A i \in Len(p) + 1 .. Len(g.text) :
                  g.text[i] \in Followed(o, Deepest(o, Window(g.text, i - 1, b)))

(***************************************************************************)
(* Once dense, an object that knows any pattern answers every query:       *)
(* sample with the tokens that followed the longest known suffix and with  *)
(* no error, probability positively for them and for whatever followed     *)
(* anything, generate with such tokens up to the size asked for.           *)
(***************************************************************************)
THEOREM DenseAnswersAlways == ProtocolSpec => []DenseAnswers
<1>1. ProtocolInv => DenseAnswers
  <2> SUFFICES ASSUME ProtocolInv, NEW o \in Objects, form[o] = "dense", NEW p \in Contexts
               PROVE  AnswersWell(o, p)
    BY Zenon DEF DenseAnswers, AnswersWell
  <2> DEFINE d == Deepest(o, p)
             D == sampler[o][d]
             R == sampler[o][<<>>]
             drawn == Sample(o, p)
             share(t) == probability(o, p, t)
  <2>1. d \in nodes[o] /\ drawn = Followed(o, d) /\ drawn # {} /\ drawn \subseteq Tokens
    BY DenseSample
  <2>2. /\ Support(D) = Followed(o, d) /\ Followed(o, d) \subseteq Followed(o, <<>>)
        /\ D.total = SumOver(Tokens, D.counts) /\ D.counts \in Counts
        /\ <<>> \in nodes[o]
    BY <2>1, DenseDraws
  <2>3. Support(R) = Followed(o, <<>>)
    BY <2>2, DenseDraws
  <2>4. \A t : share(t) = IF D.counts[t] > 0 THEN ShareOf(D, t) ELSE ShareOf(R, t)
    BY DEF probability, ShareOf
  <2>5. \A t : share(t).count = IF D.counts[t] > 0 THEN D.counts[t] ELSE R.counts[t]
    BY <2>4 DEF ShareOf
  <2>6. \A t \in drawn : t \in Tokens /\ D.counts[t] > 0 /\ share(t).total = D.total
    BY <2>1, <2>2, <2>4 DEF Support, ShareOf
  <2> HIDE DEF d, D, R, drawn, share
  <2>7. {t \in Tokens : share(t).count > 0} = Followed(o, <<>>)
    BY <2>2, <2>3, <2>5 DEF Support
  <2>8. D.total = SumOver(drawn, [u \in drawn |-> share(u).count])
    <3>1. \A t \in Tokens \ drawn : D.counts[t] = 0
      BY <2>1, <2>2 DEF Support, Counts
    <3>2. \A t \in drawn : D.counts[t] \in Nat
      BY <2>1, <2>2 DEF Counts
    <3>3. SumOver(Tokens, D.counts) = SumOver(drawn, D.counts)
      BY <2>1, <3>1, <3>2, TokensAssumption, SumWider
    <3> DEFINE f == [u \in drawn |-> share(u).count]
    <3>4. \A u \in drawn : f[u] = D.counts[u]
      BY <2>5, <2>6
    <3> HIDE DEF f
    <3>5. SumOver(drawn, f) = SumOver(drawn, D.counts)
      BY <3>4, SumSame
    <3> QED BY <2>2, <3>3, <3>5 DEF f
  <2>9. ASSUME NEW size \in 0 .. B + 1, NEW b \in 1 .. B, NEW g \in generate(o, size, b, p)
        PROVE  /\ g.error = NoError
               /\ IsPrefix(p, g.text)
               /\ Len(g.text) = Max({size, Len(p), b})
               /\ \A i \in Len(p) + 1 .. Len(g.text) :
                    g.text[i] \in Followed(o, Deepest(o, Window(g.text, i - 1, b)))
    <3>1. size \in Nat
      BY BlockAssumption
    <3>2. Answer(o, b, p, Max({size, Len(p), b}), g)
      BY <3>1, GenerateAnswers
    <3> QED BY <3>2 DEF Answer
  <2>10. \A t \in drawn : share(t).total = SumOver(drawn, [u \in drawn |-> share(u).count])
    BY <2>6, <2>8
  <2>11. drawn # {} /\ drawn = Followed(o, Deepest(o, p))
    BY <2>1 DEF d
  <2> QED BY <2>7, <2>9, <2>10, <2>11, Zenon DEF drawn, share, AnswersWell, NoError
<1> QED BY <1>1, ProtocolInvAlways, PTL
=============================================================================
