--------------------------- MODULE SuffixTreeSet ----------------------------
(***************************************************************************)
(* The Rust core of efnlp: the EFNLP objects a Python program holds        *)
(* (src/src/lib.rs), each a SuffixTreeSet of SuffixTrees with a sampler at *)
(* every node (src/src/suffixtreeset.rs, src/src/suffixtree.rs).  A caller *)
(* may make the API calls on a small pool of objects in any order; each    *)
(* call runs to its end under the interpreter's lock, so it is one action. *)
(*                                                                         *)
(* The recursion over a tree is written as a condition on paths: a call    *)
(* that descends along a context touches exactly its suffixes.             *)
(***************************************************************************)
EXTENDS SuffixPaths

CONSTANTS Objects,     \* the pool of EFNLP objects
          MaxText,     \* the longest text given to parse_all
          MaxParsed,   \* bound: the patterns parsed in a run
          MaxWeight    \* bound: the counts copied, merged or densified

ASSUME BoundsAssumption == {MaxText, MaxParsed, MaxWeight} \subseteq Nat

VARIABLES nodes,    \* nodes[o]: the paths of o's nodes; the root is always there
          sampler,  \* sampler[o][q]: the sampler at q, empty where there is no node
          depth,    \* depth[o][q]: the `depth` field of the node at q
          form,     \* form[o]: what the calls made of o; no field of the program
          parsed    \* the patterns parsed so far, for the bound alone

vars == <<nodes, sampler, depth, form, parsed>>

(***************************************************************************)
(* form[o] remembers which calls o went through: "new" (nothing parsed),   *)
(* "sparse" and "dense" (each parse, merge, densify and sparsify in the    *)
(* order their names promise), "drained" (given away in a merge) and       *)
(* "mixed" (anything else).  No action's effect on o depends on it.        *)
(***************************************************************************)
Forms == {"new", "sparse", "dense", "drained", "mixed"}

Join(f, g) == IF f = "new" THEN g ELSE IF g \in {"new", f} THEN f ELSE "mixed"

TypeOK ==
    /\ nodes \in [Objects -> SUBSET Paths]
    /\ sampler \in [Objects -> [Paths -> Sampler]]
    /\ depth \in [Objects -> [Paths -> Nat]]
    /\ form \in [Objects -> Forms]
    /\ parsed \in 0 .. MaxParsed

Init ==
    /\ nodes = [o \in Objects |-> {<<>>}]
    /\ sampler = [o \in Objects |-> [q \in Paths |-> EmptySampler]]
    /\ depth = [o \in Objects |-> [q \in Paths |-> 0]]
    /\ form = [o \in Objects |-> "new"]
    /\ parsed = 0

-----------------------------------------------------------------------------
(* Construction and parsing *)

New(o) ==
    /\ nodes' = [nodes EXCEPT ![o] = {<<>>}]
    /\ sampler' = [sampler EXCEPT ![o] = [q \in Paths |-> EmptySampler]]
    /\ depth' = [depth EXCEPT ![o] = [q \in Paths |-> 0]]
    /\ form' = [form EXCEPT ![o] = "new"]
    /\ UNCHANGED parsed

\* A fault: every parse counts at every suffix, dense or not.
CountedAlways(p, dense) == Suffixes(p)

\* The nodes whose sampler counts a pattern with this prefix.
Counted(p, dense) == IF dense THEN Suffixes(p) ELSE {p}

CountOf(patterns, q, t, dense) ==
    Cardinality({x \in patterns : x.next = t /\ q \in Counted(x.prefix, dense)})

\* A fault: a child's depth is passed up without the step to the child.
ReachedFlat(D, touched, q) == {D[r] : r \in Below(touched, q)}

\* The depths a node at q can be given on the way back from the nodes below.
Reached(D, touched, q) == {D[r] + Len(r) - Len(q) : r \in Below(touched, q)}

(***************************************************************************)
(* Each parse creates the missing nodes on its way, and on the way back a  *)
(* parent's depth becomes at least its child's plus one.                   *)
(***************************************************************************)
Observe(o, patterns, dense) ==
    LET touched == UNION {Suffixes(x.prefix) : x \in patterns}
    IN  /\ parsed + Cardinality(patterns) <= MaxParsed
        /\ parsed' = parsed + Cardinality(patterns)
        /\ nodes' = [nodes EXCEPT ![o] = @ \cup touched]
        /\ sampler' = [sampler EXCEPT ![o] =
             [q \in Paths |->
                IF q \notin touched THEN @[q]
                ELSE AddCounts(@[q], [t \in Tokens |-> CountOf(patterns, q, t, dense)])]]
        /\ depth' = [depth EXCEPT ![o] =
             [q \in Paths |->
                IF q \notin touched THEN @[q] ELSE Max({@[q]} \cup Reached(@, touched, q))]]
        /\ form' = [form EXCEPT ![o] = Join(@, IF dense THEN "dense" ELSE "sparse")]

Parse(o, p, t, dense) ==
    /\ p # <<>>
    /\ Observe(o, {[next |-> t, prefix |-> p, at |-> 0]}, dense)

\* The two loops of parse_all; the token at the last index is never a successor.
Positions(s, b) == (1 .. b - 1) \cup (b .. Len(s) - 2)

ParseAll(o, s, b, dense) ==
    /\ Len(s) > b
    /\ Observe(o, {Pattern(s, i, b) : i \in Positions(s, b)}, dense)

-----------------------------------------------------------------------------
(* Densify and sparsify *)

\* The counts held by an object, for the bound.
Weight(o) == SumOver(Paths, [q \in Paths |-> sampler[o][q].total])

\* A fault: a node is added to its parent before its own children are added to it.
ShallowCounts(S, N, q) ==
    [t \in Tokens |->
       SumOver({q} \cup Children(N, q),
               [r \in {q} \cup Children(N, q) |-> S[r].counts[t]])]

\* After densify a node counts what it and every node below it counted.
DensifiedCounts(S, N, q) ==
    [t \in Tokens |->
       SumOver({q} \cup Below(N, q),
               [r \in {q} \cup Below(N, q) |-> S[r].counts[t]])]

\* Post-order: a node adds each densified child, token by token.
Densified(S, N) ==
    [q \in Paths |->
       LET kids == Children(N, q) IN
       [total |-> S[q].total
                    + SumOver(kids \X Tokens,
                              [x \in kids \X Tokens |-> DensifiedCounts(S, N, x[1])[x[2]]]),
        counts |-> DensifiedCounts(S, N, q)]]

DensifiedForm(f) ==
    CASE f = "new" -> "new" [] f = "sparse" -> "dense" [] OTHER -> "mixed"

Densify(o) ==
    /\ 2 * Weight(o) <= MaxWeight
    /\ sampler' = [sampler EXCEPT ![o] = Densified(@, nodes[o])]
    /\ form' = [form EXCEPT ![o] = DensifiedForm(@)]
    /\ UNCHANGED <<nodes, depth, parsed>>

(***************************************************************************)
(* sparsify takes each child's counts from its parent's, before it goes    *)
(* into the child, and skips a count larger than what is left.  Which ones *)
(* it skips depends on the order of the hash map: some <<child, token>>    *)
(* pairs, none of which would still fit.  The map has one order for all    *)
(* tokens, and here each token may have its own.                           *)
(***************************************************************************)
Removed(S, N, q, t, skipped) ==
    LET kids == {r \in Children(N, q) : <<r, t>> \notin skipped}
    IN  SumOver(kids, [r \in kids |-> S[r].counts[t]])

Contested(S, N) ==
    {x \in (N \ {<<>>}) \X Tokens :
       /\ Len(x[1]) > 1
       /\ Removed(S, N, Tail(x[1]), x[2], {}) > S[Tail(x[1])].counts[x[2]]}

\* A fault: counts are taken away without looking at what is left.
SkipsNothing(S, N) == {{}}

Skips(S, N) ==
    {skipped \in SUBSET Contested(S, N) :
       \A q \in N \ {<<>>}, t \in Tokens :
         LET left == S[q].counts[t]
             gone == Removed(S, N, q, t, skipped)
         IN  /\ gone <= left
             /\ \A r \in Children(N, q) :
                  <<r, t>> \in skipped => gone + S[r].counts[t] > left}

\* Faults: a skipped count is still taken from the total; only the leaves keep their
\* counts.
SparsifiedTotals(S, N, skipped) ==
    [q \in Paths |->
       IF q = <<>> THEN EmptySampler
       ELSE [total |-> S[q].total - SumOver(Children(N, q), [r \in Children(N, q) |-> S[r].total]),
             counts |-> [t \in Tokens |-> S[q].counts[t] - Removed(S, N, q, t, skipped)]]]

SparsifiedToLeaves(S, N, skipped) ==
    [q \in Paths |-> IF Children(N, q) = {} THEN S[q] ELSE EmptySampler]

\* At the root the sampler is simply replaced by a new one.
Sparsified(S, N, skipped) ==
    [q \in Paths |->
       IF q = <<>> THEN EmptySampler
       ELSE LET kept == {x \in Children(N, q) \X Tokens : x \notin skipped} IN
            [total |-> S[q].total - SumOver(kept, [x \in kept |-> S[x[1]].counts[x[2]]]),
             counts |-> [t \in Tokens |-> S[q].counts[t] - Removed(S, N, q, t, skipped)]]]

SparsifiedForm(f) ==
    CASE f = "new" -> "new" [] f = "dense" -> "sparse" [] OTHER -> "mixed"

Sparsify(o) ==
    /\ \E skipped \in Skips(sampler[o], nodes[o]) :
         sampler' = [sampler EXCEPT ![o] = Sparsified(@, nodes[o], skipped)]
    /\ form' = [form EXCEPT ![o] = SparsifiedForm(@)]
    /\ UNCHANGED <<nodes, depth, parsed>>

-----------------------------------------------------------------------------
(* Merge and serialization *)

(***************************************************************************)
(* merge moves the trees of x into o: shared nodes are merged, the others  *)
(* moved.  x keeps no tree, but it does keep its own sampler and depth.    *)
(* o and x are never the same object: pyo3 refuses the second borrow.      *)
(***************************************************************************)
MergedSamplers(S, R) == [q \in Paths |-> MergeSamplers(S[q], R[q])]

MergedDepths(D, E) == [q \in Paths |-> IF D[q] < E[q] THEN E[q] ELSE D[q]]

Merge(o, x) ==
    /\ o # x
    /\ Weight(o) + Weight(x) <= MaxWeight
    /\ nodes' = [nodes EXCEPT ![o] = @ \cup nodes[x], ![x] = {<<>>}]
    /\ sampler' = [sampler EXCEPT
         ![o] = MergedSamplers(@, sampler[x]),
         ![x] = [q \in Paths |-> IF q = <<>> THEN @[q] ELSE EmptySampler]]
    /\ depth' = [depth EXCEPT
         ![o] = MergedDepths(@, depth[x]),
         ![x] = [q \in Paths |-> IF q = <<>> THEN @[q] ELSE 0]]
    /\ form' = [form EXCEPT
         ![o] = IF "drained" \in {@, form[x]} THEN "mixed" ELSE Join(@, form[x]),
         ![x] = IF @ = "new" THEN "new" ELSE "drained"]
    /\ UNCHANGED parsed

\* proto(): a message per node, with an entry for each counted token.
Message(S, N, D) ==
    {[path |-> q, depth |-> D[q], total |-> S[q].total,
      counts |-> {[token |-> t, count |-> S[q].counts[t]] : t \in Support(S[q])}] : q \in N}

\* Faults: a node without counts is not written; the depths are not read back.
CountedNodesIn(m) == {x.path : x \in {y \in m : y.path = <<>> \/ y.total > 0}}

DepthsLost(m) == [q \in Paths |-> 0]

\* from_proto(): the nodes, their depths and their samplers, inserted one by one.
NodesIn(m) == {x.path : x \in m}

EntryAt(m, q) == CHOOSE x \in m : x.path = q

SamplersIn(m) ==
    [q \in Paths |->
       IF q \notin NodesIn(m) THEN EmptySampler
       ELSE [total |-> EntryAt(m, q).total,
             counts |-> [t \in Tokens |->
               LET e == {c \in EntryAt(m, q).counts : c.token = t}
               IN  IF e = {} THEN 0 ELSE (CHOOSE c \in e : TRUE).count]]]

DepthsIn(m) == [q \in Paths |-> IF q \in NodesIn(m) THEN EntryAt(m, q).depth ELSE 0]

\* o = EFNLP.deserialize(x.serialize())
Reload(o, x) ==
    LET m == Message(sampler[x], nodes[x], depth[x])
    IN  /\ nodes' = [nodes EXCEPT ![o] = NodesIn(m)]
        /\ sampler' = [sampler EXCEPT ![o] = SamplersIn(m)]
        /\ depth' = [depth EXCEPT ![o] = DepthsIn(m)]
        /\ form' = [form EXCEPT ![o] = form[x]]
        /\ UNCHANGED parsed

-----------------------------------------------------------------------------
(* Specification *)

Texts == UNION {[1 .. n -> Tokens] : n \in 3 .. MaxText}

ParseCall(o) ==
  /\ parsed < MaxParsed
  /\ \/ \E p \in Contexts, t \in Tokens, dense \in BOOLEAN : Parse(o, p, t, dense)
     \/ \E s \in Texts, b \in 1 .. B, dense \in BOOLEAN : ParseAll(o, s, b, dense)

Next ==
    \E o \in Objects :
        \/ New(o)
        \/ ParseCall(o)
        \/ Densify(o)
        \/ Sparsify(o)
        \/ \E x \in Objects : Merge(o, x)
        \/ \E x \in Objects : Reload(o, x)

Spec == Init /\ [][Next]_vars

(***************************************************************************)
(* The intended protocol: one kind of parse per object, densify only what  *)
(* is sparse, sparsify only what is dense, no use of a drained object.     *)
(***************************************************************************)
Protocol == Next /\ \A o \in Objects : form'[o] # "mixed"

ProtocolSpec == Init /\ [][Protocol]_vars

-----------------------------------------------------------------------------
(* Queries *)

\* Descending along p stops at the first missing child.
Deepest(o, p) ==
    LET found == {q \in Suffixes(p) : Suffixes(q) \subseteq nodes[o]}
    IN  CHOOSE q \in found : \A r \in found : Len(r) <= Len(q)

Matches(o, p) == p # <<>> /\ Deepest(o, p) = p

MatchLength(o, p) == Len(Deepest(o, p))

NeedsPrefix == "Sampling requires a (nontrivial) prefix"

\* What sample(p) may return: tokens, or the text of an error.
Sample(o, p) == IF p = <<>> THEN {NeedsPrefix} ELSE Draws(sampler[o][Deepest(o, p)])

ShareOf(s, t) == [count |-> s.counts[t], total |-> s.total]

\* A token that never followed the context is given its share of all tokens.
probability(o, p, t) ==
    LET share == ShareOf(sampler[o][Deepest(o, p)], t)
    IN  IF share.count > 0 THEN share ELSE ShareOf(sampler[o][<<>>], t)

NeedsPrompt == "Cannot generate with an empty prompt."

\* What generate may return: the text so far, and the error that ended it, if any.  The
\* prompt counts towards the size; one shorter than a block is first filled up to it.
generate(o, size, b, prompt) ==
    LET first == Len(prompt)
        last == Max({first, b, size})
        next(g) ==
          IF g.error # "" THEN {g}
          ELSE {IF t \in Tokens THEN [text |-> Append(g.text, t), error |-> ""]
                ELSE [text |-> g.text, error |-> t] :
                  t \in Sample(o, Window(g.text, Len(g.text), b))}
        upto[i \in first .. last] ==
          IF i = first THEN {[text |-> prompt, error |-> ""]}
          ELSE UNION {next(g) : g \in upto[i - 1]}
    IN  IF prompt = <<>> THEN {[text |-> <<>>, error |-> NeedsPrompt]} ELSE upto[last]

-----------------------------------------------------------------------------
(* Properties of every sequence of calls *)

(***************************************************************************)
(* Every node of a tree hangs from its parent: the suffixes of a node's    *)
(* context are nodes too.  The descent of `matches`, `match_length` and    *)
(* `sample` relies on it, and merge moves whole subtrees under it.         *)
(***************************************************************************)
SuffixClosed ==
    \A o \in Objects : <<>> \in nodes[o] /\ \A q \in nodes[o] \ {<<>>} : Tail(q) \in nodes[o]

(***************************************************************************)
(* `verify` never fails: the total that `sample` draws below is the sum of *)
(* the counts, whatever mixture of calls was made - also when sparsify     *)
(* skips counts that do not fit ("TODO: what if cc < c? total < 0?").      *)
(***************************************************************************)
SamplersVerify == \A o \in Objects, q \in Paths : Verify(sampler[o][q])

(***************************************************************************)
(* The depth of a tree node is the height of the subtree below it, kept by *)
(* parse on the way back up and by merge; the set's own depth is at least  *)
(* that (a set whose trees were merged away keeps its old depth).          *)
(***************************************************************************)
DepthIsHeight ==
    \A o \in Objects : \A q \in nodes[o] :
      LET height == Max({Len(r) - Len(q) : r \in Below(nodes[o], q)})
      IN  /\ q # <<>> => depth[o][q] = height
          /\ q = <<>> => depth[o][q] >= height
=============================================================================
