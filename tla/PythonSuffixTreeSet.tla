------------------------ MODULE PythonSuffixTreeSet -------------------------
(***************************************************************************)
(* The suffix trees of the Python package (efnlp/suffixtree.py, with the   *)
(* samplers of efnlp/sampler.py).  The trees are always dense: every node  *)
(* on the way of a context counts the successor, and so does the set, for  *)
(* contexts no tree knows.  A merge leaves its argument as it was; a round *)
(* trip through the protocol buffer keeps trees and counts only.           *)
(***************************************************************************)
EXTENDS PythonParsing

CONSTANTS Objects,     \* the SuffixTreeSets of a program
          MaxText,     \* the longest text parsed
          MaxMass,     \* bound: the patterns the objects know together
          MaxSize,     \* the trees a set is made with, at most
          MaxDepth     \* bound: the largest depth any tree reports

ASSUME PythonAssumption ==
    /\ Tokens \subseteq Nat
    /\ \A t \in Tokens : 0 .. t \subseteq Tokens   \* SuffixTreeSet(n) makes trees for the
    /\ 0 .. MaxSize - 1 \subseteq Tokens           \* tokens below n
    /\ B > 0                  \* so the tree of a token is a context
    /\ {MaxText, MaxMass, MaxSize, MaxDepth} \subseteq Nat

VARIABLES nodes,    \* nodes[o]: the paths of the nodes of o, and <<>> for the set
          counts,   \* counts[o][q]: the counts of the sampler at q
          total,    \* total[o][q]: the total of that sampler
          depth,    \* depth[o][q]: the depth of the tree at q; of the set at <<>>
          size,     \* size[o]: the number of trees the set was made with
          history   \* whether o was only parsed into, or merged or reloaded since

vars == <<nodes, counts, total, depth, size, history>>

Histories == {"parsed", "merged", "reloaded"}

TypeOK ==
    /\ nodes \in [Objects -> SUBSET Paths]
    /\ \A o \in Objects : {Tail(q) : q \in nodes[o] \ {<<>>}} \subseteq nodes[o]
    /\ counts \in [Objects -> [Paths -> Counts]]
    /\ total \in [Objects -> [Paths -> Nat]]
    /\ depth \in [Objects -> [Paths -> 0 .. MaxDepth]]
    /\ size \in [Objects -> Nat]
    /\ history \in [Objects -> Histories]

Zeros == [q \in Paths |-> 0]
NoneCounted == [q \in Paths |-> NoCounts]

\* The trees the constructor makes: one, empty, for each token below n.
Made(n) == {<<>>} \cup {<<t>> : t \in {u \in Tokens : u < n}}

Init ==
    /\ nodes = [o \in Objects |-> Made(0)]
    /\ counts = [o \in Objects |-> NoneCounted]
    /\ total = [o \in Objects |-> Zeros]
    /\ depth = [o \in Objects |-> Zeros]
    /\ size = [o \in Objects |-> 0]
    /\ history = [o \in Objects |-> "parsed"]

\* The patterns o knows, and those all objects know; the set's own sampler apart.
Mass(o) == SumOver(Children(nodes[o], <<>>), total[o])
TotalMass == SumOver(Objects, [o \in Objects |-> Mass(o)])

\* Bound: only an object that knows something is merged into another or reloaded.
Worth(o) == Mass(o) > 0

New(o, n) ==
    /\ nodes' = [nodes EXCEPT ![o] = Made(n)]
    /\ counts' = [counts EXCEPT ![o] = NoneCounted]
    /\ total' = [total EXCEPT ![o] = Zeros]
    /\ depth' = [depth EXCEPT ![o] = Zeros]
    /\ size' = [size EXCEPT ![o] = n]
    /\ history' = [history EXCEPT ![o] = "parsed"]

-----------------------------------------------------------------------------
(* Parsing *)

\* A fault: the set leaves counting to its trees.
AddedToTrees(c, patterns) ==
    [q \in Paths |-> [t \in Tokens |->
       c[q][t] + Cardinality({x \in patterns :
                    q # <<>> /\ x.next = t /\ q \in Suffixes(x.prefix)})]]

\* Sampler.add at every node of the way, the set included.
Added(c, patterns) ==
    [q \in Paths |-> [t \in Tokens |->
       c[q][t] + Cardinality({x \in patterns : x.next = t /\ q \in Suffixes(x.prefix)})]]

\* A fault: add raises the total of a token it did not know only.
AddedTotalsOfNew(c, n, patterns) ==
    [q \in Paths |->
       n[q] + Cardinality({x \in patterns : q \in Suffixes(x.prefix) /\ c[q][x.next] = 0})]

AddedTotals(c, n, patterns) ==
    [q \in Paths |-> n[q] + Cardinality({x \in patterns : q \in Suffixes(x.prefix)})]

\* A fault: a tree takes the depth of its child for its own.
RaisedFlat(d, patterns) ==
    LET on == UNION {Suffixes(x.prefix) : x \in patterns}
    IN  [q \in Paths |-> Max({d[q]} \cup {d[r] : r \in Below(on, q)})]

\* On the way back each tree takes one more than its child, the set too.
Raised(d, patterns) ==
    LET on == UNION {Suffixes(x.prefix) : x \in patterns}
    IN  [q \in Paths |-> Max({d[q]} \cup {d[r] + Len(r) - Len(q) : r \in Below(on, q)})]

\* A text without a pattern changes nothing.
Observe(o, patterns) ==
    /\ patterns # {}
    /\ {x.prefix : x \in patterns} \subseteq Contexts
    /\ TotalMass + Cardinality(patterns) <= MaxMass
    /\ nodes' = [nodes EXCEPT ![o] = @ \cup UNION {Suffixes(x.prefix) : x \in patterns}]
    /\ counts' = [counts EXCEPT ![o] = Added(@, patterns)]
    /\ total' = [total EXCEPT ![o] = AddedTotals(counts[o], @, patterns)]
    /\ depth' = [depth EXCEPT ![o] = Raised(@, patterns)]
    /\ \A q \in Paths : depth'[o][q] <= MaxDepth
    /\ UNCHANGED <<size, history>>

\* An empty prefix is refused.
Parse(o, p, t) == p # <<>> /\ Observe(o, {[next |-> t, prefix |-> p, at |-> 0]})

ParseAll(o, s, b, ignore_start) ==
    Observe(o, Blocks(s, b) \cup (IF ignore_start THEN {} ELSE Leading(s, b)))

-----------------------------------------------------------------------------
(* Merging: two nodes of the same path are added up, a missing one is copied. *)

Both(N, M) == (N \cap M) \ {<<>>}
Missing(N, M) == M \ N

\* A fault: a missing tree is copied and then merged as well.
MergedCountsTwice(o, x) ==
    [q \in Paths |-> [t \in Tokens |->
       IF q = <<>> THEN counts[o][q][t]
       ELSE IF q \in Missing(nodes[o], nodes[x]) THEN 2 * counts[x][q][t]
       ELSE counts[o][q][t] + counts[x][q][t]]]

MergedCounts(o, x) ==
    [q \in Paths |-> [t \in Tokens |->
       IF q = <<>> THEN counts[o][q][t] ELSE counts[o][q][t] + counts[x][q][t]]]

MergedTotals(o, x) ==
    [q \in Paths |-> IF q = <<>> THEN total[o][q] ELSE total[o][q] + total[x][q]]

\* A tree in both adds the larger depth to its own; the set takes the larger.
MergedDepths(o, x) ==
    LET larger(q) == Max({depth[o][q], depth[x][q]}) IN
    [q \in Paths |->
       IF q \in Both(nodes[o], nodes[x]) THEN depth[o][q] + larger(q)
       ELSE IF q = <<>> THEN larger(q)
       ELSE IF q \in Missing(nodes[o], nodes[x]) THEN depth[x][q]
       ELSE depth[o][q]]

\* x may be o itself, which doubles it.  The set's sampler is left alone.
Merge(o, x) ==
    /\ Worth(x)
    /\ TotalMass + Mass(x) <= MaxMass
    /\ nodes' = [nodes EXCEPT ![o] = @ \cup nodes[x]]
    /\ counts' = [counts EXCEPT ![o] = MergedCounts(o, x)]
    /\ total' = [total EXCEPT ![o] = MergedTotals(o, x)]
    /\ depth' = [depth EXCEPT ![o] = MergedDepths(o, x)]
    /\ \A q \in Paths : depth'[o][q] <= MaxDepth
    /\ history' = [history EXCEPT ![o] =
                     IF "reloaded" \in {@, history[x]} THEN "reloaded" ELSE "merged"]
    /\ UNCHANGED size

-----------------------------------------------------------------------------
(* The protocol buffer *)

Message(o) ==
    {[path |-> q, total |-> total[o][q], counts |-> counts[o][q]] : q \in nodes[o] \ {<<>>}}

\* A fault: only the ends of the paths are put back.
NodesInEnds(m) ==
    Made(Cardinality({x \in m : Len(x.path) = 1}))
      \cup {x.path : x \in {y \in m : \A z \in m : z.path = <<>> \/ Tail(z.path) # y.path}}

\* A set of as many trees as the message has, those of the message in their places.
NodesIn(m) ==
    Made(Cardinality({x \in m : Len(x.path) = 1})) \cup {x.path : x \in m}

At(m, q) == CHOOSE x \in m : x.path = q
CountsIn(m) == [q \in Paths |-> IF \E x \in m : x.path = q THEN At(m, q).counts ELSE NoCounts]
TotalsIn(m) == [q \in Paths |-> IF \E x \in m : x.path = q THEN At(m, q).total ELSE 0]

Reload(o) ==
    LET m == Message(o) IN
    /\ Worth(o)
    /\ nodes' = [nodes EXCEPT ![o] = NodesIn(m)]
    /\ counts' = [counts EXCEPT ![o] = CountsIn(m)]
    /\ total' = [total EXCEPT ![o] = TotalsIn(m)]
    /\ depth' = [depth EXCEPT ![o] = Zeros]
    /\ size' = [size EXCEPT ![o] = Cardinality({x \in m : Len(x.path) = 1})]
    /\ history' = [history EXCEPT ![o] = "reloaded"]

-----------------------------------------------------------------------------
(* Specification *)

Texts == UNION {[1 .. n -> Tokens] : n \in 1 .. MaxText}

Next ==
    \E o \in Objects :
      \/ \E n \in 0 .. MaxSize : New(o, n)
      \/ /\ TotalMass < MaxMass
         /\ \/ \E p \in Contexts, t \in Tokens : Parse(o, p, t)
            \/ \E s \in Texts, b \in 1 .. B + 1, ignore_start \in BOOLEAN :
                  ParseAll(o, s, b, ignore_start)
      \/ \E x \in Objects : Merge(o, x)
      \/ Reload(o)

Spec == Init /\ [][Next]_vars

-----------------------------------------------------------------------------
(* Queries *)

Ending(p, n) == SubSeq(p, Len(p) - n + 1, Len(p))

\* Each call hands the context without its last token to the child for it.
Reached(o, p) ==
    LET descend[n \in 0 .. Len(p)] ==
          IF n < Len(p) /\ Ending(p, n + 1) \in nodes[o] THEN descend[n + 1] ELSE Ending(p, n)
    IN  descend[0]

search(o, p) == Reached(o, p)

\* A fault: a context is found when it is longer than the tree is deep.
match_beyond(o, p) ==
    LET found[n \in 1 .. Len(p)] ==
          \/ n = Len(p) \/ Children(nodes[o], Ending(p, n)) = {}
          \/ Ending(p, n + 1) \in nodes[o] /\ found[n + 1]
    IN  IF Ending(p, 1) \notin nodes[o] THEN {FALSE}
        ELSE IF Len(p) = 1 THEN {} ELSE {found[1]}

\* The answers: none if it raises, as the tree of the last token does when no other
\* token is left for it.
match(o, p) ==
    LET found[n \in 1 .. Len(p)] ==
          n = Len(p) \/ (Ending(p, n + 1) \in nodes[o] /\ found[n + 1])
    IN  IF Ending(p, 1) \notin nodes[o] THEN {FALSE}
        ELSE IF Len(p) = 1 THEN {} ELSE {found[1]}

\* The walk over the counts may end without a token, as it does in an empty sampler.
Malforms(n, c) == n = 0 \/ n > SumOver(Tokens, c)

sample(o, p) == LET q == Reached(o, p) IN Support([counts |-> counts[o][q]])
raises(o, p) == LET q == Reached(o, p) IN Malforms(total[o][q], counts[o][q])

probability(o, p, t) ==
    LET q == Reached(o, p) IN [count |-> counts[o][q][t], total |-> total[o][q]]

\* What the leaves under q give.
FromLeaves(o, leaf, q) ==
    LET under[r \in Paths] ==
          IF Children(nodes[o], r) = {} THEN leaf[r]
          ELSE UNION {under[k] : k \in Children(nodes[o], r)}
    IN  under[q]

prefixes(o) == FromLeaves(o, [q \in Paths |-> {q}], <<>>) \ {<<>>}

LeafPatterns(o) ==
    [q \in Paths |-> [prefix : {q}, next : Support([counts |-> counts[o][q]])]]

\* Without an argument only the trees the set was made with are asked.
patterns(o) ==
    UNION {FromLeaves(o, LeafPatterns(o), <<t>>) : t \in {u \in Tokens : u < size[o]}}

\* The lists `generate` can leave in its argument: the prompt and what was drawn;
\* it ends early with the exception of a sampler.
Latest(code, w) == IF w = 0 \/ Len(code) < w THEN code ELSE Ending(code, w)

generate(o, n, window, prompt) ==
    LET more[i \in 0 .. n] ==
          IF i = 0 THEN {prompt}
          ELSE {code \in more[i - 1] :
                  Len(code) < Len(prompt) + i - 1 \/ raises(o, Latest(code, window))}
                 \cup UNION {{Append(code, t) : t \in sample(o, Latest(code, window))} :
                              code \in {c \in more[i - 1] : Len(c) = Len(prompt) + i - 1}}
    IN  more[n]

-----------------------------------------------------------------------------
(* Properties *)

(***************************************************************************)
(* A context that ends in a token seen as a context is answered, by sample *)
(* with exactly the tokens that probability gives a positive share of the  *)
(* whole: neither the empty trees of the constructor and of from_proto nor *)
(* a merge leaves an empty node or a wrong total on the way to them.       *)
(***************************************************************************)
SeenTokenAnswers ==
    \A o \in Objects, p \in Contexts : total[o][Ending(p, 1)] > 0 =>
      /\ ~raises(o, p)
      /\ sample(o, p) = {t \in Tokens : probability(o, p, t).count > 0}
      /\ \A t \in Tokens : probability(o, p, t).total =
           SumOver(Tokens, [u \in Tokens |-> probability(o, p, u).count])

(***************************************************************************)
(* The descents agree.  Of a context of two tokens or more, match says     *)
(* whether it ends one of those that prefixes lists; of a single token it  *)
(* can only say that it was not seen, and raises if it was.  search        *)
(* returns the longest ending that is listed.  For the trees the set was   *)
(* made with, and no others, patterns lists each leaf with what sample     *)
(* draws after it.                                                         *)
(***************************************************************************)
ListingsAgree ==
    \A o \in Objects :
      LET listed == (UNION {Suffixes(p) : p \in prefixes(o)}) \ {<<>>} IN
      /\ \A p \in Contexts :
           /\ match(o, p) = IF p \notin listed THEN {FALSE}
                            ELSE IF Len(p) = 1 THEN {} ELSE {TRUE}
           /\ \A q \in Suffixes(p) \ {<<>>} : q \in listed <=> Len(q) <= Len(search(o, p))
      /\ patterns(o) = {x \in [prefix : {p \in prefixes(o) : Last(p) < size[o]}, next : Tokens] :
                          x.next \in sample(o, x.prefix)}

(***************************************************************************)
(* The depths are heights as long as texts are only parsed; a merge makes  *)
(* them too large (it adds the larger depth), never too small; a reload    *)
(* loses them, and only then a tree is deeper than it says.                *)
(***************************************************************************)
DepthsCoverTrees ==
    \A o \in Objects, q \in Paths : q \in nodes[o] =>
      LET height == Max({Len(r) - Len(q) : r \in Below(nodes[o], q)}) IN
      q # <<>> \/ Mass(o) > 0 =>
        /\ history[o] = "parsed" => depth[o][q] = height
        /\ history[o] # "reloaded" => depth[o][q] >= height

(***************************************************************************)
(* The sampler of the set, which answers for unknown tokens, counts what   *)
(* all trees count as long as texts are only parsed; merges and reloads    *)
(* leave it with a part of that, never with anything else.                 *)
(***************************************************************************)
SetSamplesPart ==
    \A o \in Objects, t \in Tokens :
      LET roots == Children(nodes[o], <<>>)
          seen == SumOver(roots, [r \in roots |-> counts[o][r][t]])
      IN  /\ counts[o][<<>>][t] <= seen
          /\ history[o] = "parsed" => counts[o][<<>>][t] = seen

(***************************************************************************)
(* Trees that were only parsed into generate as many tokens as they are    *)
(* asked for after any prompt, with any window: a token that was drawn but *)
(* never seen as a context falls back on the set's sampler.                *)
(***************************************************************************)
GenerationCompletes ==
    \A o \in Objects : history[o] = "parsed" /\ size[o] = 0 /\ total[o][<<>>] > 0 =>
      \A prompt \in Paths, window \in 0 .. B :
        \A code \in generate(o, 2, window, prompt) :
          Len(code) = Len(prompt) + 2 /\ IsPrefix(prompt, code)

(***************************************************************************)
(* The counts of what was observed after exactly the context p.            *)
(***************************************************************************)
Own(o) ==
    [p \in Contexts |-> [t \in Tokens |->
       counts[o][p][t] - SumOver(Children(nodes[o], p),
                                 [r \in Children(nodes[o], p) |-> counts[o][r][t]])]]

Lesson(p, t) == [q \in Contexts |-> [u \in Tokens |-> IF q = p /\ u = t THEN 1 ELSE 0]]

\* The tokens of s from the first-th to the last-th, each after the b before it.
TextLesson(s, b, first, last) ==
    [p \in Contexts |-> [t \in Tokens |->
       Cardinality({i \in first .. last : s[i] = t /\ p = SubSeq(s, Max({1, i - b}), i - 1)})]]

\* The last token of a text is a successor only if the text is no longer than the block.
LastSuccessor(s, b) == IF Len(s) <= b THEN Len(s) ELSE Len(s) - 1

Lessons ==
    {Lesson(p, t) : p \in Contexts, t \in Tokens}
      \cup UNION {{TextLesson(s, b, 2, LastSuccessor(s, b)),
                   TextLesson(s, b, b + 1, Len(s) - 1)} : s \in Texts, b \in 1 .. B + 1}

EF == INSTANCE EmpiricalFrequency WITH Corpora <- {}, occ <- [o \in Objects |-> Own(o)]

(***************************************************************************)
(* Every call changes what was observed as it promises: a text adds its    *)
(* patterns once, also when parse_all stops half way through, a merge adds *)
(* up, and a round trip through the protocol buffer changes nothing.       *)
(***************************************************************************)
ImplementsEmpiricalFrequency == EF!Spec
=============================================================================
