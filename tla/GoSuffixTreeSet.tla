-------------------------- MODULE GoSuffixTreeSet ---------------------------
(***************************************************************************)
(* The suffix trees of the Go program (go/datastructures.go): always parsed *)
(* dense, without a sampler at the set, dumped by the parser and read back  *)
(* by the server.  A tree is a struct kept by VALUE in its parent's map:    *)
(* Parse works on a copy, which shares the maps of the one in the map but   *)
(* has a total and a depth of its own, that no one writes back.             *)
(* The server may also be given a model that the C++ program trained.      *)
(***************************************************************************)
EXTENDS CppSuffixTreeSet

CONSTANTS MaxText,     \* the longest text parsed
          MaxParsed    \* bound: the patterns parsed into one set of trees

ASSUME BoundsAssumption == {MaxText, MaxParsed} \subseteq Nat

VARIABLES nodes,    \* the paths of the trees' nodes, and <<>> for the set
          counts,   \* counts[q]: the counts of the sampler at q
          total,    \* total[q]: the total of the sampler at q
          depth,    \* depth[q]: the depth of the stored tree at q; of the set at <<>>
          trainer,  \* who trained all of them: "go", "cpp", or "both"
          parsed    \* the patterns parsed since the set was empty, for the bound

vars == <<nodes, counts, total, depth, trainer, parsed>>

TypeOK ==
    /\ nodes \in SUBSET Paths
    /\ counts \in [Paths -> Counts]
    /\ total \in [Paths -> Nat]
    /\ depth \in [Paths -> Nat]
    /\ trainer \in {"go", "cpp", "both"}
    /\ parsed \in 0 .. MaxParsed

Zeros == [q \in Paths |-> 0]
NoneCounted == [q \in Paths |-> NoCounts]

Init ==
    /\ nodes = {<<>>}
    /\ counts = NoneCounted
    /\ total = Zeros
    /\ depth = Zeros
    /\ trainer = "go"
    /\ parsed = 0

-----------------------------------------------------------------------------
(* Parsing *)

\* A fault: only the node at the end of the way counts the successor.
SeenAtLeaf(C, patterns) ==
    [q \in Paths |-> [t \in Tokens |->
       C[q][t] + Cardinality({x \in patterns : x.next = t /\ q = x.prefix})]]

\* Every node on the way counts the successor; the set has no sampler.
Seen(C, patterns) ==
    [q \in Paths |-> [t \in Tokens |->
       IF q = <<>> THEN 0
       ELSE C[q][t] + Cardinality({x \in patterns : x.next = t /\ q \in Suffixes(x.prefix)})]]

\* A fault: the set looks at the tree in its map instead of the copy it parsed into.
LearnedFromMap(D, patterns) ==
    Max({D[<<>>]} \cup {D[<<x.prefix[Len(x.prefix)]>>] + 1 : x \in patterns})

\* The depth the set learns from the copies, each of which starts from a stored depth.
Learned(D, patterns) ==
    Max({D[<<>>]} \cup {D[q] + Len(q) : q \in UNION {Suffixes(x.prefix) : x \in patterns}})

Observe(N, C, D, patterns) ==
    /\ nodes' = N \cup UNION {Suffixes(x.prefix) : x \in patterns}
    /\ counts' = Seen(C, patterns)
    /\ depth' = [D EXCEPT ![<<>>] = Learned(D, patterns)]

MoreByGo == trainer' = IF trainer = "cpp" THEN "both" ELSE trainer

Parse(p, t) ==
    /\ p # <<>>
    /\ parsed < MaxParsed
    /\ parsed' = parsed + 1
    /\ Observe(nodes, counts, depth, {[next |-> t, prefix |-> p, at |-> 0]})
    /\ MoreByGo
    /\ UNCHANGED total

\* Up to the last token, with the shorter contexts at the start of the text.
ParseAll(s, b) ==
    LET patterns == {Pattern(s, i, b) : i \in 1 .. Len(s) - 1} IN
    /\ Len(s) >= b
    /\ parsed + Cardinality(patterns) <= MaxParsed
    /\ parsed' = parsed + Cardinality(patterns)
    /\ Observe(nodes, counts, depth, patterns)
    /\ MoreByGo
    /\ UNCHANGED total

\* EFNLPParser.Parse: new trees, full blocks only, and not the last token.
ParseCorpus(s, b) ==
    LET patterns == {Pattern(s, i, b) : i \in b .. Len(s) - 2} IN
    /\ Cardinality(patterns) <= MaxParsed
    /\ parsed' = Cardinality(patterns)
    /\ Observe({<<>>}, NoneCounted, Zeros, patterns)
    /\ total' = Zeros
    /\ trainer' = "go"

-----------------------------------------------------------------------------
(* Dump and load *)

\* A message per tree, without the depths.
Message ==
    {[path |-> q, total |-> total[q],
      counts |-> {[token |-> t, count |-> counts[q][t]] :
                    t \in {u \in Tokens : counts[q][u] > 0}}] : q \in nodes \ {<<>>}}

NodesIn(m) == {<<>>} \cup {x.path : x \in m}

EntryAt(m, q) == CHOOSE x \in m : x.path = q

CountsIn(m) ==
    [q \in Paths |-> [t \in Tokens |->
       LET e == {c \in (IF q \in NodesIn(m) \ {<<>>} THEN EntryAt(m, q).counts ELSE {}) :
                   c.token = t}
       IN  IF e = {} THEN 0 ELSE (CHOOSE c \in e : TRUE).count]]

TotalsIn(m) == [q \in Paths |-> IF q \in NodesIn(m) \ {<<>>} THEN EntryAt(m, q).total ELSE 0]

\* Faults: one level is not counted; the depths are left at zero.
DepthsShort(m) ==
    [q \in Paths |-> IF q \notin NodesIn(m) THEN 0
                     ELSE Max({Len(r) - Len(q) - 1 : r \in Below(NodesIn(m), q)})]

DepthsLost(m) == Zeros

\* A parent's depth is computed from its children's while they are read.
DepthsIn(m) ==
    [q \in Paths |-> IF q \notin NodesIn(m) THEN 0
                     ELSE Max({Len(r) - Len(q) : r \in Below(NodesIn(m), q)})]

Load(m) ==
    /\ nodes' = NodesIn(m)
    /\ counts' = CountsIn(m)
    /\ total' = TotalsIn(m)
    /\ depth' = DepthsIn(m)

Reload == Load(Message) /\ UNCHANGED <<trainer, parsed>>

\* A model of the C++ program takes the place of the trees.
LoadCpp(s, b) ==
    LET patterns == Trained(s, b) IN
    /\ Trainable(s, b)
    /\ Cardinality(patterns) <= MaxParsed
    /\ parsed' = Cardinality(patterns)
    /\ Load(Model(patterns))
    /\ trainer' = "cpp"

-----------------------------------------------------------------------------
(* Specification *)

Texts == UNION {[1 .. n -> Tokens] : n \in 2 .. MaxText}

Next ==
    \/ \E p \in Contexts, t \in Tokens : Parse(p, t)
    \/ \E s \in Texts, b \in 1 .. B : ParseAll(s, b) \/ ParseCorpus(s, b) \/ LoadCpp(s, b)
    \/ Reload

Spec == Init /\ [][Next]_vars

-----------------------------------------------------------------------------
(* Queries *)

Deepest(p) ==
    LET found == {q \in Suffixes(p) : Suffixes(q) \subseteq nodes}
    IN  CHOOSE q \in found : \A r \in found : Len(r) <= Len(q)

NeedsPrefix == "Sampling requires a (nontrivial) prefix"
UnknownToken == "Unknown token in prefix"

\* An error is told from a token.
ASSUME GoErrorsAssumption == {NeedsPrefix, UnknownToken, Malformed} \cap Tokens = {}

\* r is drawn below the total; with a total of 0 the first token met is returned.
GoDraws(q) ==
    LET sum == SumOver(Tokens, counts[q])
    IN  {t \in Tokens : counts[q][t] > 0}
          \cup (IF sum = 0 \/ total[q] > sum THEN {Malformed} ELSE {})

Sample(p) ==
    IF p = <<>> THEN {NeedsPrefix}
    ELSE IF Deepest(p) = <<>> THEN {UnknownToken} ELSE GoDraws(Deepest(p))

Panic == "index out of range"

\* What Generate may return: the text so far, and the error that ended it, if any.  The
\* prompt counts towards the size, and must fit in it like the first block.
Generate(size, b, prompt) ==
    LET first == Len(prompt)
        last == IF first < b THEN Max({size, b}) ELSE size
        next(g) ==
          IF g.error # "" THEN {g}
          ELSE {IF t \notin Tokens THEN [g EXCEPT !.error = t]
                ELSE IF Len(g.text) = size THEN [g EXCEPT !.error = Panic]
                ELSE [g EXCEPT !.text = Append(@, t)] :
                  t \in Sample(Window(g.text, Len(g.text), b))}
        upto[i \in first .. last] ==
          IF i = first THEN {[text |-> prompt, error |-> ""]}
          ELSE UNION {next(g) : g \in upto[i - 1]}
    IN  IF first > size THEN {[text |-> prompt, error |-> Panic]} ELSE upto[last]

-----------------------------------------------------------------------------
(* Properties *)

(***************************************************************************)
(* The depth of the set, which the server takes for its block size, is the *)
(* length of the longest context parsed, although the depths of the stored *)
(* trees are stale copies until they have been dumped and read.            *)
(***************************************************************************)
DepthIsBlockSize == depth[<<>>] = Max({Len(q) : q \in nodes})

\* The text g goes on behind the prompt p with tokens that did follow, or with `other`.
Continues(g, p, b, other) ==
    /\ IsPrefix(p, g)
    /\ \A i \in Len(p) + 1 .. Len(g) :
         g[i] \in other \/ counts[Deepest(Window(g, i - 1, b))][g[i]] > 0

(***************************************************************************)
(* Generate continues a prompt that ends in a known token with tokens that *)
(* did follow the longest known suffix of what it has, however stale the   *)
(* totals are.  It fails only when it drew a token no context ends with,   *)
(* and panics only when the prompt or its first block does not fit.        *)
(***************************************************************************)
KnownTokenAnswers ==
    \A p \in Contexts : <<Last(p)>> \in nodes =>
      \A size \in 0 .. B + 1, b \in 1 .. B : \A g \in Generate(size, b, p) :
        /\ Continues(g.text, p, b, {})
        /\ \/ g.error = "" /\ Len(g.text) = size
           \/ g.error = Panic /\ (Len(p) > size \/ (Len(p) < b /\ size < b))
           \/ g.error = UnknownToken /\ Len(g.text) > Len(p) /\ <<Last(g.text)>> \notin nodes

(***************************************************************************)
(* A model of the C++ program is sampled by frequency: its totals are the  *)
(* sums of its counts ("totals mismatch" is never logged).  All the server *)
(* can generate from it the C++ program can too, up to its last token,     *)
(* which it leaves uninitialized; and what it generates besides has token  *)
(* 0 in places where it did not follow, or ends in an exception behind it. *)
(***************************************************************************)
CppModelServed ==
    trainer = "cpp" =>
      /\ \A q \in nodes \ {<<>>} : total[q] = SumOver(Tokens, counts[q])
      /\ \A p \in Contexts, n \in 1 .. B, b \in 1 .. B : <<Last(p)>> \in nodes =>
           LET here == CppGenerate(nodes, counts, n, b, p)
               there == Generate(Len(p) + n, b, p)
           IN  /\ \A g \in there : g.error = "" /\ b < Len(p) + n =>
                    \E h \in here : h.error = "" /\ Front(h.text) = Front(g.text)
               /\ \A h \in here :
                    \/ /\ h.error = "" /\ Len(h.text) = Len(p) + n /\ Last(h.text) = Unset
                       /\ Continues(Front(h.text), p, b, {Token0})
                    \/ h.error = TooLarge /\ b >= Len(p) + n
                    \/ h.error = OutOfRange /\ <<Last(h.text)>> \notin nodes

(***************************************************************************)
(* The server reads what the parser held: trees, counts and block size.    *)
(***************************************************************************)
DumpKeepsModel ==
    [][Reload => nodes' = nodes /\ counts' = counts /\ depth'[<<>>] = depth[<<>>]]_vars

(***************************************************************************)
(* The counts of what was observed after exactly the context p.            *)
(***************************************************************************)
Own ==
    [p \in Contexts |-> [t \in Tokens |->
       counts[p][t] - SumOver(Children(nodes, p),
                              [r \in Children(nodes, p) |-> counts[r][t]])]]

Lesson(p, t) == [q \in Contexts |-> [u \in Tokens |-> IF q = p /\ u = t THEN 1 ELSE 0]]

\* The tokens of s from the first-th to the last-th, each after the b before it.
TextLesson(s, b, first, last) ==
    [p \in Contexts |-> [t \in Tokens |->
       Cardinality({i \in first .. last : s[i] = t /\ p = SubSeq(s, Max({1, i - b}), i - 1)})]]

Lessons ==
    {Lesson(p, t) : p \in Contexts, t \in Tokens}
      \cup {TextLesson(s, b, 2, Len(s)) : s \in Texts, b \in 1 .. B}

Corpora == {TextLesson(s, b, b + 1, Len(s) - 1) : s \in Texts, b \in 1 .. B}

EF == INSTANCE EmpiricalFrequency WITH Objects <- {"trees"}, occ <- [o \in {"trees"} |-> Own]

(***************************************************************************)
(* The trees count each pattern of a text once after its context, like the *)
(* abstract frequencies; to dump and to read them changes nothing.         *)
(***************************************************************************)
ImplementsEmpiricalFrequency == EF!Spec

(***************************************************************************)
(* The comment in Sampler.Sample: "supp R == [0,total], where total ==     *)
(* sum(counts)".                                                           *)
(***************************************************************************)
TotalIsSum == \A q \in nodes \ {<<>>} : total[q] = SumOver(Tokens, counts[q])
=============================================================================
