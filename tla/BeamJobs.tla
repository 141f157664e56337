------------------------------ MODULE BeamJobs ------------------------------
(***************************************************************************)
(* The Beam jobs (beam/) and the transforms of the package (efnlp/beam.py), *)
(* which are put together as in test/unit/test_beam_parsing.py: the three   *)
(* scripts that use them stop at CharLanguage, which efnlp has no more.  A  *)
(* job reads rows, hands them in bundles to a DoFn, may combine what that   *)
(* emits by key, and at its end replaces an output table.  The runner is    *)
(* external: it chooses the bundles and the order and grouping of           *)
(* accumulators, tries a bundle again that raised or whose worker was lost, *)
(* and fails the job after MaxAttempts of them.  Everything counted is kept *)
(* in bags.                                                                 *)
(***************************************************************************)
EXTENDS PythonParsing

CONSTANTS Corpora,      \* the texts that may be split
          Splits,       \* the numbers of segments they may be split into
          Articles,     \* what the table of articles may hold
          Foreign,      \* a character that cannot be tokenized
          EndOfText,    \* the token the tokenizer puts at the end
          NewLine,      \* the character LineCharCounter adds
          Excluded,     \* those it leaves out: NUL, as it is called
          MaxAttempts,
          MaxJobs       \* bound: the jobs run one after the other

ASSUME BeamAssumption ==
    /\ Tokens \cap {Foreign, EndOfText, NewLine} = {} /\ Foreign # NewLine
    /\ \A c \in Corpora : c \in Seq(Tokens)
    /\ \A a \in Articles : /\ IsABag(a) /\ IsFiniteSet(DOMAIN a)
                           /\ DOMAIN a \subseteq {"text"} \X Seq(Tokens \cup {Foreign})
    /\ \A n \in Splits : n \in Nat \ {0}
    /\ {MaxAttempts, MaxJobs} \subseteq Nat \ {0}

VARIABLES job,       \* the job that runs, or ran last
          phase,     \* "idle", "running", "done" or "failed"
          source,    \* the rows it reads, told apart by a number
          todo,      \* those no bundle was committed for
          accs,      \* accs[k]: the accumulators of the key k
          staged,    \* the output rows, by key, or by the row they come from
          lost,      \* the bundles lost with their worker
          raised,    \* the bundles that ended with an exception
          tables,    \* the tables, as bags of rows
          submitted  \* the jobs submitted so far

vars == <<job, phase, source, todo, accs, staged, lost, raised, tables, submitted>>

\* An optional value is a set of at most one.
None == {}
The(option) == CHOOSE x \in option : TRUE

\* A bag as a set, its copies numbered; how many these are, and how many of an element.
Numbered(bag) == UNION {{<<x, i>> : i \in 1 .. bag[x]} : x \in DOMAIN bag}
Size(bag) == SumOver(DOMAIN bag, bag)
Copies(x, bag) == IF x \in DOMAIN bag THEN bag[x] ELSE 0

\* The bag of what the elements of S are told apart by.
Tally(S, key) == [k \in {key[x] : x \in S} |-> Cardinality({x \in S : key[x] = k})]

-----------------------------------------------------------------------------
(* The transforms *)

\* What a DoFn makes of a row, which is a field and its contents: it raises, or it
\* passes rows on, or values for some keys.
Raises == [raises |-> TRUE, rows |-> {}, values |-> << >>]
Passes(rows) == [raises |-> FALSE, rows |-> rows, values |-> << >>]
Emits(values) == [raises |-> FALSE, rows |-> {}, values |-> values]

\* Without `strict` a text that cannot be tokenized is logged and left out, and a row
\* without a text as well.
Tokenizer(row) ==
    IF row[1] # "text" \/ Foreign \in ToSet(row[2]) THEN Passes({})
    ELSE Passes({<<"encoded", Append(row[2], EndOfText)>>})

SparseTree(patterns) == Tally(patterns, [x \in patterns |-> <<x.prefix, x.next>>])

\* The trees of a text, sparse, in one piece.  A text too short for the block is
\* refused by the parser, logged and left out; a row without tokens raises.
EFNLPParserSetOnly(row) ==
    LET text == row[2]
        read == (1 .. B - 1) \cup (B .. Len(text) - 2)
    IN  IF row[1] # "encoded" THEN Raises
        ELSE IF Len(text) <= B THEN Passes({})
        ELSE Passes({<<"tree", SparseTree({Pattern(text, i, B) : i \in read})>>})

\* The dense trees of a set of patterns, by their tokens.
DenseTrees(patterns) ==
    LET nodes == UNION {{<<q, x>> : q \in Suffixes(x.prefix) \ {<<>>}} : x \in patterns}
        key == [y \in nodes |-> <<y[1], y[2].next>>]
    IN  [k \in {Last(y[1]) : y \in nodes} |-> Tally({y \in nodes : Last(y[1]) = k}, key)]

\* The trees of a text are emitted one by one.  Another field, a text the language
\* refuses and one shorter than the block all raise.
SuffixTreeParser(row) ==
    LET text == row[2] IN
    IF row[1] # "segment" \/ Foreign \in ToSet(text) \/ (Len(text) < B /\ B > 1) THEN Raises
    ELSE Emits(DenseTrees(Leading(text, B) \cup Blocks(text, B)))

\* The characters of a text, each with its count.
Characters(text) ==
    [c \in {text[i] : i \in DOMAIN text} |->
       [d \in {c} |-> Cardinality({i \in DOMAIN text : text[i] = c})]]

split_text(row) == Emits(IF row[1] = "text" THEN Characters(row[2]) ELSE << >>)

\* A fault: nothing is left out.
LineCharCounterOfAll(row) ==
    LET counts == Characters(row[2])
    IN  Emits([c \in DOMAIN counts \cup {NewLine} |->
                 IF c \in DOMAIN counts THEN counts[c] ELSE SetToBag({NewLine})])

\* Every line gives a newline: the reader stripped it.
LineCharCounter(row) ==
    LET counts == Characters(row[2])
        kept == DOMAIN counts \ Excluded
    IN  Emits([c \in kept \cup {NewLine} |->
                 IF c \in kept THEN counts[c] ELSE SetToBag({NewLine})])

-----------------------------------------------------------------------------
(* The accumulators of a key.  Trees are merged as protocol buffers. *)

create_accumulator == None

\* A fault: the first input only makes the accumulator.
add_second_input(acc, inp) == IF acc = None THEN None ELSE {The(acc) (+) inp}

add_input(acc, inp) == IF acc = None THEN {inp} ELSE {The(acc) (+) inp}

\* A fault: an empty accumulator starts the merge again.
merge_accumulators_anew(accumulators) ==
    LET merged[n \in 0 .. Len(accumulators)] ==
          IF n = 0 \/ accumulators[n] = None THEN None
          ELSE IF merged[n - 1] = None THEN accumulators[n]
          ELSE {The(merged[n - 1]) (+) The(accumulators[n])}
    IN  merged[Len(accumulators)]

\* A fault: an empty accumulator ends the merge, without a tree.
merge_accumulators_of_all(accumulators) ==
    IF \E n \in DOMAIN accumulators : accumulators[n] = None THEN None
    ELSE merge_accumulators_anew(accumulators)

merge_accumulators(accumulators) ==
    LET merged[n \in 0 .. Len(accumulators)] ==
          IF n = 0 THEN None
          ELSE IF accumulators[n] = None THEN merged[n - 1]
          ELSE IF merged[n - 1] = None THEN accumulators[n]
          ELSE {The(merged[n - 1]) (+) The(accumulators[n])}
    IN  merged[Len(accumulators)]

\* External: Count and sum start from nothing and add up.
Plus(acc, value) ==
    IF acc = None THEN value ELSE IF value = None THEN acc ELSE {The(acc) (+) The(value)}

Sum(accumulators) ==
    LET sum[n \in 0 .. Len(accumulators)] ==
          IF n = 0 THEN None ELSE Plus(sum[n - 1], accumulators[n])
    IN  sum[Len(accumulators)]

-----------------------------------------------------------------------------
(* The jobs, as their `run`, or the test, puts them together *)

Job(does, combines, writes) == [does |-> does, combines |-> combines, writes |-> writes]

ParseSegments == Job("SuffixTreeParser", "trees", "segment trees")
TokenizeEnwiki == Job("Tokenizer", "nothing", "tokenized")
ParseTokenized == Job("EFNLPParserSetOnly", "nothing", "trees")
CharcountEnwiki == Job("split_text", "counts", "enwiki counts")
CharcountLines == Job("LineCharCounter", "counts", "line counts")

Jobs == {ParseSegments, TokenizeEnwiki, ParseTokenized, CharcountEnwiki, CharcountLines}
TableNames == {"articles"} \cup {j.writes : j \in Jobs}

\* Bound: the tables a job may be given to read.  The lines of files are always texts.
Inputs(j) == IF j = CharcountLines THEN {"articles"} ELSE {"articles", "tokenized"}

Process(j, row) ==
    CASE j.does = "Tokenizer" -> Tokenizer(row)
      [] j.does = "EFNLPParserSetOnly" -> EFNLPParserSetOnly(row)
      [] j.does = "SuffixTreeParser" -> SuffixTreeParser(row)
      [] j.does = "split_text" -> split_text(row)
      [] j.does = "LineCharCounter" -> LineCharCounter(row)

Add(j, acc, value) ==
    IF j.combines = "trees" THEN add_input(acc, value) ELSE Plus(acc, {value})
MergeAll(j, accumulators) ==
    IF j.combines = "trees" THEN merge_accumulators(accumulators) ELSE Sum(accumulators)

\* The row of a count; that of a merged tree is its token and the tree.
format_counts(k, value) == <<k, value[k]>>
Row(j, k, value) == IF j.combines = "trees" THEN <<k, value>> ELSE format_counts(k, value)

-----------------------------------------------------------------------------
(* The runner *)

NoRows == << >>
Keys == DOMAIN accs

Init ==
    /\ job = ParseSegments /\ phase = "idle"
    /\ source = {} /\ todo = {} /\ accs = << >>
    /\ staged = NoRows
    /\ lost = 0 /\ raised = 0
    /\ \E a \in Articles : tables = [t \in TableNames |-> IF t = "articles" THEN a ELSE NoRows]
    /\ submitted = 0

Start(j, rows) ==
    /\ phase # "running"
    /\ submitted < MaxJobs
    /\ submitted' = submitted + 1
    /\ job' = j /\ phase' = "running"
    /\ source' = Numbered(rows) /\ todo' = source'
    /\ accs' = << >> /\ staged' = NoRows
    /\ lost' = 0 /\ raised' = 0
    /\ UNCHANGED tables

RowsOf(texts, field) ==
    Tally(DOMAIN texts, [i \in DOMAIN texts |-> <<field, texts[i]>>])

\* The text is split before the pipeline starts.
SubmitSegments(corpus, n) ==
    /\ Splittable(corpus, n, B)
    /\ Start(ParseSegments, RowsOf(split_input(corpus, n, B), "segment"))

Submit(j, input) == j # ParseSegments /\ Start(j, tables[input])

Fails == lost + raised >= MaxAttempts
Active == phase = "running" /\ ~Fails

Emitted(S, k) == {e \in S : k \in DOMAIN Process(job, e[1]).values}

\* The accumulator a worker makes of the values of a bundle for one key.
Lifted(S, k) ==
    LET lifted[T \in SUBSET Emitted(S, k)] ==
          IF T = {} THEN create_accumulator
          ELSE LET e == CHOOSE x \in T : TRUE
               IN  Add(job, lifted[T \ {e}], Process(job, e[1]).values[k])
    IN  lifted[Emitted(S, k)]

\* What a committed bundle leaves: rows, or an accumulator for each of its keys.
Bundle(S) ==
    LET keys == UNION {DOMAIN Process(job, e[1]).values : e \in S}
        passed == {e \in S : Process(job, e[1]).rows # {}}
        row == [e \in passed |-> The(Process(job, e[1]).rows)]
        new(k) == IF k \in keys THEN SetToBag({Lifted(S, k)}) ELSE EmptyBag
        old(k) == IF k \in Keys THEN accs[k] ELSE EmptyBag
    IN  /\ Active
        /\ \A e \in S : ~Process(job, e[1]).raises
        /\ todo' = todo \ S
        /\ staged' = staged (+) Tally(passed, row)
        /\ accs' = [k \in Keys \cup keys |-> old(k) (+) new(k)]
        /\ UNCHANGED <<job, phase, source, lost, raised, tables, submitted>>

\* All values have arrived: accumulators of a key are merged in any order, with empty
\* ones among them.
Merge(k, list) ==
    /\ Active /\ todo = {}
    /\ LET merged == SetToBag({MergeAll(job, list)})
           taken == Tally({i \in DOMAIN list : list[i] # None}, list)
       IN  /\ taken \sqsubseteq accs[k]
           /\ accs' = [accs EXCEPT ![k] = (@ (-) taken) (+) merged]
    /\ UNCHANGED <<job, phase, source, todo, staged, lost, raised, tables, submitted>>

Combined(k) == todo = {} /\ Size(accs[k]) = 1
Accumulated(k) == The(DOMAIN accs[k])
Written(k) == \E row \in DOMAIN staged : row[1] = k

\* extract_output gives the row of a key.
Stage(k) ==
    /\ Active
    /\ Combined(k) /\ Accumulated(k) # None
    /\ ~Written(k)
    /\ staged' = staged (+) SetToBag({Row(job, k, The(Accumulated(k)))})
    /\ UNCHANGED <<job, phase, source, todo, accs, lost, raised, tables, submitted>>

WorkerLost ==
    /\ Active
    /\ lost' = lost + 1
    /\ UNCHANGED <<job, phase, source, todo, accs, staged, raised, tables, submitted>>

\* An exception of a DoFn, or of extract_output when it is given no accumulator.
Exceptions ==
    {e \in todo : Process(job, e[1]).raises}
      \cup {<<k>> : k \in {x \in Keys : Combined(x) /\ Accumulated(x) = None}}

Raise ==
    /\ Active
    /\ Exceptions # {}
    /\ raised' = raised + 1
    /\ UNCHANGED <<job, phase, source, todo, accs, staged, lost, tables, submitted>>

Fail ==
    /\ phase = "running" /\ Fails
    /\ phase' = "failed"
    /\ UNCHANGED <<job, source, todo, accs, staged, lost, raised, tables, submitted>>

\* The output takes the place of the table.
Finish ==
    /\ Active /\ todo = {}
    /\ \A k \in Keys : Written(k)
    /\ tables' = [tables EXCEPT ![job.writes] = staged]
    /\ phase' = "done"
    /\ UNCHANGED <<job, source, todo, accs, staged, lost, raised, submitted>>

Lists(k) ==
    LET both == {p \in Numbered(accs[k]) \X Numbered(accs[k]) : p[1] # p[2]}
    IN  UNION {{<<p[1][1], p[2][1]>>, <<None, p[1][1], p[2][1]>>, <<p[1][1], None, p[2][1]>>} :
                 p \in both}

Progress ==
    \/ \E S \in (SUBSET todo) \ {{}} : Bundle(S)
    \/ \E k \in Keys : Stage(k) \/ \E list \in Lists(k) : Merge(k, list)
    \/ Raise
    \/ Fail
    \/ Finish

Next ==
    \/ \E corpus \in Corpora, n \in Splits : SubmitSegments(corpus, n)
    \/ \E j \in Jobs : \E input \in Inputs(j) : Submit(j, input)
    \/ Progress
    \/ WorkerLost

\* The service keeps working on a job it accepted; workers need not be lost.
Spec == Init /\ [][Next]_vars /\ WF_vars(Progress)

-----------------------------------------------------------------------------
(* Properties *)

TypeOK ==
    /\ job \in Jobs /\ phase \in {"idle", "running", "done", "failed"}
    /\ todo \subseteq source
    /\ \A k \in Keys : \A acc \in DOMAIN accs[k] : acc # None /\ IsABag(The(acc))
    /\ phase # "failed" => lost + raised <= MaxAttempts
    /\ DOMAIN tables = TableNames /\ \A t \in TableNames : IsABag(tables[t])
    /\ submitted \in 0 .. MaxJobs

\* How often c is in the texts of the source.
Texts == {e[1][2] : e \in {f \in source : f[1][1] = "text"}}
Occurrences(c) ==
    Cardinality(UNION {{<<e, i>> : i \in {j \in DOMAIN e[1][2] : e[1][2][j] = c}} :
                         e \in {f \in source : f[1][1] = "text"}})

(***************************************************************************)
(* However its rows were bundled, tried again and combined, a job that is  *)
(* done has counted each of them once: the counts of characters are those  *)
(* of the texts, by lines without the excluded ones and with a newline for *)
(* each, and each text that can be tokenized, or row that is longer than   *)
(* the block, has one row.  Given another table than it should be, a job   *)
(* that is done leaves an empty one.                                       *)
(***************************************************************************)
CountsExact ==
    phase = "done" =>
      LET table == tables[job.writes]
          all == UNION {ToSet(text) : text \in Texts}
      IN  /\ job = CharcountEnwiki =>
               table = SetToBag({<<c, Occurrences(c)>> : c \in all})
          /\ job = CharcountLines =>
               table = SetToBag({<<c, Occurrences(c)>> : c \in all \ Excluded}
                 \cup (IF source = {} THEN {} ELSE {<<NewLine, Cardinality(source)>>}))
          /\ job = TokenizeEnwiki =>
               Size(table) = Cardinality({e \in source : e[1][1] = "text"
                                                           /\ Foreign \notin ToSet(e[1][2])})
          /\ job = ParseTokenized =>
               Size(table) = Cardinality({e \in source : Len(e[1][2]) > B})

\* The nodes that the segments of a corpus are counted at, the tree of those that end
\* in k, and the rows of all trees.
SegmentNodes(corpus, n) ==
    LET segments == split_input(corpus, n, B)
        parsed == UNION {{<<i, x>> : x \in Leading(segments[i], B) \cup Blocks(segments[i], B)} :
                           i \in 1 .. n}
    IN  UNION {{<<q, x>> : q \in Suffixes(x[2].prefix) \ {<<>>}} : x \in parsed}

WholeTree(corpus, n, k) ==
    LET nodes == SegmentNodes(corpus, n)
    IN  Tally({y \in nodes : Last(y[1]) = k}, [y \in nodes |-> <<y[1], y[2][2].next>>])

WholeTrees(corpus, n) ==
    SetToBag({<<k, WholeTree(corpus, n, k)>> :
                k \in {Last(y[1]) : y \in SegmentNodes(corpus, n)}})

Divisions == {d \in Corpora \X Splits : Splittable(d[1], d[2], B)}

(***************************************************************************)
(* At every time, also when a job failed half way through, the table holds *)
(* the trees of all segments of one corpus, each merged from the parts of  *)
(* all of them in whatever order and grouping they came, and no tree of an *)
(* earlier corpus; nor does a job that runs stage any other.               *)
(***************************************************************************)
TreesWhole ==
    /\ tables[ParseSegments.writes] \in
         {NoRows} \cup {WholeTrees(d[1], d[2]) : d \in Divisions}
    /\ job = ParseSegments /\ phase = "running" =>
         \E d \in Divisions : staged \sqsubseteq WholeTrees(d[1], d[2])

(***************************************************************************)
(* The trees a corpus ends up in after it was split and its segments were  *)
(* parsed: every successor with a whole block before it is counted once,   *)
(* but the last token of each segment is not counted at all (a comment in  *)
(* test/unit/test_split_parsing.py:41 says that it is), and shorter        *)
(* contexts are counted no less often than the blocks they end.  The       *)
(* segments put together are the corpus.                                   *)
(***************************************************************************)
SegmentsExact ==
    phase = "done" /\ job = ParseSegments =>
      \A d \in Divisions :
        LET corpus == d[1]
            n == d[2]
            seams == {SegmentEnd(corpus, n, i) : i \in 1 .. n}
            read == {i \in B + 1 .. Len(corpus) : i \notin seams}
            blocks(p, t) == {i \in read : corpus[i] = t
                               /\ p = SubSeq(corpus, i - Len(p), i - 1)}
            count(p, t) == SumOver({row \in DOMAIN tables[job.writes] : row[1] = Last(p)},
                                   [row \in DOMAIN tables[job.writes] |->
                                      Copies(<<p, t>>, row[2])])
        IN  source = Numbered(RowsOf(split_input(corpus, n, B), "segment")) =>
              /\ \A p \in Contexts, t \in Tokens :
                   /\ Len(p) = B => count(p, t) = Cardinality(blocks(p, t))
                   /\ count(p, t) >= Cardinality(blocks(p, t))
              /\ merge_split_input(split_input(corpus, n, B), B) = corpus

(***************************************************************************)
(* A job whose rows all parse is done, with all its keys, unless as many   *)
(* workers are lost as the service tolerates; one with a row that raises   *)
(* fails; any job ends.                                                    *)
(***************************************************************************)
JobsEnd ==
    /\ phase = "running" ~> phase # "running"
    /\ (phase = "running" /\ raised = 0 /\ Exceptions = {})
         ~> (phase = "done" \/ lost = MaxAttempts)
    /\ (phase = "running" /\ \E e \in todo : Process(job, e[1]).raises) ~> phase = "failed"
=============================================================================
