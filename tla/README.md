# efnlp: a verification project

efnlp builds language models out of empirical frequencies: how often each token
follows each context of at most a block of tokens.  The contexts are kept in
suffix trees with a sampler of counts at every node.  The repository has the
trees in Rust (with a Python binding), Go, Python and C++, an encoder from text
to tokens, an Apache Beam pipeline that parses in parts and merges, and a Go
gRPC service that generates text from a trained model, with its client.

This directory holds TLA+ models of that code, TLC runs that check them on small
instances, and proofs for every instance.  `PROJECT.json` lists the runs, which
definition models which lines, and what could go wrong where.

## The system

| part | state it keeps | operations | spoken to by |
|---|---|---|---|
| Rust sampler (`src/sampler.rs`) | counts per token, their total | add, add_count, remove_count, merge, sample, probability, proto | every tree node |
| Rust trees (`src/suffixtree.rs`, `src/suffixtreeset.rs`) | nodes, a sampler and a depth at each, a sampler and a depth of the set | parse, parse_all, densify, sparsify, merge, from_proto/proto, matches, match_length, sample, probability, generate | the binding |
| Python binding (`src/lib.rs`) | one tree set per EFNLP object | the same, each under the interpreter's lock | Python programs, the pipeline |
| Python trees (`efnlp/suffixtree.py`, `efnlp/sampler.py`) | as the Rust trees, always dense, plus trees made in advance | parse, parse_all, merge, accumulate, proto, search, match, sample, generate, listings | the command line, jobs, tests |
| split parsing (`efnlp/util.py`) | none | split_input, merge_split_input | tests (and `splitshakes`, which does not start) |
| language (`efnlp/language.py`, `efnlp/encoder.py`, Go `Language`) | encoders for strings read from the end, depths, a decoder | define, from_dict, encode, decode, proto and files | parsers, jobs, the service |
| pipeline (`efnlp/beam.py`, `beam/`) | rows, accumulators of serialized trees, tables | the DoFns, add_input, merge_accumulators, extract_output, seven `run`s of which four start | Beam's runner |
| compressed files (`beam/shims/`) | a compressor or a decompressor, a read buffer, positions | write, flush, close, read, readline, seek, tell | Beam's sources and sinks |
| Go trees (`go/datastructures.go`) | trees by value in maps, counts, totals, depths | Parse, ParseAll, EFNLPParser.Parse, Dump, FromProto, Sample, Generate | parser, service |
| Go service and server (`go/service.go`, `go/server.go`) | the loaded model, a goroutine per call, a goroutine for signals | GenerateStream, GenerateBatch, queries, exit on a signal | clients, by gRPC |
| Go client (`go/client.go`, `go/main.go`) | a goroutine and a channel per stream | open, receive, read, close | its user |
| C++ (`cpp/efnlp.hpp`, `cpp/main.cpp`) | trees, an encoder | parse, dump, sample, generate | its main program; the server reads its dumps |

Trees trained in Rust, Go, Python or C++ are serialized in one protobuf format
and loaded by another language.  The behaviours that are hard: sequences of
calls on trees that are legal one by one (merge drains its argument, sparsify on
something never densified), windows and their bounds at the ends of texts, state
copied by value in Go, counts kept in three places at once in Python, rows that a runner
bundles, groups and tries again, streams of packed bytes that follow one another in
one file, the interleavings of the goroutines of a stream with failures and a server
that exits in their middle.

What makes the parts correct:

* sampler: the total is the sum of the counts, since `sample` draws below it;
* trees: a node is reached from its parent; the counts are exactly the patterns
  observed; sparse and dense are two forms of one content; the order of parses
  and merges cannot be seen; depth is height; a dense tree always answers;
* pipeline, split parsing: every row counts once; parts merged are what the whole says,
  up to what happens at a seam; what is published is never a part;
* compressed files: they read like the plain file of the same bytes;
* language: what is encoded decodes to the text; a refusal means no encoding;
* service: a stream is one text, complete or visibly failed; no goroutine is
  left waiting; a signal stops the server.

## The modules

| module | models |
|---|---|
| `Samplers` | the sampler: counts as a total function, the total beside it; `Draws` is the set of possible outcomes of `sample` |
| `SuffixPaths` | nodes named by the context they stand for; the parent of a node drops its first token, since trees are walked from the end of a context |
| `SuffixTreeSet` | a pool of EFNLP objects under all API calls; the recursions are conditions on paths |
| `SuffixTreeSetProtocol` | the same under the intended protocol; what objects then promise |
| `EmpiricalFrequency` | the abstract specification: observations per context, learned, absorbed, copied, forgotten |
| `GoSuffixTreeSet` | the Go trees, with their totals and depths that stay behind in copies; composed with `CppSuffixTreeSet`, whose models the server reads |
| `CppSuffixTreeSet` | what the C++ program trains and writes, its draw and its generation loop |
| `PythonParsing` | how the Python package takes a text apart: patterns, and segments |
| `PythonSuffixTreeSet` | a pool of Python tree sets under all calls, with all their queries |
| `Language` | a dictionary, its encoders, both ways of encoding, decoding, files |
| `BeamJobs` | the jobs with their transforms, under a runner; composed with `PythonParsing` |
| `PlainFile` | the abstract specification of a file: bytes and a position |
| `CompressedFile` | the wrapper that packs and unpacks, shown to implement `PlainFile` |
| `GenerationStream` | server process, stream handler, client goroutine, consumer, transport |
| `SuffixTreeSetProofs`, `SuffixPathsProofs`, `GoSuffixTreeSetProofs`, `PythonSuffixTreeSetProofs`, `GenerationStreamProofs`, `LanguageProofs`, `BeamJobsProofs`, `CompressedFileProofs` | theorems |
| `MC...` | instances for TLC |

### From code to model

In `SuffixTreeSet` a tree's nodes are a set of paths, `<<>>` being the set of trees
with its own sampler and depth.  `tree.parse(p, t)` creates the nodes at all
suffixes of `p`, counts at `p` (dense: at all suffixes) and raises the depths on
the way back: `Observe` says this for all patterns of one call at once, which is
the same, as no pattern reads what another one writes.  `densify` is post-order, so a
node ends with its own count and all those below: `DensifiedCounts`.  `sparsify`
takes a child's counts from its parent's *before* it goes into the child, so all
subtractions use the counts from before the call; `remove_count` ignores a count
larger than what is left, and which ones it meets too late depends on the order
of a hash map: `Skips` is the set of possible outcomes, maximal in that nothing
skipped would still have fitted.  A map has one order for all tokens, the model
lets each token have its own: it has more behaviours than the code, never fewer.
`merge` drains the other object except for its sampler and depth.  A round trip
through protobuf goes through an explicit message with one entry per counted token.
`f64` totals are exact for counts below 2^53 and are natural numbers here.

`form` is not in the program: it remembers what sequence of calls an object went
through, and `ProtocolSpec` is the specification without the steps to "mixed".
`parsed` is not in the program either; it bounds the runs.

`probability` is a count with the total it is divided by, and `generate` the set of all
texts and errors a call may return, since `sample` is the set of its draws.

In `PythonSuffixTreeSet` a pattern is counted at every node of its way, and by the set,
which answers for tokens no tree knows.  Three things go their own way: a merge
adds the larger depth of two trees to the first one's, and leaves the set's sampler
alone; a round trip sets depths to 0 and makes as many trees in advance as the message
holds, before it puts the message's trees in their places.  `history` is not in the
program: it tells which of this an object has been through.
`parse_all` of a text shorter than the block raises after a part of it is counted,
which remains.

`Language` names an encoder by its string, as trees are named by their context; one on the
way to a string but without a token has -1.  `encode` chooses between a flat and a
deep way by the depth kept beside the trees; the deep one is a recursion from the end
of the text.  A dict in which two strings share a token has several decoders: which
one stays depends on the order of the dict.

In `BeamJobs` a job is a record of what it does to a row, combines and writes, read off its
`run`.  Rows are pairs of a field and its contents, told apart
by a number; trees are bags of patterns, merged by adding.  The runner is external:
it commits any set of rows as a bundle, merges accumulators in any order and grouping
with empty ones among them, loses workers, tries again what raised and gives the job
up after `MaxAttempts`; a job that is done replaces its table.  Four of the jobs are those of
`beam/` that run (`tokenize_enwiki`, `parse_tokenized_gpt2` and the two `charcount.py`), on
the tables `Inputs` names, the wrong one among them.  The fifth, `ParseSegments`,
puts `split_input`, `SuffixTreeParser` and `SuffixTreeMerge` together as
`test/unit/test_beam_parsing.py` does, and writes what that test keeps in `merged`; the scripts
written for it, `splitshakes`, `parseshakes` and `parse_enwiki`, do not get as far as their pipeline.

`CompressedFile` packs each byte as one unit and ends a stream with another one.  This is
enough to tell apart what is in the file, in the decompressor, in the buffer and
already read, and where one stream ends and the next begins.  The compressor may hold
back any part of what it was given until it is flushed.  A loop is a function of the number of turns,
in which a turn changes nothing once the code would leave the loop; that `MostTurns` turns reach
this point is proved.

In `GoSuffixTreeSet` what `Parse` writes into its local copy of a new or stored
tree is lost, except for the maps, which are shared, and the depth it returns
to the caller on the way up (`Learned`).  `LoadCpp` is the C++ program parsing a text and writing
`model.proto.bin`, and the server reading it; the C++ trees then are what was read, and
`trainer` tells that nothing was parsed into them since.  In C++ the draw may be the
total itself, and the walk over the counts then returns 0: `Token0`.

In `GenerationStream` a token is its position in the text that starts with the
prompt.  `Generate` makes `size` tokens from a prompt of `len`, of which the
positions behind `max(len, BlockSize)` are sent; the last block is the next prompt.  A
failed `Sample` or encoding can happen wherever the code calls it; a panic of
an index is recovered by the interceptor and ends the stream with an error.  gRPC
and the network are external: messages in order, `Send` waiting for room while
connected and failing (which is only logged) otherwise, an error at the client
once the connection is broken and everything that arrived was read.  `os.Exit`
breaks all connections, after any part of what they held.

## The runs

`rust_any_order` (`MCSuffixTreeSet`): two objects under every sequence of `new`, `parse`,
`parse_all`, `densify`, `sparsify`, `merge` and serialization, sensible or not.  Nodes keep
their parents, totals stay sums (also where sparsify meets a count that does not
fit), depths stay heights.  109 312 states.

`rust_protocol` (`MCSuffixTreeSetProtocol`): the same calls, used as their names intend.
The content of an object is a bag of observations and every step implements
`EmpiricalFrequency`, so that the order of parses, merges and conversions cannot be
seen; two objects with the same content are equal; densify and sparsify undo each
other; a dense object answers every query: it matches the longest context it has seen,
draws what followed it, gives shares that add up, and continues any prompt.
6 771 states.

`go_trees` (`MCGoSuffixTreeSet`): up to three patterns parsed in any grouping, between
dumps and reads, or a model of the C++ program in their place.  Counts are those observed,
the depth the server takes for its block size is right before and after a dump, and a
prompt that ends in a token known as a context is continued, although every stored
total stays behind.  A C++ model is sampled by its frequencies, and what the server
generates from it the C++ program can generate too, up to its last token.  4 546 states.

`go_totals` (violation of `TotalIsSum`), `stream_batch_size` (of `BatchSizeTokens`) and
`lost_signal` (of `SignalStops`) are the first differences listed below.

`python_trees` (`MCPythonSuffixTreeSet`): two tree sets under every sequence of parses, merges
(with themselves too) and round trips.  They implement `EmpiricalFrequency`; a
context known by its last token is always answered, in proportion; listings, searches and
`match` agree, and `match` raises where it does; depths and the set's sampler drift only as far as the properties say.
62 240 states.

`language` (`MCLanguage`): every small dictionary, however it was defined and reloaded,
encodes every short text greedily from its end, and decodes it again where that is
possible.  6 217 states.

`beam_jobs` (`MCBeamJobs`): any three jobs after one another under every bundling, grouping,
retry and loss of workers.  Every row counts once, the table of trees is at any time that of
one whole corpus, segments add up to their corpus but for the seams, and a job ends.
20 045 states, and liveness over them.

`compressed_file` (`MCCompressedFile`): files written, cut short or put behind one another, and
read by every sequence of read, readline and seek: what a plain file would give, for
formats that raise after the end of a stream and for those that do not.  The plain file may
raise only where a strict format meets a stream that ends where a fetch ends, and after a
flush; in all other states a call that raised would be no step of it.  271 312 states.

`streams` (`MCGenerationStream`, one client, two signals): every shape of request under
failing handlers, a breaking network, a client that quits and a server that exits.
What is read is one text; the receiver's goroutine ends with its stream although its
channel has no buffer; the handler returns.  4 545 states, and liveness over them.

`two_streams` (two clients, one signal): one exit of the server cuts two streams at any
two places.  No truncated stream ends with Done, and none is waited for without end.
103 390 states.

**Bounds.**  The runs of trees have two tokens, blocks of up to two, texts of up to four
tokens (five in Go and C++, the shortest in which two whole blocks end in the same token)
and two objects: enough for shared and unshared subtrees in a merge, for a
root, an inner node and a leaf, for a text with a short context, a full one and a
final token that is not counted, and for children that contend for a parent's
count in `sparsify`.  `MaxParsed` bounds the patterns parsed, `MaxWeight` and `MaxMass`
what densify and merge may double, and `Worth` keeps a Python merge or round trip from
empty objects.  Python objects are made without trees in advance (`MaxSize` 0): with one
the run is out of reach, and a round trip makes such trees as well.  Objects, and in the
Rust runs tokens, are symmetric: no definition tells them apart.

`language` has all strings of up to two characters and two of three, in dictionaries of
three (two by `define`), and encodes all texts of up to four: a string of three leads
over an encoder without a token, and a text may need the longest match twice.  `beam_jobs`
runs any three jobs after one another (`MaxJobs`: texts tokenized and parsed, then something
else; or a corpus, and another one), with a
corpus of one token for two segments and one of two tokens for three, and articles that are
short, foreign or there twice; a job fails at its second failure.  One of the two characters is
excluded from the count by lines (`Excluded`), as NUL is in the code.
`compressed_file` has files of six units in fetches of three: with readline's half of
that, data remains in the decompressor, the buffer and the file between two calls, and
a stream may end inside a fetch and at its border.  Offsets of `seek` reach before the
start, into the file and behind its end.

The stream runs have one client with every shape of request (shorter than a
block, exactly a block, longer, empty, too long for its batch, no batches) and
two clients with two; handlers share nothing but the process they end with.  A window of one or two messages lets
senders wait.  `CHECK_DEADLOCK FALSE` everywhere: bounded objects stop changing,
clients finish, jobs end.

**Fairness.**  `GenerationStream` has weak fairness of every goroutine, which the
schedulers of Go and of the operating system give to what can run, and of the
server's own steps.  Signals, the network, and clients opening or abandoning a
stream have none.  `BeamJobs` has weak fairness of a job's progress as a whole: the service
keeps working on a job it accepted until it is done or failed.  Nobody needs to submit a
job, and no worker needs to be lost.  The other modules have none.

**Faults.**  Next to what they replace, the modules hold faulty variants (each called a
fault in its comment): a subtraction without a check, a depth not raised, a status
dropped.  No action uses them.  Each property is shown to fail when one takes its definition's place.

## Where the code and what is said of it differ

Each of the first three has a run that TLC ends with a counterexample:

* `go_totals`: the total of a stored Go tree stays 0, because `Parse` increments the
  copy it took out of the map.  Sampling then returns the first token of the
  map's order, and `Probability` divides by zero.  `Sampler.Sample` says "total ==
  sum(counts)".  A model that the C++ program trained has its totals (`CppModelServed`).
* `stream_batch_size`: `service.proto` promises `batch_size` tokens in each response
  of a stream; the service sends that many less the length of the prompt or block.
* `lost_signal`: a signal that finds nobody at the unbuffered channel is dropped.

The others are modelled as they are, and the properties say how far they reach:

* C++: a draw equal to the total returns token 0 at the place marked "THIS SHOULD NOT BE
  REACHABLE", and `generate` leaves the last of its tokens uninitialized (`CppModelServed`).
* Generation in Go and C++ stops in the middle of a text when it draws a token that
  follows nothing, the last one of a corpus for example (`KnownTokenAnswers`).  Rust fills
  a short prompt up to a block even beyond the `size` asked for (`DenseAnswers`).
* Python trees: a merge of equal trees doubles their depth, a round trip loses it
  (`DepthsCoverTrees`); merge and round trip leave out the set's sampler, so generation may
  end in an exception (`SetSamplesPart`, `GenerationCompletes`); `patterns()` leaves out trees
  added by parsing; `match` is to "return true if the presented prefix is in the suffix tree", but
  raises for a single token that is known, as nothing is left to look for below it (`ListingsAgree`).
* Split parsing: the last token of each segment is counted nowhere, and short contexts
  at a seam are counted once more (`SegmentsExact`).  The
  comment in `test/unit/test_split_parsing.py` (39-43) has each segment estimate up to its last
  token, as successor of the block before it; `parse_all` stops one before.  `merge_split_input` extends
  its first argument in place, and `test/unit/test_split_parsing.py` calls it before it
  parses the segments: its first segment is the whole corpus by then.
* Language: `encode` may give -1 even when errors are not ignored (`EncodesGreedily`);
  `define` leaves the decoder and the size as they were, so a defined string is
  decoded only after a reload (`RoundTrip`, `ReloadKeeps`).
* Pipeline: `splitshakes.py` imports `CharLanguage` from `efnlp` (33), `parseshakes.py` and
  `parse_enwiki.py` use it (183), but `efnlp/__init__.py` (8) has that import commented out and
  `language.py` has no such class: the first ends with an ImportError, the others with an
  AttributeError, before their pipelines.  A job that logs the errors of its rows replaces its
  table by an empty one when it is given the wrong input (`CountsExact`), while the
  parser of tokens raises on such a row and its job fails (`JobsEnd`).
* Compressed files: the comment in `_fetch_to_internal_buffer` (261-264) says that concatenated
  files are read.  They are where a decompressor has data left behind the end of a stream.
  Where a stream ended just with a fetch there is none, the ended decompressor is given
  the next fetch, and those of bzip2, LZMA and Zstandard raise (`NothingLost`, `Brittle`).  A
  file cut short ends silently; after `flush`, `write` and `close` raise.
  `ImplementsPlainFile` allows a raise in these two cases, by a guard each (`Break`, `Refuse`), and in no other.

## What is proved

All theorems hold for every value of the constants that the named assumptions
allow: any finite vocabulary, any block size, any number of objects or clients, and
any value of the bounds.

The assumptions are few: the vocabulary is finite, the block size and the bounds are natural numbers, the
error a call returns is not a token, and for Python also that tokens are natural numbers (a set
made with n trees has those of the tokens below n) and a block holds a token.  Strings of a
language are sequences of characters, not empty, with natural numbers for tokens.  The jobs read
finitely many articles, of characters that may be foreign but are neither the newline that was
stripped nor the token that ends a text, and corpora of any length.  A stream ends with a unit that
is no byte, and a fetch is of at least two units, since `readline` asks for half of one.

**`SuffixPathsProofs`** holds what the proofs about trees share, in whatever language the trees are
written: the least and greatest of numbers, the laws of sums over finite sets (`SumOver` is
the cardinality of a disjoint union, so each law is a bijection or a disjoint union
of finite sets), suffixes of paths, whole trees, samplers, and *tables*, which say how often
each token was observed after exactly each context.  `Gatherings` is what the nodes of a tree
count of a table: at a node, all that was observed after contexts that end in it.  The lemma
behind most others is `SumOverChildren`: what is below a node, each counted once, is itself and
what is below its children, since in a whole tree every node has exactly one way down to it.
It makes a table readable from its gatherings (`OwnIsMirror`).
A loop is a function chosen by the equation of its steps; that it exists, and that a fact
carried by every step holds at its end, is `LoopUnrolls` and `Stepwise`.

**`SuffixTreeSetProofs`** proves what holds under every sequence of calls to the Rust core.
`SuffixClosed` needs that nodes are paths.  `SamplersVerify` needs `TreesOK`, that an object's nodes
are a whole tree, since `densify` adds token by token what the *children* count after they were
densified themselves; and for `sparsify`, `SumByColumns` equates what is taken from the
total, pair by pair, with what is taken from the counts, token by token, for every choice of
the skipped pairs.  `DepthIsHeight` and `TypeOK` rest on `HeightsOK`, which says without
a greatest element: no context below a node is longer than its depth says, one is as
long, and places outside the tree have depth 0.  A parse compares old depths with those of the
nodes it touches on the way back; the longest context below a touched node is below it
already or below a touched node under it (`ObservedHeights`).  The root is excepted from "one
is as long": a merge leaves the drained object its depth.

It also proves all five properties of `SuffixTreeSetProtocol`.  `TreesOK`, `TotalsOK` and `DepthsOK` are
not enough, since what `Own` reads out of a dense object are differences of counts, and nothing
in those three says that they are observations.  The invariant `ProtocolInv` adds `IntendedOK`: for every object in
a form there is a table of which the samplers are the observations themselves (sparse) or the gatherings
(dense), whose contexts have just its nodes for suffixes, and the set's depth is the length of one of them.  Each call takes one table
to another (`ParsedObject`, `MergedObject`, `DensifiedObject`, ...), and what the call of the abstract
specification does to its bag is the same change, so the refinement is one lemma per call
(`ProtocolStep`).  `ConversionsRestore` is that gathering and taking back are inverse, for which
`NothingSkipped` shows that `sparsify` always finds the counts it subtracts.  `Canonical` follows as
nodes, samplers and depths are all functions of the table.  `DenseAnswers` walks the loop of `generate`
with the invariant that what was made so far continues the prompt.

**`GoSuffixTreeSetProofs`** proves the six invariants and properties of `go_trees`.  `GoInv` says that the counts
at all nodes but the set are the gatherings of a table (`Gathering`); that the totals are sums
exactly where a C++ model was loaded and nothing parsed since; and that depths are `Stale`: a
stored tree's depth, however old, leads from its node as far as some context is long, and no context is
longer than the set's own depth says.  The first half is what makes `DepthIsBlockSize` inductive, since
the next `Parse` adds one to whatever a copy's depth is.  For `CppModelServed` the two generation
loops run side by side (`TurnServed`): what the server draws with a total that is right, the C++ walk over the counts can
return, and the windows of both are the same up to the last turn.

**`PythonSuffixTreeSetProofs`** proves the seven properties of `python_trees`.  `PyInv` says that every object is explained
by a table (`Known`): counts at trees are its gatherings and those of the set at most that; totals are sums; and depths
reach no further than a context while texts are only parsed (`Reaches`) and cover all of them before a round trip (`Covers`).
Both are needed together: a merge adds depths, so it keeps the second and loses the first.  Trees made without a text
are `Idle`, and may have nothing observed below them.  `GenerationCompletes` is proved for every number of tokens:
a text that ends in no known token is answered by the set's own sampler, which counts
everything only while texts are parsed and nothing was merged or reloaded.

**`GenerationStreamProofs`** proves `TypeOK`, `OneText` and `DoneMeansAll`.  For types, the prompt
kept by a handler must lie inside what it generated (`PromptsBehind`), or the position
where its next text begins would not be a natural number.  The two safety
properties speak of what was read, and no action that reads knows what was
sent; so the invariant `StreamsOK` is about the messages *in flight*, those in the transport
behind the one in the receiver's hands.  They continue what was read (`Flows`), an end is
the last of them, and a success among them counts what was read plus what is before it.
While the stream is connected and its handler runs, they are all it has made
(`UpTo`): this is what lets the next batch fit and what makes success at the end true.  Once
the connection is gone only `Flows` remains, which every prefix inherits (`PrefixFlows`),
and a later Send puts nothing into the transport.  There is one lemma for each way
in which the messages in flight change (sent, ended, cut, received, read), and a frame lemma for
the streams of other clients.  TLC checked `StreamsOK` on both instances before the proof.

**`LanguageProofs`** proves the four properties of `language`, for texts of every length.  The invariant
`LanguageInv` says that the encoders are a `Forest`, the endings of the strings with a token, `Tall` and `Deep`
as the longest of these: a definition adds endings to encoders that already have theirs (`DefinedHeights`).
What `encode` does is a loop over the text that looks back by the length of a match.  `Greedy`
is that loop in terms of the dictionary alone; it has one outcome (`GreedyExists`, `GreedyUnique`), and both ways
of encoding are shown to be it.  For the deep way, `LongestAnswers` goes down the
encoders of a path: those that ask the next one are those with an ending further on, so the answer is
the longest ending that has a token.  The flat way looks at single characters only, which is right as a depth of
one means that there is nothing else (`FlatIsGreedy`).  `RoundTrip` is
three inductions over the text with the outcome so far: that it decodes to what was read (`StrictUndone`), that it
was refused just if a character ends no string (`StrictRefused`), that what it left out are these
characters (`LenientKeeps`).

**`BeamJobsProofs`** proves the four invariants of `beam_jobs`, for every corpus, number of
segments, block size, set of articles and set of excluded characters, and for every number of
jobs and attempts.  `IInv`
says what a run has done so far in terms of the rows it has committed.  What all accumulators
of a key weigh together is what these rows gave for the key (`AccsAre`): however they were
bundled, merging two or adding an empty one changes nothing (`WeightMerged`, `ListMerged`).
An output row of a job that combines is about all rows of its key, and such a job has none
before everything is read; what the others staged is what the committed rows passed on
(`OutputOK`).  The tables that one job leaves and another reads are in the invariant too
(`TablesOK`): a row without a text would be counted as one of the articles otherwise.
`SegmentsOK` says that the segments a job parses are those of one corpus, or the
trees would be those of nothing in particular.  `WholeIs` shows that the result of all rows
is the tree of all segments, text by text, and `StagedTrees` that a job which is done staged
the trees of all its tokens and no others, so that replacing the table at the end
(`FinishInv`) is the only step that changes what `TreesWhole` speaks of.

For `SegmentsExact`, the ends of the segments have a closed form (`CutsAre`), so a position of
the corpus that is read is in one segment only (`BlocksBySegment`), with its whole block
(`BlockAt`); what a segment counts of a context are these positions, or more of them if the
context is shorter than the block (`SegmentCounts`).  `TableCounts`
takes this from the trees to the table they were written to.

**`CompressedFileProofs`** proves the three properties of `compressed_file`, for files of any
length.  `IInv` has three parts: `Typed`; `WriterOK`, that only a writer holds bytes back; and
`ReaderOK`, that what lies ahead of a reader (its unread buffer, and then what the units its
decompressor keeps and the rest of the file unpack to) is the content behind its position.  That
would not be inductive alone: when a strict format raises, the reader is in the middle of a
fetch.  So `ReaderOK` (by `Placed`) also says where a reader stands between two fetches: at a
multiple of the fetch size or at the end of the file, and if its decompressor has ended and keeps
nothing, the last unit fetched ends a stream.  From this follows that only a strict format
raises, and only when a stream that is not the last one ends where a fetch ends
(`Brittle`); this is the guard under which a plain file may raise, so without it the
refinement could not be proved.

The loops of `fetch`, `readline` and `seek` each have a measure that a turn lowers (`Work`: the units
not yet unpacked, those of the file twice; `Near`: the bytes ahead), and `Stops` makes of it that
`MostTurns` turns reach the end of the loop, so the model cuts none off.  What a loop
gives is a lemma about a sound reader (`FilledSound`, `ReadlineGives`, `ReadToEndSound`,
`SkipSound`); `SeekSound` puts together rewinding, finding the size and skipping; and one lemma for
each action gives both the invariant and the step of `PlainFile`.  TLC checked `IInv` on the
instance of `compressed_file` before the proof.

## What is only model-checked, and what is not modelled

Every safety property of a passing run, every action property and every refinement is a theorem above.
Liveness under fairness (`ReceiverEnds`, `HandlerReturns`, `StreamEnds`, `JobsEnd`) is out of the
prover's reach and is only model-checked.

Not modelled:

* JSON, S3, gzip in Go, glob patterns and file types in the shim: conversions and I/O without a
  state of their own.
* The command lines of Python and Go, and `beam/enwiki20201020/charcount.go`: a sequence of calls each.
* Go's `Language`: it works as the Python one, but with tokens of 16 bits, to which the tokens of a
  prompt are cut without notice.  A width matters only near 65536 tokens.
* The `u32` counts of Rust wrap near 2^32, its `f64` totals do not; the models count in
  natural numbers.
* `perplexity` in Rust, memory estimates and counters: floating point or statistics.
* `splitshakes`, `parseshakes` and `parse_enwiki`, which do not reach their pipelines, and with them the
  uploads of `CustomGCSWriter`; transforms that no job uses; generated protobuf code; deployment.

## Plan

Done: everything in the table of modules, and the theorems above.  Next: a width of tokens and
counts, with the Go language as its user.
