-------------------------- MODULE CppSuffixTreeSet --------------------------
(***************************************************************************)
(* The C++ program (cpp/main.cpp, cpp/efnlp.hpp): what it trains on a text *)
(* and writes for a server to read, and what it generates itself.  Its     *)
(* trees are those of the Go program, but their totals are kept.           *)
(***************************************************************************)
EXTENDS SuffixPaths

CONSTANT Token0   \* the token 0, which a draw that finds nothing returns

ASSUME Token0Assumption == Token0 \in Tokens

\* The window must be shorter than the text; the last token is not counted.
Trainable(s, b) == Len(s) > b
Trained(s, b) == {Pattern(s, i, b) : i \in b .. Len(s) - 2}

\* What is written: every tree on the way of a pattern, with its counts.
Model(patterns) ==
    LET seen(q, t) == Cardinality({x \in patterns : x.next = t /\ q \in Suffixes(x.prefix)}) IN
    {[path |-> q,
      total |-> Cardinality({x \in patterns : q \in Suffixes(x.prefix)}),
      counts |-> {[token |-> t, count |-> seen(q, t)] : t \in {u \in Tokens : seen(q, u) > 0}}] :
        q \in (UNION {Suffixes(x.prefix) : x \in patterns}) \ {<<>>}}

-----------------------------------------------------------------------------
(* Generation, from trees with the nodes N and the counts C *)

OutOfRange == "map::at"
TooLarge == "Window too large for data"
NeedsPrompt == "generation requires a prompt"
Unset == "uninitialized"

\* An exception is told from a token.
ASSUME CppErrorAssumption == OutOfRange \notin Tokens

\* A fault: the tree of the last token is asked with no context before it.
DescentFlat(N, p) == IF <<Last(p)>> \in N THEN <<Last(p)>> ELSE <<>>

Descent(N, p) ==
    LET found == {q \in Suffixes(p) : Suffixes(q) \subseteq N}
    IN  CHOOSE q \in found : \A r \in found : Len(r) <= Len(q)

\* The draw may be the total itself; the walk over the counts then ends without a token.
CppDraws(counts) == {t \in Tokens : counts[t] > 0} \cup {Token0}

CppSample(N, C, p) ==
    IF Descent(N, p) = <<>> THEN {OutOfRange} ELSE CppDraws(C[Descent(N, p)])

\* A list of n tokens behind the prompt is made, and all but the last are drawn: the
\* window cannot be moved behind the last one.  An exception leaves nothing.
CppGenerate(N, C, n, b, prompt) ==
    LET first == Len(prompt)
        last == IF b < first + n THEN first + n - 1 ELSE first + n
        next(g) ==
          IF g.error # "" THEN {g}
          ELSE {IF t \in Tokens THEN [g EXCEPT !.text = Append(@, t)] ELSE [g EXCEPT !.error = t] :
                  t \in CppSample(N, C, Window(g.text, Len(g.text), b))}
        upto[i \in first .. last] ==
          IF i = first THEN {[text |-> prompt, error |-> ""]}
          ELSE UNION {next(g) : g \in upto[i - 1]}
        end(g) ==
          IF g.error # "" THEN g
          ELSE IF b < first + n THEN [g EXCEPT !.text = Append(@, Unset)]
          ELSE [g EXCEPT !.error = TooLarge]
    IN  IF prompt = <<>> THEN {[text |-> <<>>, error |-> NeedsPrompt]}
        ELSE {end(g) : g \in upto[last]}
=============================================================================
