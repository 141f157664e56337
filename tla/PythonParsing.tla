--------------------------- MODULE PythonParsing ---------------------------
(***************************************************************************)
(* How the Python package takes a text apart: into the patterns that       *)
(* parse_all observes (efnlp/suffixtree.py), and into overlapping segments *)
(* that are parsed one by one (efnlp/util.py).                             *)
(***************************************************************************)
EXTENDS SuffixPaths

\* The short contexts at the start of the text.  In a text shorter than the
\* block the loop ends with an IndexError, and what it parsed remains.
Leading(s, b) == {Pattern(s, i, b) : i \in 1 .. Min({b, Len(s)}) - 1}

\* Whole blocks; the last token is not the successor of any.
Blocks(s, b) == {Pattern(s, i, b) : i \in b .. Len(s) - 2}

-----------------------------------------------------------------------------
(* Segments *)

\* The size of the i-th of n segments; the first ones take what is left over.
SegmentSize(encoded, n, i) ==
    Len(encoded) \div n + (IF i <= Len(encoded) % n THEN 1 ELSE 0)

SegmentEnd(encoded, n, i) == SumOver(1 .. i, [j \in 1 .. i |-> SegmentSize(encoded, n, j)])

\* More segments than that are refused.
Splittable(encoded, n, b) == Len(encoded) \div n > b

\* A fault: a segment starts where the one before it ended.
split_apart(encoded, n, b) ==
    [i \in 1 .. n |->
       SubSeq(encoded, SegmentEnd(encoded, n, i - 1) + 1, SegmentEnd(encoded, n, i))]

\* Each segment but the first begins with the last b tokens of the one before it.
split_input(encoded, n, b) ==
    [i \in 1 .. n |->
       SubSeq(encoded, Max({0, SegmentEnd(encoded, n, i - 1) - b}) + 1,
              SegmentEnd(encoded, n, i))]

merge_split_input(segments, b) ==
    segments[1] \o FlattenSeq([i \in 1 .. Len(segments) - 1 |->
                                 SubSeq(segments[i + 1], b + 1, Len(segments[i + 1]))])
=============================================================================
