------------------------------ MODULE Language ------------------------------
(***************************************************************************)
(* The encoding language of the Python package (efnlp/language.py) and the *)
(* suffix encoders it is made of (efnlp/encoder.py): a dictionary of       *)
(* strings and their tokens, kept as a forest over the strings read from   *)
(* the end.  An encoder on the way to a string, but without a token of its *)
(* own, has the token -1.  A text is encoded from its end, each time with  *)
(* the longest string that ends there.                                     *)
(***************************************************************************)
EXTENDS Integers, SequencesExt

CONSTANTS Chars,       \* the characters of texts
          Strings,     \* the strings a dictionary may define
          TokenIds,    \* the tokens it may give them
          MaxListed,   \* bound: the strings from_dict is given
          MaxDefined,  \* bound: the strings define leaves a language with
          MaxText      \* bound: the length of an encoded text

ASSUME LanguageAssumption ==
    /\ Strings \subseteq Seq(Chars) \ {<<>>}
    /\ TokenIds \subseteq Nat
    /\ {MaxListed, MaxDefined, MaxText} \subseteq Nat

VARIABLES token,    \* token[q]: the token of the encoder for the string q
          height,   \* height[q]: the depth of that encoder
          depth,    \* the depth of the language, which chooses how it encodes
          size,     \* its size: the largest token from_dict saw
          decoder   \* decoder[t]: the string that the token t is decoded to

vars == <<token, height, depth, size, decoder>>

InPath == -1
Endings(p) == Suffixes(p) \ {<<>>}
Ending(p, n) == SubSeq(p, Len(p) - n + 1, Len(p))
Texts == UNION {[1 .. n -> Chars] : n \in 0 .. MaxText}
Encoders == DOMAIN token

Dict(tokens) ==
    [p \in {q \in DOMAIN tokens : tokens[q] # InPath} |-> tokens[p]]
dict == Dict(token)

TypeOK ==
    /\ Encoders = UNION {Endings(p) : p \in DOMAIN dict}
    /\ token \in [Encoders -> TokenIds \cup {InPath}]
    /\ \A q \in Encoders :
         height[q] = Max({Len(r) - Len(q) : r \in {s \in Encoders : q \in Suffixes(s)}})
    /\ depth = Max({0} \cup {Len(q) : q \in Encoders})
    /\ size \in TokenIds \cup {0}
    /\ DOMAIN decoder \subseteq TokenIds
    /\ \A t \in DOMAIN decoder : decoder[t] \in Encoders \cap Strings

Init ==
    /\ token = << >>
    /\ height = << >>
    /\ depth = 0
    /\ size = 0
    /\ decoder = << >>

\* Of several strings with the same token the one listed last stays.
Decoders(D) ==
    LET used == {D[p] : p \in DOMAIN D}
    IN  {d \in [used -> DOMAIN D] : \A t \in used : D[d[t]] = t}

-----------------------------------------------------------------------------
(* Definitions *)

\* The encoders with the strings of D defined, later tokens replacing earlier ones.
Tokens(tokens, D) ==
    LET all == UNION {Endings(p) : p \in DOMAIN D} IN
    [q \in DOMAIN tokens \cup all |->
       IF q \in DOMAIN D THEN D[q]
       ELSE IF q \in DOMAIN tokens THEN tokens[q]
       ELSE InPath]

\* Each encoder on the way is as deep as the rest of the string; none gets lower.
Heights(heights, D) ==
    LET all == UNION {Endings(p) : p \in DOMAIN D} IN
    [q \in DOMAIN heights \cup all |->
       Max({0} \cup {heights[r] : r \in {q} \cap DOMAIN heights}
               \cup {Len(p) - Len(q) : p \in {r \in DOMAIN D : q \in Suffixes(r)}})]

\* A fault: the depth of the encoder, without the character of its root.
RaisedDepthShort(old, D) == Max({old} \cup {Len(p) - 1 : p \in DOMAIN D})

\* One more than the encoder at the root.
RaisedDepth(old, D) == Max({old} \cup {Len(p) : p \in DOMAIN D})

\* The dictionary with one string.
One(p, t) == [q \in {p} |-> t]

\* The empty string is refused.  The decoder does not learn the string.
Define(p, t) ==
    /\ p # <<>>
    /\ Cardinality(DOMAIN dict \cup {p}) <= MaxDefined
    /\ token' = Tokens(token, One(p, t))
    /\ height' = Heights(height, One(p, t))
    /\ depth' = RaisedDepth(depth, One(p, t))
    /\ UNCHANGED <<size, decoder>>

\* Bound: a new language only takes the place of an empty one.
FromDict(D) ==
    /\ Encoders = {}
    /\ token' = Tokens(<< >>, D)
    /\ height' = Heights(<< >>, D)
    /\ depth' = RaisedDepth(0, D)
    /\ size' = Max({0} \cup {D[p] : p \in DOMAIN D})
    /\ decoder' \in Decoders(Dict(token'))

-----------------------------------------------------------------------------
(* The protocol buffer, and the files it is kept in *)

\* A message has no negative tokens: `atom` tells which ones count.
Message ==
    [name |-> "language", size |-> size, depth |-> depth,
     suffixes |-> {[value |-> q, depth |-> height[q], token |-> Max({token[q], 0}),
                    atom |-> token[q] >= 0] : q \in Encoders}]

InMessage(m, q) == CHOOSE p \in m.suffixes : p.value = q
Values(m) == {p.value : p \in m.suffixes}

\* A fault: the token is taken whether or not the encoder is an atom.
TokensInAll(m) == [q \in Values(m) |-> InMessage(m, q).token]

TokensIn(m) ==
    [q \in Values(m) |-> IF InMessage(m, q).atom THEN InMessage(m, q).token ELSE InPath]
HeightsIn(m) == [q \in Values(m) |-> InMessage(m, q).depth]

\* A file is packed if that is asked for or its name says so, and then its name
\* says so; a reader goes by the name alone.
write_binary_file(gz, data, compress) ==
    [gz |-> gz \/ compress, packed |-> gz \/ compress, data |-> data]
Readable(file) == file.gz = file.packed

Reload(gz, compress) ==
    LET file == write_binary_file(gz, Message, compress)
        m == file.data
    IN  /\ Readable(file)
        /\ token' = TokensIn(m)
        /\ height' = HeightsIn(m)
        /\ depth' = m.depth
        /\ size' = m.size
        /\ decoder' \in Decoders(Dict(token'))

-----------------------------------------------------------------------------
(* Specification *)

Dictionaries ==
    UNION {[S -> TokenIds] : S \in {T \in SUBSET Strings :
                                       IsFiniteSet(T) /\ Cardinality(T) <= MaxListed}}

Next ==
    \/ \E p \in Strings, t \in TokenIds : Define(p, t)
    \/ \E D \in Dictionaries : FromDict(D)
    \/ \E gz, compress \in BOOLEAN : Reload(gz, compress)

Spec == Init /\ [][Next]_vars

-----------------------------------------------------------------------------
(* Encoding and decoding *)

\* A fault: an encoder without a token answers for those before it.
LongestPath(s) ==
    LET found[n \in 1 .. Len(s)] ==
          IF n < Len(s) /\ Ending(s, n + 1) \in Encoders THEN found[n + 1]
          ELSE [token |-> token[Ending(s, n)], length |-> n]
    IN  found[1]

\* A fault: the characters matched are not counted on the way back.
LongestOfOne(s) ==
    LET found[n \in 1 .. Len(s)] ==
          IF n < Len(s) /\ Ending(s, n + 1) \in Encoders /\ found[n + 1].token # InPath
          THEN found[n + 1]
          ELSE [token |-> token[Ending(s, n)], length |-> 1]
    IN  found[1]

\* Each encoder asks the next one, and answers itself if that one has no token.
Longest(s) ==
    LET found[n \in 1 .. Len(s)] ==
          IF n < Len(s) /\ Ending(s, n + 1) \in Encoders /\ found[n + 1].token # InPath
          THEN found[n + 1]
          ELSE [token |-> token[Ending(s, n)], length |-> n]
    IN  found[1]

Encoded(tokens) == [refused |-> FALSE, tokens |-> tokens]
Refused == [refused |-> TRUE, tokens |-> << >>]

IsRoot(c) == <<c>> \in Encoders

\* The members of s that are in S, in their order.
Kept(s, S) ==
    LET kept[i \in 0 .. Len(s)] ==
          IF i = 0 THEN << >>
          ELSE IF s[i] \in S THEN Append(kept[i - 1], s[i])
          ELSE kept[i - 1]
    IN  kept[Len(s)]

_encode_flat(s, ignore_errors) ==
    IF ~ignore_errors /\ \E i \in DOMAIN s : ~IsRoot(s[i]) THEN Refused
    ELSE LET known == Kept(s, {c \in Chars : IsRoot(c)})
         IN  Encoded([i \in DOMAIN known |-> token[<<known[i]>>]])

_encode_deep(s, ignore_errors) ==
    LET upto[i \in 0 .. Len(s)] ==
          IF i = 0 THEN Encoded(<< >>)
          ELSE IF ~IsRoot(s[i]) THEN (IF ignore_errors THEN upto[i - 1] ELSE Refused)
          ELSE LET last == Longest(SubSeq(s, 1, i))
                   rest == upto[i - last.length]
               IN  IF rest.refused THEN Refused
                   ELSE Encoded(Append(rest.tokens, last.token))
    IN  upto[Len(s)]

encode(s, ignore_errors) ==
    IF depth = 1 THEN _encode_flat(s, ignore_errors) ELSE _encode_deep(s, ignore_errors)

\* Without ignore_errors a token the decoder does not know ends it with a KeyError.
Decodes(tokens) == ToSet(tokens) \subseteq DOMAIN decoder
decode(tokens) ==
    LET written[i \in 0 .. Len(tokens)] ==
          IF i = 0 THEN << >>
          ELSE IF tokens[i] \in DOMAIN decoder THEN written[i - 1] \o decoder[tokens[i]]
          ELSE written[i - 1]
    IN  written[Len(tokens)]

-----------------------------------------------------------------------------
(* Properties *)

\* The longest of the defined strings that s ends with, none if s ends with none.
Defined(s) == {p \in Endings(s) : p \in DOMAIN dict}
LongestDefined(s) == CHOOSE p \in Defined(s) : \A q \in Defined(s) : Len(q) <= Len(p)
CanEnd(c) == \E p \in DOMAIN dict : Last(p) = c
Ends == {c \in Chars : CanEnd(c)}

(***************************************************************************)
(* Both ways of encoding give the longest defined string from the end on,  *)
(* one character is given the token -1 if strings end with it but none     *)
(* with it there, and only a character that ends no string is refused, or  *)
(* left out: the trees and the depth by which encode chooses keep track of *)
(* the dictionary through definitions and reloads.                         *)
(***************************************************************************)
EncodesGreedily ==
    \A s \in Texts, ignore_errors \in BOOLEAN :
      LET greedy[i \in 0 .. Len(s)] ==
            LET head == SubSeq(s, 1, i)
                Then(rest, t) ==
                  IF rest.refused THEN Refused ELSE Encoded(Append(rest.tokens, t))
            IN  IF i = 0 THEN Encoded(<< >>)
                ELSE IF Defined(head) # {}
                     THEN Then(greedy[i - Len(LongestDefined(head))], dict[LongestDefined(head)])
                ELSE IF CanEnd(s[i]) THEN Then(greedy[i - 1], InPath)
                ELSE IF ignore_errors THEN greedy[i - 1]
                ELSE Refused
      IN  encode(s, ignore_errors) = greedy[Len(s)]

\* The decoder is as the last from_dict or from_proto made it, and unambiguous.
Fresh == \A p \in DOMAIN dict : dict[p] \in DOMAIN decoder /\ decoder[dict[p]] = p

(***************************************************************************)
(* With a decoder that knows the dictionary, what is encoded without a -1  *)
(* decodes to the text; each defined string is encoded to its own token;   *)
(* and where every character of a string is defined by itself too, no text *)
(* gets a -1, and only characters outside the dictionary are refused or    *)
(* lost.                                                                   *)
(***************************************************************************)
RoundTrip ==
    /\ \A p \in DOMAIN dict : encode(p, FALSE) = Encoded(<<dict[p]>>)
    /\ Fresh => \A s \in Texts :
         LET strict == encode(s, FALSE)
             lenient == encode(s, TRUE)
         IN  /\ ~strict.refused /\ InPath \notin ToSet(strict.tokens) =>
                  Decodes(strict.tokens) /\ decode(strict.tokens) = s
             /\ (\A p \in DOMAIN dict : \A i \in DOMAIN p : <<p[i]>> \in DOMAIN dict) =>
                  /\ strict.refused <=> \E i \in DOMAIN s : ~CanEnd(s[i])
                  /\ Decodes(lenient.tokens) /\ decode(lenient.tokens) = Kept(s, Ends)

(***************************************************************************)
(* A language that was dumped and read again, under any of the names and   *)
(* with or without compression, has the same dictionary, encodes the same, *)
(* and its decoder knows all of it again.                                  *)
(***************************************************************************)
ReloadKeeps ==
    [][/\ \A gz, compress \in BOOLEAN : Readable(write_binary_file(gz, Message, compress))
       /\ (\E gz, compress \in BOOLEAN : Reload(gz, compress)) =>
            /\ dict' = dict
            /\ \A s \in Texts : encode(s, TRUE)' = encode(s, TRUE)
            /\ \A p \in DOMAIN dict' : dict'[p] \in DOMAIN decoder']_vars
=============================================================================
