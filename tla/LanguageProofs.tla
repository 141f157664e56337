--------------------------- MODULE LanguageProofs ---------------------------
(***************************************************************************)
(* Theorems about Language, for every set of characters, strings and       *)
(* tokens: the encoders are the endings of the defined strings, with their *)
(* heights; encoding is greedy from the end of a text; and decoding undoes *)
(* it where the decoder knows the dictionary.                              *)
(***************************************************************************)
EXTENDS Language, FiniteSetTheorems, SequenceTheorems, NaturalsInduction,
        WellFoundedInduction, TLAPS

-----------------------------------------------------------------------------
(* Numbers *)

(* A set of natural numbers that is not empty has a least one. *)
LEMMA Least ==
  ASSUME NEW T, T \subseteq Nat, T # {}
  PROVE  \E x \in T : \A y \in T : x <= y
<1> DEFINE R == OpToRel(<, Nat)
<1>1. IsWellFoundedOn(R, Nat)
  BY NatLessThanWellFounded, Zenon
<1>2. ASSUME NEW x \in Nat, NEW y \in Nat, x < y
      PROVE  <<x, y>> \in R
  BY <1>2 DEF OpToRel
<1> HIDE DEF R
<1>3. PICK x \in T : \A y \in T : ~(<<y, x>> \in R)
  BY <1>1, WFMin, Zenon
<1>4. ASSUME NEW y \in T
      PROVE  x <= y
  <2>1. ~(<<y, x>> \in R)
    BY <1>3, Zenon
  <2>2. ~(y < x)
    BY <1>2, <2>1
  <2> QED BY <2>2
<1> QED BY <1>4

(* A set of natural numbers with a bound, if it is not empty, has a greatest one. *)
LEMMA Greatest ==
  ASSUME NEW S, S \subseteq Nat, S # {}, NEW b \in Nat, \A x \in S : x <= b
  PROVE  Max(S) \in S /\ \A x \in S : x <= Max(S)
<1> DEFINE T == {b - x : x \in S}
<1>1. T \subseteq Nat /\ T # {}
  <2>1. \A x \in S : b - x \in Nat
    OBVIOUS
  <2> QED BY <2>1
<1>2. PICK l \in T : \A y \in T : l <= y
  <2> HIDE DEF T
  <2> QED BY <1>1, Least
<1>3. PICK m \in S : l = b - m
  OBVIOUS
<1>4. ASSUME NEW x \in S
      PROVE  m >= x
  <2>1. b - m <= b - x
    BY <1>2, <1>3
  <2> QED BY <2>1
<1>5. \E z \in S : \A y \in S : z >= y
  BY <1>4
<1>6. Max(S) \in S /\ \A y \in S : Max(S) >= y
  BY <1>5 DEF Max
<1> QED BY <1>6

(* What holds at first and is kept from each step to the next holds to the last. *)
LEMMA Stepwise ==
  ASSUME NEW first \in Nat, NEW last \in Nat, NEW T, first \in T,
         \A i \in first .. last : i \in T /\ i # last => i + 1 \in T
  PROVE  \A i \in first .. last : i \in T
<1> DEFINE bad == {i \in first .. last : i \notin T}
<1>1. SUFFICES ASSUME bad # {}
               PROVE  FALSE
  OBVIOUS
<1>2. bad \subseteq Nat
  OBVIOUS
<1> HIDE DEF bad
<1>3. PICK i \in bad : \A j \in bad : i <= j
  BY <1>1, <1>2, Least
<1>4. i \in first .. last /\ i \notin T
  BY <1>3 DEF bad
<1>5. i - 1 \in first .. last /\ i - 1 # last /\ (i - 1) + 1 = i /\ ~ (i <= i - 1)
  BY <1>4
<1>6. i - 1 \in T
  BY <1>3, <1>5 DEF bad
<1> QED BY <1>4, <1>5, <1>6

(* What holds wherever it holds before, holds everywhere. *)
LEMMA FromBefore ==
  ASSUME NEW last \in Nat, NEW T,
         \A i \in 0 .. last : (\A j \in 0 .. last : j < i => j \in T) => i \in T
  PROVE  \A i \in 0 .. last : i \in T
<1> DEFINE bad == {i \in 0 .. last : i \notin T}
<1>1. SUFFICES ASSUME bad # {}
               PROVE  FALSE
  OBVIOUS
<1>2. bad \subseteq Nat
  OBVIOUS
<1> HIDE DEF bad
<1>3. PICK i \in bad : \A j \in bad : i <= j
  BY <1>1, <1>2, Least
<1>4. i \in 0 .. last /\ i \notin T
  BY <1>3 DEF bad
<1>5. \A j \in 0 .. last : j < i => j \in T
  BY <1>3, <1>4 DEF bad
<1> QED BY <1>4, <1>5

(* Finitely many natural numbers have a bound. *)
LEMMA FiniteBound ==
  ASSUME NEW S, S \subseteq Nat, IsFiniteSet(S)
  PROVE  \E b \in Nat : \A x \in S : x <= b
<1>1. PICK n \in Nat : ExistsSurjection(1 .. n, S)
  BY FS_NatSurjection
<1>2. PICK f \in [1 .. n -> S] : \A x \in S : \E j \in 1 .. n : f[j] = x
  BY <1>1 DEF ExistsSurjection, Surjection
<1>3. \A i \in 1 .. n : f[i] \in Nat
  BY <1>2
<1> DEFINE T == {i \in Nat : \E b \in Nat : \A j \in 1 .. n : j <= i => f[j] <= b}
<1>4. 0 \in T
  OBVIOUS
<1>5. ASSUME NEW i \in 0 .. n, i \in T, i # n
      PROVE  i + 1 \in T
  <2>1. PICK b \in Nat : \A j \in 1 .. n : j <= i => f[j] <= b
    BY <1>5
  <2>2. i + 1 \in 1 .. n /\ f[i + 1] \in Nat
    BY <1>3, <1>5
  <2>3. \A j \in 1 .. n : j <= i + 1 => j <= i \/ j = i + 1
    OBVIOUS
  <2> DEFINE c == b + f[i + 1]
  <2>4. c \in Nat /\ \A j \in 1 .. n : j <= i + 1 => f[j] <= c
    BY <1>3, <2>1, <2>2, <2>3
  <2> HIDE DEF c
  <2>5. i + 1 \in Nat
    OBVIOUS
  <2> QED BY <2>4, <2>5
<1>6. n \in 0 .. n
  BY <1>1
<1> HIDE DEF T
<1>7. n \in T
  <2>1. 0 \in Nat
    OBVIOUS
  <2> QED BY <1>4, <1>5, <1>6, <2>1, Stepwise
<1>8. PICK b \in Nat : \A j \in 1 .. n : j <= n => f[j] <= b
  BY <1>7 DEF T
<1>9. ASSUME NEW x \in S
      PROVE  x <= b
  <2>1. PICK j \in 1 .. n : f[j] = x
    BY <1>2
  <2> QED BY <1>8, <2>1
<1> QED BY <1>9

(* So they have a greatest one. *)
LEMMA GreatestOfFew ==
  ASSUME NEW S, S \subseteq Nat, S # {}, IsFiniteSet(S)
  PROVE  Max(S) \in S /\ \A x \in S : x <= Max(S)
BY FiniteBound, Greatest

-----------------------------------------------------------------------------
(* Endings *)

Words == Seq(Chars) \ {<<>>}

LEMMA EndingIs ==
  ASSUME NEW s \in Seq(Chars), NEW n \in 1 .. Len(s)
  PROVE  /\ Ending(s, n) \in Seq(Chars) /\ Len(Ending(s, n)) = n
         /\ \A i \in 1 .. n : Ending(s, n)[i] = s[Len(s) - n + i]
<1> DEFINE l == Len(s)
           a == l - n + 1
           e == SubSeq(s, a, l)
<1>1. l \in Nat /\ n \in 1 .. l /\ a \in 1 .. l /\ l \in 1 .. l /\ l = Len(s)
  OBVIOUS
<1>2. l - a + 1 = n
  BY <1>1
<1>3. \A i \in 1 .. n : a + i - 1 = l - n + i
  BY <1>1
<1>4. Ending(s, n) = e
  BY DEF Ending
<1> HIDE DEF a, l
<1>5. e \in Seq(Chars) /\ Len(e) = l - a + 1 /\ \A i \in 1 .. l - a + 1 : e[i] = s[a + i - 1]
  BY <1>1
<1> HIDE DEF e
<1> QED BY <1>1, <1>2, <1>3, <1>4, <1>5

(* A text has one ending of each length. *)
LEMMA EndingFacts ==
  ASSUME NEW s \in Seq(Chars)
  PROVE  /\ \A n \in 1 .. Len(s) :
              /\ Ending(s, n) \in Words /\ Len(Ending(s, n)) = n
              /\ Ending(s, n) \in Endings(s) /\ Last(Ending(s, n)) = Last(s)
              /\ \A m \in 1 .. n : Ending(Ending(s, n), m) = Ending(s, m)
         /\ Endings(s) = {Ending(s, n) : n \in 1 .. Len(s)}
         /\ Ending(s, Len(s)) = s
<1>1. Len(s) \in Nat
  OBVIOUS
<1>2. ASSUME NEW n \in 1 .. Len(s)
      PROVE  /\ Ending(s, n) \in Words /\ Len(Ending(s, n)) = n
             /\ Last(Ending(s, n)) = Last(s)
             /\ \A m \in 1 .. n : Ending(Ending(s, n), m) = Ending(s, m)
  <2>1. Len(s) - n + 1 \in 1 .. Len(s)
    BY <1>1, <1>2
  <2>2. /\ Ending(s, n) \in Seq(Chars) /\ Len(Ending(s, n)) = n
        /\ \A i \in 1 .. n : Ending(s, n)[i] = s[Len(s) - n + i]
    BY EndingIs
  <2>3. Ending(s, n) # <<>>
    BY <2>2
  <2>4. Last(Ending(s, n)) = Last(s)
    BY <1>1, <2>2 DEF Last
  <2>5. ASSUME NEW m \in 1 .. n
        PROVE  Ending(Ending(s, n), m) = Ending(s, m)
    <3> DEFINE r == Ending(s, n)
    <3>1. r \in Seq(Chars) /\ Len(r) = n /\ n - m + 1 \in 1 .. n /\ n \in Nat /\ m \in Nat
      BY <2>2
    <3> HIDE DEF r
    <3>2. /\ Ending(r, m) \in Seq(Chars) /\ Len(Ending(r, m)) = m
          /\ \A i \in 1 .. m : Ending(r, m)[i] = r[n - m + i]
      <4>1. m \in 1 .. Len(r)
        BY <3>1
      <4> QED BY <3>1, <4>1, EndingIs
    <3>3. /\ Ending(s, m) \in Seq(Chars) /\ Len(Ending(s, m)) = m
          /\ \A i \in 1 .. m : Ending(s, m)[i] = s[Len(s) - m + i]
      <4>1. m \in 1 .. Len(s)
        BY <1>1
      <4> QED BY <4>1, EndingIs
    <3>4. \A i \in 1 .. m : n - m + i \in 1 .. n /\ Len(s) - n + (n - m + i) = Len(s) - m + i
      BY <1>1, <3>1
    <3>5. \A i \in 1 .. m : Ending(r, m)[i] = Ending(s, m)[i]
      BY <2>2, <3>2, <3>3, <3>4 DEF r
    <3> QED BY <3>2, <3>3, <3>5, SeqEqual DEF r
  <2> QED BY <2>2, <2>3, <2>4, <2>5 DEF Words
<1>3. Endings(s) = {Ending(s, n) : n \in 1 .. Len(s)}
  <2>1. ASSUME NEW l \in 1 .. Len(s)
        PROVE  Len(s) - l + 1 \in 1 .. Len(s) /\ Ending(s, Len(s) - l + 1) = SubSeq(s, l, Len(s))
    <3>1. Len(s) - (Len(s) - l + 1) + 1 = l
      BY <1>1
    <3> QED BY <1>1, <3>1 DEF Ending
  <2>2. ASSUME NEW n \in 1 .. Len(s)
        PROVE  Len(s) - n + 1 \in 1 .. Len(s) /\ Ending(s, n) = SubSeq(s, Len(s) - n + 1, Len(s))
    BY <1>1 DEF Ending
  <2>3. \A n \in 1 .. Len(s) : Ending(s, n) # <<>>
    BY <1>2 DEF Words
  <2>4. ASSUME NEW q \in Endings(s)
        PROVE  q \in {Ending(s, n) : n \in 1 .. Len(s)}
    BY <2>1, <2>4 DEF Endings, Suffixes
  <2>5. ASSUME NEW n \in 1 .. Len(s)
        PROVE  Ending(s, n) \in Endings(s)
    BY <2>2, <2>3 DEF Endings, Suffixes
  <2> QED BY <2>4, <2>5
<1>4. Ending(s, Len(s)) = s
  BY <1>1 DEF Ending
<1> QED BY <1>2, <1>3, <1>4

-----------------------------------------------------------------------------
(* Encoders and the strings defined *)

\* The encoders are the endings of the strings they have a token for.
Forest(tk) ==
    /\ DOMAIN tk \subseteq Words
    /\ tk \in [DOMAIN tk -> TokenIds \cup {InPath}]
    /\ DOMAIN Dict(tk) \subseteq Strings
    /\ DOMAIN tk = UNION {Endings(p) : p \in DOMAIN Dict(tk)}

\* The height of an encoder is that of the longest string it is an ending of.
Tall(E, h) ==
    /\ DOMAIN h = E /\ h = [q \in DOMAIN h |-> h[q]]
    /\ \A q \in E :
         /\ h[q] \in Nat
         /\ \A r \in E : q \in Endings(r) => Len(r) <= h[q] + Len(q)
         /\ \E r \in E : q \in Endings(r) /\ Len(r) = h[q] + Len(q)

\* The depth of a language is the length of the longest string.
Deep(E, d) == d \in {0} \cup {Len(q) : q \in E} /\ \A q \in E : Len(q) <= d

\* A dictionary, as define and from_dict take it.
Given(D) == D \in [DOMAIN D -> TokenIds] /\ DOMAIN D \subseteq Strings /\ IsFiniteSet(DOMAIN D)

(* The strings of a dictionary that are defined are those with a token. *)
LEMMA DictFacts ==
  ASSUME NEW tk
  PROVE  /\ DOMAIN Dict(tk) = {q \in DOMAIN tk : tk[q] # InPath}
         /\ \A q \in DOMAIN Dict(tk) : Dict(tk)[q] = tk[q]
BY DEF Dict

(* An ending of an encoder is one, and the encoder itself. *)
LEMMA ForestFacts ==
  ASSUME NEW tk, Forest(tk)
  PROVE  \A r \in DOMAIN tk : r \in Endings(r) /\ Endings(r) \subseteq DOMAIN tk
<1>1. ASSUME NEW r \in DOMAIN tk
      PROVE  r \in Endings(r) /\ Endings(r) \subseteq DOMAIN tk
  <2>1. PICK p \in DOMAIN Dict(tk) : r \in Endings(p)
    BY DEF Forest
  <2>2. p \in Words /\ r \in Words
    BY <2>1, DictFacts DEF Forest
  <2>3. PICK n \in 1 .. Len(p) : r = Ending(p, n)
    BY <2>1, <2>2, EndingFacts DEF Words
  <2>4. Endings(r) \subseteq Endings(p)
    <3>1. Len(r) = n /\ Endings(r) = {Ending(r, m) : m \in 1 .. n}
      BY <2>2, <2>3, EndingFacts DEF Words
    <3>2. \A m \in 1 .. n : Ending(r, m) = Ending(p, m) /\ m \in 1 .. Len(p)
      BY <2>2, <2>3, EndingFacts DEF Words
    <3>3. Endings(p) = {Ending(p, m) : m \in 1 .. Len(p)}
      BY <2>2, EndingFacts DEF Words
    <3> QED BY <3>1, <3>2, <3>3
  <2>5. r \in Endings(r)
    <3>1. Len(r) \in 1 .. Len(r)
      BY <2>2 DEF Words
    <3> QED BY <2>2, <3>1, EndingFacts DEF Words
  <2>6. Endings(p) \subseteq DOMAIN tk
    BY <2>1 DEF Forest
  <2> QED BY <2>4, <2>5, <2>6
<1> QED BY <1>1

(* The same of the endings of a string. *)
LEMMA EndingsClosed ==
  ASSUME NEW p \in Words
  PROVE  /\ Endings(p) \subseteq Words /\ p \in Endings(p)
         /\ \A r \in Endings(p) :
              Len(r) <= Len(p) /\ Endings(r) \subseteq Endings(p) /\ r \in Endings(r)
<1>1. /\ Endings(p) = {Ending(p, n) : n \in 1 .. Len(p)}
      /\ \A n \in 1 .. Len(p) : Ending(p, n) \in Words /\ Len(Ending(p, n)) = n
      /\ Len(p) \in 1 .. Len(p) /\ Ending(p, Len(p)) = p
  BY EndingFacts DEF Words
<1>2. ASSUME NEW r \in Endings(p)
      PROVE  Len(r) <= Len(p) /\ Endings(r) \subseteq Endings(p) /\ r \in Endings(r)
  <2>1. PICK n \in 1 .. Len(p) : r = Ending(p, n)
    BY <1>1
  <2>2. r \in Seq(Chars) /\ Len(r) = n
    BY <1>1, <2>1 DEF Words
  <2>3. Endings(r) = {Ending(r, m) : m \in 1 .. n} /\ Ending(r, n) = r
    BY <2>2, EndingFacts
  <2>4. \A m \in 1 .. n : Ending(r, m) = Ending(p, m) /\ m \in 1 .. Len(p)
    BY <2>1, EndingFacts DEF Words
  <2> QED BY <1>1, <2>2, <2>3, <2>4
<1> QED BY <1>1, <1>2

(* A string defined makes its endings encoders, and gives it a token. *)
LEMMA DefinedForest ==
  ASSUME NEW tk, Forest(tk), NEW D, Given(D)
  PROVE  /\ Forest(Tokens(tk, D))
         /\ DOMAIN Tokens(tk, D) = DOMAIN tk \cup UNION {Endings(p) : p \in DOMAIN D}
<1> DEFINE all == UNION {Endings(p) : p \in DOMAIN D}
           new == Tokens(tk, D)
<1>1. DOMAIN D \subseteq Words /\ InPath \notin TokenIds
  BY LanguageAssumption DEF Given, Words, InPath
<1>2. all \subseteq Words /\ DOMAIN D \subseteq all
  BY <1>1, EndingsClosed
<1>3. /\ DOMAIN new = DOMAIN tk \cup all
      /\ \A q \in DOMAIN tk \cup all :
           new[q] = IF q \in DOMAIN D THEN D[q] ELSE IF q \in DOMAIN tk THEN tk[q] ELSE InPath
      /\ new = [q \in DOMAIN new |-> new[q]]
  BY DEF Tokens
<1> HIDE DEF new
<1>4. \A q \in DOMAIN new : new[q] \in TokenIds \cup {InPath}
  BY <1>3 DEF Forest, Given
<1>5. new \in [DOMAIN new -> TokenIds \cup {InPath}]
  BY <1>3, <1>4
<1>6. DOMAIN Dict(new) = DOMAIN Dict(tk) \cup DOMAIN D
  <2>1. DOMAIN Dict(new) = {q \in DOMAIN new : new[q] # InPath}
    BY DictFacts
  <2>2. DOMAIN Dict(tk) = {q \in DOMAIN tk : tk[q] # InPath}
    BY DictFacts
  <2>3. \A q \in DOMAIN D : D[q] # InPath
    BY <1>1 DEF Given
  <2> QED BY <1>2, <1>3, <2>1, <2>2, <2>3
<1>7. DOMAIN new = UNION {Endings(p) : p \in DOMAIN Dict(new)}
  BY <1>3, <1>6 DEF Forest
<1>8. Forest(new)
  BY <1>2, <1>3, <1>5, <1>6, <1>7 DEF Forest, Given
<1> QED BY <1>3, <1>8 DEF new

(* The strings of a dictionary have a longest. *)
LEMMA LengthsBound ==
  ASSUME NEW D, Given(D)
  PROVE  \E b \in Nat : \A p \in DOMAIN D : Len(p) <= b
<1> DEFINE f == [p \in DOMAIN D |-> Len(p)]
           S == {Len(p) : p \in DOMAIN D}
<1>1. \A p \in DOMAIN D : Len(p) \in Nat
  BY LanguageAssumption DEF Given
<1>2. S = {f[p] : p \in DOMAIN D}
  OBVIOUS
<1>3. f \in [DOMAIN D -> S]
  OBVIOUS
<1>4. f \in Surjection(DOMAIN D, S)
  BY <1>3 DEF Surjection
<1>5. IsFiniteSet(S)
  <2> HIDE DEF f, S
  <2> QED BY <1>4, FS_Surjection DEF Given
<1>6. PICK b \in Nat : \A x \in S : x <= b
  <2>1. S \subseteq Nat
    BY <1>1
  <2> HIDE DEF S
  <2> QED BY <1>5, <2>1, FiniteBound
<1> QED BY <1>6

(* No height but those of its endings changes by a definition. *)
LEMMA DefinedHeights ==
  ASSUME NEW tk, Forest(tk), NEW h, Tall(DOMAIN tk, h), NEW D, Given(D)
  PROVE  Tall(DOMAIN tk \cup UNION {Endings(p) : p \in DOMAIN D}, Heights(h, D))
<1> DEFINE E == DOMAIN tk
           all == UNION {Endings(p) : p \in DOMAIN D}
           new == Heights(h, D)
           above(q) == {r \in DOMAIN D : q \in Suffixes(r)}
           own(q) == {h[r] : r \in {q} \cap DOMAIN h}
           more(q) == {Len(p) - Len(q) : p \in above(q)}
           M(q) == {0} \cup own(q) \cup more(q)
<1>1. DOMAIN D \subseteq Words /\ E \subseteq Words
  BY LanguageAssumption DEF Given, Forest, Words
<1>2. all \subseteq Words /\ DOMAIN D \subseteq all
  BY <1>1, EndingsClosed
<1>3. DOMAIN h = E
  BY DEF Tall
<1>4. /\ DOMAIN new = E \cup all /\ new = [q \in DOMAIN new |-> new[q]]
      /\ \A q \in E \cup all : new[q] = Max(M(q))
  BY <1>3 DEF Heights
<1>5. PICK b \in Nat : \A p \in DOMAIN D : Len(p) <= b
  BY LengthsBound
<1>6. ASSUME NEW q \in E \cup all
      PROVE  /\ \A p \in DOMAIN D : p \in above(q) <=> q \in Endings(p)
             /\ Max(M(q)) \in M(q) /\ \A x \in M(q) : x <= Max(M(q))
             /\ M(q) \subseteq Nat
  <2>1. q \in Words /\ Len(q) \in Nat
    BY <1>1, <1>2 DEF Words
  <2>2. \A p \in DOMAIN D : p \in above(q) <=> q \in Endings(p)
    BY <2>1 DEF Endings, Words
  <2>3. ASSUME NEW p \in above(q)
        PROVE  Len(p) - Len(q) \in Nat /\ Len(p) - Len(q) <= b
    <3>1. p \in Words /\ q \in Endings(p) /\ Len(p) \in Nat
      BY <1>1, <2>2 DEF Words
    <3>2. Len(q) <= Len(p)
      BY <3>1, EndingsClosed
    <3> QED BY <1>5, <2>1, <3>1, <3>2
  <2>4. CASE q \in E
    <3>1. own(q) = {h[q]} /\ h[q] \in Nat
      BY <1>3, <2>4 DEF Tall
    <3>2. M(q) = {0, h[q]} \cup more(q)
      BY <3>1
    <3>3. M(q) \subseteq Nat /\ M(q) # {} /\ (\A x \in M(q) : x <= b + h[q]) /\ b + h[q] \in Nat
      BY <2>3, <3>1, <3>2
    <3> HIDE DEF M
    <3>4. Max(M(q)) \in M(q) /\ \A x \in M(q) : x <= Max(M(q))
      BY <3>3, Greatest
    <3> QED BY <2>2, <3>3, <3>4
  <2>5. CASE q \notin E
    <3>1. own(q) = {}
      BY <1>3, <2>5
    <3>2. M(q) = {0} \cup more(q)
      BY <3>1
    <3>3. M(q) \subseteq Nat /\ M(q) # {} /\ \A x \in M(q) : x <= b
      BY <2>3, <3>2
    <3> HIDE DEF M
    <3>4. Max(M(q)) \in M(q) /\ \A x \in M(q) : x <= Max(M(q))
      BY <3>3, Greatest
    <3> QED BY <2>2, <3>3, <3>4
  <2> QED BY <2>4, <2>5
<1>7. ASSUME NEW q \in E \cup all
      PROVE  /\ new[q] \in Nat
             /\ \A r \in E \cup all : q \in Endings(r) => Len(r) <= new[q] + Len(q)
             /\ \E r \in E \cup all : q \in Endings(r) /\ Len(r) = new[q] + Len(q)
  <2>0. q \in Words /\ Len(q) \in Nat
    BY <1>1, <1>2 DEF Words
  <2>1. new[q] = Max(M(q)) /\ q \in Words /\ Len(q) \in Nat
    BY <1>4, <2>0, Zenon
  <2>2. /\ new[q] \in M(q) /\ \A x \in M(q) : x <= new[q]
        /\ M(q) \subseteq Nat /\ \A p \in DOMAIN D : p \in above(q) <=> q \in Endings(p)
    BY <1>6, <2>1
  <2> HIDE DEF new
  <2>3. q \in E => h[q] \in M(q)
    BY <1>3
  <2>4. \A p \in DOMAIN D : q \in Endings(p) => Len(p) - Len(q) \in M(q)
    BY <2>2
  <2> HIDE DEF above
  <2>5. new[q] = 0 \/ (q \in E /\ new[q] = h[q]) \/ \E p \in DOMAIN D : q \in Endings(p) /\ new[q] = Len(p) - Len(q)
    <3>1. CASE new[q] \in own(q)
      BY <1>3, <3>1
    <3>2. CASE new[q] \in more(q)
      BY <2>2, <3>2 DEF above
    <3> QED BY <2>2, <3>1, <3>2
  <2>6. new[q] \in Nat
    BY <2>2
  <2> HIDE DEF M
  <2>7. ASSUME NEW r \in E \cup all, q \in Endings(r)
        PROVE  Len(r) <= new[q] + Len(q)
    <3>1. r \in Words /\ Len(r) \in Nat
      BY <1>1, <1>2 DEF Words
    <3>2. CASE r \in E
      <4>1. q \in E
        BY <2>7, <3>2, ForestFacts
      <4>2. h[q] \in Nat /\ Len(r) <= h[q] + Len(q)
        BY <2>7, <3>2, <4>1 DEF Tall
      <4> QED BY <2>1, <2>2, <2>3, <2>6, <3>1, <4>1, <4>2
    <3>3. CASE r \in all
      <4>1. PICK p \in DOMAIN D : r \in Endings(p)
        BY <3>3
      <4>2. p \in Words /\ Len(p) \in Nat
        BY <1>1 DEF Words
      <4>3. Len(r) <= Len(p) /\ q \in Endings(p)
        BY <2>7, <4>1, <4>2, EndingsClosed
      <4>4. Len(p) - Len(q) <= new[q]
        BY <2>2, <2>4, <4>3
      <4> QED BY <2>1, <2>6, <3>1, <4>2, <4>3, <4>4
    <3> QED BY <3>2, <3>3
  <2>8. \E r \in E \cup all : q \in Endings(r) /\ Len(r) = new[q] + Len(q)
    <3>1. CASE new[q] = 0
      <4>1. q \in Endings(q)
        BY <2>1, EndingsClosed
      <4> QED BY <2>1, <3>1, <4>1
    <3>2. CASE q \in E /\ new[q] = h[q]
      BY <3>2 DEF Tall
    <3>3. ASSUME NEW p \in DOMAIN D, q \in Endings(p), new[q] = Len(p) - Len(q)
          PROVE  \E r \in E \cup all : q \in Endings(r) /\ Len(r) = new[q] + Len(q)
      <4>1. p \in all /\ Len(p) \in Nat
        BY <1>1, <1>2, <3>3 DEF Words
      <4>2. Len(p) = new[q] + Len(q)
        BY <2>1, <3>3, <4>1
      <4> QED BY <3>3, <4>1, <4>2
    <3> QED BY <2>5, <3>1, <3>2, <3>3
  <2> QED BY <2>6, <2>7, <2>8
<1> HIDE DEF new, E, all
<1>8. Tall(E \cup all, new)
  BY <1>4, <1>7 DEF Tall
<1> QED BY <1>8 DEF new, E, all

(* So does the depth of the language. *)
LEMMA DefinedDepth ==
  ASSUME NEW E \in SUBSET Words, NEW d, Deep(E, d), NEW D, Given(D)
  PROVE  Deep(E \cup UNION {Endings(p) : p \in DOMAIN D}, RaisedDepth(d, D))
<1> DEFINE all == UNION {Endings(p) : p \in DOMAIN D}
           M == {d} \cup {Len(p) : p \in DOMAIN D}
<1>1. DOMAIN D \subseteq Words /\ \A q \in Words : Len(q) \in Nat
  BY LanguageAssumption DEF Given, Words
<1>2. d \in Nat
  BY <1>1 DEF Deep
<1>3. PICK b \in Nat : \A p \in DOMAIN D : Len(p) <= b
  BY LengthsBound
<1>4. M \subseteq Nat /\ M # {} /\ b + d \in Nat /\ \A x \in M : x <= b + d
  BY <1>1, <1>2, <1>3
<1>5. Max(M) \in M /\ \A x \in M : x <= Max(M)
  <2> HIDE DEF M
  <2> QED BY <1>4, Greatest
<1>6. DOMAIN D \subseteq all /\ all \subseteq Words
  BY <1>1, EndingsClosed
<1>7. ASSUME NEW q \in E \cup all
      PROVE  Len(q) <= Max(M)
  <2>1. CASE q \in E
    <3>1. Len(q) <= d /\ d \in M
      BY <2>1 DEF Deep
    <3> QED BY <1>1, <1>2, <1>4, <1>5, <2>1, <3>1
  <2>2. CASE q \in all
    <3>1. PICK p \in DOMAIN D : q \in Endings(p)
      BY <2>2
    <3>2. Len(q) <= Len(p) /\ Len(p) \in M
      BY <1>1, <3>1, EndingsClosed
    <3>3. Len(p) <= Max(M) /\ Max(M) \in Nat
      <4> HIDE DEF M
      <4> QED BY <1>4, <1>5, <3>2
    <3>4. Len(q) \in Nat /\ Len(p) \in Nat
      BY <1>1, <1>6, <2>2
    <3> HIDE DEF M
    <3> QED BY <3>2, <3>3, <3>4
  <2> QED BY <2>1, <2>2
<1>8. Max(M) \in {0} \cup {Len(q) : q \in E \cup all}
  <2>1. d \in {0} \cup {Len(q) : q \in E}
    BY DEF Deep
  <2>2. CASE Max(M) = d
    BY <2>1, <2>2
  <2>3. CASE Max(M) # d
    BY <1>5, <1>6, <2>3
  <2> QED BY <2>2, <2>3
<1> HIDE DEF all
<1> QED BY <1>7, <1>8 DEF Deep, RaisedDepth, all

-----------------------------------------------------------------------------
(* The language in every state *)

\* What the decoder may give for a token.
Decoding(E, dec) ==
    /\ DOMAIN dec \subseteq TokenIds
    /\ \A t \in DOMAIN dec : dec[t] \in E \cap Strings

\* The inductive invariant.
LanguageInv ==
    /\ Forest(token) /\ Tall(Encoders, height) /\ Deep(Encoders, depth)
    /\ size \in TokenIds \cup {0} /\ Decoding(Encoders, decoder)

(* What a new decoder gives are strings that were defined. *)
LEMMA NewDecoder ==
  ASSUME NEW tk, Forest(tk), NEW dec \in Decoders(Dict(tk))
  PROVE  /\ Decoding(DOMAIN tk, dec)
         /\ \A p \in DOMAIN Dict(tk) : Dict(tk)[p] \in DOMAIN dec
<1> DEFINE D == Dict(tk)
           used == {D[p] : p \in DOMAIN D}
<1>1. dec \in [used -> DOMAIN D]
  BY DEF Decoders
<1>2. \A p \in DOMAIN D : p \in DOMAIN tk /\ p \in Strings /\ D[p] \in TokenIds
  <2>1. \A p \in DOMAIN D : p \in DOMAIN tk /\ tk[p] # InPath /\ D[p] = tk[p]
    BY DictFacts
  <2> QED BY <2>1 DEF Forest
<1> HIDE DEF D
<1> QED BY <1>1, <1>2 DEF Decoding, D

(* A dictionary with one string. *)
LEMMA OneGiven ==
  ASSUME NEW p \in Strings, NEW t \in TokenIds
  PROVE  Given(One(p, t))
<1>1. IsFiniteSet({p})
  BY FS_Singleton
<1> QED BY <1>1 DEF Given, One

LEMMA DefineKeeps ==
  ASSUME LanguageInv, NEW p \in Strings, NEW t \in TokenIds, Define(p, t)
  PROVE  LanguageInv'
<1> DEFINE D == One(p, t)
           more == UNION {Endings(r) : r \in DOMAIN D}
<1>1. Given(D)
  BY OneGiven
<1>2. token' = Tokens(token, D) /\ height' = Heights(height, D) /\ depth' = RaisedDepth(depth, D)
  BY DEF Define
<1>3. size' = size /\ decoder' = decoder
  BY DEF Define
<1> HIDE DEF D
<1>4. Forest(token) /\ Tall(DOMAIN token, height) /\ Deep(DOMAIN token, depth)
  BY DEF LanguageInv, Encoders
<1>5. Forest(token') /\ DOMAIN token' = DOMAIN token \cup more
  BY <1>1, <1>2, <1>4, DefinedForest
<1>6. Tall(DOMAIN token', height')
  BY <1>1, <1>2, <1>4, <1>5, DefinedHeights
<1>7. DOMAIN token \in SUBSET Words
  BY <1>4 DEF Forest
<1>8. Deep(DOMAIN token', depth')
  BY <1>1, <1>2, <1>4, <1>5, <1>7, DefinedDepth
<1>9. Decoding(DOMAIN token', decoder')
  BY <1>3, <1>5 DEF LanguageInv, Encoders, Decoding
<1> QED BY <1>3, <1>5, <1>6, <1>8, <1>9 DEF LanguageInv, Encoders

(* A language that knows nothing yet. *)
LEMMA NothingDefined == Forest(<< >>) /\ Tall(DOMAIN << >>, << >>) /\ Deep(DOMAIN << >>, 0)
<1>1. DOMAIN << >> = {}
  OBVIOUS
<1>2. Forest(<< >>)
  <2>1. DOMAIN Dict(<< >>) = {}
    BY <1>1, DictFacts
  <2> QED BY <1>1, <2>1 DEF Forest
<1>3. Tall({}, << >>) /\ Deep({}, 0)
  BY <1>1 DEF Tall, Deep
<1> QED BY <1>1, <1>2, <1>3

LEMMA FromDictKeeps ==
  ASSUME LanguageInv, NEW D \in Dictionaries, FromDict(D)
  PROVE  LanguageInv'
<1> DEFINE more == UNION {Endings(r) : r \in DOMAIN D}
           M == {0} \cup {D[p] : p \in DOMAIN D}
<1>1. Given(D)
  <2>1. PICK S \in SUBSET Strings : IsFiniteSet(S) /\ D \in [S -> TokenIds]
    BY DEF Dictionaries
  <2> QED BY <2>1 DEF Given
<1>2. /\ token' = Tokens(<< >>, D) /\ height' = Heights(<< >>, D) /\ depth' = RaisedDepth(0, D)
      /\ size' = Max(M) /\ decoder' \in Decoders(Dict(token'))
  BY DEF FromDict
<1>3. Forest(<< >>) /\ Tall(DOMAIN << >>, << >>) /\ Deep(DOMAIN << >>, 0) /\ DOMAIN << >> = {}
  BY NothingDefined
<1>4. Forest(token') /\ DOMAIN token' = DOMAIN << >> \cup more
  BY <1>1, <1>2, <1>3, DefinedForest
<1>5. Tall(DOMAIN token', height')
  BY <1>1, <1>2, <1>3, <1>4, DefinedHeights
<1>6. Deep(DOMAIN token', depth')
  <2>1. DOMAIN << >> \in SUBSET Words
    BY <1>3
  <2> QED BY <1>1, <1>2, <1>3, <1>4, <2>1, DefinedDepth
<1>7. Decoding(DOMAIN token', decoder')
  BY <1>2, <1>4, NewDecoder
<1>8. size' \in TokenIds \cup {0}
  <2>1. M \subseteq Nat /\ M # {} /\ M \subseteq TokenIds \cup {0}
    BY <1>1, LanguageAssumption DEF Given
  <2> DEFINE f == [p \in DOMAIN D |-> D[p]]
             S == {D[p] : p \in DOMAIN D}
  <2>2. f \in Surjection(DOMAIN D, S)
    BY DEF Surjection
  <2>3. IsFiniteSet(S)
    <3> HIDE DEF f, S
    <3> QED BY <1>1, <2>2, FS_Surjection DEF Given
  <2>4. IsFiniteSet(M)
    <3>1. M = S \cup {0}
      OBVIOUS
    <3> HIDE DEF M, S
    <3> QED BY <2>3, <3>1, FS_AddElement
  <2> HIDE DEF M
  <2>5. Max(M) \in M
    BY <2>1, <2>4, GreatestOfFew
  <2> QED BY <1>2, <2>1, <2>5
<1> QED BY <1>4, <1>5, <1>6, <1>7, <1>8 DEF LanguageInv, Encoders

(* What is written into a message is read from it. *)
LEMMA Reloaded ==
  ASSUME LanguageInv, NEW gz \in BOOLEAN, NEW compress \in BOOLEAN, Reload(gz, compress)
  PROVE  /\ token' = token /\ height' = height /\ depth' = depth /\ size' = size
         /\ decoder' \in Decoders(Dict(token))
<1> DEFINE m == Message
           entry(q) == [value |-> q, depth |-> height[q], token |-> Max({token[q], 0}),
                        atom |-> token[q] >= 0]
<1>1. /\ token' = TokensIn(m) /\ height' = HeightsIn(m) /\ depth' = m.depth /\ size' = m.size
      /\ decoder' \in Decoders(Dict(token'))
  BY DEF Reload, write_binary_file
<1>2. m.suffixes = {entry(q) : q \in Encoders} /\ m.depth = depth /\ m.size = size
  BY DEF Message
<1>3. \A q : /\ entry(q).value = q /\ entry(q).depth = height[q]
              /\ entry(q).token = Max({token[q], 0}) /\ (entry(q).atom <=> token[q] >= 0)
  OBVIOUS
<1> HIDE DEF entry, m
<1>4. Values(m) = Encoders
  BY <1>2, <1>3 DEF Values
<1>5. \A q \in Encoders : InMessage(m, q) = entry(q)
  BY <1>2, <1>3 DEF InMessage
<1>6. /\ token \in [Encoders -> TokenIds \cup {InPath}]
      /\ DOMAIN height = Encoders /\ height = [q \in DOMAIN height |-> height[q]]
  BY DEF LanguageInv, Forest, Tall, Encoders
<1>7. ASSUME NEW q \in Encoders
      PROVE  token[q] = IF entry(q).atom THEN entry(q).token ELSE InPath
  <2>1. token[q] \in Nat \/ token[q] = -1
    BY <1>6, LanguageAssumption DEF InPath
  <2>2. CASE token[q] \in Nat
    <3>1. Max({token[q], 0}) = token[q]
      BY <2>2 DEF Max
    <3> QED BY <1>3, <2>2, <3>1
  <2>3. CASE token[q] = -1
    BY <1>3, <2>3 DEF InPath
  <2> QED BY <2>1, <2>2, <2>3
<1>8. TokensIn(m) = token
  <2>1. TokensIn(m) = [q \in Encoders |-> IF entry(q).atom THEN entry(q).token ELSE InPath]
    BY <1>4, <1>5 DEF TokensIn
  <2>2. token = [q \in Encoders |-> token[q]]
    BY <1>6
  <2> QED BY <1>7, <2>1, <2>2
<1>9. HeightsIn(m) = height
  <2>1. HeightsIn(m) = [q \in Encoders |-> height[q]]
    BY <1>3, <1>4, <1>5 DEF HeightsIn
  <2> QED BY <1>6, <2>1
<1> QED BY <1>1, <1>2, <1>8, <1>9, Zenon

LEMMA LanguageStep ==
  ASSUME LanguageInv, [Next]_vars
  PROVE  LanguageInv'
<1>1. CASE \E p \in Strings, t \in TokenIds : Define(p, t)
  BY <1>1, DefineKeeps
<1>2. CASE \E D \in Dictionaries : FromDict(D)
  BY <1>2, FromDictKeeps
<1>3. CASE \E gz, compress \in BOOLEAN : Reload(gz, compress)
  <2>1. /\ token' = token /\ height' = height /\ depth' = depth /\ size' = size
        /\ decoder' \in Decoders(Dict(token))
    BY <1>3, Reloaded
  <2>2. Decoding(DOMAIN token, decoder')
    BY <2>1, NewDecoder DEF LanguageInv
  <2> QED BY <2>1, <2>2 DEF LanguageInv, Encoders
<1>4. CASE UNCHANGED vars
  BY <1>4 DEF vars, LanguageInv, Encoders
<1> QED BY <1>1, <1>2, <1>3, <1>4 DEF Next

LEMMA LanguageStart == Init => LanguageInv
<1>1. SUFFICES ASSUME Init
               PROVE  LanguageInv
  OBVIOUS
<1>2. token = << >> /\ height = << >> /\ depth = 0 /\ size = 0 /\ decoder = << >>
  BY <1>1 DEF Init
<1>3. Decoding(DOMAIN << >>, << >>)
  BY DEF Decoding
<1> QED BY <1>2, <1>3, NothingDefined DEF LanguageInv, Encoders

LEMMA LanguageInvAlways == Spec => []LanguageInv
<1>1. Init => LanguageInv
  BY LanguageStart
<1>2. LanguageInv /\ [Next]_vars => LanguageInv'
  BY LanguageStep
<1> QED BY <1>1, <1>2, PTL DEF Spec

(* The greatest number of a set is its Max. *)
LEMMA MaxIs ==
  ASSUME NEW S, S \subseteq Nat, NEW m \in S, \A x \in S : x <= m
  PROVE  Max(S) = m
<1>1. Max(S) \in S /\ \A y \in S : Max(S) >= y
  <2>1. \A y \in S : m >= y
    OBVIOUS
  <2> QED BY <2>1 DEF Max
<1>2. Max(S) \in Nat /\ m \in Nat /\ Max(S) >= m /\ Max(S) <= m
  BY <1>1
<1> QED BY <1>2

(***************************************************************************)
(* The variables keep their types: encoders are the endings of the strings *)
(* defined, heights and the depth are those of the longest of them, and    *)
(* the decoder gives strings that are defined.                             *)
(***************************************************************************)
THEOREM TypesAlways == Spec => []TypeOK
<1>1. ASSUME LanguageInv
      PROVE  TypeOK
  <2>1. Encoders \subseteq Words /\ \A q \in Words : Len(q) \in Nat
    BY <1>1 DEF LanguageInv, Forest, Encoders, Words
  <2>2. ASSUME NEW q \in Encoders
        PROVE  height[q] = Max({Len(r) - Len(q) : r \in {s \in Encoders : q \in Suffixes(s)}})
    <3> DEFINE above == {s \in Encoders : q \in Suffixes(s)}
               S == {Len(r) - Len(q) : r \in above}
    <3>1. \A s \in Encoders : s \in above <=> q \in Endings(s)
      BY <2>1 DEF Endings, Words
    <3>2. /\ height[q] \in Nat
          /\ \A r \in above : Len(r) <= height[q] + Len(q)
          /\ \E r \in above : Len(r) = height[q] + Len(q)
      BY <1>1, <3>1 DEF LanguageInv, Tall
    <3> HIDE DEF above
    <3>3. \A r \in above : Len(r) \in Nat /\ Len(q) \in Nat
      BY <2>1 DEF above
    <3>4. \A r \in above : Len(q) <= Len(r)
      <4>1. ASSUME NEW r \in above
            PROVE  Len(q) <= Len(r)
        <5>1. r \in Words /\ q \in Endings(r)
          BY <2>1, <3>1 DEF above
        <5> QED BY <5>1, EndingsClosed
      <4> QED BY <4>1
    <3>5. S \subseteq Nat /\ height[q] \in S /\ \A x \in S : x <= height[q]
      BY <3>2, <3>3, <3>4
    <3> HIDE DEF S
    <3>6. Max(S) = height[q]
      BY <3>5, MaxIs
    <3> QED BY <3>6 DEF S, above
  <2>3. depth = Max({0} \cup {Len(q) : q \in Encoders})
    <3> DEFINE S == {0} \cup {Len(q) : q \in Encoders}
    <3>1. S \subseteq Nat /\ depth \in S
      BY <1>1, <2>1 DEF LanguageInv, Deep
    <3>2. \A x \in S : x <= depth
      BY <1>1, <3>1 DEF LanguageInv, Deep
    <3> HIDE DEF S
    <3>3. Max(S) = depth
      BY <3>1, <3>2, MaxIs
    <3> QED BY <3>3 DEF S
  <2>4. Encoders = UNION {Endings(p) : p \in DOMAIN dict}
    BY <1>1 DEF LanguageInv, Forest, dict, Encoders
  <2>5. token \in [Encoders -> TokenIds \cup {InPath}]
    BY <1>1 DEF LanguageInv, Forest, Encoders
  <2>6. /\ size \in TokenIds \cup {0} /\ DOMAIN decoder \subseteq TokenIds
        /\ \A t \in DOMAIN decoder : decoder[t] \in Encoders \cap Strings
    BY <1>1 DEF LanguageInv, Decoding
  <2> QED BY <2>2, <2>3, <2>4, <2>5, <2>6 DEF TypeOK
<1> QED BY <1>1, LanguageInvAlways, PTL

-----------------------------------------------------------------------------
(* The longest match *)

\* The lengths, from n on, of the endings of s that have a token.
Matched(s, n) ==
    {k \in n .. Len(s) : Ending(s, k) \in Encoders /\ token[Ending(s, k)] # InPath}

\* What the encoder for the ending of length n answers.
Answer(s, n) ==
    IF Matched(s, n) = {} THEN [token |-> token[Ending(s, n)], length |-> n]
    ELSE [token |-> token[Ending(s, Max(Matched(s, n)))], length |-> Max(Matched(s, n))]

\* As Longest asks one encoder after the other.
Found(s, found) ==
    found = [n \in 1 .. Len(s) |->
              IF n < Len(s) /\ Ending(s, n + 1) \in Encoders /\ found[n + 1].token # InPath
              THEN found[n + 1]
              ELSE [token |-> token[Ending(s, n)], length |-> n]]

LEMMA LongestIs ==
  ASSUME NEW s
  PROVE  Longest(s) = (CHOOSE f : Found(s, f))[1]
BY Zenon DEF Longest, Found

(* An answer is found among the encoders, whose endings are encoders. *)
LEMMA MatchedFacts ==
  ASSUME LanguageInv, NEW s \in Words, NEW n \in 1 .. Len(s)
  PROVE  /\ Matched(s, n) \subseteq n .. Len(s)
         /\ Matched(s, n) # {} => Max(Matched(s, n)) \in Matched(s, n)
                                   /\ \A k \in Matched(s, n) : k <= Max(Matched(s, n))
         /\ \A k \in n .. Len(s) : Ending(s, k) \in Encoders => Ending(s, n) \in Encoders
<1>1. s \in Seq(Chars) /\ Len(s) \in Nat
  BY DEF Words
<1>2. Matched(s, n) \subseteq n .. Len(s)
  BY DEF Matched
<1>3. Matched(s, n) # {} => Max(Matched(s, n)) \in Matched(s, n)
                             /\ \A k \in Matched(s, n) : k <= Max(Matched(s, n))
  <2>1. Matched(s, n) \subseteq Nat /\ \A k \in Matched(s, n) : k <= Len(s)
    BY <1>1, <1>2
  <2> QED BY <1>1, <2>1, Greatest
<1>4. ASSUME NEW k \in n .. Len(s), Ending(s, k) \in Encoders
      PROVE  Ending(s, n) \in Encoders
  <2>1. k \in 1 .. Len(s) /\ n \in 1 .. k
    BY <1>1, <1>4
  <2>2. /\ Ending(s, k) \in Words /\ Len(Ending(s, k)) = k
        /\ Ending(Ending(s, k), n) = Ending(s, n)
    BY <1>1, <2>1, EndingFacts
  <2>3. Ending(Ending(s, k), n) \in Endings(Ending(s, k))
    BY <2>1, <2>2, EndingFacts DEF Words
  <2> QED BY <1>4, <2>2, <2>3, ForestFacts DEF LanguageInv, Encoders
<1> QED BY <1>2, <1>3, <1>4

(* One encoder answers as the next one does, if that finds a token. *)
LEMMA AnswerSteps ==
  ASSUME LanguageInv, NEW s \in Words, NEW n \in 1 .. Len(s)
  PROVE  Answer(s, n) =
           IF n < Len(s) /\ Ending(s, n + 1) \in Encoders /\ Answer(s, n + 1).token # InPath
           THEN Answer(s, n + 1)
           ELSE [token |-> token[Ending(s, n)], length |-> n]
<1>1. s \in Seq(Chars) /\ Len(s) \in Nat
  BY DEF Words
<1>2. n = Len(s) => Matched(s, n) \subseteq {n}
  BY <1>1 DEF Matched
<1>3. ASSUME n < Len(s)
      PROVE  Matched(s, n) \subseteq {n} \cup Matched(s, n + 1) /\ Matched(s, n + 1) \subseteq Matched(s, n)
  BY <1>1, <1>3 DEF Matched
<1>4. ASSUME Matched(s, n) \subseteq {n}
      PROVE  Answer(s, n) = [token |-> token[Ending(s, n)], length |-> n]
  <2>1. CASE Matched(s, n) = {}
    BY <2>1 DEF Answer
  <2>2. CASE Matched(s, n) # {}
    <3>1. Max(Matched(s, n)) = n
      BY <1>4, <2>2, MatchedFacts
    <3> QED BY <2>2, <3>1 DEF Answer
  <2> QED BY <2>1, <2>2
<1>5. CASE n = Len(s)
  BY <1>2, <1>4, <1>5
<1>6. CASE n < Len(s)
  <2>1. n + 1 \in 1 .. Len(s)
    BY <1>1, <1>6
  <2>2. CASE Matched(s, n + 1) = {}
    <3>1. Answer(s, n + 1).token = token[Ending(s, n + 1)]
      BY <2>2 DEF Answer
    <3>2. n + 1 \notin Matched(s, n + 1)
      BY <2>2
    <3>3. Ending(s, n + 1) \notin Encoders \/ token[Ending(s, n + 1)] = InPath
      BY <1>1, <2>1, <3>2 DEF Matched
    <3>4. Matched(s, n) \subseteq {n}
      BY <1>3, <1>6, <2>2
    <3> QED BY <1>4, <3>1, <3>3, <3>4
  <2>3. CASE Matched(s, n + 1) # {}
    <3> DEFINE m == Max(Matched(s, n + 1))
    <3>1. m \in Matched(s, n + 1) /\ \A k \in Matched(s, n + 1) : k <= m
      BY <2>1, <2>3, MatchedFacts
    <3>2. m \in n + 1 .. Len(s) /\ Ending(s, m) \in Encoders /\ token[Ending(s, m)] # InPath
      BY <3>1 DEF Matched
    <3>3. Ending(s, n + 1) \in Encoders
      BY <2>1, <3>2, MatchedFacts
    <3>4. Answer(s, n + 1) = [token |-> token[Ending(s, m)], length |-> m]
      BY <2>3 DEF Answer
    <3>5. Max(Matched(s, n)) = m
      <4> HIDE DEF m
      <4>1. m \in Matched(s, n) /\ Matched(s, n) \subseteq Nat
        BY <1>1, <1>3, <1>6, <3>1, MatchedFacts
      <4>2. \A k \in Matched(s, n) : k <= m
        BY <1>1, <1>3, <1>6, <3>1, <3>2
      <4> QED BY <4>1, <4>2, MaxIs
    <3>6. Answer(s, n) = [token |-> token[Ending(s, m)], length |-> m]
      BY <1>3, <1>6, <3>1, <3>5 DEF Answer
    <3> HIDE DEF m
    <3> QED BY <1>6, <3>2, <3>3, <3>4, <3>6
  <2> QED BY <2>2, <2>3
<1> QED BY <1>1, <1>5, <1>6

(* Longest finds the longest ending that has a token. *)
LEMMA LongestAnswers ==
  ASSUME LanguageInv, NEW s \in Words
  PROVE  Longest(s) = Answer(s, 1)
<1>1. Len(s) \in Nat \ {0}
  BY DEF Words
<1> DEFINE w == [n \in 1 .. Len(s) |-> Answer(s, n)]
           rest == [n \in 1 .. Len(s) |->
                     IF n < Len(s) /\ Ending(s, n + 1) \in Encoders /\ w[n + 1].token # InPath
                     THEN w[n + 1]
                     ELSE [token |-> token[Ending(s, n)], length |-> n]]
<1>2. w = rest
  <2>1. ASSUME NEW n \in 1 .. Len(s)
        PROVE  w[n] = rest[n]
    <3>1. w[n] = Answer(s, n) /\ (n < Len(s) => w[n + 1] = Answer(s, n + 1))
      BY <1>1
    <3>2. rest[n] = IF n < Len(s) /\ Ending(s, n + 1) \in Encoders /\ w[n + 1].token # InPath
                    THEN w[n + 1]
                    ELSE [token |-> token[Ending(s, n)], length |-> n]
      OBVIOUS
    <3> HIDE DEF w, rest
    <3> QED BY <3>1, <3>2, AnswerSteps
  <2>2. w = [n \in 1 .. Len(s) |-> w[n]] /\ rest = [n \in 1 .. Len(s) |-> rest[n]]
    OBVIOUS
  <2> HIDE DEF w, rest
  <2> QED BY <2>1, <2>2
<1>3. Found(s, w)
  <2> HIDE DEF w
  <2> QED BY <1>2, Zenon DEF Found
<1> DEFINE f == CHOOSE g : Found(s, g)
<1>4. Found(s, f)
  BY <1>3
<1> HIDE DEF f, w
<1>5. \A n \in 1 .. Len(s) :
        f[n] = IF n < Len(s) /\ Ending(s, n + 1) \in Encoders /\ f[n + 1].token # InPath
               THEN f[n + 1]
               ELSE [token |-> token[Ending(s, n)], length |-> n]
  BY <1>4 DEF Found
<1> DEFINE T == {i \in 0 .. Len(s) - 1 : f[Len(s) - i] = Answer(s, Len(s) - i)}
<1>6. 0 \in T
  <2>1. Len(s) \in 1 .. Len(s) /\ Len(s) - 0 = Len(s) /\ 0 \in 0 .. Len(s) - 1
    BY <1>1
  <2>2. f[Len(s)] = Answer(s, Len(s))
    BY <1>5, <2>1, AnswerSteps
  <2> QED BY <2>1, <2>2
<1>7. ASSUME NEW i \in 0 .. Len(s) - 1, i \in T, i # Len(s) - 1
      PROVE  i + 1 \in T
  <2> DEFINE n == Len(s) - (i + 1)
  <2>1. n \in 1 .. Len(s) /\ n < Len(s) /\ n + 1 = Len(s) - i /\ i + 1 \in 0 .. Len(s) - 1
    BY <1>1, <1>7
  <2>2. f[n + 1] = Answer(s, n + 1)
    BY <1>7, <2>1
  <2> HIDE DEF n
  <2>3. f[n] = Answer(s, n)
    <3>1. f[n] = IF n < Len(s) /\ Ending(s, n + 1) \in Encoders /\ f[n + 1].token # InPath
                 THEN f[n + 1]
                 ELSE [token |-> token[Ending(s, n)], length |-> n]
      BY <1>5, <2>1
    <3>2. Answer(s, n) = IF n < Len(s) /\ Ending(s, n + 1) \in Encoders
                              /\ Answer(s, n + 1).token # InPath
                         THEN Answer(s, n + 1)
                         ELSE [token |-> token[Ending(s, n)], length |-> n]
      BY <2>1, AnswerSteps
    <3> QED BY <2>2, <3>1, <3>2, Zenon
  <2> QED BY <2>1, <2>3 DEF n
<1> DEFINE last == Len(s) - 1
<1>8. last \in Nat /\ 0 \in Nat /\ last \in 0 .. last /\ Len(s) - last = 1
  BY <1>1
<1>9. last \in T
  <2>1. \A i \in 0 .. last : i \in T /\ i # last => i + 1 \in T
    BY <1>7
  <2> HIDE DEF T, last
  <2> QED BY <1>6, <1>8, <2>1, Stepwise
<1>10. f[1] = Answer(s, 1)
  BY <1>8, <1>9
<1> QED BY <1>10, LongestIs DEF f

(* The strings a text ends with are its endings that have a token. *)
LEMMA DefinedFacts ==
  ASSUME LanguageInv, NEW s \in Words
  PROVE  /\ Defined(s) = {Ending(s, k) : k \in Matched(s, 1)}
         /\ Defined(s) # {} =>
              /\ LongestDefined(s) = Ending(s, Max(Matched(s, 1)))
              /\ Len(LongestDefined(s)) = Max(Matched(s, 1))
              /\ LongestDefined(s) \in DOMAIN dict /\ LongestDefined(s) \in Words
              /\ dict[LongestDefined(s)] = token[LongestDefined(s)]
              /\ dict[LongestDefined(s)] \in TokenIds
              /\ \A q \in Defined(s) : Len(q) <= Len(LongestDefined(s))
<1>1. s \in Seq(Chars) /\ Len(s) \in Nat \ {0} /\ 1 \in 1 .. Len(s)
  BY DEF Words
<1>2. /\ \A q : q \in DOMAIN dict <=> q \in Encoders /\ token[q] # InPath
      /\ \A q \in DOMAIN dict : dict[q] = token[q]
  BY DictFacts DEF dict, Encoders
<1>3. Endings(s) = {Ending(s, k) : k \in 1 .. Len(s)}
  BY <1>1, EndingFacts
<1>4. Defined(s) = {Ending(s, k) : k \in Matched(s, 1)}
  BY <1>2, <1>3 DEF Defined, Matched
<1>5. ASSUME Defined(s) # {}
      PROVE  /\ LongestDefined(s) = Ending(s, Max(Matched(s, 1)))
             /\ Len(LongestDefined(s)) = Max(Matched(s, 1))
             /\ LongestDefined(s) \in DOMAIN dict /\ LongestDefined(s) \in Words
             /\ dict[LongestDefined(s)] = token[LongestDefined(s)]
             /\ dict[LongestDefined(s)] \in TokenIds
             /\ \A q \in Defined(s) : Len(q) <= Len(LongestDefined(s))
  <2> DEFINE m == Max(Matched(s, 1))
  <2>1. m \in Matched(s, 1) /\ \A k \in Matched(s, 1) : k <= m
    BY <1>1, <1>4, <1>5, MatchedFacts
  <2>2. \A k \in Matched(s, 1) : k \in 1 .. Len(s) /\ Len(Ending(s, k)) = k
    BY <1>1, EndingFacts DEF Matched
  <2> HIDE DEF m
  <2>3. Ending(s, m) \in Defined(s) /\ \A q \in Defined(s) : Len(q) <= Len(Ending(s, m))
    BY <1>4, <2>1, <2>2
  <2>4. LongestDefined(s) \in Defined(s) /\ \A q \in Defined(s) : Len(q) <= Len(LongestDefined(s))
    BY <2>3 DEF LongestDefined
  <2>5. PICK k \in Matched(s, 1) : LongestDefined(s) = Ending(s, k)
    BY <1>4, <2>4
  <2>6. k = m
    BY <2>1, <2>2, <2>3, <2>4, <2>5
  <2>7. m \in 1 .. Len(s) /\ Ending(s, m) \in Words
    BY <1>1, <2>1, <2>2, EndingFacts
  <2>8. token[Ending(s, m)] \in TokenIds /\ Ending(s, m) \in DOMAIN dict
    BY <1>2, <2>1 DEF Matched, LanguageInv, Forest, Encoders
  <2> QED BY <1>2, <2>2, <2>4, <2>5, <2>6, <2>7, <2>8 DEF m
<1> QED BY <1>4, <1>5

\* How a text goes on with one more token.
AndThen(rest, t) == IF rest.refused THEN Refused ELSE Encoded(Append(rest.tokens, t))

(* A character ends a defined string just if it is the root of an encoder. *)
LEMMA RootsEnd ==
  ASSUME LanguageInv
  PROVE  \A c : IsRoot(c) <=> CanEnd(c)
<1>1. /\ DOMAIN dict \subseteq Words
      /\ Encoders = UNION {Endings(p) : p \in DOMAIN dict}
  BY DictFacts DEF LanguageInv, Forest, Encoders, dict
<1>2. \A p \in Words : Ending(p, 1) = <<Last(p)>> /\ Ending(p, 1) \in Endings(p)
  <2>1. ASSUME NEW p \in Words
        PROVE  Ending(p, 1) = <<Last(p)>> /\ Ending(p, 1) \in Endings(p)
    <3>1. p \in Seq(Chars) /\ Len(p) \in Nat \ {0} /\ 1 \in 1 .. Len(p)
      BY DEF Words
    <3>2. Ending(p, 1) \in Words /\ Len(Ending(p, 1)) = 1 /\ Last(Ending(p, 1)) = Last(p)
          /\ Ending(p, 1) \in Endings(p)
      BY <3>1, EndingFacts
    <3> QED BY <3>2 DEF Last, Words
  <2> QED BY <2>1
<1>3. ASSUME NEW c, IsRoot(c)
      PROVE  CanEnd(c)
  <2>1. PICK p \in DOMAIN dict : <<c>> \in Endings(p)
    BY <1>1, <1>3 DEF IsRoot
  <2>2. PICK n \in 1 .. Len(p) : <<c>> = Ending(p, n)
    BY <1>1, <2>1, EndingFacts DEF Words
  <2>3. Last(<<c>>) = Last(p)
    BY <1>1, <2>2, EndingFacts DEF Words
  <2> QED BY <2>1, <2>3 DEF CanEnd, Last
<1>4. ASSUME NEW c, CanEnd(c)
      PROVE  IsRoot(c)
  <2>1. PICK p \in DOMAIN dict : Last(p) = c
    BY <1>4 DEF CanEnd
  <2> QED BY <1>1, <1>2, <2>1 DEF IsRoot
<1> QED BY <1>3, <1>4

(* What _encode_deep finds at the end of a text. *)
LEMMA LongestFinds ==
  ASSUME LanguageInv, NEW s \in Words, IsRoot(Last(s))
  PROVE  Longest(s) =
           IF Defined(s) # {}
           THEN [token |-> dict[LongestDefined(s)], length |-> Len(LongestDefined(s))]
           ELSE [token |-> InPath, length |-> 1]
<1>1. s \in Seq(Chars) /\ Len(s) \in Nat \ {0} /\ 1 \in 1 .. Len(s)
  BY DEF Words
<1>2. Longest(s) = Answer(s, 1)
  BY LongestAnswers
<1>3. CASE Defined(s) # {}
  <2>1. Matched(s, 1) # {}
    BY <1>3, DefinedFacts
  <2> QED BY <1>2, <1>3, <2>1, DefinedFacts DEF Answer
<1>4. CASE Defined(s) = {}
  <2>1. Matched(s, 1) = {}
    BY <1>4, DefinedFacts
  <2>2. Ending(s, 1) \in Encoders
    <3>1. Ending(s, 1) \in Words /\ Len(Ending(s, 1)) = 1 /\ Last(Ending(s, 1)) = Last(s)
      BY <1>1, EndingFacts
    <3>2. Ending(s, 1) = <<Last(s)>>
      BY <3>1 DEF Last, Words
    <3> QED BY <3>2 DEF IsRoot
  <2>3. token[Ending(s, 1)] = InPath
    BY <1>1, <2>1, <2>2 DEF Matched
  <2> QED BY <1>2, <1>4, <2>1, <2>3 DEF Answer
<1> QED BY <1>3, <1>4

-----------------------------------------------------------------------------
(* Encoding *)

\* What greedy encoding makes of the first i characters of s, when f says what it
\* makes of fewer.
GreedyNext(s, ign, f, i) ==
    LET head == SubSeq(s, 1, i) IN
    IF i = 0 THEN Encoded(<< >>)
    ELSE IF Defined(head) # {} THEN AndThen(f[i - Len(LongestDefined(head))], dict[LongestDefined(head)])
    ELSE IF CanEnd(s[i]) THEN AndThen(f[i - 1], InPath)
    ELSE IF ign THEN f[i - 1]
    ELSE Refused
Greedily(s, ign, f) == f = [i \in 0 .. Len(s) |-> GreedyNext(s, ign, f, i)]
Greedy(s, ign) == (CHOOSE f : Greedily(s, ign, f))[Len(s)]

LEMMA GreedyIs ==
  EncodesGreedily <=> \A s \in Texts : \A ign \in BOOLEAN : encode(s, ign) = Greedy(s, ign)
BY Zenon DEF EncodesGreedily, Greedy, Greedily, GreedyNext, AndThen

\* The same of _encode_deep.
DeepNext(s, ign, f, i) ==
    IF i = 0 THEN Encoded(<< >>)
    ELSE IF ~IsRoot(s[i]) THEN (IF ign THEN f[i - 1] ELSE Refused)
    ELSE LET last == Longest(SubSeq(s, 1, i))
             rest == f[i - last.length]
         IN  IF rest.refused THEN Refused ELSE Encoded(Append(rest.tokens, last.token))
Deeply(s, ign, f) == f = [i \in 0 .. Len(s) |-> DeepNext(s, ign, f, i)]

LEMMA DeepIs ==
  ASSUME NEW s, NEW ign
  PROVE  _encode_deep(s, ign) = (CHOOSE f : Deeply(s, ign, f))[Len(s)]
BY Zenon DEF _encode_deep, Deeply, DeepNext

(* The beginnings of a text. *)
LEMMA HeadFacts ==
  ASSUME NEW s \in Seq(Chars), NEW i \in 1 .. Len(s)
  PROVE  /\ SubSeq(s, 1, i) \in Words /\ Len(SubSeq(s, 1, i)) = i
         /\ Last(SubSeq(s, 1, i)) = s[i]
         /\ \A j \in 1 .. i : SubSeq(s, 1, i)[j] = s[j]
<1>1. /\ SubSeq(s, 1, i) \in Seq(Chars) /\ Len(SubSeq(s, 1, i)) = i
      /\ \A j \in 1 .. i : SubSeq(s, 1, i)[j] = s[j]
  OBVIOUS
<1>2. i \in 1 .. i /\ SubSeq(s, 1, i) # <<>>
  BY <1>1
<1> QED BY <1>1, <1>2 DEF Words, Last

(* A step looks at what was made of fewer characters. *)
LEMMA GreedyLooksBack ==
  ASSUME LanguageInv, NEW s \in Seq(Chars), NEW ign, NEW i \in 0 .. Len(s), NEW f, NEW g,
         \A j \in 0 .. Len(s) : j < i => f[j] = g[j]
  PROVE  GreedyNext(s, ign, f, i) = GreedyNext(s, ign, g, i)
<1>1. CASE i = 0
  BY <1>1 DEF GreedyNext
<1>2. CASE i # 0
  <2> DEFINE head == SubSeq(s, 1, i)
  <2>1. i \in 1 .. Len(s)
    BY <1>2
  <2>2. head \in Words /\ Len(head) = i
    BY <2>1, HeadFacts
  <2>3. ASSUME Defined(head) # {}
        PROVE  f[i - Len(LongestDefined(head))] = g[i - Len(LongestDefined(head))]
    <3> DEFINE n == Len(LongestDefined(head))
    <3>1. n \in Matched(head, 1) /\ Matched(head, 1) \subseteq 1 .. i
      <4>1. 1 \in 1 .. Len(head)
        BY <2>1, <2>2
      <4>2. Matched(head, 1) # {}
        BY <2>2, <2>3, DefinedFacts
      <4> QED BY <2>2, <2>3, <4>1, <4>2, MatchedFacts, DefinedFacts
    <3> HIDE DEF n
    <3>2. i - n \in 0 .. Len(s) /\ i - n < i
      BY <2>1, <3>1
    <3>3. f[i - n] = g[i - n]
      BY <3>2
    <3> QED BY <3>3 DEF n
  <2>4. f[i - 1] = g[i - 1]
    <3>1. i - 1 \in 0 .. Len(s) /\ i - 1 < i
      BY <2>1
    <3> QED BY <3>1
  <2> HIDE DEF head
  <2> QED BY <1>2, <2>3, <2>4 DEF GreedyNext, head
<1> QED BY <1>1, <1>2

(* There is one way of greedy encoding. *)
LEMMA GreedyExists ==
  ASSUME LanguageInv, NEW s \in Seq(Chars), NEW ign
  PROVE  \E f : Greedily(s, ign, f)
<1> DEFINE n == Len(s)
           T == {m \in 0 .. n : \E f : \A i \in 0 .. m : f[i] = GreedyNext(s, ign, f, i)}
<1>1. n \in Nat /\ 0 \in Nat /\ n \in 0 .. n
  OBVIOUS
<1>2. 0 \in T
  <2> DEFINE f == [i \in {0} |-> Encoded(<< >>)]
  <2>1. f[0] = Encoded(<< >>)
    OBVIOUS
  <2> HIDE DEF f
  <2>2. \A i \in 0 .. 0 : f[i] = GreedyNext(s, ign, f, i)
    BY <2>1 DEF GreedyNext
  <2> QED BY <1>1, <2>2
<1>3. ASSUME NEW m \in 0 .. n, m \in T, m # n
      PROVE  m + 1 \in T
  <2>1. PICK f : \A i \in 0 .. m : f[i] = GreedyNext(s, ign, f, i)
    BY <1>3
  <2> DEFINE more == GreedyNext(s, ign, f, m + 1)
             h == [i \in 0 .. m + 1 |-> IF i = m + 1 THEN more ELSE f[i]]
  <2>2. h[m + 1] = more /\ (\A i \in 0 .. m : h[i] = f[i]) /\ m + 1 \in 0 .. n
    BY <1>3
  <2> HIDE DEF h
  <2>3. \A i \in 0 .. m + 1 : GreedyNext(s, ign, h, i) = GreedyNext(s, ign, f, i)
    <3>1. ASSUME NEW i \in 0 .. m + 1
          PROVE  GreedyNext(s, ign, h, i) = GreedyNext(s, ign, f, i)
      <4>1. i \in 0 .. Len(s)
        BY <1>3
      <4>2. \A j \in 0 .. Len(s) : j < i => j \in 0 .. m
        BY <1>3
      <4>3. \A j \in 0 .. Len(s) : j < i => h[j] = f[j]
        BY <2>2, <4>2
      <4> QED BY <4>1, <4>3, GreedyLooksBack
    <3> QED BY <3>1
  <2>4. \A i \in 0 .. m + 1 : h[i] = GreedyNext(s, ign, h, i)
    <3>1. \A i \in 0 .. m + 1 : i = m + 1 \/ i \in 0 .. m
      BY <1>3
    <3> QED BY <2>1, <2>2, <2>3, <3>1
  <2> QED BY <2>2, <2>4
<1> HIDE DEF T, n
<1>4. n \in T
  BY <1>1, <1>2, <1>3, Stepwise
<1>5. PICK f : \A i \in 0 .. n : f[i] = GreedyNext(s, ign, f, i)
  BY <1>4 DEF T
<1> DEFINE g == [i \in 0 .. n |-> GreedyNext(s, ign, f, i)]
           h == [i \in 0 .. n |-> GreedyNext(s, ign, g, i)]
<1>6. \A i \in 0 .. n : g[i] = f[i] /\ h[i] = GreedyNext(s, ign, g, i)
  BY <1>5
<1>7. g = [i \in 0 .. n |-> g[i]] /\ h = [i \in 0 .. n |-> h[i]]
  OBVIOUS
<1>8. \A i \in 0 .. n : g[i] = GreedyNext(s, ign, f, i)
  OBVIOUS
<1> HIDE DEF g, h
<1>9. \A i \in 0 .. n : GreedyNext(s, ign, g, i) = GreedyNext(s, ign, f, i)
  BY <1>1, <1>6, GreedyLooksBack DEF n
<1>10. g = h
  BY <1>6, <1>7, <1>8, <1>9
<1>11. g = [i \in 0 .. Len(s) |-> GreedyNext(s, ign, g, i)]
  BY <1>10, Zenon DEF h, n
<1> QED BY <1>11 DEF Greedily

LEMMA GreedyUnique ==
  ASSUME LanguageInv, NEW s \in Seq(Chars), NEW ign, NEW f, Greedily(s, ign, f),
         NEW g, Greedily(s, ign, g)
  PROVE  f[Len(s)] = g[Len(s)]
<1> DEFINE n == Len(s)
           T == {i \in 0 .. n : f[i] = g[i]}
<1>1. n \in Nat /\ n \in 0 .. n
  OBVIOUS
<1>2. \A i \in 0 .. n : f[i] = GreedyNext(s, ign, f, i) /\ g[i] = GreedyNext(s, ign, g, i)
  BY DEF Greedily
<1>3. ASSUME NEW i \in 0 .. n, \A j \in 0 .. n : j < i => j \in T
      PROVE  i \in T
  <2>1. GreedyNext(s, ign, f, i) = GreedyNext(s, ign, g, i)
    BY <1>3, GreedyLooksBack
  <2> QED BY <1>2, <2>1
<1> HIDE DEF T
<1>4. \A i \in 0 .. n : i \in T
  BY <1>1, <1>3, FromBefore
<1> QED BY <1>1, <1>4 DEF T

(* The steps of greedy encoding. *)
LEMMA GreedySteps ==
  ASSUME LanguageInv, NEW s \in Seq(Chars), NEW ign
  PROVE  \E f : /\ Greedy(s, ign) = f[Len(s)]
                /\ \A i \in 0 .. Len(s) : f[i] = GreedyNext(s, ign, f, i)
<1> DEFINE f == CHOOSE g : Greedily(s, ign, g)
<1>1. Greedily(s, ign, f)
  BY GreedyExists
<1>2. Greedy(s, ign) = f[Len(s)]
  BY DEF Greedy
<1> HIDE DEF f
<1>3. \A i \in 0 .. Len(s) : f[i] = GreedyNext(s, ign, f, i)
  BY <1>1 DEF Greedily
<1> QED BY <1>2, <1>3

(* The deep way is greedy. *)
LEMMA DeepIsGreedy ==
  ASSUME LanguageInv, NEW s \in Seq(Chars), NEW ign
  PROVE  _encode_deep(s, ign) = Greedy(s, ign)
<1>1. ASSUME NEW f, NEW i \in 0 .. Len(s)
      PROVE  DeepNext(s, ign, f, i) = GreedyNext(s, ign, f, i)
  <2>1. CASE i = 0
    BY <2>1 DEF DeepNext, GreedyNext
  <2>2. CASE i # 0
    <3> DEFINE head == SubSeq(s, 1, i)
    <3>1. i \in 1 .. Len(s)
      BY <2>2
    <3>2. head \in Words /\ Last(head) = s[i]
      BY <3>1, HeadFacts
    <3>3. IsRoot(s[i]) <=> CanEnd(s[i])
      BY RootsEnd
    <3> HIDE DEF head
    <3>4. CASE ~ IsRoot(s[i])
      <4>1. Defined(head) = {}
        <5>1. ASSUME NEW q \in Defined(head)
              PROVE  CanEnd(s[i])
          <6>1. q \in DOMAIN dict /\ q \in Endings(head)
            BY DEF Defined
          <6>2. Last(q) = s[i]
            BY <3>2, <6>1, EndingFacts DEF Words
          <6> QED BY <6>1, <6>2 DEF CanEnd
        <5> QED BY <3>3, <3>4, <5>1
      <4> QED BY <2>2, <3>3, <3>4, <4>1 DEF DeepNext, GreedyNext, head
    <3>5. CASE IsRoot(s[i]) /\ Defined(head) # {}
      <4>1. Longest(head).token = dict[LongestDefined(head)]
            /\ Longest(head).length = Len(LongestDefined(head))
        BY <3>2, <3>5, LongestFinds
      <4>2. DeepNext(s, ign, f, i)
              = AndThen(f[i - Longest(head).length], Longest(head).token)
        BY <2>2, <3>5 DEF DeepNext, AndThen, head
      <4>3. GreedyNext(s, ign, f, i)
              = AndThen(f[i - Len(LongestDefined(head))], dict[LongestDefined(head)])
        BY <2>2, <3>5 DEF GreedyNext, head
      <4> QED BY <4>1, <4>2, <4>3
    <3>6. CASE IsRoot(s[i]) /\ Defined(head) = {}
      <4>1. Longest(head).token = InPath /\ Longest(head).length = 1
        BY <3>2, <3>6, LongestFinds
      <4>2. DeepNext(s, ign, f, i)
              = AndThen(f[i - Longest(head).length], Longest(head).token)
        BY <2>2, <3>6 DEF DeepNext, AndThen, head
      <4>3. GreedyNext(s, ign, f, i) = AndThen(f[i - 1], InPath)
        BY <2>2, <3>3, <3>6 DEF GreedyNext, head
      <4> QED BY <4>1, <4>2, <4>3
    <3> QED BY <3>4, <3>5, <3>6
  <2> QED BY <2>1, <2>2
<1>2. ASSUME NEW f
      PROVE  Deeply(s, ign, f) <=> Greedily(s, ign, f)
  <2>1. [i \in 0 .. Len(s) |-> DeepNext(s, ign, f, i)] = [i \in 0 .. Len(s) |-> GreedyNext(s, ign, f, i)]
    BY <1>1
  <2> QED BY <2>1 DEF Deeply, Greedily
<1>3. PICK g : Deeply(s, ign, g)
  BY <1>2, GreedyExists
<1> DEFINE d == CHOOSE f : Deeply(s, ign, f)
           f0 == CHOOSE f : Greedily(s, ign, f)
<1>4. Greedily(s, ign, d)
  BY <1>2, <1>3
<1>5. Greedily(s, ign, f0)
  BY GreedyExists
<1>6. _encode_deep(s, ign) = d[Len(s)] /\ Greedy(s, ign) = f0[Len(s)]
  BY DeepIs DEF Greedy
<1> HIDE DEF d, f0
<1> QED BY <1>4, <1>5, <1>6, GreedyUnique

-----------------------------------------------------------------------------
(* Going through a sequence *)

\* What is made of each member and of what was made of those before it.
Iterated(n, G, z, step) ==
    \E f \in [0 .. n -> G] : \A i \in 0 .. n : f[i] = IF i = 0 THEN z ELSE step[<<i, f[i - 1]>>]

LEMMA Iterates ==
  ASSUME NEW n \in Nat, NEW G, NEW z \in G, NEW step \in [(1 .. n) \X G -> G]
  PROVE  Iterated(n, G, z, step)
<1> DEFINE T == {m \in 0 .. n : \E f \in [0 .. m -> G] :
                   \A i \in 0 .. m : f[i] = IF i = 0 THEN z ELSE step[<<i, f[i - 1]>>]}
<1>1. 0 \in Nat /\ n \in 0 .. n
  OBVIOUS
<1>2. 0 \in T
  <2> DEFINE f == [i \in 0 .. 0 |-> z]
  <2>1. f \in [0 .. 0 -> G] /\ \A i \in 0 .. 0 : i = 0 /\ f[i] = z
    OBVIOUS
  <2> HIDE DEF f
  <2> QED BY <2>1
<1>3. ASSUME NEW m \in 0 .. n, m \in T, m # n
      PROVE  m + 1 \in T
  <2>1. PICK f \in [0 .. m -> G] : \A i \in 0 .. m : f[i] = IF i = 0 THEN z ELSE step[<<i, f[i - 1]>>]
    BY <1>3
  <2> DEFINE more == step[<<m + 1, f[m]>>]
             h == [i \in 0 .. m + 1 |-> IF i = m + 1 THEN more ELSE f[i]]
  <2>2. m \in 0 .. m /\ m + 1 \in 1 .. n /\ m + 1 \in 0 .. n /\ m + 1 # 0
    BY <1>3
  <2>3. more \in G
    BY <2>1, <2>2
  <2>4. (\A i \in 0 .. m + 1 : i # m + 1 => i \in 0 .. m /\ h[i] = f[i]) /\ h[m + 1] = more
    BY <2>2
  <2> HIDE DEF more
  <2>5. h \in [0 .. m + 1 -> G]
    BY <2>1, <2>3, <2>4
  <2> HIDE DEF h
  <2>6. ASSUME NEW i \in 0 .. m + 1
        PROVE  h[i] = IF i = 0 THEN z ELSE step[<<i, h[i - 1]>>]
    <3>1. CASE i = m + 1
      <4>1. h[i - 1] = f[m] /\ i # 0
        BY <2>2, <2>4, <3>1
      <4> QED BY <2>4, <3>1, <4>1 DEF more
    <3>2. CASE i # m + 1
      <4>1. i \in 0 .. m /\ h[i] = f[i] /\ (i # 0 => i - 1 \in 0 .. m + 1 /\ i - 1 # m + 1)
        BY <2>4, <3>2
      <4>2. i # 0 => h[i - 1] = f[i - 1]
        BY <2>4, <4>1
      <4> QED BY <2>1, <4>1, <4>2
    <3> QED BY <3>1, <3>2
  <2> QED BY <2>2, <2>5, <2>6
<1> HIDE DEF T
<1>4. n \in T
  BY <1>1, <1>2, <1>3, Stepwise
<1> QED BY <1>4 DEF T, Iterated

\* As Kept goes through s.
Keeping(s, S, kept) ==
    kept = [i \in 0 .. Len(s) |->
             IF i = 0 THEN << >>
             ELSE IF s[i] \in S THEN Append(kept[i - 1], s[i])
             ELSE kept[i - 1]]

LEMMA KeptIs ==
  ASSUME NEW s, NEW S
  PROVE  Kept(s, S) = (CHOOSE f : Keeping(s, S, f))[Len(s)]
BY Zenon DEF Kept, Keeping

\* Kept is what a sequence grows to, from nothing.
Grown(X, s, S) ==
    \E f \in [0 .. Len(s) -> Seq(X)] :
      /\ Kept(s, S) = f[Len(s)] /\ f[0] = << >>
      /\ \A i \in 1 .. Len(s) :
           f[i] = IF s[i] \in S THEN Append(f[i - 1], s[i]) ELSE f[i - 1]

LEMMA KeptSteps ==
  ASSUME NEW X, NEW s \in Seq(X), NEW S
  PROVE  Grown(X, s, S)
<1> DEFINE n == Len(s)
           step == [x \in (1 .. n) \X Seq(X) |->
                     IF s[x[1]] \in S THEN Append(x[2], s[x[1]]) ELSE x[2]]
<1>1. n \in Nat /\ << >> \in Seq(X) /\ \A i \in 1 .. n : s[i] \in X
  OBVIOUS
<1>2. \A i \in 1 .. n : \A g \in Seq(X) :
        step[<<i, g>>] = IF s[i] \in S THEN Append(g, s[i]) ELSE g
  OBVIOUS
<1>3. step \in [(1 .. n) \X Seq(X) -> Seq(X)]
  <2>1. ASSUME NEW x \in (1 .. n) \X Seq(X)
        PROVE  (IF s[x[1]] \in S THEN Append(x[2], s[x[1]]) ELSE x[2]) \in Seq(X)
    <3>1. x[1] \in 1 .. n /\ x[2] \in Seq(X) /\ s[x[1]] \in X
      BY <1>1
    <3> QED BY <3>1
  <2> QED BY <2>1
<1> HIDE DEF step, n
<1> DEFINE G == Seq(X)
           z == << >>
<1>4. PICK h \in [0 .. n -> Seq(X)] :
        \A i \in 0 .. n : h[i] = IF i = 0 THEN << >> ELSE step[<<i, h[i - 1]>>]
  <2>1. n \in Nat /\ z \in G /\ step \in [(1 .. n) \X G -> G]
    BY <1>1, <1>3
  <2> HIDE DEF G, z
  <2>2. Iterated(n, G, z, step)
    BY <2>1, Iterates
  <2> QED BY <2>2 DEF G, z, Iterated
<1> DEFINE loop == [i \in 0 .. n |->
                     IF i = 0 THEN << >>
                     ELSE IF s[i] \in S THEN Append(h[i - 1], s[i])
                     ELSE h[i - 1]]
<1>5. ASSUME NEW i \in 0 .. n
      PROVE  h[i] = loop[i]
  <2>1. CASE i = 0
    BY <1>4, <2>1
  <2>2. CASE i # 0
    <3>1. i \in 1 .. n /\ i - 1 \in 0 .. n
      BY <1>1, <2>2
    <3>2. h[i - 1] \in Seq(X)
      BY <3>1
    <3>3. h[i] = IF s[i] \in S THEN Append(h[i - 1], s[i]) ELSE h[i - 1]
      BY <1>2, <1>4, <2>2, <3>1, <3>2
    <3> QED BY <2>2, <3>3
  <2> QED BY <2>1, <2>2
<1>6. h = loop
  <2>1. h = [i \in 0 .. n |-> h[i]] /\ loop = [i \in 0 .. n |-> loop[i]]
    OBVIOUS
  <2> HIDE DEF loop
  <2> QED BY <1>5, <2>1
<1>7. Keeping(s, S, h)
  BY <1>6, Zenon DEF Keeping, n
<1> HIDE DEF loop
<1> DEFINE f == CHOOSE g : Keeping(s, S, g)
<1>8. Keeping(s, S, f) /\ Kept(s, S) = f[Len(s)]
  BY <1>7, KeptIs
<1> HIDE DEF f
<1>9. \A i \in 0 .. n :
        f[i] = IF i = 0 THEN << >> ELSE IF s[i] \in S THEN Append(f[i - 1], s[i]) ELSE f[i - 1]
  BY <1>8 DEF Keeping, n
<1> DEFINE T == {i \in 0 .. n : f[i] \in Seq(X)}
<1>10. \A i \in 0 .. n : i \in T
  <2>1. 0 \in T
    <3>1. 0 \in 0 .. n /\ f[0] = << >>
      BY <1>1, <1>9
    <3> QED BY <1>1, <3>1
  <2>2. ASSUME NEW i \in 0 .. n, i \in T, i # n
        PROVE  i + 1 \in T
    <3>1. i + 1 \in 1 .. n /\ i + 1 \in 0 .. n /\ (i + 1) - 1 = i /\ s[i + 1] \in X
      BY <1>1, <2>2
    <3>2. f[i + 1] = IF s[i + 1] \in S THEN Append(f[i], s[i + 1]) ELSE f[i]
      BY <1>9, <3>1
    <3>3. f[i] \in Seq(X)
      BY <2>2
    <3>4. f[i + 1] \in Seq(X)
      BY <3>1, <3>2, <3>3
    <3> QED BY <3>1, <3>4
  <2>3. 0 \in Nat
    OBVIOUS
  <2> HIDE DEF T
  <2> QED BY <1>1, <2>1, <2>2, <2>3, Stepwise
<1>11. f \in [0 .. n -> Seq(X)]
  <2>1. f = [i \in 0 .. n |-> f[i]]
    <3>1. DOMAIN f = 0 .. n /\ f = [i \in DOMAIN f |-> f[i]]
      BY <1>8 DEF Keeping, n
    <3> QED BY <3>1
  <2>2. \A i \in 0 .. n : f[i] \in Seq(X)
    BY <1>10
  <2> QED BY <2>1, <2>2
<1>12. f[0] = << >>
  BY <1>1, <1>9
<1>13. \A i \in 1 .. n : f[i] = IF s[i] \in S THEN Append(f[i - 1], s[i]) ELSE f[i - 1]
  BY <1>9
<1> QED BY <1>8, <1>11, <1>12, <1>13 DEF n, Grown

\* As decode goes through the tokens.
Writing(tokens, written) ==
    written = [i \in 0 .. Len(tokens) |->
                IF i = 0 THEN << >>
                ELSE IF tokens[i] \in DOMAIN decoder THEN written[i - 1] \o decoder[tokens[i]]
                ELSE written[i - 1]]

LEMMA DecodeIs ==
  ASSUME NEW tokens
  PROVE  decode(tokens) = (CHOOSE f : Writing(tokens, f))[Len(tokens)]
BY Zenon DEF decode, Writing

\* The numbers a text is encoded to.
Codes == Seq(TokenIds \cup {InPath})

LEMMA DecodeSteps ==
  ASSUME LanguageInv, NEW tokens \in Codes
  PROVE  /\ Writing(tokens, CHOOSE f : Writing(tokens, f))
         /\ \A f : Writing(tokens, f) =>
              /\ decode(tokens) = f[Len(tokens)]
              /\ \A i \in 0 .. Len(tokens) : f[i] \in Seq(Chars)
<1> DEFINE n == Len(tokens)
           D == DOMAIN decoder
           step == [x \in (1 .. n) \X Seq(Chars) |->
                     IF tokens[x[1]] \in D THEN x[2] \o decoder[tokens[x[1]]] ELSE x[2]]
<1>1. n \in Nat /\ << >> \in Seq(Chars) /\ n \in 0 .. n /\ 0 \in 0 .. n /\ 0 \in Nat
  BY DEF Codes
<1>2. \A t \in D : decoder[t] \in Seq(Chars)
  BY LanguageAssumption DEF LanguageInv, Decoding
<1>3. \A i \in 1 .. n : \A g \in Seq(Chars) :
        step[<<i, g>>] = IF tokens[i] \in D THEN g \o decoder[tokens[i]] ELSE g
  OBVIOUS
<1>4. step \in [(1 .. n) \X Seq(Chars) -> Seq(Chars)]
  <2>1. ASSUME NEW x \in (1 .. n) \X Seq(Chars)
        PROVE  (IF tokens[x[1]] \in D THEN x[2] \o decoder[tokens[x[1]]] ELSE x[2]) \in Seq(Chars)
    <3>1. x[2] \in Seq(Chars)
      OBVIOUS
    <3> QED BY <1>2, <3>1
  <2> QED BY <2>1
<1> HIDE DEF step, n, D
<1> DEFINE G == Seq(Chars)
           z == << >>
<1>5. PICK h \in [0 .. n -> Seq(Chars)] :
        \A i \in 0 .. n : h[i] = IF i = 0 THEN << >> ELSE step[<<i, h[i - 1]>>]
  <2>1. n \in Nat /\ z \in G /\ step \in [(1 .. n) \X G -> G]
    BY <1>1, <1>4
  <2> HIDE DEF G, z
  <2>2. Iterated(n, G, z, step)
    BY <2>1, Iterates
  <2> QED BY <2>2 DEF G, z, Iterated
<1> DEFINE loop == [i \in 0 .. n |->
                     IF i = 0 THEN << >>
                     ELSE IF tokens[i] \in D THEN h[i - 1] \o decoder[tokens[i]]
                     ELSE h[i - 1]]
<1>6. ASSUME NEW i \in 0 .. n
      PROVE  h[i] = loop[i]
  <2>1. CASE i = 0
    BY <1>5, <2>1
  <2>2. CASE i # 0
    <3>1. i \in 1 .. n /\ i - 1 \in 0 .. n
      BY <1>1, <2>2
    <3>2. h[i - 1] \in Seq(Chars)
      BY <3>1
    <3>3. h[i] = IF tokens[i] \in D THEN h[i - 1] \o decoder[tokens[i]] ELSE h[i - 1]
      BY <1>3, <1>5, <2>2, <3>1, <3>2
    <3> QED BY <2>2, <3>3
  <2> QED BY <2>1, <2>2
<1>7. h = loop
  <2>1. h = [i \in 0 .. n |-> h[i]] /\ loop = [i \in 0 .. n |-> loop[i]]
    OBVIOUS
  <2> HIDE DEF loop
  <2> QED BY <1>6, <2>1
<1>8. Writing(tokens, h)
  BY <1>7, Zenon DEF Writing, n, D
<1> HIDE DEF loop
<1>9. ASSUME NEW f, Writing(tokens, f)
      PROVE  \A i \in 0 .. n : f[i] = h[i]
  <2>1. \A i \in 0 .. n : f[i] = IF i = 0 THEN << >>
                                 ELSE IF tokens[i] \in D THEN f[i - 1] \o decoder[tokens[i]]
                                 ELSE f[i - 1]
    BY <1>9 DEF Writing, n, D
  <2>2. \A i \in 0 .. n : h[i] = IF i = 0 THEN << >>
                                 ELSE IF tokens[i] \in D THEN h[i - 1] \o decoder[tokens[i]]
                                 ELSE h[i - 1]
    BY <1>8 DEF Writing, n, D
  <2> DEFINE T == {i \in 0 .. n : f[i] = h[i]}
  <2>3. 0 \in T
    BY <1>1, <2>1, <2>2
  <2>4. ASSUME NEW i \in 0 .. n, i \in T, i # n
        PROVE  i + 1 \in T
    <3>1. i + 1 \in 0 .. n /\ i + 1 # 0 /\ (i + 1) - 1 = i
      BY <1>1, <2>4
    <3>2. f[i + 1] = IF tokens[i + 1] \in D THEN f[i] \o decoder[tokens[i + 1]] ELSE f[i]
      BY <2>1, <3>1
    <3>3. h[i + 1] = IF tokens[i + 1] \in D THEN h[i] \o decoder[tokens[i + 1]] ELSE h[i]
      BY <2>2, <3>1
    <3> QED BY <2>4, <3>1, <3>2, <3>3
  <2> HIDE DEF T
  <2>5. \A i \in 0 .. n : i \in T
    BY <1>1, <2>3, <2>4, Stepwise
  <2> QED BY <2>5 DEF T
<1> DEFINE c == CHOOSE f : Writing(tokens, f)
<1>10. Writing(tokens, c) /\ decode(tokens) = c[n]
  BY <1>8, DecodeIs DEF n
<1> HIDE DEF c
<1>11. c[n] = h[n]
  BY <1>1, <1>9, <1>10
<1>12. ASSUME NEW f, Writing(tokens, f)
       PROVE  decode(tokens) = f[n] /\ \A i \in 0 .. n : f[i] \in Seq(Chars)
  BY <1>1, <1>9, <1>10, <1>11, <1>12
<1> QED BY <1>10, <1>12 DEF c, n

(* One more token is one more string, if the decoder knows it. *)
LEMMA DecodeMore ==
  ASSUME LanguageInv, NEW tokens \in Codes, NEW t \in TokenIds \cup {InPath}
  PROVE  /\ decode(<< >>) = << >> /\ decode(tokens) \in Seq(Chars)
         /\ decode(Append(tokens, t)) =
              IF t \in DOMAIN decoder THEN decode(tokens) \o decoder[t] ELSE decode(tokens)
<1> DEFINE n == Len(tokens)
           more == Append(tokens, t)
           f == CHOOSE g : Writing(tokens, g)
           h == CHOOSE g : Writing(more, g)
           e == CHOOSE g : Writing(<< >>, g)
<1>1. n \in Nat /\ n \in 0 .. n /\ 0 \in 0 .. n /\ 0 \in Nat /\ << >> \in Codes /\ Len(<< >>) = 0
  BY DEF Codes
<1>2. more \in Codes /\ Len(more) = n + 1 /\ more[n + 1] = t /\ \A i \in 1 .. n : more[i] = tokens[i]
  BY DEF Codes
<1> HIDE DEF more
<1>3. Writing(tokens, f) /\ decode(tokens) = f[n] /\ f[n] \in Seq(Chars)
  BY <1>1, DecodeSteps
<1>4. Writing(more, h) /\ decode(more) = h[n + 1]
  BY <1>2, DecodeSteps
<1>5. Writing(<< >>, e) /\ decode(<< >>) = e[0]
  BY <1>1, DecodeSteps
<1> HIDE DEF f, h, e
<1>6. e[0] = << >>
  BY <1>1, <1>5 DEF Writing
<1>7. \A i \in 0 .. n : f[i] = IF i = 0 THEN << >>
                               ELSE IF tokens[i] \in DOMAIN decoder
                                    THEN f[i - 1] \o decoder[tokens[i]]
                               ELSE f[i - 1]
  BY <1>3 DEF Writing
<1>8. \A i \in 0 .. n + 1 : h[i] = IF i = 0 THEN << >>
                                   ELSE IF more[i] \in DOMAIN decoder
                                        THEN h[i - 1] \o decoder[more[i]]
                                   ELSE h[i - 1]
  BY <1>2, <1>4 DEF Writing
<1> DEFINE T == {i \in 0 .. n : f[i] = h[i]}
<1>9. 0 \in T
  BY <1>1, <1>7, <1>8
<1>10. ASSUME NEW i \in 0 .. n, i \in T, i # n
       PROVE  i + 1 \in T
  <2>1. i + 1 \in 0 .. n /\ i + 1 \in 0 .. n + 1 /\ i + 1 \in 1 .. n /\ i + 1 # 0 /\ (i + 1) - 1 = i
    BY <1>1, <1>10
  <2>2. f[i + 1] = IF tokens[i + 1] \in DOMAIN decoder THEN f[i] \o decoder[tokens[i + 1]] ELSE f[i]
    BY <1>7, <2>1
  <2>3. h[i + 1] = IF more[i + 1] \in DOMAIN decoder THEN h[i] \o decoder[more[i + 1]] ELSE h[i]
    BY <1>8, <2>1
  <2>4. more[i + 1] = tokens[i + 1]
    BY <1>2, <2>1
  <2> QED BY <1>10, <2>1, <2>2, <2>3, <2>4
<1> HIDE DEF T
<1>11. n \in T
  BY <1>1, <1>9, <1>10, Stepwise
<1>12. h[n] = f[n]
  BY <1>11 DEF T
<1>13. h[n + 1] = IF t \in DOMAIN decoder THEN h[n] \o decoder[t] ELSE h[n]
  <2>1. n + 1 \in 0 .. n + 1 /\ n + 1 # 0 /\ (n + 1) - 1 = n
    BY <1>1
  <2> QED BY <1>2, <1>8, <2>1
<1> QED BY <1>3, <1>4, <1>5, <1>6, <1>12, <1>13 DEF more

-----------------------------------------------------------------------------
(* Encoding where every string is a character *)

\* The tokens of the characters of s.
Single(s) == [i \in DOMAIN s |-> token[<<s[i]>>]]

LEMMA SingleMore ==
  ASSUME NEW s \in Seq(Chars), NEW c \in Chars
  PROVE  Single(Append(s, c)) = Append(Single(s), token[<<c>>])
<1> DEFINE n == Len(s)
           t == token[<<c>>]
           more == Append(s, c)
<1>1. n \in Nat /\ DOMAIN s = 1 .. n
  OBVIOUS
<1>2. Len(more) = n + 1 /\ DOMAIN more = 1 .. n + 1 /\ more[n + 1] = c
      /\ \A i \in 1 .. n : more[i] = s[i]
  OBVIOUS
<1> DEFINE V == {token[<<s[i]>>] : i \in 1 .. n} \cup {t}
<1>3. Single(s) \in Seq(V) /\ Len(Single(s)) = n /\ t \in V
  <2>1. Single(s) \in [1 .. n -> V]
    BY <1>1 DEF Single
  <2> HIDE DEF V
  <2>2. Single(s) \in Seq(V)
    BY <1>1, <2>1
  <2>3. DOMAIN Single(s) = 1 .. n
    BY <1>1 DEF Single
  <2>4. t \in V
    BY DEF V
  <2> QED BY <1>1, <2>2, <2>3, <2>4
<1> HIDE DEF V, n, t, more
<1> DEFINE u == Append(Single(s), t)
<1>4. u \in Seq(V) /\ Len(u) = n + 1 /\ u[n + 1] = t /\ \A i \in 1 .. n : u[i] = Single(s)[i]
  BY <1>1, <1>3
<1> HIDE DEF u
<1>5. u = [i \in 1 .. n + 1 |-> u[i]]
  <2>1. u \in [1 .. n + 1 -> V]
    BY <1>4
  <2> QED BY <2>1
<1>6. Single(more) = [i \in 1 .. n + 1 |-> token[<<more[i]>>]]
  BY <1>2 DEF Single
<1>7. ASSUME NEW i \in 1 .. n + 1
      PROVE  u[i] = token[<<more[i]>>]
  <2>1. CASE i = n + 1
    BY <1>2, <1>4, <2>1 DEF t
  <2>2. CASE i # n + 1
    <3>1. i \in 1 .. n
      BY <1>1, <2>2
    <3> QED BY <1>1, <1>2, <1>4, <3>1 DEF Single
  <2> QED BY <2>1, <2>2
<1>8. Single(more) = u
  BY <1>5, <1>6, <1>7
<1> QED BY <1>8 DEF u, more, t

(* With a depth of one a text ends with its last character, or with nothing defined. *)
LEMMA FlatDefined ==
  ASSUME LanguageInv, depth = 1, NEW s \in Words
  PROVE  /\ IsRoot(Last(s)) => Defined(s) = {<<Last(s)>>} /\ LongestDefined(s) = <<Last(s)>>
                               /\ Len(LongestDefined(s)) = 1
                               /\ dict[LongestDefined(s)] = token[<<Last(s)>>]
         /\ ~IsRoot(Last(s)) => Defined(s) = {} /\ ~CanEnd(Last(s))
<1>1. /\ DOMAIN dict \subseteq Encoders /\ \A q \in DOMAIN dict : dict[q] = token[q]
      /\ Encoders \subseteq Words /\ Encoders = UNION {Endings(p) : p \in DOMAIN dict}
  BY DictFacts DEF LanguageInv, Forest, Encoders, dict
<1>2. \A q \in Encoders : Len(q) = 1
  <2>1. \A q \in Words : Len(q) \in Nat \ {0}
    BY DEF Words
  <2>2. \A q \in Encoders : Len(q) <= depth
    BY DEF LanguageInv, Deep
  <2>3. Encoders \subseteq Words
    BY <1>1
  <2>4. ASSUME NEW q \in Encoders
        PROVE  Len(q) = 1
    <3>1. Len(q) \in Nat \ {0} /\ Len(q) <= 1
      BY <2>1, <2>2, <2>3
    <3>2. \A x \in Nat \ {0} : x <= 1 => x = 1
      OBVIOUS
    <3> QED BY <3>1, <3>2, Zenon
  <2> QED BY <2>4
<1>3. s \in Seq(Chars) /\ Len(s) \in Nat \ {0} /\ 1 \in 1 .. Len(s)
  BY DEF Words
<1>4. /\ Endings(s) = {Ending(s, n) : n \in 1 .. Len(s)}
      /\ \A n \in 1 .. Len(s) : Ending(s, n) \in Words /\ Len(Ending(s, n)) = n
      /\ Last(Ending(s, 1)) = Last(s)
  BY <1>3, EndingFacts
<1>5. Ending(s, 1) = <<Last(s)>>
  <2>1. Ending(s, 1) \in Words /\ Len(Ending(s, 1)) = 1 /\ Last(Ending(s, 1)) = Last(s)
    BY <1>3, <1>4
  <2> QED BY <2>1 DEF Last, Words
<1>6. \A q \in Endings(s) : Len(q) = 1 => q = <<Last(s)>>
  BY <1>4, <1>5
<1>7. \A q \in Defined(s) : q = <<Last(s)>>
  BY <1>1, <1>2, <1>6 DEF Defined
<1>8. IsRoot(Last(s)) => <<Last(s)>> \in DOMAIN dict
  <2>1. ASSUME IsRoot(Last(s))
        PROVE  <<Last(s)>> \in DOMAIN dict
    <3>1. PICK p \in DOMAIN dict : <<Last(s)>> \in Endings(p)
      BY <1>1, <2>1 DEF IsRoot
    <3>2. p \in Words /\ Len(p) = 1
      BY <1>1, <1>2
    <3>3. PICK n \in 1 .. Len(p) : <<Last(s)>> = Ending(p, n)
      BY <3>1, <3>2, EndingFacts DEF Words
    <3>4. <<Last(s)>> = Ending(p, Len(p))
      BY <3>2, <3>3
    <3>5. Ending(p, Len(p)) = p
      BY <3>2, EndingFacts DEF Words
    <3> QED BY <3>4, <3>5
  <2> QED BY <2>1
<1>9. <<Last(s)>> \in Endings(s)
  BY <1>3, <1>4, <1>5
<1>10. ASSUME IsRoot(Last(s))
       PROVE  Defined(s) = {<<Last(s)>>} /\ LongestDefined(s) = <<Last(s)>>
              /\ Len(LongestDefined(s)) = 1 /\ dict[LongestDefined(s)] = token[<<Last(s)>>]
  <2>1. Defined(s) = {<<Last(s)>>}
    BY <1>7, <1>8, <1>9, <1>10 DEF Defined
  <2>2. LongestDefined(s) \in Defined(s)
    BY <2>1 DEF LongestDefined
  <2>3. Len(<<Last(s)>>) = 1
    OBVIOUS
  <2> QED BY <1>1, <1>8, <1>10, <2>1, <2>2, <2>3
<1>11. ASSUME ~IsRoot(Last(s))
       PROVE  Defined(s) = {} /\ ~CanEnd(Last(s))
  <2>1. ~CanEnd(Last(s))
    BY <1>11, RootsEnd
  <2> QED BY <1>1, <1>7, <1>11, <2>1 DEF Defined, IsRoot
<1> QED BY <1>10, <1>11

LEMMA AndThenIs ==
  /\ \A t : AndThen(Refused, t) = Refused
  /\ \A tokens : \A t : AndThen(Encoded(tokens), t) = Encoded(Append(tokens, t))
BY DEF AndThen, Refused, Encoded

(* The flat way is greedy too, where every string is a character. *)
LEMMA FlatIsGreedy ==
  ASSUME LanguageInv, depth = 1, NEW s \in Seq(Chars), NEW ign \in BOOLEAN
  PROVE  _encode_flat(s, ign) = Greedy(s, ign)
<1> DEFINE n == Len(s)
           S == {c \in Chars : IsRoot(c)}
<1>1. n \in Nat /\ 0 \in Nat /\ n \in 0 .. n /\ 0 \in 0 .. n /\ \A i \in 1 .. n : s[i] \in Chars
  OBVIOUS
<1>2. PICK f : Greedy(s, ign) = f[n] /\ \A i \in 0 .. n : f[i] = GreedyNext(s, ign, f, i)
  BY GreedySteps
<1>3. PICK k \in [0 .. n -> Seq(Chars)] :
        /\ Kept(s, S) = k[n] /\ k[0] = << >>
        /\ \A i \in 1 .. n : k[i] = IF s[i] \in S THEN Append(k[i - 1], s[i]) ELSE k[i - 1]
  <2> HIDE DEF S
  <2>1. Grown(Chars, s, S)
    BY KeptSteps
  <2> QED BY <2>1 DEF Grown
<1>4. ASSUME NEW i \in 1 .. n
      PROVE  f[i] = IF IsRoot(s[i]) THEN AndThen(f[i - 1], token[<<s[i]>>])
                    ELSE IF ign THEN f[i - 1]
                    ELSE Refused
  <2> DEFINE head == SubSeq(s, 1, i)
  <2>1. head \in Words /\ Last(head) = s[i]
    BY HeadFacts
  <2>2. f[i] = GreedyNext(s, ign, f, i) /\ i # 0
    BY <1>2
  <2>3. CASE IsRoot(s[i])
    <3>1. Defined(head) # {} /\ Len(LongestDefined(head)) = 1
          /\ dict[LongestDefined(head)] = token[<<s[i]>>]
      <4> HIDE DEF head
      <4> QED BY <2>1, <2>3, FlatDefined
    <3> QED BY <2>2, <2>3, <3>1 DEF GreedyNext
  <2>4. CASE ~IsRoot(s[i])
    <3>1. Defined(head) = {} /\ ~CanEnd(s[i])
      <4> HIDE DEF head
      <4> QED BY <2>1, <2>4, FlatDefined
    <3> QED BY <2>2, <2>4, <3>1 DEF GreedyNext
  <2> QED BY <2>3, <2>4
<1> DEFINE bad(i) == ~ign /\ \E j \in 1 .. i : ~IsRoot(s[j])
           T == {i \in 0 .. n : f[i] = IF bad(i) THEN Refused ELSE Encoded(Single(k[i]))}
<1>5. 0 \in T
  <2>1. f[0] = Encoded(<< >>)
    BY <1>1, <1>2 DEF GreedyNext
  <2>2. Single(k[0]) = << >>
    BY <1>3 DEF Single
  <2>3. ~bad(0)
    OBVIOUS
  <2> QED BY <1>1, <2>1, <2>2, <2>3
<1>6. ASSUME NEW i \in 0 .. n, i \in T, i # n
      PROVE  i + 1 \in T
  <2>1. i + 1 \in 1 .. n /\ i + 1 \in 0 .. n /\ (i + 1) - 1 = i /\ s[i + 1] \in Chars
    BY <1>1, <1>6
  <2>2. f[i] = IF bad(i) THEN Refused ELSE Encoded(Single(k[i]))
    BY <1>6
  <2>3. f[i + 1] = IF IsRoot(s[i + 1]) THEN AndThen(f[i], token[<<s[i + 1]>>])
                   ELSE IF ign THEN f[i]
                   ELSE Refused
    BY <1>4, <2>1
  <2>4. k[i + 1] = IF IsRoot(s[i + 1]) THEN Append(k[i], s[i + 1]) ELSE k[i]
    BY <1>3, <2>1
  <2>5. bad(i + 1) <=> bad(i) \/ (~ign /\ ~IsRoot(s[i + 1]))
    <3>1. \A j \in 1 .. i + 1 : j \in 1 .. i \/ j = i + 1
      BY <1>1, <1>6
    <3>2. \A j \in 1 .. i : j \in 1 .. i + 1
      BY <1>1, <1>6
    <3> QED BY <2>1, <3>1, <3>2
  <2>6. k[i] \in Seq(Chars)
    BY <1>3
  <2> HIDE DEF bad
  <2>7. f[i + 1] = IF bad(i + 1) THEN Refused ELSE Encoded(Single(k[i + 1]))
    <3>1. CASE IsRoot(s[i + 1])
      <4>1. Single(k[i + 1]) = Append(Single(k[i]), token[<<s[i + 1]>>])
        BY <2>1, <2>4, <2>6, <3>1, SingleMore
      <4>2. f[i + 1] = AndThen(f[i], token[<<s[i + 1]>>])
        BY <2>3, <3>1
      <4> QED BY <2>2, <2>5, <3>1, <4>1, <4>2, AndThenIs
    <3>2. CASE ~IsRoot(s[i + 1])
      BY <2>2, <2>3, <2>4, <2>5, <3>2
    <3> QED BY <3>1, <3>2
  <2> QED BY <2>1, <2>7 DEF bad
<1> HIDE DEF T
<1>7. n \in T
  BY <1>1, <1>5, <1>6, Stepwise
<1>8. f[n] = IF bad(n) THEN Refused ELSE Encoded(Single(Kept(s, S)))
  BY <1>3, <1>7 DEF T
<1>9. bad(n) <=> ~ign /\ \E i \in DOMAIN s : ~IsRoot(s[i])
  <2>1. DOMAIN s = 1 .. n
    OBVIOUS
  <2> QED BY <2>1
<1>10. Encoded(Single(Kept(s, S)))
        = LET known == Kept(s, {c \in Chars : IsRoot(c)})
          IN  Encoded([i \in DOMAIN known |-> token[<<known[i]>>]])
  BY Zenon DEF Single
<1> HIDE DEF bad
<1>11. _encode_flat(s, ign) = IF bad(n) THEN Refused ELSE Encoded(Single(Kept(s, S)))
  <2>1. _encode_flat(s, ign) =
          IF ~ign /\ \E i \in DOMAIN s : ~IsRoot(s[i]) THEN Refused
          ELSE LET known == Kept(s, {c \in Chars : IsRoot(c)})
               IN  Encoded([i \in DOMAIN known |-> token[<<known[i]>>]])
    BY Zenon DEF _encode_flat
  <2> HIDE DEF S
  <2> QED BY <1>9, <1>10, <2>1
<1> QED BY <1>2, <1>8, <1>11

(* Whichever way encode chooses, it is greedy. *)
LEMMA EncodeIsGreedy ==
  ASSUME LanguageInv, NEW s \in Seq(Chars), NEW ign \in BOOLEAN
  PROVE  encode(s, ign) = Greedy(s, ign)
BY FlatIsGreedy, DeepIsGreedy DEF encode

(***************************************************************************)
(* Both ways of encoding give the longest defined string from the end on:  *)
(* for every alphabet, every dictionary that definitions and reloads lead  *)
(* to, and every text.                                                     *)
(***************************************************************************)
THEOREM EncodesGreedilyAlways == Spec => []EncodesGreedily
<1>1. ASSUME LanguageInv
      PROVE  EncodesGreedily
  <2>1. ASSUME NEW s \in Texts
        PROVE  s \in Seq(Chars)
    <3>1. PICK n \in 0 .. MaxText : s \in [1 .. n -> Chars]
      BY DEF Texts
    <3>2. n \in Nat
      BY LanguageAssumption
    <3> QED BY <3>1, <3>2
  <2> QED BY <1>1, <2>1, EncodeIsGreedy, GreedyIs
<1> QED BY <1>1, LanguageInvAlways, PTL

-----------------------------------------------------------------------------
(* Dumping and reading *)

\* Encoding, by given encoders and a given depth.
LongestBy(tk, s) ==
    LET found[n \in 1 .. Len(s)] ==
          IF n < Len(s) /\ Ending(s, n + 1) \in DOMAIN tk /\ found[n + 1].token # InPath
          THEN found[n + 1]
          ELSE [token |-> tk[Ending(s, n)], length |-> n]
    IN  found[1]
FlatBy(tk, s, ign) ==
    IF ~ign /\ \E i \in DOMAIN s : ~ (<<s[i]>> \in DOMAIN tk) THEN Refused
    ELSE LET known == Kept(s, {c \in Chars : <<c>> \in DOMAIN tk})
         IN  Encoded([i \in DOMAIN known |-> tk[<<known[i]>>]])
DeepBy(tk, s, ign) ==
    LET upto[i \in 0 .. Len(s)] ==
          IF i = 0 THEN Encoded(<< >>)
          ELSE IF ~ (<<s[i]>> \in DOMAIN tk) THEN (IF ign THEN upto[i - 1] ELSE Refused)
          ELSE LET last == LongestBy(tk, SubSeq(s, 1, i))
                   rest == upto[i - last.length]
               IN  IF rest.refused THEN Refused
                   ELSE Encoded(Append(rest.tokens, last.token))
    IN  upto[Len(s)]

(* A text is encoded the same as long as the encoders and the depth are the same. *)
LEMMA SameEncoding ==
  ASSUME token' = token, depth' = depth, NEW s, NEW ign
  PROVE  encode(s, ign)' = encode(s, ign)
<1>1. _encode_flat(s, ign) = FlatBy(token, s, ign)
  BY Zenon DEF _encode_flat, FlatBy, IsRoot, Encoders
<1>2. _encode_flat(s, ign)' = FlatBy(token', s, ign)
  BY Zenon DEF _encode_flat, FlatBy, IsRoot, Encoders
<1>3. _encode_deep(s, ign) = DeepBy(token, s, ign)
  BY Zenon DEF _encode_deep, DeepBy, Longest, LongestBy, IsRoot, Encoders
<1>4. _encode_deep(s, ign)' = DeepBy(token', s, ign)
  BY Zenon DEF _encode_deep, DeepBy, Longest, LongestBy, IsRoot, Encoders
<1>5. _encode_flat(s, ign)' = _encode_flat(s, ign) /\ _encode_deep(s, ign)' = _encode_deep(s, ign)
  BY <1>1, <1>2, <1>3, <1>4
<1> QED BY <1>5 DEF encode

(***************************************************************************)
(* Dumping a language and reading it again, under every name and with or   *)
(* without compression, leaves the dictionary and the encoding of every    *)
(* text as they were, and the new decoder knows every token in use.        *)
(***************************************************************************)
THEOREM ReloadKeepsAlways == Spec => ReloadKeeps
<1> DEFINE A ==
      /\ \A gz, compress \in BOOLEAN : Readable(write_binary_file(gz, Message, compress))
      /\ (\E gz, compress \in BOOLEAN : Reload(gz, compress)) =>
           /\ dict' = dict
           /\ \A s \in Texts : encode(s, TRUE)' = encode(s, TRUE)
           /\ \A p \in DOMAIN dict' : dict'[p] \in DOMAIN decoder'
<1>1. ASSUME LanguageInv
      PROVE  A
  <2>1. \A gz, compress \in BOOLEAN : Readable(write_binary_file(gz, Message, compress))
    BY DEF Readable, write_binary_file
  <2>2. ASSUME \E gz, compress \in BOOLEAN : Reload(gz, compress)
        PROVE  /\ dict' = dict
               /\ \A s \in Texts : encode(s, TRUE)' = encode(s, TRUE)
               /\ \A p \in DOMAIN dict' : dict'[p] \in DOMAIN decoder'
    <3>1. token' = token /\ depth' = depth /\ decoder' \in Decoders(Dict(token))
      BY <1>1, <2>2, Reloaded
    <3>2. dict' = dict
      BY <3>1 DEF dict
    <3>3. \A s \in Texts : encode(s, TRUE)' = encode(s, TRUE)
      BY <3>1, SameEncoding
    <3>4. \A p \in DOMAIN Dict(token) : Dict(token)[p] \in DOMAIN decoder'
      BY <1>1, <3>1, NewDecoder DEF LanguageInv
    <3> QED BY <3>2, <3>3, <3>4 DEF dict
  <2> QED BY <2>1, <2>2
<1>2. LanguageInv /\ [Next]_vars => [A]_vars
  BY <1>1
<1> QED BY <1>2, LanguageInvAlways, PTL DEF Spec, ReloadKeeps

-----------------------------------------------------------------------------
(* Decoding what was encoded *)

(* The longest string at the end of a beginning of a text. *)
LEMMA HeadDefined ==
  ASSUME LanguageInv, NEW s \in Seq(Chars), NEW i \in 1 .. Len(s), NEW q,
         Defined(SubSeq(s, 1, i)) # {}, q = LongestDefined(SubSeq(s, 1, i))
  PROVE  /\ q \in DOMAIN dict /\ q \in Words /\ Len(q) \in 1 .. i /\ dict[q] \in TokenIds
         /\ \A j \in 1 .. Len(q) : q[j] = s[i - Len(q) + j]
         /\ SubSeq(s, 1, i - Len(q)) \o q = SubSeq(s, 1, i)
<1> DEFINE head == SubSeq(s, 1, i)
           m == Max(Matched(head, 1))
<1>1. head \in Words /\ Len(head) = i /\ \A j \in 1 .. i : head[j] = s[j]
  BY HeadFacts
<1>2. Defined(head) # {} /\ q = LongestDefined(head)
  OBVIOUS
<1> HIDE DEF head
<1>3. q = Ending(head, m) /\ Len(q) = m /\ q \in DOMAIN dict /\ q \in Words /\ dict[q] \in TokenIds
      /\ Matched(head, 1) # {}
  BY <1>1, <1>2, DefinedFacts
<1>4. m \in 1 .. i
  <2>1. 1 \in 1 .. Len(head)
    BY <1>1
  <2>2. m \in Matched(head, 1) /\ Matched(head, 1) \subseteq 1 .. Len(head)
    BY <1>1, <1>3, <2>1, MatchedFacts
  <2> QED BY <1>1, <2>2
<1> HIDE DEF m
<1>5. q = SubSeq(head, i - m + 1, i)
  BY <1>1, <1>3 DEF Ending
<1>6. head \in Seq(Chars) /\ i - m + 1 \in 1 .. i
  BY <1>1, <1>4 DEF Words
<1>7. \A j \in 1 .. m : q[j] = s[i - m + j]
  <2>1. \A j \in 1 .. m : q[j] = head[(i - m + 1) + j - 1]
    BY <1>1, <1>4, <1>5, <1>6
  <2>2. \A j \in 1 .. m : (i - m + 1) + j - 1 = i - m + j /\ i - m + j \in 1 .. i
    BY <1>4
  <2> QED BY <1>1, <2>1, <2>2
<1>8. SubSeq(s, 1, i - m) \o q = SubSeq(s, 1, i)
  <2> DEFINE a == SubSeq(s, 1, i - m)
             b == a \o q
  <2>1. i - m \in 0 .. Len(s) /\ q \in Seq(Chars)
    BY <1>3, <1>4 DEF Words
  <2>2. a \in Seq(Chars) /\ Len(a) = i - m /\ \A j \in 1 .. i - m : a[j] = s[j]
    BY <2>1
  <2> HIDE DEF a
  <2>3. /\ b \in Seq(Chars) /\ Len(b) = i
        /\ \A j \in 1 .. i - m : b[j] = a[j]
        /\ \A j \in 1 .. m : b[i - m + j] = q[j]
    <3>1. /\ b \in Seq(Chars) /\ Len(b) = Len(a) + Len(q)
          /\ \A k \in 1 .. Len(a) + Len(q) : b[k] = IF k <= Len(a) THEN a[k] ELSE q[k - Len(a)]
      <4>1. a \in Seq(Chars) /\ q \in Seq(Chars)
        BY <2>1, <2>2
      <4> QED BY <4>1, ConcatProperties
    <3>2. Len(a) = i - m /\ Len(q) = m
      BY <1>3, <2>2
    <3> HIDE DEF b
    <3>3. /\ b \in Seq(Chars) /\ Len(b) = (i - m) + m
          /\ \A k \in 1 .. (i - m) + m : b[k] = IF k <= i - m THEN a[k] ELSE q[k - (i - m)]
      BY <3>1, <3>2
    <3>4. (i - m) + m = i
      BY <1>4
    <3>5. ASSUME NEW j \in 1 .. i - m
          PROVE  b[j] = a[j]
      BY <1>4, <3>3
    <3>6. ASSUME NEW j \in 1 .. m
          PROVE  b[i - m + j] = q[j]
      <4>1. i - m + j \in 1 .. (i - m) + m /\ ~ (i - m + j <= i - m) /\ (i - m + j) - (i - m) = j
        BY <1>4
      <4> QED BY <3>3, <4>1
    <3> QED BY <3>3, <3>4, <3>5, <3>6
  <2> HIDE DEF b
  <2>4. ASSUME NEW j \in 1 .. i
        PROVE  b[j] = head[j]
    <3>1. CASE j <= i - m
      BY <1>1, <1>4, <2>2, <2>3, <3>1
    <3>2. CASE ~ (j <= i - m)
      <4> DEFINE l == j - (i - m)
      <4>1. l \in 1 .. m /\ i - m + l = j
        BY <1>4, <3>2
      <4> HIDE DEF l
      <4>2. b[i - m + l] = q[l] /\ q[l] = s[i - m + l]
        BY <1>7, <2>3, <4>1
      <4> QED BY <1>1, <4>1, <4>2
    <3> QED BY <3>1, <3>2
  <2>5. b = head
    BY <1>1, <1>6, <2>3, <2>4
  <2> QED BY <2>5 DEF a, b, head
<1> QED BY <1>3, <1>4, <1>7, <1>8

(* A defined string is encoded to its own token. *)
LEMMA OwnToken ==
  ASSUME LanguageInv, NEW p \in DOMAIN dict
  PROVE  encode(p, FALSE) = Encoded(<<dict[p]>>)
<1> DEFINE n == Len(p)
<1>1. p \in Words /\ dict[p] \in TokenIds
  <2>1. p \in DOMAIN token /\ token[p] # InPath /\ dict[p] = token[p]
    BY DictFacts DEF dict
  <2> QED BY <2>1 DEF LanguageInv, Forest
<1>2. p \in Seq(Chars) /\ n \in 1 .. n /\ n \in 0 .. n /\ 0 \in 0 .. n /\ n # 0
  BY <1>1 DEF Words
<1>3. SubSeq(p, 1, n) = p /\ FALSE \in BOOLEAN
  BY <1>2
<1>4. p \in Defined(p)
  BY <1>1, EndingsClosed DEF Defined
<1> DEFINE q == LongestDefined(p)
<1>5. Len(q) = n /\ q = p
  <2>1. /\ Len(p) <= Len(q) /\ q = Ending(p, Len(q))
        /\ q \in Words
    BY <1>1, <1>4, DefinedFacts
  <2>2. Len(q) \in 1 .. n
    <3>1. Defined(SubSeq(p, 1, n)) # {} /\ LongestDefined(p) = LongestDefined(SubSeq(p, 1, n))
      BY <1>3, <1>4
    <3> HIDE DEF n
    <3> QED BY <1>2, <3>1, HeadDefined DEF n
  <2> HIDE DEF q
  <2>3. Len(q) = n
    BY <2>1, <2>2
  <2>4. Ending(p, n) = p
    BY <1>2, EndingFacts
  <2> QED BY <2>1, <2>3, <2>4
<1>6. PICK f : Greedy(p, FALSE) = f[n] /\ \A i \in 0 .. n : f[i] = GreedyNext(p, FALSE, f, i)
  BY <1>2, GreedySteps
<1>7. f[0] = Encoded(<< >>)
  BY <1>2, <1>6 DEF GreedyNext
<1>8. f[n] = AndThen(f[0], dict[p])
  <2>1. f[n] = GreedyNext(p, FALSE, f, n) /\ n - n = 0
    <3>1. n \in Nat /\ n \in 0 .. n
      BY <1>2
    <3> HIDE DEF n
    <3>2. n - n = 0
      BY <3>1
    <3>3. f[n] = GreedyNext(p, FALSE, f, n)
      BY <1>6, <3>1
    <3> QED BY <3>2, <3>3
  <2>2. GreedyNext(p, FALSE, f, n) = AndThen(f[n - Len(q)], dict[q])
    BY <1>2, <1>3, <1>4 DEF GreedyNext
  <2> HIDE DEF q, n
  <2> QED BY <1>5, <2>1, <2>2
<1>9. Append(<< >>, dict[p]) = <<dict[p]>>
  OBVIOUS
<1>10. encode(p, FALSE) = Greedy(p, FALSE)
  BY <1>2, <1>3, EncodeIsGreedy
<1> DEFINE none == << >>
           t == dict[p]
<1>11. f[0] = Encoded(none) /\ f[n] = AndThen(f[0], t) /\ Append(none, t) = <<t>>
  BY <1>7, <1>8, <1>9
<1>12. encode(p, FALSE) = f[n]
  BY <1>6, <1>10
<1> HIDE DEF none, t, n
<1>13. encode(p, FALSE) = Encoded(<<t>>)
  BY <1>11, <1>12, AndThenIs, Zenon
<1> QED BY <1>13 DEF t

LEMMA AppendedSet ==
  ASSUME NEW c \in Codes, NEW t \in TokenIds \cup {InPath}
  PROVE  /\ Append(c, t) \in Codes /\ ToSet(Append(c, t)) = ToSet(c) \cup {t}
         /\ << >> \in Codes /\ ToSet(<< >>) = {}
<1> DEFINE n == Len(c)
           u == Append(c, t)
<1>1. n \in Nat /\ DOMAIN c = 1 .. n /\ << >> \in Codes /\ DOMAIN << >> = {}
  BY DEF Codes
<1>2. u \in Codes /\ DOMAIN u = 1 .. n + 1 /\ u[n + 1] = t /\ \A i \in 1 .. n : u[i] = c[i]
  BY DEF Codes
<1> HIDE DEF u, n
<1>3. \A i : i \in 1 .. n + 1 <=> i \in 1 .. n \/ i = n + 1
  BY <1>1
<1>4. ToSet(u) = ToSet(c) \cup {t}
  BY <1>1, <1>2, <1>3 DEF ToSet
<1>5. ToSet(<< >>) = {}
  BY <1>1 DEF ToSet
<1> QED BY <1>1, <1>2, <1>4, <1>5 DEF u

\* The outcome of encoding the first i characters decodes to them, unless refused or
\* with a -1.
Undone(s, i, r) ==
    \/ r = Refused
    \/ \E c \in Codes : /\ r = Encoded(c)
                        /\ InPath \notin ToSet(c) =>
                             ToSet(c) \subseteq DOMAIN decoder /\ decode(c) = SubSeq(s, 1, i)

(* What is encoded without a -1 decodes to the text. *)
LEMMA StrictUndone ==
  ASSUME LanguageInv, Fresh, NEW s \in Seq(Chars)
  PROVE  Undone(s, Len(s), encode(s, FALSE))
<1> DEFINE n == Len(s)
<1>1. n \in Nat /\ n \in 0 .. n /\ FALSE \in BOOLEAN /\ InPath \in TokenIds \cup {InPath}
  OBVIOUS
<1>2. PICK f : Greedy(s, FALSE) = f[n] /\ \A i \in 0 .. n : f[i] = GreedyNext(s, FALSE, f, i)
  BY GreedySteps
<1>3. encode(s, FALSE) = f[n]
  BY <1>1, <1>2, EncodeIsGreedy
<1> DEFINE T == {i \in 0 .. n : Undone(s, i, f[i])}
<1>4. ASSUME NEW i \in 0 .. n, \A j \in 0 .. n : j < i => j \in T
      PROVE  i \in T
  <2> DEFINE head == SubSeq(s, 1, i)
             q == LongestDefined(head)
  <2>1. f[i] = GreedyNext(s, FALSE, f, i)
    BY <1>2
  <2>2. CASE i = 0
    <3> DEFINE none == << >>
    <3>1. f[i] = Encoded(none)
      BY <2>1, <2>2 DEF GreedyNext
    <3>2. none \in Codes /\ ToSet(none) = {}
      <4>1. none \in Codes /\ DOMAIN none = {}
        BY DEF Codes
      <4> QED BY <4>1 DEF ToSet
    <3>3. decode(none) = SubSeq(s, 1, i)
      <4>1. SubSeq(s, 1, i) = << >>
        BY <2>2
      <4> HIDE DEF none
      <4>2. decode(<< >>) = << >>
        BY <1>1, <3>2, DecodeMore
      <4> QED BY <4>1, <4>2 DEF none
    <3> HIDE DEF none
    <3>4. Undone(s, i, f[i])
      BY <3>1, <3>2, <3>3 DEF Undone
    <3> QED BY <3>4
  <2>3. CASE i # 0 /\ Defined(head) # {}
    <3>1. i \in 1 .. Len(s)
      BY <2>3
    <3>2. /\ q \in DOMAIN dict /\ q \in Words /\ Len(q) \in 1 .. i /\ dict[q] \in TokenIds
          /\ SubSeq(s, 1, i - Len(q)) \o q = SubSeq(s, 1, i)
      BY <2>3, <3>1, HeadDefined
    <3> DEFINE before == i - Len(q)
               t == dict[q]
    <3>3. f[i] = AndThen(f[before], t)
      BY <2>1, <2>3 DEF GreedyNext
    <3>4. before \in 0 .. n /\ before < i
      BY <3>1, <3>2
    <3>5. t \in DOMAIN decoder /\ decoder[t] = q /\ t \in TokenIds
      BY <3>2 DEF Fresh
    <3>6. SubSeq(s, 1, before) \o q = SubSeq(s, 1, i)
      BY <3>2
    <3> HIDE DEF q, head, t, before
    <3>7. Undone(s, before, f[before])
      BY <1>4, <3>4
    <3>8. CASE f[before] = Refused
      <4>1. f[i] = Refused
        BY <3>3, <3>8, AndThenIs
      <4> QED BY <4>1 DEF Undone
    <3>9. CASE f[before] # Refused
      <4>1. PICK c \in Codes : /\ f[before] = Encoded(c)
                               /\ InPath \notin ToSet(c) =>
                                    ToSet(c) \subseteq DOMAIN decoder
                                    /\ decode(c) = SubSeq(s, 1, before)
        BY <3>7, <3>9 DEF Undone
      <4> DEFINE d == Append(c, t)
      <4>2. f[i] = Encoded(d)
        BY <3>3, <4>1, AndThenIs
      <4>3. d \in Codes /\ ToSet(d) = ToSet(c) \cup {t}
        BY <3>5, AppendedSet
      <4>4. decode(d) = decode(c) \o q
        BY <3>5, DecodeMore
      <4> HIDE DEF d
      <4>5. InPath \notin ToSet(d) =>
              ToSet(d) \subseteq DOMAIN decoder /\ decode(d) = SubSeq(s, 1, i)
        BY <3>5, <3>6, <4>1, <4>3, <4>4
      <4>6. Undone(s, i, f[i])
        BY <4>2, <4>3, <4>5 DEF Undone
      <4> QED BY <4>6
    <3> QED BY <3>8, <3>9
  <2>4. CASE i # 0 /\ Defined(head) = {} /\ CanEnd(s[i])
    <3> DEFINE before == i - 1
    <3>1. f[i] = AndThen(f[before], InPath)
      BY <2>1, <2>4 DEF GreedyNext
    <3>2. before \in 0 .. n /\ before < i
      BY <2>4
    <3> HIDE DEF before, head, q
    <3>3. Undone(s, before, f[before])
      BY <1>4, <3>2
    <3>4. CASE f[before] = Refused
      <4>1. f[i] = Refused
        BY <3>1, <3>4, AndThenIs
      <4> QED BY <4>1 DEF Undone
    <3>5. CASE f[before] # Refused
      <4>1. PICK c \in Codes : f[before] = Encoded(c)
        BY <3>3, <3>5 DEF Undone
      <4> DEFINE d == Append(c, InPath)
      <4>2. f[i] = Encoded(d)
        BY <3>1, <4>1, AndThenIs
      <4>3. d \in Codes /\ InPath \in ToSet(d)
        BY <1>1, AppendedSet
      <4> HIDE DEF d
      <4>4. Undone(s, i, f[i])
        BY <4>2, <4>3 DEF Undone
      <4> QED BY <4>4
    <3> QED BY <3>4, <3>5
  <2>5. CASE i # 0 /\ Defined(head) = {} /\ ~CanEnd(s[i])
    <3>1. f[i] = Refused
      BY <2>1, <2>5 DEF GreedyNext
    <3> QED BY <3>1 DEF Undone
  <2> QED BY <2>2, <2>3, <2>4, <2>5
<1> HIDE DEF T, n
<1>5. n \in T
  BY <1>1, <1>4, FromBefore
<1> QED BY <1>3, <1>5 DEF T, n

\* Every character of a defined string is a string defined by itself.
Complete == \A p \in DOMAIN dict : \A i \in DOMAIN p : <<p[i]>> \in DOMAIN dict

(* Then a text ends with a defined string just if its last character ends one. *)
LEMMA CompleteEnds ==
  ASSUME LanguageInv, Complete
  PROVE  /\ \A p \in DOMAIN dict : \A j \in 1 .. Len(p) : CanEnd(p[j])
         /\ \A s \in Words : CanEnd(Last(s)) <=> Defined(s) # {}
<1>1. DOMAIN dict \subseteq Words
  BY DictFacts DEF LanguageInv, Forest, dict
<1>2. \A c : <<c>> \in DOMAIN dict => CanEnd(c)
  <2>1. \A c : Last(<<c>>) = c
    BY DEF Last
  <2> QED BY <2>1 DEF CanEnd
<1>3. \A p \in DOMAIN dict : \A j \in 1 .. Len(p) : <<p[j]>> \in DOMAIN dict
  BY <1>1 DEF Complete, Words
<1>4. ASSUME NEW s \in Words, CanEnd(Last(s))
      PROVE  Defined(s) # {}
  <2>1. PICK p \in DOMAIN dict : Last(p) = Last(s)
    BY <1>4 DEF CanEnd
  <2>2. p \in Words
    BY <1>1
  <2>3. Last(p) = p[Len(p)] /\ Len(p) \in 1 .. Len(p)
    BY <2>2 DEF Words, Last
  <2>4. <<Last(s)>> \in DOMAIN dict
    BY <1>3, <2>1, <2>3
  <2>5. s \in Seq(Chars) /\ 1 \in 1 .. Len(s)
    BY DEF Words
  <2>6. Ending(s, 1) \in Words /\ Len(Ending(s, 1)) = 1 /\ Last(Ending(s, 1)) = Last(s)
        /\ Ending(s, 1) \in Endings(s)
    BY <2>5, EndingFacts
  <2>7. Ending(s, 1) = <<Last(s)>>
    BY <2>6 DEF Last, Words
  <2> QED BY <2>4, <2>6, <2>7 DEF Defined
<1>5. ASSUME NEW s \in Words, NEW q \in Defined(s)
      PROVE  CanEnd(Last(s))
  <2>1. q \in Endings(s) /\ q \in DOMAIN dict
    BY DEF Defined
  <2>2. Last(q) = Last(s)
    BY <2>1, EndingFacts DEF Words
  <2> QED BY <2>1, <2>2 DEF CanEnd
<1> QED BY <1>2, <1>3, <1>4, <1>5

\* The outcome of encoding the first i characters tells whether one of them ends no string.
Telling(s, i, r) ==
    IF \E j \in 1 .. i : ~CanEnd(s[j]) THEN r = Refused ELSE \E c \in Codes : r = Encoded(c)

(* Only characters that end no string are refused. *)
LEMMA StrictRefused ==
  ASSUME LanguageInv, Complete, NEW s \in Seq(Chars)
  PROVE  Telling(s, Len(s), encode(s, FALSE))
<1> DEFINE n == Len(s)
<1>1. n \in Nat /\ n \in 0 .. n /\ FALSE \in BOOLEAN
  OBVIOUS
<1>2. PICK f : Greedy(s, FALSE) = f[n] /\ \A i \in 0 .. n : f[i] = GreedyNext(s, FALSE, f, i)
  BY GreedySteps
<1>3. encode(s, FALSE) = f[n]
  BY <1>1, <1>2, EncodeIsGreedy
<1> DEFINE T == {i \in 0 .. n : Telling(s, i, f[i])}
<1>4. ASSUME NEW i \in 0 .. n, \A j \in 0 .. n : j < i => j \in T
      PROVE  i \in T
  <2> DEFINE head == SubSeq(s, 1, i)
             q == LongestDefined(head)
  <2>1. f[i] = GreedyNext(s, FALSE, f, i)
    BY <1>2
  <2>2. CASE i = 0
    <3> DEFINE none == << >>
    <3>1. f[i] = Encoded(none)
      BY <2>1, <2>2 DEF GreedyNext
    <3>2. none \in Codes /\ 1 .. i = {}
      BY <2>2 DEF Codes
    <3> HIDE DEF none
    <3>3. Telling(s, i, f[i])
      BY <3>1, <3>2 DEF Telling
    <3> QED BY <3>3
  <2>3. CASE i # 0
    <3>1. i \in 1 .. Len(s)
      BY <2>3
    <3>2. head \in Words /\ Last(head) = s[i]
      BY <3>1, HeadFacts
    <3>3. CanEnd(s[i]) <=> Defined(head) # {}
      <4> HIDE DEF head
      <4> QED BY <3>2, CompleteEnds
    <3>4. CASE ~CanEnd(s[i])
      <4>1. f[i] = Refused
        BY <2>1, <2>3, <3>3, <3>4 DEF GreedyNext
      <4>2. i \in 1 .. i
        BY <3>1
      <4>3. Telling(s, i, f[i])
        BY <3>4, <4>1, <4>2 DEF Telling
      <4> QED BY <4>3
    <3>5. CASE CanEnd(s[i])
      <4>1. /\ q \in DOMAIN dict /\ q \in Words /\ Len(q) \in 1 .. i /\ dict[q] \in TokenIds
            /\ \A j \in 1 .. Len(q) : q[j] = s[i - Len(q) + j]
        BY <3>1, <3>3, <3>5, HeadDefined
      <4> DEFINE before == i - Len(q)
                 t == dict[q]
      <4>2. f[i] = AndThen(f[before], t)
        BY <2>1, <2>3, <3>3, <3>5 DEF GreedyNext
      <4>3. before \in 0 .. n /\ before < i /\ t \in TokenIds \cup {InPath}
        BY <3>1, <4>1
      <4>4. \A l \in 1 .. i : l \in 1 .. before \/ (l - before \in 1 .. Len(q) /\ before + (l - before) = l)
        BY <3>1, <4>1
      <4>5. \A j \in 1 .. Len(q) : CanEnd(q[j])
        BY <4>1, CompleteEnds
      <4>6. \A l \in 1 .. i : l \in 1 .. before \/ CanEnd(s[l])
        <5>1. ASSUME NEW l \in 1 .. i, l \notin 1 .. before
              PROVE  CanEnd(s[l])
          <6>1. l - before \in 1 .. Len(q) /\ before + (l - before) = l
            BY <4>4, <5>1
          <6>2. q[l - before] = s[before + (l - before)]
            BY <4>1, <6>1
          <6> QED BY <4>5, <6>1, <6>2
        <5> QED BY <5>1
      <4>7. \A l \in 1 .. before : l \in 1 .. i
        BY <3>1, <4>3
      <4> HIDE DEF before, t, q, head
      <4>8. (\E j \in 1 .. i : ~CanEnd(s[j])) <=> \E j \in 1 .. before : ~CanEnd(s[j])
        BY <4>6, <4>7
      <4>9. Telling(s, before, f[before])
        BY <1>4, <4>3
      <4>10. CASE \E j \in 1 .. before : ~CanEnd(s[j])
        <5>1. f[before] = Refused
          BY <4>9, <4>10 DEF Telling
        <5>2. f[i] = Refused
          BY <4>2, <5>1, AndThenIs
        <5>3. Telling(s, i, f[i])
          BY <4>8, <4>10, <5>2 DEF Telling
        <5> QED BY <5>3
      <4>11. CASE ~ \E j \in 1 .. before : ~CanEnd(s[j])
        <5>1. PICK c \in Codes : f[before] = Encoded(c)
          BY <4>9, <4>11 DEF Telling
        <5> DEFINE d == Append(c, t)
        <5>2. f[i] = Encoded(d)
          BY <4>2, <5>1, AndThenIs
        <5>3. d \in Codes
          BY <4>3, AppendedSet
        <5> HIDE DEF d
        <5>4. Telling(s, i, f[i])
          BY <4>8, <4>11, <5>2, <5>3 DEF Telling
        <5> QED BY <5>4
      <4> QED BY <4>10, <4>11
    <3> QED BY <3>4, <3>5
  <2> QED BY <2>2, <2>3
<1> HIDE DEF T, n
<1>5. n \in T
  BY <1>1, <1>4, FromBefore
<1> QED BY <1>3, <1>5 DEF T, n

(* One more member of a sequence that goes on another. *)
LEMMA GoesOn ==
  ASSUME NEW X, NEW x \in Seq(X), NEW q \in Seq(X), NEW m \in 0 .. Len(q) - 1
  PROVE  Append(x \o SubSeq(q, 1, m), q[m + 1]) = x \o SubSeq(q, 1, m + 1)
<1> DEFINE a == SubSeq(q, 1, m)
           b == SubSeq(q, 1, m + 1)
<1>1. Len(q) \in Nat /\ m \in 0 .. Len(q) /\ m + 1 \in 1 .. Len(q) /\ q[m + 1] \in X
  OBVIOUS
<1>2. a \in Seq(X) /\ Len(a) = m /\ b \in Seq(X) /\ Len(b) = m + 1
  BY <1>1
<1>3. b = Append(a, q[m + 1])
  <2>1. \A i \in 1 .. m + 1 : b[i] = q[i]
    BY <1>1
  <2>2. \A i \in 1 .. m : a[i] = q[i]
    BY <1>1
  <2> DEFINE u == Append(a, q[m + 1])
  <2> HIDE DEF a, b
  <2>3. u \in Seq(X) /\ Len(u) = m + 1 /\ u[m + 1] = q[m + 1] /\ \A i \in 1 .. m : u[i] = a[i]
    BY <1>1, <1>2
  <2> HIDE DEF u
  <2>4. \A i \in 1 .. m + 1 : i \in 1 .. m \/ i = m + 1
    BY <1>1
  <2>5. \A i \in 1 .. m + 1 : u[i] = b[i]
    BY <2>1, <2>2, <2>3, <2>4
  <2>6. u = b
    BY <1>2, <2>3, <2>5
  <2> QED BY <2>6 DEF u
<1> DEFINE e == q[m + 1]
<1> HIDE DEF a, b, e
<1>4. e \in X /\ b = Append(a, e)
  BY <1>1, <1>3 DEF e
<1>5. Append(x \o a, e) = x \o Append(a, e)
  <2> DEFINE u == <<e>>
  <2>1. u \in Seq(X) /\ x \o a \in Seq(X)
    BY <1>2, <1>4, ConcatProperties
  <2>2. Append(x \o a, e) = (x \o a) \o u /\ Append(a, e) = a \o u
    BY <1>2, <1>4, <2>1, AppendIsConcat
  <2> HIDE DEF u
  <2>3. x \in Seq(X) /\ a \in Seq(X) /\ u \in Seq(X)
    BY <1>2, <2>1
  <2>4. \A S : \A s1 \in Seq(S) : \A s2 \in Seq(S) : \A s3 \in Seq(S) :
          (s1 \o s2) \o s3 = s1 \o (s2 \o s3)
    BY ConcatAssociative, Zenon
  <2>5. (x \o a) \o u = x \o (a \o u)
    BY <2>3, <2>4
  <2> QED BY <2>2, <2>5
<1> QED BY <1>4, <1>5 DEF a, b, e

\* As Kept goes through s, where what it keeps is K.
Keeps(K, s, S) ==
    /\ K \in [0 .. Len(s) -> Seq(Chars)] /\ K[0] = << >>
    /\ \A i \in 1 .. Len(s) : K[i] = IF s[i] \in S THEN Append(K[i - 1], s[i]) ELSE K[i - 1]

\* The string q is in s from its place a on, and all of it is to be kept.
Lies(q, s, a, S) ==
    a + Len(q) <= Len(s) /\ \A j \in 1 .. Len(q) : q[j] = s[a + j] /\ q[j] \in S

(* It keeps a whole string if it keeps each of its characters. *)
LEMMA KeepsString ==
  ASSUME NEW s \in Seq(Chars), NEW S, NEW K, Keeps(K, s, S), NEW q \in Seq(Chars),
         NEW a \in Nat, Lies(q, s, a, S)
  PROVE  K[a + Len(q)] = K[a] \o q
<1> DEFINE k == Len(q)
           T == {m \in 0 .. k : K[a + m] = K[a] \o SubSeq(q, 1, m)}
<1>1. k \in Nat /\ 0 \in Nat /\ Len(s) \in Nat /\ k \in 0 .. k /\ a \in 0 .. Len(s)
      /\ a + k <= Len(s) /\ \A j \in 1 .. k : q[j] = s[a + j] /\ q[j] \in S
  BY DEF Lies
<1>2. K[a] \in Seq(Chars)
  BY <1>1 DEF Keeps
<1>3. 0 \in T
  <2>1. a + 0 = a /\ SubSeq(q, 1, 0) = << >> /\ 0 \in 0 .. k
    BY <1>1
  <2>2. K[a] \o << >> = K[a]
    BY <1>2, ConcatEmptySeq, Zenon
  <2> QED BY <2>1, <2>2
<1>4. ASSUME NEW m \in 0 .. k, m \in T, m # k
      PROVE  m + 1 \in T
  <2> DEFINE i == a + (m + 1)
  <2>1. m + 1 \in 1 .. k /\ m + 1 \in 0 .. k /\ i \in 1 .. Len(s) /\ i - 1 = a + m
        /\ m \in 0 .. Len(q) - 1
    BY <1>1, <1>4
  <2>2. q[m + 1] = s[i] /\ s[i] \in S
    BY <1>1, <2>1
  <2>3. K[i] = Append(K[a + m], q[m + 1])
    <3>1. K[i] = Append(K[i - 1], s[i])
      <4> HIDE DEF i
      <4> QED BY <2>1, <2>2 DEF Keeps
    <3> QED BY <2>1, <2>2, <3>1
  <2>4. K[a + m] = K[a] \o SubSeq(q, 1, m)
    BY <1>4
  <2> DEFINE x == K[a]
  <2> HIDE DEF x, i
  <2>5. x \in Seq(Chars)
    BY <1>2 DEF x
  <2>6. Append(x \o SubSeq(q, 1, m), q[m + 1]) = x \o SubSeq(q, 1, m + 1)
    BY <2>1, <2>5, GoesOn
  <2>7. K[i] = K[a] \o SubSeq(q, 1, m + 1)
    BY <2>3, <2>4, <2>6 DEF x
  <2> QED BY <2>1, <2>7 DEF i
<1> HIDE DEF T
<1>5. k \in T
  <2> HIDE DEF k
  <2> QED BY <1>1, <1>3, <1>4, Stepwise
<1>6. SubSeq(q, 1, k) = q
  OBVIOUS
<1> QED BY <1>5, <1>6 DEF T

\* The outcome of encoding some characters decodes to those that are kept.
DecodesTo(kept, r) ==
    \E c \in Codes : r = Encoded(c) /\ ToSet(c) \subseteq DOMAIN decoder /\ decode(c) = kept

(* Only characters that end no string are lost. *)
LEMMA LenientKeeps ==
  ASSUME LanguageInv, Fresh, Complete, NEW s \in Seq(Chars)
  PROVE  DecodesTo(Kept(s, Ends), encode(s, TRUE))
<1> DEFINE n == Len(s)
<1>1. n \in Nat /\ n \in 0 .. n /\ TRUE \in BOOLEAN /\ \A i \in 1 .. n : s[i] \in Chars
  OBVIOUS
<1>2. PICK f : Greedy(s, TRUE) = f[n] /\ \A i \in 0 .. n : f[i] = GreedyNext(s, TRUE, f, i)
  BY GreedySteps
<1>3. encode(s, TRUE) = f[n]
  BY <1>1, <1>2, EncodeIsGreedy
<1>4. PICK K : Keeps(K, s, Ends) /\ Kept(s, Ends) = K[n]
  <2>1. Grown(Chars, s, Ends)
    BY KeptSteps
  <2> QED BY <2>1 DEF Grown, Keeps
<1>5. K[0] = << >> /\ \A i \in 1 .. n : s[i] \notin Ends => K[i] = K[i - 1]
  BY <1>4 DEF Keeps
<1> DEFINE T == {i \in 0 .. n : DecodesTo(K[i], f[i])}
<1>6. ASSUME NEW i \in 0 .. n, \A j \in 0 .. n : j < i => j \in T
      PROVE  i \in T
  <2> DEFINE head == SubSeq(s, 1, i)
             q == LongestDefined(head)
  <2>1. f[i] = GreedyNext(s, TRUE, f, i)
    BY <1>2
  <2>2. CASE i = 0
    <3> DEFINE none == << >>
    <3>1. f[i] = Encoded(none)
      BY <2>1, <2>2 DEF GreedyNext
    <3>2. none \in Codes /\ ToSet(none) = {}
      <4>1. none \in Codes /\ DOMAIN none = {}
        BY DEF Codes
      <4> QED BY <4>1 DEF ToSet
    <3>3. decode(none) = K[i]
      <4> HIDE DEF none
      <4>1. InPath \in TokenIds \cup {InPath}
        OBVIOUS
      <4>2. decode(<< >>) = << >>
        BY <3>2, <4>1, DecodeMore
      <4> QED BY <1>5, <2>2, <4>2 DEF none
    <3> HIDE DEF none
    <3>4. DecodesTo(K[i], f[i])
      BY <3>1, <3>2, <3>3 DEF DecodesTo
    <3> QED BY <3>4
  <2>3. CASE i # 0
    <3>1. i \in 1 .. Len(s)
      BY <2>3
    <3>2. head \in Words /\ Last(head) = s[i]
      BY <3>1, HeadFacts
    <3>3. CanEnd(s[i]) <=> Defined(head) # {}
      <4> HIDE DEF head
      <4> QED BY <3>2, CompleteEnds
    <3>4. CASE ~CanEnd(s[i])
      <4> DEFINE before == i - 1
      <4>1. f[i] = f[before]
        BY <2>1, <2>3, <3>3, <3>4 DEF GreedyNext
      <4>2. K[i] = K[before]
        BY <1>5, <3>1, <3>4 DEF Ends
      <4>3. before \in 0 .. n /\ before < i
        BY <3>1
      <4> HIDE DEF before
      <4>4. DecodesTo(K[before], f[before])
        BY <1>6, <4>3
      <4> QED BY <4>1, <4>2, <4>4
    <3>5. CASE CanEnd(s[i])
      <4>1. /\ q \in DOMAIN dict /\ q \in Words /\ Len(q) \in 1 .. i /\ dict[q] \in TokenIds
            /\ \A j \in 1 .. Len(q) : q[j] = s[i - Len(q) + j]
        BY <3>1, <3>3, <3>5, HeadDefined
      <4> DEFINE before == i - Len(q)
                 t == dict[q]
      <4>2. f[i] = AndThen(f[before], t)
        BY <2>1, <2>3, <3>3, <3>5 DEF GreedyNext
      <4>3. before \in 0 .. n /\ before < i /\ t \in TokenIds \cup {InPath}
        BY <3>1, <4>1
      <4>4. K[i] = K[before] \o q
        <5>1. q \in Seq(Chars) /\ before \in Nat /\ before + Len(q) = i
              /\ before + Len(q) <= Len(s)
          BY <3>1, <4>1 DEF Words
        <5>2. ASSUME NEW j \in 1 .. Len(q)
              PROVE  q[j] = s[before + j] /\ q[j] \in Ends
          <6>1. q[j] = s[before + j]
            BY <4>1
          <6>2. CanEnd(q[j])
            BY <4>1, CompleteEnds
          <6>3. q[j] \in Chars
            BY <5>1
          <6> QED BY <6>1, <6>2, <6>3 DEF Ends
        <5> HIDE DEF before, q
        <5>3. K[before + Len(q)] = K[before] \o q
          <6>1. Keeps(K, s, Ends) /\ Lies(q, s, before, Ends)
            BY <1>4, <5>1, <5>2 DEF Lies
          <6> QED BY <5>1, <6>1, KeepsString
        <5> QED BY <5>1, <5>3
      <4>5. t \in DOMAIN decoder /\ decoder[t] = q
        BY <4>1 DEF Fresh
      <4> HIDE DEF before, t, q, head
      <4>6. DecodesTo(K[before], f[before])
        BY <1>6, <4>3
      <4>7. PICK c \in Codes : /\ f[before] = Encoded(c) /\ ToSet(c) \subseteq DOMAIN decoder
                               /\ decode(c) = K[before]
        BY <4>6 DEF DecodesTo
      <4> DEFINE d == Append(c, t)
      <4>8. f[i] = Encoded(d)
        BY <4>2, <4>7, AndThenIs
      <4>9. d \in Codes /\ ToSet(d) = ToSet(c) \cup {t}
        BY <4>3, AppendedSet
      <4>10. decode(d) = decode(c) \o q
        BY <4>3, <4>5, DecodeMore
      <4> HIDE DEF d
      <4>11. DecodesTo(K[i], f[i])
        BY <4>4, <4>5, <4>7, <4>8, <4>9, <4>10 DEF DecodesTo
      <4> QED BY <4>11
    <3> QED BY <3>4, <3>5
  <2> QED BY <2>2, <2>3
<1> HIDE DEF T, n
<1>7. n \in T
  BY <1>1, <1>6, FromBefore
<1> QED BY <1>3, <1>4, <1>7 DEF T, n

LEMMA EncodedParts ==
  /\ Refused.refused
  /\ \A c : ~Encoded(c).refused /\ Encoded(c).tokens = c
BY DEF Refused, Encoded

(***************************************************************************)
(* Every defined string is encoded to its own token, and where the decoder *)
(* knows the dictionary what is encoded without a -1 decodes to the text;  *)
(* if moreover every character of a string is defined, only characters     *)
(* outside the dictionary are refused or lost: for texts of every length,  *)
(* over every dictionary and alphabet.                                     *)
(***************************************************************************)
THEOREM RoundTripAlways == Spec => []RoundTrip
<1>1. ASSUME LanguageInv
      PROVE  RoundTrip
  <2>1. \A p \in DOMAIN dict : encode(p, FALSE) = Encoded(<<dict[p]>>)
    BY <1>1, OwnToken
  <2>2. ASSUME Fresh, NEW s \in Texts
        PROVE  LET strict == encode(s, FALSE)
                   lenient == encode(s, TRUE)
               IN  /\ ~strict.refused /\ InPath \notin ToSet(strict.tokens) =>
                        Decodes(strict.tokens) /\ decode(strict.tokens) = s
                   /\ (\A p \in DOMAIN dict : \A i \in DOMAIN p : <<p[i]>> \in DOMAIN dict) =>
                        /\ strict.refused <=> \E i \in DOMAIN s : ~CanEnd(s[i])
                        /\ Decodes(lenient.tokens) /\ decode(lenient.tokens) = Kept(s, Ends)
    <3> DEFINE strict == encode(s, FALSE)
               lenient == encode(s, TRUE)
    <3>1. s \in Seq(Chars)
      <4>1. PICK n \in 0 .. MaxText : s \in [1 .. n -> Chars]
        BY DEF Texts
      <4>2. n \in Nat
        BY LanguageAssumption
      <4> QED BY <4>1, <4>2
    <3>2. SubSeq(s, 1, Len(s)) = s /\ DOMAIN s = 1 .. Len(s)
      BY <3>1
    <3>3. Undone(s, Len(s), strict)
      BY <1>1, <2>2, <3>1, StrictUndone
    <3>4. Complete => Telling(s, Len(s), strict) /\ DecodesTo(Kept(s, Ends), lenient)
      BY <1>1, <2>2, <3>1, StrictRefused, LenientKeeps
    <3> HIDE DEF strict, lenient
    <3>5. ~strict.refused /\ InPath \notin ToSet(strict.tokens) =>
            Decodes(strict.tokens) /\ decode(strict.tokens) = s
      BY <3>2, <3>3, EncodedParts DEF Undone, Decodes
    <3>6. ASSUME Complete
          PROVE  /\ strict.refused <=> \E i \in DOMAIN s : ~CanEnd(s[i])
                 /\ Decodes(lenient.tokens) /\ decode(lenient.tokens) = Kept(s, Ends)
      <4>1. strict.refused <=> \E i \in DOMAIN s : ~CanEnd(s[i])
        BY <3>2, <3>4, <3>6, EncodedParts, Zenon DEF Telling
      <4>2. Decodes(lenient.tokens) /\ decode(lenient.tokens) = Kept(s, Ends)
        BY <3>4, <3>6, EncodedParts DEF DecodesTo, Decodes
      <4> QED BY <4>1, <4>2
    <3> QED BY <3>5, <3>6 DEF strict, lenient, Complete
  <2> QED BY <2>1, <2>2, Zenon DEF RoundTrip
<1> QED BY <1>1, LanguageInvAlways, PTL
=============================================================================
