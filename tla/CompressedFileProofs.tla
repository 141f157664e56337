------------------------ MODULE CompressedFileProofs -------------------------
(***************************************************************************)
(* Theorems about CompressedFile, for every alphabet, chunk size, set of   *)
(* calls and bound: nothing of a file is lost or read twice, and it is the *)
(* plain file of the bytes that were packed.                               *)
(***************************************************************************)
EXTENDS CompressedFile, SequenceTheorems, NaturalsInduction, WellFoundedInduction, TLAPS

-----------------------------------------------------------------------------
(* Numbers and loops *)

(* A set of natural numbers that is not empty has a least one. *)
LEMMA Least ==
  ASSUME NEW T, T \subseteq Nat, T # {}
  PROVE  \E x \in T : \A y \in T : x <= y
<1> DEFINE R == OpToRel(<, Nat)
<1>1. IsWellFoundedOn(R, Nat)
  BY NatLessThanWellFounded, Zenon
<1>2. ASSUME NEW x \in Nat, NEW y \in Nat, x < y
      PROVE  <<x, y>> \in R
  BY <1>2 DEF OpToRel
<1> HIDE DEF R
<1>3. PICK x \in T : \A y \in T : ~(<<y, x>> \in R)
  BY <1>1, WFMin, Zenon
<1>4. ASSUME NEW y \in T
      PROVE  x <= y
  <2>1. ~(<<y, x>> \in R)
    BY <1>3, Zenon
  <2>2. ~(y < x)
    BY <1>2, <2>1
  <2> QED BY <2>2
<1> QED BY <1>4

(* What holds at first and is kept from each step to the next holds to the last. *)
LEMMA Stepwise ==
  ASSUME NEW first \in Nat, NEW last \in Nat, NEW T, first \in T,
         \A i \in first .. last : i \in T /\ i # last => i + 1 \in T
  PROVE  \A i \in first .. last : i \in T
<1> DEFINE bad == {i \in first .. last : i \notin T}
<1>1. SUFFICES ASSUME bad # {}
               PROVE  FALSE
  OBVIOUS
<1>2. bad \subseteq Nat
  OBVIOUS
<1> HIDE DEF bad
<1>3. PICK i \in bad : \A j \in bad : i <= j
  BY <1>1, <1>2, Least
<1>4. i \in first .. last /\ i \notin T
  BY <1>3 DEF bad
<1>5. i - 1 \in first .. last /\ i - 1 # last /\ (i - 1) + 1 = i /\ ~ (i <= i - 1)
  BY <1>4
<1>6. i - 1 \in T
  BY <1>3, <1>5 DEF bad
<1> QED BY <1>4, <1>5, <1>6

(* What the turns of a loop come to. *)
Turned(z, step, n, f) ==
    \A i \in 0 .. n : f[i] = IF i = 0 THEN z ELSE step[i][f[i - 1]]

(* A loop that keeps to a set has as many turns as one likes. *)
LEMMA Unrolls ==
  ASSUME NEW S, NEW z \in S, NEW last \in Nat, NEW step \in [1 .. last -> [S -> S]]
  PROVE  \E f \in [0 .. last -> S] : Turned(z, step, last, f)
<1> DEFINE T == {n \in 0 .. last : \E f \in [0 .. n -> S] : Turned(z, step, n, f)}
<1>1. 0 \in T
  <2> DEFINE f == [i \in 0 .. 0 |-> z]
  <2>1. f \in [0 .. 0 -> S] /\ \A i \in 0 .. 0 : i = 0 /\ f[i] = z
    OBVIOUS
  <2> HIDE DEF f
  <2>2. Turned(z, step, 0, f)
    BY <2>1 DEF Turned
  <2> QED BY <2>1, <2>2
<1>2. ASSUME NEW n \in 0 .. last, n \in T, n # last
      PROVE  n + 1 \in T
  <2>1. PICK f \in [0 .. n -> S] : Turned(z, step, n, f)
    BY <1>2
  <2> DEFINE more == step[n + 1][f[n]]
             h == [i \in 0 .. n + 1 |-> IF i = n + 1 THEN more ELSE f[i]]
  <2>2. n \in 0 .. n /\ n + 1 \in 1 .. last /\ n + 1 # 0
    BY <1>2
  <2>3. more \in S
    <3>1. f[n] \in S /\ step[n + 1] \in [S -> S]
      BY <2>1, <2>2
    <3> QED BY <3>1
  <2>4. /\ \A i \in 0 .. n + 1 : i # n + 1 => i \in 0 .. n /\ h[i] = f[i]
        /\ h[n + 1] = more
    BY <2>2
  <2> HIDE DEF more
  <2>5. h \in [0 .. n + 1 -> S]
    BY <2>1, <2>3, <2>4
  <2> HIDE DEF h
  <2>6. ASSUME NEW i \in 0 .. n + 1
        PROVE  h[i] = IF i = 0 THEN z ELSE step[i][h[i - 1]]
    <3>1. CASE i = n + 1
      <4>1. i - 1 = n /\ i # 0
        BY <2>2, <3>1
      <4>2. n \in 0 .. n + 1 /\ n # n + 1
        BY <2>2
      <4>3. h[i - 1] = f[n] /\ h[i] = more
        BY <2>4, <3>1, <4>1, <4>2
      <4>4. more = step[i][f[n]]
        BY <3>1 DEF more
      <4> QED BY <4>1, <4>3, <4>4
    <3>2. CASE i # n + 1
      <4>1. i \in 0 .. n /\ h[i] = f[i]
        BY <2>4, <3>2
      <4>2. f[i] = IF i = 0 THEN z ELSE step[i][f[i - 1]]
        BY <2>1, <4>1 DEF Turned
      <4>3. CASE i = 0
        BY <4>1, <4>2, <4>3
      <4>4. CASE i # 0
        <5>1. i - 1 \in 0 .. n + 1 /\ i - 1 # n + 1
          BY <4>1, <4>4
        <5>2. h[i - 1] = f[i - 1]
          BY <2>4, <5>1
        <5> QED BY <4>1, <4>2, <4>4, <5>2
      <4> QED BY <4>3, <4>4
    <3> QED BY <3>1, <3>2
  <2>7. Turned(z, step, n + 1, h)
    BY <2>6 DEF Turned
  <2>8. n + 1 \in 0 .. last
    BY <2>2
  <2> QED BY <2>5, <2>7, <2>8
<1>3. last \in 0 .. last
  OBVIOUS
<1> HIDE DEF T
<1>4. last \in T
  BY <1>1, <1>2, <1>3, Stepwise
<1> QED BY <1>4 DEF T

\* Turns leave alone what is to stop, and bring all else nearer to it.
Settles(S, step, stop, m) ==
    /\ \A s \in S : s \in stop => step[s] = s
    /\ \A s \in S : s \notin stop => step[s] \in stop \/ m[step[s]] < m[s]

\* The states of a loop, as long as they keep to a set.
Follows(S, step, last, g) ==
    \A i \in 1 .. last : g[i - 1] \in S => g[i] = step[g[i - 1]]

(* A loop whose turns keep to a set, and come nearer to where it stops, gets there. *)
LEMMA Stops ==
  ASSUME NEW S, NEW z \in S, NEW last \in Nat, NEW step \in [S -> S],
         NEW stop \in SUBSET S, NEW m \in [S -> Nat], m[z] < last,
         Settles(S, step, stop, m), NEW g, g[0] = z, Follows(S, step, last, g)
  PROVE  g[last] \in stop
<1> DEFINE T == {i \in 0 .. last : g[i] \in S /\ (g[i] \in stop \/ m[g[i]] + i <= m[z])}
<1>1. 0 \in T
  <2>1. m[z] \in Nat /\ 0 \in 0 .. last
    OBVIOUS
  <2> QED BY <2>1
<1>2. ASSUME NEW i \in 0 .. last, i \in T, i # last
      PROVE  i + 1 \in T
  <2>1. i + 1 \in 1 .. last /\ (i + 1) - 1 = i /\ i + 1 \in 0 .. last
    BY <1>2
  <2>2. g[i] \in S /\ (g[i] \in stop \/ m[g[i]] + i <= m[z])
    BY <1>2
  <2>3. g[i + 1] = step[g[i]]
    BY <2>1, <2>2 DEF Follows
  <2>4. g[i + 1] \in S
    BY <2>2, <2>3
  <2>5. CASE g[i] \in stop
    BY <2>1, <2>2, <2>3, <2>5 DEF Settles
  <2>6. CASE g[i] \notin stop /\ step[g[i]] \in stop
    BY <2>1, <2>3, <2>4, <2>6
  <2>7. CASE g[i] \notin stop /\ step[g[i]] \notin stop
    <3> DEFINE a == m[g[i]]
               b == m[g[i + 1]]
               c == m[z]
    <3>1. a \in Nat /\ b \in Nat /\ c \in Nat /\ b < a /\ a + i <= c
      BY <2>2, <2>3, <2>4, <2>7 DEF Settles
    <3> HIDE DEF a, b, c
    <3>2. b + (i + 1) <= c
      BY <3>1
    <3> QED BY <2>1, <2>4, <3>2 DEF b, c
  <2> QED BY <2>5, <2>6, <2>7
<1>3. last \in 0 .. last
  OBVIOUS
<1> HIDE DEF T
<1>4. last \in T
  BY <1>1, <1>2, <1>3, Stepwise
<1>5. g[last] \in S /\ (g[last] \in stop \/ m[g[last]] + last <= m[z])
  BY <1>4 DEF T
<1>6. m[g[last]] \in Nat /\ m[z] \in Nat
  BY <1>5
<1> QED BY <1>5, <1>6

-----------------------------------------------------------------------------
(* Pieces of a sequence *)

\* What follows the first `a` elements, up to the one numbered `b`.
Part(s, a, b) == SubSeq(s, a + 1, b)

\* `p` is what such a piece has to be.
IsPart(S, p, s, a, b) ==
    /\ p \in Seq(S)
    /\ Len(p) = b - a
    /\ \A i \in 1 .. b - a : p[i] = s[a + i]

LEMMA PartIs ==
  ASSUME NEW S, NEW s \in Seq(S), NEW a \in Nat, NEW b \in Nat, a <= b, b <= Len(s)
  PROVE  IsPart(S, Part(s, a, b), s, a, b)
<1>1. Len(s) \in Nat
  BY LenProperties
<1>2. \A i \in a + 1 .. b : s[i] \in S
  <2>1. ASSUME NEW i \in a + 1 .. b
        PROVE  i \in 1 .. Len(s)
    BY <1>1
  <2> QED BY <2>1, ElementOfSeq
<1> DEFINE c == a + 1
<1>3. c \in Int /\ b \in Int /\ c = a + 1
  OBVIOUS
<1> HIDE DEF c
<1>4. \A i \in c .. b : s[i] \in S
  BY <1>2, <1>3
<1>5. /\ SubSeq(s, c, b) \in Seq(S)
      /\ Len(SubSeq(s, c, b)) = IF c <= b THEN b - c + 1 ELSE 0
      /\ \A i \in 1 .. b - c + 1 : SubSeq(s, c, b)[i] = s[c + i - 1]
  BY <1>3, <1>4, SubSeqProperties
<1>6. (IF c <= b THEN b - c + 1 ELSE 0) = b - a /\ b - c + 1 = b - a
  BY <1>3
<1>7. \A i \in 1 .. b - a : c + i - 1 = a + i
  BY <1>3
<1>8. Part(s, a, b) = SubSeq(s, c, b)
  BY <1>3 DEF Part
<1> QED BY <1>5, <1>6, <1>7, <1>8 DEF IsPart

LEMMA PartNone ==
  ASSUME NEW s, NEW a \in Nat
  PROVE  Part(s, a, a) = << >>
<1> DEFINE c == a + 1
<1>1. c \in Int /\ a \in Int /\ a < c
  OBVIOUS
<1> HIDE DEF c
<1>2. SubSeq(s, c, a) = << >>
  BY <1>1, SubSeqEmpty
<1> QED BY <1>2 DEF c, Part

LEMMA PartAll ==
  ASSUME NEW S, NEW s \in Seq(S)
  PROVE  Part(s, 0, Len(s)) = s
<1>1. 0 + 1 = 1
  OBVIOUS
<1> QED BY <1>1, SubSeqFull DEF Part

LEMMA PartsJoin ==
  ASSUME NEW S, NEW s \in Seq(S), NEW a \in Nat, NEW b \in Nat, NEW c \in Nat,
         a <= b, b <= c, c <= Len(s)
  PROVE  Part(s, a, b) \o Part(s, b, c) = Part(s, a, c)
<1>1. Len(s) \in Nat
  BY LenProperties
<1> DEFINE y == Len(s)
           x == a + 1
<1> HIDE DEF y
<1>2. x \in 1 .. y + 1 /\ b \in x - 1 .. y /\ c \in b .. y
  BY <1>1 DEF y
<1> HIDE DEF x
<1>3. x \in 1 .. Len(s) + 1 /\ b \in x - 1 .. Len(s) /\ c \in b .. Len(s)
  BY <1>2 DEF y
<1>4. SubSeq(s, x, b) \o SubSeq(s, b + 1, c) = SubSeq(s, x, c)
  BY <1>3, ConcatAdjacentSubSeq
<1> QED BY <1>4 DEF x, Part

LEMMA PartOfPart ==
  ASSUME NEW S, NEW s \in Seq(S), NEW a \in Nat, NEW b \in Nat, a <= b, b <= Len(s),
         NEW c \in Nat, NEW d \in Nat, c <= d, d <= b - a
  PROVE  Part(Part(s, a, b), c, d) = Part(s, a + c, a + d)
<1> DEFINE p == Part(s, a, b)
           q == Part(p, c, d)
           r == Part(s, a + c, a + d)
<1>1. p \in Seq(S) /\ Len(p) = b - a /\ \A i \in 1 .. b - a : p[i] = s[a + i]
  BY PartIs DEF IsPart
<1> HIDE DEF p
<1>2. q \in Seq(S) /\ Len(q) = d - c /\ \A i \in 1 .. d - c : q[i] = p[c + i]
  <2>1. IsPart(S, q, p, c, d)
    BY <1>1, PartIs
  <2> HIDE DEF q
  <2> QED BY <2>1 DEF IsPart
<1>3. Len(s) \in Nat
  BY LenProperties
<1> DEFINE x == a + c
           y == a + d
<1>4. x \in Nat /\ y \in Nat /\ x <= y /\ y <= Len(s) /\ y - x = d - c
  BY <1>3
<1>5. x = a + c
  OBVIOUS
<1> HIDE DEF q
<1> HIDE DEF x, y
<1>6. Part(s, x, y) \in Seq(S) /\ Len(Part(s, x, y)) = y - x
      /\ \A i \in 1 .. y - x : Part(s, x, y)[i] = s[x + i]
  BY <1>4, PartIs DEF IsPart
<1>7. r = Part(s, x, y)
  BY DEF x, y
<1> HIDE DEF r
<1>8. \A i \in 1 .. Len(q) : q[i] = r[i]
  <2>1. ASSUME NEW i \in 1 .. d - c
        PROVE  q[i] = r[i]
    <3>1. c + i \in 1 .. b - a /\ a + (c + i) = x + i /\ i \in 1 .. y - x
      BY <1>4, <1>5
    <3>2. q[i] = p[c + i] /\ p[c + i] = s[a + (c + i)]
      BY <1>1, <1>2, <3>1
    <3> QED BY <1>6, <1>7, <3>1, <3>2
  <2> QED BY <1>2, <2>1
<1>9. q = r
  BY <1>2, <1>4, <1>6, <1>7, <1>8, SeqEqual
<1> QED BY <1>9 DEF p, q, r

LEMMA PartsOfConcat ==
  ASSUME NEW S, NEW s \in Seq(S), NEW t \in Seq(S)
  PROVE  /\ Part(s \o t, 0, Len(s)) = s
         /\ Part(s \o t, Len(s), Len(s \o t)) = t
<1> DEFINE u == s \o t
           a == Len(s)
           b == Len(t)
           c == Len(u)
<1>1. a \in Nat /\ b \in Nat
  BY LenProperties
<1>2. u \in Seq(S) /\ c = a + b
      /\ \A i \in 1 .. a + b : u[i] = IF i <= a THEN s[i] ELSE t[i - a]
  BY ConcatProperties
<1>3. a \in Nat /\ b \in Nat /\ c \in Nat /\ 0 <= a /\ a <= c /\ c - a = b /\ a - 0 = a
  BY <1>1, <1>2
<1> DEFINE l == Part(u, 0, a)
           r == Part(u, a, c)
<1>4. a = Len(s) /\ b = Len(t) /\ c = Len(u) /\ u = s \o t
  OBVIOUS
<1> HIDE DEF u, a, b, c
<1>5. IsPart(S, l, u, 0, a)
  BY <1>2, <1>3, <1>4, PartIs
<1>6. IsPart(S, r, u, a, c)
  <2>1. u \in Seq(S) /\ a \in Nat /\ c \in Nat /\ a <= c /\ c <= Len(u)
    BY <1>2, <1>3, <1>4
  <2> QED BY <2>1, PartIs
<1> HIDE DEF l, r
<1>7. \A i \in 1 .. Len(l) : l[i] = s[i]
  <2>1. ASSUME NEW i \in 1 .. a
        PROVE  l[i] = s[i]
    <3>1. i \in 1 .. a + b /\ i <= a /\ 0 + i = i /\ i \in 1 .. a - 0
      BY <1>3
    <3> QED BY <1>2, <1>5, <3>1 DEF IsPart
  <2> QED BY <1>3, <1>5, <2>1 DEF IsPart
<1>8. \A i \in 1 .. Len(r) : r[i] = t[i]
  <2>1. ASSUME NEW i \in 1 .. b
        PROVE  r[i] = t[i]
    <3>1. a + i \in 1 .. a + b /\ ~(a + i <= a) /\ (a + i) - a = i /\ i \in 1 .. c - a
      BY <1>3
    <3> QED BY <1>2, <1>6, <3>1 DEF IsPart
  <2> QED BY <1>3, <1>6, <2>1 DEF IsPart
<1>9. l = s
  <2>1. l \in Seq(S) /\ Len(l) = Len(s)
    BY <1>3, <1>4, <1>5 DEF IsPart
  <2> QED BY <1>7, <2>1, SeqEqual
<1>10. r = t
  <2>1. r \in Seq(S) /\ Len(r) = Len(t)
    BY <1>3, <1>4, <1>6 DEF IsPart
  <2> QED BY <1>8, <2>1, SeqEqual
<1> QED BY <1>4, <1>9, <1>10 DEF l, r

LEMMA PartOfFirst ==
  ASSUME NEW S, NEW s \in Seq(S), NEW t \in Seq(S), NEW a \in Nat, NEW b \in Nat,
         a <= b, b <= Len(s)
  PROVE  Part(s \o t, a, b) = Part(s, a, b)
<1> DEFINE u == s \o t
           k == Len(s)
           n == Len(u)
<1>1. k \in Nat /\ Len(t) \in Nat /\ u \in Seq(S) /\ n = k + Len(t)
  BY LenProperties, ConcatProperties
<1>2. Part(u, 0, k) = s
  BY PartsOfConcat
<1>3. 0 \in Nat /\ 0 <= k /\ k <= n /\ b <= k - 0 /\ 0 + a = a /\ 0 + b = b
  <2>1. b <= k
    OBVIOUS
  <2> HIDE DEF k, n
  <2> QED BY <1>1, <2>1
<1> HIDE DEF u, k
<1>4. Part(Part(u, 0, k), a, b) = Part(u, 0 + a, 0 + b)
  BY <1>1, <1>3, PartOfPart
<1> QED BY <1>2, <1>3, <1>4 DEF u

LEMMA PartAcross ==
  ASSUME NEW S, NEW s \in Seq(S), NEW t \in Seq(S), NEW a \in Nat, a <= Len(s)
  PROVE  Part(s \o t, a, Len(s \o t)) = Part(s, a, Len(s)) \o t
<1> DEFINE u == s \o t
           k == Len(s)
           n == Len(u)
<1>1. k \in Nat /\ Len(t) \in Nat /\ u \in Seq(S) /\ n = k + Len(t)
  BY LenProperties, ConcatProperties
<1>2. Part(u, k, n) = t
  BY PartsOfConcat
<1>3. Part(u, a, k) = Part(s, a, k)
  <2>1. k <= Len(s) /\ a <= k
    BY <1>1
  <2> HIDE DEF k
  <2> QED BY <1>1, <2>1, PartOfFirst
<1>4. a <= k /\ k <= n /\ n <= Len(u) /\ n \in Nat
  <2>1. a <= k /\ n = Len(u)
    OBVIOUS
  <2> HIDE DEF k, n
  <2> QED BY <1>1, <2>1
<1> HIDE DEF u, k, n
<1>5. Part(u, a, k) \o Part(u, k, n) = Part(u, a, n)
  BY <1>1, <1>4, PartsJoin
<1> QED BY <1>2, <1>3, <1>5 DEF u, k, n

-----------------------------------------------------------------------------
(* What units unpack to *)

Units == Bytes \cup {End}

\* The bytes of the first units, each number of them.
UnpackedBy(units, f) ==
    f = [i \in 0 .. Len(units) |->
           IF i = 0 THEN << >>
           ELSE IF units[i] = End THEN f[i - 1]
           ELSE Append(f[i - 1], units[i])]

LEMMA UnpackedUnrolled ==
  ASSUME NEW units
  PROVE  Unpacked(units) = (CHOOSE f : UnpackedBy(units, f))[Len(units)]
BY Zenon DEF Unpacked, UnpackedBy

\* `f` is how `units` unpack, unit by unit.
Unpacks(units, f) ==
    /\ f \in [0 .. Len(units) -> Seq(Bytes)]
    /\ f[0] = << >>
    /\ \A i \in 1 .. Len(units) :
         f[i] = IF units[i] = End THEN f[i - 1] ELSE Append(f[i - 1], units[i])

LEMMA UnpackedExists ==
  ASSUME NEW units \in Seq(Units)
  PROVE  \E f : UnpackedBy(units, f)
<1> DEFINE l == Len(units)
           S == Seq(Bytes)
           after(i, s) == IF units[i] = End THEN s ELSE Append(s, units[i])
           step == [i \in 1 .. l |-> [s \in S |-> after(i, s)]]
<1>1. l \in Nat /\ << >> \in S
  BY LenProperties, EmptySeq
<1>2. ASSUME NEW i \in 1 .. l, NEW s \in S
      PROVE  after(i, s) \in S
  <2>1. units[i] \in Units
    BY <1>2, ElementOfSeq
  <2>2. CASE units[i] = End
    BY <1>2, <2>2
  <2>3. CASE units[i] # End
    <3>1. units[i] \in Bytes
      BY <2>1, <2>3 DEF Units
    <3> QED BY <1>2, <2>3, <3>1, AppendProperties
  <2> QED BY <2>2, <2>3
<1>3. step \in [1 .. l -> [S -> S]]
  <2> HIDE DEF after, S
  <2>1. \A i \in 1 .. l : [s \in S |-> after(i, s)] \in [S -> S]
    BY <1>2
  <2> QED BY <2>1
<1>4. \A i \in 1 .. l : \A s \in S : step[i][s] = after(i, s)
  OBVIOUS
<1> HIDE DEF S, step, after, l
<1>5. PICK f \in [0 .. l -> S] : Turned(<< >>, step, l, f)
  BY <1>1, <1>3, Unrolls
<1>6. ASSUME NEW i \in 0 .. l
      PROVE  f[i] = IF i = 0 THEN << >> ELSE after(i, f[i - 1])
  <2>1. f[i] = IF i = 0 THEN << >> ELSE step[i][f[i - 1]]
    BY <1>5 DEF Turned
  <2>2. CASE i = 0
    BY <2>1, <2>2
  <2>3. CASE i # 0
    <3>1. i \in 1 .. l /\ i - 1 \in 0 .. l
      BY <1>1, <2>3
    <3>2. f[i - 1] \in S
      BY <3>1
    <3> QED BY <1>4, <2>1, <2>3, <3>1, <3>2
  <2> QED BY <2>2, <2>3
<1>7. f = [i \in 0 .. l |-> IF i = 0 THEN << >> ELSE after(i, f[i - 1])]
  BY <1>6
<1>8. UnpackedBy(units, f)
  BY <1>7 DEF UnpackedBy, l, after
<1> QED BY <1>8

LEMMA UnpackedIs ==
  ASSUME NEW units \in Seq(Units)
  PROVE  \E f : Unpacks(units, f) /\ Unpacked(units) = f[Len(units)]
<1> DEFINE f == CHOOSE g : UnpackedBy(units, g)
           l == Len(units)
<1>1. UnpackedBy(units, f)
  BY UnpackedExists, Zenon
<1>2. Unpacked(units) = f[l]
  BY UnpackedUnrolled
<1>3. l \in Nat
  BY LenProperties
<1>4. f = [i \in 0 .. l |->
             IF i = 0 THEN << >>
             ELSE IF units[i] = End THEN f[i - 1]
             ELSE Append(f[i - 1], units[i])]
  <2> HIDE DEF f
  <2> QED BY <1>1 DEF UnpackedBy
<1> HIDE DEF f
<1> HIDE DEF l
<1>5. f[0] = << >>
  <2>1. 0 \in 0 .. l
    BY <1>3
  <2> QED BY <1>4, <2>1, Zenon
<1>6. ASSUME NEW i \in 1 .. l
      PROVE  f[i] = IF units[i] = End THEN f[i - 1] ELSE Append(f[i - 1], units[i])
  <2>1. i \in 0 .. l /\ i # 0
    BY <1>3
  <2> QED BY <1>4, <2>1, Zenon
<1>7. ASSUME NEW i \in 0 .. l
      PROVE  f[i] \in Seq(Bytes)
  <2> DEFINE T == {j \in 0 .. l : f[j] \in Seq(Bytes)}
  <2>1. 0 \in T
    <3>1. 0 \in 0 .. l
      BY <1>3
    <3>2. f[0] \in Seq(Bytes)
      BY <1>5, EmptySeq
    <3> QED BY <3>1, <3>2
  <2>2. ASSUME NEW j \in 0 .. l, j \in T, j # l
        PROVE  j + 1 \in T
    <3> DEFINE k == j + 1
    <3>1. k \in 1 .. l /\ k \in 0 .. l /\ k - 1 = j /\ f[j] \in Seq(Bytes)
      BY <1>3, <2>2
    <3> HIDE DEF k
    <3>2. units[k] \in Units
      BY <3>1, ElementOfSeq DEF l
    <3>3. f[k] \in Seq(Bytes)
      <4>1. f[k] = IF units[k] = End THEN f[j] ELSE Append(f[j], units[k])
        BY <1>6, <3>1
      <4>2. CASE units[k] = End
        BY <3>1, <4>1, <4>2
      <4>3. CASE units[k] # End
        <5>1. units[k] \in Bytes
          BY <3>2, <4>3 DEF Units
        <5> QED BY <3>1, <4>1, <4>3, <5>1, AppendProperties
      <4> QED BY <4>2, <4>3
    <3>4. k \in T
      BY <3>1, <3>3
    <3> QED BY <3>4 DEF k
  <2> HIDE DEF T
  <2>3. i \in T
    BY <1>3, <1>7, <2>1, <2>2, Stepwise
  <2> QED BY <2>3 DEF T
<1>8. f \in [0 .. l -> Seq(Bytes)]
  <2>1. f = [i \in 0 .. l |-> f[i]]
    BY <1>4
  <2> QED BY <1>7, <2>1
<1>9. Unpacks(units, f)
  BY <1>5, <1>6, <1>8 DEF Unpacks, l
<1> QED BY <1>2, <1>9 DEF l

LEMMA UnpackedUnique ==
  ASSUME NEW units \in Seq(Units), NEW f, Unpacks(units, f)
  PROVE  Unpacked(units) = f[Len(units)]
<1> DEFINE l == Len(units)
<1>1. PICK g : Unpacks(units, g) /\ Unpacked(units) = g[l]
  BY UnpackedIs
<1>2. l \in Nat
  BY LenProperties
<1> DEFINE T == {i \in 0 .. l : g[i] = f[i]}
<1>3. 0 \in T
  BY <1>1, <1>2 DEF Unpacks
<1>4. ASSUME NEW i \in 0 .. l, i \in T, i # l
      PROVE  i + 1 \in T
  <2> DEFINE j == i + 1
  <2>1. j \in 1 .. l /\ j \in 0 .. l /\ j - 1 = i /\ g[i] = f[i]
    BY <1>2, <1>4
  <2> HIDE DEF j
  <2>2. g[j] = IF units[j] = End THEN g[i] ELSE Append(g[i], units[j])
    BY <1>1, <2>1 DEF Unpacks
  <2>3. f[j] = IF units[j] = End THEN f[i] ELSE Append(f[i], units[j])
    BY <2>1 DEF Unpacks
  <2>4. g[j] = f[j]
    BY <2>1, <2>2, <2>3
  <2>5. j \in T
    BY <2>1, <2>4
  <2> QED BY <2>5 DEF j
<1>5. l \in 0 .. l
  BY <1>2
<1> HIDE DEF T
<1>6. l \in T
  <2> HIDE DEF l
  <2> QED BY <1>2, <1>3, <1>4, <1>5, Stepwise
<1>7. g[l] = f[l]
  BY <1>6 DEF T
<1> QED BY <1>1, <1>7

LEMMA UnpackedPrefix ==
  ASSUME NEW s \in Seq(Units), NEW f, Unpacks(s, f), NEW n \in 0 .. Len(s)
  PROVE  Unpacked(Part(s, 0, n)) = f[n]
<1> DEFINE l == Len(s)
           p == Part(s, 0, n)
           g == [i \in 0 .. n |-> f[i]]
<1>1. l \in Nat /\ n \in Nat /\ 0 <= n /\ n <= l
  BY LenProperties
<1>2. p \in Seq(Units) /\ Len(p) = n /\ \A i \in 1 .. n : p[i] = s[i]
  <2>1. IsPart(Units, p, s, 0, n)
    BY <1>1, PartIs
  <2> HIDE DEF p
  <2>2. p \in Seq(Units) /\ Len(p) = n - 0 /\ \A i \in 1 .. n - 0 : p[i] = s[0 + i]
    BY <2>1 DEF IsPart
  <2>3. n - 0 = n /\ \A i \in 1 .. n : 0 + i = i
    BY <1>1
  <2> QED BY <2>2, <2>3
<1>3. /\ f \in [0 .. l -> Seq(Bytes)] /\ f[0] = << >>
      /\ \A i \in 1 .. l : f[i] = IF s[i] = End THEN f[i - 1] ELSE Append(f[i - 1], s[i])
  BY DEF Unpacks
<1> HIDE DEF l, p
<1>4. \A i \in 0 .. n : i \in 0 .. l /\ g[i] = f[i]
  BY <1>1
<1>5. g \in [0 .. n -> Seq(Bytes)]
  BY <1>3, <1>4
<1>6. 0 \in 0 .. n /\ n \in 0 .. n
  BY <1>1
<1> HIDE DEF g
<1>7. ASSUME NEW i \in 1 .. n
      PROVE  g[i] = IF p[i] = End THEN g[i - 1] ELSE Append(g[i - 1], p[i])
  <2>1. i \in 0 .. n /\ i - 1 \in 0 .. n /\ i \in 1 .. l
    BY <1>1
  <2>2. g[i] = f[i] /\ g[i - 1] = f[i - 1] /\ p[i] = s[i]
    BY <1>2, <1>4, <2>1
  <2> QED BY <1>3, <2>1, <2>2
<1>8. Unpacks(p, g)
  <2>1. g[0] = << >>
    BY <1>3, <1>4, <1>6
  <2> QED BY <1>2, <1>5, <1>7, <2>1 DEF Unpacks
<1>9. Unpacked(p) = g[n]
  BY <1>2, <1>8, UnpackedUnique
<1> QED BY <1>4, <1>6, <1>9 DEF p

\* The bytes among the first units, from one number of units to the next.
Grows(s, i) ==
    Unpacked(Part(s, 0, i)) = IF s[i] = End THEN Unpacked(Part(s, 0, i - 1))
                              ELSE Append(Unpacked(Part(s, 0, i - 1)), s[i])

LEMMA UnpackedGrows ==
  ASSUME NEW s \in Seq(Units)
  PROVE  /\ \A i \in 1 .. Len(s) : Grows(s, i)
         /\ \A i \in 0 .. Len(s) : Unpacked(Part(s, 0, i)) \in Seq(Bytes)
         /\ Unpacked(Part(s, 0, 0)) = << >>
<1> DEFINE l == Len(s)
<1>1. PICK f : Unpacks(s, f)
  BY UnpackedIs
<1>2. \A i \in 0 .. l : Unpacked(Part(s, 0, i)) = f[i]
  BY <1>1, UnpackedPrefix
<1>3. l \in Nat
  BY LenProperties
<1>4. /\ f \in [0 .. l -> Seq(Bytes)] /\ f[0] = << >>
      /\ \A i \in 1 .. l : f[i] = IF s[i] = End THEN f[i - 1] ELSE Append(f[i - 1], s[i])
  BY <1>1 DEF Unpacks
<1> HIDE DEF l
<1>5. ASSUME NEW i \in 1 .. l
      PROVE  Grows(s, i)
  <2>1. i \in 0 .. l /\ i - 1 \in 0 .. l
    BY <1>3
  <2>2. Unpacked(Part(s, 0, i)) = f[i] /\ Unpacked(Part(s, 0, i - 1)) = f[i - 1]
    BY <1>2, <2>1
  <2> QED BY <1>4, <2>2 DEF Grows
<1>6. 0 \in 0 .. l
  BY <1>3
<1> QED BY <1>2, <1>4, <1>5, <1>6 DEF l

(* The bytes of a file are packed units: there are no more of them than units. *)
LEMMA UnpackedType ==
  ASSUME NEW s \in Seq(Units)
  PROVE  Unpacked(s) \in Seq(Bytes) /\ Len(Unpacked(s)) \in Nat /\ Len(Unpacked(s)) <= Len(s)
<1> DEFINE l == Len(s)
           u(i) == Unpacked(Part(s, 0, i))
           T == {i \in 0 .. l : Len(u(i)) <= i}
<1>1. l \in Nat
  BY LenProperties
<1>2. \A i \in 0 .. l : u(i) \in Seq(Bytes)
  BY UnpackedGrows
<1>3. 0 \in T
  <2>1. u(0) = << >>
    BY UnpackedGrows
  <2>2. Len(u(0)) = 0
    BY <2>1, EmptySeq
  <2> QED BY <1>1, <2>2
<1>4. ASSUME NEW i \in 0 .. l, i \in T, i # l
      PROVE  i + 1 \in T
  <2> DEFINE j == i + 1
  <2>1. j \in 1 .. l /\ j \in 0 .. l /\ j - 1 = i /\ Len(u(i)) <= i /\ i \in Nat
    BY <1>1, <1>4
  <2> HIDE DEF j
  <2>2. u(j) = IF s[j] = End THEN u(i) ELSE Append(u(i), s[j])
    <3>1. Grows(s, j)
      BY <2>1, UnpackedGrows
    <3> QED BY <2>1, <3>1 DEF Grows
  <2>3. s[j] \in Units /\ u(i) \in Seq(Bytes)
    BY <1>2, <2>1, ElementOfSeq
  <2> HIDE DEF u
  <2>4. Len(u(i)) \in Nat
    BY <2>3, LenProperties
  <2>5. Len(u(j)) <= i + 1
    <3>1. CASE s[j] = End
      BY <2>1, <2>2, <2>4, <3>1
    <3>2. CASE s[j] # End
      <4>1. s[j] \in Bytes
        BY <2>3, <3>2 DEF Units
      <4>2. Len(Append(u(i), s[j])) = Len(u(i)) + 1
        BY <2>3, <4>1, AppendProperties
      <4> QED BY <2>1, <2>2, <2>4, <3>2, <4>2
    <3> QED BY <3>1, <3>2
  <2>6. j \in T
    BY <2>1, <2>5 DEF j
  <2> QED BY <2>6 DEF j
<1>5. l \in 0 .. l
  BY <1>1
<1> HIDE DEF T
<1>6. l \in T
  <2> HIDE DEF l
  <2> QED BY <1>1, <1>3, <1>4, <1>5, Stepwise
<1>7. Part(s, 0, l) = s
  BY PartAll
<1>8. u(l) \in Seq(Bytes) /\ Len(u(l)) <= l
  BY <1>2, <1>5, <1>6 DEF T
<1>9. Unpacked(s) \in Seq(Bytes) /\ Len(Unpacked(s)) <= l
  BY <1>7, <1>8
<1> QED BY <1>9, LenProperties

(* Units are unpacked one after the other, wherever they are cut. *)
LEMMA UnpackedConcat ==
  ASSUME NEW a \in Seq(Units), NEW b \in Seq(Units)
  PROVE  Unpacked(a \o b) = Unpacked(a) \o Unpacked(b)
<1> DEFINE s == a \o b
           k == Len(a)
           l == Len(b)
           U == Unpacked(a)
           u(i) == Unpacked(Part(s, 0, i))
           v(i) == Unpacked(Part(b, 0, i))
           T == {i \in 0 .. l : u(k + i) = U \o v(i)}
<1>1. k \in Nat /\ l \in Nat
  BY LenProperties
<1>2. /\ s \in Seq(Units) /\ Len(s) = k + l
      /\ \A i \in 1 .. k + l : s[i] = IF i <= k THEN a[i] ELSE b[i - k]
  BY ConcatProperties
<1>3. Part(s, 0, k) = a
  BY PartsOfConcat
<1>4. U \in Seq(Bytes)
  BY UnpackedType
<1> HIDE DEF s, U
<1>5. /\ \A i \in 1 .. k + l : Grows(s, i)
      /\ \A i \in 0 .. k + l : u(i) \in Seq(Bytes)
  <2>1. /\ \A i \in 1 .. Len(s) : Grows(s, i)
        /\ \A i \in 0 .. Len(s) : Unpacked(Part(s, 0, i)) \in Seq(Bytes)
    BY <1>2, UnpackedGrows
  <2> QED BY <1>2, <2>1
<1>6. /\ \A i \in 1 .. l : Grows(b, i)
      /\ \A i \in 0 .. l : v(i) \in Seq(Bytes)
      /\ v(0) = << >>
  BY UnpackedGrows
<1>7. u(k) = U
  BY <1>3 DEF U
<1>8. 0 \in T
  <2>1. U \o << >> = U
    BY <1>4, ConcatEmptySeq
  <2>2. 0 \in 0 .. l /\ k + 0 = k
    BY <1>1
  <2> HIDE DEF u, v
  <2> QED BY <1>6, <1>7, <2>1, <2>2
<1>9. ASSUME NEW i \in 0 .. l, i \in T, i # l
      PROVE  i + 1 \in T
  <2> DEFINE j == i + 1
             m == k + j
             n == k + i
  <2>1. /\ j \in 1 .. l /\ j \in 0 .. l /\ j - 1 = i /\ u(n) = U \o v(i)
        /\ m \in 1 .. k + l /\ m - 1 = n /\ ~(m <= k) /\ m - k = j
    BY <1>1, <1>9
  <2>2. m = k + j
    OBVIOUS
  <2> HIDE DEF j, m, n
  <2>3. u(m) = IF s[m] = End THEN u(n) ELSE Append(u(n), s[m])
    <3>1. Grows(s, m)
      BY <1>5, <2>1
    <3> QED BY <2>1, <3>1 DEF Grows
  <2>4. v(j) = IF b[j] = End THEN v(i) ELSE Append(v(i), b[j])
    <3>1. Grows(b, j)
      BY <1>6, <2>1
    <3> QED BY <2>1, <3>1 DEF Grows
  <2>5. s[m] = b[j] /\ b[j] \in Units /\ v(i) \in Seq(Bytes)
    <3>1. s[m] = b[j]
      BY <1>2, <2>1
    <3>2. b[j] \in Units
      BY <2>1, ElementOfSeq
    <3> QED BY <1>6, <3>1, <3>2
  <2> HIDE DEF u, v
  <2>6. u(m) = U \o v(j)
    <3>1. CASE b[j] = End
      BY <2>1, <2>3, <2>4, <2>5, <3>1
    <3>2. CASE b[j] # End
      <4> DEFINE w == v(i)
                 e == b[j]
      <4>1. e \in Bytes /\ w \in Seq(Bytes)
        BY <2>5, <3>2 DEF Units
      <4>2. u(m) = Append(U \o w, e) /\ v(j) = Append(w, e)
        BY <2>1, <2>3, <2>4, <2>5, <3>2
      <4> HIDE DEF w, e
      <4>3. U \o w \in Seq(Bytes) /\ <<e>> \in Seq(Bytes)
        BY <1>4, <4>1, ConcatProperties
      <4>4. Append(U \o w, e) = (U \o w) \o <<e>>
        BY <4>1, <4>3, AppendIsConcat
      <4>5. Append(w, e) = w \o <<e>>
        BY <4>1, AppendIsConcat
      <4>6. (U \o w) \o <<e>> = U \o (w \o <<e>>)
        BY <1>4, <4>1, <4>3, ConcatAssociative
      <4> QED BY <4>2, <4>4, <4>5, <4>6
    <3> QED BY <3>1, <3>2
  <2>7. j \in T
    BY <2>1, <2>2, <2>6
  <2> QED BY <2>7 DEF j
<1>10. l \in 0 .. l
  BY <1>1
<1> HIDE DEF T
<1>11. l \in T
  <2> HIDE DEF l
  <2> QED BY <1>1, <1>8, <1>9, <1>10, Stepwise
<1>12. u(k + l) = U \o v(l)
  BY <1>11 DEF T
<1>13. Part(s, 0, k + l) = s /\ Part(b, 0, l) = b
  BY <1>2, PartAll
<1> QED BY <1>12, <1>13 DEF U, s

(* Bytes are units that unpack to themselves. *)
LEMMA UnpackedBytes ==
  ASSUME NEW s \in Seq(Bytes)
  PROVE  s \in Seq(Units) /\ Unpacked(s) = s
<1> DEFINE l == Len(s)
           u(i) == Unpacked(Part(s, 0, i))
           T == {i \in 0 .. l : u(i) = Part(s, 0, i)}
<1>1. l \in Nat
  BY LenProperties
<1>2. s \in Seq(Units)
  BY SeqMonotonic DEF Units
<1>3. /\ \A i \in 1 .. l : Grows(s, i)
      /\ u(0) = << >>
  BY <1>2, UnpackedGrows
<1>4. 0 \in T
  BY <1>1, <1>3, PartNone
<1>5. ASSUME NEW i \in 0 .. l, i \in T, i # l
      PROVE  i + 1 \in T
  <2> DEFINE j == i + 1
  <2>1. j \in 1 .. l /\ j \in 0 .. l /\ j - 1 = i /\ i \in Nat /\ 0 <= i /\ i <= l
        /\ u(i) = Part(s, 0, i)
    BY <1>1, <1>5
  <2>2. 1 \in 1 .. l /\ j \in 1 .. l /\ 0 + 1 = 1
    BY <2>1
  <2> HIDE DEF j
  <2>3. s[j] \in Bytes
    BY <2>1, ElementOfSeq
  <2>4. u(j) = Append(u(i), s[j])
    <3>1. Grows(s, j)
      BY <1>3, <2>1
    <3>2. s[j] # End
      BY <2>3, CompressedFileAssumption
    <3> QED BY <2>1, <3>1, <3>2 DEF Grows
  <2>5. SubSeq(s, 1, j) = SubSeq(s, 1, i) \o <<s[j]>>
    <3>1. j \in 1 .. Len(s) /\ 1 \in 1 .. Len(s)
      BY <2>2
    <3>2. SubSeq(s, 1, j) = SubSeq(s, 1, j - 1) \o <<s[j]>>
      BY <3>1, SubSeqRecursiveSecond
    <3> QED BY <2>1, <3>2
  <2>6. Part(s, 0, i) \in Seq(Bytes)
    <3>1. IsPart(Bytes, Part(s, 0, i), s, 0, i)
      BY <2>1, PartIs
    <3> QED BY <3>1 DEF IsPart
  <2>7. Append(Part(s, 0, i), s[j]) = Part(s, 0, i) \o <<s[j]>>
    BY <2>3, <2>6, AppendIsConcat
  <2>8. Part(s, 0, j) = SubSeq(s, 1, j) /\ Part(s, 0, i) = SubSeq(s, 1, i)
    BY <2>2 DEF Part
  <2> HIDE DEF u
  <2>9. u(j) = Part(s, 0, j)
    BY <2>1, <2>4, <2>5, <2>7, <2>8
  <2>10. j \in T
    BY <2>1, <2>9
  <2> QED BY <2>10 DEF j
<1>6. l \in 0 .. l
  BY <1>1
<1> HIDE DEF T
<1>7. l \in T
  <2> HIDE DEF l
  <2> QED BY <1>1, <1>4, <1>5, <1>6, Stepwise
<1>8. u(l) = Part(s, 0, l)
  BY <1>7 DEF T
<1>9. Part(s, 0, l) = s
  BY PartAll
<1> QED BY <1>2, <1>8, <1>9

LEMMA BytesAssociative ==
  \A s, t, u \in Seq(Bytes) : (s \o t) \o u = s \o (t \o u)
BY ConcatAssociative

(* The end of a stream is no byte. *)
LEMMA UnpackedEnd ==
  <<End>> \in Seq(Units) /\ Unpacked(<<End>>) = << >>
<1> DEFINE s == <<End>>
<1>1. s \in Seq(Units) /\ Len(s) = 1 /\ s[1] = End
  BY DEF Units
<1> HIDE DEF s
<1>2. /\ \A i \in 1 .. Len(s) : Grows(s, i)
      /\ Unpacked(Part(s, 0, 0)) = << >>
  BY <1>1, UnpackedGrows
<1>3. Grows(s, 1) /\ 1 - 1 = 0
  BY <1>1, <1>2
<1>4. Unpacked(Part(s, 0, 1)) = << >>
  BY <1>1, <1>2, <1>3 DEF Grows
<1>5. Part(s, 0, Len(s)) = s
  BY <1>1, PartAll
<1> QED BY <1>1, <1>4, <1>5 DEF s

LEMMA UnpackedNone ==
  Unpacked(<< >>) = << >>
<1>1. << >> \in Seq(Bytes)
  BY EmptySeq
<1> QED BY <1>1, UnpackedBytes

-----------------------------------------------------------------------------
(* Minima *)

LEMMA MinIs ==
  ASSUME NEW T, T \subseteq Nat, T # {}
  PROVE  Min(T) \in T /\ \A y \in T : Min(T) <= y
<1>1. \E x \in T : \A y \in T : x <= y
  BY Least
<1> QED BY <1>1 DEF Min

LEMMA MinOfTwo ==
  ASSUME NEW a \in Int, NEW b \in Int
  PROVE  Min({a, b}) = IF a <= b THEN a ELSE b
<1> DEFINE T == {a, b}
           m == IF a <= b THEN a ELSE b
<1>1. m \in T /\ \A y \in T : m <= y
  OBVIOUS
<1>2. \A x \in T : (\A y \in T : x <= y) => x = m
  OBVIOUS
<1> HIDE DEF m
<1>3. Min(T) \in T /\ \A y \in T : Min(T) <= y
  BY <1>1 DEF Min
<1> HIDE DEF T
<1>4. Min(T) = m
  BY <1>2, <1>3
<1> QED BY <1>4 DEF T, m

LEMMA MaxOfTwo ==
  ASSUME NEW a \in Int, NEW b \in Int
  PROVE  Max({a, b}) = IF a >= b THEN a ELSE b
<1> DEFINE T == {a, b}
           m == IF a >= b THEN a ELSE b
<1>1. m \in T /\ \A y \in T : m >= y
  OBVIOUS
<1>2. \A x \in T : (\A y \in T : x >= y) => x = m
  OBVIOUS
<1> HIDE DEF m
<1>3. Max(T) \in T /\ \A y \in T : Max(T) >= y
  BY <1>1 DEF Max
<1> HIDE DEF T
<1>4. Max(T) = m
  BY <1>2, <1>3
<1> QED BY <1>4 DEF T, m

(* The multiples of n that a file is fetched by. *)
LEMMA NextMultiple ==
  ASSUME NEW a \in Nat, NEW n \in Nat, n > 0, a % n = 0
  PROVE  (a + n) % n = 0
<1> DEFINE b == a + n
           q == a \div n
           p == b \div n
           r == b % n
           x == q + 1 - p
<1>1. a \in Int /\ b \in Int /\ n \in Int /\ n > 0
  OBVIOUS
<1> HIDE DEF b
<1>2. a % n = a - n * q
  BY <1>1
<1>3. r = b - n * p /\ r \in 0 .. n - 1
  BY <1>1
<1>4. q \in Int /\ p \in Int
  BY <1>1
<1> HIDE DEF q, p, r
<1>5. a = n * q
  <2> DEFINE y == n * q
             z == a % n
  <2>1. y \in Int /\ z = a - y /\ z = 0
    BY <1>1, <1>2, <1>4
  <2> HIDE DEF y, z
  <2>2. a = y
    BY <2>1
  <2> QED BY <2>2 DEF y
<1>6. n * q + n - n * p = r
  <2> DEFINE y == n * q
             z == n * p
  <2>1. y \in Int /\ z \in Int /\ r = b - z /\ a = y /\ b = a + n
    BY <1>1, <1>3, <1>4, <1>5 DEF b
  <2> HIDE DEF y, z
  <2>2. y + n - z = r
    BY <1>1, <2>1
  <2> QED BY <2>2 DEF y, z
<1>7. n * x = r /\ x \in Int
  BY <1>1, <1>4, <1>6
<1> HIDE DEF x
<1>8. CASE x >= 1
  <2>1. n * x >= n
    BY <1>1, <1>7, <1>8
  <2> QED BY <1>1, <1>3, <1>7, <2>1
<1>9. CASE x <= -1
  <2>1. n * x <= -n
    BY <1>1, <1>7, <1>9
  <2> QED BY <1>1, <1>3, <1>7, <2>1
<1>10. CASE x = 0
  BY <1>1, <1>7, <1>10 DEF r, b
<1> QED BY <1>7, <1>8, <1>9, <1>10

LEMMA ZeroMultiple ==
  ASSUME NEW n \in Nat, n > 0
  PROVE  0 % n = 0
OBVIOUS

-----------------------------------------------------------------------------
(* The state of a reader *)

Readers == [at : Nat, ended : BOOLEAN, unused : Seq(Units), buffer : Seq(Bytes), read : Nat,
            eof : BOOLEAN, position : Nat, size : Nat, raised : BOOLEAN]

\* How many units of the file were unpacked, and which are left.
Cut(r) == r.at - Len(r.unused)
Left(r) == Part(stored, Cut(r), Len(stored))

\* The bytes a reader has before it, in the buffer and in the file.
Ahead(r) == Unread(r) \o Unpacked(Left(r))

(* What was not read is the end of the buffer. *)
LEMMA UnreadIs ==
  ASSUME NEW r \in Readers, r.read <= Len(r.buffer)
  PROVE  /\ Unread(r) = Part(r.buffer, r.read, Len(r.buffer))
         /\ Unread(r) \in Seq(Bytes)
         /\ Len(Unread(r)) = Len(r.buffer) - r.read
         /\ Len(Unread(r)) \in Nat
<1> DEFINE b == r.buffer
           k == r.read
           l == Len(b)
           u == Part(b, k, l)
<1>1. b \in Seq(Bytes) /\ k \in Nat /\ k <= l
  BY DEF Readers
<1>2. l \in Nat /\ l <= Len(b)
  BY <1>1, LenProperties
<1>3. Unread(r) = u
  BY DEF Unread, Part
<1> HIDE DEF b, k
<1>4. IsPart(Bytes, u, b, k, l)
  <2> HIDE DEF l
  <2> QED BY <1>1, <1>2, PartIs
<1> HIDE DEF u, l
<1>5. u \in Seq(Bytes) /\ Len(u) = l - k /\ l - k \in Nat
  BY <1>1, <1>2, <1>4 DEF IsPart
<1> QED BY <1>3, <1>5 DEF u, l, k, b

\* `d` is a reader whose decompressor took k units or all of them: it unpacked the first
\* of them to `x` and keeps the others.
Unpacking(r, units, k, x, d) ==
    /\ d \in Readers /\ x \in Seq(Bytes)
    /\ d.at = r.at /\ d.read = r.read /\ d.eof = r.eof
    /\ d.position = r.position /\ d.size = r.size /\ d.raised = r.raised
    /\ d.buffer = r.buffer \o x
    /\ k \in Nat /\ k <= Len(units) /\ (units # << >> => k >= 1)
    /\ d.unused = Part(units, k, Len(units))
    /\ Unpacked(units) = x \o Unpacked(d.unused)
    /\ d.unused # << >> => d.ended
    /\ d.ended /\ d.unused = << >> => Len(units) > 0 /\ units[Len(units)] = End

(* A decompressor in the middle of a stream unpacks up to its end. *)
LEMMA DecompressedGoesOn ==
  ASSUME NEW r \in Readers, ~ r.ended, NEW units \in Seq(Units)
  PROVE  \E k, x : Unpacking(r, units, k, x, Decompressed(r, units))
<1> DEFINE l == Len(units)
           ends == {i \in DOMAIN units : units[i] = End}
           stop == IF ends = {} THEN l + 1 ELSE Min(ends)
           x == SubSeq(units, 1, stop - 1)
           v == SubSeq(units, stop + 1, l)
           e == ends # {}
           d == Decompressed(r, units)
<1>1. l \in Nat /\ DOMAIN units = 1 .. l
  BY LenProperties
<1>2. d = [r EXCEPT !.buffer = @ \o x, !.ended = e, !.unused = v]
  BY DEF Decompressed
<1>3. r.buffer \in Seq(Bytes)
  BY DEF Readers
<1>4. CASE ends = {}
  <2>1. \A i \in 1 .. l : units[i] \in Bytes
    <3>1. ASSUME NEW i \in 1 .. l
          PROVE  units[i] \in Bytes
      <4>1. units[i] \in Units /\ units[i] # End
        BY <1>1, <1>4, ElementOfSeq
      <4> QED BY <4>1 DEF Units
    <3> QED BY <3>1
  <2>2. units \in Seq(Bytes)
    <3>1. units \in [1 .. l -> Units]
      BY LenProperties
    <3>2. units \in [1 .. l -> Bytes]
      BY <2>1, <3>1
    <3> QED BY <1>1, <3>2, SeqDef
  <2>3. stop = l + 1 /\ (l + 1) - 1 = l
    BY <1>1, <1>4
  <2>4. x = units
    BY <2>3, SubSeqFull
  <2>5. v = << >>
    <3> DEFINE m == stop + 1
    <3>1. m \in Int /\ l \in Int /\ l < m
      BY <1>1, <2>3
    <3> HIDE DEF m, l
    <3>2. SubSeq(units, m, l) = << >>
      BY <3>1, SubSeqEmpty
    <3> QED BY <3>2 DEF m, l
  <2>6. e = FALSE
    BY <1>4
  <2> HIDE DEF x, v, e, ends, stop
  <2>7. r.buffer \o x \in Seq(Bytes)
    BY <1>3, <2>2, <2>4, ConcatProperties
  <2>8. v \in Seq(Units)
    BY <2>5, EmptySeq
  <2>9. /\ d \in Readers /\ d.at = r.at /\ d.read = r.read /\ d.eof = r.eof
        /\ d.position = r.position /\ d.size = r.size /\ d.raised = r.raised
        /\ d.buffer = r.buffer \o x /\ d.unused = v /\ d.ended = e
    BY <1>2, <2>6, <2>7, <2>8 DEF Readers
  <2> HIDE DEF d
  <2>10. Part(units, l, l) = << >>
    BY <1>1, PartNone
  <2>11. Unpacked(units) = x \o Unpacked(v)
    <3>1. Unpacked(units) = units /\ Unpacked(<< >>) = << >>
      BY <2>2, UnpackedBytes, UnpackedNone
    <3>2. units \o << >> = units
      BY <2>2, ConcatEmptySeq
    <3> QED BY <2>4, <2>5, <3>1, <3>2
  <2>12. units # << >> => l >= 1
    BY <1>1, EmptySeq
  <2>13. x \in Seq(Bytes) /\ l <= Len(units)
    BY <1>1, <2>2, <2>4
  <2>14. Unpacking(r, units, l, x, d)
    BY <1>1, <2>5, <2>6, <2>9, <2>10, <2>11, <2>12, <2>13 DEF Unpacking
  <2> QED BY <2>14 DEF d
<1>5. CASE ends # {}
  <2>1. ends \subseteq Nat
    BY <1>1
  <2>2. stop \in ends /\ \A i \in ends : stop <= i
    <3>1. Min(ends) \in ends /\ \A i \in ends : Min(ends) <= i
      <4> HIDE DEF ends
      <4> QED BY <1>5, <2>1, MinIs
    <3> QED BY <1>5, <3>1
  <2>3. stop \in 1 .. l /\ units[stop] = End /\ \A i \in 1 .. l : i < stop => units[i] # End
    <3>1. \A i \in 1 .. l : units[i] = End => i \in ends
      BY <1>1
    <3>2. stop \in 1 .. l /\ units[stop] = End
      BY <1>1, <2>2
    <3> HIDE DEF ends, stop
    <3>3. ASSUME NEW i \in 1 .. l, i < stop
          PROVE  units[i] # End
      BY <2>2, <3>1, <3>2, <3>3
    <3> QED BY <3>2, <3>3
  <2>4. e = TRUE
    BY <1>5
  <2> HIDE DEF stop, e, ends
  <2> DEFINE n == stop - 1
             w == Part(units, 0, n)
             z == Part(units, stop, l)
             y == Part(units, n, stop)
  <2>5. n \in Nat /\ stop \in Nat /\ 0 <= n /\ n <= stop /\ stop <= l /\ n <= l /\ stop = n + 1
        /\ l <= Len(units) /\ stop - n = 1
    BY <1>1, <2>3
  <2> HIDE DEF n
  <2>6. x = w /\ v = z
    BY DEF Part, n
  <2>7. w \in Seq(Bytes)
    <3>1. IsPart(Units, w, units, 0, n)
      BY <2>5, PartIs
    <3> HIDE DEF w
    <3>2. w \in Seq(Units) /\ Len(w) = n
      BY <2>5, <3>1 DEF IsPart
    <3>3. \A i \in 1 .. n : w[i] \in Bytes
      <4>1. ASSUME NEW i \in 1 .. n
            PROVE  w[i] \in Bytes
        <5>1. i \in 1 .. l /\ i < stop /\ 0 + i = i /\ i \in 1 .. n - 0
          BY <1>1, <2>5
        <5>2. w[i] = units[i]
          BY <3>1, <5>1 DEF IsPart
        <5>3. units[i] \in Units /\ units[i] # End
          BY <2>3, <5>1, ElementOfSeq
        <5> QED BY <5>2, <5>3 DEF Units
      <4> QED BY <4>1
    <3>4. w \in [1 .. n -> Units]
      BY <3>2, LenProperties
    <3>5. w \in [1 .. n -> Bytes]
      BY <3>3, <3>4
    <3> QED BY <2>5, <3>5, SeqDef
  <2>8. z \in Seq(Units)
    <3>1. IsPart(Units, z, units, stop, l)
      BY <1>1, <2>5, PartIs
    <3> QED BY <3>1 DEF IsPart
  <2>9. y = <<End>>
    <3>1. IsPart(Units, y, units, n, stop)
      BY <1>1, <2>5, PartIs
    <3> HIDE DEF y
    <3>2. y \in Seq(Units) /\ Len(y) = 1
      BY <2>5, <3>1 DEF IsPart
    <3>3. y[1] = End
      <4>1. 1 \in 1 .. stop - n /\ n + 1 = stop
        BY <2>5
      <4> QED BY <2>3, <3>1, <4>1 DEF IsPart
    <3> DEFINE o == <<End>>
    <3>4. o \in Seq(Units) /\ Len(o) = 1 /\ o[1] = End
      BY DEF Units
    <3> HIDE DEF o
    <3>5. y = o
      BY <3>2, <3>3, <3>4, SeqEqual
    <3> QED BY <3>5 DEF o
  <2>10. units = w \o (y \o z)
    <3>1. y \o z = Part(units, n, l)
      BY <1>1, <2>5, PartsJoin
    <3>2. w \o Part(units, n, l) = Part(units, 0, l)
      BY <1>1, <2>5, PartsJoin
    <3>3. Part(units, 0, l) = units
      BY PartAll
    <3> QED BY <3>1, <3>2, <3>3
  <2>11. Unpacked(units) = w \o Unpacked(z)
    <3> HIDE DEF w, y, z
    <3>1. w \in Seq(Units) /\ Unpacked(w) = w
      BY <2>7, UnpackedBytes
    <3>2. y \in Seq(Units) /\ Unpacked(y) = << >>
      BY <2>9, UnpackedEnd
    <3>3. Unpacked(y \o z) = << >> \o Unpacked(z) /\ y \o z \in Seq(Units)
      BY <2>8, <3>2, UnpackedConcat, ConcatProperties
    <3>4. Unpacked(z) \in Seq(Bytes)
      BY <2>8, UnpackedType
    <3>5. << >> \o Unpacked(z) = Unpacked(z)
      BY <3>4, ConcatEmptySeq
    <3>6. Unpacked(w \o (y \o z)) = Unpacked(w) \o Unpacked(y \o z)
      BY <3>1, <3>3, UnpackedConcat
    <3> QED BY <2>10, <3>1, <3>3, <3>5, <3>6
  <2> HIDE DEF x, v, w, y, z
  <2>12. r.buffer \o x \in Seq(Bytes)
    BY <1>3, <2>6, <2>7, ConcatProperties
  <2>13. /\ d \in Readers /\ d.at = r.at /\ d.read = r.read /\ d.eof = r.eof
         /\ d.position = r.position /\ d.size = r.size /\ d.raised = r.raised
         /\ d.buffer = r.buffer \o x /\ d.unused = v /\ d.ended = e
    BY <1>2, <2>4, <2>6, <2>8, <2>12 DEF Readers
  <2> HIDE DEF d
  <2>14. v = << >> => Len(units) > 0 /\ units[Len(units)] = End
    <3>1. SUFFICES ASSUME v = << >>
                   PROVE  l > 0 /\ units[l] = End
      OBVIOUS
    <3>2. IsPart(Units, z, units, stop, l)
      BY <1>1, <2>5, PartIs DEF z
    <3>3. Len(z) = l - stop
      BY <3>2 DEF IsPart
    <3>4. Len(z) = 0
      BY <2>6, <3>1, EmptySeq
    <3>5. stop = l
      <4> DEFINE a == Len(z)
      <4>1. a = l - stop /\ a = 0 /\ l \in Nat /\ stop \in Nat
        BY <1>1, <2>5, <3>3, <3>4
      <4> HIDE DEF a, l
      <4> QED BY <4>1
    <3> QED BY <2>3, <2>5, <3>5
  <2>15. /\ d.unused = Part(units, stop, Len(units)) /\ stop \in Nat /\ stop <= Len(units)
         /\ stop >= 1
    <3>1. stop >= 1
      BY <2>5
    <3> QED BY <2>5, <2>6, <2>13, <3>1 DEF z
  <2>16. Unpacked(units) = x \o Unpacked(d.unused) /\ x \in Seq(Bytes)
    BY <2>6, <2>7, <2>11, <2>13
  <2>17. Unpacking(r, units, stop, x, d)
    BY <2>4, <2>13, <2>14, <2>15, <2>16 DEF Unpacking
  <2> QED BY <2>17 DEF d
<1> QED BY <1>4, <1>5

(* What is appended to the buffer comes behind what was not read of it. *)
LEMMA UnreadGrows ==
  ASSUME NEW r \in Readers, r.read <= Len(r.buffer), NEW x \in Seq(Bytes),
         NEW d \in Readers, d.read = r.read, d.buffer = r.buffer \o x
  PROVE  d.read <= Len(d.buffer) /\ Unread(d) = Unread(r) \o x
<1> DEFINE b == r.buffer
           k == r.read
           l == Len(b)
           n == Len(b \o x)
<1>1. b \in Seq(Bytes) /\ k \in Nat /\ k <= l
  BY DEF Readers
<1>2. d.buffer = b \o x /\ d.read = k
  OBVIOUS
<1> HIDE DEF b
<1>3. l \in Nat /\ Len(x) \in Nat /\ n = l + Len(x)
  BY <1>1, LenProperties, ConcatProperties
<1>4. Part(b \o x, k, n) = Part(b, k, l) \o x
  BY <1>1, PartAcross
<1>5. k <= n
  <2> HIDE DEF n, l, k
  <2> QED BY <1>1, <1>3
<1>6. Unread(d) = Part(b \o x, k, n)
  <2>1. d.read <= Len(d.buffer)
    BY <1>2, <1>5
  <2> QED BY <1>2, <2>1, UnreadIs
<1>7. Unread(r) = Part(b, k, l)
  BY UnreadIs DEF b
<1> QED BY <1>2, <1>4, <1>5, <1>6, <1>7

\* A reader after its decompressor went on from unit c.
Advanced(r, c, d) ==
    /\ d \in Readers
    /\ d.at = r.at /\ d.read = r.read /\ d.eof = r.eof
    /\ d.position = r.position /\ d.size = r.size /\ d.raised = r.raised
    /\ d.read <= Len(d.buffer)
    /\ Len(d.unused) <= r.at - c /\ (c < r.at => Len(d.unused) < r.at - c)
    /\ d.unused = Part(stored, Cut(d), d.at)
    /\ d.unused # << >> => d.ended
    /\ d.ended /\ d.unused = << >> => d.at > 0 /\ stored[d.at] = End
    /\ Ahead(d) = Unread(r) \o Unpacked(Part(stored, c, Len(stored)))

LEMMA Advances ==
  ASSUME stored \in Seq(Units), NEW r \in Readers, ~ r.ended, r.read <= Len(r.buffer),
         r.at <= Len(stored), NEW c \in Nat, c <= r.at
  PROVE  Advanced(r, c, Decompressed(r, Part(stored, c, r.at)))
<1> DEFINE a == r.at
           l == Len(stored)
           units == Part(stored, c, a)
           d == Decompressed(r, units)
           tail == Part(stored, a, l)
           n == Len(units)
<1>1. a \in Nat /\ l \in Nat /\ a <= l /\ c <= a /\ c <= l
  <2>1. a \in Nat /\ l \in Nat
    BY LenProperties DEF Readers
  <2> QED BY <2>1
<1>2. l = Len(stored) /\ a = r.at
  OBVIOUS
<1> HIDE DEF a, l
<1>3. IsPart(Units, units, stored, c, a)
  BY <1>1, <1>2, PartIs
<1>4. units \in Seq(Units) /\ n = a - c /\ \A i \in 1 .. a - c : units[i] = stored[c + i]
  BY <1>3 DEF IsPart
<1> HIDE DEF units
<1>5. PICK k, x : Unpacking(r, units, k, x, d)
  BY <1>4, DecompressedGoesOn
<1> HIDE DEF d
<1> DEFINE v == d.unused
           m == c + k
<1>6. /\ d \in Readers /\ x \in Seq(Bytes)
      /\ d.at = r.at /\ d.read = r.read /\ d.eof = r.eof
      /\ d.position = r.position /\ d.size = r.size /\ d.raised = r.raised
      /\ d.buffer = r.buffer \o x
      /\ k \in Nat /\ k <= n /\ (units # << >> => k >= 1)
      /\ v = Part(units, k, n)
      /\ Unpacked(units) = x \o Unpacked(v)
      /\ (v # << >> => d.ended)
      /\ (d.ended /\ v = << >> => n > 0 /\ units[n] = End)
  BY <1>5 DEF Unpacking
<1>7. n \in Nat /\ c + n = a /\ m \in Nat /\ m <= a /\ m <= l
  BY <1>1, <1>4, <1>6
<1>8. v \in Seq(Units) /\ Len(v) = n - k
  <2>1. n <= Len(units)
    BY <1>7
  <2> HIDE DEF n
  <2>2. IsPart(Units, Part(units, k, n), units, k, n)
    BY <1>4, <1>6, <1>7, <2>1, PartIs
  <2> QED BY <1>6, <2>2 DEF IsPart
<1>9. v = Part(stored, m, a)
  <2>1. n <= a - c /\ c \in Nat /\ a \in Nat /\ c <= a /\ a <= Len(stored) /\ k <= n
    BY <1>1, <1>2, <1>4, <1>6, <1>7
  <2> HIDE DEF n
  <2>2. Part(Part(stored, c, a), k, n) = Part(stored, c + k, c + n)
    BY <1>6, <1>7, <2>1, PartOfPart
  <2> QED BY <1>6, <1>7, <2>2 DEF units
<1>10. Cut(d) = m
  <2> DEFINE y == Len(v)
  <2>1. Cut(d) = a - y
    BY <1>2, <1>6 DEF Cut
  <2>2. y = n - k /\ c + n = a /\ k \in Nat
    BY <1>6, <1>7, <1>8
  <2> HIDE DEF y, n, v
  <2> QED BY <1>1, <1>7, <2>1, <2>2
<1> HIDE DEF v
<1>11. Left(d) = v \o tail
  <2>1. Part(stored, m, a) \o Part(stored, a, l) = Part(stored, m, l)
    <3> HIDE DEF m
    <3>1. l <= Len(stored)
      BY <1>1, <1>2
    <3> QED BY <1>1, <1>7, <3>1, PartsJoin
  <2> QED BY <1>2, <1>9, <1>10, <2>1 DEF Left
<1>12. Part(stored, c, l) = units \o tail
  <2>1. Part(stored, c, a) \o Part(stored, a, l) = Part(stored, c, l)
    <3>1. l <= Len(stored)
      BY <1>1, <1>2
    <3> QED BY <1>1, <3>1, PartsJoin
  <2> QED BY <2>1 DEF units
<1>13. tail \in Seq(Units)
  <2>1. l <= Len(stored)
    BY <1>1, <1>2
  <2>2. IsPart(Units, tail, stored, a, l)
    BY <1>1, <2>1, PartIs
  <2> QED BY <2>2 DEF IsPart
<1> HIDE DEF tail
<1>14. d.read <= Len(d.buffer) /\ Unread(d) = Unread(r) \o x
  BY <1>6, UnreadGrows
<1>15. Ahead(d) = Unread(r) \o Unpacked(Part(stored, c, l))
  <2> DEFINE p == Unread(r)
             q == Unpacked(v)
             t == Unpacked(tail)
  <2>1. Unpacked(v \o tail) = q \o t /\ Unpacked(units \o tail) = Unpacked(units) \o t
    BY <1>4, <1>8, <1>13, UnpackedConcat
  <2>2. p \in Seq(Bytes) /\ q \in Seq(Bytes) /\ t \in Seq(Bytes) /\ x \in Seq(Bytes)
    <3>1. p \in Seq(Bytes)
      BY UnreadIs
    <3>2. q \in Seq(Bytes)
      BY <1>8, UnpackedType
    <3>3. t \in Seq(Bytes)
      BY <1>13, UnpackedType
    <3> QED BY <1>6, <3>1, <3>2, <3>3
  <2>3. Ahead(d) = (p \o x) \o (q \o t)
    BY <1>11, <1>14, <2>1 DEF Ahead
  <2>4. Unpacked(Part(stored, c, l)) = (x \o q) \o t
    BY <1>6, <1>12, <2>1 DEF v
  <2> HIDE DEF p, q, t
  <2>5. q \o t \in Seq(Bytes)
    BY <2>2, ConcatProperties
  <2>6. (x \o q) \o t = x \o (q \o t)
    BY <2>2, BytesAssociative
  <2>7. (p \o x) \o (q \o t) = p \o (x \o (q \o t))
    BY <2>2, <2>5, BytesAssociative
  <2> QED BY <2>3, <2>4, <2>6, <2>7 DEF p
<1>16. Len(v) <= a - c /\ (c < a => Len(v) < a - c)
  <2>1. c < a => units # << >>
    <3>1. units = << >> => n = 0
      BY EmptySeq
    <3> HIDE DEF n
    <3> QED BY <1>1, <1>7, <3>1
  <2> DEFINE y == Len(v)
  <2>2. y = n - k /\ n = a - c /\ k \in Nat /\ n \in Nat /\ (c < a => k >= 1)
    BY <1>4, <1>6, <1>7, <1>8, <2>1
  <2> HIDE DEF y, n
  <2>3. y <= a - c /\ (c < a => y < a - c)
    BY <1>1, <2>2
  <2> QED BY <2>3 DEF y
<1>17. d.ended /\ v = << >> => d.at > 0 /\ stored[d.at] = End
  <2>1. SUFFICES ASSUME n > 0, units[n] = End
                 PROVE  a > 0 /\ stored[a] = End
    BY <1>2, <1>6 DEF v
  <2>2. n \in 1 .. a - c
    BY <1>4, <1>7, <2>1
  <2>3. units[n] = stored[c + n]
    <3> HIDE DEF n
    <3> QED BY <1>4, <2>2
  <2>4. a > 0
    <3> HIDE DEF n
    <3> QED BY <1>1, <1>7, <2>1
  <2> QED BY <1>7, <2>1, <2>3, <2>4
<1>18. Advanced(r, c, d)
  BY <1>2, <1>6, <1>9, <1>10, <1>14, <1>15, <1>16, <1>17 DEF Advanced, v
<1> QED BY <1>2, <1>18 DEF d, units

-----------------------------------------------------------------------------
(* A sound reader *)

\* The bytes of the file, and those behind a position.
File == Unpacked(stored)
Rest(p) == Part(File, p, Len(File))

Shaped(r) ==
    /\ r \in Readers
    /\ r.at <= Len(stored) /\ r.read <= Len(r.buffer)
    /\ Len(r.unused) <= r.at /\ r.unused = Part(stored, Cut(r), r.at)
    /\ r.unused # << >> => r.ended
    /\ r.size \in {Unknown, Len(File)}

Placed(r) ==
    /\ r.at % ReadSize = 0 \/ r.at = Len(stored)
    /\ r.ended /\ r.unused = << >> => r.at > 0 /\ stored[r.at] = End
    /\ r.eof => r.unused = << >> /\ r.at = Len(stored)
    /\ r.position <= Len(File)
    /\ Ahead(r) = Rest(r.position)

Sound(r) ==
    /\ Shaped(r)
    /\ r.raised => Brittle
    /\ ~ r.raised => Placed(r)

FileOK == stored \in Seq(Units) /\ strict \in BOOLEAN

\* How much fetching is left.
Work(r) == IF r.eof THEN 0 ELSE Len(r.unused) + 2 * (Len(stored) - r.at) + 1

LEMMA FileIs ==
  ASSUME FileOK
  PROVE  /\ File \in Seq(Bytes)
         /\ Len(File) \in Nat
         /\ Len(stored) \in Nat
         /\ Len(File) <= Len(stored)
<1>1. stored \in Seq(Units)
  BY DEF FileOK
<1>2. Len(stored) \in Nat
  BY <1>1, LenProperties
<1> QED BY <1>1, <1>2, UnpackedType DEF File

LEMMA WorkIs ==
  ASSUME FileOK, NEW r, Shaped(r)
  PROVE  Work(r) \in Nat /\ Work(r) < MostTurns
<1> DEFINE a == r.at
           l == Len(stored)
           u == Len(r.unused)
<1>1. r \in Readers /\ a <= l /\ u <= a
  BY DEF Shaped
<1>2. a \in Nat /\ l \in Nat /\ u \in Nat
  <2>1. r.unused \in Seq(Units) /\ a \in Nat
    BY <1>1 DEF Readers
  <2> QED BY <2>1, FileIs, LenProperties
<1> HIDE DEF a, l, u
<1>3. u + 2 * (l - a) + 1 \in Nat /\ u + 2 * (l - a) + 1 < 2 * l + 2 /\ 0 < 2 * l + 2
  BY <1>1, <1>2
<1>4. MostTurns = 2 * l + 2
  BY DEF MostTurns, l
<1>5. Work(r) = IF r.eof THEN 0 ELSE u + 2 * (l - a) + 1
  BY DEF Work, a, l, u
<1> HIDE DEF MostTurns
<1>6. 0 \in Nat
  OBVIOUS
<1> QED BY <1>3, <1>4, <1>5, <1>6

\* `f` is a sound reader as far as `r` in the bytes of the file.
Keeps(r, f) ==
    /\ Sound(f)
    /\ f.position = r.position /\ f.size = r.size

(* What follows the end of a stream is unpacked like another stream. *)
LEMMA FetchedNextStream ==
  ASSUME FileOK, NEW r, Sound(r), ~ r.raised, ~ r.eof, r.unused # << >>
  PROVE  Keeps(r, Fetched(r)) /\ ~ Fetched(r).raised /\ Work(Fetched(r)) < Work(r)
<1> DEFINE s == _initialize_decompressor(r)
           d == Decompressed(s, r.unused)
           c == Cut(r)
           a == r.at
           l == Len(stored)
           u == Len(r.unused)
<1>1. Shaped(r) /\ Placed(r)
  BY DEF Sound
<1>2. r \in Readers /\ a <= l /\ u <= a /\ r.read <= Len(r.buffer)
  BY <1>1 DEF Shaped
<1>3. a \in Nat /\ l \in Nat /\ u \in Nat /\ r.unused \in Seq(Units)
  <2>1. r.unused \in Seq(Units) /\ a \in Nat
    BY <1>2 DEF Readers
  <2> QED BY <2>1, FileIs, LenProperties
<1>4. Fetched(r) = d
  BY DEF Fetched
<1>5. s = [r EXCEPT !.ended = FALSE, !.unused = << >>]
  BY DEF _initialize_decompressor
<1>6. /\ s \in Readers /\ ~ s.ended /\ s.at = a /\ s.read = r.read /\ s.buffer = r.buffer
      /\ s.eof = r.eof /\ s.position = r.position /\ s.size = r.size /\ s.raised = r.raised
  <2>1. << >> \in Seq(Units)
    BY EmptySeq
  <2> HIDE DEF s
  <2> QED BY <1>2, <1>5, <2>1 DEF Readers
<1>7. c = a - u /\ c \in Nat /\ c <= a /\ c < a
  <2>1. c = a - u
    BY DEF Cut
  <2>2. u # 0
    BY <1>3, EmptySeq
  <2> HIDE DEF a, u, c
  <2> QED BY <1>2, <1>3, <2>1, <2>2
<1>8. r.unused = Part(stored, c, a)
  BY <1>1 DEF Shaped
<1> HIDE DEF s, c
<1>9. Advanced(s, c, d)
  <2>1. stored \in Seq(Units) /\ s.read <= Len(s.buffer) /\ s.at <= Len(stored) /\ c <= s.at
    BY <1>2, <1>6, <1>7 DEF FileOK
  <2>2. Advanced(s, c, Decompressed(s, Part(stored, c, s.at)))
    BY <1>6, <1>7, <2>1, Advances
  <2> QED BY <1>6, <1>8, <2>2
<1> HIDE DEF d
<1>10. /\ d \in Readers /\ d.at = a /\ d.eof = r.eof /\ d.position = r.position
       /\ d.size = r.size /\ d.raised = r.raised /\ d.read <= Len(d.buffer)
       /\ Len(d.unused) <= a - c /\ Len(d.unused) < a - c
       /\ d.unused = Part(stored, Cut(d), d.at)
       /\ (d.unused # << >> => d.ended)
       /\ (d.ended /\ d.unused = << >> => d.at > 0 /\ stored[d.at] = End)
       /\ Ahead(d) = Unread(s) \o Unpacked(Part(stored, c, Len(stored)))
  BY <1>6, <1>7, <1>9 DEF Advanced
<1>11. Len(d.unused) \in Nat /\ Len(d.unused) < u
  <2>1. Len(d.unused) \in Nat
    <3>1. d.unused \in Seq(Units)
      BY <1>10 DEF Readers
    <3> QED BY <3>1, LenProperties
  <2>2. a - c = u
    <3> HIDE DEF a, u
    <3> QED BY <1>3, <1>7
  <2> QED BY <1>10, <2>1, <2>2
<1>12. Shaped(d)
  <2>1. r.size \in {Unknown, Len(File)}
    BY <1>1 DEF Shaped
  <2> DEFINE y == Len(d.unused)
  <2>2. y <= a
    <3>1. y \in Nat /\ y < u
      BY <1>11
    <3> HIDE DEF y, a, u
    <3> QED BY <1>2, <1>3, <3>1
  <2> QED BY <1>2, <1>10, <2>1, <2>2 DEF Shaped
<1>13. Placed(d)
  <2>1. Unread(s) = Unread(r)
    BY <1>6 DEF Unread
  <2>2. Ahead(d) = Ahead(r)
    BY <1>10, <2>1 DEF Ahead, Left, c
  <2> QED BY <1>1, <1>10, <2>2 DEF Placed
<1>14. Keeps(r, d) /\ ~ d.raised
  BY <1>10, <1>12, <1>13 DEF Keeps, Sound
<1>15. Work(d) < Work(r)
  <2> DEFINE y == Len(d.unused)
  <2>1. Work(d) = y + 2 * (l - a) + 1 /\ Work(r) = u + 2 * (l - a) + 1
    BY <1>10 DEF Work
  <2>2. y \in Nat /\ y < u
    BY <1>11
  <2> HIDE DEF y, a, u, l
  <2>3. y + 2 * (l - a) + 1 < u + 2 * (l - a) + 1
    BY <1>3, <2>2
  <2> QED BY <2>1, <2>3
<1> QED BY <1>4, <1>14, <1>15

\* `r` after `k` more units were fetched.
Further(r, b) == [r EXCEPT !.at = b]

(* When nothing is kept, the next units of the file are fetched, and unpacked; or there *)
(* are none.                                                                            *)
LEMMA FetchedUnits ==
  ASSUME FileOK, NEW r, Sound(r), ~ r.raised, ~ r.eof, r.unused = << >>
  PROVE  \/ r.at = Len(stored) /\ Fetched(r) = [r EXCEPT !.eof = TRUE]
         \/ \E b \in Nat : /\ r.at < b /\ b <= Len(stored)
                           /\ r.at % ReadSize = 0
                           /\ b % ReadSize = 0 \/ b = Len(stored)
                           /\ Fetched(r) = Decompressed(Further(r, b), Part(stored, r.at, b))
<1> DEFINE a == r.at
           l == Len(stored)
           n == ReadSize
           b == Min({a + n, l})
           units == SubSeq(stored, a + 1, b)
<1>1. Shaped(r) /\ Placed(r)
  BY DEF Sound
<1>2. a \in Nat /\ l \in Nat /\ a <= l /\ n \in Nat /\ n > 0
  <2>1. a \in Nat /\ a <= l
    BY <1>1 DEF Shaped, Readers
  <2>2. l \in Nat
    BY FileIs
  <2> HIDE DEF a, l
  <2> QED BY <2>1, <2>2, CompressedFileAssumption
<1>3. a % n = 0 \/ a = l
  BY <1>1 DEF Placed
<1>4. Fetched(r) = IF units = << >> THEN [r EXCEPT !.eof = TRUE]
                   ELSE Decompressed([r EXCEPT !.at = @ + Len(units)], units)
  BY DEF Fetched
<1>5. a = r.at /\ l = Len(stored) /\ n = ReadSize
  OBVIOUS
<1> HIDE DEF a, l, n
<1>6. b = IF a + n <= l THEN a + n ELSE l
  <2> DEFINE m == a + n
  <2>1. m \in Int /\ l \in Int
    BY <1>2
  <2> HIDE DEF m
  <2>2. Min({m, l}) = IF m <= l THEN m ELSE l
    BY <2>1, MinOfTwo
  <2> QED BY <2>2 DEF m
<1> HIDE DEF b
<1>7. b \in Nat /\ a <= b /\ b <= l /\ (a < l => a < b)
  BY <1>2, <1>6
<1>8. units = Part(stored, a, b)
  BY DEF Part
<1>9. units \in Seq(Units) /\ Len(units) = b - a
  <2>1. stored \in Seq(Units) /\ b <= Len(stored)
    BY <1>5, <1>7 DEF FileOK
  <2>2. IsPart(Units, units, stored, a, b)
    BY <1>2, <1>7, <1>8, <2>1, PartIs
  <2> QED BY <2>2 DEF IsPart
<1> HIDE DEF units
<1>10. CASE a = l
  <2>1. Len(units) = 0
    BY <1>2, <1>7, <1>9, <1>10
  <2>2. units = << >>
    BY <1>9, <2>1, EmptySeq
  <2> QED BY <1>4, <1>5, <1>10, <2>2
<1>11. CASE a # l
  <2>1. a < b /\ a % n = 0
    BY <1>2, <1>3, <1>7, <1>11
  <2>2. units # << >>
    <3>1. units = << >> => Len(units) = 0
      BY EmptySeq
    <3> QED BY <1>2, <1>7, <1>9, <2>1, <3>1
  <2>3. a + Len(units) = b
    BY <1>2, <1>7, <1>9
  <2>4. Fetched(r) = Decompressed(Further(r, b), units)
    BY <1>4, <1>5, <2>2, <2>3 DEF Further
  <2>5. b % n = 0 \/ b = l
    <3>1. CASE a + n <= l
      <4>1. (a + n) % n = 0
        BY <1>2, <2>1, NextMultiple
      <4> QED BY <1>6, <3>1, <4>1
    <3>2. CASE ~ (a + n <= l)
      BY <1>6, <3>2
    <3> QED BY <3>1, <3>2
  <2> QED BY <1>5, <1>7, <1>8, <2>1, <2>4, <2>5
<1> QED BY <1>10, <1>11

LEMMA FetchedMore ==
  ASSUME FileOK, NEW r, Sound(r), ~ r.raised, ~ r.eof, r.unused = << >>
  PROVE  /\ Keeps(r, Fetched(r))
         /\ Fetched(r).raised \/ Fetched(r).eof \/ Work(Fetched(r)) < Work(r)
<1> DEFINE a == r.at
           l == Len(stored)
           f == Fetched(r)
<1>1. Shaped(r) /\ Placed(r)
  BY DEF Sound
<1>2. r \in Readers /\ a <= l /\ r.read <= Len(r.buffer) /\ r.size \in {Unknown, Len(File)}
  BY <1>1 DEF Shaped
<1>3. a \in Nat /\ l \in Nat /\ a - 0 = a
  <2>1. a \in Nat
    BY <1>2 DEF Readers
  <2> HIDE DEF a
  <2> QED BY <2>1, FileIs
<1>4. Len(r.unused) = 0
  BY EmptySeq
<1>5. Cut(r) = a
  BY <1>3, <1>4 DEF Cut
<1>6. Work(r) = 2 * (l - a) + 1
  <2>1. Work(r) = 0 + 2 * (l - a) + 1
    BY <1>4 DEF Work
  <2> HIDE DEF a, l
  <2> QED BY <1>3, <2>1
<1>7. CASE a = l /\ f = [r EXCEPT !.eof = TRUE]
  <2>1. /\ f \in Readers /\ f.eof /\ f.at = a /\ f.read = r.read /\ f.buffer = r.buffer
        /\ f.unused = r.unused /\ f.ended = r.ended /\ f.position = r.position
        /\ f.size = r.size /\ f.raised = r.raised
    <3> HIDE DEF f
    <3> QED BY <1>2, <1>7 DEF Readers
  <2> HIDE DEF f
  <2>2. Cut(f) = Cut(r) /\ Unread(f) = Unread(r)
    BY <2>1 DEF Cut, Unread
  <2>3. Ahead(f) = Ahead(r)
    BY <2>2 DEF Ahead, Left
  <2>4. Shaped(f)
    BY <1>1, <2>1, <2>2 DEF Shaped
  <2>5. Placed(f)
    BY <1>1, <1>7, <2>1, <2>3 DEF Placed
  <2>6. Keeps(r, f) /\ f.eof
    BY <2>1, <2>4, <2>5 DEF Keeps, Sound
  <2> QED BY <2>6 DEF f
<1>8. CASE \E b \in Nat : /\ a < b /\ b <= l
                          /\ a % ReadSize = 0
                          /\ b % ReadSize = 0 \/ b = l
                          /\ f = Decompressed(Further(r, b), Part(stored, a, b))
  <2>1. PICK b \in Nat : /\ a < b /\ b <= l
                         /\ a % ReadSize = 0
                         /\ b % ReadSize = 0 \/ b = l
                         /\ f = Decompressed(Further(r, b), Part(stored, a, b))
    BY <1>8
  <2> DEFINE s == Further(r, b)
             units == Part(stored, a, b)
  <2>2. /\ s \in Readers /\ s.at = b /\ s.read = r.read /\ s.buffer = r.buffer
        /\ s.unused = << >> /\ s.ended = r.ended /\ s.eof = FALSE /\ s.position = r.position
        /\ s.size = r.size /\ s.raised = FALSE
    <3>1. s = [r EXCEPT !.at = b]
      BY DEF Further
    <3> HIDE DEF s
    <3> QED BY <1>2, <2>1, <3>1 DEF Readers
  <2>3. f = Decompressed(s, units)
    BY <2>1
  <2>4. IsPart(Units, units, stored, a, b)
    <3>1. stored \in Seq(Units) /\ a <= b /\ b <= Len(stored)
      BY <1>3, <2>1 DEF FileOK
    <3> HIDE DEF a
    <3> QED BY <1>3, <2>1, <3>1, PartIs
  <2>5. units \in Seq(Units) /\ Len(units) = b - a
    BY <2>4 DEF IsPart
  <2>6. Left(r) = Part(stored, a, l)
    BY <1>5 DEF Left
  <2> HIDE DEF s, units, f
  <2>7. CASE r.ended /\ strict
    <3>1. f = [s EXCEPT !.raised = TRUE]
      BY <2>2, <2>3, <2>7 DEF Decompressed
    <3>2. /\ f \in Readers /\ f.at = b /\ f.read = r.read /\ f.buffer = r.buffer
          /\ f.unused = << >> /\ f.ended /\ f.position = r.position
          /\ f.size = r.size /\ f.raised
      BY <2>2, <2>7, <3>1 DEF Readers
    <3>3. Len(f.unused) = 0 /\ Cut(f) = b
      <4>1. Len(f.unused) = 0
        BY <3>2, EmptySeq
      <4> QED BY <2>1, <3>2, <4>1 DEF Cut
    <3>4. f.unused = Part(stored, Cut(f), f.at)
      BY <2>1, <3>2, <3>3, PartNone
    <3>5. Shaped(f)
      BY <1>2, <2>1, <3>2, <3>3, <3>4 DEF Shaped
    <3>6. Brittle
      <4>1. a > 0 /\ stored[a] = End
        BY <1>1, <2>7 DEF Placed
      <4>2. a \in 1 .. l - 1
        <5> HIDE DEF a, l
        <5> QED BY <1>3, <2>1, <4>1
      <4> QED BY <2>1, <2>7, <4>1, <4>2 DEF Brittle
    <3>7. Keeps(r, f) /\ f.raised
      BY <3>2, <3>5, <3>6 DEF Keeps, Sound
    <3> QED BY <3>7 DEF f
  <2>8. CASE r.ended /\ ~ strict
    <3>1. f = [s EXCEPT !.unused = << >> \o units]
      BY <2>2, <2>3, <2>8 DEF Decompressed
    <3>2. << >> \o units = units
      BY <2>5, ConcatEmptySeq
    <3>3. /\ f \in Readers /\ f.at = b /\ f.read = r.read /\ f.buffer = r.buffer
          /\ f.unused = units /\ f.ended /\ f.position = r.position /\ f.eof = FALSE
          /\ f.size = r.size /\ f.raised = FALSE
      BY <2>2, <2>5, <2>8, <3>1, <3>2 DEF Readers
    <3>4. Cut(f) = a
      <4> DEFINE y == Len(units)
      <4>1. Cut(f) = b - y /\ y = b - a
        BY <2>5, <3>3 DEF Cut
      <4> HIDE DEF y, a
      <4> QED BY <1>3, <2>1, <4>1
    <3>5. f.unused = Part(stored, Cut(f), f.at)
      BY <3>3, <3>4 DEF units
    <3>6. Len(f.unused) = b - a /\ b - a <= b /\ b - a \in Nat
      <4>1. b - a <= b /\ b - a \in Nat
        <5> HIDE DEF a
        <5> QED BY <1>3, <2>1
      <4> QED BY <2>5, <3>3, <4>1
    <3>7. Shaped(f)
      BY <1>2, <2>1, <3>3, <3>5, <3>6 DEF Shaped
    <3>8. f.unused # << >>
      <4>1. b - a # 0
        <5> HIDE DEF a
        <5> QED BY <1>3, <2>1
      <4> QED BY <3>6, <4>1, EmptySeq
    <3>9. Ahead(f) = Ahead(r)
      <4>1. Unread(f) = Unread(r)
        BY <3>3 DEF Unread
      <4>2. Left(f) = Left(r)
        BY <1>5, <3>4 DEF Left
      <4> QED BY <4>1, <4>2 DEF Ahead
    <3>10. Placed(f)
      BY <1>1, <2>1, <3>3, <3>8, <3>9 DEF Placed
    <3>11. Keeps(r, f)
      BY <3>3, <3>7, <3>10 DEF Keeps, Sound
    <3>12. Work(f) < Work(r)
      <4> DEFINE y == Len(f.unused)
      <4>1. Work(f) = y + 2 * (l - b) + 1 /\ y = b - a
        BY <3>3, <3>6 DEF Work
      <4> HIDE DEF y, a, l
      <4>2. y + 2 * (l - b) + 1 < 2 * (l - a) + 1
        BY <1>3, <2>1, <4>1
      <4> QED BY <1>6, <4>1, <4>2
    <3> QED BY <3>11, <3>12 DEF f
  <2>9. CASE ~ r.ended
    <3>1. Advanced(s, a, f)
      <4>1. /\ stored \in Seq(Units) /\ ~ s.ended /\ s.read <= Len(s.buffer)
            /\ s.at <= Len(stored) /\ a <= s.at
        <5>1. stored \in Seq(Units) /\ a <= b
          BY <1>3, <2>1 DEF FileOK
        <5> QED BY <1>2, <2>1, <2>2, <2>9, <5>1
      <4> HIDE DEF a
      <4>2. Advanced(s, a, Decompressed(s, Part(stored, a, s.at)))
        BY <1>3, <2>2, <4>1, Advances
      <4> QED BY <2>2, <2>3, <4>2 DEF units
    <3>2. /\ f \in Readers /\ f.at = b /\ f.eof = FALSE /\ f.position = r.position
          /\ f.size = r.size /\ f.raised = FALSE /\ f.read <= Len(f.buffer)
          /\ Len(f.unused) <= b - a /\ Len(f.unused) < b - a
          /\ f.unused = Part(stored, Cut(f), f.at)
          /\ (f.unused # << >> => f.ended)
          /\ (f.ended /\ f.unused = << >> => f.at > 0 /\ stored[f.at] = End)
          /\ Ahead(f) = Unread(s) \o Unpacked(Part(stored, a, Len(stored)))
      BY <2>1, <2>2, <3>1 DEF Advanced
    <3> DEFINE y == Len(f.unused)
    <3>3. y \in Nat /\ y <= b
      <4>1. f.unused \in Seq(Units)
        BY <3>2 DEF Readers
      <4>2. y \in Nat /\ y <= b - a
        BY <3>2, <4>1, LenProperties
      <4> HIDE DEF y, a
      <4> QED BY <1>3, <2>1, <4>2
    <3>4. Shaped(f)
      BY <1>2, <2>1, <3>2, <3>3 DEF Shaped
    <3>5. Ahead(f) = Ahead(r)
      <4>1. Unread(s) = Unread(r)
        BY <2>2 DEF Unread
      <4> QED BY <2>6, <3>2, <4>1 DEF Ahead
    <3>6. Placed(f)
      BY <1>1, <2>1, <3>2, <3>5 DEF Placed
    <3>7. Keeps(r, f)
      BY <3>2, <3>4, <3>6 DEF Keeps, Sound
    <3>8. Work(f) < Work(r)
      <4>1. Work(f) = y + 2 * (l - b) + 1 /\ y < b - a
        BY <3>2 DEF Work
      <4> HIDE DEF y, a, l
      <4>2. y + 2 * (l - b) + 1 < 2 * (l - a) + 1
        BY <1>3, <2>1, <3>3, <4>1
      <4> QED BY <1>6, <4>1, <4>2
    <3> QED BY <3>7, <3>8 DEF f
  <2> QED BY <2>7, <2>8, <2>9
<1>9. \/ a = l /\ f = [r EXCEPT !.eof = TRUE]
      \/ \E b \in Nat : /\ a < b /\ b <= l
                        /\ a % ReadSize = 0
                        /\ b % ReadSize = 0 \/ b = l
                        /\ f = Decompressed(Further(r, b), Part(stored, a, b))
  BY FetchedUnits
<1> QED BY <1>7, <1>8, <1>9

-----------------------------------------------------------------------------
(* Filling the buffer *)

\* The states of a loop.
Loops(z, step, last, f) ==
    \A i \in 0 .. last : f[i] = IF i = 0 THEN z ELSE step[f[i - 1]]

LEMMA Goes ==
  ASSUME NEW S, NEW z \in S, NEW step \in [S -> S], NEW last \in Nat
  PROVE  \E f \in [0 .. last -> S] : Loops(z, step, last, f)
<1> DEFINE steps == [i \in 1 .. last |-> step]
<1>1. steps \in [1 .. last -> [S -> S]] /\ \A i \in 1 .. last : steps[i] = step
  OBVIOUS
<1> HIDE DEF steps
<1>2. PICK f \in [0 .. last -> S] : Turned(z, steps, last, f)
  BY <1>1, Unrolls
<1>3. ASSUME NEW i \in 0 .. last
      PROVE  f[i] = IF i = 0 THEN z ELSE step[f[i - 1]]
  <2>1. f[i] = IF i = 0 THEN z ELSE steps[i][f[i - 1]]
    BY <1>2 DEF Turned
  <2>2. i # 0 => i \in 1 .. last
    OBVIOUS
  <2> QED BY <1>1, <2>1, <2>2
<1> QED BY <1>3 DEF Loops

\* A turn of the loop that fetches.
FillTurn(n, s) ==
    IF s.raised \/ s.eof \/ Len(Unread(s)) >= n THEN s ELSE Fetched(s)

FilledBy(r, n, f) ==
    f = [i \in 0 .. MostTurns |-> IF i = 0 THEN r ELSE FillTurn(n, f[i - 1])]

LEMMA FilledUnrolled ==
  ASSUME NEW r, NEW n
  PROVE  Filled(r, n) = (CHOOSE f : FilledBy(r, n, f))[MostTurns]
BY Zenon DEF Filled, Looped, FilledBy, FillTurn

LEMMA MostTurnsIs ==
  ASSUME FileOK
  PROVE  MostTurns \in Nat /\ Len(File) + 1 < MostTurns
<1> DEFINE l == Len(stored)
           c == Len(File)
<1>1. l \in Nat /\ c \in Nat /\ c <= l
  BY FileIs
<1> HIDE DEF l, c
<1>2. 2 * l + 2 \in Nat /\ c + 1 < 2 * l + 2
  BY <1>1
<1> QED BY <1>2 DEF MostTurns, l, c

(* A fetch keeps a reader sound, and comes nearer to the end of the file. *)
LEMMA FetchedSound ==
  ASSUME FileOK, NEW r, Sound(r), ~ r.raised, ~ r.eof
  PROVE  /\ Keeps(r, Fetched(r))
         /\ Fetched(r).raised \/ Fetched(r).eof \/ Work(Fetched(r)) < Work(r)
<1>1. CASE r.unused # << >>
  BY <1>1, FetchedNextStream
<1>2. CASE r.unused = << >>
  BY <1>2, FetchedMore
<1> QED BY <1>1, <1>2

(* The loop ends in time: with enough bytes in the buffer, at the end of the file, or *)
(* with an exception.                                                                  *)
LEMMA FilledSound ==
  ASSUME FileOK, NEW r, Sound(r), NEW n \in Int
  PROVE  /\ Keeps(r, Filled(r, n))
         /\ \/ Filled(r, n).raised
            \/ Filled(r, n).eof
            \/ Len(Unread(Filled(r, n))) >= n
         /\ Len(Unread(r)) >= n => Filled(r, n) = r
<1> DEFINE full(s) == s.raised \/ s.eof \/ Len(Unread(s)) >= n
           S == {s \in Readers : Keeps(r, s) /\ (full(r) => s = r)}
           M == MostTurns
           stop == {s \in S : full(s)}
           step == [s \in S |-> FillTurn(n, s)]
           m == [s \in S |-> Work(s)]
<1>1. M \in Nat
  BY MostTurnsIs
<1>2. ASSUME NEW s \in S, ~ full(s)
      PROVE  FillTurn(n, s) \in S /\ (full(FillTurn(n, s)) \/ Work(FillTurn(n, s)) < Work(s))
  <2>1. Keeps(r, s) /\ ~ s.raised /\ ~ s.eof /\ Sound(s)
    BY <1>2 DEF Keeps
  <2>2. /\ Keeps(s, Fetched(s))
        /\ Fetched(s).raised \/ Fetched(s).eof \/ Work(Fetched(s)) < Work(s)
    BY <2>1, FetchedSound
  <2>3. FillTurn(n, s) = Fetched(s)
    BY <1>2 DEF FillTurn
  <2>4. Keeps(r, Fetched(s)) /\ Fetched(s) \in Readers
    BY <2>1, <2>2 DEF Keeps, Sound, Shaped
  <2>5. ~ full(r)
    BY <1>2
  <2> HIDE DEF full
  <2>6. Fetched(s) \in S
    BY <2>4, <2>5
  <2> HIDE DEF S
  <2> QED BY <2>2, <2>3, <2>6 DEF full
<1>3. ASSUME NEW s \in S, full(s)
      PROVE  FillTurn(n, s) = s
  BY <1>3 DEF FillTurn
<1>4. r \in S
  BY DEF Keeps, Sound, Shaped
<1>5. \A s \in S : Work(s) \in Nat /\ Work(s) < M
  BY WorkIs DEF Keeps, Sound
<1> HIDE DEF full, M
<1>6. \A s \in S : FillTurn(n, s) \in S
  BY <1>2, <1>3
<1>7. stop \in SUBSET S /\ \A s \in S : s \in stop <=> full(s)
  OBVIOUS
<1> HIDE DEF S, stop
<1>9. step \in [S -> S] /\ \A s \in S : step[s] = FillTurn(n, s)
  BY <1>6
<1>10. m \in [S -> Nat] /\ \A s \in S : m[s] = Work(s)
  BY <1>5
<1> HIDE DEF step, m
<1>11. \E f : FilledBy(r, n, f)
  <2>1. PICK f \in [0 .. M -> S] : Loops(r, step, M, f)
    BY <1>1, <1>4, <1>9, Goes
  <2>2. ASSUME NEW i \in 0 .. M
        PROVE  f[i] = IF i = 0 THEN r ELSE FillTurn(n, f[i - 1])
    <3>1. i # 0 => i - 1 \in 0 .. M
      BY <1>1
    <3>2. i # 0 => f[i - 1] \in S
      BY <3>1
    <3> QED BY <1>9, <2>1, <3>2 DEF Loops
  <2>3. f = [i \in 0 .. M |-> IF i = 0 THEN r ELSE FillTurn(n, f[i - 1])]
    BY <2>2
  <2> QED BY <2>3 DEF FilledBy, M
<1> DEFINE g == CHOOSE f : FilledBy(r, n, f)
<1>12. FilledBy(r, n, g)
  BY <1>11, Zenon
<1>13. Filled(r, n) = g[M]
  BY FilledUnrolled DEF M
<1> HIDE DEF g
<1>14. g = [i \in 0 .. M |-> IF i = 0 THEN r ELSE FillTurn(n, g[i - 1])]
  BY <1>12 DEF FilledBy, M
<1>15. g[0] = r
  <2>1. 0 \in 0 .. M
    BY <1>1
  <2> QED BY <1>14, <2>1, Zenon
<1>16. ASSUME NEW i \in 1 .. M, g[i - 1] \in S
       PROVE  g[i] = step[g[i - 1]]
  <2>1. i \in 0 .. M /\ i # 0
    BY <1>1
  <2>2. g[i] = FillTurn(n, g[i - 1])
    BY <1>14, <2>1, Zenon
  <2> QED BY <1>9, <1>16, <2>2
<1>17. m[r] < M
  BY <1>4, <1>5, <1>10
<1>18. Follows(S, step, M, g)
  BY <1>16 DEF Follows
<1>19. Settles(S, step, stop, m)
  <2>1. ASSUME NEW s \in S, s \notin stop
        PROVE  step[s] \in stop \/ m[step[s]] < m[s]
    <3>1. ~ full(s)
      BY <1>7, <2>1
    <3>2. FillTurn(n, s) \in S /\ (full(FillTurn(n, s)) \/ Work(FillTurn(n, s)) < Work(s))
      BY <1>2, <3>1
    <3> QED BY <1>7, <1>9, <1>10, <3>2
  <2>2. \A s \in S : s \in stop => step[s] = s
    BY <1>3, <1>7, <1>9
  <2> QED BY <2>1, <2>2 DEF Settles
<1>20. g[M] \in stop
  BY <1>1, <1>4, <1>7, <1>9, <1>10, <1>15, <1>17, <1>18, <1>19, Stops
<1>21. g[M] \in S /\ full(g[M])
  BY <1>7, <1>20
<1> QED BY <1>13, <1>21 DEF S, full

-----------------------------------------------------------------------------
(* Reading *)

(* Dropping what was read changes nothing of what was not. *)
LEMMA CompactedSound ==
  ASSUME FileOK, NEW r, Sound(r), NEW n \in Int
  PROVE  Keeps(r, Compacted(r, n)) /\ Compacted(r, n).raised = r.raised
<1> DEFINE c == Compacted(r, n)
           u == Unread(r)
<1>1. Shaped(r) /\ r \in Readers /\ r.read <= Len(r.buffer)
  BY DEF Sound, Shaped
<1>2. CASE ~r.eof /\ r.read > 0 /\ Len(u) < n
  <2>1. c = [[r EXCEPT !.buffer = << >>, !.read = 0] EXCEPT !.buffer = u]
    BY <1>2 DEF Compacted, _clear_read_buffer
  <2>2. u \in Seq(Bytes) /\ Len(u) \in Nat
    BY <1>1, UnreadIs
  <2> HIDE DEF c, u
  <2>3. /\ c \in Readers /\ c.buffer = u /\ c.read = 0 /\ c.at = r.at /\ c.ended = r.ended
        /\ c.unused = r.unused /\ c.eof = r.eof /\ c.position = r.position
        /\ c.size = r.size /\ c.raised = r.raised
    BY <1>1, <2>1, <2>2, EmptySeq DEF Readers
  <2>4. Unread(c) = u
    <3>1. c.read <= Len(c.buffer)
      BY <2>2, <2>3
    <3>2. Unread(c) = Part(u, 0, Len(u))
      BY <2>3, <3>1, UnreadIs
    <3> QED BY <2>2, <3>2, PartAll
  <2>5. Cut(c) = Cut(r)
    BY <2>3 DEF Cut
  <2>6. Shaped(c)
    <3>1. c.read <= Len(c.buffer)
      BY <2>2, <2>3
    <3> QED BY <1>1, <2>3, <2>5, <3>1 DEF Shaped
  <2>7. Ahead(c) = Ahead(r)
    BY <2>4, <2>5 DEF Ahead, Left, u
  <2>8. Placed(r) => Placed(c)
    BY <2>3, <2>7 DEF Placed
  <2>9. Keeps(r, c)
    BY <2>3, <2>6, <2>8 DEF Keeps, Sound
  <2> QED BY <2>3, <2>9 DEF c
<1>3. CASE ~ (~r.eof /\ r.read > 0 /\ Len(u) < n)
  <2>1. c = r
    BY <1>3 DEF Compacted
  <2> QED BY <2>1 DEF Keeps
<1> QED BY <1>2, <1>3

LEMMA FetchSound ==
  ASSUME FileOK, NEW r, Sound(r), NEW n \in Int
  PROVE  /\ Keeps(r, _fetch_to_internal_buffer(r, n))
         /\ \/ _fetch_to_internal_buffer(r, n).raised
            \/ _fetch_to_internal_buffer(r, n).eof
            \/ Len(Unread(_fetch_to_internal_buffer(r, n))) >= n
<1> DEFINE c == Compacted(r, n)
           f == Filled(c, n)
<1>1. Keeps(r, c)
  BY CompactedSound
<1>2. Sound(c) /\ c.position = r.position /\ c.size = r.size
  BY <1>1 DEF Keeps
<1> HIDE DEF c
<1>3. Keeps(c, f) /\ (f.raised \/ f.eof \/ Len(Unread(f)) >= n)
  BY <1>2, FilledSound
<1> HIDE DEF f
<1>4. Keeps(r, f)
  BY <1>2, <1>3 DEF Keeps
<1> QED BY <1>3, <1>4 DEF _fetch_to_internal_buffer, c, f

(* What lies behind a position of the file, and behind a later one. *)
LEMMA RestIs ==
  ASSUME FileOK, NEW p \in Nat, p <= Len(File)
  PROVE  /\ Rest(p) \in Seq(Bytes)
         /\ Len(Rest(p)) = Len(File) - p
         /\ Len(Rest(p)) \in Nat
<1> DEFINE l == Len(File)
<1>1. File \in Seq(Bytes) /\ l \in Nat /\ p <= l /\ l <= Len(File)
  BY FileIs
<1> HIDE DEF l
<1>2. IsPart(Bytes, Part(File, p, l), File, p, l)
  BY <1>1, PartIs
<1>3. l - p \in Nat
  BY <1>1
<1> QED BY <1>2, <1>3 DEF IsPart, Rest, l

LEMMA RestOfRest ==
  ASSUME FileOK, NEW p \in Nat, p <= Len(File), NEW k \in Nat, k <= Len(Rest(p))
  PROVE  /\ p + k \in Nat /\ p + k <= Len(File)
         /\ Rest(p + k) = Part(Rest(p), k, Len(Rest(p)))
<1> DEFINE l == Len(File)
           m == Len(Rest(p))
<1>1. File \in Seq(Bytes) /\ l \in Nat /\ p <= l
  BY FileIs
<1>2. m = l - p /\ k <= m /\ l = Len(File) /\ m = Len(Rest(p))
  BY RestIs
<1>3. Rest(p) = Part(File, p, l)
  BY DEF Rest
<1>4. Rest(p + k) = Part(File, p + k, l)
  BY DEF Rest
<1> HIDE DEF l, m
<1>5. m \in Nat /\ m <= l - p /\ p + m = l /\ p + k \in Nat /\ p + k <= l
  BY <1>1, <1>2
<1>6. Part(Part(File, p, l), k, m) = Part(File, p + k, p + m)
  <2>1. l \in Nat /\ p <= l /\ l <= Len(File) /\ k <= m /\ m <= l - p /\ m \in Nat
    BY <1>1, <1>2, <1>5
  <2>2. File \in Seq(Bytes)
    BY <1>1
  <2> QED BY <2>1, <2>2, PartOfPart
<1> QED BY <1>2, <1>3, <1>4, <1>5, <1>6

\* `g` is the reader after `k` bytes behind the position of `f` were read.
ReadOn(f, k, g) ==
    /\ Sound(g) /\ ~ g.raised
    /\ g.position = f.position + k
    /\ g.size = f.size

(* Bytes read from the buffer are the next ones of the file. *)
LEMMA Takes ==
  ASSUME FileOK, NEW f, Sound(f), ~ f.raised, NEW k \in Nat, k <= Len(Unread(f))
  PROVE  /\ ReadOn(f, k, _read_from_internal_buffer(f, Part(Unread(f), 0, k)))
         /\ k <= Len(Rest(f.position))
         /\ Part(Unread(f), 0, k) = Part(Rest(f.position), 0, k)
         /\ Part(Unread(f), 0, k) \in Seq(Bytes)
         /\ Len(Part(Unread(f), 0, k)) = k
<1> DEFINE u == Unread(f)
           n == Len(u)
           data == Part(u, 0, k)
           g == _read_from_internal_buffer(f, data)
           x == Unpacked(Left(f))
           p == f.position
           q == f.read
           b == f.buffer
           l == Len(b)
<1>1. Shaped(f) /\ Placed(f)
  BY DEF Sound
<1>2. f \in Readers /\ q <= l /\ b \in Seq(Bytes) /\ q \in Nat /\ p \in Nat
  BY <1>1 DEF Shaped, Readers
<1>3. u = Part(b, q, l) /\ u \in Seq(Bytes) /\ n = l - q /\ n \in Nat
  BY <1>2, UnreadIs
<1>4. l \in Nat /\ k <= n
  BY <1>2, LenProperties
<1>5. p <= Len(File) /\ u \o x = Rest(p)
  BY <1>1 DEF Placed, Ahead
<1>6. x \in Seq(Bytes)
  <2> DEFINE c == Cut(f)
             m == Len(stored)
             a == f.at
             e == Len(f.unused)
  <2>1. a \in Nat /\ a <= m /\ e <= a /\ f.unused \in Seq(Units)
    BY <1>1 DEF Shaped, Readers
  <2>2. e \in Nat /\ m \in Nat
    BY <2>1, FileIs, LenProperties
  <2>3. c = a - e
    BY DEF Cut
  <2> HIDE DEF a, e, c
  <2>4. c \in Nat /\ c <= m /\ m <= Len(stored) /\ m \in Nat
    <3>1. m <= Len(stored)
      BY <2>2
    <3> HIDE DEF m
    <3> QED BY <2>1, <2>2, <2>3, <3>1
  <2>5. stored \in Seq(Units)
    BY DEF FileOK
  <2>6. Left(f) = Part(stored, c, m)
    BY DEF Left, c
  <2> HIDE DEF m
  <2>7. IsPart(Units, Part(stored, c, m), stored, c, m)
    BY <2>4, <2>5, PartIs
  <2>8. Left(f) \in Seq(Units)
    BY <2>6, <2>7 DEF IsPart
  <2> QED BY <2>8, UnpackedType
<1>7. data \in Seq(Bytes) /\ Len(data) = k
  <2>1. n <= Len(u) /\ k <= Len(u) /\ 0 <= k /\ k - 0 = k
    BY <1>3
  <2> HIDE DEF u, n
  <2>2. IsPart(Bytes, Part(u, 0, k), u, 0, k)
    BY <1>3, <2>1, PartIs
  <2> QED BY <2>1, <2>2 DEF IsPart
<1> HIDE DEF x, u
<1>8. data = Part(Rest(p), 0, k)
  <2>1. 0 \in Nat /\ 0 <= k
    OBVIOUS
  <2>2. Part(u \o x, 0, k) = Part(u, 0, k)
    BY <1>3, <1>4, <1>6, <2>1, PartOfFirst
  <2> QED BY <1>5, <2>2
<1>9. k <= Len(Rest(p)) /\ Len(Rest(p)) \in Nat
  <2>1. Len(u \o x) = Len(u) + Len(x) /\ Len(x) \in Nat
    BY <1>3, <1>6, ConcatProperties, LenProperties
  <2> HIDE DEF n
  <2> DEFINE y == Len(Rest(p))
             z == Len(x)
  <2>2. y = n + z /\ z \in Nat
    BY <1>5, <2>1 DEF n
  <2> HIDE DEF y, z
  <2>3. k <= y /\ y \in Nat
    BY <1>3, <1>4, <2>2
  <2> QED BY <2>3 DEF y
<1>10. g = [f EXCEPT !.read = @ + Len(data), !.position = @ + Len(data)]
  BY DEF _read_from_internal_buffer
<1> HIDE DEF g, data
<1>11. /\ g \in Readers /\ g.read = q + k /\ g.position = p + k /\ g.buffer = b
       /\ g.at = f.at /\ g.ended = f.ended /\ g.unused = f.unused /\ g.eof = f.eof
       /\ g.size = f.size /\ g.raised = f.raised
  <2>1. q + k \in Nat /\ p + k \in Nat
    BY <1>2
  <2> QED BY <1>2, <1>7, <1>10, <2>1 DEF Readers
<1>12. q + k <= l
  <2> HIDE DEF q, l, n
  <2> QED BY <1>2, <1>3, <1>4
<1>13. Unread(g) = Part(u, k, n)
  <2>1. Unread(g) = Part(b, q + k, l)
    BY <1>11, <1>12, UnreadIs
  <2>2. q + n = l /\ n <= l - q /\ l <= Len(b)
    <3>1. l <= Len(b)
      BY <1>4
    <3> HIDE DEF q, l, n
    <3> QED BY <1>2, <1>3, <1>4, <3>1
  <2> HIDE DEF q, l, n, b
  <2>3. Part(Part(b, q, l), k, n) = Part(b, q + k, q + n)
    BY <1>2, <1>3, <1>4, <2>2, PartOfPart
  <2> QED BY <1>3, <2>1, <2>2, <2>3
<1>14. Ahead(g) = Rest(p + k)
  <2>1. Left(g) = Left(f)
    BY <1>11 DEF Left, Cut
  <2>2. Ahead(g) = Part(u, k, n) \o x
    BY <1>13, <2>1 DEF Ahead, x
  <2>3. Part(u \o x, k, Len(u \o x)) = Part(u, k, n) \o x
    BY <1>3, <1>4, <1>6, PartAcross
  <2>4. Rest(p + k) = Part(Rest(p), k, Len(Rest(p)))
    <3> HIDE DEF p
    <3> QED BY <1>2, <1>5, <1>9, RestOfRest
  <2> QED BY <1>5, <2>2, <2>3, <2>4
<1>15. p + k <= Len(File)
  <2> HIDE DEF p
  <2> QED BY <1>2, <1>5, <1>9, RestOfRest
<1>16. Shaped(g)
  <2>1. Cut(g) = Cut(f)
    BY <1>11 DEF Cut
  <2>2. g.read <= Len(g.buffer)
    BY <1>11, <1>12
  <2> QED BY <1>1, <1>11, <2>1, <2>2 DEF Shaped
<1>17. Placed(g)
  BY <1>1, <1>11, <1>14, <1>15 DEF Placed
<1>18. ReadOn(f, k, g)
  BY <1>11, <1>16, <1>17 DEF ReadOn, Sound
<1> QED BY <1>7, <1>8, <1>9, <1>18 DEF g, data, u

(* At the end of the file, what is left is in the buffer. *)
LEMMA EndAhead ==
  ASSUME FileOK, NEW f, Sound(f), ~ f.raised, f.eof
  PROVE  Unread(f) = Rest(f.position)
<1>1. Shaped(f) /\ Placed(f)
  BY DEF Sound
<1>2. f.unused = << >> /\ f.at = Len(stored) /\ Ahead(f) = Rest(f.position)
  BY <1>1 DEF Placed
<1>3. f \in Readers /\ f.read <= Len(f.buffer)
  BY <1>1 DEF Shaped
<1>4. Len(stored) \in Nat
  BY FileIs
<1>5. Cut(f) = Len(stored)
  <2>1. Len(f.unused) = 0
    BY <1>2, EmptySeq
  <2> QED BY <1>2, <1>4, <2>1 DEF Cut
<1>6. Unpacked(Left(f)) = << >>
  <2>1. Left(f) = << >>
    BY <1>4, <1>5, PartNone DEF Left
  <2> QED BY <2>1, UnpackedNone
<1>7. Unread(f) \in Seq(Bytes)
  BY <1>3, UnreadIs
<1>8. Unread(f) \o << >> = Unread(f)
  BY <1>7, ConcatEmptySeq
<1> QED BY <1>2, <1>6, <1>8 DEF Ahead

\* The next bytes, n of them if there are so many.
Taken(p, n) == SubSeq(Rest(p), 1, Min({n, Len(Rest(p))}))

\* `c` is what a call on `r` comes to that returns bytes: they are the next ones of the
\* file, and `c.reader` is behind them, unless it raised.
Gives(r, c) ==
    /\ Sound(c.reader) /\ c.reader.size = r.size
    /\ ~ c.reader.raised =>
         /\ c.data \in Seq(Bytes)
         /\ c.reader.position = r.position + Len(c.data)

(* A read returns as many bytes as it was asked for, or as there are. *)
LEMMA ReadGives ==
  ASSUME FileOK, NEW r, Sound(r), NEW n \in Nat
  PROVE  /\ Gives(r, read(r, n))
         /\ ~ read(r, n).reader.raised => read(r, n).data = Taken(r.position, n)
<1> DEFINE f == _fetch_to_internal_buffer(r, n)
           u == Unread(f)
           k == Min({n, Len(u)})
           data == SubSeq(u, 1, k)
           g == _read_from_internal_buffer(f, data)
           p == r.position
           y == Len(Rest(p))
<1>1. read(r, n) = [reader |-> g, data |-> data]
  <2>1. ~ (n < 0)
    OBVIOUS
  <2> QED BY <2>1 DEF read
<1>2. Keeps(r, f) /\ (f.raised \/ f.eof \/ Len(u) >= n)
  BY FetchSound
<1> HIDE DEF f
<1>3. Sound(f) /\ f.position = p /\ f.size = r.size
  BY <1>2 DEF Keeps
<1>4. Len(u) \in Nat
  BY <1>3, UnreadIs DEF Sound, Shaped
<1>5. CASE f.raised
  <2>1. g = f
    BY <1>5 DEF _read_from_internal_buffer
  <2> HIDE DEF g, data
  <2>2. read(r, n).reader = f
    BY <1>1, <2>1
  <2> QED BY <1>3, <1>5, <2>2 DEF Gives
<1>6. CASE ~ f.raised
  <2>1. k = IF n <= Len(u) THEN n ELSE Len(u)
    <3> DEFINE z == Len(u)
    <3>1. n \in Int /\ z \in Int
      BY <1>4
    <3> HIDE DEF z
    <3>2. Min({n, z}) = IF n <= z THEN n ELSE z
      BY <3>1, MinOfTwo
    <3> QED BY <3>2 DEF z
  <2>2. data = Part(u, 0, k)
    <3>1. 0 + 1 = 1
      OBVIOUS
    <3> QED BY <3>1 DEF Part
  <2> HIDE DEF data, k
  <2>3. k \in Nat /\ k <= Len(u)
    BY <1>4, <2>1
  <2>4. /\ ReadOn(f, k, g)
        /\ k <= y
        /\ data = Part(Rest(p), 0, k)
        /\ data \in Seq(Bytes)
        /\ Len(data) = k
    BY <1>3, <1>6, <2>2, <2>3, Takes
  <2>5. y \in Nat
    <3>1. p \in Nat /\ p <= Len(File)
      BY <1>3, <1>6 DEF Sound, Shaped, Placed, Readers
    <3> HIDE DEF p
    <3> QED BY <3>1, RestIs
  <2>6. k = Min({n, y})
    <3>1. Min({n, y}) = IF n <= y THEN n ELSE y
      <4>1. n \in Int /\ y \in Int
        BY <2>5
      <4> HIDE DEF y
      <4> QED BY <4>1, MinOfTwo
    <3>2. CASE Len(u) >= n
      <4>1. k = n /\ n <= y
        BY <1>4, <2>1, <2>4, <3>2
      <4> HIDE DEF y
      <4> QED BY <3>1, <4>1
    <3>3. CASE ~ (Len(u) >= n)
      <4>1. f.eof
        BY <1>2, <1>6, <3>3
      <4>2. u = Rest(p)
        BY <1>3, <1>6, <4>1, EndAhead
      <4>3. Len(u) = y
        BY <4>2
      <4> HIDE DEF u, y
      <4> QED BY <1>4, <2>1, <3>1, <3>3, <4>3
    <3> QED BY <3>2, <3>3
  <2>7. data = Taken(p, n)
    <3>1. Part(Rest(p), 0, k) = SubSeq(Rest(p), 1, k)
      <4>1. 0 + 1 = 1
        OBVIOUS
      <4> QED BY <4>1 DEF Part
    <3> QED BY <2>4, <2>6, <3>1 DEF Taken
  <2> HIDE DEF g
  <2>8. read(r, n).reader = g /\ read(r, n).data = data
    BY <1>1
  <2>9. Gives(r, read(r, n))
    BY <1>3, <2>4, <2>8 DEF Gives, ReadOn
  <2> QED BY <2>7, <2>8, <2>9
<1> QED BY <1>5, <1>6

(* A negative number asks for what is in the buffer: nothing, if that is empty. *)
LEMMA ReadNothing ==
  ASSUME FileOK, NEW r, Sound(r), ~ r.raised, Unread(r) = << >>, NEW n \in Int, n < 0
  PROVE  /\ Gives(r, read(r, n))
         /\ ~ read(r, n).reader.raised /\ read(r, n).data = << >>
<1> DEFINE f == _fetch_to_internal_buffer(r, n)
           g == _read_from_internal_buffer(f, Unread(f))
<1>1. read(r, n) = [reader |-> g, data |-> Unread(f)]
  BY DEF read
<1>2. Len(Unread(r)) = 0
  BY EmptySeq
<1>3. Compacted(r, n) = r
  BY <1>2 DEF Compacted
<1>4. Filled(r, n) = r
  BY <1>2, FilledSound
<1>5. f = r
  BY <1>3, <1>4 DEF _fetch_to_internal_buffer
<1> HIDE DEF f
<1>6. Part(Unread(r), 0, 0) = Unread(r)
  BY PartNone
<1>7. 0 \in Nat /\ 0 <= Len(Unread(r))
  BY <1>2
<1>8. /\ ReadOn(r, 0, _read_from_internal_buffer(r, Part(Unread(r), 0, 0)))
      /\ Part(Unread(r), 0, 0) \in Seq(Bytes)
      /\ Len(Part(Unread(r), 0, 0)) = 0
  BY <1>7, Takes
<1>9. ReadOn(r, 0, g)
  BY <1>5, <1>6, <1>8
<1> HIDE DEF g
<1>10. read(r, n).reader = g /\ read(r, n).data = << >>
  BY <1>1, <1>5
<1> QED BY <1>2, <1>6, <1>8, <1>9, <1>10 DEF Gives, ReadOn

-----------------------------------------------------------------------------
(* Reading to the end, and skipping *)

Outcomes == [reader : Readers, data : Seq(Bytes)]

LEMMA ReadIs ==
  ASSUME FileOK, NEW r, Sound(r), NEW n \in Int, Gives(r, read(r, n))
  PROVE  read(r, n) \in Outcomes
<1> DEFINE f == _fetch_to_internal_buffer(r, n)
           u == Unread(f)
           k == Min({n, Len(u)})
           data == IF n < 0 THEN u ELSE SubSeq(u, 1, k)
           g == _read_from_internal_buffer(f, data)
<1>1. read(r, n) = [reader |-> g, data |-> data]
  BY DEF read
<1>2. Keeps(r, f)
  BY FetchSound
<1> HIDE DEF f
<1>3. u \in Seq(Bytes) /\ Len(u) \in Nat
  BY <1>2, UnreadIs DEF Keeps, Sound, Shaped
<1> HIDE DEF u
<1>4. n >= 0 => SubSeq(u, 1, k) \in Seq(Bytes)
  <2> HAVE n >= 0
  <2> DEFINE l == Len(u)
  <2>1. l \in Nat /\ l <= Len(u)
    BY <1>3
  <2>2. k = Min({n, l})
    OBVIOUS
  <2> HIDE DEF k, l
  <2>3. Min({n, l}) = IF n <= l THEN n ELSE l
    <3>1. n \in Int /\ l \in Int
      BY <2>1
    <3> QED BY <3>1, MinOfTwo
  <2>4. k \in Nat /\ k <= Len(u) /\ 0 \in Nat /\ 0 <= k
    BY <2>1, <2>2, <2>3 DEF l
  <2>5. IsPart(Bytes, Part(u, 0, k), u, 0, k)
    BY <1>3, <2>4, PartIs
  <2>6. 0 + 1 = 1
    OBVIOUS
  <2>7. Part(u, 0, k) = SubSeq(u, 1, k)
    BY <2>6 DEF Part
  <2> QED BY <2>5, <2>7 DEF IsPart
<1>5. data \in Seq(Bytes)
  <2> HIDE DEF k
  <2>1. CASE n < 0
    BY <1>3, <2>1
  <2>2. CASE ~ (n < 0)
    <3>1. n >= 0
      BY <2>2
    <3> DEFINE d == SubSeq(u, 1, k)
    <3>2. d \in Seq(Bytes)
      BY <1>4, <3>1
    <3> HIDE DEF d
    <3>3. data = d
      BY <2>2 DEF d
    <3> QED BY <3>2, <3>3
  <2> QED BY <2>1, <2>2
<1> HIDE DEF data, g
<1>6. read(r, n).reader = g
  BY <1>1
<1>7. g \in Readers
  BY <1>6 DEF Gives, Sound, Shaped
<1> QED BY <1>1, <1>5, <1>7 DEF Outcomes

\* A read of the file came to `c`: it went on by `k` bytes, or raised.
WentOn(r, c, k) ==
    /\ c \in Outcomes
    /\ Sound(c.reader) /\ c.reader.size = r.size
    /\ ~ c.reader.raised =>
         /\ c.reader.position = r.position + k
         /\ Len(c.data) = k

(* A read goes on by as many bytes as it was asked for, or as there are. *)
LEMMA ReadGoesOn ==
  ASSUME FileOK, NEW r, Sound(r), ~ r.raised, NEW n \in Nat
  PROVE  /\ r.position \in Nat /\ r.position <= Len(File)
         /\ WentOn(r, read(r, n), IF n <= Len(File) - r.position
                                  THEN n ELSE Len(File) - r.position)
<1> DEFINE p == r.position
           c == read(r, n)
           l == Len(File)
           e == l - p
           m == IF n <= l - p THEN n ELSE l - p
           y == Rest(p)
<1>1. p \in Nat /\ p <= Len(File)
  BY DEF Sound, Shaped, Placed, Readers
<1>2. Gives(r, c) /\ (~ c.reader.raised => c.data = Taken(p, n))
  BY ReadGives
<1>3. c \in Outcomes
  BY <1>2, ReadIs
<1> HIDE DEF c
<1>4. ~ c.reader.raised => Len(c.data) = m
  <2>1. y \in Seq(Bytes) /\ Len(y) = e /\ Len(y) \in Nat
    <3> HIDE DEF p
    <3> QED BY <1>1, RestIs
  <2>2. Taken(p, n) = SubSeq(y, 1, Min({n, Len(y)}))
    BY DEF Taken
  <2>3. Min({n, Len(y)}) = m
    <3> HIDE DEF y
    <3>1. n \in Int /\ e \in Int /\ Len(y) = e
      BY <2>1
    <3>2. m = IF n <= e THEN n ELSE e
      OBVIOUS
    <3> HIDE DEF e, m
    <3>3. Min({n, e}) = m
      BY <3>1, <3>2, MinOfTwo
    <3> QED BY <3>1, <3>3
  <2>4. 0 + 1 = 1
    OBVIOUS
  <2>5. SubSeq(y, 1, m) = Part(y, 0, m)
    BY <2>4 DEF Part
  <2>6. m \in Nat /\ m <= Len(y) /\ 0 \in Nat /\ 0 <= m /\ m - 0 = m
    <3> HIDE DEF y, p
    <3>1. e \in Nat /\ m = IF n <= e THEN n ELSE e
      BY <2>1
    <3> HIDE DEF e, m
    <3> QED BY <2>1, <3>1
  <2> HIDE DEF y, m
  <2>7. IsPart(Bytes, Part(y, 0, m), y, 0, m)
    BY <2>1, <2>6, PartIs
  <2> QED BY <1>2, <2>2, <2>3, <2>5, <2>6, <2>7 DEF IsPart
<1> HIDE DEF m
<1>5. WentOn(r, c, m)
  BY <1>2, <1>3, <1>4 DEF WentOn, Gives
<1> QED BY <1>1, <1>5 DEF c, m

LEMMA ReadSizeIs ==
  ReadSize \in Nat /\ ReadSize > 1
BY CompressedFileAssumption

\* A turn of the loop that reads to the end.
EndTurn(c) == IF c.reader.raised \/ c.data = << >> THEN c ELSE read(c.reader, ReadSize)

EndBy(r, f) ==
    f = [i \in 0 .. MostTurns |-> IF i = 0 THEN read(r, ReadSize) ELSE EndTurn(f[i - 1])]

LEMMA EndUnrolled ==
  ASSUME NEW r
  PROVE  ReadToEnd(r) = (CHOOSE f : EndBy(r, f))[MostTurns].reader
BY Zenon DEF ReadToEnd, Looped, EndBy, EndTurn

\* A reader in the same file, that has raised or has come to a position.
GotTo(r, e, p) ==
    /\ Sound(e) /\ e.size = r.size
    /\ ~ e.raised => e.position = p

(* A turn comes nearer to the end, or finds it. *)
LEMMA EndTurns ==
  ASSUME FileOK, NEW r, Sound(r), ~ r.raised
  PROVE  LET c == read(r, ReadSize)
         IN  /\ c \in Outcomes /\ Sound(c.reader) /\ c.reader.size = r.size
             /\ ~ c.reader.raised /\ c.data = << >> => c.reader.position = Len(File)
             /\ ~ c.reader.raised /\ c.data # << >> =>
                  Len(File) - c.reader.position < Len(File) - r.position
<1> DEFINE c == read(r, ReadSize)
           l == Len(File)
           p == r.position
           k == IF ReadSize <= l - p THEN ReadSize ELSE l - p
<1>1. l \in Nat
  BY FileIs
<1>2. p \in Nat /\ p <= l /\ WentOn(r, c, k)
  BY ReadSizeIs, ReadGoesOn
<1> HIDE DEF c, l, p, k
<1>3. c \in Outcomes /\ Sound(c.reader) /\ c.reader.size = r.size
  BY <1>2 DEF WentOn
<1>4. ~ c.reader.raised => c.reader.position = p + k /\ Len(c.data) = k
  BY <1>2 DEF WentOn, p
<1>5. ASSUME ~ c.reader.raised, c.data = << >>
      PROVE  c.reader.position = l
  <2>1. k = 0
    BY <1>4, <1>5, EmptySeq
  <2> QED BY <1>1, <1>2, <1>4, <1>5, <2>1, ReadSizeIs DEF k
<1>6. ASSUME ~ c.reader.raised, c.data # << >>
      PROVE  l - c.reader.position < l - p
  <2>1. k # 0
    BY <1>3, <1>4, <1>6, EmptySeq DEF Outcomes
  <2>2. k > 0 /\ k \in Nat
    BY <1>1, <1>2, <2>1, ReadSizeIs DEF k
  <2> QED BY <1>1, <1>2, <1>4, <1>6, <2>2
<1> QED BY <1>3, <1>5, <1>6 DEF c, l, p

(* The loop ends in time, at the end of the file. *)
LEMMA ReadToEndSound ==
  ASSUME FileOK, NEW r, Sound(r), ~ r.raised
  PROVE  GotTo(r, ReadToEnd(r), Len(File))
<1> DEFINE z == read(r, ReadSize)
           S == {c \in Outcomes :
                   /\ Sound(c.reader) /\ c.reader.size = r.size
                   /\ ~ c.reader.raised /\ c.data = << >> => c.reader.position = Len(File)}
           M == MostTurns
           ends(c) == c.reader.raised \/ c.data = << >>
           near(c) == IF c.reader.raised THEN 0 ELSE Len(File) - c.reader.position
           stop == {c \in S : ends(c)}
           step == [c \in S |-> EndTurn(c)]
           m == [c \in S |-> near(c)]
<1>1. M \in Nat
  BY MostTurnsIs
<1>2. ASSUME NEW c \in S, ~ ends(c)
      PROVE  EndTurn(c) \in S /\ (ends(EndTurn(c)) \/ near(EndTurn(c)) < near(c))
  <2>1. Sound(c.reader) /\ c.reader.size = r.size /\ ~ c.reader.raised
    BY <1>2
  <2> DEFINE d == read(c.reader, ReadSize)
  <2>2. /\ d \in Outcomes /\ Sound(d.reader) /\ d.reader.size = c.reader.size
        /\ ~ d.reader.raised /\ d.data = << >> => d.reader.position = Len(File)
        /\ ~ d.reader.raised /\ d.data # << >> =>
             Len(File) - d.reader.position < Len(File) - c.reader.position
    BY <2>1, EndTurns
  <2>3. EndTurn(c) = d
    BY <1>2 DEF EndTurn
  <2> HIDE DEF d
  <2>4. d \in S
    BY <2>1, <2>2
  <2>5. ends(d) \/ near(d) < near(c)
    BY <2>1, <2>2
  <2> QED BY <2>3, <2>4, <2>5
<1>3. ASSUME NEW c \in S, ends(c)
      PROVE  EndTurn(c) = c
  BY <1>3 DEF EndTurn
<1>4. z \in S
  BY EndTurns
<1>5. \A c \in S : near(c) \in Nat /\ near(c) < M
  <2>1. ASSUME NEW c \in S
        PROVE  near(c) \in Nat /\ near(c) < M
    <3> DEFINE l == Len(File)
               p == c.reader.position
    <3>1. l \in Nat /\ l + 1 < M
      BY FileIs, MostTurnsIs
    <3>2. ~ c.reader.raised => p \in Nat /\ p <= l
      BY DEF Sound, Shaped, Placed, Readers
    <3> HIDE DEF M, S
    <3>3. near(c) = IF c.reader.raised THEN 0 ELSE l - p
      OBVIOUS
    <3> HIDE DEF l, p, near
    <3> QED BY <1>1, <3>1, <3>2, <3>3
  <2> QED BY <2>1
<1> HIDE DEF ends, near, M, z
<1>6. \A c \in S : EndTurn(c) \in S
  BY <1>2, <1>3
<1>7. stop \in SUBSET S /\ \A c \in S : c \in stop <=> ends(c)
  OBVIOUS
<1> HIDE DEF S, stop
<1>9. step \in [S -> S] /\ \A c \in S : step[c] = EndTurn(c)
  BY <1>6
<1>10. m \in [S -> Nat] /\ \A c \in S : m[c] = near(c)
  BY <1>5
<1> HIDE DEF step, m
<1>11. \E f : EndBy(r, f)
  <2>1. PICK f \in [0 .. M -> S] : Loops(z, step, M, f)
    BY <1>1, <1>4, <1>9, Goes
  <2>2. ASSUME NEW i \in 0 .. M
        PROVE  f[i] = IF i = 0 THEN z ELSE EndTurn(f[i - 1])
    <3>1. i # 0 => i - 1 \in 0 .. M
      BY <1>1
    <3>2. i # 0 => f[i - 1] \in S
      BY <3>1
    <3> QED BY <1>9, <2>1, <3>2 DEF Loops
  <2>3. f = [i \in 0 .. M |-> IF i = 0 THEN z ELSE EndTurn(f[i - 1])]
    BY <2>2
  <2> QED BY <2>3 DEF EndBy, M, z
<1> DEFINE g == CHOOSE f : EndBy(r, f)
<1>12. EndBy(r, g)
  BY <1>11, Zenon
<1>13. ReadToEnd(r) = g[M].reader
  BY EndUnrolled DEF M
<1> HIDE DEF g
<1>14. g = [i \in 0 .. M |-> IF i = 0 THEN z ELSE EndTurn(g[i - 1])]
  BY <1>12 DEF EndBy, M, z
<1>15. g[0] = z
  <2>1. 0 \in 0 .. M
    BY <1>1
  <2> QED BY <1>14, <2>1, Zenon
<1>16. ASSUME NEW i \in 1 .. M, g[i - 1] \in S
       PROVE  g[i] = step[g[i - 1]]
  <2>1. i \in 0 .. M /\ i # 0
    BY <1>1
  <2>2. g[i] = EndTurn(g[i - 1])
    BY <1>14, <2>1, Zenon
  <2> QED BY <1>9, <1>16, <2>2
<1>17. m[z] < M
  BY <1>4, <1>5, <1>10
<1>18. Follows(S, step, M, g)
  BY <1>16 DEF Follows
<1>19. Settles(S, step, stop, m)
  <2>1. ASSUME NEW c \in S, c \notin stop
        PROVE  step[c] \in stop \/ m[step[c]] < m[c]
    <3>1. ~ ends(c)
      BY <1>7, <2>1
    <3>2. EndTurn(c) \in S /\ (ends(EndTurn(c)) \/ near(EndTurn(c)) < near(c))
      BY <1>2, <3>1
    <3> QED BY <1>7, <1>9, <1>10, <3>2
  <2>2. \A c \in S : c \in stop => step[c] = c
    BY <1>3, <1>7, <1>9
  <2> QED BY <2>1, <2>2 DEF Settles
<1>20. g[M] \in stop
  BY <1>1, <1>4, <1>7, <1>9, <1>10, <1>15, <1>17, <1>18, <1>19, Stops
<1>21. g[M] \in S /\ ends(g[M])
  BY <1>7, <1>20
<1> QED BY <1>13, <1>21 DEF S, ends, GotTo

\* A turn of the loop that skips bytes.
SkipTurn(c) ==
    LET call_ == read(c.reader, Min({ReadSize, c.left}))
    IN  IF c.reader.raised \/ c.left = 0 THEN c
        ELSE [reader |-> call_.reader,
              left |-> IF call_.data = << >> THEN 0 ELSE c.left - Len(call_.data)]

SkipBy(r, n, f) ==
    f = [i \in 0 .. MostTurns |->
           IF i = 0 THEN [reader |-> r, left |-> n] ELSE SkipTurn(f[i - 1])]

LEMMA SkipUnrolled ==
  ASSUME NEW r, NEW n
  PROVE  Skip(r, n) = (CHOOSE f : SkipBy(r, n, f))[MostTurns].reader
BY Zenon DEF Skip, Looped, SkipBy, SkipTurn

\* Where skipping leads: to the end at most, and nowhere when the number is negative.
Goal(p, n) == IF n < 0 THEN p ELSE IF p + n <= Len(File) THEN p + n ELSE Len(File)

\* Skipping is at `c`, and will come to a position `t`.
Skipping(r, t, c) ==
    /\ c.reader \in Readers /\ c.left \in Int
    /\ Sound(c.reader) /\ c.reader.size = r.size
    /\ ~ c.reader.raised => /\ c.left < 0 => Unread(c.reader) = << >>
                            /\ Goal(c.reader.position, c.left) = t

\* How far skipping is from its end.
Near(c) == IF c.reader.raised THEN 0 ELSE Len(File) - c.reader.position + 1

(* A turn comes nearer to where skipping leads, or gets there. *)
LEMMA SkipTurns ==
  ASSUME FileOK, NEW r, NEW t, NEW c, Skipping(r, t, c), ~ c.reader.raised, c.left # 0
  PROVE  /\ Skipping(r, t, SkipTurn(c))
         /\ \E x, y : SkipTurn(c) = [reader |-> x, left |-> y]
         /\ \/ SkipTurn(c).reader.raised
            \/ SkipTurn(c).left = 0
            \/ Near(SkipTurn(c)) < Near(c)
<1> DEFINE q == c.reader
           n == c.left
           o == Min({ReadSize, n})
           d == read(q, o)
           e == IF d.data = << >> THEN 0 ELSE n - Len(d.data)
           s == SkipTurn(c)
           l == Len(File)
           p == q.position
<1>1. Sound(q) /\ q.size = r.size /\ q \in Readers /\ n \in Int /\ ~ q.raised /\ n # 0
  BY DEF Skipping
<1>2. Goal(p, n) = t /\ (n < 0 => Unread(q) = << >>)
  BY DEF Skipping
<1>3. s = [reader |-> d.reader, left |-> e]
  BY DEF SkipTurn
<1>4. o \in Int /\ o = IF ReadSize <= n THEN ReadSize ELSE n
  <2>1. ReadSize \in Int
    BY ReadSizeIs
  <2> HIDE DEF q, n
  <2> QED BY <1>1, <2>1, MinOfTwo
<1>5. l \in Nat
  BY FileIs
<1>6. p \in Nat /\ p <= l
  BY <1>1 DEF Sound, Shaped, Placed, Readers
<1> HIDE DEF q, n, o
<1>7. CASE n < 0
  <2>1. o < 0
    BY <1>1, <1>4, <1>7, ReadSizeIs
  <2>2. Gives(q, d) /\ ~ d.reader.raised /\ d.data = << >>
    BY <1>1, <1>2, <1>4, <1>7, <2>1, ReadNothing
  <2>3. d.reader.position = p /\ Sound(d.reader) /\ d.reader.size = q.size
    <3>1. Len(d.data) = 0
      BY <2>2, EmptySeq
    <3> QED BY <1>6, <2>2, <3>1 DEF Gives
  <2> HIDE DEF d, s
  <2>4. s.reader = d.reader /\ s.left = 0
    BY <1>3, <2>2
  <2>5. Goal(p, 0) = t
    BY <1>2, <1>5, <1>6, <1>7 DEF Goal
  <2>6. s.reader \in Readers
    BY <2>3, <2>4 DEF Sound, Shaped
  <2>7. Skipping(r, t, s)
    BY <1>1, <2>3, <2>4, <2>5, <2>6 DEF Skipping
  <2> QED BY <1>3, <2>4, <2>7 DEF s
<1>8. CASE n > 0
  <2> DEFINE k == IF o <= l - p THEN o ELSE l - p
  <2>1. o \in Nat /\ o > 0 /\ o <= n
    BY <1>1, <1>4, <1>8, ReadSizeIs
  <2>2. WentOn(q, d, k)
    BY <1>1, <2>1, ReadGoesOn
  <2> HIDE DEF d, s, l, p
  <2>3. k \in Nat /\ p + k <= l /\ k <= n /\ p + k \in Nat
    BY <1>1, <1>5, <1>6, <2>1
  <2>4. k = 0 => p = l
    BY <1>5, <1>6, <2>1
  <2> HIDE DEF k
  <2>5. /\ d \in Outcomes /\ Sound(d.reader) /\ d.reader.size = q.size
        /\ ~ d.reader.raised => d.reader.position = p + k /\ Len(d.data) = k
    BY <2>2 DEF WentOn, p
  <2>6. d.reader \in Readers /\ d.data \in Seq(Bytes) /\ Len(d.data) \in Nat
    BY <2>5, LenProperties DEF Outcomes
  <2>7. s.reader = d.reader /\ s.left = e
    BY <1>3
  <2>8. CASE d.reader.raised
    <3>1. e \in Int
      BY <1>1, <2>6
    <3>2. Skipping(r, t, s)
      BY <1>1, <2>5, <2>6, <2>7, <2>8, <3>1 DEF Skipping
    <3> QED BY <1>3, <2>7, <2>8, <3>2 DEF s
  <2>9. CASE ~ d.reader.raised
    <3>1. d.reader.position = p + k /\ Len(d.data) = k
      BY <2>5, <2>9
    <3>2. CASE k = 0
      <4>1. e = 0
        BY <2>6, <3>1, <3>2, EmptySeq
      <4>2. d.reader.position = p
        BY <1>6, <3>1, <3>2
      <4>3. Goal(p, 0) = t
        BY <1>1, <1>2, <1>5, <1>6, <1>8, <2>4, <3>2 DEF Goal, l
      <4>4. Skipping(r, t, s)
        BY <1>1, <2>5, <2>6, <2>7, <4>1, <4>2, <4>3 DEF Skipping
      <4> QED BY <1>3, <2>7, <4>1, <4>4 DEF s
    <3>3. CASE k # 0
      <4>1. e = n - k
        BY <2>6, <3>1, <3>3, EmptySeq
      <4>2. e \in Nat
        BY <1>1, <2>3, <4>1
      <4>3. Goal(p + k, e) = t
        <5>1. Goal(p + k, e) = Goal(p, n)
          <6> HIDE DEF e
          <6>1. ~ (e < 0) /\ ~ (n < 0) /\ (p + k) + e = p + n
            BY <1>1, <1>6, <1>8, <2>3, <4>1, <4>2
          <6> QED BY <6>1 DEF Goal
        <5> QED BY <1>2, <5>1
      <4>4. Skipping(r, t, s)
        BY <1>1, <2>5, <2>6, <2>7, <3>1, <4>2, <4>3 DEF Skipping
      <4>5. Near(s) < Near(c)
        <5>1. Near(s) = l - (p + k) + 1
          BY <2>7, <2>9, <3>1 DEF Near, l
        <5>2. Near(c) = l - p + 1
          BY <1>1 DEF Near, q, l, p
        <5> QED BY <1>5, <1>6, <2>3, <3>3, <5>1, <5>2
      <4> QED BY <1>3, <4>4, <4>5 DEF s
    <3> QED BY <3>2, <3>3
  <2> QED BY <2>8, <2>9
<1> QED BY <1>1, <1>7, <1>8

(* Skipping ends in time, where it is to lead. *)
LEMMA SkipSound ==
  ASSUME FileOK, NEW r, Sound(r), ~ r.raised, NEW n \in Int,
         n < 0 => Unread(r) = << >>
  PROVE  GotTo(r, Skip(r, n), Goal(r.position, n))
<1> DEFINE z == [reader |-> r, left |-> n]
           t == Goal(r.position, n)
           S == {c \in [reader : Readers, left : Int] : Skipping(r, t, c)}
           M == MostTurns
           ends(c) == c.reader.raised \/ c.left = 0
           stop == {c \in S : ends(c)}
           step == [c \in S |-> SkipTurn(c)]
           m == [c \in S |-> Near(c)]
<1>1. M \in Nat
  BY MostTurnsIs
<1>2. ASSUME NEW c \in S, ~ ends(c)
      PROVE  SkipTurn(c) \in S /\ (ends(SkipTurn(c)) \/ Near(SkipTurn(c)) < Near(c))
  <2> DEFINE s == SkipTurn(c)
  <2>1. Skipping(r, t, c) /\ ~ c.reader.raised /\ c.left # 0
    BY <1>2
  <2> HIDE DEF t
  <2>2. /\ Skipping(r, t, s)
        /\ \E x, y : s = [reader |-> x, left |-> y]
        /\ s.reader.raised \/ s.left = 0 \/ Near(s) < Near(c)
    BY <2>1, SkipTurns
  <2> HIDE DEF s
  <2>3. s.reader \in Readers /\ s.left \in Int
    BY <2>2 DEF Skipping
  <2>4. s \in [reader : Readers, left : Int]
    <3>1. PICK x, y : s = [reader |-> x, left |-> y]
      BY <2>2
    <3> QED BY <2>3, <3>1
  <2> QED BY <2>2, <2>4 DEF s
<1>3. ASSUME NEW c \in S, ends(c)
      PROVE  SkipTurn(c) = c
  BY <1>3 DEF SkipTurn
<1>4. z \in S
  <2> DEFINE q == z.reader
             k == z.left
  <2>1. r \in Readers /\ q = r /\ k = n
    BY DEF Sound, Shaped
  <2>2. Skipping(r, t, z)
    BY <2>1 DEF Skipping
  <2> QED BY <2>1, <2>2
<1>5. \A c \in S : Near(c) \in Nat /\ Near(c) < M
  <2>1. ASSUME NEW c \in S
        PROVE  Near(c) \in Nat /\ Near(c) < M
    <3> DEFINE l == Len(File)
               p == c.reader.position
    <3>1. l \in Nat /\ l + 1 < M
      BY FileIs, MostTurnsIs
    <3>2. ~ c.reader.raised => p \in Nat /\ p <= l
      BY DEF Skipping, Sound, Shaped, Placed, Readers
    <3> HIDE DEF M, S
    <3>3. Near(c) = IF c.reader.raised THEN 0 ELSE l - p + 1
      BY DEF Near
    <3> HIDE DEF l, p
    <3> QED BY <1>1, <3>1, <3>2, <3>3
  <2> QED BY <2>1
<1> HIDE DEF ends, M, z, t
<1>6. \A c \in S : SkipTurn(c) \in S
  BY <1>2, <1>3
<1>7. stop \in SUBSET S /\ \A c \in S : c \in stop <=> ends(c)
  OBVIOUS
<1> HIDE DEF S, stop
<1>9. step \in [S -> S] /\ \A c \in S : step[c] = SkipTurn(c)
  BY <1>6
<1>10. m \in [S -> Nat] /\ \A c \in S : m[c] = Near(c)
  BY <1>5
<1> HIDE DEF step, m
<1>11. \E f : SkipBy(r, n, f)
  <2>1. PICK f \in [0 .. M -> S] : Loops(z, step, M, f)
    BY <1>1, <1>4, <1>9, Goes
  <2>2. ASSUME NEW i \in 0 .. M
        PROVE  f[i] = IF i = 0 THEN z ELSE SkipTurn(f[i - 1])
    <3>1. i # 0 => i - 1 \in 0 .. M
      BY <1>1
    <3>2. i # 0 => f[i - 1] \in S
      BY <3>1
    <3> QED BY <1>9, <2>1, <3>2 DEF Loops
  <2>3. f = [i \in 0 .. M |-> IF i = 0 THEN z ELSE SkipTurn(f[i - 1])]
    BY <2>2
  <2> QED BY <2>3 DEF SkipBy, M, z
<1> DEFINE g == CHOOSE f : SkipBy(r, n, f)
<1>12. SkipBy(r, n, g)
  BY <1>11, Zenon
<1>13. Skip(r, n) = g[M].reader
  BY SkipUnrolled DEF M
<1> HIDE DEF g
<1>14. g = [i \in 0 .. M |-> IF i = 0 THEN z ELSE SkipTurn(g[i - 1])]
  BY <1>12 DEF SkipBy, M, z
<1>15. g[0] = z
  <2>1. 0 \in 0 .. M
    BY <1>1
  <2> QED BY <1>14, <2>1, Zenon
<1>16. ASSUME NEW i \in 1 .. M, g[i - 1] \in S
       PROVE  g[i] = step[g[i - 1]]
  <2>1. i \in 0 .. M /\ i # 0
    BY <1>1
  <2>2. g[i] = SkipTurn(g[i - 1])
    BY <1>14, <2>1, Zenon
  <2> QED BY <1>9, <1>16, <2>2
<1>17. m[z] < M
  BY <1>4, <1>5, <1>10
<1>18. Follows(S, step, M, g)
  BY <1>16 DEF Follows
<1>19. Settles(S, step, stop, m)
  <2>1. ASSUME NEW c \in S, c \notin stop
        PROVE  step[c] \in stop \/ m[step[c]] < m[c]
    <3>1. ~ ends(c)
      BY <1>7, <2>1
    <3>2. SkipTurn(c) \in S /\ (ends(SkipTurn(c)) \/ Near(SkipTurn(c)) < Near(c))
      BY <1>2, <3>1
    <3> QED BY <1>7, <1>9, <1>10, <3>2
  <2>2. \A c \in S : c \in stop => step[c] = c
    BY <1>3, <1>7, <1>9
  <2> QED BY <2>1, <2>2 DEF Settles
<1>20. g[M] \in stop
  BY <1>1, <1>4, <1>7, <1>9, <1>10, <1>15, <1>17, <1>18, <1>19, Stops
<1>21. g[M] \in S /\ ends(g[M])
  BY <1>7, <1>20
<1> DEFINE e == g[M]
<1>22. Skipping(r, t, e) /\ (e.reader.raised \/ e.left = 0)
  BY <1>21 DEF S, ends
<1> HIDE DEF e
<1>23. Sound(e.reader) /\ e.reader.size = r.size
  BY <1>22 DEF Skipping
<1>24. ~ e.reader.raised => e.reader.position = t
  <2> HAVE ~ e.reader.raised
  <2>1. Goal(e.reader.position, 0) = t
    BY <1>22 DEF Skipping
  <2> DEFINE l == Len(File)
             p == e.reader.position
  <2>2. p \in Nat /\ p <= l /\ l \in Nat
    BY <1>23, FileIs DEF Sound, Shaped, Placed, Readers
  <2>3. Goal(p, 0) = IF p + 0 <= l THEN p + 0 ELSE l
    BY DEF Goal
  <2> HIDE DEF l, p
  <2>4. Goal(p, 0) = p
    BY <2>2, <2>3
  <2> QED BY <2>1, <2>4 DEF p
<1>25. GotTo(r, e.reader, t)
  BY <1>23, <1>24 DEF GotTo
<1> QED BY <1>13, <1>25 DEF e, t

-----------------------------------------------------------------------------
(* Seeking *)

\* A reader at the start of the file, with nothing in its buffer.
AtStart(w) ==
    /\ w \in Readers /\ w.at = 0 /\ w.eof = FALSE /\ w.position = 0 /\ w.buffer = << >>
    /\ w.read = 0 /\ w.ended = FALSE /\ w.unused = << >> /\ w.raised = FALSE
    /\ w.size \in {Unknown, Len(File)}

LEMMA StartSound ==
  ASSUME FileOK, NEW w, AtStart(w)
  PROVE  Sound(w) /\ Unread(w) = << >>
<1>1. /\ w \in Readers /\ w.at = 0 /\ w.eof = FALSE /\ w.position = 0 /\ w.buffer = << >>
      /\ w.read = 0 /\ w.ended = FALSE /\ w.unused = << >> /\ w.raised = FALSE
      /\ w.size \in {Unknown, Len(File)}
  BY DEF AtStart
<1>2. Len(w.buffer) = 0 /\ Len(w.unused) = 0 /\ Len(stored) \in Nat
  BY <1>1, FileIs, EmptySeq
<1>3. Unread(w) = << >>
  <2>1. Unread(w) = Part(w.buffer, 0, 0)
    <3>1. w.read <= Len(w.buffer)
      BY <1>1, <1>2
    <3> QED BY <1>1, <1>2, <3>1, UnreadIs
  <2> QED BY <2>1, PartNone
<1>4. Cut(w) = 0
  <2>1. w.at = 0 /\ Len(w.unused) = 0
    BY <1>1, <1>2
  <2> QED BY <2>1 DEF Cut
<1>5. Shaped(w)
  <2>1. w.unused = Part(stored, Cut(w), w.at)
    BY <1>1, <1>4, PartNone
  <2> QED BY <1>1, <1>2, <2>1 DEF Shaped
<1>6. Ahead(w) = Rest(0)
  <2>1. stored \in Seq(Units)
    BY DEF FileOK
  <2>2. Left(w) = stored
    BY <1>4, <2>1, PartAll DEF Left
  <2>3. Ahead(w) = << >> \o File
    BY <1>3, <2>2 DEF Ahead, File
  <2>4. File \in Seq(Bytes)
    BY FileIs
  <2> QED BY <2>3, <2>4, ConcatEmptySeq, PartAll DEF Rest
<1>7. w.at % ReadSize = 0
  BY <1>1, ReadSizeIs, ZeroMultiple
<1>8. Placed(w)
  <2>1. w.position <= Len(File)
    BY <1>1, FileIs
  <2> QED BY <1>1, <1>6, <1>7, <2>1 DEF Placed
<1> QED BY <1>1, <1>3, <1>5, <1>8 DEF Sound

(* Rewinding goes to the start of the file, and forgets the buffer. *)
LEMMA RewindSound ==
  ASSUME FileOK, NEW r, Sound(r), ~ r.raised
  PROVE  /\ Sound(_rewind(r)) /\ ~ _rewind(r).raised
         /\ _rewind(r).position = 0 /\ _rewind(r).size = r.size
         /\ Unread(_rewind(r)) = << >>
<1> DEFINE w == _rewind(r)
<1>1. r \in Readers /\ r.size \in {Unknown, Len(File)}
  BY DEF Sound, Shaped
<1>2. /\ w \in Readers /\ w.at = 0 /\ w.eof = FALSE /\ w.position = 0 /\ w.buffer = << >>
      /\ w.read = 0 /\ w.ended = FALSE /\ w.unused = << >> /\ w.raised = r.raised
      /\ w.size = r.size
  BY <1>1, EmptySeq DEF _rewind, _initialize_decompressor, _clear_read_buffer, Readers
<1> HIDE DEF w
<1>3. AtStart(w)
  BY <1>1, <1>2 DEF AtStart
<1> QED BY <1>2, <1>3, StartSound DEF w

(* The size is what was counted, unless it was remembered. *)
LEMMA SizedSound ==
  ASSUME FileOK, NEW r, Sound(r), ~ r.raised
  PROVE  /\ Sound(Sized(r))
         /\ ~ Sized(r).raised => Sized(r).size = Len(File)
<1> DEFINE e == ReadToEnd(r)
           s == [e EXCEPT !.size = e.position]
<1>1. Sound(e) /\ e.size = r.size /\ (~ e.raised => e.position = Len(File))
  BY ReadToEndSound DEF GotTo
<1>2. Sized(r) = IF r.size # Unknown THEN r ELSE IF e.raised THEN e ELSE s
  BY DEF Sized
<1> HIDE DEF e
<1>3. CASE r.size # Unknown
  <2>1. Sized(r) = r
    BY <1>2, <1>3
  <2>2. r.size = Len(File)
    BY <1>3 DEF Sound, Shaped
  <2> QED BY <2>1, <2>2
<1>4. CASE r.size = Unknown /\ e.raised
  <2>1. Sized(r) = e
    BY <1>2, <1>4
  <2> QED BY <1>1, <1>4, <2>1
<1>5. CASE r.size = Unknown /\ ~ e.raised
  <2>1. Sized(r) = s
    BY <1>2, <1>5
  <2>2. Shaped(e) /\ Placed(e) /\ e \in Readers /\ e.position = Len(File)
    BY <1>1, <1>5 DEF Sound, Shaped
  <2>3. /\ s \in Readers /\ s.size = Len(File) /\ s.at = e.at /\ s.eof = e.eof
        /\ s.position = e.position /\ s.buffer = e.buffer /\ s.read = e.read
        /\ s.ended = e.ended /\ s.unused = e.unused /\ s.raised = e.raised
    BY <2>2 DEF Readers
  <2> HIDE DEF s
  <2>4. Cut(s) = Cut(e) /\ Unread(s) = Unread(e)
    BY <2>3 DEF Cut, Unread
  <2>5. Shaped(s)
    BY <2>2, <2>3, <2>4 DEF Shaped
  <2>6. Placed(s)
    BY <2>2, <2>3, <2>4 DEF Placed, Ahead, Left
  <2>7. Sound(s)
    BY <1>5, <2>3, <2>5, <2>6 DEF Sound
  <2> QED BY <2>1, <2>3, <2>7
<1> QED BY <1>3, <1>4, <1>5

Whences == {"set", "cur", "end"}

\* Where an offset counts from, and the position in the file that is nearest to another.
From(p, whence) ==
    CASE whence = "set" -> 0 [] whence = "cur" -> p [] whence = "end" -> Len(File)
Nearest(x) == Max({0, Min({x, Len(File)})})

LEMMA NearestIs ==
  ASSUME FileOK, NEW x \in Int
  PROVE  Nearest(x) = IF x < 0 THEN 0 ELSE IF x <= Len(File) THEN x ELSE Len(File)
<1> DEFINE l == Len(File)
           m == Min({x, l})
<1>1. l \in Nat
  BY FileIs
<1> HIDE DEF l
<1>2. m = IF x <= l THEN x ELSE l
  <2>1. l \in Int
    BY <1>1
  <2> QED BY <2>1, MinOfTwo
<1> HIDE DEF m
<1>3. m \in Int
  BY <1>1, <1>2
<1>4. Max({0, m}) = IF 0 >= m THEN 0 ELSE m
  <2>1. 0 \in Int
    OBVIOUS
  <2> QED BY <1>3, <2>1, MaxOfTwo
<1>5. Max({0, m}) = IF x < 0 THEN 0 ELSE IF x <= l THEN x ELSE l
  BY <1>1, <1>2, <1>4
<1> QED BY <1>5 DEF Nearest, m, l

(* Rewound or not, skipping leads to the position that is nearest to the target. *)
LEMMA SkipsTo ==
  ASSUME FileOK, NEW s, Sound(s), ~ s.raised, NEW target \in Int
  PROVE  LET from == IF target < s.position THEN _rewind(s) ELSE s
         IN  GotTo(s, Skip(from, target - from.position), Nearest(target))
<1> DEFINE from == IF target < s.position THEN _rewind(s) ELSE s
           p == from.position
           n == target - p
           l == Len(File)
           e == Skip(from, n)
<1>1. l \in Nat
  BY FileIs
<1>2. s.position \in Nat
  BY DEF Sound, Shaped, Readers
<1>3. /\ Sound(from) /\ ~ from.raised /\ from.size = s.size
      /\ p \in Nat /\ p <= l
      /\ n < 0 => Unread(from) = << >> /\ p = 0
  <2>1. CASE target < s.position
    <3>1. from = _rewind(s)
      BY <2>1
    <3> HIDE DEF from
    <3> QED BY <1>1, <3>1, RewindSound
  <2>2. CASE ~ (target < s.position)
    <3>1. from = s
      BY <2>2
    <3> HIDE DEF from
    <3>2. p \in Nat /\ p <= l
      BY <3>1 DEF Sound, Shaped, Placed, Readers
    <3>3. ~ (n < 0)
      BY <1>2, <2>2, <3>1
    <3> QED BY <3>1, <3>2, <3>3
  <2> QED BY <2>1, <2>2
<1> HIDE DEF from
<1>4. n \in Int
  BY <1>3
<1> HIDE DEF n
<1>5. GotTo(from, e, Goal(p, n))
  BY <1>3, <1>4, SkipSound
<1>6. Goal(p, n) = Nearest(target)
  <2>1. Nearest(target) = IF target < 0 THEN 0 ELSE IF target <= l THEN target ELSE l
    BY NearestIs
  <2>2. Goal(p, n) = IF n < 0 THEN p ELSE IF p + n <= l THEN p + n ELSE l
    BY DEF Goal
  <2>3. p + n = target
    BY <1>3 DEF n
  <2> HIDE DEF p, l
  <2> QED BY <1>1, <1>3, <1>4, <2>1, <2>2, <2>3
<1> HIDE DEF e, p
<1>7. GotTo(s, e, Nearest(target))
  BY <1>3, <1>5, <1>6 DEF GotTo
<1> QED BY <1>7 DEF e, n, p, from

LEMMA SeekSound ==
  ASSUME FileOK, NEW r, Sound(r), ~ r.raised, NEW offset \in Int, NEW whence \in Whences
  PROVE  /\ Sound(seek(r, offset, whence))
         /\ ~ seek(r, offset, whence).raised =>
              seek(r, offset, whence).position = Nearest(From(r.position, whence) + offset)
<1> DEFINE s == IF whence = "end" THEN Sized(r) ELSE r
           origin == CASE whence = "set" -> 0 [] whence = "cur" -> s.position
                       [] whence = "end" -> s.size
           target == offset + origin
           from == IF target < s.position THEN _rewind(s) ELSE s
           e == Skip(from, target - from.position)
           o == From(r.position, whence)
<1>1. seek(r, offset, whence) = IF s.raised THEN s ELSE e
  BY DEF seek, SeekFrom
<1>2. Sound(s) /\ (~ s.raised => origin = o)
  <2>1. CASE whence = "end"
    <3>1. s = Sized(r) /\ origin = s.size /\ o = Len(File)
      BY <2>1 DEF From
    <3> HIDE DEF s, origin, o
    <3> QED BY <3>1, SizedSound
  <2>2. CASE whence = "cur"
    <3>1. s = r /\ origin = s.position /\ o = r.position
      BY <2>2 DEF From
    <3> HIDE DEF s, origin, o
    <3> QED BY <3>1
  <2>3. CASE whence = "set"
    <3>1. s = r /\ origin = 0 /\ o = 0
      BY <2>3 DEF From
    <3> HIDE DEF s, origin, o
    <3> QED BY <3>1
  <2> QED BY <2>1, <2>2, <2>3 DEF Whences
<1>3. o \in Int
  <2>1. r.position \in Nat /\ Len(File) \in Nat
    BY FileIs DEF Sound, Shaped, Readers
  <2>2. o = 0 \/ o = r.position \/ o = Len(File)
    BY DEF From, Whences
  <2> HIDE DEF o
  <2> QED BY <2>1, <2>2
<1> HIDE DEF s, origin
<1>4. CASE s.raised
  BY <1>1, <1>2, <1>4
<1>5. CASE ~ s.raised
  <2>1. target \in Int /\ target = o + offset
    <3> HIDE DEF o
    <3> QED BY <1>2, <1>3, <1>5
  <2> HIDE DEF target
  <2>2. GotTo(s, e, Nearest(target))
    BY <1>2, <1>5, <2>1, SkipsTo
  <2> HIDE DEF e
  <2>3. seek(r, offset, whence) = e
    BY <1>1, <1>5
  <2> QED BY <2>1, <2>2, <2>3 DEF GotTo
<1> QED BY <1>4, <1>5

-----------------------------------------------------------------------------
(* Reading a line *)

\* A line is what comes up to the first end of a line, or everything.
Line(s) ==
    LET ends == {i \in DOMAIN s : s[i] = NewLine}
    IN  IF ends = {} THEN s ELSE SubSeq(s, 1, Min(ends))

NoLineIn(s, k) == \A i \in 1 .. k : s[i] # NewLine

\* The first line of `s` has `k` bytes.
HasLine(s, k) ==
    /\ k \in Nat /\ k <= Len(s)
    /\ NoLineIn(s, k - 1)
    /\ k = Len(s) \/ (k > 0 /\ s[k] = NewLine)

LEMMA LineIs ==
  ASSUME NEW s \in Seq(Bytes)
  PROVE  \E k \in Nat : HasLine(s, k) /\ Line(s) = Part(s, 0, k)
<1> DEFINE ends == {i \in DOMAIN s : s[i] = NewLine}
           n == Len(s)
<1>1. n \in Nat /\ DOMAIN s = 1 .. n
  BY LenProperties
<1>2. CASE ends = {}
  <2>1. Line(s) = s
    BY <1>2 DEF Line
  <2>2. Part(s, 0, n) = s
    BY PartAll
  <2>3. NoLineIn(s, n - 1)
    BY <1>1, <1>2 DEF NoLineIn
  <2>4. HasLine(s, n)
    BY <1>1, <2>3 DEF HasLine
  <2> QED BY <1>1, <2>1, <2>2, <2>4
<1>3. CASE ends # {}
  <2> DEFINE k == Min(ends)
  <2>1. ends \subseteq Nat
    BY <1>1
  <2>2. k \in ends /\ \A i \in ends : k <= i
    <3> HIDE DEF ends
    <3> QED BY <1>3, <2>1, MinIs
  <2>3. Line(s) = SubSeq(s, 1, k)
    BY <1>3 DEF Line
  <2> HIDE DEF k
  <2>4. k \in 1 .. n /\ s[k] = NewLine
    BY <1>1, <2>2
  <2>5. k \in Nat /\ k > 0 /\ k <= Len(s)
    BY <1>1, <2>4
  <2>6. NoLineIn(s, k - 1)
    <3>1. ASSUME NEW i \in 1 .. k - 1, s[i] = NewLine
          PROVE  FALSE
      <4>1. i \in 1 .. n /\ ~ (k <= i)
        BY <1>1, <2>4
      <4>2. i \in ends
        BY <1>1, <3>1, <4>1
      <4> QED BY <2>2, <4>1, <4>2
    <3> QED BY <3>1 DEF NoLineIn
  <2>7. HasLine(s, k)
    BY <2>4, <2>5, <2>6 DEF HasLine
  <2>8. Part(s, 0, k) = SubSeq(s, 1, k)
    <3>1. 0 + 1 = 1
      OBVIOUS
    <3> QED BY <3>1 DEF Part
  <2> QED BY <2>3, <2>5, <2>7, <2>8
<1> QED BY <1>2, <1>3

LEMMA OneLine ==
  ASSUME NEW s \in Seq(Bytes), NEW k \in Nat, HasLine(s, k)
  PROVE  Line(s) = Part(s, 0, k)
<1>1. PICK j \in Nat : HasLine(s, j) /\ Line(s) = Part(s, 0, j)
  BY LineIs
<1>2. Len(s) \in Nat
  BY LenProperties
<1>3. ~ (j < k)
  <2>0. SUFFICES ASSUME j < k
                 PROVE  FALSE
    OBVIOUS
  <2>1. j > 0 /\ s[j] = NewLine
    <3>1. j # Len(s)
      BY <1>2, <2>0 DEF HasLine
    <3> QED BY <1>1, <3>1 DEF HasLine
  <2>2. j \in 1 .. k - 1
    BY <2>0, <2>1
  <2> QED BY <2>1, <2>2 DEF HasLine, NoLineIn
<1>4. ~ (k < j)
  <2>0. SUFFICES ASSUME k < j
                 PROVE  FALSE
    OBVIOUS
  <2>1. k > 0 /\ s[k] = NewLine
    <3>1. k # Len(s)
      BY <1>1, <1>2, <2>0 DEF HasLine
    <3> QED BY <3>1 DEF HasLine
  <2>2. k \in 1 .. j - 1
    BY <2>0, <2>1
  <2> QED BY <1>1, <2>1, <2>2 DEF HasLine, NoLineIn
<1>5. j = k
  BY <1>3, <1>4
<1> QED BY <1>1, <1>5

\* A turn of the loop that collects a line.
LineTurn(c) ==
    LET f == _fetch_to_internal_buffer(c.reader, ReadSize \div 2)
        line == BufferedLine(f)
    IN  IF c.ends THEN c
        ELSE [reader |-> _read_from_internal_buffer(f, line),
              data |-> c.data \o line,
              ends |-> f.raised \/ line = << >> \/ Last(line) = NewLine]

LineBy(r, f) ==
    f = [i \in 0 .. MostTurns |->
           IF i = 0 THEN [reader |-> r, data |-> << >>, ends |-> FALSE]
           ELSE LineTurn(f[i - 1])]

LEMMA LineUnrolled ==
  ASSUME NEW r
  PROVE  readline(r) = (CHOOSE f : LineBy(r, f))[MostTurns]
BY Zenon DEF readline, Looped, LineBy, LineTurn

\* The line is at `c`: its data are the next bytes of the file, and no line ends in them
\* unless the loop does.
Lining(r, c) ==
    /\ c.reader \in Readers /\ c.data \in Seq(Bytes) /\ c.ends \in BOOLEAN
    /\ Sound(c.reader) /\ c.reader.size = r.size
    /\ c.reader.raised => c.ends
    /\ ~ c.reader.raised =>
         /\ c.reader.position = r.position + Len(c.data)
         /\ Len(c.data) <= Len(Rest(r.position))
         /\ c.data = Part(Rest(r.position), 0, Len(c.data))
         /\ c.ends => HasLine(Rest(r.position), Len(c.data))
         /\ ~ c.ends => NoLineIn(Rest(r.position), Len(c.data))

(* What is behind the bytes of a part continues it. *)
LEMMA LineGrows ==
  ASSUME NEW y \in Seq(Bytes), NEW j \in Nat, j <= Len(y),
         NEW k \in Nat, k <= Len(Part(y, j, Len(y)))
  PROVE  /\ j + k \in Nat /\ j + k <= Len(y)
         /\ Part(y, 0, j) \o Part(Part(y, j, Len(y)), 0, k) = Part(y, 0, j + k)
         /\ Len(Part(y, 0, j + k)) = j + k
         /\ \A i \in 1 .. k : Part(Part(y, j, Len(y)), 0, k)[i] = y[j + i]
<1> DEFINE l == Len(y)
           t == Part(y, j, l)
           h == Part(t, 0, k)
<1>1. l \in Nat /\ l <= Len(y)
  BY LenProperties
<1>2. k <= Len(t) /\ j <= l
  OBVIOUS
<1> HIDE DEF l
<1>3. IsPart(Bytes, t, y, j, l)
  BY <1>1, <1>2, PartIs
<1>4. Len(t) = l - j
  BY <1>3 DEF IsPart
<1>5. j + k \in Nat /\ j + k <= l /\ k <= l - j /\ 0 \in Nat /\ 0 <= k /\ 0 <= j /\ j <= j + k
      /\ j + 0 = j
  <2> HIDE DEF t
  <2> QED BY <1>1, <1>2, <1>4
<1>6. h = Part(y, j + 0, j + k)
  BY <1>1, <1>2, <1>5, PartOfPart
<1>7. h = Part(y, j, j + k)
  BY <1>5, <1>6
<1> DEFINE n == j + k
<1>8. n \in Nat /\ n <= l /\ 0 <= n /\ n - 0 = n /\ n - j = k /\ j <= n
  BY <1>5
<1>9. h = Part(y, j, n)
  BY <1>7
<1> HIDE DEF h, n, t
<1>10. n <= Len(y) /\ 0 \in Nat
  BY <1>1, <1>8
<1>11. Part(y, 0, j) \o Part(y, j, n) = Part(y, 0, n)
  BY <1>5, <1>8, <1>10, PartsJoin
<1>12. IsPart(Bytes, Part(y, 0, n), y, 0, n)
  BY <1>8, <1>10, PartIs
<1>13. IsPart(Bytes, Part(y, j, n), y, j, n)
  BY <1>8, <1>10, PartIs
<1>14. \A i \in 1 .. k : h[i] = y[j + i]
  BY <1>8, <1>9, <1>13 DEF IsPart
<1>15. Len(Part(y, 0, n)) = n
  BY <1>8, <1>12 DEF IsPart
<1> QED BY <1>8, <1>9, <1>10, <1>11, <1>14, <1>15 DEF h, n, t, l

(* A turn finds the end of the line, or collects more of it. *)
LEMMA LineTurns ==
  ASSUME FileOK, NEW r, Sound(r), ~ r.raised, NEW c, Lining(r, c), ~ c.ends
  PROVE  /\ Lining(r, LineTurn(c))
         /\ \E x, y, z : LineTurn(c) = [reader |-> x, data |-> y, ends |-> z]
         /\ LineTurn(c).ends \/ Near(LineTurn(c)) < Near(c)
<1> DEFINE f == _fetch_to_internal_buffer(c.reader, ReadSize \div 2)
           u == Unread(f)
           line == BufferedLine(f)
           g == _read_from_internal_buffer(f, line)
           e == f.raised \/ line = << >> \/ Last(line) = NewLine
           s == LineTurn(c)
           p == r.position
           y == Rest(p)
           d == c.data
           j == Len(d)
           n == Len(y)
<1>1. s = [reader |-> g, data |-> d \o line, ends |-> e]
  BY DEF LineTurn
<1>2. /\ Sound(c.reader) /\ c.reader.size = r.size /\ ~ c.reader.raised
      /\ c.reader.position = p + j /\ j <= n /\ d = Part(y, 0, j)
      /\ NoLineIn(y, j) /\ d \in Seq(Bytes)
  BY DEF Lining
<1>3. ReadSize \div 2 \in Int /\ ReadSize \div 2 >= 1
  BY ReadSizeIs
<1>4. Keeps(c.reader, f) /\ (f.raised \/ f.eof \/ Len(u) >= ReadSize \div 2)
  BY <1>2, <1>3, FetchSound
<1> HIDE DEF f
<1>5. Sound(f) /\ f.size = r.size /\ f.position = p + j
  BY <1>2, <1>4 DEF Keeps
<1>6. u \in Seq(Bytes) /\ Len(u) \in Nat /\ f \in Readers
  BY <1>5, UnreadIs DEF Sound, Shaped
<1>7. line = Line(u)
  BY DEF BufferedLine, Line
<1> HIDE DEF line, u
<1>8. PICK k \in Nat : HasLine(u, k) /\ line = Part(u, 0, k)
  BY <1>6, <1>7, LineIs
<1>9. IsPart(Bytes, line, u, 0, k)
  <2>1. 0 \in Nat /\ 0 <= k /\ k <= Len(u)
    BY <1>8 DEF HasLine
  <2> QED BY <1>6, <1>8, <2>1, PartIs
<1>10. line \in Seq(Bytes) /\ Len(line) = k /\ \A i \in 1 .. k : line[i] = u[i]
  <2>1. k - 0 = k /\ \A i \in 1 .. k : 0 + i = i
    BY <1>8
  <2> QED BY <1>9, <2>1 DEF IsPart
<1>11. d \o line \in Seq(Bytes) /\ j \in Nat
  BY <1>2, <1>10, ConcatProperties, LenProperties
<1>12. p \in Nat /\ p <= Len(File)
  BY DEF Sound, Shaped, Placed, Readers
<1>13. y \in Seq(Bytes) /\ n = Len(File) - p /\ n \in Nat
  <2> HIDE DEF p
  <2> QED BY <1>12, RestIs
<1>14. e \in BOOLEAN
  OBVIOUS
<1> HIDE DEF s, g, y, d, p, j, n
<1>15. CASE f.raised
  <2>1. g = f
    BY <1>15 DEF _read_from_internal_buffer, g
  <2>2. e = TRUE
    BY <1>15
  <2>3. s.reader = f /\ s.data = d \o line /\ s.ends = TRUE
    BY <1>1, <2>1, <2>2
  <2>4. Lining(r, s)
    BY <1>5, <1>6, <1>11, <1>15, <2>3 DEF Lining
  <2> QED BY <1>1, <2>3, <2>4 DEF s
<1>16. CASE ~ f.raised
  <2>1. /\ ReadOn(f, k, g)
        /\ k <= Len(Rest(p + j))
        /\ line = Part(Rest(p + j), 0, k)
    <3>1. k <= Len(u)
      BY <1>8 DEF HasLine
    <3>2. /\ ReadOn(f, k, _read_from_internal_buffer(f, Part(u, 0, k)))
          /\ k <= Len(Rest(f.position))
          /\ Part(u, 0, k) = Part(Rest(f.position), 0, k)
      BY <1>5, <1>8, <1>16, <3>1, Takes DEF u
    <3> QED BY <1>5, <1>8, <3>2 DEF g
  <2>2. Rest(p + j) = Part(y, j, n)
    <3>1. j <= Len(Rest(p))
      BY <1>2 DEF n, y
    <3>2. Rest(p + j) = Part(Rest(p), j, Len(Rest(p)))
      BY <1>11, <1>12, <3>1, RestOfRest
    <3> QED BY <3>2 DEF y, n
  <2>3. /\ j + k \in Nat /\ j + k <= n
        /\ d \o line = Part(y, 0, j + k)
        /\ Len(d \o line) = j + k
        /\ \A i \in 1 .. k : line[i] = y[j + i]
    <3>1. j <= Len(y) /\ k <= Len(Part(y, j, Len(y)))
      BY <1>2, <2>1, <2>2 DEF n
    <3>2. /\ j + k \in Nat /\ j + k <= Len(y)
          /\ Part(y, 0, j) \o Part(Part(y, j, Len(y)), 0, k) = Part(y, 0, j + k)
          /\ Len(Part(y, 0, j + k)) = j + k
          /\ \A i \in 1 .. k : Part(Part(y, j, Len(y)), 0, k)[i] = y[j + i]
      BY <1>8, <1>11, <1>13, <3>1, LineGrows
    <3>3. line = Part(Part(y, j, Len(y)), 0, k)
      BY <2>1, <2>2 DEF n
    <3> QED BY <1>2, <3>2, <3>3 DEF n
  <2>4. Sound(g) /\ ~ g.raised /\ g.position = p + (j + k) /\ g.size = r.size /\ g \in Readers
    <3>1. ReadOn(f, k, g) /\ g.position = (p + j) + k
      BY <1>5, <2>1 DEF ReadOn
    <3>2. (p + j) + k = p + (j + k)
      BY <1>8, <1>11, <1>12
    <3> QED BY <1>5, <3>1, <3>2 DEF ReadOn, Sound, Shaped
  <2>5. NoLineIn(y, (j + k) - 1)
    <3>1. ASSUME NEW i \in 1 .. (j + k) - 1
          PROVE  y[i] # NewLine
      <4>1. CASE i <= j
        <5>1. i \in 1 .. j
          BY <1>11, <4>1
        <5> QED BY <1>2, <5>1 DEF NoLineIn
      <4>2. CASE i > j
        <5> DEFINE x == i - j
        <5>1. x \in 1 .. k - 1 /\ x \in 1 .. k /\ j + x = i
          BY <1>8, <1>11, <4>2
        <5> HIDE DEF x
        <5>2. u[x] # NewLine
          BY <1>8, <5>1 DEF HasLine, NoLineIn
        <5> QED BY <1>10, <2>3, <5>1, <5>2
      <4> QED BY <1>11, <4>1, <4>2
    <3> QED BY <3>1 DEF NoLineIn
  <2>6. k > 0 => Last(line) = y[j + k] /\ line # << >>
    <3> HAVE k > 0
    <3>1. k \in 1 .. k
      BY <1>8
    <3> QED BY <1>10, <2>3, <3>1, EmptySeq DEF Last
  <2>7. CASE k = 0
    <3>1. line = << >> /\ e = TRUE
      BY <1>10, <2>7, EmptySeq
    <3>2. Len(u) = 0
      BY <1>6, <1>8, <2>7 DEF HasLine
    <3>3. f.eof
      BY <1>3, <1>4, <1>16, <3>2
    <3>4. u = Rest(p + j)
      BY <1>5, <1>16, <3>3, EndAhead DEF u
    <3>5. n - j = 0
      <4>1. j <= n /\ n <= Len(y) /\ n \in Nat
        BY <1>2, <1>13 DEF n
      <4>2. IsPart(Bytes, Part(y, j, n), y, j, n)
        BY <1>11, <1>13, <4>1, PartIs
      <4> QED BY <2>2, <3>2, <3>4, <4>2 DEF IsPart
    <3>6. j + k = n
      BY <1>11, <1>13, <2>7, <3>5
    <3>7. HasLine(y, j + k)
      <4> DEFINE m == j + k
      <4>1. m \in Nat /\ m <= Len(y) /\ m = Len(y)
        BY <2>3, <3>6 DEF n
      <4>2. NoLineIn(y, m - 1)
        BY <2>5
      <4> HIDE DEF m
      <4>3. HasLine(y, m)
        BY <4>1, <4>2 DEF HasLine
      <4> QED BY <4>3 DEF m
    <3>8. s.reader = g /\ s.data = d \o line /\ s.ends = TRUE
      BY <1>1, <3>1
    <3>9. Lining(r, s)
      BY <1>5, <1>11, <2>3, <2>4, <3>7, <3>8 DEF Lining, y, n, p
    <3> QED BY <1>1, <3>8, <3>9 DEF s
  <2>8. CASE k > 0 /\ y[j + k] = NewLine
    <3>1. e = TRUE
      BY <2>6, <2>8
    <3>2. j + k > 0
      BY <1>8, <1>11, <2>8
    <3>3. HasLine(y, j + k)
      <4> DEFINE m == j + k
      <4>1. m \in Nat /\ m <= Len(y) /\ m > 0 /\ y[m] = NewLine
        BY <2>3, <2>8, <3>2 DEF n
      <4>2. NoLineIn(y, m - 1)
        BY <2>5
      <4> HIDE DEF m
      <4>3. HasLine(y, m)
        BY <4>1, <4>2 DEF HasLine
      <4> QED BY <4>3 DEF m
    <3>4. s.reader = g /\ s.data = d \o line /\ s.ends = TRUE
      BY <1>1, <3>1
    <3>5. Lining(r, s)
      BY <1>5, <1>11, <2>3, <2>4, <3>3, <3>4 DEF Lining, y, n, p
    <3> QED BY <1>1, <3>4, <3>5 DEF s
  <2>9. CASE k > 0 /\ y[j + k] # NewLine
    <3>1. e = FALSE
      BY <1>16, <2>6, <2>9
    <3>2. NoLineIn(y, j + k)
      <4>1. ASSUME NEW i \in 1 .. j + k
            PROVE  y[i] # NewLine
        <5>1. i = j + k \/ i \in 1 .. (j + k) - 1
          BY <1>8, <1>11
        <5> QED BY <2>5, <2>9, <5>1 DEF NoLineIn
      <4> QED BY <4>1 DEF NoLineIn
    <3>3. s.reader = g /\ s.data = d \o line /\ s.ends = FALSE
      BY <1>1, <3>1
    <3>4. Lining(r, s)
      BY <1>5, <1>11, <2>3, <2>4, <3>2, <3>3 DEF Lining, y, n, p
    <3>5. Near(s) < Near(c)
      <4> DEFINE l == Len(File)
      <4>1. l \in Nat
        BY FileIs
      <4>2. Near(s) = l - (p + (j + k)) + 1
        BY <2>4, <3>3 DEF Near
      <4>3. Near(c) = l - (p + j) + 1
        BY <1>2 DEF Near
      <4> HIDE DEF l
      <4> QED BY <1>8, <1>11, <1>12, <2>9, <4>1, <4>2, <4>3
    <3> QED BY <1>1, <3>4, <3>5 DEF s
  <2> QED BY <1>8, <2>7, <2>8, <2>9
<1> QED BY <1>15, <1>16

\* `c` is what reading a line on `r` comes to: the first line of what lies ahead.
GivesLine(r, c) ==
    /\ c.data \in Seq(Bytes)
    /\ Sound(c.reader) /\ c.reader.size = r.size
    /\ ~ c.reader.raised =>
         /\ c.data = Line(Rest(r.position))
         /\ c.reader.position = r.position + Len(c.data)

(* The loop ends in time, with the line that comes next in the file. *)
LEMMA ReadlineGives ==
  ASSUME FileOK, NEW r, Sound(r), ~ r.raised
  PROVE  GivesLine(r, readline(r))
<1> DEFINE z == [reader |-> r, data |-> << >>, ends |-> FALSE]
           S == {c \in [reader : Readers, data : Seq(Bytes), ends : BOOLEAN] : Lining(r, c)}
           M == MostTurns
           stop == {c \in S : c.ends}
           step == [c \in S |-> LineTurn(c)]
           m == [c \in S |-> Near(c)]
           p == r.position
           y == Rest(p)
<1>1. M \in Nat
  BY MostTurnsIs
<1>2. ASSUME NEW c \in S, ~ c.ends
      PROVE  LineTurn(c) \in S /\ (LineTurn(c).ends \/ Near(LineTurn(c)) < Near(c))
  <2> DEFINE s == LineTurn(c)
  <2>1. Lining(r, c) /\ ~ c.ends
    BY <1>2
  <2>2. /\ Lining(r, s)
        /\ \E v, w, x : s = [reader |-> v, data |-> w, ends |-> x]
        /\ s.ends \/ Near(s) < Near(c)
    BY <2>1, LineTurns
  <2> HIDE DEF s
  <2>3. s.reader \in Readers /\ s.data \in Seq(Bytes) /\ s.ends \in BOOLEAN
    BY <2>2 DEF Lining
  <2>4. s \in [reader : Readers, data : Seq(Bytes), ends : BOOLEAN]
    <3>1. PICK v, w, x : s = [reader |-> v, data |-> w, ends |-> x]
      BY <2>2
    <3> QED BY <2>3, <3>1
  <2> QED BY <2>2, <2>4 DEF s
<1>3. ASSUME NEW c \in S, c.ends
      PROVE  LineTurn(c) = c
  BY <1>3 DEF LineTurn
<1>4. p \in Nat /\ p <= Len(File) /\ r \in Readers
  BY DEF Sound, Shaped, Placed, Readers
<1>5. y \in Seq(Bytes) /\ Len(y) \in Nat
  <2> HIDE DEF p
  <2> QED BY <1>4, RestIs
<1>6. z \in S
  <2> DEFINE q == z.reader
             d == z.data
             b == z.ends
  <2>1. q = r /\ d = << >> /\ b = FALSE /\ Len(d) = 0 /\ d \in Seq(Bytes)
    BY EmptySeq
  <2>2. z \in [reader : Readers, data : Seq(Bytes), ends : BOOLEAN]
    BY <1>4, <2>1
  <2>3. Part(y, 0, 0) = << >> /\ NoLineIn(y, 0)
    BY PartNone DEF NoLineIn
  <2> HIDE DEF q, d, b, z
  <2>4. p = p + Len(d) /\ Len(d) <= Len(y)
    BY <1>4, <1>5, <2>1
  <2>5. d = Part(y, 0, Len(d)) /\ NoLineIn(y, Len(d))
    BY <2>1, <2>3
  <2> HIDE DEF p, y
  <2>6. Lining(r, z)
    BY <1>4, <2>1, <2>4, <2>5 DEF Lining, q, d, b, p, y
  <2> QED BY <2>2, <2>6
<1>7. \A c \in S : Near(c) \in Nat /\ Near(c) < M
  <2>1. ASSUME NEW c \in S
        PROVE  Near(c) \in Nat /\ Near(c) < M
    <3> DEFINE l == Len(File)
               o == c.reader.position
    <3>1. l \in Nat /\ l + 1 < M
      BY FileIs, MostTurnsIs
    <3>2. ~ c.reader.raised => o \in Nat /\ o <= l
      BY DEF Lining, Sound, Shaped, Placed, Readers
    <3> HIDE DEF M, S
    <3>3. Near(c) = IF c.reader.raised THEN 0 ELSE l - o + 1
      BY DEF Near
    <3> HIDE DEF l, o
    <3> QED BY <1>1, <3>1, <3>2, <3>3
  <2> QED BY <2>1
<1> HIDE DEF M, z, p, y
<1>8. \A c \in S : LineTurn(c) \in S
  <2>1. \A c \in S : c.ends \/ ~ c.ends
    OBVIOUS
  <2> QED BY <1>2, <1>3, <2>1
<1>9. stop \in SUBSET S /\ \A c \in S : c \in stop <=> c.ends
  OBVIOUS
<1>10. \A c \in stop : Lining(r, c) /\ c.ends
  OBVIOUS
<1> HIDE DEF S, stop
<1>11. step \in [S -> S] /\ \A c \in S : step[c] = LineTurn(c)
  BY <1>8
<1>12. m \in [S -> Nat] /\ \A c \in S : m[c] = Near(c)
  BY <1>7
<1> HIDE DEF step, m
<1>13. \E f : LineBy(r, f)
  <2>1. PICK f \in [0 .. M -> S] : Loops(z, step, M, f)
    BY <1>1, <1>6, <1>11, Goes
  <2>2. ASSUME NEW i \in 0 .. M
        PROVE  f[i] = IF i = 0 THEN z ELSE LineTurn(f[i - 1])
    <3>1. i # 0 => i - 1 \in 0 .. M
      BY <1>1
    <3>2. i # 0 => f[i - 1] \in S
      BY <3>1
    <3> QED BY <1>11, <2>1, <3>2 DEF Loops
  <2>3. f = [i \in 0 .. M |-> IF i = 0 THEN z ELSE LineTurn(f[i - 1])]
    BY <2>2
  <2> QED BY <2>3 DEF LineBy, M, z
<1> DEFINE g == CHOOSE f : LineBy(r, f)
<1>14. LineBy(r, g)
  BY <1>13, Zenon
<1>15. readline(r) = g[M]
  BY LineUnrolled DEF M
<1> HIDE DEF g
<1>16. g = [i \in 0 .. M |-> IF i = 0 THEN z ELSE LineTurn(g[i - 1])]
  BY <1>14 DEF LineBy, M, z
<1>17. g[0] = z
  <2>1. 0 \in 0 .. M
    BY <1>1
  <2> QED BY <1>16, <2>1, Zenon
<1>18. ASSUME NEW i \in 1 .. M, g[i - 1] \in S
       PROVE  g[i] = step[g[i - 1]]
  <2>1. i \in 0 .. M /\ i # 0
    BY <1>1
  <2>2. g[i] = LineTurn(g[i - 1])
    BY <1>16, <2>1, Zenon
  <2> QED BY <1>11, <1>18, <2>2
<1>19. m[z] < M
  BY <1>6, <1>7, <1>12
<1>20. Follows(S, step, M, g)
  BY <1>18 DEF Follows
<1>21. Settles(S, step, stop, m)
  <2>1. ASSUME NEW c \in S, c \notin stop
        PROVE  step[c] \in stop \/ m[step[c]] < m[c]
    <3>1. ~ c.ends
      BY <1>9, <2>1
    <3>2. LineTurn(c) \in S /\ (LineTurn(c).ends \/ Near(LineTurn(c)) < Near(c))
      BY <1>2, <3>1
    <3> QED BY <1>9, <1>11, <1>12, <3>2
  <2>2. \A c \in S : c \in stop => step[c] = c
    BY <1>3, <1>9, <1>11
  <2> QED BY <2>1, <2>2 DEF Settles
<1>22. g[M] \in stop
  BY <1>1, <1>6, <1>9, <1>11, <1>12, <1>17, <1>19, <1>20, <1>21, Stops
<1> DEFINE e == g[M]
<1>23. Lining(r, e) /\ e.ends
  BY <1>10, <1>22
<1> HIDE DEF e
<1>24. e.data \in Seq(Bytes) /\ Sound(e.reader) /\ e.reader.size = r.size
  BY <1>23 DEF Lining
<1>25. ASSUME ~ e.reader.raised
       PROVE  e.data = Line(y) /\ e.reader.position = p + Len(e.data)
  <2> DEFINE k == Len(e.data)
  <2>1. e.reader.position = p + k /\ e.data = Part(y, 0, k) /\ HasLine(y, k)
    BY <1>23, <1>25 DEF Lining, p, y
  <2>2. k \in Nat
    BY <1>24, LenProperties
  <2> HIDE DEF k
  <2>3. Line(y) = Part(y, 0, k)
    BY <1>5, <2>1, <2>2, OneLine
  <2> QED BY <2>1, <2>3 DEF k
<1>26. GivesLine(r, e)
  BY <1>24, <1>25 DEF GivesLine, p, y
<1> QED BY <1>15, <1>26 DEF e

-----------------------------------------------------------------------------
(* What is written *)

(* Of the bytes that are held back and those that are written some are packed, and all  *)
(* of them stay in the content.                                                         *)
LEMMA PackedSome ==
  ASSUME NEW s \in Seq(Units), NEW a \in Seq(Bytes), NEW b \in Seq(Bytes),
         NEW k \in 0 .. Len(a) + Len(b)
  PROVE  LET all == a \o b
             packed == s \o SubSeq(all, 1, k)
             held == SubSeq(all, k + 1, Len(all))
         IN  /\ packed \in Seq(Units) /\ held \in Seq(Bytes)
             /\ Unpacked(packed) \o held = (Unpacked(s) \o a) \o b
<1> DEFINE all == a \o b
           l == Len(all)
           x == Part(all, 0, k)
           y == Part(all, k, l)
           S == Unpacked(s)
<1>1. all \in Seq(Bytes) /\ l = Len(a) + Len(b) /\ l \in Nat
  BY ConcatProperties, LenProperties
<1>2. l <= Len(all) /\ k \in Nat /\ k <= l /\ 0 \in Nat /\ 0 <= k /\ k <= Len(all)
  BY <1>1
<1>3. SubSeq(all, 1, k) = x /\ SubSeq(all, k + 1, Len(all)) = y
  <2>1. 0 + 1 = 1
    OBVIOUS
  <2> QED BY <2>1 DEF Part
<1> HIDE DEF all, l, S
<1>4. x \in Seq(Bytes) /\ y \in Seq(Bytes)
  <2>1. IsPart(Bytes, Part(all, 0, k), all, 0, k)
    BY <1>1, <1>2, PartIs
  <2>2. IsPart(Bytes, Part(all, k, l), all, k, l)
    BY <1>1, <1>2, PartIs
  <2> QED BY <2>1, <2>2 DEF IsPart
<1>5. x \o y = all
  <2>1. Part(all, 0, k) \o Part(all, k, l) = Part(all, 0, l)
    BY <1>1, <1>2, PartsJoin
  <2>2. Part(all, 0, l) = all
    BY <1>1, PartAll DEF l
  <2> QED BY <2>1, <2>2
<1> HIDE DEF x, y
<1>6. x \in Seq(Units) /\ Unpacked(x) = x
  BY <1>4, UnpackedBytes
<1>7. S \in Seq(Bytes)
  BY UnpackedType DEF S
<1>8. s \o x \in Seq(Units) /\ Unpacked(s \o x) = S \o x
  BY <1>6, UnpackedConcat, ConcatProperties DEF S
<1>9. (S \o x) \o y = S \o all
  BY <1>4, <1>5, <1>7, BytesAssociative
<1>10. S \o all = (S \o a) \o b
  BY <1>7, BytesAssociative DEF all
<1> QED BY <1>3, <1>4, <1>8, <1>9, <1>10 DEF all, S

(* A flush packs what is held back, and ends the stream. *)
LEMMA PackedAll ==
  ASSUME NEW s \in Seq(Units), NEW a \in Seq(Bytes)
  PROVE  /\ s \o a \o <<End>> \in Seq(Units)
         /\ Unpacked(s \o a \o <<End>>) \o << >> = Unpacked(s) \o a
<1> DEFINE e == <<End>>
           S == Unpacked(s)
           t == s \o a
<1>1. e \in Seq(Units) /\ Unpacked(e) = << >>
  BY UnpackedEnd
<1>2. a \in Seq(Units) /\ Unpacked(a) = a /\ S \in Seq(Bytes)
  BY UnpackedBytes, UnpackedType
<1> HIDE DEF e, S
<1>3. t \in Seq(Units) /\ Unpacked(t) = S \o a
  BY <1>2, UnpackedConcat, ConcatProperties DEF S
<1> HIDE DEF t
<1>4. t \o e \in Seq(Units) /\ Unpacked(t \o e) = Unpacked(t) \o Unpacked(e)
  BY <1>1, <1>3, UnpackedConcat, ConcatProperties
<1>5. S \o a \in Seq(Bytes)
  BY <1>2, ConcatProperties
<1>6. (S \o a) \o << >> = S \o a
  BY <1>5, ConcatEmptySeq
<1> QED BY <1>1, <1>3, <1>4, <1>6 DEF t, e, S

(* Another file behind a file leaves what there was. *)
LEMMA PackedMore ==
  ASSUME NEW s \in Seq(Units), NEW d \in Seq(Units)
  PROVE  /\ s \o d \in Seq(Units)
         /\ IsPrefix(Unpacked(s), Unpacked(s \o d))
<1> DEFINE S == Unpacked(s)
           D == Unpacked(d)
           T == S \o D
           l == Len(S)
<1>1. S \in Seq(Bytes) /\ D \in Seq(Bytes)
  BY UnpackedType
<1>2. s \o d \in Seq(Units) /\ Unpacked(s \o d) = T
  BY UnpackedConcat, ConcatProperties
<1> HIDE DEF S, D
<1>3. l \in Nat /\ Len(D) \in Nat /\ Len(T) = l + Len(D)
  BY <1>1, LenProperties, ConcatProperties
<1>4. Part(T, 0, l) = S
  BY <1>1, PartsOfConcat
<1>5. Part(S, 0, l) = S
  BY <1>1, PartAll
<1>6. SubSeq(T, 1, l) = S /\ SubSeq(S, 1, l) = S
  <2>1. 0 + 1 = 1
    OBVIOUS
  <2> QED BY <1>4, <1>5, <2>1 DEF Part
<1>7. Len(S) <= Len(T)
  <2> HIDE DEF T
  <2> QED BY <1>3
<1> QED BY <1>2, <1>6, <1>7 DEF IsPrefix, S

(* What was packed is the start of it with what was held back. *)
LEMMA PackedIsPrefix ==
  ASSUME NEW s \in Seq(Units), NEW a \in Seq(Bytes)
  PROVE  IsPrefix(Unpacked(s), Unpacked(s) \o a)
<1>1. a \in Seq(Units) /\ Unpacked(a) = a
  BY UnpackedBytes
<1>2. Unpacked(s \o a) = Unpacked(s) \o a
  BY <1>1, UnpackedConcat
<1> QED BY <1>1, <1>2, PackedMore

-----------------------------------------------------------------------------
(* The invariant *)

Modes == {"w", "r", "closed"}
Packers == [pending : Seq(Bytes), flushed : BOOLEAN]

\* A reader that reads nothing, for its file is written.
Idle(r) ==
    /\ r.at = 0 /\ r.ended = FALSE /\ r.unused = << >> /\ r.buffer = << >>
    /\ r.read = 0 /\ r.size = Unknown

Typed ==
    /\ FileOK
    /\ mode \in Modes /\ packer \in Packers /\ reader \in Readers
    /\ result \in Seq(Bytes) /\ raised \in BOOLEAN

\* Only a writer holds bytes back.
WriterOK ==
    /\ mode # "w" => packer.pending = << >>
    /\ mode = "w" => Idle(reader)

ReaderOK ==
    /\ mode # "w" => Shaped(reader)
    /\ mode = "r" => raised = reader.raised /\ Sound(reader)

IInv == Typed /\ WriterOK /\ ReaderOK

LEMMA IdleShaped ==
  ASSUME FileOK, NEW r \in Readers, Idle(r)
  PROVE  Shaped(r)
<1>1. /\ r.at = 0 /\ r.ended = FALSE /\ r.unused = << >> /\ r.buffer = << >>
      /\ r.read = 0 /\ r.size = Unknown
  BY DEF Idle
<1>2. Len(r.buffer) = 0 /\ Len(r.unused) = 0 /\ Len(stored) \in Nat
  BY <1>1, FileIs, EmptySeq
<1>3. Cut(r) = 0
  <2>1. r.at = 0 /\ Len(r.unused) = 0
    BY <1>1, <1>2
  <2> QED BY <2>1 DEF Cut
<1>4. r.unused = Part(stored, Cut(r), r.at)
  BY <1>1, <1>3, PartNone
<1> QED BY <1>1, <1>2, <1>4 DEF Shaped

\* The same, of the state, and of the next one.
LEMMA IdleIsShaped ==
  FileOK /\ reader \in Readers /\ Idle(reader) => Shaped(reader)
BY IdleShaped

LEMMA IdleIsShapedNext ==
  (FileOK /\ reader \in Readers /\ Idle(reader))' => Shaped(reader)'
BY IdleIsShaped, PTL

LEMMA FreshIs ==
  /\ FreshReader \in Readers
  /\ FreshReader.at = 0 /\ FreshReader.ended = FALSE /\ FreshReader.unused = << >>
  /\ FreshReader.buffer = << >> /\ FreshReader.read = 0 /\ FreshReader.eof = FALSE
  /\ FreshReader.position = 0 /\ FreshReader.size = Unknown /\ FreshReader.raised = FALSE
  /\ FreshPacker \in Packers /\ FreshPacker.pending = << >>
BY EmptySeq DEF FreshReader, FreshPacker, Readers, Packers, Unknown

LEMMA FreshIsSound ==
  FileOK /\ reader = FreshReader => Sound(reader) /\ Shaped(reader)
<1> SUFFICES ASSUME FileOK, reader = FreshReader
             PROVE  Sound(reader) /\ Shaped(reader)
  OBVIOUS
<1>1. AtStart(reader)
  BY FreshIs DEF AtStart
<1> QED BY <1>1, StartSound DEF Sound

LEMMA FreshIsSoundNext ==
  (FileOK /\ reader = FreshReader)' => (Sound(reader) /\ Shaped(reader))'
BY FreshIsSound, PTL

LEMMA InitOK ==
  Init => IInv
<1> SUFFICES ASSUME Init
             PROVE  IInv
  OBVIOUS
<1>1. << >> \in Seq(Units) /\ << >> \in Seq(Bytes)
  BY EmptySeq
<1>2. stored = << >> /\ mode = "w" /\ strict \in BOOLEAN /\ packer = FreshPacker
      /\ reader = FreshReader /\ result = << >> /\ raised = FALSE
  BY DEF Init
<1>3. Typed
  BY <1>1, <1>2, FreshIs DEF Typed, FileOK, Modes
<1>4. WriterOK
  BY <1>2, FreshIs DEF WriterOK, Idle
<1>5. ReaderOK
  BY <1>2 DEF ReaderOK
<1> QED BY <1>3, <1>4, <1>5 DEF IInv

LEMMA DataIs ==
  /\ \A data \in Writes : data \in Seq(Bytes)
  /\ \A n \in Reads : n \in Nat
  /\ \A offset \in Offsets : offset \in Int
BY CompressedFileAssumption

(* A write leaves the invariant, and adds its bytes to the content unless it raises. *)
LEMMA WriteOK ==
  ASSUME IInv, NEW data \in Writes, write(data)
  PROVE  /\ IInv'
         /\ raised' = TRUE \/ raised' = raised
         /\ raised' # raised => Content' = Content
         /\ raised' = raised => Content' = Content \o data
<1>1. data \in Seq(Bytes) /\ Len(data) \in Nat
  BY DataIs, LenProperties
<1>2. /\ stored \in Seq(Units) /\ packer \in Packers /\ reader \in Readers /\ raised \in BOOLEAN
      /\ packer.pending \in Seq(Bytes) /\ packer.flushed \in BOOLEAN
      /\ mode = "w" /\ ~ raised
  BY DEF IInv, Typed, FileOK, Packers, write
<1>3. UNCHANGED <<mode, strict, result>> /\ reader' = [reader EXCEPT !.position = @ + Len(data)]
  BY DEF write
<1>4. reader' \in Readers /\ Idle(reader)'
  <2>1. Idle(reader)
    BY <1>2 DEF IInv, WriterOK
  <2>2. reader.position + Len(data) \in Nat
    BY <1>1, <1>2 DEF Readers
  <2>3. /\ reader' \in Readers
        /\ reader'.at = reader.at /\ reader'.ended = reader.ended
        /\ reader'.unused = reader.unused /\ reader'.buffer = reader.buffer
        /\ reader'.read = reader.read /\ reader'.size = reader.size
    BY <1>2, <1>3, <2>2 DEF Readers
  <2> QED BY <2>1, <2>3 DEF Idle
<1>5. WriterOK' /\ ReaderOK'
  BY <1>2, <1>3, <1>4 DEF WriterOK, ReaderOK
<1>6. strict' \in BOOLEAN /\ mode' \in Modes /\ result' \in Seq(Bytes)
  BY <1>3 DEF IInv, Typed, FileOK
<1>7. CASE packer.flushed
  <2>1. raised' = TRUE /\ UNCHANGED <<stored, packer>>
    BY <1>7 DEF write
  <2>2. Typed'
    BY <1>2, <1>4, <1>6, <2>1 DEF Typed, FileOK
  <2>3. Content' = Content
    BY <2>1 DEF Content
  <2> QED BY <1>2, <1>5, <2>1, <2>2, <2>3 DEF IInv
<1>8. CASE ~ packer.flushed
  <2>1. PICK k \in 0 .. Len(packer.pending) + Len(data) :
          LET all == packer.pending \o data
          IN  /\ stored' = stored \o SubSeq(all, 1, k)
              /\ packer' = [packer EXCEPT !.pending = SubSeq(all, k + 1, Len(all))]
              /\ UNCHANGED raised
    BY <1>8 DEF write
  <2> DEFINE all == packer.pending \o data
             held == SubSeq(all, k + 1, Len(all))
             S == Unpacked(stored)
             T == Unpacked(stored')
  <2>2. stored' \in Seq(Units) /\ held \in Seq(Bytes)
        /\ T \o held = (S \o packer.pending) \o data
    BY <1>1, <1>2, <2>1, PackedSome
  <2>3. packer' = [packer EXCEPT !.pending = held] /\ raised' = raised
    BY <2>1
  <2> HIDE DEF held, S, T
  <2>4. packer' \in Packers /\ packer'.pending = held
    BY <1>2, <2>2, <2>3 DEF Packers
  <2>5. Typed'
    BY <1>2, <1>4, <1>6, <2>2, <2>3, <2>4 DEF Typed, FileOK
  <2>6. Content' = Content \o data
    <3>1. Content' = T \o held
      BY <2>4 DEF Content, T
    <3>2. Content = S \o packer.pending
      BY DEF Content, S
    <3> QED BY <2>2, <3>1, <3>2
  <2> QED BY <1>5, <2>3, <2>5, <2>6 DEF IInv
<1> QED BY <1>2, <1>7, <1>8

(* A flush leaves the content, and holds back nothing unless it raises. *)
LEMMA FlushedOK ==
  ASSUME Typed, ~ raised, Flushed
  PROVE  /\ stored' \in Seq(Units) /\ packer' \in Packers /\ raised' \in BOOLEAN
         /\ Content' = Content
         /\ ~ raised' => packer'.pending = << >>
<1>1. /\ stored \in Seq(Units) /\ packer \in Packers
      /\ packer.pending \in Seq(Bytes) /\ packer.flushed \in BOOLEAN
      /\ raised \in BOOLEAN
  BY DEF Typed, FileOK, Packers
<1>2. CASE packer.flushed
  <2>1. raised' = TRUE /\ UNCHANGED <<stored, packer>>
    BY <1>2 DEF Flushed
  <2> QED BY <1>1, <2>1 DEF Content
<1>3. CASE ~ packer.flushed
  <2>1. /\ stored' = stored \o packer.pending \o <<End>>
        /\ packer' = [pending |-> << >>, flushed |-> TRUE]
        /\ raised' = raised
    BY <1>3 DEF Flushed
  <2>2. stored' \in Seq(Units) /\ Unpacked(stored') \o << >> = Unpacked(stored) \o packer.pending
    BY <1>1, <2>1, PackedAll
  <2>3. packer' \in Packers /\ packer'.pending = << >>
    BY <2>1, EmptySeq DEF Packers
  <2>4. Content' = Unpacked(stored') \o << >>
    BY <2>3 DEF Content
  <2>5. Content = Unpacked(stored) \o packer.pending
    BY DEF Content
  <2>6. Content' = Content
    BY <2>2, <2>4, <2>5
  <2> QED BY <1>1, <2>1, <2>2, <2>3, <2>6
<1> QED BY <1>2, <1>3

LEMMA FlushOK ==
  ASSUME IInv, flush
  PROVE  IInv' /\ Content' = Content
<1>1. Typed /\ mode = "w" /\ ~ raised /\ Flushed /\ UNCHANGED <<mode, strict, reader, call, result>>
  BY DEF IInv, flush
<1>2. /\ stored' \in Seq(Units) /\ packer' \in Packers /\ raised' \in BOOLEAN
      /\ Content' = Content
  BY <1>1, FlushedOK
<1>3. Typed'
  BY <1>1, <1>2 DEF Typed, FileOK
<1>4. WriterOK'
  BY <1>1 DEF IInv, WriterOK, Idle
<1>5. ReaderOK'
  BY <1>1 DEF ReaderOK
<1> QED BY <1>2, <1>3, <1>4, <1>5 DEF IInv

LEMMA CloseOK ==
  ASSUME IInv, close
  PROVE  IInv' /\ Content' = Content
<1>1. Typed /\ mode # "closed" /\ ~ raised /\ UNCHANGED <<strict, reader, call, result>>
      /\ mode' = (IF raised' THEN mode ELSE "closed")
  BY DEF IInv, close
<1>2. CASE mode = "w"
  <2>1. /\ stored' \in Seq(Units) /\ packer' \in Packers /\ raised' \in BOOLEAN
        /\ Content' = Content
        /\ ~ raised' => packer'.pending = << >>
    BY <1>1, <1>2, FlushedOK DEF close
  <2>2. Typed'
    BY <1>1, <2>1 DEF Typed, FileOK, Modes
  <2>3. Idle(reader)'
    BY <1>1, <1>2 DEF IInv, WriterOK, Idle
  <2>4. WriterOK'
    BY <1>1, <1>2, <2>1, <2>3 DEF WriterOK
  <2>5. Shaped(reader)'
    BY <2>2, <2>3, IdleIsShapedNext DEF Typed
  <2>6. ReaderOK'
    BY <1>1, <1>2, <2>5 DEF ReaderOK
  <2> QED BY <2>1, <2>2, <2>4, <2>6 DEF IInv
<1>3. CASE mode # "w"
  <2>1. UNCHANGED <<stored, packer, raised>> /\ mode' = "closed"
    BY <1>1, <1>3 DEF close
  <2>2. Typed'
    BY <1>1, <2>1 DEF Typed, FileOK, Modes
  <2>3. WriterOK'
    BY <1>3, <2>1 DEF IInv, WriterOK
  <2>4. Shaped(reader)'
    BY <1>1, <1>3, <2>1 DEF IInv, ReaderOK, Shaped, Part, Cut, File
  <2>5. ReaderOK'
    BY <2>1, <2>4 DEF ReaderOK
  <2>6. Content' = Content
    BY <2>1 DEF Content
  <2> QED BY <2>2, <2>3, <2>5, <2>6 DEF IInv
<1> QED BY <1>2, <1>3

LEMMA MoreIs ==
  \A more \in {<< >>} \cup {d \o <<End>> : d \in Writes} : more \in Seq(Units)
<1> SUFFICES ASSUME NEW more \in {<< >>} \cup {d \o <<End>> : d \in Writes}
             PROVE  more \in Seq(Units)
  OBVIOUS
<1>1. CASE more = << >>
  BY <1>1, EmptySeq
<1>2. ASSUME NEW d \in Writes, more = d \o <<End>>
      PROVE  more \in Seq(Units)
  <2>1. d \in Seq(Units)
    BY DataIs, UnpackedBytes
  <2>2. <<End>> \in Seq(Units)
    BY UnpackedEnd
  <2> QED BY <1>2, <2>1, <2>2, ConcatProperties
<1> QED BY <1>1, <1>2

(* Opened, a file has the bytes that were packed, those of another file behind them, or *)
(* not the last ones of a writer that died.                                              *)
LEMMA OpenOK ==
  ASSUME IInv, NEW more \in {<< >>} \cup {d \o <<End>> : d \in Writes}, Open(more)
  PROVE  /\ IInv'
         /\ IsPrefix(Content, Content') \/ IsPrefix(Content', Content)
<1>1. /\ stored \in Seq(Units) /\ packer.pending \in Seq(Bytes)
      /\ more \in Seq(Units) /\ strict \in BOOLEAN
  BY MoreIs DEF IInv, Typed, FileOK, Packers
<1>2. /\ more = << >> \/ mode = "closed"
      /\ stored' = stored \o more /\ mode' = "r"
      /\ packer' = FreshPacker /\ reader' = FreshReader
      /\ result' = << >> /\ raised' = FALSE /\ strict' = strict
  BY DEF Open
<1>3. stored' \in Seq(Units) /\ IsPrefix(Unpacked(stored), Unpacked(stored'))
  BY <1>1, <1>2, PackedMore
<1>4. Typed'
  BY <1>1, <1>2, <1>3, FreshIs, EmptySeq DEF Typed, FileOK, Modes
<1>5. WriterOK'
  BY <1>2, FreshIs DEF WriterOK
<1>6. ReaderOK'
  <2>1. Sound(reader)' /\ Shaped(reader)'
    BY <1>2, <1>4, FreshIsSoundNext DEF Typed
  <2> QED BY <1>2, <2>1, FreshIs DEF ReaderOK
<1>7. Content' = Unpacked(stored')
  <2>1. Unpacked(stored') \in Seq(Bytes)
    BY <1>3, UnpackedType
  <2>2. packer'.pending = << >>
    BY <1>2, FreshIs
  <2> QED BY <2>1, <2>2, ConcatEmptySeq DEF Content
<1>8. CASE mode = "closed"
  <2>1. packer.pending = << >>
    BY <1>8 DEF IInv, WriterOK
  <2>2. Unpacked(stored) \in Seq(Bytes)
    BY <1>1, UnpackedType
  <2>3. Content = Unpacked(stored)
    BY <2>1, <2>2, ConcatEmptySeq DEF Content
  <2> QED BY <1>3, <1>4, <1>5, <1>6, <1>7, <2>3 DEF IInv
<1>9. CASE more = << >>
  <2>1. stored' = stored
    BY <1>1, <1>2, <1>9, ConcatEmptySeq
  <2>2. IsPrefix(Content', Content)
    BY <1>1, <1>7, <2>1, PackedIsPrefix DEF Content
  <2> QED BY <1>4, <1>5, <1>6, <2>2 DEF IInv
<1> QED BY <1>2, <1>8, <1>9

\* The file of a reader is its content.
LEMMA FileRead ==
  ASSUME IInv, mode # "w"
  PROVE  Content = File
<1>1. stored \in Seq(Units) /\ packer.pending = << >>
  BY DEF IInv, Typed, WriterOK, FileOK
<1>2. Unpacked(stored) \in Seq(Bytes)
  BY <1>1, UnpackedType
<1> QED BY <1>1, <1>2, ConcatEmptySeq DEF Content, File

(* A call leaves the file alone, and with a sound reader the invariant. *)
LEMMA CallOK ==
  ASSUME IInv, NEW name, Calls(name), NEW STATE e, Sound(e),
         reader' = e, raised' = e.raised, result' \in Seq(Bytes)
  PROVE  IInv' /\ Content' = Content
<1>1. mode = "r" /\ ~ raised /\ UNCHANGED <<stored, mode, strict, packer>>
  BY DEF Calls
<1>2. Sound(reader)'
  BY <1>1 DEF Sound, Shaped, Placed, Ahead, Left, Cut, Rest, File, Brittle, Unread, Part
<1>3. e \in Readers
  BY DEF Sound, Shaped
<1>4. Typed'
  <2>1. reader' \in Readers /\ raised' \in BOOLEAN
    BY <1>3 DEF Readers
  <2> QED BY <1>1, <2>1 DEF IInv, Typed, FileOK
<1>5. WriterOK'
  BY <1>1 DEF IInv, WriterOK
<1>6. ReaderOK'
  BY <1>1, <1>2 DEF ReaderOK, Sound
<1>7. Content' = Content
  BY <1>1 DEF Content
<1> QED BY <1>4, <1>5, <1>6, <1>7 DEF IInv

(* A call that reads returns bytes, and leaves the invariant. *)
LEMMA ReturnOK ==
  ASSUME IInv, NEW name, Calls(name), NEW STATE c, Returns(c),
         Sound(c.reader), c.data \in Seq(Bytes)
  PROVE  /\ IInv' /\ Content' = Content
         /\ call' = name /\ raised' = c.reader.raised
         /\ raised' => result' = result
         /\ ~ raised' => result' = c.data /\ reader'.position = c.reader.position
<1>1. /\ reader' = c.reader /\ raised' = c.reader.raised
      /\ result' = (IF raised' THEN result ELSE c.data) /\ call' = name
  BY DEF Returns, Calls
<1>2. result \in Seq(Bytes)
  BY DEF IInv, Typed
<1>3. result' \in Seq(Bytes)
  BY <1>1, <1>2
<1> DEFINE e == c.reader
<1>4. reader' = e /\ raised' = e.raised /\ Sound(e)
  BY <1>1
<1> HIDE DEF e
<1>5. IInv' /\ Content' = Content
  BY <1>3, <1>4, CallOK
<1> QED BY <1>1, <1>5

LEMMA ReaderSound ==
  ASSUME IInv, NEW name, Calls(name)
  PROVE  /\ FileOK /\ Sound(reader) /\ ~ reader.raised /\ raised = FALSE
         /\ mode = "r" /\ Content = File
         /\ reader.position \in Nat /\ reader.position <= Len(File)
<1>1. mode = "r" /\ ~ raised
  BY DEF Calls
<1>2. FileOK /\ raised \in BOOLEAN /\ raised = reader.raised /\ Sound(reader)
  BY <1>1 DEF IInv, Typed, ReaderOK
<1> QED BY <1>1, <1>2, FileRead DEF Sound, Shaped, Placed, Readers

LEMMA ReadOK ==
  ASSUME IInv, NEW n \in Reads, Read(n)
  PROVE  /\ IInv' /\ Content' = Content /\ raised = FALSE
         /\ call' = <<"read", n>>
         /\ raised' => result' = result
         /\ ~ raised' =>
              /\ result' = Taken(reader.position, n)
              /\ reader'.position = reader.position + Len(result')
<1> DEFINE c == read(reader, n)
           name == <<"read", n>>
<1>1. Calls(name) /\ Returns(c) /\ n \in Nat
  BY DataIs DEF Read
<1> HIDE DEF name
<1>2. FileOK /\ Sound(reader) /\ raised = FALSE
  BY <1>1, ReaderSound
<1>3. Gives(reader, c) /\ (~ c.reader.raised => c.data = Taken(reader.position, n))
  BY <1>1, <1>2, ReadGives
<1>4. c \in Outcomes
  <2>1. n \in Int
    BY <1>1
  <2> QED BY <1>2, <1>3, <2>1, ReadIs
<1> HIDE DEF c
<1>5. Sound(c.reader) /\ c.data \in Seq(Bytes)
      /\ (~ c.reader.raised => c.reader.position = reader.position + Len(c.data))
  BY <1>3, <1>4 DEF Gives, Outcomes
<1>6. /\ IInv' /\ Content' = Content
      /\ call' = name /\ raised' = c.reader.raised
      /\ raised' => result' = result
      /\ ~ raised' => result' = c.data /\ reader'.position = c.reader.position
  BY <1>1, <1>5, ReturnOK
<1> QED BY <1>2, <1>3, <1>5, <1>6 DEF name

LEMMA ReadlineOK ==
  ASSUME IInv, Readline
  PROVE  /\ IInv' /\ Content' = Content /\ raised = FALSE
         /\ call' = <<"readline">>
         /\ raised' => result' = result
         /\ ~ raised' =>
              /\ result' = Line(Rest(reader.position))
              /\ reader'.position = reader.position + Len(result')
<1> DEFINE c == readline(reader)
           name == <<"readline">>
<1>1. Calls(name) /\ Returns(c)
  BY DEF Readline
<1> HIDE DEF name
<1>2. FileOK /\ Sound(reader) /\ raised = FALSE /\ ~ reader.raised
  BY <1>1, ReaderSound
<1>3. GivesLine(reader, c)
  BY <1>2, ReadlineGives
<1> HIDE DEF c
<1>4. Sound(c.reader) /\ c.data \in Seq(Bytes)
      /\ (~ c.reader.raised => /\ c.data = Line(Rest(reader.position))
                               /\ c.reader.position = reader.position + Len(c.data))
  BY <1>3 DEF GivesLine
<1>5. /\ IInv' /\ Content' = Content
      /\ call' = name /\ raised' = c.reader.raised
      /\ raised' => result' = result
      /\ ~ raised' => result' = c.data /\ reader'.position = c.reader.position
  BY <1>1, <1>4, ReturnOK
<1> QED BY <1>2, <1>4, <1>5 DEF name

LEMMA SeekOK ==
  ASSUME IInv, NEW offset \in Offsets, NEW whence \in Whences, Seek(offset, whence)
  PROVE  /\ IInv' /\ Content' = Content /\ raised = FALSE
         /\ call' = <<"seek", offset, whence>> /\ result' = result
         /\ ~ raised' =>
              reader'.position = Nearest(From(reader.position, whence) + offset)
<1> DEFINE e == seek(reader, offset, whence)
           name == <<"seek", offset, whence>>
<1>1. /\ Calls(name) /\ reader' = e /\ raised' = reader'.raised /\ result' = result
      /\ offset \in Int
  BY DataIs DEF Seek
<1>2. call' = name
  BY <1>1 DEF Calls
<1> HIDE DEF name
<1>3. FileOK /\ Sound(reader) /\ raised = FALSE /\ ~ reader.raised
  BY <1>1, ReaderSound
<1>4. Sound(e) /\ (~ e.raised => e.position = Nearest(From(reader.position, whence) + offset))
  BY <1>1, <1>3, SeekSound
<1> HIDE DEF e
<1>5. IInv' /\ Content' = Content
  <2>1. result' \in Seq(Bytes)
    BY <1>1 DEF IInv, Typed
  <2>2. raised' = e.raised
    BY <1>1
  <2> QED BY <1>1, <1>4, <2>1, <2>2, CallOK
<1> QED BY <1>1, <1>2, <1>3, <1>4, <1>5 DEF name

-----------------------------------------------------------------------------
(* The theorems *)

(* Every step leaves the invariant. *)
LEMMA NextOK ==
  IInv /\ [Next]_vars => IInv'
<1> SUFFICES ASSUME IInv, [Next]_vars
             PROVE  IInv'
  OBVIOUS
<1>1. CASE UNCHANGED vars
  <2>1. UNCHANGED <<stored, mode, strict, packer, reader, call, result, raised>>
    BY <1>1 DEF vars
  <2>2. Typed' /\ WriterOK'
    BY <2>1 DEF IInv, Typed, WriterOK, FileOK, Idle
  <2>3. Sound(reader) => Sound(reader)'
    BY <2>1 DEF Sound, Shaped, Placed, Ahead, Left, Cut, Rest, File, Brittle, Unread, Part
  <2>4. Shaped(reader) => Shaped(reader)'
    BY <2>1 DEF Shaped, Cut, File, Part
  <2>5. ReaderOK'
    BY <2>1, <2>3, <2>4 DEF IInv, ReaderOK
  <2> QED BY <2>2, <2>5 DEF IInv
<1>2. ASSUME NEW data \in Writes, write(data)
      PROVE  IInv'
  BY <1>2, WriteOK
<1>3. CASE flush
  BY <1>3, FlushOK
<1>4. CASE close
  BY <1>4, CloseOK
<1>5. ASSUME NEW data \in {<< >>} \cup {d \o <<End>> : d \in Writes}, Open(data)
      PROVE  IInv'
  BY <1>5, OpenOK
<1>6. ASSUME NEW n \in Reads, Read(n)
      PROVE  IInv'
  BY <1>6, ReadOK
<1>7. CASE Readline
  BY <1>7, ReadlineOK
<1>8. ASSUME NEW offset \in Offsets, NEW whence \in {"set", "cur", "end"}, Seek(offset, whence)
      PROVE  IInv'
  <2>1. whence \in Whences
    BY DEF Whences
  <2> QED BY <1>8, <2>1, SeekOK
<1> QED BY <1>1, <1>2, <1>3, <1>4, <1>5, <1>6, <1>7, <1>8 DEF Next

LEMMA AlwaysOK ==
  Spec => []IInv
BY InitOK, NextOK, PTL DEF Spec

(***************************************************************************)
(* The positions of a reader stay in its file and in its buffer, what the  *)
(* decompressor keeps lies behind the end of a stream, and the size that   *)
(* is remembered is that of the content.                                   *)
(***************************************************************************)
THEOREM CompressedFileTypes == Spec => []TypeOK
<1>1. IInv => TypeOK
  <2> SUFFICES ASSUME IInv
               PROVE  TypeOK
    OBVIOUS
  <2>1. /\ stored \in Seq(Units) /\ mode \in Modes /\ packer.pending \in Seq(Bytes)
        /\ reader \in Readers /\ result \in Seq(Bytes) /\ FileOK
    BY DEF IInv, Typed, FileOK, Packers
  <2>2. Shaped(reader)
    <3>1. CASE mode = "w"
      BY <2>1, <3>1, IdleShaped DEF IInv, WriterOK
    <3>2. CASE mode # "w"
      BY <3>2 DEF IInv, ReaderOK
    <3> QED BY <3>1, <3>2
  <2>3. /\ reader.at <= Len(stored) /\ reader.read <= Len(reader.buffer)
        /\ reader.unused # << >> => reader.ended
    BY <2>2 DEF Shaped
  <2>4. reader.at \in Nat /\ reader.read \in Nat /\ Len(stored) \in Nat
        /\ Len(reader.buffer) \in Nat
    <3>1. reader.buffer \in Seq(Bytes)
      BY <2>1 DEF Readers
    <3> QED BY <2>1, <3>1, LenProperties DEF Readers
  <2>5. reader.at \in 0 .. Len(stored) /\ reader.read \in 0 .. Len(reader.buffer)
    BY <2>3, <2>4
  <2>6. reader.size \in {Unknown, Len(Content)}
    <3>1. CASE mode = "w"
      BY <3>1 DEF IInv, WriterOK, Idle
    <3>2. CASE mode # "w"
      BY <2>2, <3>2, FileRead DEF Shaped
    <3> QED BY <3>1, <3>2
  <2> QED BY <2>1, <2>3, <2>5, <2>6 DEF TypeOK, Modes, Units
<1> QED BY <1>1, AlwaysOK, PTL

(***************************************************************************)
(* Behind the position of a reader lies what its buffer, its decompressor  *)
(* and the rest of the file still hold; it raised only if the format is    *)
(* strict, at the end of a stream that a fetch ended with.                 *)
(***************************************************************************)
THEOREM CompressedFileLosesNothing == Spec => []NothingLost
<1>1. IInv => NothingLost
  <2> SUFFICES ASSUME IInv, mode = "r"
               PROVE  LET rest == SubSeq(stored, reader.at + 1, Len(stored))
                      IN  /\ ~ raised =>
                               Content = SubSeq(Content, 1, reader.position)
                                 \o Unread(reader) \o Unpacked(reader.unused \o rest)
                          /\ raised => Brittle
    BY DEF NothingLost
  <2> DEFINE rest == SubSeq(stored, reader.at + 1, Len(stored))
             l == Len(stored)
             m == Len(File)
             a == reader.at
             c == Cut(reader)
             p == reader.position
             u == Unread(reader)
             x == Unpacked(reader.unused \o rest)
  <2>1. FileOK /\ Sound(reader) /\ raised = reader.raised /\ raised \in BOOLEAN
    BY DEF IInv, Typed, ReaderOK
  <2>2. Content = File
    BY FileRead
  <2>3. Shaped(reader) /\ reader \in Readers
    BY <2>1 DEF Sound, Shaped
  <2>4. CASE ~ raised
    <3>1. Placed(reader)
      BY <2>1, <2>4 DEF Sound
    <3>2. stored \in Seq(Units) /\ l \in Nat /\ l <= Len(stored) /\ a \in Nat /\ a <= l
      BY <2>1, <2>3, FileIs DEF FileOK, Shaped, Readers
    <3>3. c \in Nat /\ c <= a
      <4> DEFINE k == Len(reader.unused)
      <4>1. k \in Nat /\ k <= a /\ c = a - k
        <5>1. reader.unused \in Seq(Units)
          BY <2>3 DEF Readers
        <5> QED BY <2>3, <5>1, LenProperties DEF Shaped, Cut
      <4> HIDE DEF k, a, c
      <4> QED BY <3>2, <4>1
    <3>4. reader.unused = Part(stored, c, a) /\ rest = Part(stored, a, l)
      BY <2>3 DEF Shaped, Part
    <3>5. reader.unused \o rest = Left(reader)
      <4>1. Left(reader) = Part(stored, c, l)
        BY DEF Left
      <4> HIDE DEF a, c, l, rest
      <4>2. Part(stored, c, a) \o Part(stored, a, l) = Part(stored, c, l)
        BY <3>2, <3>3, PartsJoin
      <4> QED BY <3>4, <4>1, <4>2
    <3>6. u \o x = Rest(p) /\ p <= m /\ p \in Nat
      BY <2>3, <3>1, <3>5 DEF Placed, Ahead, Readers
    <3>7. u \in Seq(Bytes)
      BY <2>3, UnreadIs DEF Shaped
    <3>8. x \in Seq(Bytes)
      <4> HIDE DEF a, c, l, rest
      <4>1. IsPart(Units, Part(stored, c, l), stored, c, l)
        <5>1. c <= l
          BY <3>2, <3>3
        <5> QED BY <3>2, <3>3, <5>1, PartIs
      <4>2. Left(reader) = Part(stored, c, l)
        BY DEF Left, c, l
      <4>3. Left(reader) \in Seq(Units)
        BY <4>1, <4>2 DEF IsPart
      <4> QED BY <3>5, <4>3, UnpackedType
    <3> HIDE DEF u, x, p
    <3>9. File \in Seq(Bytes) /\ m \in Nat /\ m <= Len(File)
      BY <2>1, FileIs
    <3>10. Rest(p) = Part(File, p, m)
      BY DEF Rest
    <3> HIDE DEF m
    <3>11. Part(File, 0, p) \o Part(File, p, m) = Part(File, 0, m)
      <4>1. 0 \in Nat /\ 0 <= p
        BY <3>6
      <4> QED BY <3>6, <3>9, <4>1, PartsJoin
    <3>12. Part(File, 0, m) = File
      BY <3>9, PartAll DEF m
    <3> DEFINE s == Part(File, 0, p)
    <3>13. s \in Seq(Bytes)
      <4>1. 0 \in Nat /\ 0 <= p /\ p <= Len(File)
        BY <3>6 DEF m
      <4>2. IsPart(Bytes, Part(File, 0, p), File, 0, p)
        BY <3>6, <3>9, <4>1, PartIs
      <4> QED BY <4>2 DEF IsPart
    <3>14. s = SubSeq(File, 1, p)
      <4>1. 0 + 1 = 1
        OBVIOUS
      <4> QED BY <4>1 DEF Part
    <3> HIDE DEF s
    <3>15. (s \o u) \o x = s \o (u \o x)
      BY <3>7, <3>8, <3>13, BytesAssociative
    <3>16. File = SubSeq(File, 1, p) \o u \o x
      BY <3>6, <3>10, <3>11, <3>12, <3>14, <3>15 DEF s
    <3> QED BY <2>2, <2>4, <3>16 DEF p, u, x
  <2>5. CASE raised
    BY <2>1, <2>5 DEF Sound
  <2> QED BY <2>1, <2>4, <2>5
<1> QED BY <1>1, AlwaysOK, PTL

\* What the two modules mean by a minimum and a maximum is the same.
LEMMA SameMinMax ==
  ASSUME NEW T
  PROVE  PF!Min(T) = Min(T) /\ PF!Max(T) = Max(T)
BY Zenon DEF PF!Min, PF!Max, Min, Max

(* A call on a reader keeps the file, and raises only of a brittle one. *)
LEMMA CallKeeps ==
  ASSUME IInv, IInv', NEW name, Calls(name)
  PROVE  /\ mode = "r" /\ UNCHANGED <<mode, packer.flushed, (mode = "r" /\ Brittle)>>
         /\ raised' => Brittle
<1>1. mode = "r" /\ UNCHANGED <<stored, mode, strict, packer>>
  BY DEF Calls
<1>2. Brittle' = Brittle
  BY <1>1 DEF Brittle
<1>3. raised' => Brittle'
  BY <1>1 DEF IInv, ReaderOK, Sound
<1> QED BY <1>1, <1>2, <1>3

(* Every step is one of a plain file, or none. *)
LEMMA StepsOfPlainFile ==
  IInv /\ [Next]_vars => [PF!Next]_(PF!vars)
<1> SUFFICES ASSUME IInv, [Next]_vars
             PROVE  PF!Next \/ UNCHANGED <<Content, reader.position, mode, packer.flushed,
                                           (mode = "r" /\ Brittle), call, result, raised>>
  BY DEF PF!vars
<1>0. raised \in BOOLEAN /\ raised' \in BOOLEAN /\ IInv'
  <2>1. IInv'
    BY NextOK
  <2> QED BY <2>1 DEF IInv, Typed
<1>1. CASE UNCHANGED vars
  BY <1>1 DEF vars, Content, Brittle
<1>2. ASSUME NEW data \in Writes, write(data)
      PROVE  PF!Next
  <2>1. /\ ~ raised /\ mode = "w" /\ mode' = "w"
        /\ call' = <<"write", data>> /\ result' = result
    BY <1>2 DEF write
  <2>2. reader'.position = reader.position + Len(data)
    <3>1. reader' = [reader EXCEPT !.position = @ + Len(data)] /\ reader \in Readers
      BY <1>2 DEF write, IInv, Typed
    <3> QED BY <3>1 DEF Readers
  <2>3. /\ raised' = TRUE \/ raised' = raised
        /\ raised' # raised => Content' = Content
        /\ raised' = raised => Content' = Content \o data
    BY <1>2, WriteOK
  <2>4. CASE packer.flushed
    <3>1. raised' = TRUE /\ UNCHANGED packer
      BY <1>2, <2>4 DEF write
    <3>2. PF!Refuse
      BY <2>1, <2>3, <2>4, <3>1 DEF PF!Refuse
    <3> QED BY <2>1, <3>2 DEF PF!Next
  <2>5. CASE ~ packer.flushed
    <3>1. raised' = raised /\ packer'.flushed = packer.flushed
      BY <1>2, <2>5 DEF write, IInv, Typed, Packers
    <3>2. PF!Write(data)
      BY <2>1, <2>2, <2>3, <2>5, <3>1 DEF PF!Write
    <3> QED BY <2>1, <3>2 DEF PF!Next
  <2> QED BY <2>4, <2>5
<1>3. CASE flush
  <2>1. /\ ~ raised /\ mode = "w" /\ mode' = "w" /\ Flushed
        /\ UNCHANGED <<reader, call, result>> /\ Content' = Content
    BY <1>3, FlushOK DEF flush
  <2>2. CASE packer.flushed
    <3>1. raised' = TRUE /\ UNCHANGED packer
      BY <2>1, <2>2 DEF Flushed
    <3>2. PF!Refuse
      BY <2>1, <2>2, <3>1 DEF PF!Refuse
    <3> QED BY <2>1, <3>2 DEF PF!Next
  <2>3. CASE ~ packer.flushed
    <3>1. packer'.flushed = TRUE /\ UNCHANGED raised
      BY <2>1, <2>3 DEF Flushed
    <3>2. PF!Flush
      BY <2>1, <2>3, <3>1 DEF PF!Flush
    <3> QED BY <2>1, <3>2 DEF PF!Next
  <2> QED BY <2>2, <2>3
<1>4. CASE close
  <2>1. /\ ~ raised /\ mode \in {"w", "r"} /\ UNCHANGED <<reader, call, result>>
        /\ mode = "w" => Flushed
        /\ mode # "w" => UNCHANGED <<stored, packer, raised>>
        /\ mode' = (IF raised' THEN mode ELSE "closed") /\ Content' = Content
    BY <1>4, CloseOK DEF close, IInv, Typed, Modes
  <2>2. CASE mode = "w" /\ packer.flushed
    <3>1. raised' = TRUE /\ UNCHANGED packer
      BY <2>1, <2>2 DEF Flushed
    <3>2. mode' = "w"
      BY <2>1, <2>2, <3>1
    <3>3. PF!Refuse
      BY <2>1, <2>2, <3>1, <3>2 DEF PF!Refuse
    <3> QED BY <2>1, <3>3 DEF PF!Next
  <2>3. CASE mode = "w" /\ ~ packer.flushed
    <3>1. packer'.flushed = TRUE /\ raised' = raised
      BY <2>1, <2>3 DEF Flushed
    <3>2. mode' = "closed"
      BY <1>0, <2>1, <3>1
    <3>3. PF!Close
      BY <2>1, <2>3, <3>1, <3>2 DEF PF!Close
    <3> QED BY <2>1, <3>3 DEF PF!Next
  <2>4. CASE mode = "r"
    <3>1. UNCHANGED <<packer, raised>> /\ mode' = "closed"
      BY <1>0, <2>1, <2>4
    <3>2. PF!Close
      BY <2>1, <2>4, <3>1 DEF PF!Close
    <3> QED BY <2>1, <3>2 DEF PF!Next
  <2> QED BY <2>1, <2>2, <2>3, <2>4
<1>5. ASSUME NEW more \in {<< >>} \cup {d \o <<End>> : d \in Writes}, Open(more)
      PROVE  PF!Next
  <2>1. IsPrefix(Content, Content') \/ IsPrefix(Content', Content)
    BY <1>5, OpenOK
  <2>2. /\ call' = <<"open">> /\ result' = << >> /\ raised' = FALSE /\ reader'.position = 0
        /\ mode' = "r" /\ packer'.flushed = FALSE
    BY <1>5, FreshIs DEF Open, FreshPacker
  <2>3. PF!IsPrefix(Content, Content') \/ PF!IsPrefix(Content', Content)
    BY <2>1 DEF IsPrefix, PF!IsPrefix
  <2>4. (mode' = "r" /\ Brittle') \in BOOLEAN
    OBVIOUS
  <2>5. PF!Open
    BY <2>2, <2>3, <2>4 DEF PF!Open
  <2> QED BY <2>5 DEF PF!Next
<1>6. ASSUME NEW n \in Reads, Read(n)
      PROVE  PF!Next
  <2>0. /\ mode = "r" /\ UNCHANGED <<mode, packer.flushed, (mode = "r" /\ Brittle)>>
        /\ raised' => Brittle
    <3>1. Calls(<<"read", n>>)
      BY <1>6 DEF Read
    <3> QED BY <1>0, <3>1, CallKeeps
  <2>1. /\ Content' = Content /\ raised = FALSE
        /\ call' = <<"read", n>>
        /\ raised' => result' = result
        /\ ~ raised' =>
             /\ result' = Taken(reader.position, n)
             /\ reader'.position = reader.position + Len(result')
    BY <1>6, ReadOK
  <2>2. PF!Rest = Rest(reader.position)
    BY <1>6, ReaderSound DEF Read, PF!Rest, Rest, Part
  <2>3. CASE raised'
    <3>1. PF!Break
      BY <2>0, <1>0, <2>1, <2>3 DEF PF!Break
    <3> QED BY <2>1, <3>1 DEF PF!Next
  <2>4. CASE ~ raised'
    <3>1. raised' = raised
      BY <1>0, <2>1, <2>4
    <3>2. PF!Return(Taken(reader.position, n))
      BY <2>0, <2>1, <2>4, <3>1 DEF PF!Return
    <3>3. PF!Read(n)
      BY <2>1, <2>2, <3>2, SameMinMax DEF PF!Read, Taken
    <3> QED BY <2>1, <3>3 DEF PF!Next
  <2> QED BY <2>3, <2>4
<1>7. ASSUME Readline
      PROVE  PF!Next
  <2>0. /\ mode = "r" /\ UNCHANGED <<mode, packer.flushed, (mode = "r" /\ Brittle)>>
        /\ raised' => Brittle
    <3>1. Calls(<<"readline">>)
      BY <1>7 DEF Readline
    <3> QED BY <1>0, <3>1, CallKeeps
  <2>1. /\ Content' = Content /\ raised = FALSE
        /\ call' = <<"readline">>
        /\ raised' => result' = result
        /\ ~ raised' =>
             /\ result' = Line(Rest(reader.position))
             /\ reader'.position = reader.position + Len(result')
    BY <1>7, ReadlineOK
  <2>2. PF!Rest = Rest(reader.position)
    BY <1>7, ReaderSound DEF Readline, PF!Rest, Rest, Part
  <2>3. CASE raised'
    <3>1. PF!Break
      BY <2>0, <1>0, <2>1, <2>3 DEF PF!Break
    <3> QED BY <2>1, <3>1 DEF PF!Next
  <2>4. CASE ~ raised'
    <3>1. raised' = raised
      BY <1>0, <2>1, <2>4
    <3>2. PF!Return(Line(Rest(reader.position)))
      BY <2>0, <2>1, <2>4, <3>1 DEF PF!Return
    <3>3. PF!NextLine = Line(Rest(reader.position))
      BY <2>2, SameMinMax DEF PF!NextLine, Line
    <3>4. PF!Readline
      BY <2>1, <3>2, <3>3 DEF PF!Readline
    <3> QED BY <2>1, <3>4 DEF PF!Next
  <2> QED BY <2>3, <2>4
<1>8. ASSUME NEW offset \in Offsets, NEW whence \in {"set", "cur", "end"}, Seek(offset, whence)
      PROVE  PF!Next
  <2>0. /\ mode = "r" /\ UNCHANGED <<mode, packer.flushed, (mode = "r" /\ Brittle)>>
        /\ raised' => Brittle
    <3>1. Calls(<<"seek", offset, whence>>)
      BY <1>8 DEF Seek
    <3> QED BY <1>0, <3>1, CallKeeps
  <2>1. whence \in Whences
    BY DEF Whences
  <2>2. /\ Content' = Content /\ raised = FALSE
        /\ call' = <<"seek", offset, whence>> /\ result' = result
        /\ ~ raised' =>
             reader'.position = Nearest(From(reader.position, whence) + offset)
    BY <1>8, <2>1, SeekOK
  <2>3. CASE raised'
    <3>1. PF!Break
      BY <2>0, <1>0, <2>2, <2>3 DEF PF!Break
    <3> QED BY <2>2, <3>1 DEF PF!Next
  <2>4. CASE ~ raised'
    <3>1. raised' = raised
      BY <1>0, <2>2, <2>4
    <3>2. Content = File
      BY <1>8, ReaderSound DEF Seek
    <3>3. PF!Origin(whence) = From(reader.position, whence)
      BY <3>2 DEF PF!Origin, From
    <3>4. reader'.position =
            Max({0, Min({PF!Origin(whence) + offset, Len(Content)})})
      BY <2>2, <2>4, <3>2, <3>3 DEF Nearest
    <3>5. PF!Seek(offset, whence)
      BY <2>0, <2>2, <3>1, <3>4, SameMinMax DEF PF!Seek
    <3> QED BY <2>2, <3>5 DEF PF!Next
  <2> QED BY <2>3, <2>4
<1> QED BY <1>1, <1>2, <1>3, <1>4, <1>5, <1>6, <1>7, <1>8 DEF Next

(***************************************************************************)
(* A compressed file is a plain file of its bytes: whatever is written,    *)
(* read, sought and closed, and however often it is opened again, each     *)
(* call returns and leaves what it would there, but those of a writer      *)
(* after a flush, which raise, and those of a reader of a strict format    *)
(* with a stream that ends where a fetch does, which may.                  *)
(***************************************************************************)
THEOREM CompressedFileIsPlain == Spec => ImplementsPlainFile
<1>1. Init => PF!Init
  <2> SUFFICES ASSUME Init
               PROVE  PF!Init
    OBVIOUS
  <2>1. /\ stored = << >> /\ packer = FreshPacker /\ reader = FreshReader /\ call = <<"open">>
        /\ result = << >> /\ raised = FALSE /\ mode = "w"
    BY DEF Init
  <2>2. Content = << >>
    <3>1. Content = Unpacked(<< >>) \o << >>
      BY <2>1, FreshIs DEF Content
    <3>2. << >> \in Seq(Bytes) /\ Unpacked(<< >>) = << >>
      BY EmptySeq, UnpackedNone
    <3> QED BY <3>1, <3>2, ConcatEmptySeq
  <2>3. reader.position = 0 /\ packer.flushed = FALSE
    BY <2>1, FreshIs DEF FreshPacker
  <2> QED BY <2>1, <2>2, <2>3 DEF PF!Init
<1>2. Spec => PF!Spec
  BY <1>1, AlwaysOK, StepsOfPlainFile, PTL DEF Spec, PF!Spec
<1> QED BY <1>2 DEF ImplementsPlainFile
=============================================================================
