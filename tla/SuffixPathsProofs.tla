------------------------- MODULE SuffixPathsProofs --------------------------
(***************************************************************************)
(* What the proofs about suffix trees share, in whatever language the trees *)
(* are written: numbers, sums over finite sets, paths and their suffixes,  *)
(* trees as sets of paths, and samplers.                                   *)
(***************************************************************************)
EXTENDS SuffixPaths, Integers, FiniteSetTheorems, SequenceTheorems,
        NaturalsInduction, WellFoundedInduction, TLAPS

-----------------------------------------------------------------------------
(* The least and the greatest of some numbers *)

(* A set of natural numbers that is not empty has a least one. *)
LEMMA Least ==
  ASSUME NEW T, T \subseteq Nat, T # {}
  PROVE  \E x \in T : \A y \in T : x <= y
<1> DEFINE R == OpToRel(<, Nat)
<1>1. IsWellFoundedOn(R, Nat)
  BY NatLessThanWellFounded, Zenon
<1>2. ASSUME NEW x \in Nat, NEW y \in Nat, x < y
      PROVE  <<x, y>> \in R
  BY <1>2 DEF OpToRel
<1> HIDE DEF R
<1>3. PICK x \in T : \A y \in T : ~(<<y, x>> \in R)
  BY <1>1, WFMin, Zenon
<1>4. ASSUME NEW y \in T
      PROVE  x <= y
  <2>1. ~(<<y, x>> \in R)
    BY <1>3, Zenon
  <2>2. ~(y < x)
    BY <1>2, <2>1
  <2> QED BY <2>2
<1> QED BY <1>4

(* Max is the greatest number of a set that has a bound. *)
LEMMA Greatest ==
  ASSUME NEW S, S \subseteq Nat, S # {}, NEW b \in Nat, \A x \in S : x <= b
  PROVE  Max(S) \in S /\ \A x \in S : x <= Max(S)
<1> DEFINE T == {b - x : x \in S}
<1>1. T \subseteq Nat /\ T # {}
  <2>1. \A x \in S : b - x \in Nat
    OBVIOUS
  <2>2. \A y \in T : y \in Nat
    BY <2>1
  <2>3. \A x \in S : b - x \in T
    OBVIOUS
  <2> QED BY <2>2, <2>3
<1>2. PICK l \in T : \A y \in T : l <= y
  <2> HIDE DEF T
  <2> QED BY <1>1, Least
<1>3. PICK m \in S : l = b - m
  OBVIOUS
<1>4. ASSUME NEW x \in S
      PROVE  m >= x
  <2>1. b - m <= b - x
    BY <1>2, <1>3
  <2> QED BY <2>1
<1>5. \E z \in S : \A y \in S : z >= y
  BY <1>4
<1>6. Max(S) \in S /\ \A y \in S : Max(S) >= y
  BY <1>5, Zenon DEF Max
<1> QED BY <1>6

(* The largest of a set of numbers. *)
LEMMA LargestIs ==
  ASSUME NEW S, S \subseteq Int, NEW x \in S, \A y \in S : y <= x
  PROVE  Max(S) = x
<1>1. \A y \in S : x >= y
  OBVIOUS
<1>2. \A z \in S : (\A y \in S : z >= y) => z = x
  OBVIOUS
<1> QED BY <1>1, <1>2 DEF Max

-----------------------------------------------------------------------------
(* Sums over finite sets *)

\* In the pile of f each x of S lies f[x] times.
Pile(S, f) == UNION {{x} \X (1 .. f[x]) : x \in S}

(* A pair is in the pile of f if its second part does not exceed f at the first. *)
LEMMA PileMember ==
  \A S, f, p : p \in Pile(S, f) <=> \E x \in S : \E i \in 1 .. f[x] : p = <<x, i>>
BY DEF Pile

(* A sum is the size of a pile. *)
LEMMA SumIsPile == \A S, f : SumOver(S, f) = Cardinality(Pile(S, f))
BY DEF SumOver, Pile

(* There is a bijection between two sets if some function is one. *)
LEMMA BijectionExists ==
  ASSUME NEW S, NEW T, NEW b \in [S -> T],
         \A x, y \in S : b[x] = b[y] => x = y,
         \A z \in T : \E x \in S : b[x] = z
  PROVE  ExistsBijection(S, T)
<1>1. b \in Injection(S, T)
  BY DEF Injection, IsInjective
<1>2. b \in Surjection(S, T)
  BY DEF Surjection
<1> QED BY <1>1, <1>2 DEF ExistsBijection, Bijection

(* A layer of n is as large as n. *)
LEMMA LayerSize ==
  ASSUME NEW x, NEW n \in Nat
  PROVE  IsFiniteSet({x} \X (1 .. n)) /\ Cardinality({x} \X (1 .. n)) = n
<1>1. IsFiniteSet(1 .. n) /\ Cardinality(1 .. n) = n
  <2>1. 1 \in Int /\ n \in Int /\ (1 > n => n = 0) /\ n - 1 + 1 = n
    OBVIOUS
  <2> QED BY <2>1, FS_Interval
<1>2. IsFiniteSet({x}) /\ Cardinality({x}) = 1
  BY FS_Singleton
<1>3. /\ IsFiniteSet({x} \X (1 .. n))
      /\ Cardinality({x} \X (1 .. n)) = Cardinality({x}) * Cardinality(1 .. n)
  BY <1>1, <1>2, FS_Product
<1> QED BY <1>1, <1>2, <1>3

(* Two disjoint sets together are as large as one and the other. *)
LEMMA DisjointSize ==
  ASSUME NEW S, IsFiniteSet(S), NEW T, IsFiniteSet(T), S \cap T = {}
  PROVE  /\ IsFiniteSet(S \cup T)
         /\ Cardinality(S \cup T) = Cardinality(S) + Cardinality(T)
<1>1. Cardinality(S) \in Nat /\ Cardinality(T) \in Nat
  BY FS_CardinalityType
<1>2. /\ IsFiniteSet(S \cup T)
      /\ Cardinality(S \cup T) = Cardinality(S) + Cardinality(T) - Cardinality(S \cap T)
  BY FS_Union
<1>3. Cardinality(S \cap T) = 0
  BY FS_EmptySet
<1> QED BY <1>1, <1>2, <1>3

(* The sum over a finite set is a number. *)
LEMMA SumType ==
  ASSUME NEW S, IsFiniteSet(S), NEW f, \A x \in S : f[x] \in Nat
  PROVE  IsFiniteSet(Pile(S, f)) /\ SumOver(S, f) \in Nat
<1> DEFINE layer == [x \in S |-> {x} \X (1 .. f[x])]
           layers == {{x} \X (1 .. f[x]) : x \in S}
<1>1. layer \in Surjection(S, layers)
  BY DEF Surjection
<1>2. IsFiniteSet(layers)
  BY <1>1, FS_Surjection
<1>3. ASSUME NEW x \in S
      PROVE  IsFiniteSet({x} \X (1 .. f[x]))
  BY LayerSize
<1>4. IsFiniteSet(Pile(S, f))
  BY <1>2, <1>3, FS_UNION DEF Pile
<1> QED BY <1>4, FS_CardinalityType, SumIsPile

(* It depends on the values in the set only. *)
LEMMA SumSame ==
  ASSUME NEW S, NEW f, NEW g, \A x \in S : f[x] = g[x]
  PROVE  SumOver(S, f) = SumOver(S, g)
BY DEF SumOver

(* The sum over nothing. *)
LEMMA SumEmpty == \A f : SumOver({}, f) = 0
BY FS_EmptySet DEF SumOver

(* It is the sum over two disjoint parts. *)
LEMMA SumUnion ==
  ASSUME NEW S, IsFiniteSet(S), NEW T, IsFiniteSet(T), S \cap T = {},
         NEW f, \A x \in S \cup T : f[x] \in Nat
  PROVE  SumOver(S \cup T, f) = SumOver(S, f) + SumOver(T, f)
<1>1. IsFiniteSet(Pile(S, f)) /\ IsFiniteSet(Pile(T, f))
  BY SumType
<1>2. Pile(S \cup T, f) = Pile(S, f) \cup Pile(T, f)
  BY DEF Pile
<1>3. Pile(S, f) \cap Pile(T, f) = {}
  BY DEF Pile
<1> QED BY <1>1, <1>2, <1>3, DisjointSize, SumIsPile

(* The sum over a set of one. *)
LEMMA SumSingle ==
  ASSUME NEW x, NEW f, f[x] \in Nat
  PROVE  SumOver({x}, f) = f[x]
<1>1. UNION {{y} \X (1 .. f[y]) : y \in {x}} = {x} \X (1 .. f[x])
  OBVIOUS
<1> QED BY <1>1, LayerSize DEF SumOver

(* A renaming of the summands changes nothing. *)
LEMMA SumRenamed ==
  ASSUME NEW S, IsFiniteSet(S), NEW T, NEW f, NEW g, NEW b \in [S -> T],
         \A x, y \in S : b[x] = b[y] => x = y,
         \A z \in T : \E x \in S : b[x] = z,
         \A x \in S : f[x] \in Nat /\ g[b[x]] = f[x]
  PROVE  SumOver(T, g) = SumOver(S, f)
<1> DEFINE c == [p \in Pile(S, f) |-> <<b[p[1]], p[2]>>]
<1>1. \A p \in Pile(S, f) : p[1] \in S /\ p[2] \in 1 .. f[p[1]] /\ p = <<p[1], p[2]>>
  BY PileMember
<1>2. c \in [Pile(S, f) -> Pile(T, g)]
  BY <1>1, PileMember
<1>3. \A p, q \in Pile(S, f) : c[p] = c[q] => p = q
  BY <1>1
<1>4. ASSUME NEW r \in Pile(T, g)
      PROVE  \E p \in Pile(S, f) : c[p] = r
  <2>1. PICK z \in T : \E j \in 1 .. g[z] : r = <<z, j>>
    BY PileMember
  <2> PICK i \in 1 .. g[z] : r = <<z, i>>
    BY <2>1
  <2>2. PICK x \in S : b[x] = z
    OBVIOUS
  <2>3. <<x, i>> \in Pile(S, f)
    BY <2>1, <2>2, PileMember
  <2> QED BY <2>1, <2>2, <2>3
<1> HIDE DEF c
<1>5. ExistsBijection(Pile(S, f), Pile(T, g))
  BY <1>2, <1>3, <1>4, BijectionExists
<1> QED BY <1>5, SumType, FS_Bijection, SumIsPile

(* Sums are added summand by summand. *)
LEMMA SumPlus ==
  ASSUME NEW S, IsFiniteSet(S), NEW f, NEW g, NEW h,
         \A x \in S : f[x] \in Nat /\ g[x] \in Nat /\ h[x] = f[x] + g[x]
  PROVE  SumOver(S, h) = SumOver(S, f) + SumOver(S, g)
<1> DEFINE upper == {p \in Pile(S, h) : p[2] > f[p[1]]}
           c == [p \in Pile(S, g) |-> <<p[1], f[p[1]] + p[2]>>]
<1>1. /\ \A p \in Pile(S, g) : p[1] \in S /\ p[2] \in 1 .. g[p[1]] /\ p = <<p[1], p[2]>>
      /\ \A p \in Pile(S, h) : p[1] \in S /\ p[2] \in 1 .. h[p[1]] /\ p = <<p[1], p[2]>>
      /\ \A p \in Pile(S, f) : p[1] \in S /\ p[2] \in 1 .. f[p[1]] /\ p = <<p[1], p[2]>>
  BY PileMember
<1>2. \A x \in S : \A i \in 1 .. f[x] : i \in 1 .. h[x]
  OBVIOUS
<1>3. Pile(S, h) = Pile(S, f) \cup upper
  <2>1. ASSUME NEW p \in Pile(S, f)
        PROVE  p \in Pile(S, h)
    BY <1>1, <1>2, PileMember
  <2>2. ASSUME NEW p \in Pile(S, h), p \notin upper
        PROVE  p \in Pile(S, f)
    <3>1. p[1] \in S /\ p[2] \in 1 .. f[p[1]]
      BY <1>1, <2>2
    <3> QED BY <1>1, <3>1, PileMember
  <2> QED BY <2>1, <2>2
<1>4. Pile(S, f) \cap upper = {}
  BY <1>1
<1>5. ExistsBijection(Pile(S, g), upper)
  <2>1. ASSUME NEW p \in Pile(S, g)
        PROVE  c[p] \in upper
    <3>1. f[p[1]] + p[2] \in 1 .. h[p[1]] /\ f[p[1]] + p[2] > f[p[1]]
      BY <1>1
    <3> QED BY <1>1, <3>1, PileMember
  <2>2. \A p, q \in Pile(S, g) : c[p] = c[q] => p = q
    BY <1>1
  <2>3. ASSUME NEW r \in upper
        PROVE  \E p \in Pile(S, g) : c[p] = r
    <3>1. r[1] \in S /\ r[2] - f[r[1]] \in 1 .. g[r[1]]
      BY <1>1
    <3>2. <<r[1], r[2] - f[r[1]]>> \in Pile(S, g)
      BY <3>1, PileMember
    <3> QED BY <1>1, <3>1, <3>2
  <2> HIDE DEF upper
  <2>4. c \in [Pile(S, g) -> upper]
    BY <2>1
  <2> HIDE DEF c
  <2> QED BY <2>2, <2>3, <2>4, BijectionExists
<1>6. IsFiniteSet(Pile(S, f)) /\ IsFiniteSet(Pile(S, g))
  BY SumType
<1>7. IsFiniteSet(upper) /\ Cardinality(upper) = Cardinality(Pile(S, g))
  BY <1>5, <1>6, FS_Bijection
<1> HIDE DEF upper
<1>8. Cardinality(Pile(S, f) \cup upper) = Cardinality(Pile(S, f)) + Cardinality(upper)
  BY <1>4, <1>6, <1>7, DisjointSize
<1> QED BY <1>3, <1>7, <1>8, SumIsPile

\* The pairs of an x in S and one of E[x].
Pairs(S, E) == UNION {{x} \X E[x] : x \in S}

(* A pair has its first part in S and its second in the set of the first. *)
LEMMA PairsMember ==
  \A S, E, p : p \in Pairs(S, E) <=> \E x \in S : \E y \in E[x] : p = <<x, y>>
BY DEF Pairs

(* A sum of sums is the sum over the pairs. *)
LEMMA SumOfSums ==
  ASSUME NEW S, IsFiniteSet(S), NEW E, \A x \in S : IsFiniteSet(E[x]),
         NEW w, \A x \in S : \A y \in E[x] : w[x][y] \in Nat,
         NEW f, \A x \in S : \A y \in E[x] : f[<<x, y>>] = w[x][y],
         NEW g, \A x \in S : g[x] = SumOver(E[x], w[x])
  PROVE  IsFiniteSet(Pairs(S, E)) /\ SumOver(Pairs(S, E), f) = SumOver(S, g)
<1> DEFINE pairs == Pairs(S, E)
<1>1. \A p : p \in pairs <=> \E x \in S : \E y \in E[x] : p = <<x, y>>
  BY PairsMember
<1> HIDE DEF pairs
<1>2. IsFiniteSet(pairs)
  <2> DEFINE layer == [x \in S |-> {x} \X E[x]]
             layers == {{x} \X E[x] : x \in S}
  <2>1. layer \in Surjection(S, layers)
    BY DEF Surjection
  <2>2. IsFiniteSet(layers)
    BY <2>1, FS_Surjection
  <2>3. \A x \in S : IsFiniteSet({x} \X E[x])
    BY FS_Singleton, FS_Product
  <2>4. \A T \in layers : IsFiniteSet(T)
    BY <2>3
  <2>5. pairs = UNION layers
    <3>1. \A p : p \in UNION layers <=> \E x \in S : p \in {x} \X E[x]
      OBVIOUS
    <3>2. \A x, p : p \in {x} \X E[x] <=> \E y \in E[x] : p = <<x, y>>
      OBVIOUS
    <3> HIDE DEF layers
    <3> QED BY <1>1, <3>1, <3>2
  <2> HIDE DEF layers
  <2> QED BY <2>2, <2>4, <2>5, FS_UNION
<1>3. \A x \in S : /\ IsFiniteSet(Pile(E[x], w[x])) /\ g[x] \in Nat
                   /\ g[x] = Cardinality(Pile(E[x], w[x]))
  <2> SUFFICES ASSUME NEW x \in S
               PROVE  /\ IsFiniteSet(Pile(E[x], w[x])) /\ g[x] \in Nat
                      /\ g[x] = Cardinality(Pile(E[x], w[x]))
    OBVIOUS
  <2>1. IsFiniteSet(E[x]) /\ (\A y \in E[x] : w[x][y] \in Nat) /\ g[x] = SumOver(E[x], w[x])
    OBVIOUS
  <2> QED BY <2>1, SumType, SumIsPile
<1> DEFINE count == [x \in S |-> CHOOSE b \in Bijection(1 .. g[x], Pile(E[x], w[x])) : TRUE]
<1>4. ASSUME NEW x \in S
      PROVE  /\ count[x] \in [1 .. g[x] -> Pile(E[x], w[x])]
             /\ \A i, j \in 1 .. g[x] : count[x][i] = count[x][j] => i = j
             /\ \A p \in Pile(E[x], w[x]) : \E i \in 1 .. g[x] : count[x][i] = p
  <2>1. ExistsBijection(1 .. g[x], Pile(E[x], w[x]))
    BY <1>3, FS_CardinalityType
  <2>2. count[x] \in Bijection(1 .. g[x], Pile(E[x], w[x]))
    BY <2>1 DEF ExistsBijection
  <2> HIDE DEF count
  <2>3. count[x] \in Injection(1 .. g[x], Pile(E[x], w[x]))
    BY <2>2 DEF Bijection
  <2>4. count[x] \in Surjection(1 .. g[x], Pile(E[x], w[x]))
    BY <2>2 DEF Bijection
  <2> QED BY <2>3, <2>4 DEF Injection, IsInjective, Surjection
<1> HIDE DEF count
<1> DEFINE c == [p \in Pile(S, g) |-> <<<<p[1], count[p[1]][p[2]][1]>>, count[p[1]][p[2]][2]>>]
<1>5. \A p \in Pile(S, g) : p[1] \in S /\ p[2] \in 1 .. g[p[1]] /\ p = <<p[1], p[2]>>
  BY PileMember
<1>6. ASSUME NEW x \in S, NEW q \in Pile(E[x], w[x])
      PROVE  q[1] \in E[x] /\ q[2] \in 1 .. w[x][q[1]] /\ q = <<q[1], q[2]>>
  BY PileMember
<1>6a. ASSUME NEW p \in Pile(S, g)
       PROVE  p[1] \in S /\ count[p[1]][p[2]] \in Pile(E[p[1]], w[p[1]])
  <2>1. p[1] \in S /\ p[2] \in 1 .. g[p[1]]
    BY <1>5
  <2>2. count[p[1]] \in [1 .. g[p[1]] -> Pile(E[p[1]], w[p[1]])]
    BY <1>4, <2>1
  <2> QED BY <2>1, <2>2
<1>7. ASSUME NEW p \in Pile(S, g)
      PROVE  c[p] \in Pile(pairs, f)
  <2>1. p[1] \in S /\ count[p[1]][p[2]] \in Pile(E[p[1]], w[p[1]])
    BY <1>6a
  <2> DEFINE x == p[1]
             q == count[p[1]][p[2]]
  <2>2. q[1] \in E[x] /\ q[2] \in 1 .. w[x][q[1]]
    BY <1>6, <2>1
  <2>3. <<x, q[1]>> \in pairs /\ q[2] \in 1 .. f[<<x, q[1]>>]
    BY <1>1, <2>1, <2>2
  <2> QED BY <2>3, PileMember
<1>8. ASSUME NEW p \in Pile(S, g), NEW q \in Pile(S, g), c[p] = c[q]
      PROVE  p = q
  <2>1. p[1] = q[1] /\ count[p[1]][p[2]][1] = count[q[1]][q[2]][1]
        /\ count[p[1]][p[2]][2] = count[q[1]][q[2]][2]
    BY <1>8
  <2>2. count[p[1]][p[2]] \in Pile(E[p[1]], w[p[1]]) /\ count[q[1]][q[2]] \in Pile(E[q[1]], w[q[1]])
    BY <1>6a
  <2>3. count[p[1]][p[2]] = count[q[1]][q[2]]
    BY <1>5, <1>6, <2>1, <2>2
  <2> QED BY <1>4, <1>5, <2>1, <2>3
<1>9. ASSUME NEW r \in Pile(pairs, f)
      PROVE  \E p \in Pile(S, g) : c[p] = r
  <2>1. PICK x \in S : \E v \in E[x] : \E j \in 1 .. f[<<x, v>>] : r = <<<<x, v>>, j>>
    BY <1>1, PileMember
  <2> PICK y \in E[x] : \E j \in 1 .. f[<<x, y>>] : r = <<<<x, y>>, j>>
    BY <2>1
  <2> PICK i \in 1 .. f[<<x, y>>] : r = <<<<x, y>>, i>>
    OBVIOUS
  <2>2. <<y, i>> \in Pile(E[x], w[x])
    BY <2>1, PileMember
  <2>3. PICK j \in 1 .. g[x] : count[x][j] = <<y, i>>
    BY <1>4, <2>2
  <2>4. <<x, j>> \in Pile(S, g)
    BY PileMember
  <2>5. c[<<x, j>>] = <<<<x, count[x][j][1]>>, count[x][j][2]>>
    BY <2>4
  <2>6. <<<<x, count[x][j][1]>>, count[x][j][2]>> = r
    BY <2>3
  <2> HIDE DEF c
  <2> QED BY <2>4, <2>5, <2>6
<1>10. c \in [Pile(S, g) -> Pile(pairs, f)]
  BY <1>7
<1> HIDE DEF c
<1>11. ExistsBijection(Pile(S, g), Pile(pairs, f))
  BY <1>8, <1>9, <1>10, BijectionExists
<1>12. IsFiniteSet(Pile(S, g))
  BY <1>3, SumType
<1>13. SumOver(pairs, f) = SumOver(S, g)
  BY <1>11, <1>12, FS_Bijection, SumIsPile
<1> QED BY <1>2, <1>13 DEF pairs

(* A sum of nothing but zeros is zero. *)
LEMMA SumZero ==
  ASSUME NEW S, NEW f, \A x \in S : f[x] = 0
  PROVE  SumOver(S, f) = 0
<1>1. Pile(S, f) = {}
  BY DEF Pile
<1> QED BY <1>1, SumIsPile, FS_EmptySet

(* Pairs can be turned around before they are summed. *)
LEMMA SumTurned ==
  ASSUME NEW S, NEW E, IsFiniteSet(Pairs(S, E)),
         NEW f, \A x \in S : \A y \in E[x] : f[<<x, y>>] \in Nat,
         NEW table, \A x \in S : \A y \in E[x] : <<y, x>> \in table,
         \A z \in table : \E x \in S : \E y \in E[x] : z = <<y, x>>,
         NEW v, \A x \in S : \A y \in E[x] : v[<<y, x>>] = f[<<x, y>>]
  PROVE  SumOver(table, v) = SumOver(Pairs(S, E), f)
<1> DEFINE pairs == Pairs(S, E)
           b == [p \in pairs |-> <<p[2], p[1]>>]
<1>1. \A p \in pairs : /\ p = <<p[1], p[2]>> /\ b[p] = <<p[2], p[1]>> /\ b[p] \in table
                       /\ f[p] \in Nat /\ v[b[p]] = f[p]
  BY PairsMember
<1>2. \A p, q \in pairs : b[p] = b[q] => p = q
  BY <1>1
<1>3. \A z \in table : \E p \in pairs : b[p] = z
  <2>1. \A x \in S : \A y \in E[x] : <<x, y>> \in pairs /\ b[<<x, y>>] = <<y, x>>
    BY PairsMember
  <2> HIDE DEF pairs, b
  <2> SUFFICES ASSUME NEW z \in table
               PROVE  \E p \in pairs : b[p] = z
    OBVIOUS
  <2>2. PICK x \in S : \E y \in E[x] : z = <<y, x>>
    OBVIOUS
  <2>3. PICK y \in E[x] : z = <<y, x>>
    BY <2>2
  <2> QED BY <2>1, <2>3
<1>4. b \in [pairs -> table]
  BY <1>1
<1>5. IsFiniteSet(pairs) /\ \A p \in pairs : f[p] \in Nat /\ v[b[p]] = f[p]
  BY <1>1
<1> HIDE DEF pairs, b
<1>6. SumOver(table, v) = SumOver(pairs, f)
  BY <1>2, <1>3, <1>4, <1>5, SumRenamed
<1> QED BY <1>6 DEF pairs

(* A table can be summed by its columns or all at once. *)
LEMMA SumByColumns ==
  ASSUME NEW S, IsFiniteSet(S), NEW E, \A x \in S : IsFiniteSet(E[x]),
         NEW w, \A x \in S : \A y \in E[x] : w[x][y] \in Nat,
         NEW table, \A x \in S : \A y \in E[x] : <<y, x>> \in table,
         \A z \in table : \E x \in S : \E y \in E[x] : z = <<y, x>>,
         NEW v, \A x \in S : \A y \in E[x] : v[<<y, x>>] = w[x][y],
         NEW g, \A x \in S : g[x] = SumOver(E[x], w[x])
  PROVE  SumOver(table, v) = SumOver(S, g)
<1> DEFINE f == [p \in Pairs(S, E) |-> w[p[1]][p[2]]]
<1>1. \A x \in S : \A y \in E[x] : f[<<x, y>>] = w[x][y]
  BY PairsMember
<1> HIDE DEF f
<1>2. IsFiniteSet(Pairs(S, E)) /\ SumOver(Pairs(S, E), f) = SumOver(S, g)
  BY <1>1, SumOfSums
<1>3. SumOver(table, v) = SumOver(Pairs(S, E), f)
  BY <1>1, <1>2, SumTurned
<1> QED BY <1>2, <1>3

(* A sum is not changed by more elements that count for nothing. *)
LEMMA SumWider ==
  ASSUME NEW T, IsFiniteSet(T), NEW S, S \subseteq T, NEW f,
         \A x \in S : f[x] \in Nat, \A x \in T \ S : f[x] = 0
  PROVE  SumOver(T, f) = SumOver(S, f)
<1>1. IsFiniteSet(S) /\ IsFiniteSet(T \ S)
  BY FS_Subset, FS_Difference
<1>2. S \cup (T \ S) = T /\ S \cap (T \ S) = {}
  OBVIOUS
<1>3. SumOver(T, f) = SumOver(S, f) + SumOver(T \ S, f)
  <2>1. \A x \in S \cup (T \ S) : f[x] \in Nat
    OBVIOUS
  <2>2. SumOver(S \cup (T \ S), f) = SumOver(S, f) + SumOver(T \ S, f)
    BY <1>1, <1>2, <2>1, SumUnion
  <2> QED BY <1>2, <2>2
<1>4. SumOver(T \ S, f) = 0 /\ SumOver(S, f) \in Nat
  BY <1>1, SumZero, SumType
<1> QED BY <1>3, <1>4

(* A sum grows with its summands. *)
LEMMA SumGrows ==
  ASSUME NEW S, IsFiniteSet(S), NEW f, NEW g,
         \A x \in S : f[x] \in Nat /\ g[x] \in Nat /\ f[x] <= g[x]
  PROVE  SumOver(S, f) <= SumOver(S, g)
<1> DEFINE h == [x \in S |-> g[x] - f[x]]
<1>1. \A x \in S : f[x] \in Nat /\ h[x] \in Nat /\ g[x] = f[x] + h[x]
  OBVIOUS
<1> HIDE DEF h
<1>2. SumOver(S, g) = SumOver(S, f) + SumOver(S, h)
  BY <1>1, SumPlus
<1>3. SumOver(S, f) \in Nat /\ SumOver(S, h) \in Nat
  BY <1>1, SumType
<1> QED BY <1>2, <1>3

(* A sum is positive when one of its elements is. *)
LEMMA SumPositive ==
  ASSUME NEW S, IsFiniteSet(S), NEW f, \A x \in S : f[x] \in Nat
  PROVE  SumOver(S, f) > 0 <=> \E x \in S : f[x] > 0
<1>1. CASE \E x \in S : f[x] > 0
  <2>1. PICK x \in S : f[x] > 0
    BY <1>1
  <2>2. <<x, 1>> \in Pile(S, f)
    BY <2>1 DEF Pile
  <2>3. IsFiniteSet(Pile(S, f)) /\ SumOver(S, f) = Cardinality(Pile(S, f))
    BY SumType, SumIsPile
  <2>4. Cardinality(Pile(S, f)) \in Nat /\ Cardinality(Pile(S, f)) # 0
    BY <2>2, <2>3, FS_CardinalityType, FS_EmptySet
  <2> QED BY <2>1, <2>3, <2>4
<1>2. CASE ~ \E x \in S : f[x] > 0
  <2>1. \A x \in S : f[x] = 0
    BY <1>2
  <2> QED BY <1>2, <2>1, SumZero
<1> QED BY <1>1, <1>2

(* The size of a set is a sum of ones. *)
LEMMA SumOnes ==
  ASSUME NEW S, IsFiniteSet(S), NEW f, \A x \in S : f[x] = 1
  PROVE  SumOver(S, f) = Cardinality(S)
<1> DEFINE b == [x \in S |-> <<x, 1>>]
           P == Pile(S, f)
<1>1. ASSUME NEW z
      PROVE  z \in P <=> \E x \in S : z = <<x, 1>>
  BY DEF Pile
<1>2. b \in [S -> P] /\ (\A x, y \in S : b[x] = b[y] => x = y) /\ \A z \in P : \E x \in S : b[x] = z
  BY <1>1
<1> HIDE DEF b, P
<1>3. ExistsBijection(S, P)
  BY <1>2, BijectionExists
<1>4. Cardinality(S) = Cardinality(P)
  BY <1>3, FS_Bijection
<1> QED BY <1>4, SumIsPile DEF P

(* The size of a set is the sum of the sizes of the parts that h sorts it into. *)
LEMMA SizeByParts ==
  ASSUME NEW X, IsFiniteSet(X), NEW R, IsFiniteSet(R), NEW h, \A x \in X : h[x] \in R,
         NEW part, \A r \in R : \A x : x \in part[r] <=> x \in X /\ h[x] = r,
         NEW g, \A r \in R : g[r] = Cardinality(part[r])
  PROVE  SumOver(R, g) = Cardinality(X)
<1> DEFINE E == [r \in R |-> {x \in X : h[x] = r}]
           one == [x \in X |-> 1]
           w == [r \in R |-> one]
           f == [p \in Pairs(R, E) |-> 1]
           b == [x \in X |-> <<h[x], x>>]
<1>1. \A r \in R : IsFiniteSet(E[r]) /\ E[r] \subseteq X /\ w[r] = one
  BY FS_Subset
<1>2. \A x \in X : one[x] = 1
  OBVIOUS
<1>3. ASSUME NEW p
      PROVE  p \in Pairs(R, E) <=> \E x \in X : p = <<h[x], x>>
  BY PairsMember
<1>4. \A r \in R : g[r] = SumOver(E[r], w[r])
  <2> SUFFICES ASSUME NEW r \in R
               PROVE  g[r] = SumOver(E[r], w[r])
    OBVIOUS
  <2>1. g[r] = Cardinality(E[r])
    <3>1. part[r] = E[r]
      OBVIOUS
    <3> QED BY <3>1
  <2> HIDE DEF E, w, one
  <2> QED BY <1>1, <1>2, <2>1, SumOnes
<1>5. \A p \in Pairs(R, E) : f[p] = 1
  OBVIOUS
<1>6. /\ b \in [X -> Pairs(R, E)]
      /\ \A x, y \in X : b[x] = b[y] => x = y
      /\ \A p \in Pairs(R, E) : \E x \in X : b[x] = p
  BY <1>3
<1>7. \A r \in R : \A x \in E[r] : w[r][x] = 1 /\ <<r, x>> \in Pairs(R, E)
  BY PairsMember
<1> HIDE DEF E, one, w, f, b
<1>8. IsFiniteSet(Pairs(R, E)) /\ SumOver(Pairs(R, E), f) = SumOver(R, g)
  <2>1. ASSUME NEW r \in R, NEW x \in E[r]
        PROVE  w[r][x] \in Nat /\ f[<<r, x>>] = w[r][x]
    <3>1. w[r][x] = 1 /\ <<r, x>> \in Pairs(R, E)
      BY <1>7
    <3>2. f[<<r, x>>] = 1
      BY <1>5, <3>1
    <3> QED BY <3>1, <3>2
  <2>2. (\A r \in R : \A x \in E[r] : w[r][x] \in Nat)
          /\ (\A r \in R : \A x \in E[r] : f[<<r, x>>] = w[r][x])
    BY <2>1
  <2>3. \A r \in R : IsFiniteSet(E[r])
    BY <1>1
  <2> QED BY <1>4, <2>2, <2>3, SumOfSums
<1>9. Cardinality(Pairs(R, E)) = Cardinality(X)
  BY <1>6, BijectionExists, FS_Bijection
<1> QED BY <1>5, <1>8, <1>9, SumOnes

-----------------------------------------------------------------------------
(* Samplers *)

(* The sampler a node begins with passes the program's own check. *)
LEMMA EmptyVerifies == EmptySampler \in Sampler /\ Verify(EmptySampler)
<1>1. SumOver(Tokens, NoCounts) = 0
  BY SumZero DEF NoCounts
<1> QED BY <1>1 DEF EmptySampler, Sampler, NoCounts, Counts, Verify

(* Adding counts, one or many, keeps the total the sum of the counts. *)
LEMMA AddVerifies ==
  ASSUME NEW s \in Sampler, Verify(s), NEW c \in Counts
  PROVE  AddCounts(s, c) \in Sampler /\ Verify(AddCounts(s, c))
<1> DEFINE sum == [t \in Tokens |-> s.counts[t] + c[t]]
<1>1. /\ s.total \in Nat /\ s.counts \in [Tokens -> Nat] /\ c \in [Tokens -> Nat]
      /\ IsFiniteSet(Tokens)
  BY TokensAssumption DEF Sampler, Counts
<1>2. SumOver(Tokens, c) \in Nat
  BY <1>1, SumType
<1>3. SumOver(Tokens, sum) = SumOver(Tokens, s.counts) + SumOver(Tokens, c)
  BY <1>1, SumPlus
<1>4. sum \in [Tokens -> Nat]
  BY <1>1
<1> HIDE DEF sum
<1>5. AddCounts(s, c) = [total |-> s.total + SumOver(Tokens, c), counts |-> sum]
  BY DEF AddCounts, sum
<1> QED BY <1>1, <1>2, <1>3, <1>4, <1>5 DEF Sampler, Counts, Verify

(* So does merging one sampler into another. *)
LEMMA MergeVerifies ==
  ASSUME NEW s \in Sampler, Verify(s), NEW r \in Sampler
  PROVE  MergeSamplers(s, r) \in Sampler /\ Verify(MergeSamplers(s, r))
BY AddVerifies DEF MergeSamplers, Sampler

-----------------------------------------------------------------------------
(* Paths and their suffixes *)

(* A path is a sequence of at most B tokens. *)
LEMMA PathFacts ==
  \A p : p \in Paths <=> p \in Seq(Tokens) /\ Len(p) <= B
<1>1. ASSUME NEW p \in Paths
      PROVE  p \in Seq(Tokens) /\ Len(p) <= B
  BY BlockAssumption DEF Paths
<1>2. ASSUME NEW p \in Seq(Tokens), Len(p) <= B
      PROVE  p \in Paths
  <2>1. /\ Len(p) \in 0 .. B
        /\ p \in [1 .. Len(p) -> Tokens]
    BY <1>2, BlockAssumption
  <2> QED BY <2>1 DEF Paths
<1> QED BY <1>1, <1>2

(* The set of trees itself, the empty path, is a place for a sampler. *)
LEMMA RootIsPath == <<>> \in Paths
<1>1. <<>> \in Seq(Tokens) /\ Len(<<>>) = 0
  BY EmptySeq
<1>2. Len(<<>>) <= B
  BY <1>1, BlockAssumption
<1> QED BY <1>1, <1>2, PathFacts, Zenon

(* A suffix of p is a sequence no longer than p, and so is what follows its head. *)
LEMMA SuffixFacts ==
  ASSUME NEW p \in Seq(Tokens), NEW q \in Suffixes(p)
  PROVE  /\ q \in Seq(Tokens)
         /\ Len(q) <= Len(p)
         /\ q # <<>> => Tail(q) \in Suffixes(p)
<1>1. CASE q = <<>>
  BY <1>1
<1>2. CASE q # <<>>
  <2>1. PICK l \in 1 .. Len(p) : q = SubSeq(p, l, Len(p))
    BY <1>2 DEF Suffixes
  <2>2. q \in Seq(Tokens) /\ Len(q) = Len(p) - l + 1
    BY <2>1
  <2>3. Tail(q) = SubSeq(p, l + 1, Len(p))
    BY <2>1, HeadTailOfSubSeq
  <2>4. CASE l = Len(p)
    BY <2>2, <2>3, <2>4, SubSeqEmpty DEF Suffixes
  <2>5. CASE l # Len(p)
    <3>1. l + 1 \in 1 .. Len(p)
      BY <2>5
    <3>2. Tail(q) \in Suffixes(p)
      BY <2>3, <3>1 DEF Suffixes
    <3> QED BY <2>2, <3>2
  <2> QED BY <2>4, <2>5
<1> QED BY <1>1, <1>2

(* The suffixes of a path are paths, the empty one among them. *)
LEMMA SuffixesArePaths ==
  ASSUME NEW p \in Paths
  PROVE  Suffixes(p) \subseteq Paths /\ <<>> \in Suffixes(p)
<1>1. p \in Seq(Tokens) /\ Len(p) <= B
  BY PathFacts
<1>2. ASSUME NEW q \in Suffixes(p)
      PROVE  q \in Paths
  BY <1>1, SuffixFacts, PathFacts, BlockAssumption
<1> QED BY <1>2 DEF Suffixes

(* There are finitely many paths. *)
LEMMA PathsFinite == IsFiniteSet(Paths)
<1>1. ASSUME NEW n \in Nat
      PROVE  IsFiniteSet([1 .. n -> Tokens])
  <2> DEFINE graph == [p \in [1 .. n -> Tokens] |-> {<<i, p[i]>> : i \in 1 .. n}]
  <2>1. IsFiniteSet(SUBSET ((1 .. n) \X Tokens))
    <3>1. IsFiniteSet(1 .. n)
      BY FS_Interval
    <3>2. IsFiniteSet((1 .. n) \X Tokens)
      BY <3>1, TokensAssumption, FS_Product
    <3> QED BY <3>2, FS_SUBSET
  <2>2. ASSUME NEW p \in [1 .. n -> Tokens], NEW q \in [1 .. n -> Tokens], graph[p] = graph[q]
        PROVE  p = q
    <3>1. ASSUME NEW i \in 1 .. n
          PROVE  p[i] = q[i]
      <4>1. <<i, p[i]>> \in graph[q]
        BY <2>2
      <4> QED BY <4>1
    <3> QED BY <3>1
  <2>3. graph \in Injection([1 .. n -> Tokens], SUBSET ((1 .. n) \X Tokens))
    <3>1. \A p \in [1 .. n -> Tokens] : graph[p] \in SUBSET ((1 .. n) \X Tokens)
      OBVIOUS
    <3> QED BY <2>2, <3>1 DEF Injection, IsInjective
  <2> QED BY <2>1, <2>3, FS_Injection
<1> DEFINE level == [n \in 0 .. B |-> [1 .. n -> Tokens]]
           levels == {[1 .. n -> Tokens] : n \in 0 .. B}
<1>2. level \in Surjection(0 .. B, levels)
  BY DEF Surjection
<1>3. IsFiniteSet(levels)
  BY <1>2, BlockAssumption, FS_Interval, FS_Surjection
<1>4. \A L \in levels : IsFiniteSet(L)
  BY <1>1
<1> HIDE DEF levels
<1>5. IsFiniteSet(UNION levels)
  BY <1>3, <1>4, FS_UNION
<1> QED BY <1>5 DEF levels, Paths

(* A suffix of a sequence is known by its length. *)
LEMMA SuffixByLength ==
  ASSUME NEW r \in Seq(Tokens), NEW q \in Suffixes(r)
  PROVE  q \in Seq(Tokens) /\ Len(q) <= Len(r) /\ q = SubSeq(r, Len(r) - Len(q) + 1, Len(r))
<1>1. CASE q = <<>>
  <2>1. Len(q) = 0 /\ SubSeq(r, Len(r) + 1, Len(r)) = <<>>
    BY <1>1, SubSeqEmpty
  <2> QED BY <1>1, <2>1
<1>2. CASE q # <<>>
  <2>1. PICK l \in 1 .. Len(r) : q = SubSeq(r, l, Len(r))
    BY <1>2 DEF Suffixes
  <2>2. q \in Seq(Tokens) /\ Len(q) = Len(r) - l + 1
    BY <2>1
  <2> QED BY <2>1, <2>2
<1> QED BY <1>1, <1>2

(* A sequence is a suffix of its own. *)
LEMMA OwnSuffix == \A r \in Seq(Tokens) : r \in Suffixes(r)
<1> SUFFICES ASSUME NEW r \in Seq(Tokens)
             PROVE  r \in Suffixes(r)
  OBVIOUS
<1>1. CASE r = <<>>
  BY <1>1 DEF Suffixes
<1>2. CASE r # <<>>
  <2>1. 1 \in 1 .. Len(r)
    BY <1>2
  <2>2. SubSeq(r, 1, Len(r)) = r
    BY SubSeqFull
  <2> QED BY <2>1, <2>2 DEF Suffixes
<1> QED BY <1>1, <1>2

(* A suffix of a suffix is a suffix. *)
LEMMA SuffixOfSuffix ==
  ASSUME NEW p \in Seq(Tokens), NEW r \in Suffixes(p), NEW q \in Suffixes(r)
  PROVE  q \in Suffixes(p)
<1>1. CASE q = <<>>
  BY <1>1 DEF Suffixes
<1>2. CASE q # <<>>
  <2>1. PICK k \in 1 .. Len(r) : q = SubSeq(r, k, Len(r))
    BY <1>2 DEF Suffixes
  <2>2. r # <<>>
    BY <2>1
  <2>3. PICK l \in 1 .. Len(p) : r = SubSeq(p, l, Len(p))
    BY <2>2 DEF Suffixes
  <2>4. Len(r) = Len(p) - l + 1
    BY <2>3
  <2>5. q = SubSeq(p, l + k - 1, l + Len(r) - 1)
    <3>1. Len(p) \in 1 .. Len(p) /\ k \in 1 .. Len(p) - l + 1 /\ Len(r) \in 1 .. Len(p) - l + 1
      BY <2>1, <2>3, <2>4
    <3> QED BY <2>1, <2>3, <3>1, SubSeqOfSubSeq
  <2>6. l + k - 1 \in 1 .. Len(p) /\ l + Len(r) - 1 = Len(p)
    BY <2>1, <2>3, <2>4
  <2> QED BY <2>5, <2>6 DEF Suffixes
<1> QED BY <1>1, <1>2

-----------------------------------------------------------------------------
(* Trees as sets of paths *)

\* The nodes N are whole trees: with a context all its suffixes are there.
Whole(N) == N \subseteq Paths /\ <<>> \in N /\ \A r \in N : Suffixes(r) \subseteq N

\* The sets of nodes that are whole trees.
Trees == {N \in SUBSET Paths : Whole(N)}

(* The root alone is a whole tree. *)
LEMMA RootIsWhole == Whole({<<>>})
<1>1. Suffixes(<<>>) = {<<>>}
  <2>1. Len(<<>>) = 0 /\ 1 .. 0 = {}
    BY EmptySeq
  <2> QED BY <2>1 DEF Suffixes
<1> QED BY <1>1, RootIsPath DEF Whole

(* A whole tree stays whole with more nodes that come with their suffixes. *)
LEMMA GrownIsWhole ==
  ASSUME NEW N, Whole(N), NEW T, T \subseteq Paths, \A r \in T : Suffixes(r) \subseteq T
  PROVE  Whole(N \cup T)
BY DEF Whole

(* The child of q on the way to a node below it. *)
LEMMA NextDown ==
  ASSUME NEW N, Whole(N), NEW q, NEW r \in Below(N, q), r # q
  PROVE  \E k \in Children(N, q) : r \in Below(N, k)
<1>1. r \in N /\ r \in Seq(Tokens) /\ q \in Suffixes(r) /\ Suffixes(r) \subseteq N
  BY PathFacts DEF Below, Whole
<1>2. q \in Seq(Tokens) /\ Len(q) <= Len(r) /\ q = SubSeq(r, Len(r) - Len(q) + 1, Len(r))
  BY <1>1, SuffixByLength
<1>3. Len(q) # Len(r)
  <2>1. SubSeq(r, 1, Len(r)) = r
    BY <1>1, SubSeqFull
  <2> QED BY <1>2, <2>1
<1> DEFINE i == Len(r) - Len(q)
           k == SubSeq(r, i, Len(r))
<1>4. i \in 1 .. Len(r) /\ Len(r) \in i .. Len(r) /\ i + 1 = Len(r) - Len(q) + 1
  BY <1>1, <1>2, <1>3
<1>5. k \in Suffixes(r)
  BY <1>4 DEF Suffixes
<1>6. k # <<>> /\ Tail(k) = q
  <2>1. Len(k) = Len(r) - i + 1
    BY <1>1, <1>4
  <2>2. Tail(k) = SubSeq(r, i + 1, Len(r))
    BY <1>1, <1>4, HeadTailOfSubSeq
  <2>3. Len(k) # 0
    BY <1>4, <2>1
  <2> QED BY <1>2, <1>4, <2>2, <2>3, EmptySeq
<1> HIDE DEF k
<1> QED BY <1>1, <1>5, <1>6 DEF Children, Below

(* What is below a child is below its parent, and is not the parent. *)
LEMMA UpFromChild ==
  ASSUME NEW N, Whole(N), NEW q, NEW k \in Children(N, q), NEW r \in Below(N, k)
  PROVE  r \in Below(N, q) /\ r # q /\ q \in N /\ Len(k) = Len(q) + 1
<1>1. /\ k \in N /\ k # <<>> /\ Tail(k) = q /\ k \in Suffixes(r)
      /\ r \in N /\ r \in Seq(Tokens) /\ Suffixes(r) \subseteq N
  BY PathFacts DEF Children, Below, Whole
<1>2. k \in Seq(Tokens) /\ Len(k) <= Len(r) /\ q \in Suffixes(r)
  BY <1>1, SuffixFacts
<1>3. Len(q) = Len(k) - 1
  BY <1>1, <1>2, HeadTailProperties
<1> QED BY <1>1, <1>2, <1>3 DEF Below

(* A node is below one child of an ancestor only. *)
LEMMA OneChild ==
  ASSUME NEW N, Whole(N), NEW q, NEW k \in Children(N, q), NEW l \in Children(N, q),
         NEW r \in Below(N, k), r \in Below(N, l)
  PROVE  k = l
<1>1. Len(k) = Len(l)
  BY UpFromChild
<1>2. k \in Suffixes(r) /\ l \in Suffixes(r) /\ r \in Seq(Tokens)
  BY PathFacts DEF Below, Whole
<1> QED BY <1>1, <1>2, SuffixByLength

(* A place outside the tree has no children in it. *)
LEMMA NoChildOutside ==
  ASSUME NEW N, Whole(N), NEW q, q \notin N
  PROVE  Children(N, q) = {}
<1> SUFFICES ASSUME NEW k \in Children(N, q)
             PROVE  FALSE
  OBVIOUS
<1>1. k \in N /\ k # <<>> /\ Tail(k) = q /\ k \in Seq(Tokens) /\ Suffixes(k) \subseteq N
  BY PathFacts DEF Children, Whole
<1>2. q \in Suffixes(k)
  BY <1>1, OwnSuffix, SuffixFacts
<1> QED BY <1>1, <1>2

(* The nodes below q have contexts at least as long, and q is below itself. *)
LEMMA BelowFacts ==
  ASSUME NEW N, Whole(N), NEW q, NEW r \in Below(N, q)
  PROVE  /\ r \in N /\ q \in N /\ r \in Paths /\ q \in Paths
         /\ q \in Suffixes(r) /\ r \in Seq(Tokens) /\ q \in Seq(Tokens)
         /\ Len(r) \in Nat /\ Len(q) \in Nat /\ Len(q) <= Len(r) /\ Len(r) <= B
         /\ q \in Below(N, q)
<1>1. r \in N /\ q \in Suffixes(r) /\ r \in Paths /\ q \in N /\ q \in Paths
  BY DEF Below, Whole
<1>2. r \in Seq(Tokens) /\ Len(r) <= B
  BY <1>1, PathFacts
<1>3. q \in Seq(Tokens) /\ Len(q) <= Len(r)
  BY <1>1, <1>2, SuffixFacts
<1>4. q \in Below(N, q)
  BY <1>1, <1>3, OwnSuffix DEF Below
<1> QED BY <1>1, <1>2, <1>3, <1>4

(* A node is below itself. *)
LEMMA OwnBelow ==
  ASSUME NEW N, Whole(N), NEW q, q \in N
  PROVE  q \in Below(N, q)
BY OwnSuffix, PathFacts DEF Below, Whole

(* The nodes of a tree, its children and what is below a node are finitely many. *)
LEMMA TreeFinite ==
  ASSUME NEW N, Whole(N), NEW q
  PROVE  /\ IsFiniteSet(Children(N, q)) /\ Children(N, q) \subseteq Paths
         /\ IsFiniteSet(Below(N, q)) /\ Below(N, q) \subseteq Paths
<1>1. N \subseteq Paths /\ Children(N, q) \subseteq N /\ Below(N, q) \subseteq N
  BY DEF Whole, Children, Below
<1>2. IsFiniteSet(N)
  BY <1>1, PathsFinite, FS_Subset
<1> QED BY <1>1, <1>2, FS_Subset

-----------------------------------------------------------------------------
(* What is added up from the nodes below *)

\* What F gives q and the nodes of N below it, together.
Share(N, F, q) == SumOver({q} \cup Below(N, q), F)

(* A sum over what is below a node is its own share and the sums of its children. *)
LEMMA SumOverChildren ==
  ASSUME NEW N, Whole(N), NEW q \in Paths, NEW F \in [Paths -> Nat],
         NEW g, \A k \in Children(N, q) : g[k] = Share(N, F, k)
  PROVE  Share(N, F, q) = F[q] + SumOver(Children(N, q), g)
<1> DEFINE kids == Children(N, q)
           E == [k \in kids |-> Below(N, k)]
           w == [k \in kids |-> F]
           R == Below(N, q) \ {q}
           f == [p \in Pairs(kids, E) |-> F[p[2]]]
           b == [p \in Pairs(kids, E) |-> p[2]]
<1>1. /\ IsFiniteSet(kids) /\ kids \subseteq Paths
      /\ \A k \in kids : IsFiniteSet(E[k]) /\ E[k] = Below(N, k) /\ E[k] \subseteq Paths
      /\ \A k \in kids : w[k] = F
  BY TreeFinite
<1>2. IsFiniteSet(R) /\ R \subseteq Paths
  BY TreeFinite, FS_Difference
<1>3. SumOver({q} \cup Below(N, q), F) = F[q] + SumOver(R, F)
  <2>1. {q} \cup Below(N, q) = {q} \cup R /\ {q} \cap R = {}
    OBVIOUS
  <2>2. IsFiniteSet({q}) /\ \A x \in {q} \cup R : F[x] \in Nat
    BY <1>2, FS_Singleton
  <2> HIDE DEF R
  <2>3. SumOver({q} \cup R, F) = SumOver({q}, F) + SumOver(R, F)
    BY <1>2, <2>1, <2>2, SumUnion
  <2>4. SumOver({q}, F) = F[q]
    BY SumSingle
  <2> QED BY <2>1, <2>3, <2>4
<1>4. \A k \in kids : \A r \in E[k] :
        /\ <<k, r>> \in Pairs(kids, E)
        /\ b[<<k, r>>] = r /\ f[<<k, r>>] = F[r] /\ F[r] \in Nat /\ r \in R
  BY <1>1, PairsMember, UpFromChild
<1>5. \A p \in Pairs(kids, E) : p[1] \in kids /\ p[2] \in E[p[1]] /\ p = <<p[1], p[2]>>
  BY PairsMember
<1>6. \A p \in Pairs(kids, E) : b[p] = p[2] /\ b[p] \in R /\ f[p] \in Nat /\ F[b[p]] = f[p]
  BY <1>4, <1>5
<1>7. b \in [Pairs(kids, E) -> R]
  BY <1>6
<1>8. ASSUME NEW p \in Pairs(kids, E), NEW o \in Pairs(kids, E), b[p] = b[o]
      PROVE  p = o
  <2>1. p[2] = o[2] /\ p[2] \in Below(N, p[1]) /\ o[2] \in Below(N, o[1])
    BY <1>1, <1>5, <1>6, <1>8
  <2>2. p[1] = o[1]
    BY <1>5, <2>1, OneChild
  <2> QED BY <1>5, <2>1, <2>2
<1>9. ASSUME NEW r \in R
      PROVE  \E p \in Pairs(kids, E) : b[p] = r
  <2>1. PICK k \in kids : r \in Below(N, k)
    BY NextDown
  <2>2. r \in E[k]
    BY <1>1, <2>1
  <2>3. <<k, r>> \in Pairs(kids, E) /\ b[<<k, r>>] = r
    BY <1>4, <2>2
  <2> HIDE DEF b, kids, E
  <2> QED BY <2>3
<1>10. \A k \in kids : g[k] = SumOver(E[k], w[k])
  <2> SUFFICES ASSUME NEW k \in kids
               PROVE  g[k] = SumOver(E[k], w[k])
    OBVIOUS
  <2>1. k \in Below(N, k)
    BY OwnSuffix, PathFacts DEF Children, Below, Whole
  <2>2. {k} \cup Below(N, k) = E[k]
    BY <1>1, <2>1
  <2> QED BY <1>1, <2>2 DEF Share
<1> HIDE DEF kids, E, w, R, f, b
<1>11. IsFiniteSet(Pairs(kids, E)) /\ SumOver(Pairs(kids, E), f) = SumOver(kids, g)
  <2>1. \A k \in kids : \A r \in E[k] : w[k][r] \in Nat
    BY <1>1, <1>4
  <2>2. \A k \in kids : \A r \in E[k] : f[<<k, r>>] = w[k][r]
    BY <1>1, <1>4
  <2>3. IsFiniteSet(kids) /\ \A k \in kids : IsFiniteSet(E[k])
    BY <1>1
  <2> QED BY <1>10, <2>1, <2>2, <2>3, SumOfSums
<1>12. SumOver(R, F) = SumOver(Pairs(kids, E), f)
  <2>1. \A p \in Pairs(kids, E) : f[p] \in Nat /\ F[b[p]] = f[p]
    BY <1>6
  <2> QED BY <1>7, <1>8, <1>9, <1>11, <2>1, SumRenamed
<1> QED BY <1>3, <1>11, <1>12 DEF kids, Share

\* What F gives the contexts that end in q, together.
Gathered(F, q) == SumOver(Below(Paths, q), F)

(* All paths together are a whole tree. *)
LEMMA PathsAreWhole == Whole(Paths)
BY RootIsPath, SuffixesArePaths DEF Whole

(* The share of a node is the same in every tree that has all that counts. *)
LEMMA ShareIsGathered ==
  ASSUME NEW N, Whole(N), NEW q \in Paths, NEW F \in [Paths -> Nat],
         \A r \in Paths \ N : F[r] = 0
  PROVE  Share(N, F, q) = Gathered(F, q)
<1> DEFINE all == Below(Paths, q)
           S == {q} \cup Below(N, q)
<1>1. IsFiniteSet(all) /\ all \subseteq Paths /\ q \in all
  BY PathsAreWhole, TreeFinite, OwnBelow
<1>2. S \subseteq all /\ \A r \in all \ S : r \in Paths \ N
  BY <1>1 DEF Below, Whole
<1>3. (\A r \in S : F[r] \in Nat) /\ (\A r \in all \ S : F[r] = 0)
  BY <1>1, <1>2
<1> HIDE DEF all, S
<1>4. SumOver(all, F) = SumOver(S, F)
  BY <1>1, <1>2, <1>3, SumWider
<1> QED BY <1>4 DEF all, S, Share, Gathered

(* What is gathered is a number, and none if no context that ends in q has any. *)
LEMMA GatheredType ==
  ASSUME NEW q, NEW F \in [Paths -> Nat]
  PROVE  /\ Gathered(F, q) \in Nat
         /\ Gathered(F, q) > 0 <=> \E r \in Below(Paths, q) : F[r] > 0
<1>1. IsFiniteSet(Below(Paths, q)) /\ \A r \in Below(Paths, q) : F[r] \in Nat
  BY PathsAreWhole, TreeFinite
<1> HIDE DEF Below
<1> QED BY <1>1, SumType, SumPositive DEF Gathered

(* What is gathered from two counts is gathered from their sum. *)
LEMMA GatheredPlus ==
  ASSUME NEW q, NEW F \in [Paths -> Nat], NEW G \in [Paths -> Nat], NEW H,
         \A r \in Paths : H[r] = F[r] + G[r]
  PROVE  Gathered(H, q) = Gathered(F, q) + Gathered(G, q)
<1> DEFINE all == Below(Paths, q)
<1>1. IsFiniteSet(all) /\ all \subseteq Paths
  BY PathsAreWhole, TreeFinite
<1>2. \A r \in all : F[r] \in Nat /\ G[r] \in Nat /\ H[r] = F[r] + G[r]
  BY <1>1
<1> HIDE DEF all
<1>3. SumOver(all, H) = SumOver(all, F) + SumOver(all, G)
  BY <1>1, <1>2, SumPlus
<1> QED BY <1>3 DEF all, Gathered

(* A node gathers its own count and what its children gather. *)
LEMMA GatheredFromChildren ==
  ASSUME NEW N, Whole(N), NEW q \in Paths, NEW F \in [Paths -> Nat],
         \A r \in Paths \ N : F[r] = 0,
         NEW g, \A k \in Children(N, q) : g[k] = Gathered(F, k)
  PROVE  Gathered(F, q) = F[q] + SumOver(Children(N, q), g)
<1>1. \A k \in Children(N, q) : g[k] = Share(N, F, k)
  BY TreeFinite, ShareIsGathered
<1>2. Share(N, F, q) = F[q] + SumOver(Children(N, q), g)
  BY <1>1, SumOverChildren
<1> QED BY <1>2, ShareIsGathered

-----------------------------------------------------------------------------
(* What a parse touches *)

\* The nodes on the ways down to the contexts of the patterns.
Touched(patterns) == UNION {Suffixes(x.prefix) : x \in patterns}

(* A parse touches paths, and with a path all its suffixes. *)
LEMMA TouchedIsClosed ==
  ASSUME NEW patterns, \A x \in patterns : x.prefix \in Paths
  PROVE  /\ Touched(patterns) \subseteq Paths
         /\ \A r \in Touched(patterns) : Suffixes(r) \subseteq Touched(patterns)
<1>1. Touched(patterns) \subseteq Paths
  BY SuffixesArePaths DEF Touched
<1>2. ASSUME NEW r \in Touched(patterns), NEW q \in Suffixes(r)
      PROVE  q \in Touched(patterns)
  <2>1. PICK x \in patterns : r \in Suffixes(x.prefix)
    BY DEF Touched
  <2>2. x.prefix \in Seq(Tokens)
    BY PathFacts
  <2>3. q \in Suffixes(x.prefix)
    BY <2>1, <2>2, SuffixOfSuffix
  <2> QED BY <2>3 DEF Touched
<1> QED BY <1>1, <1>2

(* What a pattern touches is a whole tree by itself. *)
LEMMA TouchedIsWhole ==
  ASSUME NEW patterns, patterns # {}, \A x \in patterns : x.prefix \in Contexts
  PROVE  Whole(Touched(patterns))
<1>1. \A x \in patterns : x.prefix \in Paths
  BY DEF Contexts
<1>2. <<>> \in Touched(patterns)
  BY <1>1, SuffixesArePaths DEF Touched
<1> QED BY <1>1, <1>2, TouchedIsClosed DEF Whole

-----------------------------------------------------------------------------
(* Texts and the patterns they make *)

(* The window before a token of a text that is not empty is a context. *)
LEMMA WindowIsContext ==
  ASSUME NEW s \in Seq(Tokens), NEW b \in 1 .. B, NEW j \in 1 .. Len(s)
  PROVE  Window(s, j, b) \in Contexts
<1> DEFINE from == IF j < b THEN 1 ELSE j - b + 1
           w == SubSeq(s, from, j)
<1>1. from \in 1 .. j /\ from \in Int /\ j \in Int /\ j - from + 1 \in 1 .. B
  BY BlockAssumption
<1>2. Window(s, j, b) = w
  BY DEF Window
<1> HIDE DEF from
<1>3. w \in Seq(Tokens) /\ Len(w) = j - from + 1
  BY <1>1
<1> HIDE DEF w
<1>4. w \in Paths /\ w # <<>>
  BY <1>1, <1>3, PathFacts
<1> QED BY <1>2, <1>4 DEF Contexts

(* It ends in the token before, *)
LEMMA WindowEnds ==
  ASSUME NEW s \in Seq(Tokens), NEW b \in 1 .. B, NEW j \in 1 .. Len(s)
  PROVE  Last(Window(s, j, b)) = s[j]
<1> DEFINE from == IF j < b THEN 1 ELSE j - b + 1
           w == SubSeq(s, from, j)
<1>1. from \in 1 .. j /\ from \in Int /\ j \in Int /\ j - from + 1 \in 1 .. B
  BY BlockAssumption
<1>2. Window(s, j, b) = w
  BY DEF Window
<1> HIDE DEF from
<1>3. w \in Seq(Tokens) /\ Len(w) = j - from + 1 /\ w[j - from + 1] = s[j]
  BY <1>1
<1> HIDE DEF w
<1> QED BY <1>2, <1>3 DEF Last

(* and does not look at the tokens after it. *)
LEMMA WindowBefore ==
  ASSUME NEW s \in Seq(Tokens), NEW t, NEW b \in Nat, NEW j \in 0 .. Len(s)
  PROVE  Window(Append(s, t), j, b) = Window(s, j, b)
<1> DEFINE from == IF j < b THEN 1 ELSE j - b + 1
           T == Tokens \cup {t}
<1>1. from \in 1 .. j + 1 /\ from \in Int /\ j \in Int /\ s \in Seq(T) /\ t \in T
  OBVIOUS
<1> HIDE DEF from, T
<1>2. SubSeq(Append(s, t), from, j) = SubSeq(s, from, j)
  <2>1. \A i \in from .. j : i \in 1 .. Len(s) /\ Append(s, t)[i] = s[i]
    BY <1>1
  <2> QED BY <1>1, <2>1
<1> QED BY <1>2 DEF Window, from

(* The context before a token starts at the first token or b tokens before. *)
LEMMA WindowStart ==
  ASSUME NEW s \in Seq(Tokens), NEW b \in Nat, NEW j \in Nat
  PROVE  Window(s, j, b) = SubSeq(s, Max({1, (j + 1) - b}), j)
<1> DEFINE S == {1, (j + 1) - b}
           from == IF j < b THEN 1 ELSE j - b + 1
<1>1. from \in S /\ \A y \in S : from >= y
  OBVIOUS
<1>2. \A x \in S : (\A y \in S : x >= y) => x = from
  OBVIOUS
<1> HIDE DEF S, from
<1>3. Max(S) = from
  <2>1. Max(S) \in S /\ \A y \in S : Max(S) >= y
    BY <1>1, Zenon DEF Max
  <2> QED BY <1>2, <2>1
<1> QED BY <1>3 DEF S, from, Window

\* What a parse is given: finitely many patterns, each a context and a token.
Patterned(patterns) ==
    /\ IsFiniteSet(patterns)
    /\ \A x \in patterns : x.prefix \in Contexts /\ x.next \in Tokens

\* How often the patterns have t after each context.
Exactly(patterns, t) ==
    [q \in Paths |-> Cardinality({x \in patterns : x.next = t /\ x.prefix = q})]

(* These are numbers: none at the root and where nothing was parsed, some at each context. *)
LEMMA ExactlyFacts ==
  ASSUME NEW patterns, Patterned(patterns), NEW t \in Tokens
  PROVE  /\ Exactly(patterns, t) \in [Paths -> Nat]
         /\ \A q \in Paths : q \notin Touched(patterns) => Exactly(patterns, t)[q] = 0
         /\ Exactly(patterns, t)[<<>>] = 0
         /\ \A x \in patterns : x.next = t => Exactly(patterns, t)[x.prefix] > 0
<1> DEFINE hits(q) == {x \in patterns : x.next = t /\ x.prefix = q}
           E == Exactly(patterns, t)
<1>1. E = [q \in Paths |-> Cardinality(hits(q))]
  BY DEF Exactly
<1>2. ASSUME NEW q
      PROVE  IsFiniteSet(hits(q)) /\ Cardinality(hits(q)) \in Nat
  <2>1. IsFiniteSet(hits(q))
    BY FS_Subset DEF Patterned
  <2> QED BY <2>1, FS_CardinalityType
<1>3. \A x \in patterns : x.prefix \in Paths /\ x.prefix # <<>> /\ x.prefix \in Touched(patterns)
  <2>1. \A x \in patterns : x.prefix \in Paths /\ x.prefix # <<>>
    BY DEF Patterned, Contexts
  <2>2. \A x \in patterns : x.prefix \in Suffixes(x.prefix)
    BY <2>1, PathFacts, OwnSuffix
  <2> QED BY <2>1, <2>2 DEF Touched
<1>4. \A q \in Paths : q \notin Touched(patterns) \/ q = <<>> => hits(q) = {}
  BY <1>3
<1>5. ASSUME NEW x \in patterns, x.next = t
      PROVE  x.prefix \in Paths /\ x \in hits(x.prefix)
  BY <1>3, <1>5
<1> HIDE DEF hits, E
<1>6. E \in [Paths -> Nat]
  BY <1>1, <1>2
<1>7. \A q \in Paths : q \notin Touched(patterns) \/ q = <<>> => E[q] = 0
  BY <1>1, <1>4, FS_EmptySet
<1>8. ASSUME NEW x \in patterns, x.next = t
      PROVE  E[x.prefix] > 0
  <2>1. hits(x.prefix) # {} /\ E[x.prefix] = Cardinality(hits(x.prefix))
    BY <1>1, <1>5, <1>8
  <2>2. Cardinality(hits(x.prefix)) # 0
    BY <1>2, <2>1, FS_EmptySet
  <2> QED BY <1>2, <2>1, <2>2
<1> QED BY <1>6, <1>7, <1>8, RootIsPath DEF E

(* The patterns counted at every suffix of their contexts are gathered there. *)
LEMMA PatternsGather ==
  ASSUME NEW patterns, Patterned(patterns), NEW t \in Tokens, NEW q \in Paths
  PROVE  Cardinality({x \in patterns : x.next = t /\ q \in Suffixes(x.prefix)})
           = Gathered(Exactly(patterns, t), q)
<1> DEFINE X == {x \in patterns : x.next = t /\ q \in Suffixes(x.prefix)}
           R == Below(Paths, q)
           h == [x \in X |-> x.prefix]
           part == [r \in R |-> {x \in patterns : x.next = t /\ x.prefix = r}]
           g == Exactly(patterns, t)
<1>1. IsFiniteSet(X) /\ IsFiniteSet(R)
  <2>1. IsFiniteSet(X)
    BY FS_Subset DEF Patterned
  <2> QED BY <2>1, PathsAreWhole, TreeFinite
<1>2. \A x \in X : h[x] = x.prefix /\ h[x] \in R
  BY DEF Patterned, Contexts, Below
<1>3. ASSUME NEW r \in R
      PROVE  /\ \A x : x \in part[r] <=> x \in X /\ h[x] = r
             /\ g[r] = Cardinality(part[r])
  <2>1. r \in Paths /\ q \in Suffixes(r)
    BY DEF Below
  <2>2. g[r] = Cardinality({x \in patterns : x.next = t /\ x.prefix = r})
    BY <2>1 DEF Exactly
  <2> QED BY <2>1, <2>2
<1> HIDE DEF X, R, h, part, g
<1>4. SumOver(R, g) = Cardinality(X)
  BY <1>1, <1>2, <1>3, SizeByParts
<1> QED BY <1>4 DEF X, R, g, Gathered

(* The positions of a text make patterns, as many as there are positions. *)
LEMMA TextPatterns ==
  ASSUME NEW s \in Seq(Tokens), NEW b \in Nat, NEW m \in Nat, NEW n \in Int, n < Len(s),
         m >= 1, \A i \in m .. n : Window(s, i, b) \in Contexts
  PROVE  LET patterns == {Pattern(s, i, b) : i \in m .. n}
         IN  /\ Patterned(patterns)
             /\ \A p \in Contexts : \A t \in Tokens :
                  Exactly(patterns, t)[p]
                    = Cardinality({i \in m + 1 .. n + 1 :
                         s[i] = t /\ p = SubSeq(s, Max({1, i - b}), i - 1)})
<1> DEFINE at == m .. n
           P(i) == Pattern(s, i, b)
           patterns == {P(i) : i \in at}
<1>1. b \in Nat /\ Len(s) \in Nat /\ \A i \in at : i \in 1 .. Len(s) /\ i + 1 \in 1 .. Len(s)
  OBVIOUS
<1>2. ASSUME NEW i \in at
      PROVE  /\ P(i).next = s[i + 1] /\ P(i).at = i /\ P(i).prefix = Window(s, i, b)
             /\ P(i).prefix \in Contexts /\ P(i).next \in Tokens
  BY <1>1 DEF Pattern
<1> HIDE DEF P
<1>3. Patterned(patterns)
  <2> DEFINE f == [i \in at |-> P(i)]
  <2>1. f \in Surjection(at, patterns)
    BY DEF Surjection
  <2>2. IsFiniteSet(at)
    BY FS_Interval
  <2>3. \A x \in patterns : x.prefix \in Contexts /\ x.next \in Tokens
    BY <1>2
  <2> HIDE DEF patterns, f, at
  <2>4. IsFiniteSet(patterns)
    BY <2>1, <2>2, FS_Surjection
  <2> QED BY <2>3, <2>4 DEF Patterned
<1>4. ASSUME NEW p \in Contexts, NEW t \in Tokens
      PROVE  Exactly(patterns, t)[p]
               = Cardinality({i \in m + 1 .. n + 1 :
                    s[i] = t /\ p = SubSeq(s, Max({1, i - b}), i - 1)})
  <2> DEFINE hits == {x \in patterns : x.next = t /\ x.prefix = p}
             here == {i \in m + 1 .. n + 1 :
                        s[i] = t /\ p = SubSeq(s, Max({1, i - b}), i - 1)}
             there == {i \in at : s[i + 1] = t /\ p = Window(s, i, b)}
             g == [i \in here |-> P(i - 1)]
  <2>1. Exactly(patterns, t)[p] = Cardinality(hits)
    BY DEF Exactly, Contexts
  <2>2. ASSUME NEW j \in at
        PROVE  j + 1 \in here <=> j \in there
    <3>1. j \in Nat /\ j + 1 \in m + 1 .. n + 1 /\ (j + 1) - 1 = j
      OBVIOUS
    <3>2. Window(s, j, b) = SubSeq(s, Max({1, (j + 1) - b}), (j + 1) - 1)
      <4>1. Window(s, j, b) = SubSeq(s, Max({1, (j + 1) - b}), j)
        BY <1>1, <3>1, WindowStart
      <4> QED BY <3>1, <4>1
    <3>3. j + 1 \in here
            <=> s[j + 1] = t /\ p = SubSeq(s, Max({1, (j + 1) - b}), (j + 1) - 1)
      BY <3>1
    <3> HIDE DEF here
    <3> QED BY <3>2, <3>3
  <2>3. \A i \in here : /\ i \in m + 1 .. n + 1 /\ i \in Int
                        /\ i - 1 \in at /\ (i - 1) + 1 = i
    OBVIOUS
  <2>4. \A j \in at : j \in Int /\ j + 1 \in m + 1 .. n + 1 /\ (j + 1) - 1 = j
    OBVIOUS
  <2>5. \A j : j \in there <=> j \in at /\ s[j + 1] = t /\ p = Window(s, j, b)
    OBVIOUS
  <2>6. \A x : x \in hits <=> x \in patterns /\ x.next = t /\ x.prefix = p
    OBVIOUS
  <2>7. /\ \A x \in patterns : \E i \in at : x = P(i)
        /\ \A i \in at : P(i) \in patterns
    OBVIOUS
  <2>8. \A i \in here : g[i] = P(i - 1)
    OBVIOUS
  <2>9. g = [i \in here |-> g[i]]
    OBVIOUS
  <2> HIDE DEF patterns, hits, here, there, g, at
  <2>10. ASSUME NEW i \in here
         PROVE  g[i] \in hits /\ g[i].at = i - 1
    <3>1. i - 1 \in there
      BY <2>2, <2>3
    <3>2. i - 1 \in at
      BY <2>5, <3>1
    <3>3. P(i - 1).next = t /\ P(i - 1).prefix = p /\ P(i - 1).at = i - 1
      BY <1>2, <2>5, <3>1, <3>2
    <3> QED BY <2>6, <2>7, <2>8, <3>2, <3>3
  <2>11. ASSUME NEW x \in hits
         PROVE  \E i \in here : g[i] = x
    <3>1. PICK j \in at : x = P(j)
      BY <2>6, <2>7
    <3>2. j \in there
      BY <1>2, <2>5, <2>6, <3>1
    <3>3. j + 1 \in here
      BY <2>2, <2>4, <3>1, <3>2
    <3>4. g[j + 1] = x
      BY <2>4, <2>8, <3>1, <3>3
    <3> QED BY <3>3, <3>4
  <2>12. g \in [here -> hits]
    BY <2>9, <2>10
  <2>13. \A i, j \in here : g[i] = g[j] => i = j
    <3>1. ASSUME NEW i \in here, NEW j \in here, g[i] = g[j]
          PROVE  i = j
      <4>1. i - 1 = j - 1 /\ i \in Int /\ j \in Int
        BY <2>3, <2>10, <3>1
      <4> QED BY <4>1
    <3> QED BY <3>1
  <2>14. ExistsBijection(here, hits)
    BY <2>11, <2>12, <2>13, BijectionExists
  <2>15. IsFiniteSet(here)
    <3>1. here \subseteq m + 1 .. n + 1
      BY <2>3
    <3>2. m + 1 \in Int /\ n + 1 \in Int
      OBVIOUS
    <3>3. IsFiniteSet(m + 1 .. n + 1)
      BY <3>2, FS_Interval
    <3> QED BY <3>1, <3>3, FS_Subset
  <2>16. Cardinality(here) = Cardinality(hits)
    BY <2>14, <2>15, FS_Bijection
  <2> QED BY <2>1, <2>16 DEF here
<1> QED BY <1>3, <1>4 DEF P

(* The last element of a sequence, as a sequence. *)
LEMMA LastAlone ==
  ASSUME NEW S, NEW p \in Seq(S), Len(p) >= 1
  PROVE  SubSeq(p, Len(p), Len(p)) = <<p[Len(p)]>> /\ <<p[Len(p)]>> \in Suffixes(p)
<1> DEFINE x == SubSeq(p, Len(p), Len(p))
<1>1. Len(p) \in Nat /\ Len(p) \in 1 .. Len(p) /\ p[Len(p)] \in S
  OBVIOUS
<1>2. x \in Seq(S) /\ Len(x) = 1 /\ x[1] = p[Len(p)]
  BY <1>1
<1>3. x \in Suffixes(p)
  BY <1>1 DEF Suffixes
<1> HIDE DEF x
<1>4. x = <<x[1]>>
  BY <1>2
<1> QED BY <1>2, <1>3, <1>4 DEF x

(* Descending along a context stops at its longest suffix that is a node. *)
LEMMA DescentStops ==
  ASSUME NEW N, Whole(N), NEW p \in Paths
  PROVE  LET found == {q \in Suffixes(p) : Suffixes(q) \subseteq N}
             d == CHOOSE q \in found : \A r \in found : Len(r) <= Len(q)
         IN  /\ d \in Suffixes(p) \cap N /\ d \in Seq(Tokens)
             /\ \A q \in Suffixes(p) \cap N : Len(q) <= Len(d)
<1> DEFINE found == {q \in Suffixes(p) : Suffixes(q) \subseteq N}
           d == CHOOSE q \in found : \A r \in found : Len(r) <= Len(q)
           lengths == {Len(q) : q \in found}
<1>1. p \in Seq(Tokens) /\ Len(p) \in Nat
  BY PathFacts
<1>2. found = Suffixes(p) \cap N
  <2>1. \A q \in Suffixes(p) : q \in Suffixes(q)
    BY <1>1, SuffixFacts, OwnSuffix
  <2> QED BY <1>1, <2>1 DEF Whole
<1>3. \A q \in found : q \in Seq(Tokens) /\ Len(q) \in Nat /\ Len(q) <= Len(p)
  BY <1>1, SuffixFacts
<1>4. <<>> \in found
  BY <1>1, <1>2, SuffixesArePaths DEF Whole
<1>5. \E q \in found : \A r \in found : Len(r) <= Len(q)
  <2>1. lengths \subseteq Nat /\ lengths # {} /\ \A n \in lengths : n <= Len(p)
    BY <1>3, <1>4
  <2> HIDE DEF lengths
  <2>2. Max(lengths) \in lengths /\ \A n \in lengths : n <= Max(lengths)
    BY <1>1, <2>1, Greatest
  <2> QED BY <2>2 DEF lengths
<1>6. d \in found /\ \A r \in found : Len(r) <= Len(d)
  <2> HIDE DEF found
  <2> QED BY <1>5
<1> HIDE DEF found, d
<1>7. d \in Suffixes(p) \cap N /\ d \in Seq(Tokens) /\ \A q \in Suffixes(p) \cap N : Len(q) <= Len(d)
  BY <1>2, <1>3, <1>6
<1> QED BY <1>7 DEF found, d

(* It gets somewhere when, and only when, the last token is a node. *)
LEMMA DescentStarts ==
  ASSUME NEW N, Whole(N), NEW p \in Contexts
  PROVE  LET found == {q \in Suffixes(p) : Suffixes(q) \subseteq N}
             d == CHOOSE q \in found : \A r \in found : Len(r) <= Len(q)
         IN  d = <<>> <=> <<Last(p)>> \notin N
<1> DEFINE found == {q \in Suffixes(p) : Suffixes(q) \subseteq N}
           d == CHOOSE q \in found : \A r \in found : Len(r) <= Len(q)
<1>1. /\ p \in Paths /\ p \in Seq(Tokens) /\ Len(p) \in Nat /\ Len(p) >= 1
  BY PathFacts DEF Contexts
<1>2. /\ d \in Suffixes(p) \cap N /\ d \in Seq(Tokens)
      /\ \A q \in Suffixes(p) \cap N : Len(q) <= Len(d)
  BY <1>1, DescentStops
<1> HIDE DEF d
<1>3. <<Last(p)>> \in Suffixes(p) /\ Len(<<Last(p)>>) = 1
  <2>1. <<p[Len(p)]>> \in Suffixes(p)
    BY <1>1, LastAlone
  <2> QED BY <2>1 DEF Last
<1>4. d = <<>> => <<Last(p)>> \notin N
  BY <1>2, <1>3, EmptySeq
<1>5. ASSUME d # <<>>
      PROVE  <<Last(p)>> \in N
  <2>1. PICK l \in 1 .. Len(p) : d = SubSeq(p, l, Len(p))
    BY <1>2, <1>5 DEF Suffixes
  <2>2. Len(d) \in Nat /\ Len(d) >= 1 /\ d[Len(d)] = p[Len(p)]
    BY <1>1, <2>1
  <2>3. <<d[Len(d)]>> \in Suffixes(d)
    BY <1>2, <2>2, LastAlone
  <2> QED BY <1>2, <2>2, <2>3 DEF Last, Whole
<1> QED BY <1>4, <1>5 DEF d

-----------------------------------------------------------------------------
(* Tables of observations *)

\* The observations of t.
Of(O, t) == [r \in Paths |-> O[r][t]]

\* What may have been observed by trees with the nodes N: something below each of them
\* except those of E, which may be empty.
Tables(N, E) ==
    {O \in [Paths -> Counts] :
       /\ O[<<>>] = NoCounts
       /\ \A q \in Paths \ N : O[q] = NoCounts
       /\ \A q \in N \ E : \E r \in Below(N, q) : \E t \in Tokens : O[r][t] > 0}

\* The counts of trees that made these observations.
Gatherings(O) ==
    [q \in Paths |-> [t \in Tokens |-> IF q = <<>> THEN 0 ELSE Gathered(Of(O, t), q)]]

\* The table of a set of patterns, and two tables together.
TableOf(patterns) == [q \in Paths |-> [t \in Tokens |-> Exactly(patterns, t)[q]]]

Together(O, W) == [q \in Paths |-> [t \in Tokens |-> O[q][t] + W[q][t]]]

(* The observations of a token are numbers, none at the root and outside the trees. *)
LEMMA OfFacts ==
  ASSUME NEW N, NEW E, NEW O \in Tables(N, E), NEW t \in Tokens
  PROVE  /\ Of(O, t) \in [Paths -> Nat]
         /\ Of(O, t)[<<>>] = 0
         /\ \A q \in Paths \ N : Of(O, t)[q] = 0
         /\ \A q \in Paths : Of(O, t)[q] = O[q][t]
BY RootIsPath DEF Of, Tables, Counts, NoCounts

(* The counts are numbers, and nothing is counted by the set and outside the trees. *)
LEMMA GatheringsFacts ==
  ASSUME NEW N \in Trees, NEW E, NEW O \in Tables(N, E)
  PROVE  /\ Gatherings(O) \in [Paths -> Counts]
         /\ \A q \in Paths : q \notin N \/ q = <<>> => Gatherings(O)[q] = NoCounts
         /\ \A q \in N \ E : q # <<>> => \E t \in Tokens : Gatherings(O)[q][t] > 0
<1> DEFINE G == Gatherings(O)
<1>1. ASSUME NEW q \in Paths, NEW t \in Tokens
      PROVE  /\ G[q][t] = IF q = <<>> THEN 0 ELSE Gathered(Of(O, t), q)
             /\ Gathered(Of(O, t), q) \in Nat
             /\ Gathered(Of(O, t), q) > 0 <=> \E r \in Below(Paths, q) : O[r][t] > 0
  <2>1. Of(O, t) \in [Paths -> Nat] /\ \A r \in Paths : Of(O, t)[r] = O[r][t]
    BY OfFacts
  <2>2. \A r \in Below(Paths, q) : r \in Paths
    BY DEF Below
  <2> QED BY <2>1, <2>2, GatheredType DEF Gatherings
<1>2. N \subseteq Paths /\ Whole(N)
  BY DEF Trees
<1>3. ASSUME NEW q \in Paths, q \notin N, NEW t \in Tokens
      PROVE  Gathered(Of(O, t), q) = 0
  <2>1. ASSUME NEW r \in Below(Paths, q), O[r][t] > 0
        PROVE  FALSE
    <3>1. r \in Paths /\ q \in Suffixes(r)
      BY DEF Below
    <3>2. r \notin N
      BY <1>2, <1>3, <3>1 DEF Whole
    <3> QED BY <2>1, <3>1, <3>2 DEF Tables, NoCounts
  <2> QED BY <1>1, <1>3, <2>1
<1>4. ASSUME NEW q \in N \ E, q # <<>>
      PROVE  \E t \in Tokens : G[q][t] > 0
  <2>1. PICK r \in Below(N, q) : \E t \in Tokens : O[r][t] > 0
    BY DEF Tables
  <2>2. PICK t \in Tokens : O[r][t] > 0
    BY <2>1
  <2>3. r \in Below(Paths, q) /\ q \in Paths
    BY <1>2 DEF Below
  <2> QED BY <1>1, <1>4, <2>2, <2>3
<1>5. G = [q \in Paths |-> [t \in Tokens |-> G[q][t]]]
  BY DEF Gatherings
<1> HIDE DEF G
<1>6. G \in [Paths -> Counts]
  BY <1>1, <1>5 DEF Counts
<1>7. \A q \in Paths : q \notin N \/ q = <<>> => G[q] = NoCounts
  <2>1. \A q \in Paths : G[q] = [t \in Tokens |-> G[q][t]]
    BY <1>5
  <2> QED BY <1>1, <1>3, <2>1 DEF NoCounts
<1> QED BY <1>4, <1>6, <1>7 DEF G

(* What a node's children did not count it observed itself. *)
LEMMA OwnObservations ==
  ASSUME NEW N \in Trees, NEW E, NEW O \in Tables(N, E), NEW p \in Contexts, NEW t \in Tokens
  PROVE  Gatherings(O)[p][t] - SumOver(Children(N, p),
                                       [r \in Children(N, p) |-> Gatherings(O)[r][t]])
           = O[p][t]
<1> DEFINE kids == Children(N, p)
           F == Of(O, t)
           g == [r \in kids |-> Gatherings(O)[r][t]]
<1>1. /\ Whole(N) /\ p \in Paths /\ p # <<>> /\ F \in [Paths -> Nat]
      /\ \A q \in Paths \ N : F[q] = 0
      /\ F[p] = O[p][t]
  BY OfFacts DEF Trees, Contexts
<1>2. \A r \in kids : r \in Paths /\ r # <<>>
  BY <1>1, TreeFinite DEF Children
<1>3. \A r \in kids : g[r] = Gathered(F, r)
  BY <1>2 DEF Gatherings
<1>4. Gatherings(O)[p][t] = Gathered(F, p)
  BY <1>1 DEF Gatherings
<1> HIDE DEF F, g
<1>5. Gathered(F, p) = F[p] + SumOver(kids, g)
  BY <1>1, <1>3, GatheredFromChildren
<1>6. IsFiniteSet(kids) /\ \A r \in kids : g[r] \in Nat
  BY <1>1, <1>2, <1>3, TreeFinite, GatheredType
<1>7. SumOver(kids, g) \in Nat /\ F[p] \in Nat
  BY <1>1, <1>6, SumType
<1> HIDE DEF kids
<1>8. Gathered(F, p) - SumOver(kids, g) = O[p][t]
  BY <1>1, <1>5, <1>7
<1> QED BY <1>4, <1>8 DEF kids, g

(* Patterns are observations of what they touch, *)
LEMMA PatternsTable ==
  ASSUME NEW patterns, Patterned(patterns)
  PROVE  TableOf(patterns) \in Tables({<<>>} \cup Touched(patterns), {<<>>})
<1> DEFINE W == TableOf(patterns)
           N == {<<>>} \cup Touched(patterns)
<1>1. ASSUME NEW t \in Tokens
      PROVE  /\ Exactly(patterns, t) \in [Paths -> Nat]
             /\ \A q \in Paths : q \notin Touched(patterns) => W[q][t] = 0
             /\ W[<<>>][t] = 0
             /\ \A q \in Paths : W[q][t] = Exactly(patterns, t)[q] /\ W[q][t] \in Nat
  BY ExactlyFacts, RootIsPath DEF TableOf
<1>2. W = [q \in Paths |-> [t \in Tokens |-> W[q][t]]]
  BY DEF TableOf
<1>3. ASSUME NEW q \in N \ {<<>>}
      PROVE  \E r \in Below(N, q) : \E t \in Tokens : W[r][t] > 0
  <2>1. PICK x \in patterns : q \in Suffixes(x.prefix)
    BY DEF Touched
  <2>2. x.prefix \in Paths /\ x.next \in Tokens
    BY DEF Patterned, Contexts
  <2>3. x.prefix \in Suffixes(x.prefix)
    BY <2>2, PathFacts, OwnSuffix
  <2>4. x.prefix \in Below(N, q)
    BY <2>1, <2>3 DEF Touched, Below
  <2>5. Exactly(patterns, x.next)[x.prefix] > 0
    BY <2>2, ExactlyFacts
  <2> QED BY <1>1, <2>2, <2>4, <2>5
<1> HIDE DEF W
<1>4. W \in [Paths -> Counts]
  BY <1>1, <1>2 DEF Counts
<1>5. W[<<>>] = NoCounts /\ \A q \in Paths \ N : W[q] = NoCounts
  <2>1. \A q \in Paths : W[q] = [t \in Tokens |-> W[q][t]]
    BY <1>2
  <2> QED BY <1>1, <2>1, RootIsPath DEF NoCounts
<1> QED BY <1>3, <1>4, <1>5 DEF Tables, W

(* and what they touch belongs to a whole tree. *)
LEMMA PatternsTree ==
  ASSUME NEW N \in Trees, NEW patterns, Patterned(patterns)
  PROVE  N \cup Touched(patterns) \in Trees
<1>1. \A x \in patterns : x.prefix \in Paths
  BY DEF Patterned, Contexts
<1> QED BY <1>1, TouchedIsClosed, GrownIsWhole DEF Trees, Whole

(* The observations of a token in the table of the patterns. *)
LEMMA OfTable ==
  ASSUME NEW patterns, NEW t \in Tokens
  PROVE  Of(TableOf(patterns), t) = Exactly(patterns, t)
BY DEF Of, TableOf, Exactly

(* What the patterns add to the total of a node is what they add to its counts. *)
LEMMA PatternsTotal ==
  ASSUME NEW patterns, Patterned(patterns), NEW q \in Paths,
         NEW g, \A t \in Tokens : g[t] = Gathered(Exactly(patterns, t), q)
  PROVE  Cardinality({x \in patterns : q \in Suffixes(x.prefix)}) = SumOver(Tokens, g)
<1> DEFINE X == {x \in patterns : q \in Suffixes(x.prefix)}
           h == [x \in X |-> x.next]
           part == [t \in Tokens |-> {x \in patterns : x.next = t /\ q \in Suffixes(x.prefix)}]
<1>1. IsFiniteSet(X) /\ \A x \in X : h[x] \in Tokens
  BY FS_Subset DEF Patterned
<1>2. \A t \in Tokens : \A x : x \in part[t] <=> x \in X /\ h[x] = t
  OBVIOUS
<1>3. \A t \in Tokens : g[t] = Cardinality(part[t])
  BY PatternsGather
<1> HIDE DEF X, h, part
<1>4. SumOver(Tokens, g) = Cardinality(X)
  BY <1>1, <1>2, <1>3, TokensAssumption, SizeByParts
<1> QED BY <1>4 DEF X

(* Two tables together are a table of the two trees together. *)
LEMMA TogetherTables ==
  ASSUME NEW N \in Trees, NEW E, NEW O \in Tables(N, E),
         NEW M \in Trees, NEW F, NEW W \in Tables(M, F)
  PROVE  /\ Together(O, W) \in Tables(N \cup M, E \cup F)
         /\ \A q \in Paths \ {<<>>} : \A t \in Tokens :
              Gatherings(Together(O, W))[q][t] = Gatherings(O)[q][t] + Gatherings(W)[q][t]
<1> DEFINE A == Together(O, W)
<1>1. ASSUME NEW q \in Paths, NEW t \in Tokens
      PROVE  A[q][t] = O[q][t] + W[q][t] /\ O[q][t] \in Nat /\ W[q][t] \in Nat
  BY DEF Together, Tables, Counts
<1>2. N \subseteq Paths /\ M \subseteq Paths
  BY DEF Trees
<1>3. A = [q \in Paths |-> [t \in Tokens |-> A[q][t]]]
  BY DEF Together
<1> HIDE DEF A
<1>4. A \in [Paths -> Counts]
  BY <1>1, <1>3 DEF Counts
<1>5. A[<<>>] = NoCounts /\ \A q \in Paths \ (N \cup M) : A[q] = NoCounts
  <2>1. \A q \in Paths : A[q] = [t \in Tokens |-> A[q][t]]
    BY <1>3
  <2>2. ASSUME NEW q \in Paths, q = <<>> \/ q \notin N \cup M
        PROVE  A[q] = NoCounts
    <3>1. O[q] = NoCounts /\ W[q] = NoCounts
      BY <2>2 DEF Tables
    <3>2. \A t \in Tokens : A[q][t] = 0
      BY <1>1, <3>1 DEF NoCounts
    <3> QED BY <2>1, <3>2 DEF NoCounts
  <2> QED BY <2>2, RootIsPath
<1>6. ASSUME NEW q \in (N \cup M) \ (E \cup F)
      PROVE  \E r \in Below(N \cup M, q) : \E t \in Tokens : A[r][t] > 0
  <2>1. \E r \in Below(N, q) \cup Below(M, q) :
          r \in Paths /\ \E t \in Tokens : O[r][t] > 0 \/ W[r][t] > 0
    <3>1. CASE q \in N
      BY <1>2, <3>1 DEF Tables, Below
    <3>2. CASE q \in M
      BY <1>2, <3>2 DEF Tables, Below
    <3> QED BY <3>1, <3>2
  <2>2. PICK r \in Below(N, q) \cup Below(M, q) :
          r \in Paths /\ \E t \in Tokens : O[r][t] > 0 \/ W[r][t] > 0
    BY <2>1
  <2>3. r \in Below(N \cup M, q)
    BY DEF Below
  <2>4. PICK t \in Tokens : O[r][t] > 0 \/ W[r][t] > 0
    BY <2>2
  <2> QED BY <1>1, <2>2, <2>3, <2>4
<1>7. ASSUME NEW q \in Paths \ {<<>>}, NEW t \in Tokens
      PROVE  Gatherings(A)[q][t] = Gatherings(O)[q][t] + Gatherings(W)[q][t]
  <2>1. Of(O, t) \in [Paths -> Nat] /\ Of(W, t) \in [Paths -> Nat]
    BY OfFacts
  <2>2. \A r \in Paths : Of(A, t)[r] = Of(O, t)[r] + Of(W, t)[r]
    BY <1>1 DEF Of
  <2>3. Gathered(Of(A, t), q) = Gathered(Of(O, t), q) + Gathered(Of(W, t), q)
    BY <2>1, <2>2, GatheredPlus
  <2> QED BY <2>3 DEF Gatherings
<1> QED BY <1>4, <1>5, <1>6, <1>7 DEF Tables, A

\* What is observed in the table itself, and what the counts say about it.
Mirror(O) == [p \in Contexts |-> [t \in Tokens |-> O[p][t]]]

OwnPart(N, C) ==
    [p \in Contexts |-> [t \in Tokens |->
       C[p][t] - SumOver(Children(N, p), [r \in Children(N, p) |-> C[r][t]])]]

LEMMA OwnIsMirror ==
  ASSUME NEW N \in Trees, NEW E, NEW O \in Tables(N, E)
  PROVE  OwnPart(N, Gatherings(O)) = Mirror(O)
<1>1. \A p \in Contexts : \A t \in Tokens : OwnPart(N, Gatherings(O))[p][t] = O[p][t]
  BY OwnObservations DEF OwnPart
<1>2. OwnPart(N, Gatherings(O))
        = [p \in Contexts |-> [t \in Tokens |-> OwnPart(N, Gatherings(O))[p][t]]]
  BY DEF OwnPart
<1> DEFINE W == OwnPart(N, Gatherings(O))
<1> HIDE DEF W
<1>3. \A p \in Contexts : [t \in Tokens |-> W[p][t]] = [t \in Tokens |-> O[p][t]]
  BY <1>1 DEF W
<1>4. W = [p \in Contexts |-> [t \in Tokens |-> W[p][t]]]
  BY <1>2 DEF W
<1>5. W = Mirror(O)
  BY <1>3, <1>4 DEF Mirror
<1> QED BY <1>5 DEF W

\* No observations.
Blank == [q \in Paths |-> NoCounts]

(* Nothing is observed by empty trees. *)
LEMMA BlankTable ==
  ASSUME NEW N, NEW E, N \subseteq E
  PROVE  /\ Blank \in Tables(N, E)
         /\ Gatherings(Blank) = Blank
         /\ \A q : \A t \in Tokens : Gathered(Of(Blank, t), q) = 0
<1>1. Blank \in Tables(N, E)
  BY RootIsPath DEF Blank, Tables, Counts, NoCounts
<1>2. ASSUME NEW q, NEW t \in Tokens
      PROVE  Gathered(Of(Blank, t), q) = 0
  <2>1. Of(Blank, t) \in [Paths -> Nat] /\ \A r \in Paths : Of(Blank, t)[r] = 0
    BY <1>1, OfFacts DEF Blank, NoCounts
  <2>2. \A r \in Below(Paths, q) : r \in Paths
    BY DEF Below
  <2> QED BY <2>1, <2>2, GatheredType
<1>3. \A q \in Paths : Gatherings(Blank)[q] = NoCounts
  <2> SUFFICES ASSUME NEW q \in Paths
               PROVE  Gatherings(Blank)[q] = NoCounts
    OBVIOUS
  <2>1. Gatherings(Blank)[q]
          = [t \in Tokens |-> IF q = <<>> THEN 0 ELSE Gathered(Of(Blank, t), q)]
    BY DEF Gatherings
  <2>2. \A t \in Tokens : (IF q = <<>> THEN 0 ELSE Gathered(Of(Blank, t), q)) = 0
    BY <1>2
  <2> QED BY <2>1, <2>2 DEF NoCounts
<1>4. Gatherings(Blank) = [q \in Paths |-> Gatherings(Blank)[q]]
  BY DEF Gatherings
<1>5. Gatherings(Blank) = Blank
  <2> DEFINE G == Gatherings(Blank)
  <2> HIDE DEF G
  <2>1. G = [q \in Paths |-> G[q]] /\ \A q \in Paths : G[q] = NoCounts
    BY <1>3, <1>4 DEF G
  <2>2. G = Blank
    BY <2>1 DEF Blank
  <2> QED BY <2>2 DEF G
<1> QED BY <1>1, <1>2, <1>5

(* With nothing it is the table itself. *)
LEMMA TogetherWithNothing ==
  ASSUME NEW W \in [Paths -> Counts]
  PROVE  Together(Blank, W) = W
<1>1. \A q \in Paths : \A t \in Tokens : Together(Blank, W)[q][t] = W[q][t]
  BY DEF Together, Blank, NoCounts, Counts
<1>2. /\ W = [q \in Paths |-> [t \in Tokens |-> W[q][t]]]
      /\ Together(Blank, W) = [q \in Paths |-> [t \in Tokens |-> Together(Blank, W)[q][t]]]
  BY DEF Counts, Together
<1> DEFINE A == Together(Blank, W)
<1> HIDE DEF A
<1>3. \A q \in Paths : [t \in Tokens |-> A[q][t]] = [t \in Tokens |-> W[q][t]]
  BY <1>1 DEF A
<1>4. A = [q \in Paths |-> [t \in Tokens |-> A[q][t]]]
  BY <1>2 DEF A
<1>5. A = W
  BY <1>2, <1>3, <1>4
<1> QED BY <1>5 DEF A

(* One pattern is one observation, *)
LEMMA OnePatternTable ==
  ASSUME NEW p \in Contexts, NEW t \in Tokens
  PROVE  LET told == {[next |-> t, prefix |-> p, at |-> 0]}
         IN  /\ Patterned(told)
             /\ \A q \in Contexts : \A u \in Tokens :
                  TableOf(told)[q][u] = IF q = p /\ u = t THEN 1 ELSE 0
<1> DEFINE x == [next |-> t, prefix |-> p, at |-> 0]
<1>1. x.next = t /\ x.prefix = p
  OBVIOUS
<1> HIDE DEF x
<1>2. Patterned({x})
  BY <1>1, FS_Singleton DEF Patterned
<1>3. ASSUME NEW q \in Contexts, NEW u \in Tokens
      PROVE  TableOf({x})[q][u] = IF q = p /\ u = t THEN 1 ELSE 0
  <2> DEFINE hits == {y \in {x} : y.next = u /\ y.prefix = q}
  <2>1. hits = IF q = p /\ u = t THEN {x} ELSE {}
    BY <1>1
  <2>2. Cardinality({x}) = 1 /\ Cardinality({}) = 0
    BY FS_Singleton, FS_EmptySet
  <2>3. TableOf({x})[q][u] = Cardinality(hits)
    BY DEF TableOf, Exactly, Contexts
  <2> HIDE DEF hits
  <2> QED BY <2>1, <2>2, <2>3
<1> QED BY <1>2, <1>3 DEF x

(* and the patterns of a part of a text are those of the tokens behind it. *)
LEMMA PartOfTextTable ==
  ASSUME NEW s \in Seq(Tokens), NEW b \in Nat, NEW m \in Nat, NEW n \in Int, n < Len(s),
         m >= 1, \A i \in m .. n : Window(s, i, b) \in Contexts
  PROVE  LET told == {Pattern(s, i, b) : i \in m .. n}
         IN  /\ Patterned(told)
             /\ \A p \in Contexts : \A t \in Tokens :
                  TableOf(told)[p][t]
                    = Cardinality({i \in m + 1 .. n + 1 :
                         s[i] = t /\ p = SubSeq(s, Max({1, i - b}), i - 1)})
<1> DEFINE told == {Pattern(s, i, b) : i \in m .. n}
<1>1. /\ Patterned(told)
      /\ \A p \in Contexts : \A t \in Tokens :
           Exactly(told, t)[p]
             = Cardinality({i \in m + 1 .. n + 1 :
                  s[i] = t /\ p = SubSeq(s, Max({1, i - b}), i - 1)})
  BY TextPatterns
<1> HIDE DEF told
<1>2. \A p \in Contexts : \A t \in Tokens : TableOf(told)[p][t] = Exactly(told, t)[p]
  BY DEF TableOf, Contexts
<1> QED BY <1>1, <1>2 DEF told

-----------------------------------------------------------------------------
(* Loops *)

(* What holds at first and is kept from each turn to the next holds to the last. *)
LEMMA Stepwise ==
  ASSUME NEW first \in Nat, NEW last \in Nat, NEW T, first \in T,
         \A i \in first .. last : i \in T /\ i # last => i + 1 \in T
  PROVE  \A i \in first .. last : i \in T
<1> DEFINE bad == {i \in first .. last : i \notin T}
<1>1. SUFFICES ASSUME bad # {}
               PROVE  FALSE
  OBVIOUS
<1>2. bad \subseteq Nat
  OBVIOUS
<1> HIDE DEF bad
<1>3. PICK i \in bad : \A j \in bad : i <= j
  BY <1>1, <1>2, Least
<1>4. i \in first .. last /\ i \notin T
  BY <1>3 DEF bad
<1>5. i - 1 \in first .. last /\ i - 1 # last /\ (i - 1) + 1 = i /\ ~ (i <= i - 1)
  BY <1>4
<1>6. i - 1 \in T
  BY <1>3, <1>5 DEF bad
<1> QED BY <1>4, <1>5, <1>6

\* The states a loop can be in, from those of Z, after each turn; step gives what may follow.
Turns(Z, step, first, last, f) ==
    \A i \in first .. last : f[i] = IF i = first THEN Z ELSE UNION {step[g] : g \in f[i - 1]}

(* A loop can be unrolled to any length. *)
LEMMA LoopUnrolls ==
  ASSUME NEW G, NEW Z \in SUBSET G, NEW step \in [G -> SUBSET G],
         NEW first \in Nat, NEW last \in Nat, first <= last
  PROVE  \E f \in [first .. last -> SUBSET G] : Turns(Z, step, first, last, f)
<1> DEFINE T == {n \in first .. last :
                   \E f \in [first .. n -> SUBSET G] : Turns(Z, step, first, n, f)}
<1>1. first \in T
  <2> DEFINE f == [i \in first .. first |-> Z]
  <2>1. f \in [first .. first -> SUBSET G] /\ \A i \in first .. first : i = first /\ f[i] = Z
    OBVIOUS
  <2> HIDE DEF f
  <2>2. Turns(Z, step, first, first, f)
    BY <2>1 DEF Turns
  <2> QED BY <2>1, <2>2
<1>2. ASSUME NEW n \in first .. last, n \in T, n # last
      PROVE  n + 1 \in T
  <2>1. PICK f \in [first .. n -> SUBSET G] : Turns(Z, step, first, n, f)
    BY <1>2
  <2> DEFINE more == UNION {step[g] : g \in f[n]}
             h == [i \in first .. n + 1 |-> IF i = n + 1 THEN more ELSE f[i]]
  <2>2. n \in first .. n /\ n + 1 \in first .. last /\ n + 1 # first
    BY <1>2
  <2>3. more \in SUBSET G
    <3>1. f[n] \in SUBSET G
      BY <2>1, <2>2
    <3> QED BY <3>1
  <2>4. /\ \A i \in first .. n + 1 : i # n + 1 => i \in first .. n /\ h[i] = f[i]
        /\ h[n + 1] = more
    BY <2>2
  <2> HIDE DEF more
  <2>5. h \in [first .. n + 1 -> SUBSET G]
    BY <2>1, <2>3, <2>4
  <2> HIDE DEF h
  <2>6. ASSUME NEW i \in first .. n + 1
        PROVE  h[i] = IF i = first THEN Z ELSE UNION {step[g] : g \in h[i - 1]}
    <3>1. CASE i = n + 1
      <4>1. h[i - 1] = f[n] /\ h[i] = more /\ i # first
        BY <2>2, <2>4, <3>1
      <4> QED BY <4>1 DEF more
    <3>2. CASE i # n + 1
      <4>1. i \in first .. n /\ h[i] = f[i]
        BY <2>4, <3>2
      <4>2. f[i] = IF i = first THEN Z ELSE UNION {step[g] : g \in f[i - 1]}
        BY <2>1, <4>1 DEF Turns
      <4>3. CASE i = first
        BY <4>1, <4>2, <4>3
      <4>4. CASE i # first
        <5>1. i - 1 \in first .. n + 1 /\ i - 1 # n + 1
          BY <4>1, <4>4
        <5>2. h[i - 1] = f[i - 1]
          BY <2>4, <5>1
        <5> QED BY <4>1, <4>2, <4>4, <5>2
      <4> QED BY <4>3, <4>4
    <3> QED BY <3>1, <3>2
  <2>7. Turns(Z, step, first, n + 1, h)
    BY <2>6 DEF Turns
  <2> QED BY <2>2, <2>5, <2>7
<1>3. last \in first .. last
  OBVIOUS
<1> HIDE DEF T
<1>4. last \in T
  BY <1>1, <1>2, <1>3, Stepwise
<1> QED BY <1>4 DEF T
=============================================================================
