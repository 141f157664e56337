--------------------------- MODULE BeamJobsProofs ---------------------------
(***************************************************************************)
(* Proofs about BeamJobs.                                                  *)
(***************************************************************************)
EXTENDS BeamJobs, SuffixPathsProofs

-----------------------------------------------------------------------------
(* Bags *)

FiniteBag(bag) == bag \in [DOMAIN bag -> Nat \ {0}] /\ IsFiniteSet(DOMAIN bag)

(* What is in a bag has copies there, and only that. *)
LEMMA CopiesType ==
  ASSUME NEW bag, FiniteBag(bag)
  PROVE  \A x : Copies(x, bag) \in Nat /\ (Copies(x, bag) > 0 <=> x \in DOMAIN bag)
<1>1. \A x \in DOMAIN bag : bag[x] \in Nat \ {0}
  BY DEF FiniteBag
<1> QED BY <1>1 DEF Copies

(* A bag is told by the copies of its elements. *)
LEMMA BagByCopies ==
  ASSUME NEW a, FiniteBag(a), NEW b, FiniteBag(b), \A x : Copies(x, a) = Copies(x, b)
  PROVE  a = b
<1>1. ASSUME NEW x
      PROVE  x \in DOMAIN a <=> x \in DOMAIN b
  BY CopiesType
<1>2. DOMAIN a = DOMAIN b
  BY <1>1
<1>3. \A x \in DOMAIN a : a[x] = b[x]
  BY <1>2 DEF Copies
<1>4. a = [x \in DOMAIN a |-> a[x]] /\ b = [x \in DOMAIN b |-> b[x]]
  BY DEF FiniteBag
<1> QED BY <1>2, <1>3, <1>4

(* The sum of two bags. *)
LEMMA PlusBag ==
  ASSUME NEW a, FiniteBag(a), NEW b, FiniteBag(b)
  PROVE  /\ FiniteBag(a (+) b) /\ DOMAIN (a (+) b) = DOMAIN a \cup DOMAIN b
         /\ \A x : Copies(x, a (+) b) = Copies(x, a) + Copies(x, b)
<1> DEFINE D == DOMAIN a \cup DOMAIN b
<1>1. a (+) b = [x \in D |-> Copies(x, a) + Copies(x, b)]
  BY DEF (+), Copies
<1>2. \A x : Copies(x, a) \in Nat /\ Copies(x, b) \in Nat
  BY CopiesType
<1>3. \A x \in D : Copies(x, a) > 0 \/ Copies(x, b) > 0
  BY CopiesType
<1>4. \A x : x \notin D => Copies(x, a) = 0 /\ Copies(x, b) = 0
  BY DEF Copies
<1>5. \A x \in D : Copies(x, a) + Copies(x, b) \in Nat \ {0}
  BY <1>2, <1>3
<1>6. IsFiniteSet(D)
  BY FS_Union DEF FiniteBag
<1>7. DOMAIN (a (+) b) = D /\ \A x \in D : (a (+) b)[x] = Copies(x, a) + Copies(x, b)
  BY <1>1
<1>8. FiniteBag(a (+) b)
  BY <1>1, <1>5, <1>6, <1>7 DEF FiniteBag
<1>9. ASSUME NEW x
      PROVE  Copies(x, a (+) b) = Copies(x, a) + Copies(x, b)
  <2>1. CASE x \in D
    BY <2>1, <1>7 DEF Copies
  <2>2. CASE x \notin D
    BY <2>2, <1>7, <1>4 DEF Copies
  <2> QED BY <2>1, <2>2
<1> QED BY <1>7, <1>8, <1>9

(* A bag of one. *)
LEMMA OneBag ==
  ASSUME NEW y
  PROVE  /\ FiniteBag(SetToBag({y})) /\ DOMAIN SetToBag({y}) = {y}
         /\ \A x : Copies(x, SetToBag({y})) = IF x = y THEN 1 ELSE 0
<1>1. IsFiniteSet({y})
  BY FS_Singleton
<1> QED BY <1>1 DEF SetToBag, FiniteBag, Copies

(* The bag of nothing. *)
LEMMA NoBag == FiniteBag(EmptyBag) /\ DOMAIN EmptyBag = {} /\ \A x : Copies(x, EmptyBag) = 0
<1>1. IsFiniteSet({})
  BY FS_EmptySet
<1> QED BY <1>1 DEF SetToBag, EmptyBag, FiniteBag, Copies

(* What is taken out of a bag that holds it can be put back. *)
LEMMA MinusPlus ==
  ASSUME NEW a, FiniteBag(a), NEW b, FiniteBag(b), b \sqsubseteq a
  PROVE  FiniteBag(a (-) b) /\ DOMAIN (a (-) b) \subseteq DOMAIN a /\ (a (-) b) (+) b = a
<1> DEFINE left == [x \in DOMAIN a |-> IF x \in DOMAIN b THEN a[x] - b[x] ELSE a[x]]
           D == {x \in DOMAIN a : left[x] > 0}
<1>1. a (-) b = [x \in D |-> left[x]]
  BY DEF (-)
<1>2. \A x \in DOMAIN a : a[x] \in Nat \ {0}
  BY DEF FiniteBag
<1>3. DOMAIN b \subseteq DOMAIN a /\ \A x \in DOMAIN b : b[x] \in Nat \ {0} /\ b[x] <= a[x]
  BY DEF FiniteBag, \sqsubseteq
<1>4. \A x \in DOMAIN a : left[x] \in Nat /\ left[x] + Copies(x, b) = a[x]
  BY <1>2, <1>3 DEF Copies
<1> HIDE DEF left
<1>5. D \subseteq DOMAIN a /\ IsFiniteSet(D)
  BY FS_Subset DEF FiniteBag
<1>6. \A x \in D : left[x] \in Nat \ {0}
  BY <1>4
<1>7. DOMAIN (a (-) b) = D /\ \A x \in D : (a (-) b)[x] = left[x]
  BY <1>1
<1>8. FiniteBag(a (-) b)
  BY <1>1, <1>5, <1>6, <1>7 DEF FiniteBag
<1>9. ASSUME NEW x
      PROVE  Copies(x, (a (-) b) (+) b) = Copies(x, a)
  <2>1. Copies(x, (a (-) b) (+) b) = Copies(x, a (-) b) + Copies(x, b)
    BY <1>8, PlusBag
  <2>2. CASE x \in D
    BY <2>1, <2>2, <1>7, <1>4 DEF Copies
  <2>3. CASE x \in DOMAIN a /\ x \notin D
    <3>1. left[x] = 0
      BY <2>3, <1>4
    <3> QED BY <3>1, <2>1, <2>3, <1>7, <1>4 DEF Copies
  <2>4. CASE x \notin DOMAIN a
    BY <2>1, <2>4, <1>7, <1>5, <1>3 DEF Copies
  <2> QED BY <2>2, <2>3, <2>4
<1>10. FiniteBag((a (-) b) (+) b)
  BY <1>8, PlusBag
<1> QED BY <1>5, <1>7, <1>8, <1>9, <1>10, BagByCopies

(* The size of a bag is a number, and that of no bag but the empty one is 0. *)
LEMMA SizeType ==
  ASSUME NEW bag, FiniteBag(bag)
  PROVE  Size(bag) \in Nat /\ (Size(bag) > 0 <=> DOMAIN bag # {})
<1>1. \A x \in DOMAIN bag : bag[x] \in Nat /\ bag[x] > 0
  BY DEF FiniteBag
<1>2. IsFiniteSet(DOMAIN bag)
  BY DEF FiniteBag
<1>3. SumOver(DOMAIN bag, bag) \in Nat
  BY <1>1, <1>2, SumType
<1>4. SumOver(DOMAIN bag, bag) > 0 <=> \E x \in DOMAIN bag : bag[x] > 0
  BY <1>1, <1>2, SumPositive
<1> QED BY <1>1, <1>3, <1>4 DEF Size

(* A bag of size 1 holds one thing, once. *)
LEMMA SizeOne ==
  ASSUME NEW bag, FiniteBag(bag), Size(bag) = 1
  PROVE  \E x \in DOMAIN bag : DOMAIN bag = {x} /\ bag = SetToBag({x})
<1>1. PICK x \in DOMAIN bag : TRUE
  BY SizeType
<1> DEFINE rest == DOMAIN bag \ {x}
<1>2. IsFiniteSet(rest) /\ IsFiniteSet({x}) /\ {x} \cap rest = {} /\ {x} \cup rest = DOMAIN bag
  <2>1. IsFiniteSet(DOMAIN bag) /\ rest \subseteq DOMAIN bag
    BY DEF FiniteBag
  <2>2. IsFiniteSet(rest)
    BY <2>1, FS_Subset
  <2> QED BY <1>1, <2>2, FS_Singleton
<1>3. \A y \in DOMAIN bag : bag[y] \in Nat /\ bag[y] > 0
  BY DEF FiniteBag
<1>4. SumOver(DOMAIN bag, bag) = SumOver({x}, bag) + SumOver(rest, bag)
  <2>1. \A y \in {x} \cup rest : bag[y] \in Nat
    BY <1>2, <1>3
  <2>2. SumOver({x} \cup rest, bag) = SumOver({x}, bag) + SumOver(rest, bag)
    BY <1>2, <2>1, SumUnion
  <2> QED BY <2>2, <1>2
<1>5. SumOver({x}, bag) = bag[x]
  BY <1>3, SumSingle
<1>6. \A y \in rest : bag[y] \in Nat
  BY <1>3
<1>7. SumOver(rest, bag) \in Nat /\ (SumOver(rest, bag) > 0 <=> \E y \in rest : bag[y] > 0)
  BY <1>2, <1>6, SumType, SumPositive
<1>8. bag[x] = 1 /\ SumOver(rest, bag) = 0
  BY <1>1, <1>3, <1>4, <1>5, <1>7 DEF Size
<1>9. rest = {}
  BY <1>3, <1>7, <1>8
<1>10. DOMAIN bag = {x}
  BY <1>2, <1>9
<1>11. bag = [y \in DOMAIN bag |-> bag[y]]
  BY DEF FiniteBag
<1>12. bag = SetToBag({x})
  BY <1>8, <1>10, <1>11 DEF SetToBag
<1> QED BY <1>10, <1>12

(* The image of a finite set. *)
LEMMA ImageFinite ==
  ASSUME NEW S, IsFiniteSet(S), NEW key
  PROVE  IsFiniteSet({key[x] : x \in S})
<1> DEFINE image == {key[x] : x \in S}
           f == [x \in S |-> key[x]]
<1>1. f \in Surjection(S, image)
  BY DEF Surjection
<1> QED BY <1>1, FS_Surjection

Having(S, key, k) == {x \in S : key[x] = k}

(* A tally holds each key as often as there are elements with it. *)
LEMMA TallyBag ==
  ASSUME NEW S, IsFiniteSet(S), NEW key
  PROVE  /\ FiniteBag(Tally(S, key)) /\ DOMAIN Tally(S, key) = {key[x] : x \in S}
         /\ \A k : Copies(k, Tally(S, key)) = Cardinality(Having(S, key, k))
<1> DEFINE D == {key[x] : x \in S}
           part(k) == {x \in S : key[x] = k}
<1>1. IsFiniteSet(D)
  BY ImageFinite
<1>2. ASSUME NEW k
      PROVE  /\ IsFiniteSet(part(k)) /\ Cardinality(part(k)) \in Nat
             /\ Cardinality(part(k)) = 0 <=> part(k) = {}
  <2>1. IsFiniteSet(part(k))
    BY FS_Subset
  <2> HIDE DEF part
  <2> QED BY <2>1, FS_CardinalityType, FS_EmptySet
<1>3. \A k : k \in D <=> part(k) # {}
  OBVIOUS
<1>4. Tally(S, key) = [k \in D |-> Cardinality(part(k))]
  BY DEF Tally
<1> HIDE DEF part, D
<1>5. \A k \in D : Cardinality(part(k)) \in Nat \ {0}
  BY <1>2, <1>3
<1>6. DOMAIN Tally(S, key) = D /\ \A k \in D : Tally(S, key)[k] = Cardinality(part(k))
  BY <1>4
<1>7. FiniteBag(Tally(S, key))
  BY <1>1, <1>4, <1>5, <1>6 DEF FiniteBag
<1>8. \A k : Copies(k, Tally(S, key)) = Cardinality(part(k))
  BY <1>2, <1>3, <1>6 DEF Copies
<1> QED BY <1>6, <1>7, <1>8 DEF part, D, Having

(* It is as large as the set it is made of. *)
LEMMA TallySize ==
  ASSUME NEW S, IsFiniteSet(S), NEW key
  PROVE  Size(Tally(S, key)) = Cardinality(S)
<1> DEFINE D == DOMAIN Tally(S, key)
           part == [k \in D |-> {x \in S : key[x] = k}]
<1>1. IsFiniteSet(D) /\ D = {key[x] : x \in S}
  BY TallyBag DEF FiniteBag
<1>2. \A x \in S : key[x] \in D
  BY <1>1
<1>3. \A k \in D : \A x : x \in part[k] <=> x \in S /\ key[x] = k
  OBVIOUS
<1>4. \A k \in D : Tally(S, key)[k] = Cardinality(part[k])
  BY DEF Tally
<1> DEFINE bag == Tally(S, key)
<1>5. \A k \in D : bag[k] = Cardinality(part[k])
  BY <1>4
<1> HIDE DEF D, part, bag
<1>6. SumOver(D, bag) = Cardinality(S)
  BY <1>1, <1>2, <1>3, <1>5, SizeByParts
<1> QED BY <1>6 DEF Size, D, bag

(* Tallies of disjoint sets add up. *)
LEMMA TallyUnion ==
  ASSUME NEW S, IsFiniteSet(S), NEW T, IsFiniteSet(T), S \cap T = {},
         NEW f, NEW g, NEW h, \A x \in S : f[x] = h[x], \A x \in T : g[x] = h[x]
  PROVE  Tally(S, f) (+) Tally(T, g) = Tally(S \cup T, h)
<1>1. IsFiniteSet(S \cup T)
  BY FS_Union
<1>2. FiniteBag(Tally(S, f)) /\ FiniteBag(Tally(T, g)) /\ FiniteBag(Tally(S \cup T, h))
  BY <1>1, TallyBag
<1>3. FiniteBag(Tally(S, f) (+) Tally(T, g))
  BY <1>2, PlusBag
<1>4. ASSUME NEW k
      PROVE  Copies(k, Tally(S, f) (+) Tally(T, g)) = Copies(k, Tally(S \cup T, h))
  <2> DEFINE left == {x \in S : f[x] = k}
             right == {x \in T : g[x] = k}
  <2>1. IsFiniteSet(left) /\ IsFiniteSet(right)
    BY FS_Subset
  <2>2. left \cap right = {} /\ left \cup right = {x \in S \cup T : h[x] = k}
    OBVIOUS
  <2>3. Copies(k, Tally(S, f)) = Cardinality(left) /\ Copies(k, Tally(T, g)) = Cardinality(right)
    <3>1. left = Having(S, f, k) /\ right = Having(T, g, k)
      BY DEF Having
    <3>2. \A x : Copies(x, Tally(S, f)) = Cardinality(Having(S, f, x))
      BY TallyBag
    <3>3. \A x : Copies(x, Tally(T, g)) = Cardinality(Having(T, g, x))
      BY TallyBag
    <3> QED BY <3>1, <3>2, <3>3
  <2>4. Copies(k, Tally(S \cup T, h)) = Cardinality(left \cup right)
    <3>1. left \cup right = Having(S \cup T, h, k)
      BY <2>2 DEF Having
    <3>2. \A x : Copies(x, Tally(S \cup T, h)) = Cardinality(Having(S \cup T, h, x))
      BY <1>1, TallyBag
    <3> QED BY <3>1, <3>2
  <2> HIDE DEF left, right
  <2>5. Cardinality(left \cup right) = Cardinality(left) + Cardinality(right)
    BY <2>1, <2>2, DisjointSize
  <2>6. Copies(k, Tally(S, f) (+) Tally(T, g)) = Copies(k, Tally(S, f)) + Copies(k, Tally(T, g))
    <3> DEFINE a == Tally(S, f)
               b == Tally(T, g)
    <3> HIDE DEF a, b
    <3>1. Copies(k, a (+) b) = Copies(k, a) + Copies(k, b)
      BY <1>2, PlusBag DEF a, b
    <3> QED BY <3>1 DEF a, b
  <2> QED BY <2>3, <2>4, <2>5, <2>6
<1> QED BY <1>2, <1>3, <1>4, BagByCopies

(* A tally of one. *)
LEMMA TallyOne ==
  ASSUME NEW x, NEW key
  PROVE  Tally({x}, key) = SetToBag({key[x]})
<1>1. {key[y] : y \in {x}} = {key[x]} /\ {y \in {x} : key[y] = key[x]} = {x}
  OBVIOUS
<1>2. Cardinality({x}) = 1
  BY FS_Singleton
<1> QED BY <1>1, <1>2 DEF Tally, SetToBag

(* Different keys make a tally a set. *)
LEMMA TallySet ==
  ASSUME NEW S, IsFiniteSet(S), NEW key, \A x, y \in S : key[x] = key[y] => x = y
  PROVE  Tally(S, key) = SetToBag({key[x] : x \in S})
<1>1. ASSUME NEW x \in S
      PROVE  Cardinality({y \in S : key[y] = key[x]}) = 1
  <2>1. {y \in S : key[y] = key[x]} = {x}
    OBVIOUS
  <2> QED BY <2>1, FS_Singleton
<1>2. \A k \in {key[x] : x \in S} : Cardinality({y \in S : key[y] = k}) = 1
  BY <1>1
<1> QED BY <1>2 DEF Tally, SetToBag

-----------------------------------------------------------------------------
(* Accumulators *)

LEMMA TheOne == \A x : The({x}) = x
BY DEF The

Accumulators(A) ==
    FiniteBag(A) /\ \A acc \in DOMAIN A : \E value : acc = {value} /\ FiniteBag(value)

\* How often c is in all the accumulators of a bag.
Weight(A, c) == SumOver(DOMAIN A, [acc \in DOMAIN A |-> A[acc] * Copies(c, The(acc))])

LEMMA AccumulatorType ==
  ASSUME NEW A, Accumulators(A), NEW acc \in DOMAIN A
  PROVE  /\ acc = {The(acc)} /\ FiniteBag(The(acc)) /\ acc # {}
         /\ \A c : Copies(c, The(acc)) \in Nat
<1>1. PICK value : acc = {value} /\ FiniteBag(value)
  BY DEF Accumulators
<1>2. The(acc) = value
  BY <1>1, TheOne
<1> QED BY <1>1, <1>2, CopiesType

LEMMA Products ==
    /\ \A i, j \in Nat : i * j \in Nat
    /\ \A i, j, k \in Nat : (i + j) * k = i * k + j * k
    /\ \A i \in Nat : 0 * i = 0 /\ 1 * i = i
OBVIOUS

(* The sum can be taken over more than is there. *)
LEMMA WeightWider ==
  ASSUME NEW A, Accumulators(A), NEW D, IsFiniteSet(D), DOMAIN A \subseteq D, NEW c,
         \A acc \in D : Copies(c, The(acc)) \in Nat,
         NEW f, \A acc \in D : f[acc] = Copies(acc, A) * Copies(c, The(acc))
  PROVE  Weight(A, c) \in Nat /\ SumOver(D, f) = Weight(A, c)
<1> DEFINE g == [acc \in DOMAIN A |-> A[acc] * Copies(c, The(acc))]
<1>1. \A acc : Copies(acc, A) \in Nat
  BY CopiesType DEF Accumulators
<1>2. \A acc \in D : f[acc] \in Nat
  BY <1>1, Products
<1>3. \A acc \in D \ DOMAIN A : f[acc] = 0
  <2>1. \A acc \in D \ DOMAIN A : Copies(acc, A) = 0
    BY DEF Copies
  <2> QED BY <2>1, Products
<1>4. \A acc \in DOMAIN A : g[acc] = f[acc]
  BY DEF Copies
<1> HIDE DEF g
<1>5. SumOver(D, f) = SumOver(DOMAIN A, f)
  BY <1>2, <1>3, SumWider
<1>6. SumOver(DOMAIN A, g) = SumOver(DOMAIN A, f)
  BY <1>4, SumSame
<1>7. SumOver(D, f) \in Nat
  BY <1>2, SumType
<1> QED BY <1>5, <1>6, <1>7 DEF Weight, g

LEMMA WeightType ==
  ASSUME NEW A, Accumulators(A), NEW c
  PROVE  Weight(A, c) \in Nat
<1> DEFINE D == DOMAIN A
           f == [acc \in D |-> Copies(acc, A) * Copies(c, The(acc))]
<1>1. IsFiniteSet(D) /\ DOMAIN A \subseteq D
  BY DEF Accumulators, FiniteBag
<1>2. \A acc \in D : Copies(c, The(acc)) \in Nat
  BY AccumulatorType
<1>3. \A acc \in D : f[acc] = Copies(acc, A) * Copies(c, The(acc))
  OBVIOUS
<1> HIDE DEF D, f
<1> QED BY <1>1, <1>2, <1>3, WeightWider

(* Accumulators of two bags together. *)
LEMMA WeightPlus ==
  ASSUME NEW A, Accumulators(A), NEW C, Accumulators(C), NEW c
  PROVE  Accumulators(A (+) C) /\ Weight(A (+) C, c) = Weight(A, c) + Weight(C, c)
<1> DEFINE D == DOMAIN A \cup DOMAIN C
           a == [acc \in D |-> Copies(acc, A) * Copies(c, The(acc))]
           b == [acc \in D |-> Copies(acc, C) * Copies(c, The(acc))]
           s == [acc \in D |-> Copies(acc, A (+) C) * Copies(c, The(acc))]
<1>1. /\ FiniteBag(A (+) C) /\ DOMAIN (A (+) C) = D
      /\ \A acc : Copies(acc, A (+) C) = Copies(acc, A) + Copies(acc, C)
  BY PlusBag DEF Accumulators
<1>2. Accumulators(A (+) C)
  BY <1>1 DEF Accumulators
<1>3. \A acc : Copies(acc, A) \in Nat /\ Copies(acc, C) \in Nat
  BY CopiesType DEF Accumulators
<1>4. \A acc \in D : Copies(c, The(acc)) \in Nat
  BY AccumulatorType
<1>5. IsFiniteSet(D)
  BY FS_Union DEF Accumulators, FiniteBag
<1>6. \A acc \in D : a[acc] \in Nat /\ b[acc] \in Nat /\ s[acc] = a[acc] + b[acc]
  <2> TAKE acc \in D
  <2>1. Copies(acc, A (+) C) * Copies(c, The(acc))
          = Copies(acc, A) * Copies(c, The(acc)) + Copies(acc, C) * Copies(c, The(acc))
    BY <1>1, <1>3, <1>4, Products
  <2>2. Copies(acc, A) * Copies(c, The(acc)) \in Nat /\ Copies(acc, C) * Copies(c, The(acc)) \in Nat
    BY <1>3, <1>4, Products
  <2> QED BY <2>1, <2>2
<1>7. /\ \A acc \in D : a[acc] = Copies(acc, A) * Copies(c, The(acc))
      /\ \A acc \in D : b[acc] = Copies(acc, C) * Copies(c, The(acc))
      /\ \A acc \in D : s[acc] = Copies(acc, A (+) C) * Copies(c, The(acc))
      /\ DOMAIN A \subseteq D /\ DOMAIN C \subseteq D /\ DOMAIN (A (+) C) \subseteq D
  BY <1>1
<1> HIDE DEF D, a, b, s
<1>8. SumOver(D, a) = Weight(A, c)
  BY <1>4, <1>5, <1>7, WeightWider
<1>9. SumOver(D, b) = Weight(C, c)
  BY <1>4, <1>5, <1>7, WeightWider
<1>10. SumOver(D, s) = Weight(A (+) C, c)
  <2> DEFINE AC == A (+) C
  <2>1. Accumulators(AC) /\ DOMAIN AC \subseteq D
        /\ \A acc \in D : s[acc] = Copies(acc, AC) * Copies(c, The(acc))
    BY <1>2, <1>7
  <2> HIDE DEF AC
  <2>2. SumOver(D, s) = Weight(AC, c)
    BY <2>1, <1>4, <1>5, WeightWider
  <2> QED BY <2>2 DEF AC
<1>11. SumOver(D, s) = SumOver(D, a) + SumOver(D, b)
  BY <1>5, <1>6, SumPlus
<1> QED BY <1>2, <1>8, <1>9, <1>10, <1>11

(* One accumulator. *)
LEMMA WeightOne ==
  ASSUME NEW value, FiniteBag(value), NEW c
  PROVE  Accumulators(SetToBag({{value}})) /\ Weight(SetToBag({{value}}), c) = Copies(c, value)
<1> DEFINE acc == {value}
           f == [x \in {acc} |-> SetToBag({acc})[x] * Copies(c, The(x))]
<1>1. FiniteBag(SetToBag({acc})) /\ DOMAIN SetToBag({acc}) = {acc}
  BY OneBag
<1>2. Accumulators(SetToBag({acc}))
  BY <1>1 DEF Accumulators
<1>3. SetToBag({acc})[acc] = 1 /\ The(acc) = value
  BY TheOne DEF SetToBag
<1>4. Copies(c, value) \in Nat
  BY CopiesType
<1>5. f[acc] = Copies(c, value) /\ f[acc] \in Nat
  BY <1>3, <1>4
<1>6. SumOver({acc}, f) = Copies(c, value)
  <2> HIDE DEF f, acc
  <2> QED BY <1>5, SumSingle
<1> QED BY <1>1, <1>2, <1>6 DEF Weight

-----------------------------------------------------------------------------
(* Merging the accumulators of a list *)

Joined(acc, inp) ==
    IF inp = None THEN acc ELSE IF acc = None THEN inp ELSE {The(acc) (+) The(inp)}

MergedBy(list, f) ==
    f = [n \in 0 .. Len(list) |->
           IF n = 0 THEN None
           ELSE IF list[n] = None THEN f[n - 1]
           ELSE IF f[n - 1] = None THEN list[n]
           ELSE {The(f[n - 1]) (+) The(list[n])}]

SummedBy(list, f) ==
    f = [n \in 0 .. Len(list) |-> IF n = 0 THEN None ELSE Plus(f[n - 1], list[n])]

LEMMA MergeUnrolled ==
  ASSUME NEW list
  PROVE  /\ merge_accumulators(list) = (CHOOSE f : MergedBy(list, f))[Len(list)]
         /\ Sum(list) = (CHOOSE f : SummedBy(list, f))[Len(list)]
<1>1. merge_accumulators(list) = (CHOOSE f : MergedBy(list, f))[Len(list)]
  BY Zenon DEF merge_accumulators, MergedBy
<1>2. Sum(list) = (CHOOSE f : SummedBy(list, f))[Len(list)]
  BY Zenon DEF Sum, SummedBy
<1> QED BY <1>1, <1>2

(* Trees are merged as counts are summed. *)
LEMMA SummedIsMerged ==
  ASSUME NEW list, NEW f
  PROVE  SummedBy(list, f) <=> MergedBy(list, f)
<1> DEFINE L == Len(list)
           turn == [n \in 0 .. L |->
                      IF n = 0 THEN None
                      ELSE IF list[n] = None THEN f[n - 1]
                      ELSE IF f[n - 1] = None THEN list[n]
                      ELSE {The(f[n - 1]) (+) The(list[n])}]
           sum == [n \in 0 .. L |-> IF n = 0 THEN None ELSE Plus(f[n - 1], list[n])]
<1>1. \A n \in 0 .. L : turn[n] = sum[n]
  BY DEF Plus
<1>2. turn = [n \in 0 .. L |-> turn[n]] /\ sum = [n \in 0 .. L |-> sum[n]]
  OBVIOUS
<1>3. (MergedBy(list, f) <=> f = turn) /\ (SummedBy(list, f) <=> f = sum)
  BY Zenon DEF MergedBy, SummedBy
<1> HIDE DEF turn, sum
<1> QED BY <1>1, <1>2, <1>3

(* What a list of at most three is merged to. *)
LEMMA MergeThree ==
  ASSUME NEW list, Len(list) \in {2, 3}
  PROVE  LET two == Joined(Joined(None, list[1]), list[2])
         IN  /\ merge_accumulators(list) = IF Len(list) = 2 THEN two ELSE Joined(two, list[3])
             /\ Sum(list) = IF Len(list) = 2 THEN two ELSE Joined(two, list[3])
<1> DEFINE L == Len(list)
           one == Joined(None, list[1])
           two == Joined(one, list[2])
           three == Joined(two, list[3])
           h == [n \in 0 .. L |-> IF n = 0 THEN None ELSE IF n = 1 THEN one
                                  ELSE IF n = 2 THEN two ELSE three]
           turn(f) == [n \in 0 .. L |->
                         IF n = 0 THEN None
                         ELSE IF list[n] = None THEN f[n - 1]
                         ELSE IF f[n - 1] = None THEN list[n]
                         ELSE {The(f[n - 1]) (+) The(list[n])}]
<1>2. \A n \in 0 .. L : n # 0 => n - 1 \in 0 .. L /\ (n = 1 \/ n = 2 \/ n = 3)
  <2>1. \A l \in {2, 3} : \A n \in 0 .. l : n # 0 => n - 1 \in 0 .. l /\ (n = 1 \/ n = 2 \/ n = 3)
    OBVIOUS
  <2> HIDE DEF L, h
  <2> QED BY <2>1 DEF L
<1>3. \A n \in 0 .. L : h[n] = IF n = 0 THEN None ELSE Joined(h[n - 1], list[n])
  <2>1. /\ h[0] = None /\ (1 \in 0 .. L => h[1] = one) /\ (2 \in 0 .. L => h[2] = two)
        /\ (3 \in 0 .. L => h[3] = three)
    OBVIOUS
  <2> HIDE DEF h, three, two, one
  <2>2. TAKE n \in 0 .. L
  <2>3. CASE n = 0
    BY <2>1, <2>3
  <2>4. CASE n = 1
    BY <2>1, <2>4 DEF one
  <2>5. CASE n = 2
    BY <2>1, <2>5 DEF two
  <2>6. CASE n = 3
    BY <2>1, <2>6 DEF three
  <2> QED BY <1>2, <2>3, <2>4, <2>5, <2>6
<1>4. h = turn(h)
  <2>1. ASSUME NEW n \in 0 .. L
        PROVE  h[n] = turn(h)[n]
    <3> HIDE DEF h
    <3>1. turn(h)[n] = IF n = 0 THEN None ELSE Joined(h[n - 1], list[n])
      BY DEF Joined
    <3> HIDE DEF turn
    <3> QED BY <3>1, <1>3
  <2>2. h = [n \in 0 .. L |-> h[n]] /\ turn(h) = [n \in 0 .. L |-> turn(h)[n]]
    OBVIOUS
  <2> HIDE DEF h, turn
  <2> QED BY <2>1, <2>2
<1> HIDE DEF h
<1>5. MergedBy(list, h)
  BY <1>4, Zenon DEF MergedBy
<1>6. ASSUME NEW f, MergedBy(list, f)
      PROVE  f[L] = IF L = 2 THEN two ELSE three
  <2>1. f = turn(f)
    BY <1>6, Zenon DEF MergedBy
  <2>2. \A n \in 0 .. L : turn(f)[n] = IF n = 0 THEN None ELSE Joined(f[n - 1], list[n])
    BY DEF Joined
  <2> HIDE DEF turn
  <2>3. \A n \in 0 .. L : f[n] = IF n = 0 THEN None ELSE Joined(f[n - 1], list[n])
    BY <2>1, <2>2
  <2> HIDE DEF one, two, three
  <2>4. f[0] = None
    BY <2>3
  <2>5. f[1] = one
    BY <2>3, <2>4 DEF one
  <2>6. f[2] = two
    BY <2>3, <2>5 DEF two
  <2>7. L = 3 => f[3] = three
    BY <2>3, <2>6 DEF three
  <2> QED BY <2>6, <2>7
<1> DEFINE f == CHOOSE x : MergedBy(list, x)
           g == CHOOSE x : SummedBy(list, x)
<1>7. MergedBy(list, f)
  BY <1>5
<1>8. MergedBy(list, g)
  <2>1. SummedBy(list, h)
    BY <1>5, SummedIsMerged
  <2>2. SummedBy(list, g)
    BY <2>1
  <2> HIDE DEF g
  <2> QED BY <2>2, SummedIsMerged
<1>9. merge_accumulators(list) = f[L] /\ Sum(list) = g[L]
  BY MergeUnrolled
<1> HIDE DEF f, g
<1>10. /\ f[L] = IF L = 2 THEN two ELSE three
       /\ g[L] = IF L = 2 THEN two ELSE three
  BY <1>6, <1>7, <1>8
<1> HIDE DEF one, two
<1> QED BY <1>9, <1>10 DEF three, two, one

-----------------------------------------------------------------------------
(* The accumulator of a bundle *)

\* How often c is in the bags v[e], e in T; and their sum.
Held(T, v, c) == SumOver(T, [e \in T |-> Copies(c, v[e])])
Joint(T, v) == [c \in UNION {DOMAIN v[e] : e \in T} |-> Held(T, v, c)]

LEMMA HeldType ==
  ASSUME NEW T, IsFiniteSet(T), NEW v, \A e \in T : FiniteBag(v[e])
  PROVE  \A c : /\ Held(T, v, c) \in Nat
                /\ Held(T, v, c) > 0 <=> \E e \in T : c \in DOMAIN v[e]
<1> TAKE c
<1> DEFINE f == [e \in T |-> Copies(c, v[e])]
<1>1. \A e \in T : f[e] \in Nat /\ (f[e] > 0 <=> c \in DOMAIN v[e])
  BY CopiesType
<1> HIDE DEF f
<1>2. SumOver(T, f) \in Nat
  BY <1>1, SumType
<1>3. SumOver(T, f) > 0 <=> \E e \in T : f[e] > 0
  BY <1>1, SumPositive
<1> QED BY <1>1, <1>2, <1>3 DEF Held, f

LEMMA JointBag ==
  ASSUME NEW T, IsFiniteSet(T), NEW v, \A e \in T : FiniteBag(v[e])
  PROVE  FiniteBag(Joint(T, v)) /\ \A c : Copies(c, Joint(T, v)) = Held(T, v, c)
<1> DEFINE D == UNION {DOMAIN v[e] : e \in T}
           doms == [e \in T |-> DOMAIN v[e]]
<1>1. \A c : c \in D <=> \E e \in T : c \in DOMAIN v[e]
  OBVIOUS
<1>2. IsFiniteSet(D)
  <2>1. IsFiniteSet({doms[e] : e \in T})
    BY ImageFinite
  <2>2. {doms[e] : e \in T} = {DOMAIN v[e] : e \in T}
    OBVIOUS
  <2>3. \A X \in {DOMAIN v[e] : e \in T} : IsFiniteSet(X)
    BY DEF FiniteBag
  <2> QED BY <2>1, <2>2, <2>3, FS_UNION
<1>3. \A c : Held(T, v, c) \in Nat /\ (Held(T, v, c) > 0 <=> c \in D)
  BY <1>1, HeldType
<1>4. Joint(T, v) = [c \in D |-> Held(T, v, c)]
  BY DEF Joint
<1> HIDE DEF D
<1>5. DOMAIN Joint(T, v) = D /\ \A c \in D : Joint(T, v)[c] = Held(T, v, c)
  BY <1>4
<1>6. \A c \in D : Held(T, v, c) \in Nat \ {0}
  BY <1>3
<1>7. FiniteBag(Joint(T, v))
  BY <1>2, <1>4, <1>5, <1>6 DEF FiniteBag
<1>8. \A c : Copies(c, Joint(T, v)) = Held(T, v, c)
  BY <1>3, <1>5 DEF Copies
<1> QED BY <1>7, <1>8

(* It can be put together one by one. *)
LEMMA HeldUnion ==
  ASSUME NEW S, IsFiniteSet(S), NEW T, IsFiniteSet(T), S \cap T = {}, NEW v,
         \A e \in S \cup T : FiniteBag(v[e])
  PROVE  \A c : Held(S \cup T, v, c) = Held(S, v, c) + Held(T, v, c)
<1> TAKE c
<1> DEFINE f == [e \in S \cup T |-> Copies(c, v[e])]
           g == [e \in S |-> Copies(c, v[e])]
           h == [e \in T |-> Copies(c, v[e])]
<1>1. \A e \in S \cup T : f[e] \in Nat
  BY CopiesType
<1>2. (\A e \in S : g[e] = f[e]) /\ (\A e \in T : h[e] = f[e])
  OBVIOUS
<1> HIDE DEF f, g, h
<1>3. SumOver(S \cup T, f) = SumOver(S, f) + SumOver(T, f)
  BY <1>1, SumUnion
<1>4. SumOver(S, g) = SumOver(S, f) /\ SumOver(T, h) = SumOver(T, f)
  BY <1>2, SumSame
<1> QED BY <1>3, <1>4 DEF Held, f, g, h

LEMMA HeldSame ==
  ASSUME NEW T, NEW v, NEW w, \A e \in T : v[e] = w[e]
  PROVE  \A c : Held(T, v, c) = Held(T, w, c)
<1> TAKE c
<1> DEFINE f == [e \in T |-> Copies(c, v[e])]
           g == [e \in T |-> Copies(c, w[e])]
<1>1. \A e \in T : f[e] = g[e]
  OBVIOUS
<1> HIDE DEF f, g
<1>2. SumOver(T, f) = SumOver(T, g)
  BY <1>1, SumSame
<1> QED BY <1>2 DEF Held, f, g

LEMMA HeldOne ==
  ASSUME NEW e, NEW v, FiniteBag(v[e])
  PROVE  \A c : Held({e}, v, c) = Copies(c, v[e])
<1> TAKE c
<1> DEFINE f == [x \in {e} |-> Copies(c, v[x])]
<1>1. f[e] = Copies(c, v[e]) /\ f[e] \in Nat
  BY CopiesType
<1> HIDE DEF f
<1>2. SumOver({e}, f) = f[e]
  BY <1>1, SumSingle
<1> QED BY <1>1, <1>2 DEF Held, f

LEMMA JointGrows ==
  ASSUME NEW T, IsFiniteSet(T), NEW v, \A e \in T : FiniteBag(v[e]), NEW e \in T
  PROVE  /\ T = {e} => Joint(T, v) = v[e]
         /\ Joint(T, v) = Joint(T \ {e}, v) (+) v[e]
<1> DEFINE R == T \ {e}
<1>1. IsFiniteSet(R) /\ IsFiniteSet({e}) /\ R \cap {e} = {} /\ R \cup {e} = T
  BY FS_Subset, FS_Singleton
<1>2. \A x \in R : FiniteBag(v[x])
  OBVIOUS
<1> HIDE DEF R
<1>3. FiniteBag(Joint(T, v)) /\ \A c : Copies(c, Joint(T, v)) = Held(T, v, c)
  BY JointBag
<1>4. FiniteBag(Joint(R, v)) /\ \A c : Copies(c, Joint(R, v)) = Held(R, v, c)
  BY <1>1, <1>2, JointBag
<1>5. FiniteBag(v[e]) /\ \A c : Held({e}, v, c) = Copies(c, v[e])
  BY HeldOne
<1>6. T = {e} => Joint(T, v) = v[e]
  BY <1>3, <1>5, BagByCopies
<1>7. \A c : Held(T, v, c) = Held(R, v, c) + Copies(c, v[e])
  <2>1. \A c : Held(R \cup {e}, v, c) = Held(R, v, c) + Held({e}, v, c)
    BY <1>1, HeldUnion
  <2> QED BY <2>1, <1>1, <1>5
<1>8. /\ FiniteBag(Joint(R, v) (+) v[e])
      /\ \A c : Copies(c, Joint(R, v) (+) v[e]) = Copies(c, Joint(R, v)) + Copies(c, v[e])
  BY <1>4, <1>5, PlusBag
<1>9. Joint(T, v) = Joint(R, v) (+) v[e]
  <2> DEFINE b == Joint(R, v) (+) v[e]
  <2>1. FiniteBag(b) /\ \A c : Copies(c, Joint(T, v)) = Copies(c, b)
    BY <1>3, <1>4, <1>7, <1>8
  <2> HIDE DEF b
  <2>2. Joint(T, v) = b
    BY <1>3, <2>1, BagByCopies
  <2> QED BY <2>2 DEF b
<1> QED BY <1>6, <1>9 DEF R

LiftedBy(E, j, k, f) ==
    f = [T \in SUBSET E |->
           IF T = {} THEN create_accumulator
           ELSE LET e == CHOOSE x \in T : TRUE
                IN  Add(j, f[T \ {e}], Process(j, e[1]).values[k])]

(* Counts are added as trees are merged. *)
LEMMA AddIs == \A j, acc, value : Add(j, acc, value) = add_input(acc, value)
<1> SUFFICES ASSUME NEW j, NEW acc, NEW value
             PROVE  Add(j, acc, value) = add_input(acc, value)
  OBVIOUS
<1>1. {value} # None /\ The({value}) = value
  BY TheOne DEF None
<1> QED BY <1>1 DEF Add, Plus, add_input

LEMMA LiftedUnrolled ==
  ASSUME NEW S, NEW k
  PROVE  Lifted(S, k) = (CHOOSE f : LiftedBy(Emitted(S, k), job, k, f))[Emitted(S, k)]
BY Zenon DEF Lifted, LiftedBy

\* What the element e of a bundle gives for the key k.
ValuesBy(j, E, k) == [e \in E |-> Process(j, e[1]).values[k]]

(* The accumulator of a bundle is the sum of what its rows give for the key. *)
LEMMA LiftedIs ==
  ASSUME NEW S, NEW k, NEW E, E = Emitted(S, k), IsFiniteSet(E), E # {},
         NEW v, v = ValuesBy(job, E, k), \A e \in E : FiniteBag(v[e])
  PROVE  Lifted(S, k) = {Joint(E, v)}
<1> DEFINE some(T) == CHOOSE x \in T : TRUE
           h == [T \in SUBSET E |-> IF T = {} THEN None ELSE {Joint(T, v)}]
           turn(f) == [T \in SUBSET E |->
                         IF T = {} THEN create_accumulator
                         ELSE LET e == CHOOSE x \in T : TRUE
                              IN  Add(job, f[T \ {e}], Process(job, e[1]).values[k])]
<1>1. ASSUME NEW f, NEW T \in SUBSET E
      PROVE  turn(f)[T] = IF T = {} THEN None ELSE add_input(f[T \ {some(T)}], v[some(T)])
  <2>1. T # {} => some(T) \in T
    OBVIOUS
  <2>2. T # {} => v[some(T)] = Process(job, some(T)[1]).values[k]
    BY <2>1 DEF ValuesBy
  <2>3. turn(f)[T] = IF T = {} THEN create_accumulator
                     ELSE Add(job, f[T \ {some(T)}], Process(job, some(T)[1]).values[k])
    OBVIOUS
  <2> HIDE DEF turn, some
  <2> QED BY <2>2, <2>3, AddIs DEF create_accumulator
<1>2. ASSUME NEW T \in SUBSET E, T # {}
      PROVE  some(T) \in T
  BY <1>2
<1> HIDE DEF some
<1>3. ASSUME NEW T \in SUBSET E, T # {}
      PROVE  h[T] = add_input(h[T \ {some(T)}], v[some(T)])
  <2> DEFINE e == some(T)
             R == T \ {e}
  <2>1. e \in T /\ R \in SUBSET E /\ (R = {} <=> T = {e})
    BY <1>2, <1>3
  <2>2. IsFiniteSet(T) /\ \A x \in T : FiniteBag(v[x])
    BY FS_Subset
  <2> HIDE DEF e
  <2>3. /\ T = {e} => Joint(T, v) = v[e]
        /\ Joint(T, v) = Joint(R, v) (+) v[e]
    BY <2>1, <2>2, JointGrows
  <2>4. h[T] = {Joint(T, v)} /\ h[R] = IF R = {} THEN None ELSE {Joint(R, v)}
    BY <1>3, <2>1
  <2> HIDE DEF R, h
  <2>5. R = {} => h[T] = add_input(h[R], v[e])
    BY <2>1, <2>3, <2>4 DEF add_input
  <2>6. ASSUME R # {}
        PROVE  h[T] = add_input(h[R], v[e])
    <3>1. h[R] # None /\ The(h[R]) = Joint(R, v)
      BY <2>4, <2>6, TheOne DEF None
    <3> QED BY <3>1, <2>3, <2>4 DEF add_input
  <2> QED BY <2>5, <2>6 DEF e, R
<1>4. h = turn(h)
  <2>1. ASSUME NEW T \in SUBSET E
        PROVE  h[T] = turn(h)[T]
    <3>1. h[{}] = None
      OBVIOUS
    <3> HIDE DEF h, turn
    <3> QED BY <1>1, <1>3, <3>1
  <2>2. h = [T \in SUBSET E |-> h[T]] /\ turn(h) = [T \in SUBSET E |-> turn(h)[T]]
    OBVIOUS
  <2> HIDE DEF h, turn
  <2> QED BY <2>1, <2>2
<1> HIDE DEF h
<1>5. LiftedBy(E, job, k, h)
  BY <1>4, Zenon DEF LiftedBy
<1> DEFINE f == CHOOSE x : LiftedBy(E, job, k, x)
<1>6. LiftedBy(E, job, k, f)
  BY <1>5
<1> HIDE DEF f
<1>7. f = turn(f)
  BY <1>6, Zenon DEF LiftedBy
<1> HIDE DEF turn
<1> DEFINE bad == {T \in SUBSET E : f[T] # h[T]}
<1>8. bad = {}
  <2>1. SUFFICES ASSUME bad # {}
                 PROVE  FALSE
    OBVIOUS
  <2>2. \A T \in bad : T \in SUBSET E /\ IsFiniteSet(T) /\ Cardinality(T) \in Nat
    BY FS_Subset, FS_CardinalityType
  <2> DEFINE sizes == {Cardinality(T) : T \in bad}
  <2>3. sizes \subseteq Nat /\ sizes # {}
    BY <2>1, <2>2
  <2>4. PICK n \in sizes : \A m \in sizes : n <= m
    <3> HIDE DEF sizes
    <3> QED BY <2>3, Least
  <2>5. PICK T \in bad : Cardinality(T) = n
    OBVIOUS
  <2>6. f[T] # h[T] /\ T \in SUBSET E
    OBVIOUS
  <2>7. T # {}
    <3>1. f[{}] = None
      BY <1>1, <1>7
    <3>2. h[{}] = None
      BY DEF h
    <3> QED BY <3>1, <3>2, <2>6
  <2>8. T \ {some(T)} \in SUBSET E /\ Cardinality(T \ {some(T)}) = Cardinality(T) - 1
    BY <1>2, <2>2, <2>6, <2>7, FS_RemoveElement
  <2>9. T \ {some(T)} \notin bad
    <3>1. Cardinality(T) \in Nat
      BY <2>2
    <3>2. ~ (n <= Cardinality(T) - 1)
      BY <3>1, <2>5
    <3> QED BY <3>2, <2>4, <2>8
  <2>10. f[T \ {some(T)}] = h[T \ {some(T)}]
    BY <2>8, <2>9
  <2>11. f[T] = add_input(f[T \ {some(T)}], v[some(T)])
    BY <1>1, <1>7, <2>6, <2>7
  <2> QED BY <1>3, <2>6, <2>7, <2>10, <2>11
<1>9. f[E] = {Joint(E, v)}
  <2>1. f[E] = h[E]
    BY <1>8
  <2> QED BY <2>1 DEF h
<1> QED BY <1>9, LiftedUnrolled DEF f

-----------------------------------------------------------------------------
(* Texts *)

Text(s) == \E S : s \in Seq(S)

LEMMA TextType ==
  ASSUME NEW s, Text(s)
  PROVE  Len(s) \in Nat /\ DOMAIN s = 1 .. Len(s) /\ IsFiniteSet(DOMAIN s)
<1>1. PICK S : s \in Seq(S)
  BY DEF Text
<1>2. Len(s) \in Nat /\ DOMAIN s = 1 .. Len(s)
  BY <1>1
<1>3. IsFiniteSet(1 .. Len(s))
  BY <1>2, FS_Interval
<1> QED BY <1>2, <1>3

(* A piece of anything is a text. *)
LEMMA PieceIsText ==
  ASSUME NEW s, NEW first \in Nat, NEW last \in Nat
  PROVE  Text(SubSeq(s, first, last))
<1> DEFINE S == {s[i] : i \in first .. last}
<1>1. \A i \in first .. last : s[i] \in S
  OBVIOUS
<1>2. first \in Int /\ last \in Int
  OBVIOUS
<1> HIDE DEF S
<1>3. SubSeq(s, first, last) \in Seq(S)
  BY <1>1, <1>2, SubSeqProperties
<1> QED BY <1>3 DEF Text

LEMMA SuffixesFinite ==
  ASSUME NEW s, Text(s)
  PROVE  IsFiniteSet(Suffixes(s))
<1> DEFINE cut == [l \in 1 .. Len(s) |-> SubSeq(s, l, Len(s))]
<1>1. IsFiniteSet(1 .. Len(s))
  BY TextType
<1>2. IsFiniteSet({cut[l] : l \in 1 .. Len(s)})
  BY <1>1, ImageFinite
<1>3. {cut[l] : l \in 1 .. Len(s)} = {SubSeq(s, l, Len(s)) : l \in 1 .. Len(s)}
  OBVIOUS
<1>4. IsFiniteSet({<<>>})
  BY FS_Singleton
<1> QED BY <1>2, <1>3, <1>4, FS_Union DEF Suffixes

LEMMA WindowIsText ==
  ASSUME NEW s, NEW i \in Nat, NEW b \in Nat
  PROVE  Text(Window(s, i, b))
<1> DEFINE first == IF i < b THEN 1 ELSE i - b + 1
<1>1. first \in Nat
  OBVIOUS
<1> HIDE DEF first
<1>2. Text(SubSeq(s, first, i))
  BY <1>1, PieceIsText
<1> QED BY <1>2 DEF Window, first

(* The patterns of a text are finitely many, each with a finite context. *)
LEMMA PatternsFinite ==
  ASSUME NEW s, Text(s)
  PROVE  /\ IsFiniteSet(Leading(s, B) \cup Blocks(s, B))
         /\ \A x \in Leading(s, B) \cup Blocks(s, B) : Text(x.prefix)
<1> DEFINE n == Min({B, Len(s)}) - 1
           pattern == [i \in Nat |-> Pattern(s, i, B)]
<1>1. Len(s) \in Nat /\ B \in Nat
  BY TextType, BlockAssumption
<1>2. Min({B, Len(s)}) \in {B, Len(s)}
  BY <1>1 DEF Min
<1>3. n \in Int /\ IsFiniteSet(1 .. n)
  <2>1. n \in Int
    BY <1>1, <1>2
  <2> HIDE DEF n
  <2> QED BY <2>1, FS_Interval
<1>4. IsFiniteSet(B .. Len(s) - 2)
  BY <1>1, FS_Interval
<1>5. 1 .. n \subseteq Nat /\ B .. Len(s) - 2 \subseteq Nat
  BY <1>1, <1>3
<1> HIDE DEF n
<1>6. Leading(s, B) = {pattern[i] : i \in 1 .. n} /\ Blocks(s, B) = {pattern[i] : i \in B .. Len(s) - 2}
  BY <1>5 DEF Leading, Blocks, n
<1>7. \A i \in Nat : Text(pattern[i].prefix)
  BY <1>1, WindowIsText DEF Pattern
<1> HIDE DEF pattern
<1>8. IsFiniteSet({pattern[i] : i \in 1 .. n}) /\ IsFiniteSet({pattern[i] : i \in B .. Len(s) - 2})
  BY <1>3, <1>4, ImageFinite
<1>9. IsFiniteSet(Leading(s, B) \cup Blocks(s, B))
  BY <1>6, <1>8, FS_Union
<1>10. \A x \in Leading(s, B) \cup Blocks(s, B) : \E i \in Nat : x = pattern[i]
  BY <1>5, <1>6
<1> QED BY <1>7, <1>9, <1>10

-----------------------------------------------------------------------------
(* What the jobs are, and what their transforms give *)

LEMMA JobList ==
    /\ ParseSegments \in Jobs /\ TokenizeEnwiki \in Jobs /\ ParseTokenized \in Jobs
    /\ CharcountEnwiki \in Jobs /\ CharcountLines \in Jobs
    /\ \A j \in Jobs : \/ j = ParseSegments \/ j = TokenizeEnwiki \/ j = ParseTokenized
                       \/ j = CharcountEnwiki \/ j = CharcountLines
BY Zenon DEF Jobs

LEMMA JobFields ==
    /\ ParseSegments.does = "SuffixTreeParser" /\ ParseSegments.combines = "trees"
    /\ ParseSegments.writes = "segment trees"
    /\ TokenizeEnwiki.does = "Tokenizer" /\ TokenizeEnwiki.combines = "nothing"
    /\ TokenizeEnwiki.writes = "tokenized"
    /\ ParseTokenized.does = "EFNLPParserSetOnly" /\ ParseTokenized.combines = "nothing"
    /\ ParseTokenized.writes = "trees"
    /\ CharcountEnwiki.does = "split_text" /\ CharcountEnwiki.combines = "counts"
    /\ CharcountEnwiki.writes = "enwiki counts"
    /\ CharcountLines.does = "LineCharCounter" /\ CharcountLines.combines = "counts"
    /\ CharcountLines.writes = "line counts"
BY DEF ParseSegments, TokenizeEnwiki, ParseTokenized, CharcountEnwiki, CharcountLines, Job

Combines(j) == j.combines # "nothing"

(* The jobs are different ones. *)
LEMMA JobsDiffer ==
    /\ \A j \in Jobs : /\ j.writes = "segment trees" <=> j = ParseSegments
                       /\ j.writes = "tokenized" <=> j = TokenizeEnwiki
                       /\ j.writes # "articles" /\ j.writes \in TableNames
                       /\ Combines(j) \in BOOLEAN
                       /\ ~Combines(j) <=> j \in {TokenizeEnwiki, ParseTokenized}
                       /\ j.combines = "trees" <=> j = ParseSegments
    /\ "articles" \in TableNames
<1>1. \A j \in Jobs : j.writes \in TableNames
  BY DEF TableNames
<1>2. "articles" \in TableNames
  BY DEF TableNames
<1>3. ASSUME NEW j \in Jobs
      PROVE  /\ j.writes = "segment trees" <=> j = ParseSegments
             /\ j.writes = "tokenized" <=> j = TokenizeEnwiki
             /\ j.writes # "articles"
             /\ Combines(j) \in BOOLEAN
             /\ ~Combines(j) <=> j \in {TokenizeEnwiki, ParseTokenized}
             /\ j.combines = "trees" <=> j = ParseSegments
  <2>1. CASE j = ParseSegments
    BY <2>1, JobFields DEF Combines
  <2>2. CASE j = TokenizeEnwiki
    BY <2>2, JobFields DEF Combines
  <2>3. CASE j = ParseTokenized
    BY <2>3, JobFields DEF Combines
  <2>4. CASE j = CharcountEnwiki
    BY <2>4, JobFields DEF Combines
  <2>5. CASE j = CharcountLines
    BY <2>5, JobFields DEF Combines
  <2> QED BY <2>1, <2>2, <2>3, <2>4, <2>5, JobList
<1> QED BY <1>1, <1>2, <1>3

LEMMA Dispatch ==
    /\ \A row : Process(ParseSegments, row) = SuffixTreeParser(row)
    /\ \A row : Process(TokenizeEnwiki, row) = Tokenizer(row)
    /\ \A row : Process(ParseTokenized, row) = EFNLPParserSetOnly(row)
    /\ \A row : Process(CharcountEnwiki, row) = split_text(row)
    /\ \A row : Process(CharcountLines, row) = LineCharCounter(row)
BY JobFields DEF Process

(* The values for the keys of a row are finite bags. *)
GoodValues(values) == \A k \in DOMAIN values : FiniteBag(values[k])

LEMMA NoValues == GoodValues(<< >>) /\ DOMAIN << >> = {}
BY DEF GoodValues

\* How often a character is in a text.
TimesIn(text, c) == Cardinality({i \in DOMAIN text : text[i] = c})

LEMMA TimesType ==
  ASSUME NEW text, Text(text)
  PROVE  \A c : /\ TimesIn(text, c) \in Nat
                /\ TimesIn(text, c) > 0 <=> c \in {text[i] : i \in DOMAIN text}
<1> TAKE c
<1> DEFINE part == {i \in DOMAIN text : text[i] = c}
<1>1. IsFiniteSet(part)
  BY TextType, FS_Subset
<1>2. part = {} <=> c \notin {text[i] : i \in DOMAIN text}
  OBVIOUS
<1> HIDE DEF part
<1>3. Cardinality(part) \in Nat /\ (Cardinality(part) = 0 <=> part = {})
  BY <1>1, FS_CardinalityType, FS_EmptySet
<1> QED BY <1>2, <1>3 DEF TimesIn, part

LEMMA CharactersAre ==
  ASSUME NEW text, Text(text)
  PROVE  /\ GoodValues(Characters(text))
         /\ DOMAIN Characters(text) = {text[i] : i \in DOMAIN text}
         /\ \A c \in DOMAIN Characters(text) : \A x :
              Copies(x, Characters(text)[c]) = IF x = c THEN TimesIn(text, c) ELSE 0
<1> DEFINE D == {text[i] : i \in DOMAIN text}
<1>1. Characters(text) = [c \in D |-> [d \in {c} |-> TimesIn(text, c)]]
  BY DEF Characters, TimesIn
<1>2. \A c \in D : TimesIn(text, c) \in Nat \ {0}
  BY TimesType
<1>3. \A c : IsFiniteSet({c})
  BY FS_Singleton
<1> HIDE DEF D
<1>4. DOMAIN Characters(text) = D
      /\ \A c \in D : Characters(text)[c] = [d \in {c} |-> TimesIn(text, c)]
  BY <1>1
<1>5. \A c \in D : FiniteBag(Characters(text)[c])
  BY <1>2, <1>3, <1>4 DEF FiniteBag
<1>6. ASSUME NEW c \in D, NEW x
      PROVE  Copies(x, Characters(text)[c]) = IF x = c THEN TimesIn(text, c) ELSE 0
  <2> DEFINE one == [d \in {c} |-> TimesIn(text, c)]
  <2>1. Characters(text)[c] = one
    BY <1>4
  <2>2. DOMAIN one = {c} /\ one[c] = TimesIn(text, c)
    OBVIOUS
  <2> HIDE DEF one
  <2>3. Copies(x, one) = IF x = c THEN TimesIn(text, c) ELSE 0
    BY <2>2 DEF Copies
  <2> QED BY <2>1, <2>3
<1> QED BY <1>4, <1>5, <1>6 DEF GoodValues, D

LEMMA LinesAre ==
  ASSUME NEW row, Text(row[2])
  PROVE  LET values == LineCharCounter(row).values
             chars == {row[2][i] : i \in DOMAIN row[2]}
         IN  /\ GoodValues(values) /\ DOMAIN values = (chars \ Excluded) \cup {NewLine}
             /\ \A c \in chars \ Excluded : \A x :
                  Copies(x, values[c]) = IF x = c THEN TimesIn(row[2], c) ELSE 0
             /\ NewLine \notin chars => \A x : Copies(x, values[NewLine]) = IF x = NewLine THEN 1 ELSE 0
<1> DEFINE counts == Characters(row[2])
           chars == {row[2][i] : i \in DOMAIN row[2]}
           kept == DOMAIN counts \ Excluded
           values == [c \in kept \cup {NewLine} |->
                        IF c \in kept THEN counts[c] ELSE SetToBag({NewLine})]
<1>1. LineCharCounter(row).values = values
  BY DEF LineCharCounter, Emits
<1>2. /\ GoodValues(counts) /\ DOMAIN counts = chars
      /\ \A c \in DOMAIN counts : \A x :
              Copies(x, counts[c]) = IF x = c THEN TimesIn(row[2], c) ELSE 0
  BY CharactersAre
<1>3. /\ FiniteBag(SetToBag({NewLine}))
      /\ \A x : Copies(x, SetToBag({NewLine})) = IF x = NewLine THEN 1 ELSE 0
  BY OneBag
<1>4. kept = chars \ Excluded /\ kept \subseteq DOMAIN counts
  BY <1>2
<1> HIDE DEF counts, chars, kept
<1>5. /\ DOMAIN values = kept \cup {NewLine}
      /\ \A c \in kept : values[c] = counts[c]
      /\ NewLine \notin kept => values[NewLine] = SetToBag({NewLine})
  OBVIOUS
<1> HIDE DEF values
<1>6. GoodValues(values)
  BY <1>2, <1>3, <1>4, <1>5 DEF GoodValues
<1> QED BY <1>1, <1>2, <1>3, <1>4, <1>5, <1>6 DEF chars

\* The nodes that patterns are counted at.
NodesOf(patterns) == UNION {{<<q, x>> : q \in Suffixes(x.prefix) \ {<<>>}} : x \in patterns}

LEMMA NodesFinite ==
  ASSUME NEW patterns, IsFiniteSet(patterns), \A x \in patterns : Text(x.prefix)
  PROVE  IsFiniteSet(NodesOf(patterns))
<1> DEFINE E == [x \in patterns |-> {<<q, x>> : q \in Suffixes(x.prefix) \ {<<>>}}]
<1>1. ASSUME NEW x \in patterns
      PROVE  IsFiniteSet(E[x])
  <2> DEFINE Q == Suffixes(x.prefix) \ {<<>>}
             pair == [q \in Q |-> <<q, x>>]
  <2>1. IsFiniteSet(Suffixes(x.prefix))
    BY SuffixesFinite
  <2>2. IsFiniteSet(Q)
    BY <2>1, FS_Subset
  <2>3. IsFiniteSet({pair[q] : q \in Q})
    BY <2>2, ImageFinite
  <2>4. {pair[q] : q \in Q} = E[x]
    OBVIOUS
  <2> QED BY <2>3, <2>4
<1>2. IsFiniteSet({E[x] : x \in patterns})
  BY ImageFinite
<1>3. NodesOf(patterns) = UNION {E[x] : x \in patterns}
  BY DEF NodesOf
<1> HIDE DEF E
<1> QED BY <1>1, <1>2, <1>3, FS_UNION

NodeKeys(nodes) == [y \in nodes |-> <<y[1], y[2].next>>]
EndingIn(nodes, k) == {y \in nodes : Last(y[1]) = k}

LEMMA DenseTreesAre ==
  ASSUME NEW patterns, IsFiniteSet(patterns), \A x \in patterns : Text(x.prefix)
  PROVE  /\ GoodValues(DenseTrees(patterns))
         /\ DOMAIN DenseTrees(patterns) = {Last(y[1]) : y \in NodesOf(patterns)}
         /\ \A k \in DOMAIN DenseTrees(patterns) :
              DenseTrees(patterns)[k]
                = Tally(EndingIn(NodesOf(patterns), k), NodeKeys(NodesOf(patterns)))
<1> DEFINE nodes == NodesOf(patterns)
<1>1. DenseTrees(patterns) = [k \in {Last(y[1]) : y \in nodes} |->
                                Tally(EndingIn(nodes, k), NodeKeys(nodes))]
  BY DEF DenseTrees, NodesOf, EndingIn, NodeKeys
<1>2. IsFiniteSet(nodes)
  BY NodesFinite
<1> HIDE DEF nodes
<1>3. \A k : IsFiniteSet(EndingIn(nodes, k))
  BY <1>2, FS_Subset DEF EndingIn
<1>4. \A k : FiniteBag(Tally(EndingIn(nodes, k), NodeKeys(nodes)))
  BY <1>3, TallyBag
<1> QED BY <1>1, <1>4 DEF GoodValues, nodes

LEMMA ProcessIs ==
  ASSUME NEW j \in Jobs, NEW row, Text(row[2])
  PROVE  /\ GoodValues(Process(j, row).values)
         /\ Combines(j) => Process(j, row).rows = {}
         /\ ~Combines(j) => DOMAIN Process(j, row).values = {}
<1>1. /\ GoodValues(SuffixTreeParser(row).values) /\ SuffixTreeParser(row).rows = {}
  <2> DEFINE patterns == Leading(row[2], B) \cup Blocks(row[2], B)
  <2>1. IsFiniteSet(patterns) /\ \A x \in patterns : Text(x.prefix)
    BY PatternsFinite
  <2> HIDE DEF patterns
  <2>2. GoodValues(DenseTrees(patterns))
    BY <2>1, DenseTreesAre
  <2>3. /\ Raises.values = << >> /\ Raises.rows = {}
        /\ Emits(DenseTrees(patterns)).values = DenseTrees(patterns)
        /\ Emits(DenseTrees(patterns)).rows = {}
    BY DEF Raises, Emits
  <2>4. SuffixTreeParser(row) = Raises \/ SuffixTreeParser(row) = Emits(DenseTrees(patterns))
    BY DEF SuffixTreeParser, patterns
  <2> QED BY <2>2, <2>3, <2>4, NoValues
<1>2. GoodValues(split_text(row).values) /\ split_text(row).rows = {}
  BY CharactersAre, NoValues DEF split_text, Emits
<1>3. GoodValues(LineCharCounter(row).values) /\ LineCharCounter(row).rows = {}
  BY LinesAre DEF LineCharCounter, Emits
<1>4. Tokenizer(row).values = << >>
  BY DEF Tokenizer, Passes
<1>5. EFNLPParserSetOnly(row).values = << >>
  BY DEF EFNLPParserSetOnly, Passes, Raises
<1> USE DEF Combines
<1>6. CASE j = TokenizeEnwiki
  BY <1>4, <1>6, NoValues, Dispatch, JobFields
<1>7. CASE j = ParseTokenized
  BY <1>5, <1>7, NoValues, Dispatch, JobFields
<1>8. CASE j = ParseSegments
  BY <1>1, <1>8, Dispatch, JobFields
<1>9. CASE j = CharcountEnwiki
  BY <1>2, <1>9, Dispatch, JobFields
<1>10. CASE j = CharcountLines
  BY <1>3, <1>10, Dispatch, JobFields
<1> QED BY <1>6, <1>7, <1>8, <1>9, <1>10, JobList

EmittedBy(j, S, k) == {e \in S : k \in DOMAIN Process(j, e[1]).values}

LEMMA EmittedIs == \A S, k : Emitted(S, k) = EmittedBy(job, S, k)
BY DEF Emitted, EmittedBy

\* What the rows of a source give for a key, and what a job should make of them.
ValuesOf(j, S, k) == ValuesBy(j, EmittedBy(j, S, k), k)
HeldOf(j, S, k, c) == Held(EmittedBy(j, S, k), ValuesOf(j, S, k), c)
ResultOf(j, S, k) == Joint(EmittedBy(j, S, k), ValuesOf(j, S, k))

\* The rows a job can read: finitely many, each a text.
Source(S) == IsFiniteSet(S) /\ \A e \in S : Text(e[1][2])

LEMMA EmittedType ==
  ASSUME NEW j \in Jobs, NEW S, Source(S), NEW k
  PROVE  /\ IsFiniteSet(EmittedBy(j, S, k)) /\ EmittedBy(j, S, k) \subseteq S
         /\ \A e \in EmittedBy(j, S, k) :
              FiniteBag(ValuesOf(j, S, k)[e]) /\ ValuesOf(j, S, k)[e] = Process(j, e[1]).values[k]
<1>1. IsFiniteSet(EmittedBy(j, S, k)) /\ EmittedBy(j, S, k) \subseteq S
  BY FS_Subset DEF EmittedBy, Source
<1>2. ASSUME NEW e \in EmittedBy(j, S, k)
      PROVE  FiniteBag(Process(j, e[1]).values[k])
  <2>1. Text(e[1][2]) /\ k \in DOMAIN Process(j, e[1]).values
    BY DEF EmittedBy, Source
  <2>2. GoodValues(Process(j, e[1]).values)
    BY <2>1, ProcessIs
  <2> QED BY <2>1, <2>2 DEF GoodValues
<1> QED BY <1>1, <1>2 DEF ValuesOf, ValuesBy

LEMMA ResultType ==
  ASSUME NEW j \in Jobs, NEW S, Source(S), NEW k
  PROVE  /\ FiniteBag(ResultOf(j, S, k))
         /\ \A c : Copies(c, ResultOf(j, S, k)) = HeldOf(j, S, k, c) /\ HeldOf(j, S, k, c) \in Nat
<1> DEFINE E == EmittedBy(j, S, k)
           v == ValuesOf(j, S, k)
<1>1. IsFiniteSet(E) /\ \A e \in E : FiniteBag(v[e])
  BY EmittedType
<1> HIDE DEF E, v
<1>2. FiniteBag(Joint(E, v)) /\ \A c : Copies(c, Joint(E, v)) = Held(E, v, c)
  BY <1>1, JointBag
<1>3. \A c : Held(E, v, c) \in Nat
  BY <1>1, HeldType
<1> QED BY <1>2, <1>3 DEF ResultOf, HeldOf, E, v

(* Disjoint sources give together what each gives. *)
LEMMA HeldOfUnion ==
  ASSUME NEW j \in Jobs, NEW S, Source(S), NEW T, Source(T), S \cap T = {}, NEW k, NEW c
  PROVE  /\ Source(S \cup T)
         /\ EmittedBy(j, S \cup T, k) = EmittedBy(j, S, k) \cup EmittedBy(j, T, k)
         /\ HeldOf(j, S \cup T, k, c) = HeldOf(j, S, k, c) + HeldOf(j, T, k, c)
<1>1. Source(S \cup T)
  BY FS_Union DEF Source
<1> DEFINE U == S \cup T
           D == EmittedBy(j, S, k)
           E == EmittedBy(j, T, k)
           F == EmittedBy(j, U, k)
           d == ValuesOf(j, S, k)
           e == ValuesOf(j, T, k)
           f == ValuesOf(j, U, k)
<1>2. F = D \cup E /\ D \cap E = {}
  BY DEF EmittedBy
<1>3. /\ IsFiniteSet(D) /\ \A x \in D : FiniteBag(d[x]) /\ d[x] = Process(j, x[1]).values[k]
      /\ IsFiniteSet(E) /\ \A x \in E : FiniteBag(e[x]) /\ e[x] = Process(j, x[1]).values[k]
  BY EmittedType
<1>4. \A x \in F : FiniteBag(f[x]) /\ f[x] = Process(j, x[1]).values[k]
  <2> HIDE DEF U
  <2>1. Source(U)
    BY <1>1 DEF U
  <2> QED BY <2>1, EmittedType
<1> HIDE DEF U, D, E, F, d, e, f
<1>5. \A x \in D : d[x] = f[x]
  BY <1>2, <1>3, <1>4
<1>6. \A x \in E : e[x] = f[x]
  BY <1>2, <1>3, <1>4
<1>7. Held(D, d, c) = Held(D, f, c) /\ Held(E, e, c) = Held(E, f, c)
  BY <1>5, <1>6, HeldSame
<1>8. Held(F, f, c) = Held(D, f, c) + Held(E, f, c)
  <2>1. \A x \in D \cup E : FiniteBag(f[x])
    BY <1>2, <1>4
  <2>2. Held(D \cup E, f, c) = Held(D, f, c) + Held(E, f, c)
    BY <1>2, <1>3, <2>1, HeldUnion
  <2> QED BY <2>2, <1>2
<1> QED BY <1>1, <1>2, <1>7, <1>8 DEF HeldOf, U, D, E, F, d, e, f

-----------------------------------------------------------------------------
(* The accumulators hold what the committed rows gave *)

AccsAre(j, A, S) ==
    \A k : /\ k \in DOMAIN A <=> EmittedBy(j, S, k) # {}
           /\ k \in DOMAIN A => /\ Accumulators(A[k])
                                /\ \A c : Weight(A[k], c) = HeldOf(j, S, k, c)

LEMMA NothingHeld ==
  ASSUME NEW j, NEW S, NEW k, EmittedBy(j, S, k) = {}
  PROVE  \A c : HeldOf(j, S, k, c) = 0
BY SumEmpty DEF HeldOf, Held

LEMMA NoAccumulators == Accumulators(EmptyBag) /\ \A c : Weight(EmptyBag, c) = 0
<1>1. Accumulators(EmptyBag) /\ DOMAIN EmptyBag = {}
  BY NoBag DEF Accumulators
<1> QED BY <1>1, SumEmpty DEF Weight

(* One accumulator of a key is the result of all rows. *)
LEMMA CombinedIs ==
  ASSUME NEW j \in Jobs, NEW A, NEW S, Source(S), AccsAre(j, A, S),
         NEW k \in DOMAIN A, Size(A[k]) = 1
  PROVE  The(The(DOMAIN A[k])) = ResultOf(j, S, k) /\ The(DOMAIN A[k]) # None
<1> DEFINE bag == A[k]
<1>1. Accumulators(bag) /\ \A c : Weight(bag, c) = HeldOf(j, S, k, c)
  BY DEF AccsAre
<1>2. Size(bag) = 1 /\ FiniteBag(bag)
  BY <1>1 DEF Accumulators
<1> HIDE DEF bag
<1>3. PICK acc \in DOMAIN bag : DOMAIN bag = {acc} /\ bag = SetToBag({acc})
  BY <1>2, SizeOne
<1>4. PICK value : acc = {value} /\ FiniteBag(value)
  BY <1>1 DEF Accumulators
<1>5. \A c : Weight(SetToBag({{value}}), c) = Copies(c, value)
  BY <1>4, WeightOne
<1>6. FiniteBag(ResultOf(j, S, k)) /\ \A c : Copies(c, ResultOf(j, S, k)) = HeldOf(j, S, k, c)
  BY ResultType
<1>7. \A c : Copies(c, value) = Copies(c, ResultOf(j, S, k))
  BY <1>1, <1>3, <1>4, <1>5, <1>6
<1>8. value = ResultOf(j, S, k)
  BY <1>4, <1>6, <1>7, BagByCopies
<1>9. The(DOMAIN bag) = acc
  BY <1>3, TheOne
<1> QED BY <1>4, <1>8, <1>9, TheOne DEF bag, None

Given(j, T, keys, new) ==
    \A k : /\ k \in keys <=> EmittedBy(j, T, k) # {}
           /\ k \in keys => new[k] = {ResultOf(j, T, k)}

Enlarged(A, keys, new, C) ==
    /\ DOMAIN C = DOMAIN A \cup keys
    /\ \A k \in DOMAIN C : C[k] = (IF k \in DOMAIN A THEN A[k] ELSE EmptyBag)
                                  (+) (IF k \in keys THEN SetToBag({new[k]}) ELSE EmptyBag)

(* A bundle adds an accumulator for each of its keys. *)
LEMMA AccsGrow ==
  ASSUME NEW j \in Jobs, NEW A, NEW S, Source(S), AccsAre(j, A, S),
         NEW T, Source(T), S \cap T = {}, NEW keys, NEW new, Given(j, T, keys, new),
         NEW C, Enlarged(A, keys, new, C)
  PROVE  AccsAre(j, C, S \cup T)
<1> SUFFICES ASSUME NEW k
             PROVE  /\ k \in DOMAIN C <=> EmittedBy(j, S \cup T, k) # {}
                    /\ k \in DOMAIN C => /\ Accumulators(C[k])
                                         /\ \A c : Weight(C[k], c) = HeldOf(j, S \cup T, k, c)
  BY DEF AccsAre
<1>1. /\ EmittedBy(j, S \cup T, k) = EmittedBy(j, S, k) \cup EmittedBy(j, T, k)
      /\ \A c : HeldOf(j, S \cup T, k, c) = HeldOf(j, S, k, c) + HeldOf(j, T, k, c)
  <2>1. EmittedBy(j, S \cup T, k) = EmittedBy(j, S, k) \cup EmittedBy(j, T, k)
    BY DEF EmittedBy
  <2>2. ASSUME NEW c
        PROVE  HeldOf(j, S \cup T, k, c) = HeldOf(j, S, k, c) + HeldOf(j, T, k, c)
    BY HeldOfUnion
  <2> QED BY <2>1, <2>2
<1>2. k \in DOMAIN A <=> EmittedBy(j, S, k) # {}
  BY DEF AccsAre
<1> USE DEF Given, Enlarged
<1>3. k \in DOMAIN C <=> EmittedBy(j, S \cup T, k) # {}
  BY <1>1, <1>2
<1> DEFINE old == IF k \in DOMAIN A THEN A[k] ELSE EmptyBag
           more == IF k \in keys THEN SetToBag({new[k]}) ELSE EmptyBag
<1>4. Accumulators(old) /\ \A c : Weight(old, c) = HeldOf(j, S, k, c)
  <2>1. CASE k \in DOMAIN A
    BY <2>1 DEF AccsAre
  <2>2. CASE k \notin DOMAIN A
    BY <2>2, <1>2, NothingHeld, NoAccumulators
  <2> QED BY <2>1, <2>2
<1>5. Accumulators(more) /\ \A c : Weight(more, c) = HeldOf(j, T, k, c)
  <2>1. CASE k \in keys
    <3> DEFINE value == ResultOf(j, T, k)
    <3>1. FiniteBag(value) /\ \A c : Copies(c, value) = HeldOf(j, T, k, c)
      BY ResultType
    <3>2. more = SetToBag({{value}})
      BY <2>1
    <3> HIDE DEF value, more
    <3>3. \A c : Accumulators(SetToBag({{value}})) /\ Weight(SetToBag({{value}}), c) = Copies(c, value)
      BY <3>1, WeightOne
    <3> QED BY <3>1, <3>2, <3>3
  <2>2. CASE k \notin keys
    BY <2>2, NothingHeld, NoAccumulators
  <2> QED BY <2>1, <2>2
<1>6. k \in DOMAIN C => C[k] = old (+) more
  OBVIOUS
<1> HIDE DEF old, more
<1>7. \A c : Accumulators(old (+) more) /\ Weight(old (+) more, c) = Weight(old, c) + Weight(more, c)
  BY <1>4, <1>5, WeightPlus
<1> QED BY <1>1, <1>3, <1>4, <1>5, <1>6, <1>7

Two(x, y) == SetToBag({x}) (+) SetToBag({y})
Swapped(A, x, y) == (A (-) Two(x, y)) (+) SetToBag({{The(x) (+) The(y)}})

(* Two accumulators can be replaced by their sum. *)
LEMMA WeightMerged ==
  ASSUME NEW A, Accumulators(A), NEW x \in DOMAIN A, NEW y \in DOMAIN A,
         Two(x, y) \sqsubseteq A
  PROVE  /\ Accumulators(Swapped(A, x, y))
         /\ \A c : Weight(Swapped(A, x, y), c) = Weight(A, c)
<1> DEFINE taken == Two(x, y)
           merged == {The(x) (+) The(y)}
           a == The(x)
           b == The(y)
           left == A (-) taken
           one == SetToBag({merged})
<1>1. x = {a} /\ FiniteBag(a) /\ y = {b} /\ FiniteBag(b)
  BY AccumulatorType
<1>2. FiniteBag(a (+) b) /\ \A c : Copies(c, a (+) b) = Copies(c, a) + Copies(c, b)
  BY <1>1, PlusBag
<1>3. \A c : /\ Accumulators(SetToBag({x})) /\ Weight(SetToBag({x}), c) = Copies(c, a)
             /\ Accumulators(SetToBag({y})) /\ Weight(SetToBag({y}), c) = Copies(c, b)
  <2> HIDE DEF a, b
  <2> QED BY <1>1, WeightOne
<1>4. \A c : Accumulators(taken) /\ Weight(taken, c) = Copies(c, a) + Copies(c, b)
  <2> DEFINE X == SetToBag({x})
             Y == SetToBag({y})
  <2> HIDE DEF a, b, X, Y
  <2>1. taken = X (+) Y
    BY DEF X, Y, Two
  <2>2. \A c : /\ Accumulators(X) /\ Weight(X, c) = Copies(c, a)
               /\ Accumulators(Y) /\ Weight(Y, c) = Copies(c, b)
    BY <1>3 DEF X, Y
  <2>3. \A c : Accumulators(X (+) Y) /\ Weight(X (+) Y, c) = Weight(X, c) + Weight(Y, c)
    BY <2>2, WeightPlus
  <2> QED BY <2>1, <2>2, <2>3
<1>5. \A c : Accumulators(one) /\ Weight(one, c) = Copies(c, a) + Copies(c, b)
  <2> DEFINE value == a (+) b
  <2>1. FiniteBag(value) /\ merged = {value} /\ \A c : Copies(c, value) = Copies(c, a) + Copies(c, b)
    BY <1>2
  <2> HIDE DEF value, a, b
  <2>2. \A c : Accumulators(SetToBag({{value}})) /\ Weight(SetToBag({{value}}), c) = Copies(c, value)
    BY <2>1, WeightOne
  <2> QED BY <2>1, <2>2
<1>6. FiniteBag(left) /\ DOMAIN left \subseteq DOMAIN A /\ left (+) taken = A
  BY <1>4, MinusPlus DEF Accumulators
<1>7. Accumulators(left)
  <2> HIDE DEF left
  <2> QED BY <1>6 DEF Accumulators
<1> HIDE DEF left, one, a, b
<1>8. \A c : Weight(A, c) = Weight(left, c) + Weight(taken, c)
  <2>2. Accumulators(taken)
    BY <1>4
  <2>1. \A c : Weight(left (+) taken, c) = Weight(left, c) + Weight(taken, c)
    BY <2>2, <1>7, WeightPlus
  <2> QED BY <2>1, <1>6
<1>9. \A c : Accumulators(left (+) one) /\ Weight(left (+) one, c) = Weight(left, c) + Weight(one, c)
  BY <1>5, <1>7, WeightPlus
<1>10. ASSUME NEW c
       PROVE  Weight(left (+) one, c) = Weight(A, c)
  BY <1>4, <1>5, <1>8, <1>9
<1> QED BY <1>9, <1>10 DEF Swapped, left, one

(* What is merged is two accumulators, whatever empty ones are in the list. *)
LEMMA TwoTaken ==
  ASSUME NEW list, NEW i, NEW l, i # l, {n \in DOMAIN list : list[n] # None} = {i, l}
  PROVE  Tally({n \in DOMAIN list : list[n] # None}, list)
           = SetToBag({list[i]}) (+) SetToBag({list[l]})
<1>1. IsFiniteSet({i}) /\ IsFiniteSet({l}) /\ {i} \cap {l} = {} /\ {i} \cup {l} = {i, l}
  BY FS_Singleton
<1>2. Tally({i}, list) (+) Tally({l}, list) = Tally({i} \cup {l}, list)
  BY <1>1, TallyUnion
<1>3. Tally({i}, list) = SetToBag({list[i]}) /\ Tally({l}, list) = SetToBag({list[l]})
  BY TallyOne
<1> QED BY <1>1, <1>2, <1>3

LEMMA ListMerged ==
  ASSUME NEW x, x # None, NEW y, y # None,
         NEW list \in {<<x, y>>, <<None, x, y>>, <<x, None, y>>}
  PROVE  /\ \A j : MergeAll(j, list) = {The(x) (+) The(y)}
         /\ Tally({n \in DOMAIN list : list[n] # None}, list) = SetToBag({x}) (+) SetToBag({y})
<1>1. /\ Joined(None, x) = x /\ Joined(x, y) = {The(x) (+) The(y)}
      /\ Joined(None, None) = None /\ Joined(x, None) = x
  BY DEF Joined
<1>2. CASE list = <<x, y>>
  <2>1. Len(list) = 2 /\ DOMAIN list = {1, 2} /\ list[1] = x /\ list[2] = y
    BY <1>2
  <2>2. \A j : MergeAll(j, list) = Joined(Joined(None, list[1]), list[2])
    BY <2>1, MergeThree DEF MergeAll
  <2>3. {n \in DOMAIN list : list[n] # None} = {1, 2} /\ 1 # 2
    BY <2>1
  <2>4. Tally({n \in DOMAIN list : list[n] # None}, list) = SetToBag({list[1]}) (+) SetToBag({list[2]})
    BY <2>3, TwoTaken
  <2> QED BY <1>1, <2>1, <2>2, <2>4
<1>3. CASE list = <<None, x, y>>
  <2>1. Len(list) = 3 /\ DOMAIN list = {1, 2, 3} /\ list[1] = None /\ list[2] = x /\ list[3] = y
    BY <1>3
  <2>2. \A j : MergeAll(j, list) = Joined(Joined(Joined(None, list[1]), list[2]), list[3])
    BY <2>1, MergeThree DEF MergeAll
  <2>3. {n \in DOMAIN list : list[n] # None} = {2, 3} /\ 2 # 3
    BY <2>1
  <2>4. Tally({n \in DOMAIN list : list[n] # None}, list) = SetToBag({list[2]}) (+) SetToBag({list[3]})
    BY <2>3, TwoTaken
  <2> QED BY <1>1, <2>1, <2>2, <2>4
<1>4. CASE list = <<x, None, y>>
  <2>1. Len(list) = 3 /\ DOMAIN list = {1, 2, 3} /\ list[1] = x /\ list[2] = None /\ list[3] = y
    BY <1>4
  <2>2. \A j : MergeAll(j, list) = Joined(Joined(Joined(None, list[1]), list[2]), list[3])
    BY <2>1, MergeThree DEF MergeAll
  <2>3. {n \in DOMAIN list : list[n] # None} = {1, 3} /\ 1 # 3
    BY <2>1
  <2>4. Tally({n \in DOMAIN list : list[n] # None}, list) = SetToBag({list[1]}) (+) SetToBag({list[3]})
    BY <2>3, TwoTaken
  <2> QED BY <1>1, <2>1, <2>2, <2>4
<1> QED BY <1>2, <1>3, <1>4

LEMMA NumberedMember ==
  \A bag, z : z \in Numbered(bag) <=> \E x \in DOMAIN bag : \E i \in 1 .. bag[x] : z = <<x, i>>
BY DEF Numbered

(* There is nothing to merge with one accumulator; else two of a key are merged. *)
LEMMA ListsAre ==
  ASSUME NEW k, FiniteBag(accs[k]), NEW list \in Lists(k)
  PROVE  /\ Size(accs[k]) # 1
         /\ \E x, y \in DOMAIN accs[k] : list \in {<<x, y>>, <<None, x, y>>, <<x, None, y>>}
<1> DEFINE both == {p \in Numbered(accs[k]) \X Numbered(accs[k]) : p[1] # p[2]}
<1>1. PICK p \in both : list \in {<<p[1][1], p[2][1]>>, <<None, p[1][1], p[2][1]>>,
                                  <<p[1][1], None, p[2][1]>>}
  BY DEF Lists
<1>2. p[1] \in Numbered(accs[k]) /\ p[2] \in Numbered(accs[k]) /\ p[1] # p[2]
  BY <1>1
<1>3. PICK x \in DOMAIN accs[k] : \E i \in 1 .. accs[k][x] : p[1] = <<x, i>>
  BY <1>2, NumberedMember
<1>4. PICK y \in DOMAIN accs[k] : \E i \in 1 .. accs[k][y] : p[2] = <<y, i>>
  BY <1>2, NumberedMember
<1>5. p[1][1] = x /\ p[2][1] = y
  BY <1>3, <1>4
<1>6. list \in {<<x, y>>, <<None, x, y>>, <<x, None, y>>}
  BY <1>1, <1>5
<1>7. ASSUME Size(accs[k]) = 1
      PROVE  FALSE
  <2>1. PICK z \in DOMAIN accs[k] : DOMAIN accs[k] = {z} /\ accs[k] = SetToBag({z})
    BY <1>7, SizeOne
  <2>2. accs[k][z] = 1 /\ x = z /\ y = z
    BY <2>1 DEF SetToBag
  <2>3. p[1] = <<z, 1>> /\ p[2] = <<z, 1>>
    BY <1>3, <1>4, <2>2
  <2> QED BY <1>2, <2>3
<1> QED BY <1>6, <1>7

(* Merging keeps what is held. *)
LEMMA MergeAccs ==
  ASSUME NEW k \in Keys, NEW list \in Lists(k), Merge(k, list),
         NEW S, AccsAre(job, accs, S)
  PROVE  /\ AccsAre(job, accs', S)
         /\ Size(accs[k]) # 1 /\ DOMAIN accs' = DOMAIN accs
         /\ \A l \in DOMAIN accs : l # k => accs'[l] = accs[l]
<1> DEFINE A == accs[k]
           taken == Tally({i \in DOMAIN list : list[i] # None}, list)
           merged == MergeAll(job, list)
           C == (A (-) taken) (+) SetToBag({merged})
<1>1. taken \sqsubseteq A /\ accs' = [accs EXCEPT ![k] = C]
  BY DEF Merge
<1>2. Accumulators(A) /\ \A c : Weight(A, c) = HeldOf(job, S, k, c)
  BY DEF AccsAre, Keys
<1>3. FiniteBag(A)
  BY <1>2 DEF Accumulators
<1>4. Size(A) # 1
  BY <1>3, ListsAre
<1>5. PICK x, y \in DOMAIN A : list \in {<<x, y>>, <<None, x, y>>, <<x, None, y>>}
  BY <1>3, ListsAre
<1>6. x # None /\ y # None
  BY <1>2, AccumulatorType DEF None
<1>7. merged = {The(x) (+) The(y)} /\ taken = SetToBag({x}) (+) SetToBag({y})
  <2>1. /\ \A j : MergeAll(j, list) = {The(x) (+) The(y)}
        /\ Tally({n \in DOMAIN list : list[n] # None}, list) = SetToBag({x}) (+) SetToBag({y})
    <3> HIDE DEF A
    <3> QED BY <1>5, <1>6, ListMerged
  <2> QED BY <2>1
<1> HIDE DEF A, taken, merged
<1>8. Accumulators(C) /\ \A c : Weight(C, c) = Weight(A, c)
  <2>1. taken = Two(x, y) /\ C = Swapped(A, x, y)
    BY <1>7 DEF Two, Swapped
  <2>2. /\ Accumulators(Swapped(A, x, y))
        /\ \A c : Weight(Swapped(A, x, y), c) = Weight(A, c)
    BY <1>1, <1>2, <1>5, <2>1, WeightMerged
  <2> QED BY <2>1, <2>2
<1> HIDE DEF C
<1>9. DOMAIN accs' = DOMAIN accs /\ accs'[k] = C /\ \A l \in DOMAIN accs : l # k => accs'[l] = accs[l]
  BY <1>1 DEF Keys
<1>10. \A l \in DOMAIN accs : /\ Accumulators(accs'[l])
                              /\ \A c : Weight(accs'[l], c) = HeldOf(job, S, l, c)
  <2> TAKE l \in DOMAIN accs
  <2>1. CASE l = k
    BY <2>1, <1>2, <1>8, <1>9
  <2>2. CASE l # k
    BY <2>2, <1>9 DEF AccsAre
  <2> QED BY <2>1, <2>2
<1>11. AccsAre(job, accs', S)
  BY <1>9, <1>10 DEF AccsAre
<1> QED BY <1>4, <1>9, <1>11 DEF A

(* A committed bundle adds what it emitted. *)
LEMMA BundleAccs ==
  ASSUME NEW S \in SUBSET todo, Bundle(S), job \in Jobs, Source(source), todo \subseteq source,
         AccsAre(job, accs, source \ todo)
  PROVE  /\ AccsAre(job, accs', source \ (todo \ S))
         /\ DOMAIN accs' = DOMAIN accs \cup {k \in UNION {DOMAIN Process(job, e[1]).values : e \in S} : TRUE}
<1> DEFINE seen == source \ todo
           keys == UNION {DOMAIN Process(job, e[1]).values : e \in S}
           new == [k \in keys |-> Lifted(S, k)]
<1>1. accs' = [k \in Keys \cup keys |->
                 (IF k \in Keys THEN accs[k] ELSE EmptyBag)
                   (+) (IF k \in keys THEN SetToBag({Lifted(S, k)}) ELSE EmptyBag)]
  BY DEF Bundle
<1>2. Source(S) /\ Source(seen) /\ seen \cap S = {} /\ seen \cup S = source \ (todo \ S)
  BY FS_Subset DEF Source
<1>3. ASSUME NEW k
      PROVE  k \in keys <=> EmittedBy(job, S, k) # {}
  BY DEF EmittedBy
<1>4. ASSUME NEW k, EmittedBy(job, S, k) # {}
      PROVE  new[k] = {ResultOf(job, S, k)}
  <2> DEFINE E == EmittedBy(job, S, k)
             v == ValuesOf(job, S, k)
  <2>1. E = Emitted(S, k) /\ E # {}
    BY <1>4, EmittedIs
  <2>2. IsFiniteSet(E) /\ \A e \in E : FiniteBag(v[e])
    BY <1>2, EmittedType
  <2>3. v = ValuesBy(job, E, k)
    BY DEF ValuesOf
  <2> HIDE DEF E, v, keys
  <2>4. Lifted(S, k) = {Joint(E, v)}
    BY <2>1, <2>2, <2>3, LiftedIs
  <2> QED BY <1>3, <1>4, <2>4 DEF ResultOf, E, v
<1>5. /\ DOMAIN accs' = DOMAIN accs \cup keys
      /\ \A k \in DOMAIN accs' :
           accs'[k] = (IF k \in DOMAIN accs THEN accs[k] ELSE EmptyBag)
                        (+) (IF k \in keys THEN SetToBag({new[k]}) ELSE EmptyBag)
  BY <1>1 DEF Keys
<1> HIDE DEF seen, keys, new
<1>6. AccsAre(job, accs', seen \cup S)
  <2> DEFINE A == accs
             C == accs'
  <2>1. AccsAre(job, A, seen)
    BY DEF seen
  <2> HIDE DEF A, C
  <2>2. Enlarged(A, keys, new, C)
    BY <1>5 DEF A, C, Enlarged
  <2>3. Given(job, S, keys, new)
    BY <1>3, <1>4 DEF Given
  <2>4. AccsAre(job, C, seen \cup S)
    BY <1>2, <2>1, <2>2, <2>3, AccsGrow
  <2> QED BY <2>4 DEF C
<1> QED BY <1>2, <1>5, <1>6 DEF keys

-----------------------------------------------------------------------------
(* The rows that can be read *)

GoodRows(rows) == FiniteBag(rows) /\ \A row \in DOMAIN rows : Text(row[2])

LEMMA FiniteNumbered ==
  ASSUME NEW rows, FiniteBag(rows)
  PROVE  IsFiniteSet(Numbered(rows))
<1> DEFINE layer == [x \in DOMAIN rows |-> {<<x, i>> : i \in 1 .. rows[x]}]
<1>1. ASSUME NEW x \in DOMAIN rows
      PROVE  IsFiniteSet(layer[x])
  <2> DEFINE pair == [i \in 1 .. rows[x] |-> <<x, i>>]
  <2>1. rows[x] \in Nat
    BY DEF FiniteBag
  <2>2. IsFiniteSet(1 .. rows[x])
    BY <2>1, FS_Interval
  <2>3. IsFiniteSet({pair[i] : i \in 1 .. rows[x]})
    BY <2>2, ImageFinite
  <2>4. {pair[i] : i \in 1 .. rows[x]} = layer[x]
    OBVIOUS
  <2> QED BY <2>3, <2>4
<1>2. IsFiniteSet(DOMAIN rows)
  BY DEF FiniteBag
<1>3. IsFiniteSet({layer[x] : x \in DOMAIN rows})
  BY <1>2, ImageFinite
<1>4. Numbered(rows) = UNION {layer[x] : x \in DOMAIN rows}
  BY DEF Numbered
<1> HIDE DEF layer
<1> QED BY <1>1, <1>3, <1>4, FS_UNION

LEMMA NumberedIsSource ==
  ASSUME NEW rows, GoodRows(rows)
  PROVE  /\ Source(Numbered(rows))
         /\ \A e \in Numbered(rows) : e[1] \in DOMAIN rows
<1>1. IsFiniteSet(Numbered(rows))
  BY FiniteNumbered DEF GoodRows
<1>2. \A e \in Numbered(rows) : e[1] \in DOMAIN rows
  BY NumberedMember
<1> QED BY <1>1, <1>2 DEF Source, GoodRows

LEMMA NoRowsGood == GoodRows(NoRows) /\ DOMAIN NoRows = {} /\ Numbered(NoRows) = {}
<1>1. DOMAIN NoRows = {} /\ NoRows \in [{} -> Nat \ {0}]
  BY DEF NoRows
<1>2. Numbered(NoRows) = {}
  BY <1>1 DEF Numbered
<1> QED BY <1>1, <1>2, FS_EmptySet DEF GoodRows, FiniteBag

LEMMA ArticlesGood ==
  ASSUME NEW a \in Articles
  PROVE  /\ GoodRows(a)
         /\ \A row \in DOMAIN a : row[1] = "text" /\ row[2] \in Seq(Tokens \cup {Foreign})
<1>1. IsABag(a) /\ IsFiniteSet(DOMAIN a) /\ DOMAIN a \subseteq {"text"} \X Seq(Tokens \cup {Foreign})
  BY BeamAssumption
<1>2. FiniteBag(a)
  <2>1. a \in [DOMAIN a -> {n \in Nat : n > 0}]
    BY <1>1 DEF IsABag
  <2>2. {n \in Nat : n > 0} = Nat \ {0}
    OBVIOUS
  <2> QED BY <1>1, <2>1, <2>2 DEF FiniteBag
<1>3. \A row \in DOMAIN a : row[1] = "text" /\ row[2] \in Seq(Tokens \cup {Foreign})
  BY <1>1
<1> QED BY <1>2, <1>3 DEF GoodRows, Text

LEMMA SegmentEndType ==
  ASSUME NEW corpus \in Corpora, NEW n \in Splits, NEW i \in 0 .. n
  PROVE  SegmentEnd(corpus, n, i) \in Nat
<1> DEFINE size == [j \in 1 .. i |-> SegmentSize(corpus, n, j)]
<1>1. n \in Nat \ {0} /\ Len(corpus) \in Nat
  BY BeamAssumption
<1>2. Len(corpus) \div n \in Nat
  BY <1>1
<1>3. \A j \in 1 .. i : size[j] \in Nat
  BY <1>2 DEF SegmentSize
<1>4. IsFiniteSet(1 .. i)
  BY <1>1, FS_Interval
<1> HIDE DEF size
<1>5. SumOver(1 .. i, size) \in Nat
  BY <1>3, <1>4, SumType
<1> QED BY <1>5 DEF SegmentEnd, size

LEMMA SegmentsAreTexts ==
  ASSUME NEW corpus \in Corpora, NEW n \in Splits
  PROVE  /\ DOMAIN split_input(corpus, n, B) = 1 .. n /\ IsFiniteSet(1 .. n)
         /\ \A i \in 1 .. n : Text(split_input(corpus, n, B)[i])
<1>1. n \in Nat \ {0} /\ B \in Nat
  BY BeamAssumption, BlockAssumption
<1>2. ASSUME NEW i \in 1 .. n
      PROVE  Text(split_input(corpus, n, B)[i])
  <2> DEFINE from == SegmentEnd(corpus, n, i - 1)
             to == SegmentEnd(corpus, n, i)
  <2>1. i - 1 \in 0 .. n /\ i \in 0 .. n
    BY <1>1
  <2>2. from \in Nat /\ to \in Nat
    BY <2>1, SegmentEndType
  <2> HIDE DEF from, to
  <2>3. Max({0, from - B}) \in {0, from - B}
    <3>1. {0, from - B} \subseteq Int
      BY <1>1, <2>2
    <3>2. CASE from >= B
      <4>1. \A y \in {0, from - B} : y <= from - B
        BY <1>1, <2>2, <3>2
      <4> QED BY <3>1, <4>1, LargestIs
    <3>3. CASE ~ (from >= B)
      <4>1. \A y \in {0, from - B} : y <= 0
        BY <1>1, <2>2, <3>3
      <4> QED BY <3>1, <4>1, LargestIs
    <3> QED BY <3>2, <3>3
  <2>4. Max({0, from - B}) >= 0
    <3>1. CASE from >= B
      BY <1>1, <2>2, <2>3, <3>1
    <3>2. CASE ~ (from >= B)
      <4>1. \A y \in {0, from - B} : y <= 0
        BY <1>1, <2>2, <3>2
      <4>2. Max({0, from - B}) = 0
        BY <1>1, <2>2, <4>1, LargestIs
      <4> QED BY <4>2
    <3> QED BY <3>1, <3>2
  <2>5. Max({0, from - B}) + 1 \in Nat
    BY <1>1, <2>2, <2>3, <2>4
  <2>6. Text(SubSeq(corpus, Max({0, from - B}) + 1, to))
    BY <2>2, <2>5, PieceIsText
  <2> QED BY <2>6 DEF split_input, from, to
<1>3. DOMAIN split_input(corpus, n, B) = 1 .. n
  BY DEF split_input
<1>4. IsFiniteSet(1 .. n)
  BY <1>1, FS_Interval
<1> QED BY <1>2, <1>3, <1>4

LEMMA RowsOfGood ==
  ASSUME NEW texts, IsFiniteSet(DOMAIN texts), \A i \in DOMAIN texts : Text(texts[i]), NEW field
  PROVE  /\ GoodRows(RowsOf(texts, field))
         /\ \A row \in DOMAIN RowsOf(texts, field) : row[1] = field
<1> DEFINE S == DOMAIN texts
           key == [i \in S |-> <<field, texts[i]>>]
<1>1. FiniteBag(Tally(S, key)) /\ DOMAIN Tally(S, key) = {key[i] : i \in S}
  BY TallyBag
<1>2. \A row \in {key[i] : i \in S} : row[1] = field /\ Text(row[2])
  OBVIOUS
<1>3. RowsOf(texts, field) = Tally(S, key)
  BY DEF RowsOf
<1> HIDE DEF S, key
<1> QED BY <1>1, <1>2, <1>3 DEF GoodRows

-----------------------------------------------------------------------------
(* A bag of counted things, numbered, is as good as the things *)

Matches(b, S, I, key) ==
    /\ b \in [S -> I]
    /\ \A d, e \in S : b[d] = b[e] => d = e
    /\ \A i \in I : \E e \in S : b[e] = i
    /\ \A e \in S : key[b[e]] = e[1]

LEMMA NumberedTally ==
  ASSUME NEW I, IsFiniteSet(I), NEW key
  PROVE  \E b : Matches(b, Numbered(Tally(I, key)), I, key)
<1> DEFINE bag == Tally(I, key)
           S == Numbered(bag)
           part(k) == Having(I, key, k)
           c == [k \in DOMAIN bag |-> CHOOSE f : f \in Bijection(1 .. bag[k], part(k))]
           b == [e \in S |-> c[e[1]][e[2]]]
<1>1. FiniteBag(bag) /\ DOMAIN bag = {key[i] : i \in I}
  BY TallyBag
<1>2. ASSUME NEW k \in DOMAIN bag
      PROVE  /\ c[k] \in [1 .. bag[k] -> part(k)]
             /\ \A m, n \in 1 .. bag[k] : c[k][m] = c[k][n] => m = n
             /\ \A i \in part(k) : \E n \in 1 .. bag[k] : c[k][n] = i
  <2>1. IsFiniteSet(part(k))
    BY FS_Subset DEF Having
  <2>2. bag[k] = Cardinality(part(k))
    BY DEF Tally, Having
  <2>3. ExistsBijection(1 .. bag[k], part(k))
    BY <2>1, <2>2, FS_CardinalityType
  <2> HIDE DEF bag, part
  <2>4. PICK f : f \in Bijection(1 .. bag[k], part(k))
    BY <2>3 DEF ExistsBijection
  <2>5. c[k] \in Bijection(1 .. bag[k], part(k))
    BY <2>4
  <2> HIDE DEF c
  <2> QED BY <2>5 DEF Bijection, Injection, Surjection, IsInjective
<1>3. \A k : \A i : i \in part(k) <=> i \in I /\ key[i] = k
  BY DEF Having
<1>4. \A e \in S : /\ e[1] \in DOMAIN bag /\ e[2] \in 1 .. bag[e[1]] /\ e = <<e[1], e[2]>>
                   /\ b[e] = c[e[1]][e[2]]
  BY NumberedMember
<1>5. \A k \in DOMAIN bag : \A n \in 1 .. bag[k] : <<k, n>> \in S
  BY NumberedMember
<1> HIDE DEF c
<1>6. \A k \in DOMAIN bag : \A n \in 1 .. bag[k] : b[<<k, n>>] = c[k][n]
  BY <1>5
<1>7. b = [e \in S |-> b[e]] /\ DOMAIN b = S
  OBVIOUS
<1> HIDE DEF b, S, bag, part
<1>8. \A e \in S : b[e] \in I /\ key[b[e]] = e[1]
  <2> TAKE e \in S
  <2>1. /\ e[1] \in DOMAIN bag /\ e[2] \in 1 .. bag[e[1]] /\ b[e] = c[e[1]][e[2]]
    BY <1>4
  <2>2. c[e[1]] \in [1 .. bag[e[1]] -> part(e[1])]
    BY <1>2, <2>1
  <2>3. b[e] \in part(e[1])
    BY <2>1, <2>2
  <2> QED BY <1>3, <2>3
<1>9. \A d, e \in S : b[d] = b[e] => d = e
  <2> TAKE d, e \in S
  <2> HAVE b[d] = b[e]
  <2>1. d[1] = e[1]
    BY <1>8
  <2>2. d[2] = e[2]
    BY <1>2, <1>4, <2>1
  <2> QED BY <1>4, <2>1, <2>2
<1>10. \A i \in I : \E e \in S : b[e] = i
  <2> TAKE i \in I
  <2>1. key[i] \in DOMAIN bag /\ i \in part(key[i])
    BY <1>1, <1>3
  <2>2. PICK n \in 1 .. bag[key[i]] : c[key[i]][n] = i
    BY <1>2, <2>1
  <2> QED BY <1>5, <1>6, <2>1, <2>2
<1>11. b \in [S -> I]
  BY <1>7, <1>8
<1>12. Matches(b, S, I, key)
  BY <1>8, <1>9, <1>10, <1>11 DEF Matches
<1> QED BY <1>12 DEF S, bag

(* Renamed things have the same tally. *)
LEMMA TallyRenamed ==
  ASSUME NEW S, IsFiniteSet(S), NEW I, NEW b, NEW key, Matches(b, S, I, key),
         NEW f, NEW g, \A e \in S : f[e] = g[b[e]]
  PROVE  Tally(S, f) = Tally(I, g)
<1>1. /\ b \in [S -> I]
      /\ \A d, e \in S : b[d] = b[e] => d = e
      /\ \A i \in I : \E e \in S : b[e] = i
  BY DEF Matches
<1>2. ASSUME NEW k
      PROVE  Cardinality(Having(S, f, k)) = Cardinality(Having(I, g, k))
  <2> DEFINE X == Having(S, f, k)
             Y == Having(I, g, k)
             h == [e \in X |-> b[e]]
  <2>1. (\A e : e \in X <=> e \in S /\ f[e] = k) /\ (\A i : i \in Y <=> i \in I /\ g[i] = k)
    BY DEF Having
  <2>2. IsFiniteSet(X)
    BY FS_Subset DEF Having
  <2> HIDE DEF X, Y
  <2>3. /\ h \in [X -> Y]
        /\ \A d, e \in X : h[d] = h[e] => d = e
        /\ \A i \in Y : \E e \in X : h[e] = i
    BY <1>1, <2>1
  <2> HIDE DEF h
  <2>4. ExistsBijection(X, Y)
    BY <2>3, BijectionExists
  <2> QED BY <2>2, <2>4, FS_Bijection DEF X, Y
<1>3. {f[e] : e \in S} = {g[i] : i \in I}
  <2>1. \A e \in S : b[e] \in I
    BY <1>1
  <2> QED BY <1>1, <2>1
<1>4. Tally(S, f) = [k \in {f[e] : e \in S} |-> Cardinality(Having(S, f, k))]
  BY DEF Tally, Having
<1>5. Tally(I, g) = [k \in {g[i] : i \in I} |-> Cardinality(Having(I, g, k))]
  BY DEF Tally, Having
<1> QED BY <1>2, <1>3, <1>4, <1>5

-----------------------------------------------------------------------------
(* The output of a job that combines nothing *)

PassedBy(j, S) == {e \in S : Process(j, e[1]).rows # {}}
RowsBy(j, S) == [e \in PassedBy(j, S) |-> The(Process(j, e[1]).rows)]
StagedBy(j, S) == Tally(PassedBy(j, S), RowsBy(j, S))

LEMMA StagedBag ==
  ASSUME NEW j, NEW S, IsFiniteSet(S)
  PROVE  FiniteBag(StagedBy(j, S)) /\ Size(StagedBy(j, S)) = Cardinality(PassedBy(j, S))
<1>1. IsFiniteSet(PassedBy(j, S))
  BY FS_Subset DEF PassedBy
<1> QED BY <1>1, TallyBag, TallySize DEF StagedBy

LEMMA StagedUnion ==
  ASSUME NEW j, NEW S, IsFiniteSet(S), NEW T, IsFiniteSet(T), S \cap T = {}
  PROVE  StagedBy(j, S) (+) StagedBy(j, T) = StagedBy(j, S \cup T)
<1> DEFINE U == S \cup T
           P == PassedBy(j, S)
           Q == PassedBy(j, T)
           R == PassedBy(j, U)
           f == RowsBy(j, S)
           g == RowsBy(j, T)
           h == RowsBy(j, U)
<1>1. IsFiniteSet(P) /\ IsFiniteSet(Q) /\ P \cap Q = {} /\ R = P \cup Q
  BY FS_Subset DEF PassedBy
<1>2. (\A e \in P : f[e] = h[e]) /\ (\A e \in Q : g[e] = h[e])
  BY <1>1 DEF RowsBy
<1> HIDE DEF U, P, Q, R, f, g, h
<1>3. Tally(P, f) (+) Tally(Q, g) = Tally(P \cup Q, h)
  BY <1>1, <1>2, TallyUnion
<1> QED BY <1>1, <1>3 DEF StagedBy, U, P, Q, R, f, g, h

-----------------------------------------------------------------------------
(* The tree of all segments *)

PatternsIn(text) == Leading(text, B) \cup Blocks(text, B)

\* The nodes of a text that end in k and are counted as c.
CountedIn(text, k, c) ==
    Having(EndingIn(NodesOf(PatternsIn(text)), k), NodeKeys(NodesOf(PatternsIn(text))), c)

LEMMA CountedMember ==
  \A text, k, c, y :
    y \in CountedIn(text, k, c) <=>
      \E x \in PatternsIn(text) : \E q \in Suffixes(x.prefix) \ {<<>>} :
        y = <<q, x>> /\ Last(q) = k /\ <<q, x.next>> = c
<1> SUFFICES ASSUME NEW text, NEW k, NEW c, NEW y
             PROVE  y \in CountedIn(text, k, c) <=>
                      \E x \in PatternsIn(text) : \E q \in Suffixes(x.prefix) \ {<<>>} :
                        y = <<q, x>> /\ Last(q) = k /\ <<q, x.next>> = c
  OBVIOUS
<1> DEFINE N == NodesOf(PatternsIn(text))
<1>1. y \in CountedIn(text, k, c) <=> y \in N /\ Last(y[1]) = k /\ <<y[1], y[2].next>> = c
  BY DEF CountedIn, Having, EndingIn, NodeKeys
<1>2. y \in N <=> \E x \in PatternsIn(text) : \E q \in Suffixes(x.prefix) \ {<<>>} : y = <<q, x>>
  BY DEF NodesOf
<1> HIDE DEF N
<1> QED BY <1>1, <1>2

LEMMA CountedFinite ==
  ASSUME NEW text, Text(text)
  PROVE  \A k, c : IsFiniteSet(CountedIn(text, k, c))
<1>1. IsFiniteSet(NodesOf(PatternsIn(text)))
  BY PatternsFinite, NodesFinite DEF PatternsIn
<1>2. \A k, c : CountedIn(text, k, c) \subseteq NodesOf(PatternsIn(text))
  BY DEF CountedIn, Having, EndingIn
<1> QED BY <1>1, <1>2, FS_Subset

(* What SuffixTreeParser gives for a key counts the nodes of its text. *)
LEMMA ParserCounts ==
  ASSUME NEW row, Text(row[2]), ~SuffixTreeParser(row).raises, NEW k, NEW c
  PROVE  LET values == SuffixTreeParser(row).values
         IN  /\ k \in DOMAIN values => Copies(c, values[k]) = Cardinality(CountedIn(row[2], k, c))
             /\ k \notin DOMAIN values => CountedIn(row[2], k, c) = {}
<1> DEFINE patterns == PatternsIn(row[2])
           N == NodesOf(patterns)
           trees == DenseTrees(patterns)
<1>1. SuffixTreeParser(row).values = trees
  BY DEF SuffixTreeParser, Raises, Emits, PatternsIn
<1>2. IsFiniteSet(patterns) /\ \A x \in patterns : Text(x.prefix)
  BY PatternsFinite DEF PatternsIn
<1> HIDE DEF patterns
<1>3. /\ DOMAIN trees = {Last(y[1]) : y \in N}
      /\ \A l \in DOMAIN trees : trees[l] = Tally(EndingIn(N, l), NodeKeys(N))
  BY <1>2, DenseTreesAre
<1>4. IsFiniteSet(N)
  BY <1>2, NodesFinite
<1> HIDE DEF trees, N
<1>5. IsFiniteSet(EndingIn(N, k))
  BY <1>4, FS_Subset DEF EndingIn
<1>6. Copies(c, Tally(EndingIn(N, k), NodeKeys(N))) = Cardinality(Having(EndingIn(N, k), NodeKeys(N), c))
  BY <1>5, TallyBag
<1>7. CountedIn(row[2], k, c) = Having(EndingIn(N, k), NodeKeys(N), c)
  BY DEF CountedIn, N, patterns
<1>8. k \notin DOMAIN trees => EndingIn(N, k) = {}
  BY <1>3 DEF EndingIn
<1>9. k \notin DOMAIN trees => CountedIn(row[2], k, c) = {}
  BY <1>7, <1>8 DEF Having
<1> QED BY <1>1, <1>3, <1>6, <1>7, <1>9

LEMMA ParserKeys ==
  ASSUME NEW row, Text(row[2]), ~SuffixTreeParser(row).raises
  PROVE  DOMAIN SuffixTreeParser(row).values = {Last(y[1]) : y \in NodesOf(PatternsIn(row[2]))}
<1> DEFINE patterns == PatternsIn(row[2])
<1>1. SuffixTreeParser(row).values = DenseTrees(patterns)
  BY DEF SuffixTreeParser, Raises, Emits, PatternsIn
<1>2. IsFiniteSet(patterns) /\ \A x \in patterns : Text(x.prefix)
  BY PatternsFinite DEF PatternsIn
<1> HIDE DEF patterns
<1>3. DOMAIN DenseTrees(patterns) = {Last(y[1]) : y \in NodesOf(patterns)}
  BY <1>2, DenseTreesAre
<1> QED BY <1>1, <1>3 DEF patterns

LEMMA SegmentNodesMember ==
  ASSUME NEW corpus, NEW n
  PROVE  \A y : y \in SegmentNodes(corpus, n) <=>
           \E i \in 1 .. n : \E x \in PatternsIn(split_input(corpus, n, B)[i]) :
             \E q \in Suffixes(x.prefix) \ {<<>>} : y = <<q, <<i, x>>>>
<1> DEFINE texts == split_input(corpus, n, B)
           parsed == UNION {{<<i, x>> : x \in PatternsIn(texts[i])} : i \in 1 .. n}
           nodes == UNION {{<<q, x>> : q \in Suffixes(x[2].prefix) \ {<<>>}} : x \in parsed}
<1>1. SegmentNodes(corpus, n) = nodes
  BY DEF SegmentNodes, PatternsIn
<1> HIDE DEF texts
<1>2. \A z : z \in parsed <=> \E i \in 1 .. n : \E x \in PatternsIn(texts[i]) : z = <<i, x>>
  OBVIOUS
<1> HIDE DEF parsed
<1>3. \A y : y \in nodes <=> \E z \in parsed : \E q \in Suffixes(z[2].prefix) \ {<<>>} : y = <<q, z>>
  OBVIOUS
<1> HIDE DEF nodes
<1>4. ASSUME NEW y, y \in nodes
      PROVE  \E i \in 1 .. n : \E x \in PatternsIn(texts[i]) :
               \E q \in Suffixes(x.prefix) \ {<<>>} : y = <<q, <<i, x>>>>
  <2>1. PICK z \in parsed : \E q \in Suffixes(z[2].prefix) \ {<<>>} : y = <<q, z>>
    BY <1>3, <1>4
  <2>2. PICK i \in 1 .. n : \E x \in PatternsIn(texts[i]) : z = <<i, x>>
    BY <1>2
  <2>3. PICK x \in PatternsIn(texts[i]) : z = <<i, x>>
    BY <2>2
  <2> QED BY <2>1, <2>3
<1>5. ASSUME NEW i \in 1 .. n, NEW x \in PatternsIn(texts[i]), NEW q \in Suffixes(x.prefix) \ {<<>>}
      PROVE  <<q, <<i, x>>>> \in nodes
  <2>1. <<i, x>> \in parsed /\ <<i, x>>[2] = x
    BY <1>2
  <2> QED BY <2>1, <1>3
<1> QED BY <1>1, <1>4, <1>5 DEF texts

(* So does the tree of all segments, text by text. *)
LEMMA WholeCounts ==
  ASSUME NEW corpus \in Corpora, NEW n \in Splits, NEW k, NEW c
  PROVE  LET texts == split_input(corpus, n, B)
         IN  /\ FiniteBag(WholeTree(corpus, n, k))
             /\ Copies(c, WholeTree(corpus, n, k))
                  = SumOver(1 .. n, [i \in 1 .. n |-> Cardinality(CountedIn(texts[i], k, c))])
<1> DEFINE texts == split_input(corpus, n, B)
           nodes == SegmentNodes(corpus, n)
           key == [y \in nodes |-> <<y[1], y[2][2].next>>]
           part == {y \in nodes : Last(y[1]) = k}
           X == Having(part, key, c)
           h == [y \in X |-> y[2][1]]
           E == [i \in 1 .. n |-> {y \in X : y[2][1] = i}]
           g == [i \in 1 .. n |-> Cardinality(CountedIn(texts[i], k, c))]
<1>1. WholeTree(corpus, n, k) = Tally(part, key)
  BY DEF WholeTree
<1>2. IsFiniteSet(1 .. n) /\ \A i \in 1 .. n : Text(texts[i])
  BY SegmentsAreTexts
<1>3. \A y : y \in nodes <=> \E i \in 1 .. n : \E x \in PatternsIn(texts[i]) :
                              \E q \in Suffixes(x.prefix) \ {<<>>} : y = <<q, <<i, x>>>>
  BY SegmentNodesMember
<1>4. IsFiniteSet(nodes)
  <2> DEFINE layer == [i \in 1 .. n |-> {<<y[1], <<i, y[2]>>>> : y \in NodesOf(PatternsIn(texts[i]))}]
  <2>1. ASSUME NEW i \in 1 .. n
        PROVE  IsFiniteSet(layer[i])
    <3> DEFINE N == NodesOf(PatternsIn(texts[i]))
               pair == [y \in N |-> <<y[1], <<i, y[2]>>>>]
    <3>1. Text(texts[i])
      BY <1>2
    <3> HIDE DEF texts
    <3>2. IsFiniteSet(N)
      BY <3>1, PatternsFinite, NodesFinite DEF PatternsIn
    <3>3. IsFiniteSet({pair[y] : y \in N})
      BY <3>2, ImageFinite
    <3>4. {pair[y] : y \in N} = layer[i]
      OBVIOUS
    <3> QED BY <3>3, <3>4
  <2>2. IsFiniteSet({layer[i] : i \in 1 .. n})
    BY <1>2, ImageFinite
  <2>3. nodes \subseteq UNION {layer[i] : i \in 1 .. n}
    <3> HIDE DEF texts
    <3>1. ASSUME NEW y \in nodes
          PROVE  \E i \in 1 .. n : y \in layer[i]
      <4> HIDE DEF nodes
      <4>1. PICK i \in 1 .. n : \E x \in PatternsIn(texts[i]) :
              \E q \in Suffixes(x.prefix) \ {<<>>} : y = <<q, <<i, x>>>>
        BY <1>3
      <4>3. PICK x \in PatternsIn(texts[i]) :
              \E q \in Suffixes(x.prefix) \ {<<>>} : y = <<q, <<i, x>>>>
        BY <4>1
      <4>4. PICK q \in Suffixes(x.prefix) \ {<<>>} : y = <<q, <<i, x>>>>
        BY <4>3
      <4>2. <<q, x>> \in NodesOf(PatternsIn(texts[i]))
        BY DEF NodesOf
      <4> QED BY <4>2, <4>4
    <3> HIDE DEF nodes, layer
    <3> QED BY <3>1
  <2>4. IsFiniteSet(UNION {layer[i] : i \in 1 .. n})
    <3> HIDE DEF layer
    <3> QED BY <1>2, <2>1, <2>2, FS_UNION
  <2> QED BY <2>3, <2>4, FS_Subset
<1> HIDE DEF texts, nodes
<1>5. IsFiniteSet(part) /\ IsFiniteSet(X)
  <2>1. IsFiniteSet(part)
    BY <1>4, FS_Subset
  <2> HIDE DEF part
  <2> QED BY <2>1, FS_Subset DEF Having
<1>6. FiniteBag(Tally(part, key)) /\ Copies(c, Tally(part, key)) = Cardinality(X)
  <2> HIDE DEF part, key
  <2> QED BY <1>5, TallyBag
<1>7. \A y : y \in X <=> \E i \in 1 .. n : \E x \in PatternsIn(texts[i]) :
                            \E q \in Suffixes(x.prefix) \ {<<>>} :
                              y = <<q, <<i, x>>>> /\ Last(q) = k /\ <<q, x.next>> = c
  <2>1. \A y : y \in X <=> y \in nodes /\ Last(y[1]) = k /\ <<y[1], y[2][2].next>> = c
    BY DEF Having
  <2> HIDE DEF X
  <2> QED BY <2>1, <1>3
<1> HIDE DEF X, part, key
<1>8. ASSUME NEW i \in 1 .. n
      PROVE  Cardinality(E[i]) = g[i]
  <2> DEFINE Y == CountedIn(texts[i], k, c)
             b == [z \in Y |-> <<z[1], <<i, z[2]>>>>]
             F == E[i]
  <2>1. \A z : z \in Y <=> \E x \in PatternsIn(texts[i]) : \E q \in Suffixes(x.prefix) \ {<<>>} :
                             z = <<q, x>> /\ Last(q) = k /\ <<q, x.next>> = c
    BY CountedMember
  <2>2. \A y : y \in F <=> y \in X /\ y[2][1] = i
    OBVIOUS
  <2>3. \A y : y \in F <=> \E x \in PatternsIn(texts[i]) : \E q \in Suffixes(x.prefix) \ {<<>>} :
                             y = <<q, <<i, x>>>> /\ Last(q) = k /\ <<q, x.next>> = c
    <3> HIDE DEF E, F
    <3>1. ASSUME NEW y \in F
          PROVE  \E x \in PatternsIn(texts[i]) : \E q \in Suffixes(x.prefix) \ {<<>>} :
                   y = <<q, <<i, x>>>> /\ Last(q) = k /\ <<q, x.next>> = c
      <4>1. PICK m \in 1 .. n : \E x \in PatternsIn(texts[m]) :
              \E q \in Suffixes(x.prefix) \ {<<>>} :
                y = <<q, <<m, x>>>> /\ Last(q) = k /\ <<q, x.next>> = c
        BY <1>7, <2>2
      <4>2. m = i
        BY <4>1, <2>2
      <4> QED BY <4>1, <4>2
    <3>2. ASSUME NEW x \in PatternsIn(texts[i]), NEW q \in Suffixes(x.prefix) \ {<<>>},
                 Last(q) = k, <<q, x.next>> = c
          PROVE  <<q, <<i, x>>>> \in F
      <4>1. <<q, <<i, x>>>> \in X
        BY <1>7, <3>2
      <4> QED BY <4>1, <2>2
    <3> QED BY <3>1, <3>2
  <2> HIDE DEF Y, E, F
  <2>4. ASSUME NEW z \in Y
        PROVE  z = <<z[1], z[2]>> /\ b[z] \in F
    <3>1. PICK x \in PatternsIn(texts[i]) : \E q \in Suffixes(x.prefix) \ {<<>>} :
            z = <<q, x>> /\ Last(q) = k /\ <<q, x.next>> = c
      BY <2>1
    <3>2. PICK q \in Suffixes(x.prefix) \ {<<>>} : z = <<q, x>> /\ Last(q) = k /\ <<q, x.next>> = c
      BY <3>1
    <3>3. <<q, <<i, x>>>> \in F
      BY <2>3, <3>2
    <3> QED BY <3>2, <3>3
  <2>5. ASSUME NEW y \in F
        PROVE  \E z \in Y : b[z] = y
    <3>1. PICK x \in PatternsIn(texts[i]) : \E q \in Suffixes(x.prefix) \ {<<>>} :
            y = <<q, <<i, x>>>> /\ Last(q) = k /\ <<q, x.next>> = c
      BY <2>3
    <3>2. PICK q \in Suffixes(x.prefix) \ {<<>>} :
            y = <<q, <<i, x>>>> /\ Last(q) = k /\ <<q, x.next>> = c
      BY <3>1
    <3>3. <<q, x>> \in Y
      BY <2>1, <3>2
    <3>4. b[<<q, x>>] = y
      BY <3>2, <3>3
    <3> QED BY <3>3, <3>4
  <2>6. \A y, z \in Y : b[y] = b[z] => y = z
    BY <2>4
  <2>7. b \in [Y -> F]
    BY <2>4
  <2> HIDE DEF b
  <2>8. ExistsBijection(Y, F)
    BY <2>5, <2>6, <2>7, BijectionExists
  <2>9. IsFiniteSet(Y)
    BY <1>2, CountedFinite DEF Y
  <2>10. Cardinality(F) = Cardinality(Y)
    BY <2>8, <2>9, FS_Bijection
  <2> QED BY <2>10 DEF F, Y
<1>9. \A y \in X : h[y] \in 1 .. n
  BY <1>7
<1>10. \A i \in 1 .. n : \A y : y \in E[i] <=> y \in X /\ h[y] = i
  OBVIOUS
<1> HIDE DEF E, h, g
<1>11. SumOver(1 .. n, g) = Cardinality(X)
  <2> DEFINE I == 1 .. n
  <2> HIDE DEF I
  <2>1. /\ IsFiniteSet(I) /\ \A y \in X : h[y] \in I
        /\ \A i \in I : \A y : y \in E[i] <=> y \in X /\ h[y] = i
        /\ \A i \in I : g[i] = Cardinality(E[i])
    BY <1>2, <1>8, <1>9, <1>10 DEF I
  <2>2. SumOver(I, g) = Cardinality(X)
    BY <1>5, <2>1, SizeByParts
  <2> QED BY <2>2 DEF I
<1> QED BY <1>1, <1>6, <1>11 DEF g, texts

(* The rows of the segments, numbered, are as good as the segments. *)
LEMMA SegmentSource ==
  ASSUME NEW corpus \in Corpora, NEW n \in Splits, NEW S,
         S = Numbered(RowsOf(split_input(corpus, n, B), "segment"))
  PROVE  /\ Source(S) /\ \A e \in S : e[1][1] = "segment"
         /\ \E b : /\ b \in [S -> 1 .. n] /\ \A d, e \in S : b[d] = b[e] => d = e
                   /\ \A i \in 1 .. n : \E e \in S : b[e] = i
                   /\ \A e \in S : e[1][2] = split_input(corpus, n, B)[b[e]]
<1> DEFINE texts == split_input(corpus, n, B)
           I == 1 .. n
           key == [i \in I |-> <<"segment", texts[i]>>]
<1>1. DOMAIN texts = I /\ IsFiniteSet(I) /\ \A i \in I : Text(texts[i])
  BY SegmentsAreTexts
<1> HIDE DEF texts, I
<1>2. S = Numbered(Tally(I, key))
  BY <1>1 DEF RowsOf, texts
<1>3. Source(S) /\ \A e \in S : e[1][1] = "segment"
  <2>1. /\ GoodRows(RowsOf(texts, "segment"))
        /\ \A row \in DOMAIN RowsOf(texts, "segment") : row[1] = "segment"
    BY <1>1, RowsOfGood
  <2> QED BY <2>1, NumberedIsSource DEF texts
<1>4. PICK b : Matches(b, S, I, key)
  <2> HIDE DEF key
  <2> QED BY <1>1, <1>2, NumberedTally
<1>5. /\ b \in [S -> I] /\ \A d, e \in S : b[d] = b[e] => d = e
      /\ \A i \in I : \E e \in S : b[e] = i
      /\ \A e \in S : e[1][2] = texts[b[e]]
  <2>1. /\ b \in [S -> I] /\ \A d, e \in S : b[d] = b[e] => d = e
        /\ \A i \in I : \E e \in S : b[e] = i
        /\ \A e \in S : key[b[e]] = e[1]
    BY <1>4 DEF Matches
  <2>2. ASSUME NEW e \in S
        PROVE  e[1][2] = texts[b[e]]
    <3>1. b[e] \in I /\ key[b[e]] = e[1]
      BY <2>1
    <3>2. key[b[e]] = <<"segment", texts[b[e]]>>
      BY <3>1
    <3> HIDE DEF key
    <3> QED BY <3>1, <3>2
  <2> HIDE DEF key
  <2> QED BY <2>1, <2>2
<1> QED BY <1>3, <1>5 DEF I, texts

(* What SuffixTreeParser makes of all rows is the tree of all segments. *)
LEMMA WholeIs ==
  ASSUME NEW corpus \in Corpora, NEW n \in Splits, NEW S,
         S = Numbered(RowsOf(split_input(corpus, n, B), "segment")),
         \A e \in S : ~Process(ParseSegments, e[1]).raises, NEW k
  PROVE  ResultOf(ParseSegments, S, k) = WholeTree(corpus, n, k)
<1> DEFINE texts == split_input(corpus, n, B)
           I == 1 .. n
           D == EmittedBy(ParseSegments, S, k)
           v == ValuesOf(ParseSegments, S, k)
<1>1. IsFiniteSet(I)
  BY SegmentsAreTexts
<1>3. Source(S)
  BY SegmentSource
<1>5. PICK b : /\ b \in [S -> I] /\ \A d, e \in S : b[d] = b[e] => d = e
               /\ \A i \in I : \E e \in S : b[e] = i
               /\ \A e \in S : e[1][2] = texts[b[e]]
  BY SegmentSource
<1> HIDE DEF texts, I
<1>6. /\ IsFiniteSet(D) /\ D \subseteq S
      /\ \A e \in D : v[e] = SuffixTreeParser(e[1]).values[k]
  BY <1>3, EmittedType, Dispatch, JobList
<1>7. \A e \in S : ~SuffixTreeParser(e[1]).raises /\ Text(e[1][2])
  BY <1>3, Dispatch DEF Source
<1>8. \A e \in S : e \in D <=> k \in DOMAIN SuffixTreeParser(e[1]).values
  BY Dispatch DEF EmittedBy
<1> HIDE DEF D, v
<1>9. ASSUME NEW c
      PROVE  Copies(c, ResultOf(ParseSegments, S, k)) = Copies(c, WholeTree(corpus, n, k))
  <2> DEFINE f == [e \in S |-> Cardinality(CountedIn(e[1][2], k, c))]
             g == [i \in I |-> Cardinality(CountedIn(texts[i], k, c))]
             h == [e \in D |-> Copies(c, v[e])]
  <2>1. Copies(c, ResultOf(ParseSegments, S, k)) = SumOver(D, h)
    <3>1. Copies(c, ResultOf(ParseSegments, S, k)) = HeldOf(ParseSegments, S, k, c)
      BY <1>3, ResultType, JobList
    <3> QED BY <3>1 DEF HeldOf, Held, D, v
  <2>2. \A e \in D : h[e] = f[e]
    <3>1. ASSUME NEW e \in D
          PROVE  h[e] = Cardinality(CountedIn(e[1][2], k, c))
      <4>1. Text(e[1][2]) /\ ~SuffixTreeParser(e[1]).raises
            /\ k \in DOMAIN SuffixTreeParser(e[1]).values
        BY <1>6, <1>7, <1>8
      <4>2. Copies(c, SuffixTreeParser(e[1]).values[k]) = Cardinality(CountedIn(e[1][2], k, c))
        BY <4>1, ParserCounts
      <4> QED BY <1>6, <4>2
    <3> QED BY <1>6, <3>1
  <2>3. \A e \in S \ D : f[e] = 0
    <3>1. ASSUME NEW e \in S \ D
          PROVE  CountedIn(e[1][2], k, c) = {}
      <4>1. Text(e[1][2]) /\ ~SuffixTreeParser(e[1]).raises
            /\ k \notin DOMAIN SuffixTreeParser(e[1]).values
        BY <1>7, <1>8
      <4> QED BY <4>1, ParserCounts
    <3> QED BY <3>1, FS_EmptySet
  <2>4. \A e \in S : f[e] \in Nat /\ g[b[e]] = f[e]
    <3>1. ASSUME NEW e \in S
          PROVE  Cardinality(CountedIn(e[1][2], k, c)) \in Nat
      <4>1. IsFiniteSet(CountedIn(e[1][2], k, c))
        BY <1>7, CountedFinite
      <4> QED BY <4>1, FS_CardinalityType
    <3>2. \A e \in S : b[e] \in I
      BY <1>5
    <3> QED BY <1>5, <3>1, <3>2
  <2>5. Copies(c, WholeTree(corpus, n, k)) = SumOver(I, g)
    BY WholeCounts DEF I, texts
  <2> HIDE DEF f, g, h
  <2>6. SumOver(D, h) = SumOver(D, f)
    BY <2>2, SumSame
  <2>7. SumOver(S, f) = SumOver(D, f)
    BY <1>3, <1>6, <2>3, <2>4, SumWider DEF Source
  <2>8. SumOver(I, g) = SumOver(S, f)
    BY <1>3, <1>5, <2>4, SumRenamed DEF Source
  <2> QED BY <2>1, <2>5, <2>6, <2>7, <2>8
<1>10. FiniteBag(ResultOf(ParseSegments, S, k)) /\ FiniteBag(WholeTree(corpus, n, k))
  BY <1>3, ResultType, JobList, WholeCounts
<1> QED BY <1>9, <1>10, BagByCopies

\* The rows of all keys.
AllRows(j, S, A) == {Row(j, k, ResultOf(j, S, k)) : k \in DOMAIN A}

(* Its keys are those of the tree. *)
LEMMA SegmentKeys ==
  ASSUME NEW corpus \in Corpora, NEW n \in Splits, NEW S,
         S = Numbered(RowsOf(split_input(corpus, n, B), "segment")),
         \A e \in S : ~Process(ParseSegments, e[1]).raises, NEW k
  PROVE  EmittedBy(ParseSegments, S, k) # {} <=> k \in {Last(y[1]) : y \in SegmentNodes(corpus, n)}
<1> DEFINE texts == split_input(corpus, n, B)
           I == 1 .. n
<1>1. PICK b : /\ b \in [S -> I] /\ \A i \in I : \E e \in S : b[e] = i
               /\ \A e \in S : e[1][2] = texts[b[e]]
  BY SegmentSource
<1>2. \A e \in S : Text(e[1][2]) /\ ~SuffixTreeParser(e[1]).raises
  BY SegmentSource, Dispatch DEF Source
<1>3. EmittedBy(ParseSegments, S, k) # {} <=> \E e \in S : k \in DOMAIN SuffixTreeParser(e[1]).values
  BY Dispatch DEF EmittedBy
<1>4. \A y : y \in SegmentNodes(corpus, n) <=>
        \E i \in I : \E x \in PatternsIn(texts[i]) :
          \E q \in Suffixes(x.prefix) \ {<<>>} : y = <<q, <<i, x>>>>
  BY SegmentNodesMember
<1> HIDE DEF texts, I
<1>5. ASSUME NEW e \in S
      PROVE  k \in DOMAIN SuffixTreeParser(e[1]).values <=>
               \E x \in PatternsIn(e[1][2]) : \E q \in Suffixes(x.prefix) \ {<<>>} : Last(q) = k
  <2> DEFINE N == NodesOf(PatternsIn(e[1][2]))
  <2>1. DOMAIN SuffixTreeParser(e[1]).values = {Last(y[1]) : y \in N}
    BY <1>2, ParserKeys
  <2>2. \A y : y \in N <=> \E x \in PatternsIn(e[1][2]) : \E q \in Suffixes(x.prefix) \ {<<>>} : y = <<q, x>>
    BY DEF NodesOf
  <2> HIDE DEF N
  <2>3. k \in DOMAIN SuffixTreeParser(e[1]).values <=> \E y \in N : k = Last(y[1])
    BY <2>1
  <2>4. ASSUME NEW y \in N, k = Last(y[1])
        PROVE  \E x \in PatternsIn(e[1][2]) : \E q \in Suffixes(x.prefix) \ {<<>>} : Last(q) = k
    <3>1. PICK x \in PatternsIn(e[1][2]) : \E q \in Suffixes(x.prefix) \ {<<>>} : y = <<q, x>>
      BY <2>2
    <3>2. PICK q \in Suffixes(x.prefix) \ {<<>>} : y = <<q, x>>
      BY <3>1
    <3> QED BY <2>4, <3>2
  <2>5. ASSUME NEW x \in PatternsIn(e[1][2]), NEW q \in Suffixes(x.prefix) \ {<<>>}, Last(q) = k
        PROVE  \E y \in N : k = Last(y[1])
    <3>1. <<q, x>> \in N /\ <<q, x>>[1] = q
      BY <2>2
    <3> QED BY <2>5, <3>1
  <2> QED BY <2>3, <2>4, <2>5
<1>6. ASSUME NEW e \in S, k \in DOMAIN SuffixTreeParser(e[1]).values
      PROVE  \E y \in SegmentNodes(corpus, n) : Last(y[1]) = k
  <2>1. PICK x \in PatternsIn(e[1][2]) : \E q \in Suffixes(x.prefix) \ {<<>>} : Last(q) = k
    BY <1>5, <1>6
  <2>2. PICK q \in Suffixes(x.prefix) \ {<<>>} : Last(q) = k
    BY <2>1
  <2>3. b[e] \in I /\ x \in PatternsIn(texts[b[e]])
    BY <1>1, <2>1
  <2>4. <<q, <<b[e], x>>>> \in SegmentNodes(corpus, n)
    BY <1>4, <2>2, <2>3
  <2> QED BY <2>2, <2>4
<1>7. ASSUME NEW y \in SegmentNodes(corpus, n), Last(y[1]) = k
      PROVE  \E e \in S : k \in DOMAIN SuffixTreeParser(e[1]).values
  <2>1. PICK i \in I : \E x \in PatternsIn(texts[i]) :
          \E q \in Suffixes(x.prefix) \ {<<>>} : y = <<q, <<i, x>>>>
    BY <1>4
  <2>2. PICK x \in PatternsIn(texts[i]) : \E q \in Suffixes(x.prefix) \ {<<>>} : y = <<q, <<i, x>>>>
    BY <2>1
  <2>3. PICK q \in Suffixes(x.prefix) \ {<<>>} : y = <<q, <<i, x>>>>
    BY <2>2
  <2>4. PICK e \in S : b[e] = i
    BY <1>1
  <2>5. x \in PatternsIn(e[1][2]) /\ Last(q) = k
    BY <1>1, <1>7, <2>2, <2>3, <2>4
  <2> QED BY <1>5, <2>5
<1> QED BY <1>3, <1>6, <1>7

(* So what a job over all segments makes of its keys are the trees of all segments. *)
LEMMA WholeRows ==
  ASSUME NEW corpus \in Corpora, NEW n \in Splits, NEW S,
         S = Numbered(RowsOf(split_input(corpus, n, B), "segment")),
         \A e \in S : ~Process(ParseSegments, e[1]).raises,
         NEW A, AccsAre(ParseSegments, A, S)
  PROVE  SetToBag(AllRows(ParseSegments, S, A)) = WholeTrees(corpus, n)
<1> DEFINE keys == {Last(y[1]) : y \in SegmentNodes(corpus, n)}
<1>1. \A k : k \in DOMAIN A <=> k \in keys
  <2> TAKE k
  <2>1. k \in DOMAIN A <=> EmittedBy(ParseSegments, S, k) # {}
    BY DEF AccsAre
  <2>2. EmittedBy(ParseSegments, S, k) # {} <=> k \in keys
    BY SegmentKeys
  <2> QED BY <2>1, <2>2
<1>2. ASSUME NEW k
      PROVE  Row(ParseSegments, k, ResultOf(ParseSegments, S, k)) = <<k, WholeTree(corpus, n, k)>>
  <2>1. ResultOf(ParseSegments, S, k) = WholeTree(corpus, n, k)
    BY WholeIs
  <2> QED BY <2>1, JobFields DEF Row
<1>3. AllRows(ParseSegments, S, A) = {<<k, WholeTree(corpus, n, k)>> : k \in keys}
  <2> HIDE DEF keys
  <2>1. AllRows(ParseSegments, S, A) = {<<k, WholeTree(corpus, n, k)>> : k \in DOMAIN A}
    BY <1>2 DEF AllRows
  <2>2. \A k : k \in DOMAIN A <=> k \in keys
    BY <1>1
  <2> QED BY <2>1, <2>2
<1> QED BY <1>3 DEF WholeTrees

-----------------------------------------------------------------------------
(* The inductive invariant *)

SegmentRows(d) == RowsOf(split_input(d[1], d[2], B), "segment")

EncodedRows(rows) == \A row \in DOMAIN rows : row[1] = "encoded"

\* The rows a job may find.
Readable(j, rows) ==
    /\ GoodRows(rows)
    /\ j # ParseSegments => rows \in Articles \/ EncodedRows(rows)
    /\ j = CharcountLines => rows \in Articles

SourceOK(j, S, T) == T \subseteq S /\ \E rows : Readable(j, rows) /\ S = Numbered(rows)

\* No committed row raised.
CleanOK(j, S) == \A e \in S : ~Process(j, e[1]).raises

\* All values of a key are in one accumulator, and no more will come.
Ready(A, T, k) == k \in DOMAIN A /\ T = {} /\ Size(A[k]) = 1

\* The output is about all rows of a key, or holds what the committed rows passed on.
OutputOK(j, S, T, A, out) ==
    /\ Combines(j) => /\ IsFiniteSet(DOMAIN out) /\ out = SetToBag(DOMAIN out)
                      /\ \A row \in DOMAIN out :
                           \E k : Ready(A, T, k) /\ row = Row(j, k, ResultOf(j, S, k))
    /\ ~Combines(j) => out = StagedBy(j, S \ T)

\* The segments are those of one corpus.
SegmentsOK(j, p, S) ==
    j = ParseSegments /\ p # "idle" => \E d \in Divisions : S = Numbered(SegmentRows(d))

TablesOK(tabs) ==
    /\ DOMAIN tabs = TableNames /\ \A t \in TableNames : FiniteBag(tabs[t])
    /\ tabs["articles"] \in Articles
    /\ GoodRows(tabs["tokenized"]) /\ EncodedRows(tabs["tokenized"])
    /\ tabs["segment trees"] \in {NoRows} \cup {WholeTrees(d[1], d[2]) : d \in Divisions}

\* A job that is done read all rows, and its table has a row for each key.
DoneOK(j, T, A, out, tabs) ==
    /\ T = {} /\ tabs[j.writes] = out
    /\ \A k \in DOMAIN A : \E row \in DOMAIN out : row[1] = k

PhaseOK(j, p, l, r, s) ==
    /\ j \in Jobs /\ p \in {"idle", "running", "done", "failed"}
    /\ l \in Nat /\ r \in Nat
    /\ p # "failed" => l + r <= MaxAttempts
    /\ s \in 0 .. MaxJobs

IInv ==
    /\ PhaseOK(job, phase, lost, raised, submitted)
    /\ SourceOK(job, source, todo)
    /\ CleanOK(job, source \ todo)
    /\ AccsAre(job, accs, source \ todo)
    /\ OutputOK(job, source, todo, accs, staged)
    /\ SegmentsOK(job, phase, source)
    /\ TablesOK(tables)
    /\ phase = "done" => DoneOK(job, todo, accs, staged, tables)

LEMMA SourceType ==
  ASSUME NEW j, NEW S, NEW T, SourceOK(j, S, T)
  PROVE  Source(S) /\ T \subseteq S /\ IsFiniteSet(T) /\ Source(S \ T)
<1>1. PICK rows : Readable(j, rows) /\ S = Numbered(rows)
  BY DEF SourceOK
<1>2. Source(S) /\ T \subseteq S
  BY <1>1, NumberedIsSource DEF Readable, SourceOK
<1>3. IsFiniteSet(S \ T) /\ IsFiniteSet(T)
  BY <1>2, FS_Difference, FS_Subset DEF Source
<1> QED BY <1>2, <1>3 DEF Source

(* A job that has read nothing yet. *)
LEMMA FreshJob ==
  ASSUME NEW j \in Jobs, NEW rows, Readable(j, rows), NEW S, S = Numbered(rows), NEW T, T = S
  PROVE  /\ SourceOK(j, S, T) /\ CleanOK(j, S \ T) /\ AccsAre(j, << >>, S \ T)
         /\ OutputOK(j, S, T, << >>, NoRows)
<1>1. S \ T = {}
  OBVIOUS
<1>2. SourceOK(j, S, T)
  BY DEF SourceOK
<1>3. CleanOK(j, S \ T)
  BY <1>1 DEF CleanOK
<1>4. AccsAre(j, << >>, S \ T)
  <2>1. \A k : EmittedBy(j, {}, k) = {}
    BY DEF EmittedBy
  <2> QED BY <1>1, <2>1 DEF AccsAre
<1>5. DOMAIN NoRows = {} /\ IsFiniteSet({})
  BY NoRowsGood, FS_EmptySet
<1>6. NoRows = SetToBag({})
  BY DEF NoRows, SetToBag
<1>7. StagedBy(j, {}) = NoRows
  BY DEF StagedBy, PassedBy, Tally, NoRows
<1>8. OutputOK(j, S, T, << >>, NoRows)
  BY <1>1, <1>5, <1>6, <1>7 DEF OutputOK
<1> QED BY <1>2, <1>3, <1>4, <1>8

LEMMA TablesAre ==
    "segment trees" \in TableNames /\ "tokenized" \in TableNames /\ "articles" \in TableNames
BY JobList, JobFields DEF TableNames

LEMMA InitInv == Init => IInv
<1> SUFFICES ASSUME Init PROVE IInv
  OBVIOUS
<1>1. PICK a \in Articles : tables = [t \in TableNames |-> IF t = "articles" THEN a ELSE NoRows]
  BY DEF Init
<1>2. TablesOK(tables)
  <2>1. GoodRows(a) /\ GoodRows(NoRows) /\ EncodedRows(NoRows)
    BY ArticlesGood, NoRowsGood DEF EncodedRows
  <2>2. "segment trees" \in TableNames /\ "tokenized" \in TableNames /\ "articles" \in TableNames
    BY TablesAre
  <2> QED BY <1>1, <2>1, <2>2 DEF TablesOK, GoodRows
<1>3. Readable(ParseSegments, NoRows)
  BY NoRowsGood, JobFields DEF Readable
<1>4. /\ SourceOK(job, source, todo) /\ CleanOK(job, source \ todo)
      /\ AccsAre(job, accs, source \ todo) /\ OutputOK(job, source, todo, accs, staged)
  <2>1. job \in Jobs /\ source = Numbered(NoRows) /\ todo = source /\ Readable(job, NoRows)
    BY <1>3, NoRowsGood, JobList DEF Init
  <2>2. accs = << >> /\ staged = NoRows
    BY DEF Init
  <2> QED BY <2>1, <2>2, FreshJob
<1>5. PhaseOK(job, phase, lost, raised, submitted)
  BY BeamAssumption, JobList DEF Init, PhaseOK
<1>6. SegmentsOK(job, phase, source)
  BY DEF Init, SegmentsOK
<1> QED BY <1>2, <1>4, <1>5, <1>6 DEF Init, IInv

-----------------------------------------------------------------------------
(* Submitting a job *)

LEMMA StartInv ==
  ASSUME IInv, NEW j \in Jobs, NEW rows, Readable(j, rows), Start(j, rows),
         SegmentsOK(j, "running", Numbered(rows))
  PROVE  IInv'
<1>1. /\ job' = j /\ phase' = "running" /\ source' = Numbered(rows) /\ todo' = source'
      /\ accs' = << >> /\ staged' = NoRows /\ lost' = 0 /\ raised' = 0
      /\ tables' = tables /\ submitted < MaxJobs /\ submitted' = submitted + 1
  BY DEF Start
<1>2. /\ SourceOK(job', source', todo') /\ CleanOK(job', source' \ todo')
      /\ AccsAre(job', accs', source' \ todo') /\ OutputOK(job', source', todo', accs', staged')
  BY <1>1, FreshJob
<1>3. PhaseOK(job', phase', lost', raised', submitted')
  BY <1>1, BeamAssumption DEF IInv, PhaseOK
<1>4. TablesOK(tables') /\ SegmentsOK(job', phase', source')
  BY <1>1 DEF IInv
<1> QED BY <1>1, <1>2, <1>3, <1>4 DEF IInv

LEMMA SegmentRowsGood ==
  ASSUME NEW d \in Divisions
  PROVE  GoodRows(SegmentRows(d))
<1> DEFINE texts == split_input(d[1], d[2], B)
<1>1. d[1] \in Corpora /\ d[2] \in Splits
  BY DEF Divisions
<1>2. IsFiniteSet(DOMAIN texts) /\ \A i \in DOMAIN texts : Text(texts[i])
  BY <1>1, SegmentsAreTexts
<1> HIDE DEF texts
<1>3. GoodRows(RowsOf(texts, "segment"))
  BY <1>2, RowsOfGood
<1> QED BY <1>3 DEF texts, SegmentRows

LEMMA SubmitSegmentsInv ==
  ASSUME IInv, NEW corpus \in Corpora, NEW n \in Splits, SubmitSegments(corpus, n)
  PROVE  IInv'
<1> DEFINE rows == RowsOf(split_input(corpus, n, B), "segment")
           d == <<corpus, n>>
<1>1. Start(ParseSegments, rows) /\ Splittable(corpus, n, B)
  BY DEF SubmitSegments
<1>2. d \in Divisions /\ rows = SegmentRows(d)
  BY <1>1 DEF Divisions, SegmentRows
<1> HIDE DEF rows, d
<1>3. Readable(ParseSegments, rows)
  BY <1>2, SegmentRowsGood, JobFields DEF Readable
<1>4. SegmentsOK(ParseSegments, "running", Numbered(rows))
  BY <1>2 DEF SegmentsOK
<1> QED BY <1>1, <1>3, <1>4, StartInv, JobList

LEMMA SubmitInv ==
  ASSUME IInv, NEW j \in Jobs, NEW input \in Inputs(j), Submit(j, input)
  PROVE  IInv'
<1> DEFINE rows == tables[input]
<1>1. Start(j, rows) /\ j # ParseSegments
  BY DEF Submit
<1>2. TablesOK(tables)
  BY DEF IInv
<1>3. input \in {"articles", "tokenized"} /\ (j = CharcountLines => input = "articles")
  BY DEF Inputs
<1>4. SegmentsOK(j, "running", Numbered(rows))
  BY <1>1 DEF SegmentsOK
<1>5. CASE input = "articles"
  <2>1. rows \in Articles /\ GoodRows(rows)
    BY <1>2, <1>5, ArticlesGood DEF TablesOK
  <2>2. Readable(j, rows)
    BY <1>1, <2>1 DEF Readable
  <2> HIDE DEF rows
  <2> QED BY <1>1, <1>4, <2>2, StartInv
<1>6. CASE input = "tokenized"
  <2>1. GoodRows(rows) /\ EncodedRows(rows)
    BY <1>2, <1>6 DEF TablesOK
  <2>2. j # CharcountLines
    BY <1>3, <1>6
  <2> HIDE DEF rows
  <2>3. Readable(j, rows)
    BY <1>1, <2>1, <2>2 DEF Readable
  <2> QED BY <1>1, <1>4, <2>3, StartInv
<1> QED BY <1>3, <1>5, <1>6

-----------------------------------------------------------------------------
(* Working on a job *)

(* A job that combines has no output before all is read; any other has nothing to    *)
(* combine.                                                                          *)
LEMMA OutputWaits ==
  ASSUME NEW j, Combines(j), NEW S, NEW T, T # {}, NEW A, NEW out, OutputOK(j, S, T, A, out)
  PROVE  DOMAIN out = {} /\ IsFiniteSet({}) /\ out = SetToBag({})
<1>1. DOMAIN out = {}
  BY DEF OutputOK, Ready
<1> QED BY <1>1 DEF OutputOK

LEMMA NothingPassed ==
  ASSUME NEW j \in Jobs, Combines(j), NEW S, Source(S)
  PROVE  StagedBy(j, S) = NoRows
<1>1. \A e \in S : Process(j, e[1]).rows = {}
  BY ProcessIs DEF Source
<1>2. PassedBy(j, S) = {}
  BY <1>1 DEF PassedBy
<1> QED BY <1>2 DEF StagedBy, Tally, NoRows

LEMMA BundleInv ==
  ASSUME IInv, NEW S \in (SUBSET todo) \ {{}}, Bundle(S)
  PROVE  IInv'
<1> DEFINE done == source \ todo
<1>1. /\ job' = job /\ phase' = phase /\ source' = source
      /\ lost' = lost /\ raised' = raised /\ tables' = tables
      /\ submitted' = submitted /\ phase = "running" /\ todo' = todo \ S
      /\ \A e \in S : ~Process(job, e[1]).raises
  BY DEF Bundle, Active
<1>2. staged' = staged (+) StagedBy(job, S)
  BY DEF Bundle, StagedBy, PassedBy, RowsBy
<1>3. /\ job \in Jobs /\ Source(source) /\ todo \subseteq source /\ IsFiniteSet(todo) /\ Source(done)
  BY SourceType DEF IInv, PhaseOK
<1>4. AccsAre(job, accs', source \ todo')
  BY <1>1, <1>3, BundleAccs DEF IInv
<1>5. SourceOK(job, source, todo')
  BY <1>1 DEF IInv, SourceOK
<1>6. source \ todo' = done \cup S /\ done \cap S = {} /\ S \subseteq source /\ todo # {} /\ S \subseteq todo
  BY <1>1, <1>3
<1>7. CleanOK(job, source \ todo')
  BY <1>1, <1>6 DEF IInv, CleanOK
<1>8. Source(S)
  BY <1>3, <1>6, FS_Subset DEF Source
<1>9. Combines(job) \in BOOLEAN
  BY <1>3, JobsDiffer
<1>10. Combines(job) => staged' = staged /\ DOMAIN staged = {} /\ staged = SetToBag({}) /\ IsFiniteSet({})
  <2>1. ASSUME Combines(job)
        PROVE  staged' = staged /\ DOMAIN staged = {} /\ staged = SetToBag({}) /\ IsFiniteSet({})
    <3>1. DOMAIN staged = {} /\ IsFiniteSet({}) /\ staged = SetToBag({})
      BY <1>6, <2>1, OutputWaits DEF IInv
    <3>2. StagedBy(job, S) = NoRows
      BY <1>3, <1>8, <2>1, NothingPassed
    <3>3. staged (+) NoRows = staged
      <4>1. NoRows = SetToBag({})
        BY DEF NoRows, SetToBag
      <4>2. FiniteBag(SetToBag({})) /\ \A x : Copies(x, SetToBag({})) = 0
        BY NoBag DEF EmptyBag
      <4> DEFINE e == SetToBag({})
                 p == e (+) e
      <4> HIDE DEF e
      <4>3. FiniteBag(p) /\ \A x : Copies(x, p) = Copies(x, e) + Copies(x, e)
        BY <4>2, PlusBag DEF e
      <4> HIDE DEF p
      <4>4. \A x : Copies(x, p) = Copies(x, e)
        BY <4>2, <4>3 DEF e
      <4>5. p = e
        BY <4>2, <4>3, <4>4, BagByCopies DEF e
      <4> QED BY <3>1, <4>1, <4>5 DEF p, e
    <3> QED BY <1>2, <3>1, <3>2, <3>3
  <2> QED BY <2>1
<1>11. ~Combines(job) => staged' = StagedBy(job, source \ todo')
  <2>1. ASSUME ~Combines(job)
        PROVE  staged' = StagedBy(job, source \ todo')
    <3>1. staged = StagedBy(job, done)
      BY <2>1 DEF IInv, OutputOK
    <3>2. StagedBy(job, done) (+) StagedBy(job, S) = StagedBy(job, done \cup S)
      BY <1>3, <1>6, <1>8, StagedUnion DEF Source
    <3> QED BY <1>2, <1>6, <3>1, <3>2
  <2> QED BY <2>1
<1>12. OutputOK(job, source, todo', accs', staged')
  BY <1>9, <1>10, <1>11 DEF OutputOK
<1>13. PhaseOK(job, phase, lost, raised, submitted) /\ SegmentsOK(job, phase, source) /\ TablesOK(tables)
  BY DEF IInv
<1> HIDE DEF done
<1> QED BY <1>1, <1>4, <1>5, <1>7, <1>12, <1>13 DEF IInv

(* What is ready stays ready when accumulators of another key are merged. *)
LEMMA MergeInv ==
  ASSUME IInv, NEW k \in Keys, NEW list \in Lists(k), Merge(k, list)
  PROVE  IInv'
<1>1. /\ job' = job /\ phase' = phase /\ source' = source /\ todo' = todo
      /\ staged' = staged /\ lost' = lost /\ raised' = raised /\ tables' = tables
      /\ submitted' = submitted /\ phase = "running"
  BY DEF Merge, Active
<1>2. AccsAre(job, accs, source \ todo)
  BY DEF IInv
<1> DEFINE S == source \ todo
<1> HIDE DEF S
<1>3. /\ AccsAre(job, accs', S) /\ Size(accs[k]) # 1 /\ DOMAIN accs' = DOMAIN accs
      /\ \A l \in DOMAIN accs : l # k => accs'[l] = accs[l]
  BY <1>2, MergeAccs DEF S
<1>4. \A l : Ready(accs, todo, l) => Ready(accs', todo, l)
  BY <1>3 DEF Ready
<1>5. OutputOK(job, source, todo, accs', staged)
  BY <1>4 DEF IInv, OutputOK
<1> QED BY <1>1, <1>3, <1>5 DEF IInv, S

(* What can be taken of the accumulators of a key is the result of all rows. *)
LEMMA ResultReady ==
  ASSUME IInv, NEW k, Ready(accs, todo, k)
  PROVE  /\ The(Accumulated(k)) = ResultOf(job, source, k) /\ Accumulated(k) # None
         /\ EmittedBy(job, source, k) # {} /\ Combines(job)
<1>1. source \ todo = source /\ k \in DOMAIN accs /\ Size(accs[k]) = 1 /\ job \in Jobs
  BY DEF Ready, IInv, PhaseOK
<1>2. AccsAre(job, accs, source) /\ Source(source)
  BY <1>1, SourceType DEF IInv
<1>3. The(Accumulated(k)) = ResultOf(job, source, k) /\ Accumulated(k) # None
  <2> DEFINE j == job
             A == accs
             S == source
  <2>1. j \in Jobs /\ Source(S) /\ AccsAre(j, A, S) /\ k \in DOMAIN A /\ Size(A[k]) = 1
    BY <1>1, <1>2
  <2> HIDE DEF j, A, S
  <2>2. The(The(DOMAIN A[k])) = ResultOf(j, S, k) /\ The(DOMAIN A[k]) # None
    BY <2>1, CombinedIs
  <2> QED BY <2>2 DEF Accumulated, j, A, S
<1>4. EmittedBy(job, source, k) # {}
  BY <1>1, <1>2 DEF AccsAre
<1>5. PICK e \in source : k \in DOMAIN Process(job, e[1]).values
  BY <1>4 DEF EmittedBy
<1>6. Combines(job)
  BY <1>1, <1>2, <1>5, ProcessIs, JobsDiffer DEF Source
<1> QED BY <1>3, <1>4, <1>6

LEMMA RowOf == \A j, k, value : Row(j, k, value)[1] = k
BY DEF Row, format_counts

(* A set of rows with another one. *)
LEMMA OneRowMore ==
  ASSUME NEW out, IsFiniteSet(DOMAIN out), out = SetToBag(DOMAIN out),
         NEW row, row \notin DOMAIN out, NEW more, more = out (+) SetToBag({row})
  PROVE  /\ DOMAIN more = DOMAIN out \cup {row} /\ IsFiniteSet(DOMAIN more)
         /\ more = SetToBag(DOMAIN more)
<1> DEFINE D == DOMAIN out
           E == D \cup {row}
           one == SetToBag({row})
<1>1. IsFiniteSet(E)
  BY FS_AddElement
<1>2. out = [x \in D |-> 1]
  BY DEF SetToBag
<1>3. FiniteBag(out) /\ \A x : Copies(x, out) = IF x \in D THEN 1 ELSE 0
  BY <1>2 DEF FiniteBag, Copies
<1>4. FiniteBag(one) /\ DOMAIN one = {row} /\ \A x : Copies(x, one) = IF x = row THEN 1 ELSE 0
  BY OneBag
<1>5. FiniteBag(SetToBag(E)) /\ \A x : Copies(x, SetToBag(E)) = IF x \in E THEN 1 ELSE 0
  BY <1>1 DEF SetToBag, FiniteBag, Copies
<1> DEFINE all == SetToBag(E)
<1> HIDE DEF one, all
<1>6. /\ FiniteBag(more) /\ DOMAIN more = D \cup {row}
      /\ \A x : Copies(x, more) = Copies(x, out) + Copies(x, one)
  BY <1>3, <1>4, PlusBag DEF one
<1>7. \A x : Copies(x, more) = Copies(x, all)
  BY <1>3, <1>4, <1>5, <1>6 DEF all
<1>8. more = all
  BY <1>5, <1>6, <1>7, BagByCopies DEF all
<1> QED BY <1>1, <1>6, <1>8 DEF all

LEMMA StageInv ==
  ASSUME IInv, NEW k \in Keys, Stage(k)
  PROVE  IInv'
<1> DEFINE row == Row(job, k, The(Accumulated(k)))
<1>1. /\ job' = job /\ phase' = phase /\ source' = source /\ todo' = todo /\ accs' = accs
      /\ lost' = lost /\ raised' = raised /\ tables' = tables
      /\ submitted' = submitted /\ phase = "running"
      /\ todo = {} /\ Size(accs[k]) = 1 /\ ~Written(k)
      /\ staged' = staged (+) SetToBag({row})
  BY DEF Stage, Active, Combined
<1>2. Ready(accs, todo, k)
  BY <1>1 DEF Ready, Keys
<1>3. The(Accumulated(k)) = ResultOf(job, source, k) /\ Combines(job)
  BY <1>2, ResultReady
<1>4. row = Row(job, k, ResultOf(job, source, k)) /\ row[1] = k
  BY <1>3, RowOf
<1> HIDE DEF row
<1>5. row \notin DOMAIN staged
  BY <1>1, <1>4 DEF Written
<1>6. OutputOK(job, source, todo, accs, staged)
  BY DEF IInv
<1>7. DOMAIN staged' = DOMAIN staged \cup {row} /\ IsFiniteSet(DOMAIN staged') /\ staged' = SetToBag(DOMAIN staged')
  <2> DEFINE out == staged
             more == staged'
  <2>1. IsFiniteSet(DOMAIN out) /\ out = SetToBag(DOMAIN out) /\ more = out (+) SetToBag({row})
    BY <1>1, <1>3, <1>6 DEF OutputOK
  <2> HIDE DEF out, more
  <2>2. DOMAIN more = DOMAIN out \cup {row} /\ IsFiniteSet(DOMAIN more) /\ more = SetToBag(DOMAIN more)
    BY <1>5, <2>1, OneRowMore DEF out
  <2> QED BY <2>2 DEF out, more
<1>8. OutputOK(job, source, todo, accs, staged')
  <2>1. ASSUME NEW r \in DOMAIN staged'
        PROVE  \E l : Ready(accs, todo, l) /\ r = Row(job, l, ResultOf(job, source, l))
    BY <1>2, <1>3, <1>4, <1>6, <1>7 DEF OutputOK
  <2> QED BY <1>3, <1>7, <2>1 DEF OutputOK
<1> QED BY <1>1, <1>8 DEF IInv

LEMMA WorkerLostInv ==
  ASSUME IInv, WorkerLost
  PROVE  IInv'
<1>1. /\ job' = job /\ phase' = phase /\ source' = source /\ todo' = todo /\ accs' = accs
      /\ staged' = staged /\ raised' = raised /\ tables' = tables
      /\ submitted' = submitted /\ phase = "running" /\ lost + raised < MaxAttempts
      /\ lost' = lost + 1
  BY BeamAssumption DEF WorkerLost, Active, Fails, IInv, PhaseOK
<1>2. PhaseOK(job, phase, lost', raised, submitted)
  BY <1>1, BeamAssumption DEF IInv, PhaseOK
<1> QED BY <1>1, <1>2 DEF IInv

LEMMA RaiseInv ==
  ASSUME IInv, Raise
  PROVE  IInv'
<1>1. /\ job' = job /\ phase' = phase /\ source' = source /\ todo' = todo /\ accs' = accs
      /\ staged' = staged /\ lost' = lost /\ tables' = tables
      /\ submitted' = submitted /\ phase = "running" /\ lost + raised < MaxAttempts
      /\ raised' = raised + 1
  BY BeamAssumption DEF Raise, Active, Fails, IInv, PhaseOK
<1>2. PhaseOK(job, phase, lost, raised', submitted)
  BY <1>1, BeamAssumption DEF IInv, PhaseOK
<1> QED BY <1>1, <1>2 DEF IInv

LEMMA FailInv ==
  ASSUME IInv, Fail
  PROVE  IInv'
<1>1. /\ job' = job /\ source' = source /\ todo' = todo /\ accs' = accs /\ staged' = staged
      /\ phase = "running" /\ lost' = lost /\ raised' = raised /\ tables' = tables
      /\ submitted' = submitted /\ phase' = "failed"
  BY DEF Fail
<1>2. PhaseOK(job, phase', lost, raised, submitted)
  BY <1>1 DEF IInv, PhaseOK
<1>3. SegmentsOK(job, phase', source)
  BY <1>1 DEF IInv, SegmentsOK
<1> QED BY <1>1, <1>2, <1>3 DEF IInv

(* The output of the tokenizer can be read. *)
LEMMA TokensOut ==
  ASSUME NEW S, Source(S)
  PROVE  GoodRows(StagedBy(TokenizeEnwiki, S)) /\ EncodedRows(StagedBy(TokenizeEnwiki, S))
<1> DEFINE P == PassedBy(TokenizeEnwiki, S)
           f == RowsBy(TokenizeEnwiki, S)
<1>1. IsFiniteSet(P)
  BY FS_Subset DEF PassedBy, Source
<1>2. ASSUME NEW e \in P
      PROVE  Text(f[e][2]) /\ f[e][1] = "encoded"
  <2>1. e \in S /\ Tokenizer(e[1]).rows # {} /\ f[e] = The(Tokenizer(e[1]).rows)
    BY Dispatch DEF PassedBy, RowsBy
  <2>2. Tokenizer(e[1]).rows = {<<"encoded", Append(e[1][2], EndOfText)>>}
    BY <2>1 DEF Tokenizer, Passes
  <2>3. f[e] = <<"encoded", Append(e[1][2], EndOfText)>>
    BY <2>1, <2>2, TheOne
  <2>4. Text(Append(e[1][2], EndOfText))
    <3>1. PICK C : e[1][2] \in Seq(C)
      BY <2>1 DEF Source, Text
    <3> DEFINE s == e[1][2]
               D == C \cup {EndOfText}
    <3>2. s \in Seq(D)
      BY <3>1
    <3> HIDE DEF s
    <3>3. EndOfText \in D
      OBVIOUS
    <3> HIDE DEF D
    <3>4. Append(s, EndOfText) \in Seq(D)
      BY <3>2, <3>3
    <3> QED BY <3>4 DEF s, Text
  <2> HIDE DEF f
  <2> QED BY <2>3, <2>4
<1> HIDE DEF P, f
<1>3. FiniteBag(Tally(P, f)) /\ DOMAIN Tally(P, f) = {f[e] : e \in P}
  BY <1>1, TallyBag
<1>4. StagedBy(TokenizeEnwiki, S) = Tally(P, f)
  BY DEF StagedBy, P, f
<1> QED BY <1>2, <1>3, <1>4 DEF GoodRows, EncodedRows

(* The output of a job that combines and is done has the row of each key. *)
LEMMA DoneRows ==
  ASSUME NEW j, Combines(j), NEW S, NEW A, NEW out, OutputOK(j, S, {}, A, out),
         \A k \in DOMAIN A : \E row \in DOMAIN out : row[1] = k
  PROVE  out = SetToBag(AllRows(j, S, A))
<1> DEFINE rows == {Row(j, k, ResultOf(j, S, k)) : k \in DOMAIN A}
<1>1. /\ out = SetToBag(DOMAIN out)
      /\ \A row \in DOMAIN out : \E k \in DOMAIN A : row = Row(j, k, ResultOf(j, S, k))
  BY DEF OutputOK, Ready
<1>2. ASSUME NEW k \in DOMAIN A
      PROVE  Row(j, k, ResultOf(j, S, k)) \in DOMAIN out
  <2>1. PICK row \in DOMAIN out : row[1] = k
    OBVIOUS
  <2>2. PICK l \in DOMAIN A : row = Row(j, l, ResultOf(j, S, l))
    BY <1>1
  <2>3. l = k
    BY <2>1, <2>2, RowOf
  <2> QED BY <2>2, <2>3
<1>3. \A row \in DOMAIN out : row \in rows
  BY <1>1
<1>4. \A row \in rows : row \in DOMAIN out
  BY <1>2
<1> HIDE DEF rows
<1>5. DOMAIN out = rows
  BY <1>3, <1>4
<1> QED BY <1>1, <1>5 DEF rows, AllRows

(* What a job stages of the segments of a corpus are trees of all of them; once it is *)
(* done it staged them all.                                                           *)
LEMMA StagedTrees ==
  ASSUME IInv, job = ParseSegments, phase # "idle"
  PROVE  \E d \in Divisions :
           /\ staged \sqsubseteq WholeTrees(d[1], d[2])
           /\ todo = {} /\ (\A k \in Keys : Written(k)) => staged = WholeTrees(d[1], d[2])
<1>1. PICK d \in Divisions : source = Numbered(SegmentRows(d))
  BY DEF IInv, SegmentsOK
<1>2. /\ CleanOK(job, source \ todo) /\ AccsAre(job, accs, source \ todo)
      /\ OutputOK(job, source, todo, accs, staged)
  BY DEF IInv
<1>3. Combines(job)
  BY JobFields DEF Combines
<1>4. staged = SetToBag(DOMAIN staged)
  BY <1>2, <1>3 DEF OutputOK
<1> DEFINE whole == WholeTrees(d[1], d[2])
<1>5. ASSUME todo = {}
      PROVE  whole = SetToBag(AllRows(job, source, accs))
  <2> DEFINE S == source
             A == accs
             corpus == d[1]
             n == d[2]
  <2>1. source \ todo = source
    BY <1>5
  <2>2. corpus \in Corpora /\ n \in Splits
    BY DEF Divisions
  <2>3. S = Numbered(RowsOf(split_input(corpus, n, B), "segment"))
    BY <1>1 DEF SegmentRows
  <2>4. AccsAre(ParseSegments, A, S) /\ \A e \in S : ~Process(ParseSegments, e[1]).raises
    BY <1>2, <2>1 DEF CleanOK
  <2> HIDE DEF S, A, corpus, n
  <2>5. SetToBag(AllRows(ParseSegments, S, A)) = WholeTrees(corpus, n)
    BY <2>2, <2>3, <2>4, WholeRows
  <2> QED BY <2>5 DEF S, A, corpus, n
<1> HIDE DEF whole
<1>6. staged \sqsubseteq whole
  <2>1. CASE todo = {}
    <3> DEFINE D == DOMAIN staged
               rows == AllRows(job, source, accs)
               out == staged
    <3>1. \A row \in D : row \in rows
      BY <1>2, <1>3 DEF OutputOK, Ready, AllRows
    <3>2. whole = SetToBag(rows) /\ out = SetToBag(D)
      BY <1>4, <1>5, <2>1
    <3> HIDE DEF D, rows, out
    <3>3. /\ DOMAIN whole = rows /\ DOMAIN out = D
          /\ \A row \in rows : whole[row] = 1
          /\ \A row \in D : out[row] = 1
      BY <3>2 DEF SetToBag
    <3>4. out \sqsubseteq whole
      BY <3>1, <3>3 DEF \sqsubseteq
    <3> QED BY <3>4 DEF out
  <2>2. CASE todo # {}
    <3>1. DOMAIN staged = {}
      BY <1>2, <1>3, <2>2 DEF OutputOK, Ready
    <3> QED BY <3>1 DEF \sqsubseteq
  <2> QED BY <2>1, <2>2
<1>7. ASSUME todo = {}, \A k \in Keys : Written(k)
      PROVE  staged = whole
  <2> DEFINE j == job
             S == source
             A == accs
             out == staged
  <2>1. /\ Combines(j) /\ OutputOK(j, S, {}, A, out)
        /\ \A k \in DOMAIN A : \E row \in DOMAIN out : row[1] = k
    BY <1>2, <1>3, <1>7 DEF Keys, Written
  <2> HIDE DEF j, S, A, out
  <2>2. out = SetToBag(AllRows(j, S, A))
    BY <2>1, DoneRows
  <2> QED BY <1>5, <1>7, <2>2 DEF j, S, A, out
<1> QED BY <1>6, <1>7 DEF whole

LEMMA FinishInv ==
  ASSUME IInv, Finish
  PROVE  IInv'
<1>1. /\ job' = job /\ source' = source /\ todo' = todo /\ accs' = accs /\ staged' = staged
      /\ lost' = lost /\ raised' = raised /\ submitted' = submitted
      /\ phase = "running" /\ phase' = "done" /\ todo = {}
      /\ tables' = [tables EXCEPT ![job.writes] = staged]
      /\ \A k \in Keys : Written(k)
  BY DEF Finish, Active
<1>2. PhaseOK(job, phase', lost, raised, submitted) /\ SegmentsOK(job, phase', source)
  BY <1>1 DEF IInv, PhaseOK, SegmentsOK
<1>3. /\ job \in Jobs /\ TablesOK(tables) /\ OutputOK(job, source, todo, accs, staged)
      /\ Source(source) /\ source \ todo = source
  BY <1>1, SourceType DEF IInv, PhaseOK
<1>4. job.writes \in TableNames /\ job.writes # "articles" /\ Combines(job) \in BOOLEAN
  BY <1>3, JobsDiffer
<1>5. /\ DOMAIN tables' = TableNames /\ tables'[job.writes] = staged
      /\ \A t \in TableNames : t # job.writes => tables'[t] = tables[t]
  BY <1>1, <1>3, <1>4 DEF TablesOK
<1>6. ~Combines(job) => staged = StagedBy(job, source)
  BY <1>3 DEF OutputOK
<1>7. FiniteBag(staged)
  <2>1. CASE Combines(job)
    <3>1. IsFiniteSet(DOMAIN staged) /\ staged = [x \in DOMAIN staged |-> 1]
      BY <1>3, <2>1 DEF OutputOK, SetToBag
    <3> QED BY <3>1 DEF FiniteBag
  <2>2. CASE ~Combines(job)
    BY <1>3, <1>6, <2>2, StagedBag DEF Source
  <2> QED BY <1>4, <2>1, <2>2
<1>8. tables'["segment trees"] \in {NoRows} \cup {WholeTrees(d[1], d[2]) : d \in Divisions}
  <2>1. CASE job.writes = "segment trees"
    <3>1. job = ParseSegments
      BY <1>3, <2>1, JobsDiffer
    <3>2. \E d \in Divisions : staged = WholeTrees(d[1], d[2])
      BY <1>1, <3>1, StagedTrees
    <3> QED BY <1>5, <2>1, <3>2
  <2>2. CASE job.writes # "segment trees"
    BY <1>3, <1>5, <2>2, TablesAre DEF TablesOK
  <2> QED BY <2>1, <2>2
<1>9. GoodRows(tables'["tokenized"]) /\ EncodedRows(tables'["tokenized"])
  <2>1. CASE job.writes = "tokenized"
    <3>1. job = TokenizeEnwiki /\ ~Combines(job)
      BY <1>3, <2>1, JobsDiffer
    <3> QED BY <1>3, <1>5, <1>6, <2>1, <3>1, TokensOut
  <2>2. CASE job.writes # "tokenized"
    BY <1>3, <1>5, <2>2, TablesAre DEF TablesOK
  <2> QED BY <2>1, <2>2
<1>10. TablesOK(tables')
  BY <1>3, <1>4, <1>5, <1>7, <1>8, <1>9, TablesAre DEF TablesOK
<1>11. DoneOK(job, todo, accs, staged, tables')
  BY <1>1, <1>5 DEF DoneOK, Keys, Written
<1> QED BY <1>1, <1>2, <1>10, <1>11 DEF IInv

LEMMA NextInv == IInv /\ [Next]_vars => IInv'
<1> SUFFICES ASSUME IInv, [Next]_vars PROVE IInv'
  OBVIOUS
<1>1. ASSUME NEW corpus \in Corpora, NEW n \in Splits, SubmitSegments(corpus, n)
      PROVE  IInv'
  BY <1>1, SubmitSegmentsInv
<1>2. ASSUME NEW j \in Jobs, NEW input \in Inputs(j), Submit(j, input)
      PROVE  IInv'
  BY <1>2, SubmitInv
<1>3. ASSUME NEW S \in (SUBSET todo) \ {{}}, Bundle(S)
      PROVE  IInv'
  BY <1>3, BundleInv
<1>4. ASSUME NEW k \in Keys, Stage(k)
      PROVE  IInv'
  BY <1>4, StageInv
<1>5. ASSUME NEW k \in Keys, NEW list \in Lists(k), Merge(k, list)
      PROVE  IInv'
  BY <1>5, MergeInv
<1>6. CASE WorkerLost
  BY <1>6, WorkerLostInv
<1>7. CASE Raise
  BY <1>7, RaiseInv
<1>8. CASE Fail
  BY <1>8, FailInv
<1>9. CASE Finish
  BY <1>9, FinishInv
<1>10. CASE UNCHANGED vars
  BY <1>10 DEF vars, IInv
<1> QED BY <1>1, <1>2, <1>3, <1>4, <1>5, <1>6, <1>7, <1>8, <1>9, <1>10 DEF Next, Progress

LEMMA SpecInv == Spec => []IInv
<1>1. Init => IInv
  BY InitInv
<1>2. IInv /\ [Next]_vars => IInv'
  BY NextInv
<1> QED BY <1>1, <1>2, PTL DEF Spec

-----------------------------------------------------------------------------
(* The theorems *)

(* The state of a job always has its type: no accumulator is empty, a job did not     *)
(* raise more often than the service tolerates unless it failed.                      *)
THEOREM TypesAlways == Spec => []TypeOK
<1>1. ASSUME IInv
      PROVE  TypeOK
  <2>1. \A bag : FiniteBag(bag) => IsABag(bag)
    <3>1. Nat \ {0} = {n \in Nat : n > 0}
      OBVIOUS
    <3> QED BY <3>1 DEF FiniteBag, IsABag
  <2>2. job \in Jobs /\ SourceOK(job, source, todo) /\ AccsAre(job, accs, source \ todo)
    BY <1>1 DEF IInv, PhaseOK
  <2>3. todo \subseteq source
    BY <2>2 DEF SourceOK
  <2>4. ASSUME NEW k \in Keys, NEW acc \in DOMAIN accs[k]
        PROVE  acc # None /\ IsABag(The(acc))
    <3> DEFINE A == accs[k]
    <3>1. Accumulators(A) /\ acc \in DOMAIN A
      BY <2>2 DEF AccsAre, Keys
    <3> HIDE DEF A
    <3>2. FiniteBag(The(acc)) /\ acc # {}
      BY <3>1, AccumulatorType
    <3> QED BY <2>1, <3>2 DEF None
  <2>5. DOMAIN tables = TableNames /\ \A t \in TableNames : IsABag(tables[t])
    BY <1>1, <2>1 DEF IInv, TablesOK
  <2> QED BY <1>1, <2>2, <2>3, <2>4, <2>5 DEF IInv, PhaseOK, TypeOK
<1> QED BY <1>1, SpecInv, PTL

(* At every time, also when a job failed half way through, the table holds the trees  *)
(* of all segments of one corpus, and a job that runs stages no others.               *)
THEOREM TreesWholeAlways == Spec => []TreesWhole
<1>1. ASSUME IInv
      PROVE  TreesWhole
  <2>1. tables[ParseSegments.writes] \in
          {NoRows} \cup {WholeTrees(d[1], d[2]) : d \in Divisions}
    BY <1>1, JobFields DEF IInv, TablesOK
  <2>2. job = ParseSegments /\ phase = "running" =>
          \E d \in Divisions : staged \sqsubseteq WholeTrees(d[1], d[2])
    BY <1>1, StagedTrees
  <2> QED BY <2>1, <2>2 DEF TreesWhole
<1> QED BY <1>1, SpecInv, PTL

-----------------------------------------------------------------------------
(* What is counted *)

(* A result counts with a weight for each row. *)
LEMMA ResultCounts ==
  ASSUME NEW j \in Jobs, NEW S, Source(S), NEW k, NEW w,
         \A e \in S : k \in DOMAIN Process(j, e[1]).values =>
                        Copies(k, Process(j, e[1]).values[k]) = w[e] /\ w[e] \in Nat \ {0},
         \A e \in S : k \notin DOMAIN Process(j, e[1]).values => w[e] = 0
  PROVE  EmittedBy(j, S, k) # {} => ResultOf(j, S, k)[k] = SumOver(S, w)
<1> SUFFICES ASSUME EmittedBy(j, S, k) # {}
             PROVE  ResultOf(j, S, k)[k] = SumOver(S, w)
  OBVIOUS
<1> DEFINE D == EmittedBy(j, S, k)
           v == ValuesOf(j, S, k)
           h == [e \in D |-> Copies(k, v[e])]
           result == ResultOf(j, S, k)
<1>1. /\ IsFiniteSet(D) /\ D \subseteq S
      /\ \A e \in D : FiniteBag(v[e]) /\ v[e] = Process(j, e[1]).values[k]
  BY EmittedType
<1>2. \A e \in S : e \in D <=> k \in DOMAIN Process(j, e[1]).values
  BY DEF EmittedBy
<1>3. FiniteBag(result) /\ Copies(k, result) = HeldOf(j, S, k, k)
  BY ResultType
<1>4. HeldOf(j, S, k, k) = SumOver(D, h) /\ HeldOf(j, S, k, k) = Held(D, v, k)
  BY DEF HeldOf, Held
<1> HIDE DEF D, v, result
<1>5. \A e \in D : w[e] = Copies(k, v[e]) /\ w[e] \in Nat \ {0}
  BY <1>1, <1>2
<1>6. \A e \in D : h[e] = w[e]
  BY <1>5
<1>7. \A e \in S \ D : w[e] = 0
  BY <1>2
<1>8. \A e \in S : w[e] \in Nat
  BY <1>5, <1>7
<1>9. PICK e \in D : Copies(k, v[e]) > 0 /\ FiniteBag(v[e])
  <2>1. PICK e \in D : TRUE
    BY DEF D
  <2>2. Copies(k, v[e]) \in Nat \ {0}
    BY <1>5
  <2> QED BY <1>1, <2>2
<1> HIDE DEF h
<1>10. SumOver(D, h) = SumOver(D, w)
  BY <1>6, SumSame
<1>11. SumOver(S, w) = SumOver(D, w)
  BY <1>1, <1>7, <1>8, SumWider DEF Source
<1>12. Copies(k, result) > 0
  <2>1. k \in DOMAIN v[e]
    BY <1>9, CopiesType
  <2>2. Held(D, v, k) > 0
    BY <1>1, <2>1, HeldType
  <2> QED BY <1>3, <1>4, <2>2
<1>13. k \in DOMAIN result
  BY <1>3, <1>12, CopiesType
<1>14. Copies(k, result) = result[k]
  BY <1>13 DEF Copies
<1> QED BY <1>3, <1>4, <1>10, <1>11, <1>14 DEF result

\* How often a character is in all texts.
TimesInAll(S, c) == SumOver(S, [e \in S |-> TimesIn(e[1][2], c)])

TextRows(S) == {e \in S : e[1][1] = "text"}

LEMMA OccurrencesAre ==
  ASSUME Source(source), NEW c
  PROVE  Occurrences(c) = TimesInAll(TextRows(source), c)
<1> DEFINE S == TextRows(source)
           places == [e \in S |-> {i \in DOMAIN e[1][2] : e[1][2][i] = c}]
           layer == [e \in S |-> {<<e, i>> : i \in places[e]}]
           X == UNION {layer[e] : e \in S}
           h == [x \in X |-> x[1]]
           g == [e \in S |-> TimesIn(e[1][2], c)]
<1>1. Occurrences(c) = Cardinality(X)
  <2>1. \A e \in S : layer[e] = {<<e, i>> : i \in {j \in DOMAIN e[1][2] : e[1][2][j] = c}}
    OBVIOUS
  <2>2. X = UNION {{<<e, i>> : i \in {j \in DOMAIN e[1][2] : e[1][2][j] = c}} : e \in S}
    <3> HIDE DEF layer, S
    <3> QED BY <2>1
  <2> QED BY <2>2 DEF Occurrences, TextRows
<1>0. Source(S)
  BY FS_Subset DEF Source, TextRows
<1>2. ASSUME NEW e \in S
      PROVE  /\ IsFiniteSet(places[e]) /\ IsFiniteSet(layer[e])
             /\ Cardinality(layer[e]) = Cardinality(places[e])
  <2> DEFINE P == places[e]
             L == layer[e]
             b == [i \in P |-> <<e, i>>]
  <2>1. IsFiniteSet(P)
    <3>1. IsFiniteSet(DOMAIN e[1][2])
      BY <1>0, TextType DEF Source
    <3>2. P \subseteq DOMAIN e[1][2]
      OBVIOUS
    <3> QED BY <3>1, <3>2, FS_Subset
  <2>2. /\ b \in [P -> L] /\ \A i, l \in P : b[i] = b[l] => i = l
        /\ \A y \in L : \E i \in P : b[i] = y
    OBVIOUS
  <2> HIDE DEF P, L, b
  <2>3. ExistsBijection(P, L)
    BY <2>2, BijectionExists
  <2>4. Cardinality(L) = Cardinality(P) /\ IsFiniteSet(L)
    BY <2>1, <2>3, FS_Bijection
  <2> QED BY <2>1, <2>4 DEF P, L
<1>3. IsFiniteSet(X)
  <2>1. IsFiniteSet({layer[e] : e \in S})
    <3> HIDE DEF layer
    <3> QED BY <1>0, ImageFinite DEF Source
  <2> HIDE DEF layer
  <2> QED BY <1>2, <2>1, FS_UNION
<1>4. \A e \in S : \A x : x \in layer[e] <=> x \in X /\ h[x] = e
  <2>1. \A e \in S : \A x \in layer[e] : x[1] = e /\ x \in X
    OBVIOUS
  <2>2. \A x \in X : h[x] = x[1] /\ \E e \in S : x \in layer[e]
    <3> HIDE DEF layer
    <3> QED OBVIOUS
  <2> HIDE DEF layer, X, h
  <2> QED BY <2>1, <2>2
<1>5. \A x \in X : h[x] \in S
  <2>1. \A e \in S : \A x \in layer[e] : x[1] = e
    OBVIOUS
  <2> HIDE DEF layer
  <2> QED BY <2>1
<1>6. \A e \in S : g[e] = Cardinality(layer[e])
  BY <1>2 DEF TimesIn
<1>7. SumOver(S, g) = Cardinality(X)
  <2> HIDE DEF S, layer, X, h, g
  <2>1. IsFiniteSet(S)
    BY <1>0 DEF Source, S
  <2> QED BY <1>3, <1>4, <1>5, <1>6, <2>1, SizeByParts
<1> QED BY <1>1, <1>7 DEF TimesInAll

(* A weight of one counts the rows. *)
LEMMA SumOfOnes ==
  ASSUME NEW S, IsFiniteSet(S), NEW w, \A e \in S : w[e] = 1
  PROVE  SumOver(S, w) = Cardinality(S)
<1> DEFINE h == [e \in S |-> e]
           part == [e \in S |-> {e}]
<1>1. \A e \in S : w[e] = Cardinality(part[e])
  BY FS_Singleton
<1>2. (\A e \in S : h[e] \in S) /\ \A e \in S : \A x : x \in part[e] <=> x \in S /\ h[x] = e
  OBVIOUS
<1> HIDE DEF h, part
<1> QED BY <1>1, <1>2, SizeByParts

AllChars(S) == UNION {ToSet(text) : text \in {e[1][2] : e \in S}}

LEMMA AllCharsMember == \A S, c : c \in AllChars(S) <=> \E e \in S : c \in ToSet(e[1][2])
BY DEF AllChars

\* The rows of articles, whose texts know no newline.
PlainRows(S) == Source(S) /\ \A e \in S : e[1][1] = "text" /\ NewLine \notin ToSet(e[1][2])

LEMMA ArticlesPlain ==
  ASSUME NEW rows \in Articles, NEW S, S = Numbered(rows)
  PROVE  PlainRows(S)
<1>1. \A e \in S : e[1] \in DOMAIN rows /\ e[1][1] = "text"
  BY ArticlesGood, NumberedIsSource
<1>2. Source(S)
  BY ArticlesGood, NumberedIsSource
<1>3. ASSUME NEW e \in S
      PROVE  NewLine \notin ToSet(e[1][2])
  <2> DEFINE text == e[1][2]
             C == Tokens \cup {Foreign}
  <2>1. text \in Seq(C)
    BY <1>1, ArticlesGood
  <2>2. NewLine \notin C
    BY BeamAssumption
  <2> HIDE DEF text, C
  <2>3. \A i \in DOMAIN text : text[i] \in C
    BY <2>1
  <2> QED BY <2>2, <2>3 DEF ToSet, text
<1> QED BY <1>1, <1>2, <1>3 DEF PlainRows

\* The characters that a job leaves out.
LeftOut(j) == IF j = CharcountLines THEN Excluded ELSE {}

(* What the two jobs that count characters make of a row. *)
LEMMA CountedRow ==
  ASSUME NEW j \in {CharcountEnwiki, CharcountLines}, NEW row, Text(row[2]),
         row[1] = "text", NewLine \notin ToSet(row[2])
  PROVE  LET values == Process(j, row).values
         IN  /\ \A c \in ToSet(row[2]) \ LeftOut(j) :
                  /\ c \in DOMAIN values /\ Copies(c, values[c]) = TimesIn(row[2], c)
                  /\ TimesIn(row[2], c) \in Nat \ {0}
             /\ \A c : c \notin ToSet(row[2]) => TimesIn(row[2], c) = 0
             /\ j = CharcountEnwiki => DOMAIN values = ToSet(row[2])
             /\ j = CharcountLines => /\ DOMAIN values = (ToSet(row[2]) \ LeftOut(j)) \cup {NewLine}
                                      /\ Copies(NewLine, values[NewLine]) = 1
<1> DEFINE text == row[2]
           values == Process(j, row).values
<1>1. ToSet(text) = {text[i] : i \in DOMAIN text}
  BY DEF ToSet
<1>2. \A c : TimesIn(text, c) \in Nat /\ (TimesIn(text, c) > 0 <=> c \in ToSet(text))
  BY <1>1, TimesType
<1>3. CASE j = CharcountEnwiki
  <2>1. values = Characters(text) /\ CharcountEnwiki # CharcountLines
    <3>1. values = split_text(row).values /\ CharcountEnwiki # CharcountLines
      BY <1>3, Dispatch, JobFields
    <3>2. split_text(row).values = Characters(text)
      BY DEF split_text, Emits
    <3> QED BY <3>1, <3>2
  <2>2. /\ DOMAIN Characters(text) = ToSet(text)
        /\ \A c \in DOMAIN Characters(text) : Copies(c, Characters(text)[c]) = TimesIn(text, c)
    BY <1>1, CharactersAre
  <2> HIDE DEF text, values
  <2> QED BY <1>2, <1>3, <2>1, <2>2 DEF text, values
<1>4. CASE j = CharcountLines
  <2>1. values = LineCharCounter(row).values /\ CharcountEnwiki # CharcountLines
    BY <1>4, Dispatch, JobFields
  <2>2. /\ DOMAIN LineCharCounter(row).values = (ToSet(text) \ Excluded) \cup {NewLine}
        /\ \A c \in ToSet(text) \ Excluded : Copies(c, LineCharCounter(row).values[c]) = TimesIn(text, c)
        /\ Copies(NewLine, LineCharCounter(row).values[NewLine]) = 1
    BY <1>1, LinesAre
  <2>3. LeftOut(j) = Excluded
    BY <1>4 DEF LeftOut
  <2> HIDE DEF text, values
  <2> QED BY <1>2, <1>4, <2>3, <2>1, <2>2 DEF text, values
<1> QED BY <1>3, <1>4

(* The keys of these jobs, and what they count for each. *)
LEMMA CountedKeys ==
  ASSUME NEW j \in {CharcountEnwiki, CharcountLines}, NEW S, PlainRows(S)
  PROVE  /\ \A c \in AllChars(S) \ LeftOut(j) :
              /\ EmittedBy(j, S, c) # {}
              /\ ResultOf(j, S, c)[c] = TimesInAll(S, c)
         /\ j = CharcountEnwiki => \A c : EmittedBy(j, S, c) # {} => c \in AllChars(S)
         /\ j = CharcountLines =>
              /\ \A c : EmittedBy(j, S, c) # {} <=> c \in AllChars(S) \ LeftOut(j) \/ (c = NewLine /\ S # {})
              /\ S # {} => ResultOf(j, S, NewLine)[NewLine] = Cardinality(S)
<1>1. Source(S) /\ j \in Jobs /\ \A e \in S : Text(e[1][2]) /\ e[1][1] = "text" /\ NewLine \notin ToSet(e[1][2])
  BY JobList DEF PlainRows, Source
<1>2. \A c : EmittedBy(j, S, c) # {} <=> \E e \in S : c \in DOMAIN Process(j, e[1]).values
  BY DEF EmittedBy
<1>3. NewLine \notin AllChars(S)
  BY <1>1, AllCharsMember
<1>4. ASSUME NEW c \in AllChars(S) \ LeftOut(j)
      PROVE  EmittedBy(j, S, c) # {} /\ ResultOf(j, S, c)[c] = TimesInAll(S, c)
  <2> DEFINE w == [e \in S |-> TimesIn(e[1][2], c)]
  <2>1. c # NewLine
    BY <1>3
  <2>2. \A e \in S : c \in DOMAIN Process(j, e[1]).values <=> c \in ToSet(e[1][2])
    <3>1. ASSUME NEW e \in S
          PROVE  c \in DOMAIN Process(j, e[1]).values <=> c \in ToSet(e[1][2])
      BY <1>1, <2>1, CountedRow
    <3> QED BY <3>1
  <2>3. EmittedBy(j, S, c) # {}
    BY <1>2, <2>2, AllCharsMember
  <2>4. ASSUME NEW e \in S
        PROVE  /\ c \in ToSet(e[1][2]) => /\ Copies(c, Process(j, e[1]).values[c]) = w[e]
                                          /\ w[e] \in Nat \ {0}
               /\ c \notin ToSet(e[1][2]) => w[e] = 0
    <3>1. w[e] = TimesIn(e[1][2], c)
      OBVIOUS
    <3> HIDE DEF w
    <3>2. \A x \in ToSet(e[1][2]) \ LeftOut(j) :
            /\ Copies(x, Process(j, e[1]).values[x]) = TimesIn(e[1][2], x)
            /\ TimesIn(e[1][2], x) \in Nat \ {0}
      BY <1>1, CountedRow
    <3>3. \A x : x \notin ToSet(e[1][2]) => TimesIn(e[1][2], x) = 0
      BY <1>1, CountedRow
    <3> QED BY <3>1, <3>2, <3>3
  <2> HIDE DEF w
  <2>5. ResultOf(j, S, c)[c] = SumOver(S, w)
    <3>1. \A e \in S : c \in DOMAIN Process(j, e[1]).values =>
                        Copies(c, Process(j, e[1]).values[c]) = w[e] /\ w[e] \in Nat \ {0}
      BY <2>2, <2>4
    <3>2. \A e \in S : c \notin DOMAIN Process(j, e[1]).values => w[e] = 0
      BY <2>2, <2>4
    <3> QED BY <1>1, <2>3, <3>1, <3>2, ResultCounts
  <2> QED BY <2>3, <2>5 DEF TimesInAll, w
<1>5. ASSUME j = CharcountEnwiki, NEW c, EmittedBy(j, S, c) # {}
      PROVE  c \in AllChars(S)
  <2>1. PICK e \in S : c \in DOMAIN Process(j, e[1]).values
    BY <1>2, <1>5
  <2>2. c \in ToSet(e[1][2])
    BY <1>1, <1>5, <2>1, CountedRow
  <2> QED BY <2>2, AllCharsMember
<1>6. ASSUME j = CharcountLines
      PROVE  /\ \A c : EmittedBy(j, S, c) # {} <=> c \in AllChars(S) \ LeftOut(j) \/ (c = NewLine /\ S # {})
             /\ S # {} => ResultOf(j, S, NewLine)[NewLine] = Cardinality(S)
  <2> DEFINE w == [e \in S |-> 1]
  <2>1. ASSUME NEW e \in S
        PROVE  /\ DOMAIN Process(j, e[1]).values = (ToSet(e[1][2]) \ LeftOut(j)) \cup {NewLine}
               /\ Copies(NewLine, Process(j, e[1]).values[NewLine]) = 1
    BY <1>1, <1>6, CountedRow
  <2>2. \A c : EmittedBy(j, S, c) # {} <=> c \in AllChars(S) \ LeftOut(j) \/ (c = NewLine /\ S # {})
    <3>1. \A c : EmittedBy(j, S, c) # {} <=> \E e \in S : c \in ToSet(e[1][2]) \ LeftOut(j) \/ c = NewLine
      <4>1. \A c : \A e \in S :
              c \in DOMAIN Process(j, e[1]).values <=> c \in ToSet(e[1][2]) \ LeftOut(j) \/ c = NewLine
        BY <2>1
      <4> QED BY <1>2, <4>1
    <3> QED BY <3>1, AllCharsMember
  <2>3. S # {} => EmittedBy(j, S, NewLine) # {}
    BY <2>2
  <2>4. \A e \in S : w[e] = 1 /\ w[e] \in Nat \ {0}
    OBVIOUS
  <2>5. SumOver(S, w) = Cardinality(S)
    <3> HIDE DEF w
    <3>1. \A e \in S : w[e] = 1
      BY <2>4
    <3> QED BY <1>1, <3>1, SumOfOnes DEF Source
  <2> HIDE DEF w
  <2>6. S # {} => ResultOf(j, S, NewLine)[NewLine] = SumOver(S, w)
    <3>1. \A e \in S : NewLine \in DOMAIN Process(j, e[1]).values =>
            Copies(NewLine, Process(j, e[1]).values[NewLine]) = w[e] /\ w[e] \in Nat \ {0}
      BY <2>1, <2>4
    <3>2. \A e \in S : NewLine \notin DOMAIN Process(j, e[1]).values => w[e] = 0
      BY <2>1
    <3> QED BY <1>1, <2>3, <3>1, <3>2, ResultCounts
  <2> QED BY <2>2, <2>5, <2>6
<1> QED BY <1>4, <1>5, <1>6

(* The table of a job that counts characters. *)
LEMMA CountedTable ==
  ASSUME IInv, phase = "done", job \in {CharcountEnwiki, CharcountLines}
  PROVE  /\ job = CharcountEnwiki =>
              tables[job.writes] = SetToBag({<<c, Occurrences(c)>> : c \in AllChars(TextRows(source))})
         /\ job = CharcountLines =>
              tables[job.writes] = SetToBag({<<c, Occurrences(c)>> :
                                               c \in AllChars(TextRows(source)) \ Excluded}
                \cup (IF source = {} THEN {} ELSE {<<NewLine, Cardinality(source)>>}))
<1> DEFINE j == job
           S == source
           A == accs
           out == staged
           tabs == tables
           R(k) == ResultOf(j, S, k)
           T == TextRows(S)
<1>1. todo = {} /\ source \ {} = source
  BY DEF IInv, DoneOK
<1>2. /\ j \in Jobs /\ j # ParseSegments /\ Combines(j) /\ j.combines # "trees"
      /\ OutputOK(j, S, {}, A, out) /\ tabs[j.writes] = out
      /\ \A k \in DOMAIN A : \E row \in DOMAIN out : row[1] = k
      /\ AccsAre(j, A, S)
  BY <1>1, JobList, JobFields DEF IInv, DoneOK, Combines
<1>3. \/ PlainRows(S)
      \/ j = CharcountEnwiki /\ Source(S) /\ \A e \in S : e[1][1] = "encoded"
  <2>1. PICK rows : Readable(j, rows) /\ S = Numbered(rows)
    BY DEF IInv, SourceOK
  <2>2. CASE rows \in Articles
    BY <2>1, <2>2, ArticlesPlain
  <2>3. CASE rows \notin Articles
    BY <1>2, <2>1, <2>3, NumberedIsSource DEF Readable, EncodedRows
  <2> QED BY <2>2, <2>3
<1>4. \A c : Occurrences(c) = TimesInAll(T, c)
  BY <1>3, OccurrencesAre DEF PlainRows
<1>5. \A k : k \in DOMAIN A <=> EmittedBy(j, S, k) # {}
  BY <1>2 DEF AccsAre
<1>6. CharcountEnwiki # CharcountLines /\ j \in {CharcountEnwiki, CharcountLines}
  BY JobFields
<1> HIDE DEF j, A, out, tabs
<1>7. tabs[j.writes] = SetToBag(AllRows(j, S, A))
  BY <1>2, DoneRows
<1>8. AllRows(j, S, A) = {<<k, R(k)[k]>> : k \in DOMAIN A}
  <2>1. \A k : Row(j, k, R(k)) = <<k, R(k)[k]>>
    BY <1>2 DEF Row, format_counts
  <2> QED BY <2>1 DEF AllRows
<1> HIDE DEF S
<1>9. CASE PlainRows(S)
  <2>1. T = S
    BY <1>9 DEF PlainRows, TextRows
  <2>2. \A c \in AllChars(S) \ LeftOut(j) : c \in DOMAIN A /\ R(c)[c] = Occurrences(c)
    BY <1>4, <1>5, <1>6, <1>9, <2>1, CountedKeys
  <2>3. CASE j = CharcountEnwiki
    <3>1. \A k : k \in DOMAIN A => k \in AllChars(S)
      BY <1>5, <1>6, <1>9, <2>3, CountedKeys
    <3>2. LeftOut(j) = {}
      BY <1>6, <2>3 DEF LeftOut
    <3>3. {<<k, R(k)[k]>> : k \in DOMAIN A} = {<<c, Occurrences(c)>> : c \in AllChars(S)}
      <4>1. DOMAIN A = AllChars(S)
        BY <2>2, <3>1, <3>2
      <4> QED BY <2>2, <3>2, <4>1
    <3> QED BY <1>6, <1>7, <1>8, <2>1, <2>3, <3>3 DEF j, S, tabs
  <2>4. CASE j = CharcountLines
    <3> DEFINE more == IF S = {} THEN {} ELSE {<<NewLine, Cardinality(S)>>}
               chars == AllChars(S) \ LeftOut(j)
    <3>1. /\ \A k : k \in DOMAIN A <=> k \in chars \/ (k = NewLine /\ S # {})
          /\ S # {} => R(NewLine)[NewLine] = Cardinality(S)
      BY <1>5, <1>6, <1>9, <2>4, CountedKeys
    <3>2. chars = AllChars(S) \ Excluded
      BY <2>4 DEF LeftOut
    <3> HIDE DEF chars
    <3>3. {<<k, R(k)[k]>> : k \in DOMAIN A} = {<<c, Occurrences(c)>> : c \in chars} \cup more
      <4>1. \A c \in chars : c \in DOMAIN A /\ R(c)[c] = Occurrences(c)
        BY <2>2 DEF chars
      <4>2. ASSUME NEW k \in DOMAIN A
            PROVE  <<k, R(k)[k]>> \in {<<c, Occurrences(c)>> : c \in chars} \cup more
        BY <3>1, <4>1
      <4>3. ASSUME NEW c \in chars
            PROVE  <<c, Occurrences(c)>> \in {<<k, R(k)[k]>> : k \in DOMAIN A}
        BY <4>1
      <4>4. ASSUME NEW x \in more
            PROVE  x \in {<<k, R(k)[k]>> : k \in DOMAIN A}
        <5>1. S # {} /\ x = <<NewLine, Cardinality(S)>>
          OBVIOUS
        <5>2. NewLine \in DOMAIN A /\ x = <<NewLine, R(NewLine)[NewLine]>>
          BY <3>1, <5>1
        <5> QED BY <5>2
      <4> QED BY <4>2, <4>3, <4>4
    <3> QED BY <1>6, <1>7, <1>8, <2>1, <2>4, <3>2, <3>3 DEF j, S, tabs
  <2> QED BY <1>6, <2>3, <2>4 DEF j
<1>10. CASE j = CharcountEnwiki /\ Source(S) /\ \A e \in S : e[1][1] = "encoded"
  <2>1. T = {}
    BY <1>10 DEF TextRows
  <2>2. AllChars(T) = {}
    BY <2>1, AllCharsMember
  <2>3. \A e \in S : DOMAIN Process(j, e[1]).values = {}
    BY <1>10, Dispatch DEF split_text, Emits
  <2>4. \A k : EmittedBy(j, S, k) = {}
    BY <2>3 DEF EmittedBy
  <2>5. DOMAIN A = {}
    BY <1>5, <2>4
  <2>6. {<<k, R(k)[k]>> : k \in DOMAIN A} = {<<c, Occurrences(c)>> : c \in AllChars(T)}
    BY <2>2, <2>5
  <2> QED BY <1>6, <1>7, <1>8, <1>10, <2>6 DEF j, S, tabs
<1> QED BY <1>3, <1>9, <1>10

(* A job that combines nothing has a row for each row that passed. *)
LEMMA PassedTable ==
  ASSUME IInv, phase = "done", ~Combines(job)
  PROVE  Size(tables[job.writes]) = Cardinality(PassedBy(job, source))
<1>1. todo = {} /\ source \ {} = source /\ tables[job.writes] = staged
  BY DEF IInv, DoneOK
<1>2. staged = StagedBy(job, source)
  BY <1>1 DEF IInv, OutputOK
<1>3. IsFiniteSet(source)
  BY SourceType DEF IInv, Source
<1> QED BY <1>1, <1>2, <1>3, StagedBag

(* However its rows were bundled, tried again and combined, a job that is done has    *)
(* counted each of them once, by lines without the excluded characters, and each text *)
(* that can be tokenized, or row that is longer than the block, has one row.          *)
THEOREM CountsExactAlways == Spec => []CountsExact
<1>1. ASSUME IInv
      PROVE  CountsExact
  <2> SUFFICES ASSUME phase = "done"
               PROVE  LET table == tables[job.writes]
                          all == UNION {ToSet(text) : text \in Texts}
                      IN  /\ job = CharcountEnwiki =>
                               table = SetToBag({<<c, Occurrences(c)>> : c \in all})
                          /\ job = CharcountLines =>
                               table = SetToBag({<<c, Occurrences(c)>> : c \in all \ Excluded}
                                 \cup (IF source = {} THEN {}
                                       ELSE {<<NewLine, Cardinality(source)>>}))
                          /\ job = TokenizeEnwiki =>
                               Size(table) = Cardinality({e \in source : e[1][1] = "text"
                                                                    /\ Foreign \notin ToSet(e[1][2])})
                          /\ job = ParseTokenized =>
                               Size(table) = Cardinality({e \in source : Len(e[1][2]) > B})
    BY DEF CountsExact
  <2>1. UNION {ToSet(text) : text \in Texts} = AllChars(TextRows(source))
    BY DEF AllChars, Texts, TextRows
  <2>2. /\ job = CharcountEnwiki =>
             tables[job.writes] = SetToBag({<<c, Occurrences(c)>> : c \in AllChars(TextRows(source))})
        /\ job = CharcountLines =>
             tables[job.writes] = SetToBag({<<c, Occurrences(c)>> :
                                               c \in AllChars(TextRows(source)) \ Excluded}
                \cup (IF source = {} THEN {} ELSE {<<NewLine, Cardinality(source)>>}))
    <3>1. job \in {CharcountEnwiki, CharcountLines} \/ job \notin {CharcountEnwiki, CharcountLines}
      OBVIOUS
    <3> QED BY <1>1, <3>1, CountedTable
  <2>3. ASSUME job = TokenizeEnwiki
        PROVE  Size(tables[job.writes]) = Cardinality({e \in source : e[1][1] = "text"
                                                          /\ Foreign \notin ToSet(e[1][2])})
    <3>1. Size(tables[job.writes]) = Cardinality(PassedBy(job, source))
      BY <1>1, <2>3, JobFields, PassedTable DEF Combines
    <3>2. \A e \in source : Process(job, e[1]).rows # {}
                              <=> e[1][1] = "text" /\ Foreign \notin ToSet(e[1][2])
      <4>1. ASSUME NEW e \in source
            PROVE  Tokenizer(e[1]).rows # {} <=> e[1][1] = "text" /\ Foreign \notin ToSet(e[1][2])
        BY DEF Tokenizer, Passes
      <4> QED BY <2>3, <4>1, Dispatch
    <3>3. PassedBy(job, source) = {e \in source : e[1][1] = "text" /\ Foreign \notin ToSet(e[1][2])}
      BY <3>2 DEF PassedBy
    <3> QED BY <3>1, <3>3
  <2>4. ASSUME job = ParseTokenized
        PROVE  Size(tables[job.writes]) = Cardinality({e \in source : Len(e[1][2]) > B})
    <3>1. Size(tables[job.writes]) = Cardinality(PassedBy(job, source))
      BY <1>1, <2>4, JobFields, PassedTable DEF Combines
    <3>2. \A e \in source : ~Process(job, e[1]).raises
      <4>1. CleanOK(job, source \ todo) /\ todo = {} /\ source \ {} = source
        BY <1>1 DEF IInv, DoneOK
      <4> QED BY <4>1 DEF CleanOK
    <3>3. ASSUME NEW e \in source
          PROVE  Process(job, e[1]).rows # {} <=> Len(e[1][2]) > B
      <4>1. Len(e[1][2]) \in Nat /\ B \in Nat
        BY <1>1, SourceType, TextType, BlockAssumption DEF IInv, Source
      <4>2. Process(job, e[1]) = EFNLPParserSetOnly(e[1])
        BY <2>4, Dispatch
      <4>3. e[1][1] = "encoded"
        BY <3>2, <4>2 DEF EFNLPParserSetOnly, Raises
      <4>4. EFNLPParserSetOnly(e[1]).rows # {} <=> ~(Len(e[1][2]) <= B)
        BY <4>3 DEF EFNLPParserSetOnly, Passes
      <4> QED BY <4>1, <4>2, <4>4
    <3>4. PassedBy(job, source) = {e \in source : Len(e[1][2]) > B}
      BY <3>3 DEF PassedBy
    <3> QED BY <3>1, <3>4
  <2> QED BY <2>1, <2>2, <2>3, <2>4
<1> QED BY <1>1, SpecInv, PTL

-----------------------------------------------------------------------------
(* Where a corpus is cut *)

LEMMA DivMod ==
  ASSUME NEW length \in Nat, NEW n \in Nat \ {0}
  PROVE  /\ length = n * (length \div n) + (length % n)
         /\ length % n \in 0 .. n - 1 /\ length \div n \in Nat
OBVIOUS

LEMMA OneMore == \A i, q \in Nat : (i + 1) * q = i * q + q
OBVIOUS

Ends(corpus, n) == [i \in 0 .. n |-> SegmentEnd(corpus, n, i)]

\* The ends of n segments of a text of this length, each longer than the block.
Cuts(e, n, length) ==
    /\ e \in [0 .. n -> Nat] /\ e[0] = 0 /\ e[n] = length
    /\ \A i \in 1 .. n : e[i - 1] + B < e[i]

LEMMA EndNext ==
  ASSUME NEW corpus \in Corpora, NEW n \in Splits, NEW i \in 0 .. n - 1
  PROVE  /\ SegmentEnd(corpus, n, 0) = 0
         /\ SegmentEnd(corpus, n, i + 1) = SegmentEnd(corpus, n, i) + SegmentSize(corpus, n, i + 1)
<1> DEFINE I == 1 .. i
           f == [j \in I |-> SegmentSize(corpus, n, j)]
           h == [j \in 1 .. i + 1 |-> SegmentSize(corpus, n, j)]
<1>1. n \in Nat \ {0} /\ Len(corpus) \in Nat /\ i \in Nat
  BY BeamAssumption
<1>2. Len(corpus) \div n \in Nat
  BY <1>1
<1>3. \A j \in 1 .. i + 1 : h[j] \in Nat
  BY <1>2 DEF SegmentSize
<1>4. 1 .. i + 1 = I \cup {i + 1} /\ I \cap {i + 1} = {}
  BY <1>1
<1>5. IsFiniteSet(I) /\ IsFiniteSet({i + 1})
  <2>1. IsFiniteSet(1 .. i)
    BY <1>1, FS_Interval
  <2>2. \A x : IsFiniteSet({x})
    BY FS_Singleton
  <2> QED BY <2>1, <2>2
<1>6. \A j \in I : f[j] = h[j]
  BY <1>4
<1>7. h[i + 1] = SegmentSize(corpus, n, i + 1)
  BY <1>4
<1>8. SegmentEnd(corpus, n, 0) = 0
  <2>1. 1 .. 0 = {}
    OBVIOUS
  <2> QED BY <2>1, SumEmpty DEF SegmentEnd
<1>9. SegmentEnd(corpus, n, i + 1) = SumOver(1 .. i + 1, h) /\ SegmentEnd(corpus, n, i) = SumOver(I, f)
  BY DEF SegmentEnd
<1> HIDE DEF I, f, h
<1>10. SumOver(I \cup {i + 1}, h) = SumOver(I, h) + SumOver({i + 1}, h)
  BY <1>3, <1>4, <1>5, SumUnion
<1>11. SumOver({i + 1}, h) = h[i + 1]
  BY <1>3, <1>4, SumSingle
<1>12. SumOver(I, f) = SumOver(I, h)
  BY <1>6, SumSame
<1> QED BY <1>4, <1>7, <1>8, <1>9, <1>10, <1>11, <1>12

LEMMA CutsAre ==
  ASSUME NEW corpus \in Corpora, NEW n \in Splits, Splittable(corpus, n, B)
  PROVE  Cuts(Ends(corpus, n), n, Len(corpus))
<1> DEFINE e == Ends(corpus, n)
           q == Len(corpus) \div n
           r == Len(corpus) % n
           closed(i) == i * q + (IF i <= r THEN i ELSE r)
<1>1. n \in Nat \ {0} /\ Len(corpus) \in Nat /\ B \in Nat
  BY BeamAssumption, BlockAssumption
<1>2. q \in Nat /\ r \in 0 .. n - 1 /\ Len(corpus) = n * q + r /\ q > B
  BY <1>1, DivMod DEF Splittable
<1>3. e \in [0 .. n -> Nat] /\ \A i \in 0 .. n : e[i] = SegmentEnd(corpus, n, i)
  BY SegmentEndType DEF Ends
<1>4. \A i \in 1 .. n : SegmentSize(corpus, n, i) = q + (IF i <= r THEN 1 ELSE 0)
  BY DEF SegmentSize
<1> HIDE DEF e, q, r
<1>5. e[0] = 0
  <2>1. 0 \in 0 .. n - 1 /\ 0 \in 0 .. n
    BY <1>1
  <2> QED BY <1>3, <2>1, EndNext
<1>6. ASSUME NEW i \in 0 .. n - 1
      PROVE  e[i + 1] = e[i] + q + (IF i + 1 <= r THEN 1 ELSE 0)
  <2>1. i + 1 \in 1 .. n /\ i + 1 \in 0 .. n /\ i \in 0 .. n
    BY <1>1
  <2>2. e[i + 1] = e[i] + SegmentSize(corpus, n, i + 1)
    BY <1>3, <2>1, EndNext
  <2>3. e[i] \in Nat
    BY <1>3, <2>1
  <2> QED BY <1>2, <1>4, <2>1, <2>2, <2>3
<1>7. \A i \in 0 .. n : e[i] = closed(i)
  <2> DEFINE T == {i \in 0 .. n : e[i] # closed(i)}
  <2>1. SUFFICES ASSUME T # {} PROVE FALSE
    OBVIOUS
  <2>2. PICK i \in T : \A j \in T : i <= j
    <3>1. T \subseteq Nat
      BY <1>1
    <3> HIDE DEF T
    <3> QED BY <2>1, <3>1, Least
  <2>3. closed(0) = 0
    BY <1>2
  <2>4. i # 0
    BY <1>5, <2>3
  <2> DEFINE l == i - 1
  <2>5. l \in 0 .. n - 1 /\ l + 1 = i /\ l \in 0 .. n /\ l \in Nat
    BY <1>1, <2>4
  <2>6. e[l] = closed(l)
    BY <1>1, <2>2, <2>5
  <2> HIDE DEF l
  <2>7. e[l + 1] = e[l] + q + (IF l + 1 <= r THEN 1 ELSE 0)
    BY <1>6, <2>5
  <2>8. (l + 1) * q = l * q + q /\ l * q \in Nat
    BY <1>2, <2>5, OneMore
  <2>9. closed(l + 1) = e[l + 1]
    BY <1>2, <2>5, <2>6, <2>7, <2>8
  <2> QED BY <2>5, <2>9
<1>8. e[n] = Len(corpus)
  <2>1. e[n] = closed(n)
    BY <1>1, <1>7
  <2> QED BY <1>1, <1>2, <2>1
<1>9. ASSUME NEW i \in 1 .. n
      PROVE  e[i - 1] + B < e[i]
  <2> DEFINE l == i - 1
  <2>1. l \in 0 .. n - 1 /\ l + 1 = i /\ l \in 0 .. n
    BY <1>1
  <2> HIDE DEF l
  <2>2. e[l + 1] = e[l] + q + (IF l + 1 <= r THEN 1 ELSE 0) /\ e[l] \in Nat
    BY <1>3, <1>6, <2>1
  <2>3. e[l] + B < e[l + 1]
    BY <1>1, <1>2, <2>1, <2>2
  <2> QED BY <2>1, <2>3 DEF l
<1> QED BY <1>3, <1>5, <1>8, <1>9 DEF Cuts, e

LEMMA CutsGrow ==
  ASSUME NEW n \in Nat \ {0}, NEW length \in Nat, NEW e, Cuts(e, n, length)
  PROVE  /\ \A i, j \in 0 .. n : i < j => e[i] + B < e[j]
         /\ \A x \in 1 .. length : \E m \in 1 .. n : e[m - 1] < x /\ x <= e[m]
<1>1. /\ e \in [0 .. n -> Nat] /\ e[0] = 0 /\ e[n] = length /\ B \in Nat
      /\ \A i \in 1 .. n : e[i - 1] + B < e[i]
  BY BlockAssumption DEF Cuts
<1>2. ASSUME NEW i \in 0 .. n
      PROVE  \A j \in 0 .. n : i < j => e[i] + B < e[j]
  <2> DEFINE T == {j \in 0 .. n : i < j /\ ~(e[i] + B < e[j])}
  <2>1. SUFFICES ASSUME T # {} PROVE FALSE
    OBVIOUS
  <2>2. PICK j \in T : \A l \in T : j <= l
    <3>1. T \subseteq Nat
      OBVIOUS
    <3> HIDE DEF T
    <3> QED BY <2>1, <3>1, Least
  <2>3. j \in 1 .. n /\ e[j - 1] + B < e[j] /\ j - 1 \in 0 .. n /\ e[j - 1] \in Nat /\ e[j] \in Nat
        /\ e[i] \in Nat
    BY <1>1
  <2>4. j - 1 \notin T
    BY <2>2, <2>3
  <2>5. i = j - 1 \/ e[i] + B < e[j - 1]
    BY <2>3, <2>4
  <2> QED BY <1>1, <2>3, <2>5
<1>3. ASSUME NEW x \in 1 .. length
      PROVE  \E m \in 1 .. n : e[m - 1] < x /\ x <= e[m]
  <2> DEFINE T == {m \in 1 .. n : x <= e[m]}
  <2>1. n \in T
    BY <1>1
  <2>2. PICK m \in T : \A l \in T : m <= l
    <3>1. T \subseteq Nat
      OBVIOUS
    <3> HIDE DEF T
    <3> QED BY <2>1, <3>1, Least
  <2>3. m - 1 \notin T /\ m - 1 \in 0 .. n
    BY <2>2
  <2>4. e[m - 1] < x
    <3>1. CASE m = 1
      BY <1>1, <3>1
    <3>2. CASE m # 1
      <4>1. m - 1 \in 1 .. n
        BY <3>2
      <4> QED BY <1>1, <2>3, <4>1
    <3> QED BY <3>1, <3>2
  <2> QED BY <2>4
<1> QED BY <1>2, <1>3

\* Where the i-th segment begins, the overlap included.
From(e, i) == IF i = 1 THEN 0 ELSE e[i - 1] - B

\* The segments of a corpus, cut at these ends.
Segmented(s, texts, e, n) ==
    /\ s \in Seq(Tokens) /\ Cuts(e, n, Len(s)) /\ n \in Nat \ {0}
    /\ \A i \in 1 .. n : /\ From(e, i) \in 0 .. e[i] /\ e[i] \in 0 .. Len(s)
                         /\ texts[i] = SubSeq(s, From(e, i) + 1, e[i])
                         /\ i > 1 => From(e, i) + B = e[i - 1]
                         /\ i = 1 => From(e, i) = 0 /\ e[i - 1] = 0

LEMMA SegmentsAre ==
  ASSUME NEW corpus \in Corpora, NEW n \in Splits, Splittable(corpus, n, B)
  PROVE  Segmented(corpus, split_input(corpus, n, B), Ends(corpus, n), n)
<1> DEFINE e == Ends(corpus, n)
           texts == split_input(corpus, n, B)
           L == Len(corpus)
<1>1. /\ corpus \in Seq(Tokens) /\ n \in Nat \ {0} /\ L \in Nat /\ B \in Nat
  BY BeamAssumption, BlockAssumption
<1>2. Cuts(e, n, L)
  BY CutsAre
<1>3. \A i \in 0 .. n : e[i] = SegmentEnd(corpus, n, i)
  BY DEF Ends
<1>4. \A i \in 1 .. n : texts[i] = SubSeq(corpus, Max({0, e[i - 1] - B}) + 1, e[i])
  <2>1. \A i \in 1 .. n : i - 1 \in 0 .. n /\ i \in 0 .. n
    BY <1>1
  <2> QED BY <1>3, <2>1 DEF split_input
<1> HIDE DEF e, texts, L
<1>5. /\ e \in [0 .. n -> Nat] /\ e[0] = 0 /\ e[n] = L
      /\ \A i \in 1 .. n : e[i - 1] + B < e[i]
      /\ \A i, j \in 0 .. n : i < j => e[i] + B < e[j]
  BY <1>1, <1>2, CutsGrow DEF Cuts
<1>6. ASSUME NEW i \in 1 .. n
      PROVE  /\ From(e, i) \in 0 .. e[i] /\ e[i] \in 0 .. L
             /\ texts[i] = SubSeq(corpus, From(e, i) + 1, e[i])
             /\ i > 1 => From(e, i) + B = e[i - 1]
             /\ i = 1 => From(e, i) = 0 /\ e[i - 1] = 0
  <2>1. i - 1 \in 0 .. n /\ i \in 0 .. n /\ e[i] \in Nat /\ e[i - 1] \in Nat /\ e[i - 1] + B < e[i]
    BY <1>1, <1>5
  <2>2. e[i] <= L
    <3>1. i = n \/ (n \in 0 .. n /\ i < n)
      BY <1>1
    <3>2. i < n => e[i] + B < e[n]
      BY <1>1, <1>5, <2>1
    <3> QED BY <1>1, <1>5, <2>1, <3>1, <3>2
  <2>3. CASE i = 1
    <3>1. e[i - 1] = 0
      BY <1>5, <2>3
    <3>2. Max({0, e[i - 1] - B}) = 0
      <4>1. {0, e[i - 1] - B} \subseteq Int /\ \A y \in {0, e[i - 1] - B} : y <= 0
        BY <1>1, <3>1
      <4> QED BY <4>1, LargestIs
    <3>3. From(e, i) = 0
      BY <2>3 DEF From
    <3> QED BY <1>4, <2>1, <2>2, <2>3, <3>1, <3>2, <3>3
  <2>4. CASE i # 1
    <3>1. e[i - 1] >= B
      <4>1. 0 \in 0 .. n /\ 0 < i - 1
        BY <1>1, <2>4
      <4>2. e[0] + B < e[i - 1]
        BY <1>5, <2>1, <4>1
      <4> QED BY <1>1, <1>5, <2>1, <4>2
    <3>2. Max({0, e[i - 1] - B}) = e[i - 1] - B
      <4>1. {0, e[i - 1] - B} \subseteq Int /\ \A y \in {0, e[i - 1] - B} : y <= e[i - 1] - B
        BY <1>1, <2>1, <3>1
      <4> QED BY <4>1, LargestIs
    <3>3. From(e, i) = e[i - 1] - B
      BY <2>4 DEF From
    <3>4. From(e, i) \in 0 .. e[i] /\ From(e, i) + B = e[i - 1]
      BY <1>1, <2>1, <3>1, <3>3
    <3>5. texts[i] = SubSeq(corpus, From(e, i) + 1, e[i])
      BY <1>4, <3>2, <3>3
    <3>6. e[i] \in 0 .. L
      BY <1>1, <2>1, <2>2
    <3> QED BY <2>4, <3>4, <3>5, <3>6
  <2> QED BY <2>3, <2>4
<1> QED BY <1>1, <1>2, <1>6 DEF Segmented, e, texts, L

(* A position that is read belongs to one segment, with its block before it. *)
LEMMA ReadAt ==
  ASSUME NEW s, NEW texts, NEW e, NEW n, Segmented(s, texts, e, n), NEW m \in 1 .. n
  PROVE  LET text == texts[m]
             from == From(e, m)
         IN  /\ text \in Seq(Tokens) /\ Len(text) = e[m] - from /\ from \in Nat /\ e[m] \in Nat
             /\ \A x \in 1 .. Len(text) : text[x] = s[from + x]
             /\ \A i \in Int : B < i /\ e[m - 1] < i /\ i < e[m]
                                 <=> i - from - 1 \in B .. Len(text) - 2
<1> DEFINE text == texts[m]
           from == From(e, m)
<1>1. /\ s \in Seq(Tokens) /\ n \in Nat \ {0} /\ B \in Nat /\ Cuts(e, n, Len(s))
      /\ from \in 0 .. e[m] /\ e[m] \in 0 .. Len(s) /\ text = SubSeq(s, from + 1, e[m])
      /\ m > 1 => from + B = e[m - 1]
      /\ m = 1 => from = 0 /\ e[m - 1] = 0
  BY BlockAssumption DEF Segmented
<1> HIDE DEF text, from
<1>2. from \in Nat /\ e[m] \in Nat /\ Len(s) \in Nat
  BY <1>1
<1>3. \A x \in from + 1 .. e[m] : s[x] \in Tokens
  BY <1>1, <1>2
<1>4. /\ text \in Seq(Tokens) /\ Len(text) = (IF from + 1 <= e[m] THEN e[m] - (from + 1) + 1 ELSE 0)
      /\ \A x \in 1 .. e[m] - (from + 1) + 1 : text[x] = s[from + 1 + x - 1]
  BY <1>1, <1>2, <1>3, SubSeqProperties
<1>5. Len(text) = e[m] - from
  BY <1>1, <1>2, <1>4
<1>6. \A x \in 1 .. Len(text) : text[x] = s[from + x]
  <2>1. ASSUME NEW x \in 1 .. Len(text)
        PROVE  text[x] = s[from + x]
    <3>1. x \in 1 .. e[m] - (from + 1) + 1 /\ from + 1 + x - 1 = from + x
      BY <1>2, <1>5
    <3> QED BY <1>4, <3>1
  <2> QED BY <2>1
<1>7. ASSUME NEW i \in Int
      PROVE  B < i /\ e[m - 1] < i /\ i < e[m] <=> i - from - 1 \in B .. Len(text) - 2
  <2>1. CASE m = 1
    BY <1>1, <1>2, <1>5, <2>1
  <2>2. CASE m > 1
    <3> DEFINE p == e[m - 1]
               k == e[m]
               l == Len(text)
    <3>1. p = from + B /\ k \in Nat /\ l = k - from /\ B \in Nat
      BY <1>1, <1>2, <1>5, <2>2
    <3> HIDE DEF p, k, l
    <3>2. B < i /\ p < i /\ i < k <=> i - from - 1 \in B .. l - 2
      BY <1>2, <3>1
    <3> QED BY <3>2 DEF p, k, l
  <2> QED BY <1>1, <2>1, <2>2
<1> QED BY <1>2, <1>4, <1>5, <1>6, <1>7 DEF text, from

LEMMA LesserIs ==
  ASSUME NEW a \in Nat, NEW b \in Nat
  PROVE  Min({a, b}) <= a
<1>1. CASE a <= b
  <2>1. \A z \in {a, b} : (\A y \in {a, b} : z <= y) => z = a
    BY <1>1
  <2>2. \A y \in {a, b} : a <= y
    BY <1>1
  <2>3. Min({a, b}) = a
    BY <2>1, <2>2 DEF Min
  <2> QED BY <2>3
<1>2. CASE ~(a <= b)
  <2>1. \A z \in {a, b} : (\A y \in {a, b} : z <= y) => z = b
    BY <1>2
  <2>2. \A y \in {a, b} : b <= y
    BY <1>2
  <2>3. Min({a, b}) = b
    BY <2>1, <2>2 DEF Min
  <2> QED BY <1>2, <2>3
<1> QED BY <1>1, <1>2

\* The a-th pattern of the m-th segment has a whole block of the corpus, before i.
BlockRead(s, texts, e, m, a, i) ==
    /\ i \in B + 1 .. Len(s) /\ e[m - 1] < i /\ i < e[m]
    /\ Pattern(texts[m], a, B).next = s[i]
    /\ Pattern(texts[m], a, B).prefix = SubSeq(s, i - B, i - 1)
    /\ SubSeq(s, i - B, i - 1) \in Seq(Tokens) /\ Len(SubSeq(s, i - B, i - 1)) = B

LEMMA BlockAt ==
  ASSUME NEW s, NEW texts, NEW e, NEW n, Segmented(s, texts, e, n), NEW m \in 1 .. n, B # 0,
         NEW a \in B .. Len(texts[m]) - 2, NEW i, i = From(e, m) + a + 1
  PROVE  BlockRead(s, texts, e, m, a, i)
<1> DEFINE text == texts[m]
           from == From(e, m)
           k == e[m]
           p == e[m - 1]
<1>1. /\ s \in Seq(Tokens) /\ B \in Nat \ {0} /\ k \in 0 .. Len(s) /\ from \in 0 .. k
      /\ text = SubSeq(s, from + 1, k)
  BY BlockAssumption DEF Segmented
<1>2. /\ text \in Seq(Tokens) /\ Len(text) = k - from
      /\ \A x \in 1 .. Len(text) : text[x] = s[from + x]
      /\ \A x \in Int : B < x /\ p < x /\ x < k <=> x - from - 1 \in B .. Len(text) - 2
  BY ReadAt
<1>3. a \in B .. Len(text) - 2 /\ i = from + a + 1
  OBVIOUS
<1> HIDE DEF text, from, k, p
<1>4. Len(s) \in Nat /\ from \in Nat /\ k \in Nat /\ a \in Nat \ {0} /\ i \in Nat
  BY <1>1, <1>2, <1>3
<1>5. i - from - 1 = a
  BY <1>3, <1>4
<1>6. B < i /\ p < i /\ i < k
  BY <1>2, <1>3, <1>4, <1>5
<1>7. i \in B + 1 .. Len(s)
  BY <1>1, <1>4, <1>6
<1>8. text[a + 1] = s[i]
  <2>1. a + 1 \in 1 .. Len(text) /\ from + (a + 1) = i
    BY <1>1, <1>2, <1>3, <1>4
  <2>2. text[a + 1] = s[from + (a + 1)]
    BY <1>2, <2>1
  <2> QED BY <2>1, <2>2
<1>9. SubSeq(text, a - B + 1, a) = SubSeq(s, i - B, i - 1)
  <2> DEFINE c == from + 1
             f == a - B + 1
  <2>1. /\ c \in 1 .. Len(s) /\ k \in 1 .. Len(s) /\ f \in 1 .. k - c + 1 /\ a \in 1 .. k - c + 1
        /\ c + f - 1 = i - B /\ c + a - 1 = i - 1
    <3>1. /\ B \in Nat /\ B >= 1 /\ a >= B /\ a <= k - from - 2 /\ k <= Len(s)
      BY <1>1, <1>2, <1>3, <1>4
    <3>2. k - c + 1 = k - from
      BY <1>4
    <3>3. f \in 1 .. k - from /\ a \in 1 .. k - from /\ c \in 1 .. Len(s) /\ k \in 1 .. Len(s)
      BY <1>4, <3>1
    <3>4. c + f - 1 = i - B /\ c + a - 1 = i - 1
      BY <1>3, <1>4, <3>1
    <3> QED BY <3>2, <3>3, <3>4
  <2> HIDE DEF c, f
  <2>2. SubSeq(SubSeq(s, c, k), f, a) = SubSeq(s, c + f - 1, c + a - 1)
    BY <1>1, <2>1, SubSeqOfSubSeq
  <2> QED BY <1>1, <2>1, <2>2 DEF c, f
<1>10. SubSeq(s, i - B, i - 1) \in Seq(Tokens) /\ Len(SubSeq(s, i - B, i - 1)) = B
  <2> DEFINE f == i - B
             l == i - 1
  <2>1. f \in Int /\ l \in Int /\ f <= l /\ l - f + 1 = B /\ \A x \in f .. l : s[x] \in Tokens
    BY <1>1, <1>4, <1>7
  <2> HIDE DEF f, l
  <2>2. SubSeq(s, f, l) \in Seq(Tokens) /\ Len(SubSeq(s, f, l)) = IF f <= l THEN l - f + 1 ELSE 0
    BY <2>1, SubSeqProperties
  <2> QED BY <2>1, <2>2 DEF f, l
<1>11. Window(text, a, B) = SubSeq(text, a - B + 1, a)
  BY <1>1, <1>3, <1>4 DEF Window
<1>12. Pattern(text, a, B).next = s[i] /\ Pattern(text, a, B).prefix = SubSeq(s, i - B, i - 1)
  BY <1>8, <1>9, <1>11 DEF Pattern
<1> QED BY <1>6, <1>7, <1>10, <1>12 DEF BlockRead, text, k, p

LEMMA LesserMember ==
  ASSUME NEW a \in Nat, NEW b \in Nat
  PROVE  Min({a, b}) \in {a, b}
<1>1. CASE a <= b
  <2>1. \E z \in {a, b} : \A y \in {a, b} : z <= y
    BY <1>1
  <2> QED BY <2>1 DEF Min
<1>2. CASE ~(a <= b)
  <2>1. \A y \in {a, b} : b <= y
    BY <1>2
  <2>2. \E z \in {a, b} : \A y \in {a, b} : z <= y
    BY <2>1
  <2> QED BY <2>2 DEF Min
<1> QED BY <1>1, <1>2

(* A suffix is no longer than its text, and as long only if it is the text. *)
LEMMA SuffixLength ==
  ASSUME NEW S, NEW w \in Seq(S), NEW p \in Suffixes(w)
  PROVE  Len(p) <= Len(w)
<1>1. Len(w) \in Nat
  BY LenProperties
<1>2. CASE p = <<>>
  BY <1>1, <1>2
<1>3. CASE p # <<>>
  <2>1. PICK f \in 1 .. Len(w) : p = SubSeq(w, f, Len(w))
    BY <1>3 DEF Suffixes
  <2>2. \A z \in f .. Len(w) : w[z] \in S
    BY <1>1, LenProperties
  <2>3. Len(SubSeq(w, f, Len(w))) = IF f <= Len(w) THEN Len(w) - f + 1 ELSE 0
    BY <1>1, <2>2, SubSeqProperties
  <2> QED BY <1>1, <2>1, <2>3
<1> QED BY <1>2, <1>3

LEMMA WholeSuffix ==
  ASSUME NEW S, NEW w \in Seq(S), NEW p \in Suffixes(w), Len(p) = Len(w)
  PROVE  p = w
<1>1. Len(w) \in Nat
  BY LenProperties
<1>2. CASE p = <<>>
  <2>1. Len(w) = 0
    BY <1>2
  <2> QED BY <1>2, <2>1, EmptySeq
<1>3. CASE p # <<>>
  <2>1. PICK f \in 1 .. Len(w) : p = SubSeq(w, f, Len(w))
    BY <1>3 DEF Suffixes
  <2>2. \A z \in f .. Len(w) : w[z] \in S
    BY <1>1, LenProperties
  <2>3. Len(SubSeq(w, f, Len(w))) = IF f <= Len(w) THEN Len(w) - f + 1 ELSE 0
    BY <1>1, <2>2, SubSeqProperties
  <2>4. f = 1
    BY <1>1, <2>1, <2>3
  <2> QED BY <2>1, <2>4, SubSeqFull
<1> QED BY <1>2, <1>3

\* Where t follows p in the m-th segment, with a whole block before it.
ReadIn(s, e, m, p, t) ==
    {i \in B + 1 .. Len(s) : /\ e[m - 1] < i /\ i < e[m]
                             /\ s[i] = t /\ p = SubSeq(s, i - Len(p), i - 1)}

(* A context is counted wherever it ends a block of the segment. *)
LEMMA ReadIsCounted ==
  ASSUME NEW s, NEW texts, NEW e, NEW n, Segmented(s, texts, e, n), NEW m \in 1 .. n,
         NEW p, Len(p) \in 1 .. B, p # <<>>, NEW t, NEW i \in ReadIn(s, e, m, p, t)
  PROVE  <<p, Pattern(texts[m], i - From(e, m) - 1, B)>> \in CountedIn(texts[m], Last(p), <<p, t>>)
<1> DEFINE text == texts[m]
           from == From(e, m)
           a == i - from - 1
           x == Pattern(text, a, B)
           block == SubSeq(s, i - B, i - 1)
           l == Len(p)
<1>1. /\ i \in B + 1 .. Len(s) /\ e[m - 1] < i /\ i < e[m] /\ s[i] = t
      /\ p = SubSeq(s, i - l, i - 1)
  BY DEF ReadIn
<1>2. s \in Seq(Tokens) /\ B \in Nat \ {0} /\ l \in 1 .. B /\ Len(s) \in Nat
  BY BlockAssumption DEF Segmented
<1>3. from \in Nat
  BY ReadAt
<1>4. a \in B .. Len(text) - 2
  BY <1>1, <1>2, ReadAt
<1>5. i = from + a + 1
  BY <1>1, <1>2, <1>3
<1> HIDE DEF l, a, from
<1>6. x.next = t /\ x.prefix = block /\ Len(block) = B
  <2>1. a \in B .. Len(texts[m]) - 2 /\ i = From(e, m) + a + 1 /\ B # 0
    BY <1>2, <1>4, <1>5 DEF from
  <2>2. /\ Pattern(texts[m], a, B).next = s[i]
        /\ Pattern(texts[m], a, B).prefix = SubSeq(s, i - B, i - 1)
        /\ Len(SubSeq(s, i - B, i - 1)) = B
    <3>1. BlockRead(s, texts, e, m, a, i)
      BY <2>1, BlockAt
    <3> QED BY <3>1 DEF BlockRead
  <2>3. x = Pattern(texts[m], a, B)
    OBVIOUS
  <2> QED BY <1>1, <2>2, <2>3
<1>7. p = SubSeq(block, B - l + 1, B)
  <2> DEFINE f == i - B
             g == i - 1
             c == B - l + 1
  <2>1. /\ f \in 1 .. Len(s) /\ g \in 1 .. Len(s) /\ c \in 1 .. g - f + 1 /\ B \in 1 .. g - f + 1
        /\ f + c - 1 = i - l /\ f + B - 1 = g
    BY <1>1, <1>2
  <2> HIDE DEF f, g, c
  <2>2. SubSeq(SubSeq(s, f, g), c, B) = SubSeq(s, f + c - 1, f + B - 1)
    BY <1>2, <2>1, SubSeqOfSubSeq
  <2>3. p = SubSeq(s, i - l, g)
    BY <1>1 DEF g
  <2> QED BY <2>1, <2>2, <2>3 DEF f, g, c
<1>8. p \in Suffixes(block)
  <2> DEFINE c == Len(block)
  <2>1. c = B
    BY <1>6
  <2> HIDE DEF c
  <2>2. B - l + 1 \in 1 .. c
    BY <1>2, <2>1
  <2>3. B - l + 1 \in 1 .. Len(block)
    BY <2>2 DEF c
  <2> QED BY <1>6, <1>7, <2>3 DEF Suffixes
<1>9. x \in PatternsIn(text)
  BY <1>4 DEF PatternsIn, Blocks
<1> HIDE DEF x, block
<1>10. \E z \in PatternsIn(text) : \E q \in Suffixes(z.prefix) \ {<<>>} :
         <<p, x>> = <<q, z>> /\ Last(q) = Last(p) /\ <<q, z.next>> = <<p, t>>
  BY <1>6, <1>8, <1>9
<1>11. <<p, x>> \in CountedIn(text, Last(p), <<p, t>>)
  <2> DEFINE c == <<p, t>>
             k == Last(p)
             y == <<p, x>>
  <2>1. \E z \in PatternsIn(text) : \E q \in Suffixes(z.prefix) \ {<<>>} :
          y = <<q, z>> /\ Last(q) = k /\ <<q, z.next>> = c
    BY <1>10
  <2> HIDE DEF c, k, y
  <2>2. y \in CountedIn(text, k, c)
    BY <2>1, CountedMember
  <2> QED BY <2>2 DEF c, k, y
<1> QED BY <1>11 DEF x, a, from

(* A whole block is counted only there. *)
LEMMA CountedIsRead ==
  ASSUME NEW s, NEW texts, NEW e, NEW n, Segmented(s, texts, e, n), NEW m \in 1 .. n,
         NEW p, Len(p) = B, B # 0, NEW t, NEW y \in CountedIn(texts[m], Last(p), <<p, t>>)
  PROVE  \E i \in ReadIn(s, e, m, p, t) : y = <<p, Pattern(texts[m], i - From(e, m) - 1, B)>>
<1> DEFINE text == texts[m]
           from == From(e, m)
<1>1. B \in Nat \ {0} /\ text \in Seq(Tokens) /\ from \in Nat /\ Len(text) \in Nat
  BY ReadAt, BlockAssumption
<1>2. PICK x \in PatternsIn(text) : \E q \in Suffixes(x.prefix) \ {<<>>} :
        y = <<q, x>> /\ Last(q) = Last(p) /\ <<q, x.next>> = <<p, t>>
  <2> DEFINE c == <<p, t>>
             k == Last(p)
  <2>1. y \in CountedIn(text, k, c)
    OBVIOUS
  <2> HIDE DEF c, k
  <2>2. \E x \in PatternsIn(text) : \E q \in Suffixes(x.prefix) \ {<<>>} :
          y = <<q, x>> /\ Last(q) = k /\ <<q, x.next>> = c
    BY <2>1, CountedMember
  <2> QED BY <2>2 DEF c, k
<1>3. y = <<p, x>> /\ x.next = t /\ p \in Suffixes(x.prefix)
  BY <1>2
<1>4. PICK a \in B .. Len(text) - 2 : x = Pattern(text, a, B)
  <2>1. ASSUME x \in Leading(text, B)
        PROVE  FALSE
    <3>1. PICK j \in 1 .. Min({B, Len(text)}) - 1 : x = Pattern(text, j, B)
      BY <2>1 DEF Leading
    <3>2. Min({B, Len(text)}) <= B /\ Min({B, Len(text)}) <= Len(text)
      <4> DEFINE l == Len(text)
      <4>1. l \in Nat /\ B \in Nat /\ {l, B} = {B, l}
        BY <1>1
      <4> HIDE DEF l
      <4>2. Min({B, l}) <= B /\ Min({l, B}) <= l
        BY <4>1, LesserIs
      <4> QED BY <4>1, <4>2 DEF l
    <3>3. j \in Nat /\ j < B /\ j <= Len(text) /\ j >= 1
      <4> DEFINE z == Min({B, Len(text)})
      <4>1. z \in Int
        <5> DEFINE l == Len(text)
        <5>1. l \in Nat /\ B \in Nat
          BY <1>1
        <5> HIDE DEF l
        <5>2. Min({B, l}) \in {B, l}
          BY <5>1, LesserMember
        <5> QED BY <5>1, <5>2 DEF l
      <4>2. z <= B /\ z <= Len(text) /\ j \in 1 .. z - 1
        BY <3>1, <3>2
      <4> HIDE DEF z
      <4> QED BY <1>1, <4>1, <4>2
    <3>4. x.prefix = SubSeq(text, 1, j) /\ j \in 0 .. Len(text)
      BY <1>1, <3>1, <3>3 DEF Pattern, Window
    <3> HIDE DEF text
    <3>5. Len(x.prefix) = j
      <4>1. \A z \in 1 .. j : text[z] \in Tokens
        BY <1>1, <3>4
      <4> DEFINE w == SubSeq(text, 1, j)
      <4>2. Len(w) = IF 1 <= j THEN j - 1 + 1 ELSE 0
        BY <1>1, <3>3, <4>1, SubSeqProperties
      <4> HIDE DEF w
      <4>3. Len(w) = j
        BY <3>3, <4>2
      <4> QED BY <3>4, <4>3 DEF w
    <3>6. x.prefix \in Seq(Tokens)
      <4>1. \A z \in 1 .. j : text[z] \in Tokens
        BY <1>1, <3>4
      <4>2. SubSeq(text, 1, j) \in Seq(Tokens)
        BY <1>1, <3>3, <4>1, SubSeqProperties
      <4> QED BY <3>4, <4>2
    <3>7. Len(p) <= j
      <4> DEFINE w == x.prefix
      <4>1. w \in Seq(Tokens) /\ Len(w) = j /\ p \in Suffixes(w)
        BY <1>3, <3>5, <3>6
      <4> HIDE DEF w
      <4>2. Len(p) <= Len(w)
        BY <4>1, SuffixLength
      <4> QED BY <4>1, <4>2
    <3> QED BY <1>1, <3>3, <3>7
  <2>2. x \in Blocks(text, B)
    BY <2>1 DEF PatternsIn
  <2> QED BY <2>2 DEF Blocks
<1> DEFINE i == from + a + 1
           block == SubSeq(s, i - B, i - 1)
<1>5. /\ i \in B + 1 .. Len(s) /\ e[m - 1] < i /\ i < e[m]
      /\ x.next = s[i] /\ x.prefix = block
      /\ block \in Seq(Tokens) /\ Len(block) = B
  <2>1. a \in B .. Len(texts[m]) - 2 /\ i = From(e, m) + a + 1 /\ B # 0
    BY <1>4
  <2> HIDE DEF i
  <2>2. /\ i \in B + 1 .. Len(s) /\ e[m - 1] < i /\ i < e[m]
        /\ Pattern(texts[m], a, B).next = s[i]
        /\ Pattern(texts[m], a, B).prefix = SubSeq(s, i - B, i - 1)
        /\ SubSeq(s, i - B, i - 1) \in Seq(Tokens) /\ Len(SubSeq(s, i - B, i - 1)) = B
    <3>1. BlockRead(s, texts, e, m, a, i)
      BY <2>1, BlockAt
    <3> QED BY <3>1 DEF BlockRead
  <2>3. x = Pattern(texts[m], a, B)
    BY <1>4
  <2> QED BY <2>2, <2>3
<1>6. i - from - 1 = a
  BY <1>1, <1>4
<1> HIDE DEF text, from, i, block
<1>7. p = block
  <2>1. p \in Suffixes(block) /\ Len(p) = Len(block)
    BY <1>3, <1>5
  <2> QED BY <1>5, <2>1, WholeSuffix
<1>8. i \in ReadIn(s, e, m, p, t)
  <2>1. s[i] = t /\ p = SubSeq(s, i - Len(p), i - 1)
    BY <1>3, <1>5, <1>7 DEF block
  <2> QED BY <1>5, <2>1 DEF ReadIn
<1>9. y = <<p, Pattern(text, i - from - 1, B)>>
  BY <1>3, <1>4, <1>6
<1> QED BY <1>8, <1>9 DEF text, from

(* So of a context that is as long as the block exactly the places that are read are  *)
(* counted, and of a shorter one at least these.                                      *)
LEMMA SegmentCounts ==
  ASSUME NEW s, NEW texts, NEW e, NEW n, Segmented(s, texts, e, n), NEW m \in 1 .. n,
         NEW p, Len(p) \in 1 .. B, p # <<>>, NEW t
  PROVE  LET read == ReadIn(s, e, m, p, t)
             counted == CountedIn(texts[m], Last(p), <<p, t>>)
         IN  /\ IsFiniteSet(read) /\ IsFiniteSet(counted)
             /\ Cardinality(read) \in Nat /\ Cardinality(counted) \in Nat
             /\ Cardinality(read) <= Cardinality(counted)
             /\ Len(p) = B => Cardinality(read) = Cardinality(counted)
<1> DEFINE read == ReadIn(s, e, m, p, t)
           counted == CountedIn(texts[m], Last(p), <<p, t>>)
           from == From(e, m)
           f == [i \in read |-> <<p, Pattern(texts[m], i - from - 1, B)>>]
<1>1. from \in Nat /\ read \subseteq Int /\ Text(texts[m])
  <2>1. from \in Nat /\ texts[m] \in Seq(Tokens)
    BY ReadAt
  <2> QED BY <2>1, BlockAssumption DEF ReadIn, Text, Segmented
<1>2. IsFiniteSet(counted)
  BY <1>1, CountedFinite
<1>3. \A i \in read : f[i] \in counted
  BY ReadIsCounted
<1>4. ASSUME NEW i \in read, NEW j \in read, f[i] = f[j]
      PROVE  i = j
  <2>1. Pattern(texts[m], i - from - 1, B).at = Pattern(texts[m], j - from - 1, B).at
    BY <1>4
  <2>2. i - from - 1 = j - from - 1
    BY <2>1 DEF Pattern
  <2> HIDE DEF from
  <2> QED BY <1>1, <2>2
<1>5. Len(p) = B => \A y \in counted : \E i \in read : f[i] = y
  <2>1. ASSUME Len(p) = B, NEW y \in counted
        PROVE  \E i \in read : f[i] = y
    <3>1. B # 0
      BY <2>1, BlockAssumption
    <3>2. \E i \in read : y = <<p, Pattern(texts[m], i - from - 1, B)>>
      BY <2>1, <3>1, CountedIsRead
    <3> QED BY <3>2
  <2> QED BY <2>1
<1>6. f \in [read -> counted]
  BY <1>3
<1> HIDE DEF f, read, counted, from
<1>7. f \in Injection(read, counted)
  BY <1>4, <1>6 DEF Injection, IsInjective
<1>8. IsFiniteSet(read) /\ Cardinality(read) <= Cardinality(counted)
  BY <1>2, <1>7, FS_Injection
<1>9. ASSUME Len(p) = B
      PROVE  Cardinality(read) = Cardinality(counted)
  <2>1. ExistsBijection(read, counted)
    BY <1>4, <1>5, <1>6, <1>9, BijectionExists
  <2> QED BY <1>8, <2>1, FS_Bijection
<1>10. Cardinality(read) \in Nat /\ Cardinality(counted) \in Nat
  BY <1>2, <1>8, FS_CardinalityType
<1> QED BY <1>2, <1>8, <1>9, <1>10 DEF read, counted

\* Where the corpus is read, and where t follows p there.
ReadPlaces(s, e, n) == {i \in B + 1 .. Len(s) : i \notin {e[m] : m \in 1 .. n}}
BlocksOf(s, e, n, p, t) ==
    {i \in ReadPlaces(s, e, n) : s[i] = t /\ p = SubSeq(s, i - Len(p), i - 1)}

(* Every place that is read is in one segment. *)
LEMMA BlocksBySegment ==
  ASSUME NEW s, NEW texts, NEW e, NEW n, Segmented(s, texts, e, n), NEW p, NEW t
  PROVE  /\ IsFiniteSet(BlocksOf(s, e, n, p, t))
         /\ SumOver(1 .. n, [m \in 1 .. n |-> Cardinality(ReadIn(s, e, m, p, t))])
              = Cardinality(BlocksOf(s, e, n, p, t))
<1> DEFINE X == BlocksOf(s, e, n, p, t)
           I == 1 .. n
           part == [m \in I |-> ReadIn(s, e, m, p, t)]
           g == [m \in I |-> Cardinality(ReadIn(s, e, m, p, t))]
           h == [i \in X |-> CHOOSE m \in I : e[m - 1] < i /\ i <= e[m]]
<1>1. /\ s \in Seq(Tokens) /\ n \in Nat \ {0} /\ Cuts(e, n, Len(s)) /\ Len(s) \in Nat
      /\ e \in [0 .. n -> Nat] /\ B \in Nat
  <2>1. s \in Seq(Tokens) /\ n \in Nat \ {0} /\ Cuts(e, n, Len(s))
    BY DEF Segmented
  <2>2. Len(s) \in Nat
    BY <2>1
  <2> QED BY <2>1, <2>2, BlockAssumption DEF Cuts
<1>2. /\ \A i, j \in 0 .. n : i < j => e[i] + B < e[j]
      /\ \A x \in 1 .. Len(s) : \E m \in 1 .. n : e[m - 1] < x /\ x <= e[m]
  BY <1>1, CutsGrow
<1>3. ASSUME NEW i \in Int, NEW l \in I, NEW m \in I, e[l - 1] < i, i <= e[l], e[m - 1] < i, i <= e[m]
      PROVE  l = m
  <2>1. /\ l \in 0 .. n /\ m \in 0 .. n /\ l - 1 \in 0 .. n /\ m - 1 \in 0 .. n
        /\ e[l] \in Nat /\ e[m] \in Nat /\ e[l - 1] \in Nat /\ e[m - 1] \in Nat
    BY <1>1
  <2>2. ASSUME l < m PROVE FALSE
    <3>1. l = m - 1 \/ l < m - 1
      BY <2>1, <2>2
    <3>2. l < m - 1 => e[l] + B < e[m - 1]
      BY <1>2, <2>1
    <3> QED BY <1>1, <1>3, <2>1, <3>1, <3>2
  <2>3. ASSUME m < l PROVE FALSE
    <3>1. m = l - 1 \/ m < l - 1
      BY <2>1, <2>3
    <3>2. m < l - 1 => e[m] + B < e[l - 1]
      BY <1>2, <2>1
    <3> QED BY <1>1, <1>3, <2>1, <3>1, <3>2
  <2> QED BY <2>1, <2>2, <2>3
<1>4. ASSUME NEW i \in X
      PROVE  /\ i \in B + 1 .. Len(s) /\ s[i] = t /\ p = SubSeq(s, i - Len(p), i - 1)
             /\ \A m \in I : i # e[m]
             /\ h[i] \in I /\ e[h[i] - 1] < i /\ i <= e[h[i]]
  <2>1. /\ i \in B + 1 .. Len(s) /\ s[i] = t /\ p = SubSeq(s, i - Len(p), i - 1)
        /\ \A m \in I : i # e[m]
    BY DEF BlocksOf, ReadPlaces
  <2>2. i \in 1 .. Len(s)
    BY <1>1, <2>1
  <2>3. \E m \in I : e[m - 1] < i /\ i <= e[m]
    BY <1>2, <2>2
  <2> QED BY <2>1, <2>3
<1>5. ASSUME NEW m \in I, NEW i
      PROVE  i \in part[m] <=> i \in X /\ h[i] = m
  <2>1. i \in part[m] <=> i \in ReadIn(s, e, m, p, t)
    OBVIOUS
  <2>2. ASSUME i \in X, h[i] = m
        PROVE  i \in ReadIn(s, e, m, p, t)
    <3>1. /\ i \in B + 1 .. Len(s) /\ s[i] = t /\ p = SubSeq(s, i - Len(p), i - 1)
          /\ i # e[m] /\ e[m - 1] < i /\ i <= e[m]
      BY <1>4, <2>2
    <3>2. e[m] \in Nat /\ i \in Int
      BY <1>1, <3>1
    <3>3. i < e[m]
      BY <3>1, <3>2
    <3> QED BY <3>1, <3>3 DEF ReadIn
  <2>3. ASSUME i \in ReadIn(s, e, m, p, t)
        PROVE  i \in X /\ h[i] = m
    <3>1. /\ i \in B + 1 .. Len(s) /\ e[m - 1] < i /\ i < e[m] /\ s[i] = t
          /\ p = SubSeq(s, i - Len(p), i - 1)
      BY <2>3 DEF ReadIn
    <3>2. i \in Int
      BY <1>1, <3>1
    <3>3. ASSUME NEW l \in I, i = e[l]
          PROVE  FALSE
      <4>1. /\ l \in 0 .. n /\ l - 1 \in 0 .. n /\ l - 1 < l /\ e[l - 1] \in Nat /\ e[l] \in Nat
            /\ e[m] \in Nat
        BY <1>1
      <4>2. e[l - 1] + B < e[l]
        BY <1>2, <4>1
      <4>3. e[l - 1] < i /\ i <= e[l] /\ i <= e[m]
        <5> DEFINE x == e[l - 1]
                   y == e[m]
        <5>1. x \in Nat /\ x + B < i /\ i < y /\ y \in Nat /\ i \in Int /\ B \in Nat
          BY <1>1, <3>1, <3>2, <3>3, <4>1, <4>2
        <5> HIDE DEF x, y
        <5>2. x < i /\ i <= y /\ i <= i
          BY <5>1
        <5> QED BY <3>3, <5>2 DEF x, y
      <4>4. l = m
        BY <1>3, <3>1, <3>2, <4>3
      <4> QED BY <3>1, <3>2, <3>3, <4>1, <4>4
    <3>4. i \in X
      BY <3>1, <3>3 DEF BlocksOf, ReadPlaces
    <3>5. e[m] \in Nat
      BY <1>1
    <3>6. i <= e[m]
      BY <3>1, <3>2, <3>5
    <3> QED BY <1>3, <1>4, <3>1, <3>2, <3>4, <3>6
  <2> QED BY <2>1, <2>2, <2>3
<1>6. IsFiniteSet(X)
  <2>1. IsFiniteSet(B + 1 .. Len(s))
    BY <1>1, FS_Interval
  <2>2. X \subseteq B + 1 .. Len(s)
    BY <1>4
  <2> HIDE DEF X
  <2> QED BY <2>1, <2>2, FS_Subset
<1>7. \A m \in I : g[m] = Cardinality(part[m])
  OBVIOUS
<1>8. IsFiniteSet(I)
  BY <1>1, FS_Interval
<1>9. \A i \in X : h[i] \in I
  BY <1>4
<1> HIDE DEF X, I, h, part, g
<1>10. SumOver(I, g) = Cardinality(X)
  BY <1>5, <1>6, <1>7, <1>8, <1>9, SizeByParts
<1> QED BY <1>6, <1>10 DEF X, I, g

(* What the tree of all segments counts of a context. *)
LEMMA WholeTreeCounts ==
  ASSUME NEW corpus \in Corpora, NEW n \in Splits, Splittable(corpus, n, B),
         NEW p, Len(p) \in 1 .. B, p # <<>>, NEW t
  PROVE  LET read == Cardinality(BlocksOf(corpus, Ends(corpus, n), n, p, t))
             counted == Copies(<<p, t>>, WholeTree(corpus, n, Last(p)))
         IN  counted >= read /\ (Len(p) = B => counted = read)
<1> DEFINE e == Ends(corpus, n)
           texts == split_input(corpus, n, B)
           k == Last(p)
           c == <<p, t>>
           I == 1 .. n
           g == [m \in I |-> Cardinality(ReadIn(corpus, e, m, p, t))]
           h == [m \in I |-> Cardinality(CountedIn(texts[m], k, c))]
<1>1. Segmented(corpus, texts, e, n)
  BY SegmentsAre
<1>2. Copies(c, WholeTree(corpus, n, k)) = SumOver(I, h)
  BY WholeCounts
<1> HIDE DEF e, texts
<1>3. SumOver(I, g) = Cardinality(BlocksOf(corpus, e, n, p, t))
  BY <1>1, BlocksBySegment
<1>4. ASSUME NEW m \in I
      PROVE  g[m] \in Nat /\ h[m] \in Nat /\ g[m] <= h[m] /\ (Len(p) = B => g[m] = h[m])
  BY <1>1, SegmentCounts
<1>5. IsFiniteSet(I)
  <2>1. n \in Nat
    BY BeamAssumption
  <2> QED BY <2>1, FS_Interval
<1> HIDE DEF g, h, I, c, k
<1>6. SumOver(I, g) <= SumOver(I, h)
  BY <1>4, <1>5, SumGrows
<1>7. Len(p) = B => SumOver(I, g) = SumOver(I, h)
  BY <1>4, SumSame
<1>8. SumOver(I, g) \in Nat /\ SumOver(I, h) \in Nat
  BY <1>4, <1>5, SumType
<1> QED BY <1>2, <1>3, <1>6, <1>7, <1>8 DEF e, c, k

-----------------------------------------------------------------------------
(* The segments put together *)

FlattenedBy(seqs, f) ==
    f = [i \in 1 .. Len(seqs) |-> IF i = 1 THEN seqs[i] ELSE f[i - 1] \o seqs[i]]

LEMMA FlattenUnrolled ==
  ASSUME NEW seqs, Len(seqs) # 0
  PROVE  FlattenSeq(seqs) = (CHOOSE f : FlattenedBy(seqs, f))[Len(seqs)]
BY Zenon DEF FlattenSeq, FlattenedBy

(* Adjacent pieces of a text, flattened. *)
LEMMA FlattenPieces ==
  ASSUME NEW s, s \in Seq(Tokens), NEW l \in Nat \ {0}, NEW c \in [0 .. l -> Nat],
         \A i \in 1 .. l : c[i - 1] <= c[i], \A i \in 0 .. l : c[i] <= Len(s),
         NEW seqs, Len(seqs) = l, \A i \in 1 .. l : seqs[i] = SubSeq(s, c[i - 1] + 1, c[i])
  PROVE  FlattenSeq(seqs) = SubSeq(s, c[0] + 1, c[l])
<1> DEFINE I == 1 .. l
           whole(i) == SubSeq(s, c[0] + 1, c[i])
           f == [i \in I |-> whole(i)]
<1>1. /\ Len(s) \in Nat /\ \A i \in 0 .. l : c[i] \in Nat /\ c[i] <= Len(s)
      /\ \A i \in I : i - 1 \in 0 .. l /\ i \in 0 .. l
  BY LenProperties
<1>2. \A i \in 0 .. l : c[0] <= c[i]
  <2> DEFINE T == {i \in 0 .. l : ~(c[0] <= c[i])}
  <2>1. SUFFICES ASSUME T # {} PROVE FALSE
    OBVIOUS
  <2>2. PICK i \in T : \A j \in T : i <= j
    <3>1. T \subseteq Nat
      OBVIOUS
    <3> HIDE DEF T
    <3> QED BY <2>1, <3>1, Least
  <2>3. i \in 0 .. l /\ ~(c[0] <= c[i]) /\ i # 0 /\ c[0] \in Nat
    BY <1>1
  <2>4. i \in I /\ i - 1 \in 0 .. l /\ i - 1 \notin T
    BY <2>2, <2>3
  <2>5. c[0] <= c[i - 1] /\ c[i - 1] <= c[i] /\ c[i - 1] \in Nat /\ c[i] \in Nat
    BY <1>1, <2>4
  <2> QED BY <2>3, <2>5
<1>3. ASSUME NEW i \in I, i # 1
      PROVE  whole(i - 1) \o seqs[i] = whole(i)
  <2> DEFINE a == c[0] + 1
             b == c[i - 1]
             d == c[i]
  <2>1. i - 1 \in 0 .. l /\ b \in Nat /\ d \in Nat /\ c[0] \in Nat /\ c[0] <= b /\ b <= d /\ d <= Len(s)
    BY <1>1, <1>2
  <2> DEFINE z == c[0]
             y == Len(s)
  <2>2. a \in 1 .. Len(s) + 1 /\ b \in a - 1 .. Len(s) /\ d \in b .. Len(s)
    <3>1. /\ b \in Nat /\ d \in Nat /\ z \in Nat /\ z <= b /\ b <= d /\ d <= y /\ y \in Nat
          /\ a = z + 1
      BY <1>1, <2>1
    <3> HIDE DEF a, b, d, z, y
    <3>2. a \in 1 .. y + 1 /\ b \in a - 1 .. y /\ d \in b .. y
      BY <3>1
    <3> QED BY <3>2 DEF y
  <2>3. seqs[i] = SubSeq(s, b + 1, d)
    OBVIOUS
  <2> HIDE DEF a, b, d
  <2>4. SubSeq(s, a, b) \o SubSeq(s, b + 1, d) = SubSeq(s, a, d)
    BY <2>2, ConcatAdjacentSubSeq
  <2> QED BY <2>3, <2>4 DEF a, b, d
<1>4. seqs[1] = whole(1)
  <2>1. 1 \in I /\ 1 - 1 = 0
    OBVIOUS
  <2> QED BY <2>1
<1> HIDE DEF whole
<1>5. FlattenedBy(seqs, f)
  <2>1. \A i \in I : i # 1 => i - 1 \in I
    OBVIOUS
  <2>2. \A i \in I : f[i] = IF i = 1 THEN seqs[i] ELSE f[i - 1] \o seqs[i]
    BY <1>3, <1>4, <2>1
  <2>3. f = [i \in I |-> IF i = 1 THEN seqs[i] ELSE f[i - 1] \o seqs[i]]
    <3>1. f = [i \in I |-> f[i]]
      OBVIOUS
    <3> HIDE DEF f
    <3> QED BY <2>2, <3>1
  <2> QED BY <2>3 DEF FlattenedBy
<1> DEFINE F == CHOOSE g : FlattenedBy(seqs, g)
<1> HIDE DEF f
<1>6. FlattenedBy(seqs, F)
  BY <1>5
<1> HIDE DEF F
<1>7. F = [i \in I |-> IF i = 1 THEN seqs[i] ELSE F[i - 1] \o seqs[i]]
  BY <1>6 DEF FlattenedBy
<1>8. \A i \in I : F[i] = whole(i)
  <2> DEFINE T == {i \in I : F[i] # whole(i)}
  <2>1. SUFFICES ASSUME T # {} PROVE FALSE
    OBVIOUS
  <2>2. PICK i \in T : \A j \in T : i <= j
    <3>1. T \subseteq Nat
      OBVIOUS
    <3> HIDE DEF T
    <3> QED BY <2>1, <3>1, Least
  <2>3. F[i] = IF i = 1 THEN seqs[i] ELSE F[i - 1] \o seqs[i]
    BY <1>7
  <2>4. i # 1
    BY <1>4, <2>3
  <2>5. i - 1 \in I /\ i - 1 \notin T
    BY <2>2, <2>4
  <2>6. F[i - 1] = whole(i - 1)
    BY <2>5
  <2> QED BY <1>3, <2>3, <2>4, <2>6
<1>9. l \in I /\ FlattenSeq(seqs) = F[l]
  BY FlattenUnrolled DEF F
<1> QED BY <1>8, <1>9 DEF whole

(* A corpus that was split is put together again. *)
LEMMA MergedIsCorpus ==
  ASSUME NEW corpus \in Corpora, NEW n \in Splits, Splittable(corpus, n, B)
  PROVE  merge_split_input(split_input(corpus, n, B), B) = corpus
<1> DEFINE e == Ends(corpus, n)
           texts == split_input(corpus, n, B)
           s == corpus
           l == n - 1
           seqs == [i \in 1 .. l |-> SubSeq(texts[i + 1], B + 1, Len(texts[i + 1]))]
           c == [i \in 0 .. l |-> e[i + 1]]
<1>1. Segmented(s, texts, e, n)
  BY SegmentsAre
<1>2. Len(texts) = n
  <2>1. n \in Nat /\ DOMAIN texts = 1 .. n
    BY BeamAssumption DEF split_input
  <2>2. texts \in [1 .. n -> {texts[i] : i \in 1 .. n}]
    BY DEF split_input
  <2> DEFINE S == {texts[i] : i \in 1 .. n}
  <2> HIDE DEF S, texts
  <2>3. texts \in [1 .. n -> S]
    BY <2>2 DEF S
  <2> QED BY <2>1, <2>3
<1>3. merge_split_input(texts, B) = texts[1] \o FlattenSeq(seqs)
  <2> HIDE DEF texts
  <2> QED BY <1>2 DEF merge_split_input
<1> HIDE DEF e, texts, s
<1>4. /\ s \in Seq(Tokens) /\ n \in Nat \ {0} /\ Cuts(e, n, Len(s)) /\ B \in Nat
      /\ \A i \in 1 .. n : /\ From(e, i) \in 0 .. e[i] /\ e[i] \in 0 .. Len(s)
                           /\ texts[i] = SubSeq(s, From(e, i) + 1, e[i])
                           /\ i > 1 => From(e, i) + B = e[i - 1]
                           /\ i = 1 => From(e, i) = 0 /\ e[i - 1] = 0
  BY <1>1, BlockAssumption DEF Segmented
<1>5. /\ Len(s) \in Nat /\ l \in Nat /\ e \in [0 .. n -> Nat] /\ e[n] = Len(s)
      /\ \A i \in 1 .. n : e[i - 1] + B < e[i]
  <2>1. Len(s) \in Nat
    BY <1>4, LenProperties
  <2>2. e \in [0 .. n -> Nat] /\ e[n] = Len(s) /\ \A i \in 1 .. n : e[i - 1] + B < e[i]
    BY <1>4 DEF Cuts
  <2>3. l \in Nat
    BY <1>4
  <2> QED BY <2>1, <2>2, <2>3
<1>6. 1 \in 1 .. n /\ texts[1] = SubSeq(s, 1, e[1]) /\ e[1] \in 0 .. Len(s)
  <2>1. 1 \in 1 .. n
    BY <1>4
  <2>2. From(e, 1) = 0 /\ texts[1] = SubSeq(s, From(e, 1) + 1, e[1]) /\ e[1] \in 0 .. Len(s)
    BY <1>4, <2>1
  <2> QED BY <2>1, <2>2
<1>7. CASE n = 1
  <2>1. seqs = <<>>
    BY <1>7
  <2>2. FlattenSeq(seqs) = <<>>
    BY <2>1 DEF FlattenSeq
  <2>3. texts[1] = s
    BY <1>4, <1>5, <1>6, <1>7, SubSeqFull
  <2>4. texts[1] \o <<>> = s
    BY <1>4, <2>3, ConcatEmptySeq
  <2> QED BY <1>3, <2>2, <2>4 DEF s, texts
<1>8. CASE n # 1
  <2>1. l \in Nat \ {0} /\ Len(seqs) = l
    <3>1. l \in Nat \ {0}
      BY <1>4, <1>8
    <3> DEFINE S == {seqs[i] : i \in 1 .. l}
    <3>2. seqs \in [1 .. l -> S] /\ DOMAIN seqs = 1 .. l
      OBVIOUS
    <3> HIDE DEF seqs, S, l
    <3> QED BY <3>1, <3>2
  <2>2. c \in [0 .. l -> Nat] /\ (\A i \in 0 .. l : c[i] = e[i + 1] /\ c[i] <= Len(s))
    <3>1. \A i \in 0 .. l : i + 1 \in 1 .. n
      BY <1>4
    <3>2. \A i \in 1 .. n : e[i] \in Nat /\ e[i] <= Len(s)
      <4> DEFINE y == Len(s)
      <4>1. \A i \in 1 .. n : e[i] \in 0 .. y
        BY <1>4
      <4>2. y \in Nat
        BY <1>5
      <4> HIDE DEF y
      <4>3. \A i \in 1 .. n : e[i] \in Nat /\ e[i] <= y
        BY <4>1, <4>2
      <4> QED BY <4>3 DEF y
    <3> QED BY <3>1, <3>2
  <2>3. ASSUME NEW i \in 1 .. l
        PROVE  c[i - 1] <= c[i] /\ seqs[i] = SubSeq(s, c[i - 1] + 1, c[i])
    <3> DEFINE j == i + 1
               from == From(e, j)
               k == e[j]
               z == e[i]
               f == from + 1
               y == Len(s)
               b == B + 1
               d == k - f + 1
    <3>1. j \in 1 .. n /\ j > 1 /\ j - 1 = i /\ i - 1 \in 0 .. l /\ i \in 0 .. l /\ i - 1 + 1 = i
      BY <1>4
    <3>2. c[i - 1] = z /\ c[i] = k
      BY <2>2, <3>1
    <3>3. /\ from \in 0 .. k /\ k \in 0 .. y /\ texts[j] = SubSeq(s, f, k) /\ from + B = z
          /\ z + B < k /\ z \in Nat /\ y \in Nat /\ B \in Nat
      <4>1. e[j - 1] + B < e[j] /\ i \in 0 .. n
        BY <1>4, <1>5, <3>1
      <4>2. e[j - 1] = z /\ z \in Nat /\ B \in Nat /\ y \in Nat
        BY <1>4, <1>5, <3>1, <4>1
      <4>3. /\ from \in 0 .. k /\ k \in 0 .. y /\ texts[j] = SubSeq(s, f, k)
            /\ from + B = e[j - 1]
        BY <1>4, <3>1
      <4> HIDE DEF j, from, k, z, y, f
      <4>4. from + B = z
        BY <4>2, <4>3
      <4>5. z + B < k
        BY <4>1, <4>2 DEF k
      <4> QED BY <4>2, <4>3, <4>4, <4>5
    <3>4. seqs[i] = SubSeq(texts[j], b, Len(texts[j]))
      OBVIOUS
    <3> HIDE DEF j, from, k, z, y, c, seqs
    <3>5. /\ f \in 1 .. y /\ k \in 1 .. y /\ b \in 1 .. k - f + 1 /\ d \in 1 .. k - f + 1
          /\ f + b - 1 = z + 1 /\ f + d - 1 = k /\ f <= k /\ z <= k /\ f \in Int /\ k \in Int
      BY <3>3
    <3>6. Len(texts[j]) = d
      <4>1. \A x \in f .. k : s[x] \in Tokens
        <5>1. \A x \in 1 .. y : s[x] \in Tokens
          BY <1>4, LenProperties DEF y
        <5> QED BY <3>3, <3>5, <5>1
      <4> HIDE DEF f, d
      <4>2. Len(SubSeq(s, f, k)) = IF f <= k THEN k - f + 1 ELSE 0
        BY <3>5, <4>1, SubSeqProperties
      <4> QED BY <3>3, <3>5, <4>2 DEF d
    <3> HIDE DEF f, b, d
    <3>7. SubSeq(SubSeq(s, f, k), b, d) = SubSeq(s, f + b - 1, f + d - 1)
      BY <1>4, <3>5, SubSeqOfSubSeq DEF y
    <3> QED BY <3>2, <3>3, <3>4, <3>5, <3>6, <3>7
  <2> HIDE DEF c, seqs, l
  <2>4. FlattenSeq(seqs) = SubSeq(s, c[0] + 1, c[l])
    <3>1. \A i \in 1 .. l : c[i - 1] <= c[i] /\ seqs[i] = SubSeq(s, c[i - 1] + 1, c[i])
      BY <2>3
    <3>2. \A i \in 0 .. l : c[i] <= Len(s)
      BY <2>2
    <3>3. s \in Seq(Tokens) /\ l \in Nat \ {0} /\ c \in [0 .. l -> Nat] /\ Len(seqs) = l
      BY <1>4, <2>1, <2>2
    <3> QED BY <3>1, <3>2, <3>3, FlattenPieces
  <2>5. c[0] = e[1] /\ c[l] = Len(s)
    <3>1. 0 \in 0 .. l /\ l \in 0 .. l /\ 0 + 1 = 1 /\ l + 1 = n
      BY <1>4, <2>1 DEF l
    <3> QED BY <1>5, <2>2, <3>1
  <2>6. SubSeq(s, 1, e[1]) \o SubSeq(s, e[1] + 1, Len(s)) = SubSeq(s, 1, Len(s))
    <3> DEFINE k == e[1]
               y == Len(s)
    <3>1. k \in 0 .. y /\ y \in Nat
      BY <1>5, <1>6
    <3> HIDE DEF k, y
    <3>2. 1 \in 1 .. y + 1 /\ k \in 1 - 1 .. y /\ y \in k .. y
      BY <3>1
    <3>3. SubSeq(s, 1, k) \o SubSeq(s, k + 1, y) = SubSeq(s, 1, y)
      BY <1>4, <3>2, ConcatAdjacentSubSeq DEF y
    <3> QED BY <3>3 DEF k, y
  <2>7. SubSeq(s, 1, Len(s)) = s
    BY <1>4, SubSeqFull
  <2> QED BY <1>3, <1>6, <2>4, <2>5, <2>6, <2>7 DEF s, texts
<1> QED BY <1>7, <1>8

-----------------------------------------------------------------------------
(* The trees of a corpus *)

(* When a job is done, what its table counts of a context is what the tree of all     *)
(* segments counts; a token it did not meet is in none of them.                       *)
LEMMA TableCounts ==
  ASSUME IInv, phase = "done", job = ParseSegments, NEW corpus \in Corpora, NEW n \in Splits,
         source = Numbered(RowsOf(split_input(corpus, n, B), "segment")), NEW k, NEW c
  PROVE  SumOver({row \in DOMAIN tables[job.writes] : row[1] = k},
                 [row \in DOMAIN tables[job.writes] |-> Copies(c, row[2])])
           = Copies(c, WholeTree(corpus, n, k))
<1> DEFINE table == tables[job.writes]
           part == {row \in DOMAIN table : row[1] = k}
           count == [row \in DOMAIN table |-> Copies(c, row[2])]
           tree(l) == WholeTree(corpus, n, l)
<1>1. /\ job \in Jobs /\ SourceOK(job, source, todo) /\ CleanOK(job, source \ todo)
      /\ AccsAre(job, accs, source \ todo) /\ OutputOK(job, source, todo, accs, staged)
      /\ DoneOK(job, todo, accs, staged, tables) /\ Combines(job)
  BY JobFields DEF IInv, PhaseOK, Combines
<1>2. todo = {} /\ source \ todo = source /\ table = staged
  BY <1>1 DEF DoneOK
<1>3. Source(source) /\ \A e \in source : ~Process(ParseSegments, e[1]).raises
  BY <1>1, <1>2, SourceType DEF CleanOK
<1>4. \A l : ResultOf(ParseSegments, source, l) = tree(l)
  <2> TAKE l
  <2> QED BY <1>3, WholeIs
<1>5. table = SetToBag(AllRows(job, source, accs))
  <2> DEFINE j == job
             S == source
             A == accs
             out == staged
  <2>1. /\ Combines(j) /\ OutputOK(j, S, {}, A, out)
        /\ \A l \in DOMAIN A : \E row \in DOMAIN out : row[1] = l
    BY <1>1, <1>2 DEF DoneOK
  <2> HIDE DEF j, S, A, out, table
  <2>2. out = SetToBag(AllRows(j, S, A))
    BY <2>1, DoneRows
  <2> QED BY <1>2, <2>2 DEF j, S, A, out
<1>6. DOMAIN table = {<<l, tree(l)>> : l \in Keys}
  <2> HIDE DEF table
  <2>1. \A l : Row(job, l, ResultOf(job, source, l)) = <<l, tree(l)>>
    BY <1>4, JobFields DEF Row
  <2>2. AllRows(job, source, accs) = {<<l, tree(l)>> : l \in Keys}
    BY <2>1 DEF AllRows, Keys
  <2> HIDE DEF tree
  <2>3. DOMAIN table = AllRows(job, source, accs)
    BY <1>5 DEF SetToBag
  <2> QED BY <2>2, <2>3
<1>7. FiniteBag(tree(k)) /\ Copies(c, tree(k)) \in Nat
  <2>1. FiniteBag(tree(k))
    BY WholeCounts
  <2> HIDE DEF tree
  <2> QED BY <2>1, CopiesType
<1> HIDE DEF table, tree
<1>8. CASE k \in Keys
  <2> DEFINE row == <<k, tree(k)>>
  <2>1. part = {row} /\ count[row] = Copies(c, tree(k))
    BY <1>6, <1>8
  <2> HIDE DEF part, count, row
  <2>2. SumOver({row}, count) = count[row]
    BY <1>7, <2>1, SumSingle
  <2> QED BY <2>1, <2>2 DEF part, count, table, tree
<1>9. CASE k \notin Keys
  <2>1. part = {}
    BY <1>6, <1>9
  <2>2. SumOver(part, count) = 0
    BY <2>1, SumEmpty
  <2>3. EmittedBy(job, source, k) = {}
    BY <1>1, <1>2, <1>9 DEF AccsAre, Keys
  <2>4. HeldOf(job, source, k, c) = 0
    BY <2>3, NothingHeld
  <2>5. Copies(c, ResultOf(job, source, k)) = 0
    BY <1>1, <1>3, <2>4, ResultType
  <2> QED BY <1>4, <2>2, <2>5 DEF table, tree
<1> QED BY <1>8, <1>9

(* Every successor with a whole block before it is counted once in the trees of a     *)
(* corpus that was split and parsed, but the last token of each segment is not, and a *)
(* shorter context is counted no less often than the blocks it ends.  The segments    *)
(* put together are the corpus.                                                       *)
THEOREM SegmentsExactAlways == Spec => []SegmentsExact
<1>1. ASSUME IInv
      PROVE  SegmentsExact
  <2> SUFFICES ASSUME phase = "done", job = ParseSegments, NEW d \in Divisions,
                      source = Numbered(RowsOf(split_input(d[1], d[2], B), "segment"))
               PROVE  LET corpus == d[1]
                          n == d[2]
                          seams == {SegmentEnd(corpus, n, i) : i \in 1 .. n}
                          read == {i \in B + 1 .. Len(corpus) : i \notin seams}
                          blocks(p, t) == {i \in read : corpus[i] = t
                                             /\ p = SubSeq(corpus, i - Len(p), i - 1)}
                          count(p, t) == SumOver({row \in DOMAIN tables[job.writes] : row[1] = Last(p)},
                                                 [row \in DOMAIN tables[job.writes] |->
                                                    Copies(<<p, t>>, row[2])])
                      IN  /\ \A p \in Contexts, t \in Tokens :
                               /\ Len(p) = B => count(p, t) = Cardinality(blocks(p, t))
                               /\ count(p, t) >= Cardinality(blocks(p, t))
                          /\ merge_split_input(split_input(corpus, n, B), B) = corpus
    BY DEF SegmentsExact
  <2> DEFINE corpus == d[1]
             n == d[2]
  <2>1. /\ corpus \in Corpora /\ n \in Splits /\ Splittable(corpus, n, B)
        /\ source = Numbered(RowsOf(split_input(corpus, n, B), "segment"))
    BY DEF Divisions
  <2> HIDE DEF corpus, n
  <2> DEFINE seams == {SegmentEnd(corpus, n, i) : i \in 1 .. n}
             read == {i \in B + 1 .. Len(corpus) : i \notin seams}
             blocks(p, t) == {i \in read : corpus[i] = t /\ p = SubSeq(corpus, i - Len(p), i - 1)}
             count(p, t) == SumOver({row \in DOMAIN tables[job.writes] : row[1] = Last(p)},
                                    [row \in DOMAIN tables[job.writes] |-> Copies(<<p, t>>, row[2])])
             e == Ends(corpus, n)
  <2>2. n \in Splits /\ Splittable(corpus, n, B) /\ n \in Nat
    BY <2>1, BeamAssumption
  <2>3. read = ReadPlaces(corpus, e, n)
    <3>1. \A i \in 1 .. n : e[i] = SegmentEnd(corpus, n, i)
      BY <2>2 DEF Ends
    <3>2. seams = {e[i] : i \in 1 .. n}
      BY <3>1
    <3> HIDE DEF e, seams
    <3> QED BY <3>2 DEF ReadPlaces
  <2> HIDE DEF read
  <2>4. ASSUME NEW p \in Contexts, NEW t \in Tokens
        PROVE  /\ Len(p) = B => count(p, t) = Cardinality(blocks(p, t))
               /\ count(p, t) >= Cardinality(blocks(p, t))
    <3>1. blocks(p, t) = BlocksOf(corpus, e, n, p, t)
      BY <2>3 DEF BlocksOf
    <3>2. Len(p) \in 1 .. B /\ p # <<>>
      <4>1. p \in Seq(Tokens) /\ Len(p) <= B /\ p # <<>>
        BY PathFacts DEF Contexts
      <4>2. Len(p) \in Nat /\ Len(p) # 0
        BY <4>1, EmptySeq
      <4> QED BY <4>1, <4>2, BlockAssumption
    <3> DEFINE k == Last(p)
               c == <<p, t>>
    <3>3. count(p, t) = Copies(c, WholeTree(corpus, n, k))
      <4> HIDE DEF k, c
      <4>1. SumOver({row \in DOMAIN tables[job.writes] : row[1] = k},
                    [row \in DOMAIN tables[job.writes] |-> Copies(c, row[2])])
              = Copies(c, WholeTree(corpus, n, k))
        BY <1>1, <2>1, TableCounts
      <4> QED BY <4>1 DEF k, c
    <3> HIDE DEF blocks, count, e
    <3>4. /\ Copies(c, WholeTree(corpus, n, k)) >= Cardinality(BlocksOf(corpus, e, n, p, t))
          /\ Len(p) = B => Copies(c, WholeTree(corpus, n, k)) = Cardinality(BlocksOf(corpus, e, n, p, t))
      BY <2>1, <3>2, WholeTreeCounts DEF e
    <3> QED BY <3>1, <3>3, <3>4
  <2>5. merge_split_input(split_input(corpus, n, B), B) = corpus
    BY <2>1, MergedIsCorpus
  <2> HIDE DEF count, blocks
  <2> QED BY <2>4, <2>5 DEF count, blocks, read, corpus, n
<1> QED BY <1>1, SpecInv, PTL
=============================================================================
