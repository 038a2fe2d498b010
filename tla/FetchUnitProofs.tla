--------------------------- MODULE FetchUnitProofs ---------------------------
(* Proofs about FetchUnit for any sizes, history lengths and branches.      *)
EXTENDS FetchUnit, FiniteSetTheorems, WellFoundedInduction, TLAPS

(* ---- numbers ----------------------------------------------------------- *)
(* A set of numbers that is not empty has a least member.                   *)
LEMMA LeastMember ==
  ASSUME NEW T \in SUBSET Nat, T # {}
  PROVE  Min(T) \in T /\ \A k \in T : Min(T) <= k
<1>1. \E m \in T : \A k \in T : ~(<<k, m>> \in OpToRel(<, Nat))
  BY NatLessThanWellFounded, WFMin
<1>2. PICK m \in T : \A k \in T : ~(<<k, m>> \in OpToRel(<, Nat))
  BY <1>1
<1>3. ASSUME NEW k \in T PROVE m <= k
  <2>1. m \in Nat /\ k \in Nat
    OBVIOUS
  <2>2. ~(k < m)
    BY <1>2, <2>1 DEF OpToRel
  <2> QED BY <2>1, <2>2
<1> QED BY <1>3 DEF Min

(* A bounded one has a greatest member.                                     *)
LEMMA GreatestMember ==
  ASSUME NEW N \in Nat, NEW T \in SUBSET (0..N), T # {}
  PROVE  Max(T) \in T /\ \A k \in T : Max(T) >= k
<1> DEFINE U == {N - k : k \in T}
<1>1. U \in SUBSET Nat /\ U # {}
  <2>1. \A k \in T : N - k \in Nat
    OBVIOUS
  <2> QED BY <2>1
<1>2. Min(U) \in U /\ \A k \in U : Min(U) <= k
  <2> HIDE DEF U
  <2> QED BY <1>1, LeastMember
<1>3. PICK m \in T : Min(U) = N - m
  BY <1>2
<1>4. ASSUME NEW k \in T PROVE m >= k
  <2>1. N - k \in U
    OBVIOUS
  <2>2. N - m <= N - k
    BY <1>2, <1>3, <2>1
  <2>3. m \in Int /\ k \in Int
    OBVIOUS
  <2> QED BY <2>2, <2>3
<1> QED BY <1>4 DEF Max

LEMMA Division ==
  ASSUME NEW W \in Int, W > 0, NEW a \in Nat
  PROVE  a = W * (a \div W) + (a % W) /\ a \div W \in Nat /\ a % W \in 0..W - 1
OBVIOUS

LEMMA RemainderOf ==
  ASSUME NEW n \in Nat \ {0}, NEW z \in 0..n - 1, NEW s \in Int, NEW x, x = n * s + z
  PROVE  x % n = z
OBVIOUS

(* The class of the number before j.                                        *)
Before(j, width) == IF j = 0 THEN width - 1 ELSE j - 1

LEMMA NextRemainder ==
  ASSUME NEW width \in Nat \ {0}, NEW i \in Nat
  PROVE  (i + 1) % width = IF i % width = width - 1 THEN 0 ELSE (i % width) + 1
<1> DEFINE q == i \div width
           r == i % width
<1>1. i = width * q + r /\ q \in Nat /\ r \in 0..width - 1
  BY Division
<1> HIDE DEF q, r
<1>2. CASE r = width - 1
  <2>1. i + 1 = width * (q + 1) + 0
    BY <1>1, <1>2
  <2>2. (i + 1) % width = 0
    BY <1>1, <2>1, RemainderOf
  <2> QED BY <1>2, <2>2 DEF r
<1>3. CASE r # width - 1
  <2>1. i + 1 = width * q + (r + 1) /\ r + 1 \in 0..width - 1
    BY <1>1, <1>3
  <2>2. (i + 1) % width = r + 1
    BY <1>1, <2>1, RemainderOf
  <2> QED BY <1>3, <2>2 DEF r
<1> QED BY <1>2, <1>3

LEMMA PreviousClass ==
  ASSUME NEW width \in Nat \ {0}, NEW i \in Nat, NEW j \in 0..width - 1
  PROVE  i % width = Before(j, width) <=> (i + 1) % width = j
<1>1. i % width \in 0..width - 1
  BY Division
<1>2. (i + 1) % width = IF i % width = width - 1 THEN 0 ELSE (i % width) + 1
  BY NextRemainder
<1> DEFINE r == i % width
           n == (i + 1) % width
<1>3. r \in 0..width - 1 /\ n = IF r = width - 1 THEN 0 ELSE r + 1
  BY <1>1, <1>2
<1> HIDE DEF r, n
<1>4. r = Before(j, width) <=> n = j
  BY <1>3 DEF Before
<1> QED BY <1>4 DEF r, n

-----------------------------------------------------------------------------
(* ---- folded histories -------------------------------------------------- *)
(* The taken branches that one bit of a folded history stands for.          *)
Class(history, length, width, j) == {i \in history : i < length /\ i % width = j}

LEMMA ClassFinite ==
  ASSUME NEW history \in SUBSET Nat, NEW length \in Nat, NEW width, NEW j
  PROVE  /\ IsFiniteSet(Class(history, length, width, j))
         /\ Cardinality(Class(history, length, width, j)) \in Nat
<1>1. Class(history, length, width, j) \in SUBSET (0..length - 1)
  <2>1. \A i \in Nat : i < length => i \in 0..length - 1
    OBVIOUS
  <2> QED BY <2>1 DEF Class
<1>2. IsFiniteSet(0..length - 1)
  BY FS_Interval
<1> QED BY <1>1, <1>2, FS_Subset, FS_CardinalityType

LEMMA LeftFacts ==
  ASSUME NEW S \in SUBSET Nat, NEW n \in Nat
  PROVE  \A y : y \in Left(S, n) <=> y \in Nat /\ y >= n /\ y - n \in S
<1>1. ASSUME NEW y \in Left(S, n) PROVE y \in Nat /\ y >= n /\ y - n \in S
  <2>1. PICK i \in S : y = i + n
    BY DEF Left
  <2>2. i \in Nat /\ y - n = i
    BY <2>1
  <2> QED BY <2>1, <2>2
<1>2. ASSUME NEW y \in Nat, y >= n, y - n \in S PROVE y \in Left(S, n)
  <2>1. y = (y - n) + n
    OBVIOUS
  <2> QED BY <1>2, <2>1 DEF Left
<1> QED BY <1>1, <1>2

LEMMA NextHistory ==
  ASSUME NEW H \in SUBSET Nat, NEW first \in SUBSET {0}
  PROVE  Left(H, 1) \union first \in SUBSET Nat
<1>1. \A y \in Left(H, 1) : y \in Nat
  BY LeftFacts
<1>2. \A y \in first : y \in Nat
  OBVIOUS
<1> QED BY <1>1, <1>2

LEMMA ShiftedCount ==
  ASSUME NEW S, IsFiniteSet(S), S \in SUBSET Nat
  PROVE  IsFiniteSet(Left(S, 1)) /\ Cardinality(Left(S, 1)) = Cardinality(S)
<1> DEFINE f == [i \in S |-> i + 1]
<1>1. f \in Bijection(S, Left(S, 1))
  BY DEF Bijection, Injection, Surjection, Left, IsInjective
<1>2. ExistsBijection(S, Left(S, 1))
  BY <1>1 DEF ExistsBijection
<1> QED BY <1>2, FS_Bijection

(* What joins a class and what leaves it.                                   *)
Joins(first, j) == IF j = 0 THEN first ELSE {}
Leaves(G, length, width, j) == IF length \in G /\ length % width = j THEN {length} ELSE {}

(* One more branch: every class moves to the next, the branch joins class   *)
(* zero, and the one that reaches the length leaves.                        *)
LEMMA ClassStep ==
  ASSUME NEW H \in SUBSET Nat, NEW length \in Nat \ {0}, NEW width \in Nat \ {0},
         NEW first \in SUBSET {0}, NEW j \in 0..width - 1
  PROVE  Class(Left(H, 1) \union first, length, width, j)
           \union Leaves(Left(H, 1) \union first, length, width, j)
         = Left(Class(H, length, width, Before(j, width)), 1) \union Joins(first, j)
<1> DEFINE G == Left(H, 1) \union first
           old == Class(H, length, width, Before(j, width))
           new == Class(G, length, width, j)
           joins == Joins(first, j)
           leaves == Leaves(G, length, width, j)
<1> USE DEF Joins, Leaves
<1>0. \A y : y \in Left(H, 1) <=> y \in Nat /\ y >= 1 /\ y - 1 \in H
  BY LeftFacts
<1>1. ASSUME NEW x \in new \union leaves PROVE x \in Left(old, 1) \union joins
  <2>1. x \in G /\ x <= length /\ x % width = j /\ x \in Nat
    <3>1. G \in SUBSET Nat
      BY NextHistory
    <3>2. CASE x \in leaves
      <4>1. x = length /\ x \in G /\ x % width = j
        BY <3>2
      <4> QED BY <4>1
    <3>3. CASE x \in new
      <4>1. x \in G /\ x < length /\ x % width = j
        BY <3>3 DEF Class
      <4>2. x \in Nat
        BY <3>1, <4>1
      <4> HIDE DEF G
      <4> QED BY <4>1, <4>2
    <3> QED BY <1>1, <3>2, <3>3
  <2>2. CASE x = 0
    <3>1. x % width = 0
      <4>1. x = width * 0 + 0
        BY <2>2
      <4> QED BY <4>1, RemainderOf
    <3>2. x \in first
      BY <2>1, <2>2 DEF Left
    <3> QED BY <2>1, <3>1, <3>2
  <2>3. CASE x # 0
    <3>1. x - 1 \in H /\ x - 1 \in Nat /\ x - 1 < length
      BY <2>1, <2>3 DEF Left
    <3>2. (x - 1) % width = Before(j, width)
      <4>1. x - 1 + 1 = x
        BY <2>1
      <4> QED BY <2>1, <3>1, <4>1, PreviousClass
    <3>3. x - 1 \in old
      BY <3>1, <3>2 DEF Class
    <3>4. x = (x - 1) + 1
      BY <2>1
    <3> QED BY <3>3, <3>4 DEF Left
  <2> QED BY <2>2, <2>3
<1>2. ASSUME NEW x \in Left(old, 1) \union joins PROVE x \in new \union leaves
  <2>1. CASE x \in joins
    <3>1. x = 0 /\ j = 0 /\ x \in G
      BY <2>1
    <3>2. x % width = 0
      <4>1. x = width * 0 + 0
        BY <3>1
      <4> QED BY <4>1, RemainderOf
    <3> QED BY <3>1, <3>2 DEF Class
  <2>2. CASE x \in Left(old, 1)
    <3>1. PICK i \in old : x = i + 1
      BY <2>2 DEF Left
    <3>2. i \in H /\ i \in Nat /\ i < length /\ i % width = Before(j, width)
      BY <3>1 DEF Class
    <3>3. x % width = j
      BY <3>1, <3>2, PreviousClass
    <3>4. x \in G
      BY <3>1, <3>2 DEF Left
    <3>5. x = length \/ x < length
      BY <3>1, <3>2
    <3> QED BY <3>3, <3>4, <3>5 DEF Class
  <2> QED BY <1>2, <2>1, <2>2
<1> QED BY <1>1, <1>2

Odd(n) == n % 2 = 1

LEMMA OddNext ==
  ASSUME NEW n \in Nat
  PROVE  Odd(n + 1) <=> ~Odd(n)
BY DEF Odd

LEMMA OddUnion ==
  ASSUME NEW S, IsFiniteSet(S), NEW x, NEW T \in SUBSET {x}, x \notin S
  PROVE  Odd(Cardinality(S \union T)) <=> (Odd(Cardinality(S)) <=> T = {})
<1>1. T = {} \/ T = {x}
  OBVIOUS
<1>2. CASE T = {}
  <2>1. S \union T = S
    BY <1>2
  <2> QED BY <1>2, <2>1
<1>3. CASE T = {x}
  <2>1. Cardinality(S \union T) = Cardinality(S) + 1
    BY <1>3, FS_AddElement
  <2>2. Cardinality(S) \in Nat
    BY FS_CardinalityType
  <2>3. Odd(Cardinality(S) + 1) <=> ~Odd(Cardinality(S))
    BY <2>2, OddNext
  <2> QED BY <1>3, <2>1, <2>3
<1> QED BY <1>1, <1>2, <1>3

LEMMA ClassParity ==
  ASSUME NEW H \in SUBSET Nat, NEW length \in Nat \ {0}, NEW width \in Nat \ {0},
         NEW first \in SUBSET {0}, NEW j \in 0..width - 1
  PROVE  LET G == Left(H, 1) \union first IN
         (Odd(Cardinality(Class(G, length, width, j))) <=> ~(length \in G /\ length % width = j))
         <=> (Odd(Cardinality(Class(H, length, width, Before(j, width)))) <=> ~(j = 0 /\ first # {}))
<1> DEFINE G == Left(H, 1) \union first
           old == Class(H, length, width, Before(j, width))
           new == Class(G, length, width, j)
           joins == Joins(first, j)
           leaves == Leaves(G, length, width, j)
<1>1. new \union leaves = Left(old, 1) \union joins
  BY ClassStep
<1>2. G \in SUBSET Nat
  BY NextHistory
<1>3. IsFiniteSet(new) /\ length \notin new /\ leaves \in SUBSET {length}
  <2>1. IsFiniteSet(new)
    BY <1>2, ClassFinite
  <2>2. length \notin new
    BY DEF Class
  <2> QED BY <2>1, <2>2 DEF Leaves
<1>4. IsFiniteSet(old) /\ old \in SUBSET Nat
  <2>1. IsFiniteSet(old)
    BY ClassFinite
  <2>2. old \in SUBSET Nat
    BY DEF Class
  <2> QED BY <2>1, <2>2
<1>5. IsFiniteSet(Left(old, 1)) /\ 0 \notin Left(old, 1) /\ joins \in SUBSET {0}
  <2>1. IsFiniteSet(Left(old, 1))
    BY <1>4, ShiftedCount
  <2>2. 0 \notin Left(old, 1)
    BY <1>4 DEF Left
  <2> QED BY <2>1, <2>2 DEF Joins
<1>6. Cardinality(Left(old, 1)) = Cardinality(old)
  BY <1>4, ShiftedCount
<1>7. leaves = {} <=> ~(length \in G /\ length % width = j)
  BY DEF Leaves
<1>8. joins = {} <=> ~(j = 0 /\ first # {})
  BY DEF Joins
<1> HIDE DEF old, new, joins, leaves
<1>9. Odd(Cardinality(new \union leaves)) <=> (Odd(Cardinality(new)) <=> leaves = {})
  BY <1>3, OddUnion
<1>10. Odd(Cardinality(Left(old, 1) \union joins)) <=> (Odd(Cardinality(old)) <=> joins = {})
  BY <1>5, <1>6, OddUnion
<1>11. (Odd(Cardinality(new)) <=> leaves = {}) <=> (Odd(Cardinality(old)) <=> joins = {})
  BY <1>1, <1>9, <1>10
<1> QED BY <1>7, <1>8, <1>11 DEF old, new
(* The bits of the register before it is folded.                            *)
Shifted(comp, width, length, ghist) ==
  Xor(Left(comp, 1) \union Lowest(ghist), IF length \in ghist THEN {length % width} ELSE {})

LEMMA XorFacts ==
  ASSUME NEW S, NEW T, NEW x
  PROVE  x \in Xor(S, T) <=> ~(x \in S <=> x \in T)
BY DEF Xor, SymDiff

LEMMA RightFacts ==
  ASSUME NEW S, \A x \in S : x \in Nat, NEW n \in Nat, NEW y \in Nat
  PROVE  y \in Right(S, n) <=> y + n \in S
<1>1. ASSUME y \in Right(S, n) PROVE y + n \in S
  <2>1. PICK i \in S : i >= n /\ y = i - n
    BY <1>1 DEF Right
  <2>2. y + n = i
    BY <2>1
  <2> QED BY <2>1, <2>2
<1>2. ASSUME y + n \in S PROVE y \in Right(S, n)
  <2>1. y + n >= n /\ y = (y + n) - n
    OBVIOUS
  <2> QED BY <1>2, <2>1 DEF Right
<1> QED BY <1>1, <1>2

LEMMA ShiftedFacts ==
  ASSUME NEW width \in Nat \ {0}, NEW length \in Nat \ {0}, NEW comp \in SUBSET (0..width - 1),
         NEW ghist \in SUBSET Nat
  PROVE  /\ \A x \in Shifted(comp, width, length, ghist) : x \in Nat
         /\ \A j \in Nat : j \in Shifted(comp, width, length, ghist) <=>
              ~(((j >= 1 /\ j - 1 \in comp) \/ (j = 0 /\ 0 \in ghist))
                <=> (length \in ghist /\ j = length % width))
<1> DEFINE low == Left(comp, 1) \union Lowest(ghist)
           out == IF length \in ghist THEN {length % width} ELSE {}
<1>1. length % width \in 0..width - 1
  BY Division
<1>2. comp \in SUBSET Nat
  OBVIOUS
<1>3. \A y : y \in Left(comp, 1) <=> y \in Nat /\ y >= 1 /\ y - 1 \in comp
  BY <1>2, LeftFacts
<1>4. \A y : y \in Lowest(ghist) <=> y = 0 /\ 0 \in ghist
  BY DEF Lowest
<1>5. \A y : y \in low <=> y \in Left(comp, 1) \/ y \in Lowest(ghist)
  OBVIOUS
<1>6. \A y : y \in out <=> length \in ghist /\ y = length % width
  OBVIOUS
<1>7. \A y : y \in Shifted(comp, width, length, ghist) <=> ~(y \in low <=> y \in out)
  BY XorFacts DEF Shifted
<1> HIDE DEF low, out
<1>8. ASSUME NEW x \in Shifted(comp, width, length, ghist) PROVE x \in Nat
  BY <1>1, <1>3, <1>4, <1>5, <1>6, <1>7, <1>8
<1>9. ASSUME NEW j \in Nat
      PROVE  j \in Shifted(comp, width, length, ghist) <=>
              ~(((j >= 1 /\ j - 1 \in comp) \/ (j = 0 /\ 0 \in ghist))
                <=> (length \in ghist /\ j = length % width))
  <2>1. j \in low <=> ((j >= 1 /\ j - 1 \in comp) \/ (j = 0 /\ 0 \in ghist))
    BY <1>3, <1>4, <1>5
  <2>2. j \in out <=> (length \in ghist /\ j = length % width)
    BY <1>6
  <2> QED BY <1>7, <2>1, <2>2
<1> QED BY <1>8, <1>9

(* A bit of the new register: the one below it, in a circle, with the new   *)
(* outcome and the one that leaves.                                         *)
LEMMA FoldedBit ==
  ASSUME NEW width \in Nat \ {0}, NEW length \in Nat \ {0}, NEW comp \in SUBSET (0..width - 1),
         NEW ghist \in SUBSET Nat, NEW j \in 0..width - 1
  PROVE  (j \in Folded(comp, width, length, ghist) <=> ~(length \in ghist /\ length % width = j))
         <=> (Before(j, width) \in comp <=> ~(j = 0 /\ 0 \in ghist))
<1> DEFINE shifted == Shifted(comp, width, length, ghist)
           leaves == length \in ghist /\ length % width = j
<1>1. /\ \A x \in shifted : x \in Nat
      /\ \A i \in Nat : i \in shifted <=>
              ~(((i >= 1 /\ i - 1 \in comp) \/ (i = 0 /\ 0 \in ghist))
                <=> (length \in ghist /\ i = length % width))
  BY ShiftedFacts
<1>2. j \in Folded(comp, width, length, ghist) <=> ~(j \in shifted <=> j \in Right(shifted, width))
  BY XorFacts DEF Folded, Shifted, Positions
<1>3. j \in Nat /\ j + width \in Nat /\ width \in Nat /\ length % width \in 0..width - 1
  BY Division
<1>4. j \in Right(shifted, width) <=> j + width \in shifted
  <2> HIDE DEF shifted
  <2> QED BY <1>1, <1>3, RightFacts
<1>5. j \in shifted <=> ~(((j >= 1 /\ j - 1 \in comp) \/ (j = 0 /\ 0 \in ghist)) <=> leaves)
  BY <1>1, <1>3
<1>6. j + width \in shifted <=> j = 0 /\ width - 1 \in comp
  <2> DEFINE i == j + width
  <2>1. i \in Nat /\ i >= 1 /\ i # 0 /\ i # length % width
    BY <1>3
  <2>2. i - 1 \in comp <=> j = 0 /\ width - 1 \in comp
    <3>1. CASE j = 0
      <4>1. i - 1 = width - 1
        BY <3>1
      <4> QED BY <3>1, <4>1
    <3>2. CASE j # 0
      <4>1. i - 1 \notin 0..width - 1
        BY <3>2
      <4> QED BY <3>2, <4>1
    <3> QED BY <3>1, <3>2
  <2>3. i \in shifted <=> i - 1 \in comp
    <3> HIDE DEF i, shifted
    <3>1. i \in shifted <=>
              ~(((i >= 1 /\ i - 1 \in comp) \/ (i = 0 /\ 0 \in ghist))
                <=> (length \in ghist /\ i = length % width))
      BY <1>1, <2>1
    <3> QED BY <2>1, <3>1
  <2> QED BY <2>2, <2>3
<1> HIDE DEF shifted, leaves
<1>7. CASE j = 0
  <2>1. Before(j, width) = width - 1
    BY <1>7 DEF Before
  <2>2. j \in shifted <=> ~(0 \in ghist <=> leaves)
    BY <1>5, <1>7
  <2>3. j \in Right(shifted, width) <=> Before(j, width) \in comp
    BY <1>4, <1>6, <1>7, <2>1
  <2> QED BY <1>2, <1>7, <2>2, <2>3 DEF leaves
<1>8. CASE j # 0
  <2>1. Before(j, width) = j - 1 /\ j >= 1
    BY <1>8 DEF Before
  <2>2. j \in shifted <=> ~(Before(j, width) \in comp <=> leaves)
    <3>1. ((j >= 1 /\ j - 1 \in comp) \/ (j = 0 /\ 0 \in ghist)) <=> Before(j, width) \in comp
      BY <1>8, <2>1
    <3> QED BY <1>5, <3>1
  <2>3. j \notin Right(shifted, width)
    BY <1>4, <1>6, <1>8
  <2> QED BY <1>2, <1>8, <2>2, <2>3 DEF leaves
<1> QED BY <1>7, <1>8

(* History G, cut to the register ghist, follows H.                         *)
Follows(H, first, size, G, ghist) ==
  /\ H \in SUBSET Nat /\ first \in SUBSET {0} /\ size \in Nat
  /\ G = Left(H, 1) \union first /\ ghist = G \intersect Positions(size)

(* A folded history stays the history folded.                               *)
LEMMA FoldedStep ==
  ASSUME NEW H, NEW first, NEW size, NEW G, NEW ghist, Follows(H, first, size, G, ghist),
         NEW length \in Nat \ {0}, NEW width \in Nat \ {0}, length < size
  PROVE  Folded(FoldOf(H, length, width), width, length, ghist) = FoldOf(G, length, width)
<1> DEFINE comp == FoldOf(H, length, width)
           new == Folded(comp, width, length, ghist)
<1>0. /\ H \in SUBSET Nat /\ first \in SUBSET {0} /\ size \in Nat
      /\ G = Left(H, 1) \union first /\ ghist = G \intersect Positions(size)
  BY DEF Follows
<1> USE <1>0
<1>1. comp \in SUBSET (0..width - 1) /\ FoldOf(G, length, width) \in SUBSET (0..width - 1)
  BY DEF FoldOf, Positions
<1>2. new \in SUBSET (0..width - 1)
  BY DEF Folded, Positions
<1>3. G \in SUBSET Nat
  BY NextHistory
<1>4. ghist \in SUBSET Nat
  BY <1>3
<1>5. /\ length \in ghist <=> length \in G
      /\ 0 \in ghist <=> first # {}
  <2>1. length \in Positions(size) /\ 0 \in Positions(size)
    BY DEF Positions
  <2>2. 0 \in G <=> first # {}
    <3>1. 0 \notin Left(H, 1)
      BY LeftFacts
    <3> QED BY <3>1
  <2> QED BY <2>1, <2>2
<1>6. ASSUME NEW j \in 0..width - 1 PROVE j \in new <=> j \in FoldOf(G, length, width)
  <2> HIDE DEF comp, new
  <2>1. (j \in new <=> ~(length \in ghist /\ length % width = j))
        <=> (Before(j, width) \in comp <=> ~(j = 0 /\ 0 \in ghist))
    BY <1>1, <1>4, FoldedBit DEF new
  <2>2. (Odd(Cardinality(Class(G, length, width, j))) <=> ~(length \in G /\ length % width = j))
        <=> (Odd(Cardinality(Class(H, length, width, Before(j, width)))) <=> ~(j = 0 /\ first # {}))
    BY ClassParity
  <2>3. Before(j, width) \in 0..width - 1
    BY DEF Before
  <2>4. Before(j, width) \in comp <=> Odd(Cardinality(Class(H, length, width, Before(j, width))))
    BY <2>3 DEF comp, FoldOf, Class, Odd, Positions
  <2>5. j \in FoldOf(G, length, width) <=> Odd(Cardinality(Class(G, length, width, j)))
    BY DEF FoldOf, Class, Odd, Positions
  <2> QED BY <1>5, <2>1, <2>2, <2>4, <2>5
<1> HIDE DEF new
<1>7. new = FoldOf(G, length, width)
  BY <1>1, <1>2, <1>6
<1> QED BY <1>7 DEF new

-----------------------------------------------------------------------------
(* ---- the ages of branches ---------------------------------------------- *)
AgeIn(R, n) == Cardinality({m \in R : m > n})
Ages(R, S) == {AgeIn(R, n) : n \in S}

LEMMA AgesAre ==
  /\ Outcomes = Ages(Recorded, {m \in Recorded : log[m].branch.taken})
  /\ Path = Ages(Recorded, {m \in Recorded :
                   Bits(log[m].branch.pc \div 4, WordBits) \intersect {0} # {}})
BY DEF Outcomes, Path, Age, Ages, AgeIn

LEMMA AgeFacts ==
  ASSUME NEW N \in Nat, NEW R \in SUBSET (1..N), NEW n
  PROVE  IsFiniteSet({m \in R : m > n}) /\ AgeIn(R, n) \in Nat
<1>1. IsFiniteSet(1..N)
  BY FS_Interval
<1>2. {m \in R : m > n} \in SUBSET (1..N)
  OBVIOUS
<1> QED BY <1>1, <1>2, FS_Subset, FS_CardinalityType DEF AgeIn

LEMMA AgesNatural ==
  ASSUME NEW N \in Nat, NEW R \in SUBSET (1..N), NEW S \in SUBSET R
  PROVE  Ages(R, S) \in SUBSET Nat
<1>1. \A n \in S : AgeIn(R, n) \in Nat
  BY AgeFacts
<1> QED BY <1>1 DEF Ages

(* One more branch makes all others a branch older.                         *)
LEMMA AgesStep ==
  ASSUME NEW N \in Nat, NEW R \in SUBSET (1..N), NEW S \in SUBSET R
  PROVE  /\ Ages(R \union {N + 1}, S) = Left(Ages(R, S), 1)
         /\ Ages(R \union {N + 1}, S \union {N + 1}) = Left(Ages(R, S), 1) \union {0}
<1> DEFINE Q == R \union {N + 1}
<1>1. ASSUME NEW n \in S PROVE AgeIn(Q, n) = AgeIn(R, n) + 1
  <2>1. {m \in Q : m > n} = {m \in R : m > n} \union {N + 1}
    OBVIOUS
  <2>2. N + 1 \notin {m \in R : m > n}
    OBVIOUS
  <2>3. IsFiniteSet({m \in R : m > n})
    BY AgeFacts
  <2> HIDE DEF Q
  <2> QED BY <2>1, <2>2, <2>3, FS_AddElement DEF AgeIn
<1>2. AgeIn(Q, N + 1) = 0
  <2>1. {m \in Q : m > N + 1} = {}
    <3>1. \A m \in R : ~(m > N + 1)
      OBVIOUS
    <3>2. ~(N + 1 > N + 1)
      OBVIOUS
    <3> QED BY <3>1, <3>2
  <2> QED BY <2>1, FS_EmptySet DEF AgeIn
<1>3. Ages(Q, S) = Left(Ages(R, S), 1)
  <2>1. ASSUME NEW x \in Ages(Q, S) PROVE x \in Left(Ages(R, S), 1)
    <3>1. PICK n \in S : x = AgeIn(Q, n)
      BY <2>1 DEF Ages
    <3>2. x = AgeIn(R, n) + 1 /\ AgeIn(R, n) \in Ages(R, S)
      BY <1>1, <3>1 DEF Ages
    <3> QED BY <3>2 DEF Left
  <2>2. ASSUME NEW x \in Left(Ages(R, S), 1) PROVE x \in Ages(Q, S)
    <3>1. PICK i \in Ages(R, S) : x = i + 1
      BY <2>2 DEF Left
    <3>2. PICK n \in S : i = AgeIn(R, n)
      BY <3>1 DEF Ages
    <3>3. x = AgeIn(Q, n)
      BY <1>1, <3>1, <3>2
    <3> QED BY <3>3 DEF Ages
  <2> QED BY <2>1, <2>2
<1>4. Ages(Q, S \union {N + 1}) = Ages(Q, S) \union {AgeIn(Q, N + 1)}
  BY DEF Ages
<1> QED BY <1>2, <1>3, <1>4

(* What one more branch is to the recorded ones.                            *)
Records(r) == r.known = "Conditional" => r.branch.type = "Conditional"
Odds(pc) == Bits(pc \div 4, WordBits) \intersect {0} # {}

LEMMA RecordedStep ==
  ASSUME log \in Seq([branch : Branch, known : KnownTypes, met : BOOLEAN]),
         NEW r \in [branch : Branch, known : KnownTypes, met : BOOLEAN],
         log' = Append(log, r)
  PROVE  /\ Records(r) =>
              /\ Outcomes' = Left(Outcomes, 1) \union (IF r.branch.taken THEN {0} ELSE {})
              /\ Path' = Left(Path, 1) \union Lowest(Bits(r.branch.pc \div 4, WordBits))
         /\ ~Records(r) => Outcomes' = Outcomes /\ Path' = Path
<1> DEFINE N == Len(log)
           R == Recorded
           T == {m \in Recorded : log[m].branch.taken}
           P == {m \in Recorded : Odds(log[m].branch.pc)}
<1>1. /\ N \in Nat /\ DOMAIN log = 1..N /\ DOMAIN log' = 1..N + 1
      /\ \A n \in 1..N : log'[n] = log[n]
      /\ log'[N + 1] = r
  OBVIOUS
<1>2. R = {n \in 1..N : Records(log[n])} /\ Recorded' = {n \in 1..N + 1 : Records(log'[n])}
  BY <1>1 DEF Recorded, Records
<1>3. Recorded' = IF Records(r) THEN R \union {N + 1} ELSE R
  <2>1. 1..N + 1 = 1..N \union {N + 1} /\ N + 1 \notin 1..N
    BY <1>1
  <2> QED BY <1>1, <1>2, <2>1
<1>4. R \in SUBSET (1..N) /\ T \in SUBSET R /\ P \in SUBSET R
  BY <1>2
<1>5. /\ Outcomes = Ages(R, T) /\ Path = Ages(R, P)
      /\ Outcomes' = Ages(Recorded', {m \in Recorded' : log'[m].branch.taken})
      /\ Path' = Ages(Recorded', {m \in Recorded' : Odds(log'[m].branch.pc)})
  BY DEF Outcomes, Path, Age, Ages, AgeIn, Odds
<1>6. CASE Records(r)
  <2>1. {m \in Recorded' : log'[m].branch.taken} = IF r.branch.taken THEN T \union {N + 1} ELSE T
    BY <1>1, <1>3, <1>4, <1>6
  <2>2. {m \in Recorded' : Odds(log'[m].branch.pc)}
          = IF Odds(r.branch.pc) THEN P \union {N + 1} ELSE P
    BY <1>1, <1>3, <1>4, <1>6
  <2>3. r.branch.taken \in BOOLEAN /\ Odds(r.branch.pc) \in BOOLEAN
    BY DEF Branch, Odds
  <2>4. Lowest(Bits(r.branch.pc \div 4, WordBits)) = IF Odds(r.branch.pc) THEN {0} ELSE {}
    BY DEF Lowest, Odds
  <2> HIDE DEF N, R, T, P
  <2>5. Outcomes' = Left(Ages(R, T), 1) \union (IF r.branch.taken THEN {0} ELSE {})
    <3>1. /\ Ages(R \union {N + 1}, T) = Left(Ages(R, T), 1)
          /\ Ages(R \union {N + 1}, T \union {N + 1}) = Left(Ages(R, T), 1) \union {0}
      BY <1>1, <1>4, AgesStep
    <3> QED BY <1>3, <1>5, <1>6, <2>1, <3>1
  <2>6. Path' = Left(Ages(R, P), 1) \union (IF Odds(r.branch.pc) THEN {0} ELSE {})
    <3>1. /\ Ages(R \union {N + 1}, P) = Left(Ages(R, P), 1)
          /\ Ages(R \union {N + 1}, P \union {N + 1}) = Left(Ages(R, P), 1) \union {0}
      BY <1>1, <1>4, AgesStep
    <3> QED BY <1>3, <1>5, <1>6, <2>2, <3>1
  <2> QED BY <1>5, <1>6, <2>4, <2>5, <2>6
<1>7. CASE ~Records(r)
  <2>1. {m \in Recorded' : log'[m].branch.taken} = T /\ {m \in Recorded' : Odds(log'[m].branch.pc)} = P
    BY <1>1, <1>3, <1>4, <1>7
  <2> QED BY <1>3, <1>5, <1>7, <2>1
<1> QED BY <1>6, <1>7

LEMMA AgesTyped ==
  ASSUME log \in Seq([branch : Branch, known : KnownTypes, met : BOOLEAN])
  PROVE  Outcomes \in SUBSET Nat /\ Path \in SUBSET Nat
<1>1. Len(log) \in Nat /\ Recorded \in SUBSET (1..Len(log))
  BY DEF Recorded
<1> QED BY <1>1, AgesAre, AgesNatural

-----------------------------------------------------------------------------
(* ---- the TAGE predictor ------------------------------------------------ *)
Half == 2^(CBITS - 1)
Index == SUBSET Positions(LOGG)
Cell == [ctr : -Half..Half - 1, tag : SUBSET Positions(TBITS), ubit : 0..3]
GlobalTable == [Bank -> [Index -> Cell]]
BimodalTable == [SUBSET Positions(LOGB) -> [pred : {0, 1}, hyst : {0, 1}]]
Prediction == [bank : 0..NHIST, result : BOOLEAN, alternate : BOOLEAN]

LEMMA TageTypeIs ==
  TageType =
    [tick : Nat, seed : 0..2^(2 * NHIST) - 1,
     phist : SUBSET Positions(16), ghist : SUBSET Positions(MAXHIST),
     comp : [Folds -> [Bank -> SUBSET Nat]], btable : BimodalTable, gtable : GlobalTable]
BY DEF TageType, BimodalTable, GlobalTable, Cell, Index, Half

LEMMA Sizes ==
  /\ NHIST \in Nat \ {0} /\ LOGG \in Nat \ {0} /\ LOGB \in Nat \ {0} /\ TBITS \in Nat \ {0}
  /\ WordBits \in Nat \ {0} /\ BtbSets \in Nat \ {0} /\ BtbWays \in Nat \ {0}
  /\ RasDepth \in Nat \ {0} /\ CBITS \in Nat \ {0} /\ MAXHIST \in Nat
  /\ Half \in Int /\ Half > 0
  /\ Bank \in SUBSET Nat
BY WidthsAssumption, PowersAssumption DEF Half, Bank

LEMMA MinPair ==
  ASSUME NEW a \in Int, NEW b \in Int
  PROVE  /\ Min({a, b}) = IF a <= b THEN a ELSE b
         /\ Max({a, b}) = IF a >= b THEN a ELSE b
<1>1. Min({a, b}) = IF a <= b THEN a ELSE b
  BY DEF Min
<1>2. Max({a, b}) = IF a >= b THEN a ELSE b
  BY DEF Max
<1> QED BY <1>1, <1>2

LEMMA IndexTypes ==
  ASSUME NEW t, NEW pc, NEW bank
  PROVE  GIndex(t, pc, bank) \in Index /\ BIndex(pc) \in SUBSET Positions(LOGB)
BY DEF GIndex, BIndex, Index

LEMMA TagTypes ==
  ASSUME NEW t, NEW pc, NEW bank \in Bank
  PROVE  GTag(t, pc, bank) \in SUBSET Positions(TBITS)
<1>1. (bank + (NHIST % 2)) \div 2 \in Nat
  <2>1. bank \in Nat /\ NHIST % 2 \in Nat
    BY Sizes, Division
  <2> QED BY <2>1, Division
<1>2. TagWidth(bank) \in Int /\ TagWidth(bank) <= TBITS
  BY <1>1, Sizes DEF TagWidth
<1>3. Positions(TagWidth(bank)) \in SUBSET Positions(TBITS)
  BY <1>2, Sizes DEF Positions
<1> QED BY <1>3 DEF GTag

LEMMA EntryTypes ==
  ASSUME NEW t \in TageType, NEW pc, NEW bank \in Bank
  PROVE  /\ Entry(t, pc, bank) \in Cell
         /\ Entry(t, pc, bank) = t.gtable[bank][GIndex(t, pc, bank)]
BY TageTypeIs, IndexTypes DEF Entry, GlobalTable

LEMMA PredictTypes ==
  ASSUME NEW t \in TageType, NEW pc
  PROVE  Predict(t, pc) \in Prediction
<1> DEFINE hits == HitBanks(t, pc)
           bank == Min(hits \union {NHIST})
           alternate == Min((hits \ {bank}) \union {NHIST})
<1>1. hits \in SUBSET Bank
  BY DEF HitBanks
<1>2. NHIST \in Nat /\ \A x \in Bank \union {NHIST} : x \in 0..NHIST
  BY Sizes DEF Bank
<1>3. ASSUME NEW S \in SUBSET Bank PROVE Min(S \union {NHIST}) \in 0..NHIST
  <2>1. S \union {NHIST} \in SUBSET Nat /\ S \union {NHIST} # {}
    BY <1>2, Sizes
  <2>2. Min(S \union {NHIST}) \in S \union {NHIST}
    BY <2>1, LeastMember
  <2> QED BY <1>2, <2>2
<1>4. bank \in 0..NHIST /\ alternate \in 0..NHIST
  <2>1. hits \ {bank} \in SUBSET Bank
    BY <1>1
  <2> HIDE DEF hits, bank
  <2> QED BY <1>1, <1>3, <2>1 DEF bank
<1>5. ASSUME NEW x \in 0..NHIST PROVE PredictedBy(t, pc, x) \in BOOLEAN
  <2>1. CASE x = NHIST
    <3>1. t.btable[BIndex(pc)].pred \in Int
      <4>1. t.btable \in BimodalTable /\ BIndex(pc) \in SUBSET Positions(LOGB)
        BY IndexTypes, TageTypeIs
      <4>2. t.btable[BIndex(pc)] \in [pred : {0, 1}, hyst : {0, 1}]
        BY <4>1 DEF BimodalTable
      <4> QED BY <4>2
    <3> QED BY <2>1, <3>1 DEF PredictedBy
  <2>2. CASE x # NHIST
    <3>1. x \in Bank
      BY <2>2, Sizes DEF Bank
    <3>2. Entry(t, pc, x).ctr \in Int
      BY <3>1, EntryTypes, Sizes DEF Cell
    <3> QED BY <2>2, <3>2 DEF PredictedBy
  <2> QED BY <2>1, <2>2
<1> HIDE DEF hits, bank, alternate
<1>6. Predict(t, pc) = [bank |-> bank, result |-> PredictedBy(t, pc, bank),
                        alternate |-> PredictedBy(t, pc, alternate)]
  BY DEF Predict, hits, bank, alternate
<1> QED BY <1>4, <1>5, <1>6 DEF Prediction

(* ---- training: what each step keeps ------------------------------------ *)
SameHistory(t, u) == u.comp = t.comp /\ u.ghist = t.ghist /\ u.phist = t.phist

LEMMA TrainTypes ==
  ASSUME NEW t \in TageType, NEW taken \in BOOLEAN
  PROVE  /\ \A c \in -Half..Half - 1 : CtrUpdated(c, taken) \in -Half..Half - 1
         /\ \A u \in 0..3 : \A right \in BOOLEAN : UbitUpdated(u, right) \in 0..3
         /\ \A u \in 0..3 : \A tick \in Nat : Kept(u, tick) \in 0..3
<1>1. ASSUME NEW c \in -Half..Half - 1 PROVE CtrUpdated(c, taken) \in -Half..Half - 1
  <2>1. c + 1 \in Int /\ Half - 1 \in Int /\ c - 1 \in Int /\ -Half \in Int /\ c \in Int
    BY Sizes
  <2>2. /\ Min({c + 1, Half - 1}) = IF c + 1 <= Half - 1 THEN c + 1 ELSE Half - 1
        /\ Max({c - 1, -Half}) = IF c - 1 >= -Half THEN c - 1 ELSE -Half
    BY <2>1, MinPair
  <2>3. CtrUpdated(c, taken) = IF taken THEN Min({c + 1, Half - 1}) ELSE Max({c - 1, -Half})
    BY DEF CtrUpdated, Half
  <2>4. CASE taken
    <3>1. CtrUpdated(c, taken) = IF c + 1 <= Half - 1 THEN c + 1 ELSE Half - 1
      BY <2>2, <2>3, <2>4
    <3> QED BY <2>1, <3>1, Sizes
  <2>5. CASE ~taken
    <3>1. CtrUpdated(c, taken) = IF c - 1 >= -Half THEN c - 1 ELSE -Half
      BY <2>2, <2>3, <2>5
    <3> QED BY <2>1, <3>1, Sizes
  <2> QED BY <2>4, <2>5
<1>2. ASSUME NEW u \in 0..3, NEW right \in BOOLEAN PROVE UbitUpdated(u, right) \in 0..3
  <2>1. /\ Min({u + 1, 3}) = IF u + 1 <= 3 THEN u + 1 ELSE 3
        /\ Max({u - 1, 0}) = IF u - 1 >= 0 THEN u - 1 ELSE 0
    <3>1. u + 1 \in Int /\ u - 1 \in Int /\ 3 \in Int /\ 0 \in Int
      OBVIOUS
    <3> QED BY <3>1, MinPair
  <2>2. CASE right
    <3>1. UbitUpdated(u, right) = IF u + 1 <= 3 THEN u + 1 ELSE 3
      BY <2>1, <2>2 DEF UbitUpdated
    <3> QED BY <3>1
  <2>3. CASE ~right
    <3>1. UbitUpdated(u, right) = IF u - 1 >= 0 THEN u - 1 ELSE 0
      BY <2>1, <2>3 DEF UbitUpdated
    <3> QED BY <3>1
  <2> QED BY <2>2, <2>3
<1>3. ASSUME NEW u \in 0..3, NEW tick \in Nat PROVE Kept(u, tick) \in 0..3
  <2>1. u % 2 \in 0..1 /\ u % 2 <= u
    <3>1. u = 0 \/ u = 1 \/ u = 2 \/ u = 3
      OBVIOUS
    <3> QED BY <3>1
  <2>2. Kept(u, tick) = u % 2 \/ Kept(u, tick) = u - (u % 2)
    BY DEF Kept
  <2> QED BY <2>1, <2>2
<1> QED BY <1>1, <1>2, <1>3

LEMMA BimodalTypes ==
  ASSUME NEW e \in [pred : {0, 1}, hyst : {0, 1}], NEW taken \in BOOLEAN
  PROVE  Bimodal(e, taken) \in [pred : {0, 1}, hyst : {0, 1}]
<1> DEFINE up == Min({2 * e.pred + e.hyst + 1, 3})
           down == Max({2 * e.pred + e.hyst - 1, 0})
           inter == IF taken THEN up ELSE down
<1>1. up \in 0..3 /\ down \in 0..3
  <2>1. e.pred \in 0..1 /\ e.hyst \in 0..1
    OBVIOUS
  <2>2. 2 * e.pred + e.hyst + 1 \in 0..4 /\ 2 * e.pred + e.hyst - 1 \in -1..2
    BY <2>1
  <2>3. /\ up = IF 2 * e.pred + e.hyst + 1 <= 3 THEN 2 * e.pred + e.hyst + 1 ELSE 3
        /\ down = IF 2 * e.pred + e.hyst - 1 >= 0 THEN 2 * e.pred + e.hyst - 1 ELSE 0
    <3> DEFINE a == 2 * e.pred + e.hyst + 1
               b == 2 * e.pred + e.hyst - 1
    <3>1. a \in Int /\ b \in Int /\ 3 \in Int /\ 0 \in Int
      BY <2>2
    <3> HIDE DEF a, b
    <3>2. /\ Min({a, 3}) = IF a <= 3 THEN a ELSE 3
          /\ Max({b, 0}) = IF b >= 0 THEN b ELSE 0
      BY <3>1, MinPair
    <3> QED BY <3>2 DEF a, b
  <2> QED BY <2>2, <2>3
<1>2. \A x \in 0..3 : x \div 2 \in {0, 1} /\ x % 2 \in {0, 1}
  OBVIOUS
<1>3. inter \in 0..3
  BY <1>1
<1> HIDE DEF inter
<1>4. inter \div 2 \in {0, 1} /\ inter % 2 \in {0, 1}
  BY <1>2, <1>3
<1>5. CASE (e.pred > 0) = taken
  <2>1. Bimodal(e, taken) = [e EXCEPT !.hyst = IF taken THEN 1 ELSE 0]
    BY <1>5 DEF Bimodal
  <2> QED BY <2>1
<1>6. CASE ~((e.pred > 0) = taken)
  <2>1. Bimodal(e, taken) = [pred |-> inter \div 2, hyst |-> inter % 2]
    BY <1>6 DEF Bimodal, inter
  <2> QED BY <1>4, <2>1
<1> QED BY <1>5, <1>6

LEMMA CellReplaced ==
  ASSUME NEW g \in GlobalTable, NEW bank \in Bank, NEW i \in Index, NEW c \in Cell
  PROVE  LET h == [g EXCEPT ![bank] = [@ EXCEPT ![i] = c]] IN
         /\ h \in GlobalTable
         /\ \A x \in Bank : \A y \in Index :
              h[x][y] = IF x = bank /\ y = i THEN c ELSE g[x][y]
BY DEF GlobalTable

(* What a step of the training leaves as it is.                             *)
Keeps(t, u) == u \in TageType /\ SameHistory(t, u)
SameTags(t, u) ==
  \A bank \in Bank : \A i \in Index : u.gtable[bank][i].tag = t.gtable[bank][i].tag

(* At most one entry has another tag, and that one was allocated.           *)
ReplacesOne(t, u, b, p) ==
  \E best \in Bank : \A bank \in Bank : \A i \in Index :
    u.gtable[bank][i].tag # t.gtable[bank][i].tag =>
      /\ bank = best /\ i = GIndex(t, b.pc, bank)
      /\ p.result # b.taken /\ bank < p.bank
      /\ u.gtable[bank][i].tag = GTag(t, b.pc, bank)
      /\ t.gtable[bank][i].ubit = 0

LEMMA SameTagsReplaceOne ==
  ASSUME NEW t, NEW u, NEW b, NEW p, SameTags(t, u)
  PROVE  ReplacesOne(t, u, b, p)
<1>1. 0 \in Bank
  BY Sizes DEF Bank
<1> QED BY <1>1 DEF SameTags, ReplacesOne

LEMMA SeedType ==
  ASSUME NEW t \in TageType
  PROVE  t.seed \in 0..2^(2 * NHIST) - 1 /\ NextSeed(t.seed) \in 0..2^(2 * NHIST) - 1
<1> DEFINE range == 2^(2 * NHIST)
<1>1. range \in Int /\ range > 0
  BY PowersAssumption, Sizes
<1>2. t.seed \in 0..range - 1
  BY TageTypeIs
<1> HIDE DEF range
<1>3. (range + 1) * t.seed + 15988017 \in Int
  BY <1>1, <1>2
<1>4. ASSUME NEW x \in Int PROVE x % range \in 0..range - 1
  BY <1>1
<1>5. NextSeed(t.seed) = ((range + 1) * t.seed + 15988017) % range
  BY DEF NextSeed, range
<1>6. NextSeed(t.seed) \in 0..range - 1
  BY <1>3, <1>4, <1>5
<1> QED BY <1>2, <1>6 DEF range

(* The least useful counter of the candidates.                              *)
LEMMA LeastUseful ==
  ASSUME NEW t \in TageType, NEW pc, NEW n \in 0..NHIST
  PROVE  LET least == Min({3} \union {Entry(t, pc, bank).ubit : bank \in 0..n - 1}) IN
         /\ least \in 0..3
         /\ \A bank \in 0..n - 1 : bank \in Bank /\ Entry(t, pc, bank).ubit >= least
<1> DEFINE ubits == {3} \union {Entry(t, pc, bank).ubit : bank \in 0..n - 1}
<1>1. \A bank \in 0..n - 1 : bank \in Bank
  BY Sizes DEF Bank
<1>2. \A bank \in 0..n - 1 : Entry(t, pc, bank).ubit \in 0..3
  BY <1>1, EntryTypes DEF Cell
<1>3. ubits \in SUBSET (0..3) /\ ubits # {}
  BY <1>2
<1>4. \A bank \in 0..n - 1 : Entry(t, pc, bank).ubit \in ubits
  OBVIOUS
<1> HIDE DEF ubits
<1>5. ubits \in SUBSET Nat
  BY <1>3
<1>6. Min(ubits) \in ubits /\ \A k \in ubits : Min(ubits) <= k
  BY <1>3, <1>5, LeastMember
<1>7. Min(ubits) \in 0..3
  BY <1>3, <1>6
<1>8. \A bank \in 0..n - 1 : Entry(t, pc, bank).ubit >= Min(ubits)
  BY <1>2, <1>4, <1>6, <1>7
<1> QED BY <1>1, <1>7, <1>8 DEF ubits

LEMMA AgedFacts ==
  ASSUME NEW t \in TageType, NEW b, NEW p \in Prediction,
         \A bank \in 0..p.bank - 1 : bank \in Bank /\ Entry(t, b.pc, bank).ubit >= 1
  PROVE  Keeps(t, Aged(t, b, p)) /\ SameTags(t, Aged(t, b, p))
<1> DEFINE older(bank) == [t.gtable[bank] EXCEPT ![GIndex(t, b.pc, bank)].ubit = @ - 1]
           g == [bank \in Bank |-> IF bank < p.bank THEN older(bank) ELSE t.gtable[bank]]
<1>1. t.gtable \in GlobalTable
  BY TageTypeIs
<1>2. ASSUME NEW bank \in Bank, bank < p.bank
      PROVE  /\ older(bank) \in [Index -> Cell]
             /\ \A i \in Index : older(bank)[i].tag = t.gtable[bank][i].tag
  <2> DEFINE k == GIndex(t, b.pc, bank)
             e == t.gtable[bank][k]
  <2>1. k \in Index /\ t.gtable[bank] \in [Index -> Cell]
    BY <1>1, IndexTypes DEF GlobalTable
  <2>2. bank \in 0..p.bank - 1
    BY <1>2 DEF Bank, Prediction
  <2>3. e \in Cell /\ e.ubit >= 1
    BY <2>2, EntryTypes
  <2>4. [e EXCEPT !.ubit = @ - 1] \in Cell /\ [e EXCEPT !.ubit = @ - 1].tag = e.tag
    <3>1. e.ubit \in 0..3 /\ e.ubit - 1 \in 0..3
      BY <2>3 DEF Cell
    <3> HIDE DEF e
    <3> QED BY <2>3, <3>1 DEF Cell
  <2>5. older(bank) = [t.gtable[bank] EXCEPT ![k] = [e EXCEPT !.ubit = @ - 1]]
    OBVIOUS
  <2> HIDE DEF older, k
  <2> QED BY <2>1, <2>4, <2>5
<1>3. g \in GlobalTable
  <2> HIDE DEF older
  <2> QED BY <1>1, <1>2 DEF GlobalTable
<1>4. \A bank \in Bank : \A i \in Index : g[bank][i].tag = t.gtable[bank][i].tag
  <2> HIDE DEF older
  <2> QED BY <1>2
<1>5. Aged(t, b, p) = [t EXCEPT !.gtable = g]
  BY DEF Aged
<1> HIDE DEF g
<1>6. Keeps(t, Aged(t, b, p)) /\ Aged(t, b, p).gtable = g
  BY <1>3, <1>5, TageTypeIs DEF Keeps, SameHistory
<1> QED BY <1>4, <1>6 DEF SameTags

LEMMA AllocatedFacts ==
  ASSUME NEW t \in TageType, NEW b \in Branch, NEW p \in Prediction
  PROVE  Keeps(t, Allocated(t, b, p)) /\ ReplacesOne(t, Allocated(t, b, p), b, p)
<1> DEFINE least == Min({3} \union {Entry(t, b.pc, bank).ubit : bank \in 0..p.bank - 1})
           seed == NextSeed(t.seed)
           targets == Targets(t, b, Drawn(seed, p.bank), least)
           best == Max(targets)
           new == [tag |-> GTag(t, b.pc, best), ctr |-> IF b.taken THEN 0 ELSE -1, ubit |-> 0]
           gi == GIndex(t, b.pc, best)
           g == [t.gtable EXCEPT ![best] = [@ EXCEPT ![gi] = new]]
           u == Allocated(t, b, p)
<1>1. /\ least \in 0..3
      /\ \A bank \in 0..p.bank - 1 : bank \in Bank /\ Entry(t, b.pc, bank).ubit >= least
  BY LeastUseful DEF Prediction
<1>2. seed \in 0..2^(2 * NHIST) - 1
  BY SeedType
<1>3. u = IF ~Allocates(t, b, p) THEN t
          ELSE IF least > 0 THEN Aged(t, b, p)
          ELSE IF targets = {} THEN [t EXCEPT !.seed = seed]
          ELSE [t EXCEPT !.seed = seed, !.gtable = g]
  BY DEF Allocated
<1> HIDE DEF least, seed, u
<1>4. Keeps(t, t) /\ SameTags(t, t)
  BY DEF Keeps, SameHistory, SameTags
<1>5. CASE ~Allocates(t, b, p)
  <2>1. u = t
    BY <1>3, <1>5
  <2> QED BY <1>4, <2>1, SameTagsReplaceOne DEF u
<1>6. CASE Allocates(t, b, p) /\ least > 0
  <2>1. u = Aged(t, b, p)
    BY <1>3, <1>6
  <2>2. \A bank \in 0..p.bank - 1 : bank \in Bank /\ Entry(t, b.pc, bank).ubit >= 1
    <3>1. \A bank \in 0..p.bank - 1 : Entry(t, b.pc, bank).ubit \in Int
      BY <1>1, EntryTypes DEF Cell
    <3> QED BY <1>1, <1>6, <3>1
  <2>3. Keeps(t, Aged(t, b, p)) /\ SameTags(t, Aged(t, b, p))
    BY <2>2, AgedFacts
  <2> QED BY <2>1, <2>3, SameTagsReplaceOne DEF u
<1>7. CASE Allocates(t, b, p) /\ ~(least > 0) /\ targets = {}
  <2>1. u = [t EXCEPT !.seed = seed]
    BY <1>3, <1>7
  <2>2. Keeps(t, u) /\ u.gtable = t.gtable
    BY <1>2, <2>1, TageTypeIs DEF Keeps, SameHistory
  <2> QED BY <2>2, SameTagsReplaceOne DEF u, SameTags
<1>8. CASE Allocates(t, b, p) /\ ~(least > 0) /\ targets # {}
  <2>1. u = [t EXCEPT !.seed = seed, !.gtable = g]
    BY <1>3, <1>8
  <2>2. targets \in SUBSET (0..p.bank - 1) /\ p.bank \in Nat
    BY DEF Targets, Drawn, Prediction
  <2>3. best \in targets
    <3>1. targets \in SUBSET (0..p.bank)
      BY <2>2
    <3> HIDE DEF targets
    <3> QED BY <1>8, <2>2, <3>1, GreatestMember
  <2>4. best \in Bank /\ best < p.bank /\ Entry(t, b.pc, best).ubit = 0
    <3>1. best \in 0..p.bank - 1 /\ Entry(t, b.pc, best).ubit = least
      <4> HIDE DEF best
      <4> QED BY <2>2, <2>3 DEF Targets
    <3>2. least = 0
      BY <1>1, <1>8
    <3> HIDE DEF best, targets
    <3> QED BY <1>1, <2>2, <3>1, <3>2
  <2>5. p.result # b.taken
    BY <1>8 DEF Allocates
  <2> HIDE DEF best, targets
  <2>6. new \in Cell
    <3>1. GTag(t, b.pc, best) \in SUBSET Positions(TBITS)
      BY <2>4, TagTypes
    <3>2. (IF b.taken THEN 0 ELSE -1) \in -Half..Half - 1
      BY Sizes
    <3> QED BY <3>1, <3>2 DEF Cell
  <2>7. gi \in Index /\ t.gtable \in GlobalTable /\ t.gtable[best][gi].ubit = 0
    BY <2>4, IndexTypes, TageTypeIs DEF Entry
  <2>8. new.tag = GTag(t, b.pc, best)
    OBVIOUS
  <2> HIDE DEF new, gi
  <2>9. /\ g \in GlobalTable
        /\ \A x \in Bank : \A y \in Index :
             g[x][y] = IF x = best /\ y = gi THEN new ELSE t.gtable[x][y]
    BY <2>4, <2>6, <2>7, CellReplaced
  <2> HIDE DEF g
  <2>10. Keeps(t, u) /\ u.gtable = g
    BY <1>2, <2>1, <2>9, TageTypeIs DEF Keeps, SameHistory
  <2>11. ASSUME NEW bank \in Bank, NEW i \in Index,
                u.gtable[bank][i].tag # t.gtable[bank][i].tag
         PROVE  /\ bank = best /\ i = GIndex(t, b.pc, bank)
                /\ p.result # b.taken /\ bank < p.bank
                /\ u.gtable[bank][i].tag = GTag(t, b.pc, bank)
                /\ t.gtable[bank][i].ubit = 0
    <3>1. bank = best /\ i = gi
      BY <2>9, <2>10, <2>11
    <3>2. u.gtable[bank][i] = new
      BY <2>9, <2>10, <3>1
    <3> QED BY <2>4, <2>5, <2>7, <2>8, <3>1, <3>2 DEF gi
  <2>12. ReplacesOne(t, u, b, p)
    BY <2>4, <2>11 DEF ReplacesOne
  <2> QED BY <2>10, <2>12 DEF u
<1> QED BY <1>5, <1>6, <1>7, <1>8

LEMMA TickedFacts ==
  ASSUME NEW t \in TageType
  PROVE  Keeps(t, Ticked(t)) /\ SameTags(t, Ticked(t))
<1> DEFINE tick == t.tick + 1
           kept(bank, i) == [t.gtable[bank][i] EXCEPT !.ubit = Kept(@, tick)]
           g == [bank \in Bank |-> [i \in Index |-> kept(bank, i)]]
<1>1. tick \in Nat /\ t.gtable \in GlobalTable
  BY TageTypeIs
<1>2. ASSUME NEW bank \in Bank, NEW i \in Index
      PROVE  kept(bank, i) \in Cell /\ kept(bank, i).tag = t.gtable[bank][i].tag
  <2> DEFINE e == t.gtable[bank][i]
  <2>1. e \in Cell
    BY <1>1 DEF GlobalTable
  <2>2. Kept(e.ubit, tick) \in 0..3
    <3>1. e.ubit \in 0..3
      BY <2>1 DEF Cell
    <3> HIDE DEF e, tick
    <3> QED BY <1>1, <3>1, TrainTypes
  <2> HIDE DEF e, tick
  <2>3. [e EXCEPT !.ubit = Kept(@, tick)] \in Cell /\ [e EXCEPT !.ubit = Kept(@, tick)].tag = e.tag
    BY <2>1, <2>2 DEF Cell
  <2> QED BY <2>3 DEF e
<1> HIDE DEF kept
<1>3. g \in GlobalTable /\ \A bank \in Bank : \A i \in Index : g[bank][i].tag = t.gtable[bank][i].tag
  BY <1>2 DEF GlobalTable
<1>4. Ticked(t) = IF tick % 2^LogReset # 0 THEN [t EXCEPT !.tick = tick]
                  ELSE [t EXCEPT !.tick = tick, !.gtable = g]
  BY DEF Ticked, kept, Index
<1> HIDE DEF tick, g
<1>5. CASE tick % 2^LogReset # 0
  <2>1. Ticked(t) = [t EXCEPT !.tick = tick]
    BY <1>4, <1>5
  <2> QED BY <1>1, <2>1, TageTypeIs DEF Keeps, SameHistory, SameTags
<1>6. CASE tick % 2^LogReset = 0
  <2>1. Ticked(t) = [t EXCEPT !.tick = tick, !.gtable = g]
    BY <1>4, <1>6
  <2>2. Keeps(t, Ticked(t)) /\ Ticked(t).gtable = g
    BY <1>1, <1>3, <2>1, TageTypeIs DEF Keeps, SameHistory
  <2> QED BY <1>3, <2>2 DEF SameTags
<1> QED BY <1>5, <1>6

LEMMA ReinforcedFacts ==
  ASSUME NEW t \in TageType, NEW b \in Branch, NEW p \in Prediction, NEW gi,
         p.bank # NHIST => gi \in Index
  PROVE  Keeps(t, Reinforced(t, b, p, gi)) /\ SameTags(t, Reinforced(t, b, p, gi))
<1> DEFINE u == Reinforced(t, b, p, gi)
<1>1. b.taken \in BOOLEAN
  BY DEF Branch
<1>2. CASE p.bank = NHIST
  <2> DEFINE k == BIndex(b.pc)
             e == Bimodal(t.btable[k], b.taken)
             h == [t.btable EXCEPT ![k] = e]
  <2>1. t.btable \in BimodalTable /\ k \in SUBSET Positions(LOGB)
    BY IndexTypes, TageTypeIs
  <2>2. t.btable[k] \in [pred : {0, 1}, hyst : {0, 1}]
    BY <2>1 DEF BimodalTable
  <2>3. e \in [pred : {0, 1}, hyst : {0, 1}]
    BY <1>1, <2>2, BimodalTypes
  <2>4. h \in BimodalTable
    <3> HIDE DEF e, k
    <3> QED BY <2>1, <2>3 DEF BimodalTable
  <2>5. u = [t EXCEPT !.btable = h]
    BY <1>2 DEF Reinforced
  <2> HIDE DEF h, u
  <2>6. Keeps(t, u) /\ u.gtable = t.gtable
    BY <2>4, <2>5, TageTypeIs DEF Keeps, SameHistory
  <2> QED BY <2>6 DEF SameTags, u
<1>3. CASE p.bank # NHIST
  <2> DEFINE e == t.gtable[p.bank][gi]
             useful == IF p.result # p.alternate THEN UbitUpdated(e.ubit, p.result = b.taken)
                       ELSE e.ubit
             new == [e EXCEPT !.ctr = CtrUpdated(e.ctr, b.taken), !.ubit = useful]
             g == [t.gtable EXCEPT ![p.bank] = [@ EXCEPT ![gi] = new]]
  <2>1. p.bank \in Bank /\ gi \in Index /\ t.gtable \in GlobalTable
    BY <1>3, Sizes, TageTypeIs DEF Prediction, Bank
  <2>2. e \in Cell
    BY <2>1 DEF GlobalTable
  <2>3. CtrUpdated(e.ctr, b.taken) \in -Half..Half - 1 /\ useful \in 0..3
    <3>1. e.ctr \in -Half..Half - 1 /\ e.ubit \in 0..3 /\ (p.result = b.taken) \in BOOLEAN
      BY <2>2 DEF Cell
    <3> HIDE DEF e
    <3>2. CtrUpdated(e.ctr, b.taken) \in -Half..Half - 1
      BY <1>1, <3>1, TrainTypes
    <3>3. UbitUpdated(e.ubit, p.result = b.taken) \in 0..3
      BY <1>1, <3>1, TrainTypes
    <3> QED BY <3>1, <3>2, <3>3
  <2>4. new \in Cell /\ new.tag = e.tag
    <3> HIDE DEF e, useful
    <3> QED BY <2>2, <2>3 DEF Cell
  <2>5. u = [t EXCEPT !.gtable = g]
    BY <1>3 DEF Reinforced
  <2> HIDE DEF new, u
  <2>6. /\ g \in GlobalTable
        /\ \A x \in Bank : \A y \in Index :
             g[x][y] = IF x = p.bank /\ y = gi THEN new ELSE t.gtable[x][y]
    BY <2>1, <2>4, CellReplaced
  <2> HIDE DEF g
  <2>7. Keeps(t, u) /\ u.gtable = g
    BY <2>5, <2>6, TageTypeIs DEF Keeps, SameHistory
  <2> QED BY <2>4, <2>6, <2>7 DEF SameTags, u
<1> QED BY <1>2, <1>3

(* The registers after one more branch.                                     *)
NextGhist(t, b) ==
  (Left(t.ghist, 1) \union (IF b.taken THEN {0} ELSE {})) \intersect Positions(MAXHIST)
NextPhist(t, b) ==
  (Left(t.phist, 1) \union Lowest(Bits(b.pc \div 4, WordBits))) \intersect Positions(16)
Advances(t, u, b) ==
  /\ u.ghist = NextGhist(t, b) /\ u.phist = NextPhist(t, b)
  /\ \A f \in Folds : \A bank \in Bank :
       u.comp[f][bank] = Folded(t.comp[f][bank], Width(f, bank), HISTORIES[bank], NextGhist(t, b))

LEMMA WidthFacts ==
  ASSUME NEW f \in Folds, NEW bank \in Bank
  PROVE  /\ Width(f, bank) \in Nat \ {0}
         /\ HISTORIES[bank] \in Nat \ {0} /\ HISTORIES[bank] < MAXHIST
<1>1. (bank + (NHIST % 2)) \div 2 \in Int
  <2>1. bank \in Nat /\ NHIST % 2 \in Nat
    BY Sizes, Division
  <2> QED BY <2>1, Division
<1>2. TagWidth(bank) \in Int
  BY <1>1, Sizes DEF TagWidth
<1>3. Width(f, bank) \in Int
  BY <1>2, Sizes DEF Width, Folds
<1>4. Width(f, bank) >= 1
  BY WidthsAssumption
<1>5. HISTORIES[bank] \in 1..MAXHIST - 1
  BY WidthsAssumption
<1> QED BY <1>3, <1>4, <1>5, Sizes

LEMMA UpdateFacts ==
  ASSUME NEW t \in TageType, NEW b
  PROVE  LET u == UpdateHistory(t, b) IN
         u \in TageType /\ Advances(t, u, b) /\ u.gtable = t.gtable
<1> DEFINE ghist == NextGhist(t, b)
           phist == NextPhist(t, b)
           comp == [f \in Folds |-> [bank \in Bank |->
                      Folded(t.comp[f][bank], Width(f, bank), HISTORIES[bank], ghist)]]
           u == UpdateHistory(t, b)
<1>1. ghist \in SUBSET Positions(MAXHIST) /\ phist \in SUBSET Positions(16)
  BY DEF NextGhist, NextPhist
<1>2. comp \in [Folds -> [Bank -> SUBSET Nat]]
  <2>1. ASSUME NEW f \in Folds, NEW bank \in Bank
        PROVE  Folded(t.comp[f][bank], Width(f, bank), HISTORIES[bank], ghist) \in SUBSET Nat
    <3>1. Positions(Width(f, bank)) \in SUBSET Nat
      BY WidthFacts DEF Positions
    <3> QED BY <3>1 DEF Folded
  <2> QED BY <2>1
<1>3. u = [t EXCEPT !.ghist = ghist, !.phist = phist, !.comp = comp]
  BY DEF UpdateHistory, NextGhist, NextPhist
<1>4. /\ u \in TageType /\ u.ghist = ghist /\ u.phist = phist /\ u.comp = comp
      /\ u.gtable = t.gtable
  <2> HIDE DEF u, ghist, phist, comp
  <2> QED BY <1>1, <1>2, <1>3, TageTypeIs
<1> QED BY <1>4 DEF Advances

LEMMA TrainedFacts ==
  ASSUME NEW t \in TageType, NEW b \in Branch
  PROVE  LET u == Trained(t, b) IN
         /\ u \in TageType /\ ReplacesOne(t, u, b, Predict(t, b.pc))
         /\ IF b.type = "Conditional" THEN Advances(t, u, b) ELSE SameHistory(t, u)
<1> DEFINE p == Predict(t, b.pc)
           gi == IF p.bank = NHIST THEN {} ELSE GIndex(t, b.pc, p.bank)
           a == Allocated(t, b, p)
           k == Ticked(a)
           r == Reinforced(k, b, p, gi)
           u == Trained(t, b)
<1>1. p \in Prediction
  BY PredictTypes
<1>2. p.bank # NHIST => gi \in Index
  BY IndexTypes
<1>3. u = IF b.type = "Conditional" THEN UpdateHistory(r, b) ELSE r
  BY DEF Trained
<1> HIDE DEF p, gi
<1>4. Keeps(t, a) /\ ReplacesOne(t, a, b, p)
  BY <1>1, AllocatedFacts
<1> HIDE DEF a
<1>5. Keeps(a, k) /\ SameTags(a, k)
  BY <1>4, TickedFacts DEF Keeps
<1> HIDE DEF k
<1>6. Keeps(k, r) /\ SameTags(k, r)
  BY <1>1, <1>2, <1>5, ReinforcedFacts DEF Keeps
<1> HIDE DEF r, u
<1>7. r \in TageType /\ SameHistory(t, r)
  BY <1>4, <1>5, <1>6 DEF Keeps, SameHistory
<1>8. ReplacesOne(t, r, b, p)
  BY <1>4, <1>5, <1>6 DEF SameTags, ReplacesOne
<1>9. CASE b.type = "Conditional"
  <2>1. u = UpdateHistory(r, b)
    BY <1>3, <1>9
  <2>2. u \in TageType /\ Advances(r, u, b) /\ u.gtable = r.gtable
    BY <1>7, <2>1, UpdateFacts
  <2>3. ReplacesOne(t, u, b, p)
    BY <1>8, <2>2 DEF ReplacesOne
  <2>4. Advances(t, u, b)
    BY <1>7, <2>2 DEF SameHistory, Advances, NextGhist, NextPhist
  <2> QED BY <1>9, <2>2, <2>3, <2>4 DEF u, p
<1>10. CASE b.type # "Conditional"
  <2>1. u = r
    BY <1>3, <1>10
  <2> QED BY <1>7, <1>8, <1>10, <2>1 DEF u, p
<1> QED BY <1>9, <1>10

(* The registers are what the branches say.                                 *)
HistoryIs(t, outcomes, path) ==
  /\ t.ghist = outcomes \intersect Positions(MAXHIST)
  /\ t.phist = path \intersect Positions(16)
  /\ \A f \in Folds : \A bank \in Bank :
       t.comp[f][bank] = FoldOf(outcomes, HISTORIES[bank], Width(f, bank))

LEMMA CutShifted ==
  ASSUME NEW S \in SUBSET Nat, NEW first \in SUBSET {0}, NEW size \in Nat
  PROVE  (Left(S \intersect Positions(size), 1) \union first) \intersect Positions(size)
         = (Left(S, 1) \union first) \intersect Positions(size)
<1>1. \A y : y \in Left(S, 1) <=> y \in Nat /\ y >= 1 /\ y - 1 \in S
  BY LeftFacts
<1>2. \A y : y \in Left(S \intersect Positions(size), 1)
        <=> y \in Nat /\ y >= 1 /\ y - 1 \in S \intersect Positions(size)
  <2>1. S \intersect Positions(size) \in SUBSET Nat
    OBVIOUS
  <2> QED BY <2>1, LeftFacts
<1>3. \A y \in Nat : y >= 1 /\ y \in Positions(size) => y - 1 \in Positions(size)
  BY DEF Positions
<1> QED BY <1>1, <1>2, <1>3

LEMMA HistoryAdvances ==
  ASSUME NEW t, NEW u, NEW b \in Branch, Advances(t, u, b),
         NEW outcomes \in SUBSET Nat, NEW path \in SUBSET Nat, HistoryIs(t, outcomes, path)
  PROVE  HistoryIs(u, Left(outcomes, 1) \union (IF b.taken THEN {0} ELSE {}),
                   Left(path, 1) \union Lowest(Bits(b.pc \div 4, WordBits)))
<1> DEFINE first == IF b.taken THEN {0} ELSE {}
           low == Lowest(Bits(b.pc \div 4, WordBits))
           later == Left(outcomes, 1) \union first
<1>1. first \in SUBSET {0} /\ low \in SUBSET {0}
  BY DEF Lowest
<1>2. NextGhist(t, b) = later \intersect Positions(MAXHIST)
  <2>1. NextGhist(t, b) = (Left(t.ghist, 1) \union first) \intersect Positions(MAXHIST)
    BY DEF NextGhist
  <2> HIDE DEF first
  <2> QED BY <1>1, <2>1, CutShifted, Sizes DEF HistoryIs
<1>3. NextPhist(t, b) = (Left(path, 1) \union low) \intersect Positions(16)
  <2>1. NextPhist(t, b) = (Left(t.phist, 1) \union low) \intersect Positions(16)
    BY DEF NextPhist
  <2>2. 16 \in Nat
    OBVIOUS
  <2> HIDE DEF low
  <2> QED BY <1>1, <2>1, <2>2, CutShifted DEF HistoryIs
<1>4. ASSUME NEW f \in Folds, NEW bank \in Bank
      PROVE  u.comp[f][bank] = FoldOf(later, HISTORIES[bank], Width(f, bank))
  <2>1. u.comp[f][bank]
          = Folded(FoldOf(outcomes, HISTORIES[bank], Width(f, bank)), Width(f, bank),
                   HISTORIES[bank], later \intersect Positions(MAXHIST))
    BY <1>2 DEF Advances, HistoryIs
  <2> DEFINE w == Width(f, bank)
             n == HISTORIES[bank]
  <2>2. w \in Nat \ {0} /\ n \in Nat \ {0} /\ n < MAXHIST /\ MAXHIST \in Nat
    BY WidthFacts, Sizes
  <2> HIDE DEF first, w, n
  <2> DEFINE ghist == later \intersect Positions(MAXHIST)
  <2>3. later = Left(outcomes, 1) \union first /\ ghist = later \intersect Positions(MAXHIST)
    OBVIOUS
  <2> HIDE DEF later, ghist
  <2>4. Folded(FoldOf(outcomes, n, w), w, n, ghist) = FoldOf(later, n, w)
    <3>1. Follows(outcomes, first, MAXHIST, later, ghist)
      BY <1>1, <2>2, <2>3 DEF Follows
    <3> QED BY <2>2, <3>1, FoldedStep
  <2> QED BY <2>1, <2>4 DEF w, n, ghist
<1> HIDE DEF first, low
<1> QED BY <1>2, <1>3, <1>4 DEF Advances, HistoryIs, first, low

LEMMA NewTageFacts ==
  /\ NewTage \in TageType
  /\ HistoryIs(NewTage, {}, {})
<1>1. NewTage \in TageType
  <2>1. [pred |-> 0, hyst |-> 1] \in [pred : {0, 1}, hyst : {0, 1}]
    OBVIOUS
  <2>2. [ctr |-> 0, tag |-> {}, ubit |-> 0] \in Cell
    BY Sizes DEF Cell
  <2>3. 0 \in 0..2^(2 * NHIST) - 1
    BY PowersAssumption, Sizes
  <2>4. /\ [i \in SUBSET Positions(LOGB) |-> [pred |-> 0, hyst |-> 1]] \in BimodalTable
        /\ [bank \in Bank |-> [i \in Index |-> [ctr |-> 0, tag |-> {}, ubit |-> 0]]] \in GlobalTable
        /\ [f \in Folds |-> [bank \in Bank |-> {}]] \in [Folds -> [Bank -> SUBSET Nat]]
    BY <2>1, <2>2 DEF BimodalTable, GlobalTable
  <2> QED BY <2>3, <2>4, TageTypeIs DEF NewTage, Index
<1>2. ASSUME NEW length, NEW width PROVE FoldOf({}, length, width) = {}
  <2>1. \A j : {i \in {} : i < length /\ i % width = j} = {}
    OBVIOUS
  <2>2. Cardinality({}) % 2 # 1
    BY FS_EmptySet
  <2> QED BY <2>1, <2>2 DEF FoldOf
<1> QED BY <1>1, <1>2 DEF NewTage, HistoryIs

-----------------------------------------------------------------------------
(* ---- the branch target buffer ------------------------------------------ *)
(* What a set says of a given log.                                          *)
Record == [branch : Branch, known : KnownTypes, met : BOOLEAN]
MeetingsIn(l, pc) == {n \in DOMAIN l : l[n].met /\ l[n].branch.pc = pc}
TakensIn(l, pc) == {n \in DOMAIN l : l[n].branch.taken /\ l[n].branch.pc = pc}
LastTargetIn(l, e) ==
  \/ \E n \in TakensIn(l, e.tag) : /\ IsLast(n, TakensIn(l, e.tag))
                                   /\ e.target = l[n].branch.target /\ e.type = l[n].branch.type
  \/ TakensIn(l, e.tag) = {} /\ e.tag = 0 /\ e.target = 0 /\ e.type = "NonBranch"
EntryIn(l, s, e) ==
  SetOf(e.tag) = s /\ IsLast(e.ts, MeetingsIn(l, e.tag)) /\ LastTargetIn(l, e)
RememberedIn(l, s, set, n) ==
  l[n].met /\ SetOf(l[n].branch.pc) = s =>
    \/ \E w \in Valid(set) : set[w].tag = l[n].branch.pc
    \/ \A w \in Way : set[w].ts > n
FaithfulIn(l, s, set) ==
  /\ \A w \in Valid(set) : EntryIn(l, s, set[w])
  /\ \A v, w \in Valid(set) : set[v].tag = set[w].tag => v = w
  /\ \A n \in DOMAIN l : RememberedIn(l, s, set, n)

LEMMA FaithfulIs ==
  \A s, set : SetFaithful(s, set) <=> FaithfulIn(log, s, set)
BY DEF SetFaithful, FaithfulIn, EntryIn, RememberedIn, LastTarget, LastTargetIn, Meetings, MeetingsIn,
       Takens, TakensIn

(* The entries are filled from the first on.                                *)
Packed(set) ==
  /\ \A w \in Way : \A v \in Way : set[w].ts > 0 /\ v <= w => set[v].ts > 0
  /\ \A w \in Way : set[w].ts = 0 => set[w] = EmptyEntry

SetInv(l, s, set) ==
  /\ set \in [Way -> EntryType]
  /\ FaithfulIn(l, s, set)
  /\ Packed(set)

LogOK(l) ==
  l \in Seq(Record) /\ \A n \in DOMAIN l : l[n].branch.taken => l[n].met

(* The log with one more record.                                            *)
LEMMA LongerLog ==
  ASSUME NEW l \in Seq(Record), NEW r \in Record
  PROVE  LET m == Append(l, r)
             N == Len(l)
         IN /\ m \in Seq(Record) /\ N \in Nat /\ Len(m) = N + 1
            /\ DOMAIN l = 1..N /\ DOMAIN m = 1..N + 1
            /\ \A n \in 1..N : m[n] = l[n] /\ l[n] \in Record
            /\ m[N + 1] = r
OBVIOUS

LEMMA PlacesLonger ==
  ASSUME NEW l \in Seq(Record), NEW r \in Record, NEW pc
  PROVE  LET m == Append(l, r)
             N == Len(l)
         IN /\ MeetingsIn(m, pc) = IF r.met /\ r.branch.pc = pc THEN MeetingsIn(l, pc) \union {N + 1}
                                   ELSE MeetingsIn(l, pc)
            /\ TakensIn(m, pc) = IF r.branch.taken /\ r.branch.pc = pc THEN TakensIn(l, pc) \union {N + 1}
                                 ELSE TakensIn(l, pc)
            /\ MeetingsIn(l, pc) \in SUBSET (1..N) /\ TakensIn(l, pc) \in SUBSET (1..N)
<1> DEFINE m == Append(l, r)
           N == Len(l)
<1>1. /\ N \in Nat /\ DOMAIN l = 1..N /\ DOMAIN m = 1..N + 1
      /\ \A n \in 1..N : m[n] = l[n]
      /\ m[N + 1] = r
  BY LongerLog
<1>2. 1..N + 1 = 1..N \union {N + 1} /\ N + 1 \notin 1..N
  BY <1>1
<1> HIDE DEF m, N
<1>3. MeetingsIn(m, pc) = IF r.met /\ r.branch.pc = pc THEN MeetingsIn(l, pc) \union {N + 1}
                          ELSE MeetingsIn(l, pc)
  BY <1>1, <1>2 DEF MeetingsIn
<1>4. TakensIn(m, pc) = IF r.branch.taken /\ r.branch.pc = pc THEN TakensIn(l, pc) \union {N + 1}
                        ELSE TakensIn(l, pc)
  BY <1>1, <1>2 DEF TakensIn
<1>5. MeetingsIn(l, pc) \in SUBSET (1..N) /\ TakensIn(l, pc) \in SUBSET (1..N)
  BY <1>1 DEF MeetingsIn, TakensIn
<1> QED BY <1>3, <1>4, <1>5 DEF m, N

(* A branch that does not meet what an entry stands for changes nothing.    *)
LEMMA EntryKept ==
  ASSUME NEW l \in Seq(Record), NEW r \in Record, NEW s, NEW e, EntryIn(l, s, e),
         r.branch.taken => r.met, e.tag = r.branch.pc => ~r.met
  PROVE  EntryIn(Append(l, r), s, e)
<1> DEFINE m == Append(l, r)
<1>1. MeetingsIn(m, e.tag) = MeetingsIn(l, e.tag) /\ TakensIn(m, e.tag) = TakensIn(l, e.tag)
  BY PlacesLonger
<1>2. \A n \in TakensIn(l, e.tag) : m[n] = l[n]
  BY LongerLog, PlacesLonger
<1> HIDE DEF m
<1>3. LastTargetIn(m, e)
  BY <1>1, <1>2 DEF EntryIn, LastTargetIn
<1> QED BY <1>1, <1>3 DEF EntryIn, m

LEMMA OtherSet ==
  ASSUME NEW l, LogOK(l), NEW r \in Record, NEW s, NEW set, SetInv(l, s, set),
         r.branch.taken => r.met, r.met => SetOf(r.branch.pc) # s
  PROVE  SetInv(Append(l, r), s, set)
<1> DEFINE m == Append(l, r)
           N == Len(l)
<1>1. /\ l \in Seq(Record) /\ N \in Nat /\ DOMAIN l = 1..N /\ DOMAIN m = 1..N + 1
      /\ \A n \in 1..N : m[n] = l[n]
      /\ m[N + 1] = r
  BY LongerLog DEF LogOK
<1>2. \A w \in Valid(set) : EntryIn(m, s, set[w])
  <2>1. ASSUME NEW w \in Valid(set) PROVE EntryIn(m, s, set[w])
    <3>1. EntryIn(l, s, set[w])
      BY DEF SetInv, FaithfulIn
    <3>2. set[w].tag = r.branch.pc => ~r.met
      BY <3>1 DEF EntryIn
    <3> QED BY <1>1, <3>1, <3>2, EntryKept
  <2> QED BY <2>1
<1> HIDE DEF m, N
<1>3. ASSUME NEW n \in DOMAIN m PROVE RememberedIn(m, s, set, n)
  <2>1. CASE n \in 1..N
    <3>1. RememberedIn(l, s, set, n)
      BY <1>1, <2>1 DEF SetInv, FaithfulIn
    <3> QED BY <1>1, <2>1, <3>1 DEF RememberedIn
  <2>2. CASE n = N + 1
    BY <1>1, <2>2 DEF RememberedIn
  <2> QED BY <1>1, <2>1, <2>2
<1> QED BY <1>2, <1>3 DEF SetInv, FaithfulIn, m

(* The two ways to learn a branch: in an entry that held it, or in the one  *)
(* used least recently.                                                     *)
LEMMA Learnt ==
  ASSUME NEW l, LogOK(l), NEW r \in Record, r.met, NEW set,
         SetInv(l, SetOf(r.branch.pc), set),
         NEW h \in Way, NEW e \in EntryType,
         e.tag = r.branch.pc, e.ts = Len(l) + 1, LastTargetIn(Append(l, r), e),
         \A v \in Valid(set) : set[v].tag = r.branch.pc => v = h,
         \A v \in Way : v < h => set[v].ts > 0,
         set[h].tag = r.branch.pc \/ \A v \in Way : set[h].ts <= set[v].ts
  PROVE  SetInv(Append(l, r), SetOf(r.branch.pc), [set EXCEPT ![h] = e])
<1> DEFINE m == Append(l, r)
           N == Len(l)
           pc == r.branch.pc
           s == SetOf(pc)
           new == [set EXCEPT ![h] = e]
<1>1. /\ l \in Seq(Record) /\ m \in Seq(Record) /\ N \in Nat /\ DOMAIN l = 1..N /\ DOMAIN m = 1..N + 1
      /\ \A n \in 1..N : m[n] = l[n]
      /\ m[N + 1] = r
  BY LongerLog DEF LogOK
<1>2. set \in [Way -> EntryType] /\ FaithfulIn(l, s, set) /\ Packed(set)
  BY DEF SetInv
<1>3. /\ new \in [Way -> EntryType] /\ new[h] = e
      /\ \A v \in Way : v # h => new[v] = set[v]
  BY <1>2
<1>4. e.ts = N + 1 /\ e.tag = pc /\ e.ts > 0 /\ \A v \in Way : set[v].ts \in Nat /\ v \in Nat
  BY <1>1, <1>2, Sizes DEF EntryType, Way
<1>5. \A pc1 : /\ MeetingsIn(l, pc1) \in SUBSET (1..N)
               /\ pc1 = pc => MeetingsIn(m, pc1) = MeetingsIn(l, pc1) \union {N + 1}
  BY <1>1, PlacesLonger
<1>6. IsLast(e.ts, MeetingsIn(m, e.tag))
  BY <1>1, <1>4, <1>5 DEF IsLast
<1>7. LastTargetIn(m, e)
  OBVIOUS
<1>8. r.met /\ (r.branch.taken => r.met)
  OBVIOUS
<1>9. /\ \A v \in Valid(set) : set[v].tag = pc => v = h
      /\ \A v \in Way : v < h => set[v].ts > 0
      /\ set[h].tag = pc \/ \A v \in Way : set[h].ts <= set[v].ts
  OBVIOUS
<1>10. r.branch.pc = pc
  OBVIOUS
<1> HIDE DEF m, N, new, pc, s
<1>11. Valid(new) = Valid(set) \union {h}
  BY <1>3, <1>4 DEF Valid
<1>12. ASSUME NEW v \in Valid(new) PROVE EntryIn(m, s, new[v])
  <2>1. CASE v = h
    BY <1>3, <1>4, <1>6, <1>7, <2>1 DEF EntryIn, s
  <2>2. CASE v # h
    <3>1. v \in Valid(set) /\ v \in Way
      BY <1>11, <2>2 DEF Valid
    <3>2. EntryIn(l, s, set[v])
      BY <1>2, <3>1 DEF FaithfulIn
    <3>3. set[v].tag # pc
      BY <1>9, <2>2, <3>1
    <3>4. EntryIn(m, s, set[v])
      BY <1>1, <1>8, <1>10, <3>2, <3>3, EntryKept DEF m
    <3> QED BY <1>3, <2>2, <3>1, <3>4
  <2> QED BY <2>1, <2>2
<1>13. ASSUME NEW v \in Valid(new), NEW w \in Valid(new), new[v].tag = new[w].tag PROVE v = w
  <2>1. v \in Way /\ w \in Way
    BY DEF Valid
  <2>2. \A x \in Valid(new) : new[x].tag = pc => x = h
    BY <1>3, <1>9, <1>11 DEF Valid
  <2>3. CASE new[v].tag = pc
    BY <1>13, <2>2, <2>3
  <2>4. CASE new[v].tag # pc
    <3>1. v # h /\ w # h
      BY <1>3, <1>4, <1>13, <2>4
    <3>2. v \in Valid(set) /\ w \in Valid(set) /\ set[v].tag = set[w].tag
      BY <1>3, <1>11, <1>13, <2>1, <3>1
    <3> QED BY <1>2, <3>2 DEF FaithfulIn
  <2> QED BY <2>3, <2>4
<1>14. ASSUME NEW n \in DOMAIN m PROVE RememberedIn(m, s, new, n)
  <2>1. CASE n = N + 1
    <3>1. h \in Valid(new) /\ new[h].tag = m[n].branch.pc
      BY <1>1, <1>3, <1>4, <1>10, <1>11, <2>1
    <3> QED BY <3>1 DEF RememberedIn
  <2>2. CASE n \in 1..N
    <3> SUFFICES ASSUME m[n].met, SetOf(m[n].branch.pc) = s
                 PROVE  \/ \E w \in Valid(new) : new[w].tag = m[n].branch.pc
                        \/ \A w \in Way : new[w].ts > n
      BY DEF RememberedIn
    <3>1. m[n] = l[n]
      BY <1>1, <2>2
    <3>2. \/ \E w \in Valid(set) : set[w].tag = l[n].branch.pc
          \/ \A w \in Way : set[w].ts > n
      BY <1>1, <1>2, <2>2, <3>1 DEF FaithfulIn, RememberedIn
    <3>3. n \in Nat /\ n >= 1 /\ n < N + 1
      BY <1>1, <2>2
    <3>4. CASE \A w \in Way : set[w].ts > n
      BY <1>3, <1>4, <3>3, <3>4
    <3>5. CASE \E w \in Valid(set) : w # h /\ set[w].tag = l[n].branch.pc
      <4>1. PICK w \in Valid(set) : w # h /\ set[w].tag = l[n].branch.pc
        BY <3>5
      <4>2. w \in Way
        BY DEF Valid
      <4> QED BY <1>3, <1>11, <3>1, <4>1, <4>2
    <3>6. CASE h \in Valid(set) /\ set[h].tag = l[n].branch.pc
      <4>1. CASE set[h].tag = pc
        BY <1>3, <1>4, <1>11, <3>1, <3>6, <4>1
      <4>2. CASE set[h].tag # pc
        <5>1. \A v \in Way : set[h].ts <= set[v].ts
          BY <1>9, <4>2
        <5>2. \A v \in Way : v \in Valid(set)
          BY <1>4, <3>6, <5>1 DEF Valid
        <5>3. \A v \in Way : set[v].ts \in MeetingsIn(l, set[v].tag)
          BY <1>2, <5>2 DEF FaithfulIn, EntryIn, IsLast
        <5>4. \A v \in Way : l[set[v].ts].branch.pc = set[v].tag
          BY <5>3 DEF MeetingsIn
        <5>5. \A v \in Way : v # h => set[v].ts # set[h].ts
          <6>1. \A v \in Way : v # h => set[v].tag # set[h].tag
            BY <1>2, <5>2 DEF FaithfulIn
          <6> QED BY <5>4, <6>1
        <5>6. n \in MeetingsIn(l, set[h].tag)
          BY <1>1, <2>2, <3>1, <3>6 DEF MeetingsIn
        <5>7. n <= set[h].ts
          BY <1>2, <3>6, <5>6 DEF FaithfulIn, EntryIn, IsLast
        <5>8. \A v \in Way : v # h => set[v].ts > n
          BY <1>4, <3>3, <5>1, <5>5, <5>7
        <5>9. \A v \in Way : new[v].ts > n
          BY <1>3, <1>4, <3>3, <5>8
        <5> QED BY <5>9
      <4> QED BY <4>1, <4>2
    <3> QED BY <3>2, <3>4, <3>5, <3>6
  <2> QED BY <1>1, <2>1, <2>2
<1>15. Packed(new)
  <2>1. ASSUME NEW w \in Way, NEW v \in Way, new[w].ts > 0, v <= w PROVE new[v].ts > 0
    <3>1. CASE v = h
      BY <1>3, <1>4, <3>1
    <3>2. CASE v # h /\ w = h
      BY <1>3, <1>4, <1>9, <2>1, <3>2
    <3>3. CASE v # h /\ w # h
      BY <1>2, <1>3, <2>1, <3>3 DEF Packed
    <3> QED BY <3>1, <3>2, <3>3
  <2>2. ASSUME NEW w \in Way, new[w].ts = 0 PROVE new[w] = EmptyEntry
    BY <1>2, <1>3, <1>4, <2>2 DEF Packed
  <2> QED BY <2>1, <2>2 DEF Packed
<1> QED BY <1>3, <1>12, <1>13, <1>14, <1>15 DEF SetInv, FaithfulIn, m, new, s, pc

(* The entry to replace, and the entries before it, which are in use.       *)
LEMMA OldestFacts ==
  ASSUME NEW set \in [Way -> EntryType]
  PROVE  /\ Oldest(set) \in Way
         /\ \A v \in Way : set[Oldest(set)].ts <= set[v].ts
         /\ \A v \in Way : v < Oldest(set) => set[v].ts > 0
<1> DEFINE times == {set[v].ts : v \in Way}
           least == {w \in Way : \A v \in Way : set[w].ts <= set[v].ts}
<1>1. \A v \in Way : v \in Nat /\ set[v].ts \in Nat
  BY Sizes DEF Way, EntryType
<1>2. times \in SUBSET Nat /\ times # {}
  <2>1. 0 \in Way
    BY WidthsAssumption DEF Way
  <2> QED BY <1>1, <2>1
<1> HIDE DEF times
<1>3. Min(times) \in times /\ \A t \in times : Min(times) <= t
  BY <1>2, LeastMember
<1>4. PICK w \in Way : set[w].ts = Min(times)
  BY <1>3 DEF times
<1>5. w \in least
  BY <1>3, <1>4 DEF times
<1>6. least \in SUBSET Nat /\ least # {}
  BY <1>1, <1>5
<1>7. Oldest(set) = Min(least)
  BY DEF Oldest
<1>8. \A v \in Way : set[v].ts = 0 => v \in least
  <2>1. ASSUME NEW v \in Way, set[v].ts = 0 PROVE v \in least
    <3>1. \A x \in Way : set[v].ts <= set[x].ts
      BY <1>1, <2>1
    <3> QED BY <3>1
  <2> QED BY <2>1
<1>9. \A v \in least : v \in Way /\ \A x \in Way : set[v].ts <= set[x].ts
  OBVIOUS
<1> HIDE DEF least
<1>10. Min(least) \in least /\ \A v \in least : Min(least) <= v
  BY <1>6, LeastMember
<1>11. ASSUME NEW v \in Way, v < Min(least) PROVE set[v].ts > 0
  <2>1. Min(least) \in Nat /\ v \in Nat
    BY <1>1, <1>6, <1>10
  <2>2. set[v].ts # 0
    BY <1>8, <1>10, <1>11, <2>1
  <2> QED BY <1>1, <2>2
<1> QED BY <1>7, <1>9, <1>10, <1>11

(* What the clock of a set and the branch leave of an entry that was found. *)
LEMMA HitFacts ==
  ASSUME NEW l, LogOK(l), NEW pc \in Nat, NEW set, SetInv(l, SetOf(pc), set), Matching(set, pc) # {}
  PROVE  LET h == Min(Matching(set, pc)) IN
         /\ h \in Way /\ set[h].tag = pc
         /\ \A v \in Valid(set) : set[v].tag = pc => v = h
         /\ \A v \in Way : v < h => set[v].ts > 0
         /\ \/ h \in Valid(set)
            \/ set[h] = EmptyEntry /\ TakensIn(l, pc) = {}
<1> DEFINE hits == Matching(set, pc)
           h == Min(hits)
<1>1. set \in [Way -> EntryType] /\ FaithfulIn(l, SetOf(pc), set) /\ Packed(set)
  BY DEF SetInv
<1>2. \A v \in Way : v \in Nat /\ set[v].ts \in Nat
  BY <1>1, Sizes DEF Way, EntryType
<1>3. hits \in SUBSET Nat /\ hits # {}
  BY <1>2 DEF Matching
<1>4. \A v : v \in hits <=> v \in Way /\ set[v].tag = pc
  BY DEF Matching
<1> HIDE DEF hits
<1>5. h \in hits /\ \A v \in hits : h <= v
  BY <1>3, LeastMember
<1> HIDE DEF h
<1>6. h \in Way /\ set[h].tag = pc
  BY <1>4, <1>5
<1>7. ASSUME NEW v \in Valid(set), set[v].tag = pc PROVE v = h /\ h \in Valid(set)
  <2>1. v \in Way /\ set[v].ts > 0 /\ h <= v
    BY <1>4, <1>5, <1>7 DEF Valid
  <2>2. h \in Valid(set)
    BY <1>1, <1>6, <2>1 DEF Packed, Valid
  <2> QED BY <1>1, <1>6, <1>7, <2>2 DEF FaithfulIn
<1>8. ASSUME h \notin Valid(set) PROVE set[h] = EmptyEntry /\ TakensIn(l, pc) = {}
  <2>1. set[h].ts = 0
    BY <1>2, <1>6, <1>8 DEF Valid
  <2>2. set[h] = EmptyEntry
    BY <1>1, <1>6, <2>1 DEF Packed
  <2>3. ASSUME NEW n \in TakensIn(l, pc) PROVE FALSE
    <3>1. n \in DOMAIN l /\ l[n].met /\ l[n].branch.pc = pc /\ n \in Nat
      BY DEF TakensIn, LogOK
    <3>2. \/ \E w \in Valid(set) : set[w].tag = pc
          \/ \A w \in Way : set[w].ts > n
      BY <1>1, <3>1 DEF FaithfulIn, RememberedIn
    <3>3. ~(set[h].ts > n)
      BY <2>1, <3>1
    <3> QED BY <1>6, <1>7, <1>8, <3>2, <3>3
  <2> QED BY <2>2, <2>3
<1>9. ASSUME NEW v \in Way, v < h PROVE set[v].ts > 0
  <2>1. v \notin hits
    <3>1. v \in Nat /\ h \in Nat
      BY <1>2, <1>6
    <3> QED BY <1>5, <1>9, <3>1
  <2>2. CASE h \in Valid(set)
    <3>1. set[h].ts > 0 /\ v <= h
      BY <1>2, <1>6, <1>9, <2>2 DEF Valid
    <3> QED BY <1>1, <1>6, <3>1 DEF Packed
  <2>3. CASE h \notin Valid(set)
    <3>1. pc = 0
      BY <1>6, <1>8, <2>3 DEF EmptyEntry
    <3>2. ASSUME set[v].ts = 0 PROVE FALSE
      <4>1. set[v].tag = 0
        BY <1>1, <3>2 DEF Packed, EmptyEntry
      <4> QED BY <1>4, <2>1, <3>1, <4>1
    <3> QED BY <1>2, <3>2
  <2> QED BY <2>2, <2>3
<1> QED BY <1>6, <1>7, <1>8, <1>9 DEF h, hits

(* BTB::train: the set of the branch says of the log and the branch what it *)
(* said of the log.                                                         *)
RecordOf(set, b) ==
  [branch |-> b, known |-> KnownType(set, b), met |-> b.taken \/ Matching(set, b.pc) # {}]

LEMMA RecordTyped ==
  ASSUME NEW set \in [Way -> EntryType], NEW b \in Branch
  PROVE  RecordOf(set, b) \in Record /\ b.type \in KnownTypes
<1>1. b.type \in KnownTypes /\ b.taken \in BOOLEAN /\ b.pc \in Nat
  BY DEF Branch, KnownTypes
<1>2. \A v \in Way : v \in Nat /\ set[v].type \in KnownTypes
  BY Sizes DEF Way, EntryType
<1>3. ASSUME Matching(set, b.pc) # {} PROVE Min(Matching(set, b.pc)) \in Way
  <2>1. Matching(set, b.pc) \in SUBSET Way /\ Matching(set, b.pc) \in SUBSET Nat
    BY <1>2 DEF Matching
  <2>2. Min(Matching(set, b.pc)) \in Matching(set, b.pc)
    BY <1>3, <2>1, LeastMember
  <2> QED BY <2>1, <2>2
<1>4. "NonBranch" \in KnownTypes
  BY DEF KnownTypes
<1>5. KnownType(set, b) \in KnownTypes
  BY <1>1, <1>2, <1>3, <1>4 DEF KnownType
<1>6. (b.taken \/ Matching(set, b.pc) # {}) \in BOOLEAN
  OBVIOUS
<1> QED BY <1>1, <1>5, <1>6 DEF RecordOf, Record

LEMMA BtbStep ==
  ASSUME NEW l, LogOK(l), NEW b \in Branch, NEW set, SetInv(l, SetOf(b.pc), set), localTs = Len(l)
  PROVE  SetInv(Append(l, RecordOf(set, b)), SetOf(b.pc), BtbTrained(set, b))
<1> DEFINE r == RecordOf(set, b)
           hits == Matching(set, b.pc)
           h == Min(hits)
           m == Append(l, r)
           N == Len(l)
<1>1. set \in [Way -> EntryType] /\ l \in Seq(Record)
  BY DEF SetInv, LogOK
<1>2. r \in Record /\ b.type \in KnownTypes
  BY <1>1, RecordTyped
<1>3. r.branch = b /\ (r.met <=> b.taken \/ hits # {})
  BY DEF RecordOf
<1>4. b.pc \in Nat /\ b.target \in Nat /\ b.taken \in BOOLEAN
  BY DEF Branch
<1>5. N \in Nat /\ N + 1 \in Nat /\ localTs = N
  BY <1>1
<1>6. /\ m[N + 1] = r
      /\ TakensIn(m, b.pc) = IF b.taken THEN TakensIn(l, b.pc) \union {N + 1} ELSE TakensIn(l, b.pc)
      /\ TakensIn(l, b.pc) \in SUBSET (1..N)
      /\ \A n \in 1..N : m[n] = l[n]
  <2> HIDE DEF r
  <2>1. m[N + 1] = r /\ \A n \in 1..N : m[n] = l[n]
    BY <1>1, <1>2, LongerLog
  <2>2. /\ TakensIn(m, b.pc) = IF r.branch.taken /\ r.branch.pc = b.pc
                               THEN TakensIn(l, b.pc) \union {N + 1} ELSE TakensIn(l, b.pc)
        /\ TakensIn(l, b.pc) \in SUBSET (1..N)
    BY <1>1, <1>2, PlacesLonger
  <2> QED BY <1>3, <2>1, <2>2
<1>7. Filled(b) = [tag |-> b.pc, target |-> b.target, ts |-> N + 1, type |-> b.type]
  BY <1>5 DEF Filled
<1>8. BtbTrained(set, b) =
        IF b.taken THEN [set EXCEPT ![IF hits # {} THEN h ELSE Oldest(set)] = Filled(b)]
        ELSE IF hits # {} THEN [set EXCEPT ![h].ts = N + 1] ELSE set
  BY <1>5 DEF BtbTrained
<1>9. hits # {} =>
        /\ h \in Way /\ set[h].tag = b.pc
        /\ \A v \in Valid(set) : set[v].tag = b.pc => v = h
        /\ \A v \in Way : v < h => set[v].ts > 0
        /\ \/ h \in Valid(set)
           \/ set[h] = EmptyEntry /\ TakensIn(l, b.pc) = {}
  BY <1>4, HitFacts
<1>10. hits = {} => \A v \in Valid(set) : set[v].tag # b.pc
  BY DEF Matching, Valid
<1>11. SetInv(l, SetOf(r.branch.pc), set)
  BY <1>3
<1> HIDE DEF r, hits, h, m, N
<1>12. CASE b.taken
  <2> DEFINE e == [tag |-> b.pc, target |-> b.target, ts |-> N + 1, type |-> b.type]
  <2>1. e \in EntryType /\ e.tag = r.branch.pc /\ e.ts = Len(l) + 1
    BY <1>2, <1>3, <1>4, <1>5 DEF EntryType, N
  <2>2. LastTargetIn(Append(l, r), e)
    <3>1. N + 1 \in TakensIn(m, b.pc) /\ \A n \in TakensIn(m, b.pc) : n <= N + 1
      BY <1>5, <1>6, <1>12
    <3>2. IsLast(N + 1, TakensIn(m, e.tag))
      BY <3>1 DEF IsLast
    <3>3. e.target = m[N + 1].branch.target /\ e.type = m[N + 1].branch.type
      BY <1>3, <1>6
    <3> QED BY <3>1, <3>2, <3>3 DEF LastTargetIn, m
  <2> HIDE DEF e
  <2>3. CASE hits # {}
    <3>1. SetInv(Append(l, r), SetOf(r.branch.pc), [set EXCEPT ![h] = e])
      BY <1>2, <1>3, <1>9, <1>11, <1>12, <2>1, <2>2, <2>3, Learnt
    <3> QED BY <1>3, <1>7, <1>8, <1>12, <2>3, <3>1 DEF e, r
  <2>4. CASE hits = {}
    <3>1. /\ Oldest(set) \in Way
          /\ \A v \in Way : set[Oldest(set)].ts <= set[v].ts
          /\ \A v \in Way : v < Oldest(set) => set[v].ts > 0
      BY <1>1, OldestFacts
    <3>2. \A v \in Valid(set) : set[v].tag = r.branch.pc => v = Oldest(set)
      BY <1>3, <1>10, <2>4
    <3>3. SetInv(Append(l, r), SetOf(r.branch.pc), [set EXCEPT ![Oldest(set)] = e])
      BY <1>2, <1>3, <1>11, <1>12, <2>1, <2>2, <3>1, <3>2, Learnt
    <3> QED BY <1>3, <1>7, <1>8, <1>12, <2>4, <3>3 DEF e, r
  <2> QED BY <2>3, <2>4
<1>13. CASE ~b.taken /\ hits # {}
  <2> DEFINE e == [set[h] EXCEPT !.ts = N + 1]
  <2>1. set[h] \in EntryType
    BY <1>1, <1>9, <1>13
  <2>2. /\ e \in EntryType /\ e.tag = set[h].tag /\ e.ts = N + 1
        /\ e.target = set[h].target /\ e.type = set[h].type
    BY <1>5, <2>1 DEF EntryType
  <2>3. e.tag = r.branch.pc /\ e.ts = Len(l) + 1
    BY <1>3, <1>9, <1>13, <2>2 DEF N
  <2>4. TakensIn(m, e.tag) = TakensIn(l, set[h].tag)
    BY <1>6, <1>9, <1>13, <2>2
  <2>5. [set EXCEPT ![h].ts = N + 1] = [set EXCEPT ![h] = e]
    BY <1>1, <1>9, <1>13
  <2> HIDE DEF e
  <2>6. LastTargetIn(Append(l, r), e)
    <3>1. CASE h \in Valid(set)
      <4>1. LastTargetIn(l, set[h])
        BY <1>11, <3>1 DEF SetInv, FaithfulIn, EntryIn
      <4>2. \A n \in TakensIn(l, set[h].tag) : m[n] = l[n]
        BY <1>6, <1>9, <1>13
      <4> QED BY <2>2, <2>4, <4>1, <4>2 DEF LastTargetIn, m
    <3>2. CASE set[h] = EmptyEntry /\ TakensIn(l, b.pc) = {}
      BY <1>9, <1>13, <2>2, <2>4, <3>2 DEF LastTargetIn, EmptyEntry, m
    <3> QED BY <1>9, <1>13, <3>1, <3>2
  <2>7. SetInv(Append(l, r), SetOf(r.branch.pc), [set EXCEPT ![h] = e])
    BY <1>2, <1>3, <1>9, <1>11, <1>13, <2>2, <2>3, <2>6, Learnt
  <2> QED BY <1>3, <1>8, <1>13, <2>5, <2>7 DEF r
<1>14. CASE ~b.taken /\ hits = {}
  <2>1. ~r.met
    BY <1>3, <1>14
  <2>2. SetInv(Append(l, r), SetOf(b.pc), set)
    BY <1>2, <1>3, <1>11, <1>14, <2>1, OtherSet
  <2> QED BY <1>8, <1>14, <2>2 DEF r
<1> QED BY <1>12, <1>13, <1>14

-----------------------------------------------------------------------------
(* ---- the return address stack ------------------------------------------ *)
(* What the stack says of a given log.                                      *)
CallsOf(l, n, m) == {k \in n + 1..m : IsCall(l[k].branch)}
ReturnsOf(l, n, m) == {k \in n + 1..m : l[k].branch.type = "Return"}
NestingOf(l, n, m) == Cardinality(CallsOf(l, n, m)) - Cardinality(ReturnsOf(l, n, m))
OpenIn(l) == {n \in DOMAIN l : /\ IsCall(l[n].branch)
                               /\ \A m \in n..Len(l) : NestingOf(l, n, m) \in 0..RasDepth - 1}
PlaceIn(l, stack, n) == Len(stack) - NestingOf(l, n, Len(l))
StackIn(l, stack) ==
  /\ \A n \in OpenIn(l) : PlaceIn(l, stack, n) \in DOMAIN stack
                          /\ stack[PlaceIn(l, stack, n)] = l[n].branch.pc + 4
  /\ \A k \in DOMAIN stack : \E n \in OpenIn(l) : PlaceIn(l, stack, n) = k

LEMMA StackIs == StackFaithful <=> StackIn(log, ras)
<1>1. \A n, m : Nesting(n, m) = NestingOf(log, n, m)
  BY DEF Nesting, NestingOf, CallsIn, CallsOf, ReturnsIn, ReturnsOf
<1>2. Open = OpenIn(log)
  BY <1>1 DEF Open, OpenIn
<1>3. \A n : Place(n) = PlaceIn(log, ras, n)
  BY <1>1 DEF Place, PlaceIn
<1> QED BY <1>2, <1>3 DEF StackFaithful, StackIn

LEMMA MarkedFinite ==
  ASSUME NEW n \in Nat, NEW m \in Nat, NEW S \in SUBSET (n + 1..m)
  PROVE  IsFiniteSet(S) /\ Cardinality(S) \in Nat
<1>1. IsFiniteSet(n + 1..m)
  BY FS_Interval
<1>2. IsFiniteSet(S)
  BY <1>1, FS_Subset
<1> QED BY <1>2, FS_CardinalityType

(* How one more branch nests the calls before it.                           *)
Deeper(b) == IF IsCall(b) THEN 1 ELSE IF b.type = "Return" THEN -1 ELSE 0

LEMMA NestingStep ==
  ASSUME NEW l \in Seq(Record), NEW r \in Record, NEW n \in DOMAIN l
  PROVE  LET x == Append(l, r)
             N == Len(l)
         IN /\ \A m \in n..N : NestingOf(x, n, m) = NestingOf(l, n, m) /\ NestingOf(l, n, m) \in Int
            /\ NestingOf(x, n, N + 1) = NestingOf(l, n, N) + Deeper(r.branch)
<1> DEFINE x == Append(l, r)
           N == Len(l)
<1>1. /\ N \in Nat /\ DOMAIN l = 1..N /\ DOMAIN x = 1..N + 1
      /\ \A k \in 1..N : x[k] = l[k]
      /\ x[N + 1] = r
  BY LongerLog
<1>2. n \in 1..N /\ n \in Nat
  BY <1>1
<1> HIDE DEF x, N
<1>3. ASSUME NEW m \in n..N
      PROVE  CallsOf(x, n, m) = CallsOf(l, n, m) /\ ReturnsOf(x, n, m) = ReturnsOf(l, n, m)
  <2>1. \A k \in n + 1..m : x[k] = l[k]
    BY <1>1, <1>2
  <2> QED BY <2>1 DEF CallsOf, ReturnsOf
<1>4. ASSUME NEW m \in n..N
      PROVE  Cardinality(CallsOf(l, n, m)) \in Nat /\ Cardinality(ReturnsOf(l, n, m)) \in Nat
  <2>1. m \in Nat /\ CallsOf(l, n, m) \in SUBSET (n + 1..m) /\ ReturnsOf(l, n, m) \in SUBSET (n + 1..m)
    BY <1>1, <1>2 DEF CallsOf, ReturnsOf
  <2> QED BY <1>2, <2>1, MarkedFinite
<1>5. N \in n..N
  BY <1>1, <1>2
<1>6. /\ CallsOf(l, n, N) \in SUBSET (n + 1..N) /\ ReturnsOf(l, n, N) \in SUBSET (n + 1..N)
      /\ IsFiniteSet(CallsOf(l, n, N)) /\ IsFiniteSet(ReturnsOf(l, n, N))
  <2>1. CallsOf(l, n, N) \in SUBSET (n + 1..N) /\ ReturnsOf(l, n, N) \in SUBSET (n + 1..N)
    BY DEF CallsOf, ReturnsOf
  <2> QED BY <1>1, <1>2, <2>1, MarkedFinite
<1>7. n + 1..N + 1 = (n + 1..N) \union {N + 1} /\ N + 1 \notin n + 1..N
  BY <1>1, <1>2
<1>8. /\ CallsOf(x, n, N + 1) = IF IsCall(r.branch) THEN CallsOf(l, n, N) \union {N + 1} ELSE CallsOf(l, n, N)
      /\ ReturnsOf(x, n, N + 1) = IF r.branch.type = "Return" THEN ReturnsOf(l, n, N) \union {N + 1}
                                  ELSE ReturnsOf(l, n, N)
  <2>1. \A k \in n + 1..N : x[k] = l[k]
    BY <1>1, <1>2
  <2> QED BY <1>1, <1>7, <2>1 DEF CallsOf, ReturnsOf
<1>9. /\ Cardinality(CallsOf(l, n, N) \union {N + 1}) = Cardinality(CallsOf(l, n, N)) + 1
      /\ Cardinality(ReturnsOf(l, n, N) \union {N + 1}) = Cardinality(ReturnsOf(l, n, N)) + 1
  <2>1. N + 1 \notin CallsOf(l, n, N) /\ N + 1 \notin ReturnsOf(l, n, N)
    BY <1>6, <1>7
  <2> QED BY <1>6, <2>1, FS_AddElement
<1>10. \A m \in n..N : NestingOf(x, n, m) = NestingOf(l, n, m) /\ NestingOf(l, n, m) \in Int
  BY <1>3, <1>4 DEF NestingOf
<1>11. NestingOf(x, n, N + 1) = NestingOf(l, n, N) + Deeper(r.branch)
  <2>1. ~(IsCall(r.branch) /\ r.branch.type = "Return")
    BY DEF IsCall, CallTypes
  <2>2. Cardinality(CallsOf(l, n, N)) \in Nat /\ Cardinality(ReturnsOf(l, n, N)) \in Nat
    BY <1>4, <1>5
  <2> QED BY <1>8, <1>9, <2>1, <2>2 DEF NestingOf, Deeper
<1> QED BY <1>10, <1>11 DEF x, N

LEMMA OpenStep ==
  ASSUME NEW l \in Seq(Record), NEW r \in Record
  PROVE  LET x == Append(l, r)
             N == Len(l)
         IN /\ \A n \in 1..N :
                 /\ n \in OpenIn(l) =>
                      /\ IsCall(l[n].branch) /\ x[n] = l[n]
                      /\ NestingOf(l, n, N) \in 0..RasDepth - 1
                      /\ NestingOf(x, n, N + 1) = NestingOf(l, n, N) + Deeper(r.branch)
                 /\ n \in OpenIn(x) <=>
                      n \in OpenIn(l) /\ NestingOf(l, n, N) + Deeper(r.branch) \in 0..RasDepth - 1
            /\ N + 1 \in OpenIn(x) <=> IsCall(r.branch)
            /\ NestingOf(x, N + 1, N + 1) = 0
            /\ OpenIn(l) \in SUBSET (1..N) /\ OpenIn(x) \in SUBSET (1..N + 1)
            /\ Len(x) = N + 1 /\ x[N + 1] = r
<1> DEFINE x == Append(l, r)
           N == Len(l)
<1>1. /\ N \in Nat /\ DOMAIN l = 1..N /\ DOMAIN x = 1..N + 1 /\ Len(x) = N + 1
      /\ \A k \in 1..N : x[k] = l[k]
      /\ x[N + 1] = r
  BY LongerLog
<1>2. ASSUME NEW n \in 1..N
      PROVE  /\ \A m \in n..N : NestingOf(x, n, m) = NestingOf(l, n, m) /\ NestingOf(l, n, m) \in Int
             /\ NestingOf(x, n, N + 1) = NestingOf(l, n, N) + Deeper(r.branch)
  BY <1>1, NestingStep
<1>3. NestingOf(x, N + 1, N + 1) = 0
  <2>1. N + 1 + 1..N + 1 = {}
    BY <1>1
  <2> HIDE DEF x, N
  <2>2. CallsOf(x, N + 1, N + 1) = {} /\ ReturnsOf(x, N + 1, N + 1) = {}
    BY <2>1 DEF CallsOf, ReturnsOf
  <2>3. Cardinality(CallsOf(x, N + 1, N + 1)) = 0 /\ Cardinality(ReturnsOf(x, N + 1, N + 1)) = 0
    BY <2>2, FS_EmptySet
  <2> QED BY <2>3 DEF NestingOf
<1>4. RasDepth \in Nat /\ RasDepth > 0
  BY WidthsAssumption
<1> HIDE DEF x, N
<1>5. OpenIn(l) \in SUBSET (1..N) /\ OpenIn(x) \in SUBSET (1..N + 1)
  BY <1>1 DEF OpenIn
<1>6. N + 1 \in OpenIn(x) <=> IsCall(r.branch)
  <2>1. \A m \in N + 1..N + 1 : m = N + 1
    BY <1>1
  <2>2. 0 \in 0..RasDepth - 1
    BY <1>4
  <2> QED BY <1>1, <1>3, <2>1, <2>2 DEF OpenIn
<1>7. ASSUME NEW n \in 1..N, n \in OpenIn(l)
      PROVE  /\ IsCall(l[n].branch) /\ x[n] = l[n]
             /\ NestingOf(l, n, N) \in 0..RasDepth - 1
             /\ NestingOf(x, n, N + 1) = NestingOf(l, n, N) + Deeper(r.branch)
  <2>1. N \in n..N
    BY <1>1
  <2>2. NestingOf(l, n, N) \in 0..RasDepth - 1 /\ IsCall(l[n].branch)
    BY <1>7, <2>1 DEF OpenIn, N
  <2> QED BY <1>1, <1>2, <2>2
<1>8. ASSUME NEW n \in 1..N
      PROVE  n \in OpenIn(x) <=>
               n \in OpenIn(l) /\ NestingOf(l, n, N) + Deeper(r.branch) \in 0..RasDepth - 1
  <2>1. \A m : m \in n..N + 1 <=> m \in n..N \/ m = N + 1
    BY <1>1
  <2>2. n \in DOMAIN x /\ n \in DOMAIN l /\ x[n] = l[n]
    BY <1>1
  <2>3. (\A m \in n..Len(x) : NestingOf(x, n, m) \in 0..RasDepth - 1) <=>
           /\ \A m \in n..Len(l) : NestingOf(l, n, m) \in 0..RasDepth - 1
           /\ NestingOf(l, n, N) + Deeper(r.branch) \in 0..RasDepth - 1
    BY <1>1, <1>2, <2>1 DEF N
  <2> QED BY <2>2, <2>3 DEF OpenIn
<1> QED BY <1>1, <1>3, <1>5, <1>6, <1>7, <1>8 DEF x, N

(* ReturnAddressStack::train.                                               *)
Stacked(stack, b) ==
  IF IsCall(b) THEN Pushed(stack, b.pc + 4) ELSE IF b.type = "Return" THEN Popped(stack) ELSE stack

LEMMA StackStep ==
  ASSUME NEW l \in Seq(Record), NEW r \in Record, NEW stack \in Seq(Nat), StackIn(l, stack)
  PROVE  Stacked(stack, r.branch) \in Seq(Nat) /\ StackIn(Append(l, r), Stacked(stack, r.branch))
<1> DEFINE x == Append(l, r)
           N == Len(l)
           S == Len(stack)
           new == Stacked(stack, r.branch)
           d == Deeper(r.branch)
           D == RasDepth
<1>1. /\ N \in Nat /\ S \in Nat /\ DOMAIN stack = 1..S /\ D \in Nat /\ D > 0
      /\ r.branch.pc \in Nat /\ r.branch.pc + 4 \in Nat
  BY WidthsAssumption DEF Record, Branch
<1>2. /\ \A n \in 1..N :
           /\ n \in OpenIn(l) =>
                /\ IsCall(l[n].branch) /\ x[n] = l[n]
                /\ NestingOf(l, n, N) \in 0..D - 1
                /\ NestingOf(x, n, N + 1) = NestingOf(l, n, N) + d
           /\ n \in OpenIn(x) <=> n \in OpenIn(l) /\ NestingOf(l, n, N) + d \in 0..D - 1
      /\ N + 1 \in OpenIn(x) <=> IsCall(r.branch)
      /\ NestingOf(x, N + 1, N + 1) = 0
      /\ OpenIn(l) \in SUBSET (1..N) /\ OpenIn(x) \in SUBSET (1..N + 1)
      /\ Len(x) = N + 1 /\ x[N + 1] = r
  BY OpenStep
<1>3. /\ \A n \in OpenIn(l) : S - NestingOf(l, n, N) \in 1..S
                              /\ stack[S - NestingOf(l, n, N)] = l[n].branch.pc + 4
      /\ \A k \in 1..S : \E n \in OpenIn(l) : S - NestingOf(l, n, N) = k
  BY <1>1 DEF StackIn, PlaceIn
<1>4. S <= D
  <2>1. CASE S = 0
    BY <1>1, <2>1
  <2>2. CASE S > 0
    <3>1. 1 \in 1..S
      BY <1>1, <2>2
    <3>2. PICK n \in OpenIn(l) : S - NestingOf(l, n, N) = 1
      BY <1>3, <3>1
    <3>3. NestingOf(l, n, N) \in 0..D - 1
      BY <1>2
    <3> QED BY <1>1, <3>2, <3>3
  <2> QED BY <1>1, <2>1, <2>2
<1>5. /\ d = IF IsCall(r.branch) THEN 1 ELSE IF r.branch.type = "Return" THEN -1 ELSE 0
      /\ new = IF IsCall(r.branch) THEN Pushed(stack, r.branch.pc + 4)
               ELSE IF r.branch.type = "Return" THEN Popped(stack) ELSE stack
  BY DEF Deeper, Stacked
<1>6. SUFFICES new \in Seq(Nat) /\ StackIn(x, new)
  OBVIOUS
<1> HIDE DEF x, N, S, new, d, D
(* What is left to show, in terms of the places.                            *)
<1>7. ASSUME new \in Seq(Nat),
             \A n \in 1..N : n \in OpenIn(l) /\ NestingOf(l, n, N) + d \in 0..D - 1 =>
               /\ Len(new) - (NestingOf(l, n, N) + d) \in 1..Len(new)
               /\ new[Len(new) - (NestingOf(l, n, N) + d)] = l[n].branch.pc + 4,
             IsCall(r.branch) => Len(new) > 0 /\ new[Len(new)] = r.branch.pc + 4,
             \A k \in 1..Len(new) :
               \/ IsCall(r.branch) /\ k = Len(new)
               \/ \E n \in OpenIn(l) : /\ NestingOf(l, n, N) + d \in 0..D - 1
                                       /\ Len(new) - (NestingOf(l, n, N) + d) = k
      PROVE  StackIn(x, new)
  <2>1. DOMAIN new = 1..Len(new) /\ Len(new) \in Nat
    BY <1>7
  <2>2. ASSUME NEW n \in OpenIn(x)
        PROVE  PlaceIn(x, new, n) \in DOMAIN new /\ new[PlaceIn(x, new, n)] = x[n].branch.pc + 4
    <3>1. CASE n \in 1..N
      <4>1. n \in OpenIn(l) /\ NestingOf(l, n, N) + d \in 0..D - 1
        BY <1>2, <3>1
      <4>2. x[n] = l[n] /\ PlaceIn(x, new, n) = Len(new) - (NestingOf(l, n, N) + d)
        BY <1>2, <3>1, <4>1 DEF PlaceIn
      <4> QED BY <1>7, <2>1, <3>1, <4>1, <4>2
    <3>2. CASE n = N + 1
      <4>1. IsCall(r.branch) /\ PlaceIn(x, new, n) = Len(new) /\ x[n] = r
        BY <1>2, <2>1, <3>2 DEF PlaceIn
      <4> QED BY <1>7, <2>1, <4>1
    <3> QED BY <1>1, <1>2, <3>1, <3>2
  <2>3. ASSUME NEW k \in 1..Len(new) PROVE \E n \in OpenIn(x) : PlaceIn(x, new, n) = k
    <3>1. CASE IsCall(r.branch) /\ k = Len(new)
      BY <1>2, <2>1, <3>1 DEF PlaceIn
    <3>2. CASE \E n \in OpenIn(l) : /\ NestingOf(l, n, N) + d \in 0..D - 1
                                    /\ Len(new) - (NestingOf(l, n, N) + d) = k
      <4>1. PICK n \in OpenIn(l) : /\ NestingOf(l, n, N) + d \in 0..D - 1
                                   /\ Len(new) - (NestingOf(l, n, N) + d) = k
        BY <3>2
      <4>2. n \in 1..N
        BY <1>2
      <4>3. n \in OpenIn(x) /\ PlaceIn(x, new, n) = k
        BY <1>2, <4>1, <4>2 DEF PlaceIn
      <4> QED BY <4>3
    <3> QED BY <1>7, <3>1, <3>2
  <2> QED BY <2>1, <2>2, <2>3 DEF StackIn
<1>8. \A n \in OpenIn(l) : n \in 1..N /\ NestingOf(l, n, N) \in 0..D - 1
  BY <1>2
<1>9. CASE IsCall(r.branch) /\ S # D
  <2>1. new = Append(stack, r.branch.pc + 4)
    BY <1>5, <1>9 DEF Pushed, S, D
  <2>2. /\ new \in Seq(Nat) /\ Len(new) = S + 1 /\ new[S + 1] = r.branch.pc + 4
        /\ \A k \in 1..S : new[k] = stack[k]
    BY <1>1, <2>1 DEF S
  <2>3. d = 1
    BY <1>5, <1>9
  <2>4. ASSUME NEW n \in OpenIn(l)
        PROVE  /\ NestingOf(l, n, N) + 1 \in 0..D - 1
               /\ S + 1 - (NestingOf(l, n, N) + 1) = S - NestingOf(l, n, N)
               /\ S - NestingOf(l, n, N) \in 1..S
    BY <1>1, <1>3, <1>4, <1>8, <1>9
  <2>5. \A k \in 1..S + 1 : k = S + 1 \/ k \in 1..S
    BY <1>1
  <2>6. ASSUME NEW n \in OpenIn(l)
        PROVE  /\ Len(new) - (NestingOf(l, n, N) + d) \in 1..Len(new)
               /\ new[Len(new) - (NestingOf(l, n, N) + d)] = l[n].branch.pc + 4
    <3>1. Len(new) - (NestingOf(l, n, N) + d) = S - NestingOf(l, n, N)
      BY <1>1, <1>8, <2>2, <2>3, <2>4
    <3>2. S - NestingOf(l, n, N) \in 1..S /\ S - NestingOf(l, n, N) \in 1..Len(new)
      BY <1>1, <2>2, <2>4
    <3>3. new[S - NestingOf(l, n, N)] = l[n].branch.pc + 4
      BY <1>3, <2>2, <3>2
    <3> QED BY <3>1, <3>2, <3>3
  <2>7. ASSUME NEW k \in 1..Len(new), k # Len(new)
        PROVE  \E n \in OpenIn(l) : /\ NestingOf(l, n, N) + d \in 0..D - 1
                                    /\ Len(new) - (NestingOf(l, n, N) + d) = k
    <3>1. k \in 1..S
      BY <2>2, <2>5, <2>7
    <3>2. PICK n \in OpenIn(l) : S - NestingOf(l, n, N) = k
      BY <1>3, <3>1
    <3>3. NestingOf(l, n, N) + d \in 0..D - 1 /\ Len(new) - (NestingOf(l, n, N) + d) = k
      BY <1>1, <1>8, <2>2, <2>3, <2>4, <3>2
    <3> QED BY <3>3
  <2> QED BY <1>1, <1>7, <1>9, <2>2, <2>6, <2>7
<1>10. CASE IsCall(r.branch) /\ S = D
  <2>1. new = Append(Tail(stack), r.branch.pc + 4)
    BY <1>5, <1>10 DEF Pushed, S, D
  <2>2. Tail(stack) \in Seq(Nat) /\ Len(Tail(stack)) = S - 1 /\ \A k \in 1..S - 1 : Tail(stack)[k] = stack[k + 1]
    BY <1>1, <1>10 DEF S
  <2>3. /\ new \in Seq(Nat) /\ Len(new) = S /\ new[S] = r.branch.pc + 4
        /\ \A k \in 1..S - 1 : new[k] = stack[k + 1]
    BY <1>1, <1>10, <2>1, <2>2
  <2>4. d = 1
    BY <1>5, <1>10
  <2>5. ASSUME NEW n \in OpenIn(l), NestingOf(l, n, N) + d \in 0..D - 1
        PROVE  /\ Len(new) - (NestingOf(l, n, N) + d) \in 1..Len(new)
               /\ new[Len(new) - (NestingOf(l, n, N) + d)] = l[n].branch.pc + 4
    <3>1. S - (NestingOf(l, n, N) + 1) \in 1..S - 1
      BY <1>1, <1>8, <1>10, <2>4, <2>5
    <3>2. S - (NestingOf(l, n, N) + 1) + 1 = S - NestingOf(l, n, N)
      BY <1>1, <1>8
    <3>3. new[S - (NestingOf(l, n, N) + 1)] = l[n].branch.pc + 4
      BY <1>3, <2>3, <3>1, <3>2
    <3> QED BY <1>1, <2>3, <2>4, <3>1, <3>3
  <2>6. ASSUME NEW k \in 1..Len(new), k # Len(new)
        PROVE  \E n \in OpenIn(l) : /\ NestingOf(l, n, N) + d \in 0..D - 1
                                    /\ Len(new) - (NestingOf(l, n, N) + d) = k
    <3>1. k + 1 \in 1..S /\ k \in 1..S - 1
      BY <1>1, <2>3, <2>6
    <3>2. PICK n \in OpenIn(l) : S - NestingOf(l, n, N) = k + 1
      BY <1>3, <3>1
    <3>3. NestingOf(l, n, N) \in Int
      BY <1>8
    <3>4. NestingOf(l, n, N) = S - (k + 1)
      BY <1>1, <3>1, <3>2, <3>3
    <3>5. NestingOf(l, n, N) + 1 \in 0..D - 1 /\ S - (NestingOf(l, n, N) + 1) = k
      BY <1>1, <1>10, <3>1, <3>4
    <3> QED BY <2>3, <2>4, <3>5
  <2> QED BY <1>1, <1>7, <1>10, <2>3, <2>5, <2>6
<1>11. CASE r.branch.type = "Return" /\ ~IsCall(r.branch) /\ stack = <<>>
  <2>1. new = <<>> /\ S = 0
    BY <1>5, <1>11 DEF Popped, S
  <2>2. OpenIn(l) = {}
    BY <1>3, <2>1
  <2> QED BY <1>7, <1>11, <2>1, <2>2
<1>12. CASE r.branch.type = "Return" /\ ~IsCall(r.branch) /\ stack # <<>>
  <2>1. new = Front(stack)
    BY <1>5, <1>12 DEF Popped
  <2>2. new = [k \in 1..S - 1 |-> stack[k]] /\ S > 0
    BY <1>1, <1>12, <2>1 DEF Front, S
  <2>3. new \in Seq(Nat) /\ Len(new) = S - 1 /\ \A k \in 1..S - 1 : new[k] = stack[k]
    BY <1>1, <2>2 DEF S
  <2>4. d = -1
    BY <1>5, <1>12
  <2>5. ASSUME NEW n \in OpenIn(l), NestingOf(l, n, N) + d \in 0..D - 1
        PROVE  /\ Len(new) - (NestingOf(l, n, N) + d) \in 1..Len(new)
               /\ new[Len(new) - (NestingOf(l, n, N) + d)] = l[n].branch.pc + 4
    <3>1. S - NestingOf(l, n, N) \in 1..S - 1
      BY <1>1, <1>3, <1>8, <2>4, <2>5
    <3>2. S - 1 - (NestingOf(l, n, N) + d) = S - NestingOf(l, n, N)
      BY <1>1, <1>8, <2>4
    <3> QED BY <1>3, <2>3, <3>1, <3>2
  <2>6. ASSUME NEW k \in 1..Len(new)
        PROVE  \E n \in OpenIn(l) : /\ NestingOf(l, n, N) + d \in 0..D - 1
                                    /\ Len(new) - (NestingOf(l, n, N) + d) = k
    <3>1. k \in 1..S /\ k < S /\ k \in Nat
      BY <1>1, <2>3
    <3>2. PICK n \in OpenIn(l) : S - NestingOf(l, n, N) = k
      BY <1>3, <3>1
    <3>3. NestingOf(l, n, N) \in 0..D - 1
      BY <1>8
    <3>4. NestingOf(l, n, N) + d \in 0..D - 1 /\ S - 1 - (NestingOf(l, n, N) + d) = k
      BY <1>1, <2>4, <3>1, <3>2, <3>3
    <3> QED BY <2>3, <3>4
  <2> QED BY <1>7, <1>12, <2>3, <2>5, <2>6
<1>13. CASE r.branch.type # "Return" /\ ~IsCall(r.branch)
  <2>1. new = stack /\ d = 0 /\ Len(new) = S
    BY <1>5, <1>13 DEF S
  <2>2. \A n \in OpenIn(l) : NestingOf(l, n, N) + d = NestingOf(l, n, N)
    BY <1>8, <2>1
  <2> QED BY <1>3, <1>7, <1>8, <1>13, <2>1, <2>2
<1> QED BY <1>4, <1>7, <1>9, <1>10, <1>11, <1>12, <1>13

-----------------------------------------------------------------------------
(* ---- the inductive invariant ------------------------------------------- *)
IndInv ==
  /\ TypeOK
  /\ LogOK(log)
  /\ HistoryIs(tage, Outcomes, Path)
  /\ \A s \in 0..BtbSets - 1 : SetInv(log, s, btb[s])
  /\ StackIn(log, ras)

LEMMA SetOfType ==
  ASSUME NEW pc \in Nat
  PROVE  SetOf(pc) \in 0..BtbSets - 1
<1>1. pc \div 4 \in Nat
  BY Division
<1> QED BY <1>1, Sizes, RemainderOf, Division DEF SetOf

LEMMA InitInv == Init => IndInv
<1> SUFFICES ASSUME Init PROVE IndInv
  OBVIOUS
<1>1. /\ program \in Programs /\ btb = [s \in 0..BtbSets - 1 |-> [w \in Way |-> EmptyEntry]]
      /\ localTs = 0 /\ ras = <<>> /\ tage = NewTage /\ log = <<>>
  BY DEF Init
<1>2. EmptyEntry \in EntryType /\ [w \in Way |-> EmptyEntry] \in [Way -> EntryType]
  BY DEF EmptyEntry, EntryType, KnownTypes
<1>3. TypeOK
  BY <1>1, <1>2, NewTageFacts DEF TypeOK
<1>4. LogOK(log)
  BY <1>1 DEF LogOK
<1>5. Outcomes = {} /\ Path = {}
  BY <1>1 DEF Outcomes, Path, Recorded
<1>6. HistoryIs(tage, Outcomes, Path)
  BY <1>1, <1>5, NewTageFacts
<1>7. ASSUME NEW s \in 0..BtbSets - 1 PROVE SetInv(log, s, btb[s])
  <2>1. btb[s] = [w \in Way |-> EmptyEntry]
    BY <1>1
  <2>2. Valid(btb[s]) = {}
    BY <2>1 DEF Valid, EmptyEntry
  <2>3. FaithfulIn(log, s, btb[s])
    BY <1>1, <2>2 DEF FaithfulIn
  <2>4. Packed(btb[s])
    BY <2>1 DEF Packed, EmptyEntry
  <2> QED BY <1>2, <2>1, <2>3, <2>4 DEF SetInv
<1>8. StackIn(log, ras)
  BY <1>1 DEF StackIn, OpenIn
<1> QED BY <1>3, <1>4, <1>6, <1>7, <1>8 DEF IndInv

(* What one resolved branch does, in the words of the lemmas.               *)
LEMMA TrainIs ==
  ASSUME NEW b \in Branch, Train(b)
  PROVE  LET s == SetOf(b.pc)
             r == RecordOf(btb[s], b)
         IN /\ btb' = [btb EXCEPT ![s] = BtbTrained(btb[s], b)]
            /\ localTs' = localTs + 1
            /\ tage' = IF r.known = "Conditional" THEN Trained(tage, b) ELSE UpdateHistory(tage, b)
            /\ ras' = Stacked(ras, b)
            /\ log' = Append(log, r)
            /\ r.branch = b /\ r.known = KnownType(btb[s], b)
            /\ program' = program
BY DEF Train, RecordOf, Stacked

LEMMA TrainInv ==
  ASSUME IndInv, NEW b \in Branch, Train(b)
  PROVE  IndInv'
<1> DEFINE s == SetOf(b.pc)
           r == RecordOf(btb[s], b)
<1>1. b.pc \in Nat /\ s \in 0..BtbSets - 1
  BY SetOfType DEF Branch
<1>2. /\ btb' = [btb EXCEPT ![s] = BtbTrained(btb[s], b)]
      /\ localTs' = localTs + 1
      /\ tage' = IF r.known = "Conditional" THEN Trained(tage, b) ELSE UpdateHistory(tage, b)
      /\ ras' = Stacked(ras, b)
      /\ log' = Append(log, r)
      /\ r.branch = b /\ program' = program
  BY TrainIs
<1>3. /\ program \in Programs /\ btb \in [0..BtbSets - 1 -> [Way -> EntryType]]
      /\ log \in Seq(Record) /\ localTs = Len(log) /\ ras \in Seq(Nat) /\ tage \in TageType
  BY DEF IndInv, TypeOK, Record
<1>4. r \in Record
  BY <1>1, <1>3, RecordTyped
<1>5. r.branch.taken => r.met
  BY DEF RecordOf
<1>6. \A c \in 0..BtbSets - 1 : SetInv(log, c, btb[c])
  BY DEF IndInv
<1>7. SetInv(Append(log, r), s, BtbTrained(btb[s], b))
  BY <1>1, <1>3, <1>6, BtbStep DEF IndInv
<1> HIDE DEF s, r
<1>8. log' \in Seq(Record) /\ localTs' = Len(log') /\ LogOK(log')
  <2>1. /\ log' \in Seq(Record) /\ Len(log') = Len(log) + 1 /\ DOMAIN log = 1..Len(log)
        /\ DOMAIN log' = 1..Len(log) + 1 /\ log'[Len(log) + 1] = r
        /\ \A n \in 1..Len(log) : log'[n] = log[n]
        /\ Len(log) \in Nat
    BY <1>2, <1>3, <1>4, LongerLog
  <2>2. \A n \in 1..Len(log) : log[n].branch.taken => log[n].met
    BY <2>1 DEF IndInv, LogOK
  <2>3. \A n \in 1..Len(log) + 1 : n \in 1..Len(log) \/ n = Len(log) + 1
    BY <2>1
  <2> QED BY <1>2, <1>3, <1>5, <2>1, <2>2, <2>3 DEF LogOK
<1>9. /\ btb' \in [0..BtbSets - 1 -> [Way -> EntryType]]
      /\ \A c \in 0..BtbSets - 1 : SetInv(log', c, btb'[c])
  <2>1. BtbTrained(btb[s], b) \in [Way -> EntryType]
    BY <1>7 DEF SetInv
  <2>2. btb' \in [0..BtbSets - 1 -> [Way -> EntryType]]
    BY <1>1, <1>2, <1>3, <2>1
  <2>3. ASSUME NEW c \in 0..BtbSets - 1 PROVE SetInv(log', c, btb'[c])
    <3>1. CASE c = s
      BY <1>1, <1>2, <1>3, <1>7, <3>1
    <3>2. CASE c # s
      <4>1. btb'[c] = btb[c]
        BY <1>1, <1>2, <1>3, <3>2
      <4>2. SetOf(r.branch.pc) # c
        BY <1>2, <3>2 DEF s
      <4>3. SetInv(Append(log, r), c, btb[c])
        BY <1>4, <1>5, <1>6, <4>2, OtherSet DEF IndInv
      <4> QED BY <1>2, <4>1, <4>3
    <3> QED BY <3>1, <3>2
  <2> QED BY <2>2, <2>3
<1>10. ras' \in Seq(Nat) /\ StackIn(log', ras')
  BY <1>2, <1>3, <1>4, StackStep DEF IndInv
<1>11. Outcomes \in SUBSET Nat /\ Path \in SUBSET Nat /\ HistoryIs(tage, Outcomes, Path)
  BY <1>3, AgesTyped DEF IndInv, Record
<1>12. /\ Records(r) =>
            /\ Outcomes' = Left(Outcomes, 1) \union (IF b.taken THEN {0} ELSE {})
            /\ Path' = Left(Path, 1) \union Lowest(Bits(b.pc \div 4, WordBits))
       /\ ~Records(r) => Outcomes' = Outcomes /\ Path' = Path
  BY <1>2, <1>3, <1>4, RecordedStep DEF Record
<1>13. tage' \in TageType /\ IF Records(r) THEN Advances(tage, tage', b) ELSE SameHistory(tage, tage')
  <2>1. CASE r.known = "Conditional"
    <3>1. /\ tage' \in TageType
          /\ IF b.type = "Conditional" THEN Advances(tage, tage', b) ELSE SameHistory(tage, tage')
      BY <1>2, <1>3, <2>1, TrainedFacts
    <3> QED BY <1>2, <2>1, <3>1 DEF Records
  <2>2. CASE r.known # "Conditional"
    <3>1. tage' \in TageType /\ Advances(tage, tage', b)
      BY <1>2, <1>3, <2>2, UpdateFacts
    <3> QED BY <2>2, <3>1 DEF Records
  <2> QED BY <2>1, <2>2
<1>14. HistoryIs(tage', Outcomes', Path')
  <2>1. CASE Records(r)
    BY <1>11, <1>12, <1>13, <2>1, HistoryAdvances
  <2>2. CASE ~Records(r)
    BY <1>11, <1>12, <1>13, <2>2 DEF SameHistory, HistoryIs
  <2> QED BY <2>1, <2>2
<1>15. TypeOK'
  BY <1>2, <1>3, <1>8, <1>9, <1>10, <1>13 DEF TypeOK, Record
<1> QED BY <1>8, <1>9, <1>10, <1>14, <1>15 DEF IndInv

LEMMA BranchesTyped ==
  ASSUME TypeOK, NEW b \in program.branches
  PROVE  b \in Branch
BY ProgramsAssumption DEF TypeOK

LEMMA NextInv == IndInv /\ [Next \/ Halted]_vars => IndInv'
<1> SUFFICES ASSUME IndInv, [Next \/ Halted]_vars PROVE IndInv'
  OBVIOUS
<1>1. CASE Next
  <2>1. PICK b \in program.branches : Train(b)
    BY <1>1 DEF Next
  <2> QED BY <2>1, BranchesTyped, TrainInv DEF IndInv
<1>2. CASE UNCHANGED vars
  BY <1>2 DEF IndInv, TypeOK, Outcomes, Path, Recorded, Age, vars
<1> QED BY <1>1, <1>2 DEF Halted

LEMMA InvSpared ==
  ASSUME IndInv, [Next \/ Halted]_vars
  PROVE  [SparesUseful(Last(log').branch, Predict(tage, Last(log').branch.pc))]_log
<1> SUFFICES ASSUME Next
             PROVE  SparesUseful(Last(log').branch, Predict(tage, Last(log').branch.pc))
  BY DEF Halted, vars
<1>1. PICK b \in program.branches : Train(b)
  BY DEF Next
<1>2. b \in Branch /\ tage \in TageType
  BY BranchesTyped DEF IndInv, TypeOK
<1> DEFINE r == RecordOf(btb[SetOf(b.pc)], b)
           p == Predict(tage, b.pc)
<1>3. /\ tage' = IF r.known = "Conditional" THEN Trained(tage, b) ELSE UpdateHistory(tage, b)
      /\ log' = Append(log, r) /\ r.branch = b
  BY <1>1, <1>2, TrainIs
<1> HIDE DEF r
<1>4. Last(log').branch = b
  <2>1. log \in Seq(Record)
    BY DEF IndInv, LogOK
  <2>2. Len(log') = Len(log) + 1 /\ log'[Len(log) + 1] = r
    BY <1>3, <2>1
  <2> QED BY <1>3, <2>2 DEF Last
<1>5. ReplacesOne(tage, tage', b, p)
  <2>1. CASE r.known = "Conditional"
    BY <1>2, <1>3, <2>1, TrainedFacts
  <2>2. CASE r.known # "Conditional"
    <3>1. tage'.gtable = tage.gtable
      BY <1>2, <1>3, <2>2, UpdateFacts
    <3> QED BY <3>1, SameTagsReplaceOne DEF SameTags
  <2> QED BY <2>1, <2>2
<1> HIDE DEF p
<1>6. PICK best \in Bank : \A bank \in Bank : \A i \in Index :
        tage'.gtable[bank][i].tag # tage.gtable[bank][i].tag =>
          /\ bank = best /\ i = GIndex(tage, b.pc, bank)
          /\ p.result # b.taken /\ bank < p.bank
          /\ tage'.gtable[bank][i].tag = GTag(tage, b.pc, bank)
          /\ tage.gtable[bank][i].ubit = 0
  BY <1>5 DEF ReplacesOne
<1>7. ASSUME NEW e \in Replaced
      PROVE  /\ e = <<best, GIndex(tage, b.pc, best)>>
             /\ p.result # b.taken /\ e[1] < p.bank
             /\ e[2] = GIndex(tage, b.pc, e[1])
             /\ tage'.gtable[e[1]][e[2]].tag = GTag(tage, b.pc, e[1])
             /\ tage.gtable[e[1]][e[2]].ubit = 0
  <2>1. /\ e[1] \in Bank /\ e[2] \in Index /\ e = <<e[1], e[2]>>
        /\ tage'.gtable[e[1]][e[2]].tag # tage.gtable[e[1]][e[2]].tag
    BY DEF Replaced, Index
  <2> QED BY <1>6, <2>1
<1>8. \A d, e \in Replaced : d = e
  BY <1>7
<1>9. SparesUseful(b, p)
  BY <1>7, <1>8 DEF SparesUseful
<1> QED BY <1>4, <1>9 DEF p

-----------------------------------------------------------------------------
(* The inductive invariant holds in every state that is reached.            *)
THEOREM Invariance == Spec => []IndInv
BY InitInv, NextInv, PTL DEF Spec

(* The tables, the stack and the registers keep their types and widths,     *)
(* whatever the branches: BTB::train, TAGEPredictor::train and              *)
(* ReturnAddressStack::train leave what their readers expect.               *)
THEOREM PredictorTypes == Spec => []TypeOK
<1>1. IndInv => TypeOK
  BY DEF IndInv
<1> QED BY <1>1, Invariance, PTL

(* The history registers of TAGE say the outcomes and addresses of the last *)
(* branches, and every folded register, which FoldedHistory::update keeps   *)
(* up one bit at a time, is the fold of that history.                       *)
THEOREM FoldedHistories == Spec => []HistoryFaithful
<1>1. IndInv => HistoryFaithful
  BY DEF IndInv, HistoryIs, HistoryFaithful
<1> QED BY <1>1, Invariance, PTL

(* The branch target buffer holds the branches it met last, each once and   *)
(* with its last target, and the return stack the calls still open.         *)
THEOREM FaithfulTargets == Spec => []TargetsFaithful
<1>1. IndInv => TargetsFaithful
  <2> SUFFICES ASSUME IndInv PROVE TargetsFaithful
    OBVIOUS
  <2>1. \A s \in 0..BtbSets - 1 : SetFaithful(s, btb[s])
    BY FaithfulIs DEF IndInv, SetInv
  <2>2. StackFaithful
    BY StackIs DEF IndInv
  <2> QED BY <2>1, <2>2 DEF TargetsFaithful
<1> QED BY <1>1, Invariance, PTL

(* TAGEPredictor::train takes an entry only after a wrong prediction, for   *)
(* the branch that was predicted, one at a time, and never a useful one.    *)
THEOREM UsefulEntriesStay == Spec => UsefulSpared
<1>1. IndInv /\ [Next \/ Halted]_vars
        => [SparesUseful(Last(log').branch, Predict(tage, Last(log').branch.pc))]_log
  BY InvSpared
<1> QED BY <1>1, Invariance, PTL DEF Spec, UsefulSpared
=============================================================================
