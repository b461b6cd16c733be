--------------------------- MODULE GravitasProofs ---------------------------
(***************************************************************************)
(* The safety of Gravitas, for any deployments, wallets and transactions.  *)
(***************************************************************************)
EXTENDS GravitasInvariants, FiniteSetTheorems, TLAPS

-----------------------------------------------------------------------------
\* Sums over finite sets: what the fold of the community modules computes.

Less == {m \in Nat \X Nat : m[1] < m[2]}

\* Sets of numbers have a least one.
LEMMA LeastNumber ==
  ASSUME NEW S \in SUBSET Nat, S # {}
  PROVE  \E m \in S : \A n \in S : m <= n
<1>1. IsWellFoundedOn(Less, Nat)
  <2>1. Less = OpToRel(<, Nat)
    BY DEF Less, OpToRel
  <2>2. QED
    BY <2>1, NatLessThanWellFounded
<1>2. PICK m \in S : \A n \in S : ~ (<<n, m>> \in Less)
  BY <1>1, WFMin, Zenon
<1>3. \A n \in S : ~(n < m)
  BY <1>2 DEF Less
<1>4. \A n \in S : n \in Nat /\ m \in Nat /\ ~(n < m) => m <= n
  OBVIOUS
<1>5. QED
  BY <1>3, <1>4

\* Induction on numbers, for a set.
LEMMA NatSets ==
  ASSUME NEW S \in SUBSET Nat, 0 \in S, \A n \in S : n + 1 \in S
  PROVE  S = Nat
<1>1. SUFFICES ASSUME Nat \ S # {} PROVE FALSE
  OBVIOUS
<1>2. PICK m \in Nat \ S : \A n \in Nat \ S : m <= n
  BY <1>1, LeastNumber
<1>3. m # 0 /\ m - 1 \in Nat /\ m - 1 \in S
  BY <1>2
<1>4. (m - 1) + 1 = m
  BY <1>2
<1>5. QED
  BY <1>2, <1>3, <1>4

Total(F, T) == MapThenSumSet(LAMBDA t : F[t], T)

\* g is what the fold over the subsets of S computes.
Folds(F, S, g) == 
  g = [s \in SUBSET S |-> IF s = {} THEN 0
         ELSE LET x == CHOOSE x \in s : TRUE IN F[x] + g[s \ {x}]]

\* The sum over S is its fold's value at S.
LEMMA SumDef ==
  ASSUME NEW F, NEW S
  PROVE  Total(F, S) = (CHOOSE g : Folds(F, S, g))[S]
  BY DEF Total, MapThenSumSet, MapThenFoldSet, Folds

Sized(S, n) == {s \in SUBSET S : Cardinality(s) <= n}
FoldsTo(F, S, n, g) ==
  g = [s \in Sized(S, n) |-> IF s = {} THEN 0
         ELSE LET x == CHOOSE x \in s : TRUE IN F[x] + g[s \ {x}]]

\* A set that loses an element is smaller.
LEMMA SizedStep ==
  ASSUME NEW S, IsFiniteSet(S), NEW n \in Nat, NEW s \in Sized(S, n + 1), NEW x \in s
  PROVE  s \ {x} \in Sized(S, n)
<1>1. IsFiniteSet(s) /\ Cardinality(s) \in Nat
  BY FS_Subset, FS_CardinalityType DEF Sized
<1>2. Cardinality(s \ {x}) = Cardinality(s) - 1
  BY <1>1, FS_RemoveElement
<1>3. Cardinality(s \ {x}) <= n
  BY <1>1, <1>2 DEF Sized
<1>4. QED
  BY <1>3 DEF Sized

\* Only the empty set has no element.
LEMMA SizedZero ==
  ASSUME NEW S, IsFiniteSet(S), NEW s \in Sized(S, 0)
  PROVE  s = {}
<1>1. IsFiniteSet(s) /\ Cardinality(s) \in Nat
  BY FS_Subset, FS_CardinalityType DEF Sized
<1>2. Cardinality(s) = 0
  BY <1>1 DEF Sized
<1>3. QED
  BY <1>1, <1>2, FS_EmptySet

\* Every finite set has a fold.
LEMMA FoldExists ==
  ASSUME NEW F, NEW S, IsFiniteSet(S), \A x \in S : F[x] \in Int
  PROVE  \E g : Folds(F, S, g) /\ g \in [SUBSET S -> Int]
<1> DEFINE N == {n \in Nat : \E g : FoldsTo(F, S, n, g) /\ g \in [Sized(S, n) -> Int]}
<1>1. 0 \in N
  <2> DEFINE g == [s \in Sized(S, 0) |-> 0]
  <2>1. \A s \in Sized(S, 0) : s = {}
    BY SizedZero
  <2>2. FoldsTo(F, S, 0, g) /\ g \in [Sized(S, 0) -> Int]
    BY <2>1 DEF FoldsTo
  <2>3. QED
    BY <2>2
<1>2. ASSUME NEW n \in N PROVE n + 1 \in N
  <2>1. PICK g : FoldsTo(F, S, n, g) /\ g \in [Sized(S, n) -> Int]
    OBVIOUS
  <2> DEFINE pick(s) == CHOOSE x \in s : TRUE
  <2> DEFINE h == [s \in Sized(S, n + 1) |-> IF s = {} THEN 0 ELSE F[pick(s)] + g[s \ {pick(s)}]]
  <2>2. \A s \in Sized(S, n + 1) : s # {} => pick(s) \in s /\ pick(s) \in S /\ s \ {pick(s)} \in Sized(S, n)
    BY SizedStep DEF Sized
  <2>3. h \in [Sized(S, n + 1) -> Int]
    BY <2>1, <2>2
  <2>4. ASSUME NEW s \in Sized(S, n) PROVE s \in Sized(S, n + 1) /\ h[s] = g[s]
    <3>1. IsFiniteSet(s) /\ Cardinality(s) \in Nat
      BY FS_Subset, FS_CardinalityType DEF Sized
    <3>2. s \in Sized(S, n + 1)
      BY <3>1 DEF Sized
    <3>3. g[s] = IF s = {} THEN 0 ELSE F[pick(s)] + g[s \ {pick(s)}]
      BY <2>1 DEF FoldsTo
    <3>4. QED
      BY <3>2, <3>3
  <2>5. \A s \in Sized(S, n + 1) : h[s] = IF s = {} THEN 0 ELSE F[pick(s)] + h[s \ {pick(s)}]
    <3>1. \A s \in Sized(S, n + 1) : h[s] = IF s = {} THEN 0 ELSE F[pick(s)] + g[s \ {pick(s)}]
      OBVIOUS
    <3> HIDE DEF h, pick
    <3>2. QED
      BY <2>2, <2>4, <3>1
  <2>6. FoldsTo(F, S, n + 1, h)
    <3>1. h = [s \in Sized(S, n + 1) |-> h[s]]
      OBVIOUS
    <3> HIDE DEF h
    <3>2. QED
      BY <2>5, <3>1 DEF FoldsTo
  <2>7. \E f : FoldsTo(F, S, n + 1, f) /\ f \in [Sized(S, n + 1) -> Int]
    <3> HIDE DEF h
    <3>1. QED
      BY <2>3, <2>6
  <2>8. QED
    BY <2>7
<1>3. N = Nat
  <2>1. N \in SUBSET Nat
    OBVIOUS
  <2> HIDE DEF N
  <2>2. QED
    BY <1>1, <1>2, <2>1, NatSets
<1>4. Cardinality(S) \in N
  BY <1>3, FS_CardinalityType
<1>5. Sized(S, Cardinality(S)) = SUBSET S
  BY FS_Subset DEF Sized
<1>6. QED
  BY <1>4, <1>5 DEF Folds, FoldsTo

\* Two folds agree on the sets that both have.
LEMMA FoldUnique ==
  ASSUME NEW F, NEW S, IsFiniteSet(S), NEW T \in SUBSET S, NEW g, NEW h,
         Folds(F, S, g), Folds(F, T, h)
  PROVE  \A s \in SUBSET T : g[s] = h[s]
<1> DEFINE N == {n \in Nat : \A s \in Sized(T, n) : g[s] = h[s]}
<1> DEFINE pick(s) == CHOOSE x \in s : TRUE
<1>0. IsFiniteSet(T)
  BY FS_Subset
<1>1. \A s \in SUBSET T : /\ g[s] = IF s = {} THEN 0 ELSE F[pick(s)] + g[s \ {pick(s)}]
                          /\ h[s] = IF s = {} THEN 0 ELSE F[pick(s)] + h[s \ {pick(s)}]
  BY DEF Folds
<1>2. 0 \in N
  BY <1>0, <1>1, SizedZero DEF Sized
<1>3. ASSUME NEW n \in N PROVE n + 1 \in N
  <2>1. \A s \in Sized(T, n + 1) : s # {} => s \ {pick(s)} \in Sized(T, n)
    BY <1>0, SizedStep DEF Sized
  <2>2. \A s \in Sized(T, n) : g[s] = h[s]
    OBVIOUS
  <2>3. Sized(T, n + 1) \subseteq SUBSET T
    BY DEF Sized
  <2>4. \A s \in Sized(T, n + 1) : g[s] = h[s]
    <3> HIDE DEF pick
    <3>1. QED
      BY <1>1, <2>1, <2>2, <2>3
  <2>5. QED
    BY <2>4
<1>4. N = Nat
  <2>1. N \in SUBSET Nat
    OBVIOUS
  <2> HIDE DEF N
  <2>2. QED
    BY <1>2, <1>3, <2>1, NatSets
<1>5. Cardinality(T) \in N
  BY <1>0, <1>4, FS_CardinalityType
<1>6. Sized(T, Cardinality(T)) = SUBSET T
  BY <1>0, FS_Subset DEF Sized
<1>7. QED
  BY <1>5, <1>6

\* What the fold over S says of the sums of its subsets.
LEMMA SumFolds ==
  ASSUME NEW F, NEW S, IsFiniteSet(S), \A x \in S : F[x] \in Int
  PROVE  \E g : Folds(F, S, g) /\ g \in [SUBSET S -> Int] /\ \A T \in SUBSET S : Total(F, T) = g[T]
<1>1. PICK g : Folds(F, S, g) /\ g \in [SUBSET S -> Int]
  BY FoldExists
<1>2. ASSUME NEW T \in SUBSET S PROVE Total(F, T) = g[T]
  <2>1. IsFiniteSet(T) /\ \A x \in T : F[x] \in Int
    BY FS_Subset
  <2>2. \E h : Folds(F, T, h)
    BY <2>1, FoldExists
  <2>3. Folds(F, T, CHOOSE h : Folds(F, T, h))
    BY <2>2
  <2>4. g[T] = (CHOOSE h : Folds(F, T, h))[T]
    BY <1>1, <2>3, FoldUnique
  <2>5. QED
    BY <2>4, SumDef
<1>3. QED
  BY <1>1, <1>2

\* Nothing adds up to nothing.
LEMMA SumEmpty == ASSUME NEW F PROVE Total(F, {}) = 0
<1>1. IsFiniteSet({})
  BY FS_EmptySet
<1>2. PICK g : Folds(F, {}, g) /\ Total(F, {}) = g[{}]
  BY <1>1, SumFolds
<1>3. g[{}] = 0
  BY <1>2 DEF Folds
<1>4. QED
  BY <1>2, <1>3

\* A sum of integers is one.
LEMMA SumType ==
  ASSUME NEW F, NEW S, IsFiniteSet(S), \A x \in S : F[x] \in Int
  PROVE  Total(F, S) \in Int
<1>1. PICK g : Folds(F, S, g) /\ g \in [SUBSET S -> Int] /\ \A T \in SUBSET S : Total(F, T) = g[T]
  BY SumFolds
<1>2. QED
  BY <1>1

\* Each element counts once, whichever is added last.
LEMMA SumAdd ==
  ASSUME NEW F, NEW S, IsFiniteSet(S), NEW x, x \notin S, \A y \in S \cup {x} : F[y] \in Int
  PROVE  Total(F, S \cup {x}) = Total(F, S) + F[x]
<1> DEFINE U == S \cup {x}
<1> DEFINE pick(s) == CHOOSE y \in s : TRUE
<1>1. IsFiniteSet(U)
  BY FS_AddElement
<1>2. PICK g : Folds(F, U, g) /\ g \in [SUBSET U -> Int] /\ \A T \in SUBSET U : Total(F, T) = g[T]
  BY <1>1, SumFolds
<1>3. \A s \in SUBSET U : s # {} => pick(s) \in s /\ g[s] = F[pick(s)] + g[s \ {pick(s)}]
  BY <1>2 DEF Folds
<1> DEFINE Every(n) == \A s \in Sized(U, n) : \A y \in s : g[s] = g[s \ {y}] + F[y]
<1> DEFINE N == {n \in Nat : Every(n)}
<1>4. 0 \in N
  BY <1>1, SizedZero
<1>5. ASSUME NEW n \in N PROVE n + 1 \in N
  <2>1. ASSUME NEW s \in Sized(U, n + 1), NEW y \in s PROVE g[s] = g[s \ {y}] + F[y]
    <3> DEFINE p == pick(s)
    <3>2. s \in SUBSET U /\ p \in s /\ y \in U /\ p \in U /\ g[s] = F[p] + g[s \ {p}]
      BY <1>3 DEF Sized
    <3>3. s \ {p} \in Sized(U, n) /\ s \ {y} \in Sized(U, n) 
      BY <1>1, <3>2, SizedStep
    <3> HIDE DEF p
    <3>4. /\ F[p] \in Int /\ F[y] \in Int /\ g[s \ {p}] \in Int /\ g[s \ {y}] \in Int
          /\ g[(s \ {p}) \ {y}] \in Int
      BY <1>2, <3>2
    <3>5. CASE p = y
      BY <3>2, <3>4, <3>5
    <3>6. CASE p # y
      <4>1. y \in s \ {p} /\ p \in s \ {y} /\ (s \ {p}) \ {y} = (s \ {y}) \ {p}
        BY <3>2, <3>6
      <4>2. g[s \ {p}] = g[(s \ {p}) \ {y}] + F[y]
        BY <3>3, <4>1
      <4>3. g[s \ {y}] = g[(s \ {p}) \ {y}] + F[p]
        BY <3>3, <4>1
      <4>4. g[s] = F[p] + g[s \ {p}]
        BY <3>2
      <4>5. QED
        BY <3>4, <4>2, <4>3, <4>4
    <3>7. QED
      BY <3>5, <3>6
  <2>2. Every(n + 1)
    BY <2>1
  <2> HIDE DEF Every
  <2>3. n + 1 \in Nat
    OBVIOUS
  <2>4. QED
    BY <2>2, <2>3
<1>6. N = Nat
  <2>1. N \in SUBSET Nat
    OBVIOUS
  <2> HIDE DEF N
  <2>2. QED
    BY <1>4, <1>5, <2>1, NatSets
<1>7. Cardinality(U) \in N /\ U \in Sized(U, Cardinality(U))
  <2>1. Cardinality(U) \in Nat
    BY <1>1, FS_CardinalityType
  <2>2. U \in Sized(U, Cardinality(U))
    BY <2>1 DEF Sized
  <2>3. QED
    BY <1>6, <2>1, <2>2
<1>8. g[U] = g[U \ {x}] + F[x]
  BY <1>7
<1>9. U \ {x} = S
  OBVIOUS
<1>10. QED
  BY <1>2, <1>8, <1>9

\* The sum over two sets that have no element in common.
LEMMA SumUnion ==
  ASSUME NEW F, NEW S, IsFiniteSet(S), NEW T, IsFiniteSet(T), S \cap T = {},
         \A y \in S \cup T : F[y] \in Int
  PROVE  Total(F, S \cup T) = Total(F, S) + Total(F, T)
<1> DEFINE All(n) == \A s \in Sized(T, n) : Total(F, S \cup s) = Total(F, S) + Total(F, s)
<1> DEFINE N == {n \in Nat : All(n)}
<1>0. \A s \in SUBSET T : Total(F, S) \in Int /\ Total(F, s) \in Int
  BY FS_Subset, SumType
<1>1. 0 \in N
  <2>1. ASSUME NEW s \in Sized(T, 0) PROVE Total(F, S \cup s) = Total(F, S) + Total(F, s)
    <3>1. s = {} /\ S \cup s = S
      BY SizedZero
    <3>2. Total(F, s) = 0 /\ Total(F, S) \in Int
      BY <1>0, <3>1, SumEmpty
    <3>3. QED
      BY <3>1, <3>2
  <2>2. All(0)
    BY <2>1
  <2> HIDE DEF All
  <2>3. QED
    BY <2>2
<1>2. ASSUME NEW n \in N PROVE n + 1 \in N
  <2>1. ASSUME NEW s \in Sized(T, n + 1) PROVE Total(F, S \cup s) = Total(F, S) + Total(F, s)
    <3>1. CASE s = {}
      <4>1. S \cup s = S /\ Total(F, s) = 0 /\ Total(F, S) \in Int
        BY <1>0, <3>1, SumEmpty
      <4>2. Total(F, S \cup s) = Total(F, S)
        BY <4>1, Zenon
      <4>3. QED
        BY <4>1, <4>2
    <3>2. CASE s # {}
      <4>1. PICK x \in s : TRUE
        BY <3>2
      <4> DEFINE r == s \ {x}
      <4>2. s \in SUBSET T /\ r \in Sized(T, n) /\ r \in SUBSET T
        BY SizedStep DEF Sized
      <4>3. IsFiniteSet(r) /\ IsFiniteSet(S \cup r)
        BY <4>2, FS_Subset, FS_Union
      <4>4. s = r \cup {x} /\ S \cup s = (S \cup r) \cup {x} /\ x \notin r /\ x \notin S \cup r /\ F[x] \in Int
        BY <4>2
      <4>5. Total(F, r \cup {x}) = Total(F, r) + F[x]
        BY <4>2, <4>3, <4>4, SumAdd
      <4>6. Total(F, (S \cup r) \cup {x}) = Total(F, S \cup r) + F[x]
        BY <4>2, <4>3, <4>4, SumAdd
      <4>7. Total(F, S \cup r) = Total(F, S) + Total(F, r)
        BY <4>2
      <4>8. Total(F, r) \in Int /\ Total(F, S) \in Int
        BY <1>0, <4>2
      <4> HIDE DEF r
      <4>9. Total(F, s) = Total(F, r) + F[x] /\ Total(F, S \cup s) = Total(F, S \cup r) + F[x]
        BY <4>4, <4>5, <4>6, Zenon
      <4>10. QED
        BY <4>4, <4>7, <4>8, <4>9
    <3>3. QED
      BY <3>1, <3>2
  <2>2. All(n + 1)
    BY <2>1
  <2> HIDE DEF All
  <2>3. n + 1 \in Nat
    OBVIOUS
  <2>4. QED
    BY <2>2, <2>3
<1>3. N = Nat
  <2>1. N \in SUBSET Nat
    OBVIOUS
  <2> HIDE DEF N
  <2>2. QED
    BY <1>1, <1>2, <2>1, NatSets
<1>4. Cardinality(T) \in N /\ T \in Sized(T, Cardinality(T))
  <2>1. Cardinality(T) \in Nat
    BY FS_CardinalityType
  <2>2. QED
    BY <1>3, <2>1 DEF Sized
<1>5. QED
  BY <1>4

Fees == [t \in Txs |-> TxValue[t] + TxFee[t]]
\* What transactions cost their senders is a sum (compute.go).
LEMMA CostSum ==
  ASSUME NEW T \in SUBSET Txs
  PROVE  Cost(T) = Total(Fees, T)
<1> DEFINE C(g) == g = [s \in SUBSET T |-> IF s = {} THEN 0
         ELSE LET x == CHOOSE x \in s : TRUE IN (TxValue[x] + TxFee[x]) + g[s \ {x}]]
<1>1. Cost(T) = (CHOOSE g : C(g))[T]
  BY DEF Cost, MapThenSumSet, MapThenFoldSet
<1>2. ASSUME NEW g PROVE C(g) <=> Folds(Fees, T, g)
  BY DEF Folds, Fees
<1>3. (CHOOSE g : C(g)) = (CHOOSE g : Folds(Fees, T, g))
  <2> HIDE DEF C
  <2>1. QED
    BY <1>2
<1>4. QED
  <2> HIDE DEF C
  <2>1. QED
    BY <1>1, <1>3, SumDef
Ends(num, n) == {e \in (0 .. num) \X (0 .. num) : e[2] <= e[1] + n}
Half(e) == (e[1] + e[2]) \div 2
Halved(s, a, e, f) ==
  LET i == e[1]
      j == e[2]
      h == (i + j) \div 2
  IN IF i >= j THEN i
     ELSE IF Before(a, s[h + 1]) THEN f[<<i, h>>] ELSE f[<<h + 1, j>>]
Search(s, a, num, f) == f = [e \in (0 .. num) \X (0 .. num) |-> Halved(s, a, e, f)]
SearchUpTo(s, a, num, n, f) == f = [e \in Ends(num, n) |-> Halved(s, a, e, f)]

\* PartitionForAddr in terms of its search (range.go:72-84).
LEMMA SearchDef ==
  ASSUME NEW r, NEW a
  PROVE  LET num == Len(r.splits)
             part == (CHOOSE f : Search(r.splits, a, num, f))[<<0, num>>]
         IN PartitionForAddr(r, a) = IF Before(a, r.start) \/ part >= num THEN Nobody ELSE part
  BY DEF PartitionForAddr, Search, Halved

\* The range of all partitions, from the first address to the last (range.go:26-57).
LEMMA FullRange ==
  ASSUME NEW num \in Nat \ {0}
  PROVE  LET r == NewFullRange(num)
         IN /\ r.start = MinAddr /\ r.splits[num] = MaxAddr /\ Len(r.splits) = num
  BY DEF NewFullRange, NewRange

\* The search goes on with fewer partitions.
LEMMA HalfEnds ==
  ASSUME NEW num \in Nat, NEW n \in Nat, NEW e \in Ends(num, n + 1), e[1] < e[2]
  PROVE  /\ Half(e) \in 0 .. num - 1 /\ e[1] <= Half(e) /\ Half(e) < e[2]
         /\ <<e[1], Half(e)>> \in Ends(num, n) /\ <<Half(e) + 1, e[2]>> \in Ends(num, n)
<1>1. e[1] \in Nat /\ e[2] \in Nat /\ e[2] <= num /\ e[2] <= e[1] + n + 1
  BY DEF Ends
<1>2. ASSUME NEW x \in Nat, NEW y \in Nat, x < y
      PROVE (x + y) \div 2 \in Nat /\ x <= (x + y) \div 2 /\ (x + y) \div 2 < y
  BY <1>2
<1>3. Half(e) \in Nat /\ e[1] <= Half(e) /\ Half(e) < e[2]
  BY <1>1, <1>2 DEF Half
<1>4. QED
  BY <1>1, <1>3 DEF Ends

\* The search always ends.
LEMMA SearchExists ==
  ASSUME NEW num \in Nat, NEW s, NEW a
  PROVE  \E f : Search(s, a, num, f)
<1> DEFINE Some(n) == \E f : SearchUpTo(s, a, num, n, f)
<1> DEFINE N == {n \in Nat : Some(n)}
<1>1. 0 \in N
  <2> DEFINE g == [e \in Ends(num, 0) |-> e[1]]
  <2>1. \A e \in Ends(num, 0) : Halved(s, a, e, g) = e[1]
    BY DEF Ends, Halved
  <2>2. SearchUpTo(s, a, num, 0, g)
    BY <2>1 DEF SearchUpTo
  <2> HIDE DEF g
  <2>3. Some(0)
    BY <2>2
  <2> HIDE DEF Some
  <2>4. QED
    BY <2>3
<1>2. ASSUME NEW n \in N PROVE n + 1 \in N
  <2>1. PICK g : SearchUpTo(s, a, num, n, g)
    OBVIOUS
  <2> DEFINE h == [e \in Ends(num, n + 1) |-> Halved(s, a, e, g)]
  <2>2. Ends(num, n) \subseteq Ends(num, n + 1)
    BY DEF Ends
  <2>3. \A e \in Ends(num, n) : h[e] = g[e]
    BY <2>1, <2>2 DEF SearchUpTo
  <2>4. \A e \in Ends(num, n + 1) : h[e] = Halved(s, a, e, g)
    OBVIOUS
  <2>5. h = [e \in Ends(num, n + 1) |-> h[e]]
    OBVIOUS
  <2> HIDE DEF h
  <2>6. \A e \in Ends(num, n + 1) : Halved(s, a, e, g) = Halved(s, a, e, h)
    <3>1. TAKE e \in Ends(num, n + 1)
    <3>2. CASE e[1] >= e[2]
      BY <3>2 DEF Halved
    <3>3. CASE ~(e[1] >= e[2])
      <4>1. e[1] < e[2]
        BY <3>3 DEF Ends
      <4>2. h[<<e[1], Half(e)>>] = g[<<e[1], Half(e)>>] /\ h[<<Half(e) + 1, e[2]>>] = g[<<Half(e) + 1, e[2]>>]
        BY <2>3, <4>1, HalfEnds
      <4>3. QED
        BY <4>2 DEF Halved, Half
    <3>4. QED
      BY <3>2, <3>3
  <2>7. SearchUpTo(s, a, num, n + 1, h)
    BY <2>4, <2>5, <2>6 DEF SearchUpTo
  <2>8. Some(n + 1)
    BY <2>7
  <2> HIDE DEF Some
  <2>9. QED
    BY <2>8
<1>3. num \in N
  <2>1. N \in SUBSET Nat
    OBVIOUS
  <2> HIDE DEF N
  <2>2. QED
    BY <1>1, <1>2, <2>1, NatSets
<1>4. Ends(num, num) = (0 .. num) \X (0 .. num)
  BY DEF Ends
<1>5. QED
  BY <1>3, <1>4 DEF SearchUpTo, Search

\* Where the search ends, whatever the order of the boundaries.
LEMMA SearchEnds ==
  ASSUME NEW num \in Nat, NEW s, NEW a, NEW f, Search(s, a, num, f)
  PROVE  \A e \in (0 .. num) \X (0 .. num) : e[1] <= e[2] =>
           /\ f[e] \in e[1] .. e[2]
           /\ f[e] < e[2] => Before(a, s[f[e] + 1])
           /\ f[e] > e[1] => ~Before(a, s[f[e]])
<1> DEFINE End(e) == e[1] <= e[2] =>
             /\ f[e] \in e[1] .. e[2]
             /\ f[e] < e[2] => Before(a, s[f[e] + 1])
             /\ f[e] > e[1] => ~Before(a, s[f[e]])
<1> DEFINE All(n) == \A e \in Ends(num, n) : End(e)
<1> DEFINE N == {n \in Nat : All(n)}
<1>0. \A e \in (0 .. num) \X (0 .. num) : f[e] = Halved(s, a, e, f)
  BY DEF Search
<1>1. 0 \in N
  <2>0. \A e \in Ends(num, 0) : Halved(s, a, e, f) = e[1]
    BY DEF Ends, Halved
  <2>1. \A e \in Ends(num, 0) : f[e] = e[1] /\ (e[1] <= e[2] => e[1] = e[2]) /\ e[1] \in Nat
    BY <1>0, <2>0 DEF Ends
  <2>2. All(0)
    BY <2>1
  <2> HIDE DEF All
  <2>3. QED
    BY <2>2
<1>2. ASSUME NEW n \in N PROVE n + 1 \in N
  <2>1. ASSUME NEW e \in Ends(num, n + 1) PROVE End(e)
    <3>0. e \in (0 .. num) \X (0 .. num) /\ e[1] \in Nat /\ e[2] \in Nat
      BY DEF Ends
    <3>1. CASE ~(e[1] < e[2])
      <4>0. Halved(s, a, e, f) = e[1]
        BY <3>0, <3>1 DEF Halved
      <4>1. f[e] = e[1]
        BY <1>0, <3>0, <4>0
      <4>2. QED
        BY <3>0, <3>1, <4>1
    <3>2. CASE e[1] < e[2]
      <4>1. /\ Half(e) \in 0 .. num - 1 /\ e[1] <= Half(e) /\ Half(e) < e[2]
            /\ <<e[1], Half(e)>> \in Ends(num, n) /\ <<Half(e) + 1, e[2]>> \in Ends(num, n)
        BY <3>2, HalfEnds
      <4>2. End(<<e[1], Half(e)>>) /\ End(<<Half(e) + 1, e[2]>>)
        BY <4>1
      <4>3. f[e] = IF Before(a, s[Half(e) + 1]) THEN f[<<e[1], Half(e)>>] ELSE f[<<Half(e) + 1, e[2]>>]
        BY <1>0, <3>0, <3>2 DEF Halved, Half
      <4>4. CASE Before(a, s[Half(e) + 1])
        <5>1. f[e] = f[<<e[1], Half(e)>>]
          BY <4>3, <4>4
        <5> DEFINE g == f[<<e[1], Half(e)>>]
        <5>2. /\ g \in e[1] .. Half(e) /\ (g < Half(e) => Before(a, s[g + 1]))
              /\ g > e[1] => ~Before(a, s[g])
          BY <4>1, <4>2
        <5> HIDE DEF g
        <5>3. g < e[2] => Before(a, s[g + 1])
          BY <4>1, <4>4, <5>2, <3>0
        <5>4. f[e] = g
          BY <5>1 DEF g
        <5>5. QED
          BY <4>1, <5>2, <5>3, <5>4, <3>0
      <4>5. CASE ~Before(a, s[Half(e) + 1])
        <5>1. f[e] = f[<<Half(e) + 1, e[2]>>]
          BY <4>3, <4>5
        <5> DEFINE g == f[<<Half(e) + 1, e[2]>>]
        <5>2. /\ g \in Half(e) + 1 .. e[2] /\ (g < e[2] => Before(a, s[g + 1]))
              /\ g > Half(e) + 1 => ~Before(a, s[g])
          BY <4>1, <4>2, <3>0
        <5> HIDE DEF g
        <5>3. g > e[1] => ~Before(a, s[g])
          BY <4>1, <4>5, <5>2, <3>0
        <5>4. f[e] = g
          BY <5>1 DEF g
        <5>5. QED
          BY <4>1, <5>2, <5>3, <5>4, <3>0
      <4>6. QED
        BY <4>4, <4>5
    <3>3. QED
      BY <3>1, <3>2
  <2>2. All(n + 1)
    <3> HIDE DEF End
    <3>1. QED
      BY <2>1
  <2> HIDE DEF All
  <2>3. QED
    BY <2>2
<1>3. num \in N
  <2>1. N \in SUBSET Nat
    OBVIOUS
  <2> HIDE DEF N
  <2>2. QED
    BY <1>1, <1>2, <2>1, NatSets
<1>4. Ends(num, num) = (0 .. num) \X (0 .. num)
  BY DEF Ends
<1>5. QED
  BY <1>3, <1>4

\* An address is in the extents of the partition that it is searched in, and only the last
\* address may have no partition (range.go:72-97).
LEMMA PartitionSound ==
  ASSUME NEW num \in Nat \ {0}, NEW a \in Address
  PROVE  LET p == PartitionForAddr(NewFullRange(num), a)
         IN /\ p # Nobody => p \in 0 .. num - 1 /\ InExtents(a, PartitionExtents(NewFullRange(num), p))
            /\ Before(a, MaxAddr) => p # Nobody
<1> DEFINE r == NewFullRange(num)
<1> DEFINE s == r.splits
<1> DEFINE f == CHOOSE f : Search(s, a, num, f)
<1> DEFINE part == f[<<0, num>>]
<1>1. r.start = MinAddr /\ s[num] = MaxAddr /\ Len(s) = num
  BY FullRange
<1>2. PartitionForAddr(r, a) = IF Before(a, r.start) \/ part >= num THEN Nobody ELSE part
  BY <1>1, SearchDef
<1>3. Search(s, a, num, f)
  BY SearchExists
<1>4. /\ part \in 0 .. num
      /\ part < num => Before(a, s[part + 1])
      /\ part > 0 => ~Before(a, s[part])
  <2> HIDE DEF f, s
  <2>1. <<0, num>> \in (0 .. num) \X (0 .. num) /\ <<0, num>>[1] = 0 /\ <<0, num>>[2] = num
    OBVIOUS
  <2>2. QED
    BY <1>3, <2>1, SearchEnds
<1>5. ~Before(a, MinAddr)
  BY BaseAssumption DEF Before, MinAddr, Address
<1> HIDE DEF part, s
<1>6. PartitionForAddr(r, a) = IF part >= num THEN Nobody ELSE part
  BY <1>1, <1>2, <1>5
<1>7. part < num => InExtents(a, PartitionExtents(r, part))
  BY <1>1, <1>4, <1>5 DEF InExtents, PartitionExtents, s
<1>8. Before(a, MaxAddr) => part # num
  BY <1>1, <1>4
<1> HIDE DEF r
<1>9. QED
  BY <1>4, <1>6, <1>7, <1>8 DEF Nobody, r

\* All other addresses are before the last one.
LEMMA BeforeMax ==
  ASSUME NEW a \in Address, a # MaxAddr
  PROVE  Before(a, MaxAddr)
<1> DEFINE D == {i \in 1 .. Width : a[i] # Base - 1}
<1>1. D # {} /\ D \in SUBSET Nat
  BY BaseAssumption DEF Address, MaxAddr
<1>2. PICK i \in D : \A j \in D : i <= j
  BY <1>1, LeastNumber
<1>3. i \in 1 .. Width /\ a[i] < Base - 1 /\ \A j \in 1 .. i - 1 : a[j] = Base - 1
  BY <1>2, BaseAssumption DEF Address
<1>4. Len(a) = Width /\ Len(MaxAddr) = Width /\ \A j \in 1 .. Width : MaxAddr[j] = Base - 1
  BY BaseAssumption DEF Address, MaxAddr
<1>5. QED
  BY <1>3, <1>4, BaseAssumption DEF Before

\* The positions of the elements of a set of numbers are those from 0 on, each once.
LEMMA Positions ==
  ASSUME NEW D \in SUBSET Nat, IsFiniteSet(D)
  PROVE  /\ \A n \in D : Cardinality({m \in D : m < n}) \in 0 .. Cardinality(D) - 1
         /\ \A n, k \in D : n # k => Cardinality({m \in D : m < n}) # Cardinality({m \in D : m < k})
         /\ \A p \in 0 .. Cardinality(D) - 1 : \E n \in D : Cardinality({m \in D : m < n}) = p
<1> DEFINE Below(n) == {m \in D : m < n}
<1>1. ASSUME NEW n \in D
      PROVE  IsFiniteSet(Below(n)) /\ Cardinality(Below(n)) \in Nat /\ Cardinality(Below(n)) < Cardinality(D)
  <2>1. IsFiniteSet(Below(n)) /\ Cardinality(Below(n)) <= Cardinality(D)
        /\ (Cardinality(D) = Cardinality(Below(n)) => D = Below(n))
    BY FS_Subset
  <2>2. n \notin Below(n)
    OBVIOUS
  <2>3. Cardinality(Below(n)) \in Nat /\ Cardinality(D) \in Nat
    BY <2>1, FS_CardinalityType
  <2> HIDE DEF Below
  <2>4. QED
    BY <2>1, <2>2, <2>3
<1>2. ASSUME NEW n \in D, NEW k \in D, n < k
      PROVE  Cardinality(Below(n)) # Cardinality(Below(k))
  <2>1. Below(n) \in SUBSET Below(k) /\ n \in Below(k) /\ n \notin Below(n)
    <3>1. ASSUME NEW x \in Nat, NEW y \in Nat, NEW z \in Nat, y < z PROVE (x < y => x < z) /\ ~(x < x)
      BY <3>1
    <3>2. \A m \in D : (m < n => m < k) /\ ~(m < m)
      BY <1>2, <3>1
    <3>3. QED
      BY <1>2, <3>2
  <2>2. IsFiniteSet(Below(k))
    BY <1>1
  <2> HIDE DEF Below
  <2>3. QED
    BY <2>1, <2>2, FS_Subset
<1>3. \A n, k \in D : n # k => Cardinality(Below(n)) # Cardinality(Below(k))
  <2>1. TAKE n \in D, k \in D
  <2>2. n \in Nat /\ k \in Nat
    OBVIOUS
  <2> HIDE DEF Below
  <2>3. QED
    BY <1>2, <2>2
<1> DEFINE f == [n \in D |-> Cardinality(Below(n))]
<1> DEFINE T == 0 .. Cardinality(D) - 1
<1>4. f \in Injection(D, T)
  <2> HIDE DEF Below
  <2>1. Cardinality(D) \in Nat
    BY FS_CardinalityType
  <2>2. f \in [D -> T]
    BY <1>1, <2>1
  <2>3. QED
    BY <1>3, <2>2 DEF Injection, IsInjective
<1>5. IsFiniteSet(T) /\ Cardinality(T) = Cardinality(D)
  <2>1. Cardinality(D) \in Nat
    BY FS_CardinalityType
  <2>2. ASSUME NEW c \in Nat PROVE IsFiniteSet(0 .. c - 1) /\ Cardinality(0 .. c - 1) = c
    <3>1. 0 \in Int /\ c - 1 \in Int
      OBVIOUS
    <3>2. IsFiniteSet(0 .. c - 1) /\ Cardinality(0 .. c - 1) = IF 0 > c - 1 THEN 0 ELSE (c - 1) - 0 + 1
      BY <3>1, FS_Interval
    <3>3. QED
      BY <3>2
  <2>3. QED
    BY <2>1, <2>2
<1>6. f \in Surjection(D, T)
  <2> HIDE DEF f, T
  <2>1. QED
    BY <1>4, <1>5, FS_Injection
<1>7. \A p \in T : \E n \in D : Cardinality(Below(n)) = p
  <2> HIDE DEF T, Below
  <2>1. QED
    BY <1>6 DEF Surjection
<1>8. QED
  <2>1. \A n \in D : f[n] \in T
    <3> HIDE DEF T, f
    <3>1. QED
      BY <1>4 DEF Injection
  <2>2. QED
    BY <1>3, <1>7, <2>1

-----------------------------------------------------------------------------
\* Sets of wallets and of transactions.

\* Sets of wallets are finite.
LEMMA FiniteWallets ==
  ASSUME NEW S \in SUBSET Wallets
  PROVE  IsFiniteSet(S) /\ Cardinality(S) \in Nat /\ Cardinality(S) <= Cardinality(Wallets)
         /\ Cardinality(Wallets) \in Nat
  BY DeploymentsAssumption, FS_Subset, FS_CardinalityType

\* Sets of transactions are finite.
LEMMA FiniteTxs ==
  ASSUME NEW S \in SUBSET Txs
  PROVE  IsFiniteSet(S) /\ Cardinality(S) \in Nat
  BY DeploymentsAssumption, FS_Subset, FS_CardinalityType

\* Adding a wallet to a set of them, and taking one out.
LEMMA WalletAdded ==
  ASSUME NEW S \in SUBSET Wallets, NEW w \in Wallets, w \notin S
  PROVE  Cardinality(S \cup {w}) = Cardinality(S) + 1 /\ S \cup {w} \in SUBSET Wallets
  BY FiniteWallets, FS_AddElement

\* A set of wallets that loses one.
LEMMA WalletTaken ==
  ASSUME NEW S \in SUBSET Wallets, NEW w \in S
  PROVE  Cardinality(S \ {w}) = Cardinality(S) - 1 /\ Cardinality(S) >= 1
<1>1. IsFiniteSet(S) /\ Cardinality(S) \in Nat /\ Cardinality(S \ {w}) \in Nat
  BY FiniteWallets
<1>2. Cardinality(S \ {w}) = Cardinality(S) - 1
  BY <1>1, FS_RemoveElement
<1>3. QED
  BY <1>1, <1>2

-----------------------------------------------------------------------------
\* The steps, by what they leave alone.

LoaderMove(n) ==
  \/ /\ \/ WalletsEnd(n) \/ LoadSucceeds(n) \/ LoadGetsError(n) \/ NumberLearnt(n) \/ AllAdded(n)
        \/ WalletsCut(n) \/ WalletsFail(n)
        \/ LoadCancelled(n) /\ Monolith /\ ctx = "done"
        \/ \E w \in Wallets :
             \/ WalletSent(n, w) \/ FetchWalletTxs(n, w) \/ VertexSent(n, w)
             \/ WalletTxsCut(n, w) \/ FetchFails(n, w)
     /\ UNCHANGED vertex
  \/ \E w \in Wallets : VertexAdded(n, w)
  \/ \E r \in left[n] : LateRowAdded(n, r)

LoaderStep(n) ==
  /\ Is(n, "load") /\ LoaderMove(n)
  /\ failures' = failures \/ Fail
  /\ UNCHANGED <<dep, pass, tables, scoreVars, passVars,
                 superstep, run, feed, busy, pending, activeIn, stepErr, counted, relay>>

StoreMove(n) ==
  \/ MemoryUpsertScores(n)
  \/ UpsertScoresLosesError(n)
  \/ \E r \in toStore[n] : BulkUpsertScores(n, r)

StoreStep(n) ==
  /\ Is(n, "store") /\ StoreMove(n)
  /\ failures' = failures \/ Fail
  /\ UNCHANGED <<dep, pass, graphVars, tables, loadVars, passVars>>

\* The actions of a load, and its faults, are steps of the loader.
LEMMA LoaderSteps ==
  ASSUME NEW n \in Nodes
  PROVE  /\ MonolithLoads(n) => LoaderStep(n)
         /\ WorkerLoadsWallets(n) => LoaderStep(n)
         /\ WorkerFetchesTxs(n) => LoaderStep(n)
         /\ WorkerAddsVertices(n) => LoaderStep(n)
         /\ LoadGoesWrong(n) => LoaderStep(n)
         /\ LateRow(n) => LoaderStep(n)
<1> USE DEF Is, Mine, Working, LoaderStep, LoaderMove, LoadWallets, FetchTxs, AddVertices
<1>1. MonolithLoads(n) => LoaderStep(n)
  BY DEF MonolithLoads, deployment
<1>2. WorkerLoadsWallets(n) => LoaderStep(n)
  BY DEF WorkerLoadsWallets, WorkerLoads, deployment
<1>3. WorkerFetchesTxs(n) => LoaderStep(n)
  BY DEF WorkerFetchesTxs, WorkerLoads, deployment
<1>4. WorkerAddsVertices(n) => LoaderStep(n)
  BY DEF WorkerAddsVertices, WorkerLoads, deployment
<1>5. LoadGoesWrong(n) => LoaderStep(n)
  BY DEF LoadGoesWrong, LoadFaults, graphVars
<1>6. LateRow(n) => LoaderStep(n)
  BY DEF LateRow, deployment
<1>7. QED
  BY <1>1, <1>2, <1>3, <1>4, <1>5, <1>6

\* The calls of the store are steps of it.
LEMMA StoreSteps ==
  ASSUME NEW n \in Nodes
  PROVE  /\ StoresScores(n) => StoreStep(n)
         /\ StoreLosesError(n) => StoreStep(n)
  BY DEF StoresScores, StoreLosesError, StoreStep, StoreMove, deployment

\* A step is one of these.
NodeMove(n) ==
  \/ LoaderStep(n) \/ StoreStep(n)
  \/ MonolithPassBegins(n) \/ MonolithLoaded(n) \/ MonolithStores(n)
  \/ MonolithPassCompletes(n) \/ MonolithFails(n) \/ ServiceStops(n) \/ ProcessEnds(n)
  \/ StartJob(n) \/ WorkerLoaded(n) \/ CompleteJob(n) \/ ScoresPersisted(n) \/ WorkerFails(n)
  \/ AbortJob(n) \/ GraphRuns(n) \/ StoreFails(n) \/ WorkerCrashes(n)

OtherMove ==
  \/ \E n \in Nodes \cup {Nobody}, t \in Txs : Bounced(n, t)
  \/ JobBegins \/ GraphExecuted \/ JobEnds
  \/ Signal \/ JobCancelled \/ GraphGrows \/ OtherStoreCalls

\* Every step of the system is one of these.
LEMMA Moves ==
  ASSUME Next
  PROVE  OtherMove \/ \E n \in Nodes : NodeMove(n)
  BY LoaderSteps, StoreSteps DEF Next, NodeStep, JobStep, Faults, NodeMove, OtherMove

-----------------------------------------------------------------------------
\* Vertices, field by field.

\* A vertex that is switched on or off.
LEMMA SetOn ==
  ASSUME NEW u \in VertexRecord, NEW x \in BOOLEAN
  PROVE  /\ [u EXCEPT !.on = x] \in VertexRecord /\ [u EXCEPT !.on = x].on = x
         /\ [u EXCEPT !.on = x].value = u.value /\ [u EXCEPT !.on = x].txs = u.txs
         /\ [u EXCEPT !.on = x].active = u.active /\ [u EXCEPT !.on = x].queue = u.queue
  BY DEF VertexRecord
\* A vertex with a new value.
LEMMA SetValue ==
  ASSUME NEW u \in VertexRecord, NEW x \in Int
  PROVE  /\ [u EXCEPT !.value = x] \in VertexRecord /\ [u EXCEPT !.value = x].on = u.on
         /\ [u EXCEPT !.value = x].value = x /\ [u EXCEPT !.value = x].txs = u.txs
         /\ [u EXCEPT !.value = x].active = u.active /\ [u EXCEPT !.value = x].queue = u.queue
  BY DEF VertexRecord
\* A vertex with other transactions.
LEMMA SetTxs ==
  ASSUME NEW u \in VertexRecord, NEW x \in SUBSET Txs
  PROVE  /\ [u EXCEPT !.txs = x] \in VertexRecord /\ [u EXCEPT !.txs = x].on = u.on
         /\ [u EXCEPT !.txs = x].value = u.value /\ [u EXCEPT !.txs = x].txs = x
         /\ [u EXCEPT !.txs = x].active = u.active /\ [u EXCEPT !.txs = x].queue = u.queue
  BY DEF VertexRecord
\* A vertex that is activated or deactivated.
LEMMA SetActive ==
  ASSUME NEW u \in VertexRecord, NEW x \in BOOLEAN
  PROVE  /\ [u EXCEPT !.active = x] \in VertexRecord /\ [u EXCEPT !.active = x].on = u.on
         /\ [u EXCEPT !.active = x].value = u.value /\ [u EXCEPT !.active = x].txs = u.txs
         /\ [u EXCEPT !.active = x].active = x /\ [u EXCEPT !.active = x].queue = u.queue
  BY DEF VertexRecord
\* A vertex with a new queue.
LEMMA SetQueue ==
  ASSUME NEW u \in VertexRecord, NEW i \in {0, 1}, NEW q \in [n : Nat, sum : Nat]
  PROVE  LET v == [u EXCEPT !.queue[i] = q]
         IN /\ v \in VertexRecord /\ v.on = u.on /\ v.value = u.value /\ v.txs = u.txs
            /\ v.active = u.active /\ v.queue[i] = q /\ \A j \in {0, 1} \ {i} : v.queue[j] = u.queue[j]
<1>1. u.queue \in Queues
  BY DEF VertexRecord
<1>2. [u.queue EXCEPT ![i] = q] \in Queues
  BY <1>1 DEF Queues
<1>3. [u.queue EXCEPT ![i] = q][i] = q /\ \A j \in {0, 1} \ {i} : [u.queue EXCEPT ![i] = q][j] = u.queue[j]
  BY <1>1 DEF Queues
<1>4. [u EXCEPT !.queue[i] = q] = [u EXCEPT !.queue = [u.queue EXCEPT ![i] = q]]
  OBVIOUS
<1> DEFINE k == [u.queue EXCEPT ![i] = q]
<1> HIDE DEF k
<1>5. LET v == [u EXCEPT !.queue = k] IN v \in VertexRecord /\ v.on = u.on /\ v.value = u.value /\ v.txs = u.txs
            /\ v.active = u.active /\ v.queue = k
  BY <1>2 DEF VertexRecord, k
<1>6. QED
  BY <1>3, <1>4, <1>5 DEF k

\* The vertex that is not there is a vertex record.
LEMMA NoVertexType == NoVertex \in VertexRecord
<1>1. NoVertex.queue \in Queues
  <2>1. NoVertex.queue = [i \in {0, 1} |-> NoMsgs] /\ NoMsgs \in [n : Nat, sum : Nat]
    BY DEF NoVertex, NoMsgs
  <2>2. QED
    BY <2>1 DEF Queues
<1>2. QED
  BY <1>1 DEF NoVertex, VertexRecord

\* What AddVertex makes of a vertex that is there already, and of one that is not.
LEMMA ReloadedVertex ==
  ASSUME NEW u \in VertexRecord, NEW T \in SUBSET Txs
  PROVE  LET v == [u EXCEPT !.value = 0, !.txs = T]
         IN v \in VertexRecord /\ v.on = u.on /\ v.value = 0 /\ v.txs = T
            /\ v.active = u.active /\ v.queue = u.queue
<1> DEFINE a == [u EXCEPT !.value = 0]
<1>1. a \in VertexRecord /\ a.on = u.on /\ a.value = 0 /\ a.active = u.active /\ a.queue = u.queue
  BY SetValue
<1>2. [u EXCEPT !.value = 0, !.txs = T] = [a EXCEPT !.txs = T]
  OBVIOUS
<1>3. QED
  <2> HIDE DEF a
  <2>1. QED
    BY <1>1, <1>2, SetTxs

\* A vertex that AddVertex makes is new (graph.go).
LEMMA LoadedVertex ==
  ASSUME NEW T \in SUBSET Txs
  PROVE  LET v == [NoVertex EXCEPT !.on = TRUE, !.txs = T, !.active = TRUE]
         IN v \in VertexRecord /\ v.on /\ v.value = 0 /\ v.txs = T /\ v.active /\ v.queue = NoVertex.queue
<1> DEFINE a == [NoVertex EXCEPT !.on = TRUE]
<1> DEFINE b == [a EXCEPT !.txs = T]
<1>1. a \in VertexRecord /\ a.on /\ a.value = 0 /\ a.queue = NoVertex.queue
  <2>1. NoVertex.value = 0
    BY DEF NoVertex
  <2>2. QED
    BY <2>1, NoVertexType, SetOn
<1>2. b \in VertexRecord /\ b.on /\ b.value = 0 /\ b.txs = T /\ b.queue = NoVertex.queue
  <2> HIDE DEF a
  <2>1. QED
    BY <1>1, SetTxs
<1>3. [NoVertex EXCEPT !.on = TRUE, !.txs = T, !.active = TRUE] = [b EXCEPT !.active = TRUE]
  OBVIOUS
<1>4. QED
  <2> HIDE DEF b
  <2>1. QED
    BY ZenonT(60), <1>2, <1>3, SetActive

-----------------------------------------------------------------------------
\* Loading a graph: its books, action by action.

Counted == {"addrCh", "fetch", "vertexCh", "added"}

\* What a wallet that goes to p changes in the sets of its load.
LEMMA GoesIn ==
  ASSUME where \in [Nodes -> [Wallets -> Places]], NEW n \in Nodes, NEW w \in Wallets,
         NEW p \in Places, where[n][w] # p, Goes(n, w, p)
  PROVE  /\ where' \in [Nodes -> [Wallets -> Places]]
         /\ \A x \in Places : In(n, x)' = IF x = p THEN In(n, x) \cup {w}
                                          ELSE In(n, x) \ {w}
         /\ w \in In(n, where[n][w]) /\ w \notin In(n, p)
         /\ Under(n)' = IF p \in Counted THEN Under(n) \cup {w} ELSE Under(n) \ {w}
         /\ w \in Under(n) <=> where[n][w] \in Counted
<1>1. where' \in [Nodes -> [Wallets -> Places]] /\ \A v \in Wallets : where'[n][v] = IF v = w THEN p ELSE where[n][v]
  BY DEF Goes
<1>2. \A x \in Places : In(n, x)' = IF x = p THEN In(n, x) \cup {w} ELSE In(n, x) \ {w}
  BY <1>1 DEF In
<1>3. Under(n)' = IF p \in Counted THEN Under(n) \cup {w} ELSE Under(n) \ {w}
  BY <1>1 DEF Under, Counted
<1>4. QED
  BY <1>1, <1>2, <1>3 DEF In, Under, Counted

\* What the control invariant says of the variables of a load.
LEMMA LoadFacts ==
  ASSUME Control, NEW n \in Nodes
  PROVE  /\ where \in [Nodes -> [Wallets -> Places]] /\ load \in [Nodes -> LoadRecord]
         /\ got \in [Nodes -> [Wallets -> SUBSET Txs]]
         /\ LoadBooks(n) /\ dep.fetchers \in Nat
         /\ load[n].num \in Nat /\ load[n].seen \in Nat /\ load[n].fetchers \in Nat
         /\ load[n].fetchers <= dep.fetchers
         /\ \A x \in Places : In(n, x) \in SUBSET Wallets
         /\ Under(n) \in SUBSET Wallets /\ In(n, "added") \subseteq Under(n)
<1>1. where \in [Nodes -> [Wallets -> Places]] /\ load \in [Nodes -> LoadRecord]
      /\ got \in [Nodes -> [Wallets -> SUBSET Txs]]
  BY DEF Control, Types, LoadTypeOK, Places, LoadRecord
<1>2. dep.fetchers \in Nat
  BY DeploymentsAssumption DEF Control, Types, DeploymentTypeOK
<1>3. load[n] \in LoadRecord
  BY <1>1
<1>4. Cardinality(Wallets) \in Nat
  BY FiniteWallets
<1>5. load[n].num \in Nat /\ load[n].seen \in Nat /\ load[n].fetchers \in Nat /\ load[n].fetchers <= dep.fetchers
  BY <1>2, <1>3, <1>4 DEF LoadRecord
<1>6. LoadBooks(n)
  BY DEF Control, GraphBooks
<1>7. QED
  BY <1>1, <1>2, <1>5, <1>6 DEF In, Under

\* The rest of a load's books and its types, action by action.
LoaderKeeps(n) ==
  /\ load' \in [Nodes -> LoadRecord] /\ where' \in [Nodes -> [Wallets -> Places]]
  /\ got' \in [Nodes -> [Wallets -> SUBSET Txs]]
  /\ LoadBooks(n)'

\* The books of a load that is under way.
UnderWay(n) ==
  /\ load[n].num = Cardinality(Under(n)) + (dep.fetchers - load[n].fetchers)
  /\ load[n].num + Cardinality(In(n, "todo")) <= Cardinality(Wallets)
  /\ load[n].seen = Cardinality(In(n, "added"))
  /\ Cardinality(In(n, "fetch")) <= load[n].fetchers
  /\ load[n].at = "wait" => In(n, "todo") = {}
  /\ load[n].known => load[n].at = "wait"
  /\ load[n].done => load[n].known /\ load[n].seen = load[n].num
  /\ \A w \in In(n, "added") : vertex[n][w].on

\* The books of a load that has not returned.
LEMMA BooksUnderWay ==
  ASSUME NEW n \in Nodes, load[n].at \in {"iterate", "wait"}
  PROVE  LoadBooks(n) <=> UnderWay(n)
  BY DEF LoadBooks, UnderWay

\* The same, after a step.
LEMMA BooksUnderWayNext ==
  ASSUME NEW n \in Nodes, load'[n].at \in {"iterate", "wait"}
  PROVE  LoadBooks(n)' <=> UnderWay(n)'
  BY DEF LoadBooks, UnderWay

\* The numbers that these sets have.
LEMMA Numbers ==
  ASSUME Control, NEW n \in Nodes
  PROVE  /\ Cardinality(Wallets) \in Nat /\ Cardinality(Under(n)) \in Nat
         /\ \A x \in Places : Cardinality(In(n, x)) \in Nat
         /\ Cardinality(In(n, "added")) <= Cardinality(Under(n))
<1>1. In(n, "added") \in SUBSET Under(n) /\ IsFiniteSet(Under(n))
  BY LoadFacts, FiniteWallets
<1>2. Cardinality(In(n, "added")) <= Cardinality(Under(n))
  BY <1>1, FS_Subset
<1>3. QED
  BY <1>2, LoadFacts, FiniteWallets

\* What a wallet that goes from q to p changes.
LEMMA GoesNumbers ==
  ASSUME Control, NEW n \in Nodes, NEW w \in Wallets, NEW p \in Places, NEW q \in Places,
         where[n][w] = q, q # p, Goes(n, w, p)
  PROVE  /\ where' \in [Nodes -> [Wallets -> Places]]
         /\ In(n, p)' = In(n, p) \cup {w} /\ In(n, q)' = In(n, q) \ {w}
         /\ w \in In(n, q) /\ w \notin In(n, p)
         /\ Cardinality(In(n, p)') = Cardinality(In(n, p)) + 1
         /\ Cardinality(In(n, q)') = Cardinality(In(n, q)) - 1
         /\ \A x \in Places \ {p, q} : In(n, x)' = In(n, x)
         /\ p \in Counted /\ q \in Counted => Under(n)' = Under(n)
         /\ p \in Counted /\ q \notin Counted => Cardinality(Under(n)') = Cardinality(Under(n)) + 1
         /\ p \notin Counted /\ q \in Counted =>
              Cardinality(Under(n)') = Cardinality(Under(n)) - 1 /\ Cardinality(Under(n)) >= 1
<1>1. /\ where' \in [Nodes -> [Wallets -> Places]]
      /\ \A x \in Places : In(n, x)' = IF x = p THEN In(n, x) \cup {w} ELSE In(n, x) \ {w}
      /\ w \in In(n, q) /\ w \notin In(n, p)
      /\ Under(n)' = IF p \in Counted THEN Under(n) \cup {w} ELSE Under(n) \ {w}
      /\ w \in Under(n) <=> q \in Counted
  BY GoesIn, LoadFacts
<1>2. In(n, p) \in SUBSET Wallets /\ In(n, q) \in SUBSET Wallets /\ Under(n) \in SUBSET Wallets
  BY LoadFacts
<1>3. In(n, p)' = In(n, p) \cup {w} /\ In(n, q)' = In(n, q) \ {w}
  BY <1>1
<1>4. Cardinality(In(n, p) \cup {w}) = Cardinality(In(n, p)) + 1
  BY <1>1, <1>2, WalletAdded
<1>5. Cardinality(In(n, q) \ {w}) = Cardinality(In(n, q)) - 1
  BY <1>1, <1>2, WalletTaken
<1>6. ASSUME NEW x \in Places \ {p, q} PROVE In(n, x)' = In(n, x)
  <2>1. w \notin In(n, x)
    BY DEF In
  <2>2. In(n, x)' = In(n, x) \ {w}
    BY <1>1
  <2>3. QED
    BY <2>1, <2>2
<1>7. p \in Counted /\ q \in Counted => Under(n)' = Under(n)
  BY <1>1
<1>8. p \in Counted /\ q \notin Counted => Cardinality(Under(n)') = Cardinality(Under(n)) + 1
  BY <1>1, <1>2, WalletAdded
<1>9. p \notin Counted /\ q \in Counted =>
        Cardinality(Under(n)') = Cardinality(Under(n)) - 1 /\ Cardinality(Under(n)) >= 1
  BY <1>1, <1>2, WalletTaken
<1>10. QED
  BY <1>1, <1>3, <1>4, <1>5, <1>6, <1>7, <1>8, <1>9

\* The numbers of a load are within their bounds.
LEMMA RecordFacts ==
  ASSUME Control, NEW n \in Nodes
  PROVE  /\ load[n] \in LoadRecord
         /\ load[n].num \in Nat /\ load[n].seen \in Nat /\ load[n].fetchers \in Nat /\ dep.fetchers \in Nat
         /\ load[n].fetchers <= dep.fetchers
         /\ load[n].num <= Cardinality(Wallets) /\ load[n].seen <= Cardinality(Wallets)
         /\ Cardinality(Wallets) \in Nat /\ Cardinality(Under(n)) \in Nat
         /\ Cardinality(In(n, "todo")) \in Nat /\ Cardinality(In(n, "fetch")) \in Nat
         /\ Cardinality(In(n, "added")) \in Nat /\ Cardinality(In(n, "added")) <= Cardinality(Under(n))
<1>1. load[n] \in LoadRecord /\ Cardinality(Wallets) \in Nat
  BY LoadFacts, FiniteWallets
<1>2. load[n].num <= Cardinality(Wallets) /\ load[n].seen <= Cardinality(Wallets)
  BY <1>1 DEF LoadRecord
<1>3. "todo" \in Places /\ "fetch" \in Places /\ "added" \in Places
  BY DEF Places
<1>4. QED
  BY <1>1, <1>2, <1>3, LoadFacts, Numbers

\* A wallet that is sent to the fetchers is counted (worker.go:297-326).
LEMMA KeepsSent ==
  ASSUME Control, NEW n \in Nodes, dep' = dep, NEW w \in Wallets, WalletSent(n, w), UNCHANGED vertex
  PROVE  LoaderKeeps(n)
<1>1. /\ load[n].at = "iterate" /\ where[n][w] = "todo" /\ Goes(n, w, "addrCh")
      /\ load' = [load EXCEPT ![n].num = @ + 1] /\ got' = got
  BY DEF WalletSent
<1>2. "addrCh" \in Places /\ "todo" \in Places /\ "addrCh" \in Counted /\ "todo" \notin Counted
      /\ "fetch" \in Places \ {"addrCh", "todo"} /\ "added" \in Places \ {"addrCh", "todo"}
  BY DEF Places, Counted
<1>3. /\ where' \in [Nodes -> [Wallets -> Places]]
      /\ Cardinality(In(n, "todo")') = Cardinality(In(n, "todo")) - 1
      /\ Cardinality(Under(n)') = Cardinality(Under(n)) + 1
      /\ In(n, "fetch")' = In(n, "fetch") /\ In(n, "added")' = In(n, "added")
  BY <1>1, <1>2, GoesNumbers
<1>4. Cardinality(In(n, "todo")) >= 1
  BY <1>1, <1>2, GoesNumbers, WalletTaken, LoadFacts
<1>5. UnderWay(n)
  BY <1>1, LoadFacts, BooksUnderWay
<1>6. load[n].num + 1 <= Cardinality(Wallets)
  BY <1>4, <1>5, RecordFacts DEF UnderWay
<1>7. load'[n] = [load[n] EXCEPT !.num = load[n].num + 1]
  BY <1>1, LoadFacts
<1>8. load' \in [Nodes -> LoadRecord]
  <2>1. load[n].num + 1 \in 0 .. Cardinality(Wallets)
    BY <1>6, RecordFacts
  <2>2. [load[n] EXCEPT !.num = load[n].num + 1] \in LoadRecord
    BY <2>1, RecordFacts DEF LoadRecord
  <2>3. QED
    BY <1>1, <2>2, LoadFacts
<1>9. /\ load'[n].at = "iterate" /\ load'[n].num = load[n].num + 1
      /\ load'[n].seen = load[n].seen /\ load'[n].fetchers = load[n].fetchers
      /\ load'[n].known = load[n].known /\ load'[n].done = load[n].done
  BY <1>1, <1>7, RecordFacts DEF LoadRecord
<1>10. UnderWay(n)'
  <2>1. load[n].known = FALSE /\ load[n].done = FALSE
    BY <1>1, <1>5, RecordFacts DEF UnderWay, LoadRecord
  <2>2. load'[n].num = Cardinality(Under(n)') + (dep.fetchers - load'[n].fetchers)
    BY <1>3, <1>5, <1>9, RecordFacts DEF UnderWay
  <2>3. load'[n].num + Cardinality(In(n, "todo")') <= Cardinality(Wallets)
    BY <1>3, <1>5, <1>9, RecordFacts DEF UnderWay
  <2>4. QED
    BY <1>1, <1>3, <1>5, <1>9, <2>1, <2>2, <2>3 DEF UnderWay
<1>11. QED
  BY <1>1, <1>3, <1>8, <1>9, <1>10, LoadFacts, BooksUnderWayNext DEF LoaderKeeps

\* A wallet is on its way only while its load is under way.
LEMMA OnItsWay ==
  ASSUME Control, NEW n \in Nodes, NEW w \in Wallets, where[n][w] # "none"
  PROVE  load[n].at \in {"iterate", "wait"} /\ UnderWay(n)
  BY LoadFacts, BooksUnderWay DEF LoadBooks

\* A number is known only to a load that is under way.
LEMMA KnownLoad ==
  ASSUME Control, NEW n \in Nodes, load[n].known
  PROVE  load[n].at \in {"iterate", "wait"}
<1>1. SUFFICES ASSUME load[n].at \notin {"iterate", "wait"} PROVE FALSE
  OBVIOUS
<1>2. LoadBooks(n)
  BY LoadFacts
<1>3. load[n] = [NoLoad EXCEPT !.at = load[n].at]
  BY <1>1, <1>2 DEF LoadBooks
<1>4. \A x : ~[NoLoad EXCEPT !.at = x].known
  BY DEF NoLoad
<1>5. QED
  BY <1>3, <1>4

\* Steps that leave the sets alone.
LEMMA KeepsPlaces ==
  ASSUME Control, NEW n \in Nodes, dep' = dep, UNCHANGED vertex,
         WalletsEnd(n) \/ NumberLearnt(n) \/ AllAdded(n)
  PROVE  LoaderKeeps(n)
<1>0. UNCHANGED <<where, got>>
  BY DEF WalletsEnd, NumberLearnt, AllAdded
<1>1. load[n].at \in {"iterate", "wait"} /\ UnderWay(n)
  <2>1. load[n].at \in {"iterate", "wait"} \/ load[n].known
    BY DEF WalletsEnd, NumberLearnt, AllAdded
  <2>2. load[n].known => load[n].at \in {"iterate", "wait"}
    BY KnownLoad
  <2>3. QED
    BY <2>1, <2>2, LoadFacts, BooksUnderWay
<1>2. /\ In(n, "todo")' = In(n, "todo") /\ In(n, "fetch")' = In(n, "fetch")
      /\ In(n, "added")' = In(n, "added") /\ Under(n)' = Under(n)
  BY <1>0 DEF In, Under
<1>3. CASE WalletsEnd(n)
  <2>1. load' = [load EXCEPT ![n] = [load[n] EXCEPT !.at = "wait"]] /\ In(n, "todo") = {} /\ load[n].at = "iterate"
    BY <1>3, LoadFacts DEF WalletsEnd
  <2>2. load' \in [Nodes -> LoadRecord] /\ load'[n] = [load[n] EXCEPT !.at = "wait"]
    <3>1. load \in [Nodes -> LoadRecord] /\ load[n] \in LoadRecord
      BY LoadFacts, RecordFacts
    <3>2. [load[n] EXCEPT !.at = "wait"] \in LoadRecord
      BY <3>1 DEF LoadRecord
    <3>3. QED
      BY <2>1, <3>1, <3>2
  <2>3. UnderWay(n)'
    BY <1>0, <1>1, <1>2, <2>1, <2>2, RecordFacts DEF UnderWay, LoadRecord
  <2>4. load'[n].at = "wait"
    BY <2>2, RecordFacts DEF LoadRecord
  <2>5. QED
    BY <1>0, <2>2, <2>3, <2>4, LoadFacts, BooksUnderWayNext DEF LoaderKeeps
<1>4. CASE NumberLearnt(n)
  <2>1. load' = [load EXCEPT ![n] = [load[n] EXCEPT !.known = TRUE]] /\ load[n].at = "wait"
    BY <1>4, LoadFacts DEF NumberLearnt
  <2>2. load' \in [Nodes -> LoadRecord] /\ load'[n] = [load[n] EXCEPT !.known = TRUE]
    <3>1. load \in [Nodes -> LoadRecord] /\ load[n] \in LoadRecord
      BY LoadFacts, RecordFacts
    <3>2. [load[n] EXCEPT !.known = TRUE] \in LoadRecord
      BY <3>1 DEF LoadRecord
    <3>3. QED
      BY <2>1, <3>1, <3>2
  <2>3. UnderWay(n)'
    BY <1>0, <1>1, <1>2, <2>1, <2>2, RecordFacts DEF UnderWay, LoadRecord
  <2>4. load'[n].at = "wait"
    BY <2>1, <2>2, RecordFacts DEF LoadRecord
  <2>5. QED
    BY <1>0, <2>2, <2>3, <2>4, LoadFacts, BooksUnderWayNext DEF LoaderKeeps
<1>5. CASE AllAdded(n)
  <2>1. load' = [load EXCEPT ![n] = [load[n] EXCEPT !.done = TRUE]] /\ load[n].known /\ load[n].seen = load[n].num
    BY <1>5, LoadFacts DEF AllAdded
  <2>2. load' \in [Nodes -> LoadRecord] /\ load'[n] = [load[n] EXCEPT !.done = TRUE]
    <3>1. load \in [Nodes -> LoadRecord] /\ load[n] \in LoadRecord
      BY LoadFacts, RecordFacts
    <3>2. [load[n] EXCEPT !.done = TRUE] \in LoadRecord
      BY <3>1 DEF LoadRecord
    <3>3. QED
      BY <2>1, <3>1, <3>2
  <2>3. UnderWay(n)'
    BY <1>0, <1>1, <1>2, <2>1, <2>2, RecordFacts DEF UnderWay, LoadRecord
  <2>4. load'[n].at = load[n].at
    BY <2>2, RecordFacts DEF LoadRecord
  <2>5. QED
    BY <1>0, <1>1, <2>2, <2>3, <2>4, LoadFacts, BooksUnderWayNext DEF LoaderKeeps
<1>6. QED
  BY <1>3, <1>4, <1>5

\* A result set that broke off looks like its end.
LEMMA KeepsCut ==
  ASSUME Control, NEW n \in Nodes, dep' = dep, UNCHANGED vertex, WalletsCut(n)
  PROVE  LoaderKeeps(n)
<1>1. /\ load[n].at = "iterate" /\ load' = load /\ got' = got
      /\ where' = [where EXCEPT ![n] = [w \in Wallets |-> IF where[n][w] = "todo" THEN "none" ELSE where[n][w]]]
  BY LoadFacts DEF WalletsCut
<1>2. where' \in [Nodes -> [Wallets -> Places]]
      /\ \A w \in Wallets : where'[n][w] = IF where[n][w] = "todo" THEN "none" ELSE where[n][w]
  BY <1>1, LoadFacts DEF Places
<1>3. /\ In(n, "todo")' = {} /\ In(n, "fetch")' = In(n, "fetch")
      /\ In(n, "added")' = In(n, "added") /\ Under(n)' = Under(n)
  BY <1>2 DEF In, Under
<1>4. UnderWay(n)
  BY <1>1, LoadFacts, BooksUnderWay
<1>5. Cardinality(In(n, "todo")') = 0
  BY <1>3, FS_EmptySet
<1>6. load[n].num + 0 <= Cardinality(Wallets)
  BY RecordFacts
<1>7. UnderWay(n)'
  BY <1>1, <1>3, <1>4, <1>5, <1>6, RecordFacts DEF UnderWay
<1>8. QED
  BY <1>1, <1>2, <1>7, LoadFacts, BooksUnderWayNext DEF LoaderKeeps

\* A load that returns has no books.
LEMMA KeepsEnd ==
  ASSUME Control, NEW n \in Nodes, dep' = dep, UNCHANGED vertex,
         WalletsFail(n) \/ LoadSucceeds(n) \/ LoadGetsError(n) \/ LoadCancelled(n)
  PROVE  LoaderKeeps(n)
<1>1. got' = got /\ NobodyIn(n)
  BY DEF WalletsFail, LoadSucceeds, LoadGetsError, LoadCancelled, LoadReturns, LeavesRows
<1>2. PICK a \in {"ok", "err", "cancelled"} : load' = [load EXCEPT ![n] = [NoLoad EXCEPT !.at = a]]
  BY DEF WalletsFail, LoadSucceeds, LoadGetsError, LoadCancelled, LoadReturns
<1>3. [NoLoad EXCEPT !.at = a] \in LoadRecord
  <2>1. 0 \in 0 .. Cardinality(Wallets) /\ 0 \in 0 .. dep.fetchers
    BY RecordFacts
  <2>2. QED
    BY <2>1 DEF NoLoad, LoadRecord
<1>4. load' \in [Nodes -> LoadRecord] /\ load'[n] = [NoLoad EXCEPT !.at = a] /\ load'[n].at = a
  BY <1>2, <1>3, LoadFacts DEF NoLoad
<1>5. where' \in [Nodes -> [Wallets -> Places]] /\ \A w \in Wallets : where'[n][w] = "none"
  BY <1>1, LoadFacts DEF NobodyIn, Places
<1>6. LoadBooks(n)'
  BY <1>4, <1>5 DEF LoadBooks
<1>7. QED
  BY <1>1, <1>4, <1>5, <1>6, LoadFacts DEF LoaderKeeps

\* A fetcher gets what the table has of its wallet, and nothing of another one.
LEMMA KeepsFetch ==
  ASSUME Control, NEW n \in Nodes, dep' = dep, UNCHANGED <<vertex, tx>>, NEW w \in Wallets, FetchWalletTxs(n, w)
  PROVE  LoaderKeeps(n)
<1>1. /\ where[n][w] = "addrCh" /\ Goes(n, w, "fetch") /\ load' = load
      /\ Cardinality(In(n, "fetch")) < load[n].fetchers
      /\ got' = [got EXCEPT ![n][w] = WalletTxs(w)]
  BY DEF FetchWalletTxs
<1>2. load[n].at \in {"iterate", "wait"} /\ UnderWay(n)
  BY <1>1, OnItsWay
<1>3. "addrCh" \in Places /\ "fetch" \in Places /\ "addrCh" \in Counted /\ "fetch" \in Counted
      /\ "todo" \in Places \ {"addrCh", "fetch"} /\ "added" \in Places \ {"addrCh", "fetch"}
  BY DEF Places, Counted
<1>4. /\ where' \in [Nodes -> [Wallets -> Places]]
      /\ Cardinality(In(n, "fetch")') = Cardinality(In(n, "fetch")) + 1
      /\ Under(n)' = Under(n)
      /\ In(n, "todo")' = In(n, "todo") /\ In(n, "added")' = In(n, "added")
  BY <1>1, <1>3, GoesNumbers
<1>5. WalletTxs(w) \in SUBSET Txs
  BY DEF WalletTxs, Control, Types, TypeOK, LoadTypeOK
<1>6. got' \in [Nodes -> [Wallets -> SUBSET Txs]] /\ \A v \in Wallets \ {w} : got'[n][v] = got[n][v]
  BY <1>1, <1>5, LoadFacts
<1>7. w \notin In(n, "added") /\ In(n, "added") \subseteq Wallets
  BY <1>1 DEF In
<1>8. Cardinality(In(n, "fetch")') <= load[n].fetchers
  BY <1>1, <1>4, RecordFacts
<1>9. \A v \in In(n, "added")' : vertex'[n][v].on
  BY <1>2, <1>4 DEF UnderWay
<1>10. UnderWay(n)'
  BY <1>1, <1>2, <1>4, <1>8, <1>9 DEF UnderWay
<1>11. QED
  BY <1>1, <1>2, <1>4, <1>6, <1>10, LoadFacts, BooksUnderWayNext DEF LoaderKeeps

\* A fetcher passes its wallet on.
LEMMA KeepsVertexSent ==
  ASSUME Control, NEW n \in Nodes, dep' = dep, UNCHANGED vertex, NEW w \in Wallets, VertexSent(n, w)
  PROVE  LoaderKeeps(n)
<1>1. where[n][w] = "fetch" /\ Goes(n, w, "vertexCh") /\ load' = load /\ got' = got
  BY DEF VertexSent
<1>2. load[n].at \in {"iterate", "wait"} /\ UnderWay(n)
  BY <1>1, OnItsWay
<1>3. "fetch" \in Places /\ "vertexCh" \in Places /\ "fetch" \in Counted /\ "vertexCh" \in Counted
      /\ "todo" \in Places \ {"vertexCh", "fetch"} /\ "added" \in Places \ {"vertexCh", "fetch"}
  BY DEF Places, Counted
<1>4. /\ where' \in [Nodes -> [Wallets -> Places]]
      /\ Cardinality(In(n, "fetch")') = Cardinality(In(n, "fetch")) - 1
      /\ Under(n)' = Under(n)
      /\ In(n, "todo")' = In(n, "todo") /\ In(n, "added")' = In(n, "added")
  BY <1>1, <1>3, GoesNumbers
<1>5. Cardinality(In(n, "fetch")') <= load[n].fetchers
  BY <1>2, <1>4, RecordFacts DEF UnderWay
<1>6. UnderWay(n)'
  BY <1>1, <1>2, <1>4, <1>5 DEF UnderWay
<1>7. QED
  BY <1>1, <1>2, <1>4, <1>6, LoadFacts, BooksUnderWayNext DEF LoaderKeeps

\* A fetcher takes a result set that broke off for a whole one.
LEMMA KeepsTxsCut ==
  ASSUME Control, NEW n \in Nodes, dep' = dep, UNCHANGED vertex, NEW w \in Wallets, WalletTxsCut(n, w)
  PROVE  LoaderKeeps(n)
<1>1. where[n][w] = "fetch" /\ load' = load /\ where' = where
  BY DEF WalletTxsCut
<1>2. PICK T \in SUBSET got[n][w] : got' = [got EXCEPT ![n][w] = T]
  BY DEF WalletTxsCut
<1>3. load[n].at \in {"iterate", "wait"} /\ UnderWay(n)
  BY <1>1, OnItsWay
<1>4. got' \in [Nodes -> [Wallets -> SUBSET Txs]] /\ \A v \in Wallets \ {w} : got'[n][v] = got[n][v]
  <2>1. T \in SUBSET Txs
    BY LoadFacts
  <2>2. QED
    BY <1>2, <2>1, LoadFacts
<1>5. /\ In(n, "todo")' = In(n, "todo") /\ In(n, "fetch")' = In(n, "fetch")
      /\ In(n, "added")' = In(n, "added") /\ Under(n)' = Under(n)
  BY <1>1 DEF In, Under
<1>6. w \notin In(n, "added") /\ In(n, "added") \subseteq Wallets
  BY <1>1 DEF In
<1>7. UnderWay(n)'
  BY <1>1, <1>3, <1>4, <1>5, <1>6 DEF UnderWay
<1>8. QED
  BY <1>1, <1>3, <1>4, <1>7, LoadFacts, BooksUnderWayNext DEF LoaderKeeps

\* A fetcher that fails takes its wallet with it, and is one less.
LEMMA KeepsFailure ==
  ASSUME Control, NEW n \in Nodes, dep' = dep, UNCHANGED vertex, NEW w \in Wallets, FetchFails(n, w)
  PROVE  LoaderKeeps(n)
<1>1. /\ where[n][w] = "fetch" /\ Goes(n, w, "none") /\ got' = got
      /\ load' = [load EXCEPT ![n].fetchers = @ - 1, ![n].err = TRUE]
  BY DEF FetchFails
<1>2. load[n].at \in {"iterate", "wait"} /\ UnderWay(n)
  BY <1>1, OnItsWay
<1>3. "fetch" \in Places /\ "none" \in Places /\ "fetch" \in Counted /\ "none" \notin Counted
      /\ "todo" \in Places \ {"none", "fetch"} /\ "added" \in Places \ {"none", "fetch"}
  BY DEF Places, Counted
<1>4. /\ where' \in [Nodes -> [Wallets -> Places]]
      /\ Cardinality(In(n, "fetch")') = Cardinality(In(n, "fetch")) - 1 /\ w \in In(n, "fetch")
      /\ Cardinality(Under(n)') = Cardinality(Under(n)) - 1 /\ Cardinality(Under(n)) >= 1
      /\ In(n, "todo")' = In(n, "todo") /\ In(n, "added")' = In(n, "added")
  BY <1>1, <1>3, GoesNumbers
<1>5. Cardinality(In(n, "fetch")) >= 1
  BY <1>3, <1>4, WalletTaken, LoadFacts
<1>6. load[n].fetchers - 1 \in 0 .. dep.fetchers
  BY <1>2, <1>5, RecordFacts DEF UnderWay
<1>7. load'[n] = [load[n] EXCEPT !.fetchers = load[n].fetchers - 1, !.err = TRUE]
  BY <1>1, LoadFacts
<1>8. load' \in [Nodes -> LoadRecord]
  <2>1. [load[n] EXCEPT !.fetchers = load[n].fetchers - 1, !.err = TRUE] \in LoadRecord
    BY <1>6, RecordFacts DEF LoadRecord
  <2>2. QED
    BY <1>1, <1>7, <2>1, LoadFacts
<1>9. /\ load'[n].at = load[n].at /\ load'[n].num = load[n].num
      /\ load'[n].seen = load[n].seen /\ load'[n].fetchers = load[n].fetchers - 1
      /\ load'[n].known = load[n].known /\ load'[n].done = load[n].done
  BY <1>7, RecordFacts DEF LoadRecord
<1>10. /\ load'[n].num = Cardinality(Under(n)') + (dep.fetchers - load'[n].fetchers)
       /\ Cardinality(In(n, "fetch")') <= load'[n].fetchers
  BY <1>2, <1>4, <1>5, <1>9, RecordFacts DEF UnderWay
<1>11. UnderWay(n)'
  BY <1>1, <1>2, <1>4, <1>9, <1>10 DEF UnderWay
<1>12. QED
  BY <1>1, <1>2, <1>4, <1>8, <1>9, <1>11, LoadFacts, BooksUnderWayNext DEF LoaderKeeps

\* AddVertex changes one vertex.
LEMMA VertexAddedTo ==
  ASSUME NEW V \in [Wallets -> VertexRecord], NEW w \in Wallets, NEW T \in SUBSET Txs
  PROVE  LET U == AddVertex(V, w, T)
         IN /\ U \in [Wallets -> VertexRecord] /\ \A v \in Wallets \ {w} : U[v] = V[v]
            /\ U[w].on /\ U[w].value = 0 /\ U[w].txs = T
            /\ IF V[w].on THEN U[w].active = V[w].active /\ U[w].queue = V[w].queue
               ELSE U[w].active /\ U[w].queue = NoVertex.queue
<1> DEFINE a == [V[w] EXCEPT !.value = 0, !.txs = T]
<1> DEFINE b == [NoVertex EXCEPT !.on = TRUE, !.txs = T, !.active = TRUE]
<1>1. /\ a \in VertexRecord /\ a.on = V[w].on /\ a.value = 0 /\ a.txs = T
      /\ a.active = V[w].active /\ a.queue = V[w].queue
  BY ReloadedVertex
<1>2. b \in VertexRecord /\ b.on /\ b.value = 0 /\ b.txs = T /\ b.active /\ b.queue = NoVertex.queue
  BY LoadedVertex
<1>3. AddVertex(V, w, T) = [V EXCEPT ![w] = IF V[w].on THEN a ELSE b]
  BY DEF AddVertex
<1> HIDE DEF a, b
<1>4. QED
  BY <1>1, <1>2, <1>3

\* A vertex that is added is seen, and has what was fetched.
LEMMA KeepsAdded ==
  ASSUME Control, NEW n \in Nodes, dep' = dep, NEW w \in Wallets, VertexAdded(n, w)
  PROVE  LoaderKeeps(n) /\ vertex' \in [Nodes -> [Wallets -> VertexRecord]]
<1>1. /\ where[n][w] = "vertexCh" /\ Goes(n, w, "added") /\ got' = got
      /\ load' = [load EXCEPT ![n].seen = @ + 1]
      /\ vertex' = [vertex EXCEPT ![n] = AddVertex(vertex[n], w, got[n][w])]
  BY DEF VertexAdded
<1>2. load[n].at \in {"iterate", "wait"} /\ UnderWay(n)
  BY <1>1, OnItsWay
<1>3. "vertexCh" \in Places /\ "added" \in Places /\ "vertexCh" \in Counted /\ "added" \in Counted
      /\ "todo" \in Places \ {"added", "vertexCh"} /\ "fetch" \in Places \ {"added", "vertexCh"}
  BY DEF Places, Counted
<1>4. /\ where' \in [Nodes -> [Wallets -> Places]]
      /\ In(n, "added")' = In(n, "added") \cup {w} /\ w \notin In(n, "added")
      /\ Cardinality(In(n, "added")') = Cardinality(In(n, "added")) + 1
      /\ Under(n)' = Under(n)
      /\ In(n, "todo")' = In(n, "todo") /\ In(n, "fetch")' = In(n, "fetch")
  BY <1>1, <1>3, GoesNumbers
<1>5. Cardinality(In(n, "added")') <= Cardinality(Under(n))
  <2>1. w \in Under(n) /\ In(n, "added") \subseteq Under(n)
    BY <1>1 DEF Under, In
  <2>2. In(n, "added")' \in SUBSET Under(n) /\ IsFiniteSet(Under(n))
    BY <1>4, <2>1, LoadFacts, FiniteWallets
  <2>3. QED
    BY <2>2, FS_Subset
<1>6. load[n].seen + 1 <= load[n].num
  BY <1>2, <1>4, <1>5, RecordFacts DEF UnderWay
<1>7. load[n].done = FALSE
  BY <1>2, <1>6, RecordFacts DEF UnderWay, LoadRecord
<1>8. load'[n] = [load[n] EXCEPT !.seen = load[n].seen + 1]
  BY <1>1, LoadFacts
<1>9. load' \in [Nodes -> LoadRecord]
  <2>1. load[n].seen + 1 \in 0 .. Cardinality(Wallets)
    BY <1>6, RecordFacts
  <2>2. [load[n] EXCEPT !.seen = load[n].seen + 1] \in LoadRecord
    BY <2>1, RecordFacts DEF LoadRecord
  <2>3. QED
    BY <1>1, <2>2, LoadFacts
<1>10. /\ load'[n].at = load[n].at /\ load'[n].num = load[n].num
       /\ load'[n].seen = load[n].seen + 1 /\ load'[n].fetchers = load[n].fetchers
       /\ load'[n].known = load[n].known /\ load'[n].done = FALSE
  BY <1>7, <1>8, RecordFacts DEF LoadRecord
<1>11. vertex \in [Nodes -> [Wallets -> VertexRecord]] /\ got[n][w] \in SUBSET Txs
  <2>1. got[n][w] \in SUBSET Txs
    BY LoadFacts
  <2>2. QED
    BY <2>1 DEF Control, Types, GraphTypes
<1>12. /\ AddVertex(vertex[n], w, got[n][w]) \in [Wallets -> VertexRecord]
       /\ AddVertex(vertex[n], w, got[n][w])[w].on
       /\ AddVertex(vertex[n], w, got[n][w])[w].txs = got[n][w]
       /\ \A v \in Wallets \ {w} : AddVertex(vertex[n], w, got[n][w])[v] = vertex[n][v]
  BY <1>11, VertexAddedTo
<1>13. vertex' \in [Nodes -> [Wallets -> VertexRecord]] /\ vertex'[n] = AddVertex(vertex[n], w, got[n][w])
  BY <1>1, <1>11, <1>12
<1>14. \A v \in In(n, "added")' : vertex'[n][v].on
  <2>1. In(n, "added") \subseteq Wallets
    BY DEF In
  <2>2. QED
    BY SMTT(60), <1>1, <1>2, <1>4, <1>12, <1>13, <2>1 DEF UnderWay
<1>15. /\ load'[n].num = Cardinality(Under(n)') + (dep.fetchers - load'[n].fetchers)
       /\ load'[n].seen = Cardinality(In(n, "added")')
       /\ load'[n].num + Cardinality(In(n, "todo")') <= Cardinality(Wallets)
  BY <1>2, <1>4, <1>10, RecordFacts DEF UnderWay
<1>16. UnderWay(n)'
  BY <1>2, <1>4, <1>10, <1>14, <1>15 DEF UnderWay
<1>17. QED
  BY <1>1, <1>2, <1>4, <1>9, <1>10, <1>13, <1>16, LoadFacts, BooksUnderWayNext DEF LoaderKeeps

LeftRow == [wallet : Wallets, txs : SUBSET Txs]

\* A row that comes late replaces a vertex, or is a new one.
LEMMA KeepsLate ==
  ASSUME Control, NEW n \in Nodes, dep' = dep, NEW r \in left[n], LateRowAdded(n, r)
  PROVE  LoaderKeeps(n) /\ vertex' \in [Nodes -> [Wallets -> VertexRecord]]
<1>1. /\ load[n].at \in {"iterate", "wait", "ok"} /\ UNCHANGED <<load, where, got>>
      /\ vertex' = [vertex EXCEPT ![n] = AddVertex(vertex[n], r.wallet, r.txs)]
  BY DEF LateRowAdded
<1>2. r \in LeftRow /\ r.wallet \in Wallets /\ r.txs \in SUBSET Txs
      /\ vertex \in [Nodes -> [Wallets -> VertexRecord]]
  BY DEF Control, Types, LoadTypeOK, GraphTypes, LeftRow
<1>3. /\ AddVertex(vertex[n], r.wallet, r.txs) \in [Wallets -> VertexRecord]
      /\ AddVertex(vertex[n], r.wallet, r.txs)[r.wallet].on
      /\ \A v \in Wallets \ {r.wallet} : AddVertex(vertex[n], r.wallet, r.txs)[v] = vertex[n][v]
  BY <1>2, VertexAddedTo
<1>4. vertex' \in [Nodes -> [Wallets -> VertexRecord]] /\ vertex'[n] = AddVertex(vertex[n], r.wallet, r.txs)
  BY <1>1, <1>2, <1>3
<1>5. /\ In(n, "todo")' = In(n, "todo") /\ In(n, "fetch")' = In(n, "fetch")
      /\ In(n, "added")' = In(n, "added") /\ Under(n)' = Under(n)
  BY <1>1 DEF In, Under
<1>6. ASSUME load[n].at \in {"iterate", "wait"} PROVE LoadBooks(n)'
  <2>1. UnderWay(n)
    BY <1>6, LoadFacts, BooksUnderWay
  <2>2. \A v \in In(n, "added")' : vertex'[n][v].on
    <3>1. In(n, "added") \subseteq Wallets
      BY DEF In
    <3>2. QED
      BY <1>3, <1>4, <1>5, <2>1, <3>1 DEF UnderWay
  <2>3. UnderWay(n)'
    BY <1>1, <1>5, <2>1, <2>2 DEF UnderWay
  <2>4. QED
    BY <1>1, <1>6, <2>3, BooksUnderWayNext
<1>7. ASSUME load[n].at = "ok" PROVE LoadBooks(n)'
  BY <1>1, <1>7, LoadFacts DEF LoadBooks
<1>8. QED
  BY <1>1, <1>4, <1>6, <1>7, LoadFacts DEF LoaderKeeps

\* What a load leaves behind are rows of its wallets.
LEMMA LoaderLeaves ==
  ASSUME Control, NEW n \in Nodes, LoaderMove(n)
  PROVE  left' \in [Nodes -> SUBSET LeftRow]
<1>1. left \in [Nodes -> SUBSET LeftRow] /\ got \in [Nodes -> [Wallets -> SUBSET Txs]]
  BY DEF Control, Types, LoadTypeOK, LeftRow
<1>2. CASE left' = left
  BY <1>1, <1>2
<1>3. CASE LeavesRows(n)
  <2>1. {[wallet |-> w, txs |-> got[n][w]] : w \in In(n, "fetch") \cup In(n, "vertexCh")} \in SUBSET LeftRow
    BY <1>1 DEF In, LeftRow
  <2>2. QED
    BY <1>1, <1>3, <2>1 DEF LeavesRows
<1>4. CASE \E r \in left[n] : left' = [left EXCEPT ![n] = @ \ {r}]
  BY <1>1, <1>4
<1>5. QED
  BY <1>2, <1>3, <1>4 DEF LoaderMove, WalletsEnd, LoadSucceeds, LoadGetsError, NumberLearnt, AllAdded, WalletsCut,
    WalletsFail, LoadCancelled, WalletSent, FetchWalletTxs, VertexSent, WalletTxsCut, FetchFails, VertexAdded,
    LateRowAdded, LoadReturns

-----------------------------------------------------------------------------
\* A step of a node leaves the other nodes alone.

\* What is known of a node, a step of another one leaves alone.
Same(m) ==
  /\ at'[m] = at[m] /\ run'[m] = run[m] /\ superstep'[m] = superstep[m] /\ vertex'[m] = vertex[m]
  /\ feed'[m] = feed[m] /\ busy'[m] = busy[m] /\ pending'[m] = pending[m]
  /\ activeIn'[m] = activeIn[m] /\ stepErr'[m] = stepErr[m]
  /\ load'[m] = load[m] /\ where'[m] = where[m] /\ got'[m] = got[m] /\ left'[m] = left[m]
  /\ toStore'[m] = toStore[m]

NodeFrame(n) ==
  /\ \A m \in Nodes \ {n} : Same(m)
  /\ dep' = dep /\ job' = job /\ UNCHANGED tables
  /\ pass' \in {pass, pass + 1}
  /\ ctx' = ctx \/ (Monolith /\ n \in dep.nodes)
  /\ aborted => aborted'

GraphFrame(n) ==
  /\ \A m \in Nodes \ {n} :
       /\ run'[m] = run[m] /\ superstep'[m] = superstep[m] /\ vertex'[m] = vertex[m]
       /\ feed'[m] = feed[m] /\ busy'[m] = busy[m] /\ pending'[m] = pending[m]
       /\ activeIn'[m] = activeIn[m] /\ stepErr'[m] = stepErr[m]

\* A step of a graph leaves the other graphs alone.
LEMMA OtherGraphs ==
  ASSUME GraphTypes, NEW n \in Nodes, GraphStep(n) \/ StepContextDone(n)
  PROVE  GraphFrame(n)
<1> USE DEF GraphFrame, GraphTypes, WorkerFinishes
<1>1. CASE StepContextDone(n) \/ StepBegins(n) \/ StepCompletes(n) \/ StepEnds(n)
  BY <1>1 DEF StepContextDone, StepBegins, StepCompletes, StepEnds
<1>2. ASSUME NEW w \in Wallets, WorkerTakes(n, w) \/ VertexSkipped(n, w) PROVE GraphFrame(n)
  BY <1>2 DEF WorkerTakes, VertexSkipped
<1>3. ASSUME NEW w \in Wallets, ComputeCounts(n, w) PROVE GraphFrame(n)
  BY <1>3 DEF ComputeCounts
<1>4. ASSUME NEW w \in Wallets, ComputeSends(n, w) PROVE GraphFrame(n)
  BY <1>4 DEF ComputeSends
<1>5. ASSUME NEW w \in Wallets, ComputeFails(n, w) PROVE GraphFrame(n)
  BY <1>5 DEF ComputeFails
<1>6. ASSUME NEW w \in Wallets, ComputeAdds(n, w) PROVE GraphFrame(n)
  BY <1>6 DEF ComputeAdds
<1>7. ASSUME NEW t \in Txs, RelayDelivered(n, t) PROVE GraphFrame(n)
  BY <1>7 DEF RelayDelivered
<1>8. QED
  BY <1>1, <1>2, <1>3, <1>4, <1>5, <1>6, <1>7 DEF GraphStep

\* So does any step of a node.
LEMMA OtherNodes ==
  ASSUME Types, NEW n \in Nodes, NodeMove(n)
  PROVE  NodeFrame(n)
<1> USE DEF NodeFrame, Same, deployment, tables, history, scoreVars, loadVars, passVars, graphVars,
            Goto, Mine, Working, Is, Types, PassTypes, GraphTypes, LoadTypeOK, StoreTypes
<1>1. CASE LoaderStep(n)
  BY <1>1 DEF LoaderStep, LoaderMove, WalletsEnd, LoadSucceeds, LoadGetsError, NumberLearnt, AllAdded,
     WalletsCut, WalletsFail, LoadCancelled, WalletSent, FetchWalletTxs, VertexSent, WalletTxsCut, FetchFails,
     VertexAdded, LateRowAdded, Goes, NobodyIn, LeavesRows, LoadReturns
<1>2. CASE StoreStep(n)
  BY <1>2 DEF StoreStep, StoreMove, MemoryUpsertScores, UpsertScoresLosesError, BulkUpsertScores
<1>3. CASE MonolithPassBegins(n)
  BY <1>3 DEF MonolithPassBegins, PassBegins, LoadBegins
<1>4. CASE MonolithLoaded(n)
  BY <1>4 DEF MonolithLoaded, Executor, NewExecutor
<1>5. CASE MonolithStores(n)
  BY <1>5 DEF MonolithStores, ScoresAll
<1>6. CASE MonolithPassCompletes(n)
  BY <1>6 DEF MonolithPassCompletes, Reset
<1>7. CASE MonolithFails(n)
  BY <1>7 DEF MonolithFails
<1>8. CASE ServiceStops(n)
  BY <1>8 DEF ServiceStops
<1>9. CASE ProcessEnds(n)
  BY <1>9 DEF ProcessEnds, Reset
<1>10. CASE StartJob(n)
  BY <1>10 DEF StartJob, Reset, LoadBegins
<1>11. CASE WorkerLoaded(n)
  BY <1>11 DEF WorkerLoaded, Executor, NewExecutor
<1>12. CASE CompleteJob(n)
  BY <1>12 DEF CompleteJob, ScoresAll
<1>13. CASE ScoresPersisted(n)
  BY <1>13 DEF ScoresPersisted, Reset
<1>14. CASE WorkerFails(n)
  BY <1>14 DEF WorkerFails, Reset
<1>15. CASE AbortJob(n)
  BY <1>15 DEF AbortJob, Reset
<1>16. CASE GraphRuns(n)
  BY <1>16, OtherGraphs DEF GraphRuns, GraphFrame
<1>17. CASE StoreFails(n)
  BY <1>17 DEF StoreFails, UnknownScorer, UpsertScoresFails
<1>18. CASE WorkerCrashes(n)
  BY <1>18 DEF WorkerCrashes, Reset, NobodyIn
<1>19. QED
  BY <1>1, <1>2, <1>3, <1>4, <1>5, <1>6, <1>7, <1>8, <1>9, <1>10, <1>11, <1>12, <1>13, <1>14, <1>15, <1>16, <1>17, <1>18 DEF NodeMove

-----------------------------------------------------------------------------
\* Types: the deployment and the passes.

\* Deployments stay; passes are counted one by one.
LEMMA KeepsDeployment ==
  ASSUME Types, Next
  PROVE  DeploymentTypeOK' /\ dep' = dep /\ pass' \in {pass, pass + 1}
<1>0. dep.passes \in Nat /\ dep.failures \in Nat
  BY DeploymentsAssumption DEF Types, DeploymentTypeOK
<1> USE DEF deployment, tables, history, scoreVars, loadVars, passVars, graphVars, Goto, Mine, Working, Is, Types, DeploymentTypeOK, Fail
<1>1. ASSUME NEW n \in Nodes, LoaderStep(n) PROVE DeploymentTypeOK' /\ dep' = dep /\ pass' \in {pass, pass + 1}
  BY <1>1, <1>0 DEF LoaderStep, LoaderMove, WalletsEnd, LoadSucceeds, LoadGetsError, NumberLearnt, AllAdded, WalletsCut, WalletsFail, LoadCancelled, WalletSent, FetchWalletTxs, VertexSent, WalletTxsCut, FetchFails, VertexAdded, LateRowAdded, Goes, NobodyIn, LeavesRows, LoadReturns
<1>2. ASSUME NEW n \in Nodes, StoreStep(n) PROVE DeploymentTypeOK' /\ dep' = dep /\ pass' \in {pass, pass + 1}
  BY <1>2, <1>0 DEF StoreStep, StoreMove, MemoryUpsertScores, UpsertScoresLosesError, BulkUpsertScores
<1>3. ASSUME NEW n \in Nodes, MonolithPassBegins(n) PROVE DeploymentTypeOK' /\ dep' = dep /\ pass' \in {pass, pass + 1}
  BY <1>3, <1>0 DEF MonolithPassBegins, PassBegins, LoadBegins
<1>4. ASSUME NEW n \in Nodes, MonolithLoaded(n) PROVE DeploymentTypeOK' /\ dep' = dep /\ pass' \in {pass, pass + 1}
  BY <1>4, <1>0 DEF MonolithLoaded, Executor, NewExecutor
<1>5. ASSUME NEW n \in Nodes, MonolithStores(n) PROVE DeploymentTypeOK' /\ dep' = dep /\ pass' \in {pass, pass + 1}
  BY <1>5, <1>0 DEF MonolithStores, ScoresAll
<1>6. ASSUME NEW n \in Nodes, MonolithPassCompletes(n) PROVE DeploymentTypeOK' /\ dep' = dep /\ pass' \in {pass, pass + 1}
  BY <1>6, <1>0 DEF MonolithPassCompletes, Reset
<1>7. ASSUME NEW n \in Nodes, MonolithFails(n) PROVE DeploymentTypeOK' /\ dep' = dep /\ pass' \in {pass, pass + 1}
  BY <1>7, <1>0 DEF MonolithFails
<1>8. ASSUME NEW n \in Nodes, ServiceStops(n) PROVE DeploymentTypeOK' /\ dep' = dep /\ pass' \in {pass, pass + 1}
  BY <1>8, <1>0 DEF ServiceStops
<1>9. ASSUME NEW n \in Nodes, ProcessEnds(n) PROVE DeploymentTypeOK' /\ dep' = dep /\ pass' \in {pass, pass + 1}
  BY <1>9, <1>0 DEF ProcessEnds, Reset
<1>10. ASSUME NEW n \in Nodes, StartJob(n) PROVE DeploymentTypeOK' /\ dep' = dep /\ pass' \in {pass, pass + 1}
  BY <1>10, <1>0 DEF StartJob, Reset, LoadBegins
<1>11. ASSUME NEW n \in Nodes, WorkerLoaded(n) PROVE DeploymentTypeOK' /\ dep' = dep /\ pass' \in {pass, pass + 1}
  BY <1>11, <1>0 DEF WorkerLoaded, Executor, NewExecutor
<1>12. ASSUME NEW n \in Nodes, CompleteJob(n) PROVE DeploymentTypeOK' /\ dep' = dep /\ pass' \in {pass, pass + 1}
  BY <1>12, <1>0 DEF CompleteJob, ScoresAll
<1>13. ASSUME NEW n \in Nodes, ScoresPersisted(n) PROVE DeploymentTypeOK' /\ dep' = dep /\ pass' \in {pass, pass + 1}
  BY <1>13, <1>0 DEF ScoresPersisted, Reset
<1>14. ASSUME NEW n \in Nodes, WorkerFails(n) PROVE DeploymentTypeOK' /\ dep' = dep /\ pass' \in {pass, pass + 1}
  BY <1>14, <1>0 DEF WorkerFails, Reset
<1>15. ASSUME NEW n \in Nodes, AbortJob(n) PROVE DeploymentTypeOK' /\ dep' = dep /\ pass' \in {pass, pass + 1}
  BY <1>15, <1>0 DEF AbortJob, Reset
<1>16. ASSUME NEW n \in Nodes, GraphRuns(n) PROVE DeploymentTypeOK' /\ dep' = dep /\ pass' \in {pass, pass + 1}
  BY <1>0, <1>16 DEF GraphRuns
<1>17. ASSUME NEW n \in Nodes, StoreFails(n) PROVE DeploymentTypeOK' /\ dep' = dep /\ pass' \in {pass, pass + 1}
  BY <1>17, <1>0 DEF StoreFails, UnknownScorer, UpsertScoresFails
<1>18. ASSUME NEW n \in Nodes, WorkerCrashes(n) PROVE DeploymentTypeOK' /\ dep' = dep /\ pass' \in {pass, pass + 1}
  BY <1>18, <1>0 DEF WorkerCrashes, Reset, NobodyIn
<1>19. ASSUME NEW n \in Nodes \cup {Nobody}, NEW t \in Txs, Bounced(n, t) PROVE DeploymentTypeOK' /\ dep' = dep /\ pass' \in {pass, pass + 1}
  BY <1>19, <1>0 DEF Bounced, RelayBounces
<1>20. ASSUME JobBegins PROVE DeploymentTypeOK' /\ dep' = dep /\ pass' \in {pass, pass + 1}
  BY <1>20, <1>0 DEF JobBegins, PassBegins
<1>21. ASSUME GraphExecuted PROVE DeploymentTypeOK' /\ dep' = dep /\ pass' \in {pass, pass + 1}
  BY <1>21, <1>0 DEF GraphExecuted
<1>22. ASSUME JobEnds PROVE DeploymentTypeOK' /\ dep' = dep /\ pass' \in {pass, pass + 1}
  BY <1>22, <1>0 DEF JobEnds
<1>23. ASSUME Signal PROVE DeploymentTypeOK' /\ dep' = dep /\ pass' \in {pass, pass + 1}
  BY <1>23, <1>0 DEF Signal
<1>24. ASSUME JobCancelled PROVE DeploymentTypeOK' /\ dep' = dep /\ pass' \in {pass, pass + 1}
  BY <1>24, <1>0 DEF JobCancelled
<1>25. ASSUME GraphGrows PROVE DeploymentTypeOK' /\ dep' = dep /\ pass' \in {pass, pass + 1}
  BY <1>25, <1>0 DEF GraphGrows
<1>26. ASSUME OtherStoreCalls PROVE DeploymentTypeOK' /\ dep' = dep /\ pass' \in {pass, pass + 1}
  BY <1>26, <1>0 DEF OtherStoreCalls
<1>27. QED
  BY Moves, <1>1, <1>2, <1>3, <1>4, <1>5, <1>6, <1>7, <1>8, <1>9, <1>10, <1>11, <1>12, <1>13, <1>14, <1>15, <1>16, <1>17, <1>18, <1>19, <1>20, <1>21, <1>22, <1>23, <1>24, <1>25, <1>26 DEF NodeMove, OtherMove

\* What a graph has loaded is a set of transactions.
LEMMA Loaded ==
  ASSUME Types, NEW n \in Nodes
  PROVE  UNION {vertex[n][w].txs : w \in Wallets} \in SUBSET Txs
<1>1. \A w \in Wallets : vertex[n][w] \in VertexRecord
  BY DEF Types, GraphTypes
<1>2. \A w \in Wallets : vertex[n][w].txs \in SUBSET Txs
  BY <1>1 DEF VertexRecord
<1>3. QED
  BY <1>2

\* Every step keeps the types of the passes.
LEMMA KeepsPass ==
  ASSUME Types, PlaceBooks, Next
  PROVE  PassTypes'
<1>0. /\ dep.passes \in Nat /\ dep.nodes \subseteq Nodes /\ dep' = dep /\ pass \in Nat /\ pass <= dep.passes
      /\ pass' \in Nat /\ pass' <= dep.passes /\ 1 .. pass \subseteq 1 .. pass'
      /\ \A n \in Nodes : at[n] \notin {"idle", "returned"} => pass \in 1 .. pass'
      /\ \A n \in Nodes : at[n] \notin {"idle", "returned"} => pass \in Passes
  BY DeploymentsAssumption, KeepsDeployment DEF Types, DeploymentTypeOK, PlaceBooks, NodeBooks, Passes
<1> USE DEF deployment, tables, history, scoreVars, loadVars, passVars, graphVars, Goto, Mine, Working, Is, Types, PassTypes, Fail, Passes
<1>1. ASSUME NEW n \in Nodes, LoaderStep(n) PROVE PassTypes'
  BY <1>1, <1>0 DEF LoaderStep, LoaderMove, WalletsEnd, LoadSucceeds, LoadGetsError, NumberLearnt, AllAdded, WalletsCut, WalletsFail, LoadCancelled, WalletSent, FetchWalletTxs, VertexSent, WalletTxsCut, FetchFails, VertexAdded, LateRowAdded, Goes, NobodyIn, LeavesRows, LoadReturns
<1>2. ASSUME NEW n \in Nodes, StoreStep(n) PROVE PassTypes'
  BY <1>2, <1>0 DEF StoreStep, StoreMove, MemoryUpsertScores, UpsertScoresLosesError, BulkUpsertScores
<1>3. ASSUME NEW n \in Nodes, MonolithPassBegins(n) PROVE PassTypes'
  <2>1. since' \in [Passes -> [txs : SUBSET Txs, wallets : SUBSET Wallets]]
    BY <1>3, <1>0 DEF MonolithPassBegins, PassBegins, LoadTypeOK
  <2>2. QED
    BY <1>3, <1>0, <2>1 DEF MonolithPassBegins, PassBegins, LoadBegins
<1>4. ASSUME NEW n \in Nodes, MonolithLoaded(n) PROVE PassTypes'
  <2>1. CASE ctx = "done"
    BY <1>0, <1>4, <2>1 DEF MonolithLoaded
  <2>2. CASE ctx # "done"
    <3>1. /\ ledger' = [ledger EXCEPT ![pass] = @ \cup UNION {vertex[n][w].txs : w \in Wallets}]
          /\ at' = [at EXCEPT ![n] = "run"] /\ pass \in 1 .. pass'
          /\ UNCHANGED <<pass, since, completed, ctx, job, aborted, cut, dep>>
      BY <1>0, <1>4, <2>2 DEF MonolithLoaded, Executor
    <3>2. ledger' \in [Passes -> SUBSET Txs]
      BY <3>1, Loaded
    <3>3. QED
      BY <1>0, <3>1, <3>2
  <2>3. QED
    BY <2>1, <2>2
<1>5. ASSUME NEW n \in Nodes, MonolithStores(n) PROVE PassTypes'
  BY <1>5, <1>0 DEF MonolithStores, ScoresAll
<1>6. ASSUME NEW n \in Nodes, MonolithPassCompletes(n) PROVE PassTypes'
  BY <1>6, <1>0 DEF MonolithPassCompletes, Reset
<1>7. ASSUME NEW n \in Nodes, MonolithFails(n) PROVE PassTypes'
  BY <1>7, <1>0 DEF MonolithFails
<1>8. ASSUME NEW n \in Nodes, ServiceStops(n) PROVE PassTypes'
  BY <1>8, <1>0 DEF ServiceStops
<1>9. ASSUME NEW n \in Nodes, ProcessEnds(n) PROVE PassTypes'
  BY <1>9, <1>0 DEF ProcessEnds, Reset
<1>10. ASSUME NEW n \in Nodes, StartJob(n) PROVE PassTypes'
  BY <1>10, <1>0 DEF StartJob, Reset, LoadBegins
<1>11. ASSUME NEW n \in Nodes, WorkerLoaded(n) PROVE PassTypes'
  BY <1>0, <1>11, Loaded DEF WorkerLoaded, Executor, NewExecutor
<1>12. ASSUME NEW n \in Nodes, CompleteJob(n) PROVE PassTypes'
  BY <1>12, <1>0 DEF CompleteJob, ScoresAll
<1>13. ASSUME NEW n \in Nodes, ScoresPersisted(n) PROVE PassTypes'
  BY <1>13, <1>0 DEF ScoresPersisted, Reset
<1>14. ASSUME NEW n \in Nodes, WorkerFails(n) PROVE PassTypes'
  BY <1>14, <1>0 DEF WorkerFails, Reset
<1>15. ASSUME NEW n \in Nodes, AbortJob(n) PROVE PassTypes'
  BY <1>15, <1>0 DEF AbortJob, Reset
<1>16. ASSUME NEW n \in Nodes, GraphRuns(n) PROVE PassTypes'
  BY <1>0, <1>16 DEF GraphRuns
<1>17. ASSUME NEW n \in Nodes, StoreFails(n) PROVE PassTypes'
  BY <1>17, <1>0 DEF StoreFails, UnknownScorer, UpsertScoresFails
<1>18. ASSUME NEW n \in Nodes, WorkerCrashes(n) PROVE PassTypes'
  BY <1>18, <1>0 DEF WorkerCrashes, Reset, NobodyIn
<1>19. ASSUME NEW n \in Nodes \cup {Nobody}, NEW t \in Txs, Bounced(n, t) PROVE PassTypes'
  BY <1>19, <1>0 DEF Bounced, RelayBounces
<1>20. ASSUME JobBegins PROVE PassTypes'
  <2>1. since' \in [Passes -> [txs : SUBSET Txs, wallets : SUBSET Wallets]]
    BY <1>20, <1>0 DEF JobBegins, PassBegins, LoadTypeOK
  <2>2. QED
    BY <1>20, <1>0, <2>1 DEF JobBegins, PassBegins
<1>21. ASSUME GraphExecuted PROVE PassTypes'
  BY <1>21, <1>0 DEF GraphExecuted
<1>22. ASSUME JobEnds PROVE PassTypes'
  <2>1. PICK n \in dep.nodes : TRUE
    BY DeploymentsAssumption DEF DeploymentTypeOK
  <2>2. pass \in 1 .. pass'
    BY <1>0, <1>22, <2>1 DEF JobEnds
  <2>3. QED
    BY <1>0, <1>22, <2>2 DEF JobEnds
<1>23. ASSUME Signal PROVE PassTypes'
  BY <1>23, <1>0 DEF Signal
<1>24. ASSUME JobCancelled PROVE PassTypes'
  BY <1>24, <1>0 DEF JobCancelled
<1>25. ASSUME GraphGrows PROVE PassTypes'
  BY <1>25, <1>0 DEF GraphGrows
<1>26. ASSUME OtherStoreCalls PROVE PassTypes'
  BY <1>26, <1>0 DEF OtherStoreCalls
<1>27. QED
  BY Moves, <1>1, <1>2, <1>3, <1>4, <1>5, <1>6, <1>7, <1>8, <1>9, <1>10, <1>11, <1>12, <1>13, <1>14, <1>15, <1>16, <1>17, <1>18, <1>19, <1>20, <1>21, <1>22, <1>23, <1>24, <1>25, <1>26 DEF NodeMove, OtherMove

-----------------------------------------------------------------------------
\* Types: loads.

\* What all steps of a loader have in common.
LEMMA FailsToFetch ==
  ASSUME NEW n \in Nodes
  PROVE  LoaderStep(n) => LoaderMove(n) /\ dep' = dep /\ UNCHANGED tx /\ at[n] = "load"
  BY DEF LoaderStep, tables, Is

\* Every step of a loader keeps its books.
LEMMA LoaderKept ==
  ASSUME Control, NEW n \in Nodes, LoaderStep(n)
  PROVE  LoaderKeeps(n)
<1>1. LoaderMove(n) /\ dep' = dep /\ UNCHANGED tx
  BY FailsToFetch
<1>2. CASE \E w \in Wallets : VertexAdded(n, w)
  BY <1>1, <1>2, KeepsAdded
<1>3. CASE UNCHANGED vertex /\ (WalletsEnd(n) \/ NumberLearnt(n) \/ AllAdded(n))
  BY <1>1, <1>3, KeepsPlaces
<1>4. CASE UNCHANGED vertex /\ WalletsCut(n)
  BY <1>1, <1>4, KeepsCut
<1>5. CASE UNCHANGED vertex /\ (WalletsFail(n) \/ LoadSucceeds(n) \/ LoadGetsError(n) \/ LoadCancelled(n))
  BY <1>1, <1>5, KeepsEnd
<1>6. CASE UNCHANGED vertex /\ \E w \in Wallets : WalletSent(n, w) \/ FetchWalletTxs(n, w) \/ VertexSent(n, w)
                                            \/ WalletTxsCut(n, w) \/ FetchFails(n, w)
  BY <1>1, <1>6, KeepsSent, KeepsFetch, KeepsVertexSent, KeepsTxsCut, KeepsFailure
<1>7. CASE \E r \in left[n] : LateRowAdded(n, r)
  BY <1>1, <1>7, KeepsLate
<1>8. QED
  BY <1>1, <1>2, <1>3, <1>4, <1>5, <1>6, <1>7 DEF LoaderMove

\* A load begins with its books.
LEMMA BeginsToLoad ==
  ASSUME Control, NEW n \in Nodes, dep' = dep, UNCHANGED wallet, LoadBegins(n)
  PROVE  LoaderKeeps(n)
<1>1. /\ load' = [load EXCEPT ![n] = [NoLoad EXCEPT !.at = "iterate", !.fetchers = dep.fetchers]]
      /\ where' = [where EXCEPT ![n] = [w \in Wallets |-> IF w \in WalletsInPartition(n) THEN "todo" ELSE "none"]]
      /\ got' = [got EXCEPT ![n] = [w \in Wallets |-> {}]]
  BY DEF LoadBegins
<1> DEFINE b == [NoLoad EXCEPT !.at = "iterate", !.fetchers = dep.fetchers]
<1>2. b \in LoadRecord /\ b.at = "iterate" /\ b.num = 0 /\ ~b.known /\ b.seen = 0
      /\ b.fetchers = dep.fetchers /\ ~b.done
  <2> DEFINE a == [NoLoad EXCEPT !.at = "iterate"]
  <2>1. 0 \in 0 .. Cardinality(Wallets) /\ 0 \in 0 .. dep.fetchers /\ dep.fetchers \in 0 .. dep.fetchers
    BY RecordFacts
  <2>2. NoLoad \in LoadRecord /\ NoLoad.num = 0 /\ ~NoLoad.known /\ NoLoad.seen = 0 /\ ~NoLoad.done
    BY <2>1 DEF NoLoad, LoadRecord
  <2>3. a \in LoadRecord /\ a.at = "iterate" /\ a.num = 0 /\ ~a.known /\ a.seen = 0 /\ ~a.done
    <3> HIDE DEF NoLoad
    <3>1. QED
      BY <2>2 DEF LoadRecord
  <2>4. b = [a EXCEPT !.fetchers = dep.fetchers]
    OBVIOUS
  <2> HIDE DEF a
  <2>5. QED
    BY <2>1, <2>3, <2>4 DEF LoadRecord
<1>4. load' \in [Nodes -> LoadRecord] /\ load'[n] = b
  BY <1>1, <1>2, LoadFacts
<1>5. where' \in [Nodes -> [Wallets -> Places]] /\ \A w \in Wallets : where'[n][w] \in {"todo", "none"}
  BY <1>1, LoadFacts DEF Places
<1>6. got' \in [Nodes -> [Wallets -> SUBSET Txs]]
  BY <1>1, LoadFacts
<1>7. Under(n)' = {} /\ In(n, "fetch")' = {} /\ In(n, "added")' = {} /\ In(n, "todo")' \in SUBSET Wallets
  BY <1>5 DEF Under, In
<1>8. Cardinality({}) = 0 /\ Cardinality(In(n, "todo")') \in Nat /\ Cardinality(In(n, "todo")') <= Cardinality(Wallets)
      /\ Cardinality(Wallets) \in Nat /\ dep.fetchers \in Nat
  BY <1>7, FS_EmptySet, FiniteWallets, RecordFacts
<1>9. UnderWay(n)'
  <2>1. /\ load'[n].num = 0 /\ load'[n].seen = 0 /\ load'[n].fetchers = dep.fetchers /\ load'[n].at = "iterate"
        /\ ~load'[n].known /\ ~load'[n].done
    BY <1>2, <1>4
  <2> HIDE DEF b
  <2>2. load'[n].num = Cardinality(Under(n)') + (dep.fetchers - load'[n].fetchers)
    BY <1>7, <1>8, <2>1
  <2>3. load'[n].num + Cardinality(In(n, "todo")') <= Cardinality(Wallets)
    BY <1>8, <2>1
  <2>4. load'[n].seen = Cardinality(In(n, "added")') /\ Cardinality(In(n, "fetch")') <= load'[n].fetchers
    BY <1>7, <1>8, <2>1
  <2>5. /\ load'[n].at = "wait" => In(n, "todo")' = {}
        /\ load'[n].known => load'[n].at = "wait"
        /\ load'[n].done => load'[n].known /\ load'[n].seen = load'[n].num
    BY <2>1
  <2>6. \A w \in In(n, "added")' : vertex'[n][w].on
    BY <1>7
  <2>7. QED
    BY <2>2, <2>3, <2>4, <2>5, <2>6 DEF UnderWay
<1>10. QED
  BY <1>2, <1>4, <1>5, <1>6, <1>9, BooksUnderWayNext DEF LoaderKeeps

\* The call of loadWallets is over.
LEMMA NoLoadLeft ==
  ASSUME Types, NEW n \in Nodes, load' = [load EXCEPT ![n] = NoLoad], dep' = dep
  PROVE  load' \in [Nodes -> LoadRecord]
<1>1. 0 \in 0 .. Cardinality(Wallets) /\ 0 \in 0 .. dep.fetchers
  BY FiniteWallets, DeploymentsAssumption DEF Types, DeploymentTypeOK
<1>2. NoLoad \in LoadRecord
  BY <1>1 DEF NoLoad, LoadRecord
<1>3. load \in [Nodes -> LoadRecord]
  BY DEF Types, LoadTypeOK, LoadRecord
<1>4. QED
  BY <1>2, <1>3

LoadKept ==
  /\ tx' \subseteq Txs /\ wallet' \subseteq Wallets /\ left' \in [Nodes -> SUBSET LeftRow]
  /\ load' \in [Nodes -> LoadRecord] /\ where' \in [Nodes -> [Wallets -> Places]]
  /\ got' \in [Nodes -> [Wallets -> SUBSET Txs]]

\* Every step keeps the types of loads.
LEMMA KeepsLoads ==
  ASSUME Control, Next
  PROVE  LoadTypeOK'
<1>0. /\ dep' = dep /\ load \in [Nodes -> LoadRecord] /\ where \in [Nodes -> [Wallets -> Places]]
      /\ got \in [Nodes -> [Wallets -> SUBSET Txs]] /\ tx \subseteq Txs /\ wallet \subseteq Wallets
      /\ left \in [Nodes -> SUBSET LeftRow]
      /\ \A n \in Nodes : LoaderKeeps(n) => load' \in [Nodes -> LoadRecord] /\ where' \in [Nodes -> [Wallets -> Places]]
           /\ got' \in [Nodes -> [Wallets -> SUBSET Txs]]
  BY KeepsDeployment DEF Control, Types, LoadTypeOK, LoadRecord, Places, LoaderKeeps, LeftRow
<1> USE DEF deployment, tables, history, scoreVars, loadVars, passVars, graphVars, Goto, Mine, Working, Is, LoadKept, Control
<1>1. ASSUME NEW n \in Nodes, LoaderStep(n) PROVE LoadKept
  BY <1>0, <1>1, LoaderKept, LoaderLeaves DEF LoaderStep
<1>2. ASSUME NEW n \in Nodes, StoreStep(n) PROVE LoadKept
  BY <1>2, <1>0, NoLoadLeft DEF StoreStep, StoreMove, MemoryUpsertScores, UpsertScoresLosesError, BulkUpsertScores
<1>3. ASSUME NEW n \in Nodes, MonolithPassBegins(n) PROVE LoadKept
  <2>1. left' = left
    BY <1>3 DEF MonolithPassBegins, LoadBegins
  <2>2. QED
    BY <1>0, <1>3, <2>1, BeginsToLoad DEF MonolithPassBegins
<1>4. ASSUME NEW n \in Nodes, MonolithLoaded(n) PROVE LoadKept
  BY <1>4, <1>0, NoLoadLeft DEF MonolithLoaded, Executor, NewExecutor
<1>5. ASSUME NEW n \in Nodes, MonolithStores(n) PROVE LoadKept
  BY <1>5, <1>0, NoLoadLeft DEF MonolithStores, ScoresAll
<1>6. ASSUME NEW n \in Nodes, MonolithPassCompletes(n) PROVE LoadKept
  BY <1>6, <1>0, NoLoadLeft DEF MonolithPassCompletes, Reset
<1>7. ASSUME NEW n \in Nodes, MonolithFails(n) PROVE LoadKept
  BY <1>7, <1>0, NoLoadLeft DEF MonolithFails
<1>8. ASSUME NEW n \in Nodes, ServiceStops(n) PROVE LoadKept
  BY <1>8, <1>0, NoLoadLeft DEF ServiceStops
<1>9. ASSUME NEW n \in Nodes, ProcessEnds(n) PROVE LoadKept
  BY <1>9, <1>0, NoLoadLeft DEF ProcessEnds, Reset
<1>10. ASSUME NEW n \in Nodes, StartJob(n) PROVE LoadKept
  <2>1. left' = left
    BY <1>10 DEF StartJob, LoadBegins
  <2>2. QED
    BY <1>0, <1>10, <2>1, BeginsToLoad DEF StartJob
<1>11. ASSUME NEW n \in Nodes, WorkerLoaded(n) PROVE LoadKept
  BY <1>11, <1>0, NoLoadLeft DEF WorkerLoaded, Executor, NewExecutor
<1>12. ASSUME NEW n \in Nodes, CompleteJob(n) PROVE LoadKept
  BY <1>12, <1>0, NoLoadLeft DEF CompleteJob, ScoresAll
<1>13. ASSUME NEW n \in Nodes, ScoresPersisted(n) PROVE LoadKept
  BY <1>13, <1>0, NoLoadLeft DEF ScoresPersisted, Reset
<1>14. ASSUME NEW n \in Nodes, WorkerFails(n) PROVE LoadKept
  BY <1>14, <1>0, NoLoadLeft DEF WorkerFails, Reset
<1>15. ASSUME NEW n \in Nodes, AbortJob(n) PROVE LoadKept
  BY <1>15, <1>0, NoLoadLeft DEF AbortJob, Reset
<1>16. ASSUME NEW n \in Nodes, GraphRuns(n) PROVE LoadKept
  BY <1>16, <1>0, NoLoadLeft DEF GraphRuns
<1>17. ASSUME NEW n \in Nodes, StoreFails(n) PROVE LoadKept
  BY <1>17, <1>0, NoLoadLeft DEF StoreFails, UnknownScorer, UpsertScoresFails
<1>18. ASSUME NEW n \in Nodes, WorkerCrashes(n) PROVE LoadKept
  BY <1>0, <1>18, NoLoadLeft DEF WorkerCrashes, NobodyIn, Places
<1>19. ASSUME NEW n \in Nodes \cup {Nobody}, NEW t \in Txs, Bounced(n, t) PROVE LoadKept
  BY <1>19, <1>0, NoLoadLeft DEF Bounced, RelayBounces
<1>20. ASSUME JobBegins PROVE LoadKept
  BY <1>20, <1>0, NoLoadLeft DEF JobBegins, PassBegins
<1>21. ASSUME GraphExecuted PROVE LoadKept
  BY <1>21, <1>0, NoLoadLeft DEF GraphExecuted
<1>22. ASSUME JobEnds PROVE LoadKept
  BY <1>22, <1>0, NoLoadLeft DEF JobEnds
<1>23. ASSUME Signal PROVE LoadKept
  BY <1>23, <1>0, NoLoadLeft DEF Signal
<1>24. ASSUME JobCancelled PROVE LoadKept
  BY <1>24, <1>0, NoLoadLeft DEF JobCancelled
<1>25. ASSUME GraphGrows PROVE LoadKept
  BY <1>25, <1>0, NoLoadLeft DEF GraphGrows
<1>26. ASSUME OtherStoreCalls PROVE LoadKept
  BY <1>26, <1>0, NoLoadLeft DEF OtherStoreCalls
<1>27. LoadKept
  BY Moves, <1>1, <1>2, <1>3, <1>4, <1>5, <1>6, <1>7, <1>8, <1>9, <1>10, <1>11, <1>12, <1>13, <1>14, <1>15, <1>16, <1>17, <1>18, <1>19, <1>20, <1>21, <1>22, <1>23, <1>24, <1>25, <1>26 DEF NodeMove, OtherMove
<1>28. cut' \subseteq 1 .. dep.passes
  <2>1. PassTypes' /\ DeploymentTypeOK' /\ dep.passes \in Nat
    BY KeepsPass, KeepsDeployment, DeploymentsAssumption DEF Types, DeploymentTypeOK
  <2>2. QED
    BY <1>0, <2>1 DEF PassTypes, DeploymentTypeOK
<1>29. QED
  BY <1>0, <1>27, <1>28 DEF LoadTypeOK, LoadRecord, Places, LeftRow

-----------------------------------------------------------------------------
\* What a superstep makes of vertices and queues.

\* A sum of natural numbers is one.
LEMMA SumNat ==
  ASSUME NEW F, NEW S, IsFiniteSet(S), \A x \in S : F[x] \in Nat
  PROVE  Total(F, S) \in Nat
<1> DEFINE All(n) == \A s \in Sized(S, n) : Total(F, s) \in Nat
<1> DEFINE N == {n \in Nat : All(n)}
<1>1. 0 \in N
  <2>1. ASSUME NEW s \in Sized(S, 0) PROVE Total(F, s) \in Nat
    <3>1. s = {} /\ Total(F, {}) = 0
      BY SizedZero, SumEmpty
    <3>2. Total(F, s) = 0
      BY <3>1, Zenon
    <3>3. QED
      BY <3>2
  <2>2. All(0)
    BY <2>1
  <2> HIDE DEF All
  <2>3. QED
    BY <2>2
<1>2. ASSUME NEW n \in N PROVE n + 1 \in N
  <2>1. ASSUME NEW s \in Sized(S, n + 1) PROVE Total(F, s) \in Nat
    <3>1. CASE s = {}
      <4>1. Total(F, s) = 0
        BY <3>1, SumEmpty, Zenon
      <4>2. QED
        BY <4>1
    <3>2. CASE s # {}
      <4>1. PICK x \in s : TRUE
        BY <3>2
      <4> DEFINE r == s \ {x}
      <4>2. s \in SUBSET S /\ r \in Sized(S, n) /\ r \in SUBSET S
        BY SizedStep DEF Sized
      <4>3. IsFiniteSet(r)
        BY <4>2, FS_Subset
      <4>4. s = r \cup {x} /\ x \notin r /\ F[x] \in Nat /\ \A y \in r \cup {x} : F[y] \in Int
        BY <4>2
      <4>5. Total(F, r \cup {x}) = Total(F, r) + F[x]
        BY <4>3, <4>4, SumAdd
      <4>6. Total(F, r) \in Nat
        BY <4>2
      <4> HIDE DEF r
      <4>7. Total(F, s) = Total(F, r) + F[x]
        BY <4>4, <4>5, Zenon
      <4>8. QED
        BY <4>4, <4>6, <4>7
    <3>3. QED
      BY <3>1, <3>2
  <2>2. All(n + 1)
    BY <2>1
  <2> HIDE DEF All
  <2>3. n + 1 \in Nat
    OBVIOUS
  <2>4. QED
    BY <2>2, <2>3
<1>3. N = Nat
  <2>1. N \in SUBSET Nat
    OBVIOUS
  <2> HIDE DEF N
  <2>2. QED
    BY <1>1, <1>2, <2>1, NatSets
<1>4. Cardinality(S) \in N /\ S \in Sized(S, Cardinality(S))
  <2>1. Cardinality(S) \in Nat
    BY FS_CardinalityType
  <2>2. QED
    BY <1>3, <2>1 DEF Sized
<1>5. QED
  BY <1>4

\* The sums that are used, over any set of transactions.
LEMMA Sums ==
  ASSUME NEW T \in SUBSET Txs
  PROVE  /\ IsFiniteSet(T) /\ Total(TxValue, T) \in Nat /\ Total(Fees, T) \in Int
         /\ Cost(T) = Total(Fees, T) /\ MapThenSumSet(LAMBDA t : TxValue[t], T) = Total(TxValue, T)
<1>1. IsFiniteSet(T)
  BY FiniteTxs
<1>2. \A t \in Txs : TxValue[t] \in Nat /\ Fees[t] \in Int
  BY TxAssumption DEF Fees
<1>3. Total(TxValue, T) \in Nat
  BY <1>1, <1>2, SumNat
<1>4. Total(Fees, T) \in Int
  BY <1>1, <1>2, SumType
<1>5. MapThenSumSet(LAMBDA t : TxValue[t], T) = Total(TxValue, T)
  BY DEF Total
<1>6. QED
  BY <1>1, <1>3, <1>4, <1>5, CostSum

Msgs == [n : Nat, sum : Nat]
\* What a queue is when transactions were put in it.
LEMMA Enqueued ==
  ASSUME NEW q \in Msgs, NEW T \in SUBSET Txs
  PROVE  /\ EnqueueAll(q, T) \in Msgs
         /\ EnqueueAll(q, T) = [n |-> q.n + Cardinality(T), sum |-> q.sum + Total(TxValue, T)]
         /\ EnqueueAll(q, {}) = q /\ NoMsgs \in Msgs
<1>1. EnqueueAll(q, T) = [n |-> q.n + Cardinality(T), sum |-> q.sum + Total(TxValue, T)]
  BY Sums, Zenon DEF EnqueueAll
<1>2. Cardinality(T) \in Nat /\ Total(TxValue, T) \in Nat
  BY FiniteTxs, Sums
<1>3. q.n + Cardinality(T) \in Nat /\ q.sum + Total(TxValue, T) \in Nat
  BY <1>2 DEF Msgs
<1>4. EnqueueAll(q, T) \in Msgs
  BY <1>1, <1>3 DEF Msgs
<1>5. EnqueueAll(q, {}) = q
  <2>1. MapThenSumSet(LAMBDA t : TxValue[t], {}) = 0
    <3>1. Total(TxValue, {}) = 0
      BY SumEmpty
    <3>2. QED
      BY <3>1 DEF Total
  <2>2. Cardinality({}) = 0
    BY FS_EmptySet
  <2>3. EnqueueAll(q, {}) = [n |-> q.n + 0, sum |-> q.sum + 0]
    BY <2>1, <2>2, Zenon DEF EnqueueAll
  <2>4. QED
    BY <2>3 DEF Msgs
<1>6. QED
  BY <1>1, <1>4, <1>5 DEF NoMsgs, Msgs

\* The two buffers of a superstep (vertex.go).
LEMMA Buffers ==
  ASSUME GraphTypes, NEW n \in Nodes
  PROVE  /\ Buffer(n) \in {0, 1} /\ NextBuffer(n) \in {0, 1} /\ Buffer(n) # NextBuffer(n)
         /\ superstep[n] \in {0, 2} => Buffer(n) = 0
         /\ superstep[n] \in {1, 3} => Buffer(n) = 1
<1>1. superstep[n] \in Nat
  BY DEF GraphTypes
<1>2. QED
  BY <1>1 DEF Buffer, NextBuffer

\* The vertex w of node n becomes u.
LEMMA OneVertex ==
  ASSUME NEW V \in [Nodes -> [Wallets -> VertexRecord]], NEW n \in Nodes, NEW w \in Wallets,
         NEW u \in VertexRecord
  PROVE  LET U == [V EXCEPT ![n] = [V[n] EXCEPT ![w] = u]]
         IN U \in [Nodes -> [Wallets -> VertexRecord]] /\ U[n] \in [Wallets -> VertexRecord]
            /\ U[n][w] = u /\ \A x \in Wallets \ {w} : U[n][x] = V[n][x]
  OBVIOUS

\* The superstep that counts empties a buffer.
LEMMA CountsShape ==
  ASSUME GraphTypes, NEW n \in Nodes, NEW w \in Wallets, ComputeCounts(n, w)
  PROVE  /\ vertex' \in [Nodes -> [Wallets -> VertexRecord]]
         /\ \A x \in Wallets \ {w} : vertex'[n][x] = vertex[n][x]
         /\ LET v == vertex[n][w]
                u == vertex'[n][w]
            IN /\ u.on = v.on /\ u.value = v.value /\ u.txs = v.txs /\ u.active = TRUE
               /\ u.queue[Buffer(n)] = NoMsgs /\ u.queue[NextBuffer(n)] = v.queue[NextBuffer(n)]
<1> DEFINE v == vertex[n][w]
<1> DEFINE a == [v EXCEPT !.active = TRUE]
<1> DEFINE b == [a EXCEPT !.queue[Buffer(n)] = NoMsgs]
<1>1. v \in VertexRecord /\ Buffer(n) \in {0, 1} /\ NoMsgs \in [n : Nat, sum : Nat]
  BY Buffers DEF GraphTypes, NoMsgs
<1>2. a \in VertexRecord /\ a.on = v.on /\ a.value = v.value /\ a.txs = v.txs /\ a.active = TRUE /\ a.queue = v.queue
  BY <1>1, SetActive
<1>3. /\ b \in VertexRecord /\ b.on = v.on /\ b.value = v.value /\ b.txs = v.txs /\ b.active = TRUE
      /\ b.queue[Buffer(n)] = NoMsgs /\ b.queue[NextBuffer(n)] = v.queue[NextBuffer(n)]
  <2> HIDE DEF a, v
  <2>1. QED
    BY <1>1, <1>2, SetQueue, Buffers
<1> DEFINE V == [vertex EXCEPT ![n] = [vertex[n] EXCEPT ![w] = a]]
<1>4. V = [vertex EXCEPT ![n][w].active = TRUE]
  OBVIOUS
<1>5. /\ V \in [Nodes -> [Wallets -> VertexRecord]] /\ V[n][w] = a
      /\ \A x \in Wallets \ {w} : V[n][x] = vertex[n][x]
  <2> HIDE DEF a
  <2>1. QED
    BY <1>2, OneVertex DEF GraphTypes
<1>6. vertex' = [V EXCEPT ![n][w].queue[Buffer(n)] = NoMsgs]
  <2> HIDE DEF V
  <2>1. QED
    BY <1>4 DEF ComputeCounts
<1> HIDE DEF V
<1>7. vertex' = [V EXCEPT ![n] = [V[n] EXCEPT ![w] = b]]
  BY <1>5, <1>6
<1>8. QED
  <2> HIDE DEF b
  <2>1. QED
    BY <1>3, <1>5, <1>7, OneVertex

\* The superstep that adds does, after adding what was in it.
LEMMA AddsShape ==
  ASSUME GraphTypes, NEW n \in Nodes, NEW w \in Wallets, ComputeAdds(n, w)
  PROVE  /\ vertex' \in [Nodes -> [Wallets -> VertexRecord]]
         /\ \A x \in Wallets \ {w} : vertex'[n][x] = vertex[n][x]
         /\ LET v == vertex[n][w]
                u == vertex'[n][w]
            IN /\ u.on = v.on /\ u.txs = v.txs /\ u.active = FALSE
               /\ u.value = IF superstep[n] = 2 THEN v.value + v.queue[Buffer(n)].sum ELSE v.value
               /\ u.queue[Buffer(n)] = NoMsgs /\ u.queue[NextBuffer(n)] = v.queue[NextBuffer(n)]
<1> DEFINE v == vertex[n][w]
<1> DEFINE y == IF superstep[n] = 2 THEN v.value + v.queue[Buffer(n)].sum ELSE v.value
<1> DEFINE c == [v EXCEPT !.value = y]
<1> DEFINE a == [c EXCEPT !.active = FALSE]
<1> DEFINE b == [a EXCEPT !.queue[Buffer(n)] = NoMsgs]
<1>1. v \in VertexRecord /\ Buffer(n) \in {0, 1} /\ NoMsgs \in [n : Nat, sum : Nat]
  BY Buffers DEF GraphTypes, NoMsgs
<1>2. y \in Int
  <2>1. v.value \in Int /\ v.queue \in Queues
    BY <1>1 DEF VertexRecord
  <2>2. v.queue[Buffer(n)].sum \in Nat
    BY <1>1, <2>1 DEF Queues
  <2> HIDE DEF v
  <2>3. QED
    BY <2>1, <2>2
<1>3. c \in VertexRecord /\ c.on = v.on /\ c.value = y /\ c.txs = v.txs /\ c.queue = v.queue
  <2> HIDE DEF y, v
  <2>1. QED
    BY <1>1, <1>2, SetValue
<1>4. a \in VertexRecord /\ a.on = v.on /\ a.value = y /\ a.txs = v.txs /\ a.active = FALSE /\ a.queue = v.queue
  <2> HIDE DEF c, v, y
  <2>1. QED
    BY <1>3, SetActive
<1>5. /\ b \in VertexRecord /\ b.on = v.on /\ b.value = y /\ b.txs = v.txs /\ b.active = FALSE
      /\ b.queue[Buffer(n)] = NoMsgs /\ b.queue[NextBuffer(n)] = v.queue[NextBuffer(n)]
  <2> HIDE DEF a, v, y
  <2>1. QED
    BY <1>1, <1>4, SetQueue, Buffers
<1> DEFINE W == [vertex EXCEPT ![n] = [vertex[n] EXCEPT ![w] = c]]
<1> DEFINE V == [W EXCEPT ![n] = [W[n] EXCEPT ![w] = a]]
<1>6. W = [vertex EXCEPT ![n][w].value = y]
  OBVIOUS
<1>7. /\ W \in [Nodes -> [Wallets -> VertexRecord]] /\ W[n][w] = c
      /\ \A x \in Wallets \ {w} : W[n][x] = vertex[n][x]
  <2> HIDE DEF c
  <2>1. QED
    BY <1>3, OneVertex DEF GraphTypes
<1>8. V = [W EXCEPT ![n][w].active = FALSE]
  <2> HIDE DEF W
  <2>1. QED
    BY <1>7
<1>9. /\ V \in [Nodes -> [Wallets -> VertexRecord]] /\ V[n][w] = a
      /\ \A x \in Wallets \ {w} : V[n][x] = vertex[n][x]
  <2> HIDE DEF a, W
  <2>1. QED
    BY <1>4, <1>7, OneVertex
<1>10. vertex' = [V EXCEPT ![n][w].queue[Buffer(n)] = NoMsgs]
  <2>1. vertex' = [[[vertex EXCEPT ![n][w].value = y] EXCEPT ![n][w].active = FALSE] EXCEPT ![n][w].queue[Buffer(n)] = NoMsgs]
    BY DEF ComputeAdds
  <2> HIDE DEF V, W, y
  <2>2. QED
    BY <1>6, <1>8, <2>1
<1>11. vertex' = [V EXCEPT ![n] = [V[n] EXCEPT ![w] = b]]
  <2> HIDE DEF V, a
  <2>1. QED
    BY <1>9, <1>10
<1>12. QED
  <2> HIDE DEF V, b, y, v
  <2>1. vertex' \in [Nodes -> [Wallets -> VertexRecord]] /\ vertex'[n][w] = b /\ \A x \in Wallets \ {w} : vertex'[n][x] = vertex[n][x]
    BY <1>5, <1>9, <1>11, OneVertex
  <2>2. QED
    BY <1>5, <2>1 DEF v, y

\* A delivered message is in the buffer of the next superstep.
LEMMA DeliveredShape ==
  ASSUME GraphTypes, NEW n \in Nodes, NEW t \in Txs, RelayDelivered(n, t)
  PROVE  /\ vertex' \in [Nodes -> [Wallets -> VertexRecord]] /\ TxTo[t] \in Wallets
         /\ \A x \in Wallets \ {TxTo[t]} : vertex'[n][x] = vertex[n][x]
         /\ LET v == vertex[n][TxTo[t]]
                u == vertex'[n][TxTo[t]]
            IN /\ u.on = v.on /\ u.txs = v.txs /\ u.active = v.active /\ u.value = v.value
               /\ u.queue[NextBuffer(n)] = Enqueue(v.queue[NextBuffer(n)], t)
               /\ u.queue[Buffer(n)] = v.queue[Buffer(n)]
<1> DEFINE w == TxTo[t]
<1> DEFINE v == vertex[n][w]
<1> DEFINE q == Enqueue(v.queue[NextBuffer(n)], t)
<1> DEFINE b == [v EXCEPT !.queue[NextBuffer(n)] = q]
<1>0. w \in Wallets
  BY TxAssumption
<1> HIDE DEF w
<1>1. v \in VertexRecord /\ NextBuffer(n) \in {0, 1}
  BY <1>0, Buffers DEF GraphTypes
<1>2. q \in [n : Nat, sum : Nat]
  <2>1. v.queue \in Queues
    BY <1>1 DEF VertexRecord
  <2>2. v.queue[NextBuffer(n)] \in [n : Nat, sum : Nat] /\ TxValue[t] \in Nat
    BY <1>1, <2>1, TxAssumption DEF Queues
  <2> HIDE DEF v
  <2>3. QED
    BY <2>2 DEF Enqueue
<1>3. /\ b \in VertexRecord /\ b.on = v.on /\ b.value = v.value /\ b.txs = v.txs /\ b.active = v.active
      /\ b.queue[NextBuffer(n)] = q /\ b.queue[Buffer(n)] = v.queue[Buffer(n)]
  <2> HIDE DEF v, q
  <2>1. QED
    BY <1>1, <1>2, SetQueue, Buffers
<1>4. vertex' = [vertex EXCEPT ![n] = [vertex[n] EXCEPT ![w] = b]]
  BY DEF RelayDelivered, w
<1>5. QED
  <2> HIDE DEF b, q, v
  <2>1. vertex' \in [Nodes -> [Wallets -> VertexRecord]] /\ vertex'[n][w] = b /\ \A x \in Wallets \ {w} : vertex'[n][x] = vertex[n][x]
    BY <1>0, <1>3, <1>4, OneVertex DEF GraphTypes
  <2>2. QED
    BY <1>0, <1>3, <2>1 DEF v, q, w

To(T, x) == {t \in T : TxTo[t] = x}

\* Messages within a graph are in the buffers of the next superstep.
LEMMA QueuedShape ==
  ASSUME GraphTypes, NEW n \in Nodes, NEW T \in SUBSET Txs
  PROVE  /\ Queued(n, T) \in [Wallets -> VertexRecord]
         /\ \A x \in Wallets :
              LET v == vertex[n][x]
                  u == Queued(n, T)[x]
              IN /\ u.on = v.on /\ u.value = v.value /\ u.txs = v.txs /\ u.active = v.active
                 /\ u.queue[Buffer(n)] = v.queue[Buffer(n)]
                 /\ u.queue[NextBuffer(n)] = EnqueueAll(v.queue[NextBuffer(n)], To(T, x))
                 /\ To(T, x) = {} => u = v
<1>1. ASSUME NEW x \in Wallets
      PROVE  LET v == vertex[n][x]
                 u == Queued(n, T)[x]
             IN /\ u \in VertexRecord
                /\ u.on = v.on /\ u.value = v.value /\ u.txs = v.txs /\ u.active = v.active
                /\ u.queue[Buffer(n)] = v.queue[Buffer(n)]
                /\ u.queue[NextBuffer(n)] = EnqueueAll(v.queue[NextBuffer(n)], To(T, x))
                /\ To(T, x) = {} => u = v
  <2> DEFINE v == vertex[n][x]
  <2> DEFINE q == EnqueueAll(v.queue[NextBuffer(n)], To(T, x))
  <2> DEFINE b == [v EXCEPT !.queue[NextBuffer(n)] = q]
  <2>1. v \in VertexRecord /\ NextBuffer(n) \in {0, 1}
    BY Buffers DEF GraphTypes
  <2>2. v.queue[NextBuffer(n)] \in Msgs /\ To(T, x) \in SUBSET Txs
    <3>1. v.queue \in Queues
      BY <2>1 DEF VertexRecord
    <3> HIDE DEF v
    <3>2. QED
      BY <2>1, <3>1 DEF Queues, Msgs, To
  <2>3. q \in [n : Nat, sum : Nat]
    <3> HIDE DEF v
    <3>1. QED
      BY <2>2, Enqueued DEF Msgs
  <2>4. /\ b \in VertexRecord /\ b.on = v.on /\ b.value = v.value /\ b.txs = v.txs /\ b.active = v.active
        /\ b.queue[NextBuffer(n)] = q /\ b.queue[Buffer(n)] = v.queue[Buffer(n)]
    <3> HIDE DEF v, q
    <3>1. QED
      BY <2>1, <2>3, SetQueue, Buffers
  <2>5. Queued(n, T)[x] = IF To(T, x) = {} THEN v ELSE b
    BY DEF Queued, To
  <2>6. CASE To(T, x) = {}
    <3>1. q = v.queue[NextBuffer(n)]
      <4> HIDE DEF v
      <4>1. EnqueueAll(v.queue[NextBuffer(n)], {}) = v.queue[NextBuffer(n)]
        BY <2>2, Enqueued
      <4>2. QED
        BY <2>6, <4>1, Zenon
    <3> HIDE DEF v, q, b
    <3>2. Queued(n, T)[x] = v
      BY <2>5, <2>6
    <3>3. v.queue[NextBuffer(n)] = EnqueueAll(v.queue[NextBuffer(n)], To(T, x))
      BY <3>1 DEF q
    <3>4. QED
      BY <2>1, <2>6, <3>2, <3>3, Zenon DEF v
  <2>7. CASE To(T, x) # {}
    <3>1. Queued(n, T)[x] = b
      <4> HIDE DEF b, v
      <4>1. QED
        BY <2>5, <2>7
    <3> HIDE DEF b, q
    <3>2. QED
      BY <2>4, <2>7, <3>1, Zenon DEF q
  <2>8. QED
    BY <2>6, <2>7
<1>2. Queued(n, T) \in [Wallets -> VertexRecord]
  <2>1. Queued(n, T) = [x \in Wallets |-> Queued(n, T)[x]]
    BY DEF Queued
  <2>2. QED
    BY <1>1, <2>1
<1>3. QED
  BY <1>1, <1>2

\* The vertex w becomes u, among those of a node.
LEMMA OneOf ==
  ASSUME NEW V \in [Wallets -> VertexRecord], NEW w \in Wallets, NEW u \in VertexRecord
  PROVE  LET U == [V EXCEPT ![w] = u]
         IN U \in [Wallets -> VertexRecord] /\ U[w] = u /\ \A x \in Wallets \ {w} : U[x] = V[x]
  OBVIOUS

\* The superstep that sends takes the costs off the value, and the transactions off the vertex.
LEMMA SendsShape ==
  ASSUME GraphTypes, NEW n \in Nodes, NEW w \in Wallets, ComputeSends(n, w)
  PROVE  LET L == Local(n, vertex[n][w].txs)
         IN /\ vertex' \in [Nodes -> [Wallets -> VertexRecord]] /\ L \in SUBSET Txs
            /\ \A x \in Wallets \ {w} : vertex'[n][x] = Queued(n, L)[x]
            /\ LET v == vertex[n][w]
                   u == vertex'[n][w]
               IN /\ u.on = v.on /\ u.txs = {} /\ u.active = FALSE
                  /\ u.value = v.value - Cost(v.txs)
                  /\ u.queue[Buffer(n)] = NoMsgs
                  /\ u.queue[NextBuffer(n)] = EnqueueAll(v.queue[NextBuffer(n)], To(L, w))
<1> DEFINE T == vertex[n][w].txs
<1> DEFINE L == Local(n, T)
<1> DEFINE V == Queued(n, L)
<1>1. vertex[n][w] \in VertexRecord /\ Buffer(n) \in {0, 1} /\ NoMsgs \in [n : Nat, sum : Nat]
  BY Buffers DEF GraphTypes, NoMsgs
<1>2. T \in SUBSET Txs /\ L \in SUBSET Txs /\ vertex[n][w].value \in Int
  BY <1>1 DEF VertexRecord, Local
<1>3. vertex' = [vertex EXCEPT ![n] = [V EXCEPT ![w].value = V[w].value - Cost(T), ![w].txs = {},
                    ![w].active = FALSE, ![w].queue[Buffer(n)] = NoMsgs]]
  BY DEF ComputeSends
<1> HIDE DEF L
<1>4. /\ V \in [Wallets -> VertexRecord] /\ V[w].on = vertex[n][w].on /\ V[w].value = vertex[n][w].value
      /\ V[w].queue[NextBuffer(n)] = EnqueueAll(vertex[n][w].queue[NextBuffer(n)], To(L, w))
  BY <1>2, QueuedShape
<1> HIDE DEF V, T
<1> DEFINE y == V[w].value - Cost(T)
<1>5. y \in Int
  <2>1. Cost(T) \in Int
    BY <1>2, Sums
  <2>2. QED
    BY <1>2, <1>4, <2>1
<1> DEFINE a == [V[w] EXCEPT !.value = y]
<1> DEFINE b == [a EXCEPT !.txs = {}]
<1> DEFINE c == [b EXCEPT !.active = FALSE]
<1> DEFINE d == [c EXCEPT !.queue[Buffer(n)] = NoMsgs]
<1>6. a \in VertexRecord /\ a.on = V[w].on /\ a.value = y /\ a.queue = V[w].queue
  <2> HIDE DEF y
  <2>1. QED
    BY <1>4, <1>5, SetValue
<1>7. b \in VertexRecord /\ b.on = V[w].on /\ b.value = y /\ b.txs = {} /\ b.queue = V[w].queue
  <2> HIDE DEF a, y
  <2>1. QED
    BY <1>6, SetTxs
<1>8. c \in VertexRecord /\ c.on = V[w].on /\ c.value = y /\ c.txs = {} /\ c.active = FALSE /\ c.queue = V[w].queue
  <2> HIDE DEF b, y
  <2>1. QED
    BY <1>7, SetActive
<1>9. /\ d \in VertexRecord /\ d.on = V[w].on /\ d.value = y /\ d.txs = {} /\ d.active = FALSE
      /\ d.queue[Buffer(n)] = NoMsgs /\ d.queue[NextBuffer(n)] = V[w].queue[NextBuffer(n)]
  <2> HIDE DEF c, y
  <2>1. QED
    BY <1>1, <1>8, SetQueue, Buffers
<1> DEFINE A == [V EXCEPT ![w] = a]
<1> DEFINE B == [A EXCEPT ![w] = b]
<1> DEFINE C == [B EXCEPT ![w] = c]
<1> DEFINE D == [C EXCEPT ![w] = d]
<1>10. A = [V EXCEPT ![w].value = y] /\ A \in [Wallets -> VertexRecord] /\ A[w] = a /\ \A x \in Wallets \ {w} : A[x] = V[x]
  <2>1. A = [V EXCEPT ![w].value = y]
    OBVIOUS
  <2> HIDE DEF a
  <2>2. QED
    BY <1>4, <1>6, <2>1, OneOf
<1>11. B = [A EXCEPT ![w].txs = {}] /\ B \in [Wallets -> VertexRecord] /\ B[w] = b /\ \A x \in Wallets \ {w} : B[x] = V[x]
  <2> HIDE DEF A, a
  <2>1. B = [A EXCEPT ![w].txs = {}]
    BY <1>10
  <2> HIDE DEF b
  <2>2. QED
    BY <1>7, <1>10, <2>1, OneOf
<1>12. C = [B EXCEPT ![w].active = FALSE] /\ C \in [Wallets -> VertexRecord] /\ C[w] = c /\ \A x \in Wallets \ {w} : C[x] = V[x]
  <2> HIDE DEF B, b
  <2>1. C = [B EXCEPT ![w].active = FALSE]
    BY <1>11
  <2> HIDE DEF c
  <2>2. QED
    BY <1>8, <1>11, <2>1, OneOf
<1>13. D = [C EXCEPT ![w].queue[Buffer(n)] = NoMsgs] /\ D \in [Wallets -> VertexRecord] /\ D[w] = d /\ \A x \in Wallets \ {w} : D[x] = V[x]
  <2> HIDE DEF C, c
  <2>1. D = [C EXCEPT ![w].queue[Buffer(n)] = NoMsgs]
    BY <1>12
  <2> HIDE DEF d
  <2>2. QED
    BY <1>9, <1>12, <2>1, OneOf
<1>14. vertex' = [vertex EXCEPT ![n] = D]
  <2>1. vertex' = [vertex EXCEPT ![n] = [[[[V EXCEPT ![w].value = y] EXCEPT ![w].txs = {}] EXCEPT ![w].active = FALSE]
                     EXCEPT ![w].queue[Buffer(n)] = NoMsgs]]
    BY <1>3
  <2> HIDE DEF A, B, C, D, y
  <2>2. QED
    BY <2>1, <1>10, <1>11, <1>12, <1>13
<1>15. vertex' \in [Nodes -> [Wallets -> VertexRecord]] /\ vertex'[n] = D
  <2> HIDE DEF D
  <2>1. QED
    BY <1>13, <1>14 DEF GraphTypes
<1>16. QED
  <2> HIDE DEF D, d
  <2>1. QED
    BY <1>2, <1>4, <1>9, <1>13, <1>15 DEF V, L, T

\* When a message cannot be sent, those before it were.
LEMMA FailsShape ==
  ASSUME GraphTypes, NEW n \in Nodes, NEW w \in Wallets, ComputeFails(n, w)
  PROVE  \E S \in SUBSET Local(n, vertex[n][w].txs) :
           /\ vertex' \in [Nodes -> [Wallets -> VertexRecord]] /\ S \in SUBSET Txs
           /\ \A x \in Wallets \ {w} : vertex'[n][x] = Queued(n, S)[x]
           /\ LET v == Queued(n, S)[w]
                  u == vertex'[n][w]
              IN u.on = v.on /\ u.txs = v.txs /\ u.value = v.value /\ u.queue = v.queue
<1>1. PICK S \in SUBSET Local(n, vertex[n][w].txs) : vertex' = [vertex EXCEPT ![n] = [Queued(n, S) EXCEPT ![w].active = TRUE]]
  BY DEF ComputeFails
<1>2. vertex[n][w] \in VertexRecord
  BY DEF GraphTypes
<1>3. S \in SUBSET Txs
  BY <1>2 DEF VertexRecord, Local
<1> DEFINE V == Queued(n, S)
<1>4. V \in [Wallets -> VertexRecord]
  BY <1>3, QueuedShape
<1> DEFINE a == [V[w] EXCEPT !.active = TRUE]
<1> DEFINE A == [V EXCEPT ![w] = a]
<1>5. vertex' = [vertex EXCEPT ![n] = A]
  BY <1>1
<1> HIDE DEF V
<1>6. a \in VertexRecord /\ a.on = V[w].on /\ a.txs = V[w].txs /\ a.value = V[w].value /\ a.queue = V[w].queue
  BY <1>4, SetActive
<1>7. A \in [Wallets -> VertexRecord] /\ A[w] = a /\ \A x \in Wallets \ {w} : A[x] = V[x]
  <2> HIDE DEF a
  <2>1. QED
    BY <1>4, <1>6, OneOf
<1>8. vertex' \in [Nodes -> [Wallets -> VertexRecord]] /\ vertex'[n] = A
  <2> HIDE DEF A
  <2>1. QED
    BY <1>5, <1>7 DEF GraphTypes
<1>9. QED
  <2> HIDE DEF A, a
  <2>1. QED
    BY <1>1, <1>3, <1>6, <1>7, <1>8 DEF V

-----------------------------------------------------------------------------
\* Types: graphs.

\* A step of one vertex.
LEMMA OneByOne ==
  ASSUME NEW n, NEW w \in Wallets, vertex[n][w].on,
         vertex'[n][w].on = vertex[n][w].on, vertex'[n][w].txs = vertex[n][w].txs,
         \A x \in Wallets \ {w} : vertex'[n][x] = vertex[n][x]
  PROVE  \A x \in Wallets :
           /\ vertex'[n][x].on = vertex[n][x].on
           /\ vertex'[n][x].txs \subseteq vertex[n][x].txs
           /\ ~vertex[n][x].on => vertex'[n][x] = vertex[n][x]
<1>1. TAKE x \in Wallets
<1>2. CASE x = w
  BY <1>2
<1>3. CASE x # w
  BY <1>3
<1>4. QED
  BY <1>2, <1>3

\* What any step of a graph does to its vertices.
LEMMA StepVertices ==
  ASSUME Control, NEW n \in Nodes, GraphStep(n) \/ StepContextDone(n)
  PROVE  /\ vertex' \in [Nodes -> [Wallets -> VertexRecord]]
         /\ \A x \in Wallets :
              /\ vertex'[n][x].on = vertex[n][x].on
              /\ vertex'[n][x].txs \subseteq vertex[n][x].txs
              /\ ~vertex[n][x].on => vertex'[n][x] = vertex[n][x]
<1> DEFINE Goal == /\ vertex' \in [Nodes -> [Wallets -> VertexRecord]]
                   /\ \A x \in Wallets :
                        /\ vertex'[n][x].on = vertex[n][x].on
                        /\ vertex'[n][x].txs \subseteq vertex[n][x].txs
                        /\ ~vertex[n][x].on => vertex'[n][x] = vertex[n][x]
<1>0. GraphTypes /\ vertex \in [Nodes -> [Wallets -> VertexRecord]]
      /\ \A w \in busy[n] : w \in Wallets => vertex[n][w].on
  BY DEF Control, Types, GraphTypes, GraphBooks, VertexBooks
<1>1. CASE StepContextDone(n) \/ StepBegins(n) \/ StepCompletes(n) \/ StepEnds(n)
  BY <1>0, <1>1 DEF StepContextDone, StepBegins, StepCompletes, StepEnds
<1>2. ASSUME NEW w \in Wallets, WorkerTakes(n, w) \/ VertexSkipped(n, w) PROVE Goal
  BY <1>0, <1>2 DEF WorkerTakes, VertexSkipped
<1>3. ASSUME NEW w \in Wallets, ComputeCounts(n, w) PROVE Goal
  <2>1. vertex[n][w].on
    BY <1>0, <1>3 DEF ComputeCounts, InHand
  <2>2. vertex'[n][w].on = vertex[n][w].on /\ vertex'[n][w].txs = vertex[n][w].txs
        /\ vertex' \in [Nodes -> [Wallets -> VertexRecord]]
        /\ \A x \in Wallets \ {w} : vertex'[n][x] = vertex[n][x]
    BY <1>0, <1>3, CountsShape
  <2>3. QED
    BY <2>1, <2>2, OneByOne
<1>4. ASSUME NEW S \in SUBSET Txs, NEW T, S \subseteq Local(n, T), NEW x \in Wallets
      PROVE  /\ Queued(n, S)[x].on = vertex[n][x].on /\ Queued(n, S)[x].txs = vertex[n][x].txs
             /\ ~vertex[n][x].on => Queued(n, S)[x] = vertex[n][x]
  <2>1. ~vertex[n][x].on => To(S, x) = {}
    BY <1>4 DEF Local, To
  <2>2. QED
    BY <1>0, <2>1, QueuedShape
<1>5. ASSUME NEW w \in Wallets, ComputeSends(n, w) PROVE Goal
  <2>1. vertex[n][w].on
    BY <1>0, <1>5 DEF ComputeSends, InHand
  <2> DEFINE L == Local(n, vertex[n][w].txs)
  <2>2. /\ vertex' \in [Nodes -> [Wallets -> VertexRecord]] /\ L \in SUBSET Txs
        /\ \A x \in Wallets \ {w} : vertex'[n][x] = Queued(n, L)[x]
        /\ vertex'[n][w].on = vertex[n][w].on /\ vertex'[n][w].txs = {}
    BY <1>0, <1>5, SendsShape
  <2>3. \A x \in Wallets :
           /\ Queued(n, L)[x].on = vertex[n][x].on /\ Queued(n, L)[x].txs = vertex[n][x].txs
           /\ ~vertex[n][x].on => Queued(n, L)[x] = vertex[n][x]
    BY <1>4, <2>2
  <2> HIDE DEF L
  <2>4. ASSUME NEW x \in Wallets
        PROVE /\ vertex'[n][x].on = vertex[n][x].on
              /\ vertex'[n][x].txs \subseteq vertex[n][x].txs
              /\ ~vertex[n][x].on => vertex'[n][x] = vertex[n][x]
    <3>1. CASE x = w
      BY <2>1, <2>2, <3>1
    <3>2. CASE x # w
      <4>1. vertex'[n][x] = Queued(n, L)[x]
        BY <2>2, <3>2
      <4>2. vertex'[n][x].on = vertex[n][x].on /\ vertex'[n][x].txs = vertex[n][x].txs
        BY <2>3, <4>1, Zenon
      <4>3. ~vertex[n][x].on => vertex'[n][x] = vertex[n][x]
        BY <2>3, <4>1, Zenon
      <4>4. QED
        BY <4>2, <4>3
    <3>3. QED
      BY <3>1, <3>2
  <2>5. QED
    BY <2>2, <2>4
<1>6. ASSUME NEW w \in Wallets, ComputeFails(n, w) PROVE Goal
  <2>1. vertex[n][w].on
    BY <1>0, <1>6 DEF ComputeFails, InHand
  <2>2. PICK S \in SUBSET Local(n, vertex[n][w].txs) :
          /\ vertex' \in [Nodes -> [Wallets -> VertexRecord]] /\ S \in SUBSET Txs
          /\ \A x \in Wallets \ {w} : vertex'[n][x] = Queued(n, S)[x]
          /\ vertex'[n][w].on = Queued(n, S)[w].on /\ vertex'[n][w].txs = Queued(n, S)[w].txs
    BY <1>0, <1>6, FailsShape
  <2>3. \A x \in Wallets :
           /\ Queued(n, S)[x].on = vertex[n][x].on /\ Queued(n, S)[x].txs = vertex[n][x].txs
           /\ ~vertex[n][x].on => Queued(n, S)[x] = vertex[n][x]
    BY <1>4, <2>2
  <2>4. ASSUME NEW x \in Wallets
        PROVE /\ vertex'[n][x].on = vertex[n][x].on
              /\ vertex'[n][x].txs \subseteq vertex[n][x].txs
              /\ ~vertex[n][x].on => vertex'[n][x] = vertex[n][x]
    <3>1. CASE x = w
      <4>1. vertex'[n][w].on = vertex[n][w].on /\ vertex'[n][w].txs = vertex[n][w].txs
        BY <2>2, <2>3, Zenon
      <4>2. QED
        BY <2>1, <3>1, <4>1
    <3>2. CASE x # w
      <4>1. vertex'[n][x] = Queued(n, S)[x]
        BY <2>2, <3>2
      <4>2. vertex'[n][x].on = vertex[n][x].on /\ vertex'[n][x].txs = vertex[n][x].txs
        BY <2>3, <4>1, Zenon
      <4>3. ~vertex[n][x].on => vertex'[n][x] = vertex[n][x]
        BY <2>3, <4>1, Zenon
      <4>4. QED
        BY <4>2, <4>3
    <3>3. QED
      BY <3>1, <3>2
  <2>5. QED
    BY <2>2, <2>4
<1>7. ASSUME NEW w \in Wallets, ComputeAdds(n, w) PROVE Goal
  <2>1. vertex[n][w].on
    BY <1>0, <1>7 DEF ComputeAdds, InHand
  <2>2. vertex'[n][w].on = vertex[n][w].on /\ vertex'[n][w].txs = vertex[n][w].txs
        /\ vertex' \in [Nodes -> [Wallets -> VertexRecord]]
        /\ \A x \in Wallets \ {w} : vertex'[n][x] = vertex[n][x]
    <3>1. GraphTypes /\ ComputeAdds(n, w)
      BY <1>0, <1>7
    <3>2. QED
      BY <3>1, AddsShape, ZenonT(60)
  <2>3. QED
    BY <2>1, <2>2, OneByOne
<1>8. ASSUME NEW t \in Txs, RelayDelivered(n, t) PROVE Goal
  <2>1. vertex[n][TxTo[t]].on
    BY <1>8 DEF RelayDelivered
  <2>2. QED
    BY <1>0, <1>8, <2>1, DeliveredShape
<1>9. QED
  BY <1>1, <1>2, <1>3, <1>5, <1>6, <1>7, <1>8 DEF GraphStep

\* Taking a step of the pool off its books.
LEMMA StepNumbers ==
  ASSUME Control, NEW n \in Nodes
  PROVE  /\ pending[n] \in Nat /\ activeIn[n] \in Nat
         /\ pending[n] = Cardinality(feed[n] \cup busy[n]) /\ feed[n] \cap busy[n] = {}
         /\ feed[n] \in SUBSET Wallets /\ busy[n] \in SUBSET Wallets
         /\ VerticesOf(n) \in SUBSET Wallets /\ feed[n] \cup busy[n] \in SUBSET VerticesOf(n)
         /\ \A w \in busy[n] : pending[n] - 1 \in Nat
<1>1. /\ pending[n] \in Nat /\ activeIn[n] \in Nat
      /\ pending[n] = Cardinality(feed[n] \cup busy[n]) /\ feed[n] \cap busy[n] = {}
      /\ feed[n] \in SUBSET Wallets /\ busy[n] \in SUBSET Wallets
  BY DEF Control, Types, GraphTypes, GraphBooks, StepBooks
<1>2. VerticesOf(n) \in SUBSET Wallets /\ feed[n] \cup busy[n] \in SUBSET VerticesOf(n)
  BY <1>1 DEF Control, GraphBooks, VertexBooks, VerticesOf
<1>3. \A w \in busy[n] : pending[n] - 1 \in Nat
  <2>1. TAKE w \in busy[n]
  <2>2. Cardinality(feed[n] \cup busy[n]) >= 1
    BY <1>1, WalletTaken
  <2>3. QED
    BY <1>1, <2>2
<1>4. QED
  BY <1>1, <1>2, <1>3

\* The owner of a wallet is a node, or nobody.
LEMMA OwnerType ==
  ASSUME Types, NEW w \in Wallets
  PROVE  OwnerOf(w) \in dep.nodes \cup {Nobody} /\ dep.nodes \subseteq Nodes
<1>1. dep \in Deployments /\ dep.nodes \in SUBSET Nat /\ dep.nodes \subseteq Nodes /\ IsFiniteSet(dep.nodes) /\ dep.nodes # {}
  BY DeploymentsAssumption, FS_Subset DEF Types, DeploymentTypeOK
<1>2. Cardinality(dep.nodes) \in Nat \ {0}
  BY <1>1, FS_CardinalityType, FS_EmptySet
<1> DEFINE p == PartitionForAddr(NewFullRange(Cardinality(dep.nodes)), Addr[w])
<1>3. Addr[w] \in Address
  BY WalletsAssumption
<1>4. p # Nobody => p \in 0 .. Cardinality(dep.nodes) - 1
  BY <1>2, <1>3, PartitionSound
<1>5. p # Nobody => \E n \in dep.nodes : Cardinality({m \in dep.nodes : m < n}) = p
  <2> HIDE DEF p
  <2>1. QED
    BY <1>1, <1>4, Positions
<1> HIDE DEF p
<1>6. OwnerOf(w) = IF p = Nobody THEN Nobody ELSE CHOOSE n \in dep.nodes : Cardinality({m \in dep.nodes : m < n}) = p
  BY DEF OwnerOf, p
<1>7. p # Nobody => (CHOOSE n \in dep.nodes : Cardinality({m \in dep.nodes : m < n}) = p) \in dep.nodes
  BY <1>5
<1>8. QED
  BY <1>1, <1>6, <1>7

\* Every step of a graph keeps the types of graphs.
LEMMA KeepsStep ==
  ASSUME Control, NEW n \in Nodes, GraphStep(n) \/ StepContextDone(n)
  PROVE  GraphTypes'
<1>0. GraphTypes /\ vertex' \in [Nodes -> [Wallets -> VertexRecord]] /\ Types
  BY StepVertices DEF Control, Types
<1>01. /\ pending[n] \in Nat /\ activeIn[n] \in Nat /\ \A w \in busy[n] : pending[n] - 1 \in Nat
  BY StepNumbers
<1> USE DEF GraphTypes, WorkerFinishes
<1>1. CASE StepContextDone(n) \/ StepCompletes(n)
  BY <1>0, <1>1 DEF StepContextDone, StepCompletes
<1>2. CASE StepBegins(n)
  <2>1. VerticesOf(n) \in SUBSET Wallets /\ Cardinality(VerticesOf(n)) \in Nat
    BY FiniteWallets DEF VerticesOf
  <2>2. QED
    BY <1>0, <1>2, <2>1 DEF StepBegins
<1>3. CASE StepEnds(n)
  <2>1. \/ run' = [run EXCEPT ![n] = "stop"] /\ UNCHANGED superstep
        \/ run' = [run EXCEPT ![n] = "pre"] /\ superstep' = [superstep EXCEPT ![n] = @ + 1]
    BY <1>3 DEF StepEnds
  <2>2. UNCHANGED <<feed, busy, pending, activeIn, stepErr, counted, relay>>
    BY <1>3 DEF StepEnds
  <2>3. superstep' \in [Nodes -> Nat]
    <3>1. superstep[n] + 1 \in Nat
      BY <1>0
    <3>2. QED
      BY <1>0, <2>1, <3>1
  <2>4. run' \in [Nodes -> {"off", "pre", "step", "post", "stop", "err"}]
    BY <1>0, <2>1
  <2>5. QED
    BY <1>0, <2>2, <2>3, <2>4
<1>4. ASSUME NEW w \in Wallets, WorkerTakes(n, w) PROVE GraphTypes'
  BY <1>0, <1>4 DEF WorkerTakes
<1>5. ASSUME NEW w \in Wallets, VertexSkipped(n, w) PROVE GraphTypes'
  BY <1>0, <1>01, <1>5 DEF VertexSkipped, InHand
<1>6. ASSUME NEW w \in Wallets, ComputeCounts(n, w) PROVE GraphTypes'
  <2>1. vertex[n][w] \in VertexRecord
    BY <1>0
  <2>2. Cardinality(vertex[n][w].txs) \in Nat
    BY <2>1, FiniteTxs DEF VertexRecord
  <2>3. counted' \in [Nodes -> [wallets : Nat, txs : Nat]]
    <3> DEFINE a == [counted[n] EXCEPT !.wallets = @ + 1]
    <3> DEFINE b == [a EXCEPT !.txs = @ + Cardinality(vertex[n][w].txs)]
    <3>1. counted[n] \in [wallets : Nat, txs : Nat]
      BY <1>0
    <3>2. a \in [wallets : Nat, txs : Nat]
      BY <3>1
    <3>3. b \in [wallets : Nat, txs : Nat]
      <4> HIDE DEF a
      <4>1. QED
        BY <2>2, <3>2
    <3> DEFINE C == [counted EXCEPT ![n] = a]
    <3>4. counted' = [[counted EXCEPT ![n].wallets = @ + 1] EXCEPT ![n].txs = @ + Cardinality(vertex[n][w].txs)]
      BY <1>6 DEF ComputeCounts
    <3>5. C = [counted EXCEPT ![n].wallets = @ + 1] /\ C[n] = a /\ C \in [Nodes -> [wallets : Nat, txs : Nat]]
      BY <1>0, <3>2
    <3>6. counted' = [C EXCEPT ![n] = b]
      <4> HIDE DEF C, a
      <4>1. QED
        BY <3>4, <3>5
    <3>7. QED
      <4> HIDE DEF C, b
      <4>1. QED
        BY <3>3, <3>5, <3>6
  <2>4. /\ pending' = [pending EXCEPT ![n] = @ - 1] /\ busy' = [busy EXCEPT ![n] = @ \ {w}]
        /\ activeIn' = [activeIn EXCEPT ![n] = @ + 1] /\ w \in busy[n]
        /\ UNCHANGED <<superstep, run, feed, stepErr, relay>>
    BY <1>6 DEF ComputeCounts, InHand
  <2>5. QED
    BY <1>0, <1>01, <2>3, <2>4
<1>7. ASSUME NEW w \in Wallets, ComputeSends(n, w) PROVE GraphTypes'
  <2>1. vertex[n][w] \in VertexRecord
    BY <1>0
  <2>2. vertex[n][w].txs \in SUBSET Txs
    BY <2>1 DEF VertexRecord
  <2>3. relay' \subseteq (Nodes \cup {Nobody}) \X Txs
    <3>1. \A t \in Txs : OwnerOf(TxTo[t]) \in Nodes \cup {Nobody}
      BY <1>0, OwnerType, TxAssumption
    <3>2. relay' = relay \cup {<<OwnerOf(TxTo[t]), t>> : t \in vertex[n][w].txs \ Local(n, vertex[n][w].txs)}
      BY <1>7 DEF ComputeSends
    <3>3. QED
      BY <1>0, <2>2, <3>1, <3>2
  <2>4. /\ pending' = [pending EXCEPT ![n] = @ - 1] /\ busy' = [busy EXCEPT ![n] = @ \ {w}]
        /\ activeIn' = [activeIn EXCEPT ![n] = @ + 1] /\ w \in busy[n]
        /\ UNCHANGED <<superstep, run, feed, stepErr, counted>>
    BY <1>7 DEF ComputeSends, InHand
  <2>5. QED
    BY <1>0, <1>01, <2>3, <2>4
<1>8. ASSUME NEW w \in Wallets, ComputeFails(n, w) PROVE GraphTypes'
  BY <1>0, <1>01, <1>8 DEF ComputeFails, InHand
<1>9. ASSUME NEW w \in Wallets, ComputeAdds(n, w) PROVE GraphTypes'
  <2>1. /\ pending' = [pending EXCEPT ![n] = @ - 1] /\ busy' = [busy EXCEPT ![n] = @ \ {w}]
        /\ activeIn' = [activeIn EXCEPT ![n] = @ + 1] /\ w \in busy[n]
        /\ UNCHANGED <<superstep, run, feed, stepErr, counted, relay>>
    BY <1>9 DEF ComputeAdds, InHand
  <2>2. QED
    BY <1>0, <1>01, <2>1
<1>10. ASSUME NEW t \in Txs, RelayDelivered(n, t) PROVE GraphTypes'
  BY <1>0, <1>10 DEF RelayDelivered
<1>11. QED
  BY <1>1, <1>2, <1>3, <1>4, <1>5, <1>6, <1>7, <1>8, <1>9, <1>10 DEF GraphStep

\* A graph without vertices.
LEMMA Emptied == NoVertices \in [Wallets -> VertexRecord]
  BY NoVertexType DEF NoVertices

\* Every step keeps the types of graphs.
LEMMA KeepsGraphs ==
  ASSUME Control, Next
  PROVE  GraphTypes'
<1>0. GraphTypes /\ NoVertices \in [Wallets -> VertexRecord] /\ [wallets |-> 0, txs |-> 0] \in [wallets : Nat, txs : Nat]
  BY Emptied DEF Control, Types
<1> USE DEF deployment, tables, history, scoreVars, loadVars, passVars, graphVars, Goto, Mine, Working, Is, GraphTypes
<1>1. ASSUME NEW n \in Nodes, LoaderStep(n) PROVE GraphTypes'
  <2>1. vertex' \in [Nodes -> [Wallets -> VertexRecord]]
    BY <1>0, <1>1, KeepsAdded, KeepsLate DEF LoaderStep, LoaderMove
  <2>2. QED
    BY <1>0, <1>1, <2>1 DEF LoaderStep
<1>2. ASSUME NEW n \in Nodes, StoreStep(n) PROVE GraphTypes'
  BY <1>2, <1>0 DEF StoreStep, StoreMove, MemoryUpsertScores, UpsertScoresLosesError, BulkUpsertScores
<1>3. ASSUME NEW n \in Nodes, MonolithPassBegins(n) PROVE GraphTypes'
  BY <1>3, <1>0 DEF MonolithPassBegins, PassBegins, LoadBegins
<1>4. ASSUME NEW n \in Nodes, MonolithLoaded(n) PROVE GraphTypes'
  BY <1>4, <1>0 DEF MonolithLoaded, Executor, NewExecutor
<1>5. ASSUME NEW n \in Nodes, MonolithStores(n) PROVE GraphTypes'
  BY <1>5, <1>0 DEF MonolithStores, ScoresAll
<1>6. ASSUME NEW n \in Nodes, MonolithPassCompletes(n) PROVE GraphTypes'
  BY <1>6, <1>0 DEF MonolithPassCompletes, Reset
<1>7. ASSUME NEW n \in Nodes, MonolithFails(n) PROVE GraphTypes'
  BY <1>7, <1>0 DEF MonolithFails
<1>8. ASSUME NEW n \in Nodes, ServiceStops(n) PROVE GraphTypes'
  BY <1>8, <1>0 DEF ServiceStops
<1>9. ASSUME NEW n \in Nodes, ProcessEnds(n) PROVE GraphTypes'
  BY <1>9, <1>0 DEF ProcessEnds, Reset
<1>10. ASSUME NEW n \in Nodes, StartJob(n) PROVE GraphTypes'
  BY <1>10, <1>0 DEF StartJob, Reset, LoadBegins
<1>11. ASSUME NEW n \in Nodes, WorkerLoaded(n) PROVE GraphTypes'
  BY <1>11, <1>0 DEF WorkerLoaded, Executor, NewExecutor
<1>12. ASSUME NEW n \in Nodes, CompleteJob(n) PROVE GraphTypes'
  BY <1>12, <1>0 DEF CompleteJob, ScoresAll
<1>13. ASSUME NEW n \in Nodes, ScoresPersisted(n) PROVE GraphTypes'
  BY <1>13, <1>0 DEF ScoresPersisted, Reset
<1>14. ASSUME NEW n \in Nodes, WorkerFails(n) PROVE GraphTypes'
  BY <1>14, <1>0 DEF WorkerFails, Reset
<1>15. ASSUME NEW n \in Nodes, AbortJob(n) PROVE GraphTypes'
  BY <1>15, <1>0 DEF AbortJob, Reset
<1>16. ASSUME NEW n \in Nodes, GraphRuns(n) PROVE GraphTypes'
  BY <1>0, <1>16, KeepsStep DEF GraphRuns
<1>17. ASSUME NEW n \in Nodes, StoreFails(n) PROVE GraphTypes'
  BY <1>17, <1>0 DEF StoreFails, UnknownScorer, UpsertScoresFails
<1>18. ASSUME NEW n \in Nodes, WorkerCrashes(n) PROVE GraphTypes'
  BY <1>18, <1>0 DEF WorkerCrashes, Reset, NobodyIn
<1>19. ASSUME NEW n \in Nodes \cup {Nobody}, NEW t \in Txs, Bounced(n, t) PROVE GraphTypes'
  BY <1>19, <1>0 DEF Bounced, RelayBounces
<1>20. ASSUME JobBegins PROVE GraphTypes'
  BY <1>20, <1>0 DEF JobBegins, PassBegins
<1>21. ASSUME GraphExecuted PROVE GraphTypes'
  BY <1>21, <1>0 DEF GraphExecuted
<1>22. ASSUME JobEnds PROVE GraphTypes'
  BY <1>22, <1>0 DEF JobEnds
<1>23. ASSUME Signal PROVE GraphTypes'
  BY <1>23, <1>0 DEF Signal
<1>24. ASSUME JobCancelled PROVE GraphTypes'
  BY <1>24, <1>0 DEF JobCancelled
<1>25. ASSUME GraphGrows PROVE GraphTypes'
  BY <1>25, <1>0 DEF GraphGrows
<1>26. ASSUME OtherStoreCalls PROVE GraphTypes'
  BY <1>26, <1>0 DEF OtherStoreCalls
<1>27. QED
  BY Moves, <1>1, <1>2, <1>3, <1>4, <1>5, <1>6, <1>7, <1>8, <1>9, <1>10, <1>11, <1>12, <1>13, <1>14, <1>15, <1>16, <1>17, <1>18, <1>19, <1>20, <1>21, <1>22, <1>23, <1>24, <1>25, <1>26 DEF NodeMove, OtherMove

-----------------------------------------------------------------------------
\* Types: scores.

\* A row that may be stored, once the pass has begun.
LEMMA RowsStay ==
  ASSUME pass \in Nat, pass' \in {pass, pass + 1}
  PROVE  \A s \in Score : s \in Score'
  BY DEF Score

\* A row of a pass that has begun.
LEMMA ValueIn ==
  ASSUME Types, NEW n \in Nodes, NEW w \in Wallets, pass \in Nat \ {0}
  PROVE  [wallet |-> w, value |-> [pass |-> pass, value |-> vertex[n][w].value]] \in Row
<1>1. vertex[n][w] \in VertexRecord
  BY DEF Types, GraphTypes
<1>2. vertex[n][w].value \in Int
  BY <1>1 DEF VertexRecord
<1>3. QED
  BY <1>2 DEF Row, Score

\* The fields of a row.
LEMMA RowFields ==
  ASSUME NEW r \in Row
  PROVE  r.wallet \in Wallets /\ r.value \in Score
  BY DEF Row

KeptStore ==
  /\ score' \in [Wallets -> Score \cup {NoScore}]
  /\ toStore' \in [Nodes -> SUBSET Row] /\ lateScores' \subseteq Row
  /\ scorer' \in BOOLEAN /\ disturbed' \in BOOLEAN
  /\ search' \in [at : {"idle", "counted", "read", "shown"}, total : Nat, rows : Nat, shown : Nat]

\* Types of the store, from those of the table and of the rows on their way.
LEMMA StoreKept ==
  ASSUME Types, pass' \in {pass, pass + 1}, KeptStore
  PROVE  StoreTypes'
<1>1. pass \in Nat /\ \A s \in Score : s \in Score'
  BY RowsStay, DeploymentsAssumption DEF Types, DeploymentTypeOK
<1>2. \A r \in Row : r \in Row'
  BY <1>1 DEF Row
<1> HIDE DEF Row, Score
<1>3. score' \in [Wallets -> Score' \cup {NoScore}]
  BY <1>1 DEF KeptStore
<1>4. toStore' \in [Nodes -> SUBSET Row'] /\ lateScores' \subseteq Row'
  BY <1>2 DEF KeptStore
<1>5. QED
  BY <1>3, <1>4 DEF KeptStore, StoreTypes

\* The store in memory takes rows of one node.
LEMMA MemoryRows ==
  ASSUME StoreTypes, NEW n \in Nodes, MemoryUpsertScores(n)
  PROVE  score' \in [Wallets -> Score \cup {NoScore}]
<1>1. \A w \in Wallets : (\E r \in toStore[n] : r.wallet = w) =>
         (CHOOSE r \in toStore[n] : r.wallet = w) \in toStore[n]
  OBVIOUS
<1>2. \A r \in toStore[n] : r.value \in Score
  BY RowFields DEF StoreTypes
<1>3. \A w \in Wallets : score[w] \in Score \cup {NoScore}
  BY DEF StoreTypes
<1> HIDE DEF Score
<1>4. QED
  BY <1>1, <1>2, <1>3 DEF MemoryUpsertScores

SearchRecord == [at : {"idle", "counted", "read", "shown"}, total : Nat, rows : Nat, shown : Nat]
\* A search with its numbers.
LEMMA Numbered ==
  ASSUME NEW n \in Nat
  PROVE  /\ [NoSearch EXCEPT !.at = "counted", !.total = n] \in SearchRecord
         /\ [NoSearch EXCEPT !.at = "counted", !.total = n].total = n
         /\ [NoSearch EXCEPT !.at = "counted", !.total = n].at = "counted"
         /\ [NoSearch EXCEPT !.at = "read", !.total = n, !.rows = n] \in SearchRecord
         /\ [NoSearch EXCEPT !.at = "read", !.total = n, !.rows = n].total = n
         /\ [NoSearch EXCEPT !.at = "read", !.total = n, !.rows = n].rows = n
<1>1. NoSearch \in SearchRecord
  BY DEF NoSearch, SearchRecord
<1> DEFINE a == [NoSearch EXCEPT !.at = "counted"]
<1>2. a \in SearchRecord /\ a.at = "counted"
  BY <1>1 DEF SearchRecord
<1> DEFINE b == [NoSearch EXCEPT !.at = "read"]
<1>3. b \in SearchRecord
  BY <1>1 DEF SearchRecord
<1> DEFINE c == [b EXCEPT !.total = n]
<1>4. c \in SearchRecord /\ c.total = n
  <2> HIDE DEF b
  <2>1. QED
    BY <1>3 DEF SearchRecord
<1>5. [NoSearch EXCEPT !.at = "counted", !.total = n] = [a EXCEPT !.total = n]
      /\ [NoSearch EXCEPT !.at = "read", !.total = n, !.rows = n] = [c EXCEPT !.rows = n]
  OBVIOUS
<1> HIDE DEF a, c
<1>6. [a EXCEPT !.total = n] \in SearchRecord /\ [a EXCEPT !.total = n].total = n /\ [a EXCEPT !.total = n].at = "counted"
  BY <1>2 DEF SearchRecord
<1>7. [c EXCEPT !.rows = n] \in SearchRecord /\ [c EXCEPT !.rows = n].rows = n /\ [c EXCEPT !.rows = n].total = n
  BY <1>4 DEF SearchRecord
<1>8. QED
  BY <1>5, <1>6, <1>7

\* Every step keeps the types of scores.
LEMMA KeepsScores ==
  ASSUME Control, Next
  PROVE  StoreTypes'
<1>a. Types /\ StoreTypes /\ PlaceBooks /\ pass \in Nat /\ pass' \in {pass, pass + 1}
  BY KeepsDeployment, DeploymentsAssumption DEF Control, Types, DeploymentTypeOK
<1>0. KeptStore => StoreTypes'
  BY <1>a, StoreKept
<1>b. \A n \in Nodes : at[n] \notin {"idle", "returned"} => pass \in Nat \ {0}
  BY <1>a DEF PlaceBooks, NodeBooks
<1>c. \A n \in Nodes : at[n] \notin {"idle", "returned"} => \A w \in Wallets :
        [wallet |-> w, value |-> [pass |-> pass, value |-> vertex[n][w].value]] \in Row
  BY <1>a, <1>b, ValueIn
<1>d. \A S \in SUBSET Row : \A r \in S : r.wallet \in Wallets /\ r.value \in Score
  BY RowFields
<1> USE DEF KeptStore, StoreTypes
<1> HIDE DEF Row, Score
<1> USE DEF deployment, tables, history, scoreVars, loadVars, passVars, graphVars, Goto, Mine, Working, Is, Types
<1>1. ASSUME NEW n \in Nodes, LoaderStep(n) PROVE KeptStore
  BY <1>1, <1>a DEF LoaderStep, LoaderMove, WalletsEnd, LoadSucceeds, LoadGetsError, NumberLearnt, AllAdded, WalletsCut, WalletsFail, LoadCancelled, WalletSent, FetchWalletTxs, VertexSent, WalletTxsCut, FetchFails, VertexAdded, LateRowAdded, Goes, NobodyIn, LeavesRows, LoadReturns
<1>2. ASSUME NEW n \in Nodes, StoreStep(n) PROVE KeptStore
  <2>1. CASE MemoryUpsertScores(n)
    BY <1>a, <1>2, <2>1, MemoryRows DEF MemoryUpsertScores
  <2>2. CASE UpsertScoresLosesError(n)
    BY <1>a, <2>2 DEF UpsertScoresLosesError
  <2>3. ASSUME NEW r \in toStore[n], BulkUpsertScores(n, r) PROVE KeptStore
    BY <1>a, <1>d, <2>3 DEF BulkUpsertScores
  <2>4. QED
    BY <1>2, <2>1, <2>2, <2>3 DEF StoreStep, StoreMove
<1>3. ASSUME NEW n \in Nodes, MonolithPassBegins(n) PROVE KeptStore
  BY <1>3, <1>a DEF MonolithPassBegins, PassBegins, LoadBegins
<1>4. ASSUME NEW n \in Nodes, MonolithLoaded(n) PROVE KeptStore
  BY <1>4, <1>a DEF MonolithLoaded, Executor, NewExecutor
<1>5. ASSUME NEW n \in Nodes, MonolithStores(n) PROVE KeptStore
  <2>1. at[n] = "run"
    BY <1>5, <1>a DEF MonolithStores
  <2>2. \A w \in VerticesOf(n) : [wallet |-> w, value |-> [pass |-> pass, value |-> vertex[n][w].value]] \in Row
    BY <1>c, <2>1 DEF VerticesOf
  <2>3. toStore' \in [Nodes -> SUBSET Row]
    <3> DEFINE R == {[wallet |-> w, value |-> [pass |-> pass, value |-> vertex[n][w].value]] : w \in VerticesOf(n)}
    <3>1. R \in SUBSET Row
      BY <2>2
    <3>2. toStore' = [toStore EXCEPT ![n] = R]
      BY <1>5 DEF MonolithStores, ScoresAll
    <3> HIDE DEF R
    <3>3. QED
      BY <1>a, <3>1, <3>2
  <2>4. QED
    BY <1>a, <2>3, <1>5 DEF MonolithStores
<1>6. ASSUME NEW n \in Nodes, MonolithPassCompletes(n) PROVE KeptStore
  BY <1>6, <1>a DEF MonolithPassCompletes, Reset
<1>7. ASSUME NEW n \in Nodes, MonolithFails(n) PROVE KeptStore
  BY <1>7, <1>a DEF MonolithFails
<1>8. ASSUME NEW n \in Nodes, ServiceStops(n) PROVE KeptStore
  BY <1>8, <1>a DEF ServiceStops
<1>9. ASSUME NEW n \in Nodes, ProcessEnds(n) PROVE KeptStore
  <2>1. CASE Cdb
    BY <1>9, <1>a, <2>1 DEF ProcessEnds
  <2>2. CASE ~Cdb
    <3>1. /\ score' = [w \in Wallets |-> NoScore] /\ scorer' = FALSE
          /\ search' = [search EXCEPT !.at = "shown", !.shown = 0]
          /\ UNCHANGED <<toStore, lateScores, disturbed>>
      BY <1>9, <2>2 DEF ProcessEnds
    <3>2. search' \in SearchRecord
      <4>1. search \in SearchRecord
        BY <1>a DEF SearchRecord
      <4> DEFINE a == [search EXCEPT !.at = "shown"]
      <4>2. a \in SearchRecord
        BY <4>1 DEF SearchRecord
      <4>3. search' = [a EXCEPT !.shown = 0]
        BY <3>1
      <4> HIDE DEF a
      <4>4. QED
        BY <4>2, <4>3 DEF SearchRecord
    <3>3. QED
      BY <1>a, <3>1, <3>2 DEF SearchRecord
  <2>3. QED
    BY <2>1, <2>2
<1>10. ASSUME NEW n \in Nodes, StartJob(n) PROVE KeptStore
  BY <1>10, <1>a DEF StartJob, Reset, LoadBegins
<1>11. ASSUME NEW n \in Nodes, WorkerLoaded(n) PROVE KeptStore
  BY <1>11, <1>a DEF WorkerLoaded, Executor, NewExecutor
<1>12. ASSUME NEW n \in Nodes, CompleteJob(n) PROVE KeptStore
  <2>1. at[n] = "run"
    BY <1>12, <1>a DEF CompleteJob
  <2>2. \A w \in VerticesOf(n) : [wallet |-> w, value |-> [pass |-> pass, value |-> vertex[n][w].value]] \in Row
    BY <1>c, <2>1 DEF VerticesOf
  <2>3. toStore' \in [Nodes -> SUBSET Row]
    <3> DEFINE R == {[wallet |-> w, value |-> [pass |-> pass, value |-> vertex[n][w].value]] : w \in VerticesOf(n)}
    <3>1. R \in SUBSET Row
      BY <2>2
    <3>2. toStore' = [toStore EXCEPT ![n] = R]
      BY <1>12 DEF CompleteJob, ScoresAll
    <3> HIDE DEF R
    <3>3. QED
      BY <1>a, <3>1, <3>2
  <2>4. QED
    BY <1>a, <2>3, <1>12 DEF CompleteJob
<1>13. ASSUME NEW n \in Nodes, ScoresPersisted(n) PROVE KeptStore
  BY <1>13, <1>a DEF ScoresPersisted, Reset
<1>14. ASSUME NEW n \in Nodes, WorkerFails(n) PROVE KeptStore
  BY <1>14, <1>a DEF WorkerFails, Reset
<1>15. ASSUME NEW n \in Nodes, AbortJob(n) PROVE KeptStore
  BY <1>15, <1>a DEF AbortJob, Reset
<1>16. ASSUME NEW n \in Nodes, GraphRuns(n) PROVE KeptStore
  BY <1>16, <1>a DEF GraphRuns
<1>17. ASSUME NEW n \in Nodes, StoreFails(n) PROVE KeptStore
  BY <1>17, <1>a DEF StoreFails, UnknownScorer, UpsertScoresFails
<1>18. ASSUME NEW n \in Nodes, WorkerCrashes(n) PROVE KeptStore
  BY <1>18, <1>a DEF WorkerCrashes, Reset, NobodyIn
<1>19. ASSUME NEW n \in Nodes \cup {Nobody}, NEW t \in Txs, Bounced(n, t) PROVE KeptStore
  BY <1>19, <1>a DEF Bounced, RelayBounces
<1>20. ASSUME JobBegins PROVE KeptStore
  BY <1>20, <1>a DEF JobBegins, PassBegins
<1>21. ASSUME GraphExecuted PROVE KeptStore
  BY <1>21, <1>a DEF GraphExecuted
<1>22. ASSUME JobEnds PROVE KeptStore
  BY <1>22, <1>a DEF JobEnds
<1>23. ASSUME Signal PROVE KeptStore
  BY <1>23, <1>a DEF Signal
<1>24. ASSUME JobCancelled PROVE KeptStore
  BY <1>24, <1>a DEF JobCancelled
<1>25. ASSUME GraphGrows PROVE KeptStore
  BY <1>25, <1>a DEF GraphGrows
<1>26. ASSUME OtherStoreCalls PROVE KeptStore
  <2>0. Cardinality(Scored) \in Nat
    BY FiniteWallets DEF Scored
  <2>1. CASE UpsertScorer
    BY <1>a, <2>1 DEF UpsertScorer
  <2>2. ASSUME NEW r \in lateScores, LateScoreStored(r) PROVE KeptStore
    BY <1>a, <1>d, <2>2 DEF LateScoreStored
  <2>3. CASE Searches
    <3>1. UNCHANGED <<scorer, score, toStore, lateScores, disturbed>>
      BY <2>3 DEF Searches, SearchCounts, SearchReads, MemorySearch, RunQuery, ResultsBreakOff, SearchBegins
    <3>2. search' \in [at : {"idle", "counted", "read", "shown"}, total : Nat, rows : Nat, shown : Nat]
      <4>1. CASE SearchCounts
        BY <2>0, <4>1, Numbered DEF SearchCounts, SearchRecord
      <4>2. CASE SearchReads
        BY <1>a, <2>0, <4>2 DEF SearchReads
      <4>3. CASE MemorySearch
        BY <2>0, <4>3, Numbered DEF MemorySearch, SearchRecord
      <4>4. CASE RunQuery
        BY <1>a, PageAssumption, <4>4 DEF RunQuery
      <4>5. CASE ResultsBreakOff
        <5>1. PICK k \in 0 .. search.rows - 1 : search' = [search EXCEPT !.at = "shown", !.shown = k]
          BY <4>5 DEF ResultsBreakOff
        <5>2. search \in SearchRecord /\ k \in Nat
          BY <1>a DEF SearchRecord
        <5>3. QED
          BY <5>1, <5>2 DEF SearchRecord
      <4>6. QED
        BY <2>3, <4>1, <4>2, <4>3, <4>4, <4>5 DEF Searches
    <3>3. QED
      BY <1>a, <3>1, <3>2
  <2>4. CASE StoreRestarts
    <3>1. search' \in SearchRecord
      BY <1>a, <2>4 DEF StoreRestarts, SearchRecord
    <3>2. QED
      BY <1>a, <2>4, <3>1 DEF StoreRestarts
  <2>5. QED
    BY <1>26, <2>1, <2>2, <2>3, <2>4 DEF OtherStoreCalls
<1>27. QED
  BY Moves, <1>0, <1>1, <1>2, <1>3, <1>4, <1>5, <1>6, <1>7, <1>8, <1>9, <1>10, <1>11, <1>12, <1>13, <1>14, <1>15, <1>16, <1>17, <1>18, <1>19, <1>20, <1>21, <1>22, <1>23, <1>24, <1>25, <1>26 DEF NodeMove, OtherMove

\* Every step keeps all types.
LEMMA KeepsTypes ==
  ASSUME Control, Next
  PROVE  Types'
  BY KeepsDeployment, KeepsPass, KeepsLoads, KeepsGraphs, KeepsScores DEF Control, Types

-----------------------------------------------------------------------------
\* Where each node is.

\* The monolith has one node.
LEMMA OneNode ==
  ASSUME Types, Monolith, NEW n \in dep.nodes, NEW m \in dep.nodes
  PROVE  n = m
<1>1. IsFiniteSet(dep.nodes)
  BY DeploymentsAssumption, FS_Subset DEF Types, DeploymentTypeOK
<1>2. PICK x : dep.nodes = {x}
  BY <1>1, FS_Singleton DEF Monolith
<1>3. QED
  BY <1>2

\* What is known of a node, a step of another one keeps.
LEMMA OtherBooks ==
  ASSUME Types, NEW n \in Nodes, NEW m \in Nodes \ {n}, NodeBooks(m), NodeFrame(n)
  PROVE  NodeBooks(m)'
<1>1. /\ Same(m) /\ dep' = dep /\ (aborted => aborted') /\ (Monolith' <=> Monolith) /\ (pass' = 0 => pass = 0)
  <2>1. pass \in Nat /\ Same(m) /\ dep' = dep /\ (aborted => aborted') /\ pass' \in {pass, pass + 1}
    BY DeploymentsAssumption DEF NodeFrame, Types, DeploymentTypeOK
  <2>2. Monolith' <=> Monolith
    BY <2>1 DEF Monolith
  <2>3. QED
    BY <2>1, <2>2
<1>2. ctx' = ctx \/ m \notin dep.nodes
  BY OneNode DEF NodeFrame
<1>3. QED
  BY <1>1, <1>2 DEF NodeBooks, Same, NoLoad

\* Where the executor of a graph goes, and what is left when it is not in a step.
GraphMove(n) ==
  \/ run[n] = "step" /\ run'[n] = "step" /\ (stepErr'[n] => stepErr[n] \/ Monolith)
  \/ run[n] # "step" /\ run'[n] = run[n] /\ feed'[n] = feed[n] /\ busy'[n] = busy[n] /\ stepErr'[n] = stepErr[n]
  \/ run[n] = "pre" /\ run'[n] = "err" /\ feed'[n] = feed[n] /\ busy'[n] = busy[n] /\ stepErr'[n] = stepErr[n]
  \/ run[n] = "pre" /\ run'[n] = "step" /\ stepErr'[n] = stepErr[n]
  \/ run[n] = "pre" /\ run'[n] = "post" /\ feed'[n] = {} /\ busy'[n] = busy[n] /\ stepErr'[n] = stepErr[n]
  \/ run[n] = "step" /\ run'[n] \in {"err", "post"} /\ feed'[n] = {} /\ busy'[n] = {} /\ ~stepErr'[n]
  \/ run[n] = "post" /\ run'[n] \in {"pre", "stop"} /\ feed'[n] = feed[n] /\ busy'[n] = busy[n]
     /\ stepErr'[n] = stepErr[n]

\* Every step of a graph is such a move.
LEMMA GraphMoves ==
  ASSUME Control, NEW n \in Nodes, GraphStep(n) \/ StepContextDone(n)
  PROVE  GraphMove(n)
<1>0. GraphTypes
  BY DEF Control, Types
<1> USE DEF GraphMove, GraphTypes, WorkerFinishes, InHand
<1>1. CASE StepContextDone(n) \/ StepBegins(n)
  BY <1>0, <1>1 DEF StepContextDone, StepBegins
<1>2. CASE StepCompletes(n)
  <2>1. Cardinality(feed[n] \cup busy[n]) = 0 /\ IsFiniteSet(feed[n] \cup busy[n])
    BY <1>2, StepNumbers, FiniteWallets DEF StepCompletes
  <2>2. feed[n] = {} /\ busy[n] = {}
    BY <2>1, FS_EmptySet
  <2>3. QED
    BY <1>0, <1>2, <2>2 DEF StepCompletes
<1>3. CASE StepEnds(n)
  <2>1. /\ run[n] = "post" /\ (run' = [run EXCEPT ![n] = "stop"] \/ run' = [run EXCEPT ![n] = "pre"])
        /\ UNCHANGED <<feed, busy, stepErr>>
    BY <1>3 DEF StepEnds
  <2>2. QED
    BY <1>0, <2>1
<1>4. ASSUME NEW w \in Wallets, WorkerTakes(n, w) \/ VertexSkipped(n, w) PROVE GraphMove(n)
  BY <1>0, <1>4 DEF WorkerTakes, VertexSkipped
<1>5. ASSUME NEW w \in Wallets, ComputeCounts(n, w) \/ ComputeSends(n, w) \/ ComputeAdds(n, w) PROVE GraphMove(n)
  <2>1. run[n] = "step" /\ UNCHANGED <<run, stepErr>>
    BY <1>5 DEF ComputeCounts, ComputeSends, ComputeAdds
  <2>2. QED
    BY <1>0, <2>1
<1>6. ASSUME NEW w \in Wallets, ComputeFails(n, w) PROVE GraphMove(n)
  <2>1. run[n] = "step" /\ UNCHANGED run /\ Monolith
    BY <1>6 DEF ComputeFails
  <2>2. QED
    BY <1>0, <2>1
<1>7. ASSUME NEW t \in Txs, RelayDelivered(n, t) PROVE GraphMove(n)
  <2>1. run[n] # "step" \/ run[n] = "step"
    OBVIOUS
  <2>2. UNCHANGED <<run, feed, busy, stepErr>>
    BY <1>7 DEF RelayDelivered
  <2>3. QED
    BY <1>0, <2>1, <2>2
<1>8. QED
  BY <1>1, <1>2, <1>3, <1>4, <1>5, <1>6, <1>7 DEF GraphStep

\* A load is cancelled only with the service.
LEMMA LoadMoves ==
  ASSUME Control, NEW n \in Nodes, at[n] = "load", LoaderMove(n)
  PROVE  load'[n].at # "off" /\ (load'[n].at = "cancelled" => Monolith /\ ctx = "done")
<1>1. /\ load[n].at # "off" /\ (load[n].at = "cancelled" => Monolith /\ ctx = "done")
      /\ load \in [Nodes -> LoadRecord] /\ load[n] \in LoadRecord
  BY LoadFacts DEF Control, PlaceBooks, NodeBooks
<1>2. ASSUME LoadReturns(n, "ok") \/ LoadReturns(n, "err") \/ WalletsFail(n)
      PROVE  load'[n].at # "off" /\ load'[n].at # "cancelled"
  BY <1>1, <1>2 DEF LoadReturns, WalletsFail, NoLoad
<1>3. ASSUME LoadReturns(n, "cancelled") PROVE load'[n].at = "cancelled"
  BY <1>1, <1>3 DEF LoadReturns, NoLoad
<1>4. CASE WalletsEnd(n) \/ NumberLearnt(n) \/ AllAdded(n) \/ WalletsCut(n)
  BY <1>1, <1>4 DEF WalletsEnd, NumberLearnt, AllAdded, WalletsCut, LoadRecord
<1>5. ASSUME NEW w \in Wallets,
             \/ WalletSent(n, w) \/ FetchWalletTxs(n, w) \/ VertexSent(n, w)
             \/ WalletTxsCut(n, w) \/ FetchFails(n, w) \/ VertexAdded(n, w)
      PROVE  load'[n].at = load[n].at
  BY <1>1, <1>5 DEF WalletSent, FetchWalletTxs, VertexSent, WalletTxsCut, FetchFails, VertexAdded, LoadRecord
<1>6. ASSUME NEW r \in left[n], LateRowAdded(n, r) PROVE load'[n].at = load[n].at
  BY <1>6 DEF LateRowAdded
<1>7. QED
  BY <1>1, <1>2, <1>3, <1>4, <1>5, <1>6 DEF LoaderMove, LoadSucceeds, LoadGetsError, LoadCancelled

\* A node's own steps keep what is known of it.
LEMMA OwnBooks ==
  ASSUME Control, Types', dep' = dep, pass' \in {pass, pass + 1}, NEW n \in Nodes, NodeMove(n)
  PROVE  NodeBooks(n)'
<1>0. /\ NodeBooks(n) /\ (Monolith' <=> Monolith) /\ pass \in Nat
      /\ load \in [Nodes -> LoadRecord] /\ dep.nodes \subseteq Nodes
  BY DeploymentsAssumption DEF Control, Types, DeploymentTypeOK, PlaceBooks, Monolith, LoadTypeOK, LoadRecord
<1>01. Types /\ NoLoad.at = "off" /\ JobBooks
  BY DEF Control, NoLoad, PlaceBooks
<1> USE DEF deployment, tables, history, scoreVars, loadVars, passVars, graphVars, Goto, Mine, Working, Is, NodeBooks, Types, PassTypes, GraphTypes, StoreTypes
<1>1. ASSUME LoaderStep(n) PROVE NodeBooks(n)'
  <2>1. /\ at[n] = "load" /\ at'[n] = "load" /\ n \in dep.nodes /\ UNCHANGED <<pass, ctx, aborted, at, run, superstep, feed, busy, stepErr, toStore>>
    BY <1>1 DEF LoaderStep
  <2>2. load'[n].at # "off" /\ (load'[n].at = "cancelled" => Monolith /\ ctx = "done")
    BY <2>1, <1>1, LoadMoves DEF LoaderStep
  <2>3. QED
    BY <2>1, <2>2, <1>0, <1>01
<1>2. ASSUME StoreStep(n) PROVE NodeBooks(n)'
  BY <1>2, <1>0, <1>01 DEF StoreStep, StoreMove, MemoryUpsertScores, UpsertScoresLosesError, BulkUpsertScores
<1>3. ASSUME MonolithPassBegins(n) PROVE NodeBooks(n)'
  BY <1>3, <1>0, <1>01 DEF MonolithPassBegins, PassBegins, LoadBegins
<1>4. ASSUME MonolithLoaded(n) PROVE NodeBooks(n)'
  <2>1. /\ at[n] = "load" /\ n \in dep.nodes /\ load'[n] = NoLoad /\ UNCHANGED <<pass, ctx, aborted, toStore, vertex, feed, busy, stepErr>>
        /\ \/ at'[n] = "idle" /\ run' = run /\ superstep' = superstep
           \/ at'[n] = "run" /\ run'[n] = "pre" /\ superstep'[n] = 0
    BY <1>4, <1>0, <1>01 DEF MonolithLoaded, Executor, NewExecutor
  <2>2. QED
    BY <2>1, <1>0, <1>01
<1>5. ASSUME MonolithStores(n) PROVE NodeBooks(n)'
  BY <1>5, <1>0, <1>01 DEF MonolithStores, ScoresAll
<1>6. ASSUME MonolithPassCompletes(n) PROVE NodeBooks(n)'
  BY <1>6, <1>0, <1>01 DEF MonolithPassCompletes, Reset
<1>7. ASSUME MonolithFails(n) PROVE NodeBooks(n)'
  <2>1. /\ Monolith /\ n \in dep.nodes /\ at'[n] = "returned" /\ ctx' = "done"
        /\ UNCHANGED <<pass, aborted, toStore, vertex, feed, busy, stepErr, load, run, superstep>>
        /\ \/ at[n] = "load" /\ load[n].at = "err"
           \/ at[n] = "run" /\ run[n] = "err"
           \/ at[n] = "failed"
    BY <1>7, <1>0, <1>01 DEF MonolithFails
  <2>2. QED
    BY <2>1, <1>0, <1>01
<1>8. ASSUME ServiceStops(n) PROVE NodeBooks(n)'
  BY <1>8, <1>0, <1>01 DEF ServiceStops
<1>9. ASSUME ProcessEnds(n) PROVE NodeBooks(n)'
  <2>1. /\ Monolith /\ n \in dep.nodes /\ at[n] = "returned" /\ at'[n] = "idle" /\ ctx' = "live" /\ load'[n] = NoLoad
        /\ run'[n] = "off" /\ superstep'[n] = 0
        /\ UNCHANGED <<pass, aborted, toStore, feed, busy, stepErr>>
    BY <1>9, <1>0, <1>01 DEF ProcessEnds, Reset
  <2>2. QED
    BY <2>1, <1>0, <1>01
<1>10. ASSUME StartJob(n) PROVE NodeBooks(n)'
  BY <1>10, <1>0, <1>01 DEF StartJob, Reset, LoadBegins
<1>11. ASSUME WorkerLoaded(n) PROVE NodeBooks(n)'
  <2>1. /\ at[n] = "load" /\ n \in dep.nodes /\ load'[n] = NoLoad /\ UNCHANGED <<pass, ctx, aborted, toStore, vertex, feed, busy, stepErr>>
        /\ at'[n] = "run" /\ run'[n] = "pre" /\ superstep'[n] = 0
    BY <1>11, <1>0, <1>01 DEF WorkerLoaded, Executor, NewExecutor
  <2>2. QED
    BY <2>1, <1>0, <1>01
<1>12. ASSUME CompleteJob(n) PROVE NodeBooks(n)'
  <2>1. /\ ~Monolith /\ n \in dep.nodes /\ at[n] = "run" /\ at'[n] = "store" /\ job = "executed"
        /\ UNCHANGED <<pass, aborted, ctx, feed, busy, stepErr, run, superstep, load>>
    BY <1>12, <1>0, <1>01 DEF CompleteJob
  <2>2. run[n] = "stop"
    BY <2>1, <1>01 DEF JobBooks
  <2>3. QED
    BY <2>1, <2>2, <1>0, <1>01
<1>13. ASSUME ScoresPersisted(n) PROVE NodeBooks(n)'
  BY <1>13, <1>0, <1>01 DEF ScoresPersisted, Reset
<1>14. ASSUME WorkerFails(n) PROVE NodeBooks(n)'
  <2>1. /\ ~Monolith /\ n \in dep.nodes /\ at[n] \in {"load", "failed"} /\ at'[n] = "gone" /\ load'[n] = NoLoad
        /\ aborted' /\ run'[n] = "off" /\ superstep'[n] = 0
        /\ UNCHANGED <<pass, ctx, feed, busy, stepErr, toStore>>
    BY <1>14, <1>0, <1>01 DEF WorkerFails, Reset
  <2>2. QED
    BY <2>1, <1>0, <1>01
<1>15. ASSUME AbortJob(n) PROVE NodeBooks(n)'
  BY <1>15, <1>0, <1>01 DEF AbortJob, Reset
<1>16. ASSUME GraphRuns(n) PROVE NodeBooks(n)'
  <2>1. /\ at[n] = "run" /\ n \in dep.nodes /\ UNCHANGED <<pass, ctx, aborted, at, load, toStore>>
        /\ GraphStep(n) \/ StepContextDone(n)
    BY <1>16 DEF GraphRuns
  <2>2. GraphMove(n)
    BY <2>1, GraphMoves
  <2>3. QED
    BY <1>0, <1>01, <2>1, <2>2, StepVertices DEF NodeBooks, GraphMove
<1>17. ASSUME StoreFails(n) PROVE NodeBooks(n)'
  BY <1>17, <1>0, <1>01 DEF StoreFails, UnknownScorer, UpsertScoresFails
<1>18. ASSUME WorkerCrashes(n) PROVE NodeBooks(n)'
  <2>1. /\ ~Monolith /\ at[n] \in {"load", "run", "store", "persisted"} /\ at'[n] = "gone" /\ load'[n] = NoLoad
        /\ aborted' /\ run'[n] = "off" /\ superstep'[n] = 0 /\ feed'[n] = {} /\ busy'[n] = {} /\ stepErr'[n] = FALSE
        /\ toStore'[n] = {} /\ UNCHANGED <<pass, ctx>>
    BY <1>18, <1>0, <1>01 DEF WorkerCrashes, Reset
  <2>2. QED
    BY <2>1, <1>0, <1>01
<1>19. QED
  BY <1>1, <1>2, <1>3, <1>4, <1>5, <1>6, <1>7, <1>8, <1>9, <1>10, <1>11, <1>12, <1>13, <1>14, <1>15, <1>16, <1>17, <1>18 DEF NodeMove

-----------------------------------------------------------------------------
\* Where the job is.

\* So do the steps of the job, of the scanner and of the store.
LEMMA PlacesOfOthers ==
  ASSUME Control, Types', dep' = dep, pass' \in {pass, pass + 1}, OtherMove
  PROVE  \A n \in Nodes : NodeBooks(n)'
<1> SUFFICES ASSUME NEW m \in Nodes PROVE NodeBooks(m)'
  OBVIOUS
<1>0. /\ NodeBooks(m) /\ (Monolith' <=> Monolith) /\ pass \in Nat /\ NoLoad.at = "off" /\ JobBooks
      /\ load \in [Nodes -> LoadRecord] /\ dep.nodes \subseteq Nodes /\ Types /\ PassTypes /\ GraphTypes
  BY DeploymentsAssumption DEF Control, Types, DeploymentTypeOK, PlaceBooks, Monolith, LoadTypeOK, LoadRecord, NoLoad
<1> USE DEF deployment, tables, history, scoreVars, loadVars, passVars, graphVars, Goto, Mine, Working, Is, NodeBooks, PassTypes, Types
<1>1. ASSUME NEW n \in Nodes \cup {Nobody}, NEW t \in Txs, Bounced(n, t) PROVE NodeBooks(m)'
  BY <1>1, <1>0 DEF Bounced, RelayBounces
<1>2. ASSUME JobBegins PROVE NodeBooks(m)'
  BY <1>2, <1>0 DEF JobBegins, PassBegins, JobBooks
<1>3. ASSUME GraphExecuted PROVE NodeBooks(m)'
  BY <1>3, <1>0 DEF GraphExecuted
<1>4. ASSUME JobEnds PROVE NodeBooks(m)'
  BY <1>4, <1>0 DEF JobEnds
<1>5. ASSUME Signal PROVE NodeBooks(m)'
  BY <1>5, <1>0 DEF Signal
<1>6. ASSUME JobCancelled PROVE NodeBooks(m)'
  BY <1>6, <1>0 DEF JobCancelled
<1>7. ASSUME GraphGrows PROVE NodeBooks(m)'
  BY <1>7, <1>0 DEF GraphGrows
<1>8. ASSUME OtherStoreCalls PROVE NodeBooks(m)'
  <2>1. UNCHANGED <<toStore, pass, graphVars, loadVars, passVars>>
    BY <1>8 DEF OtherStoreCalls, UpsertScorer, Searches, SearchCounts, SearchReads, MemorySearch, RunQuery, ResultsBreakOff, SearchBegins, LateScoreStored, StoreRestarts
  <2>2. QED
    BY <2>1, <1>0
<1>9. QED
  BY <1>1, <1>2, <1>3, <1>4, <1>5, <1>6, <1>7, <1>8 DEF OtherMove

\* Every step keeps what is known of the job.
LEMMA KeepsJob ==
  ASSUME Control, Next
  PROVE  JobBooks'
<1>0. /\ JobBooks /\ (Monolith' <=> Monolith) /\ dep' = dep /\ dep.nodes \subseteq Nodes /\ Types /\ PassTypes /\ GraphTypes
      /\ \A n \in Nodes : NodeBooks(n)
  BY DeploymentsAssumption, KeepsDeployment DEF Control, Types, DeploymentTypeOK, PlaceBooks, Monolith
<1>1. ASSUME NEW n \in Nodes, NodeMove(n) PROVE NodeFrame(n)
  BY <1>0, <1>1, OtherNodes
<1>2. ASSUME NEW n \in Nodes, NodeMove(n),
             UNCHANGED <<at, run, superstep, relay, aborted>>
      PROVE  JobBooks'
  BY <1>0, <1>1, <1>2 DEF JobBooks, Loading, NodeFrame
<1> USE DEF deployment, tables, history, scoreVars, loadVars, passVars, graphVars, Goto, Mine, Working, Is, NodeBooks, PassTypes, GraphTypes, JobBooks, Loading, NodeFrame, Same
<1>3. ASSUME NEW n \in Nodes, LoaderStep(n) PROVE JobBooks'
  BY <1>0, <1>1, <1>2, <1>3 DEF NodeMove, LoaderStep
<1>4. ASSUME NEW n \in Nodes, StoreStep(n) PROVE JobBooks'
  BY <1>0, <1>1, <1>2, <1>4 DEF NodeMove, StoreStep
<1>5. ASSUME NEW n \in Nodes, MonolithPassBegins(n) PROVE JobBooks'
  <2>1. /\ Monolith /\ n \in dep.nodes /\ at[n] = "idle" /\ at'[n] = "load" /\ UNCHANGED <<run, superstep, relay, aborted, job>>
    BY <1>5, <1>0 DEF MonolithPassBegins
  <2>2. \A m \in dep.nodes : m = n
    BY <2>1, <1>0, OneNode
  <2>3. job = "off" /\ ~aborted /\ relay = {} /\ run[n] = "off" /\ superstep[n] = 0
    BY <2>1, <1>0
  <2>4. QED
    BY <2>1, <2>2, <2>3, <1>0
<1>6. ASSUME NEW n \in Nodes, MonolithLoaded(n) PROVE JobBooks'
  <2>1. /\ Monolith /\ n \in dep.nodes /\ at[n] = "load" /\ at'[n] \in {"idle", "run"} /\ UNCHANGED <<relay, aborted, job>>
    BY <1>6, <1>0 DEF MonolithLoaded, Executor, NewExecutor
  <2>2. \A m \in dep.nodes : m = n
    BY <2>1, <1>0, OneNode
  <2>3. job = "off" /\ ~aborted /\ relay = {}
    BY <2>1, <1>0
  <2>4. QED
    BY <2>1, <2>2, <2>3, <1>0
<1>7. ASSUME NEW n \in Nodes, MonolithStores(n) PROVE JobBooks'
  BY <1>7, <1>0, <1>1 DEF MonolithStores, ScoresAll
<1>8. ASSUME NEW n \in Nodes, MonolithPassCompletes(n) PROVE JobBooks'
  BY <1>8, <1>0, <1>1 DEF MonolithPassCompletes, Reset
<1>9. ASSUME NEW n \in Nodes, MonolithFails(n) PROVE JobBooks'
  BY <1>9, <1>0, <1>1 DEF MonolithFails
<1>10. ASSUME NEW n \in Nodes, ServiceStops(n) PROVE JobBooks'
  BY <1>10, <1>0, <1>1 DEF ServiceStops
<1>11. ASSUME NEW n \in Nodes, ProcessEnds(n) PROVE JobBooks'
  BY <1>11, <1>0, <1>1 DEF ProcessEnds, Reset
<1>12. ASSUME NEW n \in Nodes, StartJob(n) PROVE JobBooks'
  BY <1>12, <1>0, <1>1 DEF StartJob, Reset, LoadBegins
<1>13. ASSUME NEW n \in Nodes, WorkerLoaded(n) PROVE JobBooks'
  BY <1>13, <1>0, <1>1 DEF WorkerLoaded, Executor, NewExecutor
<1>14. ASSUME NEW n \in Nodes, CompleteJob(n) PROVE JobBooks'
  BY <1>14, <1>0, <1>1 DEF CompleteJob, ScoresAll
<1>15. ASSUME NEW n \in Nodes, ScoresPersisted(n) PROVE JobBooks'
  BY <1>15, <1>0, <1>1 DEF ScoresPersisted, Reset
<1>16. ASSUME NEW n \in Nodes, WorkerFails(n) PROVE JobBooks'
  BY <1>16, <1>0, <1>1 DEF WorkerFails, Reset
<1>17. ASSUME NEW n \in Nodes, AbortJob(n) PROVE JobBooks'
  <2>1. /\ ~Monolith /\ n \in dep.nodes /\ at[n] \in {"start", "persisted", "run"} /\ at'[n] = "gone"
        /\ aborted /\ run'[n] = "off" /\ superstep'[n] = 0 /\ UNCHANGED <<relay, aborted, job>>
    BY <1>17, <1>0 DEF AbortJob, Reset
  <2>2. \A m \in Nodes \ {n} : at'[m] = at[m] /\ run'[m] = run[m] /\ superstep'[m] = superstep[m]
    BY <1>17, <1>1 DEF NodeMove
  <2>3. Loading' => Loading
    BY <2>1, <2>2, <1>0
  <2>4. JobBooks
    BY <1>0
  <2>5. \A m \in dep.nodes \ {n} : at'[m] = at[m] /\ run'[m] = run[m] /\ superstep'[m] = superstep[m]
    BY <2>2, <1>0
  <2>6. dep' = dep /\ (Monolith' <=> Monolith)
    BY <1>0
  <2>7. QED
    BY <2>1, <2>3, <2>4, <2>5, <2>6 DEF JobBooks
<1>18. ASSUME NEW n \in Nodes, GraphRuns(n) PROVE JobBooks'
  <2> HIDE DEF NodeBooks, PassTypes, GraphTypes, JobBooks, Loading, NodeFrame, Same
  <2>1. /\ GraphMove(n) /\ at[n] = "run" /\ UNCHANGED <<at, aborted, ctx, job>> /\ n \in dep.nodes
        /\ GraphStep(n) \/ StepContextDone(n)
    BY <1>18, GraphMoves DEF GraphRuns
  <2>2. NodeFrame(n)
    BY <1>18, <1>1 DEF NodeMove
  <2>0. NodeBooks(n) /\ JobBooks /\ run[n] # "off"
    <3>1. NodeBooks(n) /\ JobBooks
      BY <1>0
    <3>2. QED
      BY <2>1, <3>1 DEF NodeBooks
  <2>3. job # "executed" \/ Monolith
    <3>1. ~Monolith /\ job = "executed" => run[n] = "stop"
      BY <2>0, <2>1 DEF JobBooks
    <3>2. run[n] # "stop"
      BY <2>1 DEF GraphStep, StepContextDone, StepBegins, StepCompletes, StepEnds, WorkerTakes,
        VertexSkipped, ComputeCounts, ComputeSends, ComputeFails, ComputeAdds, InHand, RelayDelivered
    <3>3. QED
      BY <3>1, <3>2
  <2>4. Loading => /\ run[n] # "step" /\ relay = {}
                   /\ (\E m \in dep.nodes : run[m] = "off" /\ superstep[m] = 0)
                   /\ superstep[n] = 0 /\ run[n] \in {"pre", "err"}
    <3>1. SUFFICES ASSUME Loading PROVE relay = {} /\ superstep[n] = 0 /\ run[n] \in {"pre", "err"}
                   /\ (\E m \in dep.nodes : run[m] = "off" /\ superstep[m] = 0)
      OBVIOUS
    <3>2. relay = {} /\ superstep[n] = 0 /\ run[n] \in {"pre", "err"}
      BY <2>0, <2>1, <3>1 DEF JobBooks
    <3>3. PICK m \in dep.nodes : at[m] \in {"start", "load"}
      BY <3>1 DEF Loading
    <3>4. m \in Nodes /\ NodeBooks(m)
      BY <1>0
    <3>5. run[m] = "off" /\ superstep[m] = 0
      BY <3>3, <3>4 DEF NodeBooks
    <3>6. QED
      BY <3>2, <3>5
  <2>5. Loading => StepContextDone(n)
    BY <2>1, <2>4 DEF GraphStep, StepBegins, StepCompletes, StepEnds, WorkerTakes, LeftStep,
      VertexSkipped, ComputeCounts, ComputeSends, ComputeFails, ComputeAdds, InHand, RelayDelivered
  <2>6. Loading => relay' = {} /\ superstep' = superstep /\ run'[n] = "err"
    <3>1. StepContextDone(n) => UNCHANGED <<relay, superstep>> /\ (run[n] = "pre" => run'[n] = "err")
      BY <1>0 DEF StepContextDone, GraphTypes
    <3>2. StepContextDone(n) => run[n] = "pre"
      BY DEF StepContextDone
    <3>3. QED
      BY <2>4, <2>5, <3>1, <3>2
  <2>7. job = "off" => ~aborted' /\ relay' = {}
    <3>1. SUFFICES ASSUME job = "off" PROVE ~aborted' /\ relay' = {}
      OBVIOUS
    <3>2. Monolith /\ relay = {} /\ ~aborted'
      <4>1. at[n] # "idle"
        BY <2>1
      <4>2. QED
        BY <2>0, <2>1, <3>1, <4>1 DEF JobBooks
    <3>3. ASSUME NEW w \in Wallets, ComputeSends(n, w) PROVE relay' = {}
      BY <3>2, <3>3 DEF ComputeSends
    <3>4. ASSUME NEW t \in Txs PROVE ~RelayDelivered(n, t)
      BY <3>2 DEF RelayDelivered
    <3>5. QED
      BY <2>1, <3>2, <3>3, <3>4 DEF GraphStep, StepContextDone, StepBegins, StepCompletes, StepEnds, WorkerTakes,
        VertexSkipped, ComputeCounts, ComputeFails, ComputeAdds
  <2>8. QED
    <3>1. Loading' <=> Loading
      BY <2>1, <1>0 DEF Loading
    <3>2. \A m \in dep.nodes \ {n} : at'[m] = at[m] /\ run'[m] = run[m] /\ superstep'[m] = superstep[m]
      BY <2>2, <1>0 DEF NodeFrame, Same
    <3>3. dep' = dep /\ (Monolith' <=> Monolith)
      BY <1>0
    <3>4. QED
      BY <2>0, <2>1, <2>3, <2>4, <2>6, <2>7, <3>1, <3>2, <3>3 DEF JobBooks
<1>19. ASSUME NEW n \in Nodes, StoreFails(n) PROVE JobBooks'
  BY <1>19, <1>0, <1>1 DEF StoreFails, UnknownScorer, UpsertScoresFails
<1>20. ASSUME NEW n \in Nodes, WorkerCrashes(n) PROVE JobBooks'
  <2>1. /\ ~Monolith /\ n \in dep.nodes /\ at[n] \in {"load", "run", "store", "persisted"} /\ at'[n] = "gone"
        /\ aborted' /\ run'[n] = "off" /\ superstep'[n] = 0 /\ UNCHANGED <<relay, job>>
    BY <1>20, <1>0 DEF WorkerCrashes, Reset
  <2>2. \A m \in Nodes \ {n} : at'[m] = at[m] /\ run'[m] = run[m] /\ superstep'[m] = superstep[m]
    BY <1>20, <1>1 DEF NodeMove
  <2>3. Loading' => Loading
    BY <2>1, <2>2, <1>0
  <2>4. job # "off"
    BY <2>1, <1>0
  <2>5. JobBooks
    BY <1>0
  <2>6. \A m \in dep.nodes \ {n} : at'[m] = at[m] /\ run'[m] = run[m] /\ superstep'[m] = superstep[m]
    BY <2>2, <1>0
  <2>7. dep' = dep /\ (Monolith' <=> Monolith)
    BY <1>0
  <2>8. QED
    BY <2>1, <2>3, <2>4, <2>5, <2>6, <2>7 DEF JobBooks
<1>21. ASSUME NEW n \in Nodes \cup {Nobody}, NEW t \in Txs, Bounced(n, t) PROVE JobBooks'
  BY <1>21, <1>0 DEF Bounced, RelayBounces
<1>22. ASSUME JobBegins PROVE JobBooks'
  BY <1>22, <1>0 DEF JobBegins, PassBegins
<1>23. ASSUME GraphExecuted PROVE JobBooks'
  BY <1>23, <1>0 DEF GraphExecuted
<1>24. ASSUME JobEnds PROVE JobBooks'
  BY <1>24, <1>0 DEF JobEnds
<1>25. ASSUME Signal PROVE JobBooks'
  BY <1>25, <1>0 DEF Signal
<1>26. ASSUME JobCancelled PROVE JobBooks'
  BY <1>26, <1>0 DEF JobCancelled
<1>27. ASSUME GraphGrows PROVE JobBooks'
  BY <1>27, <1>0 DEF GraphGrows
<1>28. ASSUME OtherStoreCalls PROVE JobBooks'
  BY <1>28, <1>0 DEF OtherStoreCalls
<1>29. QED
  BY Moves, <1>3, <1>4, <1>5, <1>6, <1>7, <1>8, <1>9, <1>10, <1>11, <1>12, <1>13, <1>14, <1>15, <1>16, <1>17, <1>18, <1>19, <1>20, <1>21, <1>22, <1>23, <1>24, <1>25, <1>26, <1>27, <1>28 DEF NodeMove, OtherMove

-----------------------------------------------------------------------------
\* The books of the graphs.

\* Every step keeps what is known of nodes and of the job.
LEMMA KeepsPlaceBooks ==
  ASSUME Control, Next
  PROVE  PlaceBooks'
<1>1. Types /\ dep' = dep /\ pass' \in {pass, pass + 1} /\ Types' /\ JobBooks' /\ \A n \in Nodes : NodeBooks(n)
  BY KeepsDeployment, KeepsTypes, KeepsJob DEF Control, PlaceBooks
<1>2. ASSUME NEW n \in Nodes, NodeMove(n), NEW m \in Nodes PROVE NodeBooks(m)'
  <2>1. NodeFrame(n)
    BY <1>1, <1>2, OtherNodes
  <2>2. CASE m = n
    BY <1>1, <1>2, <2>2, OwnBooks
  <2>3. CASE m # n
    BY <1>1, <1>2, <2>1, <2>3, OtherBooks
  <2>4. QED
    BY <2>2, <2>3
<1>3. QED
  BY <1>1, <1>2, Moves, PlacesOfOthers DEF PlaceBooks

\* What the books of a graph say of its node.
BooksOf(n) == LoadBooks(n) /\ StepBooks(n) /\ \A w \in Wallets : VertexBooks(n, w)

\* Steps that the books of a graph do not see.
LEMMA BooksFrame ==
  ASSUME NEW m \in Nodes, BooksOf(m), dep' = dep, vertex'[m] = vertex[m], run'[m] = run[m],
         feed'[m] = feed[m], busy'[m] = busy[m], pending'[m] = pending[m], activeIn'[m] = activeIn[m],
         load'[m] = load[m], where'[m] = where[m], got'[m] = got[m], left'[m] = left[m],
         LET Quiet == {"idle", "start", "load", "gone", "persisted"}
         IN at'[m] \in Quiet => at[m] \in Quiet
  PROVE  BooksOf(m)'
<1>1. In(m, "todo")' = In(m, "todo") /\ In(m, "fetch")' = In(m, "fetch")
      /\ In(m, "added")' = In(m, "added") /\ Under(m)' = Under(m)
  BY DEF In, Under
<1>2. LoadBooks(m)'
  BY <1>1 DEF BooksOf, LoadBooks
<1>3. StepBooks(m)'
  BY DEF BooksOf, StepBooks, VerticesOf
<1>4. ASSUME NEW w \in Wallets PROVE VertexBooks(m, w)'
  <2>1. Within(m, w)' <=> Within(m, w)
    BY DEF Within, Extents, PartitionOf
  <2>2. QED
    BY <2>1 DEF BooksOf, VertexBooks
<1>5. QED
  BY <1>2, <1>3, <1>4 DEF BooksOf

\* A load that is not under way leaves its books closed.
LEMMA RestingLoad ==
  ASSUME NEW n \in Nodes, LoadBooks(n), load[n].at \notin {"iterate", "wait"},
         load'[n] = load[n] \/ load'[n] = NoLoad, where'[n] = where[n]
  PROVE  LoadBooks(n)'
<1>1. load[n] = [NoLoad EXCEPT !.at = load[n].at] /\ \A w \in Wallets : where[n][w] = "none"
  BY DEF LoadBooks
<1>2. NoLoad = [NoLoad EXCEPT !.at = "off"] /\ NoLoad.at = "off"
  BY DEF NoLoad
<1>3. QED
  BY <1>1, <1>2 DEF LoadBooks

\* A node that does not load has no load under way.
LEMMA NotLoading ==
  ASSUME Control, NEW n \in Nodes, at[n] # "load"
  PROVE  LoadBooks(n) /\ load[n].at \notin {"iterate", "wait"}
  BY DEF Control, PlaceBooks, NodeBooks, GraphBooks, NoLoad

\* A node's own steps keep the books of its load.
LEMMA KeepsLoadBooks ==
  ASSUME Control, NEW n \in Nodes, NodeMove(n)
  PROVE  LoadBooks(n)'
<1>0. /\ dep' = dep /\ Types /\ UNCHANGED wallet /\ load \in [Nodes -> LoadRecord]
      /\ LoadBooks(n) /\ (at[n] # "load" => load[n].at \notin {"iterate", "wait"})
      /\ where \in [Nodes -> [Wallets -> Places]]
  BY OtherNodes, NotLoading, LoadFacts DEF NodeFrame, Control, tables
<1>01. ASSUME at[n] # "load", load'[n] = load[n] \/ load'[n] = NoLoad, where'[n] = where[n]
       PROVE  LoadBooks(n)'
  BY <1>0, <1>01, RestingLoad
<1> USE DEF deployment, tables, history, scoreVars, loadVars, passVars, graphVars, Goto, Mine, Working, Is
<1>1. ASSUME LoaderStep(n) PROVE LoadBooks(n)'
  BY <1>1, LoaderKept DEF LoaderKeeps
<1>2. ASSUME StoreStep(n) PROVE LoadBooks(n)'
  BY <1>2, <1>0, <1>01 DEF StoreStep, StoreMove, MemoryUpsertScores, UpsertScoresLosesError, BulkUpsertScores
<1>3. ASSUME MonolithPassBegins(n) PROVE LoadBooks(n)'
  BY <1>3, <1>0, BeginsToLoad DEF LoaderKeeps, MonolithPassBegins
<1>4. ASSUME MonolithLoaded(n) PROVE LoadBooks(n)'
  <2>1. load'[n] = NoLoad /\ where'[n] = where[n] /\ load[n].at \in {"ok", "cancelled"}
    BY <1>4, <1>0 DEF MonolithLoaded
  <2>2. QED
    BY <2>1, <1>0, RestingLoad
<1>5. ASSUME MonolithStores(n) PROVE LoadBooks(n)'
  BY <1>5, <1>0, <1>01 DEF MonolithStores, ScoresAll
<1>6. ASSUME MonolithPassCompletes(n) PROVE LoadBooks(n)'
  BY <1>6, <1>0, <1>01 DEF MonolithPassCompletes, Reset
<1>7. ASSUME MonolithFails(n) PROVE LoadBooks(n)'
  <2>1. load'[n] = load[n] /\ where'[n] = where[n] /\ (at[n] # "load" \/ load[n].at = "err")
    BY <1>7, <1>0 DEF MonolithFails
  <2>2. QED
    BY <2>1, <1>0, RestingLoad
<1>8. ASSUME ServiceStops(n) PROVE LoadBooks(n)'
  BY <1>8, <1>0, <1>01 DEF ServiceStops
<1>9. ASSUME ProcessEnds(n) PROVE LoadBooks(n)'
  BY <1>9, <1>0, <1>01 DEF ProcessEnds, Reset
<1>10. ASSUME StartJob(n) PROVE LoadBooks(n)'
  BY <1>10, <1>0, BeginsToLoad DEF LoaderKeeps, StartJob
<1>11. ASSUME WorkerLoaded(n) PROVE LoadBooks(n)'
  <2>1. load'[n] = NoLoad /\ where'[n] = where[n] /\ load[n].at \in {"ok", "cancelled"}
    BY <1>11, <1>0 DEF WorkerLoaded
  <2>2. QED
    BY <2>1, <1>0, RestingLoad
<1>12. ASSUME CompleteJob(n) PROVE LoadBooks(n)'
  BY <1>12, <1>0, <1>01 DEF CompleteJob, ScoresAll
<1>13. ASSUME ScoresPersisted(n) PROVE LoadBooks(n)'
  BY <1>13, <1>0, <1>01 DEF ScoresPersisted, Reset
<1>14. ASSUME WorkerFails(n) PROVE LoadBooks(n)'
  <2>1. load'[n] = NoLoad /\ where'[n] = where[n] /\ (at[n] # "load" \/ load[n].at = "err")
    BY <1>14, <1>0 DEF WorkerFails
  <2>2. QED
    BY <2>1, <1>0, RestingLoad
<1>15. ASSUME AbortJob(n) PROVE LoadBooks(n)'
  BY <1>15, <1>0, <1>01 DEF AbortJob, Reset
<1>16. ASSUME GraphRuns(n) PROVE LoadBooks(n)'
  BY <1>16, <1>0, <1>01 DEF GraphRuns
<1>17. ASSUME StoreFails(n) PROVE LoadBooks(n)'
  BY <1>17, <1>0, <1>01 DEF StoreFails, UnknownScorer, UpsertScoresFails
<1>18. ASSUME WorkerCrashes(n) PROVE LoadBooks(n)'
  <2>1. load'[n] = NoLoad /\ \A w \in Wallets : where'[n][w] = "none"
    BY <1>18, <1>0 DEF WorkerCrashes, NobodyIn
  <2>2. NoLoad = [NoLoad EXCEPT !.at = "off"] /\ NoLoad.at = "off"
    BY DEF NoLoad
  <2>3. QED
    BY <2>1, <2>2 DEF LoadBooks
<1>19. QED
  BY <1>1, <1>2, <1>3, <1>4, <1>5, <1>6, <1>7, <1>8, <1>9, <1>10, <1>11, <1>12, <1>13, <1>14, <1>15, <1>16, <1>17, <1>18 DEF NodeMove

\* A vertex in hand that is done with.
LEMMA Finishes ==
  ASSUME Control, NEW n \in Nodes, NEW w \in busy[n], run[n] = "step", run'[n] = "step",
         feed' = feed, WorkerFinishes(n, w), VerticesOf(n)' = VerticesOf(n),
         activeIn'[n] \in {activeIn[n], activeIn[n] + 1}
  PROVE  StepBooks(n)' /\ activeIn'[n] \in Nat
<1> DEFINE F == feed[n] \cup busy[n]
           V == VerticesOf(n)
<1>1. /\ F \in SUBSET V /\ V \in SUBSET Wallets /\ w \in F /\ w \in V /\ feed[n] \cap busy[n] = {}
      /\ pending[n] = Cardinality(F) /\ pending[n] \in Nat /\ activeIn[n] \in Nat
  BY StepNumbers
<1>2. /\ busy'[n] = busy[n] \ {w} /\ pending'[n] = pending[n] - 1 /\ feed'[n] = feed[n]
  BY DEF WorkerFinishes, Control, Types, GraphTypes
<1>3. feed'[n] \cup busy'[n] = F \ {w} /\ feed'[n] \cap busy'[n] = {}
  BY <1>1, <1>2
<1>4. Cardinality(F \ {w}) = Cardinality(F) - 1
  BY <1>1, WalletTaken
<1>5. V \ (F \ {w}) = (V \ F) \cup {w} /\ w \notin V \ F /\ V \ F \in SUBSET Wallets /\ w \in Wallets
  BY <1>1
<1>6. Cardinality(V \ (F \ {w})) = Cardinality(V \ F) + 1 /\ Cardinality(V \ F) \in Nat
  BY <1>5, WalletAdded, FiniteWallets
<1>7. activeIn[n] <= Cardinality(V \ F)
  BY DEF Control, GraphBooks, StepBooks
<1>8. V \ (F \ {w}) \in SUBSET Wallets
  BY <1>1
<1>9. Cardinality(V \ (F \ {w})) <= Cardinality(Wallets) /\ Cardinality(Wallets) \in Nat
  BY <1>8, FiniteWallets
<1>10. activeIn'[n] <= Cardinality(V \ (F \ {w})) /\ activeIn'[n] <= Cardinality(Wallets) /\ activeIn'[n] \in Nat
  BY <1>1, <1>6, <1>7, <1>9
<1>11. QED
  BY <1>1, <1>2, <1>3, <1>4, <1>10 DEF StepBooks

\* They keep the books of its pool of goroutines.
LEMMA KeepsStepBooks ==
  ASSUME Control, NEW n \in Nodes, NodeMove(n)
  PROVE  StepBooks(n)'
<1>0. /\ StepBooks(n) /\ NodeBooks(n) /\ Types /\ PassTypes /\ GraphTypes
  BY DEF Control, GraphBooks, PlaceBooks, Types
<1>01. ASSUME feed'[n] = feed[n], busy'[n] = busy[n], pending'[n] = pending[n],
              activeIn'[n] = activeIn[n], run'[n] # "step"
       PROVE  StepBooks(n)'
  BY <1>0, <1>01 DEF StepBooks
<1> USE DEF deployment, tables, history, scoreVars, loadVars, passVars, graphVars, Goto, Mine, Working, Is
<1>1. ASSUME LoaderStep(n) PROVE StepBooks(n)'
  <2>1. at[n] = "load" /\ UNCHANGED <<feed, busy, pending, activeIn, run>>
    BY <1>1 DEF LoaderStep
  <2>2. run[n] # "step"
    BY <1>0, <2>1 DEF NodeBooks
  <2>3. QED
    BY <1>01, <2>1, <2>2
<1>2. ASSUME StoreStep(n) PROVE StepBooks(n)'
  <2>1. at[n] = "store" /\ UNCHANGED <<feed, busy, pending, activeIn, run>>
    BY <1>2 DEF StoreStep
  <2>2. run[n] # "step"
    BY <1>0, <2>1 DEF NodeBooks
  <2>3. QED
    BY <1>01, <2>1, <2>2
<1>3. ASSUME MonolithPassBegins(n) PROVE StepBooks(n)'
  BY <1>3, <1>0, <1>01 DEF MonolithPassBegins, PassBegins, LoadBegins, NodeBooks, GraphTypes, PassTypes
<1>4. ASSUME MonolithLoaded(n) PROVE StepBooks(n)'
  BY <1>4, <1>0, <1>01 DEF MonolithLoaded, Executor, NewExecutor, NodeBooks, GraphTypes, PassTypes
<1>5. ASSUME MonolithStores(n) PROVE StepBooks(n)'
  BY <1>5, <1>0, <1>01 DEF MonolithStores, ScoresAll, NodeBooks, GraphTypes, PassTypes
<1>6. ASSUME MonolithPassCompletes(n) PROVE StepBooks(n)'
  BY <1>6, <1>0, <1>01 DEF MonolithPassCompletes, Reset, NodeBooks, GraphTypes, PassTypes
<1>7. ASSUME MonolithFails(n) PROVE StepBooks(n)'
  BY <1>7, <1>0, <1>01 DEF MonolithFails, NodeBooks, GraphTypes, PassTypes
<1>8. ASSUME ServiceStops(n) PROVE StepBooks(n)'
  BY <1>8, <1>0, <1>01 DEF ServiceStops, NodeBooks, GraphTypes, PassTypes
<1>9. ASSUME ProcessEnds(n) PROVE StepBooks(n)'
  BY <1>9, <1>0, <1>01 DEF ProcessEnds, Reset, NodeBooks, GraphTypes, PassTypes
<1>10. ASSUME StartJob(n) PROVE StepBooks(n)'
  BY <1>10, <1>0, <1>01 DEF StartJob, Reset, LoadBegins, NodeBooks, GraphTypes, PassTypes
<1>11. ASSUME WorkerLoaded(n) PROVE StepBooks(n)'
  BY <1>11, <1>0, <1>01 DEF WorkerLoaded, Executor, NewExecutor, NodeBooks, GraphTypes, PassTypes
<1>12. ASSUME CompleteJob(n) PROVE StepBooks(n)'
  <2>1. /\ ~Monolith /\ n \in dep.nodes /\ at[n] = "run" /\ job = "executed"
        /\ UNCHANGED <<feed, busy, pending, activeIn, run>>
    BY <1>12 DEF CompleteJob
  <2>2. run[n] = "stop"
    BY <2>1 DEF Control, PlaceBooks, JobBooks
  <2>3. QED
    BY <1>01, <2>1, <2>2
<1>13. ASSUME ScoresPersisted(n) PROVE StepBooks(n)'
  BY <1>13, <1>0, <1>01 DEF ScoresPersisted, Reset, NodeBooks, GraphTypes, PassTypes
<1>14. ASSUME WorkerFails(n) PROVE StepBooks(n)'
  BY <1>14, <1>0, <1>01 DEF WorkerFails, Reset, NodeBooks, GraphTypes, PassTypes
<1>15. ASSUME AbortJob(n) PROVE StepBooks(n)'
  BY <1>15, <1>0, <1>01 DEF AbortJob, Reset, NodeBooks, GraphTypes, PassTypes
<1>16. ASSUME GraphRuns(n) PROVE StepBooks(n)'
  <2>1. GraphStep(n) \/ StepContextDone(n)
    BY <1>16 DEF GraphRuns
  <2>2. VerticesOf(n)' = VerticesOf(n)
    BY <2>1, StepVertices DEF VerticesOf
  <2>3. CASE StepContextDone(n)
    BY <2>3, <1>0, <1>01 DEF StepContextDone, GraphTypes
  <2>4. CASE StepBegins(n)
    <3>1. /\ run[n] = "pre" /\ feed'[n] = VerticesOf(n) /\ busy' = busy
          /\ pending'[n] = Cardinality(VerticesOf(n)) /\ activeIn'[n] = 0
      BY <2>4, <1>0 DEF StepBegins, GraphTypes
    <3>2. busy[n] = {}
      BY <1>0, <3>1 DEF NodeBooks
    <3>3. VerticesOf(n) \in SUBSET Wallets
      BY DEF VerticesOf
    <3>4. feed'[n] \cup busy'[n] = VerticesOf(n) /\ feed'[n] \cap busy'[n] = {} /\ VerticesOf(n) \ VerticesOf(n) = {}
      BY <3>1, <3>2
    <3>5. Cardinality({}) = 0 /\ Cardinality(Wallets) \in Nat
      BY FS_EmptySet, FiniteWallets
    <3>6. 0 <= Cardinality(Wallets)
      BY <3>5
    <3>7. QED
      BY <2>2, <3>1, <3>4, <3>5, <3>6 DEF StepBooks
  <2>5. CASE StepCompletes(n)
    BY <2>5, <1>0, <1>01 DEF StepCompletes, GraphTypes
  <2>6. CASE StepEnds(n)
    <3>1. UNCHANGED <<feed, busy, pending, activeIn>> /\ (run' = [run EXCEPT ![n] = "stop"] \/ run' = [run EXCEPT ![n] = "pre"])
      BY <2>6 DEF StepEnds
    <3>2. QED
      BY <3>1, <1>0, <1>01 DEF GraphTypes
  <2>7. ASSUME NEW w \in Wallets, WorkerTakes(n, w) PROVE StepBooks(n)'
    <3>1. /\ run[n] = "step" /\ w \in feed[n] /\ feed'[n] = feed[n] \ {w} /\ busy'[n] = busy[n] \cup {w}
          /\ UNCHANGED <<run, pending, activeIn>>
      BY <2>7, <1>0 DEF WorkerTakes, GraphTypes
    <3>2. feed'[n] \cup busy'[n] = feed[n] \cup busy[n]
      BY <3>1
    <3>3. feed'[n] \cap busy'[n] = {}
      BY <1>0, <3>1 DEF StepBooks
    <3>4. QED
      BY <1>0, <2>2, <3>1, <3>2, <3>3 DEF StepBooks
  <2>8. ASSUME NEW w \in Wallets,
               \/ VertexSkipped(n, w) \/ ComputeCounts(n, w) \/ ComputeSends(n, w)
               \/ ComputeFails(n, w) \/ ComputeAdds(n, w)
        PROVE  StepBooks(n)'
    <3>1. /\ run[n] = "step" /\ w \in busy[n] /\ UNCHANGED <<feed, run>> /\ WorkerFinishes(n, w)
          /\ activeIn' = activeIn \/ activeIn' = [activeIn EXCEPT ![n] = @ + 1]
      BY <2>8 DEF VertexSkipped, ComputeCounts, ComputeSends, ComputeFails, ComputeAdds, InHand
    <3>2. activeIn'[n] \in {activeIn[n], activeIn[n] + 1}
      BY <3>1, <1>0 DEF GraphTypes
    <3>3. QED
      BY <2>2, <3>1, <3>2, Finishes
  <2>9. ASSUME NEW t \in Txs, RelayDelivered(n, t) PROVE StepBooks(n)'
    BY <2>2, <2>9, <1>0 DEF RelayDelivered, StepBooks
  <2>10. QED
    BY <2>1, <2>3, <2>4, <2>5, <2>6, <2>7, <2>8, <2>9 DEF GraphStep
<1>17. ASSUME StoreFails(n) PROVE StepBooks(n)'
  BY <1>17, <1>0, <1>01 DEF StoreFails, UnknownScorer, UpsertScoresFails, NodeBooks, GraphTypes, PassTypes
<1>18. ASSUME WorkerCrashes(n) PROVE StepBooks(n)'
  <2>1. /\ feed'[n] = {} /\ busy'[n] = {} /\ pending'[n] = 0 /\ activeIn'[n] = activeIn[n] /\ run'[n] = "off"
    BY <1>18, <1>0 DEF WorkerCrashes, Reset, GraphTypes
  <2>2. Cardinality({}) = 0
    BY FS_EmptySet
  <2>3. QED
    BY <1>0, <2>1, <2>2 DEF StepBooks
<1>19. QED
  BY <1>1, <1>2, <1>3, <1>4, <1>5, <1>6, <1>7, <1>8, <1>9, <1>10, <1>11, <1>12, <1>13, <1>14, <1>15, <1>16, <1>17, <1>18 DEF NodeMove

Resting == {"idle", "start", "load", "gone", "persisted"}
Fresh(v) == v.value = 0 /\ v.active /\ v.queue = NoVertex.queue

\* Steps that leave the vertices of a node, or that reset them.
LEMMA VertexStays ==
  ASSUME NEW n \in Nodes, NEW w \in Wallets, VertexBooks(n, w), dep' = dep,
         vertex'[n][w] = vertex[n][w] \/ vertex'[n][w] = NoVertex,
         where'[n][w] \in {where[n][w], "none"} \/ Within(n, w),
         \A t \in got'[n][w] : t \in got[n][w] \/ TxFrom[t] = w,
         \A r \in left'[n] : r.wallet = w => r \in left[n] \/ (Within(n, w) /\ \A t \in r.txs : TxFrom[t] = w),
         w \in feed'[n] \cup busy'[n] => w \in feed[n] \cup busy[n] /\ vertex'[n][w] = vertex[n][w],
         at'[n] \in Resting => at[n] \in Resting \/ vertex'[n][w] = NoVertex
  PROVE  VertexBooks(n, w)'
<1>1. Within(n, w)' <=> Within(n, w)
  BY DEF Within, Extents, PartitionOf
<1>2. NoVertex.txs = {} /\ NoVertex.on = FALSE
  BY DEF NoVertex
<1>3. QED
  BY <1>1, <1>2 DEF VertexBooks, Resting

\* They keep the books of each vertex.
LEMMA KeepsVertexBooks ==
  ASSUME Control, NEW n \in Nodes, NodeMove(n), NEW w \in Wallets
  PROVE  VertexBooks(n, w)'
<1>0. /\ VertexBooks(n, w) /\ NodeBooks(n) /\ Types /\ PassTypes /\ GraphTypes /\ dep' = dep
      /\ where \in [Nodes -> [Wallets -> Places]] /\ got \in [Nodes -> [Wallets -> SUBSET Txs]]
      /\ UNCHANGED tables
  BY OtherNodes, LoadFacts DEF Control, GraphBooks, PlaceBooks, Types, NodeFrame
<1> DEFINE Left == /\ \A r \in left'[n] : r.wallet = w =>
                        r \in left[n] \/ (Within(n, w) /\ \A t \in r.txs : TxFrom[t] = w)
                   /\ \A t \in got'[n][w] : t \in got[n][w] \/ TxFrom[t] = w
                   /\ where'[n][w] \in {where[n][w], "none"} \/ Within(n, w)
<1>01. ASSUME vertex' = vertex, Left, feed'[n] \cup busy'[n] \subseteq feed[n] \cup busy[n],
              at'[n] \in Resting => at[n] \in Resting
       PROVE  VertexBooks(n, w)'
  BY <1>0, <1>01, VertexStays
<1>02. ASSUME vertex'[n] = NoVertices, Left, feed'[n] = {}, busy'[n] = {}
       PROVE  VertexBooks(n, w)'
  <2>1. vertex'[n][w] = NoVertex
    BY <1>02 DEF NoVertices
  <2>2. QED
    BY <1>0, <1>02, <2>1, VertexStays
<1>03. where[n][w] # "none" => Within(n, w)
  BY <1>0 DEF VertexBooks
<1>04. UNCHANGED <<where, got>> /\ left'[n] \subseteq left[n] => Left
  OBVIOUS
<1>05. left \in [Nodes -> SUBSET LeftRow]
  BY DEF Control, Types, LoadTypeOK, LeftRow
<1> HIDE DEF Left
<1> USE DEF deployment, tables, history, scoreVars, loadVars, passVars, graphVars, Goto, Mine, Working, Is
<1>1. ASSUME LoaderStep(n) PROVE VertexBooks(n, w)'
  <2>1. /\ at[n] = "load" /\ UNCHANGED <<at, feed, busy>> /\ LoaderMove(n)
    BY <1>1 DEF LoaderStep
  <2>2. ASSUME UNCHANGED vertex, Left PROVE VertexBooks(n, w)'
    BY <1>01, <2>1, <2>2
  <2>3. ASSUME NEW x \in Wallets, NEW p \in Places, NEW q \in Places \ {"none"},
               where[n][x] = q, Goes(n, x, p)
        PROVE  where'[n][w] \in {where[n][w], "none"} \/ Within(n, w)
    <3>1. where'[n][w] = IF w = x THEN p ELSE where[n][w]
      BY <1>0, <2>3 DEF Goes
    <3>2. QED
      BY <1>03, <2>3, <3>1
  <2>4. {"todo", "addrCh", "fetch", "vertexCh", "added", "none"} = Places
    BY DEF Places
  <2>5. CASE UNCHANGED vertex /\ (WalletsEnd(n) \/ NumberLearnt(n) \/ AllAdded(n))
    BY <2>1, <2>5, <1>04, <2>2 DEF WalletsEnd, NumberLearnt, AllAdded
  <2>6. CASE UNCHANGED vertex /\ \/ LoadSucceeds(n) \/ LoadGetsError(n) \/ WalletsFail(n)
                                 \/ LoadCancelled(n) \/ WalletsCut(n)
    <3>1. /\ where'[n][w] \in {where[n][w], "none"} /\ got' = got
          /\ left' = left \/ left' = [left EXCEPT ![n] = left[n] \cup
               {[wallet |-> x, txs |-> got[n][x]] : x \in In(n, "fetch") \cup In(n, "vertexCh")}]
      BY <2>6, <1>0 DEF LoadSucceeds, LoadGetsError, WalletsFail, LoadCancelled, LoadReturns, LeavesRows, NobodyIn, WalletsCut
    <3>2. \A r \in left'[n] : r.wallet = w => r \in left[n] \/ (where[n][w] # "none" /\ r.txs = got[n][w])
      BY <1>0, <1>05, <3>1 DEF In
    <3>3. \A t \in got[n][w] : TxFrom[t] = w
      BY <1>0 DEF VertexBooks
    <3>4. QED
      BY <1>03, <2>2, <2>6, <3>1, <3>2, <3>3 DEF Left
  <2>7. ASSUME NEW x \in Wallets, UNCHANGED vertex, WalletSent(n, x) \/ VertexSent(n, x) \/ FetchFails(n, x)
        PROVE  VertexBooks(n, w)'
    <3>1. got' = got /\ left' = left /\ \E p, q \in Places : q # "none" /\ where[n][x] = q /\ Goes(n, x, p)
      BY <2>4, <2>7 DEF WalletSent, VertexSent, FetchFails
    <3>2. QED
      BY <2>2, <2>3, <2>7, <3>1 DEF Left
  <2>8. ASSUME NEW x \in Wallets, UNCHANGED vertex, FetchWalletTxs(n, x) PROVE VertexBooks(n, w)'
    <3>1. where[n][x] = "addrCh" /\ Goes(n, x, "fetch") /\ left' = left /\ got' = [got EXCEPT ![n][x] = WalletTxs(x)]
      BY <2>8 DEF FetchWalletTxs
    <3>2. where'[n][w] \in {where[n][w], "none"} \/ Within(n, w)
      BY <2>3, <2>4, <3>1
    <3>3. \A t \in got'[n][w] : t \in got[n][w] \/ TxFrom[t] = w
      BY <1>0, <3>1 DEF WalletTxs
    <3>4. QED
      BY <2>2, <2>8, <3>1, <3>2, <3>3 DEF Left
  <2>9. ASSUME NEW x \in Wallets, UNCHANGED vertex, WalletTxsCut(n, x) PROVE VertexBooks(n, w)'
    <3>1. PICK T \in SUBSET got[n][x] : got' = [got EXCEPT ![n][x] = T] /\ where' = where /\ left' = left
      BY <2>9 DEF WalletTxsCut
    <3>2. \A t \in got'[n][w] : t \in got[n][w]
      BY <1>0, <3>1
    <3>3. QED
      BY <2>2, <2>9, <3>1, <3>2 DEF Left
  <2>10. ASSUME NEW x \in Wallets, VertexAdded(n, x) PROVE VertexBooks(n, w)'
    <3>1. /\ where[n][x] = "vertexCh" /\ Goes(n, x, "added") /\ got' = got /\ left' = left
          /\ vertex' = [vertex EXCEPT ![n] = AddVertex(vertex[n], x, got[n][x])]
      BY <2>10 DEF VertexAdded
    <3>2. where'[n][w] \in {where[n][w], "none"} \/ Within(n, w)
      BY <2>3, <2>4, <3>1
    <3>3. vertex[n] \in [Wallets -> VertexRecord] /\ got[n][x] \in SUBSET Txs
      BY <1>0 DEF GraphTypes
    <3>4. vertex'[n] = AddVertex(vertex[n], x, got[n][x])
      BY <1>0, <3>1 DEF GraphTypes
    <3>5. CASE w # x
      <4>1. vertex'[n][w] = vertex[n][w]
        BY <3>3, <3>4, <3>5, VertexAddedTo
      <4>2. QED
        BY <1>0, <2>1, <3>1, <3>2, <4>1, VertexStays
    <3>6. CASE w = x
      <4> DEFINE v == vertex'[n][w]
      <4>1. /\ v.on /\ v.value = 0 /\ v.txs = got[n][w]
            /\ IF vertex[n][w].on THEN v.active = vertex[n][w].active /\ v.queue = vertex[n][w].queue
               ELSE v.active /\ v.queue = NoVertex.queue
        BY <3>3, <3>4, <3>6, VertexAddedTo
      <4>2. v.active /\ v.queue = NoVertex.queue
        BY <1>0, <2>1, <4>1 DEF VertexBooks
      <4>3. Within(n, w) /\ (Within(n, w)' <=> Within(n, w))
        BY <1>0, <1>03, <3>1, <3>6 DEF Within, Extents, PartitionOf
      <4>4. \A t \in got[n][w] : TxFrom[t] = w
        BY <1>0 DEF VertexBooks
      <4> HIDE DEF v
      <4>5. v = vertex'[n][w]
        BY DEF v
      <4>6. QED
        BY <1>0, <2>1, <3>1, <4>1, <4>2, <4>3, <4>4, <4>5 DEF VertexBooks
    <3>7. QED
      BY <3>5, <3>6
  <2>11. ASSUME NEW r \in left[n], LateRowAdded(n, r) PROVE VertexBooks(n, w)'
    <3> DEFINE x == r.wallet
               T == r.txs
    <3>1. /\ UNCHANGED <<load, where, got>> /\ left' = [left EXCEPT ![n] = left[n] \ {r}]
          /\ vertex' = [vertex EXCEPT ![n] = AddVertex(vertex[n], x, T)]
      BY <2>11 DEF LateRowAdded
    <3>2. x \in Wallets /\ T \in SUBSET Txs /\ left \in [Nodes -> SUBSET LeftRow]
      BY <1>0 DEF Types, LoadTypeOK, LeftRow
    <3>3. vertex[n] \in [Wallets -> VertexRecord] /\ left'[n] \subseteq left[n]
      BY <1>0, <3>1, <3>2 DEF GraphTypes
    <3>4. x = w => Within(n, w) /\ \A t \in T : TxFrom[t] = w
      BY <1>0 DEF VertexBooks
    <3> HIDE DEF x, T
    <3>5. vertex'[n] = AddVertex(vertex[n], x, T)
      BY <1>0, <3>1 DEF GraphTypes
    <3>6. CASE w # x
      <4>1. vertex'[n][w] = vertex[n][w]
        BY <3>2, <3>3, <3>5, <3>6, VertexAddedTo
      <4>2. QED
        BY <1>0, <2>1, <3>1, <3>3, <4>1, VertexStays
    <3>7. CASE w = x
      <4> DEFINE v == vertex'[n][w]
      <4>1. /\ v.on /\ v.value = 0 /\ v.txs = T
            /\ IF vertex[n][w].on THEN v.active = vertex[n][w].active /\ v.queue = vertex[n][w].queue
               ELSE v.active /\ v.queue = NoVertex.queue
        BY <3>2, <3>3, <3>5, <3>7, VertexAddedTo
      <4>2. v.active /\ v.queue = NoVertex.queue
        BY <1>0, <2>1, <4>1 DEF VertexBooks
      <4>3. Within(n, w) /\ (Within(n, w)' <=> Within(n, w))
        BY <1>0, <3>4, <3>7 DEF Within, Extents, PartitionOf
      <4> HIDE DEF v
      <4>4. v = vertex'[n][w]
        BY DEF v
      <4>5. QED
        BY <1>0, <2>1, <3>1, <3>3, <3>4, <3>7, <4>1, <4>2, <4>3, <4>4 DEF VertexBooks
    <3>8. QED
      BY <3>6, <3>7
  <2>12. QED
    BY <2>1, <2>5, <2>6, <2>7, <2>8, <2>9, <2>10, <2>11 DEF LoaderMove
<1>2. ASSUME StoreStep(n) PROVE VertexBooks(n, w)'
  BY <1>2, <1>0, <1>01, <1>04 DEF StoreStep, StoreMove, MemoryUpsertScores, UpsertScoresLosesError, BulkUpsertScores, NodeBooks, GraphTypes, PassTypes, Resting
<1>3. ASSUME MonolithPassBegins(n) PROVE VertexBooks(n, w)'
  <2>1. /\ at[n] = "idle" /\ at'[n] = "load" /\ UNCHANGED <<vertex, feed, busy>> /\ LoadBegins(n)
    BY <1>3, <1>0 DEF MonolithPassBegins, PassTypes
  <2>2. Left
    BY <1>0, <2>1 DEF LoadBegins, WalletsInPartition, Within, Extents, Left
  <2>3. QED
    BY <1>01, <2>1, <2>2 DEF Resting
<1>4. ASSUME MonolithLoaded(n) PROVE VertexBooks(n, w)'
  BY <1>4, <1>0, <1>01, <1>04 DEF MonolithLoaded, Executor, NewExecutor, NodeBooks, GraphTypes, PassTypes, Resting
<1>5. ASSUME MonolithStores(n) PROVE VertexBooks(n, w)'
  BY <1>5, <1>0, <1>01, <1>04 DEF MonolithStores, ScoresAll, NodeBooks, GraphTypes, PassTypes, Resting
<1>6. ASSUME MonolithPassCompletes(n) PROVE VertexBooks(n, w)'
  <2>1. /\ at[n] = "store" /\ vertex'[n] = NoVertices /\ UNCHANGED <<feed, busy, where, got, left>>
    BY <1>6, <1>0 DEF MonolithPassCompletes, Reset, GraphTypes
  <2>2. feed[n] = {} /\ busy[n] = {}
    BY <1>0, <2>1 DEF NodeBooks
  <2>3. QED
    BY <1>02, <1>04, <2>1, <2>2
<1>7. ASSUME MonolithFails(n) PROVE VertexBooks(n, w)'
  BY <1>7, <1>0, <1>01, <1>04 DEF MonolithFails, NodeBooks, GraphTypes, PassTypes, Resting
<1>8. ASSUME ServiceStops(n) PROVE VertexBooks(n, w)'
  BY <1>8, <1>0, <1>01, <1>04 DEF ServiceStops, NodeBooks, GraphTypes, PassTypes, Resting
<1>9. ASSUME ProcessEnds(n) PROVE VertexBooks(n, w)'
  <2>1. /\ at[n] = "returned" /\ vertex'[n] = NoVertices /\ UNCHANGED <<feed, busy, where, got>>
        /\ left'[n] = {}
    BY <1>9, <1>0 DEF ProcessEnds, Reset, GraphTypes, Types, LoadTypeOK
  <2>2. feed[n] = {} /\ busy[n] = {}
    BY <1>0, <2>1 DEF NodeBooks
  <2>3. QED
    BY <1>02, <1>04, <2>1, <2>2
<1>10. ASSUME StartJob(n) PROVE VertexBooks(n, w)'
  <2>1. /\ at[n] = "start" /\ vertex'[n] = NoVertices /\ UNCHANGED <<feed, busy>> /\ LoadBegins(n)
    BY <1>10, <1>0 DEF StartJob, Reset, GraphTypes
  <2>2. Left
    BY <1>0, <2>1 DEF LoadBegins, WalletsInPartition, Within, Extents, Left
  <2>3. feed[n] = {} /\ busy[n] = {}
    BY <1>0, <2>1 DEF NodeBooks
  <2>4. QED
    BY <1>02, <2>1, <2>2, <2>3
<1>11. ASSUME WorkerLoaded(n) PROVE VertexBooks(n, w)'
  BY <1>11, <1>0, <1>01, <1>04 DEF WorkerLoaded, Executor, NewExecutor, NodeBooks, GraphTypes, PassTypes, Resting
<1>12. ASSUME CompleteJob(n) PROVE VertexBooks(n, w)'
  BY <1>12, <1>0, <1>01, <1>04 DEF CompleteJob, ScoresAll, NodeBooks, GraphTypes, PassTypes, Resting
<1>13. ASSUME ScoresPersisted(n) PROVE VertexBooks(n, w)'
  <2>1. /\ at[n] = "store" /\ vertex'[n] = NoVertices /\ UNCHANGED <<feed, busy, where, got, left>>
    BY <1>13, <1>0 DEF ScoresPersisted, Reset, GraphTypes
  <2>2. feed[n] = {} /\ busy[n] = {}
    BY <1>0, <2>1 DEF NodeBooks
  <2>3. QED
    BY <1>02, <1>04, <2>1, <2>2
<1>14. ASSUME WorkerFails(n) PROVE VertexBooks(n, w)'
  <2>1. /\ at[n] \in {"load", "failed"} /\ vertex'[n] = NoVertices /\ UNCHANGED <<feed, busy, where, got, left>>
    BY <1>14, <1>0 DEF WorkerFails, Reset, GraphTypes
  <2>2. feed[n] = {} /\ busy[n] = {}
    BY <1>0, <2>1 DEF NodeBooks
  <2>3. QED
    BY <1>02, <1>04, <2>1, <2>2
<1>15. ASSUME AbortJob(n) PROVE VertexBooks(n, w)'
  <2>1. /\ (at[n] \in {"start", "persisted"} \/ run[n] # "step") /\ vertex'[n] = NoVertices /\ UNCHANGED <<feed, busy, where, got, left>>
    BY <1>15, <1>0 DEF AbortJob, Reset, GraphTypes
  <2>2. feed[n] = {} /\ busy[n] = {}
    BY <1>0, <2>1 DEF NodeBooks
  <2>3. QED
    BY <1>02, <1>04, <2>1, <2>2
<1>16. ASSUME GraphRuns(n) PROVE VertexBooks(n, w)'
  <2>1. /\ GraphStep(n) \/ StepContextDone(n)
        /\ at[n] = "run" /\ UNCHANGED <<at, where, got, left>>
    BY <1>16 DEF GraphRuns
  <2>2. /\ vertex'[n][w].on = vertex[n][w].on
        /\ vertex'[n][w].txs \subseteq vertex[n][w].txs
        /\ ~vertex[n][w].on => vertex'[n][w] = vertex[n][w]
    BY <2>1, StepVertices
  <2>3. Within(n, w)' <=> Within(n, w)
    BY <1>0 DEF Within, Extents, PartitionOf
  <2>4. w \in feed'[n] \cup busy'[n] => w \in VerticesOf(n)
    <3>1. feed[n] \cup busy[n] \subseteq VerticesOf(n)
      BY StepNumbers
    <3>2. \/ UNCHANGED <<feed, busy>>
          \/ feed' = [feed EXCEPT ![n] = VerticesOf(n)] /\ busy' = busy
          \/ \E x \in Wallets : feed' = [feed EXCEPT ![n] = @ \ {x}] /\ busy' = [busy EXCEPT ![n] = @ \cup {x}] /\ x \in feed[n]
          \/ feed' = feed /\ \E x \in Wallets : busy' = [busy EXCEPT ![n] = @ \ {x}]
      BY ZenonT(60), <2>1 DEF GraphStep, StepContextDone, StepBegins, StepCompletes, StepEnds, WorkerTakes, WorkerFinishes,
        VertexSkipped, ComputeCounts, ComputeSends, ComputeFails, ComputeAdds, RelayDelivered
    <3>3. QED
      BY <1>0, <3>1, <3>2 DEF GraphTypes
  <2>5. QED
    BY <1>0, <2>1, <2>2, <2>3, <2>4 DEF VertexBooks, VerticesOf
<1>17. ASSUME StoreFails(n) PROVE VertexBooks(n, w)'
  BY <1>17, <1>0, <1>01, <1>04 DEF StoreFails, UnknownScorer, UpsertScoresFails, NodeBooks, GraphTypes, PassTypes, Resting
<1>18. ASSUME WorkerCrashes(n) PROVE VertexBooks(n, w)'
  <2>1. /\ vertex'[n] = NoVertices /\ feed'[n] = {} /\ busy'[n] = {} /\ got' = got /\ where'[n][w] = "none"
        /\ left'[n] = {}
    BY <1>18, <1>0 DEF WorkerCrashes, Reset, NobodyIn, GraphTypes, Types, LoadTypeOK
  <2>2. QED
    BY <1>02, <2>1 DEF Left
<1>19. QED
  BY <1>1, <1>2, <1>3, <1>4, <1>5, <1>6, <1>7, <1>8, <1>9, <1>10, <1>11, <1>12, <1>13, <1>14, <1>15, <1>16, <1>17, <1>18 DEF NodeMove

-----------------------------------------------------------------------------
\* The control invariant, and the owners of wallets.

\* Steps of no node keep the books of all graphs.
LEMMA BooksOfOthers ==
  ASSUME Control, OtherMove, dep' = dep, NEW m \in Nodes
  PROVE  BooksOf(m)'
<1>0. BooksOf(m) /\ NodeBooks(m) /\ PassTypes
  BY DEF Control, GraphBooks, BooksOf, PlaceBooks, Types
<1>1. ASSUME UNCHANGED <<vertex, run, feed, busy, pending, activeIn, loadVars>>,
             at'[m] \in Resting => at[m] \in Resting
      PROVE  BooksOf(m)'
  <2>1. UNCHANGED <<load, where, got, left>>
    BY <1>1 DEF loadVars
  <2>2. QED
    BY <1>0, <1>1, <2>1, BooksFrame DEF Resting
<1> USE DEF deployment, tables, history, scoreVars, passVars, graphVars
<1>2. ASSUME NEW n \in Nodes \cup {Nobody}, NEW t \in Txs, Bounced(n, t) PROVE BooksOf(m)'
  BY <1>2, <1>1 DEF Bounced, RelayBounces
<1>3. ASSUME JobBegins PROVE BooksOf(m)'
  <2>1. at[m] \in Resting
    BY <1>3, <1>0 DEF JobBegins, NodeBooks, Resting, Control, PlaceBooks, JobBooks
  <2>2. QED
    BY <1>3, <1>1, <2>1 DEF JobBegins
<1>4. ASSUME GraphExecuted PROVE BooksOf(m)'
  BY <1>4, <1>1 DEF GraphExecuted
<1>5. ASSUME JobEnds PROVE BooksOf(m)'
  <2>1. at[m] \in Resting
    BY <1>5, <1>0 DEF JobEnds, NodeBooks, Resting
  <2>2. QED
    BY <1>5, <1>1, <2>1 DEF JobEnds
<1>6. ASSUME Signal PROVE BooksOf(m)'
  BY <1>6, <1>1 DEF Signal
<1>7. ASSUME JobCancelled PROVE BooksOf(m)'
  BY <1>7, <1>1 DEF JobCancelled
<1>8. ASSUME GraphGrows PROVE BooksOf(m)'
  BY <1>8, <1>1 DEF GraphGrows
<1>9. ASSUME OtherStoreCalls PROVE BooksOf(m)'
  BY <1>9, <1>1 DEF OtherStoreCalls
<1>10. QED
  BY <1>2, <1>3, <1>4, <1>5, <1>6, <1>7, <1>8, <1>9 DEF OtherMove

\* Every step keeps the books of all graphs.
LEMMA KeepsGraphBooks ==
  ASSUME Control, Next
  PROVE  GraphBooks'
<1>1. Types /\ dep' = dep /\ \A m \in Nodes : BooksOf(m)
  BY KeepsDeployment DEF Control, GraphBooks, BooksOf
<1>2. ASSUME NEW n \in Nodes, NodeMove(n), NEW m \in Nodes PROVE BooksOf(m)'
  <2>1. CASE m = n
    BY <1>2, <2>1, KeepsLoadBooks, KeepsStepBooks, KeepsVertexBooks DEF BooksOf
  <2>2. CASE m # n
    <3>1. Same(m)
      BY <1>1, <1>2, <2>2, OtherNodes DEF NodeFrame
    <3>2. QED
      BY <1>1, <3>1, BooksFrame DEF Same
  <2>3. QED
    BY <2>1, <2>2
<1>3. QED
  BY <1>1, <1>2, Moves, BooksOfOthers DEF GraphBooks, BooksOf

\* The control invariant is inductive.
LEMMA KeepsControl ==
  ASSUME Control, [Next]_vars
  PROVE  Control'
<1>1. CASE Next
  BY <1>1, KeepsTypes, KeepsPlaceBooks, KeepsGraphBooks DEF Control
<1>2. CASE UNCHANGED vars
  <2>1. /\ UNCHANGED <<dep, pass, failures, tx, wallet>> /\ UNCHANGED graphVars /\ UNCHANGED loadVars
        /\ UNCHANGED scoreVars /\ UNCHANGED passVars
    BY <1>2 DEF vars
  <2>2. Types'
    BY <2>1 DEF Control, Types, DeploymentTypeOK, GraphTypes, LoadTypeOK, PassTypes, StoreTypes, Passes,
      graphVars, loadVars, scoreVars, passVars, Row, Score
  <2>3. PlaceBooks'
    BY <2>1 DEF Control, PlaceBooks, NodeBooks, JobBooks, Loading, Monolith, graphVars, loadVars, scoreVars, passVars
  <2>4. ASSUME NEW m \in Nodes PROVE BooksOf(m)'
    <3>1. BooksOf(m)
      BY DEF Control, GraphBooks, BooksOf
    <3>2. /\ UNCHANGED <<vertex, run, feed, busy, pending, activeIn, at, load, where, got, left>>
      BY <2>1 DEF graphVars, loadVars, passVars
    <3>3. QED
      BY <2>1, <3>1, <3>2, BooksFrame
  <2>5. QED
    BY <2>2, <2>3, <2>4 DEF Control, GraphBooks, BooksOf
<1>3. QED
  BY <1>1, <1>2

\* It holds at the start.
LEMMA StartsInControl ==
  ASSUME Init
  PROVE  Control
<1> USE DEF Init, DeploymentInit, GraphInit, LoadInit, ScoreInit
<1>1. /\ dep \in Deployments /\ dep.nodes \subseteq Nodes /\ dep.passes \in Nat /\ dep.failures \in Nat
      /\ dep.fetchers \in Nat /\ dep.scorer \in BOOLEAN /\ dep.txs \subseteq Txs /\ dep.wallets \subseteq Wallets
      /\ Cardinality(Wallets) \in Nat /\ Cardinality({}) = 0
  BY DeploymentsAssumption, FiniteWallets, FS_EmptySet
<1>2. NoLoad \in LoadRecord /\ NoLoad.at = "off" /\ NoLoad = [NoLoad EXCEPT !.at = "off"]
  BY <1>1 DEF NoLoad, LoadRecord
<1>3. Types
  <2>1. DeploymentTypeOK
    BY <1>1 DEF DeploymentTypeOK
  <2>2. GraphTypes
    BY Emptied DEF GraphTypes
  <2>3. LoadTypeOK
    BY <1>1, <1>2 DEF LoadTypeOK, LoadRecord
  <2>4. PassTypes
    BY <1>1 DEF PassTypes, Passes
  <2>5. StoreTypes
    BY <1>1 DEF StoreTypes, NoSearch
  <2>6. QED
    BY <2>1, <2>2, <2>3, <2>4, <2>5 DEF Types
<1>4. PlaceBooks
  BY <1>1, <1>2 DEF PlaceBooks, NodeBooks, JobBooks, Loading
<1>5. ASSUME NEW n \in Nodes PROVE LoadBooks(n) /\ StepBooks(n) /\ \A w \in Wallets : VertexBooks(n, w)
  <2>1. LoadBooks(n)
    BY <1>2 DEF LoadBooks
  <2>2. StepBooks(n)
    BY <1>1 DEF StepBooks
  <2>3. ASSUME NEW w \in Wallets PROVE VertexBooks(n, w)
    BY DEF VertexBooks, NoVertices, NoVertex
  <2>4. QED
    BY <2>1, <2>2, <2>3
<1>6. QED
  BY <1>3, <1>4, <1>5 DEF Control, GraphBooks

-----------------------------------------------------------------------------
\* Each partition has one node, and each node one partition.
LEMMA PartitionOfNode ==
  ASSUME Types
  PROVE  LET num == Cardinality(dep.nodes)
         IN /\ num \in Nat \ {0} /\ dep.nodes \in SUBSET Nat
            /\ \A n \in dep.nodes : PartitionOf(n) \in 0 .. num - 1
            /\ \A n, k \in dep.nodes : n # k => PartitionOf(n) # PartitionOf(k)
            /\ \A p \in 0 .. num - 1 : \E n \in dep.nodes : PartitionOf(n) = p
<1>1. dep.nodes \subseteq Nodes /\ dep.nodes # {} /\ IsFiniteSet(dep.nodes) /\ dep.nodes \in SUBSET Nat
  BY DeploymentsAssumption, FS_Subset DEF Types, DeploymentTypeOK
<1>2. Cardinality(dep.nodes) \in Nat \ {0}
  BY <1>1, FS_EmptySet, FS_CardinalityType
<1>3. QED
  BY <1>1, <1>2, Positions DEF PartitionOf

\* An address is within the extents of one node, that of its partition, if the ends of
\* the partitions are in order.
LEMMA OnePartition ==
  ASSUME Types, BoundariesInOrder, NEW w \in Wallets, NEW n \in dep.nodes, Within(n, w)
  PROVE  PartitionForAddr(NewFullRange(Cardinality(dep.nodes)), Addr[w]) = PartitionOf(n)
<1> DEFINE num == Cardinality(dep.nodes)
           s == NewFullRange(num).splits
           a == Addr[w]
           k == PartitionOf(n)
           p == PartitionForAddr(NewFullRange(num), a)
<1>1. num \in Nat \ {0} /\ k \in 0 .. num - 1 /\ a \in Address /\ dep \in Deployments
  BY PartitionOfNode, WalletsAssumption DEF Types, DeploymentTypeOK
<1>2. DOMAIN s = 1 .. num /\ s[num] = MaxAddr
  BY <1>1 DEF NewFullRange, NewRange
<1>3. \A i, j \in 1 .. num : i <= j => (Before(a, s[i]) => Before(a, s[j]))
  <2>1. \A i, j \in DOMAIN NewFullRange(Cardinality(dep.nodes)).splits : i <= j =>
          (Before(a, NewFullRange(Cardinality(dep.nodes)).splits[i]) => Before(a, NewFullRange(Cardinality(dep.nodes)).splits[j]))
    BY <1>1 DEF BoundariesInOrder
  <2>2. QED
    BY <1>2, <2>1
<1>4. InExtents(a, PartitionExtents(NewFullRange(num), k))
  BY DEF Within, Extents
<1>5. /\ p # Nobody => p \in 0 .. num - 1 /\ InExtents(a, PartitionExtents(NewFullRange(num), p))
      /\ Before(a, MaxAddr) => p # Nobody
  BY <1>1, PartitionSound
<1>6. \A q \in 0 .. num - 1 : InExtents(a, PartitionExtents(NewFullRange(num), q)) =>
        (q # 0 => ~Before(a, s[q])) /\ Before(a, s[q + 1])
  BY DEF InExtents, PartitionExtents
<1> HIDE DEF s, a, k, p, num
<1>7. (k # 0 => ~Before(a, s[k])) /\ Before(a, s[k + 1])
  BY <1>1, <1>4, <1>6
<1>8. Before(a, MaxAddr)
  BY <1>1, <1>2, <1>3, <1>7
<1>9. p \in 0 .. num - 1 /\ (p # 0 => ~Before(a, s[p])) /\ Before(a, s[p + 1])
  BY <1>5, <1>6, <1>8
<1>10. ~(p < k)
  BY <1>1, <1>3, <1>7, <1>9
<1>11. ~(k < p)
  BY <1>1, <1>3, <1>7, <1>9
<1>12. p = k
  BY <1>1, <1>9, <1>10, <1>11
<1>13. QED
  BY <1>12 DEF p, k, a, num

\* A wallet that a node may load is its own, then.
LEMMA Owner ==
  ASSUME Types, BoundariesInOrder, NEW w \in Wallets, NEW n \in dep.nodes, Within(n, w)
  PROVE  OwnerOf(w) = n
<1> DEFINE part == PartitionForAddr(NewFullRange(Cardinality(dep.nodes)), Addr[w])
<1>1. part = PartitionOf(n) /\ PartitionOf(n) \in 0 .. Cardinality(dep.nodes) - 1
      /\ \A k \in dep.nodes : k # n => PartitionOf(k) # PartitionOf(n)
  BY OnePartition, PartitionOfNode
<1>2. part # Nobody
  BY <1>1, PartitionOfNode DEF Nobody
<1>3. OwnerOf(w) = CHOOSE k \in dep.nodes : PartitionOf(k) = part
  BY <1>2 DEF OwnerOf, PartitionOf
<1> HIDE DEF part
<1>4. \E k \in dep.nodes : PartitionOf(k) = part
  BY <1>1
<1>5. QED
  BY <1>1, <1>3, <1>4

\* Where nodes, graphs, loads and the job are at any time: the invariant that the others rest on.
THEOREM ControlInvariant == Spec => []Control
<1>1. Init => Control
  BY StartsInControl
<1>2. Control /\ [Next]_vars => Control'
  BY KeepsControl
<1>3. QED
  BY <1>1, <1>2, PTL DEF Spec

\* While the ends of the partitions are in order, a wallet is loaded only by the worker
\* that messages for it are relayed to (range.go:72-97).
THEOREM OwnersLoad == Spec => []LoadedByOwner
<1>1. Control => LoadedByOwner
  <2>1. SUFFICES ASSUME Control, BoundariesInOrder, NEW n \in Nodes, NEW w \in VerticesOf(n)
                  PROVE  OwnerOf(w) = n
    BY DEF LoadedByOwner, FoundWhereLoaded
  <2>2. w \in Wallets /\ vertex[n][w].on /\ Types /\ Within(n, w)
    BY <2>1 DEF VerticesOf, Control, GraphBooks, VertexBooks
  <2>3. n \in dep.nodes
    <3>1. n \notin dep.nodes => vertex[n] = NoVertices
      BY <2>1 DEF Control, PlaceBooks, NodeBooks
    <3>2. NoVertices[w].on = FALSE
      BY <2>2 DEF NoVertices, NoVertex
    <3>3. QED
      BY <2>2, <3>1, <3>2
  <2>4. QED
    BY <2>1, <2>2, <2>3, Owner
<1>2. QED
  BY <1>1, ControlInvariant, PTL

-----------------------------------------------------------------------------
\* Searches of the frontend.

\* A value that is stored leaves no wallet without one.
LEMMA MoreScored ==
  ASSUME NEW A, NEW B, A \in [Wallets -> Score \cup {NoScore}], \A w \in Wallets : B[w] = A[w] \/ B[w] # NoScore
  PROVE  {w \in Wallets : A[w] # NoScore} \subseteq {w \in Wallets : B[w] # NoScore}
  OBVIOUS

\* A score is not the value that stands for none.
LEMMA ScoreIsOne ==
  ASSUME Types, NEW s \in Score
  PROVE  s # NoScore /\ s.pass \in 1 .. pass /\ s.value \in Int
<1>1. pass \in Nat
  BY DeploymentsAssumption DEF Types, DeploymentTypeOK
<1>2. s \in [pass : Nat, value : Int]
  BY <1>1 DEF Score
<1>3. QED
  BY <1>2, NoScoreAssumption DEF Score

\* The steps that change the table of scores or a search.
ScoreFrame ==
  \/ UNCHANGED <<score, search>>
  \/ UNCHANGED search /\ \A w \in Wallets : score'[w] = score[w] \/ score'[w] # NoScore
  \/ UNCHANGED score /\ Searches
  \/ search' = [search EXCEPT !.at = "shown", !.shown = 0]

\* Every step is of one of these kinds.
LEMMA ScoreFrames ==
  ASSUME Types, Next
  PROVE  ScoreFrame
<1>1. StoreTypes
  BY DEF Types
<1> USE DEF ScoreFrame
<1>2. ASSUME NEW n \in Nodes, NodeMove(n) PROVE ScoreFrame
  <2>1. CASE StoreStep(n)
    <3>1. CASE MemoryUpsertScores(n)
      <4>1. /\ UNCHANGED search
            /\ \A w \in Wallets : score'[w] = score[w] \/ \E r \in toStore[n] : score'[w] = r.value
        BY <3>1 DEF MemoryUpsertScores
      <4>2. \A r \in toStore[n] : r.value # NoScore
        BY <1>1, ScoreIsOne, RowFields DEF StoreTypes
      <4>3. QED
        BY <4>1, <4>2
    <3>2. CASE UpsertScoresLosesError(n)
      BY <3>2 DEF UpsertScoresLosesError
    <3>3. ASSUME NEW r \in toStore[n], BulkUpsertScores(n, r) PROVE ScoreFrame
      <4>1. UNCHANGED search /\ score' = [score EXCEPT ![r.wallet] = r.value]
        BY <3>3 DEF BulkUpsertScores
      <4>2. r.value # NoScore
        BY <1>1, ScoreIsOne, RowFields DEF StoreTypes
      <4>3. QED
        BY <1>1, <4>1, <4>2 DEF StoreTypes
    <3>4. QED
      BY <2>1, <3>1, <3>2, <3>3 DEF StoreStep, StoreMove
  <2>2. CASE ProcessEnds(n)
    BY <2>2 DEF ProcessEnds
  <2>3. CASE LoaderStep(n)
    BY <2>3 DEF LoaderStep, scoreVars
  <2>4. CASE \/ MonolithPassBegins(n) \/ MonolithLoaded(n) \/ MonolithStores(n)
             \/ MonolithPassCompletes(n) \/ MonolithFails(n) \/ ServiceStops(n)
    BY <2>4 DEF MonolithPassBegins, MonolithLoaded, MonolithStores, MonolithPassCompletes, MonolithFails,
       ServiceStops, scoreVars
  <2>5. CASE \/ StartJob(n) \/ WorkerLoaded(n) \/ CompleteJob(n) \/ ScoresPersisted(n) \/ WorkerFails(n)
             \/ AbortJob(n) \/ GraphRuns(n)
    BY <2>5 DEF StartJob, WorkerLoaded, CompleteJob, ScoresPersisted, WorkerFails, AbortJob, GraphRuns, scoreVars
  <2>6. CASE StoreFails(n) \/ WorkerCrashes(n)
    BY <2>6 DEF StoreFails, UnknownScorer, UpsertScoresFails, WorkerCrashes
  <2>7. QED
    BY <1>2, <2>1, <2>2, <2>3, <2>4, <2>5, <2>6 DEF NodeMove
<1>3. CASE OtherStoreCalls
  <2>1. CASE UpsertScorer
    BY <2>1 DEF UpsertScorer
  <2>2. CASE Searches
    BY <2>2 DEF Searches, SearchCounts, SearchReads, MemorySearch, RunQuery, ResultsBreakOff, SearchBegins
  <2>3. ASSUME NEW r \in lateScores, LateScoreStored(r) PROVE ScoreFrame
    <3>1. UNCHANGED search /\ score' = [score EXCEPT ![r.wallet] = r.value]
      BY <2>3 DEF LateScoreStored
    <3>2. r.value # NoScore
      BY <1>1, ScoreIsOne, RowFields DEF StoreTypes
    <3>3. QED
      BY <1>1, <3>1, <3>2 DEF StoreTypes
  <2>4. CASE StoreRestarts
    BY <2>4 DEF StoreRestarts
  <2>5. QED
    BY <1>3, <2>1, <2>2, <2>3, <2>4 DEF OtherStoreCalls
<1>4. CASE OtherMove /\ ~OtherStoreCalls
  BY <1>4 DEF OtherMove, Bounced, JobBegins, GraphExecuted, JobEnds, Signal, JobCancelled, GraphGrows, scoreVars
<1>5. QED
  BY Moves, <1>2, <1>3, <1>4

\* Wallets get their scores, and keep them while a search is under way.
LEMMA KeepsSearch ==
  ASSUME Control, SearchBooks, TotalCountIsThere, [Next]_vars
  PROVE  SearchBooks' /\ TotalCountIsThere'
<1> USE DEF SearchBooks, TotalCountIsThere
<1>1. /\ StoreTypes /\ search \in SearchRecord /\ Scored \in SUBSET Wallets /\ Scored' \in SUBSET Wallets
      /\ Types
  BY DEF Control, Types, StoreTypes, SearchRecord, Scored
<1>2. Cardinality(Scored) \in Nat /\ Cardinality(Scored') \in Nat /\ IsFiniteSet(Scored')
  BY <1>1, FiniteWallets
<1>3. CASE UNCHANGED <<score, search>>
  BY <1>3 DEF Scored
<1>4. CASE UNCHANGED search /\ \A w \in Wallets : score'[w] = score[w] \/ score'[w] # NoScore
  <2>1. Scored \subseteq Scored'
    BY <1>1, <1>4, MoreScored DEF Scored, StoreTypes
  <2>2. Cardinality(Scored) <= Cardinality(Scored')
    BY <1>2, <2>1, FS_Subset
  <2>3. search.total \in Nat
    BY <1>1 DEF SearchRecord
  <2>4. QED
    BY <1>2, <1>4, <2>2, <2>3
<1>5. CASE UNCHANGED score /\ Searches
  <2>1. Scored' = Scored
    BY <1>5 DEF Scored
  <2>2. CASE SearchCounts
    <3>1. search'.at = "counted" /\ search'.total = Cardinality(Scored)
      BY <1>2, <2>2, Numbered DEF SearchCounts
    <3>2. QED
      BY <1>2, <2>1, <3>1
  <2>3. CASE MemorySearch
    <3>1. search'.at = "read" /\ search'.total = Cardinality(Scored) /\ search'.rows = Cardinality(Scored)
      BY <1>2, <2>3, Numbered DEF MemorySearch, SearchRecord, NoSearch
    <3>2. QED
      BY <1>2, <2>1, <3>1
  <2>4. CASE SearchReads
    <3>1. search.at = "counted" /\ search' = [search EXCEPT !.at = "read", !.rows = Cardinality(Scored)]
      BY <2>4 DEF SearchReads
    <3>2. search'.at = "read" /\ search'.rows = Cardinality(Scored) /\ search'.total = search.total
      BY <1>1, <3>1 DEF SearchRecord
    <3>3. QED
      BY <2>1, <3>1, <3>2
  <2>5. CASE RunQuery
    <3>1. search'.at = "shown"
      BY <1>1, <2>5 DEF RunQuery, SearchRecord
    <3>2. QED
      BY <3>1
  <2>6. CASE ResultsBreakOff
    <3>1. search'.at = "shown"
      BY <1>1, <2>6 DEF ResultsBreakOff, SearchRecord
    <3>2. QED
      BY <3>1
  <2>7. QED
    BY <1>5, <2>2, <2>3, <2>4, <2>5, <2>6 DEF Searches
<1>6. CASE search' = [search EXCEPT !.at = "shown", !.shown = 0]
  <2>1. search'.at = "shown"
    BY <1>1, <1>6 DEF SearchRecord
  <2>2. QED
    BY <2>1
<1>7. CASE UNCHANGED vars
  BY <1>3, <1>7 DEF vars, scoreVars
<1>8. CASE Next
  BY <1>1, <1>3, <1>4, <1>5, <1>6, <1>8, ScoreFrames DEF ScoreFrame
<1>9. QED
  BY <1>7, <1>8

\* The frontend never announces more results than there are to be read: between the two
\* statements of a search the table does not shrink (cdb/scorestore.go).
THEOREM CountsAreThere == Spec => [](SearchBooks /\ TotalCountIsThere)
<1>1. Init => SearchBooks /\ TotalCountIsThere
  BY DEF Init, ScoreInit, NoSearch, SearchBooks, TotalCountIsThere
<1>2. Control /\ (SearchBooks /\ TotalCountIsThere) /\ [Next]_vars => (SearchBooks /\ TotalCountIsThere)'
  BY KeepsSearch
<1>3. QED
  BY <1>1, <1>2, ControlInvariant, PTL DEF Spec

-----------------------------------------------------------------------------
\* The tables, and the history of the passes.

LoadedTxs(n) == UNION {vertex[n][w].txs : w \in Wallets}

\* What becomes of the history of the passes.
Recorded(n) ==
  /\ pass' = pass /\ since' = since /\ n \in dep.nodes /\ at[n] = "load"
  /\ ledger' = [ledger EXCEPT ![pass] = @ \cup LoadedTxs(n)]

HistoryFrame ==
  \/ UNCHANGED <<pass, since, ledger>>
  \/ PassBegins
  \/ \E n \in Nodes : Recorded(n)

\* Every step is of one of these kinds.
LEMMA HistoryFrames ==
  ASSUME Next
  PROVE  HistoryFrame
<1> USE DEF HistoryFrame, Recorded, LoadedTxs
<1> USE DEF deployment, tables, history, scoreVars, loadVars, passVars, graphVars, Goto, Mine, Working, Is
<1>1. ASSUME NEW n \in Nodes, LoaderStep(n) PROVE HistoryFrame
  BY <1>1 DEF LoaderStep, LoaderMove, WalletsEnd, LoadSucceeds, LoadGetsError, NumberLearnt, AllAdded, WalletsCut, WalletsFail, LoadCancelled, WalletSent, FetchWalletTxs, VertexSent, WalletTxsCut, FetchFails, VertexAdded, LateRowAdded, Goes, NobodyIn, LeavesRows, LoadReturns, HistoryFrame, Recorded, LoadedTxs
<1>2. ASSUME NEW n \in Nodes, StoreStep(n) PROVE HistoryFrame
  BY <1>2 DEF StoreStep, StoreMove, MemoryUpsertScores, UpsertScoresLosesError, BulkUpsertScores, HistoryFrame, Recorded, LoadedTxs
<1>3. ASSUME NEW n \in Nodes, MonolithPassBegins(n) PROVE HistoryFrame
  BY <1>3 DEF MonolithPassBegins, PassBegins, LoadBegins, HistoryFrame, Recorded, LoadedTxs
<1>4. ASSUME NEW n \in Nodes, MonolithLoaded(n) PROVE HistoryFrame
  BY <1>4 DEF MonolithLoaded, Executor, NewExecutor, HistoryFrame, Recorded, LoadedTxs
<1>5. ASSUME NEW n \in Nodes, MonolithStores(n) PROVE HistoryFrame
  BY <1>5 DEF MonolithStores, ScoresAll, HistoryFrame, Recorded, LoadedTxs
<1>6. ASSUME NEW n \in Nodes, MonolithPassCompletes(n) PROVE HistoryFrame
  BY <1>6 DEF MonolithPassCompletes, Reset, HistoryFrame, Recorded, LoadedTxs
<1>7. ASSUME NEW n \in Nodes, MonolithFails(n) PROVE HistoryFrame
  BY <1>7 DEF MonolithFails, HistoryFrame, Recorded, LoadedTxs
<1>8. ASSUME NEW n \in Nodes, ServiceStops(n) PROVE HistoryFrame
  BY <1>8 DEF ServiceStops, HistoryFrame, Recorded, LoadedTxs
<1>9. ASSUME NEW n \in Nodes, ProcessEnds(n) PROVE HistoryFrame
  BY <1>9 DEF ProcessEnds, Reset, HistoryFrame, Recorded, LoadedTxs
<1>10. ASSUME NEW n \in Nodes, StartJob(n) PROVE HistoryFrame
  BY <1>10 DEF StartJob, Reset, LoadBegins, HistoryFrame, Recorded, LoadedTxs
<1>11. ASSUME NEW n \in Nodes, WorkerLoaded(n) PROVE HistoryFrame
  BY <1>11 DEF WorkerLoaded, Executor, NewExecutor, HistoryFrame, Recorded, LoadedTxs
<1>12. ASSUME NEW n \in Nodes, CompleteJob(n) PROVE HistoryFrame
  BY <1>12 DEF CompleteJob, ScoresAll, HistoryFrame, Recorded, LoadedTxs
<1>13. ASSUME NEW n \in Nodes, ScoresPersisted(n) PROVE HistoryFrame
  BY <1>13 DEF ScoresPersisted, Reset, HistoryFrame, Recorded, LoadedTxs
<1>14. ASSUME NEW n \in Nodes, WorkerFails(n) PROVE HistoryFrame
  BY <1>14 DEF WorkerFails, Reset, HistoryFrame, Recorded, LoadedTxs
<1>15. ASSUME NEW n \in Nodes, AbortJob(n) PROVE HistoryFrame
  BY <1>15 DEF AbortJob, Reset, HistoryFrame, Recorded, LoadedTxs
<1>16. ASSUME NEW n \in Nodes, GraphRuns(n) PROVE HistoryFrame
  BY <1>16 DEF GraphRuns, HistoryFrame, Recorded, LoadedTxs
<1>17. ASSUME NEW n \in Nodes, StoreFails(n) PROVE HistoryFrame
  BY <1>17 DEF StoreFails, UnknownScorer, UpsertScoresFails, HistoryFrame, Recorded, LoadedTxs
<1>18. ASSUME NEW n \in Nodes, WorkerCrashes(n) PROVE HistoryFrame
  BY <1>18 DEF WorkerCrashes, Reset, NobodyIn, HistoryFrame, Recorded, LoadedTxs
<1>19. ASSUME NEW n \in Nodes \cup {Nobody}, NEW t \in Txs, Bounced(n, t) PROVE HistoryFrame
  BY <1>19 DEF Bounced, RelayBounces
<1>20. ASSUME JobBegins PROVE HistoryFrame
  BY <1>20 DEF JobBegins, PassBegins
<1>21. ASSUME GraphExecuted PROVE HistoryFrame
  BY <1>21 DEF GraphExecuted
<1>22. ASSUME JobEnds PROVE HistoryFrame
  BY <1>22 DEF JobEnds
<1>23. ASSUME Signal PROVE HistoryFrame
  BY <1>23 DEF Signal
<1>24. ASSUME JobCancelled PROVE HistoryFrame
  BY <1>24 DEF JobCancelled
<1>25. ASSUME GraphGrows PROVE HistoryFrame
  BY <1>25 DEF GraphGrows
<1>26. ASSUME OtherStoreCalls PROVE HistoryFrame
  BY <1>26 DEF OtherStoreCalls
<1>27. QED
  BY Moves, <1>1, <1>2, <1>3, <1>4, <1>5, <1>6, <1>7, <1>8, <1>9, <1>10, <1>11, <1>12, <1>13, <1>14, <1>15, <1>16, <1>17, <1>18, <1>19, <1>20, <1>21, <1>22, <1>23, <1>24, <1>25, <1>26 DEF NodeMove, OtherMove

\* The tables grow, and a transaction comes after its wallets.
LEMMA TablesGrow ==
  ASSUME Types, Next
  PROVE  /\ tx \subseteq tx' /\ wallet \subseteq wallet'
         /\ (\A t \in tx : TxFrom[t] \in wallet) => \A t \in tx' : TxFrom[t] \in wallet'
<1>1. CASE UNCHANGED tables
  BY <1>1 DEF tables
<1>2. CASE GraphGrows
  BY <1>2 DEF GraphGrows, tables
<1>3. ASSUME NEW n \in Nodes, NodeMove(n) PROVE UNCHANGED tables
  BY <1>3, OtherNodes DEF NodeFrame
<1>4. CASE OtherMove /\ ~GraphGrows
  BY <1>1, <1>4 DEF OtherMove, Bounced, JobBegins, GraphExecuted, JobEnds, Signal, JobCancelled, OtherStoreCalls
<1>5. QED
  BY Moves, <1>1, <1>2, <1>3, <1>4

\* Every step keeps the books of the tables.
LEMMA KeepsTables ==
  ASSUME Control, TableBooks, [Next]_vars
  PROVE  TableBooks'
<1>0. /\ Types /\ PassTypes /\ dep' = dep /\ pass \in Nat /\ pass <= dep.passes /\ dep.passes \in Nat
      /\ Passes' = Passes /\ Passes = 1 .. dep.passes /\ tx \subseteq Txs
  <2>1. dep' = dep
    BY KeepsDeployment DEF Control, vars
  <2>2. QED
    BY <2>1, DeploymentsAssumption DEF Control, Types, DeploymentTypeOK, Passes, LoadTypeOK
<1>1. CASE UNCHANGED vars
  BY <1>1 DEF vars, passVars, TableBooks, Passes
<1>2. CASE Next
  <2>1. /\ tx \subseteq tx' /\ wallet \subseteq wallet' /\ \A t \in tx' : TxFrom[t] \in wallet'
    BY <1>0, <1>2, TablesGrow DEF TableBooks
  <2>2. CASE UNCHANGED <<pass, since, ledger>>
    BY <1>0, <2>1, <2>2 DEF TableBooks
  <2>3. CASE PassBegins
    <3>1. /\ pass' = pass + 1 /\ pass + 1 \in Passes
          /\ since' = [since EXCEPT ![pass + 1] = [txs |-> tx, wallets |-> wallet]] /\ ledger' = ledger
      BY <1>0, <2>3 DEF PassBegins
    <3>2. since'[pass + 1] = [txs |-> tx, wallets |-> wallet] /\ \A p \in Passes \ {pass + 1} : since'[p] = since[p]
      BY <1>0, <3>1 DEF PassTypes
    <3>3. since'[pass + 1].txs = tx /\ since'[pass + 1].wallets = wallet
      BY <3>2
    <3>4. ASSUME NEW p \in Passes, NEW t \in since'[p].txs PROVE TxFrom[t] \in since'[p].wallets
      BY <3>2, <3>3, <3>4 DEF TableBooks
    <3>5. \A p \in Passes : p > pass' => ledger'[p] = {}
      BY <1>0, <3>1 DEF TableBooks
    <3>6. QED
      BY <1>0, <2>1, <3>1, <3>3, <3>4, <3>5 DEF TableBooks
  <2>4. ASSUME NEW n \in Nodes, Recorded(n) PROVE TableBooks'
    <3>1. /\ pass' = pass /\ since' = since /\ \A p \in Passes : p > pass => ledger'[p] = ledger[p]
      BY <1>0, <2>4 DEF Recorded, PassTypes
    <3>2. QED
      BY <1>0, <2>1, <3>1 DEF TableBooks
  <2>5. QED
    BY <1>2, <2>2, <2>3, <2>4, HistoryFrames DEF HistoryFrame
<1>3. QED
  BY <1>1, <1>2

\* The tables a pass began with stay in the tables, transactions with their senders.
THEOREM TablesKept == Spec => []TableBooks
<1>1. Init => TableBooks
  <2>1. SUFFICES ASSUME Init PROVE TableBooks
    OBVIOUS
  <2>2. dep \in Deployments /\ tx = dep.txs /\ wallet = dep.wallets /\ pass = 0
    BY <2>1 DEF Init, DeploymentInit
  <2>3. \A t \in tx : TxFrom[t] \in wallet
    BY <2>2, TablesAssumption
  <2>4. 0 \notin Passes
    BY DEF Passes
  <2>5. QED
    BY <2>1, <2>2, <2>3, <2>4 DEF Init, TableBooks
<1>2. Control /\ TableBooks /\ [Next]_vars => TableBooks'
  BY KeepsTables
<1>3. QED
  BY <1>1, <1>2, ControlInvariant, PTL DEF Spec

-----------------------------------------------------------------------------
\* What is loaded for a pass.

\* What is loaded for a node whose call of loadWallets is under way, or has succeeded.
LoadHas(n) ==
  \A w \in Due(n) :
    /\ load[n].at \in {"iterate", "wait"} =>
         /\ load[n].fetchers = dep.fetchers => where[n][w] # "none"
         /\ where[n][w] \in {"fetch", "vertexCh"} => DueTxs(w) \subseteq got[n][w]
         /\ where[n][w] = "added" => DueTxs(w) \subseteq vertex[n][w].txs
    /\ load[n].at = "ok" => vertex[n][w].on /\ DueTxs(w) \subseteq vertex[n][w].txs

\* What is due in a pass does not change during it.
LEMMA DueStays ==
  ASSUME dep' = dep, pass' = pass, since' = since
  PROVE  /\ \A n : Due(n)' = Due(n)
         /\ \A w : DueTxs(w)' = DueTxs(w)
         /\ Passes' = Passes
  BY DEF Due, DueTxs, Within, Extents, PartitionOf, Passes

\* What is due is in the tables.
LEMMA DueThere ==
  ASSUME Types, TableBooks, pass \in Passes
  PROVE  /\ \A n : Due(n) \subseteq Wallets /\ \A w \in Due(n) : w \in wallet
         /\ \A w : DueTxs(w) \subseteq WalletTxs(w)
<1>1. since[pass].wallets \subseteq wallet /\ since[pass].txs \subseteq tx /\ wallet \subseteq Wallets
  BY DEF TableBooks, Types, LoadTypeOK
<1>2. QED
  BY <1>1 DEF Due, DueTxs, WalletTxs

\* A load that succeeds has all that is due, unless a result set broke off.
LEMMA LoadEnds ==
  ASSUME Control, NEW n \in Nodes, LoadHas(n), pass \in Passes, LoadSucceeds(n)
  PROVE  \A w \in Due(n) : vertex[n][w].on /\ DueTxs(w) \subseteq vertex[n][w].txs
<1>1. load[n].at = "wait" /\ load[n].done
  BY DEF LoadSucceeds
<1>2. UnderWay(n)
  BY <1>1, LoadFacts, BooksUnderWay
<1>3. load[n].seen = load[n].num /\ In(n, "todo") = {}
  BY <1>1, <1>2 DEF UnderWay
<1>4. Cardinality(In(n, "added")) = Cardinality(Under(n)) /\ load[n].fetchers = dep.fetchers
  BY <1>2, <1>3, RecordFacts DEF UnderWay
<1>5. In(n, "added") = Under(n)
  <2>1. In(n, "added") \in SUBSET Under(n) /\ IsFiniteSet(Under(n))
    BY LoadFacts, FiniteWallets
  <2>2. QED
    BY <1>4, <2>1, FS_Subset
<1>6. SUFFICES ASSUME NEW w \in Due(n) PROVE vertex[n][w].on /\ DueTxs(w) \subseteq vertex[n][w].txs
  OBVIOUS
<1>7. w \in Wallets /\ where[n][w] \in Places
  <2>1. since[pass].wallets \subseteq Wallets
    BY DEF Control, Types, PassTypes
  <2>2. QED
    BY <2>1, LoadFacts DEF Due
<1>8. where[n][w] # "none" /\ where[n][w] # "todo"
  BY <1>1, <1>3, <1>4, <1>7 DEF LoadHas, In
<1>9. w \in In(n, "added") /\ where[n][w] = "added"
  BY <1>5, <1>7, <1>8 DEF Places, Under, In
<1>10. QED
  BY <1>1, <1>2, <1>9 DEF UnderWay, LoadHas

\* A load that is under way will have it.
LEMMA LoaderHas ==
  ASSUME Control, TableBooks, NEW n \in Nodes, LoaderMove(n), UNCHANGED <<dep, pass, since, tx>>,
         pass \in Passes \ cut', LoadHas(n)
  PROVE  LoadHas(n)'
<1>0. vertex \in [Nodes -> [Wallets -> VertexRecord]]
  BY DEF Control, Types, GraphTypes
<1>1. /\ \A w \in Due(n) : w \in Wallets /\ DueTxs(w) \subseteq WalletTxs(w)
      /\ Due(n)' = Due(n) /\ \A w : DueTxs(w)' = DueTxs(w)
  BY DueStays, DueThere DEF Control
<1>2. /\ load \in [Nodes -> LoadRecord] /\ where \in [Nodes -> [Wallets -> Places]]
      /\ got \in [Nodes -> [Wallets -> SUBSET Txs]] /\ dep.fetchers \in Nat
      /\ load[n] \in LoadRecord /\ load[n].fetchers \in Nat /\ load[n].fetchers <= dep.fetchers
  BY LoadFacts
<1>3. ASSUME load'[n].at \notin {"iterate", "wait", "ok"} PROVE LoadHas(n)'
  BY <1>3 DEF LoadHas
<1>4. ASSUME load[n].at \in {"iterate", "wait"}, load'[n].at \in {"iterate", "wait"},
             load'[n].fetchers = dep.fetchers => load[n].fetchers = dep.fetchers,
             \A w \in Wallets :
               /\ where'[n][w] = "none" => where[n][w] = "none" \/ load'[n].fetchers # dep.fetchers
               /\ where'[n][w] \in {"fetch", "vertexCh"} =>
                    \/ where[n][w] \in {"fetch", "vertexCh"} /\ got'[n][w] = got[n][w]
                    \/ got'[n][w] = WalletTxs(w)
               /\ where'[n][w] = "added" =>
                    \/ where[n][w] = "added" /\ vertex'[n][w].txs = vertex[n][w].txs
                    \/ where[n][w] = "vertexCh" /\ vertex'[n][w].txs = got[n][w]
      PROVE  LoadHas(n)'
  BY <1>1, <1>4 DEF LoadHas
<1>5. CASE WalletsEnd(n) /\ UNCHANGED vertex
  <2>1. load'[n].at = "wait" /\ load'[n].fetchers = load[n].fetchers /\ UNCHANGED <<where, got, vertex>>
        /\ load[n].at = "iterate"
    BY <1>2, <1>5 DEF WalletsEnd, LoadRecord
  <2>2. QED
    BY <1>4, <2>1
<1>6. CASE NumberLearnt(n) /\ UNCHANGED vertex
  <2>1. load[n].at = "wait" /\ load'[n].at = "wait" /\ load'[n].fetchers = load[n].fetchers /\ UNCHANGED <<where, got, vertex>>
    BY <1>2, <1>6 DEF NumberLearnt, LoadRecord
  <2>2. QED
    BY <1>4, <2>1
<1>7. CASE AllAdded(n) /\ UNCHANGED vertex
  <2>1. load[n].known /\ load'[n].at = load[n].at /\ load'[n].fetchers = load[n].fetchers /\ UNCHANGED <<where, got, vertex>>
    BY <1>2, <1>7 DEF AllAdded, LoadRecord
  <2>2. load[n].at \in {"iterate", "wait"}
    BY <2>1, KnownLoad
  <2>3. QED
    BY <1>4, <2>1, <2>2
<1>8. CASE \/ WalletsCut(n) \/ \E w \in Wallets : WalletTxsCut(n, w)
  BY <1>8 DEF WalletsCut, WalletTxsCut
<1>9. CASE WalletsFail(n) \/ LoadGetsError(n) \/ LoadCancelled(n)
  <2>1. load'[n].at \in {"err", "cancelled"}
    BY <1>2, <1>9 DEF WalletsFail, LoadGetsError, LoadCancelled, LoadReturns, NoLoad
  <2>2. QED
    BY <1>3, <2>1
<1>10. CASE LoadSucceeds(n) /\ UNCHANGED vertex
  <2>1. load'[n].at = "ok"
    BY <1>2, <1>10 DEF LoadSucceeds, LoadReturns, NoLoad
  <2>2. \A w \in Due(n) : vertex[n][w].on /\ DueTxs(w) \subseteq vertex[n][w].txs
    BY <1>10, LoadEnds
  <2>3. QED
    BY <1>1, <1>10, <2>1, <2>2 DEF LoadHas
<1>11. ASSUME NEW v \in Wallets, WalletSent(n, v), UNCHANGED vertex PROVE LoadHas(n)'
  <2>1. /\ load[n].at = "iterate" /\ load'[n].at = "iterate" /\ load'[n].fetchers = load[n].fetchers
        /\ got' = got /\ vertex' = vertex /\ where'[n][v] = "addrCh" /\ \A w \in Wallets \ {v} : where'[n][w] = where[n][w]
    BY <1>2, <1>11 DEF WalletSent, Goes, LoadRecord
  <2>2. QED
    BY <1>4, <2>1
<1>12. ASSUME NEW v \in Wallets, FetchWalletTxs(n, v), UNCHANGED vertex PROVE LoadHas(n)'
  <2>1. /\ where[n][v] = "addrCh" /\ load' = load /\ where'[n][v] = "fetch"
        /\ \A w \in Wallets \ {v} : where'[n][w] = where[n][w] /\ got'[n][w] = got[n][w]
        /\ got'[n][v] = WalletTxs(v) /\ vertex' = vertex
    BY <1>2, <1>12 DEF FetchWalletTxs, Goes
  <2>2. load[n].at \in {"iterate", "wait"}
    BY <2>1, OnItsWay
  <2>3. QED
    BY <1>4, <2>1, <2>2
<1>13. ASSUME NEW v \in Wallets, VertexSent(n, v), UNCHANGED vertex PROVE LoadHas(n)'
  <2>1. /\ where[n][v] = "fetch" /\ load' = load /\ where'[n][v] = "vertexCh" /\ got' = got /\ vertex' = vertex
        /\ \A w \in Wallets \ {v} : where'[n][w] = where[n][w]
    BY <1>2, <1>13 DEF VertexSent, Goes
  <2>2. load[n].at \in {"iterate", "wait"}
    BY <2>1, OnItsWay
  <2>3. QED
    BY <1>4, <2>1, <2>2
<1>14. ASSUME NEW v \in Wallets, FetchFails(n, v), UNCHANGED vertex PROVE LoadHas(n)'
  <2>1. /\ where[n][v] = "fetch" /\ where'[n][v] = "none" /\ got' = got /\ vertex' = vertex
        /\ \A w \in Wallets \ {v} : where'[n][w] = where[n][w]
        /\ load'[n] = [load[n] EXCEPT !.fetchers = load[n].fetchers - 1, !.err = TRUE]
    BY <1>2, <1>14 DEF FetchFails, Goes
  <2>2. load[n].at \in {"iterate", "wait"}
    BY <2>1, OnItsWay
  <2>3. load'[n].at = load[n].at /\ load'[n].fetchers = load[n].fetchers - 1
    BY <1>2, <2>1 DEF LoadRecord
  <2>4. load'[n].fetchers # dep.fetchers
    BY <1>2, <2>3
  <2>5. QED
    BY <1>4, <2>1, <2>2, <2>3, <2>4
<1>15. ASSUME NEW v \in Wallets, VertexAdded(n, v) PROVE LoadHas(n)'
  <2>1. /\ where[n][v] = "vertexCh" /\ where'[n][v] = "added" /\ got' = got
        /\ \A w \in Wallets \ {v} : where'[n][w] = where[n][w]
        /\ load'[n].at = load[n].at /\ load'[n].fetchers = load[n].fetchers
    BY <1>2, <1>15 DEF VertexAdded, Goes, LoadRecord
  <2>2. load[n].at \in {"iterate", "wait"}
    BY <2>1, OnItsWay
  <2>3. vertex'[n][v].txs = got[n][v] /\ \A w \in Wallets \ {v} : vertex'[n][w] = vertex[n][w]
    <3>1. vertex' = [vertex EXCEPT ![n] = AddVertex(vertex[n], v, got[n][v])]
      BY <1>15 DEF VertexAdded
    <3>2. vertex'[n] = AddVertex(vertex[n], v, got[n][v])
      BY <1>0, <3>1
    <3>3. QED
      BY <1>2, <1>0, <3>2, VertexAddedTo
  <2>4. QED
    BY <1>4, <2>1, <2>2, <2>3
<1>16. ASSUME NEW r \in left[n], LateRowAdded(n, r) PROVE LoadHas(n)'
  <2>1. /\ load' = load /\ UNCHANGED <<where, got>>
        /\ vertex' = [vertex EXCEPT ![n] = AddVertex(vertex[n], r.wallet, r.txs)]
        /\ vertex[n][r.wallet].on /\ vertex[n][r.wallet].txs # r.txs => cut' = cut \cup {pass}
        /\ load[n].at \in {"iterate", "wait", "ok"}
    BY <1>16 DEF LateRowAdded
  <2>2. r.wallet \in Wallets /\ r.txs \in SUBSET Txs
    BY DEF Control, Types, LoadTypeOK
  <2>3. /\ vertex'[n][r.wallet].on /\ vertex'[n][r.wallet].txs = r.txs
        /\ \A w \in Wallets \ {r.wallet} : vertex'[n][w] = vertex[n][w]
    <3>1. vertex'[n] = AddVertex(vertex[n], r.wallet, r.txs)
      BY <1>0, <2>1
    <3>2. QED
      BY <1>0, <2>2, <3>1, VertexAddedTo
  <2>4. \A w \in Wallets : vertex[n][w].on => vertex'[n][w].on /\ vertex'[n][w].txs = vertex[n][w].txs
    BY <2>1, <2>3
  <2>5. CASE load[n].at = "ok"
    BY <1>1, <2>1, <2>4, <2>5 DEF LoadHas
  <2>6. CASE load[n].at \in {"iterate", "wait"}
    <3>1. \A w \in Wallets : where[n][w] = "added" => vertex[n][w].on
      BY <2>6, BooksUnderWay, LoadFacts DEF UnderWay, In
    <3>2. \A w \in Wallets : where'[n][w] = "added" =>
            where[n][w] = "added" /\ vertex'[n][w].txs = vertex[n][w].txs
      BY <2>1, <2>4, <3>1
    <3>3. QED
      BY <1>4, <2>1, <2>6, <3>2
  <2>7. QED
    BY <2>1, <2>5, <2>6
<1>17. QED
  BY <1>5, <1>6, <1>7, <1>8, <1>9, <1>10, <1>11, <1>12, <1>13, <1>14, <1>15, <1>16 DEF LoaderMove

\* Steps after which a node owes nothing that it did not owe before.
LEMMA CompleteStays ==
  ASSUME Types, NEW m \in dep.nodes, LoadComplete(m), dep' = dep, pass' = pass, since' = since, cut \subseteq cut',
         pass \in Passes => ledger[pass] \subseteq ledger'[pass],
         \/ at'[m] \notin {"load", "run", "store", "persisted", "failed"}
         \/ /\ at'[m] = "load" /\ at[m] = "load" /\ load'[m] = load[m] /\ where'[m] = where[m]
            /\ got'[m] = got[m] /\ vertex'[m] = vertex[m]
         \/ /\ at'[m] = "run" /\ at[m] = "run" /\ \A w \in Wallets : vertex'[m][w].on = vertex[m][w].on
         \/ /\ at'[m] \in {"store", "persisted", "failed"} /\ at[m] \in {"run", "store", "persisted", "failed"}
  PROVE  LoadComplete(m)'
<1>1. SUFFICES ASSUME pass \in Passes \ cut, NEW w \in Due(m)
      PROVE  /\ at'[m] = "load" /\ load'[m].at \in {"iterate", "wait"} =>
                  /\ load'[m].fetchers = dep.fetchers => where'[m][w] # "none"
                  /\ where'[m][w] \in {"fetch", "vertexCh"} => DueTxs(w) \subseteq got'[m][w]
                  /\ where'[m][w] = "added" => DueTxs(w) \subseteq vertex'[m][w].txs
             /\ at'[m] = "load" /\ load'[m].at = "ok" => vertex'[m][w].on /\ DueTxs(w) \subseteq vertex'[m][w].txs
             /\ at'[m] = "run" => vertex'[m][w].on
             /\ at'[m] \in {"run", "store", "persisted", "failed"} => DueTxs(w) \subseteq ledger'[pass]
  BY DueStays DEF LoadComplete
<1>2. w \in Wallets /\ ledger[pass] \subseteq ledger'[pass]
  BY <1>1 DEF Due, Types, PassTypes
<1>3. CASE at'[m] \notin {"load", "run", "store", "persisted", "failed"}
  BY <1>3
<1>4. CASE /\ at'[m] = "load" /\ at[m] = "load" /\ load'[m] = load[m] /\ where'[m] = where[m]
           /\ got'[m] = got[m] /\ vertex'[m] = vertex[m]
  BY <1>1, <1>4 DEF LoadComplete
<1>5. CASE /\ at'[m] = "run" /\ at[m] = "run" /\ \A x \in Wallets : vertex'[m][x].on = vertex[m][x].on
  BY <1>1, <1>2, <1>5 DEF LoadComplete
<1>6. CASE at'[m] \in {"store", "persisted", "failed"} /\ at[m] \in {"run", "store", "persisted", "failed"}
  BY <1>1, <1>2, <1>6 DEF LoadComplete
<1>7. QED
  BY <1>3, <1>4, <1>5, <1>6

\* All wallets of the partition are sent to the fetchers.
LEMMA BeginsComplete ==
  ASSUME Control, TableBooks', NEW n \in Nodes, dep' = dep, LoadBegins(n), UNCHANGED wallet, at'[n] = "load"
  PROVE  LoadComplete(n)'
<1>1. /\ load \in [Nodes -> LoadRecord] /\ where \in [Nodes -> [Wallets -> Places]]
  BY LoadFacts
<1>2. /\ \A w \in Wallets : where'[n][w] = IF w \in WalletsInPartition(n) THEN "todo" ELSE "none"
      /\ load'[n] = [NoLoad EXCEPT !.at = "iterate", !.fetchers = dep.fetchers]
  BY <1>1 DEF LoadBegins
<1>3. load'[n].at = "iterate"
  BY <1>2 DEF NoLoad
<1>4. SUFFICES ASSUME (pass \in Passes)', NEW w \in Due(n)' PROVE where'[n][w] = "todo"
  BY <1>3 DEF LoadComplete
<1>5. w \in wallet /\ w \in Wallets /\ Within(n, w)
  <2>1. since'[pass'].wallets \subseteq wallet
    BY <1>4 DEF TableBooks
  <2>2. wallet \subseteq Wallets
    BY DEF Control, Types, LoadTypeOK
  <2>3. QED
    BY <1>4, <2>1, <2>2 DEF Due, Within, Extents, PartitionOf
<1>6. w \in WalletsInPartition(n)
  BY <1>5 DEF WalletsInPartition, Within, Extents
<1>7. QED
  BY <1>2, <1>5, <1>6

\* The executor of a graph whose load succeeded.
LEMMA ExecutorComplete ==
  ASSUME Control, NEW n \in dep.nodes, LoadComplete(n), dep' = dep, pass' = pass, cut' = cut,
         at[n] = "load", load[n].at = "ok", Executor(n)
  PROVE  LoadComplete(n)'
<1>1. /\ since' = since /\ vertex' = vertex /\ at'[n] = "run" /\ n \in Nodes
      /\ ledger' = [ledger EXCEPT ![pass] = @ \cup LoadedTxs(n)]
  BY DeploymentsAssumption DEF Executor, NewExecutor, Goto, LoadedTxs, Control, Types, PassTypes, DeploymentTypeOK
<1>2. SUFFICES ASSUME pass \in Passes \ cut, NEW w \in Due(n)
      PROVE  vertex[n][w].on /\ DueTxs(w) \subseteq ledger'[pass]
  BY <1>1, DueStays DEF LoadComplete
<1>3. vertex[n][w].on /\ DueTxs(w) \subseteq vertex[n][w].txs
  BY <1>2 DEF LoadComplete
<1>4. w \in Wallets /\ ledger'[pass] = ledger[pass] \cup LoadedTxs(n)
  BY <1>1, <1>2 DEF Due, Control, Types, PassTypes
<1>5. QED
  BY <1>3, <1>4 DEF LoadedTxs

\* Ledgers grow, that of the pass only.
LEMMA LedgerGrows ==
  ASSUME Types, Next, pass \in Nat
  PROVE  \A p \in Passes : ledger[p] \subseteq ledger'[p] /\ (p < pass => ledger'[p] = ledger[p])
<1>1. CASE ledger' = ledger
  BY <1>1
<1>2. ASSUME NEW n \in Nodes, Recorded(n) PROVE \A p \in Passes : ledger[p] \subseteq ledger'[p] /\ (p < pass => ledger'[p] = ledger[p])
  BY <1>2 DEF Recorded, Types, PassTypes, Passes
<1>3. QED
  BY <1>1, <1>2, HistoryFrames DEF HistoryFrame, PassBegins

\* A pass that was cut short stays so.
LEMMA CutGrows ==
  ASSUME Types, Next
  PROVE  cut \subseteq cut' /\ (cut' = cut \/ cut' = cut \cup {pass})
<1> USE DEF deployment, tables, history, scoreVars, loadVars, passVars, graphVars, Goto, Mine, Working, Is
<1>1. ASSUME NEW n \in Nodes, LoaderStep(n) PROVE cut' = cut \/ cut' = cut \cup {pass}
  BY <1>1 DEF LoaderStep, LoaderMove, WalletsEnd, LoadSucceeds, LoadGetsError, NumberLearnt, AllAdded, WalletsCut, WalletsFail, LoadCancelled, WalletSent, FetchWalletTxs, VertexSent, WalletTxsCut, FetchFails, VertexAdded, LateRowAdded, Goes, NobodyIn, LeavesRows, LoadReturns
<1>2. ASSUME NEW n \in Nodes, StoreStep(n) PROVE cut' = cut \/ cut' = cut \cup {pass}
  BY <1>2 DEF StoreStep, StoreMove, MemoryUpsertScores, UpsertScoresLosesError, BulkUpsertScores
<1>3. ASSUME NEW n \in Nodes, MonolithPassBegins(n) PROVE cut' = cut \/ cut' = cut \cup {pass}
  BY <1>3 DEF MonolithPassBegins, PassBegins, LoadBegins
<1>4. ASSUME NEW n \in Nodes, MonolithLoaded(n) PROVE cut' = cut \/ cut' = cut \cup {pass}
  BY <1>4 DEF MonolithLoaded, Executor, NewExecutor
<1>5. ASSUME NEW n \in Nodes, MonolithStores(n) PROVE cut' = cut \/ cut' = cut \cup {pass}
  BY <1>5 DEF MonolithStores, ScoresAll
<1>6. ASSUME NEW n \in Nodes, MonolithPassCompletes(n) PROVE cut' = cut \/ cut' = cut \cup {pass}
  BY <1>6 DEF MonolithPassCompletes, Reset
<1>7. ASSUME NEW n \in Nodes, MonolithFails(n) PROVE cut' = cut \/ cut' = cut \cup {pass}
  BY <1>7 DEF MonolithFails
<1>8. ASSUME NEW n \in Nodes, ServiceStops(n) PROVE cut' = cut \/ cut' = cut \cup {pass}
  BY <1>8 DEF ServiceStops
<1>9. ASSUME NEW n \in Nodes, ProcessEnds(n) PROVE cut' = cut \/ cut' = cut \cup {pass}
  BY <1>9 DEF ProcessEnds, Reset
<1>10. ASSUME NEW n \in Nodes, StartJob(n) PROVE cut' = cut \/ cut' = cut \cup {pass}
  BY <1>10 DEF StartJob, Reset, LoadBegins
<1>11. ASSUME NEW n \in Nodes, WorkerLoaded(n) PROVE cut' = cut \/ cut' = cut \cup {pass}
  BY <1>11 DEF WorkerLoaded, Executor, NewExecutor
<1>12. ASSUME NEW n \in Nodes, CompleteJob(n) PROVE cut' = cut \/ cut' = cut \cup {pass}
  BY <1>12 DEF CompleteJob, ScoresAll
<1>13. ASSUME NEW n \in Nodes, ScoresPersisted(n) PROVE cut' = cut \/ cut' = cut \cup {pass}
  BY <1>13 DEF ScoresPersisted, Reset
<1>14. ASSUME NEW n \in Nodes, WorkerFails(n) PROVE cut' = cut \/ cut' = cut \cup {pass}
  BY <1>14 DEF WorkerFails, Reset
<1>15. ASSUME NEW n \in Nodes, AbortJob(n) PROVE cut' = cut \/ cut' = cut \cup {pass}
  BY <1>15 DEF AbortJob, Reset
<1>16. ASSUME NEW n \in Nodes, GraphRuns(n) PROVE cut' = cut \/ cut' = cut \cup {pass}
  BY <1>16 DEF GraphRuns
<1>17. ASSUME NEW n \in Nodes, StoreFails(n) PROVE cut' = cut \/ cut' = cut \cup {pass}
  BY <1>17 DEF StoreFails, UnknownScorer, UpsertScoresFails
<1>18. ASSUME NEW n \in Nodes, WorkerCrashes(n) PROVE cut' = cut \/ cut' = cut \cup {pass}
  BY <1>18 DEF WorkerCrashes, Reset, NobodyIn
<1>19. ASSUME NEW n \in Nodes \cup {Nobody}, NEW t \in Txs, Bounced(n, t) PROVE cut' = cut \/ cut' = cut \cup {pass}
  BY <1>19 DEF Bounced, RelayBounces
<1>20. ASSUME JobBegins PROVE cut' = cut \/ cut' = cut \cup {pass}
  BY <1>20 DEF JobBegins, PassBegins
<1>21. ASSUME GraphExecuted PROVE cut' = cut \/ cut' = cut \cup {pass}
  BY <1>21 DEF GraphExecuted
<1>22. ASSUME JobEnds PROVE cut' = cut \/ cut' = cut \cup {pass}
  BY <1>22 DEF JobEnds
<1>23. ASSUME Signal PROVE cut' = cut \/ cut' = cut \cup {pass}
  BY <1>23 DEF Signal
<1>24. ASSUME JobCancelled PROVE cut' = cut \/ cut' = cut \cup {pass}
  BY <1>24 DEF JobCancelled
<1>25. ASSUME GraphGrows PROVE cut' = cut \/ cut' = cut \cup {pass}
  BY <1>25 DEF GraphGrows
<1>26. ASSUME OtherStoreCalls PROVE cut' = cut \/ cut' = cut \cup {pass}
  BY <1>26 DEF OtherStoreCalls
<1>27. QED
  BY Moves, <1>1, <1>2, <1>3, <1>4, <1>5, <1>6, <1>7, <1>8, <1>9, <1>10, <1>11, <1>12, <1>13, <1>14, <1>15, <1>16, <1>17, <1>18, <1>19, <1>20, <1>21, <1>22, <1>23, <1>24, <1>25, <1>26 DEF NodeMove, OtherMove

\* A node's own steps keep what it has of what is due.
LEMMA OwnComplete ==
  ASSUME Control, TableBooks, Next, NEW n \in dep.nodes, NodeMove(n), LoadComplete(n)
  PROVE  LoadComplete(n)'
<1>0. /\ Types /\ PassTypes /\ n \in Nodes /\ pass \in Nat /\ NodeBooks(n)
  <2>1. Types /\ PassTypes /\ n \in Nodes /\ pass \in Nat
    BY DeploymentsAssumption DEF Control, Types, DeploymentTypeOK
  <2>2. QED
    BY <2>1 DEF Control, PlaceBooks
<1>1. /\ dep' = dep /\ UNCHANGED tables /\ TableBooks' /\ cut \subseteq cut'
  BY <1>0, KeepsDeployment, KeepsTables, OtherNodes, CutGrows DEF NodeFrame
<1>2. \A p \in Passes : ledger[p] \subseteq ledger'[p]
  BY <1>0, LedgerGrows
<1> USE DEF deployment, tables, history, scoreVars, loadVars, passVars, graphVars, Goto, Mine, Working, Is
<1>3. ASSUME LoaderStep(n) PROVE LoadComplete(n)'
  <2>1. LoaderMove(n) /\ UNCHANGED <<dep, pass, since, tx, at, ledger>> /\ at[n] = "load"
    BY <1>3 DEF LoaderStep
  <2>2. CASE pass \in Passes \ cut'
    <3>1. LoadHas(n)
      BY <1>1, <2>1, <2>2 DEF LoadHas, LoadComplete
    <3>2. LoadHas(n)'
      BY <1>0, <2>1, <2>2, <3>1, LoaderHas
    <3>3. QED
      BY <1>1, <2>1, <3>2 DEF LoadHas, LoadComplete
  <2>3. CASE pass \notin Passes \ cut'
    BY <1>1, <2>1, <2>3, DueStays DEF LoadComplete
  <2>4. QED
    BY <2>2, <2>3
<1>4. ASSUME StoreStep(n) PROVE LoadComplete(n)'
  <2>1. at' = at /\ at[n] = "store" /\ UNCHANGED <<pass, since, ledger, cut>>
    BY <1>4 DEF StoreStep, StoreMove
  <2>2. QED
    BY <1>0, <1>1, <1>2, <2>1, CompleteStays
<1>5. ASSUME MonolithPassBegins(n) PROVE LoadComplete(n)'
  <2>1. LoadBegins(n) /\ at'[n] = "load" /\ UNCHANGED wallet
    BY <1>0, <1>1, <1>5 DEF MonolithPassBegins, PassTypes
  <2>2. QED
    BY <1>0, <1>1, <2>1, BeginsComplete
<1>6. ASSUME MonolithLoaded(n) PROVE LoadComplete(n)'
  <2>1. pass' = pass /\ cut' = cut /\ at[n] = "load" /\ load[n].at \in {"ok", "cancelled"}
    BY <1>6 DEF MonolithLoaded
  <2>2. CASE ctx = "done"
    <3>1. at'[n] = "idle" /\ since' = since /\ ledger' = ledger
      BY <1>0, <1>6, <2>2 DEF MonolithLoaded, PassTypes
    <3>2. QED
      BY <1>0, <1>1, <1>2, <2>1, <3>1, CompleteStays
  <2>3. CASE ctx # "done"
    <3>1. Executor(n) /\ load[n].at = "ok"
      BY <1>0, <1>6, <2>1, <2>3 DEF MonolithLoaded, NodeBooks
    <3>2. QED
      BY <1>0, <1>1, <2>1, <3>1, ExecutorComplete
  <2>4. QED
    BY <2>2, <2>3
<1>7. ASSUME MonolithStores(n) PROVE LoadComplete(n)'
  <2>1. at'[n] = "store" /\ at[n] = "run" /\ UNCHANGED <<pass, since, ledger, cut>>
    BY <1>0, <1>7 DEF MonolithStores, ScoresAll, PassTypes
  <2>2. QED
    BY <1>0, <1>1, <1>2, <2>1, CompleteStays
<1>8. ASSUME MonolithPassCompletes(n) PROVE LoadComplete(n)'
  <2>1. at'[n] = "idle" /\ at[n] = "store" /\ UNCHANGED <<pass, since, ledger, cut>>
    BY <1>0, <1>8 DEF MonolithPassCompletes, Reset, PassTypes
  <2>2. QED
    BY <1>0, <1>1, <1>2, <2>1, CompleteStays
<1>9. ASSUME MonolithFails(n) PROVE LoadComplete(n)'
  <2>1. at'[n] = "returned" /\ UNCHANGED <<pass, since, ledger, cut>>
    BY <1>0, <1>9 DEF MonolithFails, PassTypes
  <2>2. QED
    BY <1>0, <1>1, <1>2, <2>1, CompleteStays
<1>10. ASSUME ServiceStops(n) PROVE LoadComplete(n)'
  <2>1. at'[n] = "returned" /\ UNCHANGED <<pass, since, ledger, cut>>
    BY <1>0, <1>10 DEF ServiceStops, PassTypes
  <2>2. QED
    BY <1>0, <1>1, <1>2, <2>1, CompleteStays
<1>11. ASSUME ProcessEnds(n) PROVE LoadComplete(n)'
  <2>1. at'[n] = "idle" /\ UNCHANGED <<pass, since, ledger, cut>>
    BY <1>0, <1>11 DEF ProcessEnds, Reset, PassTypes
  <2>2. QED
    BY <1>0, <1>1, <1>2, <2>1, CompleteStays
<1>12. ASSUME StartJob(n) PROVE LoadComplete(n)'
  <2>1. LoadBegins(n) /\ at'[n] = "load" /\ UNCHANGED wallet
    BY <1>0, <1>1, <1>12 DEF StartJob, PassTypes
  <2>2. QED
    BY <1>0, <1>1, <2>1, BeginsComplete
<1>13. ASSUME WorkerLoaded(n) PROVE LoadComplete(n)'
  <2>1. pass' = pass /\ cut' = cut /\ at[n] = "load" /\ load[n].at = "ok" /\ Executor(n)
    BY <1>13 DEF WorkerLoaded
  <2>2. QED
    BY <1>0, <1>1, <2>1, ExecutorComplete
<1>14. ASSUME CompleteJob(n) PROVE LoadComplete(n)'
  <2>1. at'[n] = "store" /\ at[n] = "run" /\ UNCHANGED <<pass, since, ledger, cut>>
    BY <1>0, <1>14 DEF CompleteJob, ScoresAll, PassTypes
  <2>2. QED
    BY <1>0, <1>1, <1>2, <2>1, CompleteStays
<1>15. ASSUME ScoresPersisted(n) PROVE LoadComplete(n)'
  <2>1. at'[n] = "persisted" /\ at[n] = "store" /\ UNCHANGED <<pass, since, ledger, cut>>
    BY <1>0, <1>15 DEF ScoresPersisted, Reset, PassTypes
  <2>2. QED
    BY <1>0, <1>1, <1>2, <2>1, CompleteStays
<1>16. ASSUME WorkerFails(n) PROVE LoadComplete(n)'
  <2>1. at'[n] = "gone" /\ UNCHANGED <<pass, since, ledger, cut>>
    BY <1>0, <1>16 DEF WorkerFails, Reset, PassTypes
  <2>2. QED
    BY <1>0, <1>1, <1>2, <2>1, CompleteStays
<1>17. ASSUME AbortJob(n) PROVE LoadComplete(n)'
  <2>1. at'[n] = "gone" /\ UNCHANGED <<pass, since, ledger, cut>>
    BY <1>0, <1>17 DEF AbortJob, Reset, PassTypes
  <2>2. QED
    BY <1>0, <1>1, <1>2, <2>1, CompleteStays
<1>18. ASSUME GraphRuns(n) PROVE LoadComplete(n)'
  <2>1. /\ (GraphStep(n) \/ StepContextDone(n)) /\ at' = at /\ at[n] = "run" /\ UNCHANGED <<pass, since, ledger, cut>>
    BY <1>18 DEF GraphRuns
  <2>2. \A w \in Wallets : vertex'[n][w].on = vertex[n][w].on
    BY <1>0, <2>1, StepVertices
  <2>3. QED
    BY <1>0, <1>1, <1>2, <2>1, <2>2, CompleteStays
<1>19. ASSUME StoreFails(n) PROVE LoadComplete(n)'
  <2>1. at'[n] = "failed" /\ at[n] = "store" /\ UNCHANGED <<pass, since, ledger, cut>>
    BY <1>0, <1>19 DEF StoreFails, UnknownScorer, UpsertScoresFails, PassTypes
  <2>2. QED
    BY <1>0, <1>1, <1>2, <2>1, CompleteStays
<1>20. ASSUME WorkerCrashes(n) PROVE LoadComplete(n)'
  <2>1. at'[n] = "gone" /\ UNCHANGED <<pass, since, ledger, cut>>
    BY <1>0, <1>20 DEF WorkerCrashes, Reset, NobodyIn, PassTypes
  <2>2. QED
    BY <1>0, <1>1, <1>2, <2>1, CompleteStays
<1>21. QED
  BY <1>3, <1>4, <1>5, <1>6, <1>7, <1>8, <1>9, <1>10, <1>11, <1>12, <1>13, <1>14, <1>15, <1>16, <1>17, <1>18, <1>19, <1>20 DEF NodeMove

\* Where a wallet belongs, unless it has the last address.
LEMMA OwnerThere ==
  ASSUME Types, NEW w \in Wallets, Addr[w] # MaxAddr
  PROVE  \E n \in dep.nodes : Within(n, w)
<1> DEFINE num == Cardinality(dep.nodes)
<1> DEFINE p == PartitionForAddr(NewFullRange(num), Addr[w])
<1>1. num \in Nat \ {0} /\ Addr[w] \in Address
  BY PartitionOfNode, WalletsAssumption
<1>2. /\ p # Nobody => p \in 0 .. num - 1 /\ InExtents(Addr[w], PartitionExtents(NewFullRange(num), p))
      /\ Before(Addr[w], MaxAddr) => p # Nobody
  BY <1>1, PartitionSound
<1>3. Before(Addr[w], MaxAddr)
  BY <1>1, BeforeMax
<1>4. PICK n \in dep.nodes : PartitionOf(n) = p
  BY <1>2, <1>3, PartitionOfNode
<1>5. QED
  BY <1>2, <1>3, <1>4 DEF Within, Extents

\* When all graphs are loaded, the ledger has what it needs.
LEMMA AllLoaded ==
  ASSUME Types, TableBooks, pass \in Passes,
         \A n \in dep.nodes : LoadComplete(n) /\ at[n] \in {"run", "store", "persisted", "failed"}
  PROVE  Complete(pass)
<1>1. SUFFICES ASSUME pass \notin cut, NEW t \in Needed(pass) PROVE t \in ledger[pass]
  BY DEF Complete
<1>2. /\ t \in since[pass].txs /\ Addr[TxFrom[t]] # MaxAddr /\ TxFrom[t] \in since[pass].wallets
      /\ TxFrom[t] \in Wallets
  BY TxAssumption DEF Needed, TableBooks, Types, PassTypes
<1>3. PICK n \in dep.nodes : Within(n, TxFrom[t])
  BY <1>2, OwnerThere
<1>4. TxFrom[t] \in Due(n) /\ t \in DueTxs(TxFrom[t])
  BY <1>2, <1>3 DEF Due, DueTxs
<1>5. DueTxs(TxFrom[t]) \subseteq ledger[pass]
  BY <1>1, <1>3, <1>4 DEF LoadComplete
<1>6. QED
  BY <1>4, <1>5

\* A pass whose ledger has what it needs keeps it.
LEMMA CompleteKept ==
  ASSUME Types, Next
  PROVE  \A p \in 1 .. pass : Complete(p) => Complete(p)'
<1>1. pass \in Nat /\ pass <= dep.passes /\ dep.passes \in Nat /\ cut \subseteq cut' /\ PassTypes
  BY CutGrows, DeploymentsAssumption DEF Types, DeploymentTypeOK
<1>2. \A p \in 1 .. pass : p \in Passes /\ ledger[p] \subseteq ledger'[p]
  BY <1>1, LedgerGrows DEF Passes
<1>3. \A p \in 1 .. pass : since'[p] = since[p]
  <2>1. CASE since' = since
    BY <2>1
  <2>2. CASE PassBegins
    <3>1. since' = [since EXCEPT ![pass + 1] = [txs |-> tx, wallets |-> wallet]]
      BY <2>2 DEF PassBegins
    <3>2. QED
      BY <1>1, <1>2, <3>1 DEF PassTypes
  <2>3. QED
    BY <2>1, <2>2, HistoryFrames DEF HistoryFrame, Recorded
<1>4. QED
  BY <1>1, <1>2, <1>3 DEF Complete, Needed

\* Passes begin with a node's step in the monolith only.
LEMMA NodePass ==
  ASSUME NEW n \in Nodes, NodeMove(n)
  PROVE  UNCHANGED <<pass, since>> \/ MonolithPassBegins(n)
<1> USE DEF deployment, tables, history, scoreVars, loadVars, passVars, graphVars, Goto, Mine, Working, Is
<1>1. ASSUME LoaderStep(n) PROVE UNCHANGED <<pass, since>> \/ MonolithPassBegins(n)
  BY <1>1 DEF LoaderStep, LoaderMove, WalletsEnd, LoadSucceeds, LoadGetsError, NumberLearnt, AllAdded, WalletsCut, WalletsFail, LoadCancelled, WalletSent, FetchWalletTxs, VertexSent, WalletTxsCut, FetchFails, VertexAdded, LateRowAdded, Goes, NobodyIn, LeavesRows, LoadReturns
<1>2. ASSUME StoreStep(n) PROVE UNCHANGED <<pass, since>> \/ MonolithPassBegins(n)
  BY <1>2 DEF StoreStep, StoreMove, MemoryUpsertScores, UpsertScoresLosesError, BulkUpsertScores
<1>3. ASSUME MonolithPassBegins(n) PROVE UNCHANGED <<pass, since>> \/ MonolithPassBegins(n)
  BY <1>3 DEF MonolithPassBegins, PassBegins, LoadBegins
<1>4. ASSUME MonolithLoaded(n) PROVE UNCHANGED <<pass, since>> \/ MonolithPassBegins(n)
  BY <1>4 DEF MonolithLoaded, Executor, NewExecutor
<1>5. ASSUME MonolithStores(n) PROVE UNCHANGED <<pass, since>> \/ MonolithPassBegins(n)
  BY <1>5 DEF MonolithStores, ScoresAll
<1>6. ASSUME MonolithPassCompletes(n) PROVE UNCHANGED <<pass, since>> \/ MonolithPassBegins(n)
  BY <1>6 DEF MonolithPassCompletes, Reset
<1>7. ASSUME MonolithFails(n) PROVE UNCHANGED <<pass, since>> \/ MonolithPassBegins(n)
  BY <1>7 DEF MonolithFails
<1>8. ASSUME ServiceStops(n) PROVE UNCHANGED <<pass, since>> \/ MonolithPassBegins(n)
  BY <1>8 DEF ServiceStops
<1>9. ASSUME ProcessEnds(n) PROVE UNCHANGED <<pass, since>> \/ MonolithPassBegins(n)
  BY <1>9 DEF ProcessEnds, Reset
<1>10. ASSUME StartJob(n) PROVE UNCHANGED <<pass, since>> \/ MonolithPassBegins(n)
  BY <1>10 DEF StartJob, Reset, LoadBegins
<1>11. ASSUME WorkerLoaded(n) PROVE UNCHANGED <<pass, since>> \/ MonolithPassBegins(n)
  BY <1>11 DEF WorkerLoaded, Executor, NewExecutor
<1>12. ASSUME CompleteJob(n) PROVE UNCHANGED <<pass, since>> \/ MonolithPassBegins(n)
  BY <1>12 DEF CompleteJob, ScoresAll
<1>13. ASSUME ScoresPersisted(n) PROVE UNCHANGED <<pass, since>> \/ MonolithPassBegins(n)
  BY <1>13 DEF ScoresPersisted, Reset
<1>14. ASSUME WorkerFails(n) PROVE UNCHANGED <<pass, since>> \/ MonolithPassBegins(n)
  BY <1>14 DEF WorkerFails, Reset
<1>15. ASSUME AbortJob(n) PROVE UNCHANGED <<pass, since>> \/ MonolithPassBegins(n)
  BY <1>15 DEF AbortJob, Reset
<1>16. ASSUME GraphRuns(n) PROVE UNCHANGED <<pass, since>> \/ MonolithPassBegins(n)
  BY <1>16 DEF GraphRuns
<1>17. ASSUME StoreFails(n) PROVE UNCHANGED <<pass, since>> \/ MonolithPassBegins(n)
  BY <1>17 DEF StoreFails, UnknownScorer, UpsertScoresFails
<1>18. ASSUME WorkerCrashes(n) PROVE UNCHANGED <<pass, since>> \/ MonolithPassBegins(n)
  BY <1>18 DEF WorkerCrashes, Reset, NobodyIn
<1>19. QED
  BY <1>1, <1>2, <1>3, <1>4, <1>5, <1>6, <1>7, <1>8, <1>9, <1>10, <1>11, <1>12, <1>13, <1>14, <1>15, <1>16, <1>17, <1>18 DEF NodeMove

\* Every step keeps the books of the ledger.
LEMMA KeepsLedger ==
  ASSUME Control, TableBooks, LedgerBooks, Next
  PROVE  LedgerBooks'
<1>0. /\ Types /\ PassTypes /\ dep' = dep /\ pass \in Nat /\ dep.nodes \subseteq Nodes /\ dep.passes \in Nat
      /\ pass <= dep.passes /\ cut \subseteq cut' /\ JobBooks
      /\ \A n \in Nodes : NodeBooks(n)
  BY KeepsDeployment, CutGrows, DeploymentsAssumption DEF Control, Types, DeploymentTypeOK, PlaceBooks
<1>2. \A p \in Passes : ledger[p] \subseteq ledger'[p]
  BY <1>0, LedgerGrows
<1>3. ASSUME NEW n \in Nodes, NodeMove(n), NEW m \in dep.nodes PROVE LoadComplete(m)'
  <2>1. CASE m = n
    BY <1>3, <2>1, OwnComplete DEF LedgerBooks
  <2>2. CASE m # n
    <3>1. Same(m) /\ m \in Nodes
      BY <1>0, <1>3, <2>2, OtherNodes DEF NodeFrame
    <3>2. UNCHANGED <<pass, since>>
      <4>1. MonolithPassBegins(n) => Monolith /\ n \in dep.nodes
        BY DEF MonolithPassBegins, Mine, Is
      <4>2. QED
        BY <1>0, <1>3, <2>2, <4>1, NodePass, OneNode
    <3>3. LoadComplete(m) /\ at[m] \in {"idle", "start", "load", "run", "store", "persisted", "failed", "gone",
                       "returned"}
      BY <1>0, <3>1 DEF LedgerBooks, PassTypes
    <3>4. QED
      BY <1>0, <1>2, <3>1, <3>2, <3>3, CompleteStays DEF Same
  <2>3. QED
    BY <2>1, <2>2
<1>4. ASSUME OtherMove, NEW m \in dep.nodes PROVE LoadComplete(m)'
  <2>1. CASE JobBegins \/ JobEnds
    <3>1. at'[m] \in {"start", "idle"}
      BY <1>0, <2>1 DEF JobBegins, JobEnds
    <3>2. QED
      BY <3>1 DEF LoadComplete
  <2>2. CASE ~(JobBegins \/ JobEnds)
    <3>1. UNCHANGED <<at, pass, since, ledger, load, where, got, cut>>
      BY <1>4, <2>2 DEF OtherMove, Bounced, GraphExecuted, Signal, JobCancelled, GraphGrows, OtherStoreCalls,
         deployment, passVars, history, loadVars
    <3>2. vertex' = vertex
      BY <1>4, <2>2 DEF OtherMove, Bounced, GraphExecuted, Signal, JobCancelled, GraphGrows, OtherStoreCalls,
         graphVars
    <3>3. LoadComplete(m) /\ at[m] \in {"idle", "start", "load", "run", "store", "persisted", "failed", "gone",
                       "returned"}
      BY <1>0 DEF LedgerBooks, PassTypes
    <3>4. QED
      BY <1>0, <1>2, <3>1, <3>2, <3>3, CompleteStays
  <2>3. QED
    BY <2>1, <2>2
<1>5. ASSUME job' = "executed" PROVE Complete(pass)'
  <2>1. CASE GraphExecuted
    <3>1. pass \in Passes
      <4>1. PICK n \in dep.nodes : TRUE
        BY <1>0, DeploymentsAssumption DEF Types, DeploymentTypeOK
      <4>2. at[n] = "run" /\ NodeBooks(n)
        BY <1>0, <2>1, <4>1 DEF GraphExecuted
      <4>3. pass # 0
        BY <4>2 DEF NodeBooks
      <4>4. QED
        BY <1>0, <4>3 DEF Passes
    <3>2. Complete(pass)
      BY <1>0, <2>1, <3>1, AllLoaded DEF GraphExecuted, LedgerBooks
    <3>3. pass \in 1 .. pass /\ pass' = pass
      BY <1>0, <2>1, <3>1 DEF GraphExecuted, Passes
    <3>4. QED
      BY <1>0, <3>2, <3>3, CompleteKept
  <2>2. CASE ~GraphExecuted
    <3>1. job = "executed" /\ ~JobBegins
      <4>1. ASSUME NEW n \in Nodes, NodeMove(n) PROVE job' = job /\ ~JobBegins
        BY <1>0, <1>5, <4>1, OtherNodes DEF NodeFrame, JobBegins
      <4>2. ASSUME OtherMove PROVE job = "executed" /\ ~JobBegins
        BY <1>5, <2>2, <4>2 DEF OtherMove, Bounced, JobBegins, JobEnds, Signal, JobCancelled, GraphGrows, OtherStoreCalls,
         passVars
      <4>3. QED
        BY <1>5, <4>1, <4>2, Moves
    <3>2. ~Monolith
      BY <1>0, <3>1 DEF JobBooks
    <3>3. pass' = pass
      <4>1. ASSUME NEW n \in Nodes, NodeMove(n) PROVE pass' = pass
        BY <3>2, <4>1, NodePass DEF MonolithPassBegins, Mine
      <4>2. ASSUME OtherMove PROVE pass' = pass
        BY <3>1, <4>2 DEF OtherMove, Bounced, GraphExecuted, JobEnds, Signal, JobCancelled, GraphGrows, OtherStoreCalls
      <4>3. QED
        BY <4>1, <4>2, Moves
    <3>4. Complete(pass) /\ pass # 0
      <4>1. PICK n \in dep.nodes : TRUE
        BY <1>0, DeploymentsAssumption DEF Types, DeploymentTypeOK
      <4>2. at[n] # "idle" /\ NodeBooks(n)
        BY <1>0, <3>1, <3>2, <4>1 DEF JobBooks
      <4>3. pass # 0
        BY <3>2, <4>2 DEF NodeBooks
      <4>4. QED
        BY <3>1, <4>3 DEF LedgerBooks
    <3>5. pass \in 1 .. pass
      BY <1>0, <3>4
    <3>6. QED
      BY <1>0, <3>3, <3>4, <3>5, CompleteKept
  <2>3. QED
    BY <2>1, <2>2
<1>6. \A m \in dep.nodes : LoadComplete(m)'
  BY <1>3, <1>4, Moves
<1>7. QED
  BY <1>0, <1>5, <1>6 DEF LedgerBooks

\* When all workers have executed their graphs, the ledger of the pass has all that was in
\* the tables when it began.
THEOREM LedgersComplete == Spec => [](TableBooks /\ LedgerBooks)
<1>1. Init => LedgerBooks
  <2>1. SUFFICES ASSUME Init PROVE LedgerBooks
    OBVIOUS
  <2>2. pass = 0 /\ job = "off" /\ pass \notin Passes
    BY <2>1 DEF Init, DeploymentInit, Passes
  <2>3. QED
    BY <2>2 DEF LedgerBooks, LoadComplete
<1>2. Control /\ TableBooks /\ LedgerBooks /\ [Next]_vars => LedgerBooks'
  <2>1. SUFFICES ASSUME Control, TableBooks, LedgerBooks, [Next]_vars PROVE LedgerBooks'
    OBVIOUS
  <2>2. CASE UNCHANGED vars
    <3>1. UNCHANGED <<dep, pass, since, ledger, at, job, load, where, got, cut, vertex>>
      BY <2>2 DEF vars, graphVars, loadVars, passVars
    <3>2. Complete(pass)' <=> Complete(pass)
      BY <3>1 DEF Complete, Needed
    <3>3. ASSUME NEW n \in dep.nodes PROVE LoadComplete(n)'
      <4>1. LoadComplete(n)
        BY <2>1 DEF LedgerBooks
      <4>2. QED
        BY <3>1, <4>1, DueStays DEF LoadComplete
    <3>4. QED
      BY <2>1, <3>1, <3>2, <3>3 DEF LedgerBooks
  <2>3. CASE Next
    BY <2>1, <2>3, KeepsLedger
  <2>4. QED
    BY <2>1, <2>2, <2>3
<1>3. QED
  BY <1>1, <1>2, ControlInvariant, TablesKept, PTL DEF Spec

-----------------------------------------------------------------------------
\* The computation: where each vertex is in it.

Computing ==
  /\ BarrierBooks /\ SenderBooks
  /\ \A n \in Running : \A w \in VerticesOf(n) : ValueBooks(n, w)
  /\ \A m \in relay : RelayBooks(m[1], m[2])

\* A vertex before it sends, between sending and adding, and afterwards.
Waiting(n, w) ==
  LET v == vertex[n][w]
  IN /\ v.txs = Spent(w) /\ v.active /\ v.value = 0
     /\ v.queue[1] = NoMsgs /\ v.queue[0] = EnqueueAll(NoMsgs, Delivered(n, w))
Sent(n, w) ==
  LET v == vertex[n][w]
  IN /\ v.txs = {} /\ ~v.active /\ v.value = 0 - Cost(Spent(w))
     /\ v.queue[1] = NoMsgs /\ v.queue[0] = EnqueueAll(NoMsgs, Delivered(n, w))
Settled(n, w) ==
  LET v == vertex[n][w]
  IN /\ v.txs = {} /\ ~v.active /\ v.value = Balance(w, ledger[pass])
     /\ v.queue[1] = NoMsgs /\ v.queue[0] = NoMsgs

\* The books of a vertex, by where it is.
LEMMA Phases ==
  ASSUME GraphTypes, NEW n \in Nodes, NEW w \in Wallets
  PROVE  ValueBooks(n, w) <=>
           IF Computed(n, w, 2) THEN Settled(n, w)
           ELSE IF Computed(n, w, 1) THEN Sent(n, w) ELSE Waiting(n, w)
<1>1. superstep[n] \in Nat /\ vertex[n][w] \in VertexRecord
  BY DEF GraphTypes
<1>2. Computed(n, w, 2) => Computed(n, w, 1)
  BY <1>1 DEF Computed
<1>3. vertex[n][w].active \in BOOLEAN
  BY <1>1 DEF VertexRecord
<1>4. CASE Computed(n, w, 2)
  BY <1>2, <1>3, <1>4 DEF ValueBooks, Settled
<1>5. CASE ~Computed(n, w, 2) /\ Computed(n, w, 1)
  BY <1>3, <1>5 DEF ValueBooks, Sent
<1>6. CASE ~Computed(n, w, 2) /\ ~Computed(n, w, 1)
  BY <1>3, <1>6 DEF ValueBooks, Waiting
<1>7. QED
  BY <1>2, <1>4, <1>5, <1>6

\* The same, after a step.
LEMMA PhasesNext ==
  ASSUME GraphTypes', NEW n \in Nodes, NEW w \in Wallets
  PROVE  ValueBooks(n, w)' <=>
           (IF Computed(n, w, 2) THEN Settled(n, w)
            ELSE IF Computed(n, w, 1) THEN Sent(n, w) ELSE Waiting(n, w))'
  BY Phases, PTL

\* What is known while no graph failed or was reset.
LEMMA IntactFacts ==
  ASSUME Control, Intact
  PROVE  /\ Types /\ GraphTypes /\ PassTypes /\ dep.nodes \subseteq Nodes /\ dep.nodes # {}
         /\ pass \in Passes /\ ledger[pass] \in SUBSET Txs
         /\ \A t \in ledger[pass] : t \in Txs /\ TxFrom[t] \in Wallets /\ TxTo[t] \in Wallets
         /\ \A n \in dep.nodes : NodeBooks(n)
         /\ Running \subseteq dep.nodes
         /\ \A n \in Running : n \in Nodes /\ at[n] = "run" /\ ~stepErr[n] /\ run[n] \in {"pre", "step", "post", "stop"}
<1>1. Types /\ GraphTypes /\ PassTypes /\ dep.nodes \subseteq Nodes /\ dep.nodes # {}
      /\ pass \in Nat /\ pass <= dep.passes /\ dep.passes \in Nat
  BY DeploymentsAssumption DEF Control, Types, DeploymentTypeOK
<1>2. \A n \in dep.nodes : NodeBooks(n)
  BY <1>1 DEF Control, PlaceBooks
<1>3. pass # 0
  <2>1. PICK n \in dep.nodes : TRUE
    BY <1>1
  <2>2. at[n] \in {"start", "load", "run"}
    BY <2>1 DEF Intact
  <2>3. QED
    BY <1>2, <2>1, <2>2 DEF NodeBooks
<1>4. pass \in Passes
  BY <1>1, <1>3 DEF Passes
<1>5. ledger[pass] \in SUBSET Txs
  BY <1>1, <1>4 DEF PassTypes
<1>6. ASSUME NEW n \in Running
      PROVE  n \in Nodes /\ at[n] = "run" /\ ~stepErr[n] /\ run[n] \in {"pre", "step", "post", "stop"}
  <2>1. n \in dep.nodes /\ n \in Nodes /\ at[n] = "run"
    BY <1>1, <1>6 DEF Running
  <2>2. run[n] # "err" /\ ~stepErr[n] /\ run[n] # "off"
    BY <1>2, <2>1 DEF Intact, NodeBooks
  <2>3. run[n] \in {"off", "pre", "step", "post", "stop", "err"}
    BY <1>1, <2>1 DEF GraphTypes
  <2>4. QED
    BY <2>1, <2>2, <2>3
<1>7. Running \subseteq dep.nodes
  BY DEF Running
<1>8. QED
  BY <1>1, <1>2, <1>4, <1>5, <1>6, <1>7, TxAssumption

\* The vertex of a wallet is in one graph, and has its own transactions.
LEMMA OneOwner ==
  ASSUME Control, BoundariesInOrder, NEW n \in dep.nodes, NEW w \in Wallets, vertex[n][w].on
  PROVE  Within(n, w) /\ OwnerOf(w) = n
<1>1. Types /\ n \in Nodes
  BY DeploymentsAssumption DEF Control, Types, DeploymentTypeOK
<1>2. VertexBooks(n, w)
  BY <1>1 DEF Control, GraphBooks
<1>3. Within(n, w)
  BY <1>2 DEF VertexBooks
<1>4. QED
  BY <1>1, <1>3, Owner

\* A vertex has transactions of its own wallet only.
LEMMA OwnTxs ==
  ASSUME Control, NEW n \in dep.nodes, NEW w \in Wallets, NEW t \in vertex[n][w].txs
  PROVE  TxFrom[t] = w /\ vertex[n][w].on /\ t \in Txs
<1>1. n \in Nodes /\ GraphTypes
  BY DeploymentsAssumption DEF Control, Types, DeploymentTypeOK
<1>2. VertexBooks(n, w)
  BY <1>1 DEF Control, GraphBooks
<1>3. vertex[n][w].on
  BY <1>2 DEF VertexBooks, NoVertex
<1>4. QED
  BY <1>1, <1>2, <1>3 DEF VertexBooks, GraphTypes, VertexRecord

\* What the books of the computation are about.
LEMMA SameLedger ==
  ASSUME ledger'[pass'] = ledger[pass]
  PROVE  /\ \A w : Spent(w)' = Spent(w) /\ Earned(w)' = Earned(w)
         /\ \A w : Balance(w, ledger[pass])' = Balance(w, ledger[pass])
         /\ \A w : Cost(Spent(w))' = Cost(Spent(w))
<1>1. \A w : Spent(w)' = Spent(w) /\ Earned(w)' = Earned(w)
  BY DEF Spent, Earned
<1>2. \A w : Balance(w, ledger[pass])' = Balance(w, ledger[pass])
  BY Zenon
<1>3. \A w : Cost(Spent(w))' = Cost(Spent(w))
  BY <1>1, Zenon
<1>4. QED
  BY <1>1, <1>2, <1>3

\* Steps that send and deliver nothing.
LEMMA SameDelivered ==
  ASSUME Control, Intact, ledger'[pass'] = ledger[pass], Running' = Running, relay' = relay,
         \A m \in Running : \A x \in Wallets : vertex'[m][x].txs = vertex[m][x].txs
  PROVE  /\ \A t \in ledger[pass] : Unsent(t)' <=> Unsent(t)
         /\ \A n, w : Delivered(n, w)' = Delivered(n, w)
<1>1. ASSUME NEW t \in ledger[pass] PROVE Unsent(t)' <=> Unsent(t)
  BY IntactFacts DEF Unsent
<1>2. ASSUME NEW n, NEW w PROVE Delivered(n, w)' = Delivered(n, w)
  <2>1. Earned(w)' = Earned(w) /\ Earned(w) \subseteq ledger[pass]
    BY SameLedger DEF Earned
  <2>2. QED
    BY <1>1, <2>1 DEF Delivered
<1>3. QED
  BY <1>1, <1>2

\* A vertex stays where it is in the computation.
LEMMA SamePhase ==
  ASSUME NEW n, NEW w, vertex'[n][w] = vertex[n][w], ledger'[pass'] = ledger[pass],
         Delivered(n, w)' = Delivered(n, w)
  PROVE  /\ Waiting(n, w) => Waiting(n, w)'
         /\ Sent(n, w) => Sent(n, w)'
         /\ Settled(n, w) => Settled(n, w)'
<1>1. Waiting(n, w) => Waiting(n, w)'
  BY SameLedger, Zenon DEF Waiting
<1>2. Sent(n, w) => Sent(n, w)'
  BY SameLedger, Zenon DEF Sent
<1>3. Settled(n, w) => Settled(n, w)'
  BY SameLedger, Zenon DEF Settled
<1>4. QED
  BY <1>1, <1>2, <1>3

\* A vertex that a step leaves alone.
LEMMA ValueStays ==
  ASSUME GraphTypes, GraphTypes', NEW n \in Nodes, NEW w \in Wallets,
         vertex'[n][w] = vertex[n][w], ledger'[pass'] = ledger[pass],
         Delivered(n, w)' = Delivered(n, w),
         Computed(n, w, 1)' <=> Computed(n, w, 1), Computed(n, w, 2)' <=> Computed(n, w, 2),
         ValueBooks(n, w)
  PROVE  ValueBooks(n, w)'
<1>1. IF Computed(n, w, 2) THEN Settled(n, w) ELSE IF Computed(n, w, 1) THEN Sent(n, w) ELSE Waiting(n, w)
  BY Phases
<1>2. (IF Computed(n, w, 2) THEN Settled(n, w) ELSE IF Computed(n, w, 1) THEN Sent(n, w) ELSE Waiting(n, w))'
  BY <1>1, SamePhase
<1>3. ValueBooks(n, w)' <=>
        (IF Computed(n, w, 2) THEN Settled(n, w) ELSE IF Computed(n, w, 1) THEN Sent(n, w) ELSE Waiting(n, w))'
  BY PhasesNext
<1>4. QED
  BY <1>2, <1>3

-----------------------------------------------------------------------------
\* Steps that the computation does not see.

\* Owners do not change.
LEMMA SameBoundaries ==
  ASSUME dep' = dep
  PROVE  BoundariesInOrder' <=> BoundariesInOrder
  BY DEF BoundariesInOrder

LEMMA SameOwner ==
  ASSUME dep' = dep
  PROVE  \A w : OwnerOf(w)' = OwnerOf(w)
  BY DEF OwnerOf

\* While a graph is loaded no other one takes a step, and nothing is relayed.
LEMMA WhileLoading ==
  ASSUME Control, Intact
  PROVE  /\ Loading => /\ relay = {}
                       /\ \A n \in Running : superstep[n] = 0 /\ run[n] = "pre"
         /\ ~Loading => Running = dep.nodes
<1>1. Loading => relay = {} /\ \A n \in dep.nodes : superstep[n] = 0 /\ run[n] \in {"off", "pre", "err"}
  BY DEF Control, PlaceBooks, JobBooks
<1>2. \A n \in Running : n \in dep.nodes /\ run[n] \in {"pre", "step", "post", "stop"}
  BY IntactFacts
<1>3. ~Loading => Running = dep.nodes
  BY DEF Running, Loading, Intact
<1>4. QED
  BY <1>1, <1>2, <1>3

\* Steps that the computation does not see.
LEMMA ComputingFrame ==
  ASSUME Control, Control', Intact, Computing, dep' = dep, ledger'[pass'] = ledger[pass], relay' = relay,
         Running' = Running,
         \A m \in dep.nodes : activeIn'[m] = activeIn[m] /\ superstep'[m] = superstep[m],
         \A m \in Running : run'[m] = run[m] /\ feed'[m] = feed[m] /\ busy'[m] = busy[m] /\ vertex'[m] = vertex[m]
  PROVE  Computing'
<1>0. /\ GraphTypes /\ GraphTypes' /\ \A n \in Running : n \in Nodes /\ n \in dep.nodes
      /\ dep.nodes \subseteq Nodes
  BY IntactFacts DEF Control, Types
<1>1. /\ \A t \in ledger[pass] : Unsent(t)' <=> Unsent(t)
      /\ \A n, w : Delivered(n, w)' = Delivered(n, w)
  BY SameDelivered
<1>2. \A m \in Running : VerticesOf(m)' = VerticesOf(m)
  BY DEF VerticesOf
<1>3. \A m \in Running : \A w, k : Computed(m, w, k)' <=> Computed(m, w, k)
  BY <1>0 DEF Computed
<1>4. ASSUME NEW n \in Running', NEW w \in VerticesOf(n)' PROVE ValueBooks(n, w)'
  <2>1. n \in Running /\ n \in Nodes /\ w \in VerticesOf(n) /\ w \in Wallets /\ vertex'[n][w] = vertex[n][w]
    BY <1>0, <1>2, <1>4 DEF VerticesOf
  <2>2. ValueBooks(n, w)
    BY <2>1 DEF Computing
  <2>3. QED
    BY <1>0, <1>1, <1>3, <2>1, <2>2, ValueStays
<1>5. ASSUME NEW m \in relay' PROVE RelayBooks(m[1], m[2])'
  <2>1. RelayBooks(m[1], m[2]) /\ m[1] \in Nodes \cup {Nobody} /\ m[2] \in Txs
    BY <1>0, <1>5 DEF Computing, GraphTypes
  <2>2. OwnerOf(TxTo[m[2]]) \in dep.nodes \cup {Nobody}
    BY <1>0, <2>1, OwnerType, TxAssumption DEF Control
  <2>3. QED
    BY <1>1, <2>1, <2>2, SameOwner DEF RelayBooks
<1>6. SenderBooks'
  <2>1. \A t \in ledger[pass] : TxFrom[t] \in Wallets
    BY IntactFacts
  <2>2. QED
    BY <2>1 DEF Computing, SenderBooks
<1>7. BarrierBooks'
  <2>1. \A n, m \in Running : Ahead(n, m)' <=> Ahead(n, m)
    BY <1>0 DEF Ahead
  <2>2. QED
    BY <1>0, <1>2, <2>1 DEF Computing, BarrierBooks
<1>8. QED
  BY <1>4, <1>5, <1>6, <1>7 DEF Computing

\* A graph that is loaded: its wallets are in no other graph, and nobody has sent yet.
LEMMA ComputingJoins ==
  ASSUME Control, Control', Intact, Computing, NEW n \in dep.nodes, at[n] = "load", load[n].at = "ok",
         Executor(n), dep' = dep, pass' = pass
  PROVE  Computing'
<1>0. /\ GraphTypes /\ GraphTypes' /\ PassTypes /\ Types /\ n \in Nodes /\ dep.nodes \subseteq Nodes
      /\ pass \in Passes /\ ledger[pass] \in SUBSET Txs
      /\ \A m \in Running : m \in Nodes /\ m \in dep.nodes /\ at[m] = "run"
  BY IntactFacts DEF Control, Types
<1>1. /\ Loading /\ relay = {} /\ \A m \in Running : superstep[m] = 0 /\ run[m] = "pre"
  BY WhileLoading DEF Loading
<1>2. /\ vertex' = vertex /\ relay' = relay /\ activeIn' = activeIn
      /\ at' = [at EXCEPT ![n] = "run"] /\ ledger' = [ledger EXCEPT ![pass] = @ \cup LoadedTxs(n)]
      /\ superstep' = [superstep EXCEPT ![n] = 0] /\ run' = [run EXCEPT ![n] = "pre"]
  BY DEF Executor, NewExecutor, Goto, LoadedTxs
<1>3. Running' = Running \cup {n} /\ n \notin Running
  BY <1>0, <1>2 DEF Running, PassTypes
<1>4. \A m \in Running' : superstep'[m] = 0 /\ run'[m] = "pre" /\ m \in dep.nodes /\ m \in Nodes
  BY <1>0, <1>1, <1>2, <1>3 DEF GraphTypes
<1>5. ledger'[pass'] = ledger[pass] \cup LoadedTxs(n)
  BY <1>0, <1>2 DEF PassTypes
<1>6. \A m \in Running' : \A w : ~Computed(m, w, 1)' /\ ~Computed(m, w, 2)'
  BY <1>4 DEF Computed
<1>7. ASSUME NEW m \in Running, NEW w \in VerticesOf(m)
      PROVE  Waiting(m, w) /\ w \in Wallets
  <2>1. ~Computed(m, w, 1) /\ ~Computed(m, w, 2)
    BY <1>1, <1>7 DEF Computed
  <2>2. ValueBooks(m, w) /\ w \in Wallets
    BY <1>7 DEF Computing, VerticesOf
  <2>3. QED
    BY <1>0, <1>7, <2>1, <2>2, Phases
<1>8. ASSUME NEW t \in LoadedTxs(n)
      PROVE  t \in Txs /\ TxFrom[t] \in Wallets /\ vertex[n][TxFrom[t]].on /\ t \in vertex[n][TxFrom[t]].txs
  <2>1. PICK w \in Wallets : t \in vertex[n][w].txs
    BY <1>8 DEF LoadedTxs
  <2>2. QED
    BY <2>1, OwnTxs
<1>9. \A w \in Wallets : Spent(w)' = Spent(w) \cup {t \in LoadedTxs(n) : TxFrom[t] = w}
  BY <1>5 DEF Spent
<1>10. ASSUME NEW w \in Wallets, vertex[n][w].on
       PROVE  Spent(w)' = vertex[n][w].txs
  <2>1. Spent(w) = {}
    <3>1. SUFFICES ASSUME NEW t \in Spent(w) PROVE FALSE
      OBVIOUS
    <3>2. t \in ledger[pass] /\ TxFrom[t] = w
      BY <3>1 DEF Spent
    <3>3. PICK k \in Running : vertex[k][w].on
      BY <3>2 DEF Computing, SenderBooks
    <3>4. OwnerOf(w) = k /\ OwnerOf(w) = n
      BY <1>0, <1>10, <3>3, OneOwner DEF Intact
    <3>5. QED
      BY <1>3, <3>4
  <2>2. {t \in LoadedTxs(n) : TxFrom[t] = w} = vertex[n][w].txs
    BY <1>8, OwnTxs DEF LoadedTxs
  <2>3. QED
    BY <1>9, <1>10, <2>1, <2>2
<1>11. ASSUME NEW m \in Running, NEW w \in VerticesOf(m)
       PROVE  Spent(w)' = Spent(w)
  <2>1. w \in Wallets /\ vertex[m][w].on
    BY <1>11 DEF VerticesOf
  <2>2. {t \in LoadedTxs(n) : TxFrom[t] = w} = {}
    <3>1. SUFFICES ASSUME NEW t \in LoadedTxs(n), TxFrom[t] = w PROVE FALSE
      OBVIOUS
    <3>2. OwnerOf(w) = n /\ OwnerOf(w) = m
      BY <1>0, <1>8, <2>1, <3>1, OneOwner DEF Intact
    <3>3. QED
      BY <1>3, <3>2
  <2>3. QED
    BY <1>9, <2>1, <2>2
<1>12. ASSUME NEW t \in ledger'[pass'] PROVE Unsent(t)' /\ \E k \in Running' : vertex'[k][TxFrom[t]].on
  <2>1. CASE t \in LoadedTxs(n)
    BY <1>2, <1>3, <1>8, <2>1 DEF Unsent
  <2>2. CASE t \in ledger[pass]
    <3>1. PICK k \in Running : vertex[k][TxFrom[t]].on
      BY <2>2 DEF Computing, SenderBooks
    <3>2. TxFrom[t] \in VerticesOf(k)
      BY <2>2, <3>1, IntactFacts DEF VerticesOf
    <3>3. t \in vertex[k][TxFrom[t]].txs
      BY <1>7, <2>2, <3>2 DEF Waiting, Spent
    <3>4. QED
      BY <1>2, <1>3, <3>1, <3>3 DEF Unsent
  <2>3. QED
    BY <1>5, <1>12, <2>1, <2>2
<1>13. ASSUME NEW t \in ledger[pass] PROVE Unsent(t)
  <2>1. PICK k \in Running : vertex[k][TxFrom[t]].on
    BY <1>13 DEF Computing, SenderBooks
  <2>2. TxFrom[t] \in VerticesOf(k)
    BY <1>13, <2>1, IntactFacts DEF VerticesOf
  <2>3. QED
    BY <1>7, <1>13, <2>2 DEF Waiting, Spent, Unsent
<1>14. \A m, w : Delivered(m, w) = {} /\ Delivered(m, w)' = {}
  BY <1>12, <1>13 DEF Delivered, Earned
<1>15. EnqueueAll(NoMsgs, {}) = NoMsgs
  <2>1. NoMsgs \in Msgs
    BY DEF NoMsgs, Msgs
  <2>2. QED
    BY <2>1, Enqueued
<1>16. ASSUME NEW m \in Running', NEW w \in VerticesOf(m)' PROVE ValueBooks(m, w)'
  <2>1. w \in Wallets /\ w \in VerticesOf(m) /\ vertex[m][w].on
    BY <1>2, <1>16 DEF VerticesOf
  <2>2. Waiting(m, w)'
    <3>1. CASE m \in Running
      <4>1. Waiting(m, w) /\ Spent(w)' = Spent(w)
        BY <1>7, <1>11, <2>1, <3>1
      <4>2. QED
        BY <1>2, <1>14, <1>15, <4>1 DEF Waiting
    <3>2. CASE m = n
      <4>1. VertexBooks(n, w)
        BY <1>0, <2>1 DEF Control, GraphBooks
      <4>2. vertex[n][w].value = 0 /\ vertex[n][w].active /\ vertex[n][w].queue = NoVertex.queue
        BY <2>1, <3>2, <4>1 DEF VertexBooks
      <4>3. vertex[n][w].queue[0] = NoMsgs /\ vertex[n][w].queue[1] = NoMsgs
        BY <4>2 DEF NoVertex
      <4>4. Spent(w)' = vertex[n][w].txs
        BY <1>10, <2>1, <3>2
      <4>5. QED
        BY <1>2, <1>14, <1>15, <3>2, <4>2, <4>3, <4>4 DEF Waiting
    <3>3. QED
      BY <1>3, <1>16, <3>1, <3>2
  <2>3. m \in Nodes
    BY <1>4, <1>16
  <2>4. ValueBooks(m, w)' <=>
        (IF Computed(m, w, 2) THEN Settled(m, w) ELSE IF Computed(m, w, 1) THEN Sent(m, w) ELSE Waiting(m, w))'
    BY <1>0, <2>1, <2>3, PhasesNext
  <2>5. QED
    BY <1>6, <1>16, <2>2, <2>4
<1>17. SenderBooks'
  BY <1>12 DEF SenderBooks
<1>18. BarrierBooks'
  BY <1>4 DEF BarrierBooks
<1>19. QED
  BY <1>1, <1>2, <1>16, <1>17, <1>18 DEF Computing

-----------------------------------------------------------------------------
\* Steps that leave vertices and messages alone.

\* Graphs in the middle of a superstep are in the same one.
LEMMA StepTogether ==
  ASSUME BarrierBooks, NEW n \in Running, run[n] = "step"
  PROVE  \A m \in Running : superstep[m] = superstep[n] /\ run[m] # "stop"
<1>1. \A m \in Running : superstep[n] = superstep[m] \/ Ahead(n, m) \/ Ahead(m, n)
  BY DEF BarrierBooks
<1>2. \A m \in Running : run[m] = "stop" => run[n] \in {"post", "stop"}
  BY DEF BarrierBooks
<1>3. QED
  BY <1>1, <1>2 DEF Ahead

\* What a step that leaves vertices and messages alone has to keep.
LEMMA QuietStep ==
  ASSUME Control, Control', Intact, Computing, dep' = dep, ledger'[pass'] = ledger[pass], relay' = relay,
         Running' = Running, vertex' = vertex, BarrierBooks',
         \A m \in Running : \A w \in VerticesOf(m) :
           (Computed(m, w, 1)' <=> Computed(m, w, 1)) /\ (Computed(m, w, 2)' <=> Computed(m, w, 2)),
         \A p \in relay : p[1] # Nobody => superstep'[p[1]] = superstep[p[1]]
  PROVE  Computing'
<1>0. /\ GraphTypes /\ GraphTypes' /\ \A n \in Running : n \in Nodes /\ n \in dep.nodes
  BY IntactFacts DEF Control, Types
<1>1. /\ \A t \in ledger[pass] : Unsent(t)' <=> Unsent(t)
      /\ \A n, w : Delivered(n, w)' = Delivered(n, w)
  BY SameDelivered
<1>2. \A m \in Running : VerticesOf(m)' = VerticesOf(m)
  BY DEF VerticesOf
<1>4. ASSUME NEW n \in Running', NEW w \in VerticesOf(n)' PROVE ValueBooks(n, w)'
  <2>1. n \in Running /\ n \in Nodes /\ w \in VerticesOf(n) /\ w \in Wallets /\ vertex'[n][w] = vertex[n][w]
    BY <1>0, <1>2, <1>4 DEF VerticesOf
  <2>2. ValueBooks(n, w)
    BY <2>1 DEF Computing
  <2>3. QED
    BY <1>0, <1>1, <2>1, <2>2, ValueStays
<1>5. ASSUME NEW m \in relay' PROVE RelayBooks(m[1], m[2])'
  <2>1. RelayBooks(m[1], m[2])
    BY <1>5 DEF Computing
  <2>2. QED
    BY <1>1, <1>5, <2>1, SameOwner DEF RelayBooks
<1>6. SenderBooks'
  BY DEF Computing, SenderBooks
<1>8. QED
  BY <1>4, <1>5, <1>6 DEF Computing

\* A superstep begins.
LEMMA BeginsQuietly ==
  ASSUME Control, Control', Intact, Computing, dep' = dep, ledger'[pass'] = ledger[pass], Running' = Running,
         NEW n \in Running, StepBegins(n)
  PROVE  Computing'
<1>0. GraphTypes /\ \A m \in Running : m \in Nodes /\ m \in dep.nodes
  BY IntactFacts
<1>1. /\ run[n] = "pre" /\ UNCHANGED <<vertex, superstep, busy, relay>>
      /\ \A m \in dep.nodes : run[m] \in {"pre", "step", "post"} /\ superstep[m] = superstep[n]
      /\ run' = [run EXCEPT ![n] = IF VerticesOf(n) = {} THEN "post" ELSE "step"]
      /\ feed' = [feed EXCEPT ![n] = VerticesOf(n)]
      /\ activeIn' = [activeIn EXCEPT ![n] = 0]
  BY DEF StepBegins
<1>2. /\ run'[n] = IF VerticesOf(n) = {} THEN "post" ELSE "step"
      /\ feed'[n] = VerticesOf(n) /\ activeIn'[n] = 0
      /\ \A m \in Running \ {n} : run'[m] = run[m] /\ feed'[m] = feed[m] /\ activeIn'[m] = activeIn[m]
  BY <1>0, <1>1 DEF GraphTypes
<1>3. \A m \in Running : VerticesOf(m)' = VerticesOf(m)
  BY <1>1 DEF VerticesOf
<1>4. ASSUME NEW m \in Running, NEW w \in VerticesOf(m), NEW k \in {1, 2}
      PROVE  Computed(m, w, k)' <=> Computed(m, w, k)
  <2>1. CASE m = n
    <3>1. run'[n] = "step" /\ w \in feed'[n]
      BY <1>2, <1>4, <2>1
    <3>2. QED
      BY <1>1, <2>1, <3>1 DEF Computed
  <2>2. CASE m # n
    BY <1>1, <1>2, <2>2 DEF Computed
  <2>3. QED
    BY <2>1, <2>2
<1>5. BarrierBooks'
  <2>1. \A m \in Running : run'[m] \in {"pre", "step", "post"} /\ superstep'[m] = superstep[n]
    BY <1>0, <1>1, <1>2
  <2>2. Cardinality(VerticesOf(n) \ (feed'[n] \cup busy[n])) = 0
    <3>1. VerticesOf(n) \ (feed'[n] \cup busy[n]) = {}
      BY <1>2
    <3>2. QED
      BY <3>1, FS_EmptySet
  <2>3. ASSUME NEW m \in Running
        PROVE  /\ run'[m] \in {"step", "post", "stop"} /\ superstep'[m] < 2 =>
                    activeIn'[m] = Cardinality(VerticesOf(m) \ (feed'[m] \cup busy'[m]))
               /\ run'[m] \in {"step", "post", "stop"} /\ superstep'[m] > 2 => activeIn'[m] = 0
    <3>1. CASE m = n
      BY <1>1, <1>2, <2>2, <3>1
    <3>2. CASE m # n
      BY <1>1, <1>2, <2>3, <3>2 DEF Computing, BarrierBooks
    <3>3. QED
      BY <3>1, <3>2
  <2>4. QED
    BY <1>3, <2>1, <2>3 DEF BarrierBooks
<1>6. QED
  BY <1>1, <1>4, <1>5, QuietStep

\* A goroutine takes a vertex.
LEMMA TakesQuietly ==
  ASSUME Control, Control', Intact, Computing, dep' = dep, ledger'[pass'] = ledger[pass], Running' = Running,
         NEW n \in Running, NEW v \in Wallets, WorkerTakes(n, v)
  PROVE  Computing'
<1>0. GraphTypes /\ \A m \in Running : m \in Nodes /\ m \in dep.nodes
  BY IntactFacts
<1>1. /\ UNCHANGED <<vertex, superstep, run, activeIn, relay>> /\ v \in feed[n]
      /\ feed' = [feed EXCEPT ![n] = @ \ {v}] /\ busy' = [busy EXCEPT ![n] = @ \cup {v}]
  BY DEF WorkerTakes
<1>2. \A m \in Running : feed'[m] \cup busy'[m] = feed[m] \cup busy[m]
  BY <1>0, <1>1 DEF GraphTypes
<1>3. \A m \in Running : VerticesOf(m)' = VerticesOf(m)
  BY <1>1 DEF VerticesOf
<1>4. \A m, k \in Running : Ahead(m, k)' <=> Ahead(m, k)
  BY <1>1 DEF Ahead
<1>5. BarrierBooks'
  BY <1>1, <1>2, <1>3, <1>4 DEF Computing, BarrierBooks
<1>6. \A m \in Running : \A w, k : Computed(m, w, k)' <=> Computed(m, w, k)
  BY <1>1, <1>2 DEF Computed
<1>7. QED
  BY <1>1, <1>5, <1>6, QuietStep

\* All vertices of a superstep are done with.
LEMMA CompletesQuietly ==
  ASSUME Control, Control', Intact, Computing, dep' = dep, ledger'[pass'] = ledger[pass], Running' = Running,
         NEW n \in Running, StepCompletes(n)
  PROVE  Computing'
<1>0. GraphTypes /\ (\A m \in Running : m \in Nodes /\ m \in dep.nodes) /\ ~stepErr[n]
  BY IntactFacts
<1>1. /\ UNCHANGED <<vertex, superstep, feed, busy, activeIn, relay>> /\ run[n] = "step"
      /\ feed[n] = {} /\ pending[n] = 0 /\ run' = [run EXCEPT ![n] = "post"]
  BY <1>0 DEF StepCompletes
<1>2. feed[n] \cup busy[n] = {}
  <2>1. Cardinality(feed[n] \cup busy[n]) = 0 /\ IsFiniteSet(feed[n] \cup busy[n])
    BY <1>0, <1>1, StepNumbers, FiniteWallets
  <2>2. QED
    BY <2>1, FS_EmptySet
<1>3. \A m \in Running : VerticesOf(m)' = VerticesOf(m)
  BY <1>1 DEF VerticesOf
<1>4. run'[n] = "post" /\ \A m \in Running \ {n} : run'[m] = run[m]
  BY <1>0, <1>1 DEF GraphTypes
<1>5. \A m \in Running : superstep[m] = superstep[n] /\ run[m] # "stop"
  BY <1>1, StepTogether DEF Computing
<1>6. \A m \in Running : \A w \in VerticesOf(m) : \A k : Computed(m, w, k)' <=> Computed(m, w, k)
  BY <1>1, <1>2, <1>4 DEF Computed
<1>7. BarrierBooks'
  <2>1. \A m \in Running : superstep'[m] = superstep[n] /\ run'[m] # "stop"
    BY <1>1, <1>4, <1>5
  <2>2. ASSUME NEW m \in Running
        PROVE  /\ run'[m] \in {"step", "post", "stop"} /\ superstep'[m] < 2 =>
                    activeIn'[m] = Cardinality(VerticesOf(m) \ (feed'[m] \cup busy'[m]))
               /\ run'[m] \in {"step", "post", "stop"} /\ superstep'[m] > 2 => activeIn'[m] = 0
    BY <1>1, <1>4 DEF Computing, BarrierBooks
  <2>3. QED
    BY <1>3, <2>1, <2>2 DEF BarrierBooks
<1>8. QED
  BY <1>1, <1>6, <1>7, QuietStep

\* The barrier after a superstep: all go on, or all stop.
LEMMA EndsQuietly ==
  ASSUME Control, Control', Intact, Computing, dep' = dep, ledger'[pass'] = ledger[pass], Running' = Running,
         Running = dep.nodes, NEW n \in Running, StepEnds(n)
  PROVE  Computing'
<1>0. GraphTypes /\ (\A m \in Running : m \in Nodes /\ m \in dep.nodes)
      /\ \A m \in Running : superstep[m] \in Nat
  BY IntactFacts DEF GraphTypes
<1>1. /\ UNCHANGED <<vertex, feed, busy, activeIn, relay>> /\ run[n] = "post"
      /\ \A m \in dep.nodes : LeftStep(m, superstep[n])
      /\ \A t \in Txs : <<n, t>> \notin relay
  BY DEF StepEnds
<1>2. \A m \in Running : VerticesOf(m)' = VerticesOf(m)
  BY <1>1 DEF VerticesOf
<1>3. \A m \in Running : superstep[m] = superstep[n] + 1 \/ (superstep[m] = superstep[n] /\ run[m] \in {"post", "stop"})
  BY <1>0, <1>1 DEF LeftStep
<1>4. /\ \A k, m \in Running : superstep[k] = superstep[m] \/ Ahead(k, m) \/ Ahead(m, k)
      /\ \A k, m \in Running : run[k] = "stop" =>
           superstep[m] = superstep[k] /\ run[m] \in {"post", "stop"} /\ activeIn[m] = 0
      /\ \A m \in Running : run[m] \in {"step", "post", "stop"} /\ superstep[m] < 2 =>
           activeIn[m] = Cardinality(VerticesOf(m) \ (feed[m] \cup busy[m]))
      /\ \A m \in Running : run[m] \in {"step", "post", "stop"} /\ superstep[m] > 2 => activeIn[m] = 0
  BY DEF Computing, BarrierBooks
<1>5. CASE \A m \in dep.nodes : activeIn[m] = 0
  <2>1. run' = [run EXCEPT ![n] = "stop"] /\ superstep' = superstep
    BY <1>5 DEF StepEnds
  <2>2. run'[n] = "stop" /\ \A m \in Running \ {n} : run'[m] = run[m]
    BY <1>0, <2>1 DEF GraphTypes
  <2>3. \A m \in Running : superstep[m] = superstep[n] /\ run[m] \in {"post", "stop"}
    BY <1>0, <1>3, <1>4, <1>5 DEF Ahead
  <2>4. \A m \in Running : \A w \in VerticesOf(m) : \A k : Computed(m, w, k)' <=> Computed(m, w, k)
    BY <1>1, <2>1, <2>2 DEF Computed
  <2>5. BarrierBooks'
    <3>1. \A m \in Running : superstep'[m] = superstep[n] /\ run'[m] \in {"post", "stop"} /\ activeIn'[m] = 0
      BY <1>0, <1>1, <1>5, <2>1, <2>2, <2>3
    <3>2. ASSUME NEW m \in Running
          PROVE  /\ run'[m] \in {"step", "post", "stop"} /\ superstep'[m] < 2 =>
                      activeIn'[m] = Cardinality(VerticesOf(m) \ (feed'[m] \cup busy'[m]))
                 /\ run'[m] \in {"step", "post", "stop"} /\ superstep'[m] > 2 => activeIn'[m] = 0
      BY <1>1, <1>4, <2>1, <2>3
    <3>3. QED
      BY <1>2, <3>1, <3>2 DEF BarrierBooks
  <2>6. QED
    BY <1>1, <2>1, <2>4, <2>5, QuietStep
<1>6. CASE ~(\A m \in dep.nodes : activeIn[m] = 0)
  <2>1. run' = [run EXCEPT ![n] = "pre"] /\ superstep' = [superstep EXCEPT ![n] = @ + 1]
    BY <1>6 DEF StepEnds
  <2>2. /\ run'[n] = "pre" /\ superstep'[n] = superstep[n] + 1
        /\ \A m \in Running \ {n} : run'[m] = run[m] /\ superstep'[m] = superstep[m]
    BY <1>0, <2>1 DEF GraphTypes
  <2>3. \A m \in Running : run[m] # "stop"
    BY <1>4, <1>6
  <2>4. \A m \in Running : \A w \in VerticesOf(m) : \A k \in {1, 2} : Computed(m, w, k)' <=> Computed(m, w, k)
    <3>1. \A w : \A k \in {1, 2} : Computed(n, w, k)' <=> Computed(n, w, k)
      BY <1>0, <1>1, <2>2 DEF Computed
    <3>2. \A m \in Running \ {n} : \A w : \A k \in {1, 2} : Computed(m, w, k)' <=> Computed(m, w, k)
      BY <1>1, <2>2 DEF Computed
    <3>3. QED
      BY <3>1, <3>2
  <2>5. BarrierBooks'
    <3>1. \E k \in dep.nodes : activeIn'[k] # 0
      BY <1>1, <1>6
    <3>2. \A m \in Running \ {n} : superstep'[n] = superstep'[m] \/ Ahead(n, m)'
      BY <1>0, <1>3, <2>2, <2>3, <3>1 DEF Ahead
    <3>3. \A k, m \in Running \ {n} : superstep'[k] = superstep'[m] \/ Ahead(k, m)' \/ Ahead(m, k)'
      BY <1>4, <2>2, <3>1 DEF Ahead
    <3>4. \A m \in Running : run'[m] # "stop"
      BY <2>2, <2>3
    <3>5. ASSUME NEW m \in Running
          PROVE  /\ run'[m] \in {"step", "post", "stop"} /\ superstep'[m] < 2 =>
                      activeIn'[m] = Cardinality(VerticesOf(m) \ (feed'[m] \cup busy'[m]))
                 /\ run'[m] \in {"step", "post", "stop"} /\ superstep'[m] > 2 => activeIn'[m] = 0
      BY <1>1, <1>4, <2>2
    <3>6. \A k, m \in Running : superstep'[k] = superstep'[m] \/ Ahead(k, m)' \/ Ahead(m, k)'
      BY <3>2, <3>3
    <3>7. QED
      BY <1>2, <3>4, <3>5, <3>6 DEF BarrierBooks
  <2>6. \A p \in relay : p[1] # Nobody => superstep'[p[1]] = superstep[p[1]]
    <3>1. ASSUME NEW p \in relay, p[1] # Nobody PROVE superstep'[p[1]] = superstep[p[1]]
      <4>1. p[1] = OwnerOf(TxTo[p[2]]) /\ p[2] \in Txs /\ p = <<p[1], p[2]>>
        BY <1>0, <3>1 DEF Computing, RelayBooks, GraphTypes
      <4>2. p[1] \in dep.nodes
        BY <3>1, <4>1, OwnerType, TxAssumption DEF Control
      <4>3. p[1] # n
        BY <1>1, <3>1, <4>1
      <4>4. QED
        BY <2>2, <4>2, <4>3
    <3>2. QED
      BY <3>1
  <2>7. QED
    BY <1>1, <2>4, <2>5, <2>6, QuietStep
<1>7. QED
  BY <1>5, <1>6

-----------------------------------------------------------------------------
\* Steps of one vertex.

\* A balance is what was earned less what was spent.
LEMMA BalanceIs ==
  ASSUME ledger[pass] \in SUBSET Txs, NEW w \in Wallets
  PROVE  /\ Balance(w, ledger[pass]) = Total(TxValue, Earned(w)) - Cost(Spent(w))
         /\ Total(TxValue, Earned(w)) \in Nat /\ Cost(Spent(w)) \in Int
         /\ Earned(w) \in SUBSET Txs /\ Spent(w) \in SUBSET Txs
<1>1. Earned(w) \in SUBSET Txs /\ Spent(w) \in SUBSET Txs
  BY DEF Earned, Spent
<1>2. /\ MapThenSumSet(LAMBDA t : TxValue[t], Earned(w)) = Total(TxValue, Earned(w))
      /\ Total(TxValue, Earned(w)) \in Nat /\ Cost(Spent(w)) \in Int
  BY <1>1, Sums
<1>3. Balance(w, ledger[pass]) = MapThenSumSet(LAMBDA t : TxValue[t], Earned(w)) - Cost(Spent(w))
  BY Zenon DEF Balance, Earned, Spent
<1>4. QED
  BY <1>1, <1>2, <1>3

\* Before the supersteps begin nothing is sent; after the second, everything.
LEMMA NothingSent ==
  ASSUME Control, Intact, Computing, \A m \in Running : superstep[m] = 0
  PROVE  (\A t \in ledger[pass] : Unsent(t)) /\ \A n, w : Delivered(n, w) = {}
<1>1. ASSUME NEW t \in ledger[pass] PROVE Unsent(t)
  <2>1. PICK k \in Running : vertex[k][TxFrom[t]].on
    BY <1>1 DEF Computing, SenderBooks
  <2>2. TxFrom[t] \in VerticesOf(k) /\ k \in Nodes /\ TxFrom[t] \in Wallets /\ GraphTypes
    BY <1>1, <2>1, IntactFacts DEF VerticesOf
  <2>3. ~Computed(k, TxFrom[t], 1) /\ ~Computed(k, TxFrom[t], 2)
    BY <2>1 DEF Computed
  <2>4. Waiting(k, TxFrom[t])
    BY <2>1, <2>2, <2>3, Phases DEF Computing
  <2>5. QED
    BY <1>1, <2>1, <2>4 DEF Waiting, Spent, Unsent
<1>2. QED
  BY <1>1 DEF Delivered, Earned

\* After the superstep that sends, every message was delivered.
LEMMA EverythingSent ==
  ASSUME Control, Intact, Computing, \A m \in Running : superstep[m] >= 2,
         NEW n \in Running, NEW w \in Wallets
  PROVE  Delivered(n, w) = Earned(w)
<1>1. ASSUME NEW t \in ledger[pass] PROVE ~Unsent(t)
  <2>1. SUFFICES ASSUME NEW k \in Running, t \in vertex[k][TxFrom[t]].txs PROVE FALSE
    BY DEF Unsent
  <2>2. /\ TxFrom[t] \in Wallets /\ GraphTypes /\ k \in Nodes /\ k \in dep.nodes /\ superstep[k] \in Nat
    BY <1>1, IntactFacts DEF GraphTypes
  <2>3. TxFrom[t] \in VerticesOf(k)
    BY <2>1, <2>2, OwnTxs DEF VerticesOf
  <2>4. Computed(k, TxFrom[t], 1)
    BY <2>2 DEF Computed
  <2>5. vertex[k][TxFrom[t]].txs = {}
    BY <2>1, <2>2, <2>3, <2>4, Phases DEF Computing, Sent, Settled
  <2>6. QED
    BY <2>1, <2>5
<1>2. ASSUME NEW t \in ledger[pass] PROVE <<n, t>> \notin relay
  <2>1. SUFFICES ASSUME <<n, t>> \in relay PROVE FALSE
    OBVIOUS
  <2>2. RelayBooks(n, t)
    BY <2>1 DEF Computing
  <2>3. n # Nobody
    BY IntactFacts, DeploymentsAssumption DEF Nobody
  <2>4. superstep[n] = 1 /\ superstep[n] >= 2
    BY <2>2, <2>3 DEF RelayBooks
  <2>5. QED
    BY <2>4
<1>3. QED
  BY <1>1, <1>2 DEF Delivered, Earned

\* A vertex of a superstep that is done with.
BusyMove(n, w) ==
  /\ run[n] = "step" /\ w \in busy[n]
  /\ UNCHANGED <<run, superstep, feed>> /\ busy' = [busy EXCEPT ![n] = @ \ {w}]
  /\ \/ activeIn' = [activeIn EXCEPT ![n] = @ + 1] /\ superstep[n] <= 2
     \/ activeIn' = activeIn /\ superstep[n] >= 2

\* It keeps the books of the barrier.
LEMMA BusyBarrier ==
  ASSUME Control, Intact, Computing, dep' = dep, Running' = Running, NEW n \in Running, NEW w \in Wallets,
         BusyMove(n, w), \A m \in Running : VerticesOf(m)' = VerticesOf(m)
  PROVE  BarrierBooks'
<1>0. GraphTypes /\ (\A m \in Running : m \in Nodes /\ m \in dep.nodes /\ superstep[m] \in Nat /\ activeIn[m] \in Nat)
  BY IntactFacts DEF GraphTypes
<1>1. \A m \in Running : superstep'[m] = superstep[n] /\ run'[m] # "stop"
  BY StepTogether DEF Computing, BusyMove
<1>2. \A m \in Running \ {n} : run'[m] = run[m] /\ feed'[m] = feed[m] /\ busy'[m] = busy[m] /\ activeIn'[m] = activeIn[m]
      /\ superstep'[m] = superstep[m]
  BY <1>0 DEF BusyMove, GraphTypes
<1>3. ASSUME NEW m \in Running
      PROVE  /\ run'[m] \in {"step", "post", "stop"} /\ superstep'[m] < 2 =>
                  activeIn'[m] = Cardinality(VerticesOf(m) \ (feed'[m] \cup busy'[m]))
             /\ run'[m] \in {"step", "post", "stop"} /\ superstep'[m] > 2 => activeIn'[m] = 0
  <2>1. /\ run[m] \in {"step", "post", "stop"} /\ superstep[m] < 2 =>
             activeIn[m] = Cardinality(VerticesOf(m) \ (feed[m] \cup busy[m]))
        /\ run[m] \in {"step", "post", "stop"} /\ superstep[m] > 2 => activeIn[m] = 0
    BY DEF Computing, BarrierBooks
  <2>2. CASE m # n
    BY <1>2, <2>1, <2>2
  <2>3. CASE m = n
    <3>1. CASE activeIn' = activeIn /\ superstep[n] >= 2
      <4>1. activeIn'[n] = activeIn[n] /\ superstep'[n] = superstep[n] /\ run'[n] = run[n] /\ ~(superstep'[n] < 2)
        BY <1>0, <3>1 DEF BusyMove
      <4>2. QED
        BY <2>1, <2>3, <4>1
    <3>2. CASE activeIn' = [activeIn EXCEPT ![n] = @ + 1] /\ superstep[n] <= 2
      <4>1. activeIn'[n] = activeIn[n] + 1 /\ superstep'[n] = superstep[n] /\ run[n] = "step"
            /\ feed'[n] = feed[n] /\ busy'[n] = busy[n] \ {w} /\ w \in busy[n]
        BY <1>0, <3>2 DEF BusyMove, GraphTypes
      <4>2. w \in VerticesOf(n) /\ w \notin feed[n]
        BY <1>0, <4>1, StepNumbers
      <4>3. VerticesOf(n) \ (feed'[n] \cup busy'[n]) = (VerticesOf(n) \ (feed[n] \cup busy[n])) \cup {w}
        BY <4>1, <4>2
      <4>4. VerticesOf(n) \ (feed[n] \cup busy[n]) \in SUBSET Wallets /\ w \notin VerticesOf(n) \ (feed[n] \cup busy[n])
        BY <4>1 DEF VerticesOf
      <4>5. Cardinality(VerticesOf(n) \ (feed'[n] \cup busy'[n])) = Cardinality(VerticesOf(n) \ (feed[n] \cup busy[n])) + 1
        BY <4>3, <4>4, WalletAdded
      <4>6. ~(superstep'[n] > 2)
        BY <1>0, <3>2, <4>1
      <4>7. superstep'[n] < 2 => activeIn'[n] = Cardinality(VerticesOf(n) \ (feed'[n] \cup busy'[n]))
        BY <2>1, <2>3, <4>1, <4>5
      <4>8. QED
        BY <2>3, <4>6, <4>7
    <3>3. QED
      BY <3>1, <3>2 DEF BusyMove
  <2>4. QED
    BY <2>2, <2>3
<1>4. QED
  BY <1>1, <1>3 DEF BarrierBooks

\* What becomes of the superstep of each vertex.
LEMMA BusyComputed ==
  ASSUME Control, Intact, Computing, NEW n \in Running, NEW w \in Wallets, BusyMove(n, w)
  PROVE  /\ \A m \in Running : \A x, k : m # n \/ x # w => (Computed(m, x, k)' <=> Computed(m, x, k))
         /\ \A k \in {0, 1, 2} : Computed(n, w, k) <=> superstep[n] > k
         /\ \A k \in {0, 1, 2} : Computed(n, w, k)' <=> superstep[n] >= k
<1>0. GraphTypes /\ (\A m \in Running : m \in Nodes /\ superstep[m] \in Nat) /\ feed[n] \cap busy[n] = {}
  BY IntactFacts, StepNumbers DEF GraphTypes
<1>1. /\ run[n] = "step" /\ w \in busy[n] /\ w \notin feed'[n] \cup busy'[n] /\ w \in feed[n] \cup busy[n]
      /\ \A m \in Running : \A x : m # n \/ x # w => (x \in feed'[m] \cup busy'[m] <=> x \in feed[m] \cup busy[m])
  BY <1>0 DEF BusyMove, GraphTypes
<1>2. run' = run /\ superstep' = superstep
  BY DEF BusyMove
<1>3. \A m \in Running : \A x, k : m # n \/ x # w => (Computed(m, x, k)' <=> Computed(m, x, k))
  BY <1>1, <1>2 DEF Computed
<1>4. \A k \in {0, 1, 2} : Computed(n, w, k) <=> superstep[n] > k
  BY <1>0, <1>1 DEF Computed
<1>5. \A k \in {0, 1, 2} : Computed(n, w, k)' <=> superstep[n] >= k
  BY <1>0, <1>1, <1>2 DEF Computed
<1>6. QED
  BY <1>3, <1>4, <1>5

\* Where a vertex in hand is in the computation, and where it is when it is done with.
LEMMA BusyPhase ==
  ASSUME Control, Control', Intact, Computing, NEW n \in Running, NEW w \in Wallets, BusyMove(n, w)
  PROVE  /\ n \in Nodes /\ w \in VerticesOf(n) /\ vertex[n][w] \in VertexRecord /\ superstep[n] \in Nat
         /\ IF superstep[n] >= 3 THEN Settled(n, w) ELSE IF superstep[n] = 2 THEN Sent(n, w) ELSE Waiting(n, w)
         /\ ValueBooks(n, w)' <=>
              IF superstep[n] >= 2 THEN Settled(n, w)' ELSE IF superstep[n] = 1 THEN Sent(n, w)' ELSE Waiting(n, w)'
<1>1. GraphTypes /\ GraphTypes' /\ n \in Nodes /\ superstep[n] \in Nat /\ vertex[n][w] \in VertexRecord
  BY IntactFacts DEF GraphTypes, Control, Types
<1>2. w \in VerticesOf(n)
  BY <1>1, StepNumbers DEF BusyMove
<1>3. ValueBooks(n, w)
  BY <1>2 DEF Computing
<1>4. IF Computed(n, w, 2) THEN Settled(n, w) ELSE IF Computed(n, w, 1) THEN Sent(n, w) ELSE Waiting(n, w)
  BY <1>1, <1>3, Phases
<1>5. /\ Computed(n, w, 1) <=> superstep[n] > 1
      /\ Computed(n, w, 2) <=> superstep[n] > 2
      /\ Computed(n, w, 1)' <=> superstep[n] >= 1
      /\ Computed(n, w, 2)' <=> superstep[n] >= 2
  BY BusyComputed
<1>6. IF superstep[n] >= 3 THEN Settled(n, w) ELSE IF superstep[n] = 2 THEN Sent(n, w) ELSE Waiting(n, w)
  BY <1>1, <1>4, <1>5
<1>7. ValueBooks(n, w)' <=>
        (IF Computed(n, w, 2) THEN Settled(n, w) ELSE IF Computed(n, w, 1) THEN Sent(n, w) ELSE Waiting(n, w))'
  BY <1>1, PhasesNext
<1>8. ValueBooks(n, w)' <=>
        IF superstep[n] >= 2 THEN Settled(n, w)' ELSE IF superstep[n] = 1 THEN Sent(n, w)' ELSE Waiting(n, w)'
  BY <1>1, <1>5, <1>7
<1>9. QED
  BY <1>1, <1>2, <1>6, <1>8

\* A step that sends nothing, and changes at most the vertex in hand.
LEMMA BusyStep ==
  ASSUME Control, Control', Intact, Computing, dep' = dep, ledger'[pass'] = ledger[pass], Running' = Running,
         relay' = relay, NEW n \in Running, NEW w \in Wallets, BusyMove(n, w),
         \A m \in Running : \A x \in Wallets :
           /\ vertex'[m][x].on = vertex[m][x].on /\ vertex'[m][x].txs = vertex[m][x].txs
           /\ m # n \/ x # w => vertex'[m][x] = vertex[m][x],
         (\A x : Delivered(n, x)' = Delivered(n, x)) => ValueBooks(n, w)'
  PROVE  Computing'
<1>0. /\ GraphTypes /\ GraphTypes' /\ \A m \in Running : m \in Nodes /\ m \in dep.nodes
  BY IntactFacts DEF Control, Types
<1>1. /\ \A t \in ledger[pass] : Unsent(t)' <=> Unsent(t)
      /\ \A m, x : Delivered(m, x)' = Delivered(m, x)
  BY SameDelivered
<1>2. \A m \in Running : VerticesOf(m)' = VerticesOf(m)
  BY DEF VerticesOf
<1>3. \A m \in Running : \A x, k : m # n \/ x # w => (Computed(m, x, k)' <=> Computed(m, x, k))
  BY BusyComputed
<1>4. ASSUME NEW m \in Running', NEW x \in VerticesOf(m)' PROVE ValueBooks(m, x)'
  <2>1. m \in Running /\ m \in Nodes /\ x \in VerticesOf(m) /\ x \in Wallets
    BY <1>0, <1>2, <1>4 DEF VerticesOf
  <2>2. ValueBooks(m, x)
    BY <2>1 DEF Computing
  <2>3. CASE m # n \/ x # w
    <3>1. vertex'[m][x] = vertex[m][x] /\ (Computed(m, x, 1)' <=> Computed(m, x, 1))
          /\ (Computed(m, x, 2)' <=> Computed(m, x, 2))
      BY <1>3, <2>1, <2>3
    <3>2. QED
      BY <1>0, <1>1, <2>1, <2>2, <3>1, ValueStays
  <2>4. CASE m = n /\ x = w
    BY <1>1, <2>4
  <2>5. QED
    BY <2>3, <2>4
<1>5. ASSUME NEW m \in relay' PROVE RelayBooks(m[1], m[2])'
  <2>1. RelayBooks(m[1], m[2])
    BY <1>5 DEF Computing
  <2>2. QED
    BY <1>1, <1>5, <2>1, SameOwner DEF RelayBooks, BusyMove
<1>6. SenderBooks'
  <2>1. \A t \in ledger[pass] : TxFrom[t] \in Wallets
    BY IntactFacts
  <2>2. QED
    BY <2>1 DEF Computing, SenderBooks
<1>7. BarrierBooks'
  BY <1>2, BusyBarrier
<1>8. QED
  BY <1>4, <1>5, <1>6, <1>7 DEF Computing

\* A message that waits is noticed.
LEMMA WaitingMessages ==
  ASSUME NEW T \in SUBSET Txs
  PROVE  /\ ~PendingMessages(EnqueueAll(NoMsgs, T)) => T = {}
         /\ EnqueueAll(NoMsgs, T).sum = Total(TxValue, T)
         /\ ~PendingMessages(NoMsgs)
         /\ EnqueueAll(NoMsgs, {}) = NoMsgs
<1>1. NoMsgs \in Msgs /\ NoMsgs.n = 0 /\ NoMsgs.sum = 0
  BY DEF NoMsgs, Msgs
<1>2. EnqueueAll(NoMsgs, T) = [n |-> NoMsgs.n + Cardinality(T), sum |-> NoMsgs.sum + Total(TxValue, T)]
      /\ EnqueueAll(NoMsgs, {}) = NoMsgs
  BY <1>1, Enqueued
<1>3. Cardinality(T) \in Nat /\ IsFiniteSet(T) /\ Total(TxValue, T) \in Nat
  BY FiniteTxs, Sums
<1>4. EnqueueAll(NoMsgs, T).n = Cardinality(T) /\ EnqueueAll(NoMsgs, T).sum = Total(TxValue, T)
  BY <1>1, <1>2, <1>3
<1>5. Cardinality(T) = 0 => T = {}
  BY <1>3, FS_EmptySet
<1>6. QED
  BY <1>1, <1>2, <1>4, <1>5 DEF PendingMessages

\* A vertex that is not active, and has no messages, is skipped.
LEMMA SkipsVertex ==
  ASSUME Control, Control', Intact, Computing, dep' = dep, ledger'[pass'] = ledger[pass], Running' = Running,
         NEW n \in Running, NEW w \in Wallets, VertexSkipped(n, w)
  PROVE  Computing'
<1>0. /\ UNCHANGED <<vertex, superstep, run, feed, activeIn, relay>>
      /\ run[n] = "step" /\ w \in busy[n] /\ busy' = [busy EXCEPT ![n] = @ \ {w}]
      /\ ~vertex[n][w].active /\ ~PendingMessages(vertex[n][w].queue[Buffer(n)])
  BY DEF VertexSkipped, InHand, Runs, WorkerFinishes
<1>1. w \in VerticesOf(n) /\ n \in Nodes /\ n \in dep.nodes /\ superstep[n] \in Nat /\ GraphTypes
  BY <1>0, IntactFacts, StepNumbers DEF GraphTypes
<1>2. superstep[n] >= 2
  <2>1. SUFFICES ASSUME superstep[n] < 2 PROVE FALSE
    BY <1>1
  <2>2. ~Computed(n, w, 1) /\ ~Computed(n, w, 2)
    BY <1>0, <1>1, <2>1 DEF Computed
  <2>3. Waiting(n, w)
    BY <1>1, <2>2, Phases DEF Computing
  <2>4. QED
    BY <1>0, <2>3 DEF Waiting
<1>3. BusyMove(n, w)
  BY <1>0, <1>2 DEF BusyMove
<1>4. ASSUME \A x : Delivered(n, x)' = Delivered(n, x) PROVE Settled(n, w)'
  <2>1. CASE superstep[n] >= 3
    <3>1. Settled(n, w)
      BY <1>3, <2>1, BusyPhase
    <3>2. QED
      BY <1>0, <1>4, <3>1, SamePhase
  <2>2. CASE superstep[n] = 2
    <3>1. Sent(n, w)
      BY <1>3, <2>2, BusyPhase
    <3>2. Buffer(n) = 0
      BY <1>1, <2>2, Buffers
    <3>3. Delivered(n, w) = Earned(w) /\ Earned(w) \in SUBSET Txs
      <4>1. \A m \in Running : superstep[m] = 2
        BY <1>0, <2>2, StepTogether DEF Computing
      <4>2. \A m \in Running : superstep[m] >= 2
        BY <4>1
      <4>3. QED
        BY <4>2, EverythingSent, BalanceIs, IntactFacts
    <3>4. Earned(w) = {}
      BY <1>0, <3>1, <3>2, <3>3, WaitingMessages DEF Sent
    <3>5. vertex[n][w].queue[0] = NoMsgs
      BY <3>1, <3>3, <3>4, WaitingMessages DEF Sent
    <3>6. Balance(w, ledger[pass]) = 0 - Cost(Spent(w))
      <4>1. Balance(w, ledger[pass]) = Total(TxValue, {}) - Cost(Spent(w)) /\ Cost(Spent(w)) \in Int
        BY <3>4, BalanceIs, IntactFacts
      <4>2. Total(TxValue, {}) = 0
        BY SumEmpty
      <4>3. QED
        BY <4>1, <4>2
    <3>7. Settled(n, w)
      BY <3>1, <3>5, <3>6 DEF Sent, Settled
    <3>8. QED
      BY <1>0, <1>4, <3>7, SamePhase
  <2>3. QED
    BY <1>1, <1>2, <2>1, <2>2
<1>5. (\A x : Delivered(n, x)' = Delivered(n, x)) => ValueBooks(n, w)'
  BY <1>2, <1>3, <1>4, BusyPhase
<1>6. QED
  BY <1>0, <1>3, <1>5, BusyStep

\* The superstep that counts changes no value.
LEMMA CountsVertex ==
  ASSUME Control, Control', Intact, Computing, dep' = dep, ledger'[pass'] = ledger[pass], Running' = Running,
         NEW n \in Running, NEW w \in Wallets, ComputeCounts(n, w)
  PROVE  Computing'
<1>0. /\ UNCHANGED <<superstep, run, feed, relay>> /\ superstep[n] = 0
      /\ run[n] = "step" /\ w \in busy[n] /\ busy' = [busy EXCEPT ![n] = @ \ {w}]
      /\ activeIn' = [activeIn EXCEPT ![n] = @ + 1]
  BY DEF ComputeCounts, InHand, WorkerFinishes
<1>1. BusyMove(n, w)
  BY <1>0 DEF BusyMove
<1>2. GraphTypes /\ n \in Nodes
  BY IntactFacts
<1>3. /\ \A x \in Wallets \ {w} : vertex'[n][x] = vertex[n][x]
      /\ LET v == vertex[n][w]
             u == vertex'[n][w]
         IN /\ u.on = v.on /\ u.value = v.value /\ u.txs = v.txs /\ u.active = TRUE
            /\ u.queue[0] = NoMsgs /\ u.queue[1] = v.queue[1]
  <2>1. Buffer(n) = 0 /\ NextBuffer(n) = 1
    BY <1>0, <1>2, Buffers
  <2>2. QED
    BY <1>2, <2>1, CountsShape
<1>4. \A m \in Running \ {n} : vertex'[m] = vertex[m]
  BY <1>2, IntactFacts, OtherGraphs DEF GraphStep, GraphFrame
<1>5. Waiting(n, w) /\ (ValueBooks(n, w)' <=> Waiting(n, w)')
  BY <1>0, <1>1, BusyPhase
<1>6. \A x : Delivered(n, x) = {}
  BY <1>0, StepTogether, NothingSent DEF Computing
<1>7. ASSUME \A x : Delivered(n, x)' = Delivered(n, x) PROVE Waiting(n, w)'
  <2>1. EnqueueAll(NoMsgs, {}) = NoMsgs
    BY WaitingMessages
  <2>2. Spent(w)' = Spent(w) /\ Delivered(n, w)' = {}
    BY <1>6, <1>7, SameLedger
  <2>3. QED
    BY <1>3, <1>5, <2>1, <2>2 DEF Waiting
<1>8. \A m \in Running : \A x \in Wallets :
           /\ vertex'[m][x].on = vertex[m][x].on /\ vertex'[m][x].txs = vertex[m][x].txs
           /\ m # n \/ x # w => vertex'[m][x] = vertex[m][x]
  BY <1>3, <1>4
<1>9. QED
  BY <1>0, <1>1, <1>5, <1>7, <1>8, BusyStep

\* The superstep that adds makes the balance.
LEMMA AddsVertex ==
  ASSUME Control, Control', Intact, Computing, dep' = dep, ledger'[pass'] = ledger[pass], Running' = Running,
         NEW n \in Running, NEW w \in Wallets, ComputeAdds(n, w)
  PROVE  Computing'
<1>0. /\ UNCHANGED <<superstep, run, feed, relay>> /\ superstep[n] >= 2 /\ Runs(n, w)
      /\ run[n] = "step" /\ w \in busy[n] /\ busy' = [busy EXCEPT ![n] = @ \ {w}]
      /\ activeIn' = [activeIn EXCEPT ![n] = @ + 1]
  BY DEF ComputeAdds, InHand, WorkerFinishes
<1>2. GraphTypes /\ n \in Nodes /\ superstep[n] \in Nat /\ w \in VerticesOf(n)
  BY <1>0, IntactFacts, StepNumbers DEF GraphTypes
<1>3. superstep[n] = 2
  <2>1. SUFFICES ASSUME superstep[n] > 2 PROVE FALSE
    BY <1>0, <1>2
  <2>2. Computed(n, w, 2)
    BY <2>1 DEF Computed
  <2>3. Settled(n, w)
    BY <1>2, <2>2, Phases DEF Computing
  <2>4. ~PendingMessages(NoMsgs)
    BY DEF PendingMessages, NoMsgs
  <2>5. vertex[n][w].queue[Buffer(n)] = NoMsgs
    BY <1>2, <2>3, Buffers DEF Settled
  <2>6. QED
    BY <1>0, <2>3, <2>4, <2>5 DEF Settled, Runs
<1>1. BusyMove(n, w)
  BY <1>0, <1>3 DEF BusyMove
<1>4. /\ \A x \in Wallets \ {w} : vertex'[n][x] = vertex[n][x]
      /\ LET v == vertex[n][w]
             u == vertex'[n][w]
         IN /\ u.on = v.on /\ u.value = v.value + v.queue[0].sum /\ u.txs = v.txs /\ u.active = FALSE
            /\ u.queue[0] = NoMsgs /\ u.queue[1] = v.queue[1]
  <2>1. Buffer(n) = 0 /\ NextBuffer(n) = 1
    BY <1>2, <1>3, Buffers
  <2>2. /\ \A x \in Wallets \ {w} : vertex'[n][x] = vertex[n][x]
        /\ LET v == vertex[n][w]
               u == vertex'[n][w]
           IN /\ u.on = v.on /\ u.txs = v.txs /\ u.active = FALSE
              /\ u.value = IF superstep[n] = 2 THEN v.value + v.queue[Buffer(n)].sum ELSE v.value
              /\ u.queue[Buffer(n)] = NoMsgs /\ u.queue[NextBuffer(n)] = v.queue[NextBuffer(n)]
    BY ZenonT(60), <1>2, AddsShape
  <2>3. QED
    BY <1>3, <2>1, <2>2
<1>5. \A m \in Running \ {n} : vertex'[m] = vertex[m]
  BY <1>2, IntactFacts, OtherGraphs DEF GraphStep, GraphFrame
<1>6. Sent(n, w) /\ (ValueBooks(n, w)' <=> Settled(n, w)')
  BY <1>1, <1>3, BusyPhase
<1>7. Delivered(n, w) = Earned(w) /\ Earned(w) \in SUBSET Txs
  <2>1. \A m \in Running : superstep[m] = 2
    BY <1>0, <1>3, StepTogether DEF Computing
  <2>2. \A m \in Running : superstep[m] >= 2
    BY <2>1
  <2>3. QED
    BY <2>2, EverythingSent, BalanceIs, IntactFacts
<1>8. vertex[n][w].value + vertex[n][w].queue[0].sum = Balance(w, ledger[pass])
  <2>1. vertex[n][w].value = 0 - Cost(Spent(w)) /\ vertex[n][w].queue[0].sum = Total(TxValue, Earned(w))
    BY <1>6, <1>7, WaitingMessages DEF Sent
  <2>2. QED
    BY <2>1, BalanceIs, IntactFacts
<1>9. Settled(n, w)'
  <2>1. Balance(w, ledger[pass])' = Balance(w, ledger[pass])
    BY SameLedger
  <2>2. vertex'[n][w].value = Balance(w, ledger[pass])'
    BY <1>4, <1>8, <2>1
  <2>3. QED
    BY <1>4, <1>6, <2>2 DEF Sent, Settled
<1>10. \A m \in Running : \A x \in Wallets :
           /\ vertex'[m][x].on = vertex[m][x].on /\ vertex'[m][x].txs = vertex[m][x].txs
           /\ m # n \/ x # w => vertex'[m][x] = vertex[m][x]
  BY <1>4, <1>5
<1>11. QED
  BY <1>0, <1>1, <1>6, <1>9, <1>10, BusyStep

\* A queue is the same whichever messages came first.
LEMMA EnqueueMore ==
  ASSUME NEW D \in SUBSET Txs, NEW S \in SUBSET Txs, D \cap S = {}
  PROVE  EnqueueAll(EnqueueAll(NoMsgs, D), S) = EnqueueAll(NoMsgs, D \cup S)
<1>1. NoMsgs \in Msgs /\ NoMsgs.n = 0 /\ NoMsgs.sum = 0
  BY DEF NoMsgs, Msgs
<1>2. EnqueueAll(NoMsgs, D) \in Msgs
      /\ EnqueueAll(NoMsgs, D) = [n |-> NoMsgs.n + Cardinality(D), sum |-> NoMsgs.sum + Total(TxValue, D)]
  BY <1>1, Enqueued
<1>3. EnqueueAll(EnqueueAll(NoMsgs, D), S) =
        [n |-> EnqueueAll(NoMsgs, D).n + Cardinality(S), sum |-> EnqueueAll(NoMsgs, D).sum + Total(TxValue, S)]
  BY <1>2, Enqueued
<1>4. D \cup S \in SUBSET Txs
  OBVIOUS
<1>5. EnqueueAll(NoMsgs, D \cup S) =
        [n |-> NoMsgs.n + Cardinality(D \cup S), sum |-> NoMsgs.sum + Total(TxValue, D \cup S)]
  BY <1>1, <1>4, Enqueued
<1>6. /\ Cardinality(D) \in Nat /\ Cardinality(S) \in Nat /\ IsFiniteSet(D) /\ IsFiniteSet(S)
      /\ Total(TxValue, D) \in Nat /\ Total(TxValue, S) \in Nat
  BY FiniteTxs, Sums
<1>7. Cardinality(D \cup S) = Cardinality(D) + Cardinality(S)
  <2>1. Cardinality(D \cap S) = 0
    BY FS_EmptySet
  <2>2. Cardinality(D \cup S) = Cardinality(D) + Cardinality(S) - Cardinality(D \cap S)
    BY <1>6, FS_Union
  <2>3. QED
    BY <1>6, <2>1, <2>2
<1>8. Total(TxValue, D \cup S) = Total(TxValue, D) + Total(TxValue, S)
  <2>1. \A y \in D \cup S : TxValue[y] \in Int
    BY TxAssumption
  <2>2. QED
    BY <1>6, <2>1, SumUnion
<1>9. EnqueueAll(NoMsgs, D).n = Cardinality(D) /\ EnqueueAll(NoMsgs, D).sum = Total(TxValue, D)
  BY <1>1, <1>2, <1>6
<1>10. NoMsgs.n + Cardinality(D \cup S) = EnqueueAll(NoMsgs, D).n + Cardinality(S)
       /\ NoMsgs.sum + Total(TxValue, D \cup S) = EnqueueAll(NoMsgs, D).sum + Total(TxValue, S)
  <2>1. NoMsgs.n + Cardinality(D \cup S) = EnqueueAll(NoMsgs, D).n + Cardinality(S)
    BY <1>1, <1>6, <1>7, <1>9
  <2>2. NoMsgs.sum + Total(TxValue, D \cup S) = EnqueueAll(NoMsgs, D).sum + Total(TxValue, S)
    BY <1>1, <1>6, <1>8, <1>9
  <2>3. QED
    BY <2>1, <2>2
<1>11. QED
  BY <1>3, <1>5, <1>10

\* One more message in a queue.
LEMMA EnqueueOne ==
  ASSUME NEW D \in SUBSET Txs, NEW t \in Txs, t \notin D
  PROVE  Enqueue(EnqueueAll(NoMsgs, D), t) = EnqueueAll(NoMsgs, D \cup {t})
<1>1. NoMsgs \in Msgs /\ NoMsgs.n = 0 /\ NoMsgs.sum = 0
  BY DEF NoMsgs, Msgs
<1>2. D \cup {t} \in SUBSET Txs
  OBVIOUS
<1>3. /\ EnqueueAll(NoMsgs, D) = [n |-> NoMsgs.n + Cardinality(D), sum |-> NoMsgs.sum + Total(TxValue, D)]
      /\ EnqueueAll(NoMsgs, D \cup {t}) =
           [n |-> NoMsgs.n + Cardinality(D \cup {t}), sum |-> NoMsgs.sum + Total(TxValue, D \cup {t})]
  BY <1>1, <1>2, Enqueued
<1>4. /\ Cardinality(D) \in Nat /\ IsFiniteSet(D) /\ Total(TxValue, D) \in Nat /\ TxValue[t] \in Nat
  BY FiniteTxs, Sums, TxAssumption
<1>5. Cardinality(D \cup {t}) = Cardinality(D) + 1
  BY <1>4, FS_AddElement
<1>6. Total(TxValue, D \cup {t}) = Total(TxValue, D) + TxValue[t]
  <2>1. \A y \in D \cup {t} : TxValue[y] \in Int
    BY TxAssumption
  <2>2. QED
    BY <1>4, <2>1, SumAdd
<1>7. EnqueueAll(NoMsgs, D).n = Cardinality(D) /\ EnqueueAll(NoMsgs, D).sum = Total(TxValue, D)
  BY <1>1, <1>3, <1>4
<1>8. NoMsgs.n + Cardinality(D \cup {t}) = EnqueueAll(NoMsgs, D).n + 1
      /\ NoMsgs.sum + Total(TxValue, D \cup {t}) = EnqueueAll(NoMsgs, D).sum + TxValue[t]
  BY <1>1, <1>4, <1>5, <1>6, <1>7
<1>9. Enqueue(EnqueueAll(NoMsgs, D), t) = [n |-> EnqueueAll(NoMsgs, D).n + 1, sum |-> EnqueueAll(NoMsgs, D).sum + TxValue[t]]
  BY <1>3 DEF Enqueue
<1>10. QED
  BY <1>3, <1>8, <1>9

\* The superstep that sends: locally, or by the relay.
LEMMA SendsVertex ==
  ASSUME Control, Control', Intact, Computing, dep' = dep, ledger'[pass'] = ledger[pass], Running' = Running,
         Running = dep.nodes, NEW n \in Running, NEW w \in Wallets, ComputeSends(n, w)
  PROVE  Computing'
<1> DEFINE T == vertex[n][w].txs
<1> DEFINE L == Local(n, T)
<1>0. /\ UNCHANGED <<superstep, run, feed>> /\ superstep[n] = 1
      /\ run[n] = "step" /\ w \in busy[n] /\ busy' = [busy EXCEPT ![n] = @ \ {w}]
      /\ activeIn' = [activeIn EXCEPT ![n] = @ + 1]
      /\ relay' = relay \cup {<<OwnerOf(TxTo[t]), t>> : t \in T \ L}
  BY DEF ComputeSends, InHand, WorkerFinishes
<1>1. BusyMove(n, w)
  BY <1>0 DEF BusyMove
<1>2. /\ GraphTypes /\ GraphTypes' /\ PassTypes /\ Types /\ n \in Nodes /\ n \in dep.nodes /\ dep.nodes \subseteq Nodes
      /\ ledger[pass] \in SUBSET Txs
      /\ \A t \in ledger[pass] : t \in Txs /\ TxFrom[t] \in Wallets /\ TxTo[t] \in Wallets
      /\ \A m \in Running : m \in Nodes /\ m \in dep.nodes
  BY IntactFacts DEF Control, Types
<1>3. /\ Waiting(n, w) /\ (ValueBooks(n, w)' <=> Sent(n, w)') /\ w \in VerticesOf(n)
  BY <1>0, <1>1, BusyPhase
<1>4. Buffer(n) = 1 /\ NextBuffer(n) = 0
  BY <1>0, <1>2, Buffers
<1>5. T = Spent(w) /\ T \subseteq ledger[pass] /\ L \subseteq T /\ T \in SUBSET Txs /\ L \in SUBSET Txs
      /\ (\A t \in T : TxFrom[t] = w) /\ L = {t \in T : vertex[n][TxTo[t]].on}
  BY <1>2, <1>3 DEF Waiting, Spent, Local
<1>6. \A x \in Wallets :
        LET v == vertex[n][x]
            u == Queued(n, L)[x]
        IN /\ u.on = v.on /\ u.value = v.value /\ u.txs = v.txs /\ u.active = v.active
           /\ u.queue[1] = v.queue[1]
           /\ u.queue[0] = EnqueueAll(v.queue[0], To(L, x))
  <2> HIDE DEF L, T
  <2>1. \A x \in Wallets :
        LET v == vertex[n][x]
            u == Queued(n, L)[x]
        IN /\ u.on = v.on /\ u.value = v.value /\ u.txs = v.txs /\ u.active = v.active
           /\ u.queue[Buffer(n)] = v.queue[Buffer(n)]
           /\ u.queue[NextBuffer(n)] = EnqueueAll(v.queue[NextBuffer(n)], To(L, x))
    BY <1>2, <1>5, QueuedShape
  <2>2. QED
    BY <1>4, <2>1
<1>7. /\ \A x \in Wallets \ {w} : vertex'[n][x] = Queued(n, L)[x]
      /\ LET v == vertex[n][w]
             u == vertex'[n][w]
         IN /\ u.on = v.on /\ u.txs = {} /\ u.active = FALSE
            /\ u.value = v.value - Cost(v.txs)
            /\ u.queue[1] = NoMsgs
            /\ u.queue[0] = EnqueueAll(v.queue[0], To(L, w))
  <2>1. /\ \A x \in Wallets \ {w} : vertex'[n][x] = Queued(n, L)[x]
        /\ LET v == vertex[n][w]
               u == vertex'[n][w]
           IN /\ u.on = v.on /\ u.txs = {} /\ u.active = FALSE
              /\ u.value = v.value - Cost(v.txs)
              /\ u.queue[Buffer(n)] = NoMsgs
              /\ u.queue[NextBuffer(n)] = EnqueueAll(v.queue[NextBuffer(n)], To(L, w))
    BY <1>2, SendsShape
  <2> HIDE DEF L, T
  <2>2. QED
    BY <1>4, <2>1
<1>8. \A m \in Running \ {n} : vertex'[m] = vertex[m]
  <2>1. GraphStep(n)
    BY DEF GraphStep
  <2>2. QED
    BY <1>2, <2>1, OtherGraphs DEF GraphFrame
<1> HIDE DEF L, T
<1>9. \A m \in Running : \A x \in Wallets : vertex'[m][x].on = vertex[m][x].on
                                        /\ vertex'[m][x].txs = IF m = n /\ x = w THEN {} ELSE vertex[m][x].txs
  <2> SUFFICES ASSUME NEW m \in Running, NEW x \in Wallets
               PROVE  vertex'[m][x].on = vertex[m][x].on
                      /\ vertex'[m][x].txs = IF m = n /\ x = w THEN {} ELSE vertex[m][x].txs
    OBVIOUS
  <2>1. CASE m # n
    BY <1>8, <2>1
  <2>2. CASE m = n /\ x # w
    BY <1>6, <1>7, <2>2
  <2>3. CASE m = n /\ x = w
    BY <1>7, <2>3
  <2>4. QED
    BY <2>1, <2>2, <2>3
<1>10. \A t \in T : Unsent(t)
  BY <1>5 DEF Unsent, T
<1>11. ASSUME NEW t \in ledger[pass] PROVE Unsent(t)' <=> Unsent(t) /\ t \notin T
  <2>1. ASSUME Unsent(t)' PROVE Unsent(t) /\ t \notin T
    <3>1. PICK k \in Running : t \in vertex'[k][TxFrom[t]].txs
      BY <2>1 DEF Unsent
    <3>2. (k # n \/ TxFrom[t] # w) /\ t \in vertex[k][TxFrom[t]].txs
      BY <1>2, <1>9, <1>11, <3>1
    <3>3. ASSUME t \in T PROVE FALSE
      <4>1. TxFrom[t] = w /\ vertex[k][w].on /\ vertex[n][w].on
        BY <1>2, <1>5, <1>9, <3>2, <3>3, OwnTxs DEF T
      <4>2. OwnerOf(w) = k /\ OwnerOf(w) = n
        BY <1>2, <4>1, OneOwner DEF Intact
      <4>3. QED
        BY <3>2, <4>1, <4>2
    <3>4. QED
      BY <3>2, <3>3 DEF Unsent
  <2>2. ASSUME Unsent(t), t \notin T PROVE Unsent(t)'
    <3>1. PICK k \in Running : t \in vertex[k][TxFrom[t]].txs
      BY <2>2 DEF Unsent
    <3>2. k # n \/ TxFrom[t] # w
      BY <2>2, <3>1 DEF T
    <3>3. t \in vertex'[k][TxFrom[t]].txs
      BY <1>2, <1>9, <1>11, <3>1, <3>2
    <3>4. QED
      BY <3>3 DEF Unsent
  <2>3. QED
    BY <2>1, <2>2
<1>12. \A m, t : <<m, t>> \in relay' => <<m, t>> \in relay \/ (t \in T \ L /\ m = OwnerOf(TxTo[t]))
  BY <1>0
<1>13. \A t \in T : \A m : <<m, t>> \notin relay
  BY <1>10 DEF Computing, RelayBooks
<1>14. ASSUME NEW x \in VerticesOf(n) PROVE Delivered(n, x)' = Delivered(n, x) \cup To(L, x) /\ Delivered(n, x) \cap To(L, x) = {}
                                            /\ Delivered(n, x) \in SUBSET Txs /\ To(L, x) \in SUBSET Txs
  <2>1. vertex[n][x].on /\ Earned(x)' = Earned(x)
    BY <1>14, SameLedger DEF VerticesOf
  <2>2. ASSUME NEW t \in Delivered(n, x)' PROVE t \in Delivered(n, x) \cup To(L, x)
    <3>1. t \in ledger[pass] /\ TxTo[t] = x /\ ~Unsent(t)' /\ <<n, t>> \notin relay' /\ t \in Earned(x)
      BY <2>1, <2>2 DEF Delivered, Earned
    <3>2. CASE t \in T
      BY <1>5, <2>1, <3>1, <3>2 DEF To
    <3>3. CASE t \notin T
      <4>1. ~Unsent(t)
        BY <1>11, <3>1, <3>3
      <4>2. <<n, t>> \notin relay
        BY <1>0, <3>1
      <4>3. QED
        BY <3>1, <4>1, <4>2 DEF Delivered
    <3>4. QED
      BY <3>2, <3>3
  <2>3. ASSUME NEW t \in Delivered(n, x) PROVE t \in Delivered(n, x)' /\ t \notin To(L, x) /\ t \in Txs
    <3>1. t \in ledger[pass] /\ ~Unsent(t) /\ <<n, t>> \notin relay /\ t \in Earned(x)
      BY <2>3 DEF Delivered, Earned
    <3>2. t \notin T
      BY <1>10, <3>1
    <3>3. ~Unsent(t)' /\ <<n, t>> \notin relay'
      BY <1>11, <1>12, <3>1, <3>2
    <3>4. t \in Earned(x)'
      BY <2>1, <3>1
    <3>5. QED
      BY <1>2, <1>5, <3>1, <3>2, <3>3, <3>4 DEF Delivered, To
  <2>4. ASSUME NEW t \in To(L, x) PROVE t \in Delivered(n, x)' /\ t \in Txs
    <3>1. t \in T /\ t \in L /\ TxTo[t] = x /\ t \in ledger[pass]
      BY <1>5, <2>4 DEF To
    <3>2. ~Unsent(t)'
      BY <1>11, <3>1
    <3>3. <<n, t>> \notin relay'
      BY <1>12, <1>13, <3>1
    <3>4. t \in Earned(x)'
      BY <2>1, <3>1 DEF Earned
    <3>5. QED
      BY <1>2, <3>1, <3>2, <3>3, <3>4 DEF Delivered
  <2>5. QED
    BY <2>2, <2>3, <2>4
<1>15. ASSUME NEW m \in Running \ {n}, NEW x \in VerticesOf(m) PROVE Delivered(m, x)' = Delivered(m, x)
  <2>1. vertex[m][x].on /\ Earned(x)' = Earned(x) /\ x \in Wallets
    BY <1>15, SameLedger DEF VerticesOf
  <2>2. ASSUME NEW t \in Delivered(m, x)' PROVE t \in Delivered(m, x)
    <3>1. t \in ledger[pass] /\ TxTo[t] = x /\ ~Unsent(t)' /\ <<m, t>> \notin relay' /\ t \in Earned(x)
      BY <2>1, <2>2 DEF Delivered, Earned
    <3>2. t \notin T
      <4>1. SUFFICES ASSUME t \in T PROVE FALSE
        OBVIOUS
      <4>2. OwnerOf(x) = m
        BY <1>2, <1>15, <2>1, OneOwner DEF Intact
      <4>3. ~vertex[n][x].on
        <5>1. vertex[n][x].on => OwnerOf(x) = n
          BY <1>2, <2>1, OneOwner DEF Intact
        <5>2. QED
          BY <1>15, <4>2, <5>1
      <4>4. t \in T \ L
        BY <1>5, <3>1, <4>1, <4>3
      <4>5. <<m, t>> \in relay'
        BY <1>0, <3>1, <4>2, <4>4
      <4>6. QED
        BY <3>1, <4>5
    <3>3. ~Unsent(t) /\ <<m, t>> \notin relay
      BY <1>0, <1>11, <3>1, <3>2
    <3>4. QED
      BY <3>1, <3>3 DEF Delivered
  <2>3. ASSUME NEW t \in Delivered(m, x) PROVE t \in Delivered(m, x)'
    <3>1. t \in ledger[pass] /\ ~Unsent(t) /\ <<m, t>> \notin relay /\ t \in Earned(x)
      BY <2>3 DEF Delivered, Earned
    <3>2. t \notin T
      BY <1>10, <3>1
    <3>3. ~Unsent(t)' /\ <<m, t>> \notin relay'
      BY <1>11, <1>12, <3>1, <3>2
    <3>4. t \in Earned(x)'
      BY <2>1, <3>1
    <3>5. QED
      BY <3>3, <3>4 DEF Delivered
  <2>4. QED
    BY <2>2, <2>3
<1>16. \A m \in Running : VerticesOf(m)' = VerticesOf(m)
  BY <1>9 DEF VerticesOf
<1>17. \A m \in Running : \A x, k : m # n \/ x # w => (Computed(m, x, k)' <=> Computed(m, x, k))
  BY <1>1, BusyComputed
<1>18. ASSUME NEW x \in VerticesOf(n), vertex[n][x].queue[0] = EnqueueAll(NoMsgs, Delivered(n, x))
       PROVE  vertex'[n][x].queue[0] = EnqueueAll(NoMsgs, Delivered(n, x))'
  <2>1. vertex'[n][x].queue[0] = EnqueueAll(EnqueueAll(NoMsgs, Delivered(n, x)), To(L, x))
    BY <1>6, <1>7, <1>18 DEF VerticesOf
  <2>2. EnqueueAll(EnqueueAll(NoMsgs, Delivered(n, x)), To(L, x)) = EnqueueAll(NoMsgs, Delivered(n, x) \cup To(L, x))
    BY <1>14, EnqueueMore
  <2>3. QED
    BY <1>14, <2>1, <2>2
<1>19. ASSUME NEW m \in Running', NEW x \in VerticesOf(m)' PROVE ValueBooks(m, x)'
  <2>1. m \in Running /\ m \in Nodes /\ x \in VerticesOf(m) /\ x \in Wallets
    BY <1>2, <1>16, <1>19 DEF VerticesOf
  <2>2. ValueBooks(m, x)
    BY <2>1 DEF Computing
  <2>3. CASE m # n
    <3>1. vertex'[m][x] = vertex[m][x] /\ (Computed(m, x, 1)' <=> Computed(m, x, 1))
          /\ (Computed(m, x, 2)' <=> Computed(m, x, 2)) /\ Delivered(m, x)' = Delivered(m, x)
      BY <1>8, <1>15, <1>17, <2>1, <2>3
    <3>2. QED
      BY <1>2, <2>1, <2>2, <3>1, ValueStays
  <2>4. CASE m = n /\ x = w
    <3>1. Spent(w)' = Spent(w) /\ Cost(Spent(w))' = Cost(Spent(w)) /\ Cost(vertex[n][w].txs) = Cost(Spent(w))
      BY <1>3, SameLedger DEF Waiting
    <3>2. vertex'[n][w].queue[0] = EnqueueAll(NoMsgs, Delivered(n, w))'
      BY <1>3, <1>18 DEF Waiting
    <3>3. vertex'[n][w].value = 0 - Cost(Spent(w))'
      BY <1>3, <1>7, <3>1 DEF Waiting
    <3>4. Sent(n, w)'
      BY <1>7, <3>2, <3>3 DEF Sent
    <3>5. QED
      BY <1>3, <2>4, <3>4
  <2>5. CASE m = n /\ x # w
    <3>1. ~Computed(n, x, 2) /\ ~Computed(n, x, 2)' /\ (Computed(n, x, 1)' <=> Computed(n, x, 1))
      <4>1. ~Computed(n, x, 2)
        BY <1>0 DEF Computed
      <4>2. QED
        BY <1>17, <2>1, <2>5, <4>1
    <3>2. IF Computed(n, x, 1) THEN Sent(n, x) ELSE Waiting(n, x)
      BY <1>2, <2>1, <2>2, <2>5, <3>1, Phases
    <3>3. LET v == vertex[n][x]
              u == vertex'[n][x]
          IN u.value = v.value /\ u.txs = v.txs /\ u.active = v.active /\ u.queue[1] = v.queue[1]
      BY <1>6, <1>7, <2>1, <2>5
    <3>4. Spent(x)' = Spent(x) /\ Cost(Spent(x))' = Cost(Spent(x))
      BY SameLedger
    <3>5. Sent(n, x) => Sent(n, x)'
      BY <1>18, <2>1, <2>5, <3>3, <3>4 DEF Sent
    <3>6. Waiting(n, x) => Waiting(n, x)'
      BY <1>18, <2>1, <2>5, <3>3, <3>4 DEF Waiting
    <3>7. ValueBooks(n, x)' <=>
        (IF Computed(n, x, 2) THEN Settled(n, x) ELSE IF Computed(n, x, 1) THEN Sent(n, x) ELSE Waiting(n, x))'
      BY <1>2, <2>1, <2>5, PhasesNext
    <3>8. QED
      BY <2>5, <3>1, <3>2, <3>5, <3>6, <3>7
  <2>6. QED
    BY <2>3, <2>4, <2>5
<1>20. ASSUME NEW p \in relay' PROVE RelayBooks(p[1], p[2])'
  <2>1. CASE p \in relay
    <3>1. RelayBooks(p[1], p[2])
      BY <2>1 DEF Computing
    <3>2. ~Unsent(p[2])' /\ p[2] \in ledger[pass]
      BY <1>11, <3>1 DEF RelayBooks
    <3>3. QED
      BY <1>0, <3>1, <3>2, SameOwner DEF RelayBooks
  <2>2. ASSUME NEW t \in T \ L, p = <<OwnerOf(TxTo[t]), t>> PROVE RelayBooks(p[1], p[2])'
    <3>1. p[1] = OwnerOf(TxTo[t]) /\ p[2] = t /\ t \in ledger[pass] /\ t \in T
      BY <1>5, <2>2
    <3>2. ~Unsent(t)'
      BY <1>11, <3>1
    <3>3. p[1] # Nobody => superstep'[p[1]] = 1
      <4>1. p[1] \in dep.nodes \cup {Nobody}
        BY <1>2, <3>1, OwnerType
      <4>2. \A m \in Running : superstep[m] = 1
        BY <1>0, StepTogether DEF Computing
      <4>3. QED
        BY <1>0, <4>1, <4>2
    <3>4. QED
      BY <3>1, <3>2, <3>3, SameOwner DEF RelayBooks
  <2>3. QED
    BY <1>0, <1>20, <2>1, <2>2
<1>21. SenderBooks'
  BY <1>2, <1>9 DEF Computing, SenderBooks
<1>22. BarrierBooks'
  BY <1>1, <1>16, BusyBarrier
<1>23. QED
  BY <1>19, <1>20, <1>21, <1>22 DEF Computing

-----------------------------------------------------------------------------
\* Messages that are relayed.

\* The books of the barrier are about supersteps and who is in them.
LEMMA SameBarrier ==
  ASSUME BarrierBooks, Running' = Running, dep' = dep, UNCHANGED <<superstep, run, feed, busy, activeIn>>,
         \A m \in Running : VerticesOf(m)' = VerticesOf(m)
  PROVE  BarrierBooks' /\ \A m \in Running : \A x, k : Computed(m, x, k)' <=> Computed(m, x, k)
<1>1. \A k, m \in Running : Ahead(k, m)' <=> Ahead(k, m)
  BY DEF Ahead
<1>2. BarrierBooks'
  BY <1>1 DEF BarrierBooks
<1>3. \A m \in Running : \A x, k : Computed(m, x, k)' <=> Computed(m, x, k)
  BY DEF Computed
<1>4. QED
  BY <1>2, <1>3

\* A relayed message is delivered once.
LEMMA DeliversMessage ==
  ASSUME Control, Control', Intact, Computing, dep' = dep, ledger'[pass'] = ledger[pass], Running' = Running,
         NEW n \in Running, NEW t \in Txs, RelayDelivered(n, t)
  PROVE  Computing'
<1>0. /\ UNCHANGED <<superstep, run, feed, busy, activeIn>> /\ <<n, t>> \in relay
      /\ relay' = relay \ {<<n, t>>} /\ vertex[n][TxTo[t]].on
  BY DEF RelayDelivered
<1>1. /\ GraphTypes /\ GraphTypes' /\ n \in Nodes /\ TxTo[t] \in Wallets
      /\ ledger[pass] \in SUBSET Txs
      /\ \A y \in ledger[pass] : y \in Txs /\ TxFrom[y] \in Wallets /\ TxTo[y] \in Wallets
      /\ \A m \in Running : m \in Nodes /\ m \in dep.nodes
  BY IntactFacts, TxAssumption DEF Control, Types
<1>2. RelayBooks(n, t)
  BY <1>0 DEF Computing
<1>3. t \in ledger[pass] /\ ~Unsent(t) /\ superstep[n] = 1
  <2>1. n # Nobody
    BY <1>1, IntactFacts, DeploymentsAssumption DEF Nobody
  <2>2. QED
    BY <1>2, <2>1 DEF RelayBooks
<1>4. Buffer(n) = 1 /\ NextBuffer(n) = 0
  BY <1>1, <1>3, Buffers
<1>5. /\ \A x \in Wallets \ {TxTo[t]} : vertex'[n][x] = vertex[n][x]
      /\ LET v == vertex[n][TxTo[t]]
             u == vertex'[n][TxTo[t]]
         IN /\ u.on = v.on /\ u.txs = v.txs /\ u.active = v.active /\ u.value = v.value
            /\ u.queue[0] = Enqueue(v.queue[0], t)
            /\ u.queue[1] = v.queue[1]
  <2>1. /\ \A x \in Wallets \ {TxTo[t]} : vertex'[n][x] = vertex[n][x]
        /\ LET v == vertex[n][TxTo[t]]
               u == vertex'[n][TxTo[t]]
           IN /\ u.on = v.on /\ u.txs = v.txs /\ u.active = v.active /\ u.value = v.value
              /\ u.queue[NextBuffer(n)] = Enqueue(v.queue[NextBuffer(n)], t)
              /\ u.queue[Buffer(n)] = v.queue[Buffer(n)]
    BY <1>1, DeliveredShape
  <2>2. QED
    BY <1>4, <2>1
<1>6. \A m \in Running \ {n} : vertex'[m] = vertex[m]
  <2>1. GraphStep(n)
    BY DEF GraphStep
  <2>2. QED
    BY <1>1, <2>1, OtherGraphs DEF GraphFrame
<1>7. \A m \in Running : \A x \in Wallets : vertex'[m][x].on = vertex[m][x].on /\ vertex'[m][x].txs = vertex[m][x].txs
  <2> SUFFICES ASSUME NEW m \in Running, NEW x \in Wallets
               PROVE  vertex'[m][x].on = vertex[m][x].on /\ vertex'[m][x].txs = vertex[m][x].txs
    OBVIOUS
  <2>1. CASE m # n
    BY <1>6, <2>1
  <2>2. CASE m = n
    BY <1>5, <2>2
  <2>3. QED
    BY <2>1, <2>2
<1>8. \A y \in ledger[pass] : Unsent(y)' <=> Unsent(y)
  BY <1>1, <1>7 DEF Unsent
<1>9. \A m \in Running : VerticesOf(m)' = VerticesOf(m)
  BY <1>7 DEF VerticesOf
<1>10. BarrierBooks' /\ \A m \in Running : \A x, k : Computed(m, x, k)' <=> Computed(m, x, k)
  BY <1>0, <1>9, SameBarrier DEF Computing
<1>11. \A m, x : m # n \/ x # TxTo[t] => Delivered(m, x)' = Delivered(m, x)
  <2>1. ASSUME NEW m, NEW x, m # n \/ x # TxTo[t] PROVE Delivered(m, x)' = Delivered(m, x)
    <3>1. Earned(x)' = Earned(x) /\ \A y \in Earned(x) : y \in ledger[pass] /\ TxTo[y] = x
      BY SameLedger DEF Earned
    <3>2. \A y \in Earned(x) : <<m, y>> \in relay' <=> <<m, y>> \in relay
      BY <1>0, <2>1, <3>1
    <3>3. QED
      BY <1>8, <3>1, <3>2 DEF Delivered
  <2>2. QED
    BY <2>1
<1>12. Delivered(n, TxTo[t])' = Delivered(n, TxTo[t]) \cup {t} /\ t \notin Delivered(n, TxTo[t])
       /\ Delivered(n, TxTo[t]) \in SUBSET Txs
  <2>1. Earned(TxTo[t])' = Earned(TxTo[t]) /\ t \in Earned(TxTo[t]) /\ Earned(TxTo[t]) \subseteq ledger[pass]
    BY <1>3, SameLedger DEF Earned
  <2>2. \A y \in Earned(TxTo[t]) : <<n, y>> \notin relay' <=> <<n, y>> \notin relay \/ y = t
    BY <1>0
  <2>3. QED
    BY <1>0, <1>1, <1>3, <1>8, <2>1, <2>2 DEF Delivered
<1>13. ASSUME NEW m \in Running', NEW x \in VerticesOf(m)' PROVE ValueBooks(m, x)'
  <2>1. m \in Running /\ m \in Nodes /\ x \in VerticesOf(m) /\ x \in Wallets
    BY <1>1, <1>9, <1>13 DEF VerticesOf
  <2>2. ValueBooks(m, x)
    BY <2>1 DEF Computing
  <2>3. CASE m # n \/ x # TxTo[t]
    <3>1. vertex'[m][x] = vertex[m][x] /\ Delivered(m, x)' = Delivered(m, x)
      BY <1>5, <1>6, <1>11, <2>1, <2>3
    <3>2. QED
      BY <1>1, <1>10, <2>1, <2>2, <3>1, ValueStays
  <2>4. CASE m = n /\ x = TxTo[t]
    <3>1. ~Computed(n, x, 2) /\ ~Computed(n, x, 2)'
      <4>1. ~Computed(n, x, 2)
        BY <1>3, <2>4 DEF Computed
      <4>2. Computed(n, x, 2)' <=> Computed(n, x, 2)
        BY <1>10, <2>1, <2>4
      <4>3. QED
        BY <4>1, <4>2
    <3>2. IF Computed(n, x, 1) THEN Sent(n, x) ELSE Waiting(n, x)
      BY <1>1, <2>1, <2>2, <2>4, <3>1, Phases
    <3>3. Spent(x)' = Spent(x) /\ Cost(Spent(x))' = Cost(Spent(x))
      BY SameLedger
    <3>4. vertex[n][x].queue[0] = EnqueueAll(NoMsgs, Delivered(n, x)) => vertex'[n][x].queue[0] = EnqueueAll(NoMsgs, Delivered(n, x))'
      <4>1. Enqueue(EnqueueAll(NoMsgs, Delivered(n, x)), t) = EnqueueAll(NoMsgs, Delivered(n, x) \cup {t})
        BY <1>12, <2>4, EnqueueOne
      <4>2. Delivered(n, x)' = Delivered(n, x) \cup {t}
        BY <1>12, <2>4
      <4>3. QED
        BY <1>5, <2>4, <4>1, <4>2
    <3>5. Sent(n, x) => Sent(n, x)'
      BY <1>5, <2>4, <3>3, <3>4 DEF Sent
    <3>6. Waiting(n, x) => Waiting(n, x)'
      BY <1>5, <2>4, <3>3, <3>4 DEF Waiting
    <3>7. ValueBooks(n, x)' <=>
        (IF Computed(n, x, 2) THEN Settled(n, x) ELSE IF Computed(n, x, 1) THEN Sent(n, x) ELSE Waiting(n, x))'
      BY <1>1, <2>1, <2>4, PhasesNext
    <3>8. QED
      BY <1>10, <2>4, <3>1, <3>2, <3>5, <3>6, <3>7
  <2>5. QED
    BY <2>3, <2>4
<1>14. ASSUME NEW p \in relay' PROVE RelayBooks(p[1], p[2])'
  <2>1. RelayBooks(p[1], p[2])
    BY <1>0, <1>14 DEF Computing
  <2>2. QED
    BY <1>0, <1>8, <2>1, SameOwner DEF RelayBooks
<1>15. SenderBooks'
  BY <1>1, <1>7 DEF Computing, SenderBooks
<1>16. QED
  BY <1>10, <1>13, <1>14, <1>15 DEF Computing

\* A message that comes back was for no vertex of a graph.
LEMMA BouncesMessage ==
  ASSUME Control, Control', Intact, Computing, dep' = dep, ledger'[pass'] = ledger[pass], Running' = Running,
         NEW n \in Nodes \cup {Nobody}, NEW t \in Txs, RelayBounces(n, t), relay' = relay \ {<<n, t>>},
         UNCHANGED <<vertex, superstep, run, feed, busy, activeIn>>
  PROVE  Computing'
<1>1. /\ GraphTypes /\ GraphTypes'
      /\ ledger[pass] \in SUBSET Txs
      /\ \A m \in Running : m \in Nodes /\ m \in dep.nodes
  BY IntactFacts DEF Control, Types
<1>2. \A y \in ledger[pass] : Unsent(y)' <=> Unsent(y)
  BY DEF Unsent
<1>3. \A m \in Running : VerticesOf(m)' = VerticesOf(m)
  BY DEF VerticesOf
<1>4. BarrierBooks' /\ \A m \in Running : \A x, k : Computed(m, x, k)' <=> Computed(m, x, k)
  BY <1>3, SameBarrier DEF Computing
<1>5. ASSUME NEW m \in Running, NEW x \in VerticesOf(m) PROVE Delivered(m, x)' = Delivered(m, x)
  <2>1. x \in Wallets /\ vertex[m][x].on /\ m # Nobody
    BY <1>1, <1>5, DeploymentsAssumption DEF VerticesOf, Nobody
  <2>2. Earned(x)' = Earned(x) /\ \A y \in Earned(x) : y \in ledger[pass] /\ TxTo[y] = x
    BY SameLedger DEF Earned
  <2>3. n # m \/ x # TxTo[t]
    BY <2>1 DEF RelayBounces
  <2>4. \A y \in Earned(x) : <<m, y>> \in relay' <=> <<m, y>> \in relay
    BY <2>2, <2>3
  <2>5. QED
    BY <1>2, <2>2, <2>4 DEF Delivered
<1>6. ASSUME NEW m \in Running', NEW x \in VerticesOf(m)' PROVE ValueBooks(m, x)'
  <2>1. m \in Running /\ m \in Nodes /\ x \in VerticesOf(m) /\ x \in Wallets
    BY <1>1, <1>3, <1>6 DEF VerticesOf
  <2>2. ValueBooks(m, x)
    BY <2>1 DEF Computing
  <2>3. QED
    BY <1>1, <1>4, <1>5, <2>1, <2>2, ValueStays
<1>7. ASSUME NEW p \in relay' PROVE RelayBooks(p[1], p[2])'
  <2>1. RelayBooks(p[1], p[2])
    BY <1>7 DEF Computing
  <2>2. QED
    BY <1>2, <2>1, SameOwner DEF RelayBooks
<1>8. SenderBooks'
  BY DEF Computing, SenderBooks
<1>9. QED
  BY <1>4, <1>6, <1>7, <1>8 DEF Computing

\* No graph takes a step before all are loaded.
LEMMA StepsTogether ==
  ASSUME Control, Intact, NEW n \in dep.nodes, at[n] = "run", GraphStep(n)
  PROVE  ~Loading /\ Running = dep.nodes
<1>1. SUFFICES ASSUME Loading PROVE FALSE
  BY WhileLoading
<1>2. relay = {} /\ superstep[n] = 0 /\ run[n] = "pre"
  BY <1>1, WhileLoading DEF Running
<1>3. PICK m \in dep.nodes : at[m] \in {"start", "load"}
  BY <1>1 DEF Loading
<1>4. NodeBooks(m)
  BY IntactFacts
<1>5. run[m] = "off"
  BY <1>3, <1>4 DEF NodeBooks
<1>6. QED
  BY <1>2, <1>5 DEF GraphStep, StepBegins, StepCompletes, StepEnds, WorkerTakes,
      VertexSkipped, ComputeCounts, ComputeSends, ComputeFails, ComputeAdds, InHand, RelayDelivered

\* Every step of a graph keeps the books, unless it fails.
LEMMA GraphKeepsComputing ==
  ASSUME Control, Control', Intact, Intact', Computing, dep' = dep, ledger'[pass'] = ledger[pass], Running' = Running,
         at' = at, NEW n \in dep.nodes, at[n] = "run", GraphStep(n) \/ StepContextDone(n)
  PROVE  Computing'
<1>1. n \in Running /\ n \in Nodes /\ GraphTypes
  BY IntactFacts DEF Running
<1>2. CASE StepContextDone(n)
  <2>1. run'[n] = "err" /\ at'[n] = "run"
    BY <1>1, <1>2 DEF StepContextDone, GraphTypes
  <2>2. QED
    BY <2>1 DEF Intact
<1>3. CASE StepBegins(n)
  BY <1>1, <1>3, BeginsQuietly
<1>4. CASE StepCompletes(n)
  BY <1>1, <1>4, CompletesQuietly
<1>5. CASE StepEnds(n)
  <2>1. Running = dep.nodes
    BY <1>5, StepsTogether DEF GraphStep
  <2>2. QED
    BY <1>1, <1>5, <2>1, EndsQuietly
<1>6. ASSUME NEW w \in Wallets, WorkerTakes(n, w) PROVE Computing'
  BY <1>1, <1>6, TakesQuietly
<1>7. ASSUME NEW w \in Wallets, VertexSkipped(n, w) PROVE Computing'
  BY <1>1, <1>7, SkipsVertex
<1>8. ASSUME NEW w \in Wallets, ComputeCounts(n, w) PROVE Computing'
  BY <1>1, <1>8, CountsVertex
<1>9. ASSUME NEW w \in Wallets, ComputeSends(n, w) PROVE Computing'
  <2>1. Running = dep.nodes
    BY <1>9, StepsTogether DEF GraphStep
  <2>2. QED
    BY <1>1, <1>9, <2>1, SendsVertex
<1>10. ASSUME NEW w \in Wallets, ComputeFails(n, w) PROVE Computing'
  <2>1. stepErr'[n] /\ at'[n] = "run"
    BY <1>1, <1>10 DEF ComputeFails, GraphTypes
  <2>2. QED
    BY <2>1 DEF Intact
<1>11. ASSUME NEW w \in Wallets, ComputeAdds(n, w) PROVE Computing'
  BY <1>1, <1>11, AddsVertex
<1>12. ASSUME NEW t \in Txs, RelayDelivered(n, t) PROVE Computing'
  BY <1>1, <1>12, DeliversMessage
<1>13. QED
  BY <1>2, <1>3, <1>4, <1>5, <1>6, <1>7, <1>8, <1>9, <1>10, <1>11, <1>12 DEF GraphStep

-----------------------------------------------------------------------------
\* Every step keeps the books of the computation.

\* A computation that is intact was so before, and nobody left it.
LEMMA WasIntact ==
  ASSUME dep' = dep, Intact',
         \A m \in dep.nodes : at[m] \in {"start", "load"}
                              \/ (at'[m] = at[m] /\ run'[m] = run[m] /\ stepErr'[m] = stepErr[m])
  PROVE  Intact
  BY SameBoundaries DEF Intact

\* A node that left the computation is noticed.
LEMMA LeftBehind ==
  ASSUME dep' = dep, NEW n \in dep.nodes, at'[n] \notin {"start", "load", "run"}
  PROVE  ~Intact'
  BY DEF Intact

\* A computation that begins.
LEMMA StartsComputing ==
  ASSUME Running' = {}, relay' = {}, ledger'[pass'] = {}
  PROVE  Computing'
<1>1. BarrierBooks'
  BY DEF BarrierBooks
<1>2. SenderBooks'
  BY DEF SenderBooks
<1>3. QED
  BY <1>1, <1>2 DEF Computing

\* A graph that failed stays so.
LEMMA ErrorKept ==
  ASSUME Control, NEW n \in Nodes, GraphStep(n) \/ StepContextDone(n), run[n] = "err" \/ stepErr[n]
  PROVE  run'[n] = "err" \/ stepErr'[n]
<1>0. GraphTypes /\ NodeBooks(n)
  BY DEF Control, Types, PlaceBooks
<1>1. run[n] \in {"err", "step"}
  BY <1>0 DEF NodeBooks
<1> USE DEF GraphTypes, InHand, WorkerFinishes
<1>2. CASE StepContextDone(n) \/ StepBegins(n) \/ StepEnds(n)
  BY <1>1, <1>2 DEF StepContextDone, StepBegins, StepEnds
<1>3. CASE StepCompletes(n)
  <2>1. stepErr[n]
    BY <1>3 DEF StepCompletes
  <2>2. QED
    BY <1>0, <1>3, <2>1 DEF StepCompletes
<1>4. ASSUME NEW w \in Wallets, WorkerTakes(n, w) \/ VertexSkipped(n, w) PROVE UNCHANGED <<run, stepErr>>
  BY <1>4 DEF WorkerTakes, VertexSkipped
<1>5. ASSUME NEW w \in Wallets, ComputeCounts(n, w) PROVE UNCHANGED <<run, stepErr>>
  BY <1>5 DEF ComputeCounts
<1>6. ASSUME NEW w \in Wallets, ComputeSends(n, w) PROVE UNCHANGED <<run, stepErr>>
  BY <1>6 DEF ComputeSends
<1>7. ASSUME NEW w \in Wallets, ComputeAdds(n, w) PROVE UNCHANGED <<run, stepErr>>
  BY <1>7 DEF ComputeAdds
<1>8. ASSUME NEW w \in Wallets, ComputeFails(n, w) PROVE stepErr'[n]
  BY <1>0, <1>8 DEF ComputeFails
<1>9. ASSUME NEW t \in Txs, RelayDelivered(n, t) PROVE UNCHANGED <<run, stepErr>>
  BY <1>9 DEF RelayDelivered
<1>10. QED
  BY <1>2, <1>3, <1>4, <1>5, <1>6, <1>7, <1>8, <1>9 DEF GraphStep

\* A graph that runs keeps the books.
LEMMA RunsComputing ==
  ASSUME Control, Control', ComputeBooks, dep' = dep, NEW n \in Nodes, GraphRuns(n), Intact'
  PROVE  Computing'
<1>1. /\ n \in dep.nodes /\ at[n] = "run" /\ at' = at /\ ledger' = ledger /\ pass' = pass
      /\ GraphStep(n) \/ StepContextDone(n)
  BY DEF GraphRuns, Is, deployment, passVars
<1>2. GraphTypes /\ dep.nodes \subseteq Nodes
  BY DeploymentsAssumption DEF Control, Types, DeploymentTypeOK
<1>3. \A m \in dep.nodes \ {n} : run'[m] = run[m] /\ stepErr'[m] = stepErr[m]
  BY <1>1, <1>2, OtherGraphs DEF GraphFrame
<1>4. run[n] # "err" /\ ~stepErr[n]
  <2>1. run'[n] # "err" /\ ~stepErr'[n]
    BY <1>1 DEF Intact
  <2>2. QED
    BY <1>1, <2>1, ErrorKept
<1>5. Intact
  BY <1>1, <1>3, <1>4, SameBoundaries DEF Intact
<1>6. Running' = Running /\ ledger'[pass'] = ledger[pass]
  BY <1>1 DEF Running
<1>7. QED
  BY <1>1, <1>5, <1>6, GraphKeepsComputing DEF ComputeBooks, Computing

\* Every step of a node does.
LEMMA NodeKeepsComputing ==
  ASSUME Control, Control', TableBooks, ComputeBooks, dep' = dep, NEW n \in Nodes, NodeMove(n), Intact'
  PROVE  Computing'
<1>0. /\ PassTypes /\ GraphTypes /\ dep.nodes \subseteq Nodes /\ NodeBooks(n) /\ JobBooks /\ Types /\ pass \in Nat
      /\ Intact => Computing
  BY DeploymentsAssumption DEF Control, Types, DeploymentTypeOK, PlaceBooks, ComputeBooks, Computing
<1>01. NodeFrame(n)
  BY <1>0, OtherNodes
<1>02. \A m \in dep.nodes \ {n} : Same(m)
  BY <1>0, <1>01 DEF NodeFrame
<1>1. ASSUME LoaderStep(n) PROVE Computing'
  <2>1. n \in dep.nodes /\ at[n] = "load" /\ UNCHANGED <<at, run, stepErr, superstep, feed, busy, activeIn, relay, ledger, pass>>
    BY <1>1 DEF LoaderStep, Is, passVars
  <2>2. Intact
    BY <2>1, WasIntact
  <2>3. Running' = Running /\ n \notin Running /\ ledger'[pass'] = ledger[pass]
    BY <2>1 DEF Running
  <2>4. \A m \in Running : vertex'[m] = vertex[m]
    BY <1>02, <2>3 DEF Running, Same
  <2>5. QED
    BY <1>0, <2>1, <2>2, <2>3, <2>4, ComputingFrame
<1>2. ASSUME StoreStep(n) PROVE Computing'
  <2>1. n \in dep.nodes /\ at'[n] = "store"
    BY <1>2 DEF StoreStep, Is, passVars
  <2>2. QED
    BY <2>1, LeftBehind
<1>3. ASSUME MonolithPassBegins(n) PROVE Computing'
  <2>1. /\ n \in dep.nodes /\ Monolith /\ at' = [at EXCEPT ![n] = "load"] /\ relay' = relay /\ ledger' = ledger
        /\ pass' = pass + 1 /\ pass < dep.passes
    BY <1>3 DEF MonolithPassBegins, Mine, Is, PassBegins, Goto, graphVars
  <2>2. at'[n] = "load" /\ \A m \in dep.nodes : m = n
    BY <1>0, <2>1, OneNode DEF PassTypes
  <2>3. Running' = {}
    BY <2>2 DEF Running
  <2>4. relay = {}
    BY <1>0, <2>1 DEF JobBooks
  <2>5. pass + 1 \in Passes /\ pass + 1 > pass
    BY <1>0, <2>1, DeploymentsAssumption DEF Passes, Types, DeploymentTypeOK
  <2>6. ledger'[pass'] = {}
    BY <2>1, <2>5 DEF TableBooks
  <2>7. QED
    BY <2>1, <2>3, <2>4, <2>6, StartsComputing
<1>4. ASSUME MonolithLoaded(n) PROVE Computing'
  <2>1. n \in dep.nodes /\ at[n] = "load" /\ load[n].at \in {"ok", "cancelled"} /\ pass' = pass
    BY <1>4 DEF MonolithLoaded, Mine, Is
  <2>2. CASE ctx = "done"
    <3>1. at'[n] = "idle"
      BY <1>0, <1>4, <2>1, <2>2 DEF MonolithLoaded, Goto, PassTypes
    <3>2. QED
      BY <2>1, <3>1, LeftBehind
  <2>3. CASE ctx # "done"
    <3>1. Executor(n) /\ load[n].at = "ok"
      BY <1>0, <1>4, <2>1, <2>3 DEF MonolithLoaded, NodeBooks
    <3>2. Intact
      BY <1>02, <2>1, WasIntact DEF Same
    <3>3. QED
      BY <1>0, <2>1, <3>1, <3>2, ComputingJoins
  <2>4. QED
    BY <2>2, <2>3
<1>5. ASSUME WorkerLoaded(n) PROVE Computing'
  <2>1. n \in dep.nodes /\ at[n] = "load" /\ load[n].at = "ok" /\ pass' = pass /\ Executor(n)
    BY <1>5 DEF WorkerLoaded, Working, Is
  <2>2. Intact
    BY <1>02, <2>1, WasIntact DEF Same
  <2>3. QED
    BY <1>0, <2>1, <2>2, ComputingJoins
<1>6. ASSUME StartJob(n) PROVE Computing'
  <2>1. /\ n \in dep.nodes /\ at[n] = "start" /\ at' = [at EXCEPT ![n] = "load"]
        /\ UNCHANGED <<relay, activeIn, feed, busy, ledger, pass>>
        /\ superstep' = [superstep EXCEPT ![n] = 0]
    BY <1>6 DEF StartJob, Working, Is, Goto, Reset, history
  <2>2. Intact
    BY <1>02, <2>1, WasIntact DEF Same
  <2>3. at'[n] = "load" /\ n \notin Running /\ superstep'[n] = 0 /\ superstep[n] = 0
    BY <1>0, <2>1 DEF PassTypes, Running, GraphTypes, NodeBooks
  <2>4. Running' = Running /\ ledger'[pass'] = ledger[pass]
    BY <1>02, <2>1, <2>3 DEF Running, Same
  <2>5. \A m \in dep.nodes : activeIn'[m] = activeIn[m] /\ superstep'[m] = superstep[m]
    BY <1>02, <2>1, <2>3 DEF Same
  <2>6. \A m \in Running : run'[m] = run[m] /\ feed'[m] = feed[m] /\ busy'[m] = busy[m] /\ vertex'[m] = vertex[m]
    BY <1>02, <2>3 DEF Running, Same
  <2>7. QED
    BY <1>0, <2>1, <2>2, <2>4, <2>5, <2>6, ComputingFrame
<1>7. ASSUME GraphRuns(n) PROVE Computing'
  BY <1>7, RunsComputing
<1>8. ASSUME \/ MonolithStores(n) \/ MonolithPassCompletes(n) \/ MonolithFails(n) \/ ServiceStops(n) \/ ProcessEnds(n)
             \/ CompleteJob(n) \/ ScoresPersisted(n) \/ WorkerFails(n)
             \/ AbortJob(n) \/ StoreFails(n) \/ WorkerCrashes(n)
      PROVE  Computing'
  <2> USE DEF Mine, Working, Is, Goto, PassTypes
  <2>1. ASSUME MonolithStores(n) \/ MonolithPassCompletes(n) \/ MonolithFails(n) \/ ServiceStops(n) \/ ProcessEnds(n)
        PROVE  n \in dep.nodes /\ at'[n] \notin {"start", "load", "run"}
    BY <1>0, <2>1 DEF MonolithStores, MonolithPassCompletes, MonolithFails, ServiceStops, ProcessEnds
  <2>2. ASSUME CompleteJob(n) \/ ScoresPersisted(n) \/ WorkerFails(n) \/ AbortJob(n) \/ StoreFails(n)
        PROVE  n \in dep.nodes /\ at'[n] \notin {"start", "load", "run"}
    BY <1>0, <2>2 DEF CompleteJob, ScoresPersisted, WorkerFails, AbortJob, StoreFails
  <2>3. ASSUME WorkerCrashes(n)
        PROVE  n \in dep.nodes /\ at'[n] \notin {"start", "load", "run"}
    BY <1>0, <2>3 DEF WorkerCrashes, NodeBooks
  <2>4. QED
    BY <1>8, <2>1, <2>2, <2>3, LeftBehind
<1>9. QED
  BY <1>1, <1>2, <1>3, <1>4, <1>5, <1>6, <1>7, <1>8 DEF NodeMove

\* So does every other step.
LEMMA OtherKeepsComputing ==
  ASSUME Control, Control', TableBooks, ComputeBooks, dep' = dep, OtherMove, Intact'
  PROVE  Computing'
<1>0. /\ PassTypes /\ GraphTypes /\ dep.nodes \subseteq Nodes /\ JobBooks /\ Types /\ pass \in Nat
      /\ Intact => Computing
  BY DeploymentsAssumption DEF Control, Types, DeploymentTypeOK, PlaceBooks, ComputeBooks, Computing
<1>1. ASSUME NEW n \in Nodes \cup {Nobody}, NEW t \in Txs, Bounced(n, t) PROVE Computing'
  <2>1. /\ RelayBounces(n, t) /\ relay' = relay \ {<<n, t>>} /\ UNCHANGED <<at, ledger, pass>>
        /\ UNCHANGED <<vertex, superstep, run, feed, busy, activeIn, stepErr>>
    BY <1>1 DEF Bounced, history
  <2>2. Intact
    BY <2>1, WasIntact
  <2>3. Running' = Running /\ ledger'[pass'] = ledger[pass]
    BY <2>1 DEF Running
  <2>4. QED
    BY <1>0, <2>1, <2>2, <2>3, BouncesMessage
<1>2. ASSUME JobBegins PROVE Computing'
  <2>1. /\ job = "off" /\ relay' = relay /\ ledger' = ledger /\ pass' = pass + 1 /\ pass < dep.passes
        /\ \A n \in dep.nodes : at'[n] = "start"
    BY <1>0, <1>2 DEF JobBegins, PassBegins, graphVars
  <2>2. Running' = {} /\ relay = {}
    BY <1>0, <2>1 DEF Running, JobBooks
  <2>3. pass + 1 \in Passes /\ pass + 1 > pass
    BY <1>0, <2>1, DeploymentsAssumption DEF Passes, Types, DeploymentTypeOK
  <2>4. ledger'[pass'] = {}
    BY <2>1, <2>3 DEF TableBooks
  <2>5. QED
    BY <2>1, <2>2, <2>4, StartsComputing
<1>3. ASSUME JobEnds PROVE Computing'
  <2>1. PICK n \in dep.nodes : TRUE
    BY <1>0, DeploymentsAssumption DEF Types, DeploymentTypeOK
  <2>2. at'[n] = "idle"
    BY <1>0, <1>3, <2>1 DEF JobEnds
  <2>3. QED
    BY <2>1, <2>2, LeftBehind
<1>4. ASSUME UNCHANGED <<at, pass, ledger, graphVars>> PROVE Computing'
  <2>1. UNCHANGED <<at, pass, ledger, vertex, superstep, run, feed, busy, activeIn, stepErr, relay>>
    BY <1>4 DEF graphVars
  <2>2. Intact
    BY <2>1, WasIntact
  <2>3. Running' = Running /\ ledger'[pass'] = ledger[pass]
    BY <2>1 DEF Running
  <2>4. QED
    BY <1>0, <2>1, <2>2, <2>3, ComputingFrame
<1>5. ASSUME GraphExecuted \/ Signal \/ JobCancelled \/ GraphGrows \/ OtherStoreCalls
      PROVE  UNCHANGED <<at, pass, ledger, graphVars>>
  BY <1>5 DEF GraphExecuted, Signal, JobCancelled, GraphGrows, OtherStoreCalls, history, passVars
<1>6. QED
  BY <1>1, <1>2, <1>3, <1>4, <1>5 DEF OtherMove

\* The books of the computation are inductive.
LEMMA KeepsComputing ==
  ASSUME Control, Control', TableBooks, ComputeBooks, [Next]_vars
  PROVE  ComputeBooks'
<1>0. Types
  BY DEF Control
<1>1. CASE Next
  <2>1. dep' = dep
    BY <1>0, <1>1, KeepsDeployment
  <2>2. Intact' => Computing'
    BY <1>1, <2>1, Moves, NodeKeepsComputing, OtherKeepsComputing
  <2>3. QED
    BY <2>2 DEF ComputeBooks, Computing
<1>2. CASE UNCHANGED vars
  <2>1. UNCHANGED <<dep, at, pass, ledger, vertex, superstep, run, feed, busy, activeIn, stepErr, relay>>
    BY <1>2 DEF vars, passVars, graphVars
  <2>2. ASSUME Intact' PROVE Computing'
    <3>1. Intact
      BY <2>1, <2>2, WasIntact
    <3>2. Running' = Running /\ ledger'[pass'] = ledger[pass] /\ Computing
      BY <2>1, <3>1 DEF Running, ComputeBooks, Computing
    <3>3. QED
      BY <2>1, <3>1, <3>2, ComputingFrame
  <2>3. QED
    BY <2>2 DEF ComputeBooks, Computing
<1>3. QED
  BY <1>1, <1>2

-----------------------------------------------------------------------------
\* The end of the computation.

\* When the graphs have all stopped, the values are the balances.
LEMMA AllStopped ==
  ASSUME Control, Intact, Computing, Running = dep.nodes, \A n \in dep.nodes : run[n] = "stop"
  PROVE  \A n \in Running : \A w \in VerticesOf(n) : vertex[n][w].value = Balance(w, ledger[pass])
<1>0. /\ GraphTypes /\ (\A n \in dep.nodes : NodeBooks(n))
      /\ \A n \in Running : n \in Nodes /\ n \in dep.nodes /\ superstep[n] \in Nat
  BY IntactFacts DEF GraphTypes
<1>1. SUFFICES ASSUME NEW n \in Running, NEW w \in VerticesOf(n)
               PROVE  vertex[n][w].value = Balance(w, ledger[pass])
  OBVIOUS
<1>2. ValueBooks(n, w) /\ w \in Wallets
  BY DEF Computing, VerticesOf
<1>3. superstep[n] >= 2
  <2>1. SUFFICES ASSUME superstep[n] < 2 PROVE FALSE
    BY <1>0
  <2>2. activeIn[n] = 0
    BY <1>0, <1>1 DEF Computing, BarrierBooks
  <2>3. activeIn[n] = Cardinality(VerticesOf(n) \ (feed[n] \cup busy[n]))
    BY <1>0, <1>1, <2>1 DEF Computing, BarrierBooks
  <2>4. feed[n] = {} /\ busy[n] = {}
    BY <1>0, <1>1 DEF NodeBooks
  <2>5. Cardinality(VerticesOf(n)) = 0 /\ IsFiniteSet(VerticesOf(n))
    <3>1. VerticesOf(n) \in SUBSET Wallets
      BY DEF VerticesOf
    <3>2. VerticesOf(n) \ (feed[n] \cup busy[n]) = VerticesOf(n)
      BY <2>4
    <3>3. QED
      BY <2>2, <2>3, <3>1, <3>2, FiniteWallets
  <2>6. QED
    BY <1>1, <2>5, FS_EmptySet
<1>4. Computed(n, w, 2)
  BY <1>0, <1>1, <1>3 DEF Computed
<1>5. QED
  BY <1>0, <1>1, <1>2, <1>4, Phases DEF Settled

\* After the barrier nothing is computed, and nothing loaded.
LEMMA ExecutedFrame ==
  ASSUME Control, Next, job = "executed", job' = "executed"
  PROVE  /\ pass' = pass /\ ledger' = ledger /\ dep' = dep /\ ~Monolith
         /\ \A m \in Nodes : at'[m] = "run" => at[m] = "run" /\ vertex'[m] = vertex[m]
<1>0. /\ Types /\ PassTypes /\ GraphTypes /\ dep' = dep /\ JobBooks /\ ~Monolith /\ dep.nodes \subseteq Nodes
      /\ \A n \in dep.nodes : at[n] \notin {"start", "load"} /\ (at[n] = "run" => run[n] = "stop")
  BY KeepsDeployment, DeploymentsAssumption DEF Control, Types, DeploymentTypeOK, PlaceBooks, JobBooks, Loading
<1> USE DEF deployment, tables, history, scoreVars, loadVars, passVars, graphVars, Goto, Mine, Working, Is, PassTypes
<1>1. ASSUME NEW n \in Nodes, NodeMove(n)
      PROVE  /\ pass' = pass /\ ledger' = ledger
             /\ \A m \in Nodes : at'[m] = "run" => at[m] = "run" /\ vertex'[m] = vertex[m]
  <2>1. \A m \in Nodes \ {n} : at'[m] = at[m] /\ vertex'[m] = vertex[m]
    BY <1>0, <1>1, OtherNodes DEF NodeFrame, Same
  <2>2. SUFFICES pass' = pass /\ ledger' = ledger /\ (at'[n] = "run" => at[n] = "run" /\ vertex'[n] = vertex[n])
    BY <2>1
  <2>3. ~LoaderStep(n) /\ ~StartJob(n) /\ ~WorkerLoaded(n)
    BY <1>0 DEF LoaderStep, StartJob, WorkerLoaded
  <2>4. ~MonolithPassBegins(n) /\ ~MonolithLoaded(n) /\ ~MonolithStores(n) /\ ~MonolithPassCompletes(n)
        /\ ~MonolithFails(n) /\ ~ServiceStops(n) /\ ~ProcessEnds(n)
    BY <1>0 DEF MonolithPassBegins, MonolithLoaded, MonolithStores, MonolithPassCompletes, MonolithFails,
                ServiceStops, ProcessEnds
  <2>5. ~GraphRuns(n)
    <3>1. SUFFICES ASSUME GraphRuns(n) PROVE FALSE
      OBVIOUS
    <3>2. run[n] = "stop" /\ (GraphStep(n) \/ StepContextDone(n))
      BY <1>0, <3>1 DEF GraphRuns
    <3>3. QED
      BY <3>2 DEF GraphStep, StepContextDone, StepBegins, StepCompletes, StepEnds, WorkerTakes,
          VertexSkipped, ComputeCounts, ComputeSends, ComputeFails, ComputeAdds, InHand, RelayDelivered
  <2>6. ASSUME StoreStep(n) PROVE UNCHANGED <<pass, ledger, at>> /\ at[n] = "store"
    BY <2>6 DEF StoreStep
  <2>7. ASSUME CompleteJob(n) PROVE UNCHANGED <<pass, ledger>> /\ at'[n] = "store"
    BY <1>0, <2>7 DEF CompleteJob
  <2>8. ASSUME ScoresPersisted(n) PROVE UNCHANGED <<pass, ledger>> /\ at'[n] = "persisted"
    BY <1>0, <2>8 DEF ScoresPersisted
  <2>9. ASSUME WorkerFails(n) PROVE UNCHANGED <<pass, ledger>> /\ at'[n] = "gone"
    BY <1>0, <2>9 DEF WorkerFails
  <2>10. ASSUME AbortJob(n) PROVE UNCHANGED <<pass, ledger>> /\ at'[n] = "gone"
    BY <1>0, <2>10 DEF AbortJob
  <2>11. ASSUME StoreFails(n) PROVE UNCHANGED <<pass, ledger>> /\ at'[n] = "failed"
    BY <1>0, <2>11 DEF StoreFails
  <2>12. ASSUME WorkerCrashes(n) PROVE UNCHANGED <<pass, ledger>> /\ at'[n] = "gone"
    BY <1>0, <2>12 DEF WorkerCrashes
  <2>13. QED
    BY <1>1, <2>3, <2>4, <2>5, <2>6, <2>7, <2>8, <2>9, <2>10, <2>11, <2>12 DEF NodeMove
<1>2. ASSUME OtherMove
      PROVE  UNCHANGED <<pass, ledger, at, vertex>>
  <2>1. ASSUME NEW n \in Nodes \cup {Nobody}, NEW t \in Txs, Bounced(n, t) PROVE UNCHANGED <<pass, ledger, at, vertex>>
    BY <2>1 DEF Bounced
  <2>2. ~JobBegins /\ ~GraphExecuted /\ ~JobEnds
    BY DEF JobBegins, GraphExecuted, JobEnds
  <2>3. Signal \/ JobCancelled \/ GraphGrows \/ OtherStoreCalls => UNCHANGED <<pass, ledger, at, vertex>>
    BY DEF Signal, JobCancelled, GraphGrows, OtherStoreCalls
  <2>4. QED
    BY <1>2, <2>1, <2>2, <2>3 DEF OtherMove
<1>3. QED
  BY <1>0, <1>1, <1>2, Moves

\* Every step keeps the values that the barrier found.
LEMMA KeepsFinal ==
  ASSUME Control, ComputeBooks, FinalBooks, Next
  PROVE  FinalBooks'
<1>0. /\ Types /\ dep.nodes \subseteq Nodes /\ \A n \in Nodes : NodeBooks(n)
  BY DeploymentsAssumption DEF Control, Types, DeploymentTypeOK, PlaceBooks
<1>1. SUFFICES ASSUME job' = "executed", BoundariesInOrder' PROVE FinalBooks'
  BY DEF FinalBooks
<1>11. BoundariesInOrder
  BY <1>0, <1>1, KeepsDeployment, SameBoundaries
<1>2. CASE job = "executed"
  <2>1. /\ pass' = pass /\ ledger' = ledger /\ dep' = dep
        /\ \A m \in Nodes : at'[m] = "run" => at[m] = "run" /\ vertex'[m] = vertex[m]
    BY <1>1, <1>2, ExecutedFrame
  <2>2. ASSUME NEW n \in Running', NEW w \in VerticesOf(n)'
        PROVE  vertex'[n][w].value = Balance(w, ledger[pass])'
    <3>1. n \in Running /\ vertex'[n] = vertex[n] /\ w \in VerticesOf(n)
      BY <1>0, <2>1, <2>2 DEF Running, VerticesOf
    <3>2. vertex[n][w].value = Balance(w, ledger[pass])
      BY <1>2, <1>11, <3>1 DEF FinalBooks
    <3>3. Balance(w, ledger[pass])' = Balance(w, ledger[pass])
      BY <2>1, SameLedger
    <3>4. QED
      BY <3>1, <3>2, <3>3
  <2>3. QED
    BY <2>2 DEF FinalBooks
<1>3. CASE job # "executed"
  <2>1. GraphExecuted
    <3>1. ASSUME NEW n \in Nodes, NodeMove(n) PROVE job' = job
      BY <1>0, <3>1, OtherNodes DEF NodeFrame
    <3>2. OtherMove
      BY <1>1, <1>3, <3>1, Moves
    <3>3. QED
      BY <1>1, <1>3, <3>2 DEF OtherMove, Bounced, JobBegins, JobEnds, Signal, JobCancelled, GraphGrows, OtherStoreCalls, passVars
  <2>2. /\ UNCHANGED <<dep, pass, at, ledger, vertex>>
        /\ \A n \in dep.nodes : at[n] = "run" /\ run[n] = "stop"
    BY <2>1 DEF GraphExecuted, deployment, graphVars, history
  <2>3. Intact /\ Running = dep.nodes
    BY <1>0, <1>11, <2>2 DEF Intact, Running, NodeBooks
  <2>4. \A n \in Running : \A w \in VerticesOf(n) : vertex[n][w].value = Balance(w, ledger[pass])
    BY <2>2, <2>3, AllStopped DEF ComputeBooks, Computing
  <2>5. ASSUME NEW n \in Running', NEW w \in VerticesOf(n)'
        PROVE  vertex'[n][w].value = Balance(w, ledger[pass])'
    <3>1. n \in Running /\ vertex'[n] = vertex[n] /\ w \in VerticesOf(n)
      BY <2>2, <2>5 DEF Running, VerticesOf
    <3>3. Balance(w, ledger[pass])' = Balance(w, ledger[pass])
      BY <2>2, SameLedger
    <3>4. QED
      BY <2>4, <3>1, <3>3
  <2>6. QED
    BY <2>5 DEF FinalBooks
<1>4. QED
  BY <1>2, <1>3

\* No superstep comes after the third: by then no vertex was active.
LEMMA LastStep ==
  ASSUME Control, ComputeBooks, StepBound, BoundariesInOrder, NEW n \in dep.nodes, at[n] = "run", StepEnds(n), superstep[n] = 3
  PROVE  \A m \in dep.nodes : activeIn[m] = 0
<1>0. /\ Types /\ dep.nodes \subseteq Nodes /\ GraphTypes /\ PassTypes /\ JobBooks /\ \A m \in Nodes : NodeBooks(m)
  BY DeploymentsAssumption DEF Control, Types, DeploymentTypeOK, PlaceBooks
<1>1. run[n] = "post" /\ \A m \in dep.nodes : LeftStep(m, 3)
  BY DEF StepEnds
<1>2. \A m \in dep.nodes : superstep[m] = 3 /\ run[m] \in {"post", "stop"}
  <2>1. ASSUME NEW m \in dep.nodes PROVE superstep[m] = 3 /\ run[m] \in {"post", "stop"}
    <3>1. superstep[m] <= 3 /\ superstep[m] \in Nat
      BY <1>0 DEF StepBound, GraphTypes
    <3>2. QED
      BY <1>1, <3>1 DEF LeftStep
  <2>2. QED
    BY <2>1
<1>3. \A m \in dep.nodes : at[m] \in {"run", "store", "failed", "returned"}
  <2>1. ASSUME NEW m \in dep.nodes PROVE at[m] \in {"run", "store", "failed", "returned"}
    <3>1. NodeBooks(m) /\ superstep[m] # 0 /\ m \in Nodes
      BY <1>0, <1>2
    <3>2. at[m] \notin {"idle", "start", "load", "gone", "persisted"}
      BY <3>1 DEF NodeBooks
    <3>3. QED
      BY <1>0, <3>1, <3>2 DEF PassTypes
  <2>2. QED
    BY <2>1
<1>4. \A m \in dep.nodes : at[m] = "run"
  <2>1. SUFFICES ASSUME NEW m \in dep.nodes, at[m] # "run" PROVE FALSE
    OBVIOUS
  <2>2. ~Monolith
    BY <1>0, <2>1, OneNode
  <2>3. NodeBooks(m) /\ m \in Nodes
    BY <1>0
  <2>4. at[m] \in {"store", "failed"}
    BY <1>3, <2>1, <2>2, <2>3 DEF NodeBooks
  <2>5. job = "executed"
    BY <1>0, <2>2, <2>4 DEF JobBooks
  <2>6. run[n] = "stop"
    BY <1>0, <2>2, <2>5 DEF JobBooks
  <2>7. QED
    BY <1>1, <2>6
<1>5. Intact /\ Running = dep.nodes
  <2>1. \A m \in dep.nodes : ~stepErr[m] /\ run[m] # "err"
    <3>1. ASSUME NEW m \in dep.nodes PROVE ~stepErr[m] /\ run[m] # "err"
      <4>1. NodeBooks(m) /\ run[m] \in {"post", "stop"}
        BY <1>0, <1>2
      <4>2. QED
        BY <4>1 DEF NodeBooks
    <3>2. QED
      BY <3>1
  <2>2. QED
    BY <1>4, <2>1 DEF Intact, Running
<1>6. BarrierBooks
  BY <1>5 DEF ComputeBooks
<1>7. ASSUME NEW m \in dep.nodes PROVE activeIn[m] = 0
  <2>1. m \in Running /\ superstep[m] > 2 /\ run[m] \in {"step", "post", "stop"}
    BY <1>2, <1>5
  <2>2. QED
    BY <1>6, <2>1 DEF BarrierBooks
<1>8. QED
  BY <1>7

\* Every step keeps the number of supersteps bounded, the ends being in order.
LEMMA KeepsBound ==
  ASSUME Control, ComputeBooks, StepBound, Next
  PROVE  StepBound'
<1>0. /\ Types /\ GraphTypes /\ dep.nodes \subseteq Nodes
  BY DeploymentsAssumption DEF Control, Types, DeploymentTypeOK
<1>01. BoundariesInOrder' <=> BoundariesInOrder
  BY <1>0, KeepsDeployment, SameBoundaries
<1>1. SUFFICES ASSUME NEW m \in Nodes, BoundariesInOrder PROVE superstep'[m] <= 3
  BY <1>01 DEF StepBound
<1>2. superstep[m] \in Nat /\ superstep[m] <= 3
  BY <1>0, <1>1 DEF GraphTypes, StepBound
<1> USE DEF GraphTypes, Mine, Working, Is
<1>3. ASSUME NEW n \in Nodes, NodeMove(n) PROVE superstep'[m] <= 3
  <2>1. n # m => superstep'[m] = superstep[m]
    BY <1>0, <1>3, OtherNodes DEF NodeFrame, Same
  <2>2. SUFFICES ASSUME n = m PROVE superstep'[n] = 0 \/ superstep'[n] <= 3
    BY <1>2, <2>1
  <2>3. ASSUME LoaderStep(n) \/ StoreStep(n) \/ MonolithPassBegins(n) \/ MonolithStores(n) \/ MonolithFails(n)
               \/ ServiceStops(n) \/ CompleteJob(n) \/ StoreFails(n)
        PROVE  superstep' = superstep
    BY <2>3 DEF LoaderStep, StoreStep, MonolithPassBegins, MonolithStores, MonolithFails, ServiceStops, CompleteJob,
                StoreFails, graphVars
  <2>4. ASSUME MonolithPassCompletes(n) \/ ProcessEnds(n) \/ StartJob(n) \/ ScoresPersisted(n) \/ WorkerFails(n)
               \/ AbortJob(n) \/ WorkerCrashes(n)
        PROVE  superstep'[n] = 0
    <3>1. Reset(n)
      BY <2>4 DEF MonolithPassCompletes, ProcessEnds, StartJob, ScoresPersisted, WorkerFails, AbortJob, WorkerCrashes
    <3>2. QED
      BY <1>0, <3>1 DEF Reset
  <2>5. ASSUME MonolithLoaded(n) \/ WorkerLoaded(n)
        PROVE  superstep'[n] = 0 \/ superstep' = superstep
    <3>1. Executor(n) \/ superstep' = superstep
      BY <2>5 DEF MonolithLoaded, WorkerLoaded, graphVars
    <3>2. QED
      BY <1>0, <3>1 DEF Executor, NewExecutor
  <2>6. ASSUME GraphRuns(n) PROVE superstep'[n] <= 3
    <3>1. n \in dep.nodes /\ at[n] = "run" /\ (GraphStep(n) \/ StepContextDone(n))
      BY <2>6 DEF GraphRuns
    <3>2. CASE StepEnds(n)
      <4>1. CASE \A k \in dep.nodes : activeIn[k] = 0
        <5>1. superstep' = superstep
          BY <3>2, <4>1 DEF StepEnds
        <5>2. QED
          BY <1>2, <2>2, <5>1
      <4>2. CASE ~(\A k \in dep.nodes : activeIn[k] = 0)
        <5>1. superstep[n] # 3
          BY <1>1, <3>1, <3>2, <4>2, LastStep
        <5>2. superstep'[n] = superstep[n] + 1
          BY <1>0, <3>2, <4>2 DEF StepEnds
        <5>3. QED
          BY <1>2, <2>2, <5>1, <5>2
      <4>3. QED
        BY <4>1, <4>2
    <3>3. CASE ~StepEnds(n)
      <4>1. superstep' = superstep
        BY ZenonT(60), <3>1, <3>3 DEF GraphStep, StepContextDone, StepBegins, StepCompletes, WorkerTakes,
          VertexSkipped, ComputeCounts, ComputeSends, ComputeFails, ComputeAdds, RelayDelivered
      <4>2. QED
        BY <1>2, <2>2, <4>1
    <3>4. QED
      BY <3>2, <3>3
  <2>7. QED
    BY <1>2, <1>3, <2>2, <2>3, <2>4, <2>5, <2>6 DEF NodeMove
<1>4. ASSUME OtherMove PROVE superstep' = superstep
  BY <1>4 DEF OtherMove, Bounced, JobBegins, GraphExecuted, JobEnds, Signal, JobCancelled, GraphGrows, OtherStoreCalls, graphVars
<1>5. QED
  BY <1>2, <1>3, <1>4, Moves

\* While no graph has failed, each value is what the transactions sent and received so far
\* make of it, whatever the order of supersteps and messages; when the graphs were
\* executed, the values are the balances, after at most three supersteps.
THEOREM ComputationKept == Spec => [](ComputeBooks /\ FinalBooks /\ StepBound)
<1> DEFINE Done == ComputeBooks /\ FinalBooks /\ StepBound
<1>1. Init => Done
  <2>1. SUFFICES ASSUME Init PROVE Done
    OBVIOUS
  <2>2. job = "off" /\ \A n \in Nodes : superstep[n] = 0 /\ at[n] = "idle"
    BY <2>1 DEF Init, GraphInit
  <2>3. dep.nodes # {} /\ dep.nodes \subseteq Nodes
    BY <2>1, DeploymentsAssumption DEF Init, DeploymentInit
  <2>4. ~Intact
    BY <2>2, <2>3 DEF Intact
  <2>5. QED
    BY <2>2, <2>4 DEF ComputeBooks, FinalBooks, StepBound
<1>2. Control /\ Control' /\ TableBooks /\ Done /\ [Next]_vars => Done'
  <2>1. SUFFICES ASSUME Control, Control', TableBooks, Done, [Next]_vars PROVE Done'
    OBVIOUS
  <2>2. ComputeBooks'
    BY <2>1, KeepsComputing
  <2>3. CASE Next
    BY <2>1, <2>2, <2>3, KeepsFinal, KeepsBound
  <2>4. CASE UNCHANGED vars
    <3>1. UNCHANGED <<dep, job, pass, at, ledger, vertex, superstep>>
      BY <2>4 DEF vars, passVars, graphVars
    <3>2. StepBound'
      BY <2>1, <3>1, SameBoundaries DEF StepBound
    <3>3. ASSUME NEW n \in Running', NEW w \in VerticesOf(n)', BoundariesInOrder', job' = "executed"
          PROVE  vertex'[n][w].value = Balance(w, ledger[pass])'
      <4>1. n \in Running /\ w \in VerticesOf(n)
        BY <3>1, <3>3 DEF Running, VerticesOf
      <4>2. vertex[n][w].value = Balance(w, ledger[pass])
        BY <2>1, <3>1, <3>3, <4>1, SameBoundaries DEF FinalBooks
      <4>3. QED
        BY <3>1, <4>2, SameLedger
    <3>4. QED
      BY <2>2, <3>2, <3>3 DEF FinalBooks
  <2>5. QED
    BY <2>1, <2>3, <2>4
<1> HIDE DEF Done
<1>3. Spec => []Done
  BY <1>1, <1>2, ControlInvariant, TablesKept, PTL DEF Spec
<1>4. QED
  BY <1>3 DEF Done

-----------------------------------------------------------------------------
\* Rows on their way to the score store.

\* The ledger of a pass grows only while graphs are loaded.
LEMMA LedgerRests ==
  ASSUME Control, Next, ~Loading
  PROVE  ledger' = ledger
<1> USE DEF deployment, tables, history, scoreVars, loadVars, passVars, graphVars, Goto, Mine, Working, Is, PassBegins
<1>1. \A n \in dep.nodes : at[n] \notin {"start", "load"}
  BY DEF Loading
<1>2. ASSUME NEW n \in Nodes, NodeMove(n) PROVE ledger' = ledger
  <2>1. ~LoaderStep(n) /\ ~MonolithLoaded(n) /\ ~StartJob(n) /\ ~WorkerLoaded(n)
    BY <1>1 DEF LoaderStep, MonolithLoaded, StartJob, WorkerLoaded
  <2>2. ASSUME StoreStep(n) \/ GraphRuns(n) \/ StoreFails(n) \/ WorkerCrashes(n) PROVE ledger' = ledger
    BY <2>2 DEF StoreStep, GraphRuns, StoreFails, WorkerCrashes
  <2>3. ASSUME MonolithPassBegins(n) \/ MonolithStores(n) \/ MonolithPassCompletes(n) \/ MonolithFails(n)
               \/ ServiceStops(n) \/ ProcessEnds(n)
        PROVE ledger' = ledger
    BY <2>3 DEF MonolithPassBegins, MonolithStores, MonolithPassCompletes, MonolithFails, ServiceStops, ProcessEnds
  <2>4. ASSUME CompleteJob(n) \/ ScoresPersisted(n) \/ WorkerFails(n) \/ AbortJob(n) PROVE ledger' = ledger
    BY <2>4 DEF CompleteJob, ScoresPersisted, WorkerFails, AbortJob
  <2>5. QED
    BY <1>2, <2>1, <2>2, <2>3, <2>4 DEF NodeMove
<1>3. ASSUME OtherMove PROVE ledger' = ledger
  BY <1>3 DEF OtherMove, Bounced, JobBegins, GraphExecuted, JobEnds, Signal, JobCancelled, GraphGrows, OtherStoreCalls
<1>4. QED
  BY <1>2, <1>3, Moves

\* Loads begin with a pass.
LEMMA LoadsBegin ==
  ASSUME Control, Next, Loading'
  PROVE  Loading \/ pass' = pass + 1
<1>0. PassTypes /\ dep' = dep /\ dep.nodes \subseteq Nodes /\ Types
  BY KeepsDeployment, DeploymentsAssumption DEF Control, Types, DeploymentTypeOK
<1>1. PICK m \in dep.nodes : at'[m] \in {"start", "load"}
  BY <1>0 DEF Loading
<1>2. SUFFICES ASSUME at[m] \notin {"start", "load"} PROVE pass' = pass + 1
  BY <1>1 DEF Loading
<1> USE DEF deployment, tables, history, scoreVars, loadVars, passVars, graphVars, Goto, Mine, Working, Is, PassBegins, PassTypes
<1>3. ASSUME NEW n \in Nodes, NodeMove(n) PROVE pass' = pass + 1
  <2>1. n = m
    BY <1>0, <1>1, <1>2, <1>3, OtherNodes DEF NodeFrame, Same
  <2>2. ~LoaderStep(n) /\ ~StoreStep(n) /\ ~GraphRuns(n)
    BY <1>1, <1>2, <2>1 DEF LoaderStep, StoreStep, GraphRuns
  <2>3. ~StartJob(n) /\ ~MonolithLoaded(n) /\ ~WorkerLoaded(n)
    BY <1>0, <1>2, <2>1 DEF StartJob, MonolithLoaded, WorkerLoaded
  <2>4. ~MonolithStores(n) /\ ~MonolithPassCompletes(n) /\ ~MonolithFails(n) /\ ~ServiceStops(n) /\ ~ProcessEnds(n)
    BY <1>0, <1>1, <2>1 DEF MonolithStores, MonolithPassCompletes, MonolithFails, ServiceStops, ProcessEnds
  <2>5. ~CompleteJob(n) /\ ~ScoresPersisted(n) /\ ~WorkerFails(n) /\ ~AbortJob(n) /\ ~StoreFails(n) /\ ~WorkerCrashes(n)
    BY <1>0, <1>1, <2>1 DEF CompleteJob, ScoresPersisted, WorkerFails, AbortJob, StoreFails, WorkerCrashes
  <2>6. MonolithPassBegins(n) => pass' = pass + 1
    BY DEF MonolithPassBegins
  <2>7. QED
    BY <1>3, <2>2, <2>3, <2>4, <2>5, <2>6 DEF NodeMove
<1>4. ASSUME OtherMove PROVE pass' = pass + 1
  <2>1. JobBegins => pass' = pass + 1
    BY DEF JobBegins
  <2>2. ~JobEnds
    BY <1>0, <1>1 DEF JobEnds
  <2>3. ASSUME UNCHANGED at PROVE FALSE
    BY <1>1, <1>2, <2>3
  <2>4. QED
    BY <1>4, <2>1, <2>2, <2>3 DEF OtherMove, Bounced, GraphExecuted, Signal, JobCancelled, GraphGrows, OtherStoreCalls
<1>5. QED
  BY <1>3, <1>4, Moves

\* What is right stays right: the ledgers of earlier passes are closed.
LEMMA RightStays ==
  ASSUME Control, Next, NEW w \in Wallets, NEW s \in Score, Right(w, s)
  PROVE  Right(w, s)'
<1>0. Types /\ pass \in Nat /\ pass' \in {pass, pass + 1} /\ dep' = dep /\ dep.passes \in Nat /\ pass <= dep.passes
  BY KeepsDeployment, DeploymentsAssumption DEF Control, Types, DeploymentTypeOK
<1>1. s.pass \in 1 .. pass /\ s.pass \in Passes
  BY <1>0 DEF Score, Passes
<1>2. ledger'[s.pass] = ledger[s.pass]
  <2>1. CASE Loading
    BY <1>0, <1>1, <2>1, LedgerGrows DEF Right
  <2>2. CASE ~Loading
    BY <2>2, LedgerRests
  <2>3. QED
    BY <2>1, <2>2
<1>3. Complete(s.pass)'
  BY <1>0, <1>1, CompleteKept DEF Right
<1>4. Loading' => s.pass < pass'
  BY <1>0, <1>1, LoadsBegin DEF Right
<1>5. BoundariesInOrder' => s.value = Balance(w, ledger[s.pass])'
  BY <1>0, <1>2, SameBoundaries DEF Right
<1>6. QED
  BY <1>3, <1>4, <1>5 DEF Right

RowsOf(n) == {[wallet |-> w, value |-> [pass |-> pass, value |-> vertex[n][w].value]] : w \in VerticesOf(n)}
Collects(n) == (MonolithStores(n) \/ CompleteJob(n)) /\ toStore'[n] = RowsOf(n)

\* Where the rows that are stored come from.
RowFrame ==
  /\ \A w \in Wallets :
       \/ score'[w] = score[w]
       \/ \E n \in Nodes : \E r \in toStore[n] : r.wallet = w /\ score'[w] = r.value
       \/ disturbed' /\ \E r \in lateScores : r.wallet = w /\ score'[w] = r.value
       \/ score'[w] = NoScore /\ completed' = {} /\ Monolith /\ \E n \in dep.nodes : at'[n] = "idle"
       \/ score'[w] = NoScore /\ disturbed'
  /\ \A r \in lateScores' : r \in lateScores \/ \E n \in Nodes : r \in toStore[n]
  /\ \A n \in Nodes : toStore'[n] \subseteq toStore[n] \/ Collects(n)
  /\ disturbed => disturbed'

\* What a call of the store does.
LEMMA StoreFrame ==
  ASSUME Types, NEW n \in Nodes, StoreStep(n)
  PROVE  /\ \A w \in Wallets : score'[w] = score[w] \/ \E r \in toStore[n] : r.wallet = w /\ score'[w] = r.value
         /\ lateScores' = lateScores /\ (disturbed => disturbed')
         /\ toStore'[n] \subseteq toStore[n]
         /\ \A r \in toStore[n] \ toStore'[n] :
              disturbed' \/ \E q \in toStore[n] : q.wallet = r.wallet /\ score'[r.wallet] = q.value
<1>0. StoreTypes
  BY DEF Types
<1>1. CASE MemoryUpsertScores(n)
  <2>1. /\ toStore' = [toStore EXCEPT ![n] = {}] /\ UNCHANGED <<lateScores, disturbed>>
        /\ \A w \in Wallets : score'[w] = IF \E r \in toStore[n] : r.wallet = w
                                            THEN (CHOOSE r \in toStore[n] : r.wallet = w).value ELSE score[w]
    BY <1>1 DEF MemoryUpsertScores
  <2>2. \A w \in Wallets : (\E r \in toStore[n] : r.wallet = w) =>
          \E q \in toStore[n] : q.wallet = w /\ score'[w] = q.value
    <3>1. ASSUME NEW w \in Wallets, NEW r \in toStore[n], r.wallet = w
          PROVE  \E q \in toStore[n] : q.wallet = w /\ score'[w] = q.value
      <4>1. (CHOOSE x \in toStore[n] : x.wallet = w) \in toStore[n]
            /\ (CHOOSE x \in toStore[n] : x.wallet = w).wallet = w
        BY <3>1
      <4>2. score'[w] = (CHOOSE x \in toStore[n] : x.wallet = w).value
        BY <2>1, <3>1
      <4>3. QED
        BY <4>1, <4>2
    <3>2. QED
      BY <3>1
  <2>3. \A r \in toStore[n] : r.wallet \in Wallets
    BY <1>0, RowFields DEF StoreTypes
  <2>4. toStore'[n] = {}
    BY <1>0, <2>1 DEF StoreTypes
  <2>5. \A w \in Wallets : score'[w] = score[w] \/ \E r \in toStore[n] : r.wallet = w /\ score'[w] = r.value
    BY <2>1, <2>2
  <2>6. QED
    BY <2>1, <2>2, <2>3, <2>4, <2>5
<1>2. CASE UpsertScoresLosesError(n)
  BY <1>0, <1>2 DEF UpsertScoresLosesError, StoreTypes
<1>3. ASSUME NEW r \in toStore[n], BulkUpsertScores(n, r)
      PROVE  /\ \A w \in Wallets : score'[w] = score[w] \/ \E q \in toStore[n] : q.wallet = w /\ score'[w] = q.value
             /\ lateScores' = lateScores /\ (disturbed => disturbed')
             /\ toStore'[n] \subseteq toStore[n]
             /\ \A q \in toStore[n] \ toStore'[n] :
                  disturbed' \/ \E p \in toStore[n] : p.wallet = q.wallet /\ score'[q.wallet] = p.value
  <2>1. /\ score' = [score EXCEPT ![r.wallet] = r.value] /\ toStore' = [toStore EXCEPT ![n] = @ \ {r}]
        /\ UNCHANGED <<lateScores, disturbed>>
    BY <1>3 DEF BulkUpsertScores
  <2>2. r.wallet \in Wallets
    BY <1>0, RowFields DEF StoreTypes
  <2>3. score'[r.wallet] = r.value /\ \A w \in Wallets \ {r.wallet} : score'[w] = score[w]
    BY <1>0, <2>1, <2>2 DEF StoreTypes
  <2>4. toStore'[n] = toStore[n] \ {r}
    BY <1>0, <2>1 DEF StoreTypes
  <2>5. \A w \in Wallets : score'[w] = score[w] \/ \E q \in toStore[n] : q.wallet = w /\ score'[w] = q.value
    BY <2>3
  <2>6. \A q \in toStore[n] \ toStore'[n] : q = r
    BY <2>4
  <2>7. QED
    BY <2>1, <2>3, <2>4, <2>5, <2>6
<1>4. QED
  BY <1>1, <1>2, <1>3 DEF StoreStep, StoreMove

\* Every step is of one of these kinds.
LEMMA RowFrames ==
  ASSUME Control, Next
  PROVE  RowFrame
<1>0. Types /\ StoreTypes /\ PassTypes
  BY DEF Control, Types
<1>1. ASSUME UNCHANGED <<score, toStore, lateScores, disturbed>> PROVE RowFrame
  BY <1>1 DEF RowFrame
<1> USE DEF deployment, scoreVars, Mine, Working, Is
<1>2. ASSUME NEW n \in Nodes, NodeMove(n) PROVE RowFrame
  <2>0. \A m \in Nodes \ {n} : toStore'[m] = toStore[m]
    BY <1>0, <1>2, OtherNodes DEF NodeFrame, Same
  <2>1. CASE StoreStep(n)
    <3>1. /\ \A w \in Wallets : score'[w] = score[w] \/ \E r \in toStore[n] : r.wallet = w /\ score'[w] = r.value
          /\ lateScores' = lateScores /\ (disturbed => disturbed')
          /\ toStore'[n] \subseteq toStore[n]
      BY <1>0, <2>1, StoreFrame
    <3>2. QED
      BY <2>0, <3>1 DEF RowFrame
  <2>2. CASE MonolithStores(n) \/ CompleteJob(n)
    <3>1. /\ UNCHANGED <<score, lateScores, disturbed>>
          /\ ScoresAll(n)
      BY <2>2 DEF MonolithStores, CompleteJob
    <3>2. toStore'[n] = RowsOf(n)
      BY <1>0, <3>1 DEF ScoresAll, StoreTypes, RowsOf
    <3>3. QED
      BY <2>0, <2>2, <3>1, <3>2 DEF RowFrame, Collects
  <2>3. CASE ProcessEnds(n)
    <3>1. UNCHANGED <<toStore, lateScores, disturbed>> /\ n \in dep.nodes /\ at'[n] = "idle" /\ Monolith
      BY <1>0, <2>3 DEF ProcessEnds, Goto, PassTypes
    <3>2. score' = score \/ (score' = [w \in Wallets |-> NoScore] /\ completed' = {})
      BY <2>3 DEF ProcessEnds
    <3>3. \A w \in Wallets : score'[w] = score[w] \/ (score'[w] = NoScore /\ completed' = {})
      BY <3>2
    <3>4. QED
      BY <3>1, <3>3 DEF RowFrame
  <2>4. CASE StoreFails(n)
    <3>1. UNCHANGED <<score, disturbed>> /\ toStore' = [toStore EXCEPT ![n] = {}]
          /\ \A r \in lateScores' : r \in lateScores \/ r \in toStore[n]
      BY <2>4 DEF StoreFails, UnknownScorer, UpsertScoresFails
    <3>2. toStore'[n] = {}
      BY <1>0, <3>1 DEF StoreTypes
    <3>3. QED
      BY <2>0, <3>1, <3>2 DEF RowFrame
  <2>5. CASE WorkerCrashes(n)
    <3>1. UNCHANGED <<score, disturbed>> /\ toStore' = [toStore EXCEPT ![n] = {}]
          /\ \A r \in lateScores' : r \in lateScores \/ r \in toStore[n]
      BY <2>5 DEF WorkerCrashes
    <3>2. toStore'[n] = {}
      BY <1>0, <3>1 DEF StoreTypes
    <3>3. QED
      BY <2>0, <3>1, <3>2 DEF RowFrame
  <2>6. CASE LoaderStep(n) \/ GraphRuns(n)
    BY <1>1, <2>6 DEF LoaderStep, GraphRuns
  <2>7. CASE MonolithPassBegins(n) \/ MonolithLoaded(n) \/ MonolithPassCompletes(n) \/ MonolithFails(n) \/ ServiceStops(n)
    BY <1>1, <2>7 DEF MonolithPassBegins, MonolithLoaded, MonolithPassCompletes, MonolithFails, ServiceStops
  <2>8. CASE StartJob(n) \/ WorkerLoaded(n) \/ ScoresPersisted(n) \/ WorkerFails(n) \/ AbortJob(n)
    BY <1>1, <2>8 DEF StartJob, WorkerLoaded, ScoresPersisted, WorkerFails, AbortJob
  <2>9. QED
    BY <1>2, <2>1, <2>2, <2>3, <2>4, <2>5, <2>6, <2>7, <2>8 DEF NodeMove
<1>3. ASSUME OtherMove PROVE RowFrame
  <2>1. CASE OtherStoreCalls
    <3>1. ASSUME UpsertScorer \/ Searches PROVE RowFrame
      BY <1>1, <3>1 DEF UpsertScorer, Searches, SearchBegins, SearchCounts, SearchReads, MemorySearch, RunQuery, ResultsBreakOff
    <3>2. ASSUME NEW r \in lateScores, LateScoreStored(r) PROVE RowFrame
      <4>1. /\ score' = [score EXCEPT ![r.wallet] = r.value] /\ lateScores' = lateScores \ {r} /\ disturbed' /\ toStore' = toStore
        BY <3>2 DEF LateScoreStored
      <4>2. \A w \in Wallets : score'[w] = score[w] \/ (r.wallet = w /\ score'[w] = r.value)
        BY <1>0, <4>1 DEF StoreTypes
      <4>3. QED
        BY <4>1, <4>2 DEF RowFrame
    <3>3. ASSUME StoreRestarts PROVE RowFrame
      BY <1>0, <3>3 DEF StoreRestarts, RowFrame, StoreTypes
    <3>4. QED
      BY <2>1, <3>1, <3>2, <3>3 DEF OtherStoreCalls
  <2>2. ASSUME NEW n \in Nodes \cup {Nobody}, NEW t \in Txs, Bounced(n, t) PROVE RowFrame
    BY <1>1, <2>2 DEF Bounced
  <2>3. CASE JobBegins \/ GraphExecuted \/ JobEnds \/ Signal \/ JobCancelled \/ GraphGrows
    BY <1>1, <2>3 DEF JobBegins, GraphExecuted, JobEnds, Signal, JobCancelled, GraphGrows
  <2>4. QED
    BY <1>3, <2>1, <2>2, <2>3 DEF OtherMove
<1>4. QED
  BY <1>2, <1>3, Moves

-----------------------------------------------------------------------------
\* Scores that are stored are right.

\* Rows wait only with the nodes that store, so none is left when a pass begins.
LEMMA NoRowsBefore ==
  ASSUME Control, Next, pass' # pass
  PROVE  /\ pass' = pass + 1 /\ toStore' = toStore /\ \A n \in Nodes : toStore[n] = {}
         /\ \A n \in dep.nodes : at'[n] \in {"start", "load"}
         /\ UNCHANGED <<score, lateScores, disturbed, completed>>
<1>0. Types /\ PassTypes /\ JobBooks /\ (\A n \in Nodes : NodeBooks(n)) /\ dep.nodes \subseteq Nodes
  BY DeploymentsAssumption DEF Control, Types, DeploymentTypeOK, PlaceBooks
<1>1. ASSUME \A n \in dep.nodes : at[n] = "idle"
      PROVE  \A n \in Nodes : toStore[n] = {}
  <2>1. ASSUME NEW n \in Nodes PROVE toStore[n] = {}
    <3>1. NodeBooks(n) /\ at[n] = "idle"
      BY <1>0, <1>1 DEF NodeBooks
    <3>2. QED
      BY <3>1 DEF NodeBooks
  <2>2. QED
    BY <2>1
<1>2. ASSUME NEW n \in Nodes, NodeMove(n)
      PROVE  /\ pass' = pass + 1 /\ toStore' = toStore /\ \A m \in dep.nodes : at[m] = "idle"
             /\ \A m \in dep.nodes : at'[m] \in {"start", "load"}
             /\ UNCHANGED <<score, lateScores, disturbed, completed>>
  <2>1. MonolithPassBegins(n)
    BY <1>2, NodePass
  <2>2. /\ Monolith /\ n \in dep.nodes /\ at[n] = "idle" /\ pass' = pass + 1 /\ at' = [at EXCEPT ![n] = "load"]
        /\ UNCHANGED <<toStore, score, lateScores, disturbed, completed>>
    BY <2>1 DEF MonolithPassBegins, Mine, Is, PassBegins, scoreVars, Goto
  <2>3. \A m \in dep.nodes : m = n
    BY <1>0, <2>2, OneNode
  <2>4. QED
    BY <1>0, <2>2, <2>3 DEF PassTypes
<1>3. ASSUME OtherMove
      PROVE  /\ pass' = pass + 1 /\ toStore' = toStore /\ \A m \in dep.nodes : at[m] = "idle"
             /\ \A m \in dep.nodes : at'[m] \in {"start", "load"}
             /\ UNCHANGED <<score, lateScores, disturbed, completed>>
  <2>1. JobBegins
    BY <1>3 DEF OtherMove, Bounced, GraphExecuted, JobEnds, Signal, JobCancelled, GraphGrows, OtherStoreCalls
  <2>2. /\ ~Monolith /\ job = "off" /\ pass' = pass + 1
        /\ UNCHANGED <<toStore, score, lateScores, disturbed, completed>>
        /\ at' = [n \in Nodes |-> IF n \in dep.nodes THEN "start" ELSE at[n]]
    BY <2>1 DEF JobBegins, PassBegins, scoreVars
  <2>3. QED
    BY <1>0, <2>2 DEF JobBooks
<1>4. QED
  BY <1>1, <1>2, <1>3, Moves

\* The rows that a node collects are right.
LEMMA RowsRight ==
  ASSUME Control, TableBooks, LedgerBooks, ComputeBooks, FinalBooks, NEW n \in Nodes, Collects(n),
         NEW r \in RowsOf(n)
  PROVE  /\ r \in Row /\ Right(r.wallet, r.value) /\ r.value.pass = pass /\ r.value \in Score /\ r.wallet \in Wallets
         /\ pass' = pass
<1>0. /\ Types /\ PassTypes /\ GraphTypes /\ JobBooks /\ (\A m \in Nodes : NodeBooks(m)) /\ dep.nodes \subseteq Nodes
      /\ pass \in Nat /\ dep.passes \in Nat /\ pass <= dep.passes
  BY DeploymentsAssumption DEF Control, Types, DeploymentTypeOK, PlaceBooks
<1>1. PICK w \in VerticesOf(n) : r = [wallet |-> w, value |-> [pass |-> pass, value |-> vertex[n][w].value]]
  BY DEF RowsOf
<1>2. /\ n \in dep.nodes /\ at[n] = "run" /\ pass' = pass
      /\ \/ Monolith /\ run[n] = "stop"
         \/ ~Monolith /\ job = "executed"
  BY DEF Collects, MonolithStores, CompleteJob, Mine, Working, Is
<1>3. n \in Running /\ w \in Wallets
  BY <1>2 DEF Running, VerticesOf
<1>4. pass # 0 /\ pass \in Passes
  <2>1. NodeBooks(n)
    BY <1>0
  <2>2. pass # 0
    BY <1>2, <2>1 DEF NodeBooks
  <2>3. QED
    BY <1>0, <2>2 DEF Passes
<1>5. r \in Row /\ r.wallet = w /\ r.value.pass = pass /\ r.value.value = vertex[n][w].value
  BY <1>0, <1>1, <1>3, <1>4, ValueIn
<1>6. CASE Monolith
  <2>1. \A m \in dep.nodes : m = n
    BY <1>0, <1>2, <1>6, OneNode
  <2>2. NodeBooks(n) /\ run[n] = "stop"
    BY <1>0, <1>2, <1>6
  <2>3. Running = dep.nodes /\ (BoundariesInOrder => Intact)
    BY <1>2, <2>1, <2>2 DEF Intact, Running, NodeBooks
  <2>4. BoundariesInOrder => vertex[n][w].value = Balance(w, ledger[pass])
    BY <1>3, <2>1, <2>2, <2>3, AllStopped DEF ComputeBooks, Computing
  <2>5. Complete(pass)
    BY <1>0, <1>2, <1>4, <2>1, AllLoaded DEF LedgerBooks
  <2>6. ~Loading
    BY <1>2, <2>1 DEF Loading
  <2>7. Right(w, r.value)
    BY <1>5, <2>4, <2>5, <2>6 DEF Right
  <2>8. QED
    BY <1>2, <1>5, <2>7, RowFields
<1>7. CASE ~Monolith
  <2>1. job = "executed"
    BY <1>2, <1>7
  <2>2. BoundariesInOrder => vertex[n][w].value = Balance(w, ledger[pass])
    BY <1>3, <2>1 DEF FinalBooks
  <2>3. Complete(pass)
    BY <1>4, <2>1 DEF LedgerBooks
  <2>4. ~Loading
    <3>1. JobBooks
      BY <1>0
    <3>2. QED
      BY <1>2, <1>7, <2>1, <3>1 DEF JobBooks
  <2>5. Right(w, r.value)
    BY <1>5, <2>2, <2>3, <2>4 DEF Right
  <2>6. QED
    BY <1>2, <1>5, <2>5, RowFields
<1>8. QED
  BY <1>6, <1>7

\* Every step keeps the rows right.
LEMMA KeepsRows ==
  ASSUME Control, TableBooks, LedgerBooks, ComputeBooks, FinalBooks, RowBooks, Next
  PROVE  RowBooks'
<1>0. Types /\ StoreTypes /\ RowFrame
  BY RowFrames DEF Control, Types
<1>1. ASSUME NEW n \in Nodes, NEW r \in toStore[n]
      PROVE  r.wallet \in Wallets /\ r.value \in Score /\ Right(r.wallet, r.value) /\ r.value.pass = pass
             /\ Right(r.wallet, r.value)' /\ r.value # NoScore
  <2>1. r.wallet \in Wallets /\ r.value \in Score
    BY <1>0, <1>1, RowFields DEF StoreTypes
  <2>2. Right(r.wallet, r.value) /\ r.value.pass = pass
    BY <1>1 DEF RowBooks
  <2>3. QED
    BY <1>0, <2>1, <2>2, RightStays, ScoreIsOne
<1>2. ASSUME NEW r \in lateScores
      PROVE  r.wallet \in Wallets /\ r.value \in Score /\ Right(r.wallet, r.value)'
  <2>1. r.wallet \in Wallets /\ r.value \in Score
    BY <1>0, <1>2, RowFields DEF StoreTypes
  <2>2. Right(r.wallet, r.value)
    BY <1>2 DEF RowBooks
  <2>3. QED
    BY <2>1, <2>2, RightStays
<1>3. ASSUME NEW w \in Scored' PROVE Right(w, score[w])'
  <2>1. w \in Wallets /\ score'[w] # NoScore
    BY <1>3 DEF Scored
  <2>2. CASE score'[w] = score[w]
    <3>1. w \in Scored /\ score[w] \in Score
      BY <1>0, <2>1, <2>2 DEF Scored, StoreTypes
    <3>2. Right(w, score[w])
      BY <3>1 DEF RowBooks
    <3>3. \A s \in Score : Right(w, s) => Right(w, s)'
      BY <2>1, RightStays
    <3>4. QED
      BY <2>2, <3>1, <3>2, <3>3 DEF Right
  <2>3. CASE \E n \in Nodes : \E r \in toStore[n] : r.wallet = w /\ score'[w] = r.value
    <3>1. PICK n \in Nodes : \E r \in toStore[n] : r.wallet = w /\ score'[w] = r.value
      BY <2>3
    <3>2. PICK r \in toStore[n] : r.wallet = w /\ score'[w] = r.value
      BY <3>1
    <3>3. Right(r.wallet, r.value)'
      BY <1>1
    <3>4. QED
      BY <3>2, <3>3 DEF Right
  <2>4. CASE \E r \in lateScores : r.wallet = w /\ score'[w] = r.value
    <3>1. PICK r \in lateScores : r.wallet = w /\ score'[w] = r.value
      BY <2>4
    <3>2. Right(r.wallet, r.value)'
      BY <1>2
    <3>3. QED
      BY <3>1, <3>2 DEF Right
  <2>5. QED
    BY <1>0, <2>1, <2>2, <2>3, <2>4 DEF RowFrame
<1>4. ASSUME NEW r \in lateScores' PROVE Right(r.wallet, r.value)'
  BY <1>0, <1>1, <1>2 DEF RowFrame
<1>5. ASSUME NEW n \in Nodes, NEW r \in toStore'[n] PROVE Right(r.wallet, r.value)' /\ r.value.pass = pass'
  <2>1. CASE toStore'[n] \subseteq toStore[n]
    <3>1. r \in toStore[n]
      BY <1>5, <2>1
    <3>2. Right(r.wallet, r.value)' /\ r.value.pass = pass
      BY <1>1, <3>1
    <3>3. pass' = pass
      BY <3>1, NoRowsBefore
    <3>4. QED
      BY <3>2, <3>3
  <2>2. CASE Collects(n)
    <3>1. r \in RowsOf(n)
      BY <1>5, <2>2 DEF Collects
    <3>2. Right(r.wallet, r.value) /\ r.value.pass = pass /\ r.value \in Score /\ r.wallet \in Wallets /\ pass' = pass
      BY <2>2, <3>1, RowsRight
    <3>3. QED
      BY <3>2, RightStays
  <2>3. QED
    BY <1>0, <2>1, <2>2 DEF RowFrame
<1>6. QED
  BY <1>3, <1>4, <1>5 DEF RowBooks

\* So does a step that changes nothing.
LEMMA SameRows ==
  ASSUME RowBooks, UNCHANGED vars
  PROVE  RowBooks'
<1>1. UNCHANGED <<dep, at, pass, ledger, since, cut, score, lateScores, toStore>>
  BY DEF vars, passVars, scoreVars, loadVars
<1>2. Scored' = Scored
  BY <1>1 DEF Scored
<1>3. \A w, s : Right(w, s)' <=> Right(w, s)
  <2>1. ASSUME NEW s PROVE Complete(s.pass)' <=> Complete(s.pass)
    BY <1>1 DEF Complete, Needed
  <2>2. Loading' <=> Loading
    BY <1>1 DEF Loading
  <2>3. \A w, s : Balance(w, ledger[s.pass])' = Balance(w, ledger[s.pass])
    BY <1>1
  <2>4. QED
    BY <1>1, <2>1, <2>2, <2>3, SameBoundaries DEF Right
<1>4. QED
  BY <1>1, <1>2, <1>3 DEF RowBooks

\* Every score, stored or on its way, is the balance over a ledger that is closed.
THEOREM RowsKept == Spec => []RowBooks
<1>1. Init => RowBooks
  <2>1. SUFFICES ASSUME Init PROVE RowBooks
    OBVIOUS
  <2>2. Scored = {} /\ lateScores = {} /\ \A n \in Nodes : toStore[n] = {}
    BY <2>1 DEF Init, ScoreInit, Scored
  <2>3. QED
    BY <2>2 DEF RowBooks
<1>2. Control /\ (TableBooks /\ LedgerBooks) /\ (ComputeBooks /\ FinalBooks /\ StepBound) /\ RowBooks /\ [Next]_vars => RowBooks'
  BY KeepsRows, SameRows
<1>3. QED
  BY <1>1, <1>2, ControlInvariant, LedgersComplete, ComputationKept, PTL DEF Spec

\* A stored score is the balance of the wallet over exactly what was loaded for its pass:
\* none is missed or counted twice, however messages, aborted jobs and crashes fall, as
\* long as the ends of the partitions are in order.
THEOREM BalancesStored == Spec => []ScoresAreBalances
<1>1. RowBooks => ScoresAreBalances
  BY DEF RowBooks, Right, ScoresAreBalances
<1>2. QED
  BY <1>1, RowsKept, PTL

\* What was in the tables when a pass began is in its scores, unless a result set broke off
\* unnoticed, or the sender is the wallet with the last address (worker.go:272-391).
THEOREM CompletelyStored == Spec => []ScoresComplete
<1>1. RowBooks => ScoresComplete
  BY DEF RowBooks, Right, Complete, Needed, ScoresComplete
<1>2. QED
  BY <1>1, RowsKept, PTL

-----------------------------------------------------------------------------
\* A pass that reported success is visible.

\* What was in the tables when a pass began is not forgotten.
LEMMA SinceStays ==
  ASSUME Control, Next
  PROVE  /\ \A p \in 1 .. pass : p \in Passes /\ since'[p] = since[p]
         /\ pass' = pass => since' = since
<1>0. Types /\ PassTypes /\ pass \in Nat /\ dep.passes \in Nat /\ pass <= dep.passes
  BY DeploymentsAssumption DEF Control, Types, DeploymentTypeOK
<1>1. \A p \in 1 .. pass : p \in Passes
  BY <1>0 DEF Passes
<1>2. CASE since' = since
  BY <1>1, <1>2
<1>3. CASE PassBegins
  <2>1. pass' = pass + 1 /\ since' = [since EXCEPT ![pass + 1] = [txs |-> tx, wallets |-> wallet]]
    BY <1>3 DEF PassBegins
  <2>2. QED
    BY <1>0, <1>1, <2>1 DEF PassTypes
<1>4. QED
  BY <1>2, <1>3, HistoryFrames DEF HistoryFrame, Recorded

\* The rows of a node's call: where they go.
RowsGo(n) ==
  \/ at[n] = "store" /\ \A r \in toStore[n] \ toStore'[n] :
       disturbed' \/ \E q \in toStore[n] : q.wallet = r.wallet /\ score'[r.wallet] = q.value
  \/ at[n] = "run" /\ Collects(n)

StoreMoves(n) ==
  /\ at'[n] = "store" => RowsGo(n)
  /\ at'[n] = "persisted" => at[n] = "persisted" \/ (at[n] = "store" /\ toStore[n] = {})

\* A node stores what it has collected.
LEMMA OwnStore ==
  ASSUME Control, NEW n \in Nodes, NodeMove(n)
  PROVE  StoreMoves(n)
<1>0. Types /\ PassTypes /\ StoreTypes
  BY DEF Control, Types
<1> USE DEF deployment, scoreVars, passVars, Mine, Working, Is, Goto
<1>1. CASE StoreStep(n)
  <2>1. at[n] = "store" /\ at' = at
    BY <1>1 DEF StoreStep
  <2>2. \A r \in toStore[n] \ toStore'[n] :
       disturbed' \/ \E q \in toStore[n] : q.wallet = r.wallet /\ score'[r.wallet] = q.value
    BY <1>0, <1>1, StoreFrame
  <2>3. QED
    BY <2>1, <2>2 DEF StoreMoves, RowsGo
<1>2. CASE MonolithStores(n) \/ CompleteJob(n)
  <2>1. at[n] = "run" /\ at'[n] = "store" /\ ScoresAll(n)
    BY <1>0, <1>2 DEF MonolithStores, CompleteJob, PassTypes
  <2>2. toStore'[n] = RowsOf(n)
    BY <1>0, <2>1 DEF ScoresAll, StoreTypes, RowsOf
  <2>3. QED
    BY <1>2, <2>1, <2>2 DEF StoreMoves, RowsGo, Collects
<1>3. CASE ScoresPersisted(n)
  <2>1. at[n] = "store" /\ toStore[n] = {} /\ at'[n] = "persisted"
    BY <1>0, <1>3 DEF ScoresPersisted, PassTypes
  <2>2. QED
    BY <2>1 DEF StoreMoves
<1>4. ASSUME at'[n] \notin {"store", "persisted"} PROVE StoreMoves(n)
  BY <1>4 DEF StoreMoves
<1>5. CASE LoaderStep(n) \/ GraphRuns(n)
  <2>1. at' = at /\ at[n] \in {"load", "run"}
    BY <1>5 DEF LoaderStep, GraphRuns
  <2>2. QED
    BY <1>4, <2>1
<1>6. CASE MonolithPassBegins(n) \/ MonolithPassCompletes(n) \/ MonolithFails(n) \/ ServiceStops(n) \/ ProcessEnds(n)
  <2>1. at'[n] \in {"load", "idle", "returned"}
    BY <1>0, <1>6 DEF MonolithPassBegins, MonolithPassCompletes, MonolithFails, ServiceStops, ProcessEnds, PassTypes
  <2>2. QED
    BY <1>4, <2>1
<1>7. CASE MonolithLoaded(n) \/ WorkerLoaded(n) \/ StartJob(n)
  <2>1. at'[n] \in {"load", "idle", "run"}
    BY <1>0, <1>7 DEF MonolithLoaded, WorkerLoaded, StartJob, Executor, PassTypes
  <2>2. QED
    BY <1>4, <2>1
<1>8. CASE WorkerFails(n) \/ AbortJob(n) \/ StoreFails(n) \/ WorkerCrashes(n)
  <2>1. at'[n] \in {"gone", "failed"}
    BY <1>0, <1>8 DEF WorkerFails, AbortJob, StoreFails, WorkerCrashes, PassTypes
  <2>2. QED
    BY <1>4, <2>1
<1>9. QED
  BY <1>1, <1>2, <1>3, <1>5, <1>6, <1>7, <1>8 DEF NodeMove

\* Nobody else touches its rows.
LEMMA StoresMove ==
  ASSUME Control, Next, NEW n \in Nodes
  PROVE  StoreMoves(n)
<1>0. Types /\ PassTypes /\ StoreTypes
  BY DEF Control, Types
<1>1. ASSUME at'[n] = at[n], toStore'[n] = toStore[n] PROVE StoreMoves(n)
  BY <1>1 DEF StoreMoves, RowsGo
<1>2. ASSUME NEW m \in Nodes, NodeMove(m) PROVE StoreMoves(n)
  <2>1. CASE m = n
    BY <1>2, <2>1, OwnStore
  <2>2. CASE m # n
    BY <1>0, <1>1, <1>2, <2>2, OtherNodes DEF NodeFrame, Same
  <2>3. QED
    BY <2>1, <2>2
<1>3. ASSUME OtherMove PROVE StoreMoves(n)
  <2>1. CASE JobBegins
    <3>1. toStore' = toStore /\ (at'[n] = "start" \/ at'[n] = at[n])
      BY <2>1 DEF JobBegins, scoreVars
    <3>2. QED
      BY <1>1, <3>1 DEF StoreMoves
  <2>2. CASE JobEnds
    <3>1. at'[n] = "idle"
      BY <2>2 DEF JobEnds
    <3>2. QED
      BY <3>1 DEF StoreMoves
  <2>3. CASE GraphExecuted \/ Signal \/ JobCancelled \/ GraphGrows
             \/ \E k \in Nodes \cup {Nobody} : \E t \in Txs : Bounced(k, t)
    BY <1>1, <2>3 DEF GraphExecuted, Signal, JobCancelled, GraphGrows, Bounced, scoreVars, passVars
  <2>4. CASE OtherStoreCalls
    <3>1. at' = at
      BY <2>4 DEF OtherStoreCalls, passVars
    <3>2. toStore' = toStore
      BY <2>4 DEF OtherStoreCalls, UpsertScorer, Searches, SearchBegins, SearchCounts, SearchReads, MemorySearch, RunQuery, ResultsBreakOff, LateScoreStored, StoreRestarts
    <3>3. QED
      BY <1>1, <3>1, <3>2
  <2>5. QED
    BY <1>3, <2>1, <2>2, <2>3, <2>4 DEF OtherMove
<1>4. QED
  BY <1>2, <1>3, Moves

\* A score of this pass stays one, unless the store in memory ends with its process.
LEMMA CurrentStays ==
  ASSUME Control, RowBooks, Next, NEW w \in Wallets, Current(w), ~disturbed', pass' = pass
  PROVE  Current(w)' \/ (Monolith /\ \E m \in dep.nodes : at'[m] = "idle")
<1>0. Types /\ StoreTypes /\ RowFrame
  BY RowFrames DEF Control, Types
<1>1. score[w] # NoScore /\ score[w].pass = pass
  BY DEF Current, Scored
<1>2. CASE score'[w] = score[w]
  BY <1>1, <1>2 DEF Current, Scored
<1>3. ASSUME NEW n \in Nodes, NEW r \in toStore[n], score'[w] = r.value PROVE Current(w)'
  <2>1. r.value.pass = pass
    BY <1>3 DEF RowBooks
  <2>2. r.value # NoScore
    BY <1>0, <1>3, RowFields, ScoreIsOne DEF StoreTypes
  <2>3. QED
    BY <1>3, <2>1, <2>2 DEF Current, Scored
<1>4. QED
  BY <1>0, <1>2, <1>3 DEF RowFrame

\* Rows that are stored are scores of this pass.
LEMMA StoredIsCurrent ==
  ASSUME Control, RowBooks, NEW n \in Nodes, NEW q \in toStore[n], score'[q.wallet] = q.value, pass' = pass
  PROVE  Current(q.wallet)'
<1>1. q.wallet \in Wallets /\ q.value \in Score /\ Types
  BY RowFields DEF Control, Types, StoreTypes
<1>2. q.value # NoScore /\ q.value.pass = pass
  BY <1>1, ScoreIsOne DEF RowBooks
<1>3. QED
  BY <1>1, <1>2 DEF Current, Scored

\* A wallet that is due has its score, or its row is on its way.
LEMMA KeepsStores ==
  ASSUME Control, LedgerBooks, RowBooks, Next, NEW n \in dep.nodes, StoreBooks(n)
  PROVE  StoreBooks(n)'
<1>0. /\ Types /\ PassTypes /\ n \in Nodes /\ dep' = dep /\ RowFrame /\ StoreMoves(n) /\ cut \subseteq cut'
      /\ LoadComplete(n)
  BY KeepsDeployment, DeploymentsAssumption, RowFrames, StoresMove, CutGrows
     DEF Control, Types, DeploymentTypeOK, LedgerBooks
<1>1. CASE pass' # pass
  <2>1. at'[n] \in {"start", "load"}
    BY <1>1, NoRowsBefore
  <2>2. QED
    BY <2>1 DEF StoreBooks
<1>2. CASE pass' = pass
  <2>1. since' = since
    BY <1>2, SinceStays
  <2>2. Due(n)' = Due(n) /\ Passes' = Passes
    BY <1>0, <1>2, <2>1, DueStays
  <2>3. SUFFICES ASSUME ~disturbed', pass \in Passes \ cut', NEW w \in Due(n),
                        at'[n] \in {"store", "persisted"}
        PROVE  /\ at'[n] = "store" => Current(w)' \/ \E r \in toStore'[n] : r.wallet = w
               /\ at'[n] = "persisted" => Current(w)'
    BY <1>2, <2>2 DEF StoreBooks
  <2>4. /\ w \in Wallets /\ ~disturbed /\ pass \in Passes \ cut
    BY <1>0, <2>3 DEF RowFrame, Due, PassTypes
  <2>5. Current(w) => Current(w)'
    <3>1. ~(Monolith /\ \E m \in dep.nodes : at'[m] = "idle")
      BY <1>0, <2>3, OneNode
    <3>2. QED
      BY <1>2, <2>3, <2>4, <3>1, CurrentStays
  <2>6. ASSUME at[n] = "store", \A r \in toStore[n] \ toStore'[n] :
                 disturbed' \/ \E q \in toStore[n] : q.wallet = r.wallet /\ score'[r.wallet] = q.value
        PROVE  Current(w)' \/ \E r \in toStore'[n] : r.wallet = w
    <3>1. Current(w) \/ \E r \in toStore[n] : r.wallet = w
      BY <2>3, <2>4, <2>6 DEF StoreBooks
    <3>2. ASSUME NEW r \in toStore[n] \ toStore'[n], r.wallet = w PROVE Current(w)'
      <4>1. PICK q \in toStore[n] : q.wallet = w /\ score'[w] = q.value
        BY <2>3, <2>6, <3>2
      <4>2. Current(q.wallet)'
        BY <1>0, <1>2, <4>1, StoredIsCurrent
      <4>3. QED
        BY <4>1, <4>2 DEF Current
    <3>3. QED
      BY <2>5, <3>1, <3>2
  <2>7. ASSUME at[n] = "run", Collects(n) PROVE \E r \in toStore'[n] : r.wallet = w
    <3>1. w \in VerticesOf(n)
      BY <1>0, <2>3, <2>4, <2>7 DEF LoadComplete, VerticesOf
    <3>2. toStore'[n] = RowsOf(n)
      BY <2>7 DEF Collects
    <3>3. [wallet |-> w, value |-> [pass |-> pass, value |-> vertex[n][w].value]] \in RowsOf(n)
      BY <3>1 DEF RowsOf
    <3>4. QED
      BY <3>2, <3>3
  <2>8. CASE at'[n] = "store"
    BY <1>0, <2>6, <2>7, <2>8 DEF StoreMoves, RowsGo
  <2>9. CASE at'[n] = "persisted"
    <3>1. Current(w)
      BY <1>0, <2>3, <2>4, <2>9 DEF StoreMoves, StoreBooks
    <3>2. QED
      BY <2>5, <2>9, <3>1
  <2>10. QED
    BY <2>3, <2>8, <2>9
<1>3. QED
  BY <1>1, <1>2

-----------------------------------------------------------------------------
\* A pass reports success when all its nodes have stored their scores.
PassCompletes ==
  /\ completed' = completed \cup {pass} /\ UNCHANGED <<pass, score, since, cut, disturbed>>
  /\ \A n \in dep.nodes : (at[n] = "store" /\ toStore[n] = {}) \/ at[n] = "persisted"

\* Every step adds at most such a pass.
LEMMA CompletedMoves ==
  ASSUME Control, Next
  PROVE  completed' \subseteq completed \/ PassCompletes
<1>0. Types
  BY DEF Control
<1> USE DEF deployment, scoreVars, passVars, loadVars, history, Mine, Working, Is, Goto
<1>1. ASSUME NEW n \in Nodes, NodeMove(n) PROVE completed' \subseteq completed \/ PassCompletes
  <2>1. CASE MonolithPassCompletes(n)
    <3>1. /\ Monolith /\ n \in dep.nodes /\ at[n] = "store" /\ toStore[n] = {}
          /\ completed' = completed \cup {pass} /\ UNCHANGED <<pass, score, since, cut, disturbed>>
      BY <2>1 DEF MonolithPassCompletes
    <3>2. QED
      BY <1>0, <3>1, OneNode DEF PassCompletes
  <2>2. CASE ProcessEnds(n)
    BY <2>2 DEF ProcessEnds
  <2>3. CASE LoaderStep(n) \/ GraphRuns(n) \/ StoreStep(n)
    BY <2>3 DEF LoaderStep, GraphRuns, StoreStep
  <2>4. CASE MonolithPassBegins(n) \/ MonolithLoaded(n) \/ MonolithStores(n) \/ MonolithFails(n) \/ ServiceStops(n)
    BY <2>4 DEF MonolithPassBegins, PassBegins, MonolithLoaded, Executor, MonolithStores, MonolithFails, ServiceStops
  <2>5. CASE StartJob(n) \/ WorkerLoaded(n) \/ CompleteJob(n) \/ ScoresPersisted(n) \/ WorkerFails(n) \/ AbortJob(n)
    BY <2>5 DEF StartJob, WorkerLoaded, Executor, CompleteJob, ScoresPersisted, WorkerFails, AbortJob
  <2>6. CASE StoreFails(n) \/ WorkerCrashes(n)
    BY <2>6 DEF StoreFails, WorkerCrashes
  <2>7. QED
    BY <1>1, <2>1, <2>2, <2>3, <2>4, <2>5, <2>6 DEF NodeMove
<1>2. ASSUME OtherMove PROVE completed' \subseteq completed \/ PassCompletes
  <2>1. CASE JobEnds
    BY <2>1 DEF JobEnds, PassCompletes
  <2>2. CASE JobBegins
    BY <2>2 DEF JobBegins, PassBegins
  <2>3. CASE \E k \in Nodes \cup {Nobody} : \E t \in Txs : Bounced(k, t)
    BY <2>3 DEF Bounced
  <2>4. CASE GraphExecuted \/ Signal \/ JobCancelled \/ GraphGrows \/ OtherStoreCalls
    BY <2>4 DEF GraphExecuted, Signal, JobCancelled, GraphGrows, OtherStoreCalls
  <2>5. QED
    BY <1>2, <2>1, <2>2, <2>3, <2>4 DEF OtherMove
<1>3. QED
  BY <1>1, <1>2, Moves

\* The score of a wallet is none from before the pass p.
UpTo(w, p) == score[w] # NoScore /\ score[w].pass >= p

\* Scores get no older.
LEMMA UpToStays ==
  ASSUME Control, RowBooks, Next, NEW w \in Wallets, NEW p \in completed \cap completed', UpTo(w, p), ~disturbed'
  PROVE  UpTo(w, p)'
<1>0. Types /\ StoreTypes /\ RowFrame /\ pass \in Nat /\ p \in 1 .. pass
  <2>1. Types /\ StoreTypes /\ PassTypes /\ RowFrame
    BY RowFrames DEF Control, Types
  <2>2. pass \in Nat
    BY <2>1, DeploymentsAssumption DEF Types, DeploymentTypeOK
  <2>3. p \in 1 .. pass
    BY <2>1 DEF PassTypes
  <2>4. QED
    BY <2>1, <2>2, <2>3
<1>1. score'[w] = score[w] \/ \E n \in Nodes : \E r \in toStore[n] : r.wallet = w /\ score'[w] = r.value
  BY <1>0 DEF RowFrame
<1>2. CASE score'[w] = score[w]
  BY <1>2 DEF UpTo
<1>3. ASSUME NEW n \in Nodes, NEW r \in toStore[n], score'[w] = r.value PROVE UpTo(w, p)'
  <2>1. r.value # NoScore
    BY <1>0, <1>3, RowFields, ScoreIsOne DEF StoreTypes
  <2>2. r.value.pass = pass
    BY <1>3 DEF RowBooks
  <2>3. QED
    BY <1>0, <1>3, <2>1, <2>2 DEF UpTo
<1>4. QED
  BY <1>1, <1>2, <1>3

\* Every step keeps the scores of completed passes visible.
LEMMA KeepsVisible ==
  ASSUME Control, LedgerBooks, RowBooks, VisibleBooks, Next
  PROVE  VisibleBooks'
<1>0. /\ Types /\ PassTypes /\ dep' = dep /\ RowFrame /\ cut \subseteq cut' /\ pass \in Nat /\ dep.passes \in Nat
      /\ pass <= dep.passes /\ dep.nodes \subseteq Nodes
  BY KeepsDeployment, DeploymentsAssumption, RowFrames, CutGrows DEF Control, Types, DeploymentTypeOK
<1>1. \A n \in dep.nodes : StoreBooks(n)'
  BY KeepsStores DEF VisibleBooks
<1>2. SUFFICES ASSUME ~disturbed', NEW p \in completed' \ cut', NEW w \in since'[p].wallets, Addr[w] # MaxAddr
      PROVE  UpTo(w, p)'
  BY <1>0, <1>1 DEF VisibleBooks, CompletedPassVisible, UpTo
<1>3. ~disturbed /\ p \notin cut
  BY <1>0, <1>2 DEF RowFrame
<1>4. CASE p \in completed
  <2>1. since'[p] = since[p] /\ p \in Passes
    BY <1>0, <1>4, SinceStays DEF PassTypes
  <2>2. w \in since[p].wallets /\ w \in Wallets
    BY <1>0, <1>2, <2>1 DEF PassTypes
  <2>3. UpTo(w, p)
    BY <1>2, <1>3, <1>4, <2>2 DEF VisibleBooks, CompletedPassVisible, UpTo
  <2>4. QED
    BY <1>2, <1>4, <2>2, <2>3, UpToStays
<1>5. CASE p \notin completed
  <2>1. PassCompletes /\ p = pass
    BY <1>2, <1>5, CompletedMoves DEF PassCompletes
  <2>2. \A n \in dep.nodes : NodeBooks(n)
    BY <1>0 DEF Control, PlaceBooks
  <2>3. pass \in Passes
    <3>1. PICK n \in dep.nodes : TRUE
      BY <1>0, DeploymentsAssumption DEF Types, DeploymentTypeOK
    <3>2. pass # 0
      BY <2>1, <2>2, <3>1 DEF PassCompletes, NodeBooks
    <3>3. QED
      BY <1>0, <3>2 DEF Passes
  <2>4. w \in since[pass].wallets /\ w \in Wallets
    BY <1>0, <1>2, <2>1, <2>3 DEF PassCompletes, PassTypes
  <2>5. PICK n \in dep.nodes : Within(n, w)
    BY <1>0, <1>2, <2>4, OwnerThere
  <2>6. w \in Due(n)
    BY <2>4, <2>5 DEF Due
  <2>7. Current(w)
    <3>1. (at[n] = "store" /\ toStore[n] = {}) \/ at[n] = "persisted"
      BY <2>1 DEF PassCompletes
    <3>2. QED
      BY <1>3, <2>1, <2>3, <2>6, <3>1 DEF VisibleBooks, StoreBooks
  <2>8. QED
    BY <1>0, <2>1, <2>7 DEF UpTo, Current, Scored, PassCompletes
<1>6. QED
  BY <1>4, <1>5

\* So does a step that changes nothing.
LEMMA SameVisible ==
  ASSUME VisibleBooks, UNCHANGED vars
  PROVE  VisibleBooks'
<1>1. UNCHANGED <<dep, at, pass, since, cut, score, toStore, disturbed, completed>>
  BY DEF vars, passVars, scoreVars, loadVars
<1>2. \A n : StoreBooks(n)' <=> StoreBooks(n)
  <2>1. (\A n : Due(n)' = Due(n)) /\ Passes' = Passes
    BY <1>1, DueStays
  <2>2. \A w : Current(w)' <=> Current(w)
    BY <1>1 DEF Current, Scored
  <2>3. QED
    BY <1>1, <2>1, <2>2 DEF StoreBooks
<1>3. CompletedPassVisible' <=> CompletedPassVisible
  BY <1>1 DEF CompletedPassVisible
<1>4. QED
  BY <1>1, <1>2, <1>3 DEF VisibleBooks

\* Scores of a pass that are due are stored before its nodes say so.
THEOREM VisibleKept == Spec => []VisibleBooks
<1>1. Init => VisibleBooks
  <2>1. SUFFICES ASSUME Init PROVE VisibleBooks
    OBVIOUS
  <2>2. completed = {} /\ \A n \in Nodes : at[n] = "idle"
    BY <2>1 DEF Init
  <2>3. pass = 0 /\ pass \notin Passes
    BY <2>1 DEF Init, DeploymentInit, Passes
  <2>4. QED
    BY <2>2, <2>3 DEF VisibleBooks, StoreBooks, CompletedPassVisible
<1>2. Control /\ (TableBooks /\ LedgerBooks) /\ RowBooks /\ VisibleBooks /\ [Next]_vars => VisibleBooks'
  BY KeepsVisible, SameVisible
<1>3. QED
  BY <1>1, <1>2, ControlInvariant, LedgersComplete, RowsKept, PTL DEF Spec

\* A pass that reported success left no wallet with an older score, nor without one: all but
\* the one with the last address, unless a store call lied or came late.
THEOREM CompletedVisible == Spec => []CompletedPassVisible
<1>1. VisibleBooks => CompletedPassVisible
  BY DEF VisibleBooks
<1>2. QED
  BY <1>1, VisibleKept, PTL

\* The variables have their types; pool and active vertices stay within bounds.
THEOREM TypesCorrect == Spec => []TypeOK
<1>1. Control => TypeOK
  <2>1. SUFFICES ASSUME Control PROVE TypeOK
    OBVIOUS
  <2>2. Types /\ DeploymentTypeOK /\ LoadTypeOK /\ GraphTypes /\ PassTypes /\ StoreTypes
    BY <2>1 DEF Control, Types
  <2>3. GraphTypeOK
    <3>1. superstep \in [Nodes -> Nat]
      BY <2>2 DEF GraphTypes
    <3>2. \A n \in Nodes : pending[n] = Cardinality(feed[n] \cup busy[n]) /\ feed[n] \cap busy[n] = {}
      BY <2>1 DEF Control, GraphBooks, StepBooks
    <3>3. activeIn \in [Nodes -> 0 .. Cardinality(Wallets)]
      <4>1. \A n \in Nodes : activeIn[n] <= Cardinality(Wallets)
        BY <2>1 DEF Control, GraphBooks, StepBooks
      <4>2. QED
        BY <2>2, <4>1, FiniteWallets DEF GraphTypes
    <3>4. vertex \in [Nodes -> [Wallets -> [on : BOOLEAN, value : Int, txs : SUBSET Txs, active : BOOLEAN,
                                             queue : [{0, 1} -> [n : Nat, sum : Nat]]]]]
      BY <2>2 DEF GraphTypes, VertexRecord, Queues
    <3>5. QED
      BY <2>2, <3>1, <3>2, <3>3, <3>4 DEF GraphTypes, GraphTypeOK
  <2>4. completed \subseteq Passes
    BY <2>2, DeploymentsAssumption DEF PassTypes, Passes, DeploymentTypeOK
  <2>5. \A w \in Scored : score[w].pass \in 1 .. pass /\ score[w].value \in Int
    BY <2>2, ScoreIsOne DEF StoreTypes, Scored
  <2>6. QED
    BY <2>2, <2>3, <2>4, <2>5 DEF TypeOK, PassTypes, StoreTypes
<1>2. QED
  BY <1>1, ControlInvariant, PTL

\* All of it at any time: the inductive invariant.
THEOREM GravitasInvariant == Spec => []GravitasInv
<1>1. /\ Control /\ (SearchBooks /\ TotalCountIsThere) /\ (TableBooks /\ LedgerBooks)
      /\ (ComputeBooks /\ FinalBooks /\ StepBound) /\ RowBooks /\ VisibleBooks
      => GravitasInv
  BY DEF GravitasInv
<1>2. QED
  BY <1>1, ControlInvariant, CountsAreThere, LedgersComplete, ComputationKept, RowsKept, VisibleKept, PTL

-----------------------------------------------------------------------------
\* A pass is never stuck.

LeftWord(n) == load[n].at \in {"iterate", "wait"} /\ load[n].fetchers # dep.fetchers => load[n].err

\* A step of the loader loses no error.
LEMMA LoaderLeavesWord ==
  ASSUME Control, NEW n \in Nodes, dep' = dep, LoaderMove(n), LeftWord(n)
  PROVE  LeftWord(n)'
<1>0. load \in [Nodes -> LoadRecord] /\ load[n] \in LoadRecord
  BY LoadFacts
<1> USE DEF LeftWord, LoadRecord
<1>1. ASSUME LoadReturns(n, "ok") \/ LoadReturns(n, "err") \/ LoadReturns(n, "cancelled") \/ WalletsFail(n)
      PROVE  LeftWord(n)'
  <2>1. load'[n].at \notin {"iterate", "wait"}
    BY <1>0, <1>1 DEF LoadReturns, WalletsFail, NoLoad
  <2>2. QED
    BY <2>1
<1>2. ASSUME \/ WalletsEnd(n) \/ NumberLearnt(n) \/ AllAdded(n) \/ WalletsCut(n)
             \/ \E w \in Wallets : \/ WalletSent(n, w) \/ FetchWalletTxs(n, w) \/ VertexSent(n, w)
                                   \/ WalletTxsCut(n, w) \/ VertexAdded(n, w)
             \/ \E r \in left[n] : LateRowAdded(n, r)
      PROVE  LeftWord(n)'
  <2>1. /\ load'[n].fetchers = load[n].fetchers /\ load'[n].err = load[n].err
        /\ load[n].at \in {"iterate", "wait"} \/ load'[n].at = load[n].at
    BY <1>0, <1>2 DEF WalletsEnd, NumberLearnt, AllAdded, WalletsCut, WalletSent, FetchWalletTxs,
       VertexSent, WalletTxsCut, VertexAdded, LateRowAdded
  <2>2. QED
    BY <2>1
<1>3. ASSUME NEW w \in Wallets, FetchFails(n, w) PROVE LeftWord(n)'
  <2>1. load'[n].err
    BY <1>0, <1>3 DEF FetchFails
  <2>2. QED
    BY <2>1
<1>4. QED
  BY <1>1, <1>2, <1>3 DEF LoaderMove, LoadSucceeds, LoadGetsError, LoadCancelled

\* Every step keeps the reasons of fetchers that went.
LEMMA KeepsWord ==
  ASSUME Control, Next, NEW m \in Nodes, LeftWord(m)
  PROVE  LeftWord(m)'
<1>0. dep' = dep /\ load \in [Nodes -> LoadRecord]
  BY KeepsDeployment, LoadFacts DEF Control, Types
<1>1. ASSUME load'[m] = load[m] PROVE LeftWord(m)'
  BY <1>0, <1>1 DEF LeftWord
<1>2. ASSUME NEW n \in Nodes, load' = [load EXCEPT ![n] = NoLoad] PROVE LeftWord(m)'
  BY <1>0, <1>1, <1>2 DEF LeftWord, NoLoad
<1>3. ASSUME NEW n \in Nodes, LoadBegins(n) PROVE LeftWord(m)'
  <2>1. CASE n = m
    <3>1. load'[m].fetchers = dep.fetchers
      BY <1>0, <1>3, <2>1 DEF LoadBegins, NoLoad
    <3>2. QED
      BY <1>0, <3>1 DEF LeftWord
  <2>2. CASE n # m
    BY <1>0, <1>1, <1>3, <2>2 DEF LoadBegins
  <2>3. QED
    BY <2>1, <2>2
<1>4. ASSUME NEW n \in Nodes, NodeMove(n) PROVE LeftWord(m)'
  <2>1. CASE LoaderStep(n)
    <3>1. n # m => load'[m] = load[m]
      BY <1>4, OtherNodes DEF NodeFrame, Same, Control
    <3>2. QED
      BY <1>0, <1>1, <2>1, <3>1, LoaderLeavesWord DEF LoaderStep
  <2>2. CASE MonolithPassBegins(n) \/ StartJob(n)
    BY <1>3, <2>2 DEF MonolithPassBegins, StartJob
  <2>3. CASE MonolithLoaded(n) \/ ProcessEnds(n) \/ WorkerLoaded(n) \/ WorkerFails(n) \/ WorkerCrashes(n)
    BY <1>2, <2>3 DEF MonolithLoaded, ProcessEnds, WorkerLoaded, WorkerFails, WorkerCrashes
  <2>4. CASE \/ StoreStep(n) \/ MonolithStores(n) \/ MonolithPassCompletes(n) \/ MonolithFails(n)
             \/ ServiceStops(n) \/ CompleteJob(n) \/ ScoresPersisted(n)
             \/ AbortJob(n) \/ GraphRuns(n) \/ StoreFails(n)
    <3>1. load' = load
      BY <2>4 DEF StoreStep, MonolithStores, MonolithPassCompletes, MonolithFails, ServiceStops, CompleteJob,
         ScoresPersisted, AbortJob, GraphRuns, StoreFails, loadVars
    <3>2. QED
      BY <1>1, <3>1
  <2>5. QED
    BY <1>4, <2>1, <2>2, <2>3, <2>4 DEF NodeMove
<1>5. ASSUME OtherMove PROVE LeftWord(m)'
  <2>1. load' = load
    BY <1>5 DEF OtherMove, Bounced, JobBegins, GraphExecuted, JobEnds, Signal, JobCancelled, GraphGrows,
       OtherStoreCalls, loadVars
  <2>2. QED
    BY <1>1, <2>1
<1>6. QED
  BY <1>4, <1>5, Moves

\* A graph fails in a superstep only without a relayer.
LEMMA FailsInStep ==
  ASSUME Control, NEW n \in Nodes, GraphStep(n)
  PROVE  run'[n] = "err" => run[n] = "err" \/ Monolith
<1>0. GraphTypes /\ NodeBooks(n)
  BY DEF Control, Types, PlaceBooks
<1>1. CASE StepBegins(n) \/ StepEnds(n)
  BY <1>0, <1>1 DEF StepBegins, StepEnds, GraphTypes
<1>2. CASE StepCompletes(n)
  BY <1>0, <1>2 DEF StepCompletes, GraphTypes, NodeBooks
<1>3. ASSUME \/ \E t \in Txs : RelayDelivered(n, t)
             \/ \E w \in Wallets :
                  \/ WorkerTakes(n, w) \/ VertexSkipped(n, w) \/ ComputeCounts(n, w)
                  \/ ComputeSends(n, w) \/ ComputeFails(n, w) \/ ComputeAdds(n, w)
      PROVE  run' = run
  BY <1>3 DEF RelayDelivered, WorkerTakes, VertexSkipped, ComputeCounts, ComputeSends, ComputeFails, ComputeAdds
<1>4. QED
  BY <1>1, <1>2, <1>3 DEF GraphStep

\* Every step keeps the reasons of graphs that failed.
LEMMA KeepsReason ==
  ASSUME Control, Control', Next, NEW m \in Nodes, run[m] = "err" => Monolith \/ aborted
  PROVE  run'[m] = "err" => (Monolith \/ aborted)'
<1>0. /\ dep' = dep /\ (Monolith' <=> Monolith) /\ Types /\ GraphTypes
  BY KeepsDeployment DEF Control, Types, Monolith
<1>1. ASSUME NEW n \in Nodes, NodeMove(n) PROVE run'[m] = "err" => (Monolith \/ aborted)'
  <2>1. aborted => aborted'
    BY <1>0, <1>1, OtherNodes DEF NodeFrame
  <2>2. run'[m] = run[m] \/ n = m
    BY <1>0, <1>1, OtherNodes DEF NodeFrame, Same
  <2>3. CASE GraphRuns(n) /\ n = m
    <3>1. GraphStep(n) \/ ((IF Monolith THEN ctx = "done" ELSE aborted) /\ StepContextDone(n))
      BY <2>3 DEF GraphRuns
    <3>2. CASE GraphStep(n)
      <4>1. run'[n] = "err" => run[n] = "err" \/ Monolith
        BY <1>0, <3>2, FailsInStep
      <4>2. QED
        BY <1>0, <2>1, <2>3, <4>1
    <3>3. CASE (IF Monolith THEN ctx = "done" ELSE aborted) /\ StepContextDone(n)
      BY <1>0, <2>1, <3>3
    <3>4. QED
      BY <3>1, <3>2, <3>3
  <2>4. CASE ~GraphRuns(n) /\ n = m
    <3>1. run' = run \/ run'[n] \in {"off", "pre"}
      BY <1>0, <1>1, <2>4 DEF NodeMove, LoaderStep, StoreStep, MonolithPassBegins, MonolithLoaded, MonolithStores,
         MonolithPassCompletes, MonolithFails, ServiceStops, ProcessEnds, StartJob, WorkerLoaded, CompleteJob,
         ScoresPersisted, WorkerFails, AbortJob, StoreFails, WorkerCrashes, Reset, Executor, NewExecutor,
         graphVars, GraphTypes
    <3>2. QED
      BY <1>0, <2>1, <2>4, <3>1
  <2>5. QED
    BY <1>0, <2>1, <2>2, <2>3, <2>4
<1>2. ASSUME OtherMove PROVE run'[m] = "err" => (Monolith \/ aborted)'
  <2>1. CASE JobEnds
    <3>1. at'[m] = "idle"
      BY <2>1 DEF JobEnds
    <3>2. run'[m] = "off"
      BY <3>1 DEF Control, PlaceBooks, NodeBooks
    <3>3. QED
      BY <3>2
  <2>2. CASE ~JobEnds
    <3>1. run' = run /\ (aborted => aborted')
      BY <1>2, <2>2 DEF OtherMove, Bounced, JobBegins, PassBegins, GraphExecuted, Signal, JobCancelled, GraphGrows,
         OtherStoreCalls, graphVars, passVars
    <3>2. QED
      BY <1>0, <3>1
  <2>3. QED
    BY <2>1, <2>2
<1>3. QED
  BY <1>1, <1>2, Moves

-----------------------------------------------------------------------------
\* The pipeline of a load goes on until loadWallets has returned.
LEMMA LoadsGoOn ==
  ASSUME Control, ReasonBooks, NEW n \in dep.nodes, at[n] = "load"
  PROVE  LoadGoesOn(n)
<1>0. /\ n \in Nodes /\ dep.fetchers \in Nat \ {0} /\ load[n] \in LoadRecord /\ load[n].at # "off"
      /\ LoadBooks(n) /\ where[n] \in [Wallets -> Places] /\ load[n].fetchers \in Nat
  <2>1. n \in Nodes /\ dep.fetchers \in Nat \ {0}
    BY DeploymentsAssumption DEF Control, Types, DeploymentTypeOK
  <2>2. QED
    BY <2>1, LoadFacts DEF Control, PlaceBooks, NodeBooks
<1>1. SUFFICES ASSUME ~LoadGoesOn(n) PROVE FALSE
  OBVIOUS
<1>2. load[n].at \in {"iterate", "wait"}
  BY <1>0, <1>1 DEF LoadGoesOn, LoadRecord
<1>3. Cardinality({}) = 0 /\ 0 < dep.fetchers
  BY <1>0, FS_EmptySet
<1>4. In(n, "vertexCh") = {} /\ In(n, "fetch") = {}
  BY <1>1, <1>3 DEF LoadGoesOn
<1>5. ~load[n].err
  BY <1>1, <1>2 DEF LoadGoesOn, AtSelect
<1>6. load[n].fetchers = dep.fetchers
  BY <1>0, <1>2, <1>5 DEF ReasonBooks
<1>7. In(n, "addrCh") = {}
  BY <1>1, <1>3, <1>4, <1>6 DEF LoadGoesOn
<1>8. load[n].at = "wait"
  BY <1>1, <1>2, <1>3, <1>7 DEF LoadGoesOn
<1>9. Under(n) = In(n, "added")
  BY <1>4, <1>7 DEF Under, In
<1>10. load[n].num = load[n].seen
  <2>1. load[n].num = Cardinality(Under(n)) + (dep.fetchers - load[n].fetchers)
        /\ load[n].seen = Cardinality(In(n, "added"))
    BY <1>0, <1>2 DEF LoadBooks
  <2>2. Cardinality(Under(n)) \in Nat
    BY FiniteWallets DEF Under
  <2>3. QED
    BY <1>0, <1>6, <1>9, <2>1, <2>2
<1>11. QED
  BY <1>1, <1>8, <1>10 DEF LoadGoesOn

\* So does a superstep.
LEMMA StepGoesOn ==
  ASSUME Control, NEW n \in dep.nodes, run[n] = "step"
  PROVE  RunGoesOn(n)
<1>1. /\ n \in Nodes /\ dep.workers \in Nat \ {0} /\ pending[n] = Cardinality(feed[n] \cup busy[n])
  BY DeploymentsAssumption DEF Control, Types, DeploymentTypeOK, GraphBooks, StepBooks
<1>2. Cardinality({}) = 0
  BY FS_EmptySet
<1>3. ComputeGoesOn(n)
  <2>1. CASE busy[n] = {} /\ feed[n] = {}
    BY <1>1, <1>2, <2>1 DEF ComputeGoesOn
  <2>2. CASE busy[n] = {} /\ feed[n] # {}
    BY <1>1, <1>2, <2>2 DEF ComputeGoesOn
  <2>3. QED
    BY <2>1, <2>2 DEF ComputeGoesOn
<1>4. QED
  BY <1>3 DEF RunGoesOn

\* All that left the step are there: its executor goes on, or takes a message first.
LEMMA BarrierPasses ==
  ASSUME NoStrays, NEW n \in Nodes, run[n] = "post", \A m \in dep.nodes : LeftStep(m, superstep[n])
  PROVE  RunGoesOn(n)
<1>1. \A t \in Txs : <<Nobody, t>> \notin relay
  BY DEF NoStrays, RelayBounces
<1>2. \A t \in Txs : <<n, t>> \in relay => n # Nobody /\ vertex[n][TxTo[t]].on
  BY <1>1 DEF NoStrays, RelayBounces
<1>3. QED
  BY <1>1, <1>2 DEF RunGoesOn

\* The graphs of a job never all wait at its barriers.
LEMMA SomeGraphGoesOn ==
  ASSUME Control, ComputeBooks, ReasonBooks, BoundariesInOrder, NoStrays, ~Monolith, job = "on", ~aborted, \A n \in dep.nodes : at[n] = "run"
  PROVE  (\E n \in dep.nodes : RunGoesOn(n)) \/ JobGoesOn
<1>0. dep.nodes \subseteq Nodes /\ dep.nodes # {} /\ \A n \in Nodes : NodeBooks(n)
  BY DeploymentsAssumption DEF Control, Types, DeploymentTypeOK, PlaceBooks
<1>1. Intact /\ Running = dep.nodes
  BY <1>0 DEF Intact, Running, NodeBooks, ReasonBooks
<1>2. BarrierBooks /\ \A n \in dep.nodes : run[n] \in {"pre", "step", "post", "stop"} /\ superstep[n] \in Nat
  BY <1>0, <1>1, IntactFacts DEF ComputeBooks, GraphTypes
<1>3. SUFFICES ASSUME \A n \in dep.nodes : ~RunGoesOn(n), ~JobGoesOn PROVE FALSE
  OBVIOUS
<1>4. \A n \in dep.nodes : run[n] \in {"pre", "post", "stop"}
  BY <1>2, <1>3, StepGoesOn
<1>5. \A n, m \in dep.nodes : superstep[n] = superstep[m] \/ Ahead(n, m) \/ Ahead(m, n)
  BY <1>1, <1>2 DEF BarrierBooks
<1>6. ASSUME NEW n \in dep.nodes, run[n] = "stop" PROVE FALSE
  <2>1. \A m \in dep.nodes : superstep[m] = superstep[n] /\ run[m] \in {"post", "stop"}
    BY <1>1, <1>2, <1>6 DEF BarrierBooks
  <2>2. PICK m \in dep.nodes : run[m] # "stop"
    BY <1>3 DEF JobGoesOn
  <2>3. run[m] = "post" /\ \A k \in dep.nodes : LeftStep(k, superstep[m])
    BY <2>1, <2>2 DEF LeftStep
  <2>4. QED
    BY <1>0, <1>3, <2>2, <2>3, BarrierPasses
<1>7. ASSUME NEW n \in dep.nodes, run[n] = "pre" PROVE FALSE
  <2>1. PICK m \in dep.nodes : superstep[m] # superstep[n]
    BY <1>3, <1>4, <1>6, <1>7 DEF RunGoesOn
  <2>2. Ahead(n, m)
    BY <1>5, <1>7, <2>1 DEF Ahead
  <2>3. run[m] = "post" /\ superstep[n] = superstep[m] + 1
    BY <2>2 DEF Ahead
  <2>4. ASSUME NEW k \in dep.nodes PROVE LeftStep(k, superstep[m])
    <3>1. CASE superstep[k] = superstep[m]
      <4>1. superstep[k] # superstep[n]
        BY <1>2, <2>3, <3>1
      <4>2. Ahead(n, k)
        BY <1>5, <1>7, <4>1 DEF Ahead
      <4>3. QED
        BY <3>1, <4>2 DEF Ahead, LeftStep
    <3>2. CASE superstep[k] # superstep[m]
      BY <1>5, <2>3, <3>2 DEF Ahead, LeftStep
    <3>3. QED
      BY <3>1, <3>2
  <2>5. QED
    BY <1>0, <1>3, <2>3, <2>4, BarrierPasses
<1>8. PICK n \in dep.nodes : TRUE
  BY <1>0
<1>9. \A m \in dep.nodes : run[m] = "post"
  BY <1>4, <1>6, <1>7
<1>10. \A m \in dep.nodes : LeftStep(m, superstep[n])
  BY <1>5, <1>9 DEF Ahead, LeftStep
<1>11. QED
  BY <1>0, <1>3, <1>8, <1>9, <1>10, BarrierPasses

\* The node of the monolith.
LEMMA MonolithGoesOn ==
  ASSUME Control, ReasonBooks, Monolith, NEW n \in dep.nodes, at[n] \notin {"idle", "returned"}
  PROVE  NodeGoesOn(n)
<1>0. /\ n \in Nodes /\ NodeBooks(n) /\ Types /\ GraphTypes /\ PassTypes /\ \A m \in dep.nodes : m = n
  BY DeploymentsAssumption, OneNode DEF Control, Types, DeploymentTypeOK, PlaceBooks
<1>1. at[n] \in {"load", "run", "store", "failed"}
  BY <1>0 DEF PassTypes, NodeBooks
<1>2. CASE at[n] = "run"
  <2>1. run[n] \in {"pre", "step", "post", "stop", "err"} /\ relay = {}
    BY <1>0, <1>2 DEF GraphTypes, NodeBooks, Control, PlaceBooks, JobBooks
  <2>2. CASE run[n] = "step"
    BY <1>2, <2>2, StepGoesOn DEF NodeGoesOn
  <2>3. CASE run[n] \in {"pre", "post", "stop", "err"}
    <3>1. RunGoesOn(n)
      BY <1>0, <2>1, <2>3 DEF RunGoesOn, LeftStep
    <3>2. QED
      BY <1>2, <3>1 DEF NodeGoesOn
  <2>4. QED
    BY <2>1, <2>2, <2>3
<1>3. QED
  BY <1>1, <1>2, LoadsGoOn DEF NodeGoesOn

\* A job.
LEMMA JobOrNodeGoesOn ==
  ASSUME Control, ComputeBooks, ReasonBooks, BoundariesInOrder, NoStrays, ~Monolith, NEW n \in dep.nodes, at[n] \notin {"idle", "returned"}
  PROVE  (\E m \in dep.nodes : NodeGoesOn(m)) \/ JobGoesOn
<1>0. /\ dep.nodes \subseteq Nodes /\ PassTypes /\ GraphTypes /\ JobBooks /\ \A m \in Nodes : NodeBooks(m)
  BY DeploymentsAssumption DEF Control, Types, DeploymentTypeOK, PlaceBooks
<1>1. job \in {"on", "executed"}
  BY <1>0 DEF JobBooks, PassTypes
<1>2. SUFFICES ASSUME \A m \in dep.nodes : ~NodeGoesOn(m), ~JobGoesOn PROVE FALSE
  OBVIOUS
<1>3. ASSUME NEW m \in dep.nodes
      PROVE  at[m] \in {"run", "persisted", "gone"} /\ (at[m] = "run" => ~RunGoesOn(m) /\ run[m] # "step")
  <2>1. m \in Nodes /\ at[m] # "idle" /\ at[m] # "returned"
    BY <1>0, <1>1 DEF JobBooks, NodeBooks
  <2>2. at[m] \notin {"start", "store", "failed", "load"}
    BY <1>2, LoadsGoOn DEF NodeGoesOn
  <2>3. at[m] = "run" => ~RunGoesOn(m)
    BY <1>2 DEF NodeGoesOn
  <2>4. QED
    BY <1>0, <2>1, <2>2, <2>3, StepGoesOn DEF PassTypes
<1>4. CASE aborted
  <2>1. \A m \in dep.nodes : at[m] = "gone"
    BY <1>2, <1>3, <1>4 DEF NodeGoesOn, RunGoesOn
  <2>2. QED
    BY <1>1, <1>2, <1>4, <2>1 DEF JobGoesOn
<1>5. CASE ~aborted /\ job = "on"
  <2>1. \A m \in dep.nodes : at[m] = "run"
    BY <1>0, <1>3, <1>5 DEF JobBooks, NodeBooks
  <2>2. QED
    BY <1>2, <1>3, <1>5, <2>1, SomeGraphGoesOn
<1>6. CASE ~aborted /\ job = "executed"
  <2>1. ASSUME NEW m \in dep.nodes PROVE at[m] = "persisted"
    <3>1. at[m] # "gone"
      BY <1>0, <1>6 DEF NodeBooks
    <3>2. at[m] = "run" => run[m] = "stop"
      BY <1>0, <1>6 DEF JobBooks
    <3>3. at[m] # "run"
      BY <1>3, <1>6, <3>2 DEF RunGoesOn
    <3>4. QED
      BY <1>3, <3>1, <3>3
  <2>2. QED
    BY <1>1, <1>2, <1>6, <2>1 DEF JobGoesOn
<1>7. QED
  BY <1>1, <1>4, <1>5, <1>6

\* While a pass is under way, no message is stray and the ends of the partitions are in
\* order, a node or the master goes on by a step of its own: the threads of the loads, the
\* compute workers and the barriers between the graphs never all wait for one another,
\* for any number of them.  What a relay that is full does is not its matter.
THEOREM PassesGoOn == Spec => []NoStall
<1>1. Init => ReasonBooks
  BY DEF Init, LoadInit, GraphInit, NoLoad, ReasonBooks
<1>2. Control /\ Control' /\ ReasonBooks /\ [Next]_vars => ReasonBooks'
  <2>1. SUFFICES ASSUME Control, Control', ReasonBooks, [Next]_vars PROVE ReasonBooks'
    OBVIOUS
  <2>2. CASE Next
    <3>1. \A m \in Nodes : LeftWord(m)'
      BY <2>1, <2>2, KeepsWord DEF ReasonBooks, LeftWord
    <3>2. \A m \in Nodes : run'[m] = "err" => (Monolith \/ aborted)'
      BY <2>1, <2>2, KeepsReason DEF ReasonBooks
    <3>3. QED
      BY <3>1, <3>2 DEF ReasonBooks, LeftWord
  <2>3. CASE UNCHANGED vars
    BY <2>1, <2>3 DEF vars, graphVars, loadVars, passVars, ReasonBooks, Monolith
  <2>4. QED
    BY <2>1, <2>2, <2>3
<1>3. Control /\ (ComputeBooks /\ FinalBooks /\ StepBound) /\ ReasonBooks => NoStall
  BY MonolithGoesOn, JobOrNodeGoesOn DEF NoStall
<1>4. QED
  BY <1>1, <1>2, <1>3, ControlInvariant, ComputationKept, PTL DEF Spec
=============================================================================
