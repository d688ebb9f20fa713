----------------------------- MODULE GbtProofs ------------------------------
(***************************************************************************)
(* Proofs about Gbt, for every mempool and all limits: the blocks are      *)
(* valid while they are made, and at the end every transaction is in one   *)
(* block or once in overflow.                                              *)
(***************************************************************************)
EXTENDS Gbt, FiniteSetTheorems, TLAPS

(***************************************************************************)
(* Sums over uids                                                          *)
(***************************************************************************)

\* A set of numbers that is not empty has a least one.
LEMMA LeastOf ==
  ASSUME NEW S, S \subseteq Nat, S # {}
  PROVE  \E m \in S : \A n \in S : m <= n
<1> DEFINE T == {0..n : n \in S}
<1>1. \A n \in S : 0..n \in FiniteSubsetsOf(Nat)
  <2>1. ASSUME NEW n \in S PROVE 0..n \in FiniteSubsetsOf(Nat)
    <3>1. 0..n \in SUBSET Nat
      OBVIOUS
    <3>2. IsFiniteSet(0..n)
      BY FS_Interval
    <3> QED BY <3>1, <3>2 DEF FiniteSubsetsOf
  <2> QED BY <2>1
<1>2. T \subseteq FiniteSubsetsOf(Nat) /\ T # {}
  BY <1>1
<1>3. PICK x \in T : \A y \in T : <<y, x>> \notin StrictSubsetOrdering(Nat)
  <2> HIDE DEF T
  <2> QED BY <1>2, FS_StrictSubsetOrderingWellFounded, WFMin
<1>4. PICK m \in S : x = 0..m
  OBVIOUS
<1>5. ASSUME NEW n \in S, n < m PROVE FALSE
  <2>1. 0..n \subseteq 0..m /\ m \in 0..m /\ m \notin 0..n
    BY <1>5
  <2>2. 0..n \in SUBSET Nat /\ 0..m \in SUBSET Nat
    OBVIOUS
  <2>3. <<0..n, 0..m>> \in StrictSubsetOrdering(Nat)
    BY <2>1, <2>2, <1>1 DEF StrictSubsetOrdering
  <2> QED BY <2>3, <1>3, <1>4
<1> QED BY <1>5

\* The uids are the numbers from 1 to MaxUid.
LEMMA UidFacts ==
  /\ MaxUid \in Nat /\ MaxUid \in 0..MaxUid /\ 0 \in 0..MaxUid
  /\ Uid \subseteq Nat /\ IsFiniteSet(Uid)
  /\ \A t \in Uid : t \in 0..MaxUid /\ t - 1 \in 0..MaxUid /\ t # 0
  /\ \A t \in 0..MaxUid : t # 0 => t \in Uid /\ t - 1 < t
BY GbtAssumption, FS_Interval DEF Uid

\* Reaching each number from the one before it.
LEMMA AllReached ==
  ASSUME NEW Good, 0 \in Good,
         \A t \in Uid : t - 1 \in Good => t \in Good
  PROVE  \A t \in 0..MaxUid : t \in Good
<1> DEFINE Bad == {t \in 0..MaxUid : t \notin Good}
<1> SUFFICES ASSUME Bad # {} PROVE FALSE
  OBVIOUS
<1>1. Bad \subseteq Nat
  OBVIOUS
<1>2. PICK m \in Bad : \A n \in Bad : m <= n
  <2> HIDE DEF Bad
  <2> QED BY <1>1, LeastOf
<1>3. m \in Uid /\ m - 1 \in 0..MaxUid /\ ~(m <= m - 1)
  BY UidFacts
<1>4. m - 1 \in Good
  BY <1>2, <1>3
<1> QED BY <1>3, <1>4

\* The equation of the recursion has a solution.
LEMMA SumsExist ==
  ASSUME NEW w \in [Uid -> Nat]
  PROVE  \E g \in [0..MaxUid -> Nat] :
            g[0] = 0 /\ \A t \in Uid : g[t] = g[t - 1] + w[t]
<1> DEFINE Solves(g, k) == /\ g \in [0..MaxUid -> Nat] /\ g[0] = 0
                           /\ \A t \in Uid : t <= k => g[t] = g[t - 1] + w[t]
           Good == {k \in 0..MaxUid : \E g \in [0..MaxUid -> Nat] : Solves(g, k)}
<1>1. 0 \in Good
  <2>1. Solves([t \in 0..MaxUid |-> 0], 0)
    BY UidFacts
  <2> QED BY <2>1, UidFacts
<1>2. ASSUME NEW k \in Uid, k - 1 \in Good
      PROVE  k \in Good
  <2>1. PICK g \in [0..MaxUid -> Nat] : Solves(g, k - 1)
    BY <1>2
  <2> DEFINE h == [g EXCEPT ![k] = g[k - 1] + w[k]]
  <2>2. k \in 0..MaxUid /\ k - 1 \in 0..MaxUid /\ k # 0 /\ k \in Nat
    BY UidFacts
  <2>3. g[k - 1] + w[k] \in Nat
    BY <2>2
  <2>4. h \in [0..MaxUid -> Nat] /\ h[0] = 0 /\ h[k] = h[k - 1] + w[k]
    BY <2>1, <2>2, <2>3
  <2>5. ASSUME NEW t \in Uid, t <= k - 1
        PROVE  h[t] = h[t - 1] + w[t]
    <3>1. t # k /\ t - 1 # k /\ t \in 0..MaxUid /\ t - 1 \in 0..MaxUid
      BY <2>2, <2>5, UidFacts
    <3> QED BY <2>1, <2>5, <3>1
  <2>6. ASSUME NEW t \in Uid, t <= k PROVE t = k \/ t <= k - 1
    BY <2>2, <2>6, UidFacts
  <2>7. Solves(h, k)
    <3> HIDE DEF h
    <3> QED BY <2>4, <2>5, <2>6
  <2> QED BY <2>2, <2>4, <2>7
<1>3. MaxUid \in Good
  <2> HIDE DEF Good
  <2> QED BY <1>1, <1>2, AllReached, UidFacts
<1>4. \A t \in Uid : t <= MaxUid
  BY DEF Uid
<1> QED BY <1>3, <1>4

\* So the partial sums satisfy it.
LEMMA PartialSumsDef ==
  ASSUME NEW f \in [Uid -> Nat], NEW S
  PROVE  /\ PartialSums(f, S) \in [0..MaxUid -> Nat]
         /\ PartialSums(f, S)[0] = 0
         /\ \A t \in Uid : PartialSums(f, S)[t] =
               PartialSums(f, S)[t - 1] + (IF t \in S THEN f[t] ELSE 0)
<1> DEFINE w == [t \in Uid |-> IF t \in S THEN f[t] ELSE 0]
           Step(g) == [t \in 0..MaxUid |->
                          IF t = 0 THEN 0 ELSE g[t - 1] + (IF t \in S THEN f[t] ELSE 0)]
<1>1. w \in [Uid -> Nat]
  OBVIOUS
<1>2. PICK g \in [0..MaxUid -> Nat] : g[0] = 0 /\ \A t \in Uid : g[t] = g[t - 1] + w[t]
  <2> HIDE DEF w
  <2> QED BY <1>1, SumsExist
<1>3. g = Step(g)
  <2>1. \A t \in 0..MaxUid : g[t] = Step(g)[t]
    BY <1>2, UidFacts
  <2> QED BY <2>1
<1> DEFINE s == PartialSums(f, S)
<1>4. s = Step(s)
  BY <1>3 DEF PartialSums
<1> HIDE DEF s
<1>5. /\ s[0] = 0 /\ DOMAIN s = 0..MaxUid
      /\ \A t \in Uid : s[t] = s[t - 1] + (IF t \in S THEN f[t] ELSE 0)
  BY <1>4, UidFacts
<1> DEFINE Good == {t \in 0..MaxUid : s[t] \in Nat}
<1>6. 0 \in Good
  BY <1>5, UidFacts
<1>7. ASSUME NEW t \in Uid, t - 1 \in Good PROVE t \in Good
  <2>1. s[t - 1] \in Nat /\ f[t] \in Nat /\ t \in 0..MaxUid
    BY <1>7, UidFacts
  <2> QED BY <1>5, <2>1
<1>8. \A t \in 0..MaxUid : s[t] \in Nat
  <2> HIDE DEF Good
  <2>1. \A t \in 0..MaxUid : t \in Good
    BY <1>6, <1>7, AllReached
  <2> QED BY <2>1 DEF Good
<1>9. s \in [0..MaxUid -> Nat]
  <2>1. s = [t \in 0..MaxUid |-> s[t]]
    BY <1>4
  <2> QED BY <1>8, <2>1
<1> QED BY <1>5, <1>9 DEF s

\* A sum is a number.
LEMMA SumType ==
  ASSUME NEW f \in [Uid -> Nat], NEW S
  PROVE  SumOver(f, S) \in Nat
BY PartialSumsDef, UidFacts DEF SumOver

\* The sum over a union is no more than the two sums.
LEMMA SumOfUnion ==
  ASSUME NEW f \in [Uid -> Nat], NEW S, NEW T
  PROVE  SumOver(f, S \cup T) <= SumOver(f, S) + SumOver(f, T)
<1> DEFINE a == PartialSums(f, S)
           b == PartialSums(f, T)
           c == PartialSums(f, S \cup T)
           Good == {t \in 0..MaxUid : c[t] <= a[t] + b[t]}
<1>1. /\ a \in [0..MaxUid -> Nat] /\ b \in [0..MaxUid -> Nat] /\ c \in [0..MaxUid -> Nat]
      /\ a[0] = 0 /\ b[0] = 0 /\ c[0] = 0
      /\ \A t \in Uid : /\ a[t] = a[t - 1] + (IF t \in S THEN f[t] ELSE 0)
                        /\ b[t] = b[t - 1] + (IF t \in T THEN f[t] ELSE 0)
                        /\ c[t] = c[t - 1] + (IF t \in S \cup T THEN f[t] ELSE 0)
  BY PartialSumsDef
<1>2. SumOver(f, S) = a[MaxUid] /\ SumOver(f, T) = b[MaxUid]
      /\ SumOver(f, S \cup T) = c[MaxUid]
  BY DEF SumOver
<1> HIDE DEF a, b, c
<1>3. 0 \in Good
  BY <1>1, UidFacts
<1>4. ASSUME NEW t \in Uid, t - 1 \in Good PROVE t \in Good
  <2>1. /\ a[t - 1] \in Nat /\ b[t - 1] \in Nat /\ c[t - 1] \in Nat /\ f[t] \in Nat
        /\ c[t - 1] <= a[t - 1] + b[t - 1] /\ t \in 0..MaxUid
    BY <1>1, <1>4, UidFacts
  <2>2. c[t] <= a[t] + b[t]
    <3>1. CASE t \in S /\ t \in T
      <4>1. a[t] = a[t - 1] + f[t] /\ b[t] = b[t - 1] + f[t] /\ c[t] = c[t - 1] + f[t]
        BY <1>1, <3>1
      <4> QED BY <2>1, <4>1
    <3>2. CASE t \in S /\ t \notin T
      <4>1. a[t] = a[t - 1] + f[t] /\ b[t] = b[t - 1] + 0 /\ c[t] = c[t - 1] + f[t]
        BY <1>1, <3>2
      <4> QED BY <2>1, <4>1
    <3>3. CASE t \notin S /\ t \in T
      <4>1. a[t] = a[t - 1] + 0 /\ b[t] = b[t - 1] + f[t] /\ c[t] = c[t - 1] + f[t]
        BY <1>1, <3>3
      <4> QED BY <2>1, <4>1
    <3>4. CASE t \notin S /\ t \notin T
      <4>1. a[t] = a[t - 1] + 0 /\ b[t] = b[t - 1] + 0 /\ c[t] = c[t - 1] + 0
        BY <1>1, <3>4
      <4> QED BY <2>1, <4>1
    <3> QED BY <3>1, <3>2, <3>3, <3>4
  <2> QED BY <2>1, <2>2
<1>5. \A t \in 0..MaxUid : t \in Good
  <2> HIDE DEF Good
  <2> QED BY <1>3, <1>4, AllReached
<1> QED BY <1>2, <1>5, UidFacts

\* The sum over nothing.
LEMMA SumOfNone ==
  ASSUME NEW f \in [Uid -> Nat]
  PROVE  SumOver(f, {}) = 0
<1> DEFINE a == PartialSums(f, {})
           Good == {t \in 0..MaxUid : a[t] = 0}
<1>1. a[0] = 0 /\ \A t \in Uid : a[t] = a[t - 1] + 0
  BY PartialSumsDef
<1> HIDE DEF a
<1>2. \A t \in Uid : t - 1 \in Good => t \in Good
  BY <1>1, UidFacts
<1>3. 0 \in Good
  BY <1>1, UidFacts
<1>4. \A t \in 0..MaxUid : t \in Good
  <2> HIDE DEF Good
  <2> QED BY <1>2, <1>3, AllReached
<1> QED BY <1>4, UidFacts DEF SumOver, a

\* The sum over a part is no more than the sum over all.
LEMMA SumOfPart ==
  ASSUME NEW f \in [Uid -> Nat], NEW S, NEW T, S \subseteq T
  PROVE  SumOver(f, S) <= SumOver(f, T)
<1> DEFINE a == PartialSums(f, S)
           b == PartialSums(f, T)
           Good == {t \in 0..MaxUid : a[t] <= b[t]}
<1>1. /\ a \in [0..MaxUid -> Nat] /\ b \in [0..MaxUid -> Nat] /\ a[0] = 0 /\ b[0] = 0
      /\ \A t \in Uid : /\ a[t] = a[t - 1] + (IF t \in S THEN f[t] ELSE 0)
                        /\ b[t] = b[t - 1] + (IF t \in T THEN f[t] ELSE 0)
  BY PartialSumsDef
<1>2. SumOver(f, S) = a[MaxUid] /\ SumOver(f, T) = b[MaxUid]
  BY DEF SumOver
<1> HIDE DEF a, b
<1>3. 0 \in Good
  BY <1>1, UidFacts
<1>4. ASSUME NEW t \in Uid, t - 1 \in Good PROVE t \in Good
  <2>1. /\ a[t - 1] \in Nat /\ b[t - 1] \in Nat /\ f[t] \in Nat
        /\ a[t - 1] <= b[t - 1] /\ t \in 0..MaxUid
    BY <1>1, <1>4, UidFacts
  <2>2. a[t] <= b[t]
    BY <1>1, <2>1
  <2> QED BY <2>1, <2>2
<1>5. \A t \in 0..MaxUid : t \in Good
  <2> HIDE DEF Good
  <2> QED BY <1>3, <1>4, AllReached
<1> QED BY <1>2, <1>5, UidFacts

\* A bound of all terms bounds the sums.
LEMMA SumByFour ==
  ASSUME NEW f \in [Uid -> Nat], NEW g \in [Uid -> Nat], \A t \in Uid : f[t] <= 4 * g[t],
         NEW S
  PROVE  SumOver(f, S) <= 4 * SumOver(g, S)
<1> DEFINE a == PartialSums(f, S)
           b == PartialSums(g, S)
           Good == {t \in 0..MaxUid : a[t] <= 4 * b[t]}
<1>1. /\ a \in [0..MaxUid -> Nat] /\ b \in [0..MaxUid -> Nat] /\ a[0] = 0 /\ b[0] = 0
      /\ \A t \in Uid : /\ a[t] = a[t - 1] + (IF t \in S THEN f[t] ELSE 0)
                        /\ b[t] = b[t - 1] + (IF t \in S THEN g[t] ELSE 0)
  BY PartialSumsDef
<1>2. SumOver(f, S) = a[MaxUid] /\ SumOver(g, S) = b[MaxUid]
  BY DEF SumOver
<1> HIDE DEF a, b
<1>3. 0 \in Good
  BY <1>1, UidFacts
<1>4. ASSUME NEW t \in Uid, t - 1 \in Good PROVE t \in Good
  <2>1. /\ a[t - 1] \in Nat /\ b[t - 1] \in Nat /\ f[t] \in Nat /\ g[t] \in Nat
        /\ a[t - 1] <= 4 * b[t - 1] /\ t \in 0..MaxUid
    BY <1>1, <1>4, UidFacts
  <2>2. a[t] <= 4 * b[t]
    BY <1>1, <2>1
  <2> QED BY <2>1, <2>2
<1>5. \A t \in 0..MaxUid : t \in Good
  <2> HIDE DEF Good
  <2> QED BY <1>3, <1>4, AllReached
<1> QED BY <1>2, <1>5, UidFacts

\* A sum is no less than a member of it.
LEMMA SumAtLeast ==
  ASSUME NEW f \in [Uid -> Nat], NEW S, NEW x \in Uid, x \in S
  PROVE  f[x] <= SumOver(f, S)
<1> DEFINE a == PartialSums(f, S)
           Good == {t \in 0..MaxUid : x <= t => f[x] <= a[t]}
<1>1. /\ a \in [0..MaxUid -> Nat] /\ a[0] = 0
      /\ \A t \in Uid : a[t] = a[t - 1] + (IF t \in S THEN f[t] ELSE 0)
  BY PartialSumsDef
<1>2. SumOver(f, S) = a[MaxUid]
  BY DEF SumOver
<1> HIDE DEF a
<1>3. 0 \in Good
  BY <1>1, UidFacts
<1>4. ASSUME NEW t \in Uid, t - 1 \in Good PROVE t \in Good
  <2>1. /\ a[t - 1] \in Nat /\ f[t] \in Nat /\ f[x] \in Nat /\ t \in 0..MaxUid
        /\ t \in Nat /\ x \in Nat
    BY <1>1, <1>4, UidFacts
  <2>2. CASE t = x
    BY <1>1, <2>1, <2>2
  <2>3. CASE t # x
    <3>1. x <= t => x <= t - 1
      BY <2>1, <2>3
    <3>2. x <= t => f[x] <= a[t - 1]
      BY <1>4, <3>1
    <3>3. a[t - 1] <= a[t] /\ a[t] \in Nat
      BY <1>1, <2>1
    <3> QED BY <2>1, <3>2, <3>3
  <2> QED BY <2>2, <2>3
<1>5. \A t \in 0..MaxUid : t \in Good
  <2> HIDE DEF Good
  <2> QED BY <1>3, <1>4, AllReached
<1>6. x <= MaxUid
  BY DEF Uid
<1> QED BY <1>2, <1>5, <1>6, UidFacts

(***************************************************************************)
(* Sorted lists                                                            *)
(***************************************************************************)

\* R puts one of any two members of S before the other, without circles.
StrictOrder(S, R) ==
    /\ \A x \in S : <<x, x>> \notin R
    /\ \A x, y \in S : x # y => <<x, y>> \in R \/ <<y, x>> \in R
    /\ \A x, y, z \in S : <<x, y>> \in R /\ <<y, z>> \in R => <<x, z>> \in R

\* InOrder lists the members of a finite set, each once, by the order.
LEMMA InOrderLists ==
  ASSUME NEW S, IsFiniteSet(S), NEW R, StrictOrder(S, R), NEW s, s = InOrder(S, R)
  PROVE  /\ Cardinality(S) \in Nat
         /\ s \in [1..Cardinality(S) -> S]
         /\ \A x \in S : \E i \in 1..Cardinality(S) : s[i] = x
         /\ \A i, j \in 1..Cardinality(S) : <<s[i], s[j]>> \in R => i < j
         /\ \A i, j \in 1..Cardinality(S) : s[i] = s[j] => i = j
<1> DEFINE n == Cardinality(S)
           Below(x) == {y \in S : <<y, x>> \in R}
           rank == [x \in S |-> Cardinality(Below(x))]
<1>1. n \in Nat
  BY FS_CardinalityType
<1>2. ASSUME NEW x \in S
      PROVE  rank[x] \in 0..n - 1
  <2>1. Below(x) \subseteq S \ {x}
    BY DEF StrictOrder
  <2>2. IsFiniteSet(S \ {x}) /\ Cardinality(S \ {x}) = n - 1
    BY FS_RemoveElement
  <2>3. Cardinality(Below(x)) \in Nat /\ Cardinality(Below(x)) <= n - 1
    <3> HIDE DEF Below, n
    <3> QED BY <2>1, <2>2, FS_Subset, FS_CardinalityType
  <2> QED BY <1>1, <2>3
<1>3. ASSUME NEW x \in S, NEW y \in S, <<x, y>> \in R
      PROVE  rank[x] < rank[y]
  <2>1. Below(x) \subseteq Below(y) /\ x \in Below(y) /\ x \notin Below(x)
    BY <1>3 DEF StrictOrder
  <2>2. IsFiniteSet(Below(y))
    BY FS_Subset
  <2>3. /\ Cardinality(Below(x)) <= Cardinality(Below(y))
        /\ Cardinality(Below(x)) # Cardinality(Below(y))
    <3> HIDE DEF Below
    <3> QED BY <2>1, <2>2, FS_Subset
  <2>4. rank[x] \in Nat /\ rank[y] \in Nat
    <3> HIDE DEF rank, n
    <3> QED BY <1>1, <1>2
  <2> QED BY <2>3, <2>4
<1>4. rank \in [S -> 0..n - 1]
  BY <1>2
<1> HIDE DEF rank
<1>5. \A x, y \in S : rank[x] = rank[y] => x = y
  <2> SUFFICES ASSUME NEW x \in S, NEW y \in S, rank[x] = rank[y], x # y PROVE FALSE
    OBVIOUS
  <2>1. rank[x] < rank[y] \/ rank[y] < rank[x]
    BY <1>3 DEF StrictOrder
  <2> QED BY <1>1, <1>2, <2>1
<1>6. rank \in Injection(S, 0..n - 1)
  BY <1>4, <1>5 DEF Injection, IsInjective
<1>7. IsFiniteSet(0..n - 1) /\ Cardinality(0..n - 1) = n
  <2> HIDE DEF n
  <2> QED BY <1>1, FS_Interval
<1>8. rank \in Surjection(S, 0..n - 1)
  BY <1>6, <1>7, FS_Injection
<1>9. ASSUME NEW i \in 1..n
      PROVE  s[i] \in S /\ rank[s[i]] = i - 1
  <2>1. i - 1 \in 0..n - 1
    BY <1>1
  <2>2. \E x \in S : rank[x] = i - 1
    BY <1>8, <2>1 DEF Surjection
  <2>3. s[i] = CHOOSE x \in S : rank[x] = i - 1
    BY DEF InOrder, rank
  <2> QED BY <2>2, <2>3
<1>10. s \in [1..n -> S]
  <2> DEFINE F(i) == CHOOSE x \in S : Cardinality({y \in S : <<y, x>> \in R}) = i - 1
  <2>1. s = [i \in 1..n |-> F(i)]
    BY DEF InOrder
  <2> HIDE DEF n, F
  <2>2. \A i \in 1..n : F(i) \in S
    BY <1>9, <2>1
  <2> QED BY <2>1, <2>2
<1>11. ASSUME NEW x \in S
       PROVE  \E i \in 1..n : s[i] = x
  <2>1. rank[x] + 1 \in 1..n
    BY <1>1, <1>4
  <2>2. s[rank[x] + 1] \in S /\ rank[s[rank[x] + 1]] = rank[x]
    <3>1. rank[x] \in Int
      BY <1>1, <1>4
    <3> QED BY <1>9, <2>1, <3>1
  <2> QED BY <1>5, <2>1, <2>2
<1>12. ASSUME NEW i \in 1..n, NEW j \in 1..n, <<s[i], s[j]>> \in R
       PROVE  i < j
  <2>1. s[i] \in S /\ s[j] \in S /\ rank[s[i]] = i - 1 /\ rank[s[j]] = j - 1
    BY <1>9
  <2>2. rank[s[i]] < rank[s[j]]
    BY <1>3, <1>12, <2>1
  <2> QED BY <1>1, <2>1, <2>2
<1>13. ASSUME NEW i \in 1..n, NEW j \in 1..n, s[i] = s[j]
       PROVE  i = j
  <2>1. i - 1 = j - 1
    BY <1>9, <1>13
  <2> QED BY <1>1, <2>1
<1> QED BY <1>1, <1>10, <1>11, <1>12, <1>13

\* A finite set that is not empty has a last member.
LEMMA LastMember ==
  ASSUME NEW S, IsFiniteSet(S), S # {}, NEW R, StrictOrder(S, R)
  PROVE  \E x \in S : \A y \in S \ {x} : <<y, x>> \in R
<1> DEFINE s == InOrder(S, R)
           n == Cardinality(S)
<1>1. /\ n \in Nat /\ s \in [1..n -> S]
      /\ \A x \in S : \E i \in 1..n : s[i] = x
      /\ \A i, j \in 1..n : <<s[i], s[j]>> \in R => i < j
  <2> HIDE DEF s
  <2>1. s = InOrder(S, R)
    BY DEF s
  <2> QED BY <2>1, InOrderLists
<1>2. n \in 1..n
  BY <1>1
<1> HIDE DEF s, n
<1>3. s[n] \in S
  BY <1>1, <1>2
<1>4. ASSUME NEW y \in S, y # s[n], <<y, s[n]>> \notin R PROVE FALSE
  <2>1. PICK i \in 1..n : s[i] = y
    BY <1>1
  <2>2. <<s[n], s[i]>> \in R
    BY <1>3, <1>4, <2>1 DEF StrictOrder
  <2>3. n < i
    BY <1>1, <1>2, <2>2
  <2> QED BY <1>1, <2>1, <2>3
<1> QED BY <1>3, <1>4

(***************************************************************************)
(* The mempool, fee rates and the order of score                           *)
(***************************************************************************)

\* What a mempool gives: the virtual size of a transaction is no less than a
\* quarter of its weight.
LEMMA PoolFacts ==
  ASSUME mempool \in Mempools
  PROVE  /\ \A t \in Uid : mempool[t].inputs \subseteq 1..t - 1
         /\ \A t \in Uid : mempool[t].order \in Nat
         /\ Fee \in [Uid -> Nat] /\ Weight \in [Uid -> Nat] /\ Sigops \in [Uid -> Nat]
         /\ Vsize \in [Uid -> Nat]
         /\ \A t \in Uid : 1 <= Vsize[t] /\ Weight[t] <= 4 * Vsize[t]
<1>1. PICK inputs \in Spends, kind \in [Uid -> Kinds] :
         mempool = [t \in Uid |-> [inputs |-> inputs[t],
                             fee |-> kind[t].fee, weight |-> kind[t].weight,
                             sigops |-> kind[t].sigops, order |-> kind[t].order]]
  BY DEF Mempools
<1>2. \A t \in Uid : inputs[t] \subseteq 1..t - 1
  BY DEF Spends
<1>3. ASSUME NEW t \in Uid
      PROVE  /\ mempool[t].inputs = inputs[t]
             /\ mempool[t].fee \in Nat /\ mempool[t].weight \in Nat \ {0}
             /\ mempool[t].sigops \in Nat /\ mempool[t].order \in Nat
  <2>1. kind[t] \in [fee : Nat, weight : Nat \ {0}, sigops : Nat, order : Nat]
    BY GbtAssumption
  <2> QED BY <1>1, <2>1
<1>4. Fee \in [Uid -> Nat] /\ Weight \in [Uid -> Nat \ {0}] /\ Sigops \in [Uid -> Nat]
  BY <1>3 DEF Fee, Weight, Sigops
<1>5. ASSUME NEW t \in Uid
      PROVE  Vsize[t] \in Nat /\ 1 <= Vsize[t] /\ Weight[t] <= 4 * Vsize[t]
  <2> DEFINE size == (Weight[t] + 3) \div 4
  <2>1. Weight[t] \in Nat /\ Weight[t] # 0 /\ Sigops[t] \in Nat
    BY <1>4
  <2>2. size \in Nat /\ 1 <= size /\ Weight[t] <= 4 * size
    BY <2>1
  <2>3. Vsize[t] = IF size < 5 * Sigops[t] THEN 5 * Sigops[t] ELSE size
    BY DEF Vsize
  <2> HIDE DEF size
  <2> QED BY <2>1, <2>2, <2>3
<1>6. Vsize \in [Uid -> Nat]
  <2>1. Vsize = [t \in Uid |-> Vsize[t]]
    BY DEF Vsize
  <2> QED BY <1>5, <2>1
<1>7. Weight \in [Uid -> Nat]
  BY <1>4
<1> QED BY <1>2, <1>3, <1>4, <1>5, <1>6, <1>7

\* What set_relatives gives: the ancestors are numbered before their descendant,
\* and with a transaction its inputs and its ancestors are among them.
LEMMA RelativesFacts ==
  ASSUME mempool \in Mempools, NEW t \in Uid
  PROVE  LET relatives == RelativesIn(mempool)
         IN  /\ relatives[t] \subseteq 1..t - 1 /\ relatives[t] \subseteq Uid
             /\ mempool[t].inputs \subseteq relatives[t]
             /\ \A a \in relatives[t] : /\ mempool[a].inputs \subseteq relatives[t]
                                        /\ relatives[a] \subseteq relatives[t]
<1> DEFINE relatives == RelativesIn(mempool)
           Bound(x, uids) == mempool[x].inputs \subseteq uids /\ Closed(mempool, uids)
<1>1. \A x \in Uid : relatives[x] =
         {a \in Uid : \A uids \in SUBSET Uid : Bound(x, uids) => a \in uids}
  BY DEF RelativesIn
<1> HIDE DEF relatives
<1>2. 1..t - 1 \subseteq Uid /\ \A x \in 1..t - 1 : 1..x - 1 \subseteq 1..t - 1
  BY GbtAssumption DEF Uid
<1>3. \A x \in Uid : mempool[x].inputs \subseteq 1..x - 1
  BY PoolFacts
<1>4. Bound(t, 1..t - 1)
  BY <1>2, <1>3 DEF Closed
<1>5. relatives[t] \subseteq 1..t - 1 /\ relatives[t] \subseteq Uid
  <2> HIDE DEF Bound
  <2> QED BY <1>1, <1>2, <1>4
<1>6. \A x \in Uid : mempool[x].inputs \subseteq Uid
  BY <1>3, GbtAssumption DEF Uid
<1>7. mempool[t].inputs \subseteq relatives[t]
  BY <1>1, <1>6
<1>8. ASSUME NEW a \in relatives[t]
      PROVE  mempool[a].inputs \subseteq relatives[t] /\ relatives[a] \subseteq relatives[t]
  <2>1. a \in Uid
    BY <1>5
  <2>2. ASSUME NEW uids \in SUBSET Uid, Bound(t, uids)
        PROVE  Bound(a, uids)
    <3>1. a \in uids
      BY <1>1, <2>2
    <3> QED BY <2>2, <3>1 DEF Closed
  <2>3. mempool[a].inputs \subseteq relatives[t]
    BY <1>1, <1>6, <2>1, <2>2
  <2>4. relatives[a] \subseteq relatives[t]
    BY <1>1, <2>1, <2>2
  <2> QED BY <2>3, <2>4
<1> QED BY <1>5, <1>7, <1>8 DEF relatives

\* A fee and a size that is not 0.
Rate == Nat \X (Nat \ {0})

\* Multiplication is monotonic.
LEMMA Product ==
  ASSUME NEW x \in Nat, NEW y \in Nat, x <= y, NEW k \in Nat
  PROVE  x * k <= y * k
<1>1. PICK d \in Nat : y = x + d
  <2>1. y - x \in Nat /\ y = x + (y - x)
    OBVIOUS
  <2> QED BY <2>1
<1>2. y * k = x * k + d * k
  BY <1>1
<1>3. x * k \in Nat /\ d * k \in Nat
  OBVIOUS
<1> QED BY <1>2, <1>3

\* A common factor can be cancelled.
LEMMA Quotient ==
  ASSUME NEW x \in Nat, NEW y \in Nat, NEW k \in Nat \ {0}, x * k <= y * k
  PROVE  x <= y
<1> SUFFICES ASSUME y < x PROVE FALSE
  OBVIOUS
<1>1. y + 1 <= x /\ y + 1 \in Nat /\ k \in Nat
  OBVIOUS
<1>2. (y + 1) * k <= x * k
  BY <1>1, Product
<1>3. (y + 1) * k = y * k + k
  OBVIOUS
<1>4. x * k \in Nat /\ y * k \in Nat
  OBVIOUS
<1> QED BY <1>2, <1>3, <1>4

\* Where b is not below a nor c below b, c is not below a.
LEMMA NotLowerTransitive ==
  ASSUME NEW a \in Rate, NEW b \in Rate, NEW c \in Rate, ~Lower(b, a), ~Lower(c, b)
  PROVE  ~Lower(c, a)
<1>0. /\ a[1] \in Nat /\ a[2] \in Nat /\ b[1] \in Nat /\ b[2] \in Nat \ {0} /\ b[2] \in Nat
      /\ c[1] \in Nat /\ c[2] \in Nat
  BY DEF Rate
<1>1. a[1] * b[2] <= b[1] * a[2] /\ b[1] * c[2] <= c[1] * b[2]
  BY <1>0 DEF Lower
<1> DEFINE a1 == a[1]
           a2 == a[2]
           b1 == b[1]
           b2 == b[2]
           c1 == c[1]
           c2 == c[2]
<1>2. a1 \in Nat /\ a2 \in Nat /\ b1 \in Nat /\ b2 \in Nat \ {0} /\ c1 \in Nat /\ c2 \in Nat
      /\ b2 \in Nat /\ a1 * b2 <= b1 * a2 /\ b1 * c2 <= c1 * b2
  BY <1>0, <1>1
<1>3. ~Lower(c, a) <=> ~(c1 * a2 < a1 * c2)
  BY DEF Lower
<1> HIDE DEF a1, a2, b1, b2, c1, c2
<1>4. a1 * b2 \in Nat /\ b1 * a2 \in Nat /\ b1 * c2 \in Nat /\ c1 * b2 \in Nat
      /\ a1 * c2 \in Nat /\ c1 * a2 \in Nat
  BY <1>2
<1>5. (a1 * b2) * c2 <= (b1 * a2) * c2
  BY <1>2, <1>4, Product
<1>6. (b1 * c2) * a2 <= (c1 * b2) * a2
  BY <1>2, <1>4, Product
<1>7. (a1 * b2) * c2 = (a1 * c2) * b2
  BY <1>2
<1>8. (b1 * a2) * c2 = (b1 * c2) * a2
  BY <1>2
<1>9. (c1 * b2) * a2 = (c1 * a2) * b2
  BY <1>2
<1>10. (a1 * c2) * b2 \in Nat /\ (c1 * a2) * b2 \in Nat /\ (b1 * c2) * a2 \in Nat
  BY <1>2, <1>4
<1>11. (a1 * c2) * b2 <= (c1 * a2) * b2
  BY <1>5, <1>6, <1>7, <1>8, <1>9, <1>10
<1>12. a1 * c2 <= c1 * a2
  BY <1>2, <1>4, <1>11, Quotient
<1> QED BY <1>3, <1>4, <1>12

\* Nothing is worse than itself, of any two one is worse, and it is transitive.
LEMMA WorseIsOrder ==
  ASSUME mempool \in Mempools, score \in [Uid -> Rate]
  PROVE  StrictOrder(Uid, WorseFirst)
<1> DEFINE Tie(x, y) == \/ mempool[y].order < mempool[x].order
                        \/ mempool[y].order = mempool[x].order /\ y < x
           L(x, y) == Lower(score[x], score[y])
<1>1. \A x, y \in Uid : <<x, y>> \in WorseFirst <=> L(x, y) \/ (~L(y, x) /\ Tie(x, y))
  BY DEF WorseFirst, Worse
<1>2. \A x \in Uid : mempool[x].order \in Nat /\ x \in Nat
  BY PoolFacts, UidFacts
<1>3. \A x, y, z \in Uid : Tie(x, y) /\ Tie(y, z) => Tie(x, z)
  BY <1>2
<1>4. \A x \in Uid : ~Tie(x, x)
  BY <1>2
<1>5. \A x, y \in Uid : x # y => Tie(x, y) \/ Tie(y, x)
  BY <1>2
<1>6. \A x, y, z \in Uid : ~L(y, x) /\ ~L(z, y) => ~L(z, x)
  BY NotLowerTransitive
<1>7. \A x, y \in Uid : ~(L(x, y) /\ L(y, x))
  <2>1. ASSUME NEW a \in Rate, NEW b \in Rate PROVE ~(Lower(a, b) /\ Lower(b, a))
    <3>1. a[1] \in Nat /\ a[2] \in Nat /\ b[1] \in Nat /\ b[2] \in Nat
      BY DEF Rate
    <3>2. a[1] * b[2] \in Nat /\ b[1] * a[2] \in Nat
      BY <3>1
    <3> QED BY <3>2 DEF Lower
  <2> QED BY <2>1
<1> HIDE DEF Tie, L
<1>8. \A x \in Uid : <<x, x>> \notin WorseFirst
  BY <1>1, <1>4, <1>7
<1>9. \A x, y \in Uid : x # y => <<x, y>> \in WorseFirst \/ <<y, x>> \in WorseFirst
  BY <1>1, <1>5
<1>10. ASSUME NEW x \in Uid, NEW y \in Uid, NEW z \in Uid,
              <<x, y>> \in WorseFirst, <<y, z>> \in WorseFirst
       PROVE  <<x, z>> \in WorseFirst
  <2>1. ~L(y, x) /\ ~L(z, y) /\ ~L(z, x)
    BY <1>1, <1>6, <1>7, <1>10
  <2>2. CASE L(x, y) \/ L(y, z)
    <3>1. L(x, z)
      BY <1>6, <2>1, <2>2
    <3> QED BY <1>1, <3>1
  <2>3. CASE ~L(x, y) /\ ~L(y, z)
    BY <1>1, <1>3, <1>10, <2>1, <2>3
  <2> QED BY <2>2, <2>3
<1> QED BY <1>8, <1>9, <1>10 DEF StrictOrder

(***************************************************************************)
(* The inductive invariant                                                 *)
(***************************************************************************)

\* The package that is being put into the block: none of its transactions is in a
\* block or in it twice, their inputs are in a block already or earlier in the
\* package, and what is left of it fits.
PackageReady ==
    turn = "place" =>
        /\ package # <<>>
        /\ \A i \in DOMAIN package : package[i] \notin used
        /\ \A i, j \in DOMAIN package : package[i] = package[j] => i = j
        /\ \A i \in DOMAIN package : \A parent \in mempool[package[i]].inputs :
              parent \in used \/ \E k \in 1..i - 1 : package[k] = parent

PackageFits ==
    turn = "place" /\ Len(blocks) < MaxBlocks - 1 =>
        LET both == ToSet(transactions) \cup ToSet(package)
        IN  /\ 2 * ReservedWeight + SumOver(Weight, both) < MaxBlockWeight
            /\ SumOver(Sigops, both) <= BlockSigops

GbtInvariant ==
    /\ mempool \in Mempools
    /\ GbtTypeOK
    /\ ancestors = [t \in Uid |-> RelativesIn(mempool)[t] \ used]
    /\ used = {At(p) : p \in Places}
    /\ PackageReady /\ PackageFits
    /\ BlocksValid

(***************************************************************************)
(* What the actions use                                                    *)
(***************************************************************************)

\* What the invariant gives every action: sums, sorted lists and the choice.
LEMMA InvariantFacts ==
  ASSUME GbtInvariant
  PROVE  /\ Fee \in [Uid -> Nat] /\ Weight \in [Uid -> Nat] /\ Sigops \in [Uid -> Nat]
         /\ Vsize \in [Uid -> Nat]
         /\ \A t \in Uid : 1 <= Vsize[t] /\ Weight[t] <= 4 * Vsize[t]
         /\ StrictOrder(Uid, WorseFirst)
         /\ \A t \in Uid : ancestors[t] \subseteq Uid
  <1>1. score \in [Uid -> Rate] /\ mempool \in Mempools
    BY DEF GbtInvariant, GbtTypeOK, Rate
  <1>2. \A t \in Uid : ancestors[t] \subseteq Uid
    BY DEF GbtInvariant, GbtTypeOK
  <1> QED BY <1>1, <1>2, PoolFacts, WorseIsOrder

\* The rate of a package is a rate.
LEMMA ScoreIsRate ==
  ASSUME mempool \in Mempools, NEW anc, NEW t \in Uid
  PROVE  ScoreAfter(anc, t) \in Nat \X (Nat \ {0})
<1>1. /\ Fee \in [Uid -> Nat] /\ Vsize \in [Uid -> Nat] /\ 1 <= Vsize[t]
  BY PoolFacts
<1>2. PackageFee(anc, t) \in Nat /\ PackageVsize(anc, t) \in Nat
  BY <1>1, SumType DEF PackageFee, PackageVsize
<1>3. Vsize[t] <= PackageVsize(anc, t)
  <2>1. t \in Package(anc, t)
    BY DEF Package
  <2> QED BY <1>1, <2>1, SumAtLeast DEF PackageVsize
<1>4. Fee[t] \in Nat /\ Vsize[t] \in Nat \ {0} /\ PackageVsize(anc, t) \in Nat \ {0}
  BY <1>1, <1>2, <1>3
<1> QED BY <1>2, <1>4 DEF ScoreAfter

\* The greatest of finitely many numbers.
LEMMA GreatestOf ==
  ASSUME NEW S, S \subseteq Nat, IsFiniteSet(S), S # {}
  PROVE  \E m \in S : \A n \in S : n <= m
<1> DEFINE R == {p \in S \X S : p[1] < p[2]}
<1>1. StrictOrder(S, R)
  BY DEF StrictOrder
<1>2. PICK m \in S : \A n \in S \ {m} : <<n, m>> \in R
  <2> HIDE DEF R
  <2> QED BY <1>1, LastMember
<1>3. \A n \in S \ {m} : n < m
  BY <1>2
<1>4. \A n \in S : n \in Nat
  OBVIOUS
<1> QED BY <1>3, <1>4

\* The topmost transaction of the stack that is not in a block and not modified.
LEMMA TopFacts ==
  ASSUME stack \in Seq(Uid)
  PROVE  OnStack # {} => /\ TopOfStack \in OnStack /\ TopOfStack \in 1..Len(stack)
                         /\ \A j \in OnStack : j <= TopOfStack
<1> SUFFICES ASSUME OnStack # {}
             PROVE  /\ TopOfStack \in OnStack /\ TopOfStack \in 1..Len(stack)
                    /\ \A j \in OnStack : j <= TopOfStack
  OBVIOUS
<1>1. OnStack \subseteq 1..Len(stack) /\ Len(stack) \in Nat
  BY DEF OnStack
<1>2. IsFiniteSet(OnStack) /\ OnStack \subseteq Nat
  <2>1. IsFiniteSet(1..Len(stack))
    BY <1>1, FS_Interval
  <2>2. IsFiniteSet(OnStack)
    BY <1>1, <2>1, FS_Subset
  <2>3. OnStack \subseteq Nat
    BY <1>1
  <2> QED BY <2>2, <2>3
<1>3. \E i \in OnStack : \A j \in OnStack : j <= i
  BY <1>2, GreatestOf
<1>4. TopOfStack \in OnStack /\ \A j \in OnStack : j <= TopOfStack
  BY <1>3 DEF TopOfStack
<1> QED BY <1>1, <1>4

\* The transaction of the queue that no other one of it that is not in a block beats.
LEMMA BestFacts ==
  ASSUME GbtInvariant
  PROVE  InQueue # {} =>
            BestInQueue \in InQueue /\ \A x \in InQueue \ {BestInQueue} : Worse(x, BestInQueue)
<1> SUFFICES ASSUME InQueue # {}
             PROVE  /\ BestInQueue \in InQueue
                    /\ \A x \in InQueue \ {BestInQueue} : Worse(x, BestInQueue)
  OBVIOUS
<1>1. InQueue \subseteq Uid /\ IsFiniteSet(InQueue)
  <2>1. queue \subseteq Uid
    BY DEF GbtInvariant, GbtTypeOK
  <2> QED BY <2>1, UidFacts, FS_Subset DEF InQueue
<1>2. StrictOrder(InQueue, WorseFirst)
  BY <1>1, InvariantFacts DEF StrictOrder
<1>3. \E t \in InQueue : \A x \in InQueue \ {t} : <<x, t>> \in WorseFirst
  BY <1>1, <1>2, LastMember
<1>4. \E t \in InQueue : \A x \in InQueue \ {t} : Worse(x, t)
  BY <1>3 DEF WorseFirst
<1> QED BY <1>4 DEF BestInQueue

\* The stack and the queue as next_valid_from_stack and next_valid_from_queue
\* leave them, and the choice.
LEMMA ChoiceFacts ==
  ASSUME GbtInvariant, OnStack # {} \/ InQueue # {}
  PROVE  /\ NextTx \in Uid \ used
         /\ RestOfStack \in Seq(Uid)
         /\ RestOfQueue \subseteq Uid
<1>0. stack \in Seq(Uid) /\ queue \subseteq Uid
  BY DEF GbtInvariant, GbtTypeOK
<1>1. OnStack # {} => TopOfStack \in OnStack /\ TopOfStack \in 1..Len(stack)
  BY <1>0, TopFacts
<1>2. InQueue # {} => BestInQueue \in InQueue
  BY BestFacts
<1>3. NextTx \in Uid \ used
  <2>1. CASE FromStack
    <3>1. OnStack # {}
      BY <2>1 DEF FromStack
    <3>2. stack[TopOfStack] \in Uid /\ stack[TopOfStack] \notin used
      BY <1>0, <1>1, <3>1 DEF OnStack
    <3> QED BY <2>1, <3>2 DEF NextTx
  <2>2. CASE ~FromStack
    <3>1. InQueue # {}
      BY <2>2 DEF FromStack
    <3> QED BY <1>0, <1>2, <2>2, <3>1 DEF NextTx, InQueue
  <2> QED BY <2>1, <2>2
<1>4. ValidStack \in Seq(Uid) /\ (OnStack # {} => Len(ValidStack) >= 1)
  <2>1. CASE OnStack = {}
    BY <2>1 DEF ValidStack
  <2>2. CASE OnStack # {}
    <3>1. ValidStack = SubSeq(stack, 1, TopOfStack)
      BY <2>2 DEF ValidStack
    <3>2. TopOfStack \in 1..Len(stack)
      BY <1>1, <2>2
    <3> QED BY <1>0, <3>1, <3>2
  <2> QED BY <2>1, <2>2
<1>5. RestOfStack \in Seq(Uid)
  <2>1. CASE FromStack
    <3>1. OnStack # {}
      BY <2>1 DEF FromStack
    <3>2. RestOfStack = SubSeq(ValidStack, 1, Len(ValidStack) - 1)
      BY <2>1 DEF RestOfStack, Front
    <3> QED BY <1>4, <3>1, <3>2
  <2>2. CASE ~FromStack
    BY <1>4, <2>2 DEF RestOfStack
  <2> QED BY <2>1, <2>2
<1>6. RestOfQueue \subseteq Uid
  BY <1>0 DEF RestOfQueue, ValidQueue
<1> QED BY <1>3, <1>5, <1>6

\* What was held back and is not modified comes as a list of uids.
LEMMA HeldIsList ==
  ASSUME overflow \in Seq(Uid)
  PROVE  HeldUnmodified \in Seq(Uid)
<1> DEFINE held == {i \in DOMAIN overflow : overflow[i] \notin modified}
           R == {p \in held \X held : p[1] > p[2]}
           last == InOrder(held, R)
<1>1. held \subseteq 1..Len(overflow) /\ Len(overflow) \in Nat
  OBVIOUS
<1>2. IsFiniteSet(held)
  <2> HIDE DEF held
  <2>1. IsFiniteSet(1..Len(overflow))
    BY <1>1, FS_Interval
  <2> QED BY <1>1, <2>1, FS_Subset
<1>3. StrictOrder(held, R)
  BY DEF StrictOrder
<1>4. HeldUnmodified = [i \in DOMAIN last |-> overflow[last[i]]]
  BY DEF HeldUnmodified
<1>5. \A i \in held : overflow[i] \in Uid
  OBVIOUS
<1>6. last = InOrder(held, R)
  OBVIOUS
<1> HIDE DEF last, held, R
<1>7. Cardinality(held) \in Nat /\ last \in [1..Cardinality(held) -> held]
  BY <1>2, <1>3, <1>6, InOrderLists
<1>8. HeldUnmodified \in [1..Cardinality(held) -> Uid]
  BY <1>4, <1>5, <1>7
<1> QED BY <1>7, <1>8

\* The package of a transaction is listed with its parents before their children.
LEMMA PackageFacts ==
  ASSUME GbtInvariant, NEW t \in Uid \ used
  PROVE  /\ PackageSeq(t) \in Seq(Uid) /\ PackageSeq(t) # <<>>
         /\ \A i \in DOMAIN PackageSeq(t) : PackageSeq(t)[i] \notin used
         /\ \A i, j \in DOMAIN PackageSeq(t) :
               PackageSeq(t)[i] = PackageSeq(t)[j] => i = j
         /\ ToSet(PackageSeq(t)) = Package(ancestors, t)
         /\ \A i \in DOMAIN PackageSeq(t) :
               \A parent \in mempool[PackageSeq(t)[i]].inputs :
                  parent \in used \/ \E k \in 1..i - 1 : PackageSeq(t)[k] = parent
<1> DEFINE relatives == RelativesIn(mempool)
           S == ancestors[t]
           n == Cardinality(S)
           s == InOrder(S, FewestFirst)
<1>1. /\ mempool \in Mempools
      /\ \A x \in Uid : ancestors[x] = relatives[x] \ used
  BY DEF GbtInvariant
<1>2. S \subseteq Uid /\ IsFiniteSet(S)
  BY InvariantFacts, UidFacts, FS_Subset
<1>3. \A x \in Uid : IsFiniteSet(ancestors[x]) /\ Cardinality(ancestors[x]) \in Nat
  BY InvariantFacts, UidFacts, FS_Subset, FS_CardinalityType
<1>4. StrictOrder(S, FewestFirst)
  <2>1. \A x \in Uid : mempool[x].order \in Nat /\ x \in Nat
    BY <1>1, PoolFacts, UidFacts
  <2>2. \A x, y \in Uid : <<x, y>> \in FewestFirst <=> FewerAncestors(x, y)
    BY DEF FewestFirst
  <2> DEFINE c(x) == Cardinality(ancestors[x])
             o(x) == mempool[x].order
  <2>3. \A x, y \in Uid : FewerAncestors(x, y) <=>
            \/ c(x) < c(y)
            \/ c(x) = c(y) /\ o(x) < o(y)
            \/ c(x) = c(y) /\ o(x) = o(y) /\ x < y
    BY DEF FewerAncestors
  <2>4. \A x \in Uid : c(x) \in Nat /\ o(x) \in Nat /\ x \in Nat
    BY <1>3, <2>1
  <2> HIDE DEF c, o, S
  <2>5. \A x \in S : ~FewerAncestors(x, x)
    BY <1>2, <2>3, <2>4
  <2>6. \A x, y \in S : x # y => FewerAncestors(x, y) \/ FewerAncestors(y, x)
    BY <1>2, <2>3, <2>4
  <2>7. \A x, y, z \in S : FewerAncestors(x, y) /\ FewerAncestors(y, z) => FewerAncestors(x, z)
    BY <1>2, <2>3, <2>4
  <2> QED BY <1>2, <2>2, <2>5, <2>6, <2>7 DEF StrictOrder
<1>5. s = InOrder(S, FewestFirst) /\ PackageSeq(t) = Append(s, t)
  BY DEF PackageSeq
<1> HIDE DEF s
<1>6. /\ n \in Nat /\ s \in [1..n -> S]
      /\ \A x \in S : \E i \in 1..n : s[i] = x
      /\ \A i, j \in 1..n : <<s[i], s[j]>> \in FewestFirst => i < j
      /\ \A i, j \in 1..n : s[i] = s[j] => i = j
  <2> HIDE DEF S
  <2> QED BY <1>2, <1>4, <1>5, InOrderLists
<1> HIDE DEF n
<1>7. s \in Seq(Uid) /\ Len(s) = n /\ DOMAIN s = 1..n
  BY <1>2, <1>6
<1> DEFINE p == PackageSeq(t)
<1>8. /\ p \in Seq(Uid) /\ p # <<>> /\ DOMAIN p = 1..n + 1 /\ p[n + 1] = t
      /\ \A i \in 1..n : p[i] = s[i]
  BY <1>5, <1>6, <1>7
<1> HIDE DEF p
<1>9. ToSet(p) = S \cup {t}
  <2>1. \A i \in 1..n + 1 : i \in 1..n \/ i = n + 1
    BY <1>6
  <2>2. ASSUME NEW x \in ToSet(p) PROVE x \in S \cup {t}
    <3>1. PICK i \in DOMAIN p : p[i] = x
      BY <2>2 DEF ToSet
    <3> QED BY <1>6, <1>8, <2>1, <3>1
  <2>3. ASSUME NEW x \in S \cup {t} PROVE x \in ToSet(p)
    <3>1. 1..n \subseteq DOMAIN p /\ n + 1 \in DOMAIN p
      BY <1>6, <1>8
    <3>2. \E i \in DOMAIN p : p[i] = x
      BY <1>6, <1>8, <2>3, <3>1
    <3> QED BY <3>2 DEF ToSet
  <2> QED BY <2>2, <2>3
<1>10. ASSUME NEW i \in DOMAIN p, NEW parent \in mempool[p[i]].inputs, parent \notin used
       PROVE  \E k \in 1..i - 1 : p[k] = parent
  <2>1. CASE i = n + 1
    <3>1. parent \in S
      BY <1>1, <1>8, <1>10, <2>1, RelativesFacts
    <3>2. PICK k \in 1..n : s[k] = parent
      BY <1>6, <3>1
    <3> QED BY <1>6, <1>8, <2>1, <3>2
  <2>2. CASE i \in 1..n
    <3> DEFINE a == s[i]
    <3>1. a \in S /\ a \in Uid /\ a \in relatives[t] /\ p[i] = a
      BY <1>1, <1>2, <1>6, <1>8, <2>2
    <3>2. parent \in mempool[a].inputs
      BY <1>10, <3>1
    <3> HIDE DEF a
    <3>3. parent \in relatives[t] /\ parent \in relatives[a] /\ parent \in Uid
          /\ relatives[a] \subseteq 1..a - 1
      BY <1>1, <3>1, <3>2, RelativesFacts
    <3>4. parent \in S
      BY <1>1, <1>10, <3>3
    <3>5. relatives[parent] \subseteq relatives[a] /\ parent \notin relatives[parent]
      <4>1. relatives[parent] \subseteq relatives[a]
        BY <1>1, <3>1, <3>3, RelativesFacts
      <4>2. relatives[parent] \subseteq 1..parent - 1
        BY <1>1, <3>3, RelativesFacts
      <4>3. parent \notin 1..parent - 1
        BY <3>3, UidFacts
      <4> QED BY <4>1, <4>2, <4>3
    <3>6. ancestors[parent] \subseteq ancestors[a] /\ parent \in ancestors[a]
          /\ parent \notin ancestors[parent]
      BY <1>1, <1>10, <3>1, <3>3, <3>5
    <3>7. Cardinality(ancestors[parent]) < Cardinality(ancestors[a])
      <4>1. /\ Cardinality(ancestors[parent]) <= Cardinality(ancestors[a])
            /\ Cardinality(ancestors[parent]) # Cardinality(ancestors[a])
        BY <1>3, <3>1, <3>6, FS_Subset
      <4> QED BY <1>3, <3>1, <3>3, <4>1
    <3>8. <<parent, a>> \in FewestFirst
      BY <3>1, <3>3, <3>7 DEF FewestFirst, FewerAncestors
    <3>9. PICK k \in 1..n : s[k] = parent
      BY <1>6, <3>4
    <3>10. k < i
      BY <1>6, <2>2, <3>8, <3>9 DEF a
    <3> QED BY <1>6, <1>8, <2>2, <3>9, <3>10
  <2> QED BY <1>6, <1>8, <2>1, <2>2
<1>11. S \cup {t} = Package(ancestors, t)
  BY DEF Package
<1>12. S \cap used = {} /\ t \notin S
  <2>1. t \notin relatives[t]
    <3>1. relatives[t] \subseteq 1..t - 1
      BY <1>1, RelativesFacts
    <3> QED BY <3>1, UidFacts
  <2> QED BY <1>1, <2>1
<1>13. \A i \in DOMAIN p : i \in 1..n \/ i = n + 1
  BY <1>6, <1>8
<1>14. \A i \in 1..n : p[i] = s[i] /\ p[i] \in S
  BY <1>6, <1>8
<1> HIDE DEF S
<1>15. \A i \in DOMAIN p : p[i] \notin used
  BY <1>8, <1>12, <1>13, <1>14
<1>16. \A i, j \in DOMAIN p : p[i] = p[j] => i = j
  BY <1>6, <1>8, <1>12, <1>13, <1>14
<1> QED BY <1>8, <1>9, <1>10, <1>11, <1>15, <1>16 DEF p

(***************************************************************************)
(* The contents of the blocks                                              *)
(***************************************************************************)

\* The places of a list of blocks, and what a transaction more does to them.
PlacesOf(list) == UNION {{<<i, j>> : j \in DOMAIN list[i]} : i \in DOMAIN list}

\* The blocks with the one that is being filled.
Listed(full, filled) == IF filled = <<>> THEN full ELSE Append(full, filled)

\* The new list has x at one place more, which is the last.
Extends(new, old, last, x) ==
    /\ PlacesOf(new) = PlacesOf(old) \cup {last}
    /\ new[last[1]][last[2]] = x
    /\ \A p \in PlacesOf(old) : new[p[1]][p[2]] = old[p[1]][p[2]] /\ Before(p, last)

\* A transaction more extends the list of blocks at its end.
LEMMA OnePlaceMore ==
  ASSUME NEW full \in Seq(Seq(Uid)), NEW filled \in Seq(Uid), NEW x \in Uid,
         NEW old, old = Listed(full, filled),
         NEW new, new = Append(full, Append(filled, x)),
         NEW last, last = <<Len(full) + 1, Len(filled) + 1>>
  PROVE  Extends(new, old, last, x)
<1> DEFINE n == Len(full) + 1
           k == Len(filled) + 1
<1>1. /\ Len(full) \in Nat /\ Len(filled) \in Nat /\ n \in 1..n /\ k \in 1..k
      /\ \A i \in 1..n : i \in 1..Len(full) \/ i = n
      /\ \A j \in 1..k : j \in 1..Len(filled) \/ j = k
      /\ \A i \in 1..Len(full) : i \in 1..n /\ i < n
      /\ \A j \in 1..Len(filled) : j \in 1..k /\ j < k
  OBVIOUS
<1>2. /\ DOMAIN new = 1..n /\ new[n] = Append(filled, x)
      /\ \A i \in 1..Len(full) : new[i] = full[i]
      /\ DOMAIN new[n] = 1..k /\ new[n][k] = x
      /\ \A j \in 1..Len(filled) : new[n][j] = filled[j]
  <2>1. Append(filled, x) \in Seq(Uid)
    OBVIOUS
  <2>2. /\ DOMAIN new = 1..n /\ new[n] = Append(filled, x)
        /\ \A i \in 1..Len(full) : new[i] = full[i]
    BY <2>1
  <2>3. /\ DOMAIN Append(filled, x) = 1..k /\ Append(filled, x)[k] = x
        /\ \A j \in 1..Len(filled) : Append(filled, x)[j] = filled[j]
    OBVIOUS
  <2> QED BY <2>2, <2>3
<1>3. /\ DOMAIN old \subseteq 1..n /\ 1..Len(full) \subseteq DOMAIN old
      /\ \A i \in 1..Len(full) : old[i] = full[i]
      /\ n \in DOMAIN old => old[n] = filled
      /\ filled # <<>> => n \in DOMAIN old
  <2>1. CASE filled = <<>>
    <3>1. old = full
      BY <2>1 DEF Listed
    <3>2. DOMAIN full = 1..Len(full) /\ n \notin 1..Len(full) /\ 1..Len(full) \subseteq 1..n
      BY <1>1
    <3> QED BY <2>1, <3>1, <3>2
  <2>2. CASE filled # <<>>
    <3>1. old = Append(full, filled)
      BY <2>2 DEF Listed
    <3>2. /\ DOMAIN old = 1..n /\ old[n] = filled
          /\ \A i \in 1..Len(full) : old[i] = full[i]
      BY <3>1
    <3> QED BY <1>1, <3>2
  <2> QED BY <2>1, <2>2
<1>4. DOMAIN filled = 1..Len(filled)
  OBVIOUS
<1>5. last = <<n, k>>
  OBVIOUS
<1> HIDE DEF n, k
<1>6. \A list, p : p \in PlacesOf(list) <=>
                     \E i \in DOMAIN list : \E j \in DOMAIN list[i] : p = <<i, j>>
  BY DEF PlacesOf
<1>7. last \in PlacesOf(new) /\ new[last[1]][last[2]] = x
  <2>1. n \in DOMAIN new /\ k \in DOMAIN new[n]
    BY <1>1, <1>2
  <2>2. <<n, k>> \in PlacesOf(new)
    BY <2>1 DEF PlacesOf
  <2>3. last[1] = n /\ last[2] = k
    BY <1>5
  <2> QED BY <1>2, <1>5, <2>2, <2>3
<1>8. ASSUME NEW p \in PlacesOf(old)
      PROVE  /\ p \in PlacesOf(new) /\ new[p[1]][p[2]] = old[p[1]][p[2]]
             /\ Before(p, last)
  <2>1. PICK i \in DOMAIN old : \E j \in DOMAIN old[i] : p = <<i, j>>
    BY <1>6
  <2>2. PICK j \in DOMAIN old[i] : p = <<i, j>>
    BY <2>1
  <2>3. CASE i \in 1..Len(full)
    <3>1. i \in DOMAIN new /\ new[i] = old[i] /\ i < n
      BY <1>1, <1>2, <1>3, <2>3
    <3>2. p \in PlacesOf(new)
      BY <1>6, <2>2, <3>1
    <3> QED BY <1>5, <2>2, <3>1, <3>2 DEF Before
  <2>4. CASE i = n
    <3>1. old[i] = filled /\ j \in 1..Len(filled)
      BY <1>3, <1>4, <2>2, <2>4
    <3>2. i \in DOMAIN new /\ j \in DOMAIN new[i] /\ new[i][j] = old[i][j] /\ j < k
      BY <1>1, <1>2, <2>4, <3>1
    <3>3. p \in PlacesOf(new)
      BY <1>6, <2>2, <3>2
    <3> QED BY <1>5, <2>2, <2>4, <3>2, <3>3 DEF Before
  <2> QED BY <1>1, <1>3, <2>3, <2>4
<1>9. ASSUME NEW p \in PlacesOf(new), p # last
      PROVE  p \in PlacesOf(old)
  <2>1. PICK i \in DOMAIN new : \E j \in DOMAIN new[i] : p = <<i, j>>
    BY <1>9 DEF PlacesOf
  <2>2. PICK j \in DOMAIN new[i] : p = <<i, j>>
    BY <2>1
  <2>3. CASE i \in 1..Len(full)
    <3>1. i \in DOMAIN old /\ new[i] = old[i]
      BY <1>2, <1>3, <2>3
    <3> QED BY <1>6, <2>2, <3>1
  <2>4. CASE i = n
    <3>1. j \in 1..Len(filled)
      BY <1>1, <1>2, <1>5, <1>9, <2>2, <2>4
    <3>2. filled # <<>>
      BY <1>4, <3>1
    <3>3. i \in DOMAIN old /\ j \in DOMAIN old[i]
      BY <1>3, <1>4, <2>4, <3>1, <3>2
    <3> QED BY <1>6, <2>2, <3>3
  <2> QED BY <1>1, <1>2, <2>3, <2>4
<1>10. PlacesOf(new) = PlacesOf(old) \cup {last}
  BY <1>7, <1>8, <1>9
<1> QED BY <1>7, <1>8, <1>10 DEF Extends

\* Every action but PlaceTransaction leaves the contents of the blocks alone.
LEMMA BlocksKept ==
  ASSUME GbtInvariant, UNCHANGED <<mempool, ancestors, used>>, AllBlocks' = AllBlocks
  PROVE  /\ mempool' \in Mempools
         /\ (ancestors = [t \in Uid |-> RelativesIn(mempool)[t] \ used])'
         /\ (used = {At(p) : p \in Places})'
         /\ BlocksValid'
<1>1. /\ mempool \in Mempools
      /\ ancestors = [t \in Uid |-> RelativesIn(mempool)[t] \ used]
      /\ used = {At(p) : p \in Places}
      /\ ParentsFirst /\ WithinLimits /\ NothingTwice
  BY DEF GbtInvariant, BlocksValid
<1>2. Weight' = Weight /\ Sigops' = Sigops
  BY DEF Weight, Sigops
<1>3. Places' = Places /\ \A p : At(p)' = At(p)
  BY DEF Places, At
<1>4. (used = {At(p) : p \in Places})'
  BY <1>1, <1>3
<1>5. ParentsFirst'
  BY <1>1, <1>3 DEF ParentsFirst
<1>6. WithinLimits'
  BY <1>1, <1>2 DEF WithinLimits, WeightOf, SigopsOf
<1>7. (ancestors = [t \in Uid |-> RelativesIn(mempool)[t] \ used])'
  BY <1>1
<1>8. NothingTwice'
  BY <1>1, <1>3 DEF NothingTwice
<1> QED BY <1>1, <1>4, <1>5, <1>6, <1>7, <1>8 DEF BlocksValid

(***************************************************************************)
(* The steps                                                               *)
(***************************************************************************)

\* The invariant holds at the start.
LEMMA GbtStarts ==
  ASSUME GbtInit
  PROVE  GbtInvariant
<1>1. /\ mempool \in Mempools /\ turn = "choose" /\ ancestors = RelativesIn(mempool)
      /\ score = [t \in Uid |-> ScoreAfter(ancestors, t)]
      /\ stack = InOrder(Uid, WorseFirst)
      /\ queue = {} /\ used = {} /\ modified = {}
      /\ package = <<>> /\ transactions = <<>> /\ overflow = <<>> /\ blocks = <<>>
      /\ failures = 0
  BY DEF GbtInit, GbtStart
<1>2. score \in [Uid -> Nat \X (Nat \ {0})]
  BY <1>1, ScoreIsRate
<1>3. stack \in Seq(Uid)
  <2>1. StrictOrder(Uid, WorseFirst) /\ IsFiniteSet(Uid)
    BY <1>1, <1>2, WorseIsOrder, UidFacts DEF Rate
  <2>2. Cardinality(Uid) \in Nat /\ stack \in [1..Cardinality(Uid) -> Uid]
    BY <1>1, <2>1, InOrderLists
  <2> QED BY <2>2
<1>4. ancestors \in [Uid -> SUBSET Uid]
  BY <1>1 DEF RelativesIn
<1>5. GbtTypeOK
  BY <1>1, <1>2, <1>3, <1>4 DEF GbtTypeOK
<1>6. ancestors = [t \in Uid |-> RelativesIn(mempool)[t] \ used]
  <2> DEFINE R == RelativesIn(mempool)
  <2>1. R = [t \in Uid |-> R[t]]
    BY DEF RelativesIn
  <2>2. ancestors = R /\ used = {}
    BY <1>1
  <2> HIDE DEF R
  <2>3. [t \in Uid |-> R[t] \ used] = [t \in Uid |-> R[t]]
    BY <2>2
  <2>4. ancestors = [t \in Uid |-> R[t] \ used]
    BY <2>1, <2>2, <2>3
  <2> QED BY <2>4 DEF R
<1>7. AllBlocks = <<>> /\ DOMAIN AllBlocks = {} /\ Places = {}
  <2>1. AllBlocks = <<>>
    BY <1>1 DEF AllBlocks
  <2>2. DOMAIN AllBlocks = {}
    BY <2>1
  <2> QED BY <2>1, <2>2 DEF Places
<1>8. used = {At(p) : p \in Places}
  BY <1>1, <1>7
<1>9. BlocksValid
  BY <1>7 DEF BlocksValid, ParentsFirst, WithinLimits, NothingTwice
<1>10. PackageReady /\ PackageFits
  BY <1>1 DEF PackageReady, PackageFits
<1> QED BY <1>1, <1>5, <1>6, <1>8, <1>9, <1>10 DEF GbtInvariant

\* Parts of the type that an action leaves alone.
LEMMA TypeFacts ==
  ASSUME GbtInvariant
  PROVE  /\ stack \in Seq(Uid) /\ queue \subseteq Uid /\ used \subseteq Uid
         /\ modified \subseteq Uid /\ ancestors \in [Uid -> SUBSET Uid]
         /\ score \in [Uid -> Nat \X (Nat \ {0})]
         /\ package \in Seq(Uid) /\ transactions \in Seq(Uid) /\ overflow \in Seq(Uid)
         /\ failures \in Nat /\ blocks \in Seq(Seq(Uid))
         /\ mempool \in Mempools
BY DEF GbtInvariant, GbtTypeOK

\* A package is held back.
LEMMA HoldKeeps ==
  ASSUME GbtInvariant, HoldPackage
  PROVE  GbtInvariant'
<1>1. AllBlocks' = AllBlocks
  BY DEF HoldPackage, AllBlocks
<1>2. UNCHANGED <<mempool, ancestors, used>>
  BY DEF HoldPackage
<1>3. NextTx \in Uid /\ RestOfStack \in Seq(Uid) /\ RestOfQueue \subseteq Uid
  BY ChoiceFacts DEF HoldPackage
<1>4. GbtTypeOK'
  BY <1>3, TypeFacts DEF HoldPackage, GbtTypeOK
<1>5. PackageReady' /\ PackageFits'
  BY DEF HoldPackage, PackageReady, PackageFits
<1> QED BY <1>1, <1>2, <1>4, <1>5, BlocksKept DEF GbtInvariant

\* A package is chosen: it fits.
LEMMA ChooseKeeps ==
  ASSUME GbtInvariant, ChoosePackage
  PROVE  GbtInvariant'
<1>1. AllBlocks' = AllBlocks
  BY DEF ChoosePackage, AllBlocks
<1>2. UNCHANGED <<mempool, ancestors, used, transactions, blocks>>
  BY DEF ChoosePackage
<1>3. NextTx \in Uid \ used /\ RestOfStack \in Seq(Uid) /\ RestOfQueue \subseteq Uid
  BY ChoiceFacts DEF ChoosePackage
<1> DEFINE t == NextTx
<1>4. t \in Uid \ used /\ package' = PackageSeq(t) /\ Fits(t)
  BY <1>3 DEF ChoosePackage
<1> HIDE DEF t
<1>5. /\ PackageSeq(t) \in Seq(Uid) /\ PackageSeq(t) # <<>>
      /\ \A i \in DOMAIN PackageSeq(t) : PackageSeq(t)[i] \notin used
      /\ \A i, j \in DOMAIN PackageSeq(t) : PackageSeq(t)[i] = PackageSeq(t)[j] => i = j
      /\ ToSet(PackageSeq(t)) = Package(ancestors, t)
      /\ \A i \in DOMAIN PackageSeq(t) :
            \A parent \in mempool[PackageSeq(t)[i]].inputs :
               parent \in used \/ \E k \in 1..i - 1 : PackageSeq(t)[k] = parent
  BY <1>4, PackageFacts
<1>6. GbtTypeOK'
  BY <1>3, <1>4, <1>5, TypeFacts DEF ChoosePackage, GbtTypeOK
<1>7. PackageReady'
  BY <1>2, <1>4, <1>5 DEF PackageReady
<1>8. PackageFits'
  <2> SUFFICES ASSUME Len(blocks) < MaxBlocks - 1
               PROVE  LET both == ToSet(transactions) \cup Package(ancestors, t)
                      IN  /\ 2 * ReservedWeight + SumOver(Weight, both) < MaxBlockWeight
                          /\ SumOver(Sigops, both) <= BlockSigops
    <3>1. ToSet(package') = Package(ancestors, t)
      BY <1>4, <1>5
    <3>2. Weight' = Weight /\ Sigops' = Sigops
      BY <1>2 DEF Weight, Sigops
    <3> QED BY <1>2, <3>1, <3>2 DEF PackageFits
  <2> DEFINE T == ToSet(transactions)
             P == Package(ancestors, t)
  <2>1. ~(Len(blocks) >= MaxBlocks - 1)
    <3>1. Len(blocks) \in Nat /\ MaxBlocks \in Nat
      BY TypeFacts, GbtAssumption
    <3> QED BY <3>1
  <2>2. /\ ReservedWeight + SumOver(Weight, T) + 4 * SumOver(Vsize, P)
              < MaxBlockWeight - ReservedWeight
        /\ SumOver(Sigops, T) + SumOver(Sigops, P) <= BlockSigops
    BY <1>4, <2>1 DEF Fits, WeightOf, SigopsOf, PackageVsize, PackageSigops
  <2> HIDE DEF T, P
  <2>3. /\ SumOver(Weight, T \cup P) <= SumOver(Weight, T) + SumOver(Weight, P)
        /\ SumOver(Sigops, T \cup P) <= SumOver(Sigops, T) + SumOver(Sigops, P)
        /\ SumOver(Weight, P) <= 4 * SumOver(Vsize, P)
    BY InvariantFacts, SumOfUnion, SumByFour
  <2>4. /\ SumOver(Weight, T) \in Nat /\ SumOver(Weight, P) \in Nat
        /\ SumOver(Weight, T \cup P) \in Nat /\ SumOver(Vsize, P) \in Nat
        /\ SumOver(Sigops, T) \in Nat /\ SumOver(Sigops, P) \in Nat
        /\ SumOver(Sigops, T \cup P) \in Nat
    BY InvariantFacts, SumType
  <2>5. 2 * ReservedWeight + SumOver(Weight, T \cup P) < MaxBlockWeight
    <3>1. \A w, wt, wp, v \in Nat :
             /\ ReservedWeight + wt + 4 * v < MaxBlockWeight - ReservedWeight
             /\ w <= wt + wp /\ wp <= 4 * v
             => 2 * ReservedWeight + w < MaxBlockWeight
      BY GbtAssumption
    <3> QED BY <2>2, <2>3, <2>4, <3>1
  <2>6. SumOver(Sigops, T \cup P) <= BlockSigops
    <3>1. \A s, st, sp \in Nat : s <= st + sp /\ st + sp <= BlockSigops => s <= BlockSigops
      BY GbtAssumption
    <3> QED BY <2>2, <2>3, <2>4, <3>1
  <2> QED BY <2>5, <2>6 DEF T, P
<1> QED BY <1>1, <1>2, <1>6, <1>7, <1>8, BlocksKept DEF GbtInvariant

\* Stack and queue have run out.
LEMMA NothingLeftKeeps ==
  ASSUME GbtInvariant, NothingLeft
  PROVE  GbtInvariant'
<1>1. AllBlocks' = AllBlocks
  BY DEF NothingLeft, AllBlocks
<1>2. UNCHANGED <<mempool, ancestors, used>>
  BY DEF NothingLeft
<1>3. GbtTypeOK'
  BY TypeFacts DEF NothingLeft, GbtTypeOK
<1>4. PackageReady' /\ PackageFits'
  BY DEF NothingLeft, PackageReady, PackageFits
<1> QED BY <1>1, <1>2, <1>3, <1>4, BlocksKept DEF GbtInvariant

\* The block is not full.
LEMMA ContinueKeeps ==
  ASSUME GbtInvariant, ContinueBlock
  PROVE  GbtInvariant'
<1>1. AllBlocks' = AllBlocks
  BY DEF ContinueBlock, AllBlocks
<1>2. UNCHANGED <<mempool, ancestors, used>>
  BY DEF ContinueBlock
<1>3. GbtTypeOK'
  BY TypeFacts DEF ContinueBlock, GbtTypeOK
<1>4. PackageReady' /\ PackageFits'
  BY DEF ContinueBlock, PackageReady, PackageFits
<1> QED BY <1>1, <1>2, <1>3, <1>4, BlocksKept DEF GbtInvariant

\* The block is closed.
LEMMA CloseKeeps ==
  ASSUME GbtInvariant, CloseBlock
  PROVE  GbtInvariant'
<1>1. AllBlocks' = AllBlocks
  BY DEF CloseBlock, AllBlocks
<1>2. UNCHANGED <<mempool, ancestors, used>>
  BY DEF CloseBlock
<1>3. GbtTypeOK'
  <2>1. HeldUnmodified \in Seq(Uid)
    BY TypeFacts, HeldIsList
  <2>2. stack' \in Seq(Uid)
    BY <2>1, TypeFacts DEF CloseBlock
  <2>3. queue' \subseteq Uid
    BY TypeFacts DEF CloseBlock
  <2>4. blocks' \in Seq(Seq(Uid))
    BY TypeFacts DEF CloseBlock
  <2> QED BY <2>2, <2>3, <2>4, TypeFacts DEF CloseBlock, GbtTypeOK
<1>4. PackageReady' /\ PackageFits'
  BY DEF CloseBlock, PackageReady, PackageFits
<1> QED BY <1>1, <1>2, <1>3, <1>4, BlocksKept DEF GbtInvariant

\* The last block is closed.
LEMMA FinishKeeps ==
  ASSUME GbtInvariant, Finish
  PROVE  GbtInvariant'
<1>1. AllBlocks' = AllBlocks
  BY DEF Finish, AllBlocks
<1>2. UNCHANGED <<mempool, ancestors, used>>
  BY DEF Finish
<1>3. GbtTypeOK'
  <2>1. blocks' \in Seq(Seq(Uid))
    BY TypeFacts DEF Finish
  <2> QED BY <2>1, TypeFacts DEF Finish, GbtTypeOK
<1>4. PackageReady' /\ PackageFits'
  BY DEF Finish, PackageReady, PackageFits
<1> QED BY <1>1, <1>2, <1>3, <1>4, BlocksKept DEF GbtInvariant

\* What Append and Tail do to the members.
LEMMA MembersOfAppend ==
  ASSUME NEW s \in Seq(Uid), NEW x \in Uid
  PROVE  ToSet(Append(s, x)) \subseteq ToSet(s) \cup {x}
BY DEF ToSet

LEMMA MembersOfTail ==
  ASSUME NEW s \in Seq(Uid), s # <<>>
  PROVE  ToSet(Tail(s)) \subseteq ToSet(s)
BY DEF ToSet

\* The step that fills the block: what it places has its parents in a block, and
\* what is left of the package had room together with it.
LEMMA PlaceKeeps ==
  ASSUME GbtInvariant, PlaceTransaction
  PROVE  GbtInvariant'
<1> DEFINE root == Head(package)
<1>0. PICK last : last = <<Len(blocks) + 1, Len(transactions) + 1>>
  OBVIOUS
<1>1. /\ turn = "place" /\ transactions' = Append(transactions, root)
      /\ used' = used \cup {root} /\ package' = Tail(package)
      /\ ancestors' = [t \in Uid |-> ancestors[t] \ {root}]
      /\ turn' = (IF package' = <<>> THEN "check" ELSE "place")
      /\ UNCHANGED <<mempool, stack, overflow, failures, blocks>>
  BY DEF PlaceTransaction
<1>2. package # <<>> /\ package \in Seq(Uid)
  BY <1>1, TypeFacts DEF GbtInvariant, PackageReady
<1>3. root \in Uid /\ Tail(package) \in Seq(Uid) /\ root = package[1] /\ 1 \in DOMAIN package
      /\ DOMAIN package = 1..Len(package) /\ Len(package) \in Nat
      /\ DOMAIN Tail(package) = 1..Len(package) - 1
      /\ \A i \in 1..Len(package) - 1 : Tail(package)[i] = package[i + 1]
  BY <1>2
<1> DEFINE filled == Append(transactions, root)
<1>3a. /\ transactions \in Seq(Uid) /\ blocks \in Seq(Seq(Uid)) /\ Len(blocks) \in Nat
      /\ filled \in Seq(Uid) /\ filled # <<>>
  <2>1. transactions \in Seq(Uid) /\ blocks \in Seq(Seq(Uid)) /\ root \in Uid
    BY <1>3, TypeFacts
  <2> HIDE DEF root
  <2> QED BY <2>1
<1> HIDE DEF filled
<1>4. GbtTypeOK'
  <2>1. score' \in [Uid -> Nat \X (Nat \ {0})]
    <3>1. score' = [t \in Uid |-> IF root \in ancestors[t]
                                 THEN ScoreAfter(ancestors', t) ELSE score[t]]
      BY DEF PlaceTransaction
    <3>2. \A t \in Uid : ScoreAfter(ancestors', t) \in Nat \X (Nat \ {0})
      BY TypeFacts, ScoreIsRate
    <3>3. \A t \in Uid : score[t] \in Nat \X (Nat \ {0})
      BY TypeFacts
    <3> HIDE DEF root
    <3> QED BY <3>1, <3>2, <3>3
  <2>2. queue' \subseteq Uid /\ modified' \subseteq Uid
    BY TypeFacts DEF PlaceTransaction
  <2>3. ancestors' \in [Uid -> SUBSET Uid] /\ used' \subseteq Uid
    BY <1>1, <1>3, TypeFacts
  <2>4. package' \in Seq(Uid) /\ transactions' \in Seq(Uid)
    BY <1>1, <1>3, TypeFacts
  <2>5. turn' \in {"choose", "place", "check", "done"}
    BY <1>1
  <2> QED BY <1>1, <2>1, <2>2, <2>3, <2>4, <2>5, TypeFacts DEF GbtTypeOK
<1> HIDE DEF root
<1>5. (ancestors = [t \in Uid |-> RelativesIn(mempool)[t] \ used])'
  <2> DEFINE R == RelativesIn(mempool)
  <2>1. ancestors = [t \in Uid |-> R[t] \ used]
    BY DEF GbtInvariant
  <2>2. RelativesIn(mempool') = R
    BY <1>1
  <2> HIDE DEF R
  <2>3. ancestors' = [t \in Uid |-> R[t] \ (used \cup {root})]
    BY <1>1, <2>1
  <2> QED BY <1>1, <2>2, <2>3
<1> DEFINE old == AllBlocks
           new == AllBlocks'
<1>6. new = Append(blocks, filled)
  BY <1>1, <1>3a DEF AllBlocks, filled
<1>7. old = Listed(blocks, transactions)
  BY DEF AllBlocks, Listed
<1>8. Places = PlacesOf(old) /\ Places' = PlacesOf(new)
      /\ (\A p : At(p) = old[p[1]][p[2]]) /\ (\A p : At(p)' = new[p[1]][p[2]])
  BY DEF Places, PlacesOf, At
<1> HIDE DEF old, new
<1>9. /\ PlacesOf(new) = PlacesOf(old) \cup {last} /\ new[last[1]][last[2]] = root
      /\ \A p \in PlacesOf(old) : /\ new[p[1]][p[2]] = old[p[1]][p[2]]
                                  /\ Before(p, last)
  <2>1. new = Append(blocks, Append(transactions, root))
    BY <1>6 DEF filled
  <2>2. root \in Uid /\ transactions \in Seq(Uid) /\ blocks \in Seq(Seq(Uid))
    BY <1>3, <1>3a
  <2>3. old = Listed(blocks, transactions)
    BY <1>7
  <2>4. last = <<Len(blocks) + 1, Len(transactions) + 1>>
    BY <1>0
  <2>5. Extends(new, old, last, root)
    BY <2>1, <2>2, <2>3, <2>4, OnePlaceMore
  <2> QED BY <2>5 DEF Extends
<1>10. /\ Places' = Places \cup {last} /\ At(last)' = root
       /\ \A p \in Places : At(p)' = At(p) /\ Before(p, last)
  BY <1>8, <1>9
<1>11. used = {At(p) : p \in Places}
  BY DEF GbtInvariant
<1>12. (used = {At(p) : p \in Places})'
  <2>1. {At(p) : p \in Places}' = {At(p) : p \in Places} \cup {root}
    BY <1>10
  <2> QED BY <1>1, <1>11, <2>1
<1>13. ParentsFirst'
  <2>1. ParentsFirst
    BY DEF GbtInvariant, BlocksValid
  <2>2. ASSUME NEW p \in Places', NEW parent \in mempool[At(p)'].inputs
        PROVE  \E q \in Places' : At(q)' = parent /\ Before(q, p)
    <3>1. CASE p \in Places
      <4>1. PICK q \in Places : At(q) = parent /\ Before(q, p)
        BY <1>10, <2>1, <2>2, <3>1 DEF ParentsFirst
      <4> QED BY <1>10, <4>1
    <3>2. CASE p = last
      <4>1. parent \in mempool[package[1]].inputs
        BY <1>3, <1>10, <2>2, <3>2
      <4>2. parent \in used \/ \E k \in 1..1 - 1 : package[k] = parent
        BY <1>1, <1>3, <4>1 DEF GbtInvariant, PackageReady
      <4>3. PICK q \in Places : At(q) = parent
        BY <1>11, <4>2
      <4> QED BY <1>10, <3>2, <4>3
    <3> QED BY <1>10, <3>1, <3>2
  <2> QED BY <1>1, <2>2 DEF ParentsFirst
<1>13a. /\ \A i \in DOMAIN package : package[i] \notin used
      /\ \A i, j \in DOMAIN package : package[i] = package[j] => i = j
  BY <1>1 DEF GbtInvariant, PackageReady
<1>13b. NothingTwice'
  <2>1. NothingTwice
    BY DEF GbtInvariant, BlocksValid
  <2>2. root \notin used
    BY <1>3, <1>13a
  <2>3. \A p \in Places : At(p)' # root
    BY <1>10, <1>11, <2>2
  <2>4. ASSUME NEW p \in Places', NEW q \in Places', At(p)' = At(q)'
        PROVE  p = q
    <3>1. CASE p \in Places /\ q \in Places
      BY <1>10, <2>1, <2>4, <3>1 DEF NothingTwice
    <3>2. CASE p = last \/ q = last
      BY <1>10, <2>3, <2>4, <3>2
    <3> QED BY <1>10, <3>1, <3>2
  <2> QED BY <2>4 DEF NothingTwice
<1>13c. /\ \A i \in DOMAIN package' : package'[i] \notin used'
      /\ \A i, j \in DOMAIN package' : package'[i] = package'[j] => i = j
  <2>1. \A i \in DOMAIN package' : /\ i + 1 \in DOMAIN package /\ i + 1 # 1 /\ i \in Int
                                   /\ package'[i] = package[i + 1]
    BY <1>1, <1>3
  <2>2. \A i \in DOMAIN package' : package'[i] # root /\ package'[i] \notin used
    BY <1>3, <1>13a, <2>1
  <2>3. ASSUME NEW i \in DOMAIN package', NEW j \in DOMAIN package', package'[i] = package'[j]
        PROVE  i = j
    <3>1. i + 1 = j + 1
      BY <1>13a, <2>1, <2>3
    <3> QED BY <2>1, <3>1
  <2> QED BY <1>1, <2>2, <2>3
<1>14. PackageReady'
  <2> SUFFICES ASSUME package' # <<>>, NEW i \in DOMAIN package',
                      NEW parent \in mempool[package'[i]].inputs
               PROVE  parent \in used' \/ \E k \in 1..i - 1 : package'[k] = parent
    BY <1>1, <1>13c DEF PackageReady
  <2>1. /\ i \in 1..Len(package) - 1 /\ i + 1 \in DOMAIN package
        /\ package'[i] = package[i + 1]
    BY <1>1, <1>3
  <2>2. parent \in used \/ \E k \in 1..i : package[k] = parent
    <3>1. (i + 1) - 1 = i
      BY <2>1
    <3> QED BY <1>1, <2>1, <3>1 DEF GbtInvariant, PackageReady
  <2>3. CASE parent \in used
    BY <1>1, <2>3
  <2>4. ASSUME NEW k \in 1..i, package[k] = parent
        PROVE  parent \in used' \/ \E j \in 1..i - 1 : package'[j] = parent
    <3>1. CASE k = 1
      BY <1>1, <1>3, <2>4, <3>1
    <3>2. CASE k # 1
      <4>1. /\ k - 1 \in 1..i - 1 /\ k - 1 \in 1..Len(package) - 1 /\ (k - 1) + 1 = k
        BY <2>1, <3>2
      <4>2. package'[k - 1] = parent
        BY <1>1, <1>3, <2>4, <4>1
      <4> QED BY <4>1, <4>2
    <3> QED BY <3>1, <3>2
  <2> QED BY <2>2, <2>3, <2>4
<1> DEFINE both == ToSet(transactions) \cup ToSet(package)
           some == ToSet(transactions')
           left == ToSet(package')
<1>15. some \subseteq both /\ some \cup left \subseteq both
  <2>1. some \subseteq ToSet(transactions) \cup {root}
    <3>1. transactions' = Append(transactions, root) /\ transactions \in Seq(Uid)
      BY <1>1, <1>3a
    <3> QED BY <1>3, <3>1, MembersOfAppend
  <2>2. root \in ToSet(package)
    BY <1>3 DEF ToSet
  <2>3. left \subseteq ToSet(package)
    BY <1>1, <1>2, MembersOfTail
  <2> QED BY <2>1, <2>2, <2>3
<1>16. Weight' = Weight /\ Sigops' = Sigops
  BY <1>1 DEF Weight, Sigops
<1>17. /\ Weight \in [Uid -> Nat] /\ Sigops \in [Uid -> Nat]
  BY InvariantFacts
<1>18. ASSUME NEW S, S \subseteq both, Len(blocks) < MaxBlocks - 1
       PROVE  /\ 2 * ReservedWeight + SumOver(Weight, S) < MaxBlockWeight
              /\ SumOver(Sigops, S) <= BlockSigops
  <2>1. /\ 2 * ReservedWeight + SumOver(Weight, both) < MaxBlockWeight
        /\ SumOver(Sigops, both) <= BlockSigops
    BY <1>1, <1>18 DEF GbtInvariant, PackageFits
  <2> HIDE DEF both
  <2>2. /\ SumOver(Weight, S) <= SumOver(Weight, both)
        /\ SumOver(Sigops, S) <= SumOver(Sigops, both)
    BY <1>17, <1>18, SumOfPart
  <2>3. /\ SumOver(Weight, S) \in Nat /\ SumOver(Weight, both) \in Nat
        /\ SumOver(Sigops, S) \in Nat /\ SumOver(Sigops, both) \in Nat
    BY <1>17, SumType
  <2> QED BY <2>1, <2>2, <2>3, GbtAssumption
<1> HIDE DEF both
<1>19. PackageFits'
  <2> SUFFICES ASSUME Len(blocks) < MaxBlocks - 1
               PROVE  /\ 2 * ReservedWeight + SumOver(Weight, some \cup left) < MaxBlockWeight
                      /\ SumOver(Sigops, some \cup left) <= BlockSigops
    BY <1>1, <1>16 DEF PackageFits
  <2> HIDE DEF some, left
  <2> QED BY <1>15, <1>18
<1>20. WithinLimits'
  <2>1. ASSUME NEW i \in DOMAIN new, i < MaxBlocks
        PROVE  /\ 2 * ReservedWeight + SumOver(Weight, ToSet(new[i])) < MaxBlockWeight
               /\ SumOver(Sigops, ToSet(new[i])) <= BlockSigops
    <3>1. i \in 1..Len(blocks) \/ i = Len(blocks) + 1
      BY <1>6, <1>3a
    <3>2. CASE i \in 1..Len(blocks)
      <4>1. i \in DOMAIN old /\ old[i] = blocks[i]
        BY <1>7, <3>2, TypeFacts DEF Listed
      <4>2. new[i] = blocks[i]
        BY <1>6, <1>3a, <3>2
      <4>3. WithinLimits
        BY DEF GbtInvariant, BlocksValid
      <4> QED BY <2>1, <4>1, <4>2, <4>3 DEF WithinLimits, WeightOf, SigopsOf, old
    <3>3. CASE i = Len(blocks) + 1
      <4>1. new[i] = transactions'
        BY <1>1, <1>6, <1>3a, <3>3 DEF filled
      <4>2. Len(blocks) < MaxBlocks - 1
        <5>1. Len(blocks) \in Nat /\ MaxBlocks \in Nat
          BY TypeFacts, GbtAssumption
        <5> QED BY <2>1, <3>3, <5>1
      <4> HIDE DEF some
      <4>3. ToSet(new[i]) = some
        BY <4>1 DEF some
      <4> QED BY <1>15, <1>18, <4>2, <4>3
    <3> QED BY <3>1, <3>2, <3>3
  <2> QED BY <1>16, <2>1 DEF WithinLimits, WeightOf, SigopsOf, new
<1>21. mempool' \in Mempools
  BY <1>1, TypeFacts
<1> QED BY <1>4, <1>5, <1>12, <1>13, <1>13b, <1>14, <1>19, <1>20, <1>21
        DEF GbtInvariant, BlocksValid

(***************************************************************************)
(* The theorems                                                            *)
(***************************************************************************)

\* Every state of a run of gbt() has the invariant.
THEOREM GbtAlwaysInvariant == GbtSpec => []GbtInvariant
<1>1. GbtInit => GbtInvariant
  BY GbtStarts
<1>2. GbtInvariant /\ [GbtNext]_gbtVars => GbtInvariant'
  <2> SUFFICES ASSUME GbtInvariant, [GbtNext]_gbtVars PROVE GbtInvariant'
    OBVIOUS
  <2>1. CASE UNCHANGED gbtVars
    <3>1. AllBlocks' = AllBlocks /\ UNCHANGED <<mempool, ancestors, used>>
      BY <2>1 DEF gbtVars, AllBlocks
    <3>2. GbtTypeOK' /\ PackageReady' /\ PackageFits'
      <4>1. Weight' = Weight /\ Sigops' = Sigops
        BY <3>1 DEF Weight, Sigops
      <4>2. GbtTypeOK'
        BY <2>1, TypeFacts DEF gbtVars, GbtInvariant, GbtTypeOK
      <4>3. PackageReady'
        BY <2>1 DEF gbtVars, GbtInvariant, PackageReady
      <4>4. PackageFits'
        BY <2>1, <4>1 DEF gbtVars, GbtInvariant, PackageFits
      <4> QED BY <4>2, <4>3, <4>4
    <3> QED BY <3>1, <3>2, BlocksKept DEF GbtInvariant
  <2>2. CASE HoldPackage
    BY <2>2, HoldKeeps
  <2>3. CASE ChoosePackage
    BY <2>3, ChooseKeeps
  <2>4. CASE PlaceTransaction
    BY <2>4, PlaceKeeps
  <2>5. CASE NothingLeft
    BY <2>5, NothingLeftKeeps
  <2>6. CASE ContinueBlock
    BY <2>6, ContinueKeeps
  <2>7. CASE CloseBlock
    BY <2>7, CloseKeeps
  <2>8. CASE Finish
    BY <2>8, FinishKeeps
  <2> QED BY <2>1, <2>2, <2>3, <2>4, <2>5, <2>6, <2>7, <2>8 DEF GbtNext
<1> QED BY <1>1, <1>2, PTL DEF GbtSpec

\* The variables have their types in every state of a run.
THEOREM GbtTypeCorrect == GbtSpec => []GbtTypeOK
<1>1. GbtInvariant => GbtTypeOK
  BY DEF GbtInvariant
<1> QED BY <1>1, GbtAlwaysInvariant, PTL

\* For every mempool and every limit: no block ever holds a transaction before
\* its parent or for a second time, and all but the last keep to the limits of weight
\* and of sigops.
THEOREM BlocksAlwaysValid == GbtSpec => []BlocksValid
<1>1. GbtInvariant => BlocksValid
  BY DEF GbtInvariant
<1> QED BY <1>1, GbtAlwaysInvariant, PTL

(***************************************************************************)
(* Every transaction is accounted for                                      *)
(***************************************************************************)

\* No two places of the list have the same, unless it is in the set.
OnceUnless(list, set) ==
    \A i, j \in DOMAIN list : list[i] = list[j] => i = j \/ list[i] \in set

\* A transaction is in a block, in the package, in the queue or held back, or it is
\* on the stack and its score has not changed.
Somewhere ==
    \A t \in Uid :
        \/ t \in used \cup ToSet(package) \cup queue \cup ToSet(overflow)
        \/ t \in ToSet(stack) \ modified

\* While its score has not changed it is once on the stack or held back once.
OneToken ==
    /\ queue \subseteq modified
    /\ OnceUnless(stack, modified) /\ OnceUnless(overflow, modified)
    /\ ToSet(stack) \cap ToSet(overflow) \subseteq modified

\* What is held back for a block that is empty yet is nowhere else.
HeldOnce ==
    transactions = <<>> =>
        /\ OnceUnless(overflow, {})
        /\ ToSet(overflow) \cap (queue \cup used) = {}

\* In the last block nothing is held back, nor when there is nothing to choose from.
NoneHeld ==
    \/ Len(blocks) >= MaxBlocks - 1
    \/ turn = "choose" /\ stack = <<>> /\ queue = {}
    => overflow = <<>>

\* At the end there is nothing to choose from.
NoneLeft ==
    /\ turn # "place" => package = <<>>
    /\ turn = "done" =>
          /\ transactions = <<>>
          /\ MaxBlockWeight >= 3 * ReservedWeight => stack = <<>> /\ queue = {}

Accounted == Somewhere /\ OneToken /\ HeldOnce /\ NoneHeld /\ NoneLeft

\* What Append does to the members of a list.
LEMMA AppendOnce ==
  ASSUME NEW s \in Seq(Uid), NEW x \in Uid, NEW more, more = Append(s, x)
  PROVE  /\ ToSet(more) = ToSet(s) \cup {x}
         /\ \A M : OnceUnless(s, M) /\ (x \in M \/ x \notin ToSet(s)) => OnceUnless(more, M)
<1>1. /\ Len(s) \in Nat /\ DOMAIN s = 1..Len(s) /\ DOMAIN more = 1..Len(s) + 1
      /\ more[Len(s) + 1] = x /\ \A i \in 1..Len(s) : more[i] = s[i]
  OBVIOUS
<1>2. \A i \in 1..Len(s) + 1 : i \in 1..Len(s) \/ i = Len(s) + 1
  BY <1>1
<1>3. \A i \in 1..Len(s) : i \in 1..Len(s) + 1
  BY <1>1
<1>4. Len(s) + 1 \in 1..Len(s) + 1
  BY <1>1
<1>5. ToSet(more) = ToSet(s) \cup {x}
  BY <1>1, <1>2, <1>3, <1>4 DEF ToSet
<1>6. ASSUME NEW M, OnceUnless(s, M), x \in M \/ x \notin ToSet(s) PROVE OnceUnless(more, M)
  <2> SUFFICES ASSUME NEW i \in DOMAIN more, NEW j \in DOMAIN more, more[i] = more[j], i # j
               PROVE  more[i] \in M
    BY DEF OnceUnless
  <2>1. CASE i \in 1..Len(s) /\ j \in 1..Len(s)
    BY <1>1, <1>6, <2>1 DEF OnceUnless
  <2>2. CASE i = Len(s) + 1
    <3>1. j \in 1..Len(s)
      BY <1>1, <1>2, <2>2
    <3> QED BY <1>1, <1>6, <2>2, <3>1 DEF ToSet
  <2>3. CASE j = Len(s) + 1
    <3>1. i \in 1..Len(s)
      BY <1>1, <1>2, <2>3
    <3> QED BY <1>1, <1>6, <2>3, <3>1 DEF ToSet
  <2> QED BY <1>1, <1>2, <2>1, <2>2, <2>3
<1> QED BY <1>5, <1>6

\* The lists one after the other.
LEMMA ConcatOnce ==
  ASSUME NEW s \in Seq(Uid), NEW r \in Seq(Uid), NEW both, both = s \o r
  PROVE  /\ ToSet(both) = ToSet(s) \cup ToSet(r)
         /\ \A M : OnceUnless(s, M) /\ OnceUnless(r, M) /\ ToSet(s) \cap ToSet(r) \subseteq M
                   => OnceUnless(both, M)
<1>1. /\ Len(s) \in Nat /\ DOMAIN s = 1..Len(s) /\ Len(r) \in Nat /\ DOMAIN r = 1..Len(r)
      /\ DOMAIN both = 1..Len(s) + Len(r)
      /\ \A i \in 1..Len(s) : both[i] = s[i]
      /\ \A i \in Len(s) + 1..Len(s) + Len(r) : both[i] = r[i - Len(s)]
  OBVIOUS
<1>2. \A i \in DOMAIN both : i \in 1..Len(s) \/ i - Len(s) \in 1..Len(r)
  BY <1>1
<1>3. \A i \in 1..Len(s) : i \in DOMAIN both
  BY <1>1
<1>4. \A i \in 1..Len(r) : i + Len(s) \in DOMAIN both /\ both[i + Len(s)] = r[i]
  BY <1>1
<1>4a. \A i \in DOMAIN both : i - Len(s) \in 1..Len(r) => both[i] = r[i - Len(s)]
  BY <1>1
<1>5. ToSet(both) = ToSet(s) \cup ToSet(r)
  <2>1. \A x : x \in ToSet(both) => x \in ToSet(s) \cup ToSet(r)
    BY <1>1, <1>2, <1>4a DEF ToSet
  <2>2. \A x : x \in ToSet(s) => x \in ToSet(both)
    BY <1>1, <1>3 DEF ToSet
  <2>3. ASSUME NEW x, x \in ToSet(r) PROVE x \in ToSet(both)
    <3>1. PICK i \in 1..Len(r) : r[i] = x
      BY <1>1, <2>3 DEF ToSet
    <3>2. i + Len(s) \in DOMAIN both /\ both[i + Len(s)] = x
      BY <1>4, <3>1
    <3> QED BY <3>2 DEF ToSet
  <2> QED BY <2>1, <2>2, <2>3
<1>6. ASSUME NEW M, OnceUnless(s, M), OnceUnless(r, M), ToSet(s) \cap ToSet(r) \subseteq M
      PROVE  OnceUnless(both, M)
  <2> SUFFICES ASSUME NEW i \in DOMAIN both, NEW j \in DOMAIN both, both[i] = both[j], i # j
               PROVE  both[i] \in M
    BY DEF OnceUnless
  <2>0. i \in Int /\ j \in Int
    BY <1>1
  <2>1. CASE i \in 1..Len(s) /\ j \in 1..Len(s)
    BY <1>1, <1>6, <2>1 DEF OnceUnless
  <2>2. CASE i - Len(s) \in 1..Len(r) /\ j - Len(s) \in 1..Len(r)
    <3>1. i - Len(s) # j - Len(s)
      BY <1>1, <2>0
    <3> QED BY <1>1, <1>4a, <1>6, <2>2, <3>1 DEF OnceUnless
  <2>3. CASE i \in 1..Len(s) /\ j - Len(s) \in 1..Len(r)
    BY <1>1, <1>4a, <1>6, <2>3 DEF ToSet
  <2>4. CASE j \in 1..Len(s) /\ i - Len(s) \in 1..Len(r)
    BY <1>1, <1>4a, <1>6, <2>4 DEF ToSet
  <2> QED BY <1>2, <2>1, <2>2, <2>3, <2>4
<1> QED BY <1>5, <1>6

\* What is put back on the stack is what was held back and is not modified.
LEMMA HeldMembers ==
  ASSUME overflow \in Seq(Uid)
  PROVE  /\ ToSet(HeldUnmodified) = ToSet(overflow) \ modified
         /\ OnceUnless(overflow, modified) => OnceUnless(HeldUnmodified, modified)
<1> DEFINE held == {i \in DOMAIN overflow : overflow[i] \notin modified}
           R == {p \in held \X held : p[1] > p[2]}
           last == InOrder(held, R)
           n == Cardinality(held)
<1>1. held \subseteq 1..Len(overflow) /\ Len(overflow) \in Nat
  OBVIOUS
<1>2. IsFiniteSet(held)
  <2> HIDE DEF held
  <2>1. IsFiniteSet(1..Len(overflow))
    BY <1>1, FS_Interval
  <2> QED BY <1>1, <2>1, FS_Subset
<1>3. StrictOrder(held, R)
  BY DEF StrictOrder
<1>4. HeldUnmodified = [i \in DOMAIN last |-> overflow[last[i]]]
  BY DEF HeldUnmodified
<1>5. \A i : i \in held <=> i \in DOMAIN overflow /\ overflow[i] \notin modified
  OBVIOUS
<1>6. last = InOrder(held, R)
  OBVIOUS
<1> HIDE DEF last, held, R
<1>7. /\ n \in Nat /\ last \in [1..n -> held]
      /\ \A x \in held : \E i \in 1..n : last[i] = x
      /\ \A i, j \in 1..n : last[i] = last[j] => i = j
  BY <1>2, <1>3, <1>6, InOrderLists
<1> HIDE DEF n
<1>8. DOMAIN HeldUnmodified = 1..n /\ \A i \in 1..n : HeldUnmodified[i] = overflow[last[i]]
  BY <1>4, <1>7
<1>9. ToSet(HeldUnmodified) = ToSet(overflow) \ modified
  <2>1. \A x \in ToSet(HeldUnmodified) : x \in ToSet(overflow) \ modified
    BY <1>5, <1>7, <1>8 DEF ToSet
  <2>2. ASSUME NEW x \in ToSet(overflow) \ modified PROVE x \in ToSet(HeldUnmodified)
    <3>1. PICK k \in DOMAIN overflow : overflow[k] = x
      BY DEF ToSet
    <3>2. k \in held
      BY <1>5, <2>2, <3>1
    <3>3. PICK i \in 1..n : last[i] = k
      BY <1>7, <3>2
    <3> QED BY <1>8, <3>1, <3>3 DEF ToSet
  <2> QED BY <2>1, <2>2
<1>10. ASSUME OnceUnless(overflow, modified) PROVE OnceUnless(HeldUnmodified, modified)
  <2> SUFFICES ASSUME NEW i \in 1..n, NEW j \in 1..n, HeldUnmodified[i] = HeldUnmodified[j], i # j
               PROVE  FALSE
    BY <1>8 DEF OnceUnless
  <2>1. last[i] \in held /\ last[j] \in held /\ last[i] # last[j]
    BY <1>7
  <2> QED BY <1>5, <1>8, <1>10, <2>1 DEF OnceUnless
<1> QED BY <1>9, <1>10

\* The choice takes one transaction from the stack or the queue, and nothing else
\* goes from them but what is in a block or has its place in the queue.
LEMMA ChoiceAccounts ==
  ASSUME GbtInvariant, OneToken, OnStack # {} \/ InQueue # {}
  PROVE  /\ RestOfQueue \subseteq queue /\ NextTx \notin RestOfQueue
         /\ \A t \in queue \ RestOfQueue : t = NextTx \/ t \in used
         /\ ToSet(RestOfStack) \subseteq ToSet(stack)
         /\ \A t \in ToSet(stack) \ modified :
               t = NextTx \/ t \in used \/ t \in ToSet(RestOfStack)
         /\ \A M : OnceUnless(stack, M) => OnceUnless(RestOfStack, M)
         /\ \/ NextTx \in queue
            \/ NextTx \in ToSet(stack) \ modified /\ NextTx \notin ToSet(RestOfStack)
<1>0. /\ stack \in Seq(Uid) /\ Len(stack) \in Nat /\ DOMAIN stack = 1..Len(stack)
      /\ queue \subseteq modified /\ OnceUnless(stack, modified)
  BY TypeFacts DEF OneToken
<1>1. OnStack # {} => /\ TopOfStack \in OnStack /\ TopOfStack \in 1..Len(stack)
                      /\ \A j \in OnStack : j <= TopOfStack
  BY <1>0, TopFacts
<1>2. InQueue # {} => BestInQueue \in InQueue /\ \A x \in InQueue \ {BestInQueue} : Worse(x, BestInQueue)
  BY BestFacts
<1>3. ASSUME NEW t \in queue \ ValidQueue PROVE t \in used
  <2>1. CASE InQueue = {}
    BY <2>1 DEF InQueue
  <2>2. CASE InQueue # {}
    BY <1>2, <2>2 DEF InQueue, ValidQueue
  <2> QED BY <2>1, <2>2
<1> DEFINE length == IF OnStack = {} THEN 0
                     ELSE IF FromStack THEN TopOfStack - 1 ELSE TopOfStack
<1>4. /\ length \in 0..Len(stack)
      /\ RestOfStack \in Seq(Uid) /\ DOMAIN RestOfStack = 1..length
      /\ \A i \in 1..length : RestOfStack[i] = stack[i]
  <2>1. CASE OnStack = {}
    <3>1. RestOfStack = <<>>
      BY <2>1 DEF RestOfStack, ValidStack, FromStack
    <3> QED BY <1>0, <2>1, <3>1
  <2>2. CASE OnStack # {} /\ ~FromStack
    <3>1. RestOfStack = SubSeq(stack, 1, TopOfStack)
      BY <2>2 DEF RestOfStack, ValidStack
    <3> QED BY <1>0, <1>1, <2>2, <3>1
  <2>3. CASE OnStack # {} /\ FromStack
    <3> DEFINE valid == SubSeq(stack, 1, TopOfStack)
    <3>1. RestOfStack = SubSeq(valid, 1, Len(valid) - 1)
      BY <2>3 DEF RestOfStack, ValidStack, Front
    <3>2. /\ valid \in Seq(Uid) /\ Len(valid) = TopOfStack
          /\ \A i \in 1..TopOfStack : valid[i] = stack[i]
      BY <1>0, <1>1, <2>3
    <3> HIDE DEF valid
    <3>3. /\ RestOfStack \in Seq(Uid) /\ DOMAIN RestOfStack = 1..TopOfStack - 1
          /\ \A i \in 1..TopOfStack - 1 : RestOfStack[i] = valid[i]
      BY <1>0, <1>1, <2>3, <3>1, <3>2
    <3>4. length = TopOfStack - 1
      BY <2>3
    <3> QED BY <1>0, <1>1, <2>3, <3>2, <3>3, <3>4
  <2> QED BY <2>1, <2>2, <2>3
<1>5. \A i \in 1..length : i \in DOMAIN stack
  BY <1>0, <1>4
<1>6. ToSet(RestOfStack) \subseteq ToSet(stack)
  BY <1>4, <1>5 DEF ToSet
<1>7. ASSUME NEW M, OnceUnless(stack, M) PROVE OnceUnless(RestOfStack, M)
  <2> HIDE DEF length
  <2> QED BY <1>4, <1>5, <1>7 DEF OnceUnless
<1>8. ASSUME NEW t \in ToSet(stack) \ modified, t # NextTx, t \notin used
      PROVE  t \in ToSet(RestOfStack)
  <2>1. PICK i \in DOMAIN stack : stack[i] = t
    BY DEF ToSet
  <2>2. i \in OnStack
    BY <1>8, <2>1 DEF OnStack
  <2>3. i <= TopOfStack /\ TopOfStack \in 1..Len(stack) /\ i \in 1..Len(stack)
    BY <1>0, <1>1, <2>2
  <2>4. FromStack => i # TopOfStack
    BY <1>8, <2>1 DEF NextTx
  <2>5. i \in 1..length
    BY <2>2, <2>3, <2>4
  <2> HIDE DEF length
  <2> QED BY <1>4, <2>1, <2>5 DEF ToSet
<1>9. CASE FromStack
  <2>1. OnStack # {} /\ NextTx = stack[TopOfStack]
    BY <1>9 DEF FromStack, NextTx
  <2>2. NextTx \notin modified /\ NextTx \in ToSet(stack)
    BY <1>0, <1>1, <2>1 DEF OnStack, ToSet
  <2>3. NextTx \notin ToSet(RestOfStack)
    <3> SUFFICES ASSUME NEW i \in 1..length, stack[i] = NextTx PROVE FALSE
      <4> HIDE DEF length
      <4> QED BY <1>4 DEF ToSet
    <3>1. i # TopOfStack /\ i \in DOMAIN stack /\ TopOfStack \in DOMAIN stack
      BY <1>0, <1>1, <1>5, <1>9, <2>1
    <3> QED BY <1>0, <2>1, <2>2, <3>1 DEF OnceUnless
  <2>4. NextTx \notin queue
    BY <1>0, <2>2
  <2>5. RestOfQueue = ValidQueue /\ ValidQueue \subseteq queue
    BY <1>9 DEF RestOfQueue, ValidQueue
  <2> QED BY <1>3, <1>6, <1>7, <1>8, <2>2, <2>3, <2>4, <2>5
<1>10. CASE ~FromStack
  <2>1. NextTx = BestInQueue /\ InQueue # {}
    BY <1>10 DEF FromStack, NextTx
  <2>2. NextTx \in queue
    BY <1>2, <2>1 DEF InQueue
  <2>3. RestOfQueue = ValidQueue \ {NextTx} /\ ValidQueue \subseteq queue
    BY <1>10 DEF RestOfQueue, ValidQueue
  <2> QED BY <1>3, <1>6, <1>7, <1>8, <2>2, <2>3
<1> QED BY <1>9, <1>10

\* At the start all transactions are on the stack, once.
LEMMA StartAccounts ==
  ASSUME GbtInit
  PROVE  Accounted
<1>1. /\ turn = "choose" /\ stack = InOrder(Uid, WorseFirst)
      /\ queue = {} /\ used = {} /\ modified = {} /\ package = <<>>
      /\ transactions = <<>> /\ overflow = <<>>
  BY DEF GbtInit, GbtStart
<1>2. StrictOrder(Uid, WorseFirst) /\ IsFiniteSet(Uid)
  BY GbtStarts, InvariantFacts, UidFacts
<1>3. /\ Cardinality(Uid) \in Nat /\ stack \in [1..Cardinality(Uid) -> Uid]
      /\ \A x \in Uid : \E i \in 1..Cardinality(Uid) : stack[i] = x
      /\ \A i, j \in 1..Cardinality(Uid) : stack[i] = stack[j] => i = j
  BY <1>1, <1>2, InOrderLists
<1>4. \A t \in Uid : t \in ToSet(stack) \ modified
  BY <1>1, <1>3 DEF ToSet
<1>5. OnceUnless(stack, modified)
  BY <1>3 DEF OnceUnless
<1>6. OnceUnless(overflow, {}) /\ OnceUnless(overflow, modified) /\ ToSet(overflow) = {}
  BY <1>1 DEF OnceUnless, ToSet
<1>7. Somewhere
  BY <1>4 DEF Somewhere
<1>8. OneToken
  BY <1>1, <1>5, <1>6 DEF OneToken
<1>9. HeldOnce
  BY <1>6 DEF HeldOnce
<1>10. NoneHeld /\ NoneLeft
  BY <1>1 DEF NoneHeld, NoneLeft
<1> QED BY <1>7, <1>8, <1>9, <1>10 DEF Accounted

\* A transaction that is held back was not held back for this block before, unless
\* its score has changed in between.
LEMMA HoldAccounts ==
  ASSUME GbtInvariant, Accounted, HoldPackage
  PROVE  Accounted'
<1>1. /\ turn = "choose" /\ turn' = "check" /\ ~Fits(NextTx)
      /\ stack' = RestOfStack /\ queue' = RestOfQueue
      /\ overflow' = Append(overflow, NextTx)
      /\ UNCHANGED <<used, modified, package, transactions, blocks>>
  BY DEF HoldPackage
<1>2. overflow \in Seq(Uid) /\ NextTx \in Uid \ used
  BY ChoiceFacts, TypeFacts DEF HoldPackage
<1>3. Somewhere /\ OneToken /\ HeldOnce /\ NoneHeld /\ NoneLeft
  BY DEF Accounted
<1>4. /\ RestOfQueue \subseteq queue /\ NextTx \notin RestOfQueue
      /\ \A t \in queue \ RestOfQueue : t = NextTx \/ t \in used
      /\ ToSet(RestOfStack) \subseteq ToSet(stack)
      /\ \A t \in ToSet(stack) \ modified :
            t = NextTx \/ t \in used \/ t \in ToSet(RestOfStack)
      /\ OnceUnless(RestOfStack, modified)
      /\ \/ NextTx \in queue
         \/ NextTx \in ToSet(stack) \ modified /\ NextTx \notin ToSet(RestOfStack)
  BY <1>3, ChoiceAccounts DEF HoldPackage, OneToken
<1>5. /\ ToSet(overflow') = ToSet(overflow) \cup {NextTx}
      /\ \A M : OnceUnless(overflow, M) /\ (NextTx \in M \/ NextTx \notin ToSet(overflow))
                => OnceUnless(overflow', M)
  BY <1>1, <1>2, AppendOnce
<1>6. Somewhere'
  <2> SUFFICES ASSUME NEW t \in Uid
               PROVE  \/ t \in used \cup ToSet(package) \cup RestOfQueue \cup ToSet(overflow')
                      \/ t \in ToSet(RestOfStack) \ modified
    BY <1>1 DEF Somewhere
  <2>1. \/ t \in used \cup ToSet(package) \cup queue \cup ToSet(overflow)
        \/ t \in ToSet(stack) \ modified
    BY <1>3 DEF Somewhere
  <2> QED BY <1>4, <1>5, <2>1
<1>7. NextTx \in modified \/ NextTx \notin ToSet(overflow)
  BY <1>3, <1>4 DEF OneToken
<1>8. OneToken'
  <2>1. queue' \subseteq modified'
    BY <1>1, <1>3, <1>4 DEF OneToken
  <2>2. OnceUnless(stack', modified')
    BY <1>1, <1>4
  <2>3. OnceUnless(overflow', modified')
    BY <1>1, <1>3, <1>5, <1>7 DEF OneToken
  <2>4. ToSet(stack') \cap ToSet(overflow') \subseteq modified'
    BY <1>1, <1>3, <1>4, <1>5 DEF OneToken
  <2> QED BY <2>1, <2>2, <2>3, <2>4 DEF OneToken
<1>9. HeldOnce'
  <2> SUFFICES ASSUME transactions = <<>>
               PROVE  /\ OnceUnless(overflow', {})
                      /\ ToSet(overflow') \cap (RestOfQueue \cup used) = {}
    BY <1>1 DEF HeldOnce
  <2>1. OnceUnless(overflow, {}) /\ ToSet(overflow) \cap (queue \cup used) = {}
    BY <1>3 DEF HeldOnce
  <2>2. NextTx \notin ToSet(overflow)
    BY <1>3, <1>4, <2>1 DEF OneToken
  <2>3. OnceUnless(overflow', {})
    BY <1>5, <2>1, <2>2
  <2> QED BY <1>2, <1>4, <1>5, <2>1, <2>3
<1>10. NoneHeld' /\ NoneLeft'
  <2>1. ~(Len(blocks') >= MaxBlocks' - 1)
    BY <1>1 DEF Fits
  <2> QED BY <1>1, <1>3, <2>1 DEF NoneHeld, NoneLeft
<1> QED BY <1>6, <1>8, <1>9, <1>10 DEF Accounted

\* What is chosen is in the package.
LEMMA ChooseAccounts ==
  ASSUME GbtInvariant, Accounted, ChoosePackage
  PROVE  Accounted'
<1>1. /\ turn = "choose" /\ turn' = "place"
      /\ stack' = RestOfStack /\ queue' = RestOfQueue /\ package' = PackageSeq(NextTx)
      /\ UNCHANGED <<used, modified, transactions, overflow, blocks>>
  BY DEF ChoosePackage
<1>2. NextTx \in Uid \ used
  BY ChoiceFacts DEF ChoosePackage
<1>3. Somewhere /\ OneToken /\ HeldOnce /\ NoneHeld /\ NoneLeft
  BY DEF Accounted
<1>4. /\ RestOfQueue \subseteq queue /\ NextTx \notin RestOfQueue
      /\ \A t \in queue \ RestOfQueue : t = NextTx \/ t \in used
      /\ ToSet(RestOfStack) \subseteq ToSet(stack)
      /\ \A t \in ToSet(stack) \ modified :
            t = NextTx \/ t \in used \/ t \in ToSet(RestOfStack)
      /\ OnceUnless(RestOfStack, modified)
  BY <1>3, ChoiceAccounts DEF ChoosePackage, OneToken
<1>5. NextTx \in ToSet(package')
  <2> DEFINE t == NextTx
  <2>1. t \in Uid \ used /\ package' = PackageSeq(t)
    BY <1>1, <1>2
  <2> HIDE DEF t
  <2>2. ToSet(PackageSeq(t)) = Package(ancestors, t)
    BY <2>1, PackageFacts
  <2>3. t \in ToSet(package')
    BY <2>1, <2>2 DEF Package
  <2> QED BY <2>3 DEF t
<1>6. Somewhere'
  <2> SUFFICES ASSUME NEW t \in Uid
               PROVE  \/ t \in used \cup ToSet(package') \cup RestOfQueue \cup ToSet(overflow)
                      \/ t \in ToSet(RestOfStack) \ modified
    BY <1>1 DEF Somewhere
  <2>1. \/ t \in used \cup ToSet(package) \cup queue \cup ToSet(overflow)
        \/ t \in ToSet(stack) \ modified
    BY <1>3 DEF Somewhere
  <2>2. ToSet(package) = {}
    BY <1>1, <1>3 DEF NoneLeft, ToSet
  <2> QED BY <1>4, <1>5, <2>1, <2>2
<1>7. OneToken'
  BY <1>1, <1>3, <1>4 DEF OneToken
<1>8. HeldOnce'
  BY <1>1, <1>3, <1>4 DEF HeldOnce
<1>9. NoneHeld' /\ NoneLeft'
  BY <1>1, <1>3 DEF NoneHeld, NoneLeft
<1> QED BY <1>6, <1>7, <1>8, <1>9 DEF Accounted

\* Whose score changes is in the queue from then on.
LEMMA PlaceAccounts ==
  ASSUME GbtInvariant, Accounted, PlaceTransaction
  PROVE  Accounted'
<1> DEFINE root == Head(package)
           changed == {t \in Uid : Lower(score'[t], score[t]) \/ Lower(score[t], score'[t])}
<1>1. /\ turn = "place" /\ turn' = (IF package' = <<>> THEN "check" ELSE "place")
      /\ transactions' = Append(transactions, root) /\ used' = used \cup {root}
      /\ package' = Tail(package)
      /\ modified' = modified \cup changed /\ queue' = queue \cup changed
      /\ UNCHANGED <<stack, overflow, blocks>>
  BY DEF PlaceTransaction
<1>2. package # <<>> /\ package \in Seq(Uid)
  BY <1>1, TypeFacts DEF GbtInvariant, PackageReady
<1>3. Somewhere /\ OneToken /\ HeldOnce /\ NoneHeld /\ NoneLeft
  BY DEF Accounted
<1>4. root \in Uid /\ ToSet(package) = {root} \cup ToSet(package')
  <2>1. /\ Len(package) \in Nat \ {0} /\ DOMAIN package = 1..Len(package) /\ root = package[1]
        /\ DOMAIN package' = 1..Len(package) - 1
        /\ \A i \in 1..Len(package) - 1 : package'[i] = package[i + 1]
    BY <1>1, <1>2
  <2>2. \A i \in 1..Len(package) : i = 1 \/ (i - 1 \in 1..Len(package) - 1 /\ package'[i - 1] = package[i])
    BY <2>1
  <2>3. \A i \in 1..Len(package) - 1 : i + 1 \in 1..Len(package)
    BY <2>1
  <2>4. 1 \in 1..Len(package) /\ root \in Uid
    BY <1>2, <2>1
  <2>5. \A x \in ToSet(package) : x \in {root} \cup ToSet(package')
    BY <2>1, <2>2 DEF ToSet
  <2>6. \A x \in ToSet(package') : x \in ToSet(package)
    BY <2>1, <2>3 DEF ToSet
  <2>7. root \in ToSet(package)
    BY <2>1, <2>4 DEF ToSet
  <2> QED BY <2>4, <2>5, <2>6, <2>7
<1> HIDE DEF root, changed
<1>5. transactions' # <<>>
  <2>1. transactions \in Seq(Uid)
    BY TypeFacts
  <2> QED BY <1>1, <1>4, <2>1
<1>6. Somewhere'
  <2> SUFFICES ASSUME NEW t \in Uid
               PROVE  \/ t \in used' \cup ToSet(package') \cup queue' \cup ToSet(overflow)
                      \/ t \in ToSet(stack) \ modified'
    BY <1>1 DEF Somewhere
  <2>1. \/ t \in used \cup ToSet(package) \cup queue \cup ToSet(overflow)
        \/ t \in ToSet(stack) \ modified
    BY <1>3 DEF Somewhere
  <2> QED BY <1>1, <1>4, <2>1
<1>7. OneToken'
  <2>1. OnceUnless(stack, modified') /\ OnceUnless(overflow, modified')
    BY <1>1, <1>3 DEF OneToken, OnceUnless
  <2>2. queue' \subseteq modified' /\ ToSet(stack) \cap ToSet(overflow) \subseteq modified'
    BY <1>1, <1>3 DEF OneToken
  <2> QED BY <1>1, <2>1, <2>2 DEF OneToken
<1>8. HeldOnce'
  BY <1>5 DEF HeldOnce
<1>9. NoneHeld'
  BY <1>1, <1>3 DEF NoneHeld
<1>10. NoneLeft'
  BY <1>1 DEF NoneLeft
<1> QED BY <1>6, <1>7, <1>8, <1>9, <1>10 DEF Accounted

\* What is dropped from the stack and the queue is in a block or held back.
LEMMA NothingLeftAccounts ==
  ASSUME GbtInvariant, Accounted, NothingLeft
  PROVE  Accounted'
<1>1. /\ turn = "choose" /\ turn' = "check" /\ stack' = <<>> /\ queue' = {}
      /\ OnStack = {} /\ InQueue = {}
      /\ UNCHANGED <<used, modified, package, transactions, overflow, blocks>>
  BY DEF NothingLeft
<1>2. Somewhere /\ OneToken /\ HeldOnce /\ NoneHeld /\ NoneLeft
  BY DEF Accounted
<1>3. Somewhere'
  <2> SUFFICES ASSUME NEW t \in Uid
               PROVE  t \in used \cup ToSet(package) \cup ToSet(overflow)
    BY <1>1 DEF Somewhere
  <2>1. \/ t \in used \cup ToSet(package) \cup queue \cup ToSet(overflow)
        \/ t \in ToSet(stack) \ modified
    BY <1>2 DEF Somewhere
  <2>2. t \in queue => t \in used
    BY <1>1 DEF InQueue
  <2>3. t \in ToSet(stack) \ modified => t \in used
    BY <1>1 DEF OnStack, ToSet
  <2> QED BY <2>1, <2>2, <2>3
<1>4. OneToken'
  <2>1. OnceUnless(<<>>, modified) /\ ToSet(<<>>) = {}
    BY DEF OnceUnless, ToSet
  <2> QED BY <1>1, <1>2, <2>1 DEF OneToken
<1>5. HeldOnce'
  BY <1>1, <1>2 DEF HeldOnce
<1>6. NoneHeld' /\ NoneLeft'
  BY <1>1, <1>2 DEF NoneHeld, NoneLeft
<1> QED BY <1>3, <1>4, <1>5, <1>6 DEF Accounted

\* A block that goes on with nothing to choose from is the last one.
LEMMA ContinueAccounts ==
  ASSUME GbtInvariant, Accounted, ContinueBlock
  PROVE  Accounted'
<1>1. /\ turn = "check" /\ turn' = "choose" /\ ~Full
      /\ UNCHANGED <<used, modified, package, transactions, overflow, blocks, stack, queue>>
  BY DEF ContinueBlock
<1>2. Somewhere /\ OneToken /\ HeldOnce /\ NoneHeld /\ NoneLeft
  BY DEF Accounted
<1>3. Somewhere'
  BY <1>1, <1>2 DEF Somewhere
<1>4. OneToken'
  BY <1>1, <1>2 DEF OneToken
<1>5. HeldOnce'
  BY <1>1, <1>2 DEF HeldOnce
<1>6. NoneHeld'
  <2>1. stack = <<>> /\ queue = {} => ~(Len(blocks) < MaxBlocks - 1)
    BY <1>1 DEF Full
  <2>2. Len(blocks) \in Nat /\ MaxBlocks \in Nat
    BY TypeFacts, GbtAssumption
  <2>3. stack = <<>> /\ queue = {} => Len(blocks) >= MaxBlocks - 1
    BY <2>1, <2>2
  <2> QED BY <1>1, <1>2, <2>3 DEF NoneHeld
<1>7. NoneLeft'
  BY <1>1, <1>2 DEF NoneLeft
<1> QED BY <1>3, <1>4, <1>5, <1>6, <1>7 DEF Accounted

\* What was held back goes to the queue or on the stack again.
LEMMA CloseAccounts ==
  ASSUME GbtInvariant, Accounted, CloseBlock
  PROVE  Accounted'
<1>1. /\ turn = "check" /\ turn' = "choose"
      /\ stack' = stack \o HeldUnmodified
      /\ queue' = queue \cup (ToSet(overflow) \cap modified)
      /\ overflow' = <<>> /\ transactions' = <<>>
      /\ UNCHANGED <<used, modified, package>>
  BY DEF CloseBlock
<1>2. Somewhere /\ OneToken /\ HeldOnce /\ NoneHeld /\ NoneLeft
  BY DEF Accounted
<1>3. overflow \in Seq(Uid) /\ stack \in Seq(Uid)
  BY TypeFacts
<1>4. /\ HeldUnmodified \in Seq(Uid) /\ ToSet(HeldUnmodified) = ToSet(overflow) \ modified
      /\ OnceUnless(HeldUnmodified, modified)
  BY <1>2, <1>3, HeldIsList, HeldMembers DEF OneToken
<1>5. /\ ToSet(stack') = ToSet(stack) \cup ToSet(HeldUnmodified)
      /\ \A M : /\ OnceUnless(stack, M) /\ OnceUnless(HeldUnmodified, M)
                /\ ToSet(stack) \cap ToSet(HeldUnmodified) \subseteq M
                => OnceUnless(stack', M)
  BY <1>1, <1>3, <1>4, ConcatOnce
<1>6. Somewhere'
  <2> SUFFICES ASSUME NEW t \in Uid
               PROVE  \/ t \in used \cup ToSet(package) \cup queue'
                      \/ t \in ToSet(stack') \ modified
    BY <1>1 DEF Somewhere
  <2>1. \/ t \in used \cup ToSet(package) \cup queue \cup ToSet(overflow)
        \/ t \in ToSet(stack) \ modified
    BY <1>2 DEF Somewhere
  <2> QED BY <1>1, <1>4, <1>5, <2>1
<1>7. OnceUnless(<<>>, modified) /\ OnceUnless(<<>>, {}) /\ ToSet(<<>>) = {}
  BY DEF OnceUnless, ToSet
<1>8. OneToken'
  <2>1. ToSet(stack) \cap ToSet(HeldUnmodified) \subseteq modified
    BY <1>2, <1>4 DEF OneToken
  <2>2. OnceUnless(stack', modified)
    BY <1>2, <1>4, <1>5, <2>1 DEF OneToken
  <2> QED BY <1>1, <1>2, <1>7, <2>2 DEF OneToken
<1>9. HeldOnce'
  BY <1>1, <1>7 DEF HeldOnce
<1>10. NoneHeld' /\ NoneLeft'
  BY <1>1, <1>2 DEF NoneHeld, NoneLeft
<1> QED BY <1>6, <1>8, <1>9, <1>10 DEF Accounted

\* At the end the stack and the queue are empty, unless a block has no room at all.
LEMMA FinishAccounts ==
  ASSUME GbtInvariant, Accounted, Finish
  PROVE  Accounted'
<1>1. /\ \/ turn = "check" /\ Full /\ transactions = <<>>
         \/ turn = "choose" /\ stack = <<>> /\ queue = {}
      /\ turn' = "done" /\ transactions' = <<>>
      /\ blocks' = (IF transactions = <<>> THEN blocks ELSE Append(blocks, transactions))
      /\ UNCHANGED <<used, modified, package, overflow, stack, queue>>
  BY DEF Finish
<1>2. Somewhere /\ OneToken /\ HeldOnce /\ NoneHeld /\ NoneLeft
  BY DEF Accounted
<1>3. Somewhere'
  BY <1>1, <1>2 DEF Somewhere
<1>4. OneToken'
  BY <1>1, <1>2 DEF OneToken
<1>5. transactions = <<>> \/ overflow = <<>>
  BY <1>1, <1>2 DEF NoneHeld
<1>6. HeldOnce'
  <2>1. OnceUnless(<<>>, {}) /\ ToSet(<<>>) = {}
    BY DEF OnceUnless, ToSet
  <2> QED BY <1>1, <1>2, <1>5, <2>1 DEF HeldOnce
<1>7. NoneHeld'
  BY <1>1, <1>2, <1>5 DEF NoneHeld
<1>8. ASSUME MaxBlockWeight >= 3 * ReservedWeight PROVE stack = <<>> /\ queue = {}
  <2> SUFFICES ASSUME turn = "check", Full, transactions = <<>>
               PROVE  ~(ReservedWeight + WeightOf(transactions)
                           > MaxBlockWeight - 2 * ReservedWeight)
    BY <1>1 DEF Full
  <2>1. WeightOf(transactions) = 0
    <3>1. ToSet(<<>>) = {}
      BY DEF ToSet
    <3> QED BY <3>1, InvariantFacts, SumOfNone DEF WeightOf
  <2> QED BY <1>8, <2>1, GbtAssumption
<1>9. NoneLeft'
  BY <1>1, <1>2, <1>8 DEF NoneLeft
<1> QED BY <1>3, <1>4, <1>6, <1>7, <1>9 DEF Accounted

\* From the first to the last state of a run every transaction is accounted for:
\* the inductive invariant, with that of the blocks.
THEOREM AlwaysAccounted == GbtSpec => []Accounted
<1>1. GbtInit => Accounted
  BY StartAccounts
<1>2. GbtInvariant /\ Accounted /\ [GbtNext]_gbtVars => Accounted'
  <2> SUFFICES ASSUME GbtInvariant, Accounted, [GbtNext]_gbtVars PROVE Accounted'
    OBVIOUS
  <2>1. CASE UNCHANGED gbtVars
    BY <2>1 DEF gbtVars, Accounted, Somewhere, OneToken, HeldOnce, NoneHeld, NoneLeft
  <2>2. CASE HoldPackage
    BY <2>2, HoldAccounts
  <2>3. CASE ChoosePackage
    BY <2>3, ChooseAccounts
  <2>4. CASE PlaceTransaction
    BY <2>4, PlaceAccounts
  <2>5. CASE NothingLeft
    BY <2>5, NothingLeftAccounts
  <2>6. CASE ContinueBlock
    BY <2>6, ContinueAccounts
  <2>7. CASE CloseBlock
    BY <2>7, CloseAccounts
  <2>8. CASE Finish
    BY <2>8, FinishAccounts
  <2> QED BY <2>1, <2>2, <2>3, <2>4, <2>5, <2>6, <2>7, <2>8 DEF GbtNext
<1> QED BY <1>1, <1>2, GbtAlwaysInvariant, PTL DEF GbtSpec

\* For every mempool and all limits that leave room for a package: when gbt() returns,
\* a transaction is in a block or once in overflow, and never in both.
THEOREM NothingEverLost == GbtSpec => []NothingLost
<1>1. GbtInvariant /\ Accounted => NothingLost
  <2> SUFFICES ASSUME GbtInvariant, Accounted, turn = "done",
                      MaxBlockWeight >= 3 * ReservedWeight
               PROVE  /\ {At(p) : p \in Places} \cup ToSet(overflow) = Uid
                      /\ {At(p) : p \in Places} \cap ToSet(overflow) = {}
                      /\ \A i, j \in DOMAIN overflow : overflow[i] = overflow[j] => i = j
    BY DEF NothingLost
  <2>1. {At(p) : p \in Places} = used
    BY DEF GbtInvariant
  <2>2. used \subseteq Uid /\ overflow \in Seq(Uid)
    BY TypeFacts
  <2>3. ToSet(overflow) \subseteq Uid
    BY <2>2 DEF ToSet
  <2>4. stack = <<>> /\ queue = {} /\ package = <<>> /\ transactions = <<>>
    BY DEF Accounted, NoneLeft
  <2>5. ToSet(stack) = {} /\ ToSet(package) = {}
    BY <2>4 DEF ToSet
  <2>6. \A t \in Uid : t \in used \cup ToSet(overflow)
    BY <2>4, <2>5 DEF Accounted, Somewhere
  <2>7. OnceUnless(overflow, {}) /\ ToSet(overflow) \cap used = {}
    BY <2>4 DEF Accounted, HeldOnce
  <2> QED BY <2>1, <2>2, <2>3, <2>6, <2>7 DEF OnceUnless
<1> QED BY <1>1, GbtAlwaysInvariant, AlwaysAccounted, PTL

\* Both: valid blocks at every moment, and nothing lost in the end.
THEOREM BlocksAlwaysCorrect == GbtSpec => []BlocksCorrect
<1> QED BY BlocksAlwaysValid, NothingEverLost, PTL DEF BlocksCorrect
=============================================================================
