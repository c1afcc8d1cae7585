---------------------------- MODULE Ranks_proofs ----------------------------
(* What the modules that pick entries by their position or their number rely *)
(* on: a finite set of numbers has exactly one number of each rank, and what *)
(* is kept of a sequence is a sequence of its entries in their order.        *)
EXTENDS Ranks, Sequences, FiniteSetTheorems, WellFoundedInduction, TLAPS

RankIn(K, k) == Cardinality({j \in K : j <= k})

LEMMA RanksGrow ==
  ASSUME NEW K, K \subseteq Int, IsFiniteSet(K), NEW j \in K, NEW k \in K, j < k
  PROVE  RankIn(K, j) < RankIn(K, k)
<1> DEFINE low == {i \in K : i <= j}  high == {i \in K : i <= k}
<1>1. low \subseteq high /\ k \in high /\ k \notin low /\ IsFiniteSet(high)
  <2>1. high \in SUBSET K
    OBVIOUS
  <2>2. IsFiniteSet(high)
    BY <2>1, FS_Subset
  <2>3. \A i \in K : i <= j => i <= k
    OBVIOUS
  <2>4. low \subseteq high
    BY <2>3
  <2>5. k \in high /\ k \notin low
    OBVIOUS
  <2> QED BY <2>2, <2>4, <2>5
<1>2. Cardinality(low) <= Cardinality(high) /\ Cardinality(low) # Cardinality(high)
  BY <1>1, FS_Subset
<1>3. Cardinality(low) \in Nat /\ Cardinality(high) \in Nat
  BY <1>1, FS_Subset, FS_CardinalityType
<1> QED BY <1>2, <1>3 DEF RankIn

LEMMA RankBounds ==
  ASSUME NEW K, K \subseteq Int, IsFiniteSet(K), NEW k \in K
  PROVE  RankIn(K, k) \in 1 .. Cardinality(K)
<1> DEFINE low == {i \in K : i <= k}
<1>1. low \subseteq K /\ k \in low /\ IsFiniteSet(low)
  BY FS_Subset
<1>2. Cardinality(low) <= Cardinality(K) /\ Cardinality(low) \in Nat
      /\ Cardinality(K) \in Nat
  BY <1>1, FS_Subset, FS_CardinalityType
<1>3. Cardinality(low) # 0
  BY <1>1, FS_EmptySet
<1> QED BY <1>2, <1>3 DEF RankIn

(* The ranks are different and lie between 1 and the size: each is taken.    *)
LEMMA EveryRank ==
  ASSUME NEW K, K \subseteq Int, IsFiniteSet(K), NEW n \in 1 .. Cardinality(K)
  PROVE  \E k \in K : RankIn(K, k) = n
<1> DEFINE f == [k \in K |-> RankIn(K, k)]
           size == Cardinality(K)
<1>1. size \in Nat
  BY FS_CardinalityType
<1>2. f \in [K -> 1 .. size]
  BY RankBounds
<1>3. \A j, k \in K : f[j] = f[k] => j = k
  <2> SUFFICES ASSUME NEW j \in K, NEW k \in K, j # k PROVE f[j] # f[k]
    OBVIOUS
  <2>1. f[j] = RankIn(K, j) /\ f[k] = RankIn(K, k) /\ f[j] \in Int /\ f[k] \in Int
    BY <1>1, <1>2
  <2> HIDE DEF f
  <2>2. j < k \/ k < j
    OBVIOUS
  <2>3. CASE j < k
    <3>1. RankIn(K, j) < RankIn(K, k)
      BY <2>3, RanksGrow
    <3> QED BY <2>1, <3>1
  <2>4. CASE k < j
    <3>1. RankIn(K, k) < RankIn(K, j)
      BY <2>4, RanksGrow
    <3> QED BY <2>1, <3>1
  <2> QED BY <2>2, <2>3, <2>4
<1>4. SUFFICES ASSUME \A k \in K : f[k] # n PROVE FALSE
  BY DEF f
<1>5. /\ IsFiniteSet((1 .. size) \ {n})
      /\ Cardinality((1 .. size) \ {n}) = size - 1
  <2>1. 1 .. size # {} /\ n \in 1 .. size /\ size \in Nat /\ size >= 1
    BY <1>1
  <2> HIDE DEF size, f
  <2>2. IsFiniteSet(1 .. size) /\ Cardinality(1 .. size) = size
    BY <2>1, FS_Interval
  <2> QED BY <2>1, <2>2, FS_RemoveElement
<1> HIDE DEF f
<1>6. f \in [K -> (1 .. size) \ {n}]
  BY <1>2, <1>4
<1>7. Cardinality((1 .. size) \ {n}) < Cardinality(K)
  BY <1>1, <1>5
<1>8. \E j, k \in K : j # k /\ f[j] = f[k]
  BY <1>5, <1>6, <1>7, FS_PigeonHole
<1> QED BY <1>3, <1>8

(* Nth takes each number of K once, in their order.                          *)
LEMMA NthRanked ==
  ASSUME NEW K, K \subseteq Int, IsFiniteSet(K), NEW n \in 1 .. Cardinality(K)
  PROVE  Nth(K, n) \in K /\ RankIn(K, Nth(K, n)) = n
<1>1. \E k \in K : Cardinality({j \in K : j <= k}) = n
  BY EveryRank DEF RankIn
<1> QED BY <1>1 DEF Nth, RankIn

LEMMA NthGrows ==
  ASSUME NEW K, K \subseteq Int, IsFiniteSet(K),
         NEW m \in 1 .. Cardinality(K), NEW n \in 1 .. Cardinality(K), m < n
  PROVE  Nth(K, m) < Nth(K, n)
<1> DEFINE j == Nth(K, m)  k == Nth(K, n)
<1>1. j \in K /\ k \in K /\ RankIn(K, j) = m /\ RankIn(K, k) = n
  BY NthRanked
<1>0. m # n
  <2>1. Cardinality(K) \in Nat
    BY FS_CardinalityType
  <2> QED BY <2>1
<1> HIDE DEF j, k
<1>2. j \in Int /\ k \in Int /\ j # k
  BY <1>0, <1>1
<1>3. ~ (k < j)
  <2> SUFFICES ASSUME k < j PROVE FALSE
    OBVIOUS
  <2>1. RankIn(K, k) < RankIn(K, j)
    BY <1>1, RanksGrow
  <2>2. Cardinality(K) \in Nat
    BY FS_CardinalityType
  <2> QED BY <1>1, <2>1, <2>2
<1>4. j < k
  BY <1>2, <1>3
<1> QED BY <1>4 DEF j, k

LEMMA NthReaches ==
  ASSUME NEW K, K \subseteq Int, IsFiniteSet(K), NEW k \in K
  PROVE  RankIn(K, k) \in 1 .. Cardinality(K) /\ Nth(K, RankIn(K, k)) = k
<1> DEFINE n == RankIn(K, k)
<1>1. n \in 1 .. Cardinality(K)
  BY RankBounds
<1> HIDE DEF n
<1>2. Nth(K, n) \in K /\ RankIn(K, Nth(K, n)) = n
  BY <1>1, NthRanked
<1>3. CASE Nth(K, n) < k
  <2>1. RankIn(K, Nth(K, n)) < RankIn(K, k)
    BY <1>2, <1>3, RanksGrow
  <2> QED BY <1>1, <1>2, <2>1 DEF n
<1>4. CASE k < Nth(K, n)
  <2>1. RankIn(K, k) < RankIn(K, Nth(K, n))
    BY <1>2, <1>4, RanksGrow
  <2> QED BY <1>1, <1>2, <2>1 DEF n
<1>5. Nth(K, n) \in Int /\ k \in Int
  BY <1>2
<1> QED BY <1>1, <1>3, <1>4, <1>5 DEF n

(* What is kept of a sequence.                                               *)
LEMMA EntriesKept ==
  ASSUME NEW S, NEW s \in Seq(S), NEW K, K \subseteq DOMAIN s
  PROVE  /\ EntriesAt(s, K) \in Seq(S) /\ Len(EntriesAt(s, K)) = Cardinality(K)
         /\ Cardinality(K) <= Len(s)
         /\ \A n \in 1 .. Cardinality(K) :
              Nth(K, n) \in K /\ EntriesAt(s, K)[n] = s[Nth(K, n)]
         /\ \A k \in K : \E n \in 1 .. Cardinality(K) : EntriesAt(s, K)[n] = s[k]
         /\ \A m, n \in 1 .. Cardinality(K) :
              m < n => Nth(K, m) < Nth(K, n) /\ Nth(K, m) # Nth(K, n)
         /\ IsFiniteSet(K) /\ K \subseteq Int
<1>1. DOMAIN s = 1 .. Len(s) /\ Len(s) \in Nat
  OBVIOUS
<1>2. IsFiniteSet(1 .. Len(s)) /\ Cardinality(1 .. Len(s)) = Len(s)
  <2> DEFINE len == Len(s)
  <2>1. len \in Int /\ len - 1 + 1 = len /\ (1 > len => len = 0)
    BY <1>1
  <2> HIDE DEF len
  <2>2. IsFiniteSet(1 .. len) /\ Cardinality(1 .. len) = len
    BY <2>1, FS_Interval
  <2> QED BY <2>2 DEF len
<1>3. IsFiniteSet(K) /\ Cardinality(K) <= Len(s) /\ Cardinality(K) \in Nat
      /\ K \subseteq Int
  BY <1>1, <1>2, FS_Subset, FS_CardinalityType
<1>4. \A n \in 1 .. Cardinality(K) : Nth(K, n) \in K
  BY <1>3, NthRanked
<1>5. \A n \in 1 .. Cardinality(K) : EntriesAt(s, K)[n] = s[Nth(K, n)]
  BY DEF EntriesAt
<1>6. \A n \in 1 .. Cardinality(K) : s[Nth(K, n)] \in S
  BY <1>1, <1>4
<1>7. EntriesAt(s, K) \in [1 .. Cardinality(K) -> S]
  BY <1>6 DEF EntriesAt
<1>8. EntriesAt(s, K) \in Seq(S) /\ Len(EntriesAt(s, K)) = Cardinality(K)
  BY <1>3, <1>7
<1>9. ASSUME NEW k \in K
      PROVE  \E n \in 1 .. Cardinality(K) : EntriesAt(s, K)[n] = s[k]
  <2>1. RankIn(K, k) \in 1 .. Cardinality(K) /\ Nth(K, RankIn(K, k)) = k
    BY <1>3, NthReaches
  <2> QED BY <1>5, <2>1
<1>10. \A m, n \in 1 .. Cardinality(K) : m < n => Nth(K, m) < Nth(K, n)
  BY <1>3, NthGrows
<1>11. ASSUME NEW m \in 1 .. Cardinality(K), NEW n \in 1 .. Cardinality(K), m < n
       PROVE  Nth(K, m) # Nth(K, n)
  <2>1. Nth(K, m) \in Int /\ Nth(K, n) \in Int /\ Nth(K, m) < Nth(K, n)
    BY <1>3, <1>4, <1>10, <1>11
  <2> QED BY <2>1
<1> QED BY <1>3, <1>4, <1>5, <1>8, <1>9, <1>10, <1>11
-----------------------------------------------------------------------------
(* Least and largest.                                                        *)

LEMMA NatOrder == IsWellFoundedOn({p \in Nat \X Nat : p[1] < p[2]}, Nat)
  BY NatLessThanWellFounded, Zenon DEF OpToRel

(* A set of naturals has a least element: what stands in for induction,      *)
(* through a least counterexample.                                           *)
LEMMA LeastNat ==
  ASSUME NEW T, T \subseteq Nat, T # {}
  PROVE  \E x \in T : \A y \in T : x <= y
<1> DEFINE R == {p \in Nat \X Nat : p[1] < p[2]}
<1>1. IsWellFoundedOn(R, Nat)
  BY NatOrder
<1>2. PICK x \in T : \A y \in T : ~ (<<y, x>> \in R)
  <2> HIDE DEF R
  <2> QED BY <1>1, WFMin
<1>3. ASSUME NEW y \in T PROVE x <= y
  <2>1. x \in Nat /\ y \in Nat
    OBVIOUS
  <2>2. ~ (<<y, x>> \in R)
    BY <1>2
  <2>3. y < x => <<y, x>> \in R
    BY <2>1
  <2> HIDE DEF R
  <2> QED BY <2>1, <2>2, <2>3
<1> QED BY <1>3

(* So the first n values of a function have a largest one: otherwise take    *)
(* the least n for which they have none.                                     *)
HasLargest(f, n) == \E m \in 1 .. n : \A k \in 1 .. n : f[k] <= f[m]

LEMMA OneLarger ==
  ASSUME NEW f, NEW n \in Nat \ {0}, \A k \in 1 .. (n + 1) : f[k] \in Nat, HasLargest(f, n)
  PROVE  HasLargest(f, n + 1)
<1>1. PICK m \in 1 .. n : \A k \in 1 .. n : f[k] <= f[m]
  BY DEF HasLargest
<1>2. m \in 1 .. (n + 1) /\ n + 1 \in 1 .. (n + 1) /\ f[m] \in Nat /\ f[n + 1] \in Nat
  OBVIOUS
<1>3. \A k \in 1 .. (n + 1) : k = n + 1 \/ k \in 1 .. n
  OBVIOUS
<1>4. CASE f[n + 1] <= f[m]
  BY <1>1, <1>2, <1>3, <1>4 DEF HasLargest
<1>5. CASE f[m] < f[n + 1]
  <2>1. ASSUME NEW k \in 1 .. (n + 1) PROVE f[k] <= f[n + 1]
    <3>1. f[k] \in Nat /\ (k = n + 1 \/ f[k] <= f[m])
      BY <1>1, <1>3
    <3> QED BY <1>2, <1>5, <3>1
  <2> QED BY <1>2, <2>1 DEF HasLargest
<1> QED BY <1>2, <1>4, <1>5

LEMMA Largest ==
  ASSUME NEW f, NEW n \in Nat \ {0}, \A k \in 1 .. n : f[k] \in Nat
  PROVE  HasLargest(f, n)
<1> DEFINE Bad == {k \in 1 .. n : ~ HasLargest(f, k)}
<1> SUFFICES ASSUME Bad # {} PROVE FALSE
  OBVIOUS
<1>1. PICK least \in Bad : \A k \in Bad : least <= k
  <2>1. Bad \subseteq Nat
    OBVIOUS
  <2> HIDE DEF Bad
  <2> QED BY <2>1, LeastNat
<1>2. least \in 1 .. n /\ ~ HasLargest(f, least)
  OBVIOUS
<1>3. least # 1
  <2>1. f[1] \in Nat /\ \A k \in 1 .. 1 : k = 1
    OBVIOUS
  <2>2. 1 \in 1 .. 1 /\ f[1] <= f[1]
    BY <2>1
  <2>3. HasLargest(f, 1)
    BY <2>1, <2>2, Zenon DEF HasLargest
  <2> QED BY <1>2, <2>3
<1>4. least - 1 \in 1 .. n /\ least - 1 \in Nat \ {0} /\ ~ (least <= least - 1)
  BY <1>2, <1>3
<1>5. HasLargest(f, least - 1)
  BY <1>1, <1>4
<1>6. HasLargest(f, (least - 1) + 1)
  <2>1. \A k \in 1 .. ((least - 1) + 1) : f[k] \in Nat
    BY <1>2
  <2> QED BY <1>4, <1>5, <2>1, OneLarger
<1>7. (least - 1) + 1 = least
  BY <1>2
<1> QED BY <1>2, <1>6, <1>7
-----------------------------------------------------------------------------
(* Induction over data: a set that starts with 0, or with the empty          *)
(* sequence, and has with each member the next ones has them all.            *)
LEMMA NatsReached ==
  ASSUME NEW S, 0 \in S, \A n \in Nat : n \in S => n + 1 \in S
  PROVE  Nat \subseteq S
<1> DEFINE Bad == Nat \ S
<1> SUFFICES ASSUME Bad # {} PROVE FALSE
  OBVIOUS
<1>1. PICK least \in Bad : \A k \in Bad : least <= k
  <2>1. Bad \subseteq Nat
    OBVIOUS
  <2> HIDE DEF Bad
  <2> QED BY <2>1, LeastNat
<1>2. least - 1 \in Nat /\ ~ (least <= least - 1) /\ (least - 1) + 1 = least
  OBVIOUS
<1>3. least - 1 \in S
  BY <1>1, <1>2
<1> QED BY <1>2, <1>3

LEMMA SeqsReached ==
  ASSUME NEW S, NEW T, <<>> \in T,
         \A s \in Seq(S) : s \in T => \A x \in S : Append(s, x) \in T
  PROVE  Seq(S) \subseteq T
<1> DEFINE Good == {n \in Nat : \A s \in Seq(S) : Len(s) = n => s \in T}
<1>1. 0 \in Good
  <2>1. ASSUME NEW s \in Seq(S), Len(s) = 0 PROVE s \in T
    <3>1. s = <<>>
      BY <2>1
    <3> QED BY <3>1
  <2> QED BY <2>1
<1>2. ASSUME NEW n \in Nat, n \in Good PROVE n + 1 \in Good
  <2>1. ASSUME NEW s \in Seq(S), Len(s) = n + 1 PROVE s \in T
    <3> DEFINE r == SubSeq(s, 1, n)  x == s[n + 1]
    <3>1. r \in Seq(S) /\ Len(r) = n /\ x \in S
      BY <2>1
    <3>2. s = Append(r, x)
      BY <2>1
    <3>3. r \in T
      BY <1>2, <3>1
    <3> HIDE DEF r, x
    <3> QED BY <3>1, <3>2, <3>3
  <2> QED BY <2>1
<1> HIDE DEF Good
<1>3. Nat \subseteq Good
  BY <1>1, <1>2, NatsReached
<1>4. ASSUME NEW s \in Seq(S) PROVE s \in T
  <2>1. Len(s) \in Good
    BY <1>3
  <2> QED BY <2>1 DEF Good
<1> QED BY <1>4

(* A fold of a sequence from the left takes its largest index last.          *)
Last(K) == CHOOSE m \in K : \A k \in K : m >= k

LEMMA LastIs ==
  ASSUME NEW n \in Nat \ {0}, NEW K, K \subseteq 1 .. n, n \in K
  PROVE  Last(K) = n
<1>1. \A k \in K : n >= k
  OBVIOUS
<1>2. Last(K) \in K /\ \A k \in K : Last(K) >= k
  BY <1>1 DEF Last
<1> HIDE DEF Last
<1>3. Last(K) \in 1 .. n /\ Last(K) >= n
  BY <1>2
<1> QED BY <1>3

LEMMA LastIn ==
  ASSUME NEW n \in Nat, NEW K, K \subseteq 1 .. n, K # {}
  PROVE  Last(K) \in K
<1> DEFINE Over == {m \in Nat : \A k \in K : m >= k}
<1>1. n \in Over /\ Over \subseteq Nat
  OBVIOUS
<1> HIDE DEF Over
<1>2. PICK m \in Over : \A j \in Over : m <= j
  BY <1>1, LeastNat
<1>3. m \in Nat /\ \A k \in K : m >= k
  BY DEF Over
<1>4. m \in K
  <2>1. SUFFICES ASSUME m \notin K PROVE FALSE
    OBVIOUS
  <2>2. m # 0
    <3>1. PICK k \in K : k \in 1 .. n
      OBVIOUS
    <3> QED BY <1>3, <3>1
  <2>3. m - 1 \in Over
    <3>1. \A k \in K : m - 1 >= k
      BY <1>3, <2>1
    <3> QED BY <1>3, <2>2, <3>1 DEF Over
  <2> QED BY <1>2, <1>3, <2>3
<1> QED BY <1>3, <1>4 DEF Last

(* A fold runs: its recursion over the sets of indices has a solution, when  *)
(* each step leads from a state in St to another.                            *)
Folds(it, n, St, base, step) ==
  /\ it \in [SUBSET (1 .. n) -> St]
  /\ \A x \in SUBSET (1 .. n) :
       it[x] = IF x = {} THEN base ELSE step[<<it[x \ {Last(x)}], Last(x)>>]

LEMMA FoldRuns ==
  ASSUME NEW N \in Nat, NEW St, NEW base \in St, NEW step \in [St \X (1 .. N) -> St]
  PROVE  \E it : Folds(it, N, St, base, step)
<1> DEFINE Good == {n \in Nat : n <= N => \E it : Folds(it, n, St, base, step)}
<1>1. 0 \in Good
  <2> DEFINE it == [x \in SUBSET (1 .. 0) |-> base]
  <2>1. \A x \in SUBSET (1 .. 0) : x = {}
    OBVIOUS
  <2>2. Folds(it, 0, St, base, step)
    BY <2>1 DEF Folds
  <2> HIDE DEF it
  <2> QED BY <2>2
<1>2. ASSUME NEW n \in Nat, n \in Good PROVE n + 1 \in Good
  <2> SUFFICES ASSUME n + 1 <= N PROVE \E it : Folds(it, n + 1, St, base, step)
    OBVIOUS
  <2>1. PICK it : Folds(it, n, St, base, step)
    BY <1>2
  <2>2. /\ it \in [SUBSET (1 .. n) -> St]
        /\ \A x \in SUBSET (1 .. n) :
             it[x] = IF x = {} THEN base ELSE step[<<it[x \ {Last(x)}], Last(x)>>]
    BY <2>1 DEF Folds
  <2> DEFINE m == n + 1
             g == [x \in SUBSET (1 .. m) |->
                     IF m \in x THEN step[<<it[x \ {m}], m>>] ELSE it[x]]
  <2>3. m \in Nat \ {0} /\ m \in 1 .. N
    OBVIOUS
  <2>4. ASSUME NEW x \in SUBSET (1 .. m), m \notin x PROVE x \in SUBSET (1 .. n)
    <3>1. \A k \in x : k \in 1 .. m /\ k # m
      BY <2>4
    <3> QED BY <3>1
  <2>5. \A x \in SUBSET (1 .. m) : x \ {m} \in SUBSET (1 .. n)
    <3>1. \A x \in SUBSET (1 .. m) : x \ {m} \in SUBSET (1 .. m) /\ m \notin x \ {m}
      OBVIOUS
    <3> QED BY <2>4, <3>1
  <2>6. ASSUME NEW x \in SUBSET (1 .. m)
        PROVE  /\ g[x] \in St
               /\ g[x] = IF x = {} THEN base ELSE step[<<g[x \ {Last(x)}], Last(x)>>]
    <3>1. CASE m \in x
      <4>1. Last(x) = m
        BY <2>3, <3>1, LastIs
      <4>2. g[x] = step[<<it[x \ {m}], m>>] /\ it[x \ {m}] \in St
        BY <2>2, <2>5, <3>1
      <4>3. x \ {m} \in SUBSET (1 .. m) /\ m \notin x \ {m} /\ x # {}
        BY <3>1
      <4>4. g[x \ {m}] = it[x \ {m}]
        BY <4>3
      <4> QED BY <2>3, <4>1, <4>2, <4>3, <4>4
    <3>2. CASE m \notin x
      <4>1. x \in SUBSET (1 .. n) /\ g[x] = it[x]
        BY <2>4, <3>2
      <4>2. x # {} => /\ x \ {Last(x)} \in SUBSET (1 .. m)
                      /\ g[x \ {Last(x)}] = it[x \ {Last(x)}]
        <5>1. x \ {Last(x)} \in SUBSET (1 .. m) /\ m \notin x \ {Last(x)}
          BY <3>2
        <5> QED BY <5>1
      <4> QED BY <2>2, <4>1, <4>2
    <3> QED BY <3>1, <3>2
  <2>7. g \in [SUBSET (1 .. m) -> St]
    BY <2>6
  <2>8. Folds(g, m, St, base, step)
    BY <2>6, <2>7 DEF Folds
  <2> HIDE DEF g
  <2> QED BY <2>8
<1> HIDE DEF Good
<1>3. N \in Good
  BY <1>1, <1>2, NatsReached
<1> QED BY <1>3 DEF Good

\* The sets a fold goes through are the first indices.
LEMMA FirstIndices ==
  ASSUME NEW n \in Nat, NEW k \in 1 .. n
  PROVE  /\ 1 .. k \in SUBSET (1 .. n) /\ 1 .. k # {}
         /\ Last(1 .. k) = k /\ (1 .. k) \ {Last(1 .. k)} = 1 .. (k - 1)
<1>1. k \in Nat \ {0} /\ 1 .. k \subseteq 1 .. k /\ k \in 1 .. k
  OBVIOUS
<1>2. Last(1 .. k) = k
  BY <1>1, LastIs
<1> QED BY <1>1, <1>2

(* Without the largest number of a set the ranks of the others stay.         *)
LEMMA NthWithout ==
  ASSUME NEW K, K \subseteq Int, IsFiniteSet(K), NEW m \in K, \A k \in K : k <= m
  PROVE  /\ Cardinality(K \ {m}) = Cardinality(K) - 1 /\ Cardinality(K) \in Nat \ {0}
         /\ IsFiniteSet(K \ {m})
         /\ \A n \in 1 .. Cardinality(K \ {m}) : Nth(K, n) = Nth(K \ {m}, n)
         /\ Nth(K, Cardinality(K)) = m
<1> DEFINE J == K \ {m}
<1>1. IsFiniteSet(J) /\ Cardinality(J) = Cardinality(K) - 1 /\ Cardinality(K) \in Nat
  BY FS_RemoveElement, FS_CardinalityType
<1>2. Cardinality(K) # 0
  BY FS_EmptySet
<1>3. ASSUME NEW n \in 1 .. Cardinality(J) PROVE Nth(K, n) = Nth(J, n)
  <2> DEFINE k == Nth(J, n)
  <2>1. J \subseteq Int
    OBVIOUS
  <2>2. k \in J /\ RankIn(J, k) = n
    <3> HIDE DEF J
    <3> QED BY <1>1, <2>1, NthRanked
  <2>3. k \in K /\ k \in Int /\ m \in Int /\ ~ (m <= k)
    <3>1. k \in K /\ k # m
      BY <2>2
    <3> HIDE DEF k, J
    <3> QED BY <3>1
  <2>4. {j \in J : j <= k} = {j \in K : j <= k}
    <3> HIDE DEF k
    <3> QED BY <2>3
  <2>5. RankIn(K, k) = n
    BY <2>2, <2>4 DEF RankIn
  <2> HIDE DEF k, J
  <2>6. Nth(K, RankIn(K, k)) = k
    BY <2>3, NthReaches
  <2> QED BY <2>5, <2>6 DEF k
<1>4. Nth(K, Cardinality(K)) = m
  <2>1. {j \in K : j <= m} = K
    OBVIOUS
  <2>2. RankIn(K, m) = Cardinality(K)
    BY <2>1 DEF RankIn
  <2>3. Nth(K, RankIn(K, m)) = m
    BY NthReaches
  <2> QED BY <2>2, <2>3
<1> QED BY <1>1, <1>2, <1>3, <1>4

(* The entry at the largest position comes last.                             *)
LEMMA EntriesLast ==
  ASSUME NEW s, NEW K, K \subseteq Int, IsFiniteSet(K), NEW m \in K, \A k \in K : k <= m
  PROVE  EntriesAt(s, K) = Append(EntriesAt(s, K \ {m}), s[m])
<1> DEFINE J == K \ {m}
           c == Cardinality(J)
<1>1. c \in Nat /\ Cardinality(K) = c + 1
  <2>1. Cardinality(K \ {m}) = Cardinality(K) - 1 /\ Cardinality(K) \in Nat \ {0}
    BY NthWithout
  <2> DEFINE d == Cardinality(K)
  <2> HIDE DEF d
  <2> QED BY <2>1 DEF d
<1>2. \A n \in 1 .. c : Nth(K, n) = Nth(J, n)
  BY NthWithout
<1>3. Nth(K, c + 1) = m
  BY <1>1, NthWithout
<1> DEFINE e == EntriesAt(s, J)
<1>4. e = [n \in 1 .. c |-> s[Nth(J, n)]]
  BY DEF EntriesAt
<1>5. EntriesAt(s, K) = [n \in 1 .. c + 1 |-> s[Nth(K, n)]]
  BY <1>1 DEF EntriesAt
<1> HIDE DEF c, e, J
<1>6. Len(e) = c
  BY <1>1, <1>4
<1>7. Append(e, s[m]) = [n \in 1 .. c + 1 |-> IF n \in 1 .. c THEN s[Nth(J, n)] ELSE s[m]]
  BY <1>1, <1>4, <1>6
<1>8. \A n \in 1 .. c + 1 : s[Nth(K, n)] = IF n \in 1 .. c THEN s[Nth(J, n)] ELSE s[m]
  BY <1>1, <1>2, <1>3
<1> QED BY <1>5, <1>7, <1>8 DEF e, J

LEMMA EntriesAgree ==
  ASSUME NEW r, NEW s, NEW K, K \subseteq Int, IsFiniteSet(K), \A k \in K : r[k] = s[k]
  PROVE  EntriesAt(r, K) = EntriesAt(s, K)
<1>1. \A n \in 1 .. Cardinality(K) : Nth(K, n) \in K
  BY NthRanked
<1>2. \A n \in 1 .. Cardinality(K) : r[Nth(K, n)] = s[Nth(K, n)]
  BY <1>1
<1> QED BY <1>2 DEF EntriesAt

LEMMA NoEntries == \A s : EntriesAt(s, {}) = <<>>
<1>1. Cardinality({}) = 0
  BY FS_EmptySet
<1>2. 1 .. 0 = {}
  OBVIOUS
<1> QED BY <1>1, <1>2 DEF EntriesAt

(* What is kept of a sequence one entry longer.                              *)
EntriesMore(s, x, K) ==
  EntriesAt(Append(s, x), K)
  = IF Len(s) + 1 \in K THEN Append(EntriesAt(s, K \ {Len(s) + 1}), x) ELSE EntriesAt(s, K)

LEMMA EntriesSnoc ==
  ASSUME NEW X, NEW s \in Seq(X), NEW x \in X, NEW K, K \subseteq 1 .. Len(s) + 1
  PROVE  EntriesMore(s, x, K)
<1> DEFINE m == Len(s) + 1  a == Append(s, x)
<1>1. m \in Nat /\ a[m] = x /\ \A k \in 1 .. Len(s) : a[k] = s[k]
  OBVIOUS
<1>2. K \subseteq Int /\ IsFiniteSet(K)
  <2>1. IsFiniteSet(1 .. m)
    BY <1>1, FS_Interval
  <2>2. K \subseteq 1 .. m /\ K \subseteq Int
    BY <1>1
  <2> QED BY <2>1, <2>2, FS_Subset
<1> HIDE DEF a
<1>3. CASE m \in K
  <2>1. EntriesAt(a, K) = Append(EntriesAt(a, K \ {m}), x)
    <3>1. \A k \in K : k <= m
      OBVIOUS
    <3> HIDE DEF m
    <3> QED BY <1>1, <1>2, <1>3, <3>1, EntriesLast
  <2>2. K \ {m} \subseteq Int /\ IsFiniteSet(K \ {m}) /\ \A k \in K \ {m} : a[k] = s[k]
    <3>1. K \ {m} \subseteq K
      OBVIOUS
    <3>2. IsFiniteSet(K \ {m})
      BY <1>2, <3>1, FS_Subset
    <3>3. \A k \in K \ {m} : k \in 1 .. Len(s)
      OBVIOUS
    <3> QED BY <1>1, <1>2, <3>1, <3>2, <3>3
  <2>3. EntriesAt(a, K \ {m}) = EntriesAt(s, K \ {m})
    BY <2>2, EntriesAgree
  <2> QED BY <1>3, <2>1, <2>3 DEF a, EntriesMore
<1>4. CASE m \notin K
  <2>1. \A k \in K : a[k] = s[k]
    BY <1>1, <1>4
  <2> HIDE DEF m
  <2>2. EntriesAt(a, K) = EntriesAt(s, K)
    BY <1>2, <2>1, EntriesAgree
  <2> QED BY <1>4, <2>2 DEF a, m, EntriesMore
<1> QED BY <1>3, <1>4
=============================================================================
