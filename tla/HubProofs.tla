----------------------------- MODULE HubProofs -----------------------------
(***************************************************************************)
(* The accounting of the Stake Hub, proved for every number of users,      *)
(* validators, batches and coins, and for every configuration.             *)
(*                                                                         *)
(* None of ShareAccounting and Conservation is inductive: submitting a     *)
(* batch writes the entry of the pending id, so that entry, and those      *)
(* after it, must be empty (FreshBatches); and a harvest delegates without *)
(* looking at what it is paid, so no rewards may wait at a validator it    *)
(* did not withdraw from (RewardsAreEarned).                               *)
(*                                                                         *)
(* First come the hub's algorithms: what they return, for every input.     *)
(***************************************************************************)
EXTENDS Hub, SumsProofs

\* A product of naturals divided by a positive natural is a natural, and
\* multiply_ratio by a fraction of at most 1 does not increase its amount.
LEMMA MultiplyRatio ==
  ASSUME NEW a \in Nat, NEW b \in Nat, NEW c \in Nat \ {0}
  PROVE  /\ (a * b) \div c \in Nat
         /\ b <= c => (a * b) \div c <= a
  <1> DEFINE p == a * b
             q == p \div c
  <1>1. p \in Nat
    OBVIOUS
  <1> HIDE DEF p
  <1>2. q \in Nat /\ q * c <= p
    BY <1>1
  <1>3. ASSUME b <= c PROVE q <= a
    <2>1. p <= a * c
      BY <1>3 DEF p
    <2>2. ASSUME q >= a + 1 PROVE FALSE
      <3>1. q * c >= (a + 1) * c
        BY <1>2, <2>2
      <3>2. (a + 1) * c = a * c + c
        OBVIOUS
      <3> QED
        BY <1>1, <1>2, <2>1, <3>1, <3>2
    <2> QED
      BY <1>2, <2>2
  <1> QED
    BY <1>2, <1>3 DEF p

LEMMA SatSubType ==
  ASSUME NEW a \in Nat, NEW b \in Nat
  PROVE  SatSub(a, b) \in Nat /\ SatSub(a, b) <= a
  BY DEF SatSub

LEMMA MulUintType ==
  ASSUME NEW a \in Nat, NEW n \in Nat
  PROVE  MulUint(a, n) \in Nat
  BY OneAssumption, MultiplyRatio DEF MulUint

LEMMA BatchPartType ==
  ASSUME NEW a \in Nat, NEW n \in Nat \ {0}, NEW i
  PROVE  BatchPart(a, n, i) \in Nat
  <1>1. a \div n \in Nat
    OBVIOUS
  <1> QED
    BY <1>1 DEF BatchPart

\* The ids of batches are naturals up to some bound.
Bounded(S) == \E b \in Nat : S \subseteq 0..b

\* Even parts for the members of T, and one more for those that are also in R.
DealtOut(S, T, R, q, g) ==
  \A x \in S : g[x] = IF x \in T THEN q + (IF x \in R THEN 1 ELSE 0) ELSE 0

LEMMA EvenAndOdd ==
  ASSUME NEW S, IsFiniteSet(S), NEW T, T \subseteq S, NEW R, NEW q \in Nat,
         NEW g \in [S -> Nat], DealtOut(S, T, R, q, g)
  PROVE  Total(g) = q * Cardinality(T) + Cardinality(T \cap R)
  <1> DEFINE even == [x \in S |-> IF x \in T THEN q ELSE 0]
             odd  == [x \in S |-> IF x \in T \cap R THEN 1 ELSE 0]
  <1>1. even \in [S -> Nat] /\ odd \in [S -> Nat]
    OBVIOUS
  <1>2. \A x \in S : g[x] = even[x] + odd[x]
    BY DEF DealtOut
  <1>3. /\ \A x \in S : even[x] = IF x \in T THEN q ELSE 0
        /\ \A x \in S : odd[x] = IF x \in T \cap R THEN 1 ELSE 0
    OBVIOUS
  <1> HIDE DEF even, odd
  <1>4. Total(even) = q * Cardinality(T)
    BY <1>1, <1>3, SumSame
  <1>5. Total(odd) = Cardinality(T \cap R)
    <2>1. PICK Q : Q = T \cap R
      OBVIOUS
    <2>2. Q \subseteq S /\ \A x \in S : odd[x] = IF x \in Q THEN 1 ELSE 0
      BY <1>3, <2>1
    <2>3. Total(odd) = Cardinality(Q)
      BY <1>1, <2>2, SumOnes
    <2> QED
      BY <2>1, <2>3
  <1>6. Total(g) = Total(even) + Total(odd)
    BY <1>1, <1>2, SumAdd
  <1> QED
    BY <1>4, <1>5, <1>6

\* The parts of an amount that at most m of the batches share add up to no more than
\* the amount, whichever batches bear the remainder.
LEMMA BatchPartsSum ==
  ASSUME NEW S, Bounded(S), IsFiniteSet(S),
         NEW T, T \subseteq S, NEW m \in Nat \ {0}, Cardinality(T) <= m,
         NEW a \in Nat, NEW g \in [S -> Nat],
         \A x \in S : g[x] = IF x \in T THEN BatchPart(a, m, Rank(S, x)) ELSE 0
  PROVE  Total(g) <= a
  <1>1. PICK q \in Nat, r \in Nat : q = a \div m /\ r = a % m /\ a = m * q + r
    OBVIOUS
  <1>2. PICK R : R = {x \in S : Cardinality({j \in S : j <= x}) <= r}
    OBVIOUS
  <1>3. IsFiniteSet(R) /\ Cardinality(R) \in Nat /\ Cardinality(R) <= r
    BY <1>2, FirstCount DEF Bounded
  <1>4. DealtOut(S, T, R, q, g)
    BY <1>1, <1>2 DEF BatchPart, Rank, DealtOut
  <1>5. Total(g) = q * Cardinality(T) + Cardinality(T \cap R)
    BY <1>4, EvenAndOdd
  <1>6. Cardinality(T \cap R) \in Nat /\ Cardinality(T \cap R) <= r
    <2>1. PICK Q : Q = T \cap R
      OBVIOUS
    <2>2. IsFiniteSet(Q) /\ Cardinality(Q) <= Cardinality(R)
      BY <1>3, <2>1, FS_Subset
    <2>3. Cardinality(Q) \in Nat
      BY <2>2, FS_CardinalityType
    <2> QED
      BY <1>3, <2>1, <2>2, <2>3
  <1>7. PICK t \in Nat : t = Cardinality(T)
    BY FS_Subset, FS_CardinalityType
  <1>8. q * t <= q * m /\ q * t \in Nat /\ q * m \in Nat /\ q * m = m * q
    <2>1. t <= m
      BY <1>7
    <2> QED
      BY <2>1
  <1> QED
    BY <1>1, <1>5, <1>6, <1>7, <1>8

\* A saturating subtraction leaves `left` and misses `miss`: together they account for
\* both sides.
LEMMA SatSubTotals ==
  ASSUME NEW S, IsFiniteSet(S), NEW f \in [S -> Nat], NEW part \in [S -> Nat],
         NEW left \in [S -> Nat], NEW miss \in [S -> Nat],
         \A x \in S : left[x] = SatSub(f[x], part[x]) /\ miss[x] = SatSub(part[x], f[x])
  PROVE  Total(f) + Total(miss) = Total(left) + Total(part)
  <1> DEFINE h == [x \in S |-> f[x] + miss[x]]
  <1>1. h \in [S -> Nat] /\ \A x \in S : h[x] = f[x] + miss[x]
    OBVIOUS
  <1>2. \A x \in S : h[x] = left[x] + part[x]
    BY <1>1 DEF SatSub
  <1> HIDE DEF h
  <1>3. Total(h) = Total(f) + Total(miss)
    BY <1>1, SumAdd
  <1>4. Total(h) = Total(left) + Total(part)
    BY <1>1, <1>2, SumAdd
  <1> QED
    BY <1>3, <1>4

\* reconcile_batches only lowers what the batches owe, and in its three passes takes
\* no more than it was asked to.  The first pass leaves left1, and gap is what the
\* batches that hold too little could not give of it; the second leaves left2, and miss
\* is what it could not take; the third takes that from the oldest batches.
LEMMA ReconcileBatchesLaw ==
  ASSUME NEW S, Bounded(S), IsFiniteSet(S), S # {},
         NEW f \in [S -> Nat], NEW amount \in Nat,
         ReconcileDefined(f, amount)
  PROVE  /\ ReconcileBatches(f, amount) \in [S -> Nat]
         /\ \A id \in S : ReconcileBatches(f, amount)[id] <= f[id]
         /\ Total(f) <= Total(ReconcileBatches(f, amount)) + amount
  <1> DEFINE n     == Cardinality(S)
             part1 == [id \in S |-> BatchPart(amount, n, Rank(S, id))]
             left1 == [id \in S |-> SatSub(f[id], part1[id])]
             under == Underflows(f, amount)
             m     == n - Cardinality(under)
             gap   == [id \in under |-> part1[id] - f[id]]
             short == Total(gap)
             part2 == [id \in S |-> IF left1[id] = 0 THEN 0
                                                     ELSE BatchPart(short, m, Rank(S, id))]
             left2 == [id \in S |-> SatSub(left1[id], part2[id])]
             miss  == [id \in S |-> SatSub(part2[id], left1[id])]
             still == IF m > 1 THEN Total(miss) ELSE 0
             olds(id) == {k \in S : k < id}
             old(id) == [j \in olds(id) |-> left2[j]]
  <1>1. DOMAIN f = S
    OBVIOUS
  <1>2. n \in Nat \ {0}
    BY FS_CardinalityType, FS_EmptySet
  <1>3. part1 \in [S -> Nat]
    BY <1>2, BatchPartType
  <1>4. left1 \in [S -> Nat] /\ \A id \in S : left1[id] <= f[id]
    BY <1>3, SatSubType
  <1>5. under \subseteq S /\ \A id \in under : f[id] < part1[id]
    BY <1>1 DEF Underflows
  <1>6. ReconcileBatches(f, amount) =
          IF under = {} THEN left1
          ELSE [id \in S |-> SatSub(left2[id], SatSub(still, Total(old(id))))]
    BY <1>1 DEF ReconcileBatches
  <1>7. Total(part1) <= amount
    <2>1. \A id \in S : part1[id] = IF id \in S THEN BatchPart(amount, n, Rank(S, id)) ELSE 0
      OBVIOUS
    <2>2. Cardinality(S) <= n
      BY <1>2
    <2> HIDE DEF part1, n
    <2> QED
      BY <1>2, <1>3, <2>1, <2>2, BatchPartsSum
  <1> DEFINE miss1 == [id \in S |-> SatSub(part1[id], f[id])]
  <1>8. /\ miss1 \in [S -> Nat]
         /\ Total(f) + Total(miss1) = Total(left1) + Total(part1)
    <2>1. \A id \in S : left1[id] = SatSub(f[id], part1[id]) /\ miss1[id] = SatSub(part1[id], f[id])
      OBVIOUS
    <2>2. miss1 \in [S -> Nat]
      <3> HIDE DEF part1
      <3> QED
        BY <1>3, SatSubType
    <2> HIDE DEF part1, left1, miss1
    <2> QED
      BY <1>3, <1>4, <2>1, <2>2, SatSubTotals
  <1>9. /\ Total(f) \in Nat /\ Total(miss1) \in Nat
         /\ Total(left1) \in Nat /\ Total(part1) \in Nat
    <2> HIDE DEF part1, left1, miss1
    <2> QED
      BY <1>3, <1>4, <1>8, SumType
  <1>10. CASE under = {}
    <2>1. ReconcileBatches(f, amount) = left1
      BY <1>6, <1>10
    <2> HIDE DEF part1, left1, miss1, under, n
    <2>2. Total(f) <= Total(left1) + amount
      BY <1>7, <1>8, <1>9
    <2> QED
      BY <1>4, <2>1, <2>2
  <1>11. CASE under # {}
    <2>1. under # S
      BY <1>11, <1>1 DEF ReconcileDefined
    <2>2. IsFiniteSet(under) /\ Cardinality(under) \in Nat /\ m \in Nat \ {0}
      <3>1. IsFiniteSet(under)
        BY <1>5, FS_Subset
      <3>2. Cardinality(under) <= n /\ (Cardinality(under) = n => under = S)
        BY <1>5, FS_Subset
      <3> QED
        BY <1>2, <2>1, <3>1, <3>2, FS_CardinalityType
    <2>3. gap \in [under -> Nat]
      BY <1>3, <1>5
    <2>4. short \in Nat
      <3> HIDE DEF gap
      <3> QED
        BY <2>2, <2>3, SumType
    <2>5. part2 \in [S -> Nat]
      <3> HIDE DEF short, m
      <3> QED
        BY <2>2, <2>4, BatchPartType
    <2>6. left2 \in [S -> Nat] /\ \A id \in S : left2[id] <= left1[id]
      <3> HIDE DEF part2, left1
      <3> QED
        BY <1>4, <2>5, SatSubType
    <2>7. miss \in [S -> Nat] /\ Total(miss) \in Nat
      <3>1. miss \in [S -> Nat]
        <4> HIDE DEF part2, left1
        <4> QED
          BY <1>4, <2>5, SatSubType
      <3> HIDE DEF miss
      <3> QED
        BY <3>1, SumType
    <2>8. still \in Nat /\ still <= Total(miss)
      <3> HIDE DEF miss, m
      <3> QED
        BY <2>2, <2>7
    <2>9. short = Total(miss1)
      <3>1. n > 1 /\ under = {id \in S : f[id] < part1[id]}
        BY <1>1, <1>11 DEF Underflows
      <3>2. /\ \A id \in under : miss1[id] = gap[id]
            /\ \A id \in S \ under : miss1[id] = 0
        <4> HIDE DEF part1, under
        <4> QED
          BY <1>3, <3>1 DEF SatSub
      <3> HIDE DEF miss1, gap, under, part1
      <3> QED
        BY <1>5, <1>8, <2>3, <3>2, SumExtend
    <2>10. Total(part2) <= short
      <3> DEFINE T == {id \in S : left1[id] # 0}
      <3>1. \A id \in S : part2[id] = IF id \in T THEN BatchPart(short, m, Rank(S, id)) ELSE 0
        <4> HIDE DEF left1, short, m
        <4> QED
          OBVIOUS
      <3>2. T \subseteq S \ under
        <4> HIDE DEF part1, under
        <4> QED
          BY <1>3, <1>5 DEF SatSub
      <3>3. Cardinality(T) <= m
        <4>1. IsFiniteSet(S \ under) /\ Cardinality(S \ under) = n - Cardinality(under)
          <5>1. S \cap under = under
            BY <1>5
          <5> HIDE DEF under
          <5> QED
            BY <5>1, FS_Difference
        <4> HIDE DEF T, under
        <4> QED
          BY <3>2, <4>1, FS_Subset
      <3>4. T \subseteq S
        OBVIOUS
      <3> HIDE DEF T, part2, short, m
      <3> QED
        BY <2>2, <2>4, <2>5, <3>1, <3>3, <3>4, BatchPartsSum
    <2>11. Total(left1) + Total(miss) = Total(left2) + Total(part2)
      <3>1. \A id \in S : left2[id] = SatSub(left1[id], part2[id]) /\ miss[id] = SatSub(part2[id], left1[id])
        <4> HIDE DEF left1, part2
        <4> QED
          OBVIOUS
      <3> HIDE DEF left1, part2, left2, miss
      <3> QED
        BY <1>4, <2>5, <2>6, <2>7, <3>1, SatSubTotals
    <2>12. Total(left2) \in Nat /\ Total(part2) \in Nat
      <3> HIDE DEF left2, part2
      <3> QED
        BY <2>5, <2>6, SumType
    <2>13. ASSUME NEW id \in S PROVE Total(old(id)) \in Nat
      <3> DEFINE o == old(id)
      <3>1. o \in [olds(id) -> Nat] /\ IsFiniteSet(olds(id))
        <4> HIDE DEF left2
        <4> QED
          BY <2>6, FS_Subset
      <3>2. Total(o) \in Nat
        <4> HIDE DEF o, olds
        <4> QED
          BY <3>1, SumType
      <3> QED
        BY <3>2
    <2> HIDE DEF left2, still, left1, old
    <2>14. \A id \in S : /\ SatSub(left2[id], SatSub(still, Total(old(id)))) \in Nat
                        /\ SatSub(left2[id], SatSub(still, Total(old(id)))) <= left2[id]
      BY <2>6, <2>8, <2>13, SatSubType
    <2> DEFINE last == [id \in S |-> SatSub(left2[id], SatSub(still, Total(old(id))))]
    <2>15. last \in [S -> Nat] /\ \A id \in S : last[id] <= left2[id]
      BY <2>14
    <2>16. ReconcileBatches(f, amount) = last
      BY <1>6, <1>11
    <2> HIDE DEF last
    <2>17. \A id \in S : last[id] <= f[id]
      BY <1>4, <2>6, <2>15
    <2> DEFINE third == [id \in S |-> MinOf(left2[id], SatSub(still, Total(old(id))))]
    <2>18. /\ third \in [S -> Nat]
           /\ \A id \in S : left2[id] = last[id] + third[id]
           /\ \A id \in S : third[id] <= left2[id]
           /\ \A id \in S : third[id] > 0 => Total(old(id)) + third[id] <= still
      <3>1. ASSUME NEW id \in S
            PROVE  /\ third[id] \in Nat /\ third[id] <= left2[id]
                   /\ left2[id] = last[id] + third[id]
                   /\ third[id] > 0 => Total(old(id)) + third[id] <= still
        <4>1. PICK o \in Nat : o = Total(old(id))
          BY <2>13
        <4>2. last[id] = SatSub(left2[id], SatSub(still, o)) /\ third[id] = MinOf(left2[id], SatSub(still, o))
          BY <4>1 DEF last
        <4>3. left2[id] \in Nat
          BY <2>6
        <4> HIDE DEF third
        <4>4. /\ third[id] \in Nat /\ third[id] <= left2[id]
              /\ left2[id] = last[id] + third[id]
              /\ third[id] > 0 => o + third[id] <= still
          BY <2>8, <4>2, <4>3 DEF SatSub, MinOf
        <4> QED
          BY <4>1, <4>4
      <3>2. third = [id \in S |-> third[id]]
        OBVIOUS
      <3> HIDE DEF third
      <3> QED
        BY <3>1, <3>2
    <2> HIDE DEF third
    <2>19. Total(third) <= still
      <3>1. \A id \in S : third[id] > 0 => Total([j \in {i \in S : i < id} |-> left2[j]]) + third[id] <= still
        BY <2>18 DEF old
      <3> QED
        BY <2>6, <2>8, <2>18, <3>1, TakenInOrder DEF Bounded
    <2>20. Total(left2) = Total(last) + Total(third) /\ Total(last) \in Nat /\ Total(third) \in Nat
      BY <2>6, <2>15, <2>18, SumAdd, SumType
    <2> HIDE DEF miss, short, part2, miss1, part1
    <2>21. Total(f) <= Total(last) + amount
      BY <1>7, <1>8, <1>9, <2>4, <2>8, <2>7, <2>9, <2>10, <2>11, <2>12, <2>19, <2>20
    <2> QED
      BY <2>15, <2>16, <2>17, <2>21
  <1> QED
    BY <1>10, <1>11

\* A shortfall that the batches can bear never makes reconcile_batches divide by zero;
\* what it takes from them is never more than the shortfall, and never more than a batch
\* has: for every number of batches and all amounts.
THEOREM ReconcileIsBounded ==
  ASSUME NEW S, Bounded(S), IsFiniteSet(S), S # {}, NEW f \in [S -> Nat], NEW amount \in Nat
  PROVE  /\ amount <= Total(f) => ReconcileDefined(f, amount)
         /\ ReconcileDefined(f, amount) =>
              LET left == ReconcileBatches(f, amount)
              IN  /\ \A id \in S : left[id] \in 0..f[id]
                  /\ Total(left) >= SatSub(Total(f), amount)
  <1>1. ASSUME ~ReconcileDefined(f, amount) PROVE ~(amount <= Total(f))
    <2>1. PICK n \in Nat \ {0} : n = Cardinality(S)
      BY FS_CardinalityType, FS_EmptySet
    <2>2. PICK part, miss, left :
            /\ part = [id \in S |-> BatchPart(amount, n, Rank(S, id))]
            /\ miss = [id \in S |-> SatSub(part[id], f[id])]
            /\ left = [id \in S |-> SatSub(f[id], part[id])]
      OBVIOUS
    <2>3. \A id \in S : f[id] < part[id]
      BY <1>1, <2>1, <2>2 DEF ReconcileDefined, Underflows
    <2>4. part \in [S -> Nat]
      BY <2>1, <2>2, BatchPartType
    <2>5. Total(part) <= amount
      <3>1. \A id \in S : part[id] = IF id \in S THEN BatchPart(amount, n, Rank(S, id)) ELSE 0
        BY <2>2
      <3>2. Cardinality(S) <= n
        BY <2>1
      <3> QED
        BY <2>4, <3>1, <3>2, BatchPartsSum
    <2>6. /\ miss \in [S -> Nat] /\ left \in [S -> Nat]
          /\ \A id \in S : left[id] = SatSub(f[id], part[id]) /\ miss[id] = SatSub(part[id], f[id])
      BY <2>2, <2>4, SatSubType
    <2>7. Total(f) + Total(miss) = Total(left) + Total(part)
      BY <2>4, <2>6, SatSubTotals
    <2>8. \A id \in S : left[id] = 0 /\ miss[id] # 0
      BY <2>3, <2>4, <2>6 DEF SatSub
    <2>9. Total(left) = 0 /\ Total(miss) # 0
      BY <2>6, <2>8, SumZero
    <2>10. Total(f) \in Nat /\ Total(miss) \in Nat /\ Total(part) \in Nat
      BY <2>4, <2>6, SumType
    <2> QED
      BY <2>5, <2>7, <2>9, <2>10
  <1>2. ASSUME ReconcileDefined(f, amount), NEW left, left = ReconcileBatches(f, amount)
        PROVE  /\ \A id \in S : left[id] \in 0..f[id]
               /\ Total(left) >= SatSub(Total(f), amount)
    <2>1. /\ left \in [S -> Nat] /\ \A id \in S : left[id] <= f[id]
          /\ Total(f) <= Total(left) + amount
      BY <1>2, ReconcileBatchesLaw
    <2>2. Total(f) \in Nat /\ Total(left) \in Nat
      BY <2>1, SumType
    <2> QED
      BY <2>1, <2>2 DEF SatSub
  <1> QED
    BY <1>1, <1>2

-----------------------------------------------------------------------------
(***************************************************************************)
(* The inductive invariant                                                 *)
(***************************************************************************)

\* Rewards wait only at validators with a delegation.  reinvest relies on it ("we
\* have already withdrawn all claimable staking rewards").
RewardsAreEarned == \A v \in Validators : rewards[v] > 0 => delegated[v] > 0

\* Nothing is stored under the ids of batches not submitted yet.
FreshBatches ==
  \A id \in BatchIds : id >= pending_batch.id =>
    /\ total_shares[id] = 0
    /\ uluna_unclaimed[id] = 0
    /\ unbonding[id] = 0

Inv ==
  /\ TypeOK
  /\ ShareAccounting
  /\ Conservation
  /\ RewardsAreEarned
  /\ FreshBatches

-----------------------------------------------------------------------------
(***************************************************************************)
(* The sets that amounts are indexed by are finite                         *)
(***************************************************************************)

LEMMA FiniteIndices ==
  /\ IsFiniteSet(Users) /\ IsFiniteSet(Validators)
  /\ IsFiniteSet(BatchIds) /\ IsFiniteSet(Holders)
  <1>1. IsFiniteSet(Users) /\ IsFiniteSet(Validators) /\ MaxBatches \in Nat
    BY HubAssumption
  <1>2. IsFiniteSet(BatchIds)
    BY <1>1, FS_Interval DEF BatchIds
  <1>3. IsFiniteSet(Holders)
    BY <1>1, FS_AddElement DEF Holders
  <1> QED
    BY <1>1, <1>2, <1>3

LEMMA IdsAreNat ==
  /\ BatchIds \subseteq Nat
  /\ TypeOK => pending_batch.id \in BatchIds
  /\ Users \subseteq Holders /\ HubAddr \in Holders
  BY HubAssumption DEF BatchIds, TypeOK, Holders

LEMMA BoundedIds ==
  ASSUME NEW D, D \subseteq BatchIds
  PROVE  Bounded(D)
  <1>1. MaxBatches \in Nat
    BY HubAssumption
  <1>2. D \subseteq 0..MaxBatches
    BY <1>1 DEF BatchIds
  <1> QED
    BY <1>1, <1>2 DEF Bounded

LEMMA PayoutType ==
  ASSUME TypeOK, NEW vs
  PROVE  Payout(vs) \in Nat
  <1> DEFINE f == [v \in Validators |-> IF v \in vs THEN rewards[v] ELSE 0]
  <1>1. f \in [Validators -> Nat]
    BY DEF TypeOK
  <1>2. Total(f) \in Nat
    <2> HIDE DEF f
    <2> QED
      BY <1>1, FiniteIndices, SumType
  <1> QED
    BY <1>2 DEF Payout

LEMMA AmountOfType ==
  ASSUME NEW msgs, ValidMsgs(msgs), NEW sub, sub \subseteq msgs
  PROVE  AmountOf(sub) \in Nat
  BY DEF ValidMsgs, AmountOf

\* Shares are claimed from batches that were submitted.
LEMMA SubmittedBatches ==
  ASSUME Inv, NEW id \in Batches
  PROVE  /\ id \in BatchIds
         /\ id < pending_batch.id
         /\ total_shares[id] \in Nat \ {0}
         /\ total_shares[id] = Total(unbond_requests[id])
         /\ \A u \in Users : unbond_requests[id][u] <= total_shares[id]
  <1>1. id \in BatchIds /\ total_shares[id] \in Nat /\ total_shares[id] > 0
    BY DEF Inv, TypeOK, Batches
  <1>2. id < pending_batch.id
    <2>1. id \in Nat /\ pending_batch.id \in Nat
      BY <1>1, IdsAreNat DEF Inv
    <2>2. id >= pending_batch.id => total_shares[id] = 0
      BY <1>1 DEF Inv, FreshBatches
    <2> QED
      BY <1>1, <2>1, <2>2
  <1>3. total_shares[id] = Total(unbond_requests[id])
    BY <1>1, <1>2, IdsAreNat DEF Inv, ShareAccounting
  <1>4. unbond_requests[id] \in [Users -> Nat]
    BY <1>1 DEF Inv, TypeOK
  <1>5. ASSUME NEW u \in Users PROVE unbond_requests[id][u] <= Total(unbond_requests[id])
    <2> DEFINE r == unbond_requests[id]
    <2>1. r \in [Users -> Nat]
      BY <1>4
    <2>2. r[u] <= Total(r)
      <3> HIDE DEF r
      <3> QED
        BY <2>1, FiniteIndices, SumElement
    <2> QED
      BY <2>2
  <1> QED
    BY <1>1, <1>2, <1>3, <1>5

-----------------------------------------------------------------------------
(***************************************************************************)
(* Initial states                                                          *)
(***************************************************************************)

LEMMA InitInv == Init => Inv
  <1> SUFFICES ASSUME Init PROVE Inv
    OBVIOUS
  <1>1. TypeOK
    BY HubAssumption DEF Init, TypeOK, BatchIds, Holders
  <1>3. ASSUME NEW id \in BatchIds PROVE Total(unbond_requests[id]) = 0
    <2> DEFINE r == unbond_requests[id]
    <2>1. r \in [Users -> Nat] /\ \A u \in Users : r[u] = 0
      BY DEF Init
    <2>2. Total(r) = 0
      <3> HIDE DEF r
      <3> QED
        BY <2>1, FiniteIndices, SumZero
    <2> QED
      BY <2>2
  <1>4. ShareAccounting
    <2>1. pending_batch.id \in BatchIds /\ pending_batch.ustake_to_burn = 0
      BY <1>1, IdsAreNat DEF Init
    <2>2. balance[HubAddr] = 0 /\ \A id \in BatchIds : total_shares[id] = 0
      BY IdsAreNat DEF Init
    <2> QED
      BY <1>3, <2>1, <2>2 DEF ShareAccounting
  <1>5. Total(unbonding) = 0 /\ Total(uluna_unclaimed) = 0
    <2>1. /\ unbonding \in [BatchIds -> Nat] /\ \A id \in BatchIds : unbonding[id] = 0
          /\ uluna_unclaimed \in [BatchIds -> Nat] /\ \A id \in BatchIds : uluna_unclaimed[id] = 0
      BY DEF Init
    <2> QED
      BY <2>1, FiniteIndices, SumZero
  <1>6. Conservation
    BY <1>5 DEF Init, Conservation
  <1>7. RewardsAreEarned /\ FreshBatches
    BY DEF Init, RewardsAreEarned, FreshBatches
  <1> QED
    BY <1>1, <1>4, <1>6, <1>7 DEF Inv

-----------------------------------------------------------------------------
(***************************************************************************)
(* Every step preserves Inv: the steps that leave the queue alone          *)
(***************************************************************************)

\* A transaction that only has rewards paid out, and tracks them.
LEMMA TrackedPayout ==
  ASSUME Inv, NEW vs,
         bank' = bank + Payout(vs),
         unlocked_coins' = unlocked_coins + Payout(vs),
         UNCHANGED <<unbonding, uluna_unclaimed, slashed, deducted>>
  PROVE  Conservation' /\ bank' \in Nat /\ unlocked_coins' \in Nat
  <1>1. Payout(vs) \in Nat
    BY PayoutType DEF Inv
  <1>2. Total(unbonding) \in Nat /\ Total(uluna_unclaimed) \in Nat
    BY FiniteIndices, SumType DEF Inv, TypeOK
  <1>3. bank \in Nat /\ unlocked_coins \in Nat /\ slashed \in Nat /\ deducted \in Nat
    BY DEF Inv, TypeOK
  <1>4. bank + Total(unbonding) + slashed = unlocked_coins + Total(uluna_unclaimed) + deducted
    BY DEF Inv, Conservation
  <1>5. bank' + Total(unbonding') + slashed' = unlocked_coins' + Total(uluna_unclaimed') + deducted'
    BY <1>1, <1>2, <1>3, <1>4
  <1> QED
    BY <1>1, <1>3, <1>5 DEF Conservation

LEMMA ClearRewardsType ==
  ASSUME TypeOK, NEW vs, ClearRewards(vs)
  PROVE  /\ rewards' \in [Validators -> Nat]
         /\ \A v \in Validators : rewards'[v] > 0 => v \notin vs /\ rewards[v] > 0
  BY DEF TypeOK, ClearRewards

\* A delegation of amount to validator v, chosen by FindNewDelegation.
LEMMA DelegateInv ==
  ASSUME Inv, NEW v, NEW vs, v \in vs, NEW amount \in Nat,
         delegated' = [delegated EXCEPT ![v] = @ + amount],
         ClearRewards(vs)
  PROVE  /\ delegated' \in [Validators -> Nat]
         /\ rewards' \in [Validators -> Nat]
         /\ RewardsAreEarned'
  <1>1. delegated \in [Validators -> Nat]
    BY DEF Inv, TypeOK
  <1>2. delegated' \in [Validators -> Nat] /\ \A w \in Validators : delegated'[w] >= delegated[w]
    <2>1. CASE v \in Validators
      BY <1>1, <2>1
    <2>2. CASE v \notin Validators
      <3>1. delegated = [w \in Validators |-> delegated[w]]
        BY <1>1
      <3>2. delegated' = [w \in Validators |-> IF w = v THEN delegated[v] + amount ELSE delegated[w]]
        BY <1>1, Zenon
      <3>3. delegated' = delegated
        BY <2>2, <3>1, <3>2
      <3>4. delegated' \in [Validators -> Nat]
        BY <1>1, <3>3, Zenon
      <3>5. \A w \in Validators : delegated[w] \in Nat /\ delegated'[w] = delegated[w]
        BY <1>1, <3>3, Zenon
      <3>6. \A n \in Nat : n >= n
        OBVIOUS
      <3> QED
        BY <3>4, <3>5, <3>6, Zenon
    <2> QED
      BY <2>1, <2>2
  <1>3. /\ rewards' \in [Validators -> Nat]
        /\ \A w \in Validators : rewards'[w] > 0 => rewards[w] > 0
    BY ClearRewardsType DEF Inv
  <1>4. RewardsAreEarned'
    <2> SUFFICES ASSUME NEW w \in Validators, rewards'[w] > 0 PROVE delegated'[w] > 0
      BY DEF RewardsAreEarned
    <2>1. delegated[w] > 0
      BY <1>3 DEF Inv, RewardsAreEarned
    <2> QED
      BY <1>1, <1>2, <2>1
  <1> QED
    BY <1>2, <1>3, <1>4

\* What a step keeps when it leaves the queue, and the hub's ustake, alone.
LEMMA QueueUnchanged ==
  ASSUME Inv, UNCHANGED queue, UNCHANGED unbonding, balance'[HubAddr] >= balance[HubAddr],
         balance' \in [Holders -> Nat]
  PROVE  ShareAccounting' /\ FreshBatches'
  <1>1. pending_batch.ustake_to_burn \in Nat /\ balance[HubAddr] \in Nat /\ balance'[HubAddr] \in Nat
    BY IdsAreNat DEF Inv, TypeOK
  <1>2. pending_batch' = pending_batch /\ total_shares' = total_shares
          /\ unbond_requests' = unbond_requests /\ uluna_unclaimed' = uluna_unclaimed
          /\ unbonding' = unbonding
    BY DEF queue, previous_batches
  <1>3. ShareAccounting'
    BY <1>1, <1>2 DEF Inv, ShareAccounting
  <1>4. FreshBatches'
    BY <1>2 DEF Inv, FreshBatches
  <1> QED
    BY <1>3, <1>4

LEMMA SupplyType == TypeOK => Supply \in Nat /\ Bonded \in Nat
  BY FiniteIndices, SumType DEF TypeOK, Supply, Bonded

\* What Bond mints is an amount of ustake.
LEMMA MintType ==
  ASSUME TypeOK, NEW amount \in Nat, NEW vs
  PROVE  ComputeMintAmount(Supply, amount,
           Total([w \in Validators |-> IF w \in vs THEN delegated[w] ELSE 0])) \in Nat
  <1> DEFINE f == [w \in Validators |-> IF w \in vs THEN delegated[w] ELSE 0]
  <1>1. f \in [Validators -> Nat]
    BY DEF TypeOK
  <1>2. Total(f) \in Nat
    <2> HIDE DEF f
    <2> QED
      BY <1>1, FiniteIndices, SumType
  <1> HIDE DEF f
  <1>3. ComputeMintAmount(Supply, amount, Total(f)) \in Nat
    BY <1>2, SupplyType, MultiplyRatio DEF ComputeMintAmount
  <1> QED
    BY <1>3 DEF f

LEMMA BondInv ==
  ASSUME Inv, NEW u \in Users, NEW amount \in BondAmounts, Bond(u, amount)
  PROVE  Inv'
  <1> DEFINE list == NewDelegationList
             v    == FindNewDelegation(list)
             mint == ComputeMintAmount(Supply, amount,
                       Total([w \in Validators |-> IF w \in Range(list) THEN delegated[w] ELSE 0]))
  <1>1. amount \in Nat /\ mint \in Nat
    BY HubAssumption, MintType DEF Inv
  <1>2. /\ delegated' = [delegated EXCEPT ![v] = @ + amount]
        /\ balance' = [balance EXCEPT ![u] = @ + mint]
        /\ bank' = bank + Payout({v})
        /\ unlocked_coins' = unlocked_coins + Payout({v})
        /\ ClearRewards({v})
        /\ UNCHANGED <<now, unbonding, completion, queue, admin, history>>
    BY DEF CheckReceivedCoin, Bond
  <1> HIDE DEF v, mint
  <1>3. /\ delegated' \in [Validators -> Nat] /\ rewards' \in [Validators -> Nat]
        /\ RewardsAreEarned'
    BY <1>1, <1>2, DelegateInv
  <1>4. Conservation' /\ bank' \in Nat /\ unlocked_coins' \in Nat
    BY <1>2, TrackedPayout DEF queue, previous_batches, history
  <1>5. balance' \in [Holders -> Nat] /\ balance'[HubAddr] >= balance[HubAddr]
    BY <1>1, <1>2, IdsAreNat DEF Inv, TypeOK
  <1>6. ShareAccounting' /\ FreshBatches'
    BY <1>2, <1>5, QueueUnchanged
  <1>7. TypeOK'
    BY <1>2, <1>3, <1>4, <1>5 DEF Inv, TypeOK, queue, previous_batches, admin, history
  <1> QED
    BY <1>3, <1>4, <1>6, <1>7 DEF Inv

LEMMA DonateInv ==
  ASSUME Inv, NEW amount \in BondAmounts, Donate(amount)
  PROVE  Inv'
  <1> DEFINE v == FindNewDelegation(NewDelegationList)
  <1>1. amount \in Nat
    BY HubAssumption
  <1>2. /\ delegated' = [delegated EXCEPT ![v] = @ + amount]
        /\ bank' = bank + Payout({v})
        /\ unlocked_coins' = unlocked_coins + Payout({v})
        /\ ClearRewards({v})
        /\ UNCHANGED <<now, unbonding, completion, balance, queue, admin, history>>
    BY DEF CheckReceivedCoin, Donate
  <1> HIDE DEF v
  <1>3. /\ delegated' \in [Validators -> Nat] /\ rewards' \in [Validators -> Nat]
        /\ RewardsAreEarned'
    BY <1>1, <1>2, DelegateInv
  <1>4. Conservation' /\ bank' \in Nat /\ unlocked_coins' \in Nat
    BY <1>2, TrackedPayout DEF queue, previous_batches, history
  <1>5. balance' \in [Holders -> Nat] /\ balance'[HubAddr] >= balance[HubAddr]
    BY <1>2, IdsAreNat DEF Inv, TypeOK
  <1>6. ShareAccounting' /\ FreshBatches'
    BY <1>2, <1>5, QueueUnchanged
  <1>7. TypeOK'
    BY <1>2, <1>3, <1>4, <1>5 DEF Inv, TypeOK, queue, previous_batches, admin, history
  <1> QED
    BY <1>3, <1>4, <1>6, <1>7 DEF Inv

\* Reinvest's delegation is paid no rewards: all of them were just withdrawn.
LEMMA HarvestInv ==
  ASSUME Inv, Harvest
  PROVE  Inv'
  <1> DEFINE earning == {w \in Validators : delegated[w] > 0}
             available == unlocked_coins + Payout(earning)
             amount == SatSub(available, MulUint(config.protocol_reward_fee, available))
             v == FindNewDelegation(NewDelegationList)
  <1>1. /\ available <= bank + Payout(earning)
        /\ delegated' = [delegated EXCEPT ![v] = @ + amount]
        /\ bank' = bank - unlocked_coins + Payout({v} \ earning)
        /\ unlocked_coins' = 0
        /\ ClearRewards(earning \cup {v})
        /\ UNCHANGED <<now, unbonding, completion, balance, queue, admin, history>>
    BY DEF Harvest
  <1>2. Payout(earning) \in Nat /\ unlocked_coins \in Nat /\ bank \in Nat
    BY PayoutType DEF Inv, TypeOK
  <1>3. amount \in Nat
    <2>1. config.protocol_reward_fee \in Nat
      BY HubAssumption DEF Inv, TypeOK
    <2>2. available \in Nat
      BY <1>2
    <2> HIDE DEF available
    <2> QED
      BY <2>1, <2>2, MulUintType, SatSubType
  <1>4. Payout({v} \ earning) = 0
    <2> DEFINE f == [w \in Validators |-> IF w \in {v} \ earning THEN rewards[w] ELSE 0]
    <2>1. f \in [Validators -> Nat] /\ \A w \in Validators : f[w] = 0
      BY DEF Inv, TypeOK, RewardsAreEarned
    <2>2. Total(f) = 0
      <3> HIDE DEF f
      <3> QED
        BY <2>1, FiniteIndices, SumZero
    <2> QED
      BY <2>2 DEF Payout
  <1> HIDE DEF v, amount
  <1>5. bank' \in Nat /\ bank' = bank - unlocked_coins
    BY <1>1, <1>2, <1>4
  <1>6. Conservation'
    <2>1. Total(unbonding) \in Nat /\ Total(uluna_unclaimed) \in Nat
      BY FiniteIndices, SumType DEF Inv, TypeOK
    <2>2. slashed \in Nat /\ deducted \in Nat
      BY DEF Inv, TypeOK
    <2>3. bank + Total(unbonding) + slashed = unlocked_coins + Total(uluna_unclaimed) + deducted
      BY DEF Inv, Conservation
    <2>4. /\ unbonding' = unbonding /\ uluna_unclaimed' = uluna_unclaimed
          /\ slashed' = slashed /\ deducted' = deducted /\ unlocked_coins' = 0
      BY <1>1 DEF queue, previous_batches, history
    <2>5. bank' + Total(unbonding') + slashed' = unlocked_coins' + Total(uluna_unclaimed') + deducted'
      BY <1>2, <1>5, <2>1, <2>2, <2>3, <2>4
    <2> QED
      BY <2>5 DEF Conservation
  <1>7. /\ delegated' \in [Validators -> Nat] /\ rewards' \in [Validators -> Nat]
        /\ RewardsAreEarned'
    <2>1. v \in earning \cup {v}
      OBVIOUS
    <2> HIDE DEF earning
    <2> QED
      BY <1>1, <1>3, <2>1, DelegateInv
  <1>8. balance' \in [Holders -> Nat] /\ balance'[HubAddr] >= balance[HubAddr]
    BY <1>1, IdsAreNat DEF Inv, TypeOK
  <1>9. ShareAccounting' /\ FreshBatches'
    BY <1>1, <1>8, QueueUnchanged
  <1>10. TypeOK'
    BY <1>1, <1>5, <1>7, <1>8 DEF Inv, TypeOK, queue, previous_batches, admin, history
  <1> QED
    BY <1>6, <1>7, <1>9, <1>10 DEF Inv

\* Steps that touch neither the hub's coins nor its queue.
LEMMA AccountsUnchanged ==
  ASSUME Inv,
         UNCHANGED <<bank, unbonding, balance, queue, unlocked_coins, history>>
  PROVE  ShareAccounting' /\ Conservation' /\ FreshBatches'
  <1>1. /\ bank' = bank /\ unbonding' = unbonding /\ uluna_unclaimed' = uluna_unclaimed
        /\ unlocked_coins' = unlocked_coins /\ slashed' = slashed /\ deducted' = deducted
    BY DEF queue, previous_batches, history
  <1>2. Conservation'
    BY <1>1 DEF Inv, Conservation
  <1>3. balance' \in [Holders -> Nat] /\ balance'[HubAddr] >= balance[HubAddr]
    BY IdsAreNat DEF Inv, TypeOK
  <1> QED
    BY <1>2, <1>3, QueueUnchanged

LEMMA AccrueRewardsInv ==
  ASSUME Inv, NEW v \in Validators, NEW n \in RewardAmounts, AccrueRewards(v, n)
  PROVE  Inv'
  <1>1. n \in Nat
    BY HubAssumption
  <1>2. ShareAccounting' /\ Conservation' /\ FreshBatches'
    BY AccountsUnchanged DEF AccrueRewards
  <1>3. TypeOK'
    BY <1>1 DEF Inv, TypeOK, AccrueRewards, queue, previous_batches, admin, history
  <1>4. RewardsAreEarned'
    BY <1>1 DEF Inv, TypeOK, RewardsAreEarned, AccrueRewards
  <1> QED
    BY <1>2, <1>3, <1>4 DEF Inv

LEMMA SlashDelegationInv ==
  ASSUME Inv, NEW v \in Validators, NEW n \in DelegationSlashes, SlashDelegation(v, n)
  PROVE  Inv'
  <1>1. n \in Nat
    BY HubAssumption
  <1>2. ShareAccounting' /\ Conservation' /\ FreshBatches'
    BY AccountsUnchanged DEF SlashDelegation
  <1>3. delegated' \in [Validators -> Nat] /\ \A w \in Validators : delegated[w] > 0 => delegated'[w] > 0
    BY <1>1 DEF Inv, TypeOK, SlashDelegation
  <1>4. TypeOK'
    BY <1>3 DEF Inv, TypeOK, SlashDelegation, queue, previous_batches, admin, history
  <1>5. RewardsAreEarned'
    BY <1>3 DEF Inv, TypeOK, RewardsAreEarned, SlashDelegation
  <1> QED
    BY <1>2, <1>4, <1>5 DEF Inv

\* The owner's steps that change only the whitelist, the goal or the configuration.
LEMMA AdminInv ==
  ASSUME Inv,
         UNCHANGED <<now, bank, staking, unbonding, completion, balance, queue,
                     unlocked_coins, history>>,
         config' \in Configs \cup {InitialConfig}
  PROVE  Inv'
  <1>1. ShareAccounting' /\ Conservation' /\ FreshBatches'
    BY AccountsUnchanged
  <1>2. TypeOK'
    BY DEF Inv, TypeOK, staking, queue, previous_batches, history
  <1>3. RewardsAreEarned'
    BY DEF Inv, RewardsAreEarned, staking
  <1> QED
    BY <1>1, <1>2, <1>3 DEF Inv

LEMMA TransferInv ==
  ASSUME Inv, NEW u \in Users, NEW h \in Holders, NEW n \in 1..balance[u], Transfer(u, h, n)
  PROVE  Inv'
  <1>1. u \in Holders /\ u # HubAddr /\ HubAddr \in Holders
    BY HubAssumption, IdsAreNat
  <1>2. balance \in [Holders -> Nat] /\ balance[u] \in Nat /\ n \in Nat
    BY <1>1 DEF Inv, TypeOK
  <1>3. balance' \in [Holders -> Nat] /\ balance'[HubAddr] >= balance[HubAddr]
    BY <1>1, <1>2 DEF Transfer
  <1>4. ShareAccounting' /\ FreshBatches'
    BY <1>3, QueueUnchanged DEF Transfer
  <1>5. Conservation' /\ RewardsAreEarned'
    BY DEF Inv, Conservation, RewardsAreEarned, Transfer, staking, queue, previous_batches, history
  <1>6. TypeOK'
    BY <1>3 DEF Inv, TypeOK, Transfer, staking, queue, previous_batches, admin, history
  <1> QED
    BY <1>4, <1>5, <1>6 DEF Inv

-----------------------------------------------------------------------------
(***************************************************************************)
(* The steps of unbonding entries                                          *)
(***************************************************************************)

LEMMA SlashUnbondingInv ==
  ASSUME Inv, NEW id \in BatchIds, NEW n \in UnbondingSlashes, SlashUnbonding(id, n)
  PROVE  Inv'
  <1>1. n \in Nat
    BY HubAssumption
  <1>2. /\ n < unbonding[id] /\ unbonding' = [unbonding EXCEPT ![id] = @ - n]
        /\ slashed' = slashed + n
        /\ UNCHANGED <<now, bank, staking, completion, balance, queue, unlocked_coins,
                       admin, deducted>>
    BY DEF SlashUnbonding
  <1>3. /\ unbonding \in [BatchIds -> Nat] /\ slashed \in Nat /\ bank \in Nat
        /\ unlocked_coins \in Nat /\ deducted \in Nat
    BY DEF Inv, TypeOK
  <1>4. /\ unbonding' \in [BatchIds -> Nat] /\ unbonding'[id] = unbonding[id] - n
        /\ \A j \in BatchIds \ {id} : unbonding'[j] = unbonding[j]
    BY <1>1, <1>2, <1>3
  <1>5. Total(unbonding') + unbonding[id] = Total(unbonding) + unbonding'[id]
    BY <1>3, <1>4, FiniteIndices, SumChange
  <1>6. Total(unbonding) \in Nat /\ Total(unbonding') \in Nat /\ Total(uluna_unclaimed) \in Nat
    BY <1>3, <1>4, FiniteIndices, SumType DEF Inv, TypeOK
  <1>7. Total(unbonding') + n = Total(unbonding)
    BY <1>1, <1>3, <1>4, <1>5, <1>6
  <1>8. Conservation'
    <2>1. bank + Total(unbonding) + slashed = unlocked_coins + Total(uluna_unclaimed) + deducted
      BY DEF Inv, Conservation
    <2>2. /\ bank' = bank /\ uluna_unclaimed' = uluna_unclaimed
          /\ unlocked_coins' = unlocked_coins /\ deducted' = deducted /\ slashed' = slashed + n
      BY <1>2 DEF queue, previous_batches
    <2>3. bank' + Total(unbonding') + slashed' = unlocked_coins' + Total(uluna_unclaimed') + deducted'
      BY <1>1, <1>3, <1>6, <1>7, <2>1, <2>2
    <2> QED
      BY <2>3 DEF Conservation
  <1>9. ShareAccounting' /\ RewardsAreEarned'
    BY <1>2 DEF Inv, ShareAccounting, RewardsAreEarned, staking, queue, previous_batches
  <1>10. FreshBatches'
    <2>1. pending_batch' = pending_batch /\ total_shares' = total_shares
            /\ uluna_unclaimed' = uluna_unclaimed
      BY <1>2 DEF queue, previous_batches
    <2>2. \A j \in BatchIds : unbonding[j] = 0 => unbonding'[j] = 0
      BY <1>1, <1>2, <1>3, <1>4
    <2> QED
      BY <2>1, <2>2 DEF Inv, FreshBatches
  <1>11. TypeOK'
    BY <1>1, <1>2, <1>4 DEF Inv, TypeOK, staking, queue, previous_batches, admin
  <1> QED
    BY <1>8, <1>9, <1>10, <1>11 DEF Inv

\* The end of a block moves the matured entries into the hub's account.
LEMMA NextBlockInv ==
  ASSUME Inv, NextBlock
  PROVE  Inv'
  <1> DEFINE matured == {id \in BatchIds : completion[id] <= now}
             paid == [id \in matured |-> unbonding[id]]
             all  == [id \in BatchIds |-> IF id \in matured THEN unbonding[id] ELSE 0]
  <1>1. /\ bank' = bank + Total(paid)
        /\ unbonding' = [id \in BatchIds |-> IF id \in matured THEN 0 ELSE unbonding[id]]
        /\ \E gap \in 1..MaxGap : now' = now + gap
        /\ UNCHANGED <<staking, completion, balance, queue, unlocked_coins, admin, history>>
    BY DEF NextBlock
  <1>2. unbonding \in [BatchIds -> Nat] /\ now \in Nat /\ bank \in Nat /\ slashed \in Nat
    BY DEF Inv, TypeOK
  <1>3. /\ matured \subseteq BatchIds /\ paid \in [matured -> Nat] /\ all \in [BatchIds -> Nat]
        /\ unbonding' \in [BatchIds -> Nat]
        /\ \A id \in matured : all[id] = paid[id]
        /\ \A id \in BatchIds \ matured : all[id] = 0
        /\ \A id \in BatchIds : unbonding[id] = unbonding'[id] + all[id]
    <2> HIDE DEF matured
    <2>1. matured \subseteq BatchIds
      BY DEF matured
    <2> QED
      BY <1>1, <1>2, <2>1
  <1>4. now' \in Nat
    BY <1>1, <1>2, HubAssumption
  <1> HIDE DEF matured, paid, all
  <1>5. Total(all) = Total(paid)
    BY <1>3, SumExtend
  <1>6. Total(unbonding) = Total(unbonding') + Total(all)
    BY <1>2, <1>3, FiniteIndices, SumAdd
  <1>7. Total(all) \in Nat /\ Total(unbonding') \in Nat
    BY <1>3, FiniteIndices, SumType
  <1>8. bank' \in Nat /\ bank' + Total(unbonding') = bank + Total(unbonding)
    BY <1>1, <1>2, <1>5, <1>6, <1>7
  <1>9. Conservation'
    <2>1. bank + Total(unbonding) + slashed = unlocked_coins + Total(uluna_unclaimed) + deducted
      BY DEF Inv, Conservation
    <2>2. /\ uluna_unclaimed' = uluna_unclaimed
          /\ unlocked_coins' = unlocked_coins /\ deducted' = deducted /\ slashed' = slashed
      BY <1>1 DEF queue, previous_batches, history
    <2>3. bank' + Total(unbonding') + slashed' = unlocked_coins' + Total(uluna_unclaimed') + deducted'
      BY <1>2, <1>7, <1>8, <2>1, <2>2
    <2> QED
      BY <2>3 DEF Conservation
  <1>10. ShareAccounting' /\ RewardsAreEarned'
    BY <1>1 DEF Inv, ShareAccounting, RewardsAreEarned, staking, queue, previous_batches
  <1>11. FreshBatches'
    <2>1. pending_batch' = pending_batch /\ total_shares' = total_shares
            /\ uluna_unclaimed' = uluna_unclaimed
      BY <1>1 DEF queue, previous_batches
    <2>2. \A j \in BatchIds : unbonding[j] = 0 => unbonding'[j] = 0
      BY <1>1
    <2> QED
      BY <2>1, <2>2 DEF Inv, FreshBatches
  <1>12. TypeOK'
    BY <1>1, <1>3, <1>4, <1>8 DEF Inv, TypeOK, staking, queue, previous_batches, admin, history
  <1> QED
    BY <1>9, <1>10, <1>11, <1>12 DEF Inv

-----------------------------------------------------------------------------
(***************************************************************************)
(* Queueing and submitting                                                 *)
(***************************************************************************)

\* Coins that come in, and coins that become an unbonding entry, are both accounted for.
LEMMA BooksBalance ==
  ASSUME Inv, NEW paid \in Nat, NEW moved \in Nat,
         bank' = bank + paid, unlocked_coins' = unlocked_coins + paid,
         Total(unbonding') = Total(unbonding) + moved,
         Total(uluna_unclaimed') = Total(uluna_unclaimed) + moved,
         slashed' = slashed, deducted' = deducted
  PROVE  Conservation'
  <1>1. Total(unbonding) \in Nat /\ Total(uluna_unclaimed) \in Nat
    BY FiniteIndices, SumType DEF Inv, TypeOK
  <1>2. bank \in Nat /\ unlocked_coins \in Nat /\ slashed \in Nat /\ deducted \in Nat
    BY DEF Inv, TypeOK
  <1>3. bank + Total(unbonding) + slashed = unlocked_coins + Total(uluna_unclaimed) + deducted
    BY DEF Inv, Conservation
  <1>4. bank' + Total(unbonding') + slashed' = unlocked_coins' + Total(uluna_unclaimed') + deducted'
    BY <1>1, <1>2, <1>3
  <1> QED
    BY <1>4 DEF Conservation

\* An entry that was empty adds its amount to the total.
LEMMA FillEntry ==
  ASSUME NEW f \in [BatchIds -> Nat], NEW g \in [BatchIds -> Nat], NEW id \in BatchIds,
         f[id] = 0, \A j \in BatchIds \ {id} : g[j] = f[j]
  PROVE  Total(g) = Total(f) + g[id]
  <1>2. Total(g) + f[id] = Total(f) + g[id]
    BY FiniteIndices, SumChange
  <1>3. Total(g) \in Nat /\ Total(f) \in Nat
    BY FiniteIndices, SumType
  <1> QED
    BY <1>2, <1>3

\* submit_batch, with the shares of the requests it turns into a batch.  The ustake
\* it burns is part of the supply, so the uluna it unbonds is defined.
LEMMA SubmitInv ==
  ASSUME Inv, NEW bal \in [Holders -> Nat], NEW burn \in Nat, Submit(bal, burn),
         unbond_requests' \in [BatchIds -> [Users -> Nat]],
         Total(unbond_requests'[pending_batch.id]) = burn,
         \A j \in BatchIds \ {pending_batch.id} : unbond_requests'[j] = unbond_requests[j]
  PROVE  Inv'
  <1> DEFINE id == pending_batch.id
             uluna == ComputeUnbondAmount(Total(bal), burn, Bonded)
             undelegations == ComputeUndelegations(delegation_goal, uluna, delegated,
                                                   AllDelegations, validators)
             touched == {m.validator : m \in undelegations}
             taken(v) == AmountOf({m \in undelegations : m.validator = v})
  <1>1. /\ id < MaxBatches /\ burn > 0 /\ burn <= bal[HubAddr]
        /\ total_shares' = [total_shares EXCEPT ![id] = burn]
        /\ uluna_unclaimed' = [uluna_unclaimed EXCEPT ![id] = uluna]
        /\ reconciled' = [reconciled EXCEPT ![id] = FALSE]
        /\ est_unbond_end_time' = [est_unbond_end_time EXCEPT ![id] = now + config.unbond_period]
        /\ pending_batch' = [id |-> id + 1, ustake_to_burn |-> 0,
                             est_unbond_start_time |-> now + config.epoch_period]
        /\ ValidMsgs(undelegations)
        /\ \A v \in Validators : taken(v) <= delegated[v]
        /\ delegated' = [v \in Validators |-> delegated[v] - taken(v)]
        /\ unbonding' = [unbonding EXCEPT ![id] = uluna]
        /\ completion' = [completion EXCEPT ![id] = now + ChainUnbonding]
        /\ balance' = [bal EXCEPT ![HubAddr] = @ - burn]
        /\ bank' = bank + Payout(touched)
        /\ unlocked_coins' = unlocked_coins + Payout(touched)
        /\ ClearRewards(touched)
        /\ UNCHANGED <<now, admin, history>>
    BY DEF CheckReceivedCoin, Submit
  <1>2. /\ id \in BatchIds /\ id \in Nat /\ id + 1 \in BatchIds /\ MaxBatches \in Nat
        /\ BatchIds \subseteq Nat
    <2>1. id \in BatchIds /\ MaxBatches \in Nat
      BY IdsAreNat, HubAssumption DEF Inv
    <2> QED
      BY <1>1, <2>1 DEF BatchIds
  <1>3. uluna \in Nat
    <2>1. bal[HubAddr] <= Total(bal) /\ Total(bal) \in Nat /\ bal[HubAddr] \in Nat
      BY FiniteIndices, IdsAreNat, SumElement, SumType
    <2>2. Total(bal) \in Nat \ {0}
      BY <1>1, <2>1
    <2>3. Bonded \in Nat
      BY SupplyType DEF Inv
    <2> QED
      BY <2>2, <2>3, MultiplyRatio DEF ComputeUnbondAmount
  <1>4. ASSUME NEW v \in Validators
        PROVE  /\ taken(v) \in Nat
               /\ v \notin touched => taken(v) = 0
    <2> HIDE DEF undelegations
    <2>1. taken(v) \in Nat
      BY <1>1, AmountOfType
    <2>2. v \notin touched => taken(v) = 0
      BY DEF AmountOf
    <2> QED
      BY <2>1, <2>2
  <1> HIDE DEF uluna, undelegations, touched, taken
  <1>5. /\ delegated' \in [Validators -> Nat]
        /\ \A v \in Validators \ touched : delegated'[v] = delegated[v]
    <2>1. delegated \in [Validators -> Nat]
      BY DEF Inv, TypeOK
    <2> QED
      BY <1>1, <1>4, <2>1
  <1>6. rewards' \in [Validators -> Nat] /\ RewardsAreEarned'
    <2>1. /\ rewards' \in [Validators -> Nat]
          /\ \A v \in Validators : rewards'[v] > 0 => v \notin touched /\ rewards[v] > 0
      BY <1>1, ClearRewardsType DEF Inv
    <2> QED
      BY <1>5, <2>1 DEF Inv, RewardsAreEarned
  <1>7. bank' \in Nat /\ unlocked_coins' = unlocked_coins + Payout(touched)
          /\ unlocked_coins' \in Nat /\ Payout(touched) \in Nat
    <2>1. bank \in Nat /\ unlocked_coins \in Nat /\ Payout(touched) \in Nat
      BY PayoutType DEF Inv, TypeOK
    <2> QED
      BY <1>1, <2>1
  <1>8. Conservation'
    <2>1. /\ unbonding \in [BatchIds -> Nat] /\ uluna_unclaimed \in [BatchIds -> Nat]
          /\ bank \in Nat /\ unlocked_coins \in Nat /\ slashed \in Nat /\ deducted \in Nat
      BY DEF Inv, TypeOK
    <2>2. unbonding[id] = 0 /\ uluna_unclaimed[id] = 0
      BY <1>2 DEF Inv, FreshBatches
    <2>3. Total(unbonding') = Total(unbonding) + uluna
      <3>1. /\ unbonding' \in [BatchIds -> Nat] /\ unbonding'[id] = uluna
            /\ \A j \in BatchIds \ {id} : unbonding'[j] = unbonding[j]
        BY <1>1, <1>2, <1>3, <2>1
      <3> HIDE DEF id
      <3> QED
        BY <1>2, <2>1, <2>2, <3>1, FillEntry, Zenon
    <2>4. Total(uluna_unclaimed') = Total(uluna_unclaimed) + uluna
      <3>1. /\ uluna_unclaimed' \in [BatchIds -> Nat] /\ uluna_unclaimed'[id] = uluna
            /\ \A j \in BatchIds \ {id} : uluna_unclaimed'[j] = uluna_unclaimed[j]
        BY <1>1, <1>2, <1>3, <2>1
      <3> HIDE DEF id
      <3> QED
        BY <1>2, <2>1, <2>2, <3>1, FillEntry, Zenon
    <2>5. bank' = bank + Payout(touched) /\ slashed' = slashed /\ deducted' = deducted
      BY <1>1 DEF history
    <2> QED
      BY <1>3, <1>7, <2>3, <2>4, <2>5, BooksBalance
  <1>9. balance' \in [Holders -> Nat]
    BY <1>1, IdsAreNat
  <1>10. ShareAccounting'
    <2>1. pending_batch'.id = id + 1 /\ pending_batch'.ustake_to_burn = 0
      BY <1>1
    <2>2. total_shares \in [BatchIds -> Nat]
      BY DEF Inv, TypeOK
    <2>3. total_shares'[id] = burn /\ \A j \in BatchIds \ {id} : total_shares'[j] = total_shares[j]
      BY <1>1, <1>2, <2>2
    <2>4. \A j \in BatchIds \ {id} : total_shares[j] = Total(unbond_requests[j])
      BY DEF Inv, ShareAccounting
    <2>5. \A j \in BatchIds : total_shares'[j] = Total(unbond_requests'[j])
      BY <2>3, <2>4
    <2>6. total_shares'[id + 1] = 0
      BY <1>2, <2>3 DEF Inv, FreshBatches
    <2>7. Total(unbond_requests'[id + 1]) = 0
      BY <1>2, <2>5, <2>6
    <2>8. 0 <= balance'[HubAddr]
      BY <1>9, IdsAreNat
    <2> QED
      BY <2>1, <2>5, <2>7, <2>8 DEF ShareAccounting
  <1>11. FreshBatches'
    <2>1. pending_batch'.id = id + 1
      BY <1>1
    <2>2. ASSUME NEW j \in BatchIds, j >= id + 1
          PROVE  total_shares'[j] = 0 /\ uluna_unclaimed'[j] = 0 /\ unbonding'[j] = 0
      <3>1. j # id /\ j >= id
        BY <1>2, <2>2
      <3>2. total_shares[j] = 0 /\ uluna_unclaimed[j] = 0 /\ unbonding[j] = 0
        BY <3>1 DEF Inv, FreshBatches
      <3> QED
        BY <1>1, <3>1, <3>2 DEF Inv, TypeOK
    <2> QED
      BY <2>1, <2>2 DEF FreshBatches
  <1>12. TypeOK'
    <2>1. config.unbond_period \in Nat /\ config.epoch_period \in Nat /\ ChainUnbonding \in Nat
      BY HubAssumption DEF Inv, TypeOK
    <2>2. now' \in Nat /\ config' \in Configs \cup {InitialConfig} /\ slashed' \in Nat /\ deducted' \in Nat
      BY <1>1 DEF Inv, TypeOK, admin, history
    <2>3. /\ total_shares' \in [BatchIds -> Nat] /\ uluna_unclaimed' \in [BatchIds -> Nat]
          /\ reconciled' \in [BatchIds -> BOOLEAN] /\ unbonding' \in [BatchIds -> Nat]
      BY <1>1, <1>3 DEF Inv, TypeOK
    <2>4. est_unbond_end_time' \in [BatchIds -> Nat] /\ completion' \in [BatchIds -> Nat]
      BY <1>1, <2>1 DEF Inv, TypeOK
    <2>5. pending_batch' \in [id : BatchIds, ustake_to_burn : Nat, est_unbond_start_time : Nat]
      BY <1>1, <1>2, <2>1 DEF Inv, TypeOK
    <2> QED
      BY <1>5, <1>6, <1>7, <1>9, <2>2, <2>3, <2>4, <2>5 DEF TypeOK
  <1> QED
    BY <1>6, <1>8, <1>10, <1>11, <1>12 DEF Inv

LEMMA SubmitBatchInv ==
  ASSUME Inv, SubmitBatch
  PROVE  Inv'
  <1>1. pending_batch.ustake_to_burn \in Nat /\ balance \in [Holders -> Nat]
          /\ unbond_requests \in [BatchIds -> [Users -> Nat]]
    BY DEF Inv, TypeOK
  <1>2. Submit(balance, pending_batch.ustake_to_burn) /\ unbond_requests' = unbond_requests
    BY DEF SubmitBatch
  <1>3. Total(unbond_requests[pending_batch.id]) = pending_batch.ustake_to_burn
    BY DEF Inv, ShareAccounting
  <1> QED
    BY <1>1, <1>2, <1>3, SubmitInv

LEMMA QueueUnbondInv ==
  ASSUME Inv, NEW u \in Users, NEW r \in Users, NEW n \in 1..balance[u], QueueUnbond(u, r, n)
  PROVE  Inv'
  <1> DEFINE id  == pending_batch.id
             old == unbond_requests[id]
             new == unbond_requests'[id]
             bal == [balance EXCEPT ![u] = @ - n, ![HubAddr] = @ + n]
  <1>1. /\ u \in Holders /\ u # HubAddr /\ HubAddr \in Holders /\ id \in BatchIds
        /\ balance \in [Holders -> Nat] /\ balance[u] \in Nat /\ n \in Nat
        /\ unbond_requests \in [BatchIds -> [Users -> Nat]] /\ pending_batch.ustake_to_burn \in Nat
    BY HubAssumption, IdsAreNat DEF Inv, TypeOK
  <1>2. bal \in [Holders -> Nat] /\ bal[HubAddr] = balance[HubAddr] + n
    BY <1>1
  <1>3. /\ unbond_requests' = [unbond_requests EXCEPT ![id][r] = @ + n]
        /\ \/ /\ pending_batch' = [pending_batch EXCEPT !.ustake_to_burn = @ + n]
              /\ balance' = bal
              /\ UNCHANGED <<now, bank, staking, unbonding, completion, previous_batches,
                             unlocked_coins, admin, history>>
           \/ Submit(bal, pending_batch.ustake_to_burn + n)
    BY DEF AddRequest, QueueUnbond
  <1>4. /\ unbond_requests' \in [BatchIds -> [Users -> Nat]]
        /\ old \in [Users -> Nat] /\ new \in [Users -> Nat] /\ new[r] = old[r] + n
        /\ \A w \in Users \ {r} : new[w] = old[w]
        /\ \A j \in BatchIds \ {id} : unbond_requests'[j] = unbond_requests[j]
    BY <1>1, <1>3
  <1>5. Total(new) = pending_batch.ustake_to_burn + n
    <2>1. Total(old) = pending_batch.ustake_to_burn
      BY DEF Inv, ShareAccounting
    <2>2. Total(new) + old[r] = Total(old) + new[r]
      <3> HIDE DEF old, new
      <3> QED
        BY <1>4, FiniteIndices, SumChange
    <2>3. Total(new) \in Nat /\ old[r] \in Nat
      <3> HIDE DEF old, new
      <3> QED
        BY <1>4, FiniteIndices, SumType
    <2>4. new[r] = old[r] + n /\ n \in Nat /\ Total(old) \in Nat
      BY <1>1, <1>4, <2>1
    <2> HIDE DEF old, new
    <2>5. Total(new) = Total(old) + n
      BY <2>2, <2>3, <2>4
    <2> QED
      BY <2>1, <2>5
  <1>6. CASE Submit(bal, pending_batch.ustake_to_burn + n)
    <2>1. pending_batch.ustake_to_burn + n \in Nat
      BY <1>1
    <2> HIDE DEF bal
    <2> QED
      BY <1>2, <1>4, <1>5, <1>6, <2>1, SubmitInv
  <1>7. CASE /\ pending_batch' = [pending_batch EXCEPT !.ustake_to_burn = @ + n]
             /\ balance' = bal
             /\ UNCHANGED <<now, bank, staking, unbonding, completion, previous_batches,
                            unlocked_coins, admin, history>>
    <2>1. /\ pending_batch' \in [id : BatchIds, ustake_to_burn : Nat, est_unbond_start_time : Nat]
          /\ pending_batch'.id = id /\ pending_batch'.ustake_to_burn = pending_batch.ustake_to_burn + n
      BY <1>1, <1>7 DEF Inv, TypeOK
    <2>2. /\ total_shares' = total_shares /\ uluna_unclaimed' = uluna_unclaimed
          /\ reconciled' = reconciled /\ est_unbond_end_time' = est_unbond_end_time
          /\ now' = now /\ bank' = bank /\ delegated' = delegated /\ rewards' = rewards
          /\ unbonding' = unbonding /\ completion' = completion
          /\ unlocked_coins' = unlocked_coins /\ config' = config
          /\ slashed' = slashed /\ deducted' = deducted
      BY <1>7 DEF staking, previous_batches, admin, history
    <2>3. TypeOK'
      BY <1>2, <1>4, <1>7, <2>1, <2>2 DEF Inv, TypeOK
    <2>4. Conservation' /\ RewardsAreEarned'
      BY <2>2 DEF Inv, Conservation, RewardsAreEarned
    <2>5. FreshBatches'
      BY <2>1, <2>2 DEF Inv, FreshBatches
    <2>6. ShareAccounting'
      <3>1. pending_batch'.ustake_to_burn = Total(unbond_requests'[pending_batch'.id])
        BY <1>5, <2>1
      <3>2. pending_batch'.ustake_to_burn <= balance'[HubAddr]
        <4>1. pending_batch.ustake_to_burn <= balance[HubAddr] /\ balance[HubAddr] \in Nat
          BY <1>1 DEF Inv, ShareAccounting
        <4>2. balance'[HubAddr] = balance[HubAddr] + n
          BY <1>2, <1>7
        <4> QED
          BY <1>1, <2>1, <4>1, <4>2
      <3>3. \A j \in BatchIds : j # pending_batch'.id => total_shares'[j] = Total(unbond_requests'[j])
        BY <1>4, <2>1, <2>2 DEF Inv, ShareAccounting
      <3> QED
        BY <3>1, <3>2, <3>3 DEF ShareAccounting
    <2> QED
      BY <2>3, <2>4, <2>5, <2>6 DEF Inv
  <1> QED
    BY <1>3, <1>6, <1>7

-----------------------------------------------------------------------------
(***************************************************************************)
(* Reconciling and withdrawing                                             *)
(***************************************************************************)

\* Replacing the amounts e of some batches by l changes the total of all batches by
\* as much as theirs.
LEMMA ReplaceEntries ==
  ASSUME NEW D, D \subseteq BatchIds,
         NEW f \in [BatchIds -> Nat], NEW g \in [BatchIds -> Nat],
         NEW e \in [D -> Nat], NEW l \in [D -> Nat],
         \A id \in D : e[id] = f[id], \A id \in D : g[id] = l[id],
         \A id \in BatchIds \ D : g[id] = f[id]
  PROVE  /\ Total(g) + Total(e) = Total(f) + Total(l)
         /\ Total(e) \in Nat /\ Total(l) \in Nat /\ Total(f) \in Nat /\ Total(g) \in Nat
  <1> DEFINE ee == [id \in BatchIds |-> IF id \in D THEN e[id] ELSE 0]
             ll == [id \in BatchIds |-> IF id \in D THEN l[id] ELSE 0]
             r  == [id \in BatchIds |-> IF id \in D THEN 0 ELSE f[id]]
  <1>1. ee \in [BatchIds -> Nat] /\ (\A id \in D : ee[id] = e[id])
          /\ (\A id \in BatchIds \ D : ee[id] = 0)
    OBVIOUS
  <1>2. ll \in [BatchIds -> Nat] /\ (\A id \in D : ll[id] = l[id])
          /\ (\A id \in BatchIds \ D : ll[id] = 0)
    OBVIOUS
  <1>3. r \in [BatchIds -> Nat] /\ (\A id \in BatchIds : f[id] = ee[id] + r[id])
    OBVIOUS
  <1>4. \A id \in BatchIds : g[id] = ll[id] + r[id]
    OBVIOUS
  <1> HIDE DEF ee, ll, r
  <1>5. Total(ee) = Total(e) /\ Total(ll) = Total(l)
    BY <1>1, <1>2, SumExtend
  <1>6. Total(f) = Total(ee) + Total(r) /\ Total(g) = Total(ll) + Total(r)
    BY <1>1, <1>2, <1>3, <1>4, FiniteIndices, SumAdd
  <1>7. /\ Total(ee) \in Nat /\ Total(ll) \in Nat /\ Total(r) \in Nat
        /\ Total(f) \in Nat /\ Total(g) \in Nat
    BY <1>1, <1>2, <1>3, FiniteIndices, SumType
  <1> QED
    BY <1>5, <1>6, <1>7

LEMMA ReconcileInv ==
  ASSUME Inv, Reconcile
  PROVE  Inv'
  <1> DEFINE D == Due
             e == [id \in D |-> uluna_unclaimed[id]]
             short == ReconcileShortfall
             l == IF short = 0 THEN e ELSE ReconcileBatches(e, short)
  <1>1. /\ Total(e) > 0
        /\ short > 0 => ReconcileDefined(e, short)
        /\ reconciled' = [id \in BatchIds |-> id \in D \/ reconciled[id]]
        /\ uluna_unclaimed' = [id \in BatchIds |-> IF id \in D THEN l[id] ELSE uluna_unclaimed[id]]
        /\ deducted' = deducted + SatSub(Total(e), Total(l))
        /\ UNCHANGED <<now, bank, staking, unbonding, completion, balance, pending_batch,
                       total_shares, est_unbond_end_time, unbond_requests, unlocked_coins,
                       admin, slashed>>
    BY DEF Reconcile
  <1>2. D \subseteq BatchIds /\ IsFiniteSet(D)
    BY FiniteIndices, FS_Subset DEF Due, Batches
  <1>3. uluna_unclaimed \in [BatchIds -> Nat] /\ e \in [D -> Nat]
          /\ \A id \in D : e[id] = uluna_unclaimed[id]
    <2>1. uluna_unclaimed \in [BatchIds -> Nat]
      BY DEF Inv, TypeOK
    <2> HIDE DEF D
    <2> QED
      BY <1>2, <2>1
  <1>4. D # {}
    <2>1. ASSUME D = {} PROVE FALSE
      <3>1. \A id \in D : e[id] = 0
        BY <2>1
      <3> HIDE DEF D, e
      <3>2. Total(e) = 0
        BY <1>2, <1>3, <3>1, SumZero
      <3> QED
        BY <1>1, <3>2
    <2> QED
      BY <2>1
  <1>5. short \in Nat
    <2>1. Total(e) \in Nat
      <3> HIDE DEF D, e
      <3> QED
        BY <1>2, <1>3, SumType
    <2>2. unlocked_coins \in Nat /\ bank \in Nat
      BY DEF Inv, TypeOK
    <2>3. short = SatSub(Total(e) + unlocked_coins, bank)
      BY DEF ReconcileShortfall
    <2> HIDE DEF e, short
    <2> QED
      BY <2>1, <2>2, <2>3, SatSubType
  <1>6. l \in [D -> Nat] /\ \A id \in D : l[id] <= e[id]
    <2> HIDE DEF D, e, short
    <2>1. CASE short = 0
      BY <1>3, <2>1
    <2>2. CASE short # 0
      <3>1. ReconcileDefined(e, short)
        BY <1>1, <1>5, <2>2
      <3>2. l = ReconcileBatches(e, short)
        BY <2>2
      <3> QED
        BY <1>2, <1>3, <1>4, <1>5, <3>1, <3>2, ReconcileBatchesLaw, BoundedIds
    <2> QED
      BY <2>1, <2>2
  <1>7. /\ uluna_unclaimed' \in [BatchIds -> Nat]
        /\ \A id \in D : uluna_unclaimed'[id] = l[id]
        /\ \A id \in BatchIds \ D : uluna_unclaimed'[id] = uluna_unclaimed[id]
    <2> HIDE DEF D, l
    <2> QED
      BY <1>1, <1>2, <1>3, <1>6
  <1> HIDE DEF D, e, l, short
  <1>8. /\ Total(uluna_unclaimed') + Total(e) = Total(uluna_unclaimed) + Total(l)
        /\ Total(e) \in Nat /\ Total(l) \in Nat
        /\ Total(uluna_unclaimed) \in Nat /\ Total(uluna_unclaimed') \in Nat
    BY <1>2, <1>3, <1>6, <1>7, ReplaceEntries
  <1>9. Total(l) <= Total(e)
    BY <1>2, <1>3, <1>6, SumMono
  <1>10. deducted \in Nat /\ deducted' \in Nat /\ deducted' + Total(l) = deducted + Total(e)
    <2>1. deducted \in Nat
      BY DEF Inv, TypeOK
    <2> QED
      BY <1>1, <1>8, <1>9, <2>1 DEF SatSub
  <1>11. Conservation'
    <2>1. bank \in Nat /\ unlocked_coins \in Nat /\ slashed \in Nat /\ Total(unbonding) \in Nat
      BY FiniteIndices, SumType DEF Inv, TypeOK
    <2>2. bank + Total(unbonding) + slashed = unlocked_coins + Total(uluna_unclaimed) + deducted
      BY DEF Inv, Conservation
    <2>3. bank' = bank /\ unbonding' = unbonding /\ slashed' = slashed
            /\ unlocked_coins' = unlocked_coins
      BY <1>1
    <2>4. Total(uluna_unclaimed') + deducted' = Total(uluna_unclaimed) + deducted
      BY <1>8, <1>10
    <2>5. bank' + Total(unbonding') + slashed' = unlocked_coins' + Total(uluna_unclaimed') + deducted'
      BY <1>8, <1>10, <2>1, <2>2, <2>3, <2>4
    <2> QED
      BY <2>5 DEF Conservation
  <1>12. ShareAccounting' /\ RewardsAreEarned'
    BY <1>1 DEF Inv, ShareAccounting, RewardsAreEarned, staking
  <1>13. FreshBatches'
    <2>1. \A id \in BatchIds : uluna_unclaimed[id] = 0 => uluna_unclaimed'[id] = 0
      BY <1>3, <1>6, <1>7
    <2> QED
      BY <1>1, <2>1 DEF Inv, FreshBatches
  <1>14. reconciled' \in [BatchIds -> BOOLEAN]
    BY <1>1 DEF Inv, TypeOK
  <1>15. TypeOK'
    BY <1>1, <1>7, <1>10, <1>14 DEF Inv, TypeOK, staking, admin
  <1> QED
    BY <1>11, <1>12, <1>13, <1>15 DEF Inv

\* A payment from the hub's account is taken off what the batches hold.
LEMMA PaymentBalances ==
  ASSUME Inv, NEW paid \in Nat, bank' \in Nat, bank = bank' + paid,
         Total(uluna_unclaimed') \in Nat, Total(uluna_unclaimed) = Total(uluna_unclaimed') + paid,
         unbonding' = unbonding, unlocked_coins' = unlocked_coins,
         slashed' = slashed, deducted' = deducted
  PROVE  Conservation'
  <1>1. Total(unbonding) \in Nat /\ Total(uluna_unclaimed) \in Nat
    BY FiniteIndices, SumType DEF Inv, TypeOK
  <1>2. bank \in Nat /\ unlocked_coins \in Nat /\ slashed \in Nat /\ deducted \in Nat
    BY DEF Inv, TypeOK
  <1>3. bank + Total(unbonding) + slashed = unlocked_coins + Total(uluna_unclaimed) + deducted
    BY DEF Inv, Conservation
  <1>4. bank' + Total(unbonding') + slashed' = unlocked_coins' + Total(uluna_unclaimed') + deducted'
    <2>1. bank' + Total(unbonding) + slashed = unlocked_coins + Total(uluna_unclaimed') + deducted
      BY <1>1, <1>2, <1>3
    <2> QED
      BY <2>1
  <1> QED
    BY <1>4 DEF Conservation

\* A refund is at most what its batch holds, so a withdrawal takes from the hub's
\* account exactly what it takes from the batches.
LEMMA WithdrawUnbondedInv ==
  ASSUME Inv, NEW user \in Users, WithdrawUnbonded(user)
  PROVE  Inv'
  <1> DEFINE D == Withdrawable(user)
             refund == Refund(user)
             gone == {id \in D : total_shares[id] = unbond_requests[id][user]}
             e == [id \in D |-> uluna_unclaimed[id]]
             l == [id \in D |-> uluna_unclaimed[id] - refund[id]]
  <1>1. /\ Total(refund) <= bank /\ bank' = bank - Total(refund)
        /\ total_shares' = [id \in BatchIds |->
             IF id \in D THEN total_shares[id] - unbond_requests[id][user] ELSE total_shares[id]]
        /\ uluna_unclaimed' = [id \in BatchIds |->
             IF id \in D THEN uluna_unclaimed[id] - refund[id] ELSE uluna_unclaimed[id]]
        /\ reconciled' = [id \in BatchIds |-> reconciled[id] /\ id \notin gone]
        /\ est_unbond_end_time' = [id \in BatchIds |->
             IF id \in gone THEN 0 ELSE est_unbond_end_time[id]]
        /\ unbond_requests' = [id \in BatchIds |->
             [u \in Users |-> IF id \in D /\ u = user THEN 0 ELSE unbond_requests[id][u]]]
        /\ UNCHANGED <<now, staking, unbonding, completion, balance, pending_batch,
                       unlocked_coins, admin, history>>
    BY DEF WithdrawUnbonded
  <1>2. D \subseteq Batches /\ D \subseteq BatchIds /\ IsFiniteSet(D)
    BY FiniteIndices, FS_Subset DEF Withdrawable, Batches
  <1>3. /\ uluna_unclaimed \in [BatchIds -> Nat] /\ total_shares \in [BatchIds -> Nat]
        /\ unbond_requests \in [BatchIds -> [Users -> Nat]]
        /\ bank \in Nat /\ unlocked_coins \in Nat /\ slashed \in Nat /\ deducted \in Nat
        /\ Total(unbonding) \in Nat
    BY FiniteIndices, SumType DEF Inv, TypeOK
  <1>4. ASSUME NEW id \in D
        PROVE  /\ refund[id] \in Nat /\ refund[id] <= uluna_unclaimed[id]
               /\ unbond_requests[id][user] <= total_shares[id]
               /\ id # pending_batch.id
    <2>1. /\ id \in BatchIds /\ id < pending_batch.id /\ total_shares[id] \in Nat \ {0}
          /\ unbond_requests[id][user] <= total_shares[id]
      BY <1>2, SubmittedBatches
    <2>2. uluna_unclaimed[id] \in Nat /\ unbond_requests[id][user] \in Nat
      BY <1>3, <2>1
    <2>3. refund[id] = (uluna_unclaimed[id] * unbond_requests[id][user]) \div total_shares[id]
      BY DEF Refund
    <2>4. id # pending_batch.id
      BY <2>1, IdsAreNat DEF Inv
    <2> HIDE DEF refund, D
    <2>5. refund[id] \in Nat /\ refund[id] <= uluna_unclaimed[id]
      <3> DEFINE a == uluna_unclaimed[id]
                 b == unbond_requests[id][user]
                 c == total_shares[id]
      <3>1. a \in Nat /\ b \in Nat /\ c \in Nat \ {0} /\ b <= c /\ refund[id] = (a * b) \div c
        BY <2>1, <2>2, <2>3
      <3> HIDE DEF a, b, c
      <3>2. (a * b) \div c \in Nat /\ (a * b) \div c <= a
        BY <3>1, MultiplyRatio
      <3>3. refund[id] \in Nat /\ refund[id] <= a
        BY <3>1, <3>2
      <3> QED
        BY <3>3 DEF a
    <2> QED
      BY <2>1, <2>4, <2>5
  <1>5. refund \in [D -> Nat]
    <2>1. refund = [id \in D |-> refund[id]]
      BY DEF Refund
    <2> HIDE DEF refund, D
    <2> QED
      BY <1>4, <2>1
  <1> HIDE DEF refund, D, gone
  <1>6. /\ e \in [D -> Nat] /\ l \in [D -> Nat]
        /\ \A id \in D : e[id] = uluna_unclaimed[id]
        /\ \A id \in D : e[id] = refund[id] + l[id]
    BY <1>2, <1>3, <1>4
  <1>7. /\ uluna_unclaimed' \in [BatchIds -> Nat]
        /\ \A id \in D : uluna_unclaimed'[id] = l[id]
        /\ \A id \in BatchIds \ D : uluna_unclaimed'[id] = uluna_unclaimed[id]
    BY <1>1, <1>2, <1>3, <1>4
  <1> HIDE DEF e, l
  <1>8. /\ Total(uluna_unclaimed') + Total(e) = Total(uluna_unclaimed) + Total(l)
        /\ Total(e) \in Nat /\ Total(l) \in Nat
        /\ Total(uluna_unclaimed) \in Nat /\ Total(uluna_unclaimed') \in Nat
    <2>1. uluna_unclaimed \in [BatchIds -> Nat]
      BY <1>3
    <2>2. D \subseteq BatchIds
      BY <1>2
    <2>3. e \in [D -> Nat] /\ l \in [D -> Nat] /\ \A id \in D : e[id] = uluna_unclaimed[id]
      BY <1>6
    <2> QED
      BY <1>7, <2>1, <2>2, <2>3, ReplaceEntries
  <1>9. Total(e) = Total(refund) + Total(l) /\ Total(refund) \in Nat
    BY <1>2, <1>5, <1>6, SumAdd, SumType
  <1>10. bank' \in Nat
    BY <1>1, <1>3, <1>9
  <1>11. Conservation'
    <2>1. /\ unbonding' = unbonding /\ slashed' = slashed /\ deducted' = deducted
          /\ unlocked_coins' = unlocked_coins /\ bank' + Total(refund) = bank
      BY <1>1, <1>3, <1>9 DEF history
    <2>2. Total(uluna_unclaimed') + Total(refund) = Total(uluna_unclaimed)
      BY <1>8, <1>9
    <2> QED
      BY <1>8, <1>9, <1>10, <2>1, <2>2, PaymentBalances
  <1>12. /\ total_shares' \in [BatchIds -> Nat]
         /\ unbond_requests' \in [BatchIds -> [Users -> Nat]]
    BY <1>1, <1>2, <1>3, <1>4
  <1>13. ShareAccounting'
    <2>1. ASSUME NEW id \in BatchIds \ D PROVE unbond_requests'[id] = unbond_requests[id]
      BY <1>1, <1>3
    <2>2. ASSUME NEW id \in D PROVE total_shares'[id] = Total(unbond_requests'[id])
      <3> DEFINE old == unbond_requests[id]
                 new == unbond_requests'[id]
      <3>1. id \in BatchIds
        BY <1>2
      <3>2. /\ old \in [Users -> Nat] /\ new \in [Users -> Nat]
            /\ new[user] = 0 /\ \A u \in Users \ {user} : new[u] = old[u]
        BY <1>1, <1>3, <3>1
      <3>3. total_shares[id] = Total(old)
        BY <1>2, SubmittedBatches
      <3>4. total_shares'[id] = total_shares[id] - old[user]
        BY <1>1, <3>1
      <3> HIDE DEF old, new
      <3>5. Total(new) + old[user] = Total(old) + new[user]
        BY <3>2, FiniteIndices, SumChange
      <3>6. Total(new) \in Nat /\ Total(old) \in Nat /\ old[user] \in Nat /\ new[user] = 0
        BY <3>2, FiniteIndices, SumType
      <3>7. total_shares'[id] = Total(new)
        BY <3>3, <3>4, <3>5, <3>6
      <3> QED
        BY <3>7 DEF new
    <2>3. \A id \in BatchIds : id # pending_batch.id => total_shares'[id] = Total(unbond_requests'[id])
      <3> SUFFICES ASSUME NEW id \in BatchIds, id # pending_batch.id
                   PROVE  total_shares'[id] = Total(unbond_requests'[id])
        OBVIOUS
      <3>1. CASE id \in D
        BY <2>2, <3>1
      <3>2. CASE id \notin D
        BY <1>1, <2>1, <3>2 DEF Inv, ShareAccounting
      <3> QED
        BY <3>1, <3>2
    <2>4. unbond_requests'[pending_batch.id] = unbond_requests[pending_batch.id]
      BY <1>4, <2>1, IdsAreNat DEF Inv
    <2>5. pending_batch' = pending_batch /\ balance' = balance
      BY <1>1
    <2> QED
      BY <2>3, <2>4, <2>5 DEF Inv, ShareAccounting
  <1>14. FreshBatches'
    <2>1. \A id \in BatchIds : id >= pending_batch.id => id \notin D
      <3>1. \A id \in D : id < pending_batch.id /\ id \in BatchIds
        BY <1>2, SubmittedBatches
      <3>2. BatchIds \subseteq Nat /\ pending_batch.id \in Nat
        BY IdsAreNat DEF Inv
      <3> QED
        BY <3>1, <3>2
    <2>2. pending_batch' = pending_batch /\ unbonding' = unbonding
      BY <1>1
    <2> QED
      BY <1>1, <2>1, <2>2 DEF Inv, FreshBatches
  <1>15. RewardsAreEarned'
    BY <1>1 DEF Inv, RewardsAreEarned, staking
  <1>16. reconciled' \in [BatchIds -> BOOLEAN] /\ est_unbond_end_time' \in [BatchIds -> Nat]
    BY <1>1 DEF Inv, TypeOK
  <1>17. TypeOK'
    BY <1>1, <1>7, <1>10, <1>12, <1>16 DEF Inv, TypeOK, staking, admin, history
  <1> QED
    BY <1>11, <1>13, <1>14, <1>15, <1>17 DEF Inv

-----------------------------------------------------------------------------
(***************************************************************************)
(* Redelegating                                                            *)
(***************************************************************************)

\* The redelegations leave naturals, and change no validator they do not name.
LEMMA RedelegateDelegations ==
  ASSUME Inv, NEW moves, Redelegate(moves),
         NEW touched, touched = {m.src : m \in moves} \cup {m.dst : m \in moves}
  PROVE  /\ delegated' \in [Validators -> Nat]
         /\ \A v \in Validators \ touched : delegated'[v] = delegated[v]
  <1> DEFINE move(v, w) == AmountOf({m \in moves : m.src = v /\ m.dst = w})
             outs(v) == [w \in Validators |-> move(v, w)]
             ins(v)  == [w \in Validators |-> move(w, v)]
  <1>1. /\ ValidMsgs(moves)
        /\ \A v \in Validators : Total(outs(v)) <= delegated[v]
        /\ delegated' = [v \in Validators |-> delegated[v] - Total(outs(v)) + Total(ins(v))]
    BY DEF Redelegate
  <1>2. \A v, w : move(v, w) \in Nat
    BY <1>1, AmountOfType
  <1>3. \A v, w : v \notin touched \/ w \notin touched => move(v, w) = 0
    BY DEF AmountOf
  <1> HIDE DEF move
  <1>4. ASSUME NEW v \in Validators
        PROVE  /\ Total(outs(v)) \in Nat /\ Total(ins(v)) \in Nat
               /\ v \notin touched => Total(outs(v)) = 0 /\ Total(ins(v)) = 0
    <2> DEFINE o == outs(v)
               i == ins(v)
    <2>1. o \in [Validators -> Nat] /\ i \in [Validators -> Nat]
      BY <1>2
    <2>2. v \notin touched => \A w \in Validators : o[w] = 0 /\ i[w] = 0
      BY <1>3
    <2> HIDE DEF o, i
    <2>3. Total(o) \in Nat /\ Total(i) \in Nat
      BY <2>1, FiniteIndices, SumType
    <2>4. v \notin touched => Total(o) = 0 /\ Total(i) = 0
      BY <2>1, <2>2, FiniteIndices, SumZero
    <2> QED
      BY <2>3, <2>4 DEF o, i
  <1> HIDE DEF outs, ins
  <1>5. delegated \in [Validators -> Nat]
    BY DEF Inv, TypeOK
  <1> QED
    BY <1>1, <1>4, <1>5

LEMMA RedelegateInv ==
  ASSUME Inv, NEW moves, Redelegate(moves), config' = config
  PROVE  Inv'
  <1> DEFINE touched == {m.src : m \in moves} \cup {m.dst : m \in moves}
  <1>1. /\ bank' = bank + Payout(touched)
        /\ unlocked_coins' = unlocked_coins + Payout(touched)
        /\ ClearRewards(touched)
        /\ UNCHANGED <<now, unbonding, completion, balance, queue, history>>
    BY DEF CheckReceivedCoin, Redelegate
  <1>2. /\ delegated' \in [Validators -> Nat]
        /\ \A v \in Validators \ touched : delegated'[v] = delegated[v]
    BY RedelegateDelegations
  <1> HIDE DEF touched
  <1>3. rewards' \in [Validators -> Nat] /\ RewardsAreEarned'
    <2>1. /\ rewards' \in [Validators -> Nat]
          /\ \A v \in Validators : rewards'[v] > 0 => v \notin touched /\ rewards[v] > 0
      BY <1>1, ClearRewardsType DEF Inv
    <2> QED
      BY <1>2, <2>1 DEF Inv, RewardsAreEarned
  <1>4. Conservation' /\ bank' \in Nat /\ unlocked_coins' \in Nat
    BY <1>1, TrackedPayout DEF queue, previous_batches, history
  <1>5. balance' \in [Holders -> Nat] /\ balance'[HubAddr] >= balance[HubAddr]
    BY <1>1, IdsAreNat DEF Inv, TypeOK
  <1>6. ShareAccounting' /\ FreshBatches'
    BY <1>1, <1>5, QueueUnchanged
  <1>7. TypeOK'
    BY <1>1, <1>2, <1>3, <1>4, <1>5 DEF Inv, TypeOK, queue, previous_batches, history
  <1> QED
    BY <1>3, <1>4, <1>6, <1>7 DEF Inv

-----------------------------------------------------------------------------
(***************************************************************************)
(* The theorems                                                            *)
(***************************************************************************)

\* Every transaction, every block and every slash preserves Inv.
LEMMA NextInv == Inv /\ [Next]_vars => Inv'
  <1> SUFFICES ASSUME Inv, [Next]_vars PROVE Inv'
    OBVIOUS
  <1>0. config \in Configs \cup {InitialConfig}
    BY DEF Inv, TypeOK
  <1>1. CASE NextBlock
    BY <1>1, NextBlockInv
  <1>2. CASE \E v \in Validators, n \in RewardAmounts : AccrueRewards(v, n)
    BY <1>2, AccrueRewardsInv
  <1>3. CASE \E v \in Validators, n \in DelegationSlashes : SlashDelegation(v, n)
    BY <1>3, SlashDelegationInv
  <1>4. CASE \E id \in BatchIds, n \in UnbondingSlashes : SlashUnbonding(id, n)
    BY <1>4, SlashUnbondingInv
  <1>5. CASE \E u \in Users, n \in BondAmounts : Bond(u, n)
    BY <1>5, BondInv
  <1>6. CASE \E n \in BondAmounts : Donate(n)
    BY <1>6, DonateInv
  <1>7. CASE Harvest
    BY <1>7, HarvestInv
  <1>8. CASE \E u \in Users, h \in Holders : \E n \in 1..balance[u] : Transfer(u, h, n)
    BY <1>8, TransferInv
  <1>9. CASE \E u, r \in Users : \E n \in 1..balance[u] : QueueUnbond(u, r, n)
    BY <1>9, QueueUnbondInv
  <1>10. CASE SubmitBatch
    BY <1>10, SubmitBatchInv
  <1>11. CASE Reconcile
    BY <1>11, ReconcileInv
  <1>12. CASE UNCHANGED vars
    <2>1. /\ UNCHANGED <<now, bank, staking, unbonding, completion, balance, queue,
                         unlocked_coins, history>>
          /\ config' = config
      BY <1>12 DEF vars, admin
    <2> QED
      BY <1>0, <2>1, AdminInv
  <1>13. CASE ReconcileNothing
    BY <1>12, <1>13 DEF ReconcileNothing
  <1>14. CASE \E u \in Users : WithdrawUnbonded(u)
    BY <1>14, WithdrawUnbondedInv
  <1>15. CASE TuneDelegations
    BY <1>0, <1>15, AdminInv DEF TuneDelegations
  <1>16. CASE \E n \in MinRedelegations : Rebalance(n)
    <2>1. PICK n \in MinRedelegations : Rebalance(n)
      BY <1>16
    <2>2. config' = config
      BY <2>1 DEF Rebalance, admin
    <2> QED
      BY <2>1, <2>2, RedelegateInv DEF Rebalance
  <1>17. CASE \E v \in Validators : AddValidator(v)
    BY <1>0, <1>17, AdminInv DEF AddValidator
  <1>18. CASE \E v \in Validators : RemoveValidator(v)
    <2>1. PICK v \in Validators : RemoveValidator(v)
      BY <1>18
    <2>2. config' = config
      BY <2>1 DEF RemoveValidator
    <2> DEFINE left == SelectSeq(validators, LAMBDA w : w # v)
               moves == ComputeRedelegationsForRemoval(delegation_goal, v, delegated, left, left)
    <2>3. \/ Redelegate(moves)
          \/ UNCHANGED <<now, bank, staking, unbonding, completion, balance, queue,
                         unlocked_coins, history>>
      BY <2>1 DEF RemoveValidator
    <2> HIDE DEF moves
    <2> QED
      BY <1>0, <2>2, <2>3, RedelegateInv, AdminInv
  <1>19. CASE \E c \in Configs : UpdateConfig(c)
    <2>1. PICK c \in Configs : UpdateConfig(c)
      BY <1>19
    <2>2. config' \in Configs \cup {InitialConfig}
      BY <2>1 DEF UpdateConfig
    <2> QED
      BY <2>1, <2>2, AdminInv DEF UpdateConfig
  <1> QED
    BY <1>1, <1>2, <1>3, <1>4, <1>5, <1>6, <1>7, <1>8, <1>9, <1>10, <1>11, <1>12, <1>13,
       <1>14, <1>15, <1>16, <1>17, <1>18, <1>19 DEF Next

\* Inv holds in every state the hub reaches.
LEMMA InvAlways == Spec => []Inv
  BY InitInv, NextInv, PTL DEF Spec

\* Every amount stays a natural number: none of the contract's subtractions on the
\* modelled paths underflows, and ids stay within the queue.
THEOREM TypeCorrect == Spec => []TypeOK
  <1>1. Inv => TypeOK
    BY DEF Inv
  <1> QED
    BY <1>1, InvAlways, PTL

\* No interleaving of queueing, submitting and withdrawing loses a share, or lets a
\* batch be claimed by more shares than it has.
THEOREM SharesAreAccounted == Spec => []ShareAccounting
  <1>1. Inv => ShareAccounting
    BY DEF Inv
  <1> QED
    BY <1>1, InvAlways, PTL

\* Every coin in the account or in an unbonding entry is accounted for.
THEOREM CoinsAreConserved == Spec => []Conservation
  <1>1. Inv => Conservation
    BY DEF Inv
  <1> QED
    BY <1>1, InvAlways, PTL

\* Taking the rounded-down part of r shares out of T leaves the others theirs.
LEMMA RoundedDownIsFair ==
  ASSUME NEW U \in Nat, NEW T \in Nat \ {0}, NEW r \in Nat
  PROVE  ~((U - (U * r) \div T) * T < U * (T - r))
  <1> DEFINE p == U * r
             q == p \div T
  <1>1. p \in Nat
    OBVIOUS
  <1>2. q \in Nat /\ q * T <= p
    <2> HIDE DEF p
    <2> QED
      BY <1>1
  <1> HIDE DEF q
  <1>3. (U - q) * T = U * T - q * T /\ U * (T - r) = U * T - p
    BY <1>2
  <1>4. U * T \in Nat /\ q * T \in Nat
    BY <1>2
  <1> HIDE DEF p
  <1>5. ~((U - q) * T < U * (T - r))
    BY <1>1, <1>2, <1>3, <1>4
  <1> QED
    BY <1>5 DEF p, q

LEMMA SubmitIsFair ==
  ASSUME Inv, NEW bal, NEW burn, Submit(bal, burn)
  PROVE  OthersKeepTheirPart
  <1> SUFFICES ASSUME NEW id \in Batches
               PROVE  ~(uluna_unclaimed'[id] * total_shares[id] < uluna_unclaimed[id] * total_shares'[id])
    BY DEF OthersKeepTheirPart
  <1> DEFINE U == uluna_unclaimed[id]
             T == total_shares[id]
  <1>1. id \in BatchIds /\ id # pending_batch.id /\ T \in Nat
    <2>1. id \in BatchIds /\ id < pending_batch.id /\ T \in Nat
      BY SubmittedBatches
    <2>2. id \in Nat /\ pending_batch.id \in Nat
      BY <2>1, IdsAreNat DEF Inv
    <2> QED
      BY <2>1, <2>2
  <1>2. U \in Nat
    BY <1>1 DEF Inv, TypeOK
  <1>3. uluna_unclaimed'[id] = U /\ total_shares'[id] = T
    BY <1>1 DEF Submit, Inv, TypeOK
  <1>4. ~(U * T < U * T)
    <2> HIDE DEF U, T
    <2> QED
      BY <1>1, <1>2
  <1> QED
    BY <1>3, <1>4

LEMMA WithdrawIsFair ==
  ASSUME Inv, NEW user \in Users, WithdrawUnbonded(user)
  PROVE  OthersKeepTheirPart
  <1> SUFFICES ASSUME NEW id \in Batches
               PROVE  ~(uluna_unclaimed'[id] * total_shares[id] < uluna_unclaimed[id] * total_shares'[id])
    BY DEF OthersKeepTheirPart
  <1> DEFINE U == uluna_unclaimed[id]
             T == total_shares[id]
             r == IF id \in Withdrawable(user) THEN unbond_requests[id][user] ELSE 0
  <1>1. id \in BatchIds /\ T \in Nat \ {0}
    BY SubmittedBatches
  <1>2. U \in Nat /\ r \in Nat
    BY <1>1 DEF Inv, TypeOK
  <1>3. total_shares'[id] = T - r /\ uluna_unclaimed'[id] = U - (U * r) \div T
    <2>1. CASE id \in Withdrawable(user)
      BY <1>1, <2>1 DEF WithdrawUnbonded, Refund
    <2>2. CASE id \notin Withdrawable(user)
      <3>1. total_shares'[id] = T /\ uluna_unclaimed'[id] = U /\ r = 0
        BY <1>1, <2>2 DEF WithdrawUnbonded
      <3> HIDE DEF U, T, r
      <3>2. T - r = T /\ (U * r) \div T = 0
        BY <1>1, <1>2, <3>1
      <3>3. U - (U * r) \div T = U
        BY <1>2, <3>2
      <3> QED
        BY <3>1, <3>2, <3>3
    <2> QED
      BY <2>1, <2>2
  <1> HIDE DEF r
  <1>4. ~((U - (U * r) \div T) * T < U * (T - r))
    <2> HIDE DEF U, T
    <2> QED
      BY <1>1, <1>2, RoundedDownIsFair
  <1> QED
    BY <1>3, <1>4

\* For every batch and every interleaving, a withdrawal leaves the other users of the
\* batch at least the uluna per share they had.
THEOREM WithdrawalsAreFair == Spec => FairWithdrawals
  <1>1. Inv /\ [Next]_vars => [OthersKeepTheirPart]_vars
    <2> SUFFICES ASSUME Inv, Next PROVE OthersKeepTheirPart \/ UNCHANGED vars
      OBVIOUS
    <2>1. CASE \E u \in Users : WithdrawUnbonded(u)
      BY <2>1, WithdrawIsFair
    <2>2. CASE SubmitBatch
      BY <2>2, SubmitIsFair DEF SubmitBatch
    <2>3. CASE \E bal, burn : Submit(bal, burn)
      BY <2>3, SubmitIsFair
    <2>4. CASE UNCHANGED total_shares
      BY <2>4 DEF OthersKeepTheirPart
    <2>5. CASE \E u, r \in Users : \E n \in 1..balance[u] : QueueUnbond(u, r, n)
      BY <2>3, <2>4, <2>5 DEF QueueUnbond, previous_batches
    <2>6. CASE \E v \in Validators : RemoveValidator(v)
      BY <2>4, <2>6 DEF RemoveValidator, Redelegate, queue, previous_batches
    <2>7. CASE \/ \E n \in MinRedelegations : Rebalance(n)
               \/ \E v \in Validators : AddValidator(v)
               \/ TuneDelegations
               \/ \E c \in Configs : UpdateConfig(c)
      BY <2>4, <2>7 DEF Rebalance, Redelegate, AddValidator, TuneDelegations, UpdateConfig,
                        queue, previous_batches
    <2>8. CASE \/ NextBlock
               \/ \E v \in Validators, n \in RewardAmounts : AccrueRewards(v, n)
               \/ \E v \in Validators, n \in DelegationSlashes : SlashDelegation(v, n)
               \/ \E id \in BatchIds, n \in UnbondingSlashes : SlashUnbonding(id, n)
      BY <2>4, <2>8 DEF NextBlock, AccrueRewards, SlashDelegation, SlashUnbonding,
                        queue, previous_batches
    <2>9. CASE \/ \E u \in Users, n \in BondAmounts : Bond(u, n)
               \/ \E n \in BondAmounts : Donate(n)
               \/ Harvest
               \/ \E u \in Users, h \in Holders : \E n \in 1..balance[u] : Transfer(u, h, n)
      BY <2>4, <2>9 DEF Bond, Donate, Harvest, Transfer, queue, previous_batches
    <2>10. CASE Reconcile \/ ReconcileNothing
      BY <2>4, <2>10 DEF Reconcile, ReconcileNothing, vars, queue, previous_batches
    <2> QED
      BY <2>1, <2>2, <2>5, <2>6, <2>7, <2>8, <2>9, <2>10 DEF Next
  <1> QED
    BY <1>1, InvAlways, PTL DEF Spec, FairWithdrawals

-----------------------------------------------------------------------------
(***************************************************************************)
(* What Reconcile writes off                                               *)
(*                                                                         *)
(* The hub takes a batch for paid out when its own unbond_period is over;  *)
(* the chain pays at the end of the first block after its unbonding time.  *)
(* If unbond_period leaves room for the longest gap between two blocks, no *)
(* batch is reconciled while the chain still owes it something             *)
(* (EntriesComeFirst), and then Conservation bounds what is written off by *)
(* what was slashed.                                                       *)
(***************************************************************************)

\* unbond_period covers the chain's unbonding time and the gap between two blocks.
UnbondMargin ==
  \A c \in Configs \cup {InitialConfig} : ChainUnbonding + MaxGap <= c.unbond_period + 1

\* What the chain still owes for a batch is part of what the batch has to hand out, the
\* batch is not reconciled, and it will not be due before the chain has paid.
EntryComesFirst(id) ==
  unbonding[id] > 0 =>
    /\ unbonding[id] <= uluna_unclaimed[id]
    /\ ~reconciled[id]
    /\ now < completion[id] + MaxGap
    /\ completion[id] + MaxGap <= est_unbond_end_time[id] + 1

EntriesComeFirst == \A id \in BatchIds : EntryComesFirst(id)

WriteOffInv == Inv /\ EntriesComeFirst /\ deducted <= slashed

LEMMA WriteOffTypes ==
  ASSUME Inv
  PROVE  /\ unbonding \in [BatchIds -> Nat] /\ uluna_unclaimed \in [BatchIds -> Nat]
         /\ completion \in [BatchIds -> Nat] /\ est_unbond_end_time \in [BatchIds -> Nat]
         /\ reconciled \in [BatchIds -> BOOLEAN]
         /\ now \in Nat /\ slashed \in Nat /\ deducted \in Nat /\ bank \in Nat
         /\ unlocked_coins \in Nat /\ MaxGap \in Nat \ {0} /\ ChainUnbonding \in Nat \ {0}
  BY HubAssumption DEF Inv, TypeOK

\* A batch the chain still owes for is neither due nor withdrawn from.
LEMMA OwedIsNotDue ==
  ASSUME WriteOffInv, NEW id \in BatchIds, unbonding[id] > 0
  PROVE  /\ id \notin Due
         /\ \A u : id \notin Withdrawable(u)
  <1>1. EntryComesFirst(id)
    BY DEF WriteOffInv, EntriesComeFirst
  <1>2. now <= est_unbond_end_time[id] /\ ~reconciled[id]
    BY <1>1, WriteOffTypes DEF WriteOffInv, EntryComesFirst
  <1>3. now \in Nat /\ est_unbond_end_time[id] \in Nat
    BY WriteOffTypes DEF WriteOffInv
  <1> QED
    BY <1>2, <1>3 DEF Due, Withdrawable

\* The steps that neither touch batches nor unbonding entries.
LEMMA EntriesUnchanged ==
  ASSUME WriteOffInv,
         UNCHANGED <<now, unbonding, completion, uluna_unclaimed, reconciled,
                     est_unbond_end_time, slashed, deducted>>
  PROVE  EntriesComeFirst' /\ (deducted <= slashed)'
  BY DEF WriteOffInv, EntriesComeFirst, EntryComesFirst

LEMMA NextBlockEntries ==
  ASSUME WriteOffInv, NextBlock
  PROVE  EntriesComeFirst' /\ (deducted <= slashed)'
  <1>1. PICK gap \in 1..MaxGap : now' = now + gap
    BY DEF NextBlock
  <1>2. /\ unbonding' = [id \in BatchIds |-> IF completion[id] <= now THEN 0 ELSE unbonding[id]]
        /\ uluna_unclaimed' = uluna_unclaimed /\ reconciled' = reconciled
        /\ completion' = completion /\ est_unbond_end_time' = est_unbond_end_time
        /\ slashed' = slashed /\ deducted' = deducted
    BY DEF NextBlock, queue, previous_batches, history
  <1>3. ASSUME NEW id \in BatchIds PROVE EntryComesFirst(id)'
    <2> SUFFICES ASSUME unbonding'[id] > 0
                 PROVE  /\ unbonding'[id] <= uluna_unclaimed[id]
                        /\ ~reconciled[id]
                        /\ now' < completion[id] + MaxGap
                        /\ completion[id] + MaxGap <= est_unbond_end_time[id] + 1
      BY <1>2 DEF EntryComesFirst
    <2>1. ~(completion[id] <= now) /\ unbonding'[id] = unbonding[id]
      BY <1>2
    <2>2. EntryComesFirst(id)
      BY DEF WriteOffInv, EntriesComeFirst
    <2>3. now' < completion[id] + MaxGap
      <3>1. now \in Nat /\ completion[id] \in Nat /\ MaxGap \in Nat
        BY WriteOffTypes DEF WriteOffInv
      <3> QED
        BY <1>1, <2>1, <3>1
    <2> QED
      BY <2>1, <2>2, <2>3 DEF EntryComesFirst
  <1> QED
    BY <1>2, <1>3 DEF WriteOffInv, EntriesComeFirst

LEMMA SlashUnbondingEntries ==
  ASSUME WriteOffInv, NEW id \in BatchIds, NEW n \in UnbondingSlashes, SlashUnbonding(id, n)
  PROVE  EntriesComeFirst' /\ (deducted <= slashed)'
  <1>1. n \in Nat
    BY HubAssumption
  <1>2. /\ n < unbonding[id] /\ unbonding' = [unbonding EXCEPT ![id] = @ - n]
        /\ slashed' = slashed + n /\ deducted' = deducted
        /\ now' = now /\ completion' = completion /\ uluna_unclaimed' = uluna_unclaimed
        /\ reconciled' = reconciled /\ est_unbond_end_time' = est_unbond_end_time
    BY DEF SlashUnbonding, queue, previous_batches
  <1>3. ASSUME NEW j \in BatchIds
        PROVE  unbonding'[j] \in Nat /\ unbonding[j] \in Nat /\ unbonding'[j] <= unbonding[j]
    BY <1>1, <1>2, WriteOffTypes DEF WriteOffInv
  <1>4. ASSUME NEW j \in BatchIds PROVE EntryComesFirst(j)'
    <2>1. EntryComesFirst(j)
      BY DEF WriteOffInv, EntriesComeFirst
    <2>2. uluna_unclaimed[j] \in Nat
      BY WriteOffTypes DEF WriteOffInv
    <2> QED
      BY <1>2, <1>3, <2>1, <2>2 DEF EntryComesFirst
  <1>5. (deducted <= slashed)'
    BY <1>1, <1>2, WriteOffTypes DEF WriteOffInv
  <1> QED
    BY <1>4, <1>5 DEF EntriesComeFirst

LEMMA SubmitEntries ==
  ASSUME UnbondMargin, WriteOffInv, NEW bal, NEW burn, Submit(bal, burn),
         unbonding' \in [BatchIds -> Nat]
  PROVE  EntriesComeFirst' /\ (deducted <= slashed)'
  <1>1. PICK id, uluna : /\ id = pending_batch.id
                         /\ uluna = ComputeUnbondAmount(Total(bal), burn, Bonded)
    OBVIOUS
  <1>2. /\ uluna_unclaimed' = [uluna_unclaimed EXCEPT ![id] = uluna]
        /\ reconciled' = [reconciled EXCEPT ![id] = FALSE]
        /\ est_unbond_end_time' = [est_unbond_end_time EXCEPT ![id] = now + config.unbond_period]
        /\ unbonding' = [unbonding EXCEPT ![id] = uluna]
        /\ completion' = [completion EXCEPT ![id] = now + ChainUnbonding]
        /\ now' = now /\ slashed' = slashed /\ deducted' = deducted
    BY <1>1 DEF Submit, history
  <1>3. id \in BatchIds
    BY <1>1, IdsAreNat DEF WriteOffInv, Inv
  <1>4. ASSUME NEW j \in BatchIds PROVE EntryComesFirst(j)'
    <2>1. CASE j = id
      <3>1. config.unbond_period \in Nat /\ ChainUnbonding + MaxGap <= config.unbond_period + 1
        BY HubAssumption DEF UnbondMargin, WriteOffInv, Inv, TypeOK
      <3>2. now \in Nat /\ MaxGap \in Nat \ {0} /\ ChainUnbonding \in Nat \ {0}
        BY WriteOffTypes DEF WriteOffInv
      <3>3. /\ uluna_unclaimed'[id] = uluna /\ unbonding'[id] = uluna /\ ~reconciled'[id]
            /\ completion'[id] = now + ChainUnbonding
            /\ est_unbond_end_time'[id] = now + config.unbond_period
        BY <1>2, <1>3, WriteOffTypes DEF WriteOffInv
      <3>4. uluna \in Nat
        BY <1>3, <3>3
      <3> QED
        BY <1>2, <2>1, <3>1, <3>2, <3>3, <3>4 DEF EntryComesFirst
    <2>2. CASE j # id
      <3>1. /\ uluna_unclaimed'[j] = uluna_unclaimed[j] /\ unbonding'[j] = unbonding[j]
            /\ reconciled'[j] = reconciled[j] /\ completion'[j] = completion[j]
            /\ est_unbond_end_time'[j] = est_unbond_end_time[j] /\ now' = now
        BY <1>2, <1>3, <2>2, WriteOffTypes DEF WriteOffInv
      <3>2. EntryComesFirst(j)
        BY DEF WriteOffInv, EntriesComeFirst
      <3> QED
        BY <3>1, <3>2 DEF EntryComesFirst
    <2> QED
      BY <2>1, <2>2
  <1> QED
    BY <1>2, <1>4 DEF WriteOffInv, EntriesComeFirst

LEMMA WithdrawEntries ==
  ASSUME WriteOffInv, NEW user \in Users, WithdrawUnbonded(user)
  PROVE  EntriesComeFirst' /\ (deducted <= slashed)'
  <1>1. /\ unbonding' = unbonding /\ completion' = completion /\ now' = now
        /\ slashed' = slashed /\ deducted' = deducted
    BY DEF WithdrawUnbonded, history
  <1>2. ASSUME NEW j \in BatchIds PROVE EntryComesFirst(j)'
    <2> SUFFICES ASSUME unbonding[j] > 0 PROVE EntryComesFirst(j)'
      BY <1>1 DEF EntryComesFirst
    <2>1. j \notin Withdrawable(user)
      BY OwedIsNotDue
    <2>2. /\ uluna_unclaimed'[j] = uluna_unclaimed[j]
          /\ reconciled'[j] => reconciled[j]
          /\ est_unbond_end_time'[j] = est_unbond_end_time[j]
      BY <2>1 DEF WithdrawUnbonded
    <2>3. EntryComesFirst(j)
      BY DEF WriteOffInv, EntriesComeFirst
    <2> QED
      BY <1>1, <2>2, <2>3 DEF EntryComesFirst
  <1> QED
    BY <1>1, <1>2 DEF WriteOffInv, EntriesComeFirst

\* What the chain still owes is covered by the batches outside D, when nothing is owed
\* for those in D.
LEMMA OwedElsewhere ==
  ASSUME WriteOffInv, NEW D, D \subseteq BatchIds, \A id \in D : unbonding[id] = 0
  PROVE  /\ Owed(D) \in Nat
         /\ Total(unbonding) + Owed(D) <= Total(uluna_unclaimed)
  <1> DEFINE u == [id \in D |-> uluna_unclaimed[id]]
             due == [id \in BatchIds |-> IF id \in D THEN uluna_unclaimed[id] ELSE 0]
             both == [id \in BatchIds |-> unbonding[id] + due[id]]
  <1>1. unbonding \in [BatchIds -> Nat] /\ uluna_unclaimed \in [BatchIds -> Nat]
    BY WriteOffTypes DEF WriteOffInv
  <1>2. /\ u \in [D -> Nat] /\ due \in [BatchIds -> Nat] /\ both \in [BatchIds -> Nat]
        /\ (\A id \in D : due[id] = u[id]) /\ (\A id \in BatchIds \ D : due[id] = 0)
        /\ \A id \in BatchIds : both[id] = unbonding[id] + due[id]
    BY <1>1
  <1>3. \A id \in BatchIds : both[id] <= uluna_unclaimed[id]
    <2>1. ASSUME NEW id \in BatchIds PROVE both[id] <= uluna_unclaimed[id]
      <3>1. EntryComesFirst(id)
        BY DEF WriteOffInv, EntriesComeFirst
      <3>2. unbonding[id] \in Nat /\ uluna_unclaimed[id] \in Nat
        BY <1>1
      <3>3. unbonding[id] <= uluna_unclaimed[id]
        BY <3>1, <3>2 DEF EntryComesFirst
      <3> QED
        BY <1>2, <3>2, <3>3
    <2> QED
      BY <2>1
  <1>4. Owed(D) = Total(u)
    BY DEF Owed
  <1> HIDE DEF u, due, both
  <1>5. Total(due) = Total(u)
    BY <1>2, SumExtend
  <1>6. Total(both) = Total(unbonding) + Total(due)
    BY <1>1, <1>2, FiniteIndices, SumAdd
  <1>7. Total(both) <= Total(uluna_unclaimed)
    BY <1>1, <1>2, <1>3, FiniteIndices, SumMono
  <1>8. Total(due) \in Nat
    BY <1>2, FiniteIndices, SumType
  <1> QED
    BY <1>4, <1>5, <1>6, <1>7, <1>8

LEMMA ReconcileEntries ==
  ASSUME WriteOffInv, Reconcile
  PROVE  EntriesComeFirst' /\ (deducted <= slashed)'
  <1>1. PICK D, e : D = Due /\ e = [id \in D |-> uluna_unclaimed[id]]
    OBVIOUS
  <1>2. PICK short, l : /\ short = SatSub(Total(e) + unlocked_coins, bank)
                        /\ l = IF short = 0 THEN e ELSE ReconcileBatches(e, short)
    OBVIOUS
  <1>3. /\ Total(e) > 0
        /\ short > 0 => ReconcileDefined(e, short)
        /\ reconciled' = [id \in BatchIds |-> id \in D \/ reconciled[id]]
        /\ uluna_unclaimed' = [id \in BatchIds |-> IF id \in D THEN l[id] ELSE uluna_unclaimed[id]]
        /\ deducted' = deducted + SatSub(Total(e), Total(l))
        /\ now' = now /\ unbonding' = unbonding /\ completion' = completion
        /\ est_unbond_end_time' = est_unbond_end_time /\ slashed' = slashed
    BY <1>1, <1>2 DEF Reconcile, ReconcileShortfall
  <1>4. D \subseteq BatchIds /\ IsFiniteSet(D)
    BY <1>1, FiniteIndices, FS_Subset DEF Due, Batches
  <1>5. /\ uluna_unclaimed \in [BatchIds -> Nat] /\ unbonding \in [BatchIds -> Nat]
        /\ bank \in Nat /\ unlocked_coins \in Nat /\ slashed \in Nat /\ deducted \in Nat
    BY WriteOffTypes DEF WriteOffInv
  <1>6. e \in [D -> Nat]
    BY <1>1, <1>4, <1>5
  <1>7. \A id \in D : unbonding[id] = 0
    <2>1. ASSUME NEW id \in D PROVE unbonding[id] = 0
      <3>1. id \in BatchIds /\ unbonding[id] \in Nat /\ id \in Due
        BY <1>1, <1>4, <1>5
      <3>2. ~(unbonding[id] > 0)
        BY <3>1, OwedIsNotDue
      <3> QED
        BY <3>1, <3>2
    <2> QED
      BY <2>1
  <1>8. ASSUME NEW j \in BatchIds PROVE EntryComesFirst(j)'
    <2>1. EntryComesFirst(j)
      BY DEF WriteOffInv, EntriesComeFirst
    <2>2. CASE unbonding[j] > 0
      <3>1. j \notin D
        BY <1>1, <2>2, OwedIsNotDue
      <3>2. reconciled'[j] = reconciled[j] /\ uluna_unclaimed'[j] = uluna_unclaimed[j]
        BY <1>3, <3>1, WriteOffTypes DEF WriteOffInv
      <3> QED
        BY <1>3, <2>1, <3>2 DEF EntryComesFirst
    <2>3. CASE ~(unbonding[j] > 0)
      BY <1>3, <2>3 DEF EntryComesFirst
    <2> QED
      BY <2>2, <2>3
  <1>9. Total(e) \in Nat /\ short \in Nat
    <2>1. Total(e) \in Nat
      BY <1>4, <1>6, SumType
    <2> QED
      BY <1>2, <1>5, <2>1, SatSubType
  <1>10. Total(l) \in Nat /\ Total(e) <= Total(l) + short
    <2>1. CASE short = 0
      BY <1>2, <1>9, <2>1
    <2>2. CASE short # 0
      <3>1. D # {}
        <4>1. ASSUME D = {} PROVE FALSE
          <5>1. \A id \in D : e[id] = 0
            BY <4>1
          <5>2. Total(e) = 0
            BY <1>4, <1>6, <5>1, SumZero
          <5> QED
            BY <1>3, <5>2
        <4> QED
          BY <4>1
      <3>2. ReconcileDefined(e, short)
        BY <1>3, <1>9, <2>2
      <3>3. Bounded(D)
        BY <1>4, BoundedIds
      <3>4. l = ReconcileBatches(e, short)
        BY <1>2, <2>2
      <3>5. l \in [D -> Nat] /\ Total(e) <= Total(l) + short
        BY <1>4, <1>6, <1>9, <3>1, <3>2, <3>3, <3>4, ReconcileBatchesLaw
      <3> QED
        BY <1>4, <3>5, SumType
    <2> QED
      BY <2>1, <2>2
  <1>11. Total(e) = Owed(D)
    BY <1>1 DEF Owed
  <1>12. Total(unbonding) + Total(e) <= Total(uluna_unclaimed)
    BY <1>4, <1>7, <1>11, OwedElsewhere
  <1>13. Total(unbonding) \in Nat /\ Total(uluna_unclaimed) \in Nat
    BY <1>5, FiniteIndices, SumType
  <1>14. bank + Total(unbonding) + slashed = unlocked_coins + Total(uluna_unclaimed) + deducted
    BY DEF WriteOffInv, Inv, Conservation
  <1>15. deducted' <= slashed
    <2>1. deducted <= slashed
      BY DEF WriteOffInv
    <2>2. deducted' <= deducted + short
      BY <1>3, <1>5, <1>9, <1>10 DEF SatSub
    <2>3. short = 0 \/ short = Total(e) + unlocked_coins - bank
      BY <1>2, <1>5, <1>9 DEF SatSub
    <2>4. deducted' \in Nat
      BY <1>3, <1>5, <1>9, <1>10 DEF SatSub
    <2> QED
      BY <1>5, <1>9, <1>12, <1>13, <1>14, <2>1, <2>2, <2>3, <2>4
  <1> QED
    BY <1>3, <1>8, <1>15 DEF EntriesComeFirst

LEMMA WriteOffStep ==
  ASSUME UnbondMargin, WriteOffInv, [Next]_vars
  PROVE  WriteOffInv'
  <1>1. Inv'
    BY NextInv DEF WriteOffInv
  <1> SUFFICES EntriesComeFirst' /\ (deducted <= slashed)'
    BY <1>1 DEF WriteOffInv
  <1>2. CASE UNCHANGED <<now, unbonding, completion, previous_batches, history>>
    BY <1>2, EntriesUnchanged DEF previous_batches, history
  <1>3. CASE \E bal, burn : Submit(bal, burn)
    <2>1. unbonding' \in [BatchIds -> Nat]
      BY <1>1 DEF Inv, TypeOK
    <2> QED
      BY <1>3, <2>1, SubmitEntries
  <1>4. CASE NextBlock
    BY <1>4, NextBlockEntries
  <1>5. CASE \E id \in BatchIds, n \in UnbondingSlashes : SlashUnbonding(id, n)
    BY <1>5, SlashUnbondingEntries
  <1>6. CASE Reconcile
    BY <1>6, ReconcileEntries
  <1>7. CASE \E u \in Users : WithdrawUnbonded(u)
    BY <1>7, WithdrawEntries
  <1>8. CASE SubmitBatch
    BY <1>3, <1>8 DEF SubmitBatch
  <1>9. CASE \E u, r \in Users : \E n \in 1..balance[u] : QueueUnbond(u, r, n)
    BY <1>2, <1>3, <1>9 DEF QueueUnbond
  <1>10. CASE \/ \E v \in Validators, n \in RewardAmounts : AccrueRewards(v, n)
              \/ \E v \in Validators, n \in DelegationSlashes : SlashDelegation(v, n)
              \/ \E u \in Users, n \in BondAmounts : Bond(u, n)
              \/ \E n \in BondAmounts : Donate(n)
              \/ Harvest
              \/ \E u \in Users, h \in Holders : \E n \in 1..balance[u] : Transfer(u, h, n)
    BY <1>2, <1>10 DEF AccrueRewards, SlashDelegation, Bond, Donate, Harvest, Transfer, queue
  <1>11. CASE \/ \E n \in MinRedelegations : Rebalance(n)
              \/ \E v \in Validators : AddValidator(v)
              \/ TuneDelegations
              \/ \E c \in Configs : UpdateConfig(c)
    BY <1>2, <1>11 DEF Rebalance, Redelegate, AddValidator, TuneDelegations, UpdateConfig, queue
  <1>12. CASE \E v \in Validators : RemoveValidator(v)
    BY <1>2, <1>12 DEF RemoveValidator, Redelegate, queue
  <1>13. CASE ReconcileNothing \/ UNCHANGED vars
    BY <1>2, <1>13 DEF ReconcileNothing, vars, queue
  <1> QED
    BY <1>4, <1>5, <1>6, <1>7, <1>8, <1>9, <1>10, <1>11, <1>12, <1>13 DEF Next

\* Nothing that is reconciled is still owed by the chain, so without slashing the
\* account covers the unlocked coins and all reconciled batches.
LEMMA WriteOffPayable ==
  ASSUME WriteOffInv
  PROVE  ReconciledPayable
  <1> SUFFICES ASSUME slashed = 0 PROVE Payable
    BY DEF WriteOffInv, ReconciledPayable
  <1>1. PICK D : D = {id \in Batches : reconciled[id]}
    OBVIOUS
  <1>2. D \subseteq BatchIds
    BY <1>1 DEF Batches
  <1>3. \A id \in D : unbonding[id] = 0
    <2>1. ASSUME NEW id \in D PROVE unbonding[id] = 0
      <3>1. id \in BatchIds /\ reconciled[id] /\ unbonding[id] \in Nat
        BY <1>1, <1>2, WriteOffTypes DEF WriteOffInv
      <3>2. EntryComesFirst(id)
        BY <3>1 DEF WriteOffInv, EntriesComeFirst
      <3> QED
        BY <3>1, <3>2 DEF EntryComesFirst
    <2> QED
      BY <2>1
  <1>4. Owed(D) \in Nat /\ Total(unbonding) + Owed(D) <= Total(uluna_unclaimed)
    BY <1>2, <1>3, OwedElsewhere
  <1>5. Total(unbonding) \in Nat /\ Total(uluna_unclaimed) \in Nat
    BY FiniteIndices, SumType, WriteOffTypes DEF WriteOffInv
  <1>6. bank + Total(unbonding) + slashed = unlocked_coins + Total(uluna_unclaimed) + deducted
    BY DEF WriteOffInv, Inv, Conservation
  <1>7. deducted <= slashed /\ deducted \in Nat /\ bank \in Nat /\ unlocked_coins \in Nat
    BY WriteOffTypes DEF WriteOffInv
  <1>8. unlocked_coins + Owed(D) <= bank
    BY <1>4, <1>5, <1>6, <1>7
  <1> QED
    BY <1>1, <1>8 DEF Payable

LEMMA WriteOffInit == Init => WriteOffInv
  <1> SUFFICES ASSUME Init PROVE WriteOffInv
    OBVIOUS
  <1>1. EntriesComeFirst
    BY DEF Init, EntriesComeFirst, EntryComesFirst
  <1>2. deducted <= slashed
    BY DEF Init
  <1> QED
    BY <1>1, <1>2, InitInv DEF WriteOffInv

\* When unbond_period leaves room for the gap between two blocks, Reconcile writes off
\* no more than slashing took, and without slashing every withdrawal is covered, for
\* any batches, requests, delays and order of transactions.
THEOREM ReconciledIsPayable ==
  ASSUME UnbondMargin
  PROVE  Spec => []ReconciledPayable
  <1>1. WriteOffInv /\ [Next]_vars => WriteOffInv'
    BY WriteOffStep
  <1> QED
    BY <1>1, WriteOffInit, WriteOffPayable, PTL DEF Spec

=============================================================================
