----------------------------- MODULE SumsProofs -----------------------------
(***************************************************************************)
(* The laws of Total: what a total becomes when one key changes, when all of *)
(* them shrink, and when two maps are added key by key.                    *)
(***************************************************************************)
EXTENDS Sums, FiniteSetTheorems, FunctionTheorems, WellFoundedInduction, TLAPS

\* A unit of f is a pair of a key and a number that is at most its amount.
LEMMA UnitsMember ==
  ASSUME NEW f, NEW p
  PROVE  p \in Units(f) <=>
           \E x \in DOMAIN f : \E i \in 1..f[x] : p = <<x, i>>
  BY DEF Units, UnitsAt

\* One key's units are finitely many: as many as the key's amount.
LEMMA UnitsAtCount ==
  ASSUME NEW x, NEW n \in Nat
  PROVE  IsFiniteSet(UnitsAt(x, n)) /\ Cardinality(UnitsAt(x, n)) = n
  <1>1. IsFiniteSet({x}) /\ Cardinality({x}) = 1
    BY FS_Singleton
  <1>2. IsFiniteSet(1..n) /\ Cardinality(1..n) = n
    BY FS_Interval
  <1>3. /\ IsFiniteSet({x} \X (1..n))
        /\ Cardinality({x} \X (1..n)) = Cardinality({x}) * Cardinality(1..n)
    BY <1>1, <1>2, FS_Product
  <1> QED
    BY <1>1, <1>2, <1>3 DEF UnitsAt

\* The units of amounts over finitely many keys are finitely many, so a total
\* is a natural number.
LEMMA SumType ==
  ASSUME NEW S, IsFiniteSet(S), NEW f \in [S -> Nat]
  PROVE  IsFiniteSet(Units(f)) /\ Total(f) \in Nat
  <1> DEFINE g == [x \in S |-> UnitsAt(x, f[x])]
             R == {UnitsAt(x, f[x]) : x \in S}
  <1>1. g \in Surjection(S, R)
    BY DEF Surjection
  <1>2. IsFiniteSet(R)
    BY <1>1, FS_Surjection
  <1>3. \A T \in R : IsFiniteSet(T)
    BY UnitsAtCount
  <1>4. IsFiniteSet(UNION R)
    BY <1>2, <1>3, FS_UNION
  <1>5. Units(f) = UNION R
    BY DEF Units
  <1> QED
    BY <1>4, <1>5, FS_CardinalityType DEF Total

\* Shrinking amounts key by key shrinks the total.
LEMMA SumMono ==
  ASSUME NEW S, IsFiniteSet(S), NEW f \in [S -> Nat], NEW g \in [S -> Nat],
         \A x \in S : g[x] <= f[x]
  PROVE  Total(g) <= Total(f)
  <1>1. Units(g) \subseteq Units(f)
    <2> SUFFICES ASSUME NEW p \in Units(g) PROVE p \in Units(f)
      OBVIOUS
    <2>1. PICK x \in S, i \in Nat : i \in 1..g[x] /\ p = <<x, i>>
      BY UnitsMember
    <2>2. i \in 1..f[x]
      BY <2>1
    <2> QED
      BY <2>1, <2>2, UnitsMember
  <1> QED
    BY <1>1, SumType, FS_Subset DEF Total

\* Setting one key's amount changes the total by the change of that amount.
LEMMA SumChange ==
  ASSUME NEW S, IsFiniteSet(S), NEW f \in [S -> Nat], NEW g \in [S -> Nat],
         NEW x \in S, \A y \in S \ {x} : g[y] = f[y]
  PROVE  Total(g) + f[x] = Total(f) + g[x]
  <1> DEFINE Rest == {p \in Units(f) : p[1] # x}
  <1>1. ASSUME NEW h \in [S -> Nat], \A y \in S \ {x} : h[y] = f[y]
        PROVE  Total(h) = Cardinality(Rest) + h[x]
    <2>1. Units(h) = Rest \cup UnitsAt(x, h[x])
      <3>1. ASSUME NEW p \in Units(h) PROVE p \in Rest \cup UnitsAt(x, h[x])
        <4>1. PICK y \in S, i \in Nat : i \in 1..h[y] /\ p = <<y, i>>
          BY UnitsMember
        <4>2. CASE y = x
          BY <4>1, <4>2 DEF UnitsAt
        <4>3. CASE y # x
          <5>1. i \in 1..f[y]
            BY <4>1, <4>3, <1>1
          <5>2. p \in Units(f)
            BY <4>1, <5>1, UnitsMember
          <5> QED
            BY <4>1, <4>3, <5>2
        <4> QED
          BY <4>2, <4>3
      <3>2. ASSUME NEW p \in Rest PROVE p \in Units(h)
        <4>1. PICK y \in S, i \in Nat : i \in 1..f[y] /\ p = <<y, i>>
          BY UnitsMember
        <4>2. y # x
          BY <4>1
        <4>3. i \in 1..h[y]
          BY <4>1, <4>2, <1>1
        <4> QED
          BY <4>1, <4>3, UnitsMember
      <3>3. ASSUME NEW p \in UnitsAt(x, h[x]) PROVE p \in Units(h)
        BY <3>3, UnitsMember DEF UnitsAt
      <3> QED
        BY <3>1, <3>2, <3>3
    <2>2. IsFiniteSet(Units(f)) /\ Rest \subseteq Units(f)
      BY SumType
    <2>3. IsFiniteSet(Rest) /\ Cardinality(Rest) \in Nat
      BY <2>2, FS_Subset, FS_CardinalityType
    <2>4. h[x] \in Nat
      BY <1>1
    <2>5. Rest \cap UnitsAt(x, h[x]) = {}
      BY DEF UnitsAt
    <2>6. IsFiniteSet(UnitsAt(x, h[x])) /\ Cardinality(UnitsAt(x, h[x])) = h[x]
      BY <2>4, UnitsAtCount
    <2>7. Cardinality(Units(h)) = Cardinality(Rest) + h[x] - Cardinality({})
      BY <2>1, <2>3, <2>5, <2>6, FS_Union
    <2> QED
      BY <2>3, <2>4, <2>7, FS_EmptySet DEF Total
  <1>2. Total(f) = Cardinality(Rest) + f[x]
    BY <1>1
  <1>3. Total(g) = Cardinality(Rest) + g[x]
    BY <1>1
  <1>4. Cardinality(Rest) \in Nat
    BY SumType, FS_Subset, FS_CardinalityType
  <1> QED
    BY <1>2, <1>3, <1>4

\* No key holds more than the total.
LEMMA SumElement ==
  ASSUME NEW S, IsFiniteSet(S), NEW f \in [S -> Nat], NEW x \in S
  PROVE  f[x] <= Total(f)
  <1> DEFINE g == [f EXCEPT ![x] = 0]
  <1>1. g \in [S -> Nat] /\ g[x] = 0 /\ \A y \in S \ {x} : g[y] = f[y]
    OBVIOUS
  <1> HIDE DEF g
  <1>2. Total(g) + f[x] = Total(f) + g[x]
    BY <1>1, SumChange
  <1>3. Total(g) \in Nat /\ Total(f) \in Nat /\ f[x] \in Nat
    BY <1>1, SumType
  <1> QED
    BY <1>1, <1>2, <1>3

\* Amounts that are all zero total zero, and only those do.
LEMMA SumZero ==
  ASSUME NEW S, IsFiniteSet(S), NEW f \in [S -> Nat]
  PROVE  Total(f) = 0 <=> \A x \in S : f[x] = 0
  <1>1. ASSUME \A x \in S : f[x] = 0 PROVE Total(f) = 0
    <2>1. Units(f) = {}
      BY <1>1, UnitsMember
    <2> QED
      BY <2>1, FS_EmptySet DEF Total
  <1>2. ASSUME Total(f) = 0, NEW x \in S PROVE f[x] = 0
    BY <1>2, SumElement
  <1> QED
    BY <1>1, <1>2

\* Adding two maps key by key adds their totals.
LEMMA SumAdd ==
  ASSUME NEW S, IsFiniteSet(S), NEW f \in [S -> Nat], NEW g \in [S -> Nat],
         NEW h \in [S -> Nat], \A x \in S : h[x] = f[x] + g[x]
  PROVE  Total(h) = Total(f) + Total(g)
  <1> DEFINE Upper == {p \in Units(h) : p \notin Units(f)}
             b == [p \in Units(g) |-> <<p[1], f[p[1]] + p[2]>>]
  <1>1. Units(f) \subseteq Units(h)
    <2> SUFFICES ASSUME NEW p \in Units(f) PROVE p \in Units(h)
      OBVIOUS
    <2>1. PICK x \in S, i \in Nat : i \in 1..f[x] /\ p = <<x, i>>
      BY UnitsMember
    <2>2. i \in 1..h[x]
      BY <2>1
    <2> QED
      BY <2>1, <2>2, UnitsMember
  <1>2. \A x \in S : \A i \in 1..h[x] : <<x, i>> \in Upper <=> i > f[x]
    <2> TAKE x \in S
    <2> TAKE i \in 1..h[x]
    <2>1. <<x, i>> \in Units(h)
      BY UnitsMember
    <2>2. <<x, i>> \in Units(f) <=> i <= f[x]
      BY UnitsMember
    <2>3. f[x] \in Nat /\ i \in Nat
      OBVIOUS
    <2> QED
      BY <2>1, <2>2, <2>3
  <1>3. b \in Bijection(Units(g), Upper)
    <2>1. ASSUME NEW p \in Units(g) PROVE b[p] \in Upper
      <3>1. PICK x \in S, i \in Nat : i \in 1..g[x] /\ p = <<x, i>>
        BY UnitsMember
      <3>2. f[x] + i \in 1..h[x] /\ f[x] + i > f[x]
        BY <3>1
      <3>3. b[p] = <<x, f[x] + i>>
        BY <3>1
      <3> QED
        BY <3>2, <3>3, <1>2
    <2>2. ASSUME NEW p \in Units(g), NEW q \in Units(g), b[p] = b[q]
          PROVE  p = q
      <3>1. PICK x \in S, i \in Nat : i \in 1..g[x] /\ p = <<x, i>>
        BY UnitsMember
      <3>2. PICK y \in S, j \in Nat : j \in 1..g[y] /\ q = <<y, j>>
        BY UnitsMember
      <3>3. b[p] = <<x, f[x] + i>> /\ b[q] = <<y, f[y] + j>>
        BY <3>1, <3>2
      <3>4. x = y /\ f[x] + i = f[x] + j
        BY <2>2, <3>3
      <3>5. i = j
        BY <3>4
      <3> QED
        BY <3>1, <3>2, <3>4, <3>5
    <2>3. ASSUME NEW q \in Upper PROVE \E p \in Units(g) : b[p] = q
      <3>1. PICK x \in S, i \in Nat : i \in 1..h[x] /\ q = <<x, i>>
        BY UnitsMember
      <3>2. i > f[x]
        BY <3>1, <1>2
      <3>3. i - f[x] \in 1..g[x] /\ f[x] + (i - f[x]) = i
        BY <3>1, <3>2
      <3>4. <<x, i - f[x]>> \in Units(g)
        BY <3>3, UnitsMember
      <3>5. b[<<x, i - f[x]>>] = q
        BY <3>1, <3>3, <3>4
      <3> QED
        BY <3>4, <3>5
    <2>4. b \in [Units(g) -> Upper]
      BY <2>1
    <2> HIDE DEF b, Upper
    <2>5. b \in Injection(Units(g), Upper)
      BY <2>2, <2>4 DEF Injection, IsInjective
    <2>6. b \in Surjection(Units(g), Upper)
      BY <2>3, <2>4 DEF Surjection
    <2> QED
      BY <2>5, <2>6 DEF Bijection
  <1>4. Cardinality(Upper) = Total(g)
    BY <1>3, SumType, FS_Bijection DEF ExistsBijection, Total
  <1>5. IsFiniteSet(Units(h)) /\ IsFiniteSet(Units(f))
    BY SumType
  <1>6. Upper = Units(h) \ Units(f)
    OBVIOUS
  <1>7. Cardinality(Upper) = Total(h) - Total(f)
    <2>1. Units(h) \cap Units(f) = Units(f)
      BY <1>1
    <2> QED
      BY <1>5, <1>6, <2>1, FS_Difference DEF Total
  <1> QED
    BY <1>4, <1>7, SumType

\* Keys that hold nothing do not count.
LEMMA SumExtend ==
  ASSUME NEW S, NEW T, S \subseteq T, NEW f \in [S -> Nat], NEW g \in [T -> Nat],
         \A x \in S : g[x] = f[x], \A x \in T \ S : g[x] = 0
  PROVE  Total(g) = Total(f)
  <1>1. Units(g) = Units(f)
    <2>1. ASSUME NEW p \in Units(g) PROVE p \in Units(f)
      <3>1. PICK x \in T, i \in Nat : i \in 1..g[x] /\ p = <<x, i>>
        BY UnitsMember
      <3>2. x \in S
        BY <3>1
      <3> QED
        BY <3>1, <3>2, UnitsMember
    <2>2. ASSUME NEW p \in Units(f) PROVE p \in Units(g)
      <3>1. PICK x \in S, i \in Nat : i \in 1..f[x] /\ p = <<x, i>>
        BY UnitsMember
      <3> QED
        BY <3>1, UnitsMember
    <2> QED
      BY <2>1, <2>2
  <1> QED
    BY <1>1 DEF Total

\* A set of natural numbers has a least one.  What holds for 0 and is passed on from a
\* number to the next then holds for all: the least number for which it failed would
\* have a predecessor.
LEMMA NatMin ==
  ASSUME NEW T, T \subseteq Nat, T # {}
  PROVE  \E x \in T : \A y \in T : x <= y
<1>1. \E R : IsWellFoundedOn(R, Nat) /\ \A x, y \in Nat : y < x => <<y, x>> \in R
  <2>1. IsWellFoundedOn(OpToRel(<, Nat), Nat)
    BY NatLessThanWellFounded, Zenon
  <2>2. \A x, y \in Nat : y < x => <<y, x>> \in OpToRel(<, Nat)
    BY DEF OpToRel
  <2> QED
    BY <2>1, <2>2, Zenon
<1>2. PICK R : IsWellFoundedOn(R, Nat) /\ \A x, y \in Nat : y < x => <<y, x>> \in R
  BY <1>1
<1>3. PICK x \in T : \A y \in T : ~ (<<y, x>> \in R)
  BY <1>2, WFMin
<1>4. \A y \in T : ~ (y < x)
  BY <1>2, <1>3, Zenon
<1> QED
  BY <1>4

\* Multiplying every amount multiplies the total.
LEMMA SumScale ==
  ASSUME NEW S, IsFiniteSet(S), NEW f \in [S -> Nat], NEW k \in Nat
  PROVE  Total([x \in S |-> k * f[x]]) = k * Total(f)
<1> DEFINE times(n) == [x \in S |-> n * f[x]]
           Bad == {n \in Nat : Total(times(n)) # n * Total(f)}
<1>1. \A n \in Nat : times(n) \in [S -> Nat]
  OBVIOUS
<1>2. Total(f) \in Nat
  BY SumType
<1>3. ASSUME Bad # {} PROVE FALSE
  <2>1. PICK n \in Bad : \A m \in Bad : n <= m
    BY <1>3, NatMin
  <2>2. n \in Nat /\ Total(times(n)) # n * Total(f)
    OBVIOUS
  <2>3. CASE n = 0
    <3>1. \A x \in S : times(n)[x] = 0
      BY <2>3
    <3>2. Total(times(n)) = 0
      BY <3>1, <1>1, <2>2, SumZero
    <3> QED
      BY <3>2, <2>2, <2>3, <1>2
  <2>4. CASE n # 0
    <3>1. n - 1 \in Nat /\ ~ (n <= n - 1)
      BY <2>2, <2>4
    <3>2. Total(times(n - 1)) = (n - 1) * Total(f)
      BY <3>1, <2>1
    <3>3. \A x \in S : times(n)[x] = times(n - 1)[x] + f[x]
      BY <2>2
    <3>4. times(n) \in [S -> Nat] /\ times(n - 1) \in [S -> Nat]
      BY <1>1, <2>2, <3>1
    <3> HIDE DEF times
    <3>5. Total(times(n)) = Total(times(n - 1)) + Total(f)
      BY <3>3, <3>4, SumAdd
    <3>6. (n - 1) * Total(f) + Total(f) = n * Total(f)
      BY <2>2, <1>2
    <3> QED
      BY <3>2, <3>5, <3>6, <2>2
  <2> QED
    BY <2>3, <2>4
<1> QED
  BY <1>3

\* A bounded set of naturals has a greatest element.
LEMMA NatMax ==
  ASSUME NEW b \in Nat, NEW T, T \subseteq 0..b, T # {}
  PROVE  \E x \in T : \A y \in T : y <= x
<1> DEFINE R == {b - y : y \in T}
<1>1. R \subseteq Nat /\ R # {}
  <2>1. \A y \in T : b - y \in Nat
    OBVIOUS
  <2>2. PICK y : y \in T
    OBVIOUS
  <2>3. b - y \in R
    BY <2>2
  <2> QED
    BY <2>1, <2>3
<1>2. PICK r \in R : \A z \in R : r <= z
  <2> HIDE DEF R
  <2> QED
    BY <1>1, NatMin
<1>3. PICK x \in T : r = b - x
  OBVIOUS
<1>4. ASSUME NEW y \in T PROVE y <= x
  <2>1. b - y \in R
    OBVIOUS
  <2>2. b - x <= b - y
    BY <1>2, <1>3, <2>1
  <2> QED
    BY <2>2
<1> QED
  BY <1>4

\* One unit for each member of a set.
LEMMA SumOnes ==
  ASSUME NEW S, IsFiniteSet(S), NEW T, T \subseteq S,
         NEW f \in [S -> Nat], \A x \in S : f[x] = IF x \in T THEN 1 ELSE 0
  PROVE  Total(f) = Cardinality(T)
<1>1. Units(f) = T \X {1}
  <2>1. ASSUME NEW p \in Units(f) PROVE p \in T \X {1}
    <3>1. PICK x \in S, i \in Nat : i \in 1..f[x] /\ p = <<x, i>>
      BY UnitsMember
    <3>2. x \in T /\ i = 1
      BY <3>1
    <3> QED
      BY <3>1, <3>2
  <2>2. ASSUME NEW x \in T PROVE <<x, 1>> \in Units(f)
    <3>1. x \in DOMAIN f /\ 1 \in 1..f[x]
      OBVIOUS
    <3> QED
      BY <3>1, UnitsMember
  <2> QED
    BY <2>1, <2>2
<1>2. IsFiniteSet(T) /\ Cardinality(T) \in Nat
  BY FS_Subset, FS_CardinalityType
<1>3. IsFiniteSet({1}) /\ Cardinality({1}) = 1
  BY FS_Singleton
<1>4. Cardinality(T \X {1}) = Cardinality(T) * Cardinality({1})
  BY <1>2, <1>3, FS_Product
<1>5. Cardinality(T) * 1 = Cardinality(T)
  BY <1>2
<1> QED
  BY <1>1, <1>3, <1>4, <1>5 DEF Total

\* The same amount for each member of a set.
LEMMA SumSame ==
  ASSUME NEW S, IsFiniteSet(S), NEW T, T \subseteq S, NEW k \in Nat,
         NEW f \in [S -> Nat], \A x \in S : f[x] = IF x \in T THEN k ELSE 0
  PROVE  Total(f) = k * Cardinality(T)
<1> DEFINE one == [x \in S |-> IF x \in T THEN 1 ELSE 0]
           many == [x \in S |-> k * one[x]]
<1>1. one \in [S -> Nat] /\ \A x \in S : one[x] = IF x \in T THEN 1 ELSE 0
  OBVIOUS
<1>2. f = many
  OBVIOUS
<1> HIDE DEF one
<1>3. Total(one) = Cardinality(T)
  BY <1>1, SumOnes
<1>4. Total(many) = k * Total(one)
  BY <1>1, SumScale
<1> QED
  BY <1>2, <1>3, <1>4

\* The elements of a bounded set of naturals in increasing order: at most k of them
\* are among the first k.
LEMMA FirstCount ==
  ASSUME NEW b \in Nat, NEW S, S \subseteq 0..b, IsFiniteSet(S), NEW k \in Nat,
         NEW T, T = {x \in S : Cardinality({j \in S : j <= x}) <= k}
  PROVE  IsFiniteSet(T) /\ Cardinality(T) \in Nat /\ Cardinality(T) <= k
<1>1. T \subseteq S /\ IsFiniteSet(T) /\ Cardinality(T) \in Nat
  BY FS_Subset, FS_CardinalityType
<1>2. CASE T = {}
  <2>1. Cardinality(T) = 0
    BY <1>2, FS_EmptySet, Zenon
  <2> QED
    BY <1>1, <2>1
<1>3. CASE T # {}
  <2>1. PICK x \in T : \A y \in T : y <= x
    BY <1>1, <1>3, NatMax
  <2> DEFINE U == {j \in S : j <= x}
  <2>2. T \subseteq U /\ U \subseteq S
    BY <1>1, <2>1
  <2>3. IsFiniteSet(U) /\ Cardinality(U) \in Nat
    BY <2>2, FS_Subset, FS_CardinalityType
  <2>4. Cardinality(T) <= Cardinality(U)
    BY <2>2, <2>3, FS_Subset
  <2>5. Cardinality(U) <= k
    OBVIOUS
  <2> QED
    BY <1>1, <2>3, <2>4, <2>5
<1> QED
  BY <1>2, <1>3

\* A total of which all but one amount is covered elsewhere.
LEMMA SumOfLast ==
  ASSUME NEW S, IsFiniteSet(S), NEW d \in [S -> Nat], NEW x \in S,
         NEW O, O \subseteq S, NEW c \in [O -> Nat], x \notin O,
         \A j \in O : d[j] <= c[j],
         \A j \in S : d[j] > 0 => j \in O \/ j = x
  PROVE  Total(d) <= Total(c) + d[x]
<1> DEFINE e == [d EXCEPT ![x] = 0]
           dO == [j \in O |-> d[j]]
<1>1. e \in [S -> Nat] /\ e[x] = 0 /\ \A y \in S \ {x} : e[y] = d[y]
  OBVIOUS
<1>2. IsFiniteSet(O)
  BY FS_Subset
<1>3. dO \in [O -> Nat] /\ \A j \in O : dO[j] = d[j]
  OBVIOUS
<1>4. (\A j \in O : e[j] = dO[j]) /\ \A j \in S \ O : e[j] = 0
  <2> HIDE DEF e, dO
  <2>1. ASSUME NEW j \in S \ O, j # x PROVE e[j] = 0
    <3>1. d[j] \in Nat /\ ~(d[j] > 0)
      BY <2>1
    <3> QED
      BY <1>1, <2>1, <3>1
  <2> QED
    BY <1>1, <1>3, <2>1
<1> HIDE DEF e, dO
<1>5. Total(e) = Total(dO)
  BY <1>1, <1>3, <1>4, SumExtend
<1>6. Total(dO) <= Total(c)
  <2>1. \A j \in O : dO[j] <= c[j]
    BY <1>3
  <2> QED
    BY <1>2, <1>3, <2>1, SumMono
<1>7. Total(e) + d[x] = Total(d) + e[x]
  BY <1>1, SumChange
<1>8. Total(e) \in Nat /\ Total(d) \in Nat /\ Total(dO) \in Nat /\ Total(c) \in Nat /\ d[x] \in Nat
  BY <1>1, <1>2, <1>3, SumType
<1> QED
  BY <1>1, <1>5, <1>6, <1>7, <1>8

\* What is taken from a list in order, of each element no more than it has and no more
\* than the elements before it could not give, is no more than was asked for.
LEMMA TakenInOrder ==
  ASSUME NEW b \in Nat, NEW S, S \subseteq 0..b, IsFiniteSet(S),
         NEW l \in [S -> Nat], NEW d \in [S -> Nat], NEW s \in Nat,
         \A x \in S : d[x] <= l[x],
         \A x \in S : d[x] > 0 => Total([j \in {i \in S : i < x} |-> l[j]]) + d[x] <= s
  PROVE  Total(d) <= s
<1> DEFINE P == {x \in S : d[x] > 0}
<1>1. CASE P = {}
  <2>1. \A x \in S : d[x] = 0
    BY <1>1
  <2>2. Total(d) = 0
    BY <2>1, SumZero
  <2> QED
    BY <2>2
<1>2. CASE P # {}
  <2>1. PICK x \in P : \A y \in P : y <= x
    <3>1. P \subseteq 0..b
      OBVIOUS
    <3> HIDE DEF P
    <3> QED
      BY <1>2, <3>1, NatMax
  <2>2. PICK O, c : O = {i \in S : i < x} /\ c = [j \in O |-> l[j]]
    OBVIOUS
  <2>3. Total(c) + d[x] <= s
    BY <2>2
  <2>4. /\ x \in S /\ O \subseteq S /\ c \in [O -> Nat] /\ x \notin O
        /\ \A j \in O : d[j] <= c[j]
    <3>1. x \in S /\ x \in Nat /\ O \subseteq S /\ x \notin O
      BY <2>2
    <3>2. c \in [O -> Nat] /\ \A j \in O : c[j] = l[j]
      BY <2>2, <3>1
    <3> QED
      BY <3>1, <3>2
  <2>5. \A j \in S : d[j] > 0 => j \in O \/ j = x
    BY <2>1, <2>2
  <2>6. Total(d) <= Total(c) + d[x]
    BY <2>4, <2>5, SumOfLast
  <2>7. Total(d) \in Nat /\ Total(c) \in Nat /\ d[x] \in Nat
    <3>1. IsFiniteSet(O)
      BY <2>4, FS_Subset
    <3> QED
      BY <2>4, <3>1, SumType
  <2> QED
    BY <2>3, <2>6, <2>7
<1> QED
  BY <1>1, <1>2

-----------------------------------------------------------------------------
(* Recursive functions.                                                    *)

\* What holds at a and is passed on from each number to the next holds up to b.
LEMMA UpTo ==
  ASSUME NEW a \in Nat, NEW b \in Nat, a <= b, NEW Good, a \in Good,
         \A i \in (a + 1)..b : i - 1 \in Good => i \in Good
  PROVE  \A i \in a..b : i \in Good
<1> DEFINE Bad == {i \in a..b : i \notin Good}
<1>1. SUFFICES ASSUME Bad # {} PROVE FALSE
  BY Zenon
<1>2. PICK n \in Bad : \A m \in Bad : n <= m
  <2>1. Bad \subseteq Nat
    OBVIOUS
  <2> HIDE DEF Bad
  <2> QED
    BY <1>1, <2>1, NatMin
<1>3. n \in a..b /\ n \notin Good
  OBVIOUS
<1>4. n \in (a + 1)..b /\ n - 1 \in a..b /\ ~ (n <= n - 1)
  BY <1>3
<1>5. n - 1 \in Good
  BY <1>2, <1>4, Zenon
<1> QED
  BY <1>3, <1>4, <1>5

\* The steps from a to b stay in D; and f follows them from x.
StepsIn(D, step, a, b) == \A i \in (a + 1)..b, d \in D : step[<<d, i>>] \in D

IsPath(f, D, x, step, a, b) ==
  /\ f \in [a..b -> D] /\ f[a] = x
  /\ \A i \in (a + 1)..b : f[i] = step[<<f[i - 1], i>>]

\* What is computed step by step from a to b can be computed: there is a function that
\* starts with x and follows the steps.
LEMMA PathExists ==
  ASSUME NEW a \in Nat, NEW b \in Nat, a <= b, NEW D, NEW x \in D, NEW step, StepsIn(D, step, a, b)
  PROVE  \E f : IsPath(f, D, x, step, a, b)
<1> DEFINE Path(f, n) == /\ f \in [a..n -> D] /\ f[a] = x
                         /\ \A i \in (a + 1)..n : f[i] = step[<<f[i - 1], i>>]
           Bad == {n \in a..b : ~ \E f : Path(f, n)}
<1>1. SUFFICES ASSUME Bad # {} PROVE FALSE
  <2>1. b \in a..b
    OBVIOUS
  <2>2. PICK f : Path(f, b)
    BY <2>1, Zenon
  <2> QED
    BY <2>2 DEF IsPath
<1>2. PICK n \in Bad : \A m \in Bad : n <= m
  <2>1. Bad \subseteq Nat
    OBVIOUS
  <2> HIDE DEF Bad
  <2> QED
    BY <1>1, <2>1, NatMin
<1>3. n \in a..b /\ ~ \E f : Path(f, n)
  BY Zenon
<1>4. n # a
  <2> SUFFICES ASSUME n = a PROVE FALSE
    OBVIOUS
  <2> DEFINE f == [i \in a..a |-> x]
  <2>1. f \in [a..n -> D] /\ f[a] = x /\ (a + 1)..n = {}
    OBVIOUS
  <2> HIDE DEF f
  <2> QED
    BY <1>3, <2>1
<1>5. n - 1 \in a..b /\ ~ (n <= n - 1) /\ n \in Nat
  BY <1>3, <1>4
<1>6. PICK f : Path(f, n - 1)
  BY <1>2, <1>5, Zenon
<1> HIDE DEF Bad
<1> DEFINE next == step[<<f[n - 1], n>>]
           g    == [i \in a..n |-> IF i = n THEN next ELSE f[i]]
<1>7. next \in D
  <2>1. f[n - 1] \in D /\ n \in (a + 1)..b
    BY <1>3, <1>4, <1>5, <1>6
  <2> QED
    BY <2>1, Zenon DEF StepsIn
<1> HIDE DEF next
<1>8. /\ \A i \in a..(n - 1) : g[i] = f[i]
      /\ g[n] = next /\ g \in [a..n -> D]
  <2>1. \A i \in a..(n - 1) : i \in a..n /\ i # n /\ f[i] \in D
    BY <1>5, <1>6
  <2>2. \A i \in a..n : i = n \/ i \in a..(n - 1)
    BY <1>5
  <2>3. n \in a..n
    BY <1>3
  <2> QED
    BY <1>7, <2>1, <2>2, <2>3
<1> HIDE DEF g
<1>9. g[a] = x
  <2>1. a \in a..(n - 1)
    BY <1>5
  <2> QED
    BY <1>6, <1>8, <2>1
<1>10. ASSUME NEW i \in (a + 1)..n PROVE g[i] = step[<<g[i - 1], i>>]
  <2>1. i - 1 \in a..(n - 1)
    BY <1>3
  <2>2. g[i - 1] = f[i - 1]
    BY <1>8, <2>1
  <2>3. CASE i = n
    BY <1>8, <2>2, <2>3, Zenon DEF next
  <2>4. CASE i # n
    <3>1. i \in (a + 1)..(n - 1) /\ i \in a..(n - 1)
      BY <1>3, <2>4
    <3>2. f[i] = step[<<f[i - 1], i>>]
      BY <1>6, <3>1, Zenon
    <3> QED
      BY <1>8, <2>2, <3>1, <3>2, Zenon
  <2> QED
    BY <2>3, <2>4
<1>11. Path(g, n)
  BY <1>8, <1>9, <1>10, Zenon
<1> QED
  BY <1>3, <1>11, Zenon
=============================================================================
