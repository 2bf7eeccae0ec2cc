----------------------------- MODULE AmpzProofs -----------------------------
(***************************************************************************)
(* Proofs about ampz, and with it about the farm and the proxy that its    *)
(* transactions run through.                                               *)
(*                                                                         *)
(* First the index: State.execution_user_source, which crud.rs keeps by    *)
(* hand over the executions, is right after any sequence of transactions.  *)
(*                                                                         *)
(* Then the tokens.  From the bottom up, what every part of a transaction  *)
(* leaves of the chain it is given: the tokens that move, the pair's swap  *)
(* and the LP tokens it mints, the proxy's compound and multi_swap, the    *)
(* farm's bond, unbond and stake, ampz's callbacks and a whole execution.  *)
(* Each is a lemma about any chain in order, not about the present one, so *)
(* that a transaction chains them as the code chains its messages.  The    *)
(* invariant AmpzInv follows, and from it that nothing is left behind,     *)
(* that executions take only what their source allows, and that the farm   *)
(* implements the share pool.                                              *)
(***************************************************************************)
EXTENDS Ampz, SumsProofs

\* The ids given out so far are numbers below the next one.
IdsAreOld == id \in Nat /\ DOMAIN executions \subseteq Nat

SourcesInv == IdsAreOld /\ SourcesAreUnique

-----------------------------------------------------------------------------
(* The maps.                                                               *)

\* What a map keeps without some of its keys.
LEMMA WithoutMap ==
  ASSUME NEW f, NEW keys
  PROVE  /\ DOMAIN Without(f, keys) = DOMAIN f \ keys
         /\ \A k \in DOMAIN f \ keys : Without(f, keys)[k] = f[k]
BY DEF Without, Restrict

\* An execution has at most one key.
LEMMA OneKey ==
  ASSUME NEW e, NEW k \in try_get_uniq_key(e)
  PROVE  try_get_uniq_key(e) = {k}
BY DEF try_get_uniq_key

-----------------------------------------------------------------------------
(* Every transaction keeps the index.                                      *)

\* Saving an execution under a new id, in place of the one that has its key.
LEMMA AddKeeps ==
  ASSUME SourcesInv, NEW u \in Users, NEW e \in Executions, NEW overwrite \in BOOLEAN,
         add_execution(u, e, overwrite)
  PROVE  SourcesInv'
<1> DEFINE new == [user |-> u, source |-> e.source, asset |-> e.asset, over |-> e.over,
                   max |-> e.max, destination |-> e.destination, interval |-> e.interval]
           keys == try_get_uniq_key(new)
           old == overwritten(keys)
           kept == Without(executions, old)
<1>1. /\ executions' = Saved(kept, {id}, new)
      /\ execution_user_source' = Saved(execution_user_source, keys, id)
      /\ \E n : last_execution' = Saved(last_execution, {id}, n)
      /\ id' = id + 1
  BY DEF add_execution
<1>2. \A k, l \in keys : k = l
  BY OneKey
<1>3. \A k \in keys : try_get_uniq_key(new) = {k}
  BY OneKey
<1>4. old = {execution_user_source[k] : k \in keys \cap DOMAIN execution_user_source}
  BY DEF overwritten
<1> HIDE DEF new, keys, old
<1>5. /\ DOMAIN kept = DOMAIN executions \ old
      /\ \A i \in DOMAIN kept : kept[i] = executions[i]
  BY WithoutMap, ZenonT(60)
<1>6. /\ DOMAIN executions' = (DOMAIN executions \ old) \cup {id}
      /\ executions'[id] = new
      /\ \A i \in DOMAIN executions \ old : i # id => executions'[i] = executions[i]
  BY <1>1, <1>5 DEF Saved
<1>7. /\ DOMAIN execution_user_source' = DOMAIN execution_user_source \cup keys
      /\ \A k \in keys : execution_user_source'[k] = id
      /\ \A k \in DOMAIN execution_user_source \ keys :
           execution_user_source'[k] = execution_user_source[k]
  BY <1>1 DEF Saved
<1>8. DOMAIN last_execution' = DOMAIN last_execution \cup {id}
  BY <1>1 DEF Saved
<1>9. \A i \in DOMAIN executions : i \in Nat /\ i < id /\ i # id
  BY DEF SourcesInv, IdsAreOld, SourcesAreUnique
<1>10. IdsAreOld'
  BY <1>1, <1>6, <1>9 DEF SourcesInv, IdsAreOld
<1>11. ASSUME NEW k \in DOMAIN execution_user_source'
       PROVE  LET i == execution_user_source'[k]
              IN  i \in DOMAIN executions' /\ try_get_uniq_key(executions'[i]) = {k}
  <2>1. CASE k \in keys
    BY <2>1, <1>3, <1>6, <1>7 DEF keys
  <2>2. CASE k \notin keys
    <3> DEFINE i == execution_user_source[k]
    <3>1. k \in DOMAIN execution_user_source /\ execution_user_source'[k] = i
      BY <2>2, <1>7
    <3>2. i \in DOMAIN executions /\ try_get_uniq_key(executions[i]) = {k}
      BY <3>1 DEF SourcesInv, SourcesAreUnique
    <3>3. i \notin old
      <4>1. \A l \in DOMAIN execution_user_source :
              try_get_uniq_key(executions[execution_user_source[l]]) = {l}
        BY DEF SourcesInv, SourcesAreUnique
      <4>2. \A l \in keys \cap DOMAIN execution_user_source : execution_user_source[l] # i
        BY <4>1, <3>2, <2>2
      <4> QED
        BY <4>2, <1>4
    <3> QED
      BY <3>1, <3>2, <3>3, <1>6, <1>9
  <2> QED
    BY <2>1, <2>2
<1>12. ASSUME NEW i \in DOMAIN executions'
       PROVE  /\ \A k \in try_get_uniq_key(executions'[i]) :
                   k \in DOMAIN execution_user_source' /\ execution_user_source'[k] = i
              /\ i \in DOMAIN last_execution' /\ i < id'
  <2>1. CASE i = id
    <3>1. try_get_uniq_key(executions'[i]) = keys
      BY <2>1, <1>6 DEF keys
    <3> QED
      BY <3>1, <2>1, <1>1, <1>7, <1>8 DEF SourcesInv, IdsAreOld
  <2>2. CASE i # id
    <3>1. i \in DOMAIN executions /\ i \notin old /\ executions'[i] = executions[i]
      BY <2>2, <1>6
    <3>2. i \in DOMAIN last_execution' /\ i < id'
      BY <3>1, <1>1, <1>8, <1>9 DEF SourcesInv, IdsAreOld, SourcesAreUnique
    <3>3. ASSUME NEW k \in try_get_uniq_key(executions[i])
          PROVE  k \in DOMAIN execution_user_source' /\ execution_user_source'[k] = i
      <4>1. k \in DOMAIN execution_user_source /\ execution_user_source[k] = i
        BY <3>1, <3>3 DEF SourcesInv, SourcesAreUnique
      <4>2. k \notin keys
        BY <4>1, <3>1, <1>4
      <4> QED
        BY <4>1, <4>2, <1>7
    <3> QED
      BY <3>1, <3>2, <3>3
  <2> QED
    BY <2>1, <2>2
<1> QED
  BY <1>10, <1>11, <1>12 DEF SourcesInv, SourcesAreUnique

\* Removing executions with their keys.
LEMMA RemoveKeeps ==
  ASSUME SourcesInv, NEW u \in Users, NEW ids \in SUBSET DOMAIN executions,
         remove_executions(u, ids)
  PROVE  SourcesInv'
<1> DEFINE keys == UNION {try_get_uniq_key(executions[i]) : i \in ids}
<1>1. /\ executions' = Without(executions, ids)
      /\ last_execution' = Without(last_execution, ids)
      /\ execution_user_source' = Without(execution_user_source, keys)
      /\ id' = id
  BY DEF remove_executions
<1>2. \A k : k \in keys <=> \E i \in ids : k \in try_get_uniq_key(executions[i])
  OBVIOUS
<1> HIDE DEF keys
<1>3. /\ DOMAIN executions' = DOMAIN executions \ ids
      /\ \A i \in DOMAIN executions' : executions'[i] = executions[i]
      /\ DOMAIN last_execution' = DOMAIN last_execution \ ids
      /\ DOMAIN execution_user_source' = DOMAIN execution_user_source \ keys
      /\ \A k \in DOMAIN execution_user_source' :
           execution_user_source'[k] = execution_user_source[k]
  BY <1>1 DEF Without, Restrict
<1>4. ASSUME NEW k \in DOMAIN execution_user_source'
      PROVE  LET i == execution_user_source'[k]
             IN  i \in DOMAIN executions' /\ try_get_uniq_key(executions'[i]) = {k}
  <2> DEFINE i == execution_user_source[k]
  <2>1. i \in DOMAIN executions /\ try_get_uniq_key(executions[i]) = {k}
    BY <1>3 DEF SourcesInv, SourcesAreUnique
  <2>2. i \notin ids
    BY <2>1, <1>2, <1>3
  <2> QED
    BY <2>1, <2>2, <1>3
<1>5. ASSUME NEW i \in DOMAIN executions'
      PROVE  /\ \A k \in try_get_uniq_key(executions'[i]) :
                  k \in DOMAIN execution_user_source' /\ execution_user_source'[k] = i
             /\ i \in DOMAIN last_execution' /\ i < id'
  <2>1. i \in DOMAIN executions /\ i \notin ids /\ executions'[i] = executions[i]
    BY <1>3
  <2>2. i \in DOMAIN last_execution' /\ i < id'
    BY <2>1, <1>1, <1>3 DEF SourcesInv, SourcesAreUnique
  <2>3. ASSUME NEW k \in try_get_uniq_key(executions[i])
        PROVE  k \in DOMAIN execution_user_source' /\ execution_user_source'[k] = i
    <3>1. k \in DOMAIN execution_user_source /\ execution_user_source[k] = i
      BY <2>1, <2>3 DEF SourcesInv, SourcesAreUnique
    <3>2. k \notin keys
      <4>1. \A j \in DOMAIN executions : k \in try_get_uniq_key(executions[j]) => j = i
        BY <3>1 DEF SourcesInv, SourcesAreUnique
      <4> QED
        BY <4>1, <2>1, <1>2
    <3> QED
      BY <3>1, <3>2, <1>3
  <2> QED
    BY <2>1, <2>2, <2>3
<1>6. IdsAreOld'
  BY <1>1, <1>3 DEF SourcesInv, IdsAreOld
<1> QED
  BY <1>4, <1>5, <1>6 DEF SourcesInv, SourcesAreUnique

\* What leaves the executions alone and forgets no time of execution.
LEMMA OthersKeep ==
  ASSUME SourcesInv, UNCHANGED <<executions, execution_user_source, id>>,
         DOMAIN last_execution' = DOMAIN last_execution
  PROVE  SourcesInv'
BY DEF SourcesInv, IdsAreOld, SourcesAreUnique

\* An execution only records when it was.
LEMMA ExecuteKeeps ==
  ASSUME SourcesInv, NEW i \in DOMAIN executions, NEW s, execute_id(i, s)
  PROVE  SourcesInv'
<1>1. /\ UNCHANGED <<executions, execution_user_source, id>>
      /\ last_execution' = [last_execution EXCEPT ![i] = now]
  BY DEF execute_id
<1>2. DOMAIN last_execution' = DOMAIN last_execution
  BY <1>1
<1> QED
  BY <1>1, <1>2, OthersKeep

\* One case per action of ampz; what the proxy and the farm do is all one.
LEMMA NextKeeps ==
  ASSUME SourcesInv, [Next]_vars
  PROVE  SourcesInv'
<1>1. CASE UNCHANGED ampzVars
  BY <1>1, OthersKeep DEF ampzVars
<1>2. CASE Next
  <2>1. CASE ProxyOrFarm
    BY <2>1, <1>1 DEF ProxyOrFarm
  <2>2. CASE \E u \in Users, e \in Executions, overwrite \in BOOLEAN :
               add_execution(u, e, overwrite)
    BY <2>2, AddKeeps
  <2>3. CASE \E u \in Users, ids \in SUBSET DOMAIN executions : remove_executions(u, ids)
    BY <2>3, RemoveKeeps
  <2>4. CASE \E i \in DOMAIN executions, s \in Users \cup Operators : execute_id(i, s)
    BY <2>4, ExecuteKeeps
  <2>5. CASE ampz_update_config
    BY <2>5, OthersKeep DEF ampz_update_config
  <2>6. CASE \E u \in Users, source \in {"claim", "astro_rewards"}, a \in Assets, n \in Rewards :
               Reward(u, source, a, n)
    BY <2>6, <1>1 DEF Reward
  <2> QED
    BY <1>2, <2>1, <2>2, <2>3, <2>4, <2>5, <2>6 DEF Next
<1>3. CASE UNCHANGED vars
  BY <1>3, <1>1 DEF vars
<1> QED
  BY <1>2, <1>3

-----------------------------------------------------------------------------
\* In every state that ampz can reach, execution_user_source names exactly the claim and
\* ASTRO executions, each by its own user's key, and no execution lacks the time of its
\* last execution: add_execution with and without overwrite and remove_executions keep
\* the index with any number of users and executions.
THEOREM SourcesAreAlwaysUnique == Spec => []SourcesAreUnique
<1>1. AmpzInit => SourcesInv
  <2> SUFFICES ASSUME AmpzInit PROVE SourcesInv
    OBVIOUS
  <2>1. executions = <<>> /\ execution_user_source = <<>> /\ id = 1
    BY DEF AmpzInit
  <2>2. DOMAIN executions = {} /\ DOMAIN execution_user_source = {}
    BY <2>1
  <2> QED
    BY <2>1, <2>2 DEF SourcesInv, IdsAreOld, SourcesAreUnique
<1>2. SourcesInv /\ [Next]_vars => SourcesInv'
  BY NextKeeps
<1>3. SourcesInv => SourcesAreUnique
  BY DEF SourcesInv
<1> QED
  BY <1>1, <1>2, <1>3, PTL DEF Spec

-----------------------------------------------------------------------------
(* The root of the optimal swap.                                           *)

\* One step of isqrt, from the root f of the quarter.
RootStep(f, m) ==
  IF m = 0 THEN 0
  ELSE LET r == 2 * f[m \div 4] IN IF (r + 1) * (r + 1) <= m THEN r + 1 ELSE r

IsRoot(f, n) == f = [m \in 0..n |-> RootStep(f, m)]

\* A quarter is smaller.
LEMMA Quarter ==
  ASSUME NEW m \in Nat \ {0}
  PROVE  m \div 4 \in Nat /\ m \div 4 < m
  OBVIOUS

\* The recursion ends: each root rests on one of a smaller number.
LEMMA RootExists ==
  ASSUME NEW n \in Nat
  PROVE  \E f : IsRoot(f, n)
<1> DEFINE Bad == {k \in Nat : ~ \E f : IsRoot(f, k)}
<1>1. SUFFICES ASSUME Bad # {} PROVE FALSE
  OBVIOUS
<1>2. PICK k \in Bad : \A j \in Bad : k <= j
  <2>1. Bad \subseteq Nat
    OBVIOUS
  <2> QED
    BY <1>1, <2>1, NatMin
<1>3. k \in Nat /\ ~ \E f : IsRoot(f, k)
  OBVIOUS
<1>4. CASE k = 0
  <2> DEFINE f == [m \in 0..0 |-> 0]
  <2>1. \A m \in 0..0 : RootStep(f, m) = 0
    BY DEF RootStep
  <2>2. IsRoot(f, 0)
    BY <2>1 DEF IsRoot
  <2> QED
    BY <1>3, <1>4, <2>2
<1>5. CASE k # 0
  <2>1. k - 1 \in Nat /\ k - 1 < k
    BY <1>3, <1>5
  <2>2. k - 1 \notin Bad
    BY <1>2, <1>3, <2>1
  <2>3. PICK f : IsRoot(f, k - 1)
    BY <2>1, <2>2
  <2> DEFINE g == [m \in 0..k |-> IF m = k THEN RootStep(f, k) ELSE f[m]]
  <2>4. \A m \in 0..(k - 1) : f[m] = RootStep(f, m)
    BY <2>3 DEF IsRoot
  <2>5. \A m \in 0..k : m # 0 => m \div 4 \in 0..(k - 1)
    BY <1>3, <1>5, Quarter
  <2>6. \A m \in 0..k : m # 0 => g[m \div 4] = f[m \div 4]
    BY <1>3, <2>5
  <2> HIDE DEF g
  <2>7. \A m \in 0..k : RootStep(g, m) = RootStep(f, m)
    <3> TAKE m \in 0..k
    <3>1. CASE m = 0
      BY <3>1 DEF RootStep
    <3>2. CASE m # 0
      BY <3>2, <2>6 DEF RootStep
    <3> QED
      BY <3>1, <3>2
  <2>8. \A m \in 0..k : g[m] = RootStep(f, m)
    BY <1>3, <2>4 DEF g
  <2>9. g = [m \in 0..k |-> RootStep(g, m)]
    <3>1. \A m \in 0..k : g[m] = RootStep(g, m)
      BY <2>7, <2>8
    <3>2. g = [m \in 0..k |-> g[m]]
      BY Zenon DEF g
    <3> QED
      BY <3>1, <3>2, Zenon
  <2> QED
    BY <1>3, <2>9, Zenon DEF IsRoot
<1> QED
  BY <1>4, <1>5

\* And every root is a natural number.
LEMMA RootIsNat ==
  ASSUME NEW n \in Nat
  PROVE  isqrt(n) \in Nat
<1>1. PICK f : IsRoot(f, n) /\ isqrt(n) = f[n]
  <2> DEFINE root == CHOOSE g : g = [m \in 0..n |->
                       IF m = 0 THEN 0
                       ELSE LET r == 2 * g[m \div 4] IN IF (r + 1) * (r + 1) <= m THEN r + 1 ELSE r]
  <2>1. isqrt(n) = root[n]
    BY DEF isqrt
  <2>2. root = CHOOSE g : IsRoot(g, n)
    BY DEF IsRoot, RootStep
  <2>3. IsRoot(root, n)
    BY <2>2, RootExists
  <2> QED
    BY <2>1, <2>3
<1> DEFINE Bad == {m \in 0..n : f[m] \notin Nat}
<1>2. Bad = {}
  <2> SUFFICES ASSUME Bad # {} PROVE FALSE
    OBVIOUS
  <2>1. PICK m \in Bad : \A j \in Bad : m <= j
    <3>1. Bad \subseteq Nat
      OBVIOUS
    <3> QED
      BY <3>1, NatMin
  <2>2. m \in 0..n /\ f[m] \notin Nat /\ f[m] = RootStep(f, m)
    BY <1>1 DEF IsRoot
  <2>3. m # 0
    BY <2>2 DEF RootStep
  <2>4. m \div 4 \in Nat /\ m \div 4 < m
    BY <2>2, <2>3, Quarter
  <2>5. m \div 4 \in 0..n /\ m \div 4 \notin Bad
    BY <2>1, <2>2, <2>4
  <2>6. f[m \div 4] \in Nat
    BY <2>5
  <2>7. RootStep(f, m) \in Nat
    BY <2>3, <2>6 DEF RootStep
  <2> QED
    BY <2>2, <2>7
<1> QED
  BY <1>1, <1>2

-----------------------------------------------------------------------------
(* The amounts that the proxy computes.                                    *)

\* Products and sums of natural numbers.
LEMMA Products ==
  ASSUME NEW a \in Nat, NEW b \in Nat
  PROVE  a * b \in Nat /\ a + b \in Nat
  OBVIOUS

\* What a division leaves.
LEMMA Quotient ==
  ASSUME NEW a \in Nat, NEW b \in Nat \ {0}
  PROVE  a \div b \in Nat /\ (a \div b) * b <= a /\ a < (a \div b) * b + b
  OBVIOUS

\* saturating_sub.
LEMMA LessIsNat ==
  ASSUME NEW a \in Nat, NEW b \in Nat
  PROVE  Less(a, b) \in Nat
  BY DEF Less

\* The smaller of two.
LEMMA MinOfTwo ==
  ASSUME NEW a \in Int, NEW b \in Int
  PROVE  Min({a, b}) = IF a <= b THEN a ELSE b
<1> DEFINE m == IF a <= b THEN a ELSE b
<1>1. m \in {a, b} /\ \A y \in {a, b} : m <= y
  OBVIOUS
<1>2. \A x \in {a, b} : (\A y \in {a, b} : x <= y) => x = m
  OBVIOUS
<1> HIDE DEF m
<1>3. Min({a, b}) = m
  BY <1>1, <1>2 DEF Min
<1> QED
  BY <1>3 DEF m

\* The amount to swap is a number, whatever the pool and the amounts.
LEMMA SwapAmountIsNat ==
  ASSUME NEW amount_a \in Nat, NEW amount_b \in Nat,
         NEW pool_a \in Nat \ {0}, NEW pool_b \in Nat \ {0}, NEW bps \in 0..COMMISSION_DENOM
  PROVE  get_swap_amount(amount_a, amount_b, pool_a, pool_b, bps) \in Nat
<1> DEFINE area_ax == (amount_a + pool_a) * pool_b
           area_bx == (amount_b + pool_b) * pool_a
           a == bps * bps * area_ax + 4 * (COMMISSION_DENOM - bps) * COMMISSION_DENOM * area_bx
           b == bps * area_ax + isqrt(area_ax) * isqrt(a)
           d == b \div (2 * COMMISSION_DENOM)
<1>1. COMMISSION_DENOM \in Nat \ {0} /\ bps \in Nat /\ COMMISSION_DENOM - bps \in Nat
  BY CompoundAssumption
<1>2. area_ax \in Nat
  <2>1. amount_a + pool_a \in Nat
    OBVIOUS
  <2> QED
    BY <2>1, Products
<1>3. area_bx \in Nat
  <2>1. amount_b + pool_b \in Nat
    OBVIOUS
  <2> QED
    BY <2>1, Products
<1> HIDE DEF area_ax, area_bx
<1>4. a \in Nat
  <2>1. bps * bps \in Nat /\ bps * bps * area_ax \in Nat
    BY <1>1, <1>2, Products
  <2>2. 4 * (COMMISSION_DENOM - bps) \in Nat
    BY <1>1, Products
  <2>3. 4 * (COMMISSION_DENOM - bps) * COMMISSION_DENOM \in Nat
    BY <1>1, <2>2, Products
  <2>4. 4 * (COMMISSION_DENOM - bps) * COMMISSION_DENOM * area_bx \in Nat
    BY <1>3, <2>3, Products
  <2> QED
    BY <2>1, <2>4, Products
<1> HIDE DEF a
<1>5. b \in Nat
  <2>1. isqrt(area_ax) \in Nat /\ isqrt(a) \in Nat
    BY <1>2, <1>4, RootIsNat
  <2>2. bps * area_ax \in Nat /\ isqrt(area_ax) * isqrt(a) \in Nat
    BY <1>1, <1>2, <2>1, Products
  <2> QED
    BY <2>2, Products
<1> HIDE DEF b
<1>6. d \in Nat
  <2>1. 2 * COMMISSION_DENOM \in Nat \ {0}
    BY <1>1
  <2> QED
    BY <1>5, <2>1, Quotient
<1> HIDE DEF d
<1>7. d \div (amount_b + pool_b) \in Nat
  <2>1. amount_b + pool_b \in Nat \ {0}
    OBVIOUS
  <2> QED
    BY <1>6, <2>1, Quotient
<1>8. Less(d \div (amount_b + pool_b), pool_a) \in Nat
  BY <1>7, LessIsNat
<1> QED
  BY <1>8 DEF get_swap_amount, d, b, a, area_ax, area_bx

\* A swap leaves something of what is asked for in the pool.
LEMMA SimulateLeaves ==
  ASSUME NEW offer_pool \in Nat \ {0}, NEW ask_pool \in Nat \ {0}, NEW offer_amount \in Nat,
         NEW bps \in 0..COMMISSION_DENOM
  PROVE  /\ simulate(offer_pool, ask_pool, offer_amount, bps) \in Int
         /\ simulate(offer_pool, ask_pool, offer_amount, bps) < ask_pool
<1> DEFINE after == offer_pool + offer_amount
           k == offer_pool * ask_pool
           kept == (k + after - 1) \div after
           back == ask_pool - kept
           taken == (back * bps) \div COMMISSION_DENOM
<1>1. COMMISSION_DENOM \in Nat \ {0} /\ bps \in Nat /\ bps <= COMMISSION_DENOM
  BY CompoundAssumption
<1>2. after \in Nat \ {0} /\ after >= offer_pool
  OBVIOUS
<1>3. k \in Nat /\ k >= 1
  OBVIOUS
<1>4. k + after - 1 \in Nat /\ k + after - 1 >= after
  BY <1>2, <1>3
<1>5. kept \in Nat /\ kept >= 1
  <2> DEFINE n == k + after - 1
  <2>1. n \in Nat /\ n >= after
    BY <1>4
  <2> HIDE DEF n, after
  <2>2. n \div after \in Nat /\ n < (n \div after) * after + after
    BY <1>2, <2>1, Quotient
  <2>3. n \div after # 0
    BY <1>2, <2>1, <2>2
  <2> QED
    BY <2>2, <2>3 DEF n
<1>6. kept <= ask_pool
  <2> DEFINE n == k + after - 1
  <2>1. n \in Nat /\ after * ask_pool >= k
    BY <1>2, <1>3, <1>4
  <2>2. n < after * (ask_pool + 1)
    BY <1>2, <1>3, <2>1
  <2> HIDE DEF n, after
  <2>3. n \div after \in Nat /\ (n \div after) * after <= n
    BY <1>2, <2>1, Quotient
  <2>4. (n \div after) < ask_pool + 1
    <3> SUFFICES ASSUME (n \div after) >= ask_pool + 1 PROVE FALSE
      BY <2>3
    <3>1. (n \div after) * after >= (ask_pool + 1) * after
      BY <1>2, <2>3
    <3> QED
      BY <1>2, <2>1, <2>2, <2>3, <3>1
  <2> QED
    BY <2>3, <2>4 DEF n
<1> HIDE DEF kept
<1>7. back \in Nat /\ back < ask_pool
  BY <1>5, <1>6
<1> HIDE DEF back
<1>8. taken \in Nat
  BY <1>1, <1>7, Products, Quotient
<1> HIDE DEF taken
<1>9. simulate(offer_pool, ask_pool, offer_amount, bps) = back - taken
  BY DEF simulate, taken, back, kept, k, after
<1> QED
  BY <1>7, <1>8, <1>9

\* An optimal swap is for a return, and leaves the pool some of it.
LEMMA OptimalSwapIs ==
  ASSUME NEW amount_a \in Nat, NEW amount_b \in Nat,
         NEW pool_a \in Nat \ {0}, NEW pool_b \in Nat \ {0}, NEW bps \in 0..COMMISSION_DENOM
  PROVE  LET s == calculate_optimal_swap(amount_a, amount_b, pool_a, pool_b, bps)
         IN  /\ s.swap_a \in Nat /\ s.swap_b \in Nat /\ s.return_a \in Nat /\ s.return_b \in Nat
             /\ s.swap_a > 0 => s.return_b > 0 /\ s.return_b < pool_b
             /\ s.swap_b > 0 => s.return_a > 0 /\ s.return_a < pool_a
<1> DEFINE swap_a == get_swap_amount(amount_a, amount_b, pool_a, pool_b, bps)
           swap_b == get_swap_amount(amount_b, amount_a, pool_b, pool_a, bps)
           back_b == simulate(pool_a, pool_b, swap_a, bps)
           back_a == simulate(pool_b, pool_a, swap_b, bps)
           none   == [swap_a |-> 0, swap_b |-> 0, return_a |-> 0, return_b |-> 0]
           r == calculate_optimal_swap(amount_a, amount_b, pool_a, pool_b, bps)
<1>1. swap_a \in Nat /\ swap_b \in Nat
  BY SwapAmountIsNat
<1> HIDE DEF swap_a, swap_b
<1>2. /\ back_b \in Int /\ back_b < pool_b
      /\ back_a \in Int /\ back_a < pool_a
  BY <1>1, SimulateLeaves
<1> HIDE DEF back_a, back_b
<1>3. \/ r = none
      \/ swap_a > 0 /\ back_b > 0 /\ r = [none EXCEPT !.swap_a = swap_a, !.return_b = back_b]
      \/ swap_b > 0 /\ back_a > 0 /\ r = [none EXCEPT !.swap_b = swap_b, !.return_a = back_a]
  BY Zenon DEF calculate_optimal_swap, swap_a, swap_b, back_a, back_b
<1> HIDE DEF r
<1>4. CASE r = none
  <2>1. r.swap_a = 0 /\ r.return_b = 0 /\ r.swap_b = 0 /\ r.return_a = 0
    BY <1>4
  <2> QED
    BY <2>1 DEF r
<1>5. CASE swap_a > 0 /\ back_b > 0 /\ r = [none EXCEPT !.swap_a = swap_a, !.return_b = back_b]
  <2>1. r.swap_a = swap_a /\ r.return_b = back_b /\ r.swap_b = 0 /\ r.return_a = 0
    BY <1>5
  <2> QED
    BY <1>1, <1>2, <1>5, <2>1 DEF r
<1>6. CASE swap_b > 0 /\ back_a > 0 /\ r = [none EXCEPT !.swap_b = swap_b, !.return_a = back_a]
  <2>1. r.swap_b = swap_b /\ r.return_a = back_a /\ r.swap_a = 0 /\ r.return_b = 0
    BY <1>6
  <2> QED
    BY <1>1, <1>2, <1>6, <2>1 DEF r
<1> QED
  BY <1>3, <1>4, <1>5, <1>6

\* LP tokens are a number.
LEMMA MintedIsNat ==
  ASSUME NEW a \in Nat, NEW b \in Nat, NEW pool_a \in Nat \ {0}, NEW pool_b \in Nat \ {0},
         NEW supply \in Nat
  PROVE  lp_minted(a, b, pool_a, pool_b, supply) \in Nat
<1> DEFINE m == (a * supply) \div pool_a
           n == (b * supply) \div pool_b
<1>1. m \in Nat /\ n \in Nat
  BY Products, Quotient
<1> HIDE DEF m, n
<1>2. Min({m, n}) \in Nat
  BY <1>1, MinOfTwo
<1> QED
  BY <1>2 DEF lp_minted, m, n

-----------------------------------------------------------------------------
(* Tokens.                                                                 *)

Rows == [Assets -> Nat]
Rates == {r \in Nat : r >= DecimalOne}
Histories == UNION {[T -> Rates] : T \in SUBSET Nat}

\* What the chain keeps: tokens of the accounts, and the storage of the contracts.
Chains ==
  [bal : [Accounts -> Rows], supply : Nat, deposit : Nat, total_bond_share : Nat,
   exchange_history : Histories, pending : [{Astro, Luna} -> Nat]]

\* Only tokens have moved.
SameStore(d, c) ==
  /\ d.deposit = c.deposit /\ d.total_bond_share = c.total_bond_share
  /\ d.exchange_history = c.exchange_history /\ d.pending = c.pending

\* Only the tokens of an account have changed, to row.
RowSet(d, c, who, row) ==
  /\ d \in Chains /\ SameStore(d, c) /\ d.supply = c.supply
  /\ d.bal[who] = row /\ \A w \in Accounts \ {who} : d.bal[w] = c.bal[w]

\* What an account holds.
LEMMA HeldNat ==
  ASSUME NEW c \in Chains, NEW w \in Accounts, NEW a \in Assets
  PROVE  Held(c, w, a) \in Nat /\ c.bal[w] \in Rows
<1>1. c.bal \in [Accounts -> Rows]
  BY DEF Chains
<1>2. c.bal[w] \in Rows
  BY <1>1
<1> QED
  BY <1>2 DEF Rows, Held

\* An account gets other holdings.
LEMMA RowIsSet ==
  ASSUME NEW c \in Chains, NEW who \in Accounts, NEW row \in Rows
  PROVE  RowSet([c EXCEPT !.bal[who] = row], c, who, row)
<1> DEFINE bal == [c.bal EXCEPT ![who] = row]
           d == [c EXCEPT !.bal = bal]
<1>1. [c EXCEPT !.bal[who] = row] = d
  OBVIOUS
<1>2. c.bal \in [Accounts -> Rows]
  BY DEF Chains
<1>3. /\ bal \in [Accounts -> Rows] /\ bal[who] = row
      /\ \A w \in Accounts \ {who} : bal[w] = c.bal[w]
  BY <1>2
<1> HIDE DEF bal
<1>4. d \in Chains /\ d.bal = bal /\ SameStore(d, c) /\ d.supply = c.supply
  BY <1>3 DEF Chains, SameStore
<1> HIDE DEF d
<1>5. RowSet(d, c, who, row)
  BY <1>3, <1>4 DEF RowSet
<1> QED
  BY <1>1, <1>5

\* What an account holds of an asset after it got or gave some, and nobody else's tokens.
OneHeld(d, c, who, a, n) ==
  /\ d \in Chains /\ SameStore(d, c) /\ d.supply = c.supply
  /\ Held(d, who, a) = n /\ \A b \in Assets \ {a} : Held(d, who, b) = Held(c, who, b)
  /\ \A w \in Accounts \ {who} : d.bal[w] = c.bal[w]

\* An account gets another amount of one asset.
LEMMA OneIsHeld ==
  ASSUME NEW c \in Chains, NEW who \in Accounts, NEW a \in Assets, NEW n \in Nat
  PROVE  OneHeld([c EXCEPT !.bal[who][a] = n], c, who, a, n)
<1> DEFINE row == [c.bal[who] EXCEPT ![a] = n]
           d == [c EXCEPT !.bal[who] = row]
<1>1. c.bal[who] \in Rows
  BY HeldNat
<1>2. row \in Rows /\ row[a] = n /\ \A b \in Assets \ {a} : row[b] = c.bal[who][b]
  BY <1>1 DEF Rows
<1>3. [c EXCEPT !.bal[who][a] = n] = d
  OBVIOUS
<1> HIDE DEF row
<1>4. RowSet(d, c, who, row)
  BY <1>2, RowIsSet
<1> HIDE DEF d
<1>5. OneHeld(d, c, who, a, n)
  BY <1>2, <1>4 DEF OneHeld, RowSet, Held
<1> QED
  BY <1>3, <1>5

\* A mint, or what comes from outside.
LEMMA GiveIs ==
  ASSUME NEW c \in Chains, NEW who \in Accounts, NEW a \in Assets, NEW n \in Nat,
         NEW d \in Give(c, who, a, n)
  PROVE  OneHeld(d, c, who, a, Held(c, who, a) + n)
<1> DEFINE m == Held(c, who, a) + n
<1>1. d = [c EXCEPT !.bal[who][a] = m]
  BY DEF Give, Held
<1>2. m \in Nat
  BY HeldNat
<1> HIDE DEF m
<1>3. OneHeld(d, c, who, a, m)
  BY <1>1, <1>2, OneIsHeld
<1> QED
  BY <1>3 DEF m

\* A burn, or what leaves the accounts: never more than is held.
LEMMA TakeIs ==
  ASSUME NEW c \in Chains, NEW who \in Accounts, NEW a \in Assets, NEW n \in Int,
         NEW d \in Take(c, who, a, n)
  PROVE  n > 0 /\ n <= Held(c, who, a) /\ OneHeld(d, c, who, a, Held(c, who, a) - n)
<1> DEFINE m == Held(c, who, a) - n
<1>1. n > 0 /\ n <= Held(c, who, a) /\ d = [c EXCEPT !.bal[who][a] = m]
  BY DEF Take, Held
<1>2. m \in Nat
  BY <1>1, HeldNat
<1> HIDE DEF m
<1>3. OneHeld(d, c, who, a, m)
  BY <1>1, <1>2, OneIsHeld
<1> QED
  BY <1>1, <1>3 DEF m

\* A transfer.
LEMMA MoveIs ==
  ASSUME NEW c \in Chains, NEW from \in Accounts, NEW to \in Accounts \ {from},
         NEW a \in Assets, NEW n \in Int, NEW e \in Move(c, from, to, a, n)
  PROVE  /\ n > 0 /\ n <= Held(c, from, a)
         /\ e \in Chains /\ SameStore(e, c) /\ e.supply = c.supply
         /\ Held(e, from, a) = Held(c, from, a) - n /\ Held(e, to, a) = Held(c, to, a) + n
         /\ \A b \in Assets \ {a} : Held(e, from, b) = Held(c, from, b) /\ Held(e, to, b) = Held(c, to, b)
         /\ \A w \in Accounts \ {from, to} : e.bal[w] = c.bal[w]
<1>1. PICK d \in Take(c, from, a, n) : e \in Give(d, to, a, n)
  BY DEF Move, Then
<1>2. n > 0 /\ n <= Held(c, from, a) /\ OneHeld(d, c, from, a, Held(c, from, a) - n)
  BY <1>1, TakeIs
<1>3. d \in Chains
  BY <1>2 DEF OneHeld
<1>4. OneHeld(e, d, to, a, Held(d, to, a) + n)
  BY <1>1, <1>2, <1>3, GiveIs
<1> QED
  BY <1>2, <1>4 DEF OneHeld, SameStore, Held

\* What an account holds after it gave or got several amounts.
LEMMA TakeAllIs ==
  ASSUME NEW c \in Chains, NEW who \in Accounts, NEW D, D \subseteq Assets, NEW amounts \in [D -> Nat],
         NEW d \in TakeAll(c, who, amounts)
  PROVE  /\ d \in Chains /\ SameStore(d, c) /\ d.supply = c.supply
         /\ \A a \in D : amounts[a] > 0 /\ amounts[a] <= Held(c, who, a)
         /\ \A a \in Assets : Held(d, who, a) = Held(c, who, a) - Amount(amounts, a)
         /\ \A w \in Accounts \ {who} : d.bal[w] = c.bal[w]
<1> DEFINE row == [a \in Assets |-> c.bal[who][a] - Amount(amounts, a)]
<1>1. /\ \A a \in D : amounts[a] > 0 /\ amounts[a] <= Held(c, who, a)
      /\ d = [c EXCEPT !.bal[who] = row]
  BY DEF TakeAll
<1>2. row \in Rows
  <2>1. ASSUME NEW a \in Assets PROVE c.bal[who][a] - Amount(amounts, a) \in Nat
    <3>1. c.bal[who][a] \in Nat
      BY HeldNat DEF Held
    <3>2. CASE a \in D
      BY <1>1, <3>1, <3>2 DEF Amount, Held
    <3>3. CASE a \notin D
      BY <3>1, <3>3 DEF Amount
    <3> QED
      BY <3>2, <3>3
  <2> QED
    BY <2>1 DEF Rows
<1>3. \A a \in Assets : row[a] = Held(c, who, a) - Amount(amounts, a)
  BY DEF Held
<1> HIDE DEF row
<1>4. RowSet(d, c, who, row)
  BY <1>1, <1>2, RowIsSet
<1> QED
  BY <1>1, <1>3, <1>4 DEF RowSet, Held

\* The other end of it.
LEMMA GiveAllIs ==
  ASSUME NEW c \in Chains, NEW who \in Accounts, NEW D, D \subseteq Assets, NEW amounts \in [D -> Nat],
         NEW d \in GiveAll(c, who, amounts)
  PROVE  /\ d \in Chains /\ SameStore(d, c) /\ d.supply = c.supply
         /\ \A a \in Assets : Held(d, who, a) = Held(c, who, a) + Amount(amounts, a)
         /\ \A w \in Accounts \ {who} : d.bal[w] = c.bal[w]
<1> DEFINE row == [a \in Assets |-> c.bal[who][a] + Amount(amounts, a)]
<1>1. d = [c EXCEPT !.bal[who] = row]
  BY DEF GiveAll
<1>2. row \in Rows
  <2>1. ASSUME NEW a \in Assets PROVE c.bal[who][a] + Amount(amounts, a) \in Nat
    <3>1. c.bal[who][a] \in Nat
      BY HeldNat DEF Held
    <3>2. Amount(amounts, a) \in Nat
      BY DEF Amount
    <3> QED
      BY <3>1, <3>2
  <2> QED
    BY <2>1 DEF Rows
<1>3. \A a \in Assets : row[a] = Held(c, who, a) + Amount(amounts, a)
  BY DEF Held
<1> HIDE DEF row
<1>4. RowSet(d, c, who, row)
  BY <1>1, <1>2, RowIsSet
<1> QED
  BY <1>3, <1>4 DEF RowSet, Held

\* A map without some of its assets.
LEMMA PartOf ==
  ASSUME NEW D, NEW amounts \in [D -> Nat], NEW T, T \subseteq D
  PROVE  /\ Restrict(amounts, T) \in [T -> Nat]
         /\ \A a : Amount(Restrict(amounts, T), a) = IF a \in T THEN amounts[a] ELSE 0
  BY DEF Restrict, Amount

\* The amount of an asset among some.
LEMMA AmountIs ==
  ASSUME NEW D, NEW amounts \in [D -> Nat], NEW a
  PROVE  Amount(amounts, a) = (IF a \in D THEN amounts[a] ELSE 0) /\ Amount(amounts, a) \in Nat
  BY DEF Amount

\* deposit_assets moves every amount.
LEMMA DepositIs ==
  ASSUME NEW c \in Chains, NEW from \in Accounts, NEW to \in Accounts \ {from},
         NEW D, D \subseteq Assets, NEW amounts \in [D -> Nat],
         NEW e \in deposit_assets(c, from, to, amounts)
  PROVE  /\ e \in Chains /\ SameStore(e, c) /\ e.supply = c.supply
         /\ \A a \in Assets :
              /\ Held(e, from, a) = Held(c, from, a) - Amount(amounts, a)
              /\ Held(e, to, a) = Held(c, to, a) + Amount(amounts, a)
         /\ \A w \in Accounts \ {from, to} : e.bal[w] = c.bal[w]
<1> DEFINE T == {a \in D : amounts[a] # 0}
           sent == Restrict(amounts, T)
<1>1. deposit_asset(amounts) = sent
  BY DEF deposit_asset
<1>2. T \subseteq D /\ T \subseteq Assets
  OBVIOUS
<1>3. sent \in [T -> Nat] /\ \A a : Amount(sent, a) = Amount(amounts, a)
  <2>1. sent \in [T -> Nat] /\ \A a : Amount(sent, a) = IF a \in T THEN amounts[a] ELSE 0
    BY <1>2, PartOf
  <2>2. \A a : Amount(amounts, a) = IF a \in T THEN amounts[a] ELSE 0
    BY AmountIs
  <2> QED
    BY <2>1, <2>2
<1> HIDE DEF T, sent
<1>4. PICK d \in TakeAll(c, from, sent) : e \in GiveAll(d, to, amounts)
  BY <1>1 DEF deposit_assets, Then
<1>5. /\ d \in Chains /\ SameStore(d, c) /\ d.supply = c.supply
      /\ \A a \in Assets : Held(d, from, a) = Held(c, from, a) - Amount(sent, a)
      /\ \A w \in Accounts \ {from} : d.bal[w] = c.bal[w]
  <2>1. /\ c \in Chains /\ from \in Accounts /\ T \subseteq Assets /\ sent \in [T -> Nat]
        /\ d \in TakeAll(c, from, sent)
    BY <1>2, <1>3, <1>4
  <2> QED
    BY ONLY <2>1, TakeAllIs
<1>6. /\ e \in Chains /\ SameStore(e, d) /\ e.supply = d.supply
      /\ \A a \in Assets : Held(e, to, a) = Held(d, to, a) + Amount(amounts, a)
      /\ \A w \in Accounts \ {to} : e.bal[w] = d.bal[w]
  BY <1>4, <1>5, GiveAllIs
<1>7. ASSUME NEW a \in Assets
      PROVE  /\ Held(e, from, a) = Held(c, from, a) - Amount(amounts, a)
             /\ Held(e, to, a) = Held(c, to, a) + Amount(amounts, a)
  <2>1. e.bal[from] = d.bal[from] /\ d.bal[to] = c.bal[to]
    BY <1>5, <1>6
  <2>2. Held(e, from, a) = Held(d, from, a) /\ Held(d, to, a) = Held(c, to, a)
    BY <2>1 DEF Held
  <2> QED
    BY <1>3, <1>5, <1>6, <2>2
<1>8. \A w \in Accounts \ {from, to} : e.bal[w] = c.bal[w]
  BY <1>5, <1>6
<1>9. SameStore(e, c)
  BY <1>5, <1>6 DEF SameStore
<1> QED
  BY <1>5, <1>6, <1>7, <1>8, <1>9

\* What a swap of several rewards takes from the proxy, for some amount of the wanted asset.
Swapped(e, c, amounts, wanted, to) ==
  \E d \in Chains, n \in Nat :
    /\ SameStore(d, c) /\ d.supply = c.supply
    /\ \A a \in Assets : Held(d, "proxy", a) = Held(c, "proxy", a) - Amount(amounts, a)
    /\ \A w \in Accounts \ {"proxy"} : d.bal[w] = c.bal[w]
    /\ OneHeld(e, d, to, wanted, Held(d, to, wanted) + n)

\* A swap of several rewards brings some amount of the wanted asset.
LEMMA SwapsAre ==
  ASSUME NEW c \in Chains, NEW D, D \subseteq Assets, NEW amounts \in [D -> Nat],
         NEW wanted \in Assets, NEW to \in Accounts, NEW e \in create_swap(c, amounts, wanted, to)
  PROVE  Swapped(e, c, amounts, wanted, to)
<1>1. PICK d \in TakeAll(c, "proxy", amounts) : e \in Give(d, to, wanted, Total(amounts))
  BY DEF create_swap, Then
<1>2. "proxy" \in Accounts
  BY DEF Accounts, Contracts
<1>3. /\ d \in Chains /\ SameStore(d, c) /\ d.supply = c.supply
      /\ \A a \in Assets : Held(d, "proxy", a) = Held(c, "proxy", a) - Amount(amounts, a)
      /\ \A w \in Accounts \ {"proxy"} : d.bal[w] = c.bal[w]
  <2>1. PICK who : who = "proxy"
    OBVIOUS
  <2>2. c \in Chains /\ who \in Accounts /\ D \subseteq Assets /\ amounts \in [D -> Nat]
        /\ d \in TakeAll(c, who, amounts)
    BY <1>1, <1>2, <2>1
  <2>3. /\ d \in Chains /\ SameStore(d, c) /\ d.supply = c.supply
        /\ \A a \in Assets : Held(d, who, a) = Held(c, who, a) - Amount(amounts, a)
        /\ \A w \in Accounts \ {who} : d.bal[w] = c.bal[w]
    BY ONLY <2>2, TakeAllIs
  <2> QED
    BY <2>1, <2>3
<1>4. Total(amounts) \in Nat
  <2>1. IsFiniteSet(Assets)
    <3>1. IsFiniteSet({Luna, Other, Astro, LP, AmpLP})
      <4>1. IsFiniteSet({Luna}) /\ IsFiniteSet({Other}) /\ IsFiniteSet({Astro}) /\ IsFiniteSet({LP})
            /\ IsFiniteSet({AmpLP})
        BY FS_Singleton
      <4>2. IsFiniteSet({Luna} \cup {Other}) /\ IsFiniteSet({Astro} \cup {LP})
        BY <4>1, FS_Union
      <4>3. IsFiniteSet(({Luna} \cup {Other}) \cup ({Astro} \cup {LP}))
        BY <4>2, FS_Union
      <4>4. IsFiniteSet((({Luna} \cup {Other}) \cup ({Astro} \cup {LP})) \cup {AmpLP})
        BY <4>1, <4>3, FS_Union
      <4>5. (({Luna} \cup {Other}) \cup ({Astro} \cup {LP})) \cup {AmpLP} = {Luna, Other, Astro, LP, AmpLP}
        OBVIOUS
      <4> QED
        BY <4>4, <4>5
    <3>2. Assets = {Luna, Other, Astro, LP, AmpLP}
      BY DEF Assets, PairAssets
    <3> QED
      BY <3>1, <3>2
  <2>2. IsFiniteSet(D)
    BY <2>1, FS_Subset
  <2> QED
    BY <2>2, SumType
<1>5. OneHeld(e, d, to, wanted, Held(d, to, wanted) + Total(amounts))
  BY <1>1, <1>3, <1>4, GiveIs
<1> QED
  BY <1>3, <1>4, <1>5 DEF Swapped

-----------------------------------------------------------------------------
(* The compound proxy.                                                     *)

\* The contracts are accounts, and no user is one of them.
LEMMA AccountsAre ==
  /\ "proxy" \in Accounts /\ "pair" \in Accounts /\ "farm" \in Accounts /\ "ampz" \in Accounts
  /\ \A u \in Users : u \in Accounts /\ u \notin {"proxy", "pair", "farm", "ampz"}
  BY CompoundAssumption DEF Accounts, Contracts

\* The assets are different ones.
LEMMA AssetsAre ==
  /\ Luna \in Assets /\ Other \in Assets /\ Astro \in Assets /\ LP \in Assets /\ AmpLP \in Assets
  /\ PairAssets = {Luna, Other} /\ PairAssets \subseteq Assets
  /\ Luna # Other /\ Astro \notin PairAssets /\ LP \notin PairAssets /\ AmpLP \notin PairAssets
  /\ Astro # LP /\ Astro # AmpLP /\ LP # AmpLP
  BY CompoundAssumption DEF Assets, PairAssets

\* The pair always has something of either asset.
PoolOpen(c) == \A a \in PairAssets : Held(c, "pair", a) > 0

\* The amounts that a swap is computed from.
LEMMA PoolIsOpen ==
  ASSUME NEW c \in Chains, PoolOpen(c)
  PROVE  /\ Held(c, "pair", Luna) \in Nat \ {0} /\ Held(c, "pair", Other) \in Nat \ {0}
         /\ Held(c, "proxy", Luna) \in Nat /\ Held(c, "proxy", Other) \in Nat
<1>1. Luna \in PairAssets /\ Other \in PairAssets
  BY AssetsAre
<1>2. /\ Held(c, "pair", Luna) \in Nat /\ Held(c, "pair", Other) \in Nat
      /\ Held(c, "proxy", Luna) \in Nat /\ Held(c, "proxy", Other) \in Nat
  BY AccountsAre, AssetsAre, HeldNat
<1> QED
  BY <1>1, <1>2 DEF PoolOpen

\* A swap in the pair that leaves something there.
LEMMA PairSwapIs ==
  ASSUME NEW c \in Chains, PoolOpen(c), NEW offer \in PairAssets, NEW ask \in PairAssets \ {offer},
         NEW n \in Int, NEW back \in Int, back < Held(c, "pair", ask),
         NEW e \in PairSwap(c, offer, n, ask, back)
  PROVE  /\ e \in Chains /\ SameStore(e, c) /\ e.supply = c.supply /\ PoolOpen(e)
         /\ \A w \in Accounts \ {"proxy", "pair"} : e.bal[w] = c.bal[w]
         /\ \A a \in Assets \ PairAssets : Held(e, "proxy", a) = Held(c, "proxy", a)
<1>1. PICK d \in Move(c, "proxy", "pair", offer, n) : e \in Move(d, "pair", "proxy", ask, back)
  BY DEF PairSwap, Then
<1>2. /\ "proxy" \in Accounts /\ "pair" \in Accounts /\ "pair" # "proxy"
      /\ offer \in Assets /\ ask \in Assets
  BY AccountsAre, AssetsAre
<1>3. /\ n > 0 /\ d \in Chains /\ SameStore(d, c) /\ d.supply = c.supply
      /\ Held(d, "pair", offer) = Held(c, "pair", offer) + n
      /\ \A b \in Assets \ {offer} : Held(d, "proxy", b) = Held(c, "proxy", b)
           /\ Held(d, "pair", b) = Held(c, "pair", b)
      /\ \A w \in Accounts \ {"proxy", "pair"} : d.bal[w] = c.bal[w]
  <2>1. c \in Chains /\ "proxy" \in Accounts /\ "pair" \in Accounts \ {"proxy"} /\ offer \in Assets
        /\ n \in Int /\ d \in Move(c, "proxy", "pair", offer, n)
    BY <1>1, <1>2
  <2> QED
    BY ONLY <2>1, MoveIs
<1>4. /\ e \in Chains /\ SameStore(e, d) /\ e.supply = d.supply
      /\ Held(e, "pair", ask) = Held(d, "pair", ask) - back
      /\ \A b \in Assets \ {ask} : Held(e, "pair", b) = Held(d, "pair", b)
           /\ Held(e, "proxy", b) = Held(d, "proxy", b)
      /\ \A w \in Accounts \ {"proxy", "pair"} : e.bal[w] = d.bal[w]
  <2>1. d \in Chains /\ "pair" \in Accounts /\ "proxy" \in Accounts \ {"pair"} /\ ask \in Assets
        /\ back \in Int /\ e \in Move(d, "pair", "proxy", ask, back)
    BY <1>1, <1>2, <1>3
  <2>2. \A w \in Accounts \ {"pair", "proxy"} : e.bal[w] = d.bal[w]
    BY ONLY <2>1, MoveIs
  <2>3. /\ e \in Chains /\ SameStore(e, d) /\ e.supply = d.supply
        /\ Held(e, "pair", ask) = Held(d, "pair", ask) - back
        /\ \A b \in Assets \ {ask} : Held(e, "pair", b) = Held(d, "pair", b)
             /\ Held(e, "proxy", b) = Held(d, "proxy", b)
    BY ONLY <2>1, MoveIs
  <2> QED
    BY <2>2, <2>3
<1>5. PoolOpen(e)
  <2> SUFFICES ASSUME NEW a \in PairAssets PROVE Held(e, "pair", a) > 0
    BY DEF PoolOpen
  <2>1. Held(c, "pair", a) \in Nat /\ Held(c, "pair", a) > 0 /\ a \in Assets
    BY <1>2, AssetsAre, HeldNat DEF PoolOpen
  <2>2. CASE a = ask
    BY <1>3, <1>4, <2>1, <2>2
  <2>3. CASE a = offer
    BY <1>3, <1>4, <2>1, <2>3
  <2>4. CASE a # ask /\ a # offer
    BY <1>3, <1>4, <2>1, <2>4
  <2> QED
    BY <2>2, <2>3, <2>4
<1>6. SameStore(e, c) /\ e.supply = c.supply
  BY <1>3, <1>4 DEF SameStore
<1> QED
  BY <1>3, <1>4, <1>5, <1>6

\* The optimal swap changes only what the proxy and the pair have of the pair's assets.
LEMMA OptimalSwapKeeps ==
  ASSUME NEW c \in Chains, PoolOpen(c), NEW e \in optimal_swap(c)
  PROVE  /\ e \in Chains /\ SameStore(e, c) /\ e.supply = c.supply /\ PoolOpen(e)
         /\ \A w \in Accounts \ {"proxy", "pair"} : e.bal[w] = c.bal[w]
         /\ \A a \in Assets \ PairAssets : Held(e, "proxy", a) = Held(c, "proxy", a)
<1> DEFINE la == Held(c, "proxy", Luna)
           oa == Held(c, "proxy", Other)
           lp0 == Held(c, "pair", Luna)
           op0 == Held(c, "pair", Other)
           r == calculate_optimal_swap(la, oa, lp0, op0, Commission)
<1>1. la \in Nat /\ oa \in Nat /\ lp0 \in Nat \ {0} /\ op0 \in Nat \ {0}
  BY PoolIsOpen
<1>2. /\ r.swap_a \in Nat /\ r.swap_b \in Nat /\ r.return_a \in Nat /\ r.return_b \in Nat
      /\ r.swap_a > 0 => r.return_b > 0 /\ r.return_b < op0
      /\ r.swap_b > 0 => r.return_a > 0 /\ r.return_a < lp0
  <2> HIDE DEF la, oa, lp0, op0
  <2>1. Commission \in 0..COMMISSION_DENOM
    BY CompoundAssumption
  <2> QED
    BY <1>1, <2>1, OptimalSwapIs
<1>3. \/ r.swap_a > 0 /\ e \in PairSwap(c, Luna, r.swap_a, Other, r.return_b)
      \/ r.swap_b > 0 /\ e \in PairSwap(c, Other, r.swap_b, Luna, r.return_a)
      \/ e = c
  BY DEF optimal_swap
<1> HIDE DEF r
<1>4. CASE r.swap_a > 0 /\ e \in PairSwap(c, Luna, r.swap_a, Other, r.return_b)
  <2>1. Luna \in PairAssets /\ Other \in PairAssets \ {Luna} /\ r.swap_a \in Int /\ r.return_b \in Int
        /\ r.return_b < Held(c, "pair", Other)
    BY <1>2, <1>4, AssetsAre
  <2> QED
    BY <1>4, <2>1, PairSwapIs
<1>5. CASE r.swap_b > 0 /\ e \in PairSwap(c, Other, r.swap_b, Luna, r.return_a)
  <2>1. Other \in PairAssets /\ Luna \in PairAssets \ {Other} /\ r.swap_b \in Int /\ r.return_a \in Int
        /\ r.return_a < Held(c, "pair", Luna)
    BY <1>2, <1>5, AssetsAre
  <2> QED
    BY <1>5, <2>1, PairSwapIs
<1>6. CASE e = c
  BY <1>6 DEF SameStore
<1> QED
  BY <1>3, <1>4, <1>5, <1>6

\* Providing liquidity takes what the proxy did not hold before, and brings LP tokens.
LEMMA ProvideIs ==
  ASSUME NEW c \in Chains, PoolOpen(c), NEW prev \in [PairAssets -> Nat],
         NEW to \in Accounts \ {"proxy", "pair"}, NEW e \in provide_liquidity(c, prev, to)
  PROVE  /\ e \in Chains /\ SameStore(e, c) /\ PoolOpen(e)
         /\ \A a \in PairAssets : Held(e, "proxy", a) = prev[a]
         /\ \A a \in Assets \ PairAssets : Held(e, "proxy", a) = Held(c, "proxy", a)
         /\ Held(e, to, LP) > Held(c, to, LP)
         /\ \A a \in Assets \ {LP} : Held(e, to, a) = Held(c, to, a)
         /\ \A w \in Accounts \ {"proxy", "pair", to} : e.bal[w] = c.bal[w]
<1> DEFINE amounts == [a \in PairAssets |-> Held(c, "proxy", a) - prev[a]]
           minted == lp_minted(Held(c, "proxy", Luna) - prev[Luna], Held(c, "proxy", Other) - prev[Other],
                               Held(c, "pair", Luna), Held(c, "pair", Other), c.supply)
<1>1. /\ \A a \in PairAssets : Held(c, "proxy", a) - prev[a] > 0
      /\ minted # 0
      /\ \E d \in deposit_assets(c, "proxy", "pair", amounts) :
           e \in Give([d EXCEPT !.supply = @ + minted], to, LP, minted)
  <2>1. /\ ~((\E a \in PairAssets : Held(c, "proxy", a) - prev[a] <= 0) \/ minted = 0)
        /\ e \in Then(deposit_assets(c, "proxy", "pair", amounts),
                      LAMBDA d : Give([d EXCEPT !.supply = @ + minted], to, LP, minted))
    <3> DEFINE rest == Then(deposit_assets(c, "proxy", "pair", amounts),
                      LAMBDA d : Give([d EXCEPT !.supply = @ + minted], to, LP, minted))
               bad == (\E a \in PairAssets : Held(c, "proxy", a) - prev[a] <= 0) \/ minted = 0
    <3>1. provide_liquidity(c, prev, to) = IF bad THEN {} ELSE rest
      BY DEF provide_liquidity
    <3> HIDE DEF rest, bad
    <3>2. ~bad /\ e \in rest
      BY <3>1
    <3> QED
      BY <3>2 DEF rest, bad
  <2>2. \A a \in PairAssets : Held(c, "proxy", a) \in Nat /\ prev[a] \in Nat
    BY AccountsAre, AssetsAre, HeldNat
  <2>3. \A a \in PairAssets : Held(c, "proxy", a) - prev[a] > 0
    BY <2>1, <2>2
  <2> HIDE DEF amounts, minted
  <2>4. \E d \in deposit_assets(c, "proxy", "pair", amounts) :
           e \in Give([d EXCEPT !.supply = @ + minted], to, LP, minted)
    BY <2>1 DEF Then
  <2> QED
    BY <2>1, <2>3, <2>4
<1>2. /\ Luna \in PairAssets /\ Other \in PairAssets /\ PairAssets \subseteq Assets
      /\ LP \in Assets \ PairAssets
      /\ "proxy" \in Accounts /\ "pair" \in Accounts \ {"proxy"} /\ to \in Accounts
  BY AccountsAre, AssetsAre
<1>3. \A a \in PairAssets : Held(c, "proxy", a) \in Nat /\ prev[a] \in Nat
  BY <1>2, HeldNat
<1>4. amounts \in [PairAssets -> Nat]
      /\ \A a \in PairAssets : amounts[a] = Held(c, "proxy", a) - prev[a] /\ amounts[a] > 0
  BY <1>1, <1>3
<1>5. minted \in Nat /\ minted > 0
  <2>1. /\ Held(c, "proxy", Luna) - prev[Luna] \in Nat /\ Held(c, "proxy", Other) - prev[Other] \in Nat
    BY <1>1, <1>2, <1>3
  <2>2. /\ Held(c, "pair", Luna) \in Nat \ {0} /\ Held(c, "pair", Other) \in Nat \ {0} /\ c.supply \in Nat
    BY PoolIsOpen DEF Chains
  <2>3. minted \in Nat
    BY ONLY <2>1, <2>2, MintedIsNat DEF minted
  <2> HIDE DEF minted
  <2> QED
    BY <1>1, <2>3
<1> HIDE DEF amounts, minted
<1>6. PICK d \in deposit_assets(c, "proxy", "pair", amounts) :
        e \in Give([d EXCEPT !.supply = @ + minted], to, LP, minted)
  BY <1>1
<1>7. /\ d \in Chains /\ SameStore(d, c)
      /\ \A a \in Assets : /\ Held(d, "proxy", a) = Held(c, "proxy", a) - Amount(amounts, a)
                           /\ Held(d, "pair", a) = Held(c, "pair", a) + Amount(amounts, a)
      /\ \A w \in Accounts \ {"proxy", "pair"} : d.bal[w] = c.bal[w]
  <2>1. /\ c \in Chains /\ "proxy" \in Accounts /\ "pair" \in Accounts \ {"proxy"}
        /\ PairAssets \subseteq Assets /\ amounts \in [PairAssets -> Nat]
        /\ d \in deposit_assets(c, "proxy", "pair", amounts)
    BY <1>2, <1>4, <1>6
  <2> QED
    BY ONLY <2>1, DepositIs
<1>8. PICK g : g = [d EXCEPT !.supply = @ + minted]
  OBVIOUS
<1>9. /\ g \in Chains /\ SameStore(g, d) /\ g.bal = d.bal
  BY <1>5, <1>7, <1>8 DEF Chains, SameStore
<1>10. OneHeld(e, g, to, LP, Held(g, to, LP) + minted)
  <2>1. g \in Chains /\ to \in Accounts /\ LP \in Assets /\ minted \in Nat /\ e \in Give(g, to, LP, minted)
    BY <1>2, <1>5, <1>6, <1>8, <1>9
  <2> QED
    BY ONLY <2>1, GiveIs
<1>11. /\ e \in Chains /\ SameStore(e, c)
       /\ Held(e, to, LP) = Held(d, to, LP) + minted
       /\ \A b \in Assets \ {LP} : Held(e, to, b) = Held(d, to, b)
       /\ \A w \in Accounts \ {to} : e.bal[w] = d.bal[w]
  BY <1>7, <1>9, <1>10 DEF OneHeld, SameStore, Held
<1>12. d.bal[to] = c.bal[to] /\ e.bal["proxy"] = d.bal["proxy"] /\ e.bal["pair"] = d.bal["pair"]
  BY <1>2, <1>7, <1>11
<1>13. /\ Held(d, to, LP) = Held(c, to, LP) /\ Held(c, to, LP) \in Nat
       /\ \A b \in Assets : /\ Held(d, to, b) = Held(c, to, b)
                            /\ Held(e, "proxy", b) = Held(d, "proxy", b)
                            /\ Held(e, "pair", b) = Held(d, "pair", b)
  BY <1>2, <1>12, HeldNat DEF Held
<1>14. \A a : Amount(amounts, a) = IF a \in PairAssets THEN amounts[a] ELSE 0
  BY <1>4, AmountIs
<1>15. \A a \in PairAssets : Held(e, "proxy", a) = prev[a]
  BY <1>2, <1>3, <1>4, <1>7, <1>13, <1>14
<1>16. \A a \in Assets \ PairAssets : Held(e, "proxy", a) = Held(c, "proxy", a)
  <2>1. \A a \in Assets : Held(c, "proxy", a) \in Nat
    BY <1>2, HeldNat
  <2> QED
    BY <1>7, <1>13, <1>14, <2>1
<1>17. PoolOpen(e)
  <2> SUFFICES ASSUME NEW a \in PairAssets PROVE Held(e, "pair", a) > 0
    BY DEF PoolOpen
  <2>1. Held(c, "pair", a) \in Nat /\ Held(c, "pair", a) > 0 /\ amounts[a] \in Nat
    BY <1>2, <1>4, HeldNat DEF PoolOpen
  <2> QED
    BY <1>2, <1>7, <1>13, <1>14, <2>1
<1>18. Held(e, to, LP) > Held(c, to, LP)
  BY <1>5, <1>11, <1>13
<1>19. \A a \in Assets \ {LP} : Held(e, to, a) = Held(c, to, a)
  BY <1>11, <1>13
<1>20. \A w \in Accounts \ {"proxy", "pair", to} : e.bal[w] = c.bal[w]
  BY <1>7, <1>11
<1> QED
  BY <1>11, <1>15, <1>16, <1>17, <1>18, <1>19, <1>20

\* The proxy has what it had.
ProxyKept(d, c) == \A a \in PairAssets \cup {Astro} : Held(d, "proxy", a) = Held(c, "proxy", a)

\* Compounding for the farm turns its tokens into LP tokens, and leaves nothing in the proxy.
LEMMA CompoundIs ==
  ASSUME NEW c \in Chains, PoolOpen(c), NEW D, D \subseteq Assets \ {LP, AmpLP},
         NEW amounts \in [D -> Nat], NEW no_swap \in BOOLEAN,
         NEW e \in compound(c, "farm", amounts, "farm", no_swap)
  PROVE  /\ e \in Chains /\ SameStore(e, c) /\ PoolOpen(e) /\ ProxyKept(e, c)
         /\ Held(e, "farm", LP) > Held(c, "farm", LP)
         /\ \A a \in Assets \ {LP} : Held(e, "farm", a) = Held(c, "farm", a) - Amount(amounts, a)
         /\ \A w \in Accounts \ {"proxy", "pair", "farm"} : e.bal[w] = c.bal[w]
<1> DEFINE others == Restrict(amounts, DOMAIN amounts \ PairAssets)
           prev == [a \in PairAssets |-> Held(c, "proxy", a)]
           T == D \ PairAssets
<1>1. PICK c1, c2, c3 :
        /\ c1 \in deposit_assets(c, "farm", "proxy", amounts) /\ c2 \in create_swap(c1, others, Luna, "proxy")
        /\ c3 = c2 \/ c3 \in optimal_swap(c2)
        /\ e \in provide_liquidity(c3, prev, "farm")
  <2> DEFINE deposited == deposit_assets(c, "farm", "proxy", amounts)
             swapped == Then(deposited, LAMBDA d : create_swap(d, others, Luna, "proxy"))
             paired == IF no_swap THEN swapped ELSE Then(swapped, optimal_swap)
  <2>1. e \in Then(paired, LAMBDA d : provide_liquidity(d, prev, "farm"))
    <3> DEFINE rest == Then(paired, LAMBDA d : provide_liquidity(d, prev, "farm"))
    <3>1. compound(c, "farm", amounts, "farm", no_swap) = IF ~proxy.lp THEN {} ELSE rest
      BY DEF compound
    <3> HIDE DEF rest
    <3>2. e \in rest
      BY <3>1
    <3> QED
      BY <3>2 DEF rest
  <2> HIDE DEF others, prev, paired
  <2>2. PICK c3 \in paired : e \in provide_liquidity(c3, prev, "farm")
    BY <2>1 DEF Then
  <2>3. \E c2 \in swapped : c3 = c2 \/ c3 \in optimal_swap(c2)
    <3> HIDE DEF swapped
    <3> QED
      BY <2>2 DEF paired, Then
  <2>4. PICK c2 \in swapped : c3 = c2 \/ c3 \in optimal_swap(c2)
    BY <2>3
  <2>5. \E c1 \in deposited : c2 \in create_swap(c1, others, Luna, "proxy")
    BY <2>4 DEF Then
  <2> QED
    BY <2>2, <2>4, <2>5
<1>2. /\ "proxy" \in Accounts \ {"farm"} /\ "pair" \in Accounts /\ "farm" \in Accounts \ {"proxy", "pair"}
      /\ D \subseteq Assets /\ T \subseteq D /\ T \subseteq Assets /\ Luna \in Assets
      /\ Luna \in PairAssets /\ PairAssets \subseteq Assets
      /\ Astro \in Assets \ (PairAssets \cup {LP, AmpLP}) /\ LP \in Assets \ PairAssets
  BY AccountsAre, AssetsAre
<1>3. /\ others \in [T -> Nat]
      /\ \A a : Amount(others, a) = IF a \in T THEN amounts[a] ELSE 0
      /\ \A a : Amount(amounts, a) = IF a \in D THEN amounts[a] ELSE 0
      /\ \A a : Amount(amounts, a) \in Nat
  <2>1. others = Restrict(amounts, T)
    OBVIOUS
  <2>2. /\ T \subseteq D /\ amounts \in [D -> Nat]
    OBVIOUS
  <2> HIDE DEF others, T
  <2>3. Restrict(amounts, T) \in [T -> Nat]
        /\ \A a : Amount(Restrict(amounts, T), a) = IF a \in T THEN amounts[a] ELSE 0
    BY ONLY <2>2, PartOf
  <2> QED
    BY <2>1, <2>3, AmountIs
<1>4. prev \in [PairAssets -> Nat] /\ \A a \in PairAssets : prev[a] = Held(c, "proxy", a)
  <2>1. \A a \in PairAssets : Held(c, "proxy", a) \in Nat
    BY <1>2, HeldNat
  <2> QED
    BY <2>1
<1>5. \A a \in Assets : Held(c, "proxy", a) \in Nat /\ Held(c, "farm", a) \in Nat
  BY <1>2, HeldNat
<1> HIDE DEF others, prev
<1>6. /\ c1 \in Chains /\ SameStore(c1, c)
      /\ \A a \in Assets :
           /\ Held(c1, "farm", a) = Held(c, "farm", a) - Amount(amounts, a)
           /\ Held(c1, "proxy", a) = Held(c, "proxy", a) + Amount(amounts, a)
      /\ \A w \in Accounts \ {"farm", "proxy"} : c1.bal[w] = c.bal[w]
  <2>1. /\ c \in Chains /\ "farm" \in Accounts /\ "proxy" \in Accounts \ {"farm"}
        /\ D \subseteq Assets /\ amounts \in [D -> Nat]
        /\ c1 \in deposit_assets(c, "farm", "proxy", amounts)
    BY <1>1, <1>2
  <2> QED
    BY ONLY <2>1, DepositIs
<1>7. PICK d \in Chains, n \in Nat :
           /\ SameStore(d, c1)
           /\ \A a \in Assets : Held(d, "proxy", a) = Held(c1, "proxy", a) - Amount(others, a)
           /\ \A w \in Accounts \ {"proxy"} : d.bal[w] = c1.bal[w]
           /\ OneHeld(c2, d, "proxy", Luna, Held(d, "proxy", Luna) + n)
  <2>1. /\ c1 \in Chains /\ T \subseteq Assets /\ others \in [T -> Nat] /\ Luna \in Assets
        /\ "proxy" \in Accounts /\ c2 \in create_swap(c1, others, Luna, "proxy")
    BY <1>1, <1>2, <1>3, <1>6
  <2>2. PICK to : to = "proxy"
    OBVIOUS
  <2>3. /\ c1 \in Chains /\ T \subseteq Assets /\ others \in [T -> Nat] /\ Luna \in Assets
        /\ to \in Accounts /\ c2 \in create_swap(c1, others, Luna, to)
    BY <2>1, <2>2
  <2>4. Swapped(c2, c1, others, Luna, to)
    <3> HIDE DEF T
    <3> QED
      BY ONLY <2>3, SwapsAre
  <2> QED
    BY <2>2, <2>4 DEF Swapped
<1>8. /\ c2 \in Chains /\ SameStore(c2, c)
      /\ \A a \in Assets \ {Luna} : Held(c2, "proxy", a) = Held(c1, "proxy", a) - Amount(others, a)
      /\ \A w \in Accounts \ {"proxy"} : c2.bal[w] = c1.bal[w]
  BY <1>6, <1>7 DEF OneHeld, SameStore
<1>9. PoolOpen(c2)
  <2>1. c2.bal["pair"] = c.bal["pair"]
    BY <1>2, <1>6, <1>8
  <2> QED
    BY <2>1 DEF PoolOpen, Held
<1>10. /\ c3 \in Chains /\ SameStore(c3, c2) /\ PoolOpen(c3)
       /\ \A w \in Accounts \ {"proxy", "pair"} : c3.bal[w] = c2.bal[w]
       /\ \A a \in Assets \ PairAssets : Held(c3, "proxy", a) = Held(c2, "proxy", a)
  <2>1. CASE c3 = c2
    BY <1>8, <1>9, <2>1 DEF SameStore
  <2>2. CASE c3 \in optimal_swap(c2)
    BY ONLY <1>8, <1>9, <2>2, OptimalSwapKeeps
  <2> QED
    BY <1>1, <2>1, <2>2
<1>11. /\ e \in Chains /\ SameStore(e, c3) /\ PoolOpen(e)
       /\ \A a \in PairAssets : Held(e, "proxy", a) = prev[a]
       /\ \A a \in Assets \ PairAssets : Held(e, "proxy", a) = Held(c3, "proxy", a)
       /\ Held(e, "farm", LP) > Held(c3, "farm", LP)
       /\ \A a \in Assets \ {LP} : Held(e, "farm", a) = Held(c3, "farm", a)
       /\ \A w \in Accounts \ {"proxy", "pair", "farm"} : e.bal[w] = c3.bal[w]
  <2>1. /\ c3 \in Chains /\ PoolOpen(c3) /\ prev \in [PairAssets -> Nat]
        /\ "farm" \in Accounts \ {"proxy", "pair"} /\ e \in provide_liquidity(c3, prev, "farm")
    BY <1>1, <1>2, <1>4, <1>10
  <2> QED
    BY ONLY <2>1, ProvideIs
<1>12. c3.bal["farm"] = c1.bal["farm"]
  BY <1>2, <1>8, <1>10
<1>13. \A a \in Assets : Held(c3, "farm", a) = Held(c, "farm", a) - Amount(amounts, a)
  BY <1>6, <1>12 DEF Held
<1>14. Amount(amounts, LP) = 0
  BY <1>3
<1>15. Held(e, "farm", LP) > Held(c, "farm", LP)
  BY <1>2, <1>5, <1>11, <1>13, <1>14
<1>16. ProxyKept(e, c)
  <2>1. Amount(others, Astro) = Amount(amounts, Astro)
    BY <1>2, <1>3
  <2>2. Astro # Luna
    BY <1>2
  <2>3. Held(e, "proxy", Astro) = Held(c, "proxy", Astro)
    BY <1>2, <1>3, <1>5, <1>6, <1>8, <1>10, <1>11, <2>1, <2>2
  <2> QED
    BY <1>4, <1>11, <2>3 DEF ProxyKept
<1>17. SameStore(e, c)
  BY <1>8, <1>10, <1>11 DEF SameStore
<1>18. \A w \in Accounts \ {"proxy", "pair", "farm"} : e.bal[w] = c.bal[w]
  BY <1>6, <1>8, <1>10, <1>11
<1> QED
  BY <1>11, <1>13, <1>15, <1>16, <1>17, <1>18

\* A swap for an account into uluna, which gives it the whole balance of the proxy if it
\* sent uluna.
LEMMA MultiSwapIs ==
  ASSUME NEW c \in Chains, PoolOpen(c), NEW sender \in Accounts \ {"proxy", "pair"},
         NEW D, D \subseteq Assets,
         NEW amounts \in [D -> Nat], NEW e \in multi_swap(c, sender, Luna, amounts, sender)
  PROVE  /\ e \in Chains /\ SameStore(e, c) /\ PoolOpen(e)
         /\ \A a \in Assets \ {Luna} :
              /\ Held(e, sender, a) = Held(c, sender, a) - Amount(amounts, a)
              /\ Held(e, "proxy", a) = Held(c, "proxy", a)
         /\ Held(e, "proxy", Luna) = IF Luna \in D THEN 0 ELSE Held(c, "proxy", Luna)
         /\ \A w \in Accounts \ {"proxy", sender} : e.bal[w] = c.bal[w]
<1> DEFINE others == Restrict(amounts, DOMAIN amounts \ {Luna})
           T == D \ {Luna}
<1>1. PICK c1, c2 :
        /\ c1 \in deposit_assets(c, sender, "proxy", amounts) /\ c2 \in create_swap(c1, others, Luna, sender)
        /\ IF Luna \in D THEN e \in Move(c2, "proxy", sender, Luna, Held(c2, "proxy", Luna)) ELSE e = c2
  <2>1. /\ Luna \in D => \E c1 \in deposit_assets(c, sender, "proxy", amounts) :
                         \E c2 \in create_swap(c1, others, Luna, sender) :
                            e \in Move(c2, "proxy", sender, Luna, Held(c2, "proxy", Luna))
        /\ Luna \notin D => \E c1 \in deposit_assets(c, sender, "proxy", amounts) :
                            e \in create_swap(c1, others, Luna, sender)
    BY DEF multi_swap, Then
  <2> HIDE DEF others
  <2> QED
    BY <2>1
<1>2. /\ "proxy" \in Accounts \ {sender} /\ "pair" \in Accounts \ {sender, "proxy"}
      /\ sender \in Accounts \ {"proxy"}
      /\ T \subseteq D /\ T \subseteq Assets /\ Luna \in Assets
  BY AccountsAre, AssetsAre
<1>3. /\ others \in [T -> Nat]
      /\ \A a : Amount(others, a) = IF a \in T THEN amounts[a] ELSE 0
      /\ \A a : Amount(amounts, a) = IF a \in D THEN amounts[a] ELSE 0
      /\ \A a : Amount(amounts, a) \in Nat
  <2>1. others = Restrict(amounts, T)
    OBVIOUS
  <2>2. /\ T \subseteq D /\ amounts \in [D -> Nat]
    OBVIOUS
  <2> HIDE DEF others, T
  <2>3. Restrict(amounts, T) \in [T -> Nat]
        /\ \A a : Amount(Restrict(amounts, T), a) = IF a \in T THEN amounts[a] ELSE 0
    BY ONLY <2>2, PartOf
  <2> QED
    BY <2>1, <2>3, AmountIs
<1>5. \A a \in Assets : Held(c, "proxy", a) \in Nat /\ Held(c, sender, a) \in Nat
  BY <1>2, HeldNat
<1> HIDE DEF others
<1>6. /\ c1 \in Chains /\ SameStore(c1, c)
      /\ \A a \in Assets :
           /\ Held(c1, sender, a) = Held(c, sender, a) - Amount(amounts, a)
           /\ Held(c1, "proxy", a) = Held(c, "proxy", a) + Amount(amounts, a)
      /\ \A w \in Accounts \ {sender, "proxy"} : c1.bal[w] = c.bal[w]
  <2>1. /\ c \in Chains /\ sender \in Accounts /\ "proxy" \in Accounts \ {sender}
        /\ D \subseteq Assets /\ amounts \in [D -> Nat]
        /\ c1 \in deposit_assets(c, sender, "proxy", amounts)
    BY <1>1, <1>2
  <2> QED
    BY ONLY <2>1, DepositIs
<1>7. PICK d \in Chains, n \in Nat :
           /\ SameStore(d, c1)
           /\ \A a \in Assets : Held(d, "proxy", a) = Held(c1, "proxy", a) - Amount(others, a)
           /\ \A w \in Accounts \ {"proxy"} : d.bal[w] = c1.bal[w]
           /\ OneHeld(c2, d, sender, Luna, Held(d, sender, Luna) + n)
  <2>1. /\ c1 \in Chains /\ T \subseteq Assets /\ others \in [T -> Nat] /\ Luna \in Assets
        /\ sender \in Accounts /\ c2 \in create_swap(c1, others, Luna, sender)
    BY <1>1, <1>2, <1>3, <1>6
  <2>2. Swapped(c2, c1, others, Luna, sender)
    BY ONLY <2>1, SwapsAre
  <2> QED
    BY <2>2 DEF Swapped
<1>8. /\ c2 \in Chains /\ SameStore(c2, c)
      /\ \A a \in Assets \ {Luna} : Held(c2, sender, a) = Held(d, sender, a)
      /\ \A w \in Accounts \ {sender} : c2.bal[w] = d.bal[w]
  BY <1>6, <1>7 DEF OneHeld, SameStore
<1>9. \A a \in Assets : /\ Held(c2, "proxy", a) = Held(d, "proxy", a)
                        /\ Held(d, sender, a) = Held(c1, sender, a)
  <2>1. c2.bal["proxy"] = d.bal["proxy"] /\ d.bal[sender] = c1.bal[sender]
    BY <1>2, <1>7, <1>8
  <2> QED
    BY <2>1 DEF Held
<1>10. \A a \in Assets \ {Luna} :
         /\ Held(c2, sender, a) = Held(c, sender, a) - Amount(amounts, a)
         /\ Held(c2, "proxy", a) = Held(c, "proxy", a)
  <2> SUFFICES ASSUME NEW a \in Assets \ {Luna}
               PROVE  /\ Held(c2, sender, a) = Held(c, sender, a) - Amount(amounts, a)
                      /\ Held(c2, "proxy", a) = Held(c, "proxy", a)
    OBVIOUS
  <2>1. Amount(others, a) = Amount(amounts, a) /\ Amount(amounts, a) \in Nat
    BY <1>3
  <2> QED
    BY <1>5, <1>6, <1>7, <1>8, <1>9, <2>1
<1>11. \A w \in Accounts \ {"proxy", sender} : c2.bal[w] = c.bal[w]
  BY <1>6, <1>7, <1>8
<1>12. CASE Luna \notin D
  <2>1. e = c2
    BY <1>1, <1>12
  <2>2. Amount(others, Luna) = 0 /\ Amount(amounts, Luna) = 0
    BY <1>3, <1>12
  <2>3. Held(c2, "proxy", Luna) = Held(c, "proxy", Luna)
    BY <1>2, <1>5, <1>6, <1>7, <1>9, <2>2
  <2>4. c2.bal["pair"] = c.bal["pair"]
    BY <1>2, <1>11
  <2>5. PoolOpen(c2)
    BY <2>4 DEF PoolOpen, Held
  <2> QED
    BY <1>8, <1>10, <1>11, <1>12, <2>1, <2>3, <2>5
<1>13. CASE Luna \in D
  <2> DEFINE m == Held(c2, "proxy", Luna)
  <2>1. m \in Nat
    BY <1>2, <1>8, HeldNat
  <2>2. /\ c2 \in Chains /\ "proxy" \in Accounts /\ sender \in Accounts \ {"proxy"}
        /\ Luna \in Assets /\ m \in Int
        /\ e \in Move(c2, "proxy", sender, Luna, m)
    BY <1>1, <1>2, <1>8, <1>13, <2>1
  <2>3. /\ e \in Chains /\ SameStore(e, c2)
        /\ Held(e, "proxy", Luna) = Held(c2, "proxy", Luna) - m
        /\ \A b \in Assets \ {Luna} : Held(e, "proxy", b) = Held(c2, "proxy", b)
             /\ Held(e, sender, b) = Held(c2, sender, b)
        /\ \A w \in Accounts \ {"proxy", sender} : e.bal[w] = c2.bal[w]
    <3> HIDE DEF m
    <3> QED
      BY ONLY <2>2, MoveIs
  <2>4. Held(e, "proxy", Luna) = 0
    BY <2>1, <2>3
  <2>5. e.bal["pair"] = c.bal["pair"]
    BY <1>2, <1>11, <2>3
  <2>6. PoolOpen(e)
    BY <2>5 DEF PoolOpen, Held
  <2>7. SameStore(e, c)
    BY <1>8, <2>3 DEF SameStore
  <2> QED
    BY <1>10, <1>11, <1>13, <2>3, <2>4, <2>6, <2>7
<1> QED
  BY <1>12, <1>13

-----------------------------------------------------------------------------
(* The farm.                                                               *)

\* The larger of two.
LEMMA MaxOfTwo ==
  ASSUME NEW a \in Int, NEW b \in Int
  PROVE  Max({a, b}) = IF a >= b THEN a ELSE b
<1> DEFINE m == IF a >= b THEN a ELSE b
<1>1. m \in {a, b} /\ \A y \in {a, b} : m >= y
  OBVIOUS
<1>2. \A x \in {a, b} : (\A y \in {a, b} : x >= y) => x = m
  OBVIOUS
<1> HIDE DEF m
<1>3. Max({a, b}) = m
  BY <1>1, <1>2 DEF Max
<1> QED
  BY <1>3 DEF m

\* The exchange rates are of the past.
OfThePast(c, b) == DOMAIN c.exchange_history \subseteq 0..b

\* The last time of a history.
LEMMA LargestTime ==
  ASSUME NEW b \in Nat, NEW T, T \subseteq 0..b, T # {}
  PROVE  Max(T) \in T /\ \A y \in T : y <= Max(T)
<1>1. \A x, y \in T : x >= y <=> y <= x
  OBVIOUS
<1>2. PICK x \in T : \A y \in T : x >= y
  BY <1>1, NatMax
<1>3. Max(T) \in T /\ \A y \in T : Max(T) >= y
  BY <1>2 DEF Max
<1> QED
  BY <1>1, <1>3

\* The first time of a history.
LEMMA SmallestTime ==
  ASSUME NEW T, T \subseteq Nat, T # {}
  PROVE  Min(T) \in T /\ \A y \in T : Min(T) <= y
<1>1. PICK x \in T : \A y \in T : x <= y
  BY NatMin
<1> QED
  BY <1>1 DEF Min

\* Of two times or more, the oldest of the last three is before the last.
LEMMA RecentIs ==
  ASSUME NEW b \in Nat, NEW T, T \subseteq 0..b, ~ Cardinality(T) < 2,
         NEW R, R = {t \in T : Cardinality({x \in T : x > t}) < RELAVANT_EXCHANGE_RATES}
  PROVE  Max(T) \in T /\ Min(R) \in T /\ Min(R) < Max(T)
<1>1. T # {}
  <2>1. ASSUME T = {} PROVE FALSE
    <3>1. Cardinality(T) = 0
      BY <2>1, FS_EmptySet, Zenon
    <3> QED
      BY <3>1
  <2> QED
    BY <2>1
<1>2. PICK m : m = Max(T)
  OBVIOUS
<1>3. m \in T /\ \A y \in T : y <= m
  BY <1>1, <1>2, LargestTime
<1>4. T \ {m} # {}
  <2>1. ASSUME T \ {m} = {} PROVE FALSE
    <3>1. T = {m}
      BY <1>3, <2>1
    <3>2. Cardinality(T) = 1
      BY <3>1, FS_Singleton
    <3> QED
      BY <3>2
  <2> QED
    BY <2>1
<1>5. PICK s \in T \ {m} : \A y \in T \ {m} : y <= s
  <2>1. T \ {m} \subseteq 0..b
    OBVIOUS
  <2> QED
    BY ONLY b \in Nat, <1>4, <2>1, NatMax
<1>6. {x \in T : x > s} = {m}
  <2>1. s < m /\ \A x \in T : x > s => x = m
    <3>1. m \in Nat /\ s \in Nat /\ \A x \in T : x \in Nat
      BY <1>3, <1>5
    <3> QED
      BY <1>3, <1>5, <3>1
  <2>2. m > s
    BY <1>3, <1>5, <2>1
  <2> QED
    BY <1>3, <2>1, <2>2
<1>7. Cardinality({x \in T : x > s}) = 1
  BY <1>6, FS_Singleton
<1>8. s \in R
  <2>1. Cardinality({x \in T : x > s}) < RELAVANT_EXCHANGE_RATES
    BY <1>7 DEF RELAVANT_EXCHANGE_RATES
  <2> QED
    BY <1>5, <2>1
<1>9. R \subseteq T /\ R \subseteq Nat /\ R # {}
  <2>1. \A t \in T : t \in Nat
    OBVIOUS
  <2>2. \A t \in R : t \in T
    OBVIOUS
  <2> QED
    BY ONLY <1>8, <2>1, <2>2
<1>10. PICK l : l = Min(R)
  OBVIOUS
<1>11. l \in R /\ \A y \in R : l <= y
  BY <1>9, <1>10, SmallestTime
<1>12. l <= s /\ s < m /\ l \in Nat /\ s \in Nat /\ m \in Nat
  BY <1>3, <1>5, <1>8, <1>11
<1> QED
  BY <1>2, <1>3, <1>9, <1>10, <1>11, <1>12

\* Products keep the order.
LEMMA TimesMono ==
  ASSUME NEW a \in Nat, NEW b \in Nat, NEW k \in Nat
  PROVE  /\ a <= b => a * k <= b * k
         /\ k > 0 /\ a * k <= b * k => a <= b
<1>1. a <= b => a * k <= b * k
  <2> SUFFICES ASSUME a <= b PROVE a * k <= b * k
    OBVIOUS
  <2>1. PICK n \in Nat : b = a + n
    <3>1. b - a \in Nat /\ b = a + (b - a)
      OBVIOUS
    <3> QED
      BY <3>1
  <2>2. b * k = a * k + n * k /\ n * k \in Nat /\ a * k \in Nat
    BY <2>1, Products
  <2> QED
    BY <2>2
<1>2. ASSUME k > 0, a * k <= b * k, ~ a <= b PROVE FALSE
  <2>1. PICK n \in Nat : a = b + 1 + n
    <3>1. a - b - 1 \in Nat /\ a = b + 1 + (a - b - 1)
      BY <1>2
    <3> QED
      BY <3>1
  <2>2. a * k = b * k + k + n * k /\ n * k \in Nat /\ b * k \in Nat
    BY <2>1, Products
  <2> QED
    BY <1>2, <2>2
<1> QED
  BY <1>1, <1>2

\* A part of one of an amount is no more than the amount.
LEMMA PartIs ==
  ASSUME NEW s \in Nat, NEW q \in Nat, NEW one \in Nat \ {0}, q <= one
  PROVE  (s * q) \div one \in Nat /\ (s * q) \div one <= s
<1>1. s * q \in Nat /\ s * one \in Nat /\ q * s <= one * s
  BY Products, TimesMono
<1>2. s * q = q * s /\ s * one = one * s
  OBVIOUS
<1> DEFINE r == (s * q) \div one
<1>3. r \in Nat /\ r * one <= s * q
  BY <1>1, Quotient
<1> HIDE DEF r
<1>4. r * one \in Nat /\ r * one <= s * one
  BY <1>1, <1>2, <1>3, Products
<1>5. r <= s
  BY <1>3, <1>4, TimesMono
<1> QED
  BY <1>3, <1>5 DEF r

\* The delay gives no more shares.
LEMMA AdjustedIs ==
  ASSUME NEW c \in Chains, NEW b \in Nat, OfThePast(c, b), farm \in FarmConfigs, NEW s \in Nat
  PROVE  calc_adjusted_share(c, s) \in Nat /\ calc_adjusted_share(c, s) <= s
<1> DEFINE h == c.exchange_history
           T == DOMAIN h
           R == {t \in T : Cardinality({x \in T : x > t}) < RELAVANT_EXCHANGE_RATES}
           current == Max(T)
           last == Min(R)
           rise == Max({h[current] - h[last], 0})
           percent == (rise * DecimalOne) \div h[last]
           part == (farm.delay * DecimalOne) \div (current - last)
           factor == (percent * part) \div DecimalOne + DecimalOne
           q == (DecimalOne * DecimalOne) \div factor
<1>1. calc_adjusted_share(c, s) =
        IF farm.delay = 0 \/ Cardinality(T) < 2 THEN s ELSE (s * q) \div DecimalOne
  BY DEF calc_adjusted_share
<1>2. DecimalOne \in Nat \ {0} /\ farm.delay \in Nat
  BY FarmAssumption
<1>3. T \subseteq 0..b /\ \A t \in T : h[t] \in Nat \ {0}
  <2>1. c.exchange_history \in Histories
    BY DEF Chains
  <2>2. PICK X \in SUBSET Nat : c.exchange_history \in [X -> Rates]
    BY <2>1 DEF Histories
  <2>3. \A t \in T : h[t] \in Rates
    BY <2>2
  <2> QED
    BY <1>2, <2>3 DEF OfThePast, Rates
<1>4. CASE farm.delay = 0 \/ Cardinality(T) < 2
  <2> HIDE DEF q, T
  <2>1. calc_adjusted_share(c, s) = s
    BY <1>1, <1>4
  <2> QED
    BY <2>1
<1>5. CASE ~ (farm.delay = 0 \/ Cardinality(T) < 2)
  <2> HIDE DEF T, h
  <2>1. current \in T /\ last \in T /\ last < current
    <3>1. b \in Nat /\ T \subseteq 0..b /\ ~ Cardinality(T) < 2
      BY <1>3, <1>5
    <3> QED
      BY <3>1, RecentIs
  <2> HIDE DEF current, last
  <2>2. current - last \in Nat \ {0} /\ h[current] \in Nat /\ h[last] \in Nat \ {0}
    BY <1>3, <2>1
  <2>3. rise \in Nat
    <3>1. h[current] - h[last] \in Int /\ 0 \in Int
      BY <2>2
    <3> QED
      BY <3>1, MaxOfTwo
  <2> HIDE DEF rise
  <2>4. percent \in Nat /\ part \in Nat
    BY <1>2, <2>2, <2>3, Products, Quotient
  <2> HIDE DEF percent, part
  <2>5. factor \in Nat /\ factor >= DecimalOne
    <3>1. (percent * part) \div DecimalOne \in Nat
      BY <1>2, <2>4, Products, Quotient
    <3> QED
      BY <1>2, <3>1
  <2> HIDE DEF factor
  <2>6. q \in Nat /\ q <= DecimalOne
    <3>1. DecimalOne * DecimalOne \in Nat /\ factor \in Nat \ {0}
      BY <1>2, <2>5, Products
    <3>2. q \in Nat /\ q * factor <= DecimalOne * DecimalOne
      BY <3>1, Quotient
    <3> HIDE DEF q
    <3>3. DecimalOne * q <= factor * q
      BY <1>2, <2>5, <3>2, TimesMono
    <3>4. DecimalOne * q = q * DecimalOne /\ factor * q = q * factor
      BY <1>2, <2>5, <3>2
    <3>5. q * DecimalOne \in Nat /\ q * factor \in Nat
      BY <1>2, <2>5, <3>2, Products
    <3>6. q * DecimalOne <= DecimalOne * DecimalOne
      BY <3>1, <3>2, <3>3, <3>4, <3>5
    <3> QED
      BY <1>2, <3>2, <3>6, TimesMono
  <2> HIDE DEF q
  <2>7. calc_adjusted_share(c, s) = (s * q) \div DecimalOne
    BY <1>1, <1>5
  <2> QED
    BY <1>2, <2>6, <2>7, PartIs
<1> QED
  BY <1>4, <1>5

\* Somebody has bonded m LP tokens in the farm, for n shares of u.
Joined(e, c, u, n, m) ==
  /\ e.deposit = c.deposit + m /\ e.total_bond_share = c.total_bond_share + n
  /\ Held(e, u, AmpLP) = Held(c, u, AmpLP) + n
  /\ n <= m /\ (c.total_bond_share > 0 => n * c.deposit <= m * c.total_bond_share)
  /\ e.exchange_history = c.exchange_history

Bonded(e, c, u) == \E n, m \in Nat \ {0} : Joined(e, c, u, n, m)

\* A share is worth at least an LP token.
SharesAreBacked(c) == c.total_bond_share <= c.deposit

\* How many shares an amount buys.
LEMMA ShareIs ==
  ASSUME NEW c \in Chains, SharesAreBacked(c), NEW b \in Nat, OfThePast(c, b), farm \in FarmConfigs,
         NEW m \in Nat, NEW n, n = calc_adjusted_share(c, calc_bond_share(c, m))
  PROVE  n \in Nat /\ n <= m /\ (c.total_bond_share > 0 => n * c.deposit <= m * c.total_bond_share)
<1> DEFINE s == calc_bond_share(c, m)
<1>1. c.total_bond_share \in Nat /\ c.deposit \in Nat /\ c.total_bond_share <= c.deposit
  BY DEF Chains, SharesAreBacked
<1>2. s \in Nat /\ s <= m /\ (c.total_bond_share > 0 => s * c.deposit <= m * c.total_bond_share)
  <2>1. CASE c.total_bond_share = 0 \/ c.deposit = 0
    <3>1. c.total_bond_share = 0
      BY <1>1, <2>1
    <3>2. s = m
      BY <2>1 DEF calc_bond_share
    <3> HIDE DEF s
    <3> QED
      BY <3>1, <3>2
  <2>2. CASE ~ (c.total_bond_share = 0 \/ c.deposit = 0)
    <3>1. s = (m * c.total_bond_share) \div c.deposit
      BY <2>2 DEF calc_bond_share
    <3>2. m * c.total_bond_share \in Nat /\ c.deposit \in Nat \ {0}
      BY <1>1, <2>2, Products
    <3> HIDE DEF s
    <3>3. s \in Nat /\ s * c.deposit <= m * c.total_bond_share
      BY <3>1, <3>2, Quotient
    <3>4. c.total_bond_share * m <= c.deposit * m
      BY <1>1, TimesMono
    <3>5. c.total_bond_share * m = m * c.total_bond_share /\ c.deposit * m = m * c.deposit
      BY <1>1
    <3>6. s * c.deposit \in Nat /\ m * c.deposit \in Nat
      BY <1>1, <3>3, Products
    <3>7. s * c.deposit <= m * c.deposit
      BY <3>2, <3>3, <3>4, <3>5, <3>6
    <3>8. s <= m
      BY <1>1, <3>2, <3>3, <3>7, TimesMono
    <3> QED
      BY <3>3, <3>8
  <2> QED
    BY <2>1, <2>2
<1> HIDE DEF s
<1>3. n \in Nat /\ n <= s
  <2>1. n = calc_adjusted_share(c, s)
    BY DEF s
  <2> QED
    BY <1>2, <2>1, AdjustedIs
<1>4. n * c.deposit <= s * c.deposit
  BY <1>1, <1>2, <1>3, TimesMono
<1>5. n * c.deposit \in Nat /\ s * c.deposit \in Nat /\ m * c.total_bond_share \in Nat
  BY <1>1, <1>2, <1>3, Products
<1>6. n <= m
  BY <1>2, <1>3
<1>7. c.total_bond_share > 0 => n * c.deposit <= m * c.total_bond_share
  BY <1>2, <1>4, <1>5
<1> QED
  BY <1>3, <1>6, <1>7

\* LP tokens that the farm holds are bonded for a user.
LEMMA BondInternalIs ==
  ASSUME NEW c \in Chains, SharesAreBacked(c), NEW b \in Nat, OfThePast(c, b), farm \in FarmConfigs,
         NEW u \in Users, NEW m \in Nat, NEW e \in bond_internal(c, u, m)
  PROVE  /\ e \in Chains /\ Bonded(e, c, u)
         /\ \A a \in Assets \ {AmpLP} : Held(e, u, a) = Held(c, u, a)
         /\ \A w \in Accounts \ {u, "farm"} : e.bal[w] = c.bal[w]
<1> DEFINE n == calc_adjusted_share(c, calc_bond_share(c, m))
<1>1. PICK k : k = n
  OBVIOUS
<1>2. k \in Nat /\ k <= m /\ (c.total_bond_share > 0 => k * c.deposit <= m * c.total_bond_share)
  BY <1>1, ShareIs
<1>3. /\ k # 0
      /\ \E d \in Take(c, "farm", LP, m) :
           e \in Give([d EXCEPT !.total_bond_share = @ + k, !.deposit = @ + m], u, AmpLP, k)
  <2> DEFINE rest == Then(Take(c, "farm", LP, m),
             LAMBDA d : Give([d EXCEPT !.total_bond_share = @ + n, !.deposit = @ + m], u, AmpLP, n))
  <2>1. bond_internal(c, u, m) = IF n = 0 THEN {} ELSE rest
    BY DEF bond_internal
  <2> HIDE DEF n, rest
  <2>2. k # 0 /\ e \in rest
    BY <1>1, <2>1
  <2>3. rest = Then(Take(c, "farm", LP, m),
             LAMBDA d : Give([d EXCEPT !.total_bond_share = @ + k, !.deposit = @ + m], u, AmpLP, k))
    BY <1>1 DEF rest
  <2> QED
    BY <2>2, <2>3 DEF Then
<1>4. PICK d \in Take(c, "farm", LP, m) :
        e \in Give([d EXCEPT !.total_bond_share = @ + k, !.deposit = @ + m], u, AmpLP, k)
  BY <1>3
<1>5. u \in Accounts \ {"farm"} /\ "farm" \in Accounts /\ LP \in Assets /\ AmpLP \in Assets
  BY AccountsAre, AssetsAre
<1>6. m > 0 /\ d \in Chains /\ SameStore(d, c) /\ \A w \in Accounts \ {"farm"} : d.bal[w] = c.bal[w]
  <2>1. c \in Chains /\ "farm" \in Accounts /\ LP \in Assets /\ m \in Int /\ d \in Take(c, "farm", LP, m)
    BY <1>4, <1>5
  <2>2. m > 0 /\ OneHeld(d, c, "farm", LP, Held(c, "farm", LP) - m)
    BY ONLY <2>1, TakeIs
  <2> QED
    BY <2>2 DEF OneHeld
<1>7. PICK g : g = [d EXCEPT !.total_bond_share = @ + k, !.deposit = @ + m]
  OBVIOUS
<1>8. /\ g \in Chains /\ g.bal = d.bal /\ g.total_bond_share = d.total_bond_share + k
      /\ g.deposit = d.deposit + m
      /\ g.exchange_history = d.exchange_history
  <2> DEFINE g1 == [d EXCEPT !.total_bond_share = @ + k]
  <2>1. /\ g1 \in Chains /\ g1.bal = d.bal /\ g1.total_bond_share = d.total_bond_share + k
        /\ g1.exchange_history = d.exchange_history /\ g1.deposit = d.deposit
    BY <1>2, <1>6 DEF Chains
  <2>2. g = [g1 EXCEPT !.deposit = @ + m]
    BY <1>7
  <2> HIDE DEF g1
  <2> QED
    BY <2>1, <2>2 DEF Chains
<1>9. OneHeld(e, g, u, AmpLP, Held(g, u, AmpLP) + k)
  <2>1. g \in Chains /\ u \in Accounts /\ AmpLP \in Assets /\ k \in Nat /\ e \in Give(g, u, AmpLP, k)
    BY <1>2, <1>4, <1>5, <1>7, <1>8
  <2> QED
    BY ONLY <2>1, GiveIs
<1>10. g.bal[u] = c.bal[u]
  BY <1>5, <1>6, <1>8
<1>11. /\ \A a \in Assets : Held(g, u, a) = Held(c, u, a)
       /\ \A w \in Accounts \ {"farm"} : g.bal[w] = c.bal[w]
  BY <1>6, <1>8, <1>10 DEF Held
<1>12. Joined(e, c, u, k, m)
  BY <1>2, <1>5, <1>6, <1>8, <1>9, <1>11 DEF Joined, OneHeld, SameStore
<1>13. Bonded(e, c, u)
  BY <1>2, <1>3, <1>6, <1>12 DEF Bonded
<1> QED
  BY <1>9, <1>11, <1>13 DEF OneHeld

\* A bond of LP tokens.
LEMMA BondIs ==
  ASSUME NEW c \in Chains, SharesAreBacked(c), NEW b \in Nat, OfThePast(c, b), farm \in FarmConfigs,
         NEW u \in Users, NEW v \in Users, NEW m \in Nat, NEW e \in bond(c, u, m, v)
  PROVE  /\ e \in Chains /\ Bonded(e, c, v)
         /\ \A w \in Accounts \ {u, v, "farm"} : e.bal[w] = c.bal[w]
         /\ v # u => Held(e, u, AmpLP) = Held(c, u, AmpLP)
<1>1. PICK d \in Move(c, u, "farm", LP, m) : e \in bond_internal(d, v, m)
  BY DEF bond, Then
<1>2. u \in Accounts /\ v \in Accounts \ {"farm"} /\ "farm" \in Accounts \ {u} /\ LP \in Assets
      /\ AmpLP \in Assets \ {LP}
  BY AccountsAre, AssetsAre
<1>3. /\ d \in Chains /\ SameStore(d, c)
      /\ \A a \in Assets \ {LP} : Held(d, u, a) = Held(c, u, a)
      /\ \A w \in Accounts \ {u, "farm"} : d.bal[w] = c.bal[w]
  <2>1. c \in Chains /\ u \in Accounts /\ "farm" \in Accounts \ {u} /\ LP \in Assets
        /\ m \in Int /\ d \in Move(c, u, "farm", LP, m)
    BY <1>1, <1>2
  <2> QED
    BY ONLY <2>1, MoveIs
<1>4. SharesAreBacked(d) /\ OfThePast(d, b)
  BY <1>3 DEF SharesAreBacked, OfThePast, SameStore
<1>5. /\ e \in Chains /\ Bonded(e, d, v)
      /\ \A w \in Accounts \ {v, "farm"} : e.bal[w] = d.bal[w]
  BY <1>1, <1>3, <1>4, BondInternalIs
<1>6. Held(d, v, AmpLP) = Held(c, v, AmpLP)
  <2>1. CASE v = u
    BY <1>2, <1>3, <2>1
  <2>2. CASE v # u
    BY <1>2, <1>3, <2>2 DEF Held
  <2> QED
    BY <2>1, <2>2
<1>7. Bonded(e, c, v)
  BY <1>3, <1>5, <1>6 DEF Bonded, Joined, SameStore
<1>8. v # u => Held(e, u, AmpLP) = Held(c, u, AmpLP)
  <2> SUFFICES ASSUME v # u PROVE Held(e, u, AmpLP) = Held(c, u, AmpLP)
    OBVIOUS
  <2>1. e.bal[u] = d.bal[u]
    BY <1>2, <1>5
  <2> QED
    BY <1>2, <1>3, <2>1 DEF Held
<1> QED
  BY <1>3, <1>5, <1>7, <1>8

\* Other tokens are bonded, once the proxy has turned them into LP tokens.
LEMMA BondAssetsIs ==
  ASSUME NEW c \in Chains, PoolOpen(c), SharesAreBacked(c),
         NEW b \in Nat, OfThePast(c, b), farm \in FarmConfigs,
         NEW sender \in Accounts \ {"farm", "proxy", "pair"}, NEW D, D \subseteq Assets \ {LP, AmpLP},
         NEW amounts \in [D -> Nat], NEW no_swap \in BOOLEAN, NEW u \in Users,
         NEW e \in bond_assets(c, sender, amounts, no_swap, u)
  PROVE  /\ e \in Chains /\ PoolOpen(e) /\ ProxyKept(e, c) /\ Bonded(e, c, u)
         /\ \A a \in Assets \ {AmpLP} : Held(e, sender, a) = Held(c, sender, a) - Amount(amounts, a)
         /\ sender # u => /\ \A a \in Assets \ {AmpLP} : Held(e, u, a) = Held(c, u, a)
                          /\ Held(e, sender, AmpLP) = Held(c, sender, AmpLP)
         /\ \A w \in Accounts \ {"farm", "proxy", "pair", sender, u} : e.bal[w] = c.bal[w]
<1>1. PICK d, g : /\ d \in deposit_assets(c, sender, "farm", amounts)
                  /\ g \in compound(d, "farm", amounts, "farm", no_swap)
                  /\ e \in bond_internal(g, u, Held(g, "farm", LP) - Held(c, "farm", LP))
  <2> DEFINE rest(x) == Then(compound(x, "farm", amounts, "farm", no_swap),
                             LAMBDA y : bond_to(y, u, Held(c, "farm", LP)))
  <2>1. e \in UNION {rest(x) : x \in deposit_assets(c, sender, "farm", amounts)}
    BY DEF bond_assets, Then
  <2>2. PICK d \in deposit_assets(c, sender, "farm", amounts) : e \in rest(d)
    <3> HIDE DEF rest
    <3> QED
      BY <2>1
  <2>3. PICK g \in compound(d, "farm", amounts, "farm", no_swap) : e \in bond_to(g, u, Held(c, "farm", LP))
    BY <2>2 DEF Then
  <2> QED
    BY <2>2, <2>3 DEF bond_to
<1>2. /\ sender \in Accounts /\ "farm" \in Accounts \ {sender} /\ "proxy" \in Accounts \ {sender, "farm"}
      /\ "pair" \in Accounts \ {sender, "farm"}
      /\ u \in Accounts \ {"farm", "proxy", "pair"} /\ LP \in Assets /\ AmpLP \in Assets
      /\ D \subseteq Assets /\ PairAssets \cup {Astro} \subseteq Assets /\ PairAssets \subseteq Assets
  BY AccountsAre, AssetsAre
<1>3. /\ d \in Chains /\ SameStore(d, c)
      /\ \A a \in Assets : /\ Held(d, sender, a) = Held(c, sender, a) - Amount(amounts, a)
                           /\ Held(d, "farm", a) = Held(c, "farm", a) + Amount(amounts, a)
      /\ \A w \in Accounts \ {sender, "farm"} : d.bal[w] = c.bal[w]
  <2>1. /\ c \in Chains /\ sender \in Accounts /\ "farm" \in Accounts \ {sender} /\ D \subseteq Assets
        /\ amounts \in [D -> Nat] /\ d \in deposit_assets(c, sender, "farm", amounts)
    BY <1>1, <1>2
  <2> QED
    BY ONLY <2>1, DepositIs
<1>4. PoolOpen(d) /\ \A a \in Assets : Held(d, "proxy", a) = Held(c, "proxy", a)
  <2>1. d.bal["pair"] = c.bal["pair"] /\ d.bal["proxy"] = c.bal["proxy"]
    BY <1>2, <1>3
  <2> QED
    BY <2>1 DEF PoolOpen, Held
<1>5. /\ g \in Chains /\ SameStore(g, d) /\ PoolOpen(g) /\ ProxyKept(g, d)
      /\ Held(g, "farm", LP) > Held(d, "farm", LP)
      /\ \A w \in Accounts \ {"proxy", "pair", "farm"} : g.bal[w] = d.bal[w]
  <2>1. /\ d \in Chains /\ PoolOpen(d) /\ D \subseteq Assets \ {LP, AmpLP} /\ amounts \in [D -> Nat]
        /\ no_swap \in BOOLEAN /\ g \in compound(d, "farm", amounts, "farm", no_swap)
    BY <1>1, <1>3, <1>4
  <2> QED
    BY ONLY <2>1, CompoundIs
<1>6. PICK m : m = Held(g, "farm", LP) - Held(c, "farm", LP)
  OBVIOUS
<1>7. m \in Nat
  <2>1. Held(g, "farm", LP) \in Nat /\ Held(c, "farm", LP) \in Nat
    BY <1>2, <1>5, HeldNat
  <2>2. Amount(amounts, LP) = 0
    <3>1. LP \notin D
      OBVIOUS
    <3> QED
      BY <3>1 DEF Amount
  <2>3. Held(d, "farm", LP) = Held(c, "farm", LP)
    BY <1>2, <1>3, <2>1, <2>2
  <2> QED
    BY <1>5, <1>6, <2>1, <2>3
<1>8. SameStore(g, c) /\ SharesAreBacked(g) /\ OfThePast(g, b)
  BY <1>3, <1>5 DEF SharesAreBacked, OfThePast, SameStore
<1>9. /\ e \in Chains /\ Bonded(e, g, u)
      /\ \A a \in Assets \ {AmpLP} : Held(e, u, a) = Held(g, u, a)
      /\ \A w \in Accounts \ {u, "farm"} : e.bal[w] = g.bal[w]
  BY <1>1, <1>5, <1>6, <1>7, <1>8, BondInternalIs
<1>10. \A a \in Assets : Held(g, sender, a) = Held(c, sender, a) - Amount(amounts, a)
  <2>1. g.bal[sender] = d.bal[sender]
    BY <1>2, <1>5
  <2> QED
    BY <1>3, <2>1 DEF Held
<1>11. \A a \in Assets : u # sender => Held(g, u, a) = Held(c, u, a)
  <2> SUFFICES ASSUME u # sender, NEW a \in Assets PROVE Held(g, u, a) = Held(c, u, a)
    OBVIOUS
  <2>1. g.bal[u] = c.bal[u]
    BY <1>2, <1>3, <1>5
  <2> QED
    BY <2>1 DEF Held
<1>12. Amount(amounts, AmpLP) = 0 /\ Held(c, sender, AmpLP) \in Nat
  <2>1. AmpLP \notin D
    OBVIOUS
  <2> QED
    BY <1>2, <2>1, HeldNat DEF Amount
<1>13. Held(g, sender, AmpLP) = Held(c, sender, AmpLP)
  BY <1>2, <1>10, <1>12
<1>14. Held(g, u, AmpLP) = Held(c, u, AmpLP)
  BY <1>2, <1>11, <1>13
<1>15. Bonded(e, c, u)
  BY <1>8, <1>9, <1>14 DEF Bonded, Joined, SameStore
<1>16. \A a \in Assets : Held(e, "proxy", a) = Held(g, "proxy", a) /\ Held(e, "pair", a) = Held(g, "pair", a)
  <2>1. e.bal["proxy"] = g.bal["proxy"] /\ e.bal["pair"] = g.bal["pair"]
    BY <1>2, <1>9
  <2> QED
    BY <2>1 DEF Held
<1>17. PoolOpen(e)
  BY <1>2, <1>5, <1>16 DEF PoolOpen
<1>18. ProxyKept(e, c)
  BY <1>2, <1>4, <1>5, <1>16 DEF ProxyKept
<1>19. \A a \in Assets : sender # u => Held(e, sender, a) = Held(g, sender, a)
  <2> SUFFICES ASSUME u # sender, NEW a \in Assets PROVE Held(e, sender, a) = Held(g, sender, a)
    OBVIOUS
  <2>1. e.bal[sender] = g.bal[sender]
    BY <1>2, <1>9
  <2> QED
    BY <2>1 DEF Held
<1>20. \A a \in Assets \ {AmpLP} : Held(e, sender, a) = Held(c, sender, a) - Amount(amounts, a)
  BY <1>9, <1>10, <1>19
<1>21. sender # u => /\ \A a \in Assets \ {AmpLP} : Held(e, u, a) = Held(c, u, a)
                     /\ Held(e, sender, AmpLP) = Held(c, sender, AmpLP)
  BY <1>2, <1>9, <1>11, <1>13, <1>19
<1>22. \A w \in Accounts \ {"farm", "proxy", "pair", sender, u} : e.bal[w] = c.bal[w]
  BY <1>3, <1>5, <1>9
<1> QED
  BY <1>9, <1>15, <1>17, <1>18, <1>20, <1>21, <1>22

\* The shares that one user has given back have been paid out.
Left(e, c, u, n, m) ==
  /\ c.total_bond_share = e.total_bond_share + n /\ c.deposit = e.deposit + m
  /\ Held(c, u, AmpLP) = Held(e, u, AmpLP) + n
  /\ m * c.total_bond_share <= n * c.deposit
  /\ e.exchange_history = c.exchange_history

Unbonded(e, c, u) == \E n, m \in Nat \ {0} : Left(e, c, u, n, m)

\* An unbond, by the holder for himself.
LEMMA UnbondIs ==
  ASSUME NEW c \in Chains, SharesAreBacked(c), NEW u \in Users, NEW n \in Nat, NEW e \in unbond(c, u, n, u)
  PROVE  /\ e \in Chains /\ Unbonded(e, c, u) /\ SharesAreBacked(e)
         /\ \A w \in Accounts \ {u} : e.bal[w] = c.bal[w]
<1> DEFINE m == calc_bond_amount(c, n)
<1>1. PICK k : k = m
  OBVIOUS
<1>2. /\ k # 0 /\ ~ n > c.total_bond_share
      /\ \E d \in Take(c, u, AmpLP, n) :
           e \in Give([d EXCEPT !.total_bond_share = @ - n, !.deposit = @ - k], u, LP, k)
  <2> DEFINE rest == Then(Take(c, u, AmpLP, n),
             LAMBDA d : Give([d EXCEPT !.total_bond_share = @ - n, !.deposit = @ - m], u, LP, m))
  <2>1. unbond(c, u, n, u) = IF m = 0 \/ n > c.total_bond_share THEN {} ELSE rest
    BY DEF unbond
  <2> HIDE DEF m, rest
  <2>2. k # 0 /\ ~ n > c.total_bond_share /\ e \in rest
    BY <1>1, <2>1
  <2>3. rest = Then(Take(c, u, AmpLP, n),
             LAMBDA d : Give([d EXCEPT !.total_bond_share = @ - n, !.deposit = @ - k], u, LP, k))
    BY <1>1 DEF rest
  <2> QED
    BY <2>2, <2>3 DEF Then
<1>3. PICK d \in Take(c, u, AmpLP, n) :
        e \in Give([d EXCEPT !.total_bond_share = @ - n, !.deposit = @ - k], u, LP, k)
  BY <1>2
<1>4. u \in Accounts /\ LP \in Assets /\ AmpLP \in Assets /\ LP # AmpLP
  BY AccountsAre, AssetsAre
<1>5. n > 0 /\ OneHeld(d, c, u, AmpLP, Held(c, u, AmpLP) - n)
  <2>1. c \in Chains /\ u \in Accounts /\ AmpLP \in Assets /\ n \in Int /\ d \in Take(c, u, AmpLP, n)
    BY <1>3, <1>4
  <2> QED
    BY ONLY <2>1, TakeIs
<1>6. d \in Chains /\ SameStore(d, c)
  BY <1>5 DEF OneHeld
<1>7. c.total_bond_share \in Nat \ {0} /\ c.deposit \in Nat /\ n <= c.total_bond_share
      /\ c.total_bond_share <= c.deposit
  BY <1>2, <1>5 DEF Chains, SharesAreBacked
<1>8. k \in Nat /\ k > 0 /\ k * c.total_bond_share <= c.deposit * n
  <2>1. k = (c.deposit * n) \div c.total_bond_share
    BY <1>1, <1>7 DEF calc_bond_amount
  <2>2. c.deposit * n \in Nat
    BY <1>7, Products
  <2>3. k \in Nat /\ k * c.total_bond_share <= c.deposit * n
    BY <1>7, <2>1, <2>2, Quotient
  <2> QED
    BY <1>2, <2>3
<1>9. k <= c.deposit
  <2>1. n * c.deposit <= c.total_bond_share * c.deposit
    BY <1>7, TimesMono
  <2>2. n * c.deposit = c.deposit * n /\ c.total_bond_share * c.deposit = c.deposit * c.total_bond_share
    BY <1>7
  <2>3. k * c.total_bond_share \in Nat /\ c.deposit * n \in Nat /\ c.deposit * c.total_bond_share \in Nat
    BY <1>7, <1>8, Products
  <2>4. k * c.total_bond_share <= c.deposit * c.total_bond_share
    BY <1>8, <2>1, <2>2, <2>3
  <2> QED
    BY <1>7, <1>8, <2>4, TimesMono
<1>10. PICK t, r : t = c.total_bond_share - n /\ r = c.deposit - k
  OBVIOUS
<1>11. t \in Nat /\ r \in Nat /\ c.total_bond_share = t + n /\ c.deposit = r + k
  BY <1>7, <1>8, <1>9, <1>10
<1>12. t <= r
  <2>1. PICK x, y : x = c.total_bond_share /\ y = c.deposit
    OBVIOUS
  <2>2. x \in Nat \ {0} /\ y \in Nat /\ x <= y /\ x = t + n /\ y = r + k /\ k * x <= y * n
    BY <1>7, <1>8, <1>11, <2>1
  <2>3. y * x = r * x + k * x /\ y * x = y * t + y * n
    BY <1>8, <1>11, <2>2
  <2>4. r * x \in Nat /\ k * x \in Nat /\ y * t \in Nat /\ y * n \in Nat /\ t * x \in Nat
    BY <1>8, <1>11, <2>2, Products
  <2>5. y * t <= r * x
    BY <2>2, <2>3, <2>4
  <2>6. x * t <= y * t /\ x * t = t * x
    BY <1>11, <2>2, TimesMono
  <2>7. t * x <= r * x
    BY <2>4, <2>5, <2>6
  <2> QED
    BY <1>11, <2>2, <2>7, TimesMono
<1>13. PICK g : g = [d EXCEPT !.total_bond_share = @ - n, !.deposit = @ - k]
  OBVIOUS
<1>14. /\ g \in Chains /\ g.bal = d.bal /\ g.total_bond_share = t /\ g.deposit = r
       /\ g.exchange_history = d.exchange_history
  <2> DEFINE g1 == [d EXCEPT !.total_bond_share = t]
  <2>1. /\ g1 \in Chains /\ g1.bal = d.bal /\ g1.total_bond_share = t
        /\ g1.exchange_history = d.exchange_history /\ g1.deposit = d.deposit
    BY <1>6, <1>11 DEF Chains
  <2>2. g = [g1 EXCEPT !.deposit = r]
    BY <1>6, <1>10, <1>13 DEF SameStore
  <2> HIDE DEF g1
  <2> QED
    BY <1>11, <2>1, <2>2 DEF Chains
<1>15. OneHeld(e, g, u, LP, Held(g, u, LP) + k)
  <2>1. g \in Chains /\ u \in Accounts /\ LP \in Assets /\ k \in Nat /\ e \in Give(g, u, LP, k)
    BY <1>3, <1>4, <1>8, <1>13, <1>14
  <2> QED
    BY ONLY <2>1, GiveIs
<1>16. e \in Chains /\ e.total_bond_share = t /\ e.deposit = r /\ e.exchange_history = c.exchange_history
  BY <1>6, <1>14, <1>15 DEF OneHeld, SameStore
<1>17. \A w \in Accounts \ {u} : e.bal[w] = c.bal[w]
  BY <1>5, <1>14, <1>15 DEF OneHeld
<1>18. Held(c, u, AmpLP) = Held(e, u, AmpLP) + n
  <2>1. Held(e, u, AmpLP) = Held(d, u, AmpLP)
    BY <1>4, <1>14, <1>15 DEF OneHeld, Held
  <2>2. Held(d, u, AmpLP) = Held(c, u, AmpLP) - n /\ Held(c, u, AmpLP) \in Nat
    BY <1>4, <1>5, HeldNat DEF OneHeld
  <2> QED
    BY <2>1, <2>2
<1>19. k * c.total_bond_share <= n * c.deposit
  BY <1>7, <1>8
<1>20. Left(e, c, u, n, k)
  BY <1>11, <1>16, <1>18, <1>19 DEF Left
<1>21. Unbonded(e, c, u)
  BY <1>5, <1>8, <1>20 DEF Unbonded
<1> QED
  BY <1>12, <1>16, <1>17, <1>21 DEF SharesAreBacked

\* Compounding has added to the deposit, at a new exchange rate.
LEMMA StakeIs ==
  ASSUME NEW c \in Chains, SharesAreBacked(c), now \in Nat, OfThePast(c, now),
         NEW before \in Nat, before < Held(c, "farm", LP), NEW e \in stake(c, before)
  PROVE  /\ e \in Chains /\ e.deposit > c.deposit /\ e.total_bond_share = c.total_bond_share
         /\ OfThePast(e, now)
         /\ \A w \in Accounts \ {"farm"} : e.bal[w] = c.bal[w]
<1>1. PICK m : m = Held(c, "farm", LP) - before
  OBVIOUS
<1>2. m \in Nat /\ m > 0
  BY <1>1, AccountsAre, AssetsAre, HeldNat
<1>3. PICK rate : rate = calc_exchange_rate(c, c.deposit + m)
  OBVIOUS
<1>4. PICK d \in Take(c, "farm", LP, m) :
        e = [d EXCEPT !.deposit = @ + m, !.exchange_history =
                                        [t \in DOMAIN @ \cup {now} |-> IF t = now THEN rate ELSE @[t]]]
  BY <1>1, <1>3 DEF stake, Then
<1>5. OneHeld(d, c, "farm", LP, Held(c, "farm", LP) - m)
  <2>1. c \in Chains /\ "farm" \in Accounts /\ LP \in Assets /\ m \in Int /\ d \in Take(c, "farm", LP, m)
    BY <1>2, <1>4, AccountsAre, AssetsAre
  <2> QED
    BY ONLY <2>1, TakeIs
<1>6. rate \in Rates
  <2>1. /\ c.deposit \in Nat /\ c.total_bond_share \in Nat /\ c.total_bond_share <= c.deposit
        /\ DecimalOne \in Nat \ {0}
    BY FarmAssumption DEF Chains, SharesAreBacked
  <2>2. CASE c.total_bond_share = 0
    BY <1>3, <2>1, <2>2 DEF calc_exchange_rate, Rates
  <2>3. CASE c.total_bond_share # 0
    <3>1. PICK x, y, q : x = c.total_bond_share /\ y = c.deposit + m /\ q = y * DecimalOne
      OBVIOUS
    <3>2. x \in Nat \ {0} /\ y \in Nat /\ x <= y /\ q \in Nat
      BY <1>2, <2>1, <2>3, <3>1, Products
    <3>3. rate = q \div x
      BY <1>3, <2>3, <3>1 DEF calc_exchange_rate
    <3>4. rate \in Nat /\ q < rate * x + x
      BY <3>2, <3>3, Quotient
    <3>5. x * DecimalOne <= q
      BY <2>1, <3>1, <3>2, TimesMono
    <3>6. rate >= DecimalOne
      <4>1. (rate + 1) * x = rate * x + x /\ x * DecimalOne = DecimalOne * x
        BY <2>1, <3>2, <3>4
      <4>2. rate * x \in Nat /\ DecimalOne * x \in Nat /\ rate + 1 \in Nat
        BY <2>1, <3>2, <3>4, Products
      <4>3. ASSUME ~ rate >= DecimalOne PROVE FALSE
        <5>1. rate + 1 <= DecimalOne
          BY <2>1, <3>4, <4>3
        <5>2. (rate + 1) * x <= DecimalOne * x
          BY <2>1, <3>2, <4>2, <5>1, TimesMono
        <5> QED
          BY <3>2, <3>4, <3>5, <4>1, <4>2, <5>2
      <4> QED
        BY <4>3
    <3> QED
      BY <3>4, <3>6 DEF Rates
  <2> QED
    BY <2>2, <2>3
<1>7. PICK h : h = [t \in DOMAIN d.exchange_history \cup {now} |-> IF t = now THEN rate ELSE d.exchange_history[t]]
  OBVIOUS
<1>8. d \in Chains /\ SameStore(d, c) /\ \A w \in Accounts \ {"farm"} : d.bal[w] = c.bal[w]
  BY <1>5 DEF OneHeld
<1>9. h \in Histories /\ DOMAIN h \subseteq 0..now
  <2>1. d.exchange_history \in Histories
    BY <1>8 DEF Chains
  <2>2. PICK T \in SUBSET Nat : d.exchange_history \in [T -> Rates]
    BY <2>1 DEF Histories
  <2>3. T \subseteq 0..now
    BY <1>8, <2>2 DEF SameStore, OfThePast
  <2>4. h \in [T \cup {now} -> Rates]
    BY <1>6, <1>7, <2>2
  <2>5. T \cup {now} \in SUBSET Nat
    OBVIOUS
  <2>6. T \cup {now} \subseteq 0..now
    BY <2>3
  <2> QED
    BY <2>4, <2>5, <2>6 DEF Histories
<1>10. /\ e \in Chains /\ e.bal = d.bal /\ e.deposit = c.deposit + m
       /\ e.total_bond_share = c.total_bond_share
       /\ e.exchange_history = h
  <2> DEFINE e1 == [d EXCEPT !.deposit = @ + m]
  <2>1. e1 \in Chains /\ e1.bal = d.bal /\ e1.deposit = c.deposit + m
        /\ e1.total_bond_share = c.total_bond_share
    BY <1>2, <1>8 DEF Chains, SameStore
  <2>2. e = [e1 EXCEPT !.exchange_history = h]
    BY <1>4, <1>7
  <2> HIDE DEF e1
  <2> QED
    BY <1>9, <2>1, <2>2 DEF Chains
<1>11. c.deposit \in Nat
  BY DEF Chains
<1> QED
  BY <1>2, <1>8, <1>9, <1>10, <1>11 DEF OfThePast

\* A compounding only adds to the deposit.
LEMMA FarmCompoundIs ==
  ASSUME NEW c \in Chains, PoolOpen(c), SharesAreBacked(c), now \in Nat, OfThePast(c, now),
         farm \in FarmConfigs, NEW e \in farm_compound(c)
  PROVE  /\ e \in Chains /\ PoolOpen(e) /\ ProxyKept(e, c) /\ OfThePast(e, now)
         /\ e.deposit >= c.deposit /\ e.total_bond_share = c.total_bond_share
         /\ \A w \in Accounts \ {"farm", "proxy", "pair"} : e.bal[w] = c.bal[w]
<1> DEFINE commission(a) == (c.pending[a] * farm.fee) \div DecimalOne
           claimed == [c EXCEPT !.bal["farm"] = [a \in Assets |-> IF a \in DOMAIN c.pending
                                  THEN @[a] + c.pending[a] ELSE @[a]],
                                !.pending = [a \in DOMAIN @ |-> 0]]
           earning == {a \in DOMAIN c.pending : c.pending[a] > 0 /\ c.deposit > 0}
           rest == {a \in earning : commission(a) < c.pending[a]}
           taken == {x \in earning : commission(x) > 0}
           fees == [a \in taken |-> commission(a)]
           amounts == [a \in rest |-> c.pending[a] - commission(a)]
           paid == TakeAll(claimed, "farm", fees)
           compounded(x) == compound(x, "farm", amounts, "farm", FALSE)
           staked(x) == Then(compounded(x), LAMBDA y : stake(y, Held(c, "farm", LP)))
<1>1. \/ e \in paid
      \/ \E d \in paid : e \in staked(d)
  <2> DEFINE bad == Luna \in rest /\ commission(Luna) > 0
             all == UNION {staked(d) : d \in paid}
  <2>1. farm_compound(c) = IF bad THEN {} ELSE IF rest = {} THEN paid ELSE all
    BY DEF farm_compound, Then
  <2> HIDE DEF bad, rest, paid, staked, all
  <2>2. e \in paid \/ e \in all
    BY <2>1
  <2> QED
    BY <2>2 DEF all
<1>2. PICK g : g = claimed
  OBVIOUS
<1>3. c.pending \in [{Astro, Luna} -> Nat] /\ c.deposit \in Nat
  BY DEF Chains
<1>4. \A a \in {Astro, Luna} : c.pending[a] \in Nat /\ commission(a) \in Nat
  <2> SUFFICES ASSUME NEW a \in {Astro, Luna} PROVE c.pending[a] \in Nat /\ commission(a) \in Nat
    OBVIOUS
  <2>1. c.pending[a] \in Nat
    BY <1>3
  <2>2. farm.fee \in Nat /\ DecimalOne \in Nat \ {0}
    BY FarmAssumption
  <2> QED
    BY <2>1, <2>2, Products, Quotient
<1>5. /\ earning \subseteq {Astro, Luna} /\ rest \subseteq {Astro, Luna} /\ taken \subseteq {Astro, Luna}
  BY <1>3
<1>6. fees \in [taken -> Nat] /\ amounts \in [rest -> Nat]
  <2>1. \A a \in taken : commission(a) \in Nat
    BY <1>4, <1>5
  <2>2. \A a \in rest : c.pending[a] - commission(a) \in Nat
    <3> SUFFICES ASSUME NEW a \in rest PROVE c.pending[a] - commission(a) \in Nat
      OBVIOUS
    <3>1. commission(a) < c.pending[a] /\ commission(a) \in Nat /\ c.pending[a] \in Nat
      BY <1>4, <1>5
    <3> HIDE DEF commission
    <3> QED
      BY <3>1
  <2> HIDE DEF commission, taken, rest
  <2> QED
    BY <2>1, <2>2
<1>7. /\ "proxy" \in Accounts \ {"farm"} /\ "pair" \in Accounts \ {"farm"} /\ "farm" \in Accounts
      /\ LP \in Assets /\ LP \notin {Astro, Luna} /\ AmpLP \notin {Astro, Luna}
      /\ {Astro, Luna} \subseteq Assets
      /\ PairAssets \cup {Astro} \subseteq Assets
  BY AccountsAre, AssetsAre
<1>8. /\ g \in Chains /\ g.deposit = c.deposit /\ g.total_bond_share = c.total_bond_share
      /\ g.exchange_history = c.exchange_history
      /\ Held(g, "farm", LP) = Held(c, "farm", LP)
      /\ \A w \in Accounts \ {"farm"} : g.bal[w] = c.bal[w]
  <2> DEFINE row == [a \in Assets |-> IF a \in DOMAIN c.pending
                                  THEN c.bal["farm"][a] + c.pending[a] ELSE c.bal["farm"][a]]
             zero == [a \in DOMAIN c.pending |-> 0]
             g1 == [c EXCEPT !.bal["farm"] = row]
  <2>1. row \in Rows /\ row[LP] = Held(c, "farm", LP)
    <3>1. \A a \in Assets : c.bal["farm"][a] \in Nat
      BY <1>7, HeldNat DEF Held
    <3>2. \A a \in Assets : row[a] \in Nat
      BY <1>3, <3>1
    <3>3. row \in [Assets -> Nat]
      BY <3>2
    <3> QED
      BY <1>3, <1>7, <3>3 DEF Rows, Held
  <2>2. zero \in [{Astro, Luna} -> Nat]
    BY <1>3
  <2>3. g = [g1 EXCEPT !.pending = zero]
    BY <1>2
  <2> HIDE DEF row, zero
  <2>4. RowSet(g1, c, "farm", row)
    BY <1>7, <2>1, RowIsSet
  <2> HIDE DEF g1
  <2>5. g \in Chains /\ g.bal = g1.bal /\ g.deposit = g1.deposit /\ g.total_bond_share = g1.total_bond_share
        /\ g.exchange_history = g1.exchange_history
    BY <2>2, <2>3, <2>4 DEF RowSet, Chains
  <2> QED
    BY <1>7, <2>1, <2>4, <2>5 DEF RowSet, SameStore, Held
<1> HIDE DEF claimed, earning, rest, taken, fees, amounts, commission
<1>9. ASSUME NEW d \in paid
      PROVE  /\ d \in Chains /\ d.deposit = c.deposit /\ d.total_bond_share = c.total_bond_share
             /\ d.exchange_history = c.exchange_history
             /\ Held(d, "farm", LP) = Held(c, "farm", LP)
             /\ \A w \in Accounts \ {"farm"} : d.bal[w] = c.bal[w]
  <2>1. /\ g \in Chains /\ "farm" \in Accounts /\ taken \subseteq Assets /\ fees \in [taken -> Nat]
        /\ d \in TakeAll(g, "farm", fees)
    BY <1>2, <1>5, <1>6, <1>7, <1>8
  <2>2. /\ d \in Chains /\ SameStore(d, g)
        /\ \A a \in Assets : Held(d, "farm", a) = Held(g, "farm", a) - Amount(fees, a)
        /\ \A w \in Accounts \ {"farm"} : d.bal[w] = g.bal[w]
    BY ONLY <2>1, TakeAllIs
  <2>3. Amount(fees, LP) = 0
    BY <1>5, <1>6, <1>7 DEF Amount
  <2>4. Held(c, "farm", LP) \in Nat
    BY <1>7, HeldNat
  <2> QED
    BY <1>7, <1>8, <2>2, <2>3, <2>4 DEF SameStore
<1>10. ASSUME NEW d \in paid
       PROVE  PoolOpen(d) /\ \A a \in Assets : Held(d, "proxy", a) = Held(c, "proxy", a)
  <2>1. d.bal["pair"] = c.bal["pair"] /\ d.bal["proxy"] = c.bal["proxy"]
    BY <1>7, <1>9
  <2> QED
    BY <2>1 DEF PoolOpen, Held
<1> HIDE DEF paid
<1>11. CASE e \in paid
  <2>1. ProxyKept(e, c)
    BY <1>7, <1>10, <1>11 DEF ProxyKept
  <2>2. OfThePast(e, now) /\ e.deposit >= c.deposit
    BY <1>3, <1>9, <1>11 DEF OfThePast
  <2> QED
    BY <1>9, <1>10, <1>11, <2>1, <2>2
<1>12. ASSUME NEW d \in paid, e \in staked(d)
       PROVE  /\ e \in Chains /\ PoolOpen(e) /\ ProxyKept(e, c) /\ OfThePast(e, now)
              /\ e.deposit >= c.deposit /\ e.total_bond_share = c.total_bond_share
              /\ \A w \in Accounts \ {"farm", "proxy", "pair"} : e.bal[w] = c.bal[w]
  <2>1. PICK f \in compound(d, "farm", amounts, "farm", FALSE) : e \in stake(f, Held(c, "farm", LP))
    BY <1>12 DEF Then
  <2>2. /\ f \in Chains /\ SameStore(f, d) /\ PoolOpen(f) /\ ProxyKept(f, d)
        /\ Held(f, "farm", LP) > Held(d, "farm", LP)
        /\ \A w \in Accounts \ {"proxy", "pair", "farm"} : f.bal[w] = d.bal[w]
    <3>1. PICK no_swap : no_swap \in BOOLEAN /\ no_swap = FALSE
      OBVIOUS
    <3>2. f \in compound(d, "farm", amounts, "farm", no_swap)
      BY <2>1, <3>1
    <3>3. /\ d \in Chains /\ PoolOpen(d) /\ rest \subseteq Assets \ {LP, AmpLP} /\ amounts \in [rest -> Nat]
          /\ no_swap \in BOOLEAN /\ f \in compound(d, "farm", amounts, "farm", no_swap)
      BY <1>5, <1>6, <1>7, <1>9, <1>10, <3>1, <3>2
    <3> QED
      BY ONLY <3>3, CompoundIs
  <2>3. PICK before : before = Held(c, "farm", LP)
    OBVIOUS
  <2>4. SharesAreBacked(f) /\ OfThePast(f, now) /\ before \in Nat /\ before < Held(f, "farm", LP)
    <3>1. before \in Nat /\ Held(f, "farm", LP) \in Nat
      BY <1>7, <2>2, <2>3, HeldNat
    <3> QED
      BY <1>9, <2>2, <2>3, <3>1 DEF SharesAreBacked, OfThePast, SameStore
  <2>5. /\ e \in Chains /\ e.deposit > f.deposit /\ e.total_bond_share = f.total_bond_share
        /\ OfThePast(e, now)
        /\ \A w \in Accounts \ {"farm"} : e.bal[w] = f.bal[w]
    <3>1. e \in stake(f, before)
      BY <2>1, <2>3
    <3> QED
      BY <2>2, <2>4, <3>1, StakeIs
  <2>6. e.deposit >= c.deposit /\ e.total_bond_share = c.total_bond_share
    <3>1. f.deposit = c.deposit /\ f.total_bond_share = c.total_bond_share
      BY <1>9, <2>2 DEF SameStore
    <3>2. e.deposit \in Nat
      BY <2>5 DEF Chains
    <3> QED
      BY <1>3, <2>5, <3>1, <3>2
  <2>7. /\ \A a \in Assets : Held(e, "pair", a) = Held(f, "pair", a)
             /\ Held(e, "proxy", a) = Held(f, "proxy", a)
    <3>1. e.bal["pair"] = f.bal["pair"] /\ e.bal["proxy"] = f.bal["proxy"]
      BY <1>7, <2>5
    <3> QED
      BY <3>1 DEF Held
  <2>8. PoolOpen(e) /\ ProxyKept(e, c)
    BY <1>7, <1>10, <2>2, <2>7 DEF PoolOpen, ProxyKept
  <2>9. \A w \in Accounts \ {"farm", "proxy", "pair"} : e.bal[w] = c.bal[w]
    BY <1>9, <2>2, <2>5
  <2> QED
    BY <2>5, <2>6, <2>8, <2>9
<1> QED
  BY <1>1, <1>11, <1>12

-----------------------------------------------------------------------------
(* The callbacks of ampz.                                                  *)

\* Of the assets, what the user had over the start has been sent to ampz, or no more than the most.
SentToAmpz(e, c, u, S, start, most) ==
  /\ e \in Chains /\ SameStore(e, c)
  /\ \A a \in Assets \ S : Held(e, u, a) = Held(c, u, a) /\ Held(e, "ampz", a) = Held(c, "ampz", a)
  /\ \A a \in S : \/ Held(e, u, a) = Held(c, u, a)
                  \/ Held(e, u, a) >= start[a] /\ (most > 0 => Held(e, u, a) >= Held(c, u, a) - most)
  /\ \A w \in Accounts \ {u, "ampz"} : e.bal[w] = c.bal[w]

\* What ampz sends itself from a user is over the start, and no more than the most.
LEMMA AuthzDepositIs ==
  ASSUME NEW c \in Chains, NEW u \in Users, NEW S, S \subseteq Assets, NEW start \in [S -> Nat],
         NEW most \in Nat, NEW e \in authz_deposit(c, u, start, most)
  PROVE  SentToAmpz(e, c, u, S, start, most)
<1> DEFINE over(a) == Held(c, u, a) - start[a]
           amounts == [a \in S |-> IF most = 0 THEN over(a) ELSE Min({over(a), most})]
           T == {a \in S : amounts[a] > 0}
           sent == Restrict(amounts, T)
<1>1. e \in deposit_assets(c, u, "ampz", sent)
  <2>1. query_balance_diff(c, u, start, most) = sent
    BY DEF query_balance_diff
  <2> HIDE DEF sent
  <2> QED
    BY <2>1 DEF authz_deposit
<1>2. u \in Accounts /\ "ampz" \in Accounts \ {u}
  BY AccountsAre
<1>3. \A a \in Assets : Held(c, u, a) \in Nat /\ Held(c, "ampz", a) \in Nat
  BY <1>2, HeldNat
<1>4. \A a \in S : /\ amounts[a] \in Int /\ amounts[a] <= Held(c, u, a) - start[a]
                   /\ most > 0 => amounts[a] <= most
  <2> SUFFICES ASSUME NEW a \in S
               PROVE  /\ amounts[a] \in Int /\ amounts[a] <= Held(c, u, a) - start[a]
                      /\ most > 0 => amounts[a] <= most
    OBVIOUS
  <2>1. amounts[a] = IF most = 0 THEN over(a) ELSE Min({over(a), most})
    OBVIOUS
  <2>2. over(a) \in Int /\ over(a) = Held(c, u, a) - start[a]
    BY <1>3
  <2> HIDE DEF over, amounts
  <2>3. Min({over(a), most}) = IF over(a) <= most THEN over(a) ELSE most
    BY <2>2, MinOfTwo
  <2> QED
    BY <2>1, <2>2, <2>3
<1>5. T \subseteq S /\ T \subseteq Assets
  OBVIOUS
<1>6. sent \in [T -> Nat] /\ \A a \in T : sent[a] = amounts[a]
  <2>1. \A a \in T : amounts[a] \in Nat
    <3> HIDE DEF amounts
    <3> QED
      BY <1>4
  <2>2. sent = [a \in T |-> amounts[a]]
    BY DEF Restrict
  <2> HIDE DEF amounts, T, sent
  <2> QED
    BY <2>1, <2>2
<1> HIDE DEF amounts, T, sent
<1>7. /\ e \in Chains /\ SameStore(e, c)
      /\ \A a \in Assets : /\ Held(e, u, a) = Held(c, u, a) - Amount(sent, a)
                           /\ Held(e, "ampz", a) = Held(c, "ampz", a) + Amount(sent, a)
      /\ \A w \in Accounts \ {u, "ampz"} : e.bal[w] = c.bal[w]
  <2>1. PICK ampz : ampz = "ampz"
    OBVIOUS
  <2>2. /\ c \in Chains /\ u \in Accounts /\ ampz \in Accounts \ {u} /\ T \subseteq Assets
        /\ sent \in [T -> Nat] /\ e \in deposit_assets(c, u, ampz, sent)
    BY <1>1, <1>2, <1>5, <1>6, <2>1
  <2>3. /\ e \in Chains /\ SameStore(e, c)
        /\ \A a \in Assets : /\ Held(e, u, a) = Held(c, u, a) - Amount(sent, a)
                             /\ Held(e, ampz, a) = Held(c, ampz, a) + Amount(sent, a)
        /\ \A w \in Accounts \ {u, ampz} : e.bal[w] = c.bal[w]
    BY ONLY <2>2, DepositIs
  <2> QED
    BY <2>1, <2>3
<1>8. \A a : Amount(sent, a) = IF a \in T THEN sent[a] ELSE 0
  BY <1>6, AmountIs
<1>9. \A a \in Assets \ T : Held(e, u, a) = Held(c, u, a) /\ Held(e, "ampz", a) = Held(c, "ampz", a)
  BY <1>3, <1>7, <1>8
<1>10. \A a \in T : Held(e, u, a) >= start[a] /\ (most > 0 => Held(e, u, a) >= Held(c, u, a) - most)
  <2> SUFFICES ASSUME NEW a \in T
               PROVE  Held(e, u, a) >= start[a] /\ (most > 0 => Held(e, u, a) >= Held(c, u, a) - most)
    OBVIOUS
  <2>1. a \in S /\ a \in Assets /\ Amount(sent, a) = amounts[a]
    BY <1>5, <1>6, <1>8
  <2>2. Held(e, u, a) = Held(c, u, a) - amounts[a] /\ Held(c, u, a) \in Nat /\ start[a] \in Nat
    BY <1>3, <1>7, <2>1
  <2> QED
    BY <1>4, <2>1, <2>2
<1> QED
  BY <1>5, <1>7, <1>9, <1>10 DEF SentToAmpz

\* All that ampz has of the assets becomes uluna.
LEMMA SwapCallbackIs ==
  ASSUME NEW c \in Chains, PoolOpen(c), NEW S, S \subseteq Assets, NEW e \in swap_callback(c, S)
  PROVE  /\ e \in Chains /\ SameStore(e, c) /\ PoolOpen(e) /\ ProxyKept(e, c)
         /\ \A a \in Assets \ {Luna} : Held(e, "ampz", a) = IF a \in S THEN 0 ELSE Held(c, "ampz", a)
         /\ \A w \in Accounts \ {"proxy", "ampz"} : e.bal[w] = c.bal[w]
<1> DEFINE T == {a \in S \ {Luna} : Held(c, "ampz", a) > 0}
           amounts == [a \in T |-> Held(c, "ampz", a)]
<1>1. IF T = {} THEN e = c ELSE e \in multi_swap(c, "ampz", Luna, amounts, "ampz")
  <2>1. swap_callback(c, S) = IF T = {} THEN {c} ELSE multi_swap(c, "ampz", Luna, amounts, "ampz")
    BY DEF swap_callback
  <2> HIDE DEF T, amounts
  <2> QED
    BY <2>1
<1>2. T \subseteq Assets /\ Luna \notin T /\ T \subseteq S
      /\ \A a \in S \ T : a # Luna => ~ Held(c, "ampz", a) > 0
  OBVIOUS
<1>3. \A a \in Assets : Held(c, "ampz", a) \in Nat
  BY AccountsAre, HeldNat
<1>4. amounts \in [T -> Nat] /\ \A a \in T : amounts[a] = Held(c, "ampz", a)
  BY <1>3
<1> HIDE DEF T, amounts
<1>5. CASE T = {}
  <2>1. e = c
    BY <1>1, <1>5
  <2> QED
    BY <1>2, <1>3, <1>5, <2>1 DEF ProxyKept, SameStore
<1>6. CASE T # {}
  <2>1. PICK ampz : ampz = "ampz"
    OBVIOUS
  <2>2. /\ c \in Chains /\ PoolOpen(c) /\ ampz \in Accounts \ {"proxy", "pair"} /\ T \subseteq Assets
        /\ amounts \in [T -> Nat] /\ e \in multi_swap(c, ampz, Luna, amounts, ampz)
    BY <1>1, <1>2, <1>4, <1>6, <2>1, AccountsAre
  <2>3. /\ e \in Chains /\ SameStore(e, c) /\ PoolOpen(e)
        /\ \A a \in Assets \ {Luna} :
              /\ Held(e, ampz, a) = Held(c, ampz, a) - Amount(amounts, a)
              /\ Held(e, "proxy", a) = Held(c, "proxy", a)
        /\ Held(e, "proxy", Luna) = IF Luna \in T THEN 0 ELSE Held(c, "proxy", Luna)
        /\ \A w \in Accounts \ {"proxy", ampz} : e.bal[w] = c.bal[w]
    BY ONLY <2>2, MultiSwapIs
  <2>4. ProxyKept(e, c)
    BY <1>2, <2>3, AssetsAre DEF ProxyKept
  <2>5. \A a \in Assets \ {Luna} : Held(e, "ampz", a) = IF a \in S THEN 0 ELSE Held(c, "ampz", a)
    <3> SUFFICES ASSUME NEW a \in Assets \ {Luna}
                 PROVE  Held(e, "ampz", a) = IF a \in S THEN 0 ELSE Held(c, "ampz", a)
      OBVIOUS
    <3>1. Held(e, "ampz", a) = Held(c, "ampz", a) - Amount(amounts, a)
      BY <2>1, <2>3
    <3>2. Amount(amounts, a) = IF a \in T THEN Held(c, "ampz", a) ELSE 0
      BY <1>4, AmountIs
    <3>3. Held(c, "ampz", a) \in Nat
      BY <1>3
    <3>4. CASE a \in T
      BY <1>2, <3>1, <3>2, <3>3, <3>4
    <3>5. CASE a \notin T
      BY <1>2, <3>1, <3>2, <3>3, <3>5
    <3> QED
      BY <3>4, <3>5
  <2> QED
    BY <2>1, <2>3, <2>4, <2>5
<1> QED
  BY <1>5, <1>6

\* What is left of the balances after the fees is what ampz has of the assets.
FeesTaken(d, c, T, balances, left) ==
  /\ d \in Chains /\ SameStore(d, c)
  /\ DOMAIN left \subseteq T /\ left \in [DOMAIN left -> Nat]
  /\ \A a \in T : balances[a] > 0 => a \in DOMAIN left
  /\ \A a \in Assets : Held(d, "ampz", a) = IF a \in T THEN Amount(left, a) ELSE Held(c, "ampz", a)
  /\ \A w \in Accounts \ {"ampz"} : d.bal[w] = c.bal[w]

\* After the fees ampz has what is left to deposit.
LEMMA FeesAre ==
  ASSUME NEW c \in Chains, fee \in FeeConfigs, NEW T, T \subseteq Assets, NEW balances \in [T -> Nat],
         \A a \in T : balances[a] = Held(c, "ampz", a),
         NEW s, NEW u, NEW d \in pay_fees(c, balances, s, u), NEW left, left = left_after_fees(balances, s, u)
  PROVE  FeesTaken(d, c, T, balances, left)
<1> DEFINE pf(a) == protocol_fee(balances[a])
           of(a) == operator_fee(balances[a], s, u)
           P == {x \in T : fees_paid(balances[x], s, u) > 0}
           paid == [a \in P |-> fees_paid(balances[a], s, u)]
<1>1. BPS \in Nat \ {0} /\ fee.fee \in Nat /\ operator_bps(s, u) \in Nat
  BY AmpzAssumption DEF operator_bps
<1>2. \A a \in T : /\ pf(a) \in Nat /\ of(a) \in Nat /\ fees_paid(balances[a], s, u) = pf(a) + of(a)
                   /\ balances[a] = 0 => pf(a) = 0 /\ of(a) = 0
                   /\ fee.fee = 0 => pf(a) = 0
                   /\ operator_bps(s, u) = 0 => of(a) = 0
  <2> SUFFICES ASSUME NEW a \in T
               PROVE  /\ pf(a) \in Nat /\ of(a) \in Nat /\ fees_paid(balances[a], s, u) = pf(a) + of(a)
                      /\ balances[a] = 0 => pf(a) = 0 /\ of(a) = 0
                      /\ fee.fee = 0 => pf(a) = 0
                      /\ operator_bps(s, u) = 0 => of(a) = 0
    OBVIOUS
  <2>1. PICK n, k, o : n = balances[a] /\ k = fee.fee /\ o = operator_bps(s, u)
    OBVIOUS
  <2>2. n \in Nat /\ k \in Nat /\ o \in Nat
    BY <1>1, <2>1
  <2>3. pf(a) = (n * k) \div BPS /\ of(a) = (n * o) \div BPS
    BY <2>1 DEF protocol_fee, operator_fee
  <2>4. n * k \in Nat /\ n * o \in Nat /\ (n = 0 => n * k = 0 /\ n * o = 0)
        /\ (k = 0 => n * k = 0) /\ (o = 0 => n * o = 0)
    BY <2>2, Products
  <2>5. 0 \div BPS = 0
    BY <1>1
  <2>6. fees_paid(balances[a], s, u) = pf(a) + of(a)
    BY DEF fees_paid
  <2>7. (n * k) \div BPS \in Nat /\ (n * o) \div BPS \in Nat
    BY <1>1, <2>4, Quotient
  <2> HIDE DEF pf, of
  <2> QED
    BY <2>1, <2>3, <2>4, <2>5, <2>6, <2>7
<1>3. d \in TakeAll(c, "ampz", paid)
  BY DEF pay_fees
<1>4. left = IF operator_bps(s, u) + fee.fee = 0 THEN balances
             ELSE [a \in {x \in T : balances[x] > 0} |-> balances[a] - pf(a) - of(a)]
  BY DEF left_after_fees
<1> HIDE DEF pf, of
<1>5. /\ P \subseteq T /\ P \subseteq Assets
      /\ \A x \in T : x \in P <=> pf(x) + of(x) > 0
  BY <1>2
<1>6. paid \in [P -> Nat] /\ \A a \in P : paid[a] = pf(a) + of(a)
  <2>1. \A a \in P : fees_paid(balances[a], s, u) \in Nat /\ fees_paid(balances[a], s, u) = pf(a) + of(a)
    BY <1>2, <1>5
  <2> HIDE DEF P
  <2> QED
    BY <2>1
<1> HIDE DEF P, paid
<1>7. /\ d \in Chains /\ SameStore(d, c)
      /\ \A a \in P : paid[a] > 0 /\ paid[a] <= Held(c, "ampz", a)
      /\ \A a \in Assets : Held(d, "ampz", a) = Held(c, "ampz", a) - Amount(paid, a)
      /\ \A w \in Accounts \ {"ampz"} : d.bal[w] = c.bal[w]
  <2>1. PICK ampz : ampz = "ampz"
    OBVIOUS
  <2>2. c \in Chains /\ ampz \in Accounts /\ P \subseteq Assets /\ paid \in [P -> Nat]
        /\ d \in TakeAll(c, ampz, paid)
    BY <1>3, <1>5, <1>6, <2>1, AccountsAre
  <2>3. /\ d \in Chains /\ SameStore(d, c)
        /\ \A a \in P : paid[a] > 0 /\ paid[a] <= Held(c, ampz, a)
        /\ \A a \in Assets : Held(d, ampz, a) = Held(c, ampz, a) - Amount(paid, a)
        /\ \A w \in Accounts \ {ampz} : d.bal[w] = c.bal[w]
    BY ONLY <2>2, TakeAllIs
  <2> QED
    BY <2>1, <2>3
<1>8. \A a : Amount(paid, a) = IF a \in P THEN paid[a] ELSE 0
  BY <1>6, AmountIs
<1>9. \A a \in Assets : Held(c, "ampz", a) \in Nat
  BY AccountsAre, HeldNat
<1>10. \A a \in T : Amount(paid, a) = pf(a) + of(a) /\ pf(a) + of(a) <= balances[a]
                    /\ Held(d, "ampz", a) = balances[a] - pf(a) - of(a)
  <2> SUFFICES ASSUME NEW a \in T
               PROVE  /\ Amount(paid, a) = pf(a) + of(a) /\ pf(a) + of(a) <= balances[a]
                      /\ Held(d, "ampz", a) = balances[a] - pf(a) - of(a)
    OBVIOUS
  <2>1. pf(a) \in Nat /\ of(a) \in Nat /\ balances[a] \in Nat /\ balances[a] = Held(c, "ampz", a)
    BY <1>2
  <2>2. Amount(paid, a) = pf(a) + of(a) /\ pf(a) + of(a) <= balances[a]
    <3>1. CASE a \in P
      BY <1>6, <1>7, <1>8, <2>1, <3>1
    <3>2. CASE a \notin P
      BY <1>5, <1>8, <2>1, <3>2
    <3> QED
      BY <3>1, <3>2
  <2>3. Held(d, "ampz", a) = balances[a] - (pf(a) + of(a))
    BY <1>7, <2>1, <2>2
  <2> QED
    BY <2>1, <2>2, <2>3
<1>11. \A a \in Assets \ T : Held(d, "ampz", a) = Held(c, "ampz", a)
  BY <1>5, <1>7, <1>8, <1>9
<1>12. CASE operator_bps(s, u) + fee.fee = 0
  <2>1. left = balances
    BY <1>4, <1>12
  <2>2. operator_bps(s, u) = 0 /\ fee.fee = 0
    BY <1>1, <1>12
  <2>3. \A a \in T : pf(a) = 0 /\ of(a) = 0
    BY <1>2, <2>2
  <2>4. \A a \in T : Held(d, "ampz", a) = Amount(left, a)
    BY <1>10, <2>1, <2>3 DEF Amount
  <2> QED
    BY <1>7, <1>11, <2>1, <2>4 DEF FeesTaken
<1>13. CASE operator_bps(s, u) + fee.fee # 0
  <2> DEFINE L == {x \in T : balances[x] > 0}
  <2>1. left = [a \in L |-> balances[a] - pf(a) - of(a)]
    BY <1>4, <1>13
  <2>2. \A a \in L : balances[a] - pf(a) - of(a) \in Nat
    <3> SUFFICES ASSUME NEW a \in L PROVE balances[a] - pf(a) - of(a) \in Nat
      OBVIOUS
    <3>1. pf(a) \in Nat /\ of(a) \in Nat /\ balances[a] \in Nat /\ pf(a) + of(a) <= balances[a]
      BY <1>2, <1>10
    <3> QED
      BY <3>1
  <2>3. DOMAIN left = L /\ left \in [L -> Nat]
    BY <2>1, <2>2
  <2>4. \A a \in T : Held(d, "ampz", a) = Amount(left, a)
    <3> SUFFICES ASSUME NEW a \in T PROVE Held(d, "ampz", a) = Amount(left, a)
      OBVIOUS
    <3>1. CASE a \in L
      BY <1>10, <2>1, <3>1 DEF Amount
    <3>2. CASE a \notin L
      <4>1. balances[a] = 0
        BY <3>2
      <4>2. pf(a) = 0 /\ of(a) = 0
        BY <1>2, <4>1
      <4>3. Amount(left, a) = 0
        BY <2>3, <3>2 DEF Amount
      <4> QED
        BY <1>10, <4>1, <4>2, <4>3
    <3> QED
      BY <3>1, <3>2
  <2>5. L \subseteq T
    OBVIOUS
  <2> QED
    BY <1>7, <1>11, <2>3, <2>4, <2>5 DEF FeesTaken
<1> QED
  BY <1>12, <1>13

\* Nothing is left in ampz once it has deposited.
AmpzIsEmpty(c) == \A a \in Assets : Held(c, "ampz", a) = 0

\* What a part of a transaction in the name of u leaves of the pool, and to the others.
InTheNameOf(e, c, u) ==
  /\ \/ SameStore(e, c) /\ Held(e, u, AmpLP) = Held(c, u, AmpLP)
     \/ Bonded(e, c, u)
  /\ \A w \in Users \ {u} : e.bal[w] = c.bal[w]

\* What ampz had is deposited for the user, who gets nothing but shares.
Finished(e, c, u) ==
  /\ e \in Chains /\ PoolOpen(e) /\ ProxyKept(e, c) /\ AmpzIsEmpty(e) /\ InTheNameOf(e, c, u)
  /\ \A a \in Assets \ {AmpLP} : Held(e, u, a) = Held(c, u, a)

\* FinishExecution empties ampz, in the name of its user.
LEMMA FinishIs ==
  ASSUME NEW c \in Chains, PoolOpen(c), SharesAreBacked(c), NEW b \in Nat, OfThePast(c, b),
         farm \in FarmConfigs, fee \in FeeConfigs, NEW u \in Users,
         NEW destination \in {"amplifier", "farm"}, NEW S, S \subseteq Assets \ {LP, AmpLP},
         destination = "amplifier" => S = {Luna},
         \A a \in Assets \ S : Held(c, "ampz", a) = 0,
         NEW s, NEW e \in finish_execution(c, u, destination, S, s)
  PROVE  Finished(e, c, u)
<1> DEFINE T == IF destination = "amplifier" THEN {Luna} ELSE S
           balances == [a \in T |-> Held(c, "ampz", a)]
           left == left_after_fees(balances, s, u)
           paid == pay_fees(c, balances, s, u)
           in_farm == UNION {bond_assets(d, "ampz", left, FALSE, u) : d \in paid}
           in_hub == UNION {Take(d, "ampz", Luna, left[Luna]) : d \in paid}
<1>1. \/ e \in in_farm
      \/ destination # "farm" /\ balances[Luna] # 0 /\ e \in in_hub
  <2>1. finish_execution(c, u, destination, S, s) =
          IF destination = "farm" THEN in_farm ELSE IF balances[Luna] = 0 THEN {} ELSE in_hub
    BY DEF finish_execution, Then
  <2> HIDE DEF T, balances, in_farm, in_hub
  <2> QED
    BY <2>1
<1>2. T = S
  OBVIOUS
<1>3. /\ u \in Accounts \ {"farm", "proxy", "pair", "ampz"} /\ "ampz" \in Accounts \ {"farm", "proxy", "pair"}
      /\ "pair" \in Accounts \ {"ampz"} /\ "proxy" \in Accounts \ {"ampz"}
      /\ Luna \in Assets /\ AmpLP \in Assets /\ S \subseteq Assets /\ PairAssets \cup {Astro} \subseteq Assets
      /\ PairAssets \subseteq Assets
  BY AccountsAre, AssetsAre
<1>4. \A a \in Assets : Held(c, "ampz", a) \in Nat
  BY <1>3, HeldNat
<1>5. balances \in [S -> Nat] /\ \A a \in S : balances[a] = Held(c, "ampz", a)
  BY <1>2, <1>3, <1>4
<1> HIDE DEF T, balances
<1>6. PICK l, p, had : had = balances /\ l = left /\ p = paid
  OBVIOUS
<1>7. ASSUME NEW d \in p
      PROVE  /\ d \in Chains /\ SameStore(d, c)
             /\ DOMAIN l \subseteq S /\ l \in [DOMAIN l -> Nat]
             /\ \A a \in S : had[a] > 0 => a \in DOMAIN l
             /\ \A a \in Assets : Held(d, "ampz", a) = Amount(l, a)
             /\ \A w \in Accounts \ {"ampz"} : d.bal[w] = c.bal[w]
  <2>1. /\ c \in Chains /\ fee \in FeeConfigs /\ S \subseteq Assets /\ had \in [S -> Nat]
        /\ \A a \in S : had[a] = Held(c, "ampz", a)
        /\ d \in pay_fees(c, had, s, u) /\ l = left_after_fees(had, s, u)
    BY <1>3, <1>5, <1>6
  <2>2. FeesTaken(d, c, S, had, l)
    BY ONLY <2>1, FeesAre
  <2>3. \A a \in Assets \ S : Amount(l, a) = 0
    BY <2>2 DEF Amount, FeesTaken
  <2>4. \A a \in S : had[a] > 0 => a \in DOMAIN l
    BY <2>2 DEF FeesTaken
  <2> QED
    BY <2>2, <2>3, <2>4 DEF FeesTaken
<1>8. ASSUME NEW d \in p
      PROVE  /\ PoolOpen(d) /\ \A a \in Assets : Held(d, "proxy", a) = Held(c, "proxy", a)
             /\ \A a \in Assets : Held(d, u, a) = Held(c, u, a)
             /\ \A w \in Users : d.bal[w] = c.bal[w]
  <2>1. d.bal["pair"] = c.bal["pair"] /\ d.bal["proxy"] = c.bal["proxy"] /\ d.bal[u] = c.bal[u]
    BY <1>3, <1>7
  <2>2. \A w \in Users : d.bal[w] = c.bal[w]
    BY <1>7, AccountsAre
  <2> QED
    BY <2>1, <2>2 DEF PoolOpen, Held
<1>9. CASE e \in in_farm
  <2>1. PICK d \in p : e \in bond_assets(d, "ampz", l, FALSE, u)
    <3> HIDE DEF left, paid
    <3> QED
      BY <1>6, <1>9
  <2>2. PICK ampz, no_swap : ampz = "ampz" /\ no_swap = FALSE /\ no_swap \in BOOLEAN
    OBVIOUS
  <2>3. DOMAIN l \subseteq Assets \ {LP, AmpLP}
    BY <1>7
  <2>4. SharesAreBacked(d) /\ OfThePast(d, b)
    BY <1>7 DEF SharesAreBacked, OfThePast, SameStore
  <2>5. /\ d \in Chains /\ PoolOpen(d) /\ SharesAreBacked(d) /\ b \in Nat /\ OfThePast(d, b)
        /\ farm \in FarmConfigs
        /\ ampz \in Accounts \ {"farm", "proxy", "pair"} /\ DOMAIN l \subseteq Assets \ {LP, AmpLP}
        /\ l \in [DOMAIN l -> Nat] /\ no_swap \in BOOLEAN /\ u \in Users
        /\ e \in bond_assets(d, ampz, l, no_swap, u)
    BY <1>3, <1>7, <1>8, <2>1, <2>2, <2>3, <2>4
  <2>6. /\ e \in Chains /\ PoolOpen(e) /\ ProxyKept(e, d) /\ Bonded(e, d, u)
        /\ \A a \in Assets \ {AmpLP} : Held(e, ampz, a) = Held(d, ampz, a) - Amount(l, a)
        /\ ampz # u => /\ \A a \in Assets \ {AmpLP} : Held(e, u, a) = Held(d, u, a)
                       /\ Held(e, ampz, AmpLP) = Held(d, ampz, AmpLP)
        /\ \A w \in Accounts \ {"farm", "proxy", "pair", ampz, u} : e.bal[w] = d.bal[w]
    BY ONLY <2>5, BondAssetsIs
  <2>7. ampz # u
    BY <1>3, <2>2
  <2>8. AmpzIsEmpty(e)
    <3> SUFFICES ASSUME NEW a \in Assets PROVE Held(e, "ampz", a) = 0
      BY DEF AmpzIsEmpty
    <3>1. Held(d, "ampz", a) = Amount(l, a) /\ Amount(l, a) \in Nat
      BY <1>7 DEF Amount
    <3>2. CASE a = AmpLP
      <4>1. Amount(l, AmpLP) = 0
        BY <2>3 DEF Amount
      <4> QED
        BY <2>2, <2>6, <2>7, <3>1, <3>2, <4>1
    <3>3. CASE a # AmpLP
      BY <2>2, <2>6, <3>1, <3>3
    <3> QED
      BY <3>2, <3>3
  <2>9. ProxyKept(e, c)
    BY <1>3, <1>8, <2>6 DEF ProxyKept
  <2>10. Bonded(e, c, u)
    BY <1>3, <1>7, <1>8, <2>6 DEF Bonded, Joined, SameStore
  <2>11. \A w \in Users \ {u} : e.bal[w] = c.bal[w]
    BY <1>8, <2>2, <2>6, AccountsAre
  <2>12. \A a \in Assets \ {AmpLP} : Held(e, u, a) = Held(c, u, a)
    BY <1>8, <2>6, <2>7
  <2> QED
    BY <2>6, <2>8, <2>9, <2>10, <2>11, <2>12 DEF InTheNameOf, Finished
<1>10. CASE destination # "farm" /\ balances[Luna] # 0 /\ e \in in_hub
  <2>1. PICK d \in p : e \in Take(d, "ampz", Luna, l[Luna])
    <3> HIDE DEF left, paid
    <3> QED
      BY <1>6, <1>10
  <2>2. S = {Luna} /\ Luna \in DOMAIN l
    <3>1. S = {Luna}
      BY <1>10
    <3>2. balances[Luna] \in Nat
      BY <1>5, <3>1
    <3> QED
      BY <1>6, <1>7, <1>10, <3>1, <3>2
  <2>3. l[Luna] \in Nat /\ Held(d, "ampz", Luna) = l[Luna]
    BY <1>3, <1>7, <2>2 DEF Amount
  <2>4. OneHeld(e, d, "ampz", Luna, Held(d, "ampz", Luna) - l[Luna])
    <3>1. PICK ampz, n : ampz = "ampz" /\ n = l[Luna]
      OBVIOUS
    <3>2. d \in Chains /\ ampz \in Accounts /\ Luna \in Assets /\ n \in Int /\ e \in Take(d, ampz, Luna, n)
      BY <1>3, <1>7, <2>1, <2>3, <3>1
    <3>3. OneHeld(e, d, ampz, Luna, Held(d, ampz, Luna) - n)
      BY ONLY <3>2, TakeIs
    <3> QED
      BY <3>1, <3>3
  <2>5. AmpzIsEmpty(e)
    <3>1. Held(e, "ampz", Luna) = 0
      BY <2>3, <2>4 DEF OneHeld
    <3>2. \A a \in Assets \ {Luna} : Held(e, "ampz", a) = 0
      BY <1>7, <2>2, <2>4 DEF OneHeld, Amount
    <3> QED
      BY <3>1, <3>2 DEF AmpzIsEmpty
  <2>6. /\ e \in Chains /\ SameStore(e, c) /\ \A w \in Accounts \ {"ampz"} : e.bal[w] = d.bal[w]
    BY <1>7, <2>4 DEF OneHeld, SameStore
  <2>7. e.bal["pair"] = d.bal["pair"] /\ e.bal["proxy"] = d.bal["proxy"] /\ e.bal[u] = d.bal[u]
    BY <1>3, <2>6
  <2>8. PoolOpen(e) /\ ProxyKept(e, c) /\ \A a \in Assets : Held(e, u, a) = Held(c, u, a)
    BY <1>3, <1>8, <2>7 DEF PoolOpen, ProxyKept, Held
  <2>9. \A w \in Users \ {u} : e.bal[w] = c.bal[w]
    BY <1>8, <2>6, AccountsAre
  <2> QED
    BY <1>3, <2>5, <2>6, <2>8, <2>9 DEF InTheNameOf, Finished
<1> QED
  BY <1>1, <1>9, <1>10

\* The executions, and the rewards they claim.
Calls ==
  [user : Users, source : {"claim", "astro_rewards", "wallet"}, asset : Assets \ {LP, AmpLP},
   over : Nat, max : Nat, destination : {"amplifier", "farm"}, interval : Nat]

RewardsOK == rewards \in [Users -> [claim : [{Luna} -> Nat], astro_rewards : [AstroCoins -> Nat]]]

\* What an execution leaves the user of an asset.
OwnStay(e, c, x, a) ==
  IF x.source = "wallet" /\ a = x.asset
  THEN /\ Held(e, x.user, a) >= x.over
       /\ x.max > 0 => Held(e, x.user, a) >= Held(c, x.user, a) - x.max
  ELSE Held(e, x.user, a) >= Held(c, x.user, a)

\* The user has been paid some of the assets.
Granted(e, c, u, S) ==
  /\ e \in Chains /\ SameStore(e, c)
  /\ \A a \in Assets : Held(e, u, a) >= Held(c, u, a)
  /\ \A a \in Assets \ S : Held(e, u, a) = Held(c, u, a)
  /\ \A w \in Accounts \ {u} : e.bal[w] = c.bal[w]

\* What a claim pays.
LEMMA ClaimedIs ==
  ASSUME NEW c \in Chains, RewardsOK, NEW u \in Users, NEW source \in {"claim", "astro_rewards"},
         NEW e, e = Claimed(c, u, source), NEW S, S = IF source = "claim" THEN {Luna} ELSE AstroCoins
  PROVE  Granted(e, c, u, S)
<1> DEFINE row == [a \in Assets |-> IF a \in DOMAIN rewards[u][source]
                          THEN c.bal[u][a] + rewards[u][source][a] ELSE c.bal[u][a]]
<1>1. e = [c EXCEPT !.bal[u] = row]
  BY DEF Claimed
<1>2. /\ DOMAIN rewards[u][source] = S
      /\ \A a \in DOMAIN rewards[u][source] : rewards[u][source][a] \in Nat
  <2>1. rewards[u] \in [claim : [{Luna} -> Nat], astro_rewards : [AstroCoins -> Nat]]
    BY DEF RewardsOK
  <2>2. CASE source = "claim"
    BY <2>1, <2>2
  <2>3. CASE source = "astro_rewards"
    BY <2>1, <2>3
  <2> QED
    BY <2>2, <2>3
<1>3. u \in Accounts
  BY AccountsAre
<1>4. \A a \in Assets : c.bal[u][a] \in Nat
  BY <1>3, HeldNat DEF Held
<1>5. \A a \in Assets : row[a] \in Nat /\ row[a] >= c.bal[u][a]
  BY <1>2, <1>4
<1>6. \A a \in Assets \ DOMAIN rewards[u][source] : row[a] = c.bal[u][a]
  OBVIOUS
<1>7. row \in Rows
  BY <1>5 DEF Rows
<1> HIDE DEF row
<1>8. RowSet(e, c, u, row)
  BY <1>1, <1>3, <1>7, RowIsSet
<1> QED
  BY <1>2, <1>5, <1>6, <1>8 DEF RowSet, Held, Granted

\* What an execution in the name of its user leaves behind.
ExecutedFor(e, c, x) ==
  /\ e \in Chains /\ PoolOpen(e) /\ ProxyKept(e, c) /\ AmpzIsEmpty(e) /\ InTheNameOf(e, c, x.user)
  /\ \A a \in Assets \ {AmpLP} : OwnStay(e, c, x, a)

\* An execution empties ampz, touches no other user and takes no more than its source allows.
LEMMA ExecutedIs ==
  ASSUME NEW c \in Chains, PoolOpen(c), SharesAreBacked(c), NEW b \in Nat, OfThePast(c, b),
         farm \in FarmConfigs, fee \in FeeConfigs, AmpzIsEmpty(c), RewardsOK,
         NEW x \in Calls, x.source = "wallet" => Held(c, x.user, x.asset) > x.over,
         NEW s, NEW e \in executed(c, x, s)
  PROVE  ExecutedFor(e, c, x)
<1> DEFINE infos == CASE x.source = "claim" -> {Luna}
                      [] x.source = "astro_rewards" -> AstroCoins
                      [] x.source = "wallet" -> {x.asset}
           started == [a \in infos |-> IF x.source = "wallet" THEN x.over ELSE Held(c, x.user, a)]
           claimed == IF x.source = "wallet" THEN c ELSE Claimed(c, x.user, x.source)
           requires_swap == x.destination = "amplifier" /\ infos # {Luna}
           deposited == authz_deposit(claimed, x.user, started, x.max)
           swapped == IF requires_swap THEN UNION {swap_callback(d, infos) : d \in deposited} ELSE deposited
           kept == IF requires_swap THEN {Luna} ELSE infos
<1>1. e \in UNION {finish_execution(f, x.user, x.destination, kept, s) : f \in swapped}
  <2>1. executed(c, x, s) = UNION {finish_execution(f, x.user, x.destination, kept, s) : f \in swapped}
    BY DEF executed, Then
  <2> HIDE DEF kept, swapped
  <2> QED
    BY <2>1
<1>2. /\ x.user \in Users /\ x.source \in {"claim", "astro_rewards", "wallet"}
      /\ x.asset \in Assets \ {LP, AmpLP}
      /\ x.over \in Nat /\ x.max \in Nat /\ x.destination \in {"amplifier", "farm"}
  BY DEF Calls
<1>3. PICK u, S, K, start, g : u = x.user /\ S = infos /\ K = kept /\ start = started /\ g = claimed
  <2> HIDE DEF infos, kept, started, claimed
  <2> QED
    OBVIOUS
<1>4. /\ u \in Accounts \ {"proxy", "pair", "farm", "ampz"} /\ u \in Users
      /\ "ampz" \in Accounts /\ "proxy" \in Accounts /\ "pair" \in Accounts
      /\ Luna \in Assets \ {LP, AmpLP} /\ AmpLP \in Assets
      /\ PairAssets \cup {Astro} \subseteq Assets /\ PairAssets \subseteq Assets
  BY <1>2, <1>3, AccountsAre, AssetsAre
<1>5. S \subseteq Assets \ {LP, AmpLP} /\ (x.source = "wallet" => S = {x.asset})
      /\ (x.source = "claim" => S = {Luna}) /\ (x.source = "astro_rewards" => S = AstroCoins)
  <2>1. AstroCoins \subseteq Assets \ {LP, AmpLP}
    BY AmpzAssumption
  <2>2. CASE x.source = "claim"
    BY <1>3, <1>4, <2>2
  <2>3. CASE x.source = "astro_rewards"
    BY <1>3, <2>1, <2>3
  <2>4. CASE x.source = "wallet"
    BY <1>2, <1>3, <2>4
  <2> QED
    BY <1>2, <2>2, <2>3, <2>4
<1>6. K = IF x.destination = "amplifier" THEN {Luna} ELSE S
  BY <1>2, <1>3
<1> HIDE DEF infos, kept
<1>7. \A a \in Assets : Held(c, u, a) \in Nat
  BY <1>4, HeldNat
<1>8. start \in [S -> Nat] /\ \A a \in S : start[a] = IF x.source = "wallet" THEN x.over ELSE Held(c, u, a)
  BY <1>2, <1>3, <1>5, <1>7
<1>9. /\ g \in Chains /\ SameStore(g, c)
      /\ \A a \in Assets : Held(g, u, a) >= Held(c, u, a) /\ Held(g, u, a) \in Nat
      /\ \A a \in Assets \ S : Held(g, u, a) = Held(c, u, a)
      /\ x.source = "wallet" => g = c
      /\ \A w \in Accounts \ {u} : g.bal[w] = c.bal[w]
  <2>1. CASE x.source = "wallet"
    <3>1. g = c
      BY <1>3, <2>1
    <3> QED
      BY <1>7, <3>1 DEF SameStore
  <2>2. CASE x.source # "wallet"
    <3>1. PICK source : source = x.source /\ source \in {"claim", "astro_rewards"}
      BY <1>2, <2>2
    <3>2. g = Claimed(c, u, source)
      BY <1>3, <2>2, <3>1
    <3>3. S = IF source = "claim" THEN {Luna} ELSE AstroCoins
      BY <1>5, <3>1
    <3>4. Granted(g, c, u, S)
      BY <1>4, <3>1, <3>2, <3>3, ClaimedIs
    <3>5. \A a \in Assets : Held(g, u, a) \in Nat
      BY <1>4, <3>4, HeldNat DEF Granted
    <3> QED
      BY <2>2, <3>4, <3>5 DEF Granted
  <2> QED
    BY <2>1, <2>2
<1> HIDE DEF started, claimed
<1>10. PICK d, f : /\ d \in authz_deposit(g, u, start, x.max)
                   /\ \/ K = {Luna} /\ f \in swap_callback(d, S)
                      \/ K = S /\ f = d
                   /\ e \in finish_execution(f, u, x.destination, K, s)
  <2>1. PICK f \in swapped : e \in finish_execution(f, u, x.destination, K, s)
    <3> HIDE DEF swapped
    <3> QED
      BY <1>1, <1>3
  <2>2. deposited = authz_deposit(g, u, start, x.max)
    BY <1>3
  <2> HIDE DEF deposited
  <2>3. CASE requires_swap
    <3>1. PICK d \in deposited : f \in swap_callback(d, S)
      BY <1>3, <2>1, <2>3
    <3>2. K = {Luna}
      BY <1>6, <2>3
    <3> QED
      BY <2>1, <2>2, <3>1, <3>2
  <2>4. CASE ~ requires_swap
    <3>1. f \in deposited
      BY <2>1, <2>4
    <3>2. K = S
      BY <1>3, <2>4 DEF kept
    <3> QED
      BY <2>1, <2>2, <3>1, <3>2
  <2> QED
    BY <2>3, <2>4
<1> HIDE DEF swapped, deposited
<1>11. PICK m \in Nat : m = x.max
  BY <1>2
<1>12. /\ d \in Chains /\ SameStore(d, g)
       /\ \A a \in Assets \ S : Held(d, u, a) = Held(g, u, a) /\ Held(d, "ampz", a) = Held(g, "ampz", a)
       /\ \A a \in S : \/ Held(d, u, a) = Held(g, u, a)
                       \/ Held(d, u, a) >= start[a] /\ (m > 0 => Held(d, u, a) >= Held(g, u, a) - m)
       /\ \A w \in Accounts \ {u, "ampz"} : d.bal[w] = g.bal[w]
  <2>1. /\ g \in Chains /\ u \in Users /\ S \subseteq Assets /\ start \in [S -> Nat] /\ m \in Nat
        /\ d \in authz_deposit(g, u, start, m)
    BY <1>4, <1>5, <1>8, <1>9, <1>10, <1>11
  <2>2. SentToAmpz(d, g, u, S, start, m)
    BY ONLY <2>1, AuthzDepositIs
  <2> QED
    BY <2>2 DEF SentToAmpz
<1>13. /\ PoolOpen(d)
       /\ \A a \in Assets : Held(d, "proxy", a) = Held(c, "proxy", a) /\ Held(g, "ampz", a) = 0
  <2>1. d.bal["pair"] = c.bal["pair"] /\ d.bal["proxy"] = c.bal["proxy"] /\ g.bal["ampz"] = c.bal["ampz"]
    BY <1>4, <1>9, <1>12
  <2> QED
    BY <2>1 DEF PoolOpen, Held, AmpzIsEmpty
<1>14. /\ f \in Chains /\ SameStore(f, d) /\ PoolOpen(f) /\ ProxyKept(f, d)
       /\ \A a \in Assets \ K : Held(f, "ampz", a) = 0
       /\ \A w \in Accounts \ {"proxy", "ampz"} : f.bal[w] = d.bal[w]
  <2>1. CASE K = S /\ f = d
    BY <1>12, <1>13, <2>1 DEF SameStore, ProxyKept
  <2>2. CASE K = {Luna} /\ f \in swap_callback(d, S)
    <3>1. d \in Chains /\ PoolOpen(d) /\ S \subseteq Assets /\ f \in swap_callback(d, S)
      BY <1>5, <1>12, <1>13, <2>2
    <3>2. /\ f \in Chains /\ SameStore(f, d) /\ PoolOpen(f) /\ ProxyKept(f, d)
          /\ \A a \in Assets \ {Luna} : Held(f, "ampz", a) = IF a \in S THEN 0 ELSE Held(d, "ampz", a)
          /\ \A w \in Accounts \ {"proxy", "ampz"} : f.bal[w] = d.bal[w]
      BY ONLY <3>1, SwapCallbackIs
    <3>3. \A a \in Assets \ {Luna} : Held(f, "ampz", a) = 0
      BY <1>12, <1>13, <3>2
    <3> QED
      BY <2>2, <3>2, <3>3
  <2> QED
    BY <1>10, <2>1, <2>2
<1>15. SharesAreBacked(f) /\ OfThePast(f, b) /\ SameStore(f, c)
  BY <1>9, <1>12, <1>14 DEF SharesAreBacked, OfThePast, SameStore
<1>16. /\ e \in Chains /\ PoolOpen(e) /\ ProxyKept(e, f) /\ AmpzIsEmpty(e) /\ InTheNameOf(e, f, u)
       /\ \A a \in Assets \ {AmpLP} : Held(e, u, a) = Held(f, u, a)
  <2>1. PICK destination \in {"amplifier", "farm"} : destination = x.destination
    BY <1>2
  <2>2. K \subseteq Assets \ {LP, AmpLP} /\ (destination = "amplifier" => K = {Luna})
    BY <1>4, <1>5, <1>6, <2>1
  <2>3. e \in finish_execution(f, u, destination, K, s)
    BY <1>10, <2>1
  <2>4. /\ f \in Chains /\ PoolOpen(f) /\ SharesAreBacked(f) /\ b \in Nat /\ OfThePast(f, b)
        /\ farm \in FarmConfigs /\ fee \in FeeConfigs /\ u \in Users /\ destination \in {"amplifier", "farm"}
        /\ K \subseteq Assets \ {LP, AmpLP} /\ (destination = "amplifier" => K = {Luna})
        /\ \A a \in Assets \ K : Held(f, "ampz", a) = 0
        /\ e \in finish_execution(f, u, destination, K, s)
    BY <1>4, <1>14, <1>15, <2>2, <2>3
  <2>5. Finished(e, f, u)
    BY ONLY <2>4, FinishIs
  <2> QED
    BY <2>5 DEF Finished
<1>17. ProxyKept(e, c)
  BY <1>4, <1>13, <1>14, <1>16 DEF ProxyKept
<1>18. \A a \in Assets : Held(f, u, a) = Held(d, u, a)
  <2>1. f.bal[u] = d.bal[u]
    BY <1>4, <1>14
  <2> QED
    BY <2>1 DEF Held
<1>19. Held(f, u, AmpLP) = Held(c, u, AmpLP)
  BY <1>4, <1>5, <1>9, <1>12, <1>18
<1>20. \A w \in Users \ {u} : f.bal[w] = c.bal[w]
  BY <1>4, <1>9, <1>12, <1>14, AccountsAre
<1>21. InTheNameOf(e, c, u)
  <2>1. \A w \in Users \ {u} : e.bal[w] = c.bal[w]
    BY <1>16, <1>20 DEF InTheNameOf
  <2>2. CASE SameStore(e, f) /\ Held(e, u, AmpLP) = Held(f, u, AmpLP)
    BY <1>15, <1>19, <2>1, <2>2 DEF InTheNameOf, SameStore
  <2>3. CASE Bonded(e, f, u)
    <3>1. Bonded(e, c, u)
      BY <1>15, <1>19, <2>3 DEF Bonded, Joined, SameStore
    <3> QED
      BY <2>1, <3>1 DEF InTheNameOf
  <2> QED
    BY <1>16, <2>2, <2>3 DEF InTheNameOf
<1>22. ASSUME NEW a \in Assets \ {AmpLP} PROVE OwnStay(e, c, x, a)
  <2>1. /\ Held(e, u, a) = Held(d, u, a) /\ Held(c, u, a) \in Nat /\ Held(g, u, a) >= Held(c, u, a)
        /\ Held(g, u, a) \in Nat /\ x.over \in Nat
    BY <1>2, <1>7, <1>9, <1>16, <1>18
  <2>2. Held(d, u, a) \in Nat
    BY <1>4, <1>12, HeldNat
  <2>3. CASE a \notin S
    <3>1. Held(e, u, a) = Held(c, u, a) /\ ~ (x.source = "wallet" /\ a = x.asset)
      BY <1>5, <1>9, <1>12, <2>1, <2>3
    <3> QED
      BY <1>3, <2>1, <3>1 DEF OwnStay
  <2>4. CASE a \in S /\ x.source = "wallet"
    <3>1. a = x.asset /\ g = c /\ start[a] = x.over /\ Held(c, u, a) > x.over
      BY <1>3, <1>5, <1>8, <1>9, <2>4
    <3>2. \/ Held(e, u, a) = Held(c, u, a)
          \/ Held(e, u, a) >= x.over /\ (m > 0 => Held(e, u, a) >= Held(c, u, a) - m)
      BY <1>12, <2>1, <2>4, <3>1
    <3>3. Held(e, u, a) >= x.over /\ (m > 0 => Held(e, u, a) >= Held(c, u, a) - m)
      BY <2>1, <2>2, <3>1, <3>2
    <3> QED
      BY <1>3, <1>11, <2>4, <3>1, <3>3 DEF OwnStay
  <2>5. CASE a \in S /\ x.source # "wallet"
    <3>1. start[a] = Held(c, u, a)
      BY <1>8, <2>5
    <3>2. Held(e, u, a) >= Held(c, u, a)
      BY <1>12, <2>1, <2>2, <2>5, <3>1
    <3> QED
      BY <1>3, <2>5, <3>2 DEF OwnStay
  <2> QED
    BY <2>3, <2>4, <2>5
<1> QED
  BY <1>3, <1>16, <1>17, <1>21, <1>22 DEF ExecutedFor

-----------------------------------------------------------------------------
(* The pool.                                                               *)

ShareOf(c) == [u \in Users |-> Held(c, u, AmpLP)]

\* The shares given out are those that the users hold.
SharesAreHeld(c) == Total(ShareOf(c)) = c.total_bond_share

SharesKept(e, c, S) == \A u \in Users \ S : Held(e, u, AmpLP) = Held(c, u, AmpLP)

\* Some of the users' shares have gone to another user.
Handed(e, c, u, v) ==
  \E n \in Nat \ {0} :
    /\ Held(c, u, AmpLP) = Held(e, u, AmpLP) + n /\ Held(e, v, AmpLP) = Held(c, v, AmpLP) + n
    /\ e.deposit = c.deposit /\ e.total_bond_share = c.total_bond_share

\* What a transaction may do to the pool.
PoolStep(e, c) ==
  \/ e.deposit >= c.deposit /\ e.total_bond_share = c.total_bond_share /\ SharesKept(e, c, {})
  \/ \E u \in Users : Bonded(e, c, u) /\ SharesKept(e, c, {u})
  \/ \E u \in Users : Unbonded(e, c, u) /\ SharesAreBacked(e) /\ SharesKept(e, c, {u})
  \/ \E u \in Users : \E v \in Users \ {u} : Handed(e, c, u, v) /\ SharesKept(e, c, {u, v})

\* The shares are numbers.
LEMMA SharesAre ==
  ASSUME NEW c \in Chains
  PROVE  /\ ShareOf(c) \in [Users -> Nat] /\ \A u \in Users : ShareOf(c)[u] = Held(c, u, AmpLP)
         /\ c.deposit \in Nat /\ c.total_bond_share \in Nat
<1>1. \A u \in Users : Held(c, u, AmpLP) \in Nat
  BY AccountsAre, AssetsAre, HeldNat
<1>2. c.deposit \in Nat /\ c.total_bond_share \in Nat
  BY DEF Chains
<1> QED
  BY <1>1, <1>2 DEF ShareOf

\* Whatever happens to the pool, the shares given out are held and backed.
LEMMA PoolStepKeeps ==
  ASSUME NEW c \in Chains, NEW e \in Chains, SharesAreBacked(c), SharesAreHeld(c), PoolStep(e, c)
  PROVE  SharesAreBacked(e) /\ SharesAreHeld(e)
<1> DEFINE f == ShareOf(c)
           g == ShareOf(e)
<1>1. /\ f \in [Users -> Nat] /\ \A u \in Users : f[u] = Held(c, u, AmpLP)
      /\ g \in [Users -> Nat] /\ \A u \in Users : g[u] = Held(e, u, AmpLP)
      /\ c.deposit \in Nat /\ c.total_bond_share \in Nat /\ e.deposit \in Nat /\ e.total_bond_share \in Nat
  BY SharesAre
<1>2. Total(f) = c.total_bond_share /\ c.total_bond_share <= c.deposit
  BY DEF SharesAreHeld, SharesAreBacked
<1>3. IsFiniteSet(Users)
  BY CompoundAssumption
<1>4. SharesAreHeld(e) <=> Total(g) = e.total_bond_share
  BY DEF SharesAreHeld
<1>5. SharesAreBacked(e) <=> e.total_bond_share <= e.deposit
  BY DEF SharesAreBacked
<1> HIDE DEF f, g
<1>6. CASE e.deposit >= c.deposit /\ e.total_bond_share = c.total_bond_share /\ SharesKept(e, c, {})
  <2>1. \A u \in Users : g[u] = f[u]
    BY <1>1, <1>6 DEF SharesKept
  <2>2. g = f
    BY <1>1, <2>1
  <2> QED
    BY <1>1, <1>2, <1>4, <1>5, <1>6, <2>2
<1>7. ASSUME NEW u \in Users, Bonded(e, c, u), SharesKept(e, c, {u})
      PROVE  SharesAreBacked(e) /\ SharesAreHeld(e)
  <2>1. PICK n, m \in Nat \ {0} : Joined(e, c, u, n, m)
    BY <1>7 DEF Bonded
  <2>2. g[u] = f[u] + n /\ \A v \in Users \ {u} : g[v] = f[v]
    BY <1>1, <1>7, <2>1 DEF Joined, SharesKept
  <2>3. Total(g) + f[u] = Total(f) + g[u] /\ Total(g) \in Nat
    BY <1>1, <1>3, <2>2, SumChange, SumType
  <2>4. e.deposit = c.deposit + m /\ e.total_bond_share = c.total_bond_share + n /\ n <= m
    BY <2>1 DEF Joined
  <2>5. f[u] \in Nat /\ g[u] \in Nat
    BY <1>1
  <2> QED
    BY <1>1, <1>2, <1>4, <1>5, <2>2, <2>3, <2>4, <2>5
<1>8. ASSUME NEW u \in Users, Unbonded(e, c, u), SharesAreBacked(e), SharesKept(e, c, {u})
      PROVE  SharesAreBacked(e) /\ SharesAreHeld(e)
  <2>1. PICK n, m \in Nat \ {0} : Left(e, c, u, n, m)
    BY <1>8 DEF Unbonded
  <2>2. f[u] = g[u] + n /\ \A v \in Users \ {u} : g[v] = f[v]
    BY <1>1, <1>8, <2>1 DEF Left, SharesKept
  <2>3. Total(g) + f[u] = Total(f) + g[u] /\ Total(g) \in Nat
    BY <1>1, <1>3, <2>2, SumChange, SumType
  <2>4. c.total_bond_share = e.total_bond_share + n
    BY <2>1 DEF Left
  <2>5. f[u] \in Nat /\ g[u] \in Nat
    BY <1>1
  <2> QED
    BY <1>1, <1>2, <1>4, <1>8, <2>2, <2>3, <2>4, <2>5
<1>9. ASSUME NEW u \in Users, NEW v \in Users \ {u}, Handed(e, c, u, v), SharesKept(e, c, {u, v})
      PROVE  SharesAreBacked(e) /\ SharesAreHeld(e)
  <2>1. PICK n \in Nat \ {0} : /\ f[u] = g[u] + n /\ g[v] = f[v] + n
                               /\ e.deposit = c.deposit /\ e.total_bond_share = c.total_bond_share
    BY <1>1, <1>9 DEF Handed
  <2>2. PICK h : h = [f EXCEPT ![u] = g[u]]
    OBVIOUS
  <2>3. h \in [Users -> Nat] /\ h[u] = g[u] /\ \A w \in Users \ {u} : h[w] = f[w]
    BY <1>1, <2>2
  <2>4. Total(h) + f[u] = Total(f) + h[u] /\ Total(h) \in Nat
    BY <1>1, <1>3, <2>3, SumChange, SumType
  <2>5. \A w \in Users \ {v} : g[w] = h[w]
    BY <1>1, <1>9, <2>3 DEF SharesKept
  <2>6. Total(g) + h[v] = Total(h) + g[v] /\ Total(g) \in Nat
    BY <1>1, <1>3, <2>3, <2>5, SumChange, SumType
  <2>7. f[u] \in Nat /\ g[u] \in Nat /\ f[v] \in Nat /\ g[v] \in Nat /\ h[v] = f[v]
    BY <1>1, <2>3
  <2> QED
    BY <1>1, <1>2, <1>4, <1>5, <2>1, <2>3, <2>4, <2>6, <2>7
<1> QED
  BY <1>6, <1>7, <1>8, <1>9 DEF PoolStep

\* A step of the farm is a step of the share pool.
LEMMA PoolStepIs ==
  ASSUME chain \in Chains, chain' \in Chains, SharesAreHeld(chain), PoolStep(chain', chain)
  PROVE  [Pool!PoolNext]_(Pool!poolVars)
<1>1. PICK c, e : c = chain /\ e = chain'
  OBVIOUS
<1>2. PICK f, g : f = ShareOf(c) /\ g = ShareOf(e)
  OBVIOUS
<1>3. /\ f \in [Users -> Nat] /\ \A u \in Users : f[u] = Held(c, u, AmpLP)
      /\ g \in [Users -> Nat] /\ \A u \in Users : g[u] = Held(e, u, AmpLP)
      /\ c.deposit \in Nat /\ c.total_bond_share \in Nat /\ e.deposit \in Nat /\ e.total_bond_share \in Nat
  BY <1>1, <1>2, SharesAre
<1>4. Total(f) = c.total_bond_share /\ PoolStep(e, c)
  BY <1>1, <1>2 DEF SharesAreHeld
<1>5. /\ f = [u \in Users |-> Held(chain, u, AmpLP)] /\ g = [u \in Users |-> Held(chain, u, AmpLP)]'
      /\ c.deposit = chain.deposit /\ e.deposit = chain'.deposit
  BY <1>1, <1>2 DEF ShareOf
<1>10. Pool!total = Total(f)
  <2>1. Pool!Total(f) = Total(f)
    BY Zenon DEF Pool!Total, Pool!Units, Pool!UnitsAt, Pool!Cardinality, Total, Units, UnitsAt, Cardinality
  <2>2. Pool!total = Pool!Total(f)
    BY ONLY <1>5, Zenon DEF Pool!total
  <2> QED
    BY <2>1, <2>2
<1>6. CASE e.deposit >= c.deposit /\ e.total_bond_share = c.total_bond_share /\ SharesKept(e, c, {})
  <2>1. \A u \in Users : g[u] = f[u]
    BY <1>3, <1>6 DEF SharesKept
  <2>2. g = f
    BY <1>3, <2>1
  <2>3. CASE e.deposit = c.deposit
    BY <1>5, <2>2, <2>3 DEF Pool!poolVars
  <2>4. CASE e.deposit > c.deposit
    BY <1>5, <2>2, <2>4 DEF Pool!PoolNext, Pool!Grow
  <2> QED
    BY <1>3, <1>6, <2>3, <2>4
<1>7. ASSUME NEW u \in Users, Bonded(e, c, u), SharesKept(e, c, {u})
      PROVE  [Pool!PoolNext]_(Pool!poolVars)
  <2>1. PICK n, m \in Nat \ {0} : Joined(e, c, u, n, m)
    BY <1>7 DEF Bonded
  <2>2. g[u] = f[u] + n /\ \A v \in Users \ {u} : g[v] = f[v]
    BY <1>3, <1>7, <2>1 DEF Joined, SharesKept
  <2>3. e.deposit = c.deposit + m /\ (c.total_bond_share > 0 => n * c.deposit <= m * c.total_bond_share)
    BY <2>1 DEF Joined
  <2>4. f[u] \in Nat /\ g[u] \in Nat
    BY <1>3
  <2>5. e.deposit - c.deposit = m /\ g[u] - f[u] = n /\ g[u] > f[u] /\ e.deposit > c.deposit
    BY <1>3, <2>2, <2>3, <2>4
  <2>6. Total(f) > 0 => (g[u] - f[u]) * c.deposit <= (e.deposit - c.deposit) * Total(f)
    <3>1. Total(f) > 0 => n * c.deposit <= m * Total(f)
      BY <1>4, <2>3
    <3> QED
      BY ONLY <2>5, <3>1, Zenon
  <2>7. Pool!Deposit(u)
    BY <1>5, <1>10, <2>2, <2>5, <2>6 DEF Pool!Deposit
  <2> QED
    BY <2>7 DEF Pool!PoolNext
<1>8. ASSUME NEW u \in Users, Unbonded(e, c, u), SharesKept(e, c, {u})
      PROVE  [Pool!PoolNext]_(Pool!poolVars)
  <2>1. PICK n, m \in Nat \ {0} : Left(e, c, u, n, m)
    BY <1>8 DEF Unbonded
  <2>2. f[u] = g[u] + n /\ \A v \in Users \ {u} : g[v] = f[v]
    BY <1>3, <1>8, <2>1 DEF Left, SharesKept
  <2>3. c.deposit = e.deposit + m /\ m * c.total_bond_share <= n * c.deposit
    BY <2>1 DEF Left
  <2>4. f[u] \in Nat /\ g[u] \in Nat
    BY <1>3
  <2>5. c.deposit - e.deposit = m /\ f[u] - g[u] = n /\ g[u] < f[u] /\ e.deposit < c.deposit
    BY <1>3, <2>2, <2>3, <2>4
  <2>6. (c.deposit - e.deposit) * Total(f) <= (f[u] - g[u]) * c.deposit
    <3>1. m * Total(f) <= n * c.deposit
      BY <1>4, <2>3
    <3> QED
      BY ONLY <2>5, <3>1, Zenon
  <2>7. Pool!Withdraw(u)
    BY <1>5, <1>10, <2>2, <2>5, <2>6 DEF Pool!Withdraw
  <2> QED
    BY <2>7 DEF Pool!PoolNext
<1>9. ASSUME NEW u \in Users, NEW v \in Users \ {u}, Handed(e, c, u, v), SharesKept(e, c, {u, v})
      PROVE  [Pool!PoolNext]_(Pool!poolVars)
  <2>1. PICK n \in Nat \ {0} : /\ f[u] = g[u] + n /\ g[v] = f[v] + n /\ e.deposit = c.deposit
    BY <1>3, <1>9 DEF Handed
  <2>2. f[u] \in Nat /\ g[u] \in Nat /\ f[v] \in Nat /\ g[v] \in Nat
    BY <1>3
  <2>3. \A w \in Users \ {v, u} : g[w] = f[w]
    BY <1>3, <1>9 DEF SharesKept
  <2>4. g[u] < f[u] /\ g[u] + g[v] = f[u] + f[v]
    BY <2>1, <2>2
  <2>5. Pool!Transfer(u, v)
    BY <1>5, <2>1, <2>3, <2>4 DEF Pool!Transfer
  <2> QED
    BY <2>5 DEF Pool!PoolNext
<1> QED
  BY <1>4, <1>6, <1>7, <1>8, <1>9 DEF PoolStep

-----------------------------------------------------------------------------
(* What the transactions do to the chain.                                  *)

\* The farm's storage and the tokens are in order, and ampz has none of them.
FarmOK(c) ==
  /\ c \in Chains /\ PoolOpen(c) /\ SharesAreBacked(c) /\ AmpzIsEmpty(c)
  /\ now \in Nat /\ OfThePast(c, now) /\ farm \in FarmConfigs

ChainStep(e, c) ==
  e \in Chains /\ PoolOpen(e) /\ OfThePast(e, now) /\ PoolStep(e, c) /\ AmpzIsEmpty(e)

\* When the storage and all the shares are as before.
LEMMA StoreStep ==
  ASSUME NEW c \in Chains, NEW e \in Chains, SameStore(e, c),
         \A u \in Users : Held(e, u, AmpLP) = Held(c, u, AmpLP)
  PROVE  PoolStep(e, c) /\ (OfThePast(c, now) => OfThePast(e, now))
<1>1. e.deposit = c.deposit /\ e.deposit \in Nat /\ e.total_bond_share = c.total_bond_share
  BY DEF SameStore, Chains
<1>2. SharesKept(e, c, {})
  BY DEF SharesKept
<1>3. e.deposit >= c.deposit
  BY <1>1
<1> QED
  BY <1>1, <1>2, <1>3 DEF PoolStep, OfThePast, SameStore

\* A gift to the proxy.
LEMMA GiftStep ==
  ASSUME NEW c, FarmOK(c), NEW u \in Users, NEW a \in PairAssets, NEW n \in Nat,
         NEW e \in Move(c, u, "proxy", a, n)
  PROVE  /\ ChainStep(e, c)
         /\ \A b \in Assets : Held(e, "proxy", b) =
              IF b = a THEN Held(c, "proxy", b) + n ELSE Held(c, "proxy", b)
<1>1. c \in Chains /\ u \in Accounts /\ "proxy" \in Accounts \ {u} /\ a \in Assets \ {AmpLP} /\ n \in Int
  BY AccountsAre, AssetsAre DEF FarmOK
<1>2. /\ e \in Chains /\ SameStore(e, c)
      /\ Held(e, "proxy", a) = Held(c, "proxy", a) + n
      /\ \A b \in Assets \ {a} : Held(e, u, b) = Held(c, u, b) /\ Held(e, "proxy", b) = Held(c, "proxy", b)
      /\ \A w \in Accounts \ {u, "proxy"} : e.bal[w] = c.bal[w]
  <2>1. PICK proxy_account : proxy_account = "proxy"
    OBVIOUS
  <2>2. /\ c \in Chains /\ u \in Accounts /\ proxy_account \in Accounts \ {u} /\ a \in Assets /\ n \in Int
        /\ e \in Move(c, u, proxy_account, a, n)
    BY <1>1, <2>1
  <2>3. /\ e \in Chains /\ SameStore(e, c) /\ Held(e, proxy_account, a) = Held(c, proxy_account, a) + n
        /\ \A b \in Assets \ {a} : /\ Held(e, u, b) = Held(c, u, b)
                                   /\ Held(e, proxy_account, b) = Held(c, proxy_account, b)
        /\ \A w \in Accounts \ {u, proxy_account} : e.bal[w] = c.bal[w]
    BY ONLY <2>2, MoveIs
  <2> QED
    BY <2>1, <2>3
<1>3. PoolOpen(e) /\ AmpzIsEmpty(e) /\ \A v \in Users \ {u} : Held(e, v, AmpLP) = Held(c, v, AmpLP)
  BY <1>1, <1>2, AccountsAre, AssetsAre DEF FarmOK, Held, PoolOpen, AmpzIsEmpty
<1>4. \A v \in Users : Held(e, v, AmpLP) = Held(c, v, AmpLP)
  BY <1>1, <1>2, <1>3, AssetsAre
<1>5. PoolStep(e, c) /\ OfThePast(e, now)
  BY <1>1, <1>2, <1>4, StoreStep DEF FarmOK
<1> QED
  BY <1>2, <1>3, <1>5 DEF ChainStep

\* What a user's swap of the asset leaves.
SwapLeaves(e, c, a) ==
  /\ ChainStep(e, c)
  /\ \A b \in Assets \ {Luna} : Held(e, "proxy", b) = Held(c, "proxy", b)
  /\ Held(e, "proxy", Luna) = IF a = Luna THEN 0 ELSE Held(c, "proxy", Luna)

\* A user's multi_swap.
LEMMA SwapStep ==
  ASSUME NEW c, FarmOK(c), NEW u \in Users, NEW a \in {Luna, Astro}, NEW n \in Nat,
         NEW amounts, amounts = [x \in {a} |-> n], NEW e \in multi_swap(c, u, Luna, amounts, u)
  PROVE  SwapLeaves(e, c, a)
<1>1. c \in Chains /\ PoolOpen(c) /\ u \in Accounts \ {"proxy", "pair"}
      /\ a \in Assets \ {AmpLP} /\ {a} \subseteq Assets
  BY AccountsAre, AssetsAre DEF FarmOK
<1>3. amounts \in [{a} -> Nat] /\ Amount(amounts, AmpLP) = 0
  BY <1>1 DEF Amount
<1>4. /\ c \in Chains /\ PoolOpen(c) /\ u \in Accounts \ {"proxy", "pair"} /\ {a} \subseteq Assets
      /\ amounts \in [{a} -> Nat] /\ e \in multi_swap(c, u, Luna, amounts, u)
  BY <1>1, <1>3
<1>5. /\ e \in Chains /\ SameStore(e, c) /\ PoolOpen(e)
      /\ \A b \in Assets \ {Luna} :
           /\ Held(e, u, b) = Held(c, u, b) - Amount(amounts, b)
           /\ Held(e, "proxy", b) = Held(c, "proxy", b)
      /\ Held(e, "proxy", Luna) = IF Luna \in {a} THEN 0 ELSE Held(c, "proxy", Luna)
      /\ \A w \in Accounts \ {"proxy", u} : e.bal[w] = c.bal[w]
  BY ONLY <1>4, MultiSwapIs
<1>6. AmpzIsEmpty(e) /\ \A v \in Users \ {u} : Held(e, v, AmpLP) = Held(c, v, AmpLP)
  BY <1>1, <1>5, AccountsAre, AssetsAre DEF FarmOK, Held, PoolOpen, AmpzIsEmpty
<1>7. Held(c, u, AmpLP) \in Nat
  BY <1>1, HeldNat, AssetsAre
<1>8. Held(e, u, AmpLP) = Held(c, u, AmpLP)
  BY <1>3, <1>5, <1>7, AssetsAre
<1>9. PoolStep(e, c) /\ OfThePast(e, now)
  BY <1>1, <1>5, <1>6, <1>8, StoreStep DEF FarmOK
<1>10. Held(e, "proxy", Luna) = IF a = Luna THEN 0 ELSE Held(c, "proxy", Luna)
  BY <1>5
<1> QED
  BY <1>5, <1>6, <1>9, <1>10 DEF ChainStep, SwapLeaves

\* Every bond is a step of the pool.
LEMMA BondedStep ==
  ASSUME NEW c, FarmOK(c), NEW e \in Chains, NEW u \in Users, Bonded(e, c, u),
         \A v \in Users \ {u} : Held(e, v, AmpLP) = Held(c, v, AmpLP)
  PROVE  PoolStep(e, c) /\ OfThePast(e, now)
<1>1. PoolStep(e, c)
  BY DEF PoolStep, SharesKept
<1>2. PICK n, m \in Nat \ {0} : Joined(e, c, u, n, m)
  BY DEF Bonded
<1> QED
  BY <1>1, <1>2 DEF Joined, OfThePast, FarmOK

\* A bond of other assets.
LEMMA BondAssetsStep ==
  ASSUME NEW c, FarmOK(c), NEW u \in Users, NEW v \in Users, NEW n \in Nat, NEW no_swap \in BOOLEAN,
         NEW e \in bond_assets(c, u, [x \in {Astro} |-> n], no_swap, v)
  PROVE  ChainStep(e, c) /\ ProxyKept(e, c)
<1>1. /\ c \in Chains /\ PoolOpen(c) /\ SharesAreBacked(c) /\ now \in Nat /\ OfThePast(c, now)
      /\ farm \in FarmConfigs /\ u \in Accounts \ {"farm", "proxy", "pair"}
      /\ {Astro} \subseteq Assets \ {LP, AmpLP}
  BY AccountsAre, AssetsAre DEF FarmOK
<1>2. PICK amounts : amounts = [x \in {Astro} |-> n]
  OBVIOUS
<1>3. amounts \in [{Astro} -> Nat]
  BY <1>2
<1>4. PICK b : b = now
  OBVIOUS
<1>5. /\ c \in Chains /\ PoolOpen(c) /\ SharesAreBacked(c) /\ b \in Nat /\ OfThePast(c, b)
      /\ farm \in FarmConfigs /\ u \in Accounts \ {"farm", "proxy", "pair"}
      /\ {Astro} \subseteq Assets \ {LP, AmpLP}
      /\ amounts \in [{Astro} -> Nat] /\ no_swap \in BOOLEAN /\ v \in Users
      /\ e \in bond_assets(c, u, amounts, no_swap, v)
  BY <1>1, <1>2, <1>3, <1>4
<1>6. /\ e \in Chains /\ PoolOpen(e) /\ ProxyKept(e, c) /\ Bonded(e, c, v)
      /\ u # v => Held(e, u, AmpLP) = Held(c, u, AmpLP)
      /\ \A w \in Accounts \ {"farm", "proxy", "pair", u, v} : e.bal[w] = c.bal[w]
  BY ONLY <1>5, BondAssetsIs
<1>7. /\ AmpzIsEmpty(e)
      /\ \A x \in Users \ {"farm", "proxy", "pair", u, v} : Held(e, x, AmpLP) = Held(c, x, AmpLP)
  BY <1>1, <1>6, AccountsAre, AssetsAre DEF FarmOK, Held, PoolOpen, AmpzIsEmpty
<1>8. \A x \in Users \ {v} : Held(e, x, AmpLP) = Held(c, x, AmpLP)
  BY <1>6, <1>7, AccountsAre
<1>9. PoolStep(e, c) /\ OfThePast(e, now)
  BY <1>6, <1>8, BondedStep
<1> QED
  BY <1>6, <1>7, <1>9 DEF ChainStep

\* A bond.
LEMMA BondStep ==
  ASSUME NEW c, FarmOK(c), NEW u \in Users, NEW n \in Nat, NEW e \in bond(c, u, n, u)
  PROVE  ChainStep(e, c) /\ ProxyKept(e, c)
<1>1. PICK b : b = now
  OBVIOUS
<1>2. /\ c \in Chains /\ SharesAreBacked(c) /\ b \in Nat /\ OfThePast(c, b) /\ farm \in FarmConfigs
      /\ u \in Users /\ u \in Users /\ n \in Nat /\ e \in bond(c, u, n, u)
  BY <1>1 DEF FarmOK
<1>3. e \in Chains /\ Bonded(e, c, u) /\ \A w \in Accounts \ {u, u, "farm"} : e.bal[w] = c.bal[w]
  BY ONLY <1>2, BondIs
<1>4. /\ PoolOpen(e) /\ AmpzIsEmpty(e) /\ \A a \in Assets : Held(e, "proxy", a) = Held(c, "proxy", a)
      /\ \A x \in Users \ {u, "farm"} : Held(e, x, AmpLP) = Held(c, x, AmpLP)
  BY <1>2, <1>3, AccountsAre, AssetsAre DEF FarmOK, Held, PoolOpen, AmpzIsEmpty
<1>5. PoolStep(e, c) /\ OfThePast(e, now)
  BY <1>3, <1>4, BondedStep, AccountsAre
<1> QED
  BY <1>3, <1>4, <1>5, AssetsAre DEF ChainStep, ProxyKept

\* An unbond.
LEMMA UnbondStep ==
  ASSUME NEW c, FarmOK(c), NEW u \in Users, NEW n \in Nat, NEW e \in unbond(c, u, n, u)
  PROVE  ChainStep(e, c) /\ ProxyKept(e, c)
<1>1. c \in Chains /\ SharesAreBacked(c) /\ u \in Users /\ n \in Nat /\ e \in unbond(c, u, n, u)
  BY DEF FarmOK
<1>2. /\ e \in Chains /\ Unbonded(e, c, u) /\ SharesAreBacked(e)
      /\ \A w \in Accounts \ {u} : e.bal[w] = c.bal[w]
  BY ONLY <1>1, UnbondIs
<1>3. /\ PoolOpen(e) /\ AmpzIsEmpty(e) /\ \A a \in Assets : Held(e, "proxy", a) = Held(c, "proxy", a)
      /\ \A x \in Users \ {u} : Held(e, x, AmpLP) = Held(c, x, AmpLP)
  BY <1>1, <1>2, AccountsAre, AssetsAre DEF FarmOK, Held, PoolOpen, AmpzIsEmpty
<1>4. PoolStep(e, c)
  BY <1>2, <1>3 DEF PoolStep, SharesKept
<1>5. PICK k, m \in Nat \ {0} : Left(e, c, u, k, m)
  BY <1>2 DEF Unbonded
<1>6. OfThePast(e, now)
  BY <1>5 DEF Left, OfThePast, FarmOK
<1> QED
  BY <1>2, <1>3, <1>4, <1>6, AssetsAre DEF ChainStep, ProxyKept

\* A transfer of shares.
LEMMA TransferStep ==
  ASSUME NEW c, FarmOK(c), NEW u \in Users, NEW v \in Users, u # v, NEW n \in Nat,
         NEW e \in Move(c, u, v, AmpLP, n)
  PROVE  ChainStep(e, c) /\ ProxyKept(e, c)
<1>1. /\ c \in Chains /\ u \in Accounts /\ v \in Accounts \ {u} /\ AmpLP \in Assets /\ n \in Int
      /\ e \in Move(c, u, v, AmpLP, n)
  BY AccountsAre, AssetsAre DEF FarmOK
<1>2. /\ n > 0 /\ e \in Chains /\ SameStore(e, c)
      /\ Held(e, u, AmpLP) = Held(c, u, AmpLP) - n /\ Held(e, v, AmpLP) = Held(c, v, AmpLP) + n
      /\ \A w \in Accounts \ {u, v} : e.bal[w] = c.bal[w]
  BY ONLY <1>1, MoveIs
<1>3. /\ PoolOpen(e) /\ AmpzIsEmpty(e) /\ \A a \in Assets : Held(e, "proxy", a) = Held(c, "proxy", a)
      /\ \A x \in Users \ {u, v} : Held(e, x, AmpLP) = Held(c, x, AmpLP)
  BY <1>1, <1>2, AccountsAre, AssetsAre DEF FarmOK, Held, PoolOpen, AmpzIsEmpty
<1>4. Held(c, u, AmpLP) \in Nat
  BY <1>1, HeldNat
<1>5. n \in Nat \ {0} /\ Held(c, u, AmpLP) = Held(e, u, AmpLP) + n
  BY <1>2, <1>4
<1>6. Handed(e, c, u, v)
  BY <1>2, <1>5 DEF Handed, SameStore
<1>7. PoolStep(e, c)
  BY <1>3, <1>6 DEF PoolStep, SharesKept
<1>8. OfThePast(e, now)
  BY <1>2 DEF SameStore, OfThePast, FarmOK
<1> QED
  BY <1>2, <1>3, <1>7, <1>8, AssetsAre DEF ChainStep, ProxyKept

\* A compounding.
LEMMA CompoundStep ==
  ASSUME NEW c, FarmOK(c), NEW e \in farm_compound(c)
  PROVE  ChainStep(e, c) /\ ProxyKept(e, c)
<1>1. /\ c \in Chains /\ PoolOpen(c) /\ SharesAreBacked(c) /\ now \in Nat /\ OfThePast(c, now)
      /\ farm \in FarmConfigs /\ e \in farm_compound(c)
  BY DEF FarmOK
<1>2. /\ e \in Chains /\ PoolOpen(e) /\ ProxyKept(e, c) /\ OfThePast(e, now)
      /\ e.deposit >= c.deposit /\ e.total_bond_share = c.total_bond_share
      /\ \A w \in Accounts \ {"farm", "proxy", "pair"} : e.bal[w] = c.bal[w]
  BY ONLY <1>1, FarmCompoundIs
<1>3. AmpzIsEmpty(e) /\ \A x \in Users \ {"farm", "proxy", "pair"} : Held(e, x, AmpLP) = Held(c, x, AmpLP)
  BY <1>1, <1>2, AccountsAre, AssetsAre DEF FarmOK, Held, AmpzIsEmpty
<1>4. SharesKept(e, c, {})
  BY <1>3, AccountsAre DEF SharesKept
<1> QED
  BY <1>2, <1>3, <1>4 DEF ChainStep, PoolStep

\* A credit of the generator.
LEMMA EarnStep ==
  ASSUME NEW c, FarmOK(c), NEW a \in {Astro, Luna}, NEW n \in Nat, NEW e,
         e = [c EXCEPT !.pending[a] = @ + n]
  PROVE  ChainStep(e, c) /\ ProxyKept(e, c)
<1>1. c \in Chains /\ c.pending \in [{Astro, Luna} -> Nat]
  BY DEF FarmOK, Chains
<1>2. PICK p : p = [c.pending EXCEPT ![a] = @ + n]
  OBVIOUS
<1>3. p \in [{Astro, Luna} -> Nat]
  BY <1>1, <1>2
<1>4. e = [c EXCEPT !.pending = p]
  BY <1>2
<1>5. /\ e \in Chains /\ e.bal = c.bal /\ e.deposit = c.deposit /\ e.total_bond_share = c.total_bond_share
      /\ e.exchange_history = c.exchange_history /\ e.deposit \in Nat
  BY <1>1, <1>3, <1>4 DEF Chains
<1>6. \A w, x : Held(e, w, x) = Held(c, w, x)
  BY <1>5 DEF Held
<1>7. e.deposit >= c.deposit /\ SharesKept(e, c, {})
  BY <1>5, <1>6 DEF SharesKept
<1>8. PoolStep(e, c)
  BY <1>5, <1>7 DEF PoolStep
<1> QED
  BY <1>5, <1>6, <1>8 DEF ChainStep, ProxyKept, PoolOpen, AmpzIsEmpty, OfThePast, FarmOK

\* An execution.
LEMMA ExecuteStep ==
  ASSUME NEW c, FarmOK(c), fee \in FeeConfigs, RewardsOK, NEW x \in Calls,
         x.source = "wallet" => Held(c, x.user, x.asset) > x.over, NEW s, NEW e \in executed(c, x, s)
  PROVE  /\ ChainStep(e, c) /\ ProxyKept(e, c)
         /\ \A a \in Assets \ {AmpLP} : OwnStay(e, c, x, a)
         /\ \A u \in Users \ {x.user} : e.bal[u] = c.bal[u]
<1>1. PICK b : b = now
  OBVIOUS
<1>2. /\ c \in Chains /\ PoolOpen(c) /\ SharesAreBacked(c) /\ b \in Nat /\ OfThePast(c, b)
      /\ farm \in FarmConfigs /\ fee \in FeeConfigs /\ AmpzIsEmpty(c) /\ RewardsOK
      /\ x \in Calls /\ (x.source = "wallet" => Held(c, x.user, x.asset) > x.over)
      /\ e \in executed(c, x, s)
  BY <1>1 DEF FarmOK
<1>3. ExecutedFor(e, c, x)
  BY ONLY <1>2, ExecutedIs
<1>4. /\ e \in Chains /\ PoolOpen(e) /\ ProxyKept(e, c) /\ AmpzIsEmpty(e) /\ InTheNameOf(e, c, x.user)
      /\ \A a \in Assets \ {AmpLP} : OwnStay(e, c, x, a)
  BY <1>3 DEF ExecutedFor
<1>5. x.user \in Users
  BY DEF Calls
<1>6. /\ \A u \in Users \ {x.user} : e.bal[u] = c.bal[u]
      /\ \/ SameStore(e, c) /\ Held(e, x.user, AmpLP) = Held(c, x.user, AmpLP)
         \/ Bonded(e, c, x.user)
  BY <1>4 DEF InTheNameOf
<1>7. \A u \in Users \ {x.user} : Held(e, u, AmpLP) = Held(c, u, AmpLP)
  BY <1>6 DEF Held
<1>8. PoolStep(e, c) /\ OfThePast(e, now)
  <2>1. CASE SameStore(e, c) /\ Held(e, x.user, AmpLP) = Held(c, x.user, AmpLP)
    <3>1. \A u \in Users : Held(e, u, AmpLP) = Held(c, u, AmpLP)
      BY <1>7, <2>1
    <3> QED
      BY <1>2, <1>4, <2>1, <3>1, StoreStep DEF FarmOK
  <2>2. CASE Bonded(e, c, x.user)
    BY <1>4, <1>5, <1>7, <2>2, BondedStep
  <2> QED
    BY <1>6, <2>1, <2>2
<1> QED
  BY <1>4, <1>6, <1>8 DEF ChainStep

-----------------------------------------------------------------------------
(* The invariant, and that every transaction keeps it.                     *)

ExecutionsOK == \A i \in DOMAIN executions : executions[i] \in Calls

AmpzInv ==
  /\ FarmOK(chain) /\ SharesAreHeld(chain)
  /\ gifts \in [PairAssets -> Nat] /\ NothingIsLeftBehind
  /\ fee \in FeeConfigs /\ RewardsOK /\ ExecutionsOK

\* A transaction keeps the invariant, and is a step of the pool.
StepKept == AmpzInv' /\ PoolStep(chain', chain)

\* A transaction that moves tokens.
LEMMA ChainKeeps ==
  ASSUME AmpzInv, ChainStep(chain', chain), now' = now, farm' = farm, gifts' \in [PairAssets -> Nat],
         \A a \in PairAssets : Held(chain', "proxy", a) = gifts'[a], Held(chain', "proxy", Astro) = 0,
         fee' \in FeeConfigs, RewardsOK', ExecutionsOK'
  PROVE  StepKept
<1>1. PICK c, e : c = chain /\ e = chain'
  OBVIOUS
<1>2. c \in Chains /\ e \in Chains /\ SharesAreBacked(c) /\ SharesAreHeld(c) /\ PoolStep(e, c)
  BY <1>1 DEF AmpzInv, FarmOK, ChainStep
<1>3. SharesAreBacked(e) /\ SharesAreHeld(e)
  BY ONLY <1>2, PoolStepKeeps
<1>4. SharesAreBacked(chain') /\ SharesAreHeld(chain')
  BY <1>1, <1>3
<1>5. /\ chain' \in Chains /\ PoolOpen(chain') /\ AmpzIsEmpty(chain')
      /\ now' \in Nat /\ OfThePast(chain', now') /\ farm' \in FarmConfigs
  BY DEF AmpzInv, FarmOK, ChainStep
<1>6. FarmOK(chain)'
  BY <1>4, <1>5 DEF FarmOK
<1>7. SharesAreHeld(chain)'
  BY <1>4
<1>8. NothingIsLeftBehind'
  BY <1>5 DEF NothingIsLeftBehind, AmpzIsEmpty
<1>9. PoolStep(chain', chain)
  BY DEF ChainStep
<1> QED
  BY <1>6, <1>7, <1>8, <1>9 DEF StepKept, AmpzInv

\* Most transactions leave what was given to the proxy.
LEMMA GiftsKeep ==
  ASSUME AmpzInv, ChainStep(chain', chain), ProxyKept(chain', chain),
         UNCHANGED <<now, farm, gifts, fee, executions>>, RewardsOK'
  PROVE  StepKept
<1>1. \A a \in PairAssets : Held(chain', "proxy", a) = gifts'[a]
  BY DEF AmpzInv, NothingIsLeftBehind, ProxyKept
<1>2. Held(chain', "proxy", Astro) = 0
  BY DEF AmpzInv, NothingIsLeftBehind, ProxyKept
<1>3. gifts' \in [PairAssets -> Nat] /\ fee' \in FeeConfigs /\ ExecutionsOK'
  BY DEF AmpzInv, ExecutionsOK
<1> QED
  BY <1>1, <1>2, <1>3, ChainKeeps

\* No token moves.
LEMMA StillKeeps ==
  ASSUME AmpzInv, UNCHANGED <<chain, gifts>>, now' \in Nat, now' >= now, farm' \in FarmConfigs,
         fee' \in FeeConfigs, RewardsOK', ExecutionsOK'
  PROVE  StepKept
<1>1. \A k \in Nat : 0..now \subseteq 0..now'
  BY DEF AmpzInv, FarmOK
<1>2. OfThePast(chain, now)'
  BY <1>1 DEF AmpzInv, FarmOK, OfThePast
<1>3. FarmOK(chain)'
  BY <1>2 DEF AmpzInv, FarmOK
<1>4. SharesAreHeld(chain)' /\ NothingIsLeftBehind' /\ gifts' \in [PairAssets -> Nat]
  BY DEF AmpzInv, NothingIsLeftBehind
<1>5. PoolStep(chain, chain)
  <2>1. chain.deposit >= chain.deposit
    BY DEF AmpzInv, FarmOK, Chains
  <2> QED
    BY <2>1 DEF PoolStep, SharesKept
<1>6. PoolStep(chain', chain)
  BY <1>5
<1> QED
  BY <1>3, <1>4, <1>6 DEF StepKept, AmpzInv

\* A gift is all that adds to what the proxy was given.
LEMMA GiftKeeps ==
  ASSUME AmpzInv, NEW u \in Users, NEW a \in PairAssets, NEW n \in Gifts, Gift(u, a, n),
         UNCHANGED <<farmVars, ampzVars, rewards>>
  PROVE  StepKept
<1>1. n \in Nat /\ FarmOK(chain)
  BY CompoundAssumption DEF AmpzInv
<1>2. /\ ChainStep(chain', chain)
      /\ \A b \in Assets : Held(chain', "proxy", b) =
                             IF b = a THEN Held(chain, "proxy", b) + n ELSE Held(chain, "proxy", b)
  BY <1>1, GiftStep DEF Gift
<1>3. /\ gifts' = [gifts EXCEPT ![a] = @ + n] /\ gifts \in [PairAssets -> Nat]
      /\ \A b \in PairAssets : Held(chain, "proxy", b) = gifts[b]
      /\ Held(chain, "proxy", Astro) = 0
  BY DEF Gift, AmpzInv, NothingIsLeftBehind
<1>4. /\ gifts' \in [PairAssets -> Nat]
      /\ \A b \in PairAssets : gifts'[b] = IF b = a THEN gifts[b] + n ELSE gifts[b]
  BY <1>1, <1>3
<1>5. \A b \in PairAssets : Held(chain', "proxy", b) = gifts'[b]
  BY <1>2, <1>3, <1>4, AssetsAre
<1>6. Held(chain', "proxy", Astro) = 0
  BY <1>2, <1>3, AssetsAre
<1>7. now' = now /\ farm' = farm /\ fee' \in FeeConfigs /\ RewardsOK' /\ ExecutionsOK'
  BY DEF AmpzInv, farmVars, ampzVars, RewardsOK, ExecutionsOK
<1> QED
  BY <1>2, <1>4, <1>5, <1>6, <1>7, ChainKeeps

\* A user who swaps uluna into uluna takes what was given to the proxy.
LEMMA MultiSwapKeeps ==
  ASSUME AmpzInv, NEW u \in Users, NEW a \in {Luna, Astro}, NEW n \in Swaps, MultiSwap(u, a, n, Luna),
         UNCHANGED <<farmVars, ampzVars, rewards>>
  PROVE  StepKept
<1>1. n \in Nat /\ FarmOK(chain)
  BY CompoundAssumption DEF AmpzInv
<1>2. /\ ChainStep(chain', chain)
      /\ \A b \in Assets \ {Luna} : Held(chain', "proxy", b) = Held(chain, "proxy", b)
      /\ Held(chain', "proxy", Luna) = IF a = Luna THEN 0 ELSE Held(chain, "proxy", Luna)
  <2>1. PICK amounts : amounts = [x \in {a} |-> n]
    OBVIOUS
  <2>2. /\ FarmOK(chain) /\ u \in Users /\ a \in {Luna, Astro} /\ n \in Nat
        /\ amounts = [x \in {a} |-> n] /\ chain' \in multi_swap(chain, u, Luna, amounts, u)
    BY <1>1, <2>1 DEF MultiSwap
  <2>3. SwapLeaves(chain', chain, a)
    BY ONLY <2>2, SwapStep
  <2> QED
    BY <2>3 DEF SwapLeaves
<1>3. /\ gifts' = (IF a = Luna /\ a \in PairAssets THEN [gifts EXCEPT ![a] = 0] ELSE gifts)
      /\ gifts \in [PairAssets -> Nat] /\ Luna \in PairAssets
      /\ \A b \in PairAssets : Held(chain, "proxy", b) = gifts[b]
      /\ Held(chain, "proxy", Astro) = 0
  BY AssetsAre DEF MultiSwap, AmpzInv, NothingIsLeftBehind
<1>4. /\ gifts' \in [PairAssets -> Nat]
      /\ \A b \in PairAssets : gifts'[b] = IF b = Luna /\ a = Luna THEN 0 ELSE gifts[b]
  BY <1>3
<1>5. \A b \in PairAssets : Held(chain', "proxy", b) = gifts'[b]
  BY <1>2, <1>3, <1>4, AssetsAre
<1>6. Held(chain', "proxy", Astro) = 0
  BY <1>2, <1>3, AssetsAre
<1>7. now' = now /\ farm' = farm /\ fee' \in FeeConfigs /\ RewardsOK' /\ ExecutionsOK'
  BY DEF AmpzInv, farmVars, ampzVars, RewardsOK, ExecutionsOK
<1> QED
  BY <1>2, <1>4, <1>5, <1>6, <1>7, ChainKeeps

\* Messages to the proxy and to the farm, and what the generator and the clock do.
LEMMA ProxyOrFarmKeeps ==
  ASSUME AmpzInv, ProxyOrFarm
  PROVE  StepKept
<1>1. FarmOK(chain) /\ RewardsOK' /\ ExecutionsOK' /\ UNCHANGED <<ampzVars, rewards, fee, executions>>
  BY DEF AmpzInv, ProxyOrFarm, ampzVars, RewardsOK, ExecutionsOK
<1>2. \A n \in Bonds \cup Shares \cup Earnings : n \in Nat
  BY FarmAssumption
<1>3. fee' \in FeeConfigs /\ farm \in FarmConfigs /\ now \in Nat
  BY <1>1 DEF AmpzInv, FarmOK
<1>4. CASE \E u \in Users, a \in PairAssets, n \in Gifts : UNCHANGED farmVars /\ Gift(u, a, n)
  BY <1>1, <1>4, GiftKeeps
<1>5. CASE \E u \in Users, a \in {Luna, Astro}, n \in Swaps : UNCHANGED farmVars /\ MultiSwap(u, a, n, Luna)
  BY <1>1, <1>5, MultiSwapKeeps
<1>6. CASE UNCHANGED farmVars /\ proxy_update_config
  <2>1. UNCHANGED <<chain, gifts, now, farm>>
    BY <1>6 DEF farmVars, proxy_update_config
  <2>2. now' \in Nat /\ now' >= now /\ farm' \in FarmConfigs
    BY <1>3, <2>1
  <2> QED
    BY <1>1, <1>3, <2>1, <2>2, StillKeeps
<1>7. ASSUME NEW u \in Users, NEW v \in Users, NEW n \in Bonds, NEW no_swap \in BOOLEAN,
             BondAssets(u, Astro, n, no_swap, v)
      PROVE  StepKept
  <2>1. UNCHANGED <<now, farm, gifts>> /\ chain' \in bond_assets(chain, u, [x \in {Astro} |-> n], no_swap, v)
    BY <1>7 DEF BondAssets, farmVars
  <2>2. ChainStep(chain', chain) /\ ProxyKept(chain', chain)
    BY <1>1, <1>2, <2>1, BondAssetsStep
  <2> QED
    BY <1>1, <2>1, <2>2, GiftsKeep
<1>8. ASSUME NEW u \in Users, NEW n \in Bonds, Bond(u, n, u)
      PROVE  StepKept
  <2>1. UNCHANGED <<now, farm, gifts>> /\ chain' \in bond(chain, u, n, u)
    BY <1>8 DEF Bond, farmVars
  <2>2. ChainStep(chain', chain) /\ ProxyKept(chain', chain)
    BY <1>1, <1>2, <2>1, BondStep
  <2> QED
    BY <1>1, <2>1, <2>2, GiftsKeep
<1>9. ASSUME NEW u \in Users, NEW n \in Shares, Unbond(u, n, u)
      PROVE  StepKept
  <2>1. UNCHANGED <<now, farm, gifts>> /\ chain' \in unbond(chain, u, n, u)
    BY <1>9 DEF Unbond, farmVars
  <2>2. ChainStep(chain', chain) /\ ProxyKept(chain', chain)
    BY <1>1, <1>2, <2>1, UnbondStep
  <2> QED
    BY <1>1, <2>1, <2>2, GiftsKeep
<1>10. ASSUME NEW u \in Users, NEW v \in Users, NEW n \in Shares, TransferShares(u, v, n)
       PROVE  StepKept
  <2>1. UNCHANGED <<now, farm, gifts>> /\ u # v /\ chain' \in Move(chain, u, v, AmpLP, n)
    BY <1>10 DEF TransferShares, farmVars
  <2>2. ChainStep(chain', chain) /\ ProxyKept(chain', chain)
    BY <1>1, <1>2, <2>1, TransferStep
  <2> QED
    BY <1>1, <2>1, <2>2, GiftsKeep
<1>11. CASE Compound
  <2>1. UNCHANGED <<now, farm, gifts>> /\ chain' \in farm_compound(chain)
    BY <1>11 DEF Compound, farmVars, proxyVars
  <2>2. ChainStep(chain', chain) /\ ProxyKept(chain', chain)
    BY <1>1, <2>1, CompoundStep
  <2> QED
    BY <1>1, <2>1, <2>2, GiftsKeep
<1>12. ASSUME NEW k \in FarmConfigs, farm_update_config(k)
       PROVE  StepKept
  <2>1. UNCHANGED <<chain, gifts, now>> /\ farm' = k
    BY <1>12 DEF farm_update_config
  <2>2. now' \in Nat /\ now' >= now /\ farm' \in FarmConfigs
    BY <1>3, <2>1
  <2> QED
    BY <1>1, <1>3, <2>1, <2>2, StillKeeps
<1>13. ASSUME NEW a \in {Astro, Luna}, NEW n \in Earnings, Earn(a, n)
       PROVE  StepKept
  <2>1. UNCHANGED <<now, farm, gifts>> /\ chain' = [chain EXCEPT !.pending[a] = @ + n]
    BY <1>13 DEF Earn, proxyVars
  <2>2. ChainStep(chain', chain) /\ ProxyKept(chain', chain)
    BY <1>1, <1>2, <2>1, EarnStep
  <2> QED
    BY <1>1, <2>1, <2>2, GiftsKeep
<1>14. CASE Tick
  <2>1. UNCHANGED <<chain, gifts, farm>> /\ now' = now + 1
    BY <1>14 DEF Tick, proxyVars
  <2>2. now' \in Nat /\ now' >= now /\ farm' \in FarmConfigs
    BY <1>3, <2>1
  <2> QED
    BY <1>1, <1>3, <2>1, <2>2, StillKeeps
<1> QED
  BY <1>4, <1>5, <1>6, <1>7, <1>8, <1>9, <1>10, <1>11, <1>12, <1>13, <1>14 DEF ProxyOrFarm

\* What ampz does with the executions moves no token.
LEMMA ExecutionsKeep ==
  ASSUME AmpzInv, UNCHANGED <<chain, gifts, now, farm, rewards>>, fee' \in FeeConfigs, ExecutionsOK'
  PROVE  StepKept
<1>1. now' \in Nat /\ now' >= now /\ farm' \in FarmConfigs
  BY DEF AmpzInv, FarmOK
<1>2. RewardsOK'
  BY DEF AmpzInv, RewardsOK
<1> QED
  BY <1>1, <1>2, StillKeeps

\* A new execution is of a user, a source and a destination.
LEMMA AddExecutionKeeps ==
  ASSUME AmpzInv, NEW u \in Users, NEW x \in Executions, NEW overwrite \in BOOLEAN,
         add_execution(u, x, overwrite)
  PROVE  StepKept
<1>1. PICK new : new = [user |-> u, source |-> x.source, asset |-> x.asset, over |-> x.over,
                        max |-> x.max, destination |-> x.destination, interval |-> x.interval]
  OBVIOUS
<1>2. new \in Calls
  BY <1>1, AmpzAssumption DEF Calls
<1>3. PICK old : old = overwritten(try_get_uniq_key(new))
  OBVIOUS
<1>4. PICK kept : kept = Without(executions, old)
  OBVIOUS
<1>5. DOMAIN kept \subseteq DOMAIN executions /\ \A i \in DOMAIN kept : kept[i] = executions[i]
  <2>1. DOMAIN kept = DOMAIN executions \ old /\ \A i \in DOMAIN executions \ old : kept[i] = executions[i]
    BY <1>4, WithoutMap, Zenon
  <2> QED
    BY <2>1
<1>6. executions' = Saved(kept, {id}, new) /\ UNCHANGED <<chain, gifts, now, farm, fee, rewards>>
  BY <1>1, <1>3, <1>4 DEF add_execution, farmVars
<1>7. executions' = [i \in DOMAIN kept \cup {id} |-> IF i \in {id} THEN new ELSE kept[i]]
  BY <1>6 DEF Saved
<1>8. ExecutionsOK'
  BY <1>2, <1>5, <1>7 DEF AmpzInv, ExecutionsOK
<1>9. fee' \in FeeConfigs
  BY <1>6 DEF AmpzInv
<1> QED
  BY <1>6, <1>8, <1>9, ExecutionsKeep

\* The executions that stay are as they were.
LEMMA RemoveExecutionsKeep ==
  ASSUME AmpzInv, NEW u \in Users, NEW ids \in SUBSET DOMAIN executions, remove_executions(u, ids)
  PROVE  StepKept
<1>1. executions' = Without(executions, ids) /\ UNCHANGED <<chain, gifts, now, farm, fee, rewards>>
  BY DEF remove_executions, farmVars
<1>2. /\ DOMAIN executions' = DOMAIN executions \ ids
      /\ \A i \in DOMAIN executions \ ids : executions'[i] = executions[i]
  BY <1>1, WithoutMap, Zenon
<1>3. ExecutionsOK'
  BY <1>2 DEF AmpzInv, ExecutionsOK
<1>4. fee' \in FeeConfigs
  BY <1>1 DEF AmpzInv
<1> QED
  BY <1>1, <1>3, <1>4, ExecutionsKeep

\* An execution leaves its user all that its source.
LEMMA ExecuteIdKeeps ==
  ASSUME AmpzInv, NEW i \in DOMAIN executions, NEW s, execute_id(i, s)
  PROVE  StepKept /\ OwnFundsStay(i)
<1>1. PICK x : x = executions[i]
  OBVIOUS
<1>2. /\ x.source = "wallet" => Held(chain, x.user, x.asset) > x.over
      /\ chain' \in executed(chain, x, s)
      /\ rewards' = (IF x.source = "wallet" THEN rewards
                     ELSE [rewards EXCEPT ![x.user][x.source] = [a \in DOMAIN @ |-> 0]])
      /\ UNCHANGED <<gifts, now, farm, executions, fee>>
  BY <1>1 DEF execute_id, proxyVars, farmVars
<1>3. FarmOK(chain) /\ fee \in FeeConfigs /\ RewardsOK /\ x \in Calls
  BY <1>1 DEF AmpzInv, ExecutionsOK
<1>4. /\ ChainStep(chain', chain) /\ ProxyKept(chain', chain)
      /\ \A a \in Assets \ {AmpLP} : OwnStay(chain', chain, x, a)
      /\ \A u \in Users \ {x.user} : chain'.bal[u] = chain.bal[u]
  <2>1. /\ FarmOK(chain) /\ fee \in FeeConfigs /\ RewardsOK /\ x \in Calls
        /\ (x.source = "wallet" => Held(chain, x.user, x.asset) > x.over)
        /\ chain' \in executed(chain, x, s)
    BY <1>2, <1>3
  <2> QED
    BY ONLY <2>1, ExecuteStep
<1>5. RewardsOK'
  <2>1. x.user \in Users /\ x.source \in {"claim", "astro_rewards", "wallet"}
    BY <1>3 DEF Calls
  <2>2. CASE x.source = "wallet"
    BY <1>2, <1>3, <2>2 DEF RewardsOK
  <2>3. CASE x.source = "claim"
    BY <1>2, <1>3, <2>1, <2>3 DEF RewardsOK
  <2>4. CASE x.source = "astro_rewards"
    BY <1>2, <1>3, <2>1, <2>4 DEF RewardsOK
  <2> QED
    BY <2>1, <2>2, <2>3, <2>4
<1>6. StepKept
  BY <1>2, <1>4, <1>5, GiftsKeep
<1>7. OwnFundsStay(i)
  BY <1>1, <1>4 DEF OwnFundsStay, OwnStay
<1> QED
  BY <1>6, <1>7

\* update_config.
LEMMA ConfigKeeps ==
  ASSUME AmpzInv, ampz_update_config
  PROVE  StepKept
<1>1. UNCHANGED <<chain, gifts, now, farm, rewards, executions>> /\ fee' \in FeeConfigs
  BY DEF AmpzInv, ampz_update_config, farmVars
<1>2. ExecutionsOK'
  BY <1>1 DEF AmpzInv, ExecutionsOK
<1> QED
  BY <1>1, <1>2, ExecutionsKeep

\* Staking and generator rewards.
LEMMA RewardKeeps ==
  ASSUME AmpzInv, NEW u \in Users, NEW source \in {"claim", "astro_rewards"}, NEW a \in Assets,
         NEW n \in Rewards, Reward(u, source, a, n)
  PROVE  StepKept
<1>1. /\ a \in DOMAIN rewards[u][source] /\ rewards' = [rewards EXCEPT ![u][source][a] = @ + n]
      /\ UNCHANGED <<chain, gifts, now, farm, fee, executions>>
  BY DEF Reward, proxyVars, farmVars, ampzVars
<1>2. n \in Nat
  BY AmpzAssumption
<1>3. RewardsOK'
  <2>1. rewards \in [Users -> [claim : [{Luna} -> Nat], astro_rewards : [AstroCoins -> Nat]]]
    BY DEF AmpzInv, RewardsOK
  <2>2. PICK r : r = rewards[u]
    OBVIOUS
  <2>3. r \in [claim : [{Luna} -> Nat], astro_rewards : [AstroCoins -> Nat]]
    BY <2>1, <2>2
  <2>4. PICK q : q = [r[source] EXCEPT ![a] = @ + n]
    OBVIOUS
  <2>5. PICK p : p = [r EXCEPT ![source] = q]
    OBVIOUS
  <2>6. rewards' = [rewards EXCEPT ![u] = p]
    BY <1>1, <2>2, <2>4, <2>5
  <2>7. p \in [claim : [{Luna} -> Nat], astro_rewards : [AstroCoins -> Nat]]
    <3>1. CASE source = "claim"
      <4>1. PICK g : g = r[source]
        OBVIOUS
      <4>2. g \in [{Luna} -> Nat]
        BY <2>3, <3>1, <4>1
      <4>3. q \in [{Luna} -> Nat]
        <5>1. q = [g EXCEPT ![a] = g[a] + n] /\ a \in {Luna}
          BY <1>1, <2>2, <2>4, <4>1, <4>2
        <5>2. g[a] + n \in Nat
          BY <1>2, <4>2, <5>1
        <5> QED
          BY <4>2, <5>1, <5>2
      <4> QED
        BY <2>3, <2>5, <3>1, <4>3
    <3>2. CASE source = "astro_rewards"
      <4>1. PICK g : g = r[source]
        OBVIOUS
      <4>2. g \in [AstroCoins -> Nat]
        BY <2>3, <3>2, <4>1
      <4>3. q \in [AstroCoins -> Nat]
        <5>1. q = [g EXCEPT ![a] = g[a] + n] /\ a \in AstroCoins
          BY <1>1, <2>2, <2>4, <4>1, <4>2
        <5>2. g[a] + n \in Nat
          BY <1>2, <4>2, <5>1
        <5> QED
          BY <4>2, <5>1, <5>2
      <4> QED
        BY <2>3, <2>5, <3>2, <4>3
    <3> QED
      BY <3>1, <3>2
  <2> QED
    BY <2>1, <2>6, <2>7 DEF RewardsOK
<1>4. now' \in Nat /\ now' >= now /\ farm' \in FarmConfigs /\ fee' \in FeeConfigs /\ ExecutionsOK'
  BY <1>1 DEF AmpzInv, FarmOK, ExecutionsOK
<1> QED
  BY <1>1, <1>3, <1>4, StillKeeps

\* One step of the specification.
LEMMA StepKeeps ==
  ASSUME AmpzInv, [Next]_vars
  PROVE  /\ AmpzInv' /\ [Pool!PoolNext]_(Pool!poolVars)
         /\ \A i \in DOMAIN executions : OwnFundsStay(i) \/ ~ \E s \in Users \cup Operators : execute_id(i, s)
<1>1. ASSUME UNCHANGED vars
      PROVE  StepKept
  <2>1. UNCHANGED <<chain, gifts, now, farm, fee, rewards, executions>>
    BY <1>1 DEF vars, proxyVars, farmVars, ampzVars
  <2>2. fee' \in FeeConfigs /\ ExecutionsOK'
    BY <2>1 DEF AmpzInv, ExecutionsOK
  <2> QED
    BY <2>1, <2>2, ExecutionsKeep
<1>2. ASSUME Next
      PROVE  StepKept
  BY <1>2, ProxyOrFarmKeeps, AddExecutionKeeps, RemoveExecutionsKeep, ExecuteIdKeeps, ConfigKeeps,
     RewardKeeps DEF Next
<1>3. StepKept
  BY <1>1, <1>2
<1>4. [Pool!PoolNext]_(Pool!poolVars)
  <2>1. chain \in Chains /\ chain' \in Chains /\ SharesAreHeld(chain) /\ PoolStep(chain', chain)
    BY <1>3 DEF StepKept, AmpzInv, FarmOK
  <2> QED
    BY <2>1, PoolStepIs
<1> QED
  BY <1>3, <1>4, ExecuteIdKeeps DEF StepKept

\* At the start nobody has shares and no contract but the pair has tokens.
LEMMA InitIs ==
  ASSUME AmpzInit
  PROVE  AmpzInv /\ Pool!PoolInit
<1>1. PICK c : c = chain
  OBVIOUS
<1>2. PICK bal : bal = [w \in Accounts |-> [a \in Assets |->
                          CASE w \in Users -> InitialFunds[a]
                            [] w = "pair" /\ a \in PairAssets -> InitialPool
                            [] OTHER -> 0]]
  OBVIOUS
<1>3. PICK supply : supply = InitialPool + Cardinality(Users) * InitialFunds[LP]
  OBVIOUS
<1>4. PICK history : history = [t \in {} |-> 0]
  OBVIOUS
<1>5. c = [bal |-> bal, supply |-> supply, deposit |-> 0, total_bond_share |-> 0,
           exchange_history |-> history, pending |-> [a \in {Astro, Luna} |-> 0]]
  BY <1>1, <1>2, <1>3, <1>4 DEF AmpzInit, FarmInit, ProxyInit
<1>6. supply \in Nat
  <2>1. Cardinality(Users) \in Nat
    BY CompoundAssumption, FS_CardinalityType
  <2>2. InitialPool \in Nat /\ InitialFunds[LP] \in Nat
    BY CompoundAssumption, AssetsAre
  <2>3. Cardinality(Users) * InitialFunds[LP] \in Nat
    BY <2>1, <2>2, Products
  <2> QED
    BY <1>3, <2>2, <2>3
<1>7. /\ \A w \in Accounts : \A a \in Assets : bal[w][a] =
           (CASE w \in Users -> InitialFunds[a]
              [] w = "pair" /\ a \in PairAssets -> InitialPool
              [] OTHER -> 0)
      /\ bal \in [Accounts -> [Assets -> Nat]]
  <2>1. /\ InitialPool \in Nat /\ \A a \in Assets : InitialFunds[a] \in Nat
    BY CompoundAssumption
  <2> QED
    BY <1>2, <2>1
<1>8. history \in Histories /\ DOMAIN history = {}
  <2>1. history \in [{} -> Rates]
    BY <1>4
  <2> QED
    BY <2>1 DEF Histories
<1>9. c \in Chains
  BY <1>5, <1>6, <1>7, <1>8 DEF Chains, Rows
<1>10. /\ \A a \in PairAssets : Held(c, "pair", a) = InitialPool
       /\ \A a \in Assets : Held(c, "ampz", a) = 0 /\ Held(c, "proxy", a) = 0
       /\ \A u \in Users : Held(c, u, AmpLP) = 0
  <2>1. c.bal = bal
    BY <1>5
  <2>2. InitialFunds[AmpLP] = 0
    BY CompoundAssumption
  <2>3. \A a \in PairAssets : bal["pair"][a] = InitialPool
    BY <1>7, AccountsAre, AssetsAre
  <2>4. \A a \in Assets : bal["ampz"][a] = 0 /\ bal["proxy"][a] = 0
    BY <1>7, AccountsAre
  <2>5. \A u \in Users : bal[u][AmpLP] = 0
    BY <1>7, <2>2, AccountsAre, AssetsAre
  <2> QED
    BY <2>1, <2>3, <2>4, <2>5 DEF Held
<1>11. c.deposit = 0 /\ c.total_bond_share = 0 /\ c.exchange_history = history
  BY <1>5
<1>12. SharesAreHeld(c) /\ ShareOf(c) = [u \in Users |-> 0]
  <2>1. ShareOf(c) = [u \in Users |-> 0]
    BY <1>10 DEF ShareOf
  <2>2. PICK f : f = ShareOf(c)
    OBVIOUS
  <2>3. f \in [Users -> Nat] /\ \A u \in Users : f[u] = 0
    BY <2>1, <2>2
  <2>4. Total(f) = 0
    BY <2>3, CompoundAssumption, SumZero
  <2> QED
    BY <1>11, <2>1, <2>2, <2>4 DEF SharesAreHeld
<1>13. now = 0 /\ farm \in FarmConfigs
  BY DEF AmpzInit, FarmInit
<1>14. FarmOK(c)
  <2>1. InitialPool > 0
    BY CompoundAssumption
  <2> QED
    BY <1>8, <1>9, <1>10, <1>11, <1>13, <2>1, AssetsAre DEF FarmOK, PoolOpen, SharesAreBacked,
       AmpzIsEmpty, OfThePast
<1>15. gifts \in [PairAssets -> Nat] /\ NothingIsLeftBehind
  <2>1. gifts = [a \in PairAssets |-> 0]
    BY DEF AmpzInit, FarmInit, ProxyInit
  <2> QED
    BY <1>1, <1>10, <2>1, AssetsAre DEF NothingIsLeftBehind
<1>16. fee \in FeeConfigs /\ RewardsOK /\ ExecutionsOK
  BY DEF AmpzInit, RewardsOK, ExecutionsOK
<1>17. Pool!PoolInit
  BY <1>1, <1>11, <1>12 DEF Pool!PoolInit, ShareOf
<1> QED
  BY <1>1, <1>12, <1>14, <1>15, <1>16, <1>17 DEF AmpzInv

\* The invariant of every state.
LEMMA AmpzInvAlways == Spec => []AmpzInv
<1>1. AmpzInit => AmpzInv
  BY InitIs
<1>2. AmpzInv /\ [Next]_vars => AmpzInv'
  BY StepKeeps
<1> QED
  BY <1>1, <1>2, PTL DEF Spec

-----------------------------------------------------------------------------
(* The theorems.                                                           *)

\* After any sequence of transactions, whichever users, assets, schedules and fees there are,
\* ampz has nothing at all and the proxy only what third parties gave it: all that a claim, a
\* swap or a compounding moved through them (ampz's callback.rs, the proxy's execute.rs) has
\* left them again by the end of the transaction.
THEOREM NothingIsEverLeftBehind == Spec => []NothingIsLeftBehind
<1>1. AmpzInv => NothingIsLeftBehind
  BY DEF AmpzInv
<1> QED
  BY <1>1, AmpzInvAlways, PTL

\* No execution, whoever sends it and whatever its source, destination and fees, takes more
\* of its user's tokens than the source allows (callback.rs query_balance_diff), nor any
\* token of another user.
THEOREM ExecutionsAlwaysTakeOnlyTheirSource == Spec => ExecutionsTakeOnlyTheirSource
<1>1. AmpzInv /\ [Next]_vars =>
        [\A i \in DOMAIN executions :
           OwnFundsStay(i) \/ ~ \E s \in Users \cup Operators : execute_id(i, s)]_vars
  BY StepKeeps
<1> QED
  BY <1>1, AmpzInvAlways, PTL DEF Spec, ExecutionsTakeOnlyTheirSource

\* The farm, with the proxy and ampz around it, implements the share pool: every bond buys no
\* more than it pays for, every unbond takes no more than its shares' part, and everything
\* else leaves the shares alone and takes nothing from the deposit (the farm's bond.rs,
\* compound.rs and state.rs).
THEOREM FarmIsAlwaysAPool == Spec => FarmIsAPool
<1>1. AmpzInit => Pool!PoolInit
  BY InitIs
<1>2. AmpzInv /\ [Next]_vars => [Pool!PoolNext]_(Pool!poolVars)
  BY StepKeeps
<1> QED
  BY <1>1, <1>2, AmpzInvAlways, PTL DEF Spec, FarmIsAPool, Pool!PoolSpec

=============================================================================
