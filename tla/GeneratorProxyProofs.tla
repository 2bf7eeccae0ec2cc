------------------------ MODULE GeneratorProxyProofs ------------------------
(***************************************************************************)
(* Proofs about the generator proxy: its deposit in the generator is a     *)
(* pool of shares, and every reward and all of the xASTRO that it promised *)
(* is there.                                                               *)
(***************************************************************************)
EXTENDS GeneratorProxy, SumsProofs

-----------------------------------------------------------------------------
(* Types.                                                                  *)

PoolInfos == [exists : BOOLEAN, total_bond_share : Nat, reward_indexes : [Tokens -> Nat],
              prev_index : Nat, prev_debt : [Extras -> Nat], last_reconcile : Nat]
UserInfos == [bond_share : Nat, reward_indexes : [Tokens -> Nat],
              pending_rewards : [Tokens -> Nat]]
RewardInfos == [reconciled_amount : Nat, fee : Nat, staker_income : Nat]
Entries == [exists : BOOLEAN, amount : Nat, index : Nat, acc : Nat, debt : [Extras -> Nat],
            accp : [Extras -> Nat]]

\* The entry in the generator owes nothing negative, and POOL_INFO lags behind it.
EntryOK(s) ==
  /\ s.gen.index <= s.gen.acc
  /\ \A t \in Extras : s.gen.debt[t] <= s.gen.accp[t] * s.gen.amount
  /\ s.pool_info.prev_index <= s.gen.index

\* The state that a chain of messages about LP tokens has reached.
BondStates ==
  [pool_info : PoolInfos, reward_info : UNION {[T -> RewardInfos] : T \in SUBSET Tokens},
   gen : Entries, bal : [Tokens -> Nat]]

BondOK(s) == s \in BondStates /\ EntryOK(s)

\* What is reconciled of a token and not set aside for the fee and the stakers.
Free(s, t) ==
  LET r == RewardOf(s.reward_info, t)
  IN  r.reconciled_amount - r.fee - r.staker_income

\* What is free beyond the rewards of a share since the beginning, times the shares; in
\* units of a Decimal, before any rounding.
Slack(s, t) ==
  Free(s, t) * One - s.pool_info.reward_indexes[t] * s.pool_info.total_bond_share

\* The chain has come from s to r: rewards were reconciled and paid, and the shares were
\* promised no more than what became free for them.
Onwards(s, r) ==
  /\ r.pool_info.total_bond_share = s.pool_info.total_bond_share
  /\ r.gen.amount = s.gen.amount
  /\ \A t \in Tokens :
       /\ s.pool_info.reward_indexes[t] <= r.pool_info.reward_indexes[t]
       /\ Slack(s, t) <= Slack(r, t)
       /\ RewardOf(s.reward_info, t).reconciled_amount <= s.bal[t] =>
            RewardOf(r.reward_info, t).reconciled_amount <= r.bal[t]

-----------------------------------------------------------------------------
(* Arithmetic.                                                             *)

LEMMA MulNat ==
  ASSUME NEW a \in Nat, NEW b \in Nat
  PROVE  a * b \in Nat
BY SMT

\* A quotient rounded down is not more than the quotient.
LEMMA DivDown ==
  ASSUME NEW a \in Nat, NEW b \in Nat \ {0}
  PROVE  a \div b \in Nat /\ (a \div b) * b <= a
BY SMT

\* A quotient rounded up is not less than the quotient.
LEMMA CeilUp ==
  ASSUME NEW a \in Nat, NEW b \in Nat \ {0}
  PROVE  Ceil(a, b) \in Nat /\ a <= Ceil(a, b) * b
<1> DEFINE n == a + b - 1
           q == n \div b
<1>1. n \in Nat
  OBVIOUS
<1> HIDE DEF n
<1>2. q \in Nat /\ n < (q + 1) * b
  BY <1>1
<1> HIDE DEF q
<1>3. (q + 1) * b = q * b + b
  BY <1>2
<1>4. q * b \in Nat
  BY <1>2, MulNat
<1>5. a <= q * b
  BY <1>2, <1>3, <1>4 DEF n
<1> QED
  BY <1>2, <1>5 DEF Ceil, n, q

\* The larger factor makes the larger product.
LEMMA MulMono ==
  ASSUME NEW a \in Nat, NEW b \in Nat, NEW c \in Nat, a <= b
  PROVE  a * c <= b * c
<1>1. PICK d \in Nat : b = a + d
  <2>1. b - a \in Nat /\ b = a + (b - a)
    OBVIOUS
  <2> QED
    BY <2>1
<1>2. b * c = a * c + d * c
  BY <1>1
<1>3. a * c \in Nat /\ d * c \in Nat
  BY <1>1, MulNat
<1> QED
  BY <1>2, <1>3

\* A product is less only if a factor is.
LEMMA MulCancel ==
  ASSUME NEW a \in Nat, NEW b \in Nat, NEW c \in Nat \ {0}, a * c <= b * c
  PROVE  a <= b
<1>1. ASSUME ~ (a <= b) PROVE FALSE
  <2>1. b + 1 <= a
    BY <1>1
  <2>2. (b + 1) * c <= a * c
    BY <2>1, MulMono
  <2>3. (b + 1) * c = b * c + c
    OBVIOUS
  <2>4. b * c \in Nat /\ a * c \in Nat
    BY MulNat
  <2> QED
    BY <2>2, <2>3, <2>4
<1> QED
  BY <1>1

\* A part of an amount: multiply_ratio by a fraction of at most one.
LEMMA PartOf ==
  ASSUME NEW a \in Nat, NEW b \in Nat, NEW c \in Nat \ {0}, b <= c
  PROVE  (a * b) \div c \in Nat /\ (a * b) \div c <= a
<1> DEFINE p == a * b
           q == p \div c
<1>1. p \in Nat /\ a * c \in Nat
  BY MulNat
<1>2. q \in Nat /\ q * c <= p
  BY <1>1, DivDown
<1>3. p <= a * c
  <2>1. b * a <= c * a
    BY MulMono
  <2>2. b * a = a * b /\ c * a = a * c
    OBVIOUS
  <2> QED
    BY <2>1, <2>2
<1> HIDE DEF p
<1> HIDE DEF q
<1>4. q * c <= a * c
  <2>1. q * c \in Nat
    BY <1>2, MulNat
  <2> QED
    BY <1>1, <1>2, <1>3, <2>1
<1>5. q <= a
  BY <1>2, <1>4, MulCancel
<1> QED
  BY <1>2, <1>5 DEF p, q

-----------------------------------------------------------------------------
(* Messages about LP tokens.                                               *)

LEMMA AstroIsToken == "astro" \in Tokens /\ Extras \subseteq Tokens
BY DEF Tokens

\* The fields of a state.
LEMMA BondFields ==
  ASSUME NEW s \in BondStates
  PROVE  /\ s.pool_info \in PoolInfos /\ s.gen \in Entries /\ s.bal \in [Tokens -> Nat]
         /\ DOMAIN s.reward_info \subseteq Tokens
         /\ \A t \in DOMAIN s.reward_info : s.reward_info[t] \in RewardInfos
         /\ s.reward_info = [t \in DOMAIN s.reward_info |-> s.reward_info[t]]
         /\ s = [pool_info |-> s.pool_info, reward_info |-> s.reward_info, gen |-> s.gen,
                 bal |-> s.bal]
BY DEF BondStates

LEMMA RewardOfType ==
  ASSUME NEW s \in BondStates, NEW t
  PROVE  RewardOf(s.reward_info, t) \in RewardInfos
BY BondFields DEF RewardOf, NoReward, RewardInfos

\* What the generator owes is never negative, and it owes ASTRO only for LP tokens.
LEMMA OwedType ==
  ASSUME NEW s, BondOK(s)
  PROVE  /\ Owed(s.gen) \in [Tokens -> Nat]
         /\ Owed(s.gen)["astro"] > 0 => s.gen.amount > 0
<1>1. /\ s.gen.amount \in Nat /\ s.gen.index \in Nat /\ s.gen.acc \in Nat
      /\ \A t \in Extras : s.gen.debt[t] \in Nat /\ s.gen.accp[t] \in Nat
  BY BondFields DEF BondOK, Entries
<1>2. s.gen.acc - s.gen.index \in Nat
  BY <1>1 DEF BondOK, EntryOK
<1>3. (s.gen.acc - s.gen.index) * s.gen.amount \in Nat
  BY <1>1, <1>2, MulNat
<1>4. \A t \in Extras : s.gen.accp[t] * s.gen.amount - s.gen.debt[t] \in Nat
  <2> TAKE t \in Extras
  <2>1. s.gen.accp[t] * s.gen.amount \in Nat
    BY <1>1, MulNat
  <2> QED
    BY <2>1, <1>1 DEF BondOK, EntryOK
<1>5. \A t \in Tokens : Owed(s.gen)[t] \in Nat
  BY <1>3, <1>4 DEF Owed, VirtualAmount, Tokens
<1>6. Owed(s.gen)["astro"] = (s.gen.acc - s.gen.index) * s.gen.amount
  BY AstroIsToken DEF Owed, VirtualAmount
<1>7. s.gen.amount = 0 => (s.gen.acc - s.gen.index) * s.gen.amount = 0
  BY <1>2
<1> QED
  BY <1>1, <1>3, <1>5, <1>6, <1>7 DEF Owed

\* reconcile_astro_reward: an amount is divided without remainder into the fee, the
\* stakers' part and the part of the LP tokens.
LEMMA SplitParts ==
  ASSUME NEW s, BondOK(s), config \in Configs, NEW n \in Nat, n > 0 => s.gen.amount > 0
  PROVE  /\ Split(s, n).fee \in Nat /\ Split(s, n).to_staker \in Nat /\ Split(s, n).to_lp \in Nat
         /\ Split(s, n).fee + Split(s, n).to_staker + Split(s, n).to_lp = n
<1> DEFINE amount == s.gen.amount
           based == IF n = 0 THEN 0 ELSE (n * ((amount * 2) \div 5)) \div amount
           boosted == n - based
           fee == (boosted * config.boost_fee) \div One
           to_staker == ((boosted - fee) * config.staker_rate) \div One
<1>1. amount \in Nat
  BY BondFields DEF BondOK, Entries
<1>2. /\ One \in Nat \ {0} /\ config.boost_fee \in Nat /\ config.boost_fee <= One
      /\ config.staker_rate \in Nat /\ config.staker_rate <= One
  BY ProxyAssumption
<1>3. based \in Nat /\ based <= n
  <2>1. CASE n # 0
    <3> DEFINE base == (amount * 2) \div 5
    <3>1. amount \in Nat \ {0}
      BY <2>1, <1>1
    <3>2. base \in Nat /\ base <= amount
      BY <1>1
    <3> HIDE DEF base, amount
    <3>3. (n * base) \div amount \in Nat /\ (n * base) \div amount <= n
      BY <3>1, <3>2, PartOf
    <3> QED
      BY <2>1, <3>3 DEF base
  <2> QED
    BY <2>1
<1> HIDE DEF based
<1>4. boosted \in Nat
  BY <1>3
<1> HIDE DEF boosted
<1>5. fee \in Nat /\ fee <= boosted
  BY <1>2, <1>4, PartOf
<1> HIDE DEF fee
<1>6. boosted - fee \in Nat
  BY <1>4, <1>5
<1>7. to_staker \in Nat /\ to_staker <= boosted - fee
  BY <1>2, <1>6, PartOf
<1>8. Split(s, n) = [fee |-> fee, to_staker |-> to_staker,
                     to_lp |-> boosted - fee - to_staker + based]
  BY DEF Split, VirtualAmount, based, boosted, fee
<1> HIDE DEF to_staker
<1> QED
  BY <1>3, <1>4, <1>5, <1>7, <1>8 DEF boosted

\* reconcile_rewards with amounts that the balance covers.
LEMMA ReconcileOnwards ==
  ASSUME NEW s, BondOK(s), config \in Configs, NEW net \in [Tokens -> Nat],
         net["astro"] > 0 => s.gen.amount > 0,
         \A t \in Tokens : net[t] > 0 => s.pool_info.total_bond_share > 0,
         NEW r, r = reconcile_rewards(s, net)
  PROVE  /\ BondOK(r) /\ r.gen = s.gen /\ r.bal = s.bal
         /\ r.pool_info.prev_index = s.pool_info.prev_index
         /\ r.pool_info.total_bond_share = s.pool_info.total_bond_share
         /\ \A t \in Tokens :
              /\ s.pool_info.reward_indexes[t] <= r.pool_info.reward_indexes[t]
              /\ Slack(s, t) <= Slack(r, t)
              /\ RewardOf(r.reward_info, t).reconciled_amount =
                   RewardOf(s.reward_info, t).reconciled_amount + net[t]
<1> DEFINE shares == s.pool_info.total_bond_share
           part(t) == Split(s, IF t = "astro" THEN net[t] ELSE 0)
           paid(t) == IF t = "astro" THEN Split(s, net[t]).to_lp ELSE net[t]
           info(t) == [reconciled_amount |-> RewardOf(s.reward_info, t).reconciled_amount + net[t],
                       fee |-> RewardOf(s.reward_info, t).fee + part(t).fee,
                       staker_income |->
                         RewardOf(s.reward_info, t).staker_income + part(t).to_staker]
           index(t) == IF net[t] = 0 THEN s.pool_info.reward_indexes[t]
                       ELSE s.pool_info.reward_indexes[t] + (paid(t) * One) \div shares
           keys == DOMAIN s.reward_info \cup {x \in Tokens : net[x] > 0}
<1>1. /\ s \in BondStates /\ s.pool_info \in PoolInfos
      /\ shares \in Nat /\ s.pool_info.reward_indexes \in [Tokens -> Nat]
      /\ DOMAIN s.reward_info \subseteq Tokens
      /\ \A t : RewardOf(s.reward_info, t) \in RewardInfos
  BY BondFields, RewardOfType DEF BondOK, PoolInfos
<1>2. /\ r.reward_info = [t \in keys |-> info(t)]
      /\ r.pool_info = [s.pool_info EXCEPT !.reward_indexes = [t \in Tokens |-> index(t)]]
      /\ r.gen = s.gen /\ r.bal = s.bal
      /\ r = [pool_info |-> r.pool_info, reward_info |-> r.reward_info, gen |-> s.gen,
              bal |-> s.bal]
  BY <1>1 DEF reconcile_rewards, BondStates
<1>3. \A t \in Tokens :
        /\ part(t).fee \in Nat /\ part(t).to_staker \in Nat /\ paid(t) \in Nat
        /\ part(t).fee + part(t).to_staker + paid(t) = net[t]
  <2> TAKE t \in Tokens
  <2>1. CASE t = "astro"
    BY <2>1, SplitParts
  <2>2. CASE t # "astro"
    <3>1. Split(s, 0).fee = 0 /\ Split(s, 0).to_staker = 0
      BY SplitParts
    <3> QED
      BY <2>2, <3>1
  <2> QED
    BY <2>1, <2>2
<1> HIDE DEF part, paid
<1>4. \A t \in Tokens :
        /\ info(t) \in RewardInfos
        /\ info(t).reconciled_amount - info(t).fee - info(t).staker_income = Free(s, t) + paid(t)
  BY <1>1, <1>3 DEF RewardInfos, Free
<1>5. \A t \in Tokens : RewardOf(r.reward_info, t) = info(t)
  <2> TAKE t \in Tokens
  <2>1. CASE t \in keys
    BY <2>1, <1>2 DEF RewardOf
  <2>2. CASE t \notin keys
    <3>1. net[t] = 0 /\ RewardOf(s.reward_info, t) = NoReward
      BY <2>2 DEF RewardOf
    <3>2. part(t).fee = 0 /\ part(t).to_staker = 0
      BY <3>1, <1>3
    <3>3. info(t) = NoReward
      BY <3>1, <3>2 DEF NoReward
    <3> QED
      BY <2>2, <3>3, <1>2 DEF RewardOf
  <2> QED
    BY <2>1, <2>2
<1>6. \A t \in Tokens :
        /\ index(t) \in Nat /\ s.pool_info.reward_indexes[t] <= index(t)
        /\ index(t) * shares <= s.pool_info.reward_indexes[t] * shares + paid(t) * One
  <2> TAKE t \in Tokens
  <2> DEFINE old == s.pool_info.reward_indexes[t]
             more == (paid(t) * One) \div shares
  <2>1. old \in Nat /\ paid(t) * One \in Nat /\ old * shares \in Nat
    BY <1>1, <1>3, MulNat, ProxyAssumption
  <2>2. CASE net[t] = 0
    BY <2>1, <2>2
  <2>3. CASE net[t] # 0
    <3>1. shares \in Nat \ {0}
      BY <2>3, <1>1
    <3>2. more \in Nat /\ more * shares <= paid(t) * One
      BY <3>1, <2>1, DivDown
    <3>3. index(t) = old + more
      BY <2>3
    <3> HIDE DEF more, old, index, shares
    <3>4. (old + more) * shares = old * shares + more * shares
      BY <3>1, <3>2, <2>1
    <3>5. more * shares \in Nat
      BY <3>1, <3>2, MulNat
    <3>6. index(t) \in Nat /\ old <= index(t)
      BY <3>2, <3>3, <2>1
    <3>7. index(t) * shares <= old * shares + paid(t) * One
      BY <3>2, <3>3, <3>4, <3>5, <2>1
    <3> QED
      BY <3>6, <3>7 DEF old
  <2> QED
    BY <2>2, <2>3
<1>7. /\ r.pool_info \in PoolInfos /\ r.pool_info.total_bond_share = shares
      /\ r.pool_info.prev_index = s.pool_info.prev_index
      /\ \A t \in Tokens : r.pool_info.reward_indexes[t] = index(t)
  <2> DEFINE indexes == [t \in Tokens |-> index(t)]
  <2>1. indexes \in [Tokens -> Nat]
    BY <1>6
  <2>2. r.pool_info = [s.pool_info EXCEPT !.reward_indexes = indexes]
    BY <1>2
  <2>3. \A t \in Tokens : indexes[t] = index(t)
    OBVIOUS
  <2> HIDE DEF index, indexes
  <2>4. r.pool_info \in PoolInfos /\ r.pool_info.reward_indexes = indexes
    BY <2>1, <2>2, <1>1 DEF PoolInfos
  <2>5. /\ r.pool_info.total_bond_share = shares
        /\ r.pool_info.prev_index = s.pool_info.prev_index
    BY <2>2, <1>1 DEF PoolInfos
  <2> QED
    BY <2>3, <2>4, <2>5
<1>8. r \in BondStates
  <2>1. keys \in SUBSET Tokens
    BY <1>1
  <2>2. r.reward_info \in [keys -> RewardInfos]
    <3> HIDE DEF info
    <3> QED
      BY <2>1, <1>2, <1>4
  <2>3. r.reward_info \in UNION {[T -> RewardInfos] : T \in SUBSET Tokens}
    BY <2>1, <2>2
  <2> QED
    BY <1>2, <1>7, <2>3, <1>1 DEF BondStates
<1>9. BondOK(r)
  BY <1>2, <1>7, <1>8 DEF BondOK, EntryOK
<1>10. \A t \in Tokens : Slack(s, t) <= Slack(r, t)
  <2> TAKE t \in Tokens
  <2>1. Free(r, t) = Free(s, t) + paid(t)
    <3> HIDE DEF info
    <3> QED
      BY <1>4, <1>5 DEF Free
  <2>2. Free(s, t) \in Int /\ paid(t) \in Nat /\ One \in Nat
    BY <1>1, <1>3, ProxyAssumption DEF Free, RewardInfos
  <2>3. Slack(r, t) = Free(r, t) * One - index(t) * shares
    <3> HIDE DEF index, shares
    <3> QED
      BY <1>7 DEF Slack
  <2>4. Slack(s, t) = Free(s, t) * One - s.pool_info.reward_indexes[t] * shares
    BY DEF Slack
  <2>5. (Free(s, t) + paid(t)) * One = Free(s, t) * One + paid(t) * One
    BY <2>2
  <2> DEFINE a == Free(s, t) * One
             b == paid(t) * One
             c == index(t) * shares
             d == s.pool_info.reward_indexes[t] * shares
  <2>6. a \in Int /\ b \in Int /\ c \in Int /\ d \in Int /\ c <= d + b
    BY <2>2, <1>1, <1>6
  <2> HIDE DEF index, shares
  <2>7. Slack(r, t) = (a + b) - c
    BY <2>1, <2>3, <2>5, Zenon
  <2>8. Slack(s, t) = a - d
    BY <2>4, Zenon
  <2> HIDE DEF a, b, c, d
  <2> QED
    BY <2>6, <2>7, <2>8
<1> QED
  <2>1. \A t \in Tokens :
          /\ s.pool_info.reward_indexes[t] <= r.pool_info.reward_indexes[t]
          /\ RewardOf(r.reward_info, t).reconciled_amount =
               RewardOf(s.reward_info, t).reconciled_amount + net[t]
    <3>1. \A t \in Tokens : info(t).reconciled_amount =
                              RewardOf(s.reward_info, t).reconciled_amount + net[t]
      OBVIOUS
    <3> HIDE DEF index, info
    <3> QED
      BY <3>1, <1>5, <1>6, <1>7
  <2> QED
    BY <1>2, <1>7, <1>9, <1>10, <2>1

\* The generator pays what it owes and sets the deposit.
LEMMA GenSetPays ==
  ASSUME NEW s, BondOK(s), NEW amount \in Nat, NEW r, r = GenSet(s, amount)
  PROVE  /\ BondOK(r) /\ r.pool_info = s.pool_info /\ r.reward_info = s.reward_info
         /\ r.gen.amount = amount
         /\ \A t \in Tokens : r.bal[t] = s.bal[t] + Owed(s.gen)[t]
<1> DEFINE balance == [t \in Tokens |-> s.bal[t] + Owed(s.gen)[t]]
           debt == [t \in Extras |-> s.gen.accp[t] * amount]
           entry == [s.gen EXCEPT !.exists = TRUE, !.amount = amount, !.index = s.gen.acc,
                                  !.debt = debt]
<1>1. /\ s \in BondStates /\ s.gen \in Entries /\ s.bal \in [Tokens -> Nat]
      /\ s.gen.acc \in Nat /\ s.gen.index \in Nat
      /\ s.gen.accp \in [Extras -> Nat]
  BY BondFields DEF BondOK, Entries
<1>2. balance \in [Tokens -> Nat]
  BY <1>1, OwedType
<1>3. debt \in [Extras -> Nat]
  BY <1>1, MulNat
<1>4. r.pool_info = s.pool_info /\ r.reward_info = s.reward_info /\ r.gen = entry /\ r.bal = balance
  BY <1>1 DEF GenSet, BondStates
<1>5. /\ entry \in Entries /\ entry.amount = amount /\ entry.index = s.gen.acc
      /\ entry.acc = s.gen.acc /\ entry.debt = debt /\ entry.accp = s.gen.accp
  <2> HIDE DEF debt
  <2> QED
    BY <1>1, <1>3 DEF Entries
<1>6. r \in BondStates
  <2>1. r = [s EXCEPT !.bal = balance, !.gen = entry]
    BY <1>1 DEF GenSet, BondStates
  <2> HIDE DEF balance, entry
  <2> QED
    BY <2>1, <1>1, <1>2, <1>5 DEF BondStates
<1>7. EntryOK(r)
  <2>1. \A t \in Extras : debt[t] = s.gen.accp[t] * amount /\ debt[t] \in Nat
    BY <1>3
  <2>2. s.pool_info.prev_index <= s.gen.acc
    <3>1. s.pool_info.prev_index \in Nat
      BY <1>1, BondFields DEF PoolInfos
    <3> QED
      BY <3>1, <1>1 DEF BondOK, EntryOK
  <2> HIDE DEF entry, debt
  <2> QED
    BY <2>1, <2>2, <1>1, <1>4, <1>5 DEF EntryOK
<1> QED
  BY <1>4, <1>5, <1>6, <1>7 DEF BondOK

\* prev_reward_user_index and prev_reward_debt_proxy are no part of the accounts.
LEMMA FollowKeeps ==
  ASSUME NEW s, BondOK(s), NEW r, r = FollowGenerator(s)
  PROVE  /\ BondOK(r) /\ r.gen = s.gen /\ r.bal = s.bal /\ r.reward_info = s.reward_info
         /\ r.pool_info.reward_indexes = s.pool_info.reward_indexes
         /\ r.pool_info.total_bond_share = s.pool_info.total_bond_share
<1>1. /\ s \in BondStates /\ s.gen \in Entries /\ s.pool_info \in PoolInfos
      /\ s.gen.index \in Nat /\ s.gen.debt \in [Extras -> Nat]
  BY BondFields DEF BondOK, Entries
<1>2. r = [s EXCEPT !.pool_info = [s.pool_info EXCEPT !.prev_index = s.gen.index,
                                                      !.prev_debt = s.gen.debt]]
  BY <1>1 DEF FollowGenerator, BondStates, PoolInfos
<1> DEFINE info == [s.pool_info EXCEPT !.prev_index = s.gen.index, !.prev_debt = s.gen.debt]
<1>3. /\ info \in PoolInfos /\ info.reward_indexes = s.pool_info.reward_indexes
      /\ info.total_bond_share = s.pool_info.total_bond_share
      /\ info.prev_index = s.gen.index
  BY <1>1 DEF PoolInfos
<1>4. r = [s EXCEPT !.pool_info = info]
  BY <1>2
<1> HIDE DEF info
<1>5. /\ r \in BondStates /\ r.pool_info = info /\ r.gen = s.gen /\ r.bal = s.bal
      /\ r.reward_info = s.reward_info
  BY <1>1, <1>3, <1>4 DEF BondStates
<1> QED
  BY <1>1, <1>3, <1>5 DEF BondOK, EntryOK

\* What others claimed for the proxy is there, beyond what is reconciled.
LEMMA ClaimedByOthersType ==
  ASSUME NEW s, BondOK(s)
  PROVE  /\ ClaimedByOthers(s) \in [Tokens -> Nat]
         /\ ClaimedByOthers(s)["astro"] > 0 => s.gen.amount > 0
         /\ \A t \in Tokens :
              RewardOf(s.reward_info, t).reconciled_amount <= s.bal[t] =>
                RewardOf(s.reward_info, t).reconciled_amount + ClaimedByOthers(s)[t] <= s.bal[t]
<1>1. /\ s \in BondStates /\ s.gen \in Entries /\ s.pool_info \in PoolInfos
      /\ s.gen.index \in Nat /\ s.gen.debt \in [Extras -> Nat] /\ s.gen.amount \in Nat
      /\ s.pool_info.prev_index \in Nat /\ s.pool_info.prev_debt \in [Extras -> Nat]
      /\ s.pool_info.prev_index <= s.gen.index
      /\ s.bal \in [Tokens -> Nat]
  BY BondFields DEF BondOK, Entries, PoolInfos, EntryOK
<1> DEFINE paid(t) == IF t = "astro" THEN (s.gen.index - s.pool_info.prev_index) * s.gen.amount
                      ELSE Sat(s.gen.debt[t], s.pool_info.prev_debt[t])
           new(t) == Sat(s.bal[t], RewardOf(s.reward_info, t).reconciled_amount)
<1>2. \A t \in Tokens : ClaimedByOthers(s)[t] = Min2(new(t), paid(t))
  BY DEF ClaimedByOthers, VirtualAmount
<1>3. \A t \in Tokens : RewardOf(s.reward_info, t).reconciled_amount \in Nat
  BY <1>1, RewardOfType DEF RewardInfos
<1>4. s.gen.index - s.pool_info.prev_index \in Nat
  BY <1>1
<1>5. (s.gen.index - s.pool_info.prev_index) * s.gen.amount \in Nat
  BY <1>1, <1>4, MulNat
<1>6. \A t \in Tokens : paid(t) \in Nat
  BY <1>1, <1>5 DEF Tokens, Sat
<1>7. \A t \in Tokens : new(t) \in Nat
  BY <1>1, <1>3 DEF Sat
<1>8. \A t \in Tokens : ClaimedByOthers(s)[t] \in Nat
  <2> HIDE DEF new, paid
  <2> QED
    BY <1>2, <1>6, <1>7 DEF Min2
<1>9. ClaimedByOthers(s) \in [Tokens -> Nat]
  <2>1. ClaimedByOthers(s) = [t \in Tokens |-> ClaimedByOthers(s)[t]]
    BY DEF ClaimedByOthers
  <2> QED
    BY <2>1, <1>8
<1>10. ClaimedByOthers(s)["astro"] > 0 => s.gen.amount > 0
  <2>1. ClaimedByOthers(s)["astro"] <= paid("astro")
    <3> HIDE DEF new, paid
    <3> QED
      BY <1>2, <1>6, <1>7, AstroIsToken DEF Min2
  <2>2. s.gen.amount = 0 => paid("astro") = 0
    BY <1>4
  <2>3. ClaimedByOthers(s)["astro"] \in Nat /\ paid("astro") \in Nat
    BY <1>6, <1>8, AstroIsToken
  <2> HIDE DEF paid
  <2> QED
    BY <2>1, <2>2, <2>3, <1>1
<1>11. ASSUME NEW t \in Tokens, RewardOf(s.reward_info, t).reconciled_amount <= s.bal[t]
       PROVE  RewardOf(s.reward_info, t).reconciled_amount + ClaimedByOthers(s)[t] <= s.bal[t]
  <2>1. new(t) = s.bal[t] - RewardOf(s.reward_info, t).reconciled_amount
    BY <1>1, <1>3, <1>11 DEF Sat
  <2>2. ClaimedByOthers(s)[t] <= new(t)
    <3> HIDE DEF new, paid
    <3> QED
      BY <1>2, <1>6, <1>7 DEF Min2
  <2>3. s.bal[t] \in Nat
    BY <1>1
  <2> HIDE DEF new
  <2> QED
    BY <2>1, <2>2, <2>3, <1>3, <1>8
<1> QED
  BY <1>9, <1>10, <1>11

\* The accounts depend on these parts of the state only.
LEMMA SameAccounts ==
  ASSUME NEW s, NEW r, r.reward_info = s.reward_info,
         r.pool_info.reward_indexes = s.pool_info.reward_indexes,
         r.pool_info.total_bond_share = s.pool_info.total_bond_share
  PROVE  \A t : Slack(r, t) = Slack(s, t) /\ RewardOf(r.reward_info, t) = RewardOf(s.reward_info, t)
BY DEF Slack, Free

LEMMA AccountsType ==
  ASSUME NEW s, BondOK(s), NEW t \in Tokens
  PROVE  /\ s.pool_info.total_bond_share \in Nat /\ s.pool_info.reward_indexes[t] \in Nat
         /\ RewardOf(s.reward_info, t) \in RewardInfos /\ Free(s, t) \in Int /\ Slack(s, t) \in Int
<1>1. s.pool_info \in PoolInfos /\ s \in BondStates /\ One \in Nat
  BY BondFields, ProxyAssumption DEF BondOK
<1>2. RewardOf(s.reward_info, t) \in RewardInfos
  BY <1>1, RewardOfType
<1>3. Free(s, t) \in Int
  BY <1>2 DEF Free, RewardInfos
<1> QED
  BY <1>1, <1>2, <1>3 DEF Slack, PoolInfos

LEMMA OthersOnwards ==
  ASSUME NEW s, BondOK(s), config \in Configs, NEW r, r = reconcile_claimed_by_others(s)
  PROVE  BondOK(r) /\ Onwards(s, r) /\ r.gen = s.gen /\ r.bal = s.bal
<1>1. CASE r = s
  BY <1>1, AccountsType DEF Onwards
<1>2. CASE /\ s.pool_info.total_bond_share # 0
           /\ r = FollowGenerator(reconcile_rewards(s, ClaimedByOthers(s)))
  <2> DEFINE q == reconcile_rewards(s, ClaimedByOthers(s))
             net == ClaimedByOthers(s)
  <2>1. /\ BondOK(q) /\ q.gen = s.gen /\ q.bal = s.bal
        /\ q.pool_info.total_bond_share = s.pool_info.total_bond_share
        /\ \A t \in Tokens :
             /\ s.pool_info.reward_indexes[t] <= q.pool_info.reward_indexes[t]
             /\ Slack(s, t) <= Slack(q, t)
             /\ RewardOf(q.reward_info, t).reconciled_amount =
                  RewardOf(s.reward_info, t).reconciled_amount + net[t]
    <3>1. /\ net \in [Tokens -> Nat] /\ (net["astro"] > 0 => s.gen.amount > 0)
          /\ s.pool_info.total_bond_share > 0
      BY <1>2, AccountsType, AstroIsToken, ClaimedByOthersType
    <3> HIDE DEF net
    <3> QED
      BY <3>1, ReconcileOnwards DEF net
  <2>2. r = FollowGenerator(q)
    BY <1>2
  <2> HIDE DEF q
  <2>3. /\ BondOK(r) /\ r.gen = q.gen /\ r.bal = q.bal /\ r.reward_info = q.reward_info
        /\ r.pool_info.reward_indexes = q.pool_info.reward_indexes
        /\ r.pool_info.total_bond_share = q.pool_info.total_bond_share
    BY <2>1, <2>2, FollowKeeps
  <2>4. \A t : Slack(r, t) = Slack(q, t) /\ RewardOf(r.reward_info, t) = RewardOf(q.reward_info, t)
    BY <2>3, SameAccounts
  <2>5. \A t \in Tokens :
          /\ s.pool_info.reward_indexes[t] <= r.pool_info.reward_indexes[t]
          /\ Slack(s, t) <= Slack(r, t)
    BY <2>1, <2>3, <2>4
  <2>6. \A t \in Tokens :
          RewardOf(s.reward_info, t).reconciled_amount <= s.bal[t] =>
            RewardOf(r.reward_info, t).reconciled_amount <= r.bal[t]
    BY <2>1, <2>3, <2>4, ClaimedByOthersType
  <2> QED
    BY <2>1, <2>3, <2>5, <2>6 DEF Onwards
<1> QED
  BY <1>1, <1>2 DEF reconcile_claimed_by_others

\* The messages up to the first callback: whatever others claimed and whatever the
\* generator pays now is in the balance, and the shares are promised their part of it.
LEMMA ClaimedOnwards ==
  ASSUME NEW s, BondOK(s), config \in Configs, height \in Nat, CanClaim(s),
         NEW r, r = Claimed(s)
  PROVE  BondOK(r) /\ Onwards(s, r)
<1> DEFINE q == reconcile_claimed_by_others(s)
           g == GenClaim(q)
           net == [t \in Tokens |-> g.bal[t] - s.bal[t]]
           c == reconcile_rewards(g, net)
           f == FollowGenerator(c)
<1>1. BondOK(q) /\ Onwards(s, q) /\ q.gen = s.gen /\ q.bal = s.bal
  BY OthersOnwards
<1>2. CASE r = s
  BY <1>2, AccountsType DEF Onwards
<1>3. CASE s.gen.exists /\ ~ Reconciled(s) /\ r = callback_after_bond_claimed(GenClaim(q), s.bal)
  <2>1. \A t \in Tokens : s.bal[t] \in Nat /\ Owed(s.gen)[t] \in Nat
    BY BondFields, OwedType DEF BondOK
  <2>2. q.gen.amount \in Nat
    BY <1>1, BondFields DEF BondOK, Entries
  <2>3. /\ BondOK(g) /\ g.pool_info = q.pool_info /\ g.reward_info = q.reward_info
        /\ g.gen.amount = s.gen.amount
        /\ \A t \in Tokens : g.bal[t] = s.bal[t] + Owed(s.gen)[t]
    <3> DEFINE amount == q.gen.amount
    <3>1. g = GenSet(q, amount) /\ amount \in Nat
      BY <2>2 DEF GenClaim
    <3> HIDE DEF q, g, amount
    <3>2. BondOK(q)
      BY <1>1
    <3>3. /\ BondOK(g) /\ g.pool_info = q.pool_info /\ g.reward_info = q.reward_info
          /\ g.gen.amount = amount
          /\ \A t \in Tokens : g.bal[t] = q.bal[t] + Owed(q.gen)[t]
      BY <3>1, <3>2, GenSetPays
    <3> QED
      BY <1>1, <3>3 DEF amount
  <2>4. net = Owed(s.gen)
    <3>1. \A t \in Tokens : net[t] = Owed(s.gen)[t]
      BY <2>1, <2>3
    <3>2. Owed(s.gen) = [t \in Tokens |-> Owed(s.gen)[t]]
      BY DEF Owed
    <3> QED
      BY <3>1, <3>2
  <2>5. /\ net \in [Tokens -> Nat]
        /\ net["astro"] > 0 => g.gen.amount > 0
        /\ \A t \in Tokens : net[t] > 0 => g.pool_info.total_bond_share > 0
    <3>1. g.pool_info.total_bond_share = s.pool_info.total_bond_share
      BY <1>1, <2>3 DEF Onwards
    <3>2. s.pool_info.total_bond_share \in Nat
      BY BondFields DEF BondOK, PoolInfos
    <3>3. s.pool_info.total_bond_share = 0 => \A t \in Tokens : Owed(s.gen)[t] = 0
      BY <1>3 DEF CanClaim
    <3> HIDE DEF net
    <3> QED
      BY <2>3, <2>4, <3>1, <3>2, <3>3, OwedType
  <2> HIDE DEF net, g, q
  <2>6. /\ BondOK(c) /\ c.gen = g.gen /\ c.bal = g.bal
        /\ c.pool_info.total_bond_share = g.pool_info.total_bond_share
        /\ \A t \in Tokens :
             /\ g.pool_info.reward_indexes[t] <= c.pool_info.reward_indexes[t]
             /\ Slack(g, t) <= Slack(c, t)
             /\ RewardOf(c.reward_info, t).reconciled_amount =
                  RewardOf(g.reward_info, t).reconciled_amount + net[t]
    BY <2>3, <2>5, ReconcileOnwards
  <2>7. /\ BondOK(f) /\ f.gen = c.gen /\ f.bal = c.bal /\ f.reward_info = c.reward_info
        /\ f.pool_info.reward_indexes = c.pool_info.reward_indexes
        /\ f.pool_info.total_bond_share = c.pool_info.total_bond_share
    <3> HIDE DEF c
    <3> QED
      BY <2>6, FollowKeeps
  <2>8. r = [f EXCEPT !.pool_info.last_reconcile = height]
    BY <1>3, <2>3 DEF callback_after_bond_claimed, net, g
  <2> HIDE DEF c, f
  <2>9. /\ BondOK(r) /\ r.gen = f.gen /\ r.bal = f.bal /\ r.reward_info = f.reward_info
        /\ r.pool_info.reward_indexes = f.pool_info.reward_indexes
        /\ r.pool_info.total_bond_share = f.pool_info.total_bond_share
    <3>1. f \in BondStates /\ f.pool_info \in PoolInfos
      BY <2>7, BondFields DEF BondOK
    <3> DEFINE info == [f.pool_info EXCEPT !.last_reconcile = height]
    <3>2. /\ info \in PoolInfos /\ info.reward_indexes = f.pool_info.reward_indexes
          /\ info.total_bond_share = f.pool_info.total_bond_share
          /\ info.prev_index = f.pool_info.prev_index
      BY <3>1 DEF PoolInfos
    <3>3. r = [f EXCEPT !.pool_info = info]
      BY <2>8, <3>1 DEF BondStates
    <3> HIDE DEF info
    <3>4. /\ r \in BondStates /\ r.pool_info = info /\ r.gen = f.gen /\ r.bal = f.bal
          /\ r.reward_info = f.reward_info
      BY <3>1, <3>2, <3>3 DEF BondStates
    <3> QED
      BY <2>7, <3>2, <3>4 DEF BondOK, EntryOK
  <2>10. ASSUME NEW t \in Tokens
         PROVE  /\ s.pool_info.reward_indexes[t] <= r.pool_info.reward_indexes[t]
                /\ Slack(s, t) <= Slack(r, t)
                /\ RewardOf(s.reward_info, t).reconciled_amount <= s.bal[t] =>
                     RewardOf(r.reward_info, t).reconciled_amount <= r.bal[t]
    <3>1. Slack(r, t) = Slack(c, t) /\ RewardOf(r.reward_info, t) = RewardOf(c.reward_info, t)
      <4>1. Slack(f, t) = Slack(c, t) /\ RewardOf(f.reward_info, t) = RewardOf(c.reward_info, t)
        BY <2>7, SameAccounts
      <4>2. Slack(r, t) = Slack(f, t) /\ RewardOf(r.reward_info, t) = RewardOf(f.reward_info, t)
        BY <2>9, SameAccounts
      <4> QED
        BY <4>1, <4>2
    <3>2. Slack(g, t) = Slack(q, t) /\ RewardOf(g.reward_info, t) = RewardOf(q.reward_info, t)
      BY <2>3, SameAccounts
    <3>3. /\ \A x \in {s, q, c} :
               /\ x.pool_info.reward_indexes[t] \in Nat /\ Slack(x, t) \in Int
               /\ RewardOf(x.reward_info, t).reconciled_amount \in Nat
      BY <1>1, <2>6, AccountsType DEF RewardInfos
    <3>4. /\ s.pool_info.reward_indexes[t] <= q.pool_info.reward_indexes[t]
          /\ Slack(s, t) <= Slack(q, t)
          /\ RewardOf(s.reward_info, t).reconciled_amount <= s.bal[t] =>
               RewardOf(q.reward_info, t).reconciled_amount <= q.bal[t]
      BY <1>1 DEF Onwards
    <3>5. /\ q.pool_info.reward_indexes[t] <= c.pool_info.reward_indexes[t]
          /\ Slack(q, t) <= Slack(c, t)
          /\ RewardOf(c.reward_info, t).reconciled_amount =
               RewardOf(q.reward_info, t).reconciled_amount + Owed(s.gen)[t]
      BY <2>3, <2>4, <2>6, <3>2
    <3>6. r.bal[t] = s.bal[t] + Owed(s.gen)[t]
      BY <2>3, <2>6, <2>7, <2>9
    <3>7. r.pool_info.reward_indexes[t] = c.pool_info.reward_indexes[t]
      BY <2>7, <2>9
    <3> QED
      BY <3>1, <3>3, <3>4, <3>5, <3>6, <3>7, <2>1, <1>1
  <2>11. /\ r.pool_info.total_bond_share = s.pool_info.total_bond_share
         /\ r.gen.amount = s.gen.amount
    BY <1>1, <2>3, <2>6, <2>7, <2>9 DEF Onwards
  <2> QED
    BY <2>9, <2>10, <2>11 DEF Onwards
<1> QED
  BY <1>2, <1>3 DEF Claimed

-----------------------------------------------------------------------------
(* Accounts: pending rewards, and the index from which shares earn more.   *)

\* reconcile_to_user_info and reconcile_to_staker_info round down: what becomes pending
\* is not more than what b shares earn between the indexes i and j.
LEMMA Settled ==
  ASSUME NEW p \in Nat, NEW i \in Nat, NEW j \in Nat, NEW b \in Nat, i <= j,
         NEW q, q = p + ((j - i) * b) \div One
  PROVE  q \in Nat /\ q * One + i * b <= p * One + j * b
<1> DEFINE e == (j - i) * b
           n == e \div One
<1>1. One \in Nat \ {0}
  BY ProxyAssumption
<1>2. j - i \in Nat
  OBVIOUS
<1>3. e \in Nat
  BY <1>2, MulNat
<1>4. e + i * b = j * b
  OBVIOUS
<1>5. q = p + n
  OBVIOUS
<1> HIDE DEF e
<1>6. n \in Nat /\ n * One <= e
  BY <1>1, <1>3, DivDown
<1> HIDE DEF n
<1>7. q * One = p * One + n * One
  BY <1>1, <1>5, <1>6
<1>8. p * One \in Nat /\ n * One \in Nat /\ i * b \in Nat /\ j * b \in Nat
  BY <1>1, <1>6, MulNat
<1>9. q * One + i * b <= p * One + j * b
  BY <1>3, <1>4, <1>6, <1>7, <1>8
<1> QED
  BY <1>5, <1>6, <1>9

\* One account is settled: its index becomes j, part of what is pending is sent, and its
\* shares change from b to c.  Slack is what all accounts are covered by, less the index
\* times all shares.
LEMMA SettledStep ==
  ASSUME NEW p \in Nat, NEW i \in Nat, NEW j \in Nat, NEW b \in Nat, NEW c \in Nat, i <= j,
         NEW q, q = p + ((j - i) * b) \div One, NEW sent \in Nat,
         NEW slack \in Int, NEW slack2 \in Int, slack2 + sent * One + j * c = slack + j * b
  PROVE  (q - sent) * One + i * b + slack <= p * One + j * c + slack2
<1>1. q \in Nat /\ q * One + i * b <= p * One + j * b
  BY Settled
<1>2. One \in Nat
  BY ProxyAssumption
<1>3. (q - sent) * One = q * One - sent * One
  BY <1>1, <1>2
<1> DEFINE A == q * One
           B == i * b
           C == p * One
           D == j * b
           E == sent * One
           F == j * c
<1>4. A \in Nat /\ B \in Nat /\ C \in Nat /\ D \in Nat /\ E \in Nat /\ F \in Nat
  BY <1>1, <1>2, MulNat
<1>5. A + B <= C + D /\ slack2 + E + F = slack + D /\ (q - sent) * One = A - E
  BY <1>1, <1>3
<1> HIDE DEF A, B, C, D, E, F
<1>6. (A - E) + B + slack <= C + F + slack2
  BY <1>4, <1>5
<1> QED
  BY <1>5, <1>6 DEF B, C, F

\* The sums over all accounts S follow when only the credit (what is pending) and the
\* debit (index times shares) of u change.
LEMMA AccountSettles ==
  ASSUME NEW S, IsFiniteSet(S), NEW u \in S,
         NEW cr \in [S -> Nat], NEW cr2 \in [S -> Nat],
         NEW de \in [S -> Nat], NEW de2 \in [S -> Nat],
         \A v \in S \ {u} : cr2[v] = cr[v] /\ de2[v] = de[v],
         NEW owed \in Int, NEW slack \in Int, NEW slack2 \in Int,
         cr2[u] + de[u] + slack <= cr[u] + de2[u] + slack2,
         Total(cr) + owed <= slack + Total(de)
  PROVE  Total(cr2) + owed <= slack2 + Total(de2)
<1>1. Total(cr2) + cr[u] = Total(cr) + cr2[u] /\ Total(de2) + de[u] = Total(de) + de2[u]
  BY SumChange
<1>2. Total(cr) \in Nat /\ Total(cr2) \in Nat /\ Total(de) \in Nat /\ Total(de2) \in Nat
  BY SumType
<1>3. cr[u] \in Nat /\ cr2[u] \in Nat /\ de[u] \in Nat /\ de2[u] \in Nat
  OBVIOUS
<1> QED
  BY <1>1, <1>2, <1>3

\* What the accounts can claim: one that has b shares at an old index can claim w, rounded
\* down, at the index j.
LEMMA ClaimsBounded ==
  ASSUME NEW S, IsFiniteSet(S), NEW cr \in [S -> Nat], NEW de \in [S -> Nat],
         NEW w \in [S -> Nat], NEW b \in [S -> Nat], NEW j \in Nat,
         \A u \in S : w[u] * One + de[u] <= cr[u] + j * b[u]
  PROVE  Total(w) * One <= Total(cr) + j * Total(b) - Total(de)
<1> DEFINE wOne == [u \in S |-> One * w[u]]
           jb == [u \in S |-> j * b[u]]
           left == [u \in S |-> wOne[u] + de[u]]
           right == [u \in S |-> cr[u] + jb[u]]
<1>1. One \in Nat \ {0}
  BY ProxyAssumption
<1>2. wOne \in [S -> Nat] /\ jb \in [S -> Nat]
  BY <1>1, MulNat
<1>3. Total(wOne) = One * Total(w) /\ Total(jb) = j * Total(b)
  BY <1>1, SumScale
<1>4. \A u \in S : wOne[u] + de[u] <= cr[u] + jb[u]
  <2> TAKE u \in S
  <2>1. w[u] \in Nat /\ One * w[u] = w[u] * One
    BY <1>1
  <2> QED
    BY <2>1
<1> HIDE DEF wOne, jb
<1>5. left \in [S -> Nat] /\ right \in [S -> Nat] /\ \A u \in S : left[u] <= right[u]
  BY <1>2, <1>4
<1>6. Total(left) = Total(wOne) + Total(de) /\ Total(right) = Total(cr) + Total(jb)
  <2>1. \A u \in S : left[u] = wOne[u] + de[u] /\ right[u] = cr[u] + jb[u]
    OBVIOUS
  <2> HIDE DEF left, right
  <2> QED
    BY <2>1, <1>2, <1>5, SumAdd
<1>7. Total(left) <= Total(right)
  <2> HIDE DEF left, right
  <2> QED
    BY <1>5, SumMono
<1>8. /\ Total(w) \in Nat /\ Total(b) \in Nat /\ Total(cr) \in Nat /\ Total(de) \in Nat
      /\ Total(wOne) \in Nat /\ Total(jb) \in Nat
  BY <1>2, SumType
<1>9. One * Total(w) = Total(w) * One
  BY <1>1, <1>8
<1>10. Total(wOne) <= Total(cr) + Total(jb) - Total(de)
  BY <1>6, <1>7, <1>8
<1> QED
  BY <1>3, <1>9, <1>10

-----------------------------------------------------------------------------
(* Users.                                                                  *)

SharesIn(accounts) ==
  [u \in Users |-> IF u \in DOMAIN accounts THEN accounts[u].bond_share ELSE 0]
Credits(users, t) ==
  [u \in Users |-> IF u \in DOMAIN users THEN users[u].pending_rewards[t] * One ELSE 0]
Debits(users, t) ==
  [u \in Users |-> IF u \in DOMAIN users
                   THEN users[u].reward_indexes[t] * users[u].bond_share ELSE 0]

UsersOK(users, pool) ==
  /\ DOMAIN users \subseteq Users
  /\ \A u \in DOMAIN users :
       /\ users[u] \in UserInfos
       /\ \A t \in Tokens : users[u].reward_indexes[t] <= pool.reward_indexes[t]

\* The users' rewards of a token, and owed to the stakers, are covered.
Covered(users, s, t, owed) ==
  Total(Credits(users, t)) + owed <= Slack(s, t) + Total(Debits(users, t))

LEMMA UserSumsType ==
  ASSUME NEW users, NEW pool, UsersOK(users, pool), NEW t \in Tokens
  PROVE  /\ SharesIn(users) \in [Users -> Nat] /\ Credits(users, t) \in [Users -> Nat]
         /\ Debits(users, t) \in [Users -> Nat]
<1>1. One \in Nat
  BY ProxyAssumption
<1>2. \A u \in DOMAIN users : /\ users[u].bond_share \in Nat /\ users[u].reward_indexes[t] \in Nat
                              /\ users[u].pending_rewards[t] \in Nat
  BY DEF UsersOK, UserInfos
<1>3. \A u \in DOMAIN users : /\ users[u].pending_rewards[t] * One \in Nat
                              /\ users[u].reward_indexes[t] * users[u].bond_share \in Nat
  BY <1>1, <1>2, MulNat
<1> QED
  BY <1>2, <1>3 DEF SharesIn, Credits, Debits

\* The user u, who was old, is settled by reconcile_to_user_info at the indexes of s and
\* becomes user; sent leaves what is pending and what is reconciled, and the shares of the
\* user become c.
UserIsSettled(s, s2, users, users2, u, old, user, c, sent) ==
  /\ BondOK(s) /\ BondOK(s2) /\ UsersOK(users, s.pool_info) /\ u \in Users
  /\ old \in UserInfos
  /\ \A t \in Tokens : old.reward_indexes[t] <= s.pool_info.reward_indexes[t]
  /\ IF u \in DOMAIN users THEN old = users[u]
     ELSE old.bond_share = 0 /\ \A t \in Tokens : old.pending_rewards[t] = 0
  /\ user = reconcile_to_user_info(s.pool_info, old)
  /\ c \in Nat /\ sent \in [Tokens -> Nat]
  /\ \A t \in Tokens : sent[t] <= user.pending_rewards[t]
  /\ DOMAIN users2 = DOMAIN users \cup {u}
  /\ \A v \in DOMAIN users \ {u} : users2[v] = users[v]
  /\ users2[u] = [bond_share |-> c, reward_indexes |-> s.pool_info.reward_indexes,
                  pending_rewards |-> [t \in Tokens |-> user.pending_rewards[t] - sent[t]]]
  /\ s2.pool_info.reward_indexes = s.pool_info.reward_indexes
  /\ s2.pool_info.total_bond_share + old.bond_share = s.pool_info.total_bond_share + c
  /\ \A t \in Tokens : Free(s2, t) + sent[t] = Free(s, t)

LEMMA UserSettles ==
  ASSUME NEW s, NEW s2, NEW users, NEW users2, NEW u, NEW old, NEW user, NEW c, NEW sent,
         UserIsSettled(s, s2, users, users2, u, old, user, c, sent)
  PROVE  /\ UsersOK(users2, s2.pool_info)
         /\ Total(SharesIn(users2)) + old.bond_share = Total(SharesIn(users)) + c
         /\ \A t \in Tokens : \A owed \in Int :
              Covered(users, s, t, owed) => Covered(users2, s2, t, owed)
<1> USE DEF UserIsSettled
<1> DEFINE b == old.bond_share
           p(t) == old.pending_rewards[t]
           i(t) == old.reward_indexes[t]
           j(t) == s.pool_info.reward_indexes[t]
           q(t) == p(t) + ((j(t) - i(t)) * b) \div One
<1>1. /\ One \in Nat \ {0} /\ IsFiniteSet(Users)
      /\ b \in Nat /\ s.pool_info.reward_indexes \in [Tokens -> Nat]
  BY ProxyAssumption, BondFields DEF UserInfos, BondOK, PoolInfos
<1>2. \A t \in Tokens : p(t) \in Nat /\ i(t) \in Nat /\ j(t) \in Nat /\ i(t) <= j(t)
  BY <1>1 DEF UserInfos
<1>3. \A t \in Tokens : user.pending_rewards[t] = q(t)
  BY DEF reconcile_to_user_info, UserInfos
<1>4. \A t \in Tokens : q(t) \in Nat
  <2> TAKE t \in Tokens
  <2> HIDE DEF p, i, j, b
  <2> QED
    BY <1>1, <1>2, Settled
<1>5. \A t \in Tokens : sent[t] \in Nat /\ sent[t] <= q(t)
  <2> HIDE DEF q
  <2> QED
    BY <1>3
<1> DEFINE pending == [t \in Tokens |-> user.pending_rewards[t] - sent[t]]
<1>6. pending \in [Tokens -> Nat] /\ \A t \in Tokens : pending[t] = q(t) - sent[t]
  <2> HIDE DEF q
  <2> QED
    BY <1>3, <1>4, <1>5
<1>7. users2[u] = [bond_share |-> c, reward_indexes |-> s.pool_info.reward_indexes,
                   pending_rewards |-> pending]
  OBVIOUS
<1> HIDE DEF pending, q
<1>8. UsersOK(users2, s2.pool_info)
  <2>1. \A v \in DOMAIN users2 :
          /\ users2[v] \in UserInfos
          /\ \A t \in Tokens : users2[v].reward_indexes[t] <= s.pool_info.reward_indexes[t]
    <3> TAKE v \in DOMAIN users2
    <3>1. CASE v = u
      BY <3>1, <1>1, <1>2, <1>6, <1>7 DEF UserInfos
    <3>2. CASE v # u
      BY <3>2 DEF UsersOK
    <3> QED
      BY <3>1, <3>2
  <2>2. DOMAIN users2 \subseteq Users
    BY DEF UsersOK
  <2> QED
    BY <2>1, <2>2 DEF UsersOK
<1>9. /\ SharesIn(users)[u] = b /\ SharesIn(users2)[u] = c
      /\ \A v \in Users \ {u} : SharesIn(users2)[v] = SharesIn(users)[v]
  BY <1>7 DEF SharesIn
<1>10. Total(SharesIn(users2)) + b = Total(SharesIn(users)) + c
  <2>1. SharesIn(users) \in [Users -> Nat] /\ SharesIn(users2) \in [Users -> Nat]
    BY <1>8, UserSumsType, AstroIsToken
  <2> HIDE DEF b
  <2> QED
    BY <2>1, <1>1, <1>9, SumChange
<1>11. ASSUME NEW t \in Tokens, NEW owed \in Int, Covered(users, s, t, owed)
       PROVE  Covered(users2, s2, t, owed)
  <2> DEFINE cr == Credits(users, t)
             de == Debits(users, t)
             cr2 == Credits(users2, t)
             de2 == Debits(users2, t)
             pt == p(t)
             it == i(t)
             jt == j(t)
             qt == q(t)
             n == sent[t]
  <2>1. /\ cr \in [Users -> Nat] /\ de \in [Users -> Nat]
        /\ cr2 \in [Users -> Nat] /\ de2 \in [Users -> Nat]
    BY <1>8, UserSumsType
  <2>2. \A v \in Users \ {u} : cr2[v] = cr[v] /\ de2[v] = de[v]
    BY DEF Credits, Debits
  <2>3. cr[u] = pt * One /\ de[u] = it * b
    <3>1. CASE u \in DOMAIN users
      BY <3>1 DEF Credits, Debits
    <3>2. CASE u \notin DOMAIN users
      <4>1. pt = 0 /\ b = 0
        BY <3>2
      <4>2. cr[u] = 0 /\ de[u] = 0
        BY <3>2 DEF Credits, Debits
      <4>3. pt * One = 0 /\ it * b = 0
        BY <4>1, <1>1, <1>2
      <4> QED
        BY <4>2, <4>3
    <3> QED
      BY <3>1, <3>2
  <2>4. cr2[u] = (qt - n) * One /\ de2[u] = jt * c
    <3>1. users2[u].pending_rewards[t] = qt - n
      BY <1>6, <1>7
    <3>2. users2[u].reward_indexes[t] = jt /\ users2[u].bond_share = c
      BY <1>7
    <3>3. u \in DOMAIN users2
      OBVIOUS
    <3> HIDE DEF qt, jt, n
    <3> QED
      BY <3>1, <3>2, <3>3 DEF Credits, Debits
  <2>5. /\ pt \in Nat /\ it \in Nat /\ jt \in Nat /\ it <= jt /\ n \in Nat /\ n <= qt
        /\ qt = pt + ((jt - it) * b) \div One
    BY <1>2, <1>5 DEF q
  <2>6. /\ Slack(s, t) \in Int /\ Slack(s2, t) \in Int /\ Free(s, t) \in Int /\ Free(s2, t) \in Int
        /\ s.pool_info.total_bond_share \in Nat /\ s2.pool_info.total_bond_share \in Nat
    BY AccountsType
  <2>7. Slack(s2, t) + n * One + jt * c = Slack(s, t) + jt * b
    <3> DEFINE T == s.pool_info.total_bond_share
               T2 == s2.pool_info.total_bond_share
               F == Free(s, t)
               F2 == Free(s2, t)
    <3>1. Slack(s, t) = F * One - jt * T /\ Slack(s2, t) = F2 * One - jt * T2
      BY DEF Slack
    <3>2. T2 + b = T + c /\ F2 + n = F
      OBVIOUS
    <3>3. T \in Nat /\ T2 \in Nat /\ F \in Int /\ F2 \in Int
      BY <2>6
    <3> HIDE DEF T, T2, F, F2, jt, n, b
    <3>4. jt * T2 + jt * b = jt * T + jt * c
      <4>1. jt * (T2 + b) = jt * T2 + jt * b /\ jt * (T + c) = jt * T + jt * c
        BY <3>3, <2>5, <1>1
      <4> QED
        BY <4>1, <3>2
    <3>5. F * One = F2 * One + n * One
      BY <3>2, <3>3, <2>5, <1>1
    <3>6. /\ F * One \in Int /\ F2 * One \in Int /\ n * One \in Int /\ jt * T \in Int
          /\ jt * T2 \in Int /\ jt * b \in Int /\ jt * c \in Int
      BY <3>3, <2>5, <1>1
    <3> QED
      BY <3>1, <3>4, <3>5, <3>6
  <2>8. Total(cr) + owed <= Slack(s, t) + Total(de)
    BY <1>11 DEF Covered
  <2> DEFINE slack == Slack(s, t)
             slack2 == Slack(s2, t)
  <2> HIDE DEF cr, de, cr2, de2, pt, it, jt, qt, n, b, slack, slack2
  <2>9. (qt - n) * One + it * b + slack <= pt * One + jt * c + slack2
    BY <2>5, <2>6, <2>7, <1>1, SettledStep DEF slack, slack2
  <2>10. cr2[u] + de[u] + slack <= cr[u] + de2[u] + slack2
    BY <2>3, <2>4, <2>9
  <2>11. slack \in Int /\ slack2 \in Int /\ Total(cr) + owed <= slack + Total(de)
    BY <2>6, <2>8 DEF slack, slack2
  <2>12. Total(cr2) + owed <= slack2 + Total(de2)
    BY <2>1, <2>2, <2>10, <2>11, <1>1, AccountSettles
  <2> QED
    BY <2>12 DEF cr2, de2, slack2, Covered
<1> QED
  BY <1>8, <1>10, <1>11

-----------------------------------------------------------------------------
(* The invariant of the LP tokens.                                         *)

\* The stored state is one that a chain may start from; POOL_INFO counts the shares of the
\* users, whose indexes are old ones.
BondInv ==
  /\ config \in Configs /\ height \in Nat
  /\ BondOK(Bond)
  /\ UsersOK(user_info, pool_info)
  /\ pool_info.total_bond_share = Total(SharesIn(user_info))

\* Every token's rewards are in the account and cover the users and what is owed to
\* the stakers.
CoverInv(owed) ==
  \A t \in Tokens :
    /\ RewardOf(reward_info, t).reconciled_amount <= bal[t]
    /\ Covered(user_info, Bond, t, IF t = "astro" THEN owed ELSE 0)

\* Shares are bought at no less and sold at no more than their part of the pool.
BoughtShare(pool, total_bond_amount, amount) ==
  calc_bond_share(pool, total_bond_amount, amount, FALSE)

LEMMA BoughtShareRounds ==
  ASSUME NEW pool, NEW T \in Nat, T = pool.total_bond_share, NEW total \in Nat, NEW amount \in Nat,
         NEW share, share = BoughtShare(pool, total, amount)
  PROVE  /\ share \in Nat
         /\ T > 0 => share * total <= amount * T
         /\ T = 0 \/ total = 0 => share = amount
<1> DEFINE n == amount * T
<1>1. share = IF T = 0 \/ total = 0 THEN amount ELSE n \div total
  BY Zenon DEF BoughtShare, calc_bond_share
<1>2. n \in Nat /\ (T = 0 => n = 0)
  BY MulNat
<1> HIDE DEF n
<1>3. CASE T = 0 \/ total = 0
  <2>1. amount * 0 = 0
    OBVIOUS
  <2> QED
    BY <1>1, <1>2, <1>3, <2>1 DEF n
<1>4. CASE T > 0 /\ total > 0
  <2>1. share \in Nat /\ share * total <= n
    BY <1>1, <1>2, <1>4, DivDown
  <2> QED
    BY <2>1, <1>4 DEF n
<1> QED
  BY <1>3, <1>4

ShareIsSold(T, total, amount, share) ==
  /\ share \in Nat
  /\ T > 0 /\ total > 0 => amount * T <= share * total
  /\ T = 0 \/ total = 0 => share = amount

LEMMA WithdrawnShareRounds ==
  ASSUME NEW pool, NEW T \in Nat, T = pool.total_bond_share, NEW total \in Nat, NEW amount \in Nat,
         NEW share, share = WithdrawnShare(pool, total, amount)
  PROVE  ShareIsSold(T, total, amount, share)
<1> DEFINE n == amount * T
<1>1. share = IF T = 0 \/ total = 0 THEN amount ELSE Ceil(n, total)
  BY Zenon DEF WithdrawnShare, calc_bond_share
<1>2. n \in Nat
  BY MulNat
<1> HIDE DEF n
<1>3. CASE T = 0 \/ total = 0
  BY <1>1, <1>3 DEF ShareIsSold
<1>4. CASE T > 0 /\ total > 0
  <2>1. share \in Nat /\ n <= share * total
    BY <1>1, <1>2, <1>4, CeilUp
  <2> QED
    BY <2>1, <1>4 DEF ShareIsSold, n
<1> QED
  BY <1>3, <1>4

\* The stored state becomes that of the chain.
LEMMA BecomesBond ==
  ASSUME NEW r, r \in BondStates, BecomeBond(r)
  PROVE  Bond' = r
BY BondFields DEF BecomeBond, Bond

\* The deposit or the withdrawal itself.
LEMMA BondChanges ==
  ASSUME NEW s, BondOK(s), NEW amount \in Nat, NEW r, r = callback_after_bond_changed(s, amount)
  PROVE  /\ BondOK(r) /\ r.reward_info = s.reward_info
         /\ r.pool_info.reward_indexes = s.pool_info.reward_indexes
         /\ r.pool_info.total_bond_share = s.pool_info.total_bond_share
         /\ r.gen.amount = amount
         /\ \A t \in Tokens : s.bal[t] <= r.bal[t]
<1> DEFINE g == GenSet(s, amount)
<1>1. /\ BondOK(g) /\ g.pool_info = s.pool_info /\ g.reward_info = s.reward_info
      /\ g.gen.amount = amount
      /\ \A t \in Tokens : g.bal[t] = s.bal[t] + Owed(s.gen)[t]
  BY GenSetPays
<1>2. r = FollowGenerator(g)
  BY DEF callback_after_bond_changed
<1> HIDE DEF g
<1>3. /\ BondOK(r) /\ r.gen = g.gen /\ r.bal = g.bal /\ r.reward_info = g.reward_info
      /\ r.pool_info.reward_indexes = g.pool_info.reward_indexes
      /\ r.pool_info.total_bond_share = g.pool_info.total_bond_share
  BY <1>1, <1>2, FollowKeeps
<1>4. \A t \in Tokens : s.bal[t] \in Nat /\ Owed(s.gen)[t] \in Nat
  BY BondFields, OwedType DEF BondOK
<1>5. \A t \in Tokens : s.bal[t] <= r.bal[t]
  BY <1>1, <1>3, <1>4
<1> QED
  BY <1>1, <1>3, <1>5

\* A claim before anything else, seen from the stored accounts.
LEMMA ClaimKeepsCover ==
  ASSUME BondInv, NEW owed \in Int, CoverInv(owed), CanClaim(Bond), NEW s, s = Claimed(Bond)
  PROVE  /\ BondOK(s)
         /\ s.pool_info.total_bond_share = pool_info.total_bond_share
         /\ s.gen.amount = gen.amount
         /\ UsersOK(user_info, s.pool_info)
         /\ \A t \in Tokens :
              /\ RewardOf(s.reward_info, t).reconciled_amount <= s.bal[t]
              /\ Covered(user_info, s, t, IF t = "astro" THEN owed ELSE 0)
<1>1. BondOK(s) /\ Onwards(Bond, s)
  BY ClaimedOnwards DEF BondInv
<1>2. /\ Bond.pool_info = pool_info /\ Bond.reward_info = reward_info /\ Bond.gen = gen
      /\ Bond.bal = bal
  BY DEF Bond
<1>3. /\ s.pool_info.total_bond_share = pool_info.total_bond_share
      /\ s.gen.amount = gen.amount
      /\ \A t \in Tokens : /\ pool_info.reward_indexes[t] <= s.pool_info.reward_indexes[t]
                           /\ Slack(Bond, t) <= Slack(s, t)
                           /\ RewardOf(s.reward_info, t).reconciled_amount <= s.bal[t]
  BY <1>1, <1>2 DEF Onwards, CoverInv
<1>4. UsersOK(user_info, s.pool_info)
  <2>1. ASSUME NEW u \in DOMAIN user_info, NEW t \in Tokens
        PROVE  user_info[u].reward_indexes[t] <= s.pool_info.reward_indexes[t]
    <3>1. /\ user_info[u].reward_indexes[t] \in Nat
          /\ user_info[u].reward_indexes[t] <= pool_info.reward_indexes[t]
      BY DEF BondInv, UsersOK, UserInfos
    <3>2. pool_info.reward_indexes[t] \in Nat /\ s.pool_info.reward_indexes[t] \in Nat
      BY <1>1, <1>2, AccountsType DEF BondInv
    <3> QED
      BY <1>3, <3>1, <3>2
  <2> QED
    BY <2>1 DEF BondInv, UsersOK
<1>5. ASSUME NEW t \in Tokens
      PROVE  Covered(user_info, s, t, IF t = "astro" THEN owed ELSE 0)
  <2> DEFINE o == IF t = "astro" THEN owed ELSE 0
  <2>1. Slack(Bond, t) \in Int /\ Slack(s, t) \in Int /\ Slack(Bond, t) <= Slack(s, t)
    BY <1>1, <1>3, AccountsType DEF BondInv
  <2>2. Total(Credits(user_info, t)) \in Nat /\ Total(Debits(user_info, t)) \in Nat
    BY <1>4, UserSumsType, SumType, ProxyAssumption
  <2>3. o \in Int /\ Covered(user_info, Bond, t, o)
    BY DEF CoverInv
  <2> HIDE DEF o
  <2>4. Covered(user_info, s, t, o)
    BY <2>1, <2>2, <2>3 DEF Covered
  <2> QED
    BY <2>4 DEF o
<1> QED
  BY <1>1, <1>3, <1>4, <1>5

\* A user after reconcile_to_user_info.
LEMMA ReconciledUser ==
  ASSUME NEW s, BondOK(s), NEW old \in UserInfos,
         \A t \in Tokens : old.reward_indexes[t] <= s.pool_info.reward_indexes[t],
         NEW user, user = reconcile_to_user_info(s.pool_info, old)
  PROVE  /\ user.pending_rewards \in [Tokens -> Nat]
         /\ user = [bond_share |-> old.bond_share, reward_indexes |-> s.pool_info.reward_indexes,
                    pending_rewards |-> user.pending_rewards]
<1> DEFINE pending == [t \in Tokens |-> old.pending_rewards[t] +
               ((s.pool_info.reward_indexes[t] - old.reward_indexes[t]) * old.bond_share) \div One]
<1>1. user = [old EXCEPT !.pending_rewards = pending, !.reward_indexes = s.pool_info.reward_indexes]
  BY DEF reconcile_to_user_info, UserInfos
<1>2. pending \in [Tokens -> Nat]
  <2>1. ASSUME NEW t \in Tokens PROVE pending[t] \in Nat
    <3>1. /\ old.pending_rewards[t] \in Nat /\ old.reward_indexes[t] \in Nat
          /\ old.bond_share \in Nat /\ s.pool_info.reward_indexes[t] \in Nat
      BY AccountsType DEF UserInfos
    <3> QED
      BY <3>1, Settled
  <2> QED
    BY <2>1
<1> HIDE DEF pending
<1> QED
  BY <1>1, <1>2 DEF UserInfos

\* The stored accounts after a chain that ends in r and settles the user u.
LEMMA BondStepKeeps ==
  ASSUME BondInv, NEW owed \in Int, NEW s, NEW r, NEW u, NEW old, NEW user, NEW c, NEW sent,
         UserIsSettled(s, r, user_info, user_info', u, old, user, c, sent),
         BecomeBond(r), config' = config, height' = height,
         s.pool_info.total_bond_share = pool_info.total_bond_share,
         \A t \in Tokens :
           /\ RewardOf(r.reward_info, t).reconciled_amount <= r.bal[t]
           /\ Covered(user_info, s, t, IF t = "astro" THEN owed ELSE 0)
  PROVE  /\ BondInv' /\ CoverInv(owed)' /\ Bond' = r
         /\ SharesIn(user_info)'[u] = c /\ SharesIn(user_info)[u] = old.bond_share
         /\ \A v \in Users \ {u} : SharesIn(user_info)'[v] = SharesIn(user_info)[v]
<1>1. /\ UsersOK(user_info', r.pool_info)
      /\ Total(SharesIn(user_info')) + old.bond_share = Total(SharesIn(user_info)) + c
      /\ \A t \in Tokens : \A o \in Int :
           Covered(user_info, s, t, o) => Covered(user_info', r, t, o)
  BY UserSettles
<1>2. BondOK(r) /\ Bond' = r
  BY BecomesBond DEF UserIsSettled, BondOK
<1>3. /\ pool_info' = r.pool_info /\ reward_info' = r.reward_info /\ bal' = r.bal
  BY DEF BecomeBond
<1>4. /\ old.bond_share \in Nat /\ c \in Nat
      /\ r.pool_info.total_bond_share + old.bond_share = s.pool_info.total_bond_share + c
      /\ r.pool_info.total_bond_share \in Nat
  BY <1>2, AccountsType, AstroIsToken DEF UserIsSettled, UserInfos
<1>5. Total(SharesIn(user_info)) \in Nat /\ Total(SharesIn(user_info')) \in Nat
  BY <1>1, UserSumsType, SumType, ProxyAssumption, AstroIsToken DEF BondInv
<1>6. r.pool_info.total_bond_share = Total(SharesIn(user_info'))
  BY <1>1, <1>4, <1>5 DEF BondInv
<1>7. SharesIn(user_info)' = SharesIn(user_info')
  BY DEF SharesIn
<1>8. BondInv'
  BY <1>1, <1>2, <1>3, <1>6, <1>7 DEF BondInv
<1>9. CoverInv(owed)'
  <2>1. ASSUME NEW t \in Tokens
        PROVE  Covered(user_info', r, t, IF t = "astro" THEN owed ELSE 0)
    <3>1. (IF t = "astro" THEN owed ELSE 0) \in Int
      OBVIOUS
    <3> QED
      BY <1>1, <3>1
  <2>2. \A t \in Tokens : Covered(user_info, Bond, t, IF t = "astro" THEN owed ELSE 0)'
                            <=> Covered(user_info', r, t, IF t = "astro" THEN owed ELSE 0)
    BY <1>2, Zenon DEF Covered, Credits, Debits, Slack, Free
  <2> QED
    BY <1>3, <2>1, <2>2 DEF CoverInv
<1>10. u \in Users /\ SharesIn(user_info)[u] = old.bond_share
  BY DEF UserIsSettled, SharesIn
<1>11. /\ SharesIn(user_info')[u] = c
       /\ \A v \in Users \ {u} : SharesIn(user_info')[v] = SharesIn(user_info)[v]
  <2>1. /\ DOMAIN user_info' = DOMAIN user_info \cup {u}
        /\ \A v \in DOMAIN user_info \ {u} : user_info'[v] = user_info[v]
        /\ user_info'[u].bond_share = c
    BY DEF UserIsSettled
  <2> QED
    BY <2>1, <1>10 DEF SharesIn
<1> QED
  BY <1>2, <1>7, <1>8, <1>9, <1>10, <1>11

\* Deposit: the new shares cost at least their part of the pool, and the accounts stay
\* covered.
LEMMA DepositKeeps ==
  ASSUME BondInv, NEW owed \in Int, CoverInv(owed), NEW u \in Users, NEW amount \in Nat,
         execute_deposit(u, amount)
  PROVE  /\ BondInv' /\ CoverInv(owed)'
         /\ gen'.amount = gen.amount + amount
         /\ \E share \in Nat :
              /\ pool_info.total_bond_share > 0 =>
                   share * gen.amount <= amount * pool_info.total_bond_share
              /\ SharesIn(user_info)'[u] = SharesIn(user_info)[u] + share
              /\ \A v \in Users \ {u} : SharesIn(user_info)'[v] = SharesIn(user_info)[v]
<1> DEFINE s == Claimed(Bond)
           share == BoughtShare(s.pool_info, s.gen.amount, amount)
           old == UserOf(s.pool_info, u)
           user == reconcile_to_user_info(s.pool_info, old)
           s3 == [s EXCEPT !.pool_info.exists = TRUE, !.pool_info.total_bond_share = @ + share]
           r == callback_after_bond_changed(s3, s.gen.amount + amount)
           new == [user EXCEPT !.bond_share = @ + share]
           c == old.bond_share + share
           nothing == [t \in Tokens |-> 0]
<1>1. /\ CanClaim(Bond) /\ BecomeBond(r) /\ user_info' = Saved(user_info, u, new)
      /\ config' = config /\ height' = height
  BY Zenon DEF execute_deposit, BoughtShare, chainVars
<1>2. /\ BondOK(s)
      /\ s.pool_info.total_bond_share = pool_info.total_bond_share
      /\ s.gen.amount = gen.amount
      /\ UsersOK(user_info, s.pool_info)
      /\ \A t \in Tokens :
           /\ RewardOf(s.reward_info, t).reconciled_amount <= s.bal[t]
           /\ Covered(user_info, s, t, IF t = "astro" THEN owed ELSE 0)
  BY <1>1, ClaimKeepsCover
<1>3. /\ old = IF u \in DOMAIN user_info THEN user_info[u] ELSE NewUser(s.pool_info)
  BY DEF UserOf
<1> HIDE DEF s
<1>4. /\ s \in BondStates /\ s.pool_info \in PoolInfos /\ s.gen.amount \in Nat
      /\ s.pool_info.total_bond_share \in Nat /\ s.pool_info.reward_indexes \in [Tokens -> Nat]
      /\ s.bal \in [Tokens -> Nat]
  BY <1>2, BondFields DEF BondOK, Entries, PoolInfos
<1>5. share \in Nat /\ (pool_info.total_bond_share > 0 =>
                          share * gen.amount <= amount * pool_info.total_bond_share)
  <2> DEFINE T == s.pool_info.total_bond_share
             total == s.gen.amount
  <2>1. T \in Nat /\ total \in Nat /\ share = BoughtShare(s.pool_info, total, amount)
    BY <1>4
  <2> HIDE DEF share, total
  <2>2. share \in Nat /\ (T > 0 => share * total <= amount * T)
    BY <2>1, BoughtShareRounds
  <2> QED
    BY <2>2, <1>2 DEF total
<1> HIDE DEF share
<1>6. /\ old \in UserInfos
      /\ \A t \in Tokens : old.reward_indexes[t] <= s.pool_info.reward_indexes[t]
      /\ IF u \in DOMAIN user_info THEN old = user_info[u]
         ELSE old.bond_share = 0 /\ \A t \in Tokens : old.pending_rewards[t] = 0
  <2>1. CASE u \in DOMAIN user_info
    BY <2>1, <1>2, <1>3 DEF UsersOK
  <2>2. CASE u \notin DOMAIN user_info
    <3>1. old = [bond_share |-> 0, reward_indexes |-> s.pool_info.reward_indexes,
                 pending_rewards |-> [t \in Tokens |-> 0]]
      BY <2>2, <1>3 DEF NewUser
    <3>2. \A t \in Tokens : s.pool_info.reward_indexes[t] \in Nat
      BY <1>4
    <3> HIDE DEF old
    <3> QED
      BY <2>2, <3>1, <3>2, <1>4 DEF UserInfos
  <2> QED
    BY <2>1, <2>2
<1> HIDE DEF old
<1>7. /\ user.pending_rewards \in [Tokens -> Nat]
      /\ user = [bond_share |-> old.bond_share, reward_indexes |-> s.pool_info.reward_indexes,
                 pending_rewards |-> user.pending_rewards]
  BY <1>2, <1>6, ReconciledUser
<1>8. c \in Nat /\ old.bond_share \in Nat
  BY <1>5, <1>6 DEF UserInfos
<1>9. new = [bond_share |-> c, reward_indexes |-> s.pool_info.reward_indexes,
             pending_rewards |-> [t \in Tokens |-> user.pending_rewards[t] - nothing[t]]]
  <2>1. user.pending_rewards = [t \in Tokens |-> user.pending_rewards[t] - nothing[t]]
    BY <1>7
  <2> HIDE DEF user, nothing
  <2>2. new = [bond_share |-> c, reward_indexes |-> s.pool_info.reward_indexes,
               pending_rewards |-> user.pending_rewards]
    BY <1>7
  <2> QED
    BY <2>1, <2>2
<1>10. /\ BondOK(s3) /\ s3.reward_info = s.reward_info /\ s3.bal = s.bal
       /\ s3.pool_info.reward_indexes = s.pool_info.reward_indexes
       /\ s3.pool_info.total_bond_share = s.pool_info.total_bond_share + share
  <2> DEFINE info == [s.pool_info EXCEPT !.exists = TRUE,
                        !.total_bond_share = s.pool_info.total_bond_share + share]
  <2>1. s.pool_info.total_bond_share + share \in Nat
    BY <1>4, <1>5
  <2>2. /\ info \in PoolInfos /\ info.reward_indexes = s.pool_info.reward_indexes
        /\ info.total_bond_share = s.pool_info.total_bond_share + share
        /\ info.prev_index = s.pool_info.prev_index
    BY <1>4, <2>1 DEF PoolInfos
  <2>3. s3 = [s EXCEPT !.pool_info = info]
    BY <1>4 DEF BondStates, PoolInfos
  <2> HIDE DEF info, s3
  <2>4. /\ s3 \in BondStates /\ s3.pool_info = info /\ s3.gen = s.gen /\ s3.bal = s.bal
        /\ s3.reward_info = s.reward_info
    BY <1>4, <2>2, <2>3 DEF BondStates
  <2> QED
    BY <1>2, <2>2, <2>4 DEF BondOK, EntryOK
<1> HIDE DEF s3, user, new
<1>11. /\ BondOK(r) /\ r.reward_info = s3.reward_info
       /\ r.pool_info.reward_indexes = s3.pool_info.reward_indexes
       /\ r.pool_info.total_bond_share = s3.pool_info.total_bond_share
       /\ r.gen.amount = s.gen.amount + amount
       /\ \A t \in Tokens : s3.bal[t] <= r.bal[t]
  <2> DEFINE n == s.gen.amount + amount
  <2>1. n \in Nat /\ r = callback_after_bond_changed(s3, n)
    BY <1>4
  <2> HIDE DEF n, r
  <2>2. /\ BondOK(r) /\ r.reward_info = s3.reward_info
        /\ r.pool_info.reward_indexes = s3.pool_info.reward_indexes
        /\ r.pool_info.total_bond_share = s3.pool_info.total_bond_share
        /\ r.gen.amount = n
        /\ \A t \in Tokens : s3.bal[t] <= r.bal[t]
    BY <1>10, <2>1, BondChanges
  <2> QED
    BY <2>2 DEF n
<1> HIDE DEF r
<1>12. /\ DOMAIN user_info' = DOMAIN user_info \cup {u} /\ user_info'[u] = new
       /\ \A v \in DOMAIN user_info \ {u} : user_info'[v] = user_info[v]
  BY <1>1 DEF Saved
<1>13. UserIsSettled(s, r, user_info, user_info', u, old, user, c, nothing)
  <2>1. nothing \in [Tokens -> Nat]
    OBVIOUS
  <2>2. \A t \in Tokens : nothing[t] <= user.pending_rewards[t]
    BY <1>7
  <2>3. /\ r.pool_info.reward_indexes = s.pool_info.reward_indexes
        /\ r.pool_info.total_bond_share + old.bond_share = s.pool_info.total_bond_share + c
    BY <1>4, <1>5, <1>8, <1>10, <1>11
  <2>4. \A t \in Tokens : Free(r, t) + nothing[t] = Free(s, t)
    <3>1. \A t \in Tokens : Free(r, t) = Free(s, t) /\ Free(s, t) \in Int /\ nothing[t] = 0
      BY <1>2, <1>10, <1>11, AccountsType DEF Free
    <3> HIDE DEF nothing
    <3> QED
      BY <3>1
  <2>5. user = reconcile_to_user_info(s.pool_info, old)
    BY DEF user
  <2>6. user_info'[u] = [bond_share |-> c, reward_indexes |-> s.pool_info.reward_indexes,
                         pending_rewards |-> [t \in Tokens |-> user.pending_rewards[t] - nothing[t]]]
    BY <1>9, <1>12
  <2> HIDE DEF nothing, c
  <2> QED
    BY <1>2, <1>6, <1>8, <1>11, <1>12, <2>1, <2>2, <2>3, <2>4, <2>5, <2>6 DEF UserIsSettled
<1>14. /\ BondInv' /\ CoverInv(owed)' /\ Bond' = r
       /\ SharesIn(user_info)'[u] = c /\ SharesIn(user_info)[u] = old.bond_share
       /\ \A v \in Users \ {u} : SharesIn(user_info)'[v] = SharesIn(user_info)[v]
  <2>1. \A t \in Tokens : RewardOf(r.reward_info, t).reconciled_amount <= r.bal[t]
    <3> TAKE t \in Tokens
    <3>1. RewardOf(s.reward_info, t).reconciled_amount <= s.bal[t]
      BY <1>2
    <3>2. RewardOf(r.reward_info, t) = RewardOf(s.reward_info, t) /\ s.bal[t] <= r.bal[t]
      BY <1>10, <1>11
    <3>3. RewardOf(s.reward_info, t).reconciled_amount \in Nat /\ s.bal[t] \in Nat /\ r.bal[t] \in Nat
      BY <1>2, <1>4, <1>11, AccountsType, BondFields DEF RewardInfos, BondOK
    <3> QED
      BY <3>1, <3>2, <3>3
  <2> HIDE DEF c, nothing
  <2> QED
    BY <1>1, <1>2, <1>13, <2>1, BondStepKeeps
<1>15. gen'.amount = gen.amount + amount
  BY <1>2, <1>11, <1>14 DEF Bond
<1> QED
  BY <1>5, <1>8, <1>14, <1>15

\* Withdraw: what is paid is at most the part of the pool that the shares were.
LEMMA WithdrawKeeps ==
  ASSUME BondInv, NEW owed \in Int, CoverInv(owed), NEW u \in Users, NEW amount \in Nat, amount # 0,
         execute_withdraw(u, amount)
  PROVE  /\ BondInv' /\ CoverInv(owed)'
         /\ gen'.amount = gen.amount - amount
         /\ \E share \in Nat \ {0} :
              /\ amount * pool_info.total_bond_share <= share * gen.amount
              /\ SharesIn(user_info)'[u] = SharesIn(user_info)[u] - share
              /\ \A v \in Users \ {u} : SharesIn(user_info)'[v] = SharesIn(user_info)[v]
<1> DEFINE s == Claimed(Bond)
           share == WithdrawnShare(s.pool_info, s.gen.amount, amount)
           old == user_info[u]
           user == reconcile_to_user_info(s.pool_info, old)
           s3 == [s EXCEPT !.pool_info.total_bond_share = @ - share]
           r == callback_after_bond_changed(s3, s.gen.amount - amount)
           new == [user EXCEPT !.bond_share = @ - share]
           c == old.bond_share - share
           nothing == [t \in Tokens |-> 0]
<1>1. /\ CanClaim(Bond) /\ u \in DOMAIN user_info
      /\ share <= user.bond_share /\ amount <= s.gen.amount
      /\ BecomeBond(r) /\ user_info' = [user_info EXCEPT ![u] = new]
      /\ config' = config /\ height' = height
  BY Zenon DEF execute_withdraw, chainVars
<1>2. /\ BondOK(s)
      /\ s.pool_info.total_bond_share = pool_info.total_bond_share
      /\ s.gen.amount = gen.amount
      /\ UsersOK(user_info, s.pool_info)
      /\ \A t \in Tokens :
           /\ RewardOf(s.reward_info, t).reconciled_amount <= s.bal[t]
           /\ Covered(user_info, s, t, IF t = "astro" THEN owed ELSE 0)
  BY <1>1, ClaimKeepsCover
<1> HIDE DEF s
<1>4. /\ s \in BondStates /\ s.pool_info \in PoolInfos /\ s.gen.amount \in Nat
      /\ s.pool_info.total_bond_share \in Nat /\ s.pool_info.reward_indexes \in [Tokens -> Nat]
      /\ s.bal \in [Tokens -> Nat]
  BY <1>2, BondFields DEF BondOK, Entries, PoolInfos
<1>6. /\ old \in UserInfos /\ old.bond_share \in Nat
      /\ \A t \in Tokens : old.reward_indexes[t] <= s.pool_info.reward_indexes[t]
  BY <1>1, <1>2 DEF UsersOK, UserInfos
<1>7. /\ user.pending_rewards \in [Tokens -> Nat]
      /\ user = [bond_share |-> old.bond_share, reward_indexes |-> s.pool_info.reward_indexes,
                 pending_rewards |-> user.pending_rewards]
  <2> HIDE DEF old
  <2> QED
    BY <1>2, <1>6, ReconciledUser
<1>5. /\ share \in Nat \ {0} /\ share <= old.bond_share
      /\ old.bond_share <= s.pool_info.total_bond_share
      /\ amount * pool_info.total_bond_share <= share * gen.amount
  <2> DEFINE T == s.pool_info.total_bond_share
             total == s.gen.amount
  <2>1. T \in Nat /\ total \in Nat /\ share = WithdrawnShare(s.pool_info, total, amount)
    BY <1>4
  <2>2. share <= old.bond_share
    <3> HIDE DEF share, user, old
    <3>1. user.bond_share = old.bond_share
      BY <1>7
    <3> QED
      BY <1>1, <3>1
  <2>3. old.bond_share <= T
    <3>1. SharesIn(user_info)[u] = old.bond_share
      BY <1>1 DEF SharesIn
    <3>2. SharesIn(user_info) \in [Users -> Nat]
      BY <1>2, UserSumsType, AstroIsToken
    <3>3. SharesIn(user_info)[u] <= Total(SharesIn(user_info))
      BY <3>2, SumElement, ProxyAssumption
    <3>4. T = Total(SharesIn(user_info))
      BY <1>2 DEF BondInv
    <3> QED
      BY <3>1, <3>3, <3>4
  <2>4. total > 0
    BY <1>1, <2>1
  <2> HIDE DEF share, total, old
  <2>5. /\ share \in Nat
        /\ T > 0 /\ total > 0 => amount * T <= share * total
        /\ T = 0 \/ total = 0 => share = amount
    <3>1. ShareIsSold(T, total, amount, share)
      BY <2>1, WithdrawnShareRounds
    <3> QED
      BY <3>1 DEF ShareIsSold
  <2>6. T > 0
    BY <2>1, <2>2, <2>3, <2>5, <1>6
  <2>7. share # 0
    <3>1. amount * T \in Nat \ {0}
      BY <2>1, <2>6
    <3>2. ASSUME share = 0 PROVE FALSE
      <4>1. share * total = 0
        BY <3>2, <2>1
      <4> QED
        BY <2>4, <2>5, <2>6, <3>1, <4>1
    <3> QED
      BY <3>2
  <2> QED
    BY <2>2, <2>3, <2>4, <2>5, <2>6, <2>7, <1>2 DEF total
<1> HIDE DEF share
<1>8. c \in Nat
  <2> HIDE DEF old
  <2> QED
    BY <1>5, <1>6
<1>9. new = [bond_share |-> c, reward_indexes |-> s.pool_info.reward_indexes,
             pending_rewards |-> [t \in Tokens |-> user.pending_rewards[t] - nothing[t]]]
  <2>1. user.pending_rewards = [t \in Tokens |-> user.pending_rewards[t] - nothing[t]]
    BY <1>7
  <2> HIDE DEF user, nothing, old
  <2>2. new = [bond_share |-> c, reward_indexes |-> s.pool_info.reward_indexes,
               pending_rewards |-> user.pending_rewards]
    BY <1>7
  <2> QED
    BY <2>1, <2>2
<1>10. /\ BondOK(s3) /\ s3.reward_info = s.reward_info /\ s3.bal = s.bal
       /\ s3.pool_info.reward_indexes = s.pool_info.reward_indexes
       /\ s3.pool_info.total_bond_share = s.pool_info.total_bond_share - share
  <2> DEFINE shares == s.pool_info.total_bond_share - share
             info == [s.pool_info EXCEPT !.total_bond_share = shares]
  <2>1. shares \in Nat
    BY <1>4, <1>5, <1>6
  <2>2. s3 = [s EXCEPT !.pool_info = info]
    BY <1>4 DEF BondStates, PoolInfos
  <2> HIDE DEF shares
  <2>3. /\ info \in PoolInfos /\ info.reward_indexes = s.pool_info.reward_indexes
        /\ info.total_bond_share = shares
        /\ info.prev_index = s.pool_info.prev_index
    BY <1>4, <2>1 DEF PoolInfos
  <2> HIDE DEF info, s3
  <2>4. /\ s3 \in BondStates /\ s3.pool_info = info /\ s3.gen = s.gen /\ s3.bal = s.bal
        /\ s3.reward_info = s.reward_info
    BY <1>4, <2>2, <2>3 DEF BondStates
  <2> QED
    BY <1>2, <2>3, <2>4 DEF BondOK, EntryOK, shares
<1> HIDE DEF s3, user, new
<1>11. /\ BondOK(r) /\ r.reward_info = s3.reward_info
       /\ r.pool_info.reward_indexes = s3.pool_info.reward_indexes
       /\ r.pool_info.total_bond_share = s3.pool_info.total_bond_share
       /\ r.gen.amount = s.gen.amount - amount
       /\ \A t \in Tokens : s3.bal[t] <= r.bal[t]
  <2> DEFINE n == s.gen.amount - amount
  <2>1. n \in Nat /\ r = callback_after_bond_changed(s3, n)
    BY <1>1, <1>4
  <2> HIDE DEF n, r
  <2>2. /\ BondOK(r) /\ r.reward_info = s3.reward_info
        /\ r.pool_info.reward_indexes = s3.pool_info.reward_indexes
        /\ r.pool_info.total_bond_share = s3.pool_info.total_bond_share
        /\ r.gen.amount = n
        /\ \A t \in Tokens : s3.bal[t] <= r.bal[t]
    BY <1>10, <2>1, BondChanges
  <2> QED
    BY <2>2 DEF n
<1> HIDE DEF r
<1>12. /\ DOMAIN user_info' = DOMAIN user_info \cup {u} /\ user_info'[u] = new
       /\ \A v \in DOMAIN user_info \ {u} : user_info'[v] = user_info[v]
  BY <1>1
<1>13. UserIsSettled(s, r, user_info, user_info', u, old, user, c, nothing)
  <2>1. nothing \in [Tokens -> Nat]
    OBVIOUS
  <2>2. \A t \in Tokens : nothing[t] <= user.pending_rewards[t]
    BY <1>7
  <2>3. /\ r.pool_info.reward_indexes = s.pool_info.reward_indexes
        /\ r.pool_info.total_bond_share + old.bond_share = s.pool_info.total_bond_share + c
    <3> HIDE DEF old
    <3> QED
      BY <1>4, <1>5, <1>6, <1>8, <1>10, <1>11
  <2>4. \A t \in Tokens : Free(r, t) + nothing[t] = Free(s, t)
    <3>1. \A t \in Tokens : Free(r, t) = Free(s, t) /\ Free(s, t) \in Int /\ nothing[t] = 0
      BY <1>2, <1>10, <1>11, AccountsType DEF Free
    <3> HIDE DEF nothing
    <3> QED
      BY <3>1
  <2>5. user = reconcile_to_user_info(s.pool_info, old) /\ (u \in DOMAIN user_info => old = user_info[u])
    BY DEF user
  <2>6. user_info'[u] = [bond_share |-> c, reward_indexes |-> s.pool_info.reward_indexes,
                         pending_rewards |-> [t \in Tokens |-> user.pending_rewards[t] - nothing[t]]]
    BY <1>9, <1>12
  <2> HIDE DEF nothing, c, old
  <2> QED
    BY <1>1, <1>2, <1>6, <1>8, <1>11, <1>12, <2>1, <2>2, <2>3, <2>4, <2>5, <2>6 DEF UserIsSettled
<1>14. /\ BondInv' /\ CoverInv(owed)' /\ Bond' = r
       /\ SharesIn(user_info)'[u] = c /\ SharesIn(user_info)[u] = old.bond_share
       /\ \A v \in Users \ {u} : SharesIn(user_info)'[v] = SharesIn(user_info)[v]
  <2>1. \A t \in Tokens : RewardOf(r.reward_info, t).reconciled_amount <= r.bal[t]
    <3> TAKE t \in Tokens
    <3>1. RewardOf(s.reward_info, t).reconciled_amount <= s.bal[t]
      BY <1>2
    <3>2. RewardOf(r.reward_info, t) = RewardOf(s.reward_info, t) /\ s.bal[t] <= r.bal[t]
      BY <1>10, <1>11
    <3>3. RewardOf(s.reward_info, t).reconciled_amount \in Nat /\ s.bal[t] \in Nat /\ r.bal[t] \in Nat
      BY <1>2, <1>4, <1>11, AccountsType, BondFields DEF RewardInfos, BondOK
    <3> QED
      BY <3>1, <3>2, <3>3
  <2> HIDE DEF c, nothing, old
  <2>2. /\ BecomeBond(r) /\ config' = config /\ height' = height
        /\ s.pool_info.total_bond_share = pool_info.total_bond_share
    BY <1>1, <1>2
  <2>3. \A t \in Tokens :
          /\ RewardOf(r.reward_info, t).reconciled_amount <= r.bal[t]
          /\ Covered(user_info, s, t, IF t = "astro" THEN owed ELSE 0)
    BY <1>2, <2>1
  <2> QED
    BY <1>13, <2>2, <2>3, BondStepKeeps
<1>15. gen'.amount = gen.amount - amount
  BY <1>2, <1>11, <1>14 DEF Bond
<1> QED
  BY <1>5, <1>14, <1>15

\* ClaimRewards: what is sent was pending, and leaves what is reconciled.
LEMMA ClaimRewardsKeeps ==
  ASSUME BondInv, NEW owed \in Int, CoverInv(owed), NEW u \in Users, execute_claim_rewards(u)
  PROVE  /\ BondInv' /\ CoverInv(owed)'
         /\ gen'.amount = gen.amount /\ SharesIn(user_info)' = SharesIn(user_info)
<1> DEFINE s == Claimed(Bond)
           old == user_info[u]
           user == reconcile_to_user_info(s.pool_info, old)
           sent == user.pending_rewards
           left == [t \in DOMAIN s.reward_info |->
                      [s.reward_info[t] EXCEPT !.reconciled_amount = @ - sent[t]]]
           balance == [t \in Tokens |-> s.bal[t] - sent[t]]
           r == [s EXCEPT !.reward_info = left, !.bal = balance]
           new == [user EXCEPT !.pending_rewards = [t \in Tokens |-> 0]]
           c == old.bond_share
<1>1. /\ CanClaim(Bond) /\ u \in DOMAIN user_info
      /\ \A t \in Tokens : sent[t] > 0 =>
           t \in DOMAIN s.reward_info /\ s.reward_info[t].reconciled_amount >= sent[t]
      /\ user_info' = [user_info EXCEPT ![u] = new]
      /\ config' = config /\ height' = height
  BY DEF execute_claim_rewards, Claimable, chainVars
<1>2. /\ BondOK(s)
      /\ s.pool_info.total_bond_share = pool_info.total_bond_share
      /\ s.gen.amount = gen.amount
      /\ UsersOK(user_info, s.pool_info)
      /\ \A t \in Tokens :
           /\ RewardOf(s.reward_info, t).reconciled_amount <= s.bal[t]
           /\ Covered(user_info, s, t, IF t = "astro" THEN owed ELSE 0)
  BY <1>1, ClaimKeepsCover
<1>3. BecomeBond(r)
  <2>1. s \in BondStates
    BY <1>2 DEF BondOK
  <2>2. BecomeBond([s EXCEPT
           !.reward_info = [t \in DOMAIN @ |-> [s.reward_info[t] EXCEPT !.reconciled_amount = @ - sent[t]]],
           !.bal = [t \in Tokens |-> @[t] - sent[t]]])
    BY DEF execute_claim_rewards, Claimable
  <2> HIDE DEF s, sent
  <2>3. r = [s EXCEPT
           !.reward_info = [t \in DOMAIN @ |-> [s.reward_info[t] EXCEPT !.reconciled_amount = @ - sent[t]]],
           !.bal = [t \in Tokens |-> @[t] - sent[t]]]
    BY Zenon
  <2> QED
    BY <2>2, <2>3, Zenon
<1> HIDE DEF s
<1>4. /\ s \in BondStates /\ s.pool_info \in PoolInfos /\ s.gen.amount \in Nat
      /\ s.pool_info.total_bond_share \in Nat /\ s.pool_info.reward_indexes \in [Tokens -> Nat]
      /\ s.bal \in [Tokens -> Nat] /\ DOMAIN s.reward_info \subseteq Tokens
      /\ \A t \in DOMAIN s.reward_info : s.reward_info[t] \in RewardInfos
  BY <1>2, BondFields DEF BondOK, Entries, PoolInfos
<1>5. /\ old \in UserInfos /\ old.bond_share \in Nat
      /\ \A t \in Tokens : old.reward_indexes[t] <= s.pool_info.reward_indexes[t]
  BY <1>1, <1>2 DEF UsersOK, UserInfos
<1>6. /\ sent \in [Tokens -> Nat]
      /\ user = [bond_share |-> old.bond_share, reward_indexes |-> s.pool_info.reward_indexes,
                 pending_rewards |-> sent]
  <2> HIDE DEF old
  <2> QED
    BY <1>2, <1>5, ReconciledUser
<1>7. new = [bond_share |-> c, reward_indexes |-> s.pool_info.reward_indexes,
             pending_rewards |-> [t \in Tokens |-> user.pending_rewards[t] - sent[t]]]
  <2>1. [t \in Tokens |-> user.pending_rewards[t] - sent[t]] = [t \in Tokens |-> 0]
    BY <1>6
  <2> HIDE DEF user, sent, old
  <2>2. new = [bond_share |-> c, reward_indexes |-> s.pool_info.reward_indexes,
               pending_rewards |-> [t \in Tokens |-> 0]]
    BY <1>6
  <2> QED
    BY <2>1, <2>2
<1>8. user = reconcile_to_user_info(s.pool_info, old) /\ sent = user.pending_rewards
      /\ (u \in DOMAIN user_info => old = user_info[u])
  OBVIOUS
<1> HIDE DEF user, sent, new, old
<1>9. \A t \in Tokens :
        /\ sent[t] \in Nat /\ sent[t] <= RewardOf(s.reward_info, t).reconciled_amount
        /\ RewardOf(s.reward_info, t) \in RewardInfos
  <2> TAKE t \in Tokens
  <2>1. RewardOf(s.reward_info, t) \in RewardInfos /\ sent[t] \in Nat
    BY <1>2, <1>6, AccountsType
  <2>2. CASE sent[t] > 0
    BY <2>1, <2>2, <1>1, <1>4 DEF RewardOf, RewardInfos
  <2>3. CASE ~ (sent[t] > 0)
    <3>1. sent[t] = 0
      BY <2>1, <2>3
    <3> QED
      BY <2>1, <3>1 DEF RewardInfos
  <2> QED
    BY <2>2, <2>3
<1>10. balance \in [Tokens -> Nat] /\ \A t \in Tokens : balance[t] = s.bal[t] - sent[t]
  <2>1. \A t \in Tokens : s.bal[t] \in Nat /\ sent[t] <= s.bal[t]
    BY <1>2, <1>4, <1>9 DEF RewardInfos
  <2> QED
    BY <2>1, <1>9
<1>11. \A t \in DOMAIN s.reward_info :
         /\ left[t] \in RewardInfos
         /\ left[t].reconciled_amount = s.reward_info[t].reconciled_amount - sent[t]
         /\ left[t].fee = s.reward_info[t].fee
         /\ left[t].staker_income = s.reward_info[t].staker_income
  <2> TAKE t \in DOMAIN s.reward_info
  <2>1. s.reward_info[t].reconciled_amount - sent[t] \in Nat
    BY <1>4, <1>9 DEF RewardOf, RewardInfos
  <2> QED
    BY <2>1, <1>4 DEF RewardInfos
<1>12. DOMAIN left = DOMAIN s.reward_info /\ left = [t \in DOMAIN left |-> left[t]]
  OBVIOUS
<1> HIDE DEF left, balance
<1>13. /\ r \in BondStates /\ r.pool_info = s.pool_info /\ r.gen = s.gen
       /\ r.reward_info = left /\ r.bal = balance
  <2>1. left \in UNION {[T -> RewardInfos] : T \in SUBSET Tokens}
    BY <1>4, <1>11, <1>12
  <2> QED
    BY <2>1, <1>4, <1>10 DEF BondStates
<1>14. BondOK(r)
  BY <1>2, <1>13 DEF BondOK, EntryOK
<1>15. \A t \in Tokens :
         /\ RewardOf(r.reward_info, t).reconciled_amount =
              RewardOf(s.reward_info, t).reconciled_amount - sent[t]
         /\ RewardOf(r.reward_info, t).fee = RewardOf(s.reward_info, t).fee
         /\ RewardOf(r.reward_info, t).staker_income = RewardOf(s.reward_info, t).staker_income
  <2> TAKE t \in Tokens
  <2>1. CASE t \in DOMAIN s.reward_info
    BY <2>1, <1>11, <1>12, <1>13 DEF RewardOf
  <2>2. CASE t \notin DOMAIN s.reward_info
    <3>1. sent[t] = 0
      BY <2>2, <1>1, <1>9
    <3> QED
      BY <2>2, <3>1, <1>12, <1>13 DEF RewardOf, NoReward
  <2> QED
    BY <2>1, <2>2
<1>16. \A t \in Tokens : Free(r, t) + sent[t] = Free(s, t)
  BY <1>9, <1>15 DEF Free, RewardInfos
<1>17. /\ DOMAIN user_info' = DOMAIN user_info \cup {u} /\ user_info'[u] = new
       /\ \A v \in DOMAIN user_info \ {u} : user_info'[v] = user_info[v]
  BY <1>1
<1> HIDE DEF r
<1>18. UserIsSettled(s, r, user_info, user_info', u, old, user, c, sent)
  <2>1. \A t \in Tokens : sent[t] <= user.pending_rewards[t]
    BY <1>8, <1>9
  <2>2. c \in Nat /\ r.pool_info.total_bond_share + old.bond_share = s.pool_info.total_bond_share + c
    BY <1>5, <1>13
  <2>3. user_info'[u] = [bond_share |-> c, reward_indexes |-> s.pool_info.reward_indexes,
                         pending_rewards |-> [t \in Tokens |-> user.pending_rewards[t] - sent[t]]]
    BY <1>7, <1>17
  <2> HIDE DEF c
  <2> QED
    BY <1>1, <1>2, <1>5, <1>6, <1>8, <1>13, <1>14, <1>16, <1>17, <2>1, <2>2, <2>3 DEF UserIsSettled
<1>19. \A t \in Tokens : RewardOf(r.reward_info, t).reconciled_amount <= r.bal[t]
  <2> TAKE t \in Tokens
  <2>1. /\ RewardOf(s.reward_info, t).reconciled_amount <= s.bal[t]
        /\ RewardOf(s.reward_info, t).reconciled_amount \in Nat /\ s.bal[t] \in Nat /\ sent[t] \in Nat
    BY <1>2, <1>4, <1>9 DEF RewardInfos
  <2>2. r.bal[t] = s.bal[t] - sent[t]
    BY <1>10, <1>13
  <2> QED
    BY <2>1, <2>2, <1>15
<1>20. /\ BondInv' /\ CoverInv(owed)' /\ Bond' = r
       /\ SharesIn(user_info)'[u] = c /\ SharesIn(user_info)[u] = old.bond_share
       /\ \A v \in Users \ {u} : SharesIn(user_info)'[v] = SharesIn(user_info)[v]
  <2> HIDE DEF c
  <2> QED
    <3>1. /\ BecomeBond(r) /\ config' = config /\ height' = height
          /\ s.pool_info.total_bond_share = pool_info.total_bond_share
      BY <1>1, <1>2, <1>3
    <3>2. \A t \in Tokens :
            /\ RewardOf(r.reward_info, t).reconciled_amount <= r.bal[t]
            /\ Covered(user_info, s, t, IF t = "astro" THEN owed ELSE 0)
      BY <1>2, <1>19
    <3> QED
      BY <1>18, <3>1, <3>2, BondStepKeeps
<1>21. gen'.amount = gen.amount
  BY <1>2, <1>13, <1>20 DEF Bond
<1>22. SharesIn(user_info)' = SharesIn(user_info)
  <2>1. \A v \in Users : SharesIn(user_info)'[v] = SharesIn(user_info)[v]
    BY <1>20
  <2> QED
    BY <2>1 DEF SharesIn
<1> QED
  BY <1>20, <1>21, <1>22

-----------------------------------------------------------------------------
(* Messages about xASTRO.                                                  *)

StakingStates ==
  [total_bond_share : Nat, reward_index : Nat, next_claim_period : Nat \ {0},
   total_unstaking_amount : Nat, total_unstaked_amount : Nat, unstaking_period : Nat]
StakerInfos ==
  [bond_share : Nat, reward_index : Nat, pending_reward : Nat, unstaking_amount : Nat,
   unstaked_amount : Nat, unstaking_period : Nat]

\* The state that a chain of messages about xASTRO has reached.
StakeStates == [st : StakingStates, astro : RewardInfos, bal : Nat]

StakeFree(s) == s.astro.reconciled_amount - s.astro.fee - s.astro.staker_income
StakeSlack(s) == StakeFree(s) * One - s.st.reward_index * s.st.total_bond_share

\* The chain has come from s to r, which differ in the income that was spread only.
IncomeOnwards(s, r) ==
  /\ s.st.reward_index <= r.st.reward_index
  /\ StakeSlack(s) <= StakeSlack(r)
  /\ s.astro.reconciled_amount <= s.bal => r.astro.reconciled_amount <= r.bal
  /\ r.st.total_bond_share = s.st.total_bond_share

\* The parts of STAKING_STATE that only requests, relocks and withdrawals change.
SameUnstaking(st, st2) ==
  /\ st2.total_unstaking_amount = st.total_unstaking_amount
  /\ st2.total_unstaked_amount = st.total_unstaked_amount
  /\ st2.unstaking_period = st.unstaking_period

LEMMA StakeFields ==
  ASSUME NEW s \in StakeStates
  PROVE  /\ s.st \in StakingStates /\ s.astro \in RewardInfos /\ s.bal \in Nat
         /\ s.st.total_bond_share \in Nat /\ s.st.reward_index \in Nat
         /\ s.astro.reconciled_amount \in Nat /\ s.astro.fee \in Nat
         /\ s.astro.staker_income \in Nat
         /\ StakeFree(s) \in Int /\ StakeSlack(s) \in Int
<1>1. /\ s.st \in StakingStates /\ s.astro \in RewardInfos /\ s.bal \in Nat
  BY DEF StakeStates
<1>2. /\ s.st.total_bond_share \in Nat /\ s.st.reward_index \in Nat
      /\ s.astro.reconciled_amount \in Nat /\ s.astro.fee \in Nat
      /\ s.astro.staker_income \in Nat
  BY <1>1 DEF StakingStates, RewardInfos
<1>3. StakeFree(s) \in Int /\ One \in Nat
  BY <1>2, ProxyAssumption DEF StakeFree
<1>4. StakeSlack(s) \in Int
  BY <1>2, <1>3 DEF StakeSlack
<1> QED
  BY <1>1, <1>2, <1>3, <1>4

\* reconcile_staker_income spreads no more than the income set aside.
LEMMA SpreadOnwards ==
  ASSUME NEW s \in StakeStates, NEW r, r = reconcile_staker_income(s)
  PROVE  /\ r \in StakeStates /\ IncomeOnwards(s, r) /\ SameUnstaking(s.st, r.st)
         /\ r.bal = s.bal /\ r.st.next_claim_period = s.st.next_claim_period
         /\ r.astro.reconciled_amount = s.astro.reconciled_amount
<1> DEFINE T == s.st.total_bond_share
           income == s.astro.staker_income
           more == (income * One) \div T
           index == s.st.reward_index + more
<1>1. CASE T = 0
  <2>1. r = s
    BY <1>1 DEF reconcile_staker_income
  <2> QED
    BY <2>1, StakeFields DEF IncomeOnwards, SameUnstaking
<1>2. CASE T # 0
  <2>1. T \in Nat \ {0} /\ income \in Nat /\ One \in Nat /\ s.st.reward_index \in Nat
    BY <1>2, StakeFields, ProxyAssumption
  <2>2. more \in Nat /\ more * T <= income * One
    <3>1. income * One \in Nat
      BY <2>1, MulNat
    <3> QED
      BY <2>1, <3>1, DivDown
  <2>3. index \in Nat /\ s.st.reward_index <= index
    <3> HIDE DEF more
    <3> QED
      BY <2>1, <2>2
  <2>4. r = [st |-> [s.st EXCEPT !.reward_index = index],
             astro |-> [s.astro EXCEPT !.staker_income = 0], bal |-> s.bal]
    BY <1>2 DEF reconcile_staker_income, StakeStates, StakingStates
  <2>5. index * T = s.st.reward_index * T + more * T
    <3> HIDE DEF more
    <3> QED
      BY <2>1, <2>2
  <2> HIDE DEF index
  <2>6. /\ r.st \in StakingStates /\ r.st.reward_index = index /\ r.st.total_bond_share = T
        /\ SameUnstaking(s.st, r.st) /\ r.st.next_claim_period = s.st.next_claim_period
    BY <2>3, <2>4, StakeFields DEF StakingStates, SameUnstaking
  <2>7. /\ r.astro \in RewardInfos /\ r.bal = s.bal
        /\ r.astro.reconciled_amount = s.astro.reconciled_amount /\ r.astro.fee = s.astro.fee
        /\ r.astro.staker_income = 0
    BY <2>4, StakeFields DEF RewardInfos
  <2>8. r \in StakeStates
    BY <2>4, <2>6, <2>7, StakeFields DEF StakeStates
  <2>9. StakeSlack(s) <= StakeSlack(r)
    <3>1. StakeFree(r) = StakeFree(s) + income /\ StakeFree(s) \in Int
      BY <2>7, StakeFields DEF StakeFree
    <3>2. (StakeFree(s) + income) * One = StakeFree(s) * One + income * One
      BY <3>1, <2>1
    <3> DEFINE A == StakeFree(s) * One
               B == income * One
               C == s.st.reward_index * T
               D == more * T
    <3>3. StakeSlack(s) = A - C
      BY DEF StakeSlack
    <3>4. StakeSlack(r) = (A + B) - (C + D)
      BY <2>5, <2>6, <3>1, <3>2 DEF StakeSlack
    <3>5. D <= B
      BY <2>2
    <3>6. A \in Int /\ B \in Int /\ C \in Int /\ D \in Int
      <4>1. more \in Nat
        BY <2>2
      <4> HIDE DEF more
      <4> QED
        BY <2>1, <3>1, <4>1
    <3> HIDE DEF A, B, C, D
    <3> QED
      BY <3>3, <3>4, <3>5, <3>6
  <2> QED
    BY <2>3, <2>6, <2>7, <2>8, <2>9 DEF IncomeOnwards
<1> QED
  BY <1>1, <1>2

\* Income that arrives is set aside first.
LEMMA ArrivalOnwards ==
  ASSUME NEW s \in StakeStates, NEW net \in Nat, NEW paid \in Nat, NEW next \in Nat \ {0},
         s.astro.reconciled_amount <= s.bal => s.astro.reconciled_amount + net <= s.bal + paid,
         NEW r, r = [st |-> [s.st EXCEPT !.next_claim_period = next],
                     astro |-> [s.astro EXCEPT
                                  !.staker_income = s.astro.staker_income + net,
                                  !.reconciled_amount = s.astro.reconciled_amount + net],
                     bal |-> s.bal + paid]
  PROVE  /\ r \in StakeStates /\ IncomeOnwards(s, r) /\ SameUnstaking(s.st, r.st)
         /\ r.st.next_claim_period = next
<1>1. /\ r.st \in StakingStates /\ r.st.reward_index = s.st.reward_index
      /\ r.st.total_bond_share = s.st.total_bond_share
      /\ SameUnstaking(s.st, r.st) /\ r.st.next_claim_period = next
  BY StakeFields DEF StakingStates, SameUnstaking
<1>2. /\ r.astro \in RewardInfos /\ r.bal = s.bal + paid /\ r.bal \in Nat
      /\ r.astro.reconciled_amount = s.astro.reconciled_amount + net
      /\ r.astro.fee = s.astro.fee
      /\ r.astro.staker_income = s.astro.staker_income + net
  <2> DEFINE income == s.astro.staker_income + net
             reconciled == s.astro.reconciled_amount + net
             astro == [s.astro EXCEPT !.staker_income = income, !.reconciled_amount = reconciled]
  <2>1. income \in Nat /\ reconciled \in Nat /\ s.bal + paid \in Nat /\ s.astro \in RewardInfos
    BY StakeFields
  <2>2. r.astro = astro /\ r.bal = s.bal + paid
    OBVIOUS
  <2> HIDE DEF income, reconciled
  <2>3. /\ astro \in RewardInfos /\ astro.reconciled_amount = reconciled
        /\ astro.fee = s.astro.fee /\ astro.staker_income = income
    BY <2>1 DEF RewardInfos
  <2> QED
    BY <2>1, <2>2, <2>3 DEF income, reconciled
<1>3. r \in StakeStates
  BY <1>1, <1>2 DEF StakeStates
<1>4. StakeFree(r) = StakeFree(s)
  BY <1>2, StakeFields DEF StakeFree
<1>5. StakeSlack(r) = StakeSlack(s) /\ StakeSlack(s) \in Int /\ s.st.reward_index \in Nat
  BY <1>1, <1>4, StakeFields DEF StakeSlack
<1> QED
  BY <1>1, <1>2, <1>3, <1>5 DEF IncomeOnwards

LEMMA IncomeTrans ==
  ASSUME NEW s \in StakeStates, NEW q \in StakeStates, NEW r \in StakeStates,
         IncomeOnwards(s, q), IncomeOnwards(q, r)
  PROVE  IncomeOnwards(s, r)
BY StakeFields DEF IncomeOnwards

\* The weeks up to the current one have been recorded, and claims are of earlier weeks.
ClockOK ==
  /\ period \in Nat \ {0} /\ period <= MaxPeriod + 1 /\ MaxPeriod \in Nat
  /\ week \in [1..MaxPeriod -> Nat] /\ last_claim \in 0..period

LEMMA ClaimAmountType ==
  ASSUME ClockOK, NEW start \in Nat \ {0}, NEW end \in Nat, end <= period
  PROVE  calc_claim_amount(start, end) \in Nat
<1> DEFINE S == {q \in start..end : q < end /\ q <= lock.end}
           f == [p \in S |-> week[p]]
<1>1. IsFiniteSet(S)
  <2>1. IsFiniteSet(start..end)
    BY FS_Interval
  <2> QED
    BY <2>1, FS_Subset
<1>2. \A p \in S : p \in 1..MaxPeriod
  BY DEF ClockOK
<1>3. f \in [S -> Nat]
  BY <1>2 DEF ClockOK
<1>4. Total(f) \in Nat
  <2> HIDE DEF f, S
  <2> QED
    BY <1>1, <1>3, SumType
<1> QED
  BY <1>4 DEF calc_claim_amount

\* reconcile_staking_claim_by_others: no more than what is there and not reconciled yet.
LEMMA OthersIncomeOnwards ==
  ASSUME ClockOK, last_claim # None, NEW s \in StakeStates,
         NEW r, r = reconcile_staking_claim_by_others(s)
  PROVE  r \in StakeStates /\ IncomeOnwards(s, r) /\ SameUnstaking(s.st, r.st)
<1> DEFINE amount == calc_claim_amount(s.st.next_claim_period, last_claim)
           net == Min2(Sat(s.bal, s.astro.reconciled_amount), amount)
           a == [st |-> [s.st EXCEPT !.next_claim_period = last_claim],
                 astro |-> [s.astro EXCEPT
                              !.staker_income = s.astro.staker_income + net,
                              !.reconciled_amount = s.astro.reconciled_amount + net],
                 bal |-> s.bal + 0]
<1>1. last_claim \in Nat \ {0} /\ last_claim <= period /\ s.st.next_claim_period \in Nat \ {0}
  BY StakeFields DEF ClockOK, None, StakingStates
<1>2. amount \in Nat
  BY <1>1, ClaimAmountType
<1>3. s.bal \in Nat /\ s.astro.reconciled_amount \in Nat
  BY StakeFields
<1>4. /\ net \in Nat
      /\ s.astro.reconciled_amount <= s.bal => s.astro.reconciled_amount + net <= s.bal + 0
  <2> HIDE DEF amount
  <2> QED
    BY <1>2, <1>3 DEF Min2, Sat
<1>5. r = reconcile_staker_income(a)
  <2> DEFINE q == [s EXCEPT !.st.next_claim_period = last_claim, !.astro.staker_income = @ + net,
                            !.astro.reconciled_amount = @ + net]
  <2>1. r = reconcile_staker_income(q)
    BY DEF reconcile_staking_claim_by_others
  <2>2. s.bal + 0 = s.bal
    BY <1>3
  <2>3. q = a
    <3>1. PICK p : p = q
      OBVIOUS
    <3> HIDE DEF net
    <3>2. p = a
      BY <3>1, <2>2 DEF StakeStates
    <3> QED
      BY <3>1, <3>2
  <2> QED
    BY <2>1, <2>3
<1> HIDE DEF net
<1>6. a \in StakeStates /\ IncomeOnwards(s, a) /\ SameUnstaking(s.st, a.st)
  BY <1>1, <1>4, ArrivalOnwards
<1> HIDE DEF a
<1>7. r \in StakeStates /\ IncomeOnwards(a, r) /\ SameUnstaking(a.st, r.st)
  BY <1>5, <1>6, SpreadOnwards
<1> QED
  BY <1>6, <1>7, IncomeTrans DEF SameUnstaking

\* callback_after_staking_claimed: what the distributor pays now.
LEMMA IncomeClaimed ==
  ASSUME ClockOK, NEW s \in StakeStates, NEW r, r = callback_after_staking_claimed(s)
  PROVE  r \in StakeStates /\ IncomeOnwards(s, r) /\ SameUnstaking(s.st, r.st)
<1> DEFINE net == calc_claim_amount(ClaimStart, period)
           a == [st |-> [s.st EXCEPT !.next_claim_period = period],
                 astro |-> [s.astro EXCEPT
                              !.staker_income = s.astro.staker_income + net,
                              !.reconciled_amount = s.astro.reconciled_amount + net],
                 bal |-> s.bal + net]
<1>1. ClaimStart \in Nat \ {0} /\ period \in Nat \ {0} /\ period <= period
  BY DEF ClockOK, ClaimStart, None
<1>2. net \in Nat
  BY <1>1, ClaimAmountType
<1>3. r = reconcile_staker_income(a)
  <2> DEFINE q == [s EXCEPT !.st.next_claim_period = period, !.astro.staker_income = @ + net,
                            !.astro.reconciled_amount = @ + net, !.bal = @ + net]
  <2>1. r = reconcile_staker_income(q)
    BY DEF callback_after_staking_claimed
  <2>2. q = a
    <3>1. PICK p : p = q
      OBVIOUS
    <3> HIDE DEF net
    <3>2. p = a
      BY <3>1 DEF StakeStates
    <3> QED
      BY <3>1, <3>2
  <2> QED
    BY <2>1, <2>2
<1> HIDE DEF net
<1>4. s.astro.reconciled_amount <= s.bal => s.astro.reconciled_amount + net <= s.bal + net
  BY <1>2, StakeFields
<1>5. a \in StakeStates /\ IncomeOnwards(s, a) /\ SameUnstaking(s.st, a.st)
  BY <1>1, <1>2, <1>4, ArrivalOnwards
<1> HIDE DEF a
<1>6. r \in StakeStates /\ IncomeOnwards(a, r) /\ SameUnstaking(a.st, r.st)
  BY <1>3, <1>5, SpreadOnwards
<1> QED
  BY <1>5, <1>6, IncomeTrans DEF SameUnstaking

\* A relock within a chain: requests become withdrawable, and income is spread.
LEMMA RelockedOnwards ==
  ASSUME ClockOK, last_claim # None, NEW s \in StakeStates, NEW r, r = Relocked(s)
  PROVE  /\ r \in StakeStates /\ IncomeOnwards(s, r)
         /\ r.st.total_unstaking_amount = 0 /\ r.st.unstaking_period = period
         /\ r.st.total_unstaked_amount = s.st.total_unstaked_amount + s.st.total_unstaking_amount
<1> DEFINE a == [st |-> Unstake(s.st), astro |-> s.astro, bal |-> s.bal]
           o == reconcile_staking_claim_by_others(a)
<1>1. r = callback_after_staking_claimed(o)
  <2>1. a = [s EXCEPT !.st = Unstake(@)]
    BY DEF StakeStates
  <2> QED
    BY <2>1 DEF Relocked
<1>2. /\ a.st \in StakingStates
      /\ a.st.total_unstaking_amount = 0 /\ a.st.unstaking_period = period
      /\ a.st.total_unstaked_amount = s.st.total_unstaked_amount + s.st.total_unstaking_amount
      /\ a.st.total_bond_share = s.st.total_bond_share /\ a.st.reward_index = s.st.reward_index
  <2> DEFINE n == s.st.total_unstaked_amount + s.st.total_unstaking_amount
  <2>1. n \in Nat /\ s.st \in StakingStates /\ period \in Nat
    BY StakeFields DEF StakingStates, ClockOK
  <2>2. a.st = [s.st EXCEPT !.total_unstaked_amount = n, !.total_unstaking_amount = 0,
                            !.unstaking_period = period]
    BY <2>1 DEF Unstake, StakingStates
  <2> DEFINE old == s.st
             st == a.st
  <2>3. st = [old EXCEPT !.total_unstaked_amount = n, !.total_unstaking_amount = 0,
                         !.unstaking_period = period]
    BY <2>2
  <2>4. old \in StakingStates
    BY <2>1
  <2> HIDE DEF n, a, st, old
  <2>5. /\ st \in StakingStates
        /\ st.total_unstaking_amount = 0 /\ st.unstaking_period = period
        /\ st.total_unstaked_amount = n
        /\ st.total_bond_share = old.total_bond_share /\ st.reward_index = old.reward_index
    BY <2>1, <2>3, <2>4 DEF StakingStates
  <2> QED
    BY <2>5 DEF n, st, old
<1>3. a \in StakeStates /\ a.astro = s.astro /\ a.bal = s.bal
  BY <1>2, StakeFields DEF StakeStates
<1> HIDE DEF a
<1>4. IncomeOnwards(s, a)
  BY <1>2, <1>3, StakeFields DEF IncomeOnwards, StakeSlack, StakeFree
<1>5. o \in StakeStates /\ IncomeOnwards(a, o) /\ SameUnstaking(a.st, o.st)
  BY <1>3, OthersIncomeOnwards
<1> HIDE DEF o
<1>6. r \in StakeStates /\ IncomeOnwards(o, r) /\ SameUnstaking(o.st, r.st)
  BY <1>1, <1>5, IncomeClaimed
<1>7. IncomeOnwards(s, r)
  <2>1. IncomeOnwards(s, o)
    BY <1>3, <1>4, <1>5, IncomeTrans
  <2> QED
    BY <2>1, <1>5, <1>6, IncomeTrans
<1> QED
  BY <1>2, <1>5, <1>6, <1>7 DEF SameUnstaking

-----------------------------------------------------------------------------
(* Stakers.                                                                *)

StakerCredits(stakers) ==
  [u \in Users |-> IF u \in DOMAIN stakers THEN stakers[u].pending_reward * One ELSE 0]
StakerDebits(stakers) ==
  [u \in Users |-> IF u \in DOMAIN stakers
                   THEN stakers[u].reward_index * stakers[u].bond_share ELSE 0]

StakersOK(stakers, st) ==
  /\ DOMAIN stakers \subseteq Users
  /\ \A u \in DOMAIN stakers :
       stakers[u] \in StakerInfos /\ stakers[u].reward_index <= st.reward_index

\* The stakers' income, and owed to the users, is covered.
StakersPaid(stakers, s, owed) ==
  Total(StakerCredits(stakers)) + owed <= StakeSlack(s) + Total(StakerDebits(stakers))

LEMMA StakerSumsType ==
  ASSUME NEW stakers, NEW st, StakersOK(stakers, st)
  PROVE  /\ SharesIn(stakers) \in [Users -> Nat] /\ StakerCredits(stakers) \in [Users -> Nat]
         /\ StakerDebits(stakers) \in [Users -> Nat]
<1>1. One \in Nat
  BY ProxyAssumption
<1>2. \A u \in DOMAIN stakers : /\ stakers[u].bond_share \in Nat /\ stakers[u].reward_index \in Nat
                                /\ stakers[u].pending_reward \in Nat
  BY DEF StakersOK, StakerInfos
<1>3. \A u \in DOMAIN stakers : /\ stakers[u].pending_reward * One \in Nat
                                /\ stakers[u].reward_index * stakers[u].bond_share \in Nat
  BY <1>1, <1>2, MulNat
<1> QED
  BY <1>2, <1>3 DEF SharesIn, StakerCredits, StakerDebits

\* Spreading income pays no more than it had.
LEMMA PaidOnwards ==
  ASSUME NEW s \in StakeStates, NEW r \in StakeStates, IncomeOnwards(s, r),
         NEW stakers, StakersOK(stakers, s.st), NEW owed \in Int, StakersPaid(stakers, s, owed)
  PROVE  StakersOK(stakers, r.st) /\ StakersPaid(stakers, r, owed)
<1>1. /\ StakeSlack(s) \in Int /\ StakeSlack(r) \in Int /\ s.st.reward_index \in Nat
      /\ r.st.reward_index \in Nat
  BY StakeFields
<1>2. Total(StakerCredits(stakers)) \in Nat /\ Total(StakerDebits(stakers)) \in Nat
  BY StakerSumsType, SumType, ProxyAssumption
<1>3. StakersPaid(stakers, r, owed)
  BY <1>1, <1>2 DEF StakersPaid, IncomeOnwards
<1>4. StakersOK(stakers, r.st)
  <2>1. \A u \in DOMAIN stakers : stakers[u].reward_index <= r.st.reward_index
    <3> TAKE u \in DOMAIN stakers
    <3>1. stakers[u].reward_index \in Nat /\ stakers[u].reward_index <= s.st.reward_index
      BY DEF StakersOK, StakerInfos
    <3> QED
      BY <3>1, <1>1 DEF IncomeOnwards
  <2> QED
    BY <2>1 DEF StakersOK
<1> QED
  BY <1>3, <1>4

\* The staker u, who was old, is settled by reconcile_to_staker_info at the index of s; sent
\* leaves what is pending and what is reconciled, and the shares of the staker become c.
StakerIsSettled(s, s2, stakers, stakers2, u, old, c, sent) ==
  /\ s \in StakeStates /\ s2 \in StakeStates /\ StakersOK(stakers, s.st) /\ u \in Users
  /\ old \in StakerInfos /\ old.reward_index <= s.st.reward_index
  /\ IF u \in DOMAIN stakers THEN old = stakers[u]
     ELSE old.bond_share = 0 /\ old.pending_reward = 0
  /\ c \in Nat /\ sent \in Nat
  /\ DOMAIN stakers2 = DOMAIN stakers \cup {u}
  /\ \A v \in DOMAIN stakers \ {u} : stakers2[v] = stakers[v]
  /\ stakers2[u] \in StakerInfos
  /\ stakers2[u].bond_share = c /\ stakers2[u].reward_index = s.st.reward_index
  /\ stakers2[u].pending_reward + sent =
       old.pending_reward + ((s.st.reward_index - old.reward_index) * old.bond_share) \div One
  /\ s2.st.reward_index = s.st.reward_index
  /\ s2.st.total_bond_share + old.bond_share = s.st.total_bond_share + c
  /\ StakeFree(s2) + sent = StakeFree(s)

LEMMA StakerSettles ==
  ASSUME NEW s, NEW s2, NEW stakers, NEW stakers2, NEW u, NEW old, NEW c, NEW sent,
         StakerIsSettled(s, s2, stakers, stakers2, u, old, c, sent)
  PROVE  /\ StakersOK(stakers2, s2.st)
         /\ Total(SharesIn(stakers2)) + old.bond_share = Total(SharesIn(stakers)) + c
         /\ \A owed \in Int : StakersPaid(stakers, s, owed) => StakersPaid(stakers2, s2, owed)
<1> USE DEF StakerIsSettled
<1> DEFINE b == old.bond_share
           p == old.pending_reward
           i == old.reward_index
           j == s.st.reward_index
           q == p + ((j - i) * b) \div One
           rest == stakers2[u].pending_reward
<1>1. /\ One \in Nat \ {0} /\ IsFiniteSet(Users)
      /\ b \in Nat /\ p \in Nat /\ i \in Nat /\ j \in Nat /\ i <= j
  BY ProxyAssumption, StakeFields DEF StakerInfos
<1>2. rest \in Nat /\ rest + sent = q
  BY DEF StakerInfos
<1>3. q \in Nat
  BY <1>2
<1>4. StakersOK(stakers2, s2.st)
  <2>1. ASSUME NEW v \in DOMAIN stakers2
        PROVE  stakers2[v] \in StakerInfos /\ stakers2[v].reward_index <= j
    <3>1. CASE v = u
      BY <3>1, <1>1
    <3>2. CASE v # u
      BY <3>2 DEF StakersOK
    <3> QED
      BY <3>1, <3>2
  <2>2. DOMAIN stakers2 \subseteq Users
    BY DEF StakersOK
  <2> QED
    BY <2>1, <2>2 DEF StakersOK
<1>5. /\ SharesIn(stakers)[u] = b /\ SharesIn(stakers2)[u] = c
      /\ \A v \in Users \ {u} : SharesIn(stakers2)[v] = SharesIn(stakers)[v]
  BY DEF SharesIn
<1>6. Total(SharesIn(stakers2)) + b = Total(SharesIn(stakers)) + c
  <2>1. SharesIn(stakers) \in [Users -> Nat] /\ SharesIn(stakers2) \in [Users -> Nat]
    BY <1>4, StakerSumsType
  <2> HIDE DEF b
  <2> QED
    BY <2>1, <1>1, <1>5, SumChange
<1>7. ASSUME NEW owed \in Int, StakersPaid(stakers, s, owed)
      PROVE  StakersPaid(stakers2, s2, owed)
  <2> DEFINE cr == StakerCredits(stakers)
             de == StakerDebits(stakers)
             cr2 == StakerCredits(stakers2)
             de2 == StakerDebits(stakers2)
             slack == StakeSlack(s)
             slack2 == StakeSlack(s2)
  <2>1. /\ cr \in [Users -> Nat] /\ de \in [Users -> Nat]
        /\ cr2 \in [Users -> Nat] /\ de2 \in [Users -> Nat]
    BY <1>4, StakerSumsType
  <2>2. \A v \in Users \ {u} : cr2[v] = cr[v] /\ de2[v] = de[v]
    BY DEF StakerCredits, StakerDebits
  <2>3. cr[u] = p * One /\ de[u] = i * b
    <3>1. CASE u \in DOMAIN stakers
      BY <3>1 DEF StakerCredits, StakerDebits
    <3>2. CASE u \notin DOMAIN stakers
      <4>1. p = 0 /\ b = 0
        BY <3>2
      <4>2. cr[u] = 0 /\ de[u] = 0
        BY <3>2 DEF StakerCredits, StakerDebits
      <4>3. p * One = 0 /\ i * b = 0
        BY <4>1, <1>1
      <4> QED
        BY <4>2, <4>3
    <3> QED
      BY <3>1, <3>2
  <2>4. cr2[u] = rest * One /\ de2[u] = j * c
    BY DEF StakerCredits, StakerDebits
  <2>5. /\ slack \in Int /\ slack2 \in Int /\ StakeFree(s) \in Int /\ StakeFree(s2) \in Int
        /\ s.st.total_bond_share \in Nat /\ s2.st.total_bond_share \in Nat
    BY StakeFields
  <2>6. slack2 + sent * One + j * c = slack + j * b
    <3> DEFINE T == s.st.total_bond_share
               T2 == s2.st.total_bond_share
               F == StakeFree(s)
               F2 == StakeFree(s2)
    <3>1. slack = F * One - j * T /\ slack2 = F2 * One - j * T2
      BY DEF StakeSlack
    <3>2. T2 + b = T + c /\ F2 + sent = F
      OBVIOUS
    <3>3. T \in Nat /\ T2 \in Nat /\ F \in Int /\ F2 \in Int /\ sent \in Nat /\ c \in Nat
      BY <2>5
    <3> HIDE DEF T, T2, F, F2, j, b
    <3>4. j * T2 + j * b = j * T + j * c
      <4>1. j * (T2 + b) = j * T2 + j * b /\ j * (T + c) = j * T + j * c
        BY <3>3, <1>1
      <4> QED
        BY <4>1, <3>2
    <3>5. F * One = F2 * One + sent * One
      BY <3>2, <3>3, <1>1
    <3>6. /\ F * One \in Int /\ F2 * One \in Int /\ sent * One \in Int /\ j * T \in Int
          /\ j * T2 \in Int /\ j * b \in Int /\ j * c \in Int
      BY <3>3, <1>1
    <3> QED
      BY <3>1, <3>4, <3>5, <3>6
  <2>7. Total(cr) + owed <= slack + Total(de)
    BY <1>7 DEF StakersPaid
  <2>8. q = p + ((j - i) * b) \div One /\ rest = q - sent /\ sent \in Nat /\ c \in Nat
    BY <1>2
  <2> HIDE DEF cr, de, cr2, de2, p, i, j, q, b, slack, slack2, rest
  <2>9. (q - sent) * One + i * b + slack <= p * One + j * c + slack2
    BY <2>5, <2>6, <2>8, <1>1, SettledStep
  <2>10. cr2[u] + de[u] + slack <= cr[u] + de2[u] + slack2
    BY <2>3, <2>4, <2>8, <2>9
  <2>11. Total(cr2) + owed <= slack2 + Total(de2)
    BY <2>1, <2>2, <2>5, <2>7, <2>10, <1>1, AccountSettles
  <2> QED
    BY <2>11 DEF cr2, de2, slack2, StakersPaid
<1> QED
  BY <1>4, <1>6, <1>7

\* What the stakers, and what the users, can claim of the rewards; before any rounding.
OwedToStakers(stakers, st) ==
  Total(StakerCredits(stakers)) + st.reward_index * st.total_bond_share
    - Total(StakerDebits(stakers))
OwedToUsers(users, s, t) ==
  Total(Credits(users, t)) + s.pool_info.reward_indexes[t] * s.pool_info.total_bond_share
    - Total(Debits(users, t))

\* ASTRO covers the users and the stakers: seen from the LP tokens and from the xASTRO.
LEMMA SidesAgree ==
  ASSUME NEW b, BondOK(b), NEW users, UsersOK(users, b.pool_info), NEW t \in Tokens,
         NEW s \in StakeStates, NEW stakers, StakersOK(stakers, s.st), Free(b, t) = StakeFree(s)
  PROVE  /\ OwedToStakers(stakers, s.st) \in Int /\ OwedToUsers(users, b, t) \in Int
         /\ Covered(users, b, t, OwedToStakers(stakers, s.st))
              <=> StakersPaid(stakers, s, OwedToUsers(users, b, t))
<1> DEFINE A == Total(Credits(users, t))
           D == Total(Debits(users, t))
           P == b.pool_info.reward_indexes[t] * b.pool_info.total_bond_share
           F == Free(b, t) * One
           SA == Total(StakerCredits(stakers))
           SD == Total(StakerDebits(stakers))
           SP == s.st.reward_index * s.st.total_bond_share
<1>1. A \in Nat /\ D \in Nat
  BY UserSumsType, SumType, ProxyAssumption
<1>2. SA \in Nat /\ SD \in Nat
  BY StakerSumsType, SumType, ProxyAssumption
<1>3. P \in Int /\ F \in Int
  BY AccountsType, ProxyAssumption
<1>4. SP \in Int
  BY StakeFields
<1>5. /\ OwedToStakers(stakers, s.st) = SA + SP - SD
      /\ OwedToUsers(users, b, t) = A + P - D
  BY Zenon DEF OwedToStakers, OwedToUsers
<1>6. Covered(users, b, t, OwedToStakers(stakers, s.st))
        <=> A + OwedToStakers(stakers, s.st) <= (F - P) + D
  BY Zenon DEF Covered, Slack
<1>7. StakersPaid(stakers, s, OwedToUsers(users, b, t))
        <=> SA + OwedToUsers(users, b, t) <= (F - SP) + SD
  BY Zenon DEF StakersPaid, StakeSlack
<1> HIDE DEF A, D, P, F, SA, SD, SP
<1> QED
  BY <1>1, <1>2, <1>3, <1>4, <1>5, <1>6, <1>7

\* A staker after reconcile_to_staker_info.
LEMMA ReconciledStaker ==
  ASSUME NEW st \in StakingStates, NEW old \in StakerInfos, old.reward_index <= st.reward_index,
         NEW r, r = reconcile_to_staker_info(st, old)
  PROVE  /\ r \in StakerInfos /\ r.reward_index = st.reward_index
         /\ r.pending_reward =
              old.pending_reward + ((st.reward_index - old.reward_index) * old.bond_share) \div One
         /\ r.bond_share = old.bond_share /\ r.unstaking_amount = old.unstaking_amount
         /\ r.unstaked_amount = old.unstaked_amount /\ r.unstaking_period = old.unstaking_period
<1> DEFINE pending ==
      old.pending_reward + ((st.reward_index - old.reward_index) * old.bond_share) \div One
<1>1. /\ old.pending_reward \in Nat /\ old.reward_index \in Nat /\ old.bond_share \in Nat
      /\ st.reward_index \in Nat
  BY DEF StakerInfos, StakingStates
<1>2. pending \in Nat
  BY <1>1, Settled
<1>3. r = [old EXCEPT !.pending_reward = pending, !.reward_index = st.reward_index]
  BY DEF reconcile_to_staker_info
<1> HIDE DEF pending
<1>4. /\ r \in StakerInfos /\ r.reward_index = st.reward_index /\ r.pending_reward = pending
      /\ r.bond_share = old.bond_share /\ r.unstaking_amount = old.unstaking_amount
      /\ r.unstaked_amount = old.unstaked_amount /\ r.unstaking_period = old.unstaking_period
  BY <1>1, <1>2, <1>3 DEF StakerInfos
<1> QED
  BY <1>4 DEF pending

\* StakerInfo::update_staking moves amounts only.
LEMMA UpdatedStaker ==
  ASSUME NEW st \in StakingStates, NEW old \in StakerInfos, NEW r, r = update_staking(st, old)
  PROVE  /\ r \in StakerInfos /\ r.reward_index = old.reward_index
         /\ r.pending_reward = old.pending_reward /\ r.bond_share = old.bond_share
         /\ IF st.unstaking_period > old.unstaking_period
            THEN /\ r.unstaking_amount = 0
                 /\ r.unstaked_amount = old.unstaked_amount + old.unstaking_amount
                 /\ r.unstaking_period = st.unstaking_period
            ELSE r = old
<1> DEFINE n == old.unstaked_amount + old.unstaking_amount
<1>1. n \in Nat /\ st.unstaking_period \in Nat
  BY DEF StakerInfos, StakingStates
<1>2. CASE st.unstaking_period > old.unstaking_period
  <2> DEFINE last == st.unstaking_period
  <2>1. r = [old EXCEPT !.unstaked_amount = n, !.unstaking_amount = 0, !.unstaking_period = last]
    BY <1>2 DEF update_staking
  <2>2. last \in Nat /\ n \in Nat
    BY <1>1
  <2> HIDE DEF n, last
  <2>3. /\ r \in StakerInfos /\ r.reward_index = old.reward_index
        /\ r.pending_reward = old.pending_reward /\ r.bond_share = old.bond_share
        /\ r.unstaking_amount = 0 /\ r.unstaked_amount = n /\ r.unstaking_period = last
    <3>1. PICK q : q = [old EXCEPT !.unstaked_amount = n]
      OBVIOUS
    <3>2. /\ q \in StakerInfos /\ q.reward_index = old.reward_index /\ q.unstaked_amount = n
          /\ q.pending_reward = old.pending_reward /\ q.bond_share = old.bond_share
      BY <2>2, <3>1 DEF StakerInfos
    <3>3. PICK p : p = [q EXCEPT !.unstaking_amount = 0]
      OBVIOUS
    <3>4. /\ p \in StakerInfos /\ p.reward_index = q.reward_index /\ p.unstaked_amount = n
          /\ p.pending_reward = q.pending_reward /\ p.bond_share = q.bond_share
          /\ p.unstaking_amount = 0
      BY <3>2, <3>3 DEF StakerInfos
    <3>5. r = [p EXCEPT !.unstaking_period = last]
      BY <2>1, <3>1, <3>3, Zenon
    <3> QED
      BY <2>2, <3>2, <3>4, <3>5 DEF StakerInfos
  <2> QED
    BY <1>2, <2>3 DEF n, last
<1>3. CASE ~ (st.unstaking_period > old.unstaking_period)
  BY <1>3 DEF update_staking
<1> QED
  BY <1>2, <1>3

\* The amounts requested and to be withdrawn, after update_staking.
Unstaking(stakers, st) ==
  [u \in Users |-> IF u \in DOMAIN stakers
                   THEN update_staking(st, stakers[u]).unstaking_amount ELSE 0]
Unstaked(stakers, st) ==
  [u \in Users |-> IF u \in DOMAIN stakers
                   THEN update_staking(st, stakers[u]).unstaked_amount ELSE 0]

\* STAKING_STATE counts them, and no request is later than the last relock.
RequestsOK(stakers, st) ==
  /\ Total(Unstaking(stakers, st)) = st.total_unstaking_amount
  /\ Total(Unstaked(stakers, st)) = st.total_unstaked_amount
  /\ \A u \in DOMAIN stakers : stakers[u].unstaking_period <= st.unstaking_period

LEMMA RequestsType ==
  ASSUME NEW st \in StakingStates, NEW stakers, StakersOK(stakers, st)
  PROVE  Unstaking(stakers, st) \in [Users -> Nat] /\ Unstaked(stakers, st) \in [Users -> Nat]
<1>1. \A u \in DOMAIN stakers : update_staking(st, stakers[u]) \in StakerInfos
  BY UpdatedStaker DEF StakersOK
<1>2. \A u \in DOMAIN stakers : /\ update_staking(st, stakers[u]).unstaking_amount \in Nat
                                /\ update_staking(st, stakers[u]).unstaked_amount \in Nat
  BY <1>1 DEF StakerInfos
<1> QED
  BY <1>2 DEF Unstaking, Unstaked

\* A relock: everything requested becomes withdrawable at once.
LEMMA RequestsRelocked ==
  ASSUME NEW st \in StakingStates, NEW st2 \in StakingStates, NEW stakers,
         StakersOK(stakers, st), StakersOK(stakers, st2), RequestsOK(stakers, st),
         st.unstaking_period < st2.unstaking_period, st2.total_unstaking_amount = 0,
         st2.total_unstaked_amount = st.total_unstaked_amount + st.total_unstaking_amount
  PROVE  RequestsOK(stakers, st2)
<1>1. st.unstaking_period \in Nat /\ st2.unstaking_period \in Nat
  BY DEF StakingStates
<1>2. ASSUME NEW u \in DOMAIN stakers
      PROVE  /\ stakers[u].unstaking_period < st2.unstaking_period
             /\ update_staking(st2, stakers[u]).unstaking_amount = 0
             /\ update_staking(st2, stakers[u]).unstaked_amount =
                  update_staking(st, stakers[u]).unstaked_amount
                    + update_staking(st, stakers[u]).unstaking_amount
  <2> DEFINE old == stakers[u]
             r == update_staking(st, old)
             r2 == update_staking(st2, old)
  <2>1. /\ old \in StakerInfos /\ old.unstaking_period <= st.unstaking_period
        /\ old.unstaking_period \in Nat /\ old.unstaking_amount \in Nat /\ old.unstaked_amount \in Nat
    BY DEF StakersOK, RequestsOK, StakerInfos
  <2>2. old.unstaking_period < st2.unstaking_period
    BY <2>1, <1>1
  <2>3. r2.unstaking_amount = 0 /\ r2.unstaked_amount = old.unstaked_amount + old.unstaking_amount
    <3> HIDE DEF old
    <3> QED
      BY <2>1, <2>2, <1>1, UpdatedStaker
  <2>4. r.unstaked_amount + r.unstaking_amount = old.unstaked_amount + old.unstaking_amount
    <3> HIDE DEF old
    <3>1. /\ IF st.unstaking_period > old.unstaking_period
             THEN /\ r.unstaking_amount = 0
                  /\ r.unstaked_amount = old.unstaked_amount + old.unstaking_amount
             ELSE r = old
      BY <2>1, UpdatedStaker
    <3> HIDE DEF r
    <3> QED
      BY <2>1, <3>1
  <2> QED
    BY <2>2, <2>3, <2>4
<1> DEFINE f == Unstaking(stakers, st)
           g == Unstaked(stakers, st)
           f2 == Unstaking(stakers, st2)
           g2 == Unstaked(stakers, st2)
<1>3. f \in [Users -> Nat] /\ g \in [Users -> Nat] /\ f2 \in [Users -> Nat] /\ g2 \in [Users -> Nat]
  BY RequestsType
<1>4. \A u \in Users : f2[u] = 0 /\ g2[u] = g[u] + f[u]
  BY <1>2 DEF Unstaking, Unstaked
<1>5. IsFiniteSet(Users)
  BY ProxyAssumption
<1>6. Total(f) = st.total_unstaking_amount /\ Total(g) = st.total_unstaked_amount
  BY DEF RequestsOK
<1> HIDE DEF f, g, f2, g2
<1>7. Total(f2) = 0
  BY <1>3, <1>4, <1>5, SumZero
<1>8. Total(g2) = Total(g) + Total(f)
  BY <1>3, <1>4, <1>5, SumAdd
<1>9. \A u \in DOMAIN stakers : stakers[u].unstaking_period <= st2.unstaking_period
  <2> TAKE u \in DOMAIN stakers
  <2>1. stakers[u].unstaking_period \in Nat
    BY DEF StakersOK, StakerInfos
  <2> QED
    BY <2>1, <1>1, <1>2
<1>10. Total(f2) = st2.total_unstaking_amount /\ Total(g2) = st2.total_unstaked_amount
  BY <1>6, <1>7, <1>8
<1> QED
  BY <1>9, <1>10 DEF RequestsOK, f2, g2

\* The amounts of one staker u change.
RequestsChange(stakers, stakers2, st, st2, u) ==
  /\ st \in StakingStates /\ st2 \in StakingStates /\ u \in Users
  /\ StakersOK(stakers, st) /\ StakersOK(stakers2, st2) /\ RequestsOK(stakers, st)
  /\ st2.unstaking_period = st.unstaking_period
  /\ DOMAIN stakers2 = DOMAIN stakers \cup {u}
  /\ \A v \in DOMAIN stakers \ {u} : stakers2[v] = stakers[v]
  /\ stakers2[u].unstaking_period <= st2.unstaking_period
  /\ st2.total_unstaking_amount + Unstaking(stakers, st)[u]
       = st.total_unstaking_amount + Unstaking(stakers2, st2)[u]
  /\ st2.total_unstaked_amount + Unstaked(stakers, st)[u]
       = st.total_unstaked_amount + Unstaked(stakers2, st2)[u]

LEMMA RequestsChanged ==
  ASSUME NEW stakers, NEW stakers2, NEW st, NEW st2, NEW u,
         RequestsChange(stakers, stakers2, st, st2, u)
  PROVE  RequestsOK(stakers2, st2)
<1> USE DEF RequestsChange
<1> DEFINE f == Unstaking(stakers, st)
           g == Unstaked(stakers, st)
           f2 == Unstaking(stakers2, st2)
           g2 == Unstaked(stakers2, st2)
<1>1. f \in [Users -> Nat] /\ g \in [Users -> Nat] /\ f2 \in [Users -> Nat] /\ g2 \in [Users -> Nat]
  BY RequestsType
<1>2. \A v \in Users \ {u} : f2[v] = f[v] /\ g2[v] = g[v]
  BY DEF Unstaking, Unstaked, update_staking
<1>3. /\ st2.total_unstaking_amount + f[u] = st.total_unstaking_amount + f2[u]
      /\ st2.total_unstaked_amount + g[u] = st.total_unstaked_amount + g2[u]
      /\ Total(f) = st.total_unstaking_amount /\ Total(g) = st.total_unstaked_amount
  BY DEF RequestsOK
<1>4. /\ st.total_unstaking_amount \in Nat /\ st.total_unstaked_amount \in Nat
      /\ st2.total_unstaking_amount \in Nat /\ st2.total_unstaked_amount \in Nat
  BY DEF StakingStates
<1> HIDE DEF f, g, f2, g2
<1>5. u \in Users /\ IsFiniteSet(Users)
  BY ProxyAssumption
<1>6. Total(f2) + f[u] = Total(f) + f2[u] /\ Total(g2) + g[u] = Total(g) + g2[u]
  BY <1>1, <1>2, <1>5, SumChange
<1>7. /\ Total(f2) \in Nat /\ Total(g2) \in Nat
      /\ f[u] \in Nat /\ f2[u] \in Nat /\ g[u] \in Nat /\ g2[u] \in Nat
  BY <1>1, <1>5, SumType
<1>8. Total(f2) = st2.total_unstaking_amount /\ Total(g2) = st2.total_unstaked_amount
  BY <1>3, <1>4, <1>6, <1>7
<1>9. \A v \in DOMAIN stakers2 : stakers2[v].unstaking_period <= st2.unstaking_period
  BY DEF RequestsOK
<1> QED
  BY <1>8, <1>9 DEF RequestsOK, f2, g2

-----------------------------------------------------------------------------
(* The invariant of the xASTRO.                                            *)

\* STAKING_STATE counts the shares and the requests of the stakers; the lock holds what is
\* requested and, as long as there are shares, more; it ends after the last relock.
StakeOK(st, stakers, locked, held, now) ==
  /\ st \in StakingStates /\ StakersOK(stakers, st)
  /\ locked \in [amount : Nat, end : Nat] /\ held \in Nat
  /\ st.total_bond_share = Total(SharesIn(stakers))
  /\ RequestsOK(stakers, st)
  /\ st.total_unstaking_amount <= locked.amount
  /\ st.total_bond_share > 0 => st.total_unstaking_amount < locked.amount
  /\ st.total_unstaked_amount <= held
  /\ locked.amount > 0 => st.unstaking_period < locked.end
  /\ st.unstaking_period <= now

StakeInv == StakeOK(staking_state, staker_info, lock, xastro, period) /\ ClockOK

RewardInv == CoverInv(OwedToStakers(staker_info, staking_state))

\* What the users can claim of the ASTRO.
OwedInAstro == OwedToUsers(user_info, Bond, "astro")

LEMMA StartStaking ==
  ASSUME BondInv, StakeInv, RewardInv, HasAstroReward
  PROVE  /\ Staking \in StakeStates /\ OwedInAstro \in Int
         /\ StakersPaid(staker_info, Staking, OwedInAstro)
         /\ Staking.astro.reconciled_amount <= Staking.bal
         /\ Staking.st = staking_state
<1>1. PICK a : a = "astro"
  OBVIOUS
<1>2. a \in Tokens /\ a \in DOMAIN reward_info
  BY <1>1, AstroIsToken, Zenon DEF HasAstroReward
<1>3. Staking = [st |-> staking_state, astro |-> reward_info[a], bal |-> bal[a]]
  BY <1>1, Zenon DEF Staking
<1>4. OwedInAstro = OwedToUsers(user_info, Bond, a)
  BY <1>1, Zenon DEF OwedInAstro
<1>5. BondOK(Bond) /\ UsersOK(user_info, Bond.pool_info) /\ Bond.reward_info = reward_info /\ Bond.bal = bal
  BY DEF BondInv, Bond
<1>6. reward_info[a] \in RewardInfos /\ bal[a] \in Nat
  BY <1>2, <1>5, BondFields DEF BondOK
<1>7. Staking \in StakeStates /\ Staking.st = staking_state
  BY <1>3, <1>6 DEF StakeInv, StakeOK, StakeStates
<1>8. Staking.astro = reward_info[a] /\ Staking.bal = bal[a]
  BY <1>3
<1>9. RewardOf(reward_info, a) = reward_info[a]
  BY <1>2 DEF RewardOf
<1>10. Free(Bond, a) = StakeFree(Staking)
  BY <1>5, <1>8, <1>9 DEF Free, StakeFree
<1>11. /\ RewardOf(reward_info, a).reconciled_amount <= bal[a]
       /\ Covered(user_info, Bond, a, OwedToStakers(staker_info, staking_state))
  BY <1>1, <1>2, Zenon DEF RewardInv, CoverInv
<1>12. StakersOK(staker_info, Staking.st)
  BY <1>7 DEF StakeInv, StakeOK
<1>13. /\ OwedToUsers(user_info, Bond, a) \in Int
       /\ Covered(user_info, Bond, a, OwedToStakers(staker_info, Staking.st))
            <=> StakersPaid(staker_info, Staking, OwedToUsers(user_info, Bond, a))
  <2>1. PICK users, b, s, stakers :
          users = user_info /\ b = Bond /\ s = Staking /\ stakers = staker_info
    OBVIOUS
  <2>2. /\ BondOK(b) /\ UsersOK(users, b.pool_info) /\ s \in StakeStates /\ StakersOK(stakers, s.st)
        /\ Free(b, a) = StakeFree(s)
    BY <2>1, <1>5, <1>7, <1>10, <1>12
  <2>3. /\ OwedToUsers(users, b, a) \in Int
        /\ Covered(users, b, a, OwedToStakers(stakers, s.st))
             <=> StakersPaid(stakers, s, OwedToUsers(users, b, a))
    BY <2>2, <1>2, SidesAgree
  <2> QED
    BY <2>1, <2>3, Zenon
<1> QED
  BY <1>4, <1>7, <1>8, <1>9, <1>11, <1>13

\* The stored accounts after a chain of messages about xASTRO that ends in r.
LEMMA StakeStepKeeps ==
  ASSUME BondInv, RewardInv, HasAstroReward, NEW r \in StakeStates, BecomeStaking(r),
         UNCHANGED <<config, pool_info, gen, user_info, height>>,
         StakersOK(staker_info', r.st), StakersPaid(staker_info', r, OwedInAstro),
         r.astro.reconciled_amount <= r.bal
  PROVE  BondInv' /\ RewardInv' /\ staking_state' = r.st
<1>1. PICK a : a = "astro"
  OBVIOUS
<1>2. a \in Tokens /\ a \in DOMAIN reward_info
  BY <1>1, AstroIsToken, Zenon DEF HasAstroReward
<1>3. /\ staking_state' = r.st /\ reward_info' = [reward_info EXCEPT ![a] = r.astro]
      /\ bal' = [bal EXCEPT ![a] = r.bal]
  BY <1>1, Zenon DEF BecomeStaking
<1>4. OwedInAstro = OwedToUsers(user_info, Bond, a)
  BY <1>1, Zenon DEF OwedInAstro
<1>5. /\ BondOK(Bond) /\ UsersOK(user_info, pool_info)
      /\ pool_info.total_bond_share = Total(SharesIn(user_info))
      /\ Bond = [pool_info |-> pool_info, reward_info |-> reward_info, gen |-> gen, bal |-> bal]
      /\ Bond' = [pool_info |-> pool_info', reward_info |-> reward_info', gen |-> gen', bal |-> bal']
  BY DEF BondInv, Bond
<1>6. PICK b, b2 : b = Bond /\ b2 = Bond'
  OBVIOUS
<1>7. b \in BondStates
  BY <1>5, <1>6 DEF BondOK
<1>8. /\ bal \in [Tokens -> Nat] /\ DOMAIN reward_info \subseteq Tokens
      /\ \A t \in DOMAIN reward_info : reward_info[t] \in RewardInfos
      /\ reward_info = [t \in DOMAIN reward_info |-> reward_info[t]]
      /\ pool_info \in PoolInfos /\ gen \in Entries
  <2>1. b.pool_info = pool_info /\ b.reward_info = reward_info /\ b.gen = gen /\ b.bal = bal
    BY <1>5, <1>6
  <2> QED
    BY <1>7, <2>1, BondFields
<1>9. r.astro \in RewardInfos /\ r.bal \in Nat
  BY StakeFields
<1>10. /\ bal' \in [Tokens -> Nat] /\ bal'[a] = r.bal
       /\ \A t \in Tokens \ {a} : bal'[t] = bal[t]
  BY <1>2, <1>3, <1>8, <1>9
<1>11. /\ DOMAIN reward_info' = DOMAIN reward_info /\ reward_info'[a] = r.astro
       /\ \A t \in DOMAIN reward_info \ {a} : reward_info'[t] = reward_info[t]
       /\ reward_info' = [t \in DOMAIN reward_info' |-> reward_info'[t]]
  BY <1>2, <1>3, <1>8
<1>12. /\ b2 \in BondStates /\ b2.pool_info = pool_info /\ b2.gen = gen
       /\ b2.reward_info = reward_info' /\ b2.bal = bal'
  <2>1. reward_info' \in UNION {[T -> RewardInfos] : T \in SUBSET Tokens}
    BY <1>8, <1>9, <1>11
  <2>2. b2 = [pool_info |-> pool_info, reward_info |-> reward_info', gen |-> gen, bal |-> bal']
    BY <1>5, <1>6
  <2> QED
    BY <2>1, <2>2, <1>8, <1>10 DEF BondStates
<1>13. BondOK(b2)
  BY <1>5, <1>6, <1>12 DEF BondOK, EntryOK
<1>14. BondInv'
  <2>1. SharesIn(user_info)' = SharesIn(user_info)
    BY DEF SharesIn
  <2>2. UsersOK(user_info, pool_info)'
    BY <1>5 DEF UsersOK
  <2> QED
    BY <2>1, <2>2, <1>5, <1>6, <1>13 DEF BondInv
<1>15. RewardOf(reward_info', a) = r.astro
  BY <1>2, <1>11 DEF RewardOf
<1>16. \A t \in Tokens \ {a} : RewardOf(reward_info', t) = RewardOf(reward_info, t)
  BY <1>11 DEF RewardOf
<1>17. \A t \in Tokens \ {a} : Slack(b2, t) = Slack(b, t)
  BY <1>5, <1>6, <1>12, <1>16 DEF Slack, Free
<1>18. Free(b2, a) = StakeFree(r)
  BY <1>12, <1>15 DEF Free, StakeFree
<1>19. OwedToUsers(user_info, b2, a) = OwedToUsers(user_info, b, a)
  BY <1>5, <1>6, <1>12 DEF OwedToUsers
<1>20. PICK stakers2, users, o2 :
         stakers2 = staker_info' /\ users = user_info /\ o2 = OwedToStakers(stakers2, r.st)
  OBVIOUS
<1>21. Covered(users, b2, a, o2)
  <2>1. /\ BondOK(b2) /\ UsersOK(users, b2.pool_info) /\ StakersOK(stakers2, r.st)
        /\ Free(b2, a) = StakeFree(r) /\ a \in Tokens
    BY <1>2, <1>5, <1>12, <1>13, <1>18, <1>20
  <2>2. StakersPaid(stakers2, r, OwedToUsers(users, b2, a))
    BY <1>4, <1>6, <1>19, <1>20
  <2> QED
    BY <2>1, <2>2, <1>20, SidesAgree
<1>22. \A t \in Tokens \ {a} :
         /\ RewardOf(reward_info, t).reconciled_amount <= bal[t]
         /\ Covered(user_info, b, t, 0)
  BY <1>1, <1>6, Zenon DEF RewardInv, CoverInv
<1>23. \A t \in Tokens \ {a} : Covered(users, b2, t, 0)
  BY <1>17, <1>20, <1>22 DEF Covered
<1>24. \A t \in Tokens :
         /\ RewardOf(reward_info', t).reconciled_amount <= bal'[t]
         /\ Covered(users, b2, t, IF t = a THEN o2 ELSE 0)
  <2> TAKE t \in Tokens
  <2>1. CASE t = a
    BY <2>1, <1>10, <1>15, <1>21
  <2>2. CASE t # a
    BY <2>2, <1>10, <1>16, <1>22, <1>23
  <2> QED
    BY <2>1, <2>2
<1>25. RewardInv'
  <2>1. \A t \in Tokens :
          /\ RewardOf(reward_info', t).reconciled_amount <= bal'[t]
          /\ Covered(user_info', Bond', t,
                     IF t = "astro" THEN OwedToStakers(staker_info', staking_state') ELSE 0)
    BY <1>1, <1>3, <1>6, <1>20, <1>24, Zenon
  <2>2. OwedToStakers(staker_info, staking_state)' = OwedToStakers(staker_info', staking_state')
    BY DEF OwedToStakers, StakerCredits, StakerDebits
  <2> QED
    BY <2>1, <2>2, Zenon DEF RewardInv, CoverInv, Covered, Credits, Debits, Slack, Free, RewardOf
<1> QED
  BY <1>3, <1>14, <1>25

LEMMA StakeInvNext ==
  ASSUME StakeOK(staking_state', staker_info', lock', xastro', period'), ClockOK'
  PROVE  StakeInv'
BY DEF StakeInv, StakeOK, StakersOK, RequestsOK, SharesIn, Unstaking, Unstaked, update_staking

\* Relock: the lock gives out what was requested, and the stakers may withdraw as much.
LEMMA RelockKeeps ==
  ASSUME BondInv, StakeInv, RewardInv, execute_relock
  PROVE  BondInv' /\ StakeInv' /\ RewardInv'
<1>1. /\ HasAstroReward /\ last_claim # None /\ lock.amount > 0 /\ lock.end <= period
      /\ staking_state.total_unstaking_amount < lock.amount
      /\ BecomeStaking(Relocked(Staking))
      /\ lock' = [amount |-> lock.amount - staking_state.total_unstaking_amount,
                  end |-> period + 1]
      /\ xastro' = xastro + staking_state.total_unstaking_amount
      /\ last_claim' = period
      /\ UNCHANGED <<config, pool_info, gen, user_info, height>>
      /\ staker_info' = staker_info /\ period' = period /\ week' = week
  BY DEF execute_relock, CanRelock, bondVars, chainVars
<1>2. PICK s, r, owed : s = Staking /\ r = Relocked(s) /\ owed = OwedInAstro
  OBVIOUS
<1>3. /\ s \in StakeStates /\ owed \in Int /\ StakersPaid(staker_info, s, owed)
      /\ s.astro.reconciled_amount <= s.bal /\ s.st = staking_state
  BY <1>1, <1>2, StartStaking
<1>4. /\ r \in StakeStates /\ IncomeOnwards(s, r)
      /\ r.st.total_unstaking_amount = 0 /\ r.st.unstaking_period = period
      /\ r.st.total_unstaked_amount = s.st.total_unstaked_amount + s.st.total_unstaking_amount
  BY <1>1, <1>2, <1>3, RelockedOnwards DEF StakeInv
<1>5. StakersOK(staker_info, s.st) /\ RequestsOK(staker_info, s.st)
  BY <1>3 DEF StakeInv, StakeOK
<1>6. StakersOK(staker_info, r.st) /\ StakersPaid(staker_info, r, owed)
  BY <1>3, <1>4, <1>5, PaidOnwards
<1>7. r.astro.reconciled_amount <= r.bal
  BY <1>3, <1>4 DEF IncomeOnwards
<1>8. BondInv' /\ RewardInv' /\ staking_state' = r.st
  BY <1>1, <1>2, <1>4, <1>6, <1>7, StakeStepKeeps
<1>9. /\ s.st \in StakingStates /\ r.st \in StakingStates
      /\ s.st.total_unstaking_amount \in Nat /\ s.st.total_unstaked_amount \in Nat
      /\ s.st.unstaking_period \in Nat /\ period \in Nat
      /\ lock.amount \in Nat /\ lock.end \in Nat /\ xastro \in Nat
      /\ s.st.total_unstaked_amount <= xastro
      /\ s.st.total_bond_share = Total(SharesIn(staker_info))
  BY <1>3, <1>4, StakeFields DEF StakeInv, StakeOK, ClockOK, StakingStates
<1>10. s.st.unstaking_period < period
  BY <1>1, <1>3, <1>9 DEF StakeInv, StakeOK
<1>11. RequestsOK(staker_info, r.st)
  BY <1>4, <1>5, <1>6, <1>9, <1>10, RequestsRelocked
<1>12. StakeOK(r.st, staker_info, lock', xastro', period)
  <2>1. lock' \in [amount : Nat, end : Nat] /\ lock'.amount > 0 /\ lock'.end = period + 1
    BY <1>1, <1>3, <1>9
  <2>2. xastro' \in Nat /\ r.st.total_unstaked_amount <= xastro'
    BY <1>1, <1>3, <1>4, <1>9
  <2>3. r.st.total_bond_share = Total(SharesIn(staker_info))
    BY <1>4, <1>9 DEF IncomeOnwards
  <2> QED
    BY <1>4, <1>6, <1>9, <1>11, <2>1, <2>2, <2>3 DEF StakeOK
<1>13. ClockOK'
  BY <1>1 DEF ClockOK, StakeInv
<1>14. StakeInv'
  BY <1>1, <1>8, <1>12, <1>13, StakeInvNext
<1> QED
  BY <1>8, <1>14

\* The income set aside is spread before a staker is settled.
LEMMA SpreadStart ==
  ASSUME BondInv, StakeInv, RewardInv, HasAstroReward, NEW s, s = reconcile_staker_income(Staking)
  PROVE  /\ s \in StakeStates /\ OwedInAstro \in Int
         /\ StakersOK(staker_info, s.st) /\ StakersPaid(staker_info, s, OwedInAstro)
         /\ s.astro.reconciled_amount <= s.bal
         /\ SameUnstaking(staking_state, s.st) /\ RequestsOK(staker_info, s.st)
         /\ s.st.total_bond_share = staking_state.total_bond_share
         /\ staking_state.reward_index <= s.st.reward_index
<1>1. PICK q, owed : q = Staking /\ owed = OwedInAstro
  OBVIOUS
<1>2. /\ q \in StakeStates /\ owed \in Int /\ StakersPaid(staker_info, q, owed)
      /\ q.astro.reconciled_amount <= q.bal /\ q.st = staking_state
  BY <1>1, StartStaking
<1>3. s \in StakeStates /\ IncomeOnwards(q, s) /\ SameUnstaking(q.st, s.st)
  BY <1>1, <1>2, SpreadOnwards
<1>4. StakersOK(staker_info, q.st) /\ RequestsOK(staker_info, q.st)
  BY <1>2 DEF StakeInv, StakeOK
<1>5. StakersOK(staker_info, s.st) /\ StakersPaid(staker_info, s, owed)
  BY <1>2, <1>3, <1>4, PaidOnwards
<1>6. s.astro.reconciled_amount <= s.bal
  BY <1>2, <1>3 DEF IncomeOnwards
<1>7. RequestsOK(staker_info, s.st)
  BY <1>3, <1>4 DEF RequestsOK, Unstaking, Unstaked, update_staking, SameUnstaking
<1> QED
  BY <1>1, <1>2, <1>3, <1>5, <1>6, <1>7 DEF IncomeOnwards

\* ClaimIncome: what is sent was pending, and leaves what is reconciled.
LEMMA ClaimIncomeKeeps ==
  ASSUME BondInv, StakeInv, RewardInv, NEW u \in Users, execute_claim_income(u)
  PROVE  BondInv' /\ StakeInv' /\ RewardInv'
<1>1. HasAstroReward /\ u \in DOMAIN staker_info
  BY DEF execute_claim_income
<1>2. PICK s, old, staker, amount, owed :
        /\ s = reconcile_staker_income(Staking) /\ old = staker_info[u]
        /\ staker = reconcile_to_staker_info(s.st, old) /\ amount = staker.pending_reward
        /\ owed = OwedInAstro
  OBVIOUS
<1>3. amount = Income(u)
  BY <1>1, <1>2 DEF Income
<1>4. PICK r, new :
        /\ r = [s EXCEPT !.astro.reconciled_amount = @ - amount, !.bal = @ - amount]
        /\ new = [staker EXCEPT !.pending_reward = 0]
  OBVIOUS
<1>5. /\ amount > 0 /\ amount <= s.astro.reconciled_amount /\ amount <= s.bal
      /\ BecomeStaking(r) /\ staker_info' = [staker_info EXCEPT ![u] = new]
      /\ UNCHANGED <<config, pool_info, gen, user_info, height>>
      /\ UNCHANGED <<lock, xastro, last_claim, period, week>>
  BY <1>2, <1>3, <1>4 DEF execute_claim_income, bondVars, chainVars
<1>6. /\ s \in StakeStates /\ owed \in Int
      /\ StakersOK(staker_info, s.st) /\ StakersPaid(staker_info, s, owed)
      /\ s.astro.reconciled_amount <= s.bal
      /\ SameUnstaking(staking_state, s.st) /\ RequestsOK(staker_info, s.st)
      /\ s.st.total_bond_share = staking_state.total_bond_share
  BY <1>1, <1>2, SpreadStart
<1>7. old \in StakerInfos /\ old.reward_index <= s.st.reward_index /\ old.bond_share \in Nat
  BY <1>1, <1>2, <1>6 DEF StakersOK, StakerInfos
<1>8. /\ staker \in StakerInfos /\ staker.reward_index = s.st.reward_index
      /\ staker.pending_reward =
           old.pending_reward + ((s.st.reward_index - old.reward_index) * old.bond_share) \div One
      /\ staker.bond_share = old.bond_share /\ staker.unstaking_amount = old.unstaking_amount
      /\ staker.unstaked_amount = old.unstaked_amount
      /\ staker.unstaking_period = old.unstaking_period
  BY <1>2, <1>6, <1>7, StakeFields, ReconciledStaker
<1>9. amount \in Nat
  BY <1>2, <1>8 DEF StakerInfos
<1>10. /\ new \in StakerInfos /\ new.pending_reward = 0 /\ new.reward_index = s.st.reward_index
       /\ new.bond_share = old.bond_share /\ new.unstaking_amount = old.unstaking_amount
       /\ new.unstaked_amount = old.unstaked_amount /\ new.unstaking_period = old.unstaking_period
  BY <1>4, <1>8 DEF StakerInfos
<1>11. /\ r \in StakeStates /\ r.st = s.st /\ r.bal = s.bal - amount
       /\ r.astro.reconciled_amount = s.astro.reconciled_amount - amount
       /\ StakeFree(r) + amount = StakeFree(s)
  <2> DEFINE reconciled == s.astro.reconciled_amount - amount
             left == s.bal - amount
             astro == [s.astro EXCEPT !.reconciled_amount = reconciled]
  <2>1. reconciled \in Nat /\ left \in Nat /\ s.astro \in RewardInfos
    BY <1>5, <1>6, <1>9, StakeFields
  <2>2. r = [s EXCEPT !.astro = astro, !.bal = left]
    BY <1>4
  <2>3. reconciled + amount = s.astro.reconciled_amount
    BY <1>6, <1>9, StakeFields
  <2> HIDE DEF reconciled
  <2>4. /\ astro \in RewardInfos /\ astro.reconciled_amount = reconciled
        /\ astro.fee = s.astro.fee /\ astro.staker_income = s.astro.staker_income
    BY <2>1 DEF RewardInfos
  <2> HIDE DEF astro, left
  <2>5. r \in StakeStates /\ r.st = s.st /\ r.bal = left /\ r.astro = astro
    BY <2>1, <2>2, <2>4, <1>6 DEF StakeStates
  <2>6. StakeFree(r) + amount = StakeFree(s)
    <3>1. s.astro.fee \in Nat /\ s.astro.staker_income \in Nat
      BY <1>6, StakeFields
    <3> QED
      BY <2>1, <2>3, <2>4, <2>5, <3>1, <1>9 DEF StakeFree
  <2> QED
    BY <2>4, <2>5, <2>6 DEF left, reconciled
<1>12. /\ DOMAIN staker_info' = DOMAIN staker_info \cup {u} /\ staker_info'[u] = new
       /\ \A v \in DOMAIN staker_info \ {u} : staker_info'[v] = staker_info[v]
  BY <1>1, <1>5
<1>13. PICK stakers2 : stakers2 = staker_info'
  OBVIOUS
<1>14. PICK c : c = old.bond_share
  OBVIOUS
<1>15. StakerIsSettled(s, r, staker_info, stakers2, u, old, c, amount)
  <2>1. s.st.total_bond_share \in Nat
    BY <1>6, StakeFields
  <2>2. new.pending_reward + amount =
          old.pending_reward + ((s.st.reward_index - old.reward_index) * old.bond_share) \div One
    BY <1>2, <1>8, <1>9, <1>10
  <2> QED
    BY <1>1, <1>2, <1>6, <1>7, <1>9, <1>10, <1>11, <1>12, <1>13, <1>14, <2>1, <2>2
    DEF StakerIsSettled
<1>16. /\ StakersOK(stakers2, r.st) /\ StakersPaid(stakers2, r, owed)
       /\ Total(SharesIn(stakers2)) + old.bond_share = Total(SharesIn(staker_info)) + c
  BY <1>6, <1>15, StakerSettles
<1>17. r.astro.reconciled_amount <= r.bal
  BY <1>6, <1>9, <1>11, StakeFields
<1>18. BondInv' /\ RewardInv' /\ staking_state' = r.st
  BY <1>1, <1>2, <1>5, <1>11, <1>13, <1>16, <1>17, StakeStepKeeps
<1>19. Unstaking(stakers2, r.st) = Unstaking(staker_info, s.st)
       /\ Unstaked(stakers2, r.st) = Unstaked(staker_info, s.st)
  <2>1. /\ update_staking(s.st, new).unstaking_amount = update_staking(s.st, old).unstaking_amount
        /\ update_staking(s.st, new).unstaked_amount = update_staking(s.st, old).unstaked_amount
    BY <1>6, <1>7, <1>10, StakeFields, UpdatedStaker
  <2>2. ASSUME NEW v \in DOMAIN staker_info
        PROVE  /\ update_staking(s.st, stakers2[v]).unstaking_amount =
                    update_staking(s.st, staker_info[v]).unstaking_amount
               /\ update_staking(s.st, stakers2[v]).unstaked_amount =
                    update_staking(s.st, staker_info[v]).unstaked_amount
    BY <2>1, <1>2, <1>12, <1>13
  <2>3. DOMAIN stakers2 = DOMAIN staker_info
    BY <1>1, <1>12, <1>13
  <2> QED
    BY <2>2, <2>3, <1>11 DEF Unstaking, Unstaked
<1>20. RequestsOK(stakers2, r.st)
  <2>1. \A v \in DOMAIN stakers2 : stakers2[v].unstaking_period <= r.st.unstaking_period
    BY <1>1, <1>2, <1>6, <1>10, <1>11, <1>12, <1>13 DEF RequestsOK
  <2> QED
    BY <2>1, <1>6, <1>11, <1>19 DEF RequestsOK
<1>21. StakeOK(r.st, stakers2, lock, xastro, period)
  <2>1. r.st.total_bond_share = Total(SharesIn(stakers2))
    <3>1. Total(SharesIn(stakers2)) \in Nat /\ Total(SharesIn(staker_info)) \in Nat
      BY <1>6, <1>16, StakerSumsType, SumType, ProxyAssumption
    <3>2. staking_state.total_bond_share = Total(SharesIn(staker_info))
      BY DEF StakeInv, StakeOK
    <3> QED
      BY <3>1, <3>2, <1>6, <1>7, <1>11, <1>14, <1>16
  <2>2. r.st \in StakingStates
    BY <1>11, StakeFields
  <2> QED
    BY <2>1, <2>2, <1>6, <1>11, <1>16, <1>20 DEF StakeOK, StakeInv, SameUnstaking
<1>22. ClockOK'
  BY <1>5 DEF ClockOK, StakeInv
<1>23. StakeInv'
  BY <1>5, <1>13, <1>18, <1>21, <1>22, StakeInvNext
<1> QED
  BY <1>18, <1>23

\* A request for no more than one's shares are worth fits into what is not requested yet;
\* it takes everything only with the last share.
LEMMA RequestFits ==
  ASSUME NEW T \in Nat \ {0}, NEW free \in Nat \ {0}, NEW share \in Nat, NEW amount \in Nat,
         share <= T, amount * T <= share * free
  PROVE  amount <= free /\ (T - share > 0 => amount < free)
<1>1. /\ amount * T \in Nat /\ share * free \in Nat /\ T * free \in Nat /\ free * T \in Nat
      /\ T * free = free * T
  BY MulNat
<1>2. share * free <= T * free
  BY MulMono
<1>3. amount * T <= free * T
  BY <1>1, <1>2
<1>4. amount <= free
  BY <1>3, MulCancel
<1>5. ASSUME share < T PROVE amount # free
  <2>1. (share + 1) * free <= T * free
    BY <1>5, MulMono
  <2>2. (share + 1) * free = share * free + free
    OBVIOUS
  <2>3. share * free < T * free
    BY <1>1, <2>1, <2>2
  <2> QED
    BY <1>1, <2>3
<1> QED
  BY <1>4, <1>5

\* RequestUnstake: the shares are given up for an amount that the lock holds.
LEMMA RequestUnstakeKeeps ==
  ASSUME BondInv, StakeInv, RewardInv, NEW u \in Users, NEW amount \in Nat, amount # 0,
         execute_request_unstake(u, amount)
  PROVE  BondInv' /\ StakeInv' /\ RewardInv'
<1>1. HasAstroReward /\ u \in DOMAIN staker_info
  BY Zenon DEF execute_request_unstake
<1>2. PICK s, old, first, staker, free, share, owed :
        /\ s = reconcile_staker_income(Staking) /\ old = staker_info[u]
        /\ first = reconcile_to_staker_info(s.st, old) /\ staker = update_staking(s.st, first)
        /\ free = Sat(lock.amount, s.st.total_unstaking_amount)
        /\ share = WithdrawnShare(s.st, free, amount)
        /\ owed = OwedInAstro
  OBVIOUS
<1>3. PICK r, new :
        /\ r = [s EXCEPT !.st.total_bond_share = @ - share, !.st.total_unstaking_amount = @ + amount]
        /\ new = [staker EXCEPT !.bond_share = @ - share, !.unstaking_amount = @ + amount]
  OBVIOUS
<1>4. /\ share <= staker.bond_share
      /\ BecomeStaking(r) /\ staker_info' = [staker_info EXCEPT ![u] = new]
      /\ UNCHANGED <<config, bondVars, chainVars, lock, last_claim, xastro, stake>>
  BY <1>2, <1>3, Zenon DEF execute_request_unstake, calc_stake_share, WithdrawnShare
<1>5. /\ UNCHANGED <<config, pool_info, gen, user_info, height>>
      /\ UNCHANGED <<lock, xastro, last_claim, period, week>>
  BY <1>4 DEF bondVars, chainVars
<1>6. /\ s \in StakeStates /\ owed \in Int
      /\ StakersOK(staker_info, s.st) /\ StakersPaid(staker_info, s, owed)
      /\ s.astro.reconciled_amount <= s.bal
      /\ SameUnstaking(staking_state, s.st) /\ RequestsOK(staker_info, s.st)
      /\ s.st.total_bond_share = staking_state.total_bond_share
  BY <1>1, <1>2, SpreadStart
<1>7. /\ old \in StakerInfos /\ old.reward_index <= s.st.reward_index /\ old.bond_share \in Nat
      /\ old.unstaking_period <= s.st.unstaking_period
  BY <1>1, <1>2, <1>6 DEF StakersOK, StakerInfos, RequestsOK
<1>8. /\ first \in StakerInfos /\ first.reward_index = s.st.reward_index
      /\ first.pending_reward =
           old.pending_reward + ((s.st.reward_index - old.reward_index) * old.bond_share) \div One
      /\ first.bond_share = old.bond_share /\ first.unstaking_amount = old.unstaking_amount
      /\ first.unstaked_amount = old.unstaked_amount
      /\ first.unstaking_period = old.unstaking_period
  BY <1>2, <1>6, <1>7, StakeFields, ReconciledStaker
<1>9. /\ staker \in StakerInfos /\ staker.reward_index = first.reward_index
      /\ staker.pending_reward = first.pending_reward /\ staker.bond_share = first.bond_share
      /\ IF s.st.unstaking_period > first.unstaking_period
         THEN /\ staker.unstaking_amount = 0
              /\ staker.unstaked_amount = first.unstaked_amount + first.unstaking_amount
              /\ staker.unstaking_period = s.st.unstaking_period
         ELSE staker = first
  BY <1>2, <1>6, <1>8, StakeFields, UpdatedStaker
<1>10. s.st.unstaking_period \in Nat /\ old.unstaking_period \in Nat
  BY <1>6, <1>7, StakeFields DEF StakingStates, StakerInfos
<1>11. staker.unstaking_period = s.st.unstaking_period
  BY <1>7, <1>8, <1>9, <1>10
<1>12. /\ update_staking(s.st, old).unstaking_amount = staker.unstaking_amount
       /\ update_staking(s.st, old).unstaked_amount = staker.unstaked_amount
  BY <1>6, <1>7, <1>8, <1>9, StakeFields, UpdatedStaker
<1>13. PICK st : st = s.st
  OBVIOUS
<1>14. /\ st \in StakingStates /\ st.total_bond_share \in Nat /\ st.total_unstaking_amount \in Nat
       /\ lock.amount \in Nat /\ st.total_unstaking_amount <= lock.amount
       /\ st.total_bond_share > 0 => st.total_unstaking_amount < lock.amount
       /\ st.total_bond_share = Total(SharesIn(staker_info))
       /\ free = lock.amount - st.total_unstaking_amount
  <2>1. s.st \in StakingStates /\ lock \in [amount : Nat, end : Nat]
    BY <1>6, StakeFields DEF StakeInv, StakeOK
  <2>2. st.total_bond_share \in Nat /\ st.total_unstaking_amount \in Nat /\ lock.amount \in Nat
    BY <2>1, <1>13 DEF StakingStates
  <2>3. /\ st.total_unstaking_amount <= lock.amount
        /\ st.total_bond_share > 0 => st.total_unstaking_amount < lock.amount
        /\ st.total_bond_share = Total(SharesIn(staker_info))
    BY <1>6, <1>13 DEF StakeInv, StakeOK, SameUnstaking
  <2> QED
    BY <2>1, <2>2, <2>3, <1>2, <1>13 DEF Sat
<1>15. old.bond_share <= st.total_bond_share
  <2>1. SharesIn(staker_info) \in [Users -> Nat] /\ SharesIn(staker_info)[u] = old.bond_share
    BY <1>1, <1>2, <1>6, StakerSumsType DEF SharesIn
  <2> QED
    BY <2>1, <1>14, SumElement, ProxyAssumption
<1>16. PICK T : T = st.total_bond_share
  OBVIOUS
<1>17. /\ share \in Nat
       /\ T > 0 /\ free > 0 => amount * T <= share * free
       /\ T = 0 \/ free = 0 => share = amount
  <2>1. T \in Nat /\ free \in Nat /\ share = WithdrawnShare(st, free, amount)
    BY <1>2, <1>13, <1>14, <1>16
  <2>2. ShareIsSold(T, free, amount, share)
    BY <2>1, <1>16, WithdrawnShareRounds
  <2> QED
    BY <2>2 DEF ShareIsSold
<1>18. T > 0 /\ free > 0 /\ share <= T /\ share <= old.bond_share
  BY <1>4, <1>7, <1>8, <1>9, <1>14, <1>15, <1>16, <1>17
<1>19. amount <= free /\ (T - share > 0 => amount < free)
  <2>1. T \in Nat \ {0} /\ free \in Nat \ {0}
    BY <1>14, <1>16, <1>18
  <2> QED
    BY <2>1, <1>17, <1>18, RequestFits
<1>20. PICK c : c = old.bond_share - share
  OBVIOUS
<1>21. c \in Nat
  BY <1>7, <1>17, <1>18, <1>20
<1>22. /\ new \in StakerInfos /\ new.bond_share = c /\ new.reward_index = s.st.reward_index
       /\ new.pending_reward =
            old.pending_reward + ((s.st.reward_index - old.reward_index) * old.bond_share) \div One
       /\ new.unstaking_amount = staker.unstaking_amount + amount
       /\ new.unstaked_amount = staker.unstaked_amount
       /\ new.unstaking_period = s.st.unstaking_period
  <2> DEFINE n == staker.unstaking_amount + amount
  <2>1. n \in Nat
    BY <1>9 DEF StakerInfos
  <2>2. new = [staker EXCEPT !.bond_share = c, !.unstaking_amount = n]
    BY <1>3, <1>8, <1>9, <1>20
  <2> HIDE DEF n
  <2>3. /\ new \in StakerInfos /\ new.bond_share = c /\ new.reward_index = staker.reward_index
        /\ new.pending_reward = staker.pending_reward /\ new.unstaking_amount = n
        /\ new.unstaked_amount = staker.unstaked_amount
        /\ new.unstaking_period = staker.unstaking_period
    BY <2>1, <2>2, <1>9, <1>21 DEF StakerInfos
  <2> QED
    BY <2>3, <1>8, <1>9, <1>11 DEF n
<1>23. /\ r \in StakeStates /\ r.bal = s.bal /\ r.astro = s.astro
       /\ r.st.total_bond_share = T - share
       /\ r.st.total_unstaking_amount = st.total_unstaking_amount + amount
       /\ r.st.total_unstaked_amount = st.total_unstaked_amount
       /\ r.st.reward_index = st.reward_index /\ r.st.unstaking_period = st.unstaking_period
  <2> DEFINE left == T - share
             n == st.total_unstaking_amount + amount
             st2 == [st EXCEPT !.total_bond_share = left, !.total_unstaking_amount = n]
  <2>1. left \in Nat /\ n \in Nat
    BY <1>14, <1>16, <1>17, <1>18
  <2>2. r = [s EXCEPT !.st = st2]
    BY <1>3, <1>13, <1>16
  <2> HIDE DEF left, n
  <2>3. PICK st3 : st3 = st2
    OBVIOUS
  <2>4. /\ st3 \in StakingStates /\ st3.total_bond_share = left /\ st3.total_unstaking_amount = n
        /\ st3.total_unstaked_amount = st.total_unstaked_amount
        /\ st3.reward_index = st.reward_index /\ st3.unstaking_period = st.unstaking_period
    BY <2>1, <2>3, <1>14 DEF StakingStates
  <2> HIDE DEF st2
  <2>5. r \in StakeStates /\ r.st = st3 /\ r.bal = s.bal /\ r.astro = s.astro
    BY <2>2, <2>3, <2>4, <1>6 DEF StakeStates
  <2> QED
    BY <2>4, <2>5 DEF left, n
<1>24. /\ DOMAIN staker_info' = DOMAIN staker_info \cup {u} /\ staker_info'[u] = new
       /\ \A v \in DOMAIN staker_info \ {u} : staker_info'[v] = staker_info[v]
  BY <1>1, <1>4
<1>25. PICK stakers2 : stakers2 = staker_info'
  OBVIOUS
<1>26. StakerIsSettled(s, r, staker_info, stakers2, u, old, c, 0)
  <2>1. new.pending_reward \in Nat /\ StakeFree(s) \in Int
    BY <1>6, <1>22, StakeFields DEF StakerInfos
  <2>2. StakeFree(r) + 0 = StakeFree(s)
    BY <2>1, <1>23 DEF StakeFree
  <2>3. r.st.total_bond_share + old.bond_share = s.st.total_bond_share + c
    BY <1>7, <1>13, <1>14, <1>16, <1>17, <1>20, <1>23
  <2>4. new.pending_reward + 0 =
          old.pending_reward + ((s.st.reward_index - old.reward_index) * old.bond_share) \div One
    BY <2>1, <1>22
  <2>5. stakers2[u] = new
    BY <1>24, <1>25
  <2> QED
    BY <1>1, <1>2, <1>6, <1>7, <1>13, <1>21, <1>22, <1>23, <1>24, <1>25, <2>2, <2>3, <2>4, <2>5
    DEF StakerIsSettled
<1>27. /\ StakersOK(stakers2, r.st) /\ StakersPaid(stakers2, r, owed)
       /\ Total(SharesIn(stakers2)) + old.bond_share = Total(SharesIn(staker_info)) + c
  BY <1>6, <1>26, StakerSettles
<1>28. r.astro.reconciled_amount <= r.bal
  BY <1>6, <1>23
<1>29. BondInv' /\ RewardInv' /\ staking_state' = r.st
  BY <1>1, <1>2, <1>4, <1>5, <1>23, <1>25, <1>27, <1>28, StakeStepKeeps
<1>30. RequestsOK(stakers2, r.st)
  <2>1. PICK st2 : st2 = r.st
    OBVIOUS
  <2>2. st2 \in StakingStates /\ st.total_unstaked_amount \in Nat
    BY <2>1, <1>14, <1>23, StakeFields DEF StakingStates
  <2>3. update_staking(st2, new) = new
    BY <2>1, <2>2, <1>13, <1>22, <1>23, <1>10 DEF update_staking
  <2>4. /\ Unstaking(staker_info, st)[u] = staker.unstaking_amount
        /\ Unstaked(staker_info, st)[u] = staker.unstaked_amount
    BY <1>1, <1>2, <1>12, <1>13 DEF Unstaking, Unstaked
  <2>5. /\ Unstaking(stakers2, st2)[u] = staker.unstaking_amount + amount
        /\ Unstaked(stakers2, st2)[u] = staker.unstaked_amount
    BY <2>3, <1>22, <1>24, <1>25 DEF Unstaking, Unstaked
  <2>6. staker.unstaking_amount \in Nat /\ staker.unstaked_amount \in Nat
    BY <1>9 DEF StakerInfos
  <2>7. stakers2[u].unstaking_period <= st2.unstaking_period
    BY <2>1, <1>10, <1>13, <1>22, <1>23, <1>24, <1>25
  <2>8. /\ st2.total_unstaking_amount + Unstaking(staker_info, st)[u]
             = st.total_unstaking_amount + Unstaking(stakers2, st2)[u]
        /\ st2.total_unstaked_amount + Unstaked(staker_info, st)[u]
             = st.total_unstaked_amount + Unstaked(stakers2, st2)[u]
    BY <2>1, <2>2, <2>4, <2>5, <2>6, <1>14, <1>23
  <2>9. RequestsChange(staker_info, stakers2, st, st2, u)
    BY <2>1, <2>2, <2>7, <2>8, <1>6, <1>13, <1>14, <1>23, <1>24, <1>25, <1>27
    DEF RequestsChange
  <2> QED
    BY <2>1, <2>9, RequestsChanged
<1>31. StakeOK(r.st, stakers2, lock, xastro, period)
  <2>1. r.st.total_bond_share = Total(SharesIn(stakers2))
    <3>1. Total(SharesIn(stakers2)) \in Nat
      BY <1>27, StakerSumsType, SumType, ProxyAssumption
    <3> QED
      BY <3>1, <1>7, <1>14, <1>16, <1>17, <1>20, <1>23, <1>27
  <2>2. r.st \in StakingStates
    BY <1>23, StakeFields
  <2>3. r.st.total_unstaking_amount <= lock.amount
    BY <1>14, <1>19, <1>23
  <2>4. r.st.total_bond_share > 0 => r.st.total_unstaking_amount < lock.amount
    BY <1>14, <1>19, <1>23
  <2>5. /\ lock \in [amount : Nat, end : Nat] /\ xastro \in Nat
        /\ r.st.total_unstaked_amount <= xastro
        /\ lock.amount > 0 => r.st.unstaking_period < lock.end
        /\ r.st.unstaking_period <= period
    BY <1>6, <1>13, <1>23 DEF StakeInv, StakeOK, SameUnstaking
  <2> QED
    BY <2>1, <2>2, <2>3, <2>4, <2>5, <1>27, <1>30 DEF StakeOK
<1>32. ClockOK'
  BY <1>5 DEF ClockOK, StakeInv
<1>33. StakeInv'
  BY <1>5, <1>25, <1>29, <1>31, <1>32, StakeInvNext
<1> QED
  BY <1>29, <1>33

\* Stake: shares are bought, then an ended lock is relocked.
LEMMA StakeKeeps ==
  ASSUME BondInv, StakeInv, RewardInv, NEW u \in Users, NEW amount \in Nat, amount # 0,
         execute_stake(u, amount)
  PROVE  BondInv' /\ StakeInv' /\ RewardInv'
<1> DEFINE ended == lock.amount > 0 /\ lock.end <= period
           unlocked == IF ended THEN staking_state.total_unstaking_amount ELSE 0
<1>1. PICK s, old, staker, free, share, owed :
        /\ s = reconcile_staker_income(Staking) /\ old = StakerOf(staking_state, u)
        /\ staker = reconcile_to_staker_info(s.st, old)
        /\ free = Sat(lock.amount, s.st.total_unstaking_amount)
        /\ share = BoughtShare(s.st, free, amount)
        /\ owed = OwedInAstro
  OBVIOUS
<1>2. PICK bought, new :
        /\ bought = [s EXCEPT !.st.total_bond_share = @ + share]
        /\ new = [staker EXCEPT !.bond_share = @ + share]
  OBVIOUS
<1>3. PICK r : r = IF ended THEN Relocked(bought) ELSE bought
  OBVIOUS
<1>4. /\ HasAstroReward /\ (ended => CanRelock) /\ BecomeStaking(r)
      /\ staker_info' = Saved(staker_info, u, new)
      /\ lock' = [amount |-> lock.amount - unlocked + amount,
                  end |-> IF lock.amount = 0 \/ ended THEN period + 1 ELSE lock.end]
      /\ xastro' = xastro + unlocked
      /\ last_claim' = IF ended THEN period ELSE last_claim
      /\ UNCHANGED <<config, bondVars, chainVars>>
  BY <1>1, <1>2, <1>3, Zenon DEF execute_stake, calc_stake_share, BoughtShare
<1>5. UNCHANGED <<config, pool_info, gen, user_info, height>> /\ UNCHANGED <<period, week>>
  BY <1>4 DEF bondVars, chainVars
<1>6. /\ s \in StakeStates /\ owed \in Int
      /\ StakersOK(staker_info, s.st) /\ StakersPaid(staker_info, s, owed)
      /\ s.astro.reconciled_amount <= s.bal
      /\ SameUnstaking(staking_state, s.st) /\ RequestsOK(staker_info, s.st)
      /\ s.st.total_bond_share = staking_state.total_bond_share
      /\ staking_state.reward_index <= s.st.reward_index
  BY <1>1, <1>4, SpreadStart
<1>7. PICK st : st = s.st
  OBVIOUS
<1>8. /\ st \in StakingStates /\ st.total_bond_share \in Nat /\ st.total_unstaking_amount \in Nat
      /\ st.total_unstaked_amount \in Nat /\ st.unstaking_period \in Nat /\ st.reward_index \in Nat
      /\ lock.amount \in Nat /\ lock.end \in Nat /\ xastro \in Nat /\ period \in Nat
      /\ st.total_unstaking_amount <= lock.amount /\ st.total_unstaked_amount <= xastro
      /\ st.total_bond_share = Total(SharesIn(staker_info))
      /\ lock.amount > 0 => st.unstaking_period < lock.end
      /\ st.unstaking_period <= period
  <2>1. s.st \in StakingStates /\ lock \in [amount : Nat, end : Nat]
    BY <1>6, StakeFields DEF StakeInv, StakeOK
  <2>2. /\ st.total_bond_share \in Nat /\ st.total_unstaking_amount \in Nat
        /\ st.total_unstaked_amount \in Nat /\ st.unstaking_period \in Nat /\ st.reward_index \in Nat
        /\ lock.amount \in Nat /\ lock.end \in Nat /\ st \in StakingStates
    BY <2>1, <1>7 DEF StakingStates
  <2>3. /\ xastro \in Nat /\ period \in Nat
        /\ st.total_unstaking_amount <= lock.amount /\ st.total_unstaked_amount <= xastro
        /\ st.total_bond_share = Total(SharesIn(staker_info))
        /\ lock.amount > 0 => st.unstaking_period < lock.end
        /\ st.unstaking_period <= period
    BY <1>6, <1>7 DEF StakeInv, StakeOK, SameUnstaking, ClockOK
  <2> QED
    BY <2>2, <2>3
<1>9. share \in Nat
  <2>1. PICK T : T = st.total_bond_share
    OBVIOUS
  <2>2. T \in Nat /\ free \in Nat /\ share = BoughtShare(st, free, amount)
    BY <2>1, <1>1, <1>7, <1>8 DEF Sat
  <2> QED
    BY <2>1, <2>2, BoughtShareRounds
<1>10. /\ old \in StakerInfos /\ old.reward_index <= st.reward_index /\ old.bond_share \in Nat
       /\ old.unstaking_period <= st.unstaking_period
       /\ IF u \in DOMAIN staker_info THEN old = staker_info[u]
          ELSE /\ old.bond_share = 0 /\ old.pending_reward = 0
               /\ old.unstaking_amount = 0 /\ old.unstaked_amount = 0
  <2>1. CASE u \in DOMAIN staker_info
    BY <2>1, <1>1, <1>6, <1>7 DEF StakerOf, StakersOK, StakerInfos, RequestsOK
  <2>2. CASE u \notin DOMAIN staker_info
    <3>1. old = [bond_share |-> 0, reward_index |-> staking_state.reward_index, pending_reward |-> 0,
                 unstaking_amount |-> 0, unstaked_amount |-> 0,
                 unstaking_period |-> staking_state.unstaking_period]
      BY <2>2, <1>1 DEF StakerOf, NewStaker
    <3>2. staking_state.reward_index \in Nat /\ staking_state.unstaking_period = st.unstaking_period
      BY <1>6, <1>7 DEF StakeInv, StakeOK, StakingStates, SameUnstaking
    <3> QED
      BY <2>2, <3>1, <3>2, <1>6, <1>7, <1>8 DEF StakerInfos
  <2> QED
    BY <2>1, <2>2
<1>11. /\ staker \in StakerInfos /\ staker.reward_index = st.reward_index
       /\ staker.pending_reward =
            old.pending_reward + ((st.reward_index - old.reward_index) * old.bond_share) \div One
       /\ staker.bond_share = old.bond_share /\ staker.unstaking_amount = old.unstaking_amount
       /\ staker.unstaked_amount = old.unstaked_amount
       /\ staker.unstaking_period = old.unstaking_period
  BY <1>1, <1>7, <1>8, <1>10, ReconciledStaker
<1>12. PICK c : c = old.bond_share + share
  OBVIOUS
<1>13. /\ new \in StakerInfos /\ new.bond_share = c /\ new.reward_index = st.reward_index
       /\ new.pending_reward = staker.pending_reward
       /\ new.unstaking_amount = old.unstaking_amount /\ new.unstaked_amount = old.unstaked_amount
       /\ new.unstaking_period = old.unstaking_period /\ c \in Nat
  <2>1. c \in Nat /\ new = [staker EXCEPT !.bond_share = c]
    BY <1>2, <1>9, <1>10, <1>11, <1>12
  <2> QED
    BY <2>1, <1>11 DEF StakerInfos
<1>14. PICK st2, T2 : st2 = bought.st /\ T2 = st.total_bond_share + share
  OBVIOUS
<1>15. /\ bought \in StakeStates /\ bought.bal = s.bal /\ bought.astro = s.astro
       /\ st2 \in StakingStates /\ st2.total_bond_share = T2 /\ T2 \in Nat
       /\ SameUnstaking(st, st2) /\ st2.reward_index = st.reward_index
  <2>1. T2 \in Nat
    BY <1>8, <1>9, <1>14
  <2>2. PICK st3 : st3 = [st EXCEPT !.total_bond_share = T2]
    OBVIOUS
  <2>3. bought = [s EXCEPT !.st = st3]
    BY <2>2, <1>2, <1>7, <1>14
  <2>4. /\ st3 \in StakingStates /\ st3.total_bond_share = T2
        /\ SameUnstaking(st, st3) /\ st3.reward_index = st.reward_index
    BY <2>1, <2>2, <1>8 DEF StakingStates, SameUnstaking
  <2>5. bought \in StakeStates /\ bought.st = st3 /\ bought.bal = s.bal /\ bought.astro = s.astro
    BY <2>3, <2>4, <1>6 DEF StakeStates
  <2> QED
    BY <2>1, <2>4, <2>5, <1>14
<1>16. /\ DOMAIN staker_info' = DOMAIN staker_info \cup {u} /\ staker_info'[u] = new
       /\ \A v \in DOMAIN staker_info \ {u} : staker_info'[v] = staker_info[v]
  BY <1>4 DEF Saved
<1>17. PICK stakers2 : stakers2 = staker_info'
  OBVIOUS
<1>18. StakerIsSettled(s, bought, staker_info, stakers2, u, old, c, 0)
  <2>1. new.pending_reward \in Nat /\ StakeFree(s) \in Int
    BY <1>6, <1>13, StakeFields DEF StakerInfos
  <2>2. StakeFree(bought) + 0 = StakeFree(s)
    BY <2>1, <1>15 DEF StakeFree
  <2>3. bought.st.total_bond_share + old.bond_share = s.st.total_bond_share + c
    BY <1>7, <1>8, <1>9, <1>10, <1>12, <1>14, <1>15
  <2>4. new.pending_reward + 0 =
          old.pending_reward + ((s.st.reward_index - old.reward_index) * old.bond_share) \div One
    BY <2>1, <1>7, <1>11, <1>13
  <2>5. stakers2[u] = new /\ DOMAIN stakers2 = DOMAIN staker_info \cup {u}
        /\ \A v \in DOMAIN staker_info \ {u} : stakers2[v] = staker_info[v]
    BY <1>16, <1>17
  <2>6. /\ bought.st.reward_index = s.st.reward_index /\ old.reward_index <= s.st.reward_index
        /\ new.reward_index = s.st.reward_index
    BY <1>7, <1>10, <1>13, <1>14, <1>15
  <2>7. IF u \in DOMAIN staker_info THEN old = staker_info[u]
        ELSE old.bond_share = 0 /\ old.pending_reward = 0
    BY <1>10
  <2> QED
    BY <1>6, <1>10, <1>13, <1>15, <2>2, <2>3, <2>4, <2>5, <2>6, <2>7 DEF StakerIsSettled
<1>19. /\ StakersOK(stakers2, st2) /\ StakersPaid(stakers2, bought, owed)
       /\ Total(SharesIn(stakers2)) + old.bond_share = Total(SharesIn(staker_info)) + c
  BY <1>6, <1>14, <1>18, StakerSettles
<1>20. st2.total_bond_share = Total(SharesIn(stakers2))
  <2>1. Total(SharesIn(stakers2)) \in Nat
    BY <1>19, StakerSumsType, SumType, ProxyAssumption
  <2> QED
    BY <2>1, <1>8, <1>9, <1>10, <1>12, <1>14, <1>15, <1>19
<1>21. RequestsOK(stakers2, st2)
  <2>1. /\ Unstaking(staker_info, st)[u] = Unstaking(stakers2, st2)[u]
        /\ Unstaked(staker_info, st)[u] = Unstaked(stakers2, st2)[u]
    <3> DEFINE now == update_staking(st, old)
               now2 == update_staking(st2, new)
    <3>1. Unstaking(stakers2, st2)[u] = now2.unstaking_amount
          /\ Unstaked(stakers2, st2)[u] = now2.unstaked_amount
      BY <1>16, <1>17 DEF Unstaking, Unstaked
    <3>2. now2.unstaking_amount = now.unstaking_amount /\ now2.unstaked_amount = now.unstaked_amount
      BY <1>8, <1>10, <1>13, <1>15, UpdatedStaker DEF SameUnstaking
    <3>3. CASE u \in DOMAIN staker_info
      BY <3>1, <3>2, <3>3, <1>10 DEF Unstaking, Unstaked
    <3>4. CASE u \notin DOMAIN staker_info
      <4>1. Unstaking(staker_info, st)[u] = 0 /\ Unstaked(staker_info, st)[u] = 0
        BY <3>4 DEF Unstaking, Unstaked
      <4>2. now.unstaking_amount = 0 /\ now.unstaked_amount = 0
        BY <3>4, <1>8, <1>10, UpdatedStaker
      <4> QED
        BY <3>1, <3>2, <4>1, <4>2
    <3> QED
      BY <3>3, <3>4
  <2>2. stakers2[u].unstaking_period <= st2.unstaking_period
    BY <1>10, <1>13, <1>15, <1>16, <1>17 DEF SameUnstaking
  <2>3. /\ st2.total_unstaking_amount + Unstaking(staker_info, st)[u]
             = st.total_unstaking_amount + Unstaking(stakers2, st2)[u]
        /\ st2.total_unstaked_amount + Unstaked(staker_info, st)[u]
             = st.total_unstaked_amount + Unstaked(stakers2, st2)[u]
        /\ st2.unstaking_period = st.unstaking_period
    BY <2>1, <1>15 DEF SameUnstaking
  <2>4. RequestsChange(staker_info, stakers2, st, st2, u)
    BY <2>2, <2>3, <1>6, <1>7, <1>8, <1>15, <1>16, <1>17, <1>19 DEF RequestsChange
  <2> QED
    BY <2>4, RequestsChanged
<1>22. bought.astro.reconciled_amount <= bought.bal
  BY <1>6, <1>15
<1>23. CASE ~ ended
  <2>1. r = bought
    BY <1>3, <1>23
  <2>2. BondInv' /\ RewardInv' /\ staking_state' = st2
    BY <2>1, <1>1, <1>4, <1>5, <1>14, <1>15, <1>17, <1>19, <1>22, StakeStepKeeps
  <2>3. /\ lock' \in [amount : Nat, end : Nat] /\ lock'.amount = lock.amount + amount
        /\ st2.unstaking_period < lock'.end
    <3> DEFINE n == lock.amount - unlocked + amount
               e == IF lock.amount = 0 \/ ended THEN period + 1 ELSE lock.end
    <3>1. n = lock.amount + amount /\ n \in Nat
      BY <1>8, <1>23
    <3>2. e \in Nat /\ st2.unstaking_period < e
      BY <1>8, <1>15, <1>23 DEF SameUnstaking
    <3>3. lock' = [amount |-> n, end |-> e]
      BY <1>4
    <3> HIDE DEF n, e
    <3> QED
      BY <3>1, <3>2, <3>3
  <2>4. xastro' = xastro
    BY <1>4, <1>8, <1>23
  <2>5. StakeOK(st2, stakers2, lock', xastro', period)
    <3>1. /\ st2.total_unstaking_amount < lock'.amount /\ st2.total_unstaking_amount <= lock'.amount
          /\ st2.total_unstaked_amount <= xastro' /\ st2.unstaking_period <= period
      BY <2>3, <2>4, <1>8, <1>15 DEF SameUnstaking
    <3> QED
      BY <2>3, <2>4, <3>1, <1>8, <1>15, <1>19, <1>20, <1>21 DEF StakeOK
  <2>6. ClockOK'
    BY <1>4, <1>5, <1>23 DEF ClockOK, StakeInv
  <2>7. StakeInv'
    BY <2>2, <2>5, <2>6, <1>5, <1>17, StakeInvNext
  <2> QED
    BY <2>2, <2>7
<1>24. CASE ended
  <2>1. r = Relocked(bought) /\ last_claim # None
    BY <1>3, <1>4, <1>24 DEF CanRelock
  <2>2. /\ r \in StakeStates /\ IncomeOnwards(bought, r)
        /\ r.st.total_unstaking_amount = 0 /\ r.st.unstaking_period = period
        /\ r.st.total_unstaked_amount = st2.total_unstaked_amount + st2.total_unstaking_amount
    BY <2>1, <1>14, <1>15, RelockedOnwards DEF StakeInv
  <2>3. StakersOK(stakers2, r.st) /\ StakersPaid(stakers2, r, owed)
    BY <2>2, <1>6, <1>14, <1>15, <1>19, PaidOnwards
  <2>4. r.astro.reconciled_amount <= r.bal
    BY <2>2, <1>22 DEF IncomeOnwards
  <2>5. BondInv' /\ RewardInv' /\ staking_state' = r.st
    BY <2>2, <2>3, <2>4, <1>1, <1>4, <1>5, <1>17, StakeStepKeeps
  <2>6. r.st \in StakingStates
    BY <2>2, StakeFields
  <2>7. st2.unstaking_period < period
    BY <1>8, <1>15, <1>24 DEF SameUnstaking
  <2>8. RequestsOK(stakers2, r.st)
    BY <2>2, <2>3, <2>6, <2>7, <1>15, <1>19, <1>21, RequestsRelocked
  <2>9. unlocked = st.total_unstaking_amount
    BY <1>6, <1>7, <1>24 DEF SameUnstaking
  <2>10. /\ lock' \in [amount : Nat, end : Nat] /\ lock'.amount > 0 /\ lock'.end = period + 1
    <3> DEFINE n == lock.amount - unlocked + amount
    <3>1. n \in Nat /\ n > 0
      <4> HIDE DEF unlocked
      <4> QED
        BY <2>9, <1>8
    <3>2. lock' = [amount |-> n, end |-> period + 1]
      BY <1>4, <1>24
    <3> HIDE DEF n
    <3> QED
      BY <3>1, <3>2, <1>8
  <2>11. xastro' \in Nat /\ r.st.total_unstaked_amount <= xastro'
    <3>1. xastro' = xastro + st.total_unstaking_amount
      BY <2>9, <1>4
    <3> QED
      BY <3>1, <2>2, <1>8, <1>15 DEF SameUnstaking
  <2>12. StakeOK(r.st, stakers2, lock', xastro', period)
    <3>1. r.st.total_bond_share = Total(SharesIn(stakers2))
      BY <2>2, <1>14, <1>20 DEF IncomeOnwards
    <3> QED
      BY <2>2, <2>3, <2>6, <2>8, <2>10, <2>11, <3>1, <1>8 DEF StakeOK
  <2>13. ClockOK'
    BY <1>4, <1>5, <1>24 DEF ClockOK, StakeInv
  <2>14. StakeInv'
    BY <2>5, <2>12, <2>13, <1>5, <1>17, StakeInvNext
  <2> QED
    BY <2>5, <2>14
<1> QED
  BY <1>23, <1>24

-----------------------------------------------------------------------------
(* Steps that settle nobody.                                               *)

LEMMA OtherKeeps ==
  ASSUME BondInv, RewardInv, config' \in Configs, height' \in Nat,
         UNCHANGED <<pool_info, user_info>>, NEW b, b = Bond', BondOK(b),
         \A t \in Tokens : /\ Free(b, t) = Free(Bond, t)
                           /\ RewardOf(b.reward_info, t).reconciled_amount <= b.bal[t],
         OwedToStakers(staker_info', staking_state') = OwedToStakers(staker_info, staking_state)
  PROVE  BondInv' /\ RewardInv'
<1>1. /\ Bond.pool_info = pool_info /\ b.pool_info = pool_info
      /\ b.reward_info = reward_info' /\ b.bal = bal'
  BY DEF Bond
<1>2. BondInv'
  <2>1. SharesIn(user_info)' = SharesIn(user_info) /\ UsersOK(user_info, pool_info)'
    BY DEF SharesIn, UsersOK, BondInv
  <2> QED
    BY <2>1 DEF BondInv
<1>3. \A t \in Tokens : Slack(b, t) = Slack(Bond, t)
  BY <1>1 DEF Slack
<1>4. PICK o : o = OwedToStakers(staker_info, staking_state)
  OBVIOUS
<1>5. \A t \in Tokens :
        /\ RewardOf(reward_info', t).reconciled_amount <= bal'[t]
        /\ Covered(user_info', b, t, IF t = "astro" THEN o ELSE 0)
  <2>1. \A t \in Tokens : Covered(user_info, Bond, t, IF t = "astro" THEN o ELSE 0)
    BY <1>4, Zenon DEF RewardInv, CoverInv
  <2>2. ASSUME NEW t \in Tokens, NEW n, Covered(user_info, Bond, t, n)
        PROVE  Covered(user_info', b, t, n)
    BY <2>2, <1>3 DEF Covered
  <2> QED
    BY <1>1, <2>1, <2>2
<1>6. RewardInv'
  <2>1. OwedToStakers(staker_info, staking_state)' = o
    BY <1>4 DEF OwedToStakers, StakerCredits, StakerDebits
  <2> QED
    BY <2>1, <1>5, Zenon DEF RewardInv, CoverInv, Covered, Credits, Debits, Slack, Free, RewardOf
<1> QED
  BY <1>2, <1>6

\* Rewards that arrive, and what others change in the generator, cost nobody anything.
LEMMA ArrivalKeeps ==
  ASSUME BondInv, RewardInv, config' \in Configs, height' \in Nat,
         UNCHANGED <<pool_info, user_info, reward_info, staker_info, staking_state>>,
         gen' = gen \/ BondOK(Bond'), bal' \in [Tokens -> Nat], \A t \in Tokens : bal[t] <= bal'[t]
  PROVE  BondInv' /\ RewardInv'
<1>1. PICK b : b = Bond'
  OBVIOUS
<1>2. /\ b = [pool_info |-> pool_info, reward_info |-> reward_info, gen |-> gen', bal |-> bal']
      /\ Bond = [pool_info |-> pool_info, reward_info |-> reward_info, gen |-> gen, bal |-> bal]
  BY <1>1 DEF Bond
<1>3. BondOK(Bond)
  BY DEF BondInv
<1>4. BondOK(b)
  <2>1. CASE gen' = gen
    <3>1. b \in BondStates
      BY <2>1, <1>2, <1>3 DEF BondOK, BondStates
    <3> QED
      BY <2>1, <3>1, <1>2, <1>3 DEF BondOK, EntryOK
  <2> QED
    BY <2>1, <1>1
<1>5. \A t \in Tokens : Free(b, t) = Free(Bond, t)
  BY <1>2 DEF Free
<1>6. \A t \in Tokens : RewardOf(b.reward_info, t).reconciled_amount <= b.bal[t]
  <2> TAKE t \in Tokens
  <2>1. RewardOf(reward_info, t).reconciled_amount <= bal[t]
    BY DEF RewardInv, CoverInv
  <2>2. bal[t] \in Nat /\ RewardOf(reward_info, t).reconciled_amount \in Nat
    <3>1. Bond.bal[t] \in Nat /\ RewardOf(Bond.reward_info, t) \in RewardInfos
      BY <1>3, BondFields, AccountsType DEF BondOK
    <3> QED
      BY <1>2, <3>1 DEF RewardInfos
  <2> QED
    BY <1>2, <2>1, <2>2
<1> QED
  BY <1>1, <1>4, <1>5, <1>6, OtherKeeps

\* Nothing about the xASTRO changes.
LEMMA SameStake ==
  ASSUME StakeInv, UNCHANGED <<staking_state, staker_info, lock, xastro, period, week, last_claim>>
  PROVE  StakeInv'
BY StakeInvNext DEF StakeInv, ClockOK

LEMMA SendIncomeKeeps ==
  ASSUME BondInv, StakeInv, RewardInv, execute_send_income
  PROVE  BondInv' /\ StakeInv' /\ RewardInv'
<1>1. PICK a, fee : a = "astro" /\ fee = reward_info[a].fee
  OBVIOUS
<1>2. /\ a \in DOMAIN reward_info /\ a \in Tokens /\ fee <= reward_info[a].reconciled_amount
      /\ bal' = [bal EXCEPT ![a] = @ - fee]
      /\ reward_info' = [reward_info EXCEPT ![a].fee = 0, ![a].reconciled_amount = @ - fee]
      /\ UNCHANGED <<config, bondVars, stakingVars, chainVars>>
  BY <1>1, AstroIsToken, Zenon DEF execute_send_income, HasAstroReward
<1>3. UNCHANGED <<config, pool_info, user_info, gen, height, staker_info, staking_state, lock, xastro,
                  period, week, last_claim>>
  BY <1>2 DEF bondVars, stakingVars, chainVars
<1>4. PICK b, b2 : b = Bond /\ b2 = Bond'
  OBVIOUS
<1>5. /\ b.pool_info = pool_info /\ b.reward_info = reward_info /\ b.gen = gen /\ b.bal = bal
      /\ b2 = [pool_info |-> pool_info, reward_info |-> reward_info', gen |-> gen, bal |-> bal']
      /\ BondOK(b)
  BY <1>3, <1>4 DEF Bond, BondInv
<1>6. /\ bal \in [Tokens -> Nat] /\ DOMAIN reward_info \subseteq Tokens
      /\ \A t \in DOMAIN reward_info : reward_info[t] \in RewardInfos
      /\ reward_info = [t \in DOMAIN reward_info |-> reward_info[t]]
      /\ pool_info \in PoolInfos /\ gen \in Entries
  BY <1>5, BondFields DEF BondOK
<1>7. PICK old, new :
        /\ old = reward_info[a]
        /\ new = [old EXCEPT !.fee = 0, !.reconciled_amount = old.reconciled_amount - fee]
  OBVIOUS
<1>8. /\ old \in RewardInfos /\ old.fee = fee /\ fee \in Nat /\ old.reconciled_amount \in Nat
      /\ old.staker_income \in Nat /\ fee <= old.reconciled_amount
  BY <1>1, <1>2, <1>6, <1>7 DEF RewardInfos
<1>9. /\ new \in RewardInfos /\ new.fee = 0 /\ new.staker_income = old.staker_income
      /\ new.reconciled_amount = old.reconciled_amount - fee
  <2> DEFINE n == old.reconciled_amount - fee
  <2>1. n \in Nat /\ new = [old EXCEPT !.fee = 0, !.reconciled_amount = n]
    BY <1>7, <1>8
  <2> HIDE DEF n
  <2>2. /\ new \in RewardInfos /\ new.fee = 0 /\ new.staker_income = old.staker_income
        /\ new.reconciled_amount = n
    BY <2>1, <1>8 DEF RewardInfos
  <2> QED
    BY <2>2 DEF n
<1>10. reward_info' = [reward_info EXCEPT ![a] = new]
  BY <1>2, <1>6, <1>7, <1>8 DEF RewardInfos
<1>11. /\ DOMAIN reward_info' = DOMAIN reward_info /\ reward_info'[a] = new
       /\ \A t \in DOMAIN reward_info \ {a} : reward_info'[t] = reward_info[t]
       /\ reward_info' = [t \in DOMAIN reward_info' |-> reward_info'[t]]
  BY <1>2, <1>6, <1>10
<1>12. \A t \in Tokens : RewardOf(reward_info, t).reconciled_amount <= bal[t]
  BY DEF RewardInv, CoverInv
<1>13. RewardOf(reward_info, a) = old /\ RewardOf(reward_info', a) = new
       /\ \A t \in Tokens \ {a} : RewardOf(reward_info', t) = RewardOf(reward_info, t)
  BY <1>2, <1>7, <1>11 DEF RewardOf
<1>14. old.reconciled_amount <= bal[a] /\ bal[a] \in Nat
  BY <1>2, <1>6, <1>12, <1>13
<1>15. /\ bal' \in [Tokens -> Nat] /\ bal'[a] = bal[a] - fee
       /\ \A t \in Tokens \ {a} : bal'[t] = bal[t]
  BY <1>2, <1>6, <1>8, <1>14
<1>16. /\ b2 \in BondStates /\ b2.pool_info = pool_info /\ b2.gen = gen
       /\ b2.reward_info = reward_info' /\ b2.bal = bal'
  <2>1. reward_info' \in UNION {[T -> RewardInfos] : T \in SUBSET Tokens}
    BY <1>6, <1>9, <1>11
  <2> QED
    BY <2>1, <1>5, <1>6, <1>15 DEF BondStates
<1>17. BondOK(b2)
  BY <1>5, <1>16 DEF BondOK, EntryOK
<1>18. \A t \in Tokens : /\ Free(b2, t) = Free(Bond, t)
                         /\ RewardOf(b2.reward_info, t).reconciled_amount <= b2.bal[t]
  <2> TAKE t \in Tokens
  <2>1. CASE t = a
    BY <2>1, <1>4, <1>5, <1>8, <1>9, <1>13, <1>14, <1>15, <1>16 DEF Free
  <2>2. CASE t # a
    BY <2>2, <1>4, <1>5, <1>12, <1>13, <1>15, <1>16 DEF Free
  <2> QED
    BY <2>1, <2>2
<1>19. BondInv' /\ RewardInv'
  BY <1>3, <1>4, <1>17, <1>18, OtherKeeps DEF BondInv
<1> QED
  BY <1>3, <1>19, SameStake

\* A block: the debt is that of an earlier accumulation.
LEMMA NextBlockKeeps ==
  ASSUME BondInv, StakeInv, RewardInv, NextBlock
  PROVE  BondInv' /\ StakeInv' /\ RewardInv' /\ gen'.amount = gen.amount
<1>1. UNCHANGED <<config, pool_info, user_info, reward_info, bal, staker_info, staking_state, lock,
                  xastro, period, week, last_claim>>
  BY DEF NextBlock, stakingVars
<1>2. PICK b, b2 : b = Bond /\ b2 = Bond'
  OBVIOUS
<1>3. /\ b.pool_info = pool_info /\ b.reward_info = reward_info /\ b.gen = gen /\ b.bal = bal
      /\ b2 = [pool_info |-> pool_info, reward_info |-> reward_info, gen |-> gen', bal |-> bal]
      /\ b2.gen = gen' /\ b2.pool_info = pool_info
      /\ BondOK(b) /\ b \in BondStates
  BY <1>1, <1>2 DEF Bond, BondInv, BondOK
<1>4. /\ gen \in Entries /\ gen.amount \in Nat /\ gen.acc \in Nat /\ gen.index \in Nat
      /\ gen.accp \in [Extras -> Nat] /\ gen.debt \in [Extras -> Nat] /\ bal \in [Tokens -> Nat]
  BY <1>3, BondFields DEF Entries
<1>5. CASE gen' = gen
  <2>1. \A t \in Tokens : bal[t] <= bal'[t]
    BY <1>1, <1>4
  <2>2. config' \in Configs /\ height' \in Nat
    BY <1>1 DEF BondInv, NextBlock
  <2> QED
    BY <2>1, <2>2, <1>1, <1>4, <1>5, ArrivalKeeps, SameStake
<1>6. CASE gen' # gen
  <2> DEFINE accp == [t \in Extras |-> gen.accp[t] + 1]
             acc == gen.acc + 1
  <2>1. accp \in [Extras -> Nat] /\ acc \in Nat
    BY <1>4
  <2>2. gen' = [gen EXCEPT !.acc = acc, !.accp = accp]
    BY <1>6 DEF NextBlock
  <2>3. PICK g : g = gen'
    OBVIOUS
  <2>4. acc = gen.acc + 1 /\ \A t \in Extras : accp[t] = gen.accp[t] + 1
    OBVIOUS
  <2> HIDE DEF accp, acc
  <2>5. /\ g \in Entries /\ g.amount = gen.amount /\ g.index = gen.index /\ g.acc = acc
        /\ g.debt = gen.debt /\ g.accp = accp
    BY <2>1, <2>2, <2>3, <1>4 DEF Entries
  <2>6. b2 \in BondStates
    BY <2>3, <2>5, <1>3 DEF BondStates
  <2>7. EntryOK(b2)
    <3>1. gen.index <= gen.acc /\ pool_info.prev_index <= gen.index
      BY <1>3 DEF BondOK, EntryOK
    <3>2. ASSUME NEW t \in Extras PROVE gen.debt[t] <= accp[t] * gen.amount
      <4>1. gen.debt[t] <= gen.accp[t] * gen.amount
        BY <1>3 DEF BondOK, EntryOK
      <4>2. accp[t] * gen.amount = gen.accp[t] * gen.amount + gen.amount
        <5>1. gen.accp[t] \in Nat
          BY <1>4
        <5>2. (gen.accp[t] + 1) * gen.amount = gen.accp[t] * gen.amount + gen.amount
          BY <5>1, <1>4
        <5> QED
          BY <5>2, <2>4
      <4>3. gen.accp[t] * gen.amount \in Nat /\ gen.debt[t] \in Nat
        BY <1>4, MulNat
      <4> QED
        BY <4>1, <4>2, <4>3, <1>4
    <3>3. gen.index <= acc
      BY <3>1, <2>4, <1>4
    <3> QED
      BY <3>1, <3>2, <3>3, <2>3, <2>5, <1>3 DEF EntryOK
  <2>8. BondOK(Bond')
    BY <2>6, <2>7, <1>2 DEF BondOK
  <2>9. \A t \in Tokens : bal[t] <= bal'[t]
    BY <1>1, <1>4
  <2>10. config' \in Configs /\ height' \in Nat
    BY <1>1 DEF BondInv, NextBlock
  <2> QED
    BY <2>3, <2>5, <2>8, <2>9, <2>10, <1>1, <1>4, ArrivalKeeps, SameStake
<1> QED
  BY <1>5, <1>6

\* WithdrawUnstaked: what was taken out of the lock for the staker leaves the account.
LEMMA WithdrawUnstakedKeeps ==
  ASSUME BondInv, StakeInv, RewardInv, NEW u \in Users, NEW amount \in Nat,
         execute_withdraw_unstaked(u, amount)
  PROVE  BondInv' /\ StakeInv' /\ RewardInv'
<1>1. PICK st, old, staker, new, st2 :
        /\ st = staking_state /\ old = staker_info[u] /\ staker = update_staking(st, old)
        /\ new = [staker EXCEPT !.unstaked_amount = @ - amount]
        /\ st2 = [st EXCEPT !.total_unstaked_amount = @ - amount]
  OBVIOUS
<1>2. /\ u \in DOMAIN staker_info /\ amount \in 1..staker.unstaked_amount
      /\ amount <= st.total_unstaked_amount /\ amount <= xastro
      /\ staker_info' = [staker_info EXCEPT ![u] = new] /\ staking_state' = st2
      /\ xastro' = xastro - amount
      /\ UNCHANGED <<config, bondVars, chainVars, reward_info, bal, lock, last_claim>>
  BY <1>1, Zenon DEF execute_withdraw_unstaked
<1>3. UNCHANGED <<config, pool_info, user_info, gen, reward_info, bal, height, lock, last_claim,
                  period, week>>
  BY <1>2 DEF bondVars, chainVars
<1>4. /\ st \in StakingStates /\ StakersOK(staker_info, st) /\ RequestsOK(staker_info, st)
      /\ st.total_bond_share = Total(SharesIn(staker_info)) /\ ClockOK
      /\ lock \in [amount : Nat, end : Nat] /\ xastro \in Nat
      /\ st.total_unstaked_amount <= xastro
  BY <1>1 DEF StakeInv, StakeOK
<1>5. old \in StakerInfos /\ old.reward_index <= st.reward_index
      /\ old.unstaking_period <= st.unstaking_period
  BY <1>1, <1>2, <1>4 DEF StakersOK, RequestsOK
<1>6. /\ staker \in StakerInfos /\ staker.reward_index = old.reward_index
      /\ staker.pending_reward = old.pending_reward /\ staker.bond_share = old.bond_share
      /\ IF st.unstaking_period > old.unstaking_period
         THEN /\ staker.unstaking_amount = 0
              /\ staker.unstaked_amount = old.unstaked_amount + old.unstaking_amount
              /\ staker.unstaking_period = st.unstaking_period
         ELSE staker = old
  BY <1>1, <1>4, <1>5, UpdatedStaker
<1>7. /\ st.unstaking_period \in Nat /\ old.unstaking_period \in Nat
      /\ st.total_unstaked_amount \in Nat /\ st.total_unstaking_amount \in Nat
      /\ staker.unstaked_amount \in Nat /\ staker.unstaking_amount \in Nat
  BY <1>4, <1>5, <1>6 DEF StakingStates, StakerInfos
<1>8. staker.unstaking_period = st.unstaking_period
  BY <1>5, <1>6, <1>7
<1>9. /\ new \in StakerInfos /\ new.reward_index = old.reward_index
      /\ new.pending_reward = old.pending_reward /\ new.bond_share = old.bond_share
      /\ new.unstaking_amount = staker.unstaking_amount
      /\ new.unstaked_amount = staker.unstaked_amount - amount
      /\ new.unstaking_period = st.unstaking_period
  <2> DEFINE n == staker.unstaked_amount - amount
  <2>1. n \in Nat /\ new = [staker EXCEPT !.unstaked_amount = n]
    BY <1>1, <1>2, <1>6, <1>7 DEF StakerInfos
  <2> HIDE DEF n
  <2>2. /\ new \in StakerInfos /\ new.reward_index = staker.reward_index
        /\ new.pending_reward = staker.pending_reward /\ new.bond_share = staker.bond_share
        /\ new.unstaking_amount = staker.unstaking_amount /\ new.unstaked_amount = n
        /\ new.unstaking_period = staker.unstaking_period
    BY <2>1, <1>6 DEF StakerInfos
  <2> QED
    BY <2>2, <1>6, <1>8 DEF n
<1>10. /\ st2 \in StakingStates /\ st2.total_bond_share = st.total_bond_share
       /\ st2.reward_index = st.reward_index
       /\ st2.total_unstaking_amount = st.total_unstaking_amount
       /\ st2.total_unstaked_amount = st.total_unstaked_amount - amount
       /\ st2.unstaking_period = st.unstaking_period
  <2> DEFINE n == st.total_unstaked_amount - amount
  <2>1. n \in Nat /\ st2 = [st EXCEPT !.total_unstaked_amount = n]
    BY <1>1, <1>2, <1>4, <1>7 DEF StakingStates
  <2> HIDE DEF n
  <2>2. /\ st2 \in StakingStates /\ st2.total_bond_share = st.total_bond_share
        /\ st2.reward_index = st.reward_index
        /\ st2.total_unstaking_amount = st.total_unstaking_amount
        /\ st2.total_unstaked_amount = n
        /\ st2.unstaking_period = st.unstaking_period
    BY <2>1, <1>4 DEF StakingStates
  <2> QED
    BY <2>2 DEF n
<1>11. PICK stakers2 : stakers2 = staker_info'
  OBVIOUS
<1>12. /\ DOMAIN stakers2 = DOMAIN staker_info \cup {u} /\ stakers2[u] = new
       /\ DOMAIN stakers2 = DOMAIN staker_info
       /\ \A v \in DOMAIN staker_info \ {u} : stakers2[v] = staker_info[v]
  BY <1>2, <1>11
<1>13. StakersOK(stakers2, st2)
  <2>1. \A v \in DOMAIN stakers2 :
          stakers2[v] \in StakerInfos /\ stakers2[v].reward_index <= st2.reward_index
    <3> TAKE v \in DOMAIN stakers2
    <3>1. CASE v = u
      BY <3>1, <1>5, <1>9, <1>10, <1>12
    <3>2. CASE v # u
      BY <3>2, <1>4, <1>10, <1>12 DEF StakersOK
    <3> QED
      BY <3>1, <3>2
  <2> QED
    BY <2>1, <1>4, <1>12 DEF StakersOK
<1>14. /\ SharesIn(stakers2) = SharesIn(staker_info)
       /\ StakerCredits(stakers2) = StakerCredits(staker_info)
       /\ StakerDebits(stakers2) = StakerDebits(staker_info)
  <2>1. \A v \in DOMAIN staker_info :
          /\ stakers2[v].bond_share = staker_info[v].bond_share
          /\ stakers2[v].pending_reward = staker_info[v].pending_reward
          /\ stakers2[v].reward_index = staker_info[v].reward_index
    BY <1>1, <1>9, <1>12
  <2> QED
    BY <2>1, <1>12 DEF SharesIn, StakerCredits, StakerDebits
<1>15. OwedToStakers(stakers2, st2) = OwedToStakers(staker_info, staking_state)
  BY <1>1, <1>10, <1>14 DEF OwedToStakers
<1>16. RequestsOK(stakers2, st2)
  <2>1. update_staking(st2, new) = new
    BY <1>7, <1>9, <1>10 DEF update_staking
  <2>2. /\ Unstaking(staker_info, st)[u] = staker.unstaking_amount
        /\ Unstaked(staker_info, st)[u] = staker.unstaked_amount
    BY <1>1, <1>2 DEF Unstaking, Unstaked
  <2>3. /\ Unstaking(stakers2, st2)[u] = staker.unstaking_amount
        /\ Unstaked(stakers2, st2)[u] = staker.unstaked_amount - amount
    BY <2>1, <1>9, <1>12 DEF Unstaking, Unstaked
  <2>4. /\ st2.total_unstaking_amount + Unstaking(staker_info, st)[u]
             = st.total_unstaking_amount + Unstaking(stakers2, st2)[u]
        /\ st2.total_unstaked_amount + Unstaked(staker_info, st)[u]
             = st.total_unstaked_amount + Unstaked(stakers2, st2)[u]
    BY <2>2, <2>3, <1>7, <1>10
  <2>5. stakers2[u].unstaking_period <= st2.unstaking_period
    BY <1>7, <1>9, <1>10, <1>12
  <2>6. RequestsChange(staker_info, stakers2, st, st2, u)
    BY <2>4, <2>5, <1>4, <1>10, <1>12, <1>13 DEF RequestsChange
  <2> QED
    BY <2>6, RequestsChanged
<1>17. StakeOK(st2, stakers2, lock, xastro', period)
  <2>1. /\ st.total_unstaking_amount <= lock.amount
        /\ st.total_bond_share > 0 => st.total_unstaking_amount < lock.amount
        /\ lock.amount > 0 => st.unstaking_period < lock.end
        /\ st.unstaking_period <= period
    BY <1>1 DEF StakeInv, StakeOK
  <2>2. xastro' \in Nat /\ st2.total_unstaked_amount <= xastro'
    BY <1>2, <1>4, <1>7, <1>10
  <2> QED
    BY <2>1, <2>2, <1>4, <1>10, <1>13, <1>14, <1>16 DEF StakeOK
<1>18. StakeInv'
  <2>1. ClockOK'
    BY <1>3, <1>4 DEF ClockOK
  <2> QED
    BY <2>1, <1>2, <1>3, <1>11, <1>17, StakeInvNext
<1>19. BondInv' /\ RewardInv'
  <2>1. PICK b : b = Bond'
    OBVIOUS
  <2>2. b = Bond
    BY <2>1, <1>3 DEF Bond
  <2>3. BondOK(b) /\ \A t \in Tokens : RewardOf(b.reward_info, t).reconciled_amount <= b.bal[t]
    BY <2>2 DEF BondInv, RewardInv, CoverInv, Bond
  <2> QED
    BY <2>1, <2>2, <2>3, <1>2, <1>3, <1>11, <1>15, OtherKeeps DEF BondInv
<1> QED
  BY <1>18, <1>19

\* execute_update_config: the accounts hold no rates.
LEMMA UpdateKeeps ==
  ASSUME BondInv, StakeInv, RewardInv, NEW new \in Configs, execute_update(new)
  PROVE  BondInv' /\ StakeInv' /\ RewardInv'
<1>1. /\ config' \in Configs /\ height' = height
      /\ UNCHANGED <<pool_info, user_info, reward_info, staker_info, staking_state, gen, bal,
                     lock, xastro, period, week, last_claim>>
  BY DEF execute_update, bondVars, stakingVars, chainVars
<1>2. bal \in [Tokens -> Nat] /\ height \in Nat
  <2>1. Bond.bal = bal
    BY DEF Bond
  <2> QED
    BY <2>1, BondFields DEF BondInv, BondOK
<1>3. \A t \in Tokens : bal[t] <= bal'[t]
  BY <1>1, <1>2
<1> QED
  BY <1>1, <1>2, <1>3, ArrivalKeeps, SameStake

\* A week: an ended lock is paid nothing for it.
LEMMA NextWeekKeeps ==
  ASSUME BondInv, StakeInv, RewardInv, NextWeek
  PROVE  BondInv' /\ StakeInv' /\ RewardInv'
<1>1. /\ config' = config /\ height' = height
      /\ UNCHANGED <<pool_info, user_info, reward_info, staker_info, staking_state, gen, bal,
                     lock, xastro, last_claim>>
      /\ period < MaxPeriod /\ period' = period + 1
      /\ week' = [week EXCEPT ![period] = IF period < lock.end THEN WeeklyFees ELSE 0]
  BY DEF NextWeek, bondVars, stakingVars
<1>2. bal \in [Tokens -> Nat] /\ height \in Nat /\ config \in Configs
  <2>1. Bond.bal = bal
    BY DEF Bond
  <2> QED
    BY <2>1, BondFields DEF BondInv, BondOK
<1>3. \A t \in Tokens : bal[t] <= bal'[t]
  BY <1>1, <1>2
<1>4. BondInv' /\ RewardInv'
  BY <1>1, <1>2, <1>3, ArrivalKeeps
<1>5. ClockOK'
  <2>1. WeeklyFees \in Nat
    BY ProxyAssumption
  <2> QED
    BY <2>1, <1>1 DEF ClockOK, StakeInv
<1>6. StakeOK(staking_state, staker_info, lock, xastro, period')
  <2>1. period \in Nat /\ staking_state.unstaking_period \in Nat
    BY DEF StakeInv, ClockOK, StakeOK, StakingStates
  <2> QED
    BY <2>1, <1>1 DEF StakeInv, StakeOK
<1> QED
  BY <1>1, <1>4, <1>5, <1>6, StakeInvNext

\* LP tokens deposited for the proxy: the rewards arrive and are reconciled later.
LEMMA DepositForKeeps ==
  ASSUME BondInv, StakeInv, RewardInv, DepositFor
  PROVE  BondInv' /\ StakeInv' /\ RewardInv' /\ gen'.amount = gen.amount + 1
<1>1. PICK b, n, r, b2 : b = Bond /\ n = gen.amount + 1 /\ r = GenSet(b, n) /\ b2 = Bond'
  OBVIOUS
<1>2. /\ BecomeBond(r)
      /\ UNCHANGED <<config, height, user_info, staker_info, staking_state, lock, xastro, period,
                     week, last_claim>>
  BY <1>1 DEF DepositFor, stakingVars
<1>3. /\ b.pool_info = pool_info /\ b.reward_info = reward_info /\ b.gen = gen /\ b.bal = bal
      /\ BondOK(b)
  BY <1>1 DEF Bond, BondInv
<1>4. n \in Nat /\ bal \in [Tokens -> Nat]
  <2>1. b.gen \in Entries /\ b.bal \in [Tokens -> Nat]
    BY <1>3, BondFields DEF BondOK
  <2>2. gen.amount \in Nat
    BY <2>1, <1>3 DEF Entries
  <2> QED
    BY <2>1, <2>2, <1>1, <1>3
<1>5. /\ BondOK(r) /\ r.pool_info = b.pool_info /\ r.reward_info = b.reward_info
      /\ r.gen.amount = n
      /\ \A t \in Tokens : r.bal[t] = b.bal[t] + Owed(b.gen)[t]
  <2>1. BondOK(b) /\ n \in Nat /\ r = GenSet(b, n)
    BY <1>1, <1>3, <1>4
  <2> QED
    BY <2>1, GenSetPays
<1>6. /\ pool_info' = r.pool_info /\ reward_info' = r.reward_info /\ gen' = r.gen /\ bal' = r.bal
  BY <1>2 DEF BecomeBond
<1>7. b2 = r
  <2>1. b2 = [pool_info |-> r.pool_info, reward_info |-> r.reward_info, gen |-> r.gen, bal |-> r.bal]
    BY <1>1, <1>6 DEF Bond
  <2> QED
    BY <2>1, <1>5, BondFields DEF BondOK
<1>8. Owed(b.gen) \in [Tokens -> Nat] /\ r.bal \in [Tokens -> Nat]
  BY <1>3, <1>5, OwedType, BondFields DEF BondOK
<1>9. \A t \in Tokens : bal[t] <= bal'[t]
  BY <1>3, <1>4, <1>5, <1>6, <1>8
<1>10. BondInv' /\ RewardInv'
  <2>1. config' \in Configs /\ height' \in Nat
    BY <1>2 DEF BondInv
  <2> QED
    BY <2>1, <1>1, <1>2, <1>3, <1>5, <1>6, <1>7, <1>8, <1>9, ArrivalKeeps
<1> QED
  BY <1>1, <1>2, <1>5, <1>6, <1>10, SameStake

\* xASTRO added to the lock is the stakers'.
LEMMA LockForKeeps ==
  ASSUME BondInv, StakeInv, RewardInv, LockFor
  PROVE  BondInv' /\ StakeInv' /\ RewardInv'
<1>1. /\ config' = config /\ height' = height
      /\ UNCHANGED <<pool_info, user_info, reward_info, staker_info, staking_state, gen, bal,
                     xastro, period, week, last_claim>>
      /\ lock' = [lock EXCEPT !.amount = @ + 1] /\ lock.amount > 0
  BY DEF LockFor, bondVars
<1>2. bal \in [Tokens -> Nat] /\ height \in Nat /\ config \in Configs
  <2>1. Bond.bal = bal
    BY DEF Bond
  <2> QED
    BY <2>1, BondFields DEF BondInv, BondOK
<1>3. \A t \in Tokens : bal[t] <= bal'[t]
  BY <1>1, <1>2
<1>4. BondInv' /\ RewardInv'
  BY <1>1, <1>2, <1>3, ArrivalKeeps
<1>5. ClockOK'
  BY <1>1 DEF ClockOK, StakeInv
<1>6. StakeOK(staking_state, staker_info, lock', xastro, period)
  <2>1. lock \in [amount : Nat, end : Nat] /\ staking_state.total_unstaking_amount \in Nat
    BY DEF StakeInv, StakeOK, StakingStates
  <2>2. /\ lock' \in [amount : Nat, end : Nat] /\ lock'.amount = lock.amount + 1
        /\ lock'.end = lock.end
    BY <2>1, <1>1
  <2> QED
    BY <2>1, <2>2, <1>1 DEF StakeInv, StakeOK
<1> QED
  BY <1>1, <1>4, <1>5, <1>6, StakeInvNext

\* ASTRO that is sent, or that the distributor pays: it is reconciled later.
LEMMA AstroKeeps ==
  ASSUME BondInv, RewardInv, NEW paid \in Nat, bal' = [bal EXCEPT !["astro"] = @ + paid],
         UNCHANGED <<config, height, pool_info, user_info, reward_info, staker_info,
                     staking_state, gen>>
  PROVE  BondInv' /\ RewardInv'
<1>1. PICK a : a = "astro"
  OBVIOUS
<1>2. bal \in [Tokens -> Nat] /\ height \in Nat /\ config \in Configs
  <2>1. Bond.bal = bal
    BY DEF Bond
  <2> QED
    BY <2>1, BondFields DEF BondInv, BondOK
<1>3. bal' = [bal EXCEPT ![a] = @ + paid]
  BY <1>1, Zenon
<1>4. a \in Tokens
  BY <1>1, AstroIsToken, Zenon
<1>5. bal' \in [Tokens -> Nat] /\ \A t \in Tokens : bal[t] <= bal'[t]
  <2>1. PICK n : n = bal[a] + paid
    OBVIOUS
  <2>2. n \in Nat /\ bal[a] <= n
    BY <2>1, <1>2, <1>4
  <2>3. bal' = [bal EXCEPT ![a] = n]
    BY <2>1, <1>3, Zenon
  <2>4. bal' \in [Tokens -> Nat] /\ \A t \in Tokens : bal'[t] = IF t = a THEN n ELSE bal[t]
    BY <2>2, <2>3, <1>2, <1>4
  <2> QED
    BY <2>2, <2>4, <1>2
<1> QED
  BY <1>2, <1>5, ArrivalKeeps

LEMMA SendKeeps ==
  ASSUME BondInv, StakeInv, RewardInv, Send
  PROVE  BondInv' /\ StakeInv' /\ RewardInv'
<1>1. /\ bal' = [bal EXCEPT !["astro"] = @ + 1]
      /\ UNCHANGED <<config, height, pool_info, user_info, reward_info, staker_info,
                     staking_state, gen>>
      /\ UNCHANGED <<lock, xastro, period, week, last_claim>>
  BY DEF Send, bondVars, stakingVars
<1> QED
  BY <1>1, AstroKeeps, SameStake

LEMMA ClaimManyKeeps ==
  ASSUME BondInv, StakeInv, RewardInv, ClaimMany
  PROVE  BondInv' /\ StakeInv' /\ RewardInv'
<1>1. PICK paid : paid = calc_claim_amount(ClaimStart, period)
  OBVIOUS
<1>2. /\ bal' = [bal EXCEPT !["astro"] = @ + paid]
      /\ UNCHANGED <<config, height, pool_info, user_info, reward_info, staker_info,
                     staking_state, gen>>
      /\ UNCHANGED <<lock, xastro, period, week>> /\ last_claim' = period
  BY <1>1 DEF ClaimMany, bondVars, chainVars
<1>3. paid \in Nat
  <2>1. ClockOK
    BY DEF StakeInv
  <2>2. ClaimStart \in Nat \ {0} /\ period \in Nat
    BY <2>1 DEF ClockOK, ClaimStart, None
  <2> QED
    BY <2>1, <2>2, <1>1, ClaimAmountType
<1>4. StakeInv'
  <2>1. ClockOK'
    BY <1>2 DEF ClockOK, StakeInv
  <2>2. StakeOK(staking_state', staker_info', lock', xastro', period')
    BY <1>2 DEF StakeInv
  <2> QED
    BY <2>1, <2>2, StakeInvNext
<1> QED
  BY <1>2, <1>3, <1>4, AstroKeeps

-----------------------------------------------------------------------------
(* The invariant holds.                                                    *)

LEMMA OwedToStakersType ==
  ASSUME StakeInv
  PROVE  OwedToStakers(staker_info, staking_state) \in Int
<1>1. StakersOK(staker_info, staking_state) /\ staking_state \in StakingStates
  BY DEF StakeInv, StakeOK
<1>2. Total(StakerCredits(staker_info)) \in Nat /\ Total(StakerDebits(staker_info)) \in Nat
  BY <1>1, StakerSumsType, SumType, ProxyAssumption
<1>3. staking_state.reward_index * staking_state.total_bond_share \in Nat
  BY <1>1, MulNat DEF StakingStates
<1> QED
  BY <1>2, <1>3 DEF OwedToStakers

\* Messages about LP tokens change nothing that the stakers are owed.
LEMMA BondSideKeeps ==
  ASSUME StakeInv, NEW owed, owed = OwedToStakers(staker_info, staking_state), CoverInv(owed)',
         UNCHANGED <<stakingVars, chainVars>>
  PROVE  StakeInv' /\ RewardInv'
<1>1. UNCHANGED <<staking_state, staker_info, lock, xastro, period, week, last_claim>>
  BY DEF stakingVars, chainVars
<1>2. OwedToStakers(staker_info, staking_state)' = owed
  BY <1>1 DEF OwedToStakers, StakerCredits, StakerDebits
<1>3. RewardInv'
  BY <1>2, Zenon DEF RewardInv, CoverInv
<1> QED
  BY <1>1, <1>3, SameStake

LEMMA InitHolds ==
  ASSUME ProxyInit
  PROVE  BondInv /\ StakeInv /\ RewardInv
<1> USE DEF ProxyInit
<1>1. /\ IsFiniteSet(Users) /\ One \in Nat \ {0} /\ MaxPeriod \in Nat
  BY ProxyAssumption
<1>2. /\ user_info = [x \in {} |-> x] /\ reward_info = [x \in {} |-> x]
      /\ staker_info = [x \in {} |-> x]
  OBVIOUS
<1>3. DOMAIN user_info = {} /\ DOMAIN reward_info = {} /\ DOMAIN staker_info = {}
  BY <1>2
<1>4. PICK b : b = Bond
  OBVIOUS
<1>5. /\ b = [pool_info |-> NoPool, reward_info |-> reward_info, gen |-> gen, bal |-> bal]
      /\ b.pool_info = NoPool /\ b.reward_info = reward_info /\ b.gen = gen /\ b.bal = bal
  BY <1>4 DEF Bond
<1>6. NoPool \in PoolInfos /\ gen \in Entries /\ bal \in [Tokens -> Nat]
  BY DEF NoPool, PoolInfos, Entries
<1>7. reward_info \in UNION {[T -> RewardInfos] : T \in SUBSET Tokens}
  <2>1. reward_info \in [{} -> RewardInfos]
    BY <1>2
  <2> QED
    BY <2>1
<1>8. BondOK(b)
  <2>1. b \in BondStates
    BY <1>5, <1>6, <1>7 DEF BondStates
  <2>2. EntryOK(b)
    BY <1>5 DEF EntryOK, NoPool
  <2> QED
    BY <2>1, <2>2 DEF BondOK
<1>9. ASSUME NEW accounts, DOMAIN accounts = {}
      PROVE  Total(SharesIn(accounts)) = 0
  <2>1. SharesIn(accounts) \in [Users -> Nat] /\ \A x \in Users : SharesIn(accounts)[x] = 0
    BY <1>9 DEF SharesIn
  <2> QED
    BY <2>1, <1>1, SumZero
<1>10. BondInv
  BY <1>3, <1>4, <1>8, <1>9, <1>5 DEF BondInv, UsersOK, NoPool
<1>11. PICK st : st = staking_state
  OBVIOUS
<1>12. /\ st \in StakingStates /\ st.total_bond_share = 0 /\ st.reward_index = 0
       /\ st.total_unstaking_amount = 0 /\ st.total_unstaked_amount = 0
       /\ st.unstaking_period = 1
  BY <1>11 DEF StakingStates
<1>13. Total(Unstaking(staker_info, st)) = 0 /\ Total(Unstaked(staker_info, st)) = 0
  <2>1. /\ Unstaking(staker_info, st) \in [Users -> Nat] /\ Unstaked(staker_info, st) \in [Users -> Nat]
        /\ \A x \in Users : Unstaking(staker_info, st)[x] = 0 /\ Unstaked(staker_info, st)[x] = 0
    BY <1>3 DEF Unstaking, Unstaked
  <2> QED
    BY <2>1, <1>1, SumZero
<1>14. StakeInv
  <2>1. ClockOK
    BY <1>1 DEF ClockOK, None
  <2>2. StakeOK(st, staker_info, lock, xastro, period)
    BY <1>3, <1>9, <1>12, <1>13 DEF StakeOK, StakersOK, RequestsOK
  <2> QED
    BY <2>1, <2>2, <1>11 DEF StakeInv
<1>15. OwedToStakers(staker_info, staking_state) = 0
  <2>1. /\ StakerCredits(staker_info) \in [Users -> Nat] /\ StakerDebits(staker_info) \in [Users -> Nat]
        /\ \A x \in Users : StakerCredits(staker_info)[x] = 0 /\ StakerDebits(staker_info)[x] = 0
    BY <1>3 DEF StakerCredits, StakerDebits
  <2>2. Total(StakerCredits(staker_info)) = 0 /\ Total(StakerDebits(staker_info)) = 0
    BY <2>1, <1>1, SumZero
  <2> QED
    BY <2>2, <1>11, <1>12 DEF OwedToStakers
<1>16. ASSUME NEW t \in Tokens
       PROVE  RewardOf(reward_info, t).reconciled_amount <= bal[t] /\ Covered(user_info, b, t, 0)
  <2>1. RewardOf(b.reward_info, t) = NoReward /\ RewardOf(reward_info, t) = NoReward
    BY <1>3, <1>5 DEF RewardOf
  <2>2. Free(b, t) = 0
    BY <2>1 DEF Free, NoReward
  <2>3. Slack(b, t) = 0
    <3>1. b.pool_info.reward_indexes[t] = 0 /\ b.pool_info.total_bond_share = 0
      BY <1>5 DEF NoPool
    <3> QED
      BY <2>2, <3>1, <1>1 DEF Slack
  <2>4. /\ Credits(user_info, t) \in [Users -> Nat] /\ Debits(user_info, t) \in [Users -> Nat]
        /\ \A x \in Users : Credits(user_info, t)[x] = 0 /\ Debits(user_info, t)[x] = 0
    BY <1>3 DEF Credits, Debits
  <2>5. Total(Credits(user_info, t)) = 0 /\ Total(Debits(user_info, t)) = 0
    BY <2>4, <1>1, SumZero
  <2> QED
    BY <2>1, <2>3, <2>5 DEF Covered, NoReward
<1>17. RewardInv
  BY <1>4, <1>15, <1>16 DEF RewardInv, CoverInv
<1> QED
  BY <1>10, <1>14, <1>17

-----------------------------------------------------------------------------
(* The deposit in the generator is a pool of shares.                       *)

LEMMA PoolTotals ==
  ASSUME BondInv
  PROVE  /\ BondShares = SharesIn(user_info) /\ BondShares \in [Users -> Nat]
         /\ Pool!total = pool_info.total_bond_share
         /\ pool_info.total_bond_share \in Nat /\ gen.amount \in Nat
<1>1. BondShares = SharesIn(user_info)
  BY DEF BondShares, SharesIn
<1>2. BondShares \in [Users -> Nat]
  BY <1>1, AstroIsToken, UserSumsType DEF BondInv
<1>3. Pool!total = Total(BondShares)
  BY Zenon DEF Pool!total, Pool!Total, Pool!Units, Pool!UnitsAt, Pool!Cardinality, Total, Units, UnitsAt, Cardinality
<1>4. Bond.pool_info = pool_info /\ Bond.gen = gen /\ BondOK(Bond)
  BY DEF Bond, BondInv
<1>5. pool_info.total_bond_share \in Nat /\ gen.amount \in Nat
  BY <1>4, BondFields DEF BondOK, PoolInfos, Entries
<1> QED
  BY <1>1, <1>2, <1>3, <1>5 DEF BondInv

\* What the pool of shares sees of a step.
PoolStep == Pool!PoolNext \/ UNCHANGED Pool!poolVars

LEMMA PoolKept ==
  ASSUME gen'.amount = gen.amount, SharesIn(user_info)' = SharesIn(user_info)
  PROVE  PoolStep
BY DEF PoolStep, Pool!poolVars, BondShares, SharesIn

LEMMA PoolGrown ==
  ASSUME BondInv, NEW amount \in Nat \ {0}, gen'.amount = gen.amount + amount,
         SharesIn(user_info)' = SharesIn(user_info)
  PROVE  PoolStep
<1>1. BondShares' = BondShares
  BY DEF BondShares, SharesIn
<1>2. gen'.amount > gen.amount
  BY PoolTotals
<1> QED
  BY <1>1, <1>2 DEF PoolStep, Pool!PoolNext, Pool!Grow

\* A deposit that buys no share is a gift.
LEMMA PoolDeposit ==
  ASSUME BondInv, NEW u \in Users, NEW amount \in Nat \ {0}, NEW bought \in Nat,
         gen'.amount = gen.amount + amount,
         pool_info.total_bond_share > 0 => bought * gen.amount <= amount * pool_info.total_bond_share,
         SharesIn(user_info)'[u] = SharesIn(user_info)[u] + bought,
         \A v \in Users \ {u} : SharesIn(user_info)'[v] = SharesIn(user_info)[v]
  PROVE  PoolStep
<1>1. BondShares = SharesIn(user_info) /\ BondShares' = SharesIn(user_info)'
  BY DEF BondShares, SharesIn
<1>2. /\ BondShares \in [Users -> Nat] /\ Pool!total = pool_info.total_bond_share
      /\ pool_info.total_bond_share \in Nat /\ gen.amount \in Nat
  BY PoolTotals
<1>3. PICK g, g2, x, y : g = gen.amount /\ g2 = gen'.amount /\ x = BondShares[u] /\ y = BondShares'[u]
  OBVIOUS
<1>4. g \in Nat /\ x \in Nat /\ g2 = g + amount /\ y = x + bought
  BY <1>1, <1>2, <1>3
<1>5. g2 - g = amount /\ y - x = bought /\ g2 > g
  BY <1>4
<1>6. CASE bought = 0
  <2>1. SharesIn(user_info)' = SharesIn(user_info)
    <3>1. \A v \in Users : SharesIn(user_info)'[v] = SharesIn(user_info)[v]
      BY <1>1, <1>3, <1>4, <1>6
    <3> QED
      BY <3>1 DEF SharesIn
  <2> QED
    BY <2>1, PoolGrown
<1>7. CASE bought # 0
  <2>1. y > x
    BY <1>4, <1>7
  <2>2. Pool!Deposit(u)
    BY <1>1, <1>2, <1>3, <1>5, <2>1 DEF Pool!Deposit
  <2> QED
    BY <2>2 DEF PoolStep, Pool!PoolNext
<1> QED
  BY <1>6, <1>7

LEMMA PoolWithdraw ==
  ASSUME BondInv, NEW u \in Users, NEW amount \in Nat \ {0}, NEW sold \in Nat \ {0},
         gen'.amount = gen.amount - amount,
         amount * pool_info.total_bond_share <= sold * gen.amount,
         SharesIn(user_info)'[u] = SharesIn(user_info)[u] - sold,
         \A v \in Users \ {u} : SharesIn(user_info)'[v] = SharesIn(user_info)[v]
  PROVE  PoolStep
<1>1. BondShares = SharesIn(user_info) /\ BondShares' = SharesIn(user_info)'
  BY DEF BondShares, SharesIn
<1>2. /\ BondShares \in [Users -> Nat] /\ Pool!total = pool_info.total_bond_share
      /\ pool_info.total_bond_share \in Nat /\ gen.amount \in Nat
  BY PoolTotals
<1>3. PICK g, g2, x, y : g = gen.amount /\ g2 = gen'.amount /\ x = BondShares[u] /\ y = BondShares'[u]
  OBVIOUS
<1>4. g \in Nat /\ x \in Nat /\ g2 = g - amount /\ y = x - sold
  BY <1>1, <1>2, <1>3
<1>5. g - g2 = amount /\ x - y = sold /\ g2 < g /\ y < x
  BY <1>4
<1>6. Pool!Withdraw(u)
  BY <1>1, <1>2, <1>3, <1>5 DEF Pool!Withdraw
<1> QED
  BY <1>6 DEF PoolStep, Pool!PoolNext

-----------------------------------------------------------------------------
(* Every step keeps the invariant and is a step of the pool.               *)

ProxyInv == BondInv /\ StakeInv /\ RewardInv

LEMMA BondActions ==
  ASSUME ProxyInv, NEW u \in Users,
         \/ \E amount \in LpAmounts : execute_deposit(u, amount) \/ execute_withdraw(u, amount)
         \/ execute_claim_rewards(u)
  PROVE  ProxyInv' /\ PoolStep
<1> USE DEF ProxyInv
<1>1. PICK owed : owed = OwedToStakers(staker_info, staking_state)
  OBVIOUS
<1>2. owed \in Int /\ CoverInv(owed)
  BY <1>1, OwedToStakersType DEF RewardInv
<1>3. LpAmounts \subseteq Nat \ {0}
  BY ProxyAssumption
<1>4. ASSUME NEW amount \in LpAmounts, execute_deposit(u, amount) PROVE ProxyInv' /\ PoolStep
  <2>1. amount \in Nat \ {0}
    BY <1>3
  <2>2. /\ BondInv' /\ CoverInv(owed)' /\ gen'.amount = gen.amount + amount
        /\ \E share \in Nat :
             /\ pool_info.total_bond_share > 0 =>
                  share * gen.amount <= amount * pool_info.total_bond_share
             /\ SharesIn(user_info)'[u] = SharesIn(user_info)[u] + share
             /\ \A v \in Users \ {u} : SharesIn(user_info)'[v] = SharesIn(user_info)[v]
    BY <1>2, <1>4, <2>1, DepositKeeps
  <2>3. UNCHANGED <<stakingVars, chainVars>>
    BY <1>4 DEF execute_deposit
  <2>4. PoolStep
    BY <2>1, <2>2, PoolDeposit
  <2> QED
    BY <1>1, <2>2, <2>3, <2>4, BondSideKeeps
<1>5. ASSUME NEW amount \in LpAmounts, execute_withdraw(u, amount) PROVE ProxyInv' /\ PoolStep
  <2>1. amount \in Nat \ {0}
    BY <1>3
  <2>2. /\ BondInv' /\ CoverInv(owed)' /\ gen'.amount = gen.amount - amount
        /\ \E share \in Nat \ {0} :
             /\ amount * pool_info.total_bond_share <= share * gen.amount
             /\ SharesIn(user_info)'[u] = SharesIn(user_info)[u] - share
             /\ \A v \in Users \ {u} : SharesIn(user_info)'[v] = SharesIn(user_info)[v]
    BY <1>2, <1>5, <2>1, WithdrawKeeps
  <2>3. UNCHANGED <<stakingVars, chainVars>>
    BY <1>5 DEF execute_withdraw
  <2>4. PoolStep
    BY <2>1, <2>2, PoolWithdraw
  <2> QED
    BY <1>1, <2>2, <2>3, <2>4, BondSideKeeps
<1>6. ASSUME execute_claim_rewards(u) PROVE ProxyInv' /\ PoolStep
  <2>1. /\ BondInv' /\ CoverInv(owed)' /\ gen'.amount = gen.amount
        /\ SharesIn(user_info)' = SharesIn(user_info)
    BY <1>2, <1>6, ClaimRewardsKeeps
  <2>2. UNCHANGED <<stakingVars, chainVars>>
    BY <1>6 DEF execute_claim_rewards
  <2> QED
    BY <1>1, <2>1, <2>2, PoolKept, BondSideKeeps
<1> QED
  BY <1>4, <1>5, <1>6

LEMMA StakeActions ==
  ASSUME ProxyInv, NEW u \in Users,
         \/ \E amount \in StakeAmounts :
              execute_stake(u, amount) \/ execute_request_unstake(u, amount)
                \/ execute_withdraw_unstaked(u, amount)
         \/ execute_claim_income(u)
  PROVE  ProxyInv' /\ PoolStep
<1> USE DEF ProxyInv
<1>1. StakeAmounts \subseteq Nat \ {0}
  BY ProxyAssumption
<1>2. ASSUME UNCHANGED bondVars PROVE PoolStep
  <2>1. UNCHANGED <<gen, user_info>>
    BY <1>2 DEF bondVars
  <2> QED
    BY <2>1, PoolKept DEF SharesIn
<1>3. ASSUME NEW amount \in StakeAmounts, execute_stake(u, amount) PROVE ProxyInv' /\ PoolStep
  <2>1. UNCHANGED bondVars
    BY <1>3 DEF execute_stake
  <2> QED
    BY <1>1, <1>2, <1>3, <2>1, StakeKeeps
<1>4. ASSUME NEW amount \in StakeAmounts, execute_request_unstake(u, amount)
      PROVE  ProxyInv' /\ PoolStep
  <2>1. UNCHANGED bondVars
    BY <1>4 DEF execute_request_unstake
  <2> QED
    BY <1>1, <1>2, <1>4, <2>1, RequestUnstakeKeeps
<1>5. ASSUME NEW amount \in StakeAmounts, execute_withdraw_unstaked(u, amount)
      PROVE  ProxyInv' /\ PoolStep
  <2>1. UNCHANGED bondVars
    BY <1>5 DEF execute_withdraw_unstaked
  <2> QED
    BY <1>1, <1>2, <1>5, <2>1, WithdrawUnstakedKeeps
<1>6. ASSUME execute_claim_income(u) PROVE ProxyInv' /\ PoolStep
  <2>1. UNCHANGED bondVars
    BY <1>6 DEF execute_claim_income
  <2> QED
    BY <1>2, <1>6, <2>1, ClaimIncomeKeeps
<1> QED
  BY <1>3, <1>4, <1>5, <1>6

LEMMA OtherActions ==
  ASSUME ProxyInv,
         \/ execute_relock \/ execute_send_income \/ \E new \in Configs : execute_update(new)
         \/ NextBlock \/ NextWeek \/ DepositFor \/ LockFor \/ Send \/ ClaimMany
  PROVE  ProxyInv' /\ PoolStep
<1> USE DEF ProxyInv
<1>1. ASSUME UNCHANGED bondVars PROVE PoolStep
  <2>1. UNCHANGED <<gen, user_info>>
    BY <1>1 DEF bondVars
  <2> QED
    BY <2>1, PoolKept DEF SharesIn
<1>2. ASSUME execute_relock PROVE ProxyInv' /\ UNCHANGED bondVars
  BY <1>2, RelockKeeps DEF execute_relock
<1>3. ASSUME execute_send_income PROVE ProxyInv' /\ UNCHANGED bondVars
  BY <1>3, SendIncomeKeeps DEF execute_send_income
<1>4. ASSUME NEW new \in Configs, execute_update(new) PROVE ProxyInv' /\ UNCHANGED bondVars
  BY <1>4, UpdateKeeps DEF execute_update
<1>5. ASSUME NextBlock PROVE ProxyInv' /\ PoolStep
  <2>1. user_info' = user_info
    BY <1>5 DEF NextBlock
  <2>2. SharesIn(user_info)' = SharesIn(user_info)
    BY <2>1 DEF SharesIn
  <2> QED
    BY <1>5, <2>2, NextBlockKeeps, PoolKept
<1>6. ASSUME NextWeek PROVE ProxyInv' /\ UNCHANGED bondVars
  BY <1>6, NextWeekKeeps DEF NextWeek
<1>7. ASSUME DepositFor PROVE ProxyInv' /\ PoolStep
  <2>1. user_info' = user_info
    BY <1>7 DEF DepositFor
  <2>2. SharesIn(user_info)' = SharesIn(user_info)
    BY <2>1 DEF SharesIn
  <2>3. 1 \in Nat \ {0}
    OBVIOUS
  <2> QED
    BY <1>7, <2>2, <2>3, DepositForKeeps, PoolGrown
<1>8. ASSUME LockFor PROVE ProxyInv' /\ UNCHANGED bondVars
  BY <1>8, LockForKeeps DEF LockFor
<1>9. ASSUME Send PROVE ProxyInv' /\ UNCHANGED bondVars
  BY <1>9, SendKeeps DEF Send
<1>10. ASSUME ClaimMany PROVE ProxyInv' /\ UNCHANGED bondVars
  BY <1>10, ClaimManyKeeps DEF ClaimMany
<1> QED
  BY <1>1, <1>2, <1>3, <1>4, <1>5, <1>6, <1>7, <1>8, <1>9, <1>10

LEMMA ProxySteps ==
  ASSUME ProxyInv, [ProxyNext]_vars
  PROVE  ProxyInv' /\ PoolStep
<1>1. CASE UNCHANGED vars
  <2>1. UNCHANGED <<config, pool_info, user_info, gen, reward_info, bal, height>>
    BY <1>1 DEF vars, bondVars, chainVars
  <2>2. UNCHANGED <<stakingVars, chainVars, user_info, gen>>
    BY <1>1 DEF vars, bondVars
  <2>3. PICK owed : owed = OwedToStakers(staker_info, staking_state)
    OBVIOUS
  <2>4. BondInv'
    BY <2>1 DEF ProxyInv, BondInv, Bond, UsersOK, SharesIn, BondOK, EntryOK
  <2>5. CoverInv(owed)'
    <3>1. CoverInv(owed)
      BY <2>3 DEF ProxyInv, RewardInv
    <3> QED
      BY <3>1, <2>1, Zenon DEF CoverInv, Covered, Credits, Debits, Slack, Free, RewardOf, Bond
  <2>6. StakeInv' /\ RewardInv'
    BY <2>2, <2>3, <2>5, BondSideKeeps DEF ProxyInv
  <2>7. PoolStep
    BY <2>2, PoolKept DEF SharesIn
  <2> QED
    BY <2>4, <2>6, <2>7 DEF ProxyInv
<1>2. CASE ProxyNext
  BY <1>2, BondActions, StakeActions, OtherActions DEF ProxyNext
<1> QED
  BY <1>1, <1>2

LEMMA ProxyInvHolds == ProxySpec => []ProxyInv
<1>1. ProxyInit => ProxyInv
  BY InitHolds DEF ProxyInv
<1>2. ProxyInv /\ [ProxyNext]_vars => ProxyInv'
  BY ProxySteps
<1> QED
  BY <1>1, <1>2, PTL DEF ProxySpec

\* ImplementsPool for any number of users, amounts and configurations: rounding never moves
\* LP tokens from one user to another.
THEOREM PoolIsImplemented == ProxySpec => ImplementsPool
<1>1. ProxyInit => Pool!PoolInit
  <2> SUFFICES ASSUME ProxyInit PROVE Pool!PoolInit
    OBVIOUS
  <2>1. DOMAIN user_info = {} /\ gen.amount = 0
    BY DEF ProxyInit
  <2>2. BondShares = [u \in Users |-> 0]
    BY <2>1 DEF BondShares
  <2> QED
    BY <2>1, <2>2 DEF Pool!PoolInit
<1>2. ProxyInv /\ [ProxyNext]_vars => [Pool!PoolNext]_(Pool!poolVars)
  BY ProxySteps DEF PoolStep
<1> QED
  BY <1>1, <1>2, ProxyInvHolds, PTL DEF ProxySpec, ImplementsPool, Pool!PoolSpec

-----------------------------------------------------------------------------
(* What is promised is there.                                              *)

\* StakersAreCovered for any number of stakers and any lock: the requests are in the lock,
\* and what was taken out for them is in the account until they withdraw it.
THEOREM StakersAreAlwaysCovered == ProxySpec => []StakersAreCovered
<1>1. ASSUME ProxyInv PROVE StakersAreCovered
  <2> DEFINE f == [u \in DOMAIN staker_info |-> update_staking(staking_state, staker_info[u]).unstaking_amount]
             g == [u \in DOMAIN staker_info |-> update_staking(staking_state, staker_info[u]).unstaked_amount]
  <2>1. /\ staking_state \in StakingStates /\ StakersOK(staker_info, staking_state)
        /\ RequestsOK(staker_info, staking_state)
        /\ staking_state.total_unstaking_amount <= lock.amount
        /\ staking_state.total_unstaked_amount <= xastro
    BY <1>1 DEF ProxyInv, StakeInv, StakeOK
  <2>2. PICK F, G : F = Unstaking(staker_info, staking_state) /\ G = Unstaked(staker_info, staking_state)
    OBVIOUS
  <2>3. F \in [Users -> Nat] /\ G \in [Users -> Nat]
    BY <2>1, <2>2, RequestsType
  <2>4. DOMAIN staker_info \subseteq Users
    BY <2>1 DEF StakersOK
  <2>5. /\ \A u \in DOMAIN staker_info : F[u] = f[u] /\ G[u] = g[u]
        /\ \A u \in Users \ DOMAIN staker_info : F[u] = 0 /\ G[u] = 0
    BY <2>2, <2>4 DEF Unstaking, Unstaked
  <2>6. f \in [DOMAIN staker_info -> Nat] /\ g \in [DOMAIN staker_info -> Nat]
    BY <2>3, <2>4, <2>5
  <2>7. Total(f) = Total(F) /\ Total(g) = Total(G)
    <3> HIDE DEF f, g
    <3> QED
      BY <2>3, <2>4, <2>5, <2>6, SumExtend
  <2>8. Total(f) = staking_state.total_unstaking_amount /\ Total(g) = staking_state.total_unstaked_amount
    <3> HIDE DEF f, g
    <3> QED
      BY <2>1, <2>2, <2>7 DEF RequestsOK
  <2> QED
    BY <2>1, <2>8 DEF StakersAreCovered
<1>2. ProxyInv => StakersAreCovered
  BY <1>1
<1> QED
  BY <1>2, ProxyInvHolds, PTL

\* The users' claims, in units of a Decimal, are no more than what they are owed.
LEMMA UserClaims ==
  ASSUME BondInv, NEW t \in Tokens, NEW w, w = [u \in DOMAIN user_info |-> Claimable(Bond, u)[t]]
  PROVE  Total(w) \in Nat /\ Total(w) * One <= OwedToUsers(user_info, Bond, t)
<1>1. PICK b, users, cr, de, sh, j, W :
        /\ b = Bond /\ users = user_info /\ cr = Credits(users, t) /\ de = Debits(users, t)
        /\ sh = SharesIn(users) /\ j = b.pool_info.reward_indexes[t]
        /\ W = [u \in Users |-> IF u \in DOMAIN users THEN w[u] ELSE 0]
  OBVIOUS
<1>2. /\ BondOK(b) /\ b.pool_info = pool_info /\ UsersOK(users, b.pool_info)
      /\ b.pool_info.total_bond_share = Total(sh)
  BY <1>1 DEF BondInv, Bond
<1>3. /\ cr \in [Users -> Nat] /\ de \in [Users -> Nat] /\ sh \in [Users -> Nat] /\ j \in Nat
      /\ IsFiniteSet(Users) /\ One \in Nat \ {0}
  BY <1>1, <1>2, UserSumsType, AccountsType, ProxyAssumption
<1>4. ASSUME NEW u \in DOMAIN users
      PROVE  /\ w[u] \in Nat /\ w[u] * One + de[u] <= cr[u] + j * sh[u]
  <2>1. PICK old, p, i, n :
          /\ old = users[u] /\ p = old.pending_rewards[t] /\ i = old.reward_indexes[t]
          /\ n = old.bond_share
    OBVIOUS
  <2>2. old \in UserInfos /\ i <= j /\ u \in Users
    BY <1>1, <1>2, <2>1 DEF UsersOK
  <2>3. p \in Nat /\ i \in Nat /\ n \in Nat
    BY <2>1, <2>2 DEF UserInfos
  <2>4. w[u] = p + ((j - i) * n) \div One
    <3>1. w[u] = reconcile_to_user_info(b.pool_info, old).pending_rewards[t]
      BY <1>1, <2>1 DEF Claimable
    <3> QED
      BY <3>1, <1>1, <2>1, <2>2 DEF reconcile_to_user_info, UserInfos
  <2>5. w[u] \in Nat /\ w[u] * One + i * n <= p * One + j * n
    BY <2>2, <2>3, <2>4, <1>3, Settled
  <2>6. cr[u] = p * One /\ de[u] = i * n /\ sh[u] = n
    BY <1>1, <2>1, <2>2 DEF Credits, Debits, SharesIn
  <2> QED
    BY <2>5, <2>6
<1>5. W \in [Users -> Nat] /\ \A u \in Users : W[u] * One + de[u] <= cr[u] + j * sh[u]
  <2>1. W \in [Users -> Nat]
    BY <1>1, <1>4
  <2>2. ASSUME NEW u \in Users PROVE W[u] * One + de[u] <= cr[u] + j * sh[u]
    <3>1. CASE u \in DOMAIN users
      BY <3>1, <1>1, <1>4
    <3>2. CASE u \notin DOMAIN users
      <4>1. W[u] = 0 /\ de[u] = 0 /\ cr[u] = 0 /\ sh[u] = 0
        BY <3>2, <1>1 DEF Credits, Debits, SharesIn
      <4> QED
        BY <4>1, <1>3
    <3> QED
      BY <3>1, <3>2
  <2> QED
    BY <2>1, <2>2
<1>6. Total(W) * One <= Total(cr) + j * Total(sh) - Total(de)
  BY <1>3, <1>5, ClaimsBounded
<1>7. Total(W) = Total(w)
  <2>1. PICK D : D = DOMAIN users
    OBVIOUS
  <2>2. w \in [D -> Nat] /\ D \subseteq Users
    BY <1>1, <1>2, <1>4, <2>1 DEF UsersOK
  <2>3. \A u \in D : W[u] = w[u]
    BY <1>1, <2>1, <2>2
  <2>4. \A u \in Users \ D : W[u] = 0
    BY <1>1, <2>1
  <2> QED
    BY <2>2, <2>3, <2>4, <1>5, SumExtend
<1>8. OwedToUsers(users, b, t) = Total(cr) + j * Total(sh) - Total(de)
  BY <1>1, <1>2 DEF OwedToUsers
<1>9. Total(W) \in Nat
  BY <1>3, <1>5, SumType
<1> QED
  BY <1>1, <1>6, <1>7, <1>8, <1>9

\* So are the stakers', at the index of s.
LEMMA StakerClaims ==
  ASSUME NEW s \in StakeStates, StakersOK(staker_info, s.st),
         s.st.total_bond_share = Total(SharesIn(staker_info)), NEW w,
         w = [u \in DOMAIN staker_info |-> reconcile_to_staker_info(s.st, staker_info[u]).pending_reward]
  PROVE  Total(w) \in Nat /\ Total(w) * One <= OwedToStakers(staker_info, s.st)
<1>1. PICK users, cr, de, sh, j, W :
        /\ users = staker_info /\ cr = StakerCredits(users) /\ de = StakerDebits(users)
        /\ sh = SharesIn(users) /\ j = s.st.reward_index
        /\ W = [u \in Users |-> IF u \in DOMAIN users THEN w[u] ELSE 0]
  OBVIOUS
<1>2. StakersOK(users, s.st) /\ s.st \in StakingStates
  BY <1>1, StakeFields
<1>3. /\ cr \in [Users -> Nat] /\ de \in [Users -> Nat] /\ sh \in [Users -> Nat] /\ j \in Nat
      /\ IsFiniteSet(Users) /\ One \in Nat \ {0}
  BY <1>1, <1>2, StakerSumsType, StakeFields, ProxyAssumption
<1>4. ASSUME NEW u \in DOMAIN users
      PROVE  /\ w[u] \in Nat /\ w[u] * One + de[u] <= cr[u] + j * sh[u]
  <2>1. PICK old, p, i, n :
          /\ old = users[u] /\ p = old.pending_reward /\ i = old.reward_index
          /\ n = old.bond_share
    OBVIOUS
  <2>2. old \in StakerInfos /\ i <= j /\ u \in Users
    BY <1>1, <1>2, <2>1 DEF StakersOK
  <2>3. p \in Nat /\ i \in Nat /\ n \in Nat
    BY <2>1, <2>2 DEF StakerInfos
  <2>4. w[u] = p + ((j - i) * n) \div One
    <3>1. w[u] = reconcile_to_staker_info(s.st, old).pending_reward
      BY <1>1, <2>1
    <3>2. old.reward_index <= s.st.reward_index
      BY <1>1, <2>1, <2>2
    <3> QED
      BY <3>1, <3>2, <1>1, <1>2, <2>1, <2>2, ReconciledStaker
  <2>5. w[u] \in Nat /\ w[u] * One + i * n <= p * One + j * n
    BY <2>2, <2>3, <2>4, <1>3, Settled
  <2>6. cr[u] = p * One /\ de[u] = i * n /\ sh[u] = n
    BY <1>1, <2>1, <2>2 DEF StakerCredits, StakerDebits, SharesIn
  <2> QED
    BY <2>5, <2>6
<1>5. W \in [Users -> Nat] /\ \A u \in Users : W[u] * One + de[u] <= cr[u] + j * sh[u]
  <2>1. W \in [Users -> Nat]
    BY <1>1, <1>4
  <2>2. ASSUME NEW u \in Users PROVE W[u] * One + de[u] <= cr[u] + j * sh[u]
    <3>1. CASE u \in DOMAIN users
      BY <3>1, <1>1, <1>4
    <3>2. CASE u \notin DOMAIN users
      <4>1. W[u] = 0 /\ de[u] = 0 /\ cr[u] = 0 /\ sh[u] = 0
        BY <3>2, <1>1 DEF StakerCredits, StakerDebits, SharesIn
      <4> QED
        BY <4>1, <1>3
    <3> QED
      BY <3>1, <3>2
  <2> QED
    BY <2>1, <2>2
<1>6. Total(W) * One <= Total(cr) + j * Total(sh) - Total(de)
  BY <1>3, <1>5, ClaimsBounded
<1>7. Total(W) = Total(w)
  <2>1. PICK D : D = DOMAIN users
    OBVIOUS
  <2>2. w \in [D -> Nat] /\ D \subseteq Users
    BY <1>1, <1>2, <1>4, <2>1 DEF StakersOK
  <2>3. \A u \in D : W[u] = w[u]
    BY <1>1, <2>1, <2>2
  <2>4. \A u \in Users \ D : W[u] = 0
    BY <1>1, <2>1
  <2> QED
    BY <2>2, <2>3, <2>4, <1>5, SumExtend
<1>8. OwedToStakers(users, s.st) = Total(cr) + j * Total(sh) - Total(de)
  BY <1>1 DEF OwedToStakers
<1>9. Total(W) \in Nat
  BY <1>3, <1>5, SumType
<1> QED
  BY <1>1, <1>6, <1>7, <1>8, <1>9

\* Back from units of a Decimal.
LEMMA WholeTokens ==
  ASSUME NEW n \in Nat, NEW free \in Int, n * One <= free * One
  PROVE  n <= free
<1>1. One \in Nat \ {0}
  BY ProxyAssumption
<1>2. CASE free \in Nat
  BY <1>1, <1>2, MulCancel
<1>3. CASE free < 0
  <2>1. free * One < 0 /\ free * One \in Int
    BY <1>1, <1>3
  <2>2. n * One \in Nat
    BY <1>1, MulNat
  <2> QED
    BY <2>1, <2>2
<1> QED
  BY <1>2, <1>3

\* RewardsAreCovered for any rates, rewards and number of users: no order of deposits,
\* claims, relocks and claims of others promises more than arrived.
THEOREM RewardsAreAlwaysCovered == ProxySpec => []RewardsAreCovered
<1>1. ASSUME ProxyInv, NEW t \in DOMAIN reward_info
      PROVE  LET r == reward_info[t]
                 income == IF t = "astro" THEN Total([u \in DOMAIN staker_info |-> Income(u)]) ELSE 0
                 unspread == IF t = "astro" /\ staking_state.total_bond_share > 0
                             THEN 0 ELSE r.staker_income
             IN  /\ r.reconciled_amount <= bal[t]
                 /\ r.fee + unspread + income
                      + Total([u \in DOMAIN user_info |-> Claimable(Bond, u)[t]])
                        <= r.reconciled_amount
  <2>1. BondInv /\ StakeInv /\ RewardInv
    BY <1>1 DEF ProxyInv
  <2>2. BondOK(Bond) /\ Bond.reward_info = reward_info
    BY <2>1 DEF BondInv, Bond
  <2>3. t \in Tokens /\ reward_info[t] \in RewardInfos
    BY <1>1, <2>2, BondFields DEF BondOK
  <2>4. PICK r, w, W, owed :
          /\ r = reward_info[t] /\ w = [u \in DOMAIN user_info |-> Claimable(Bond, u)[t]]
          /\ W = Total(w) /\ owed = OwedToUsers(user_info, Bond, t)
    OBVIOUS
  <2>5. /\ r \in RewardInfos /\ r.fee \in Nat /\ r.reconciled_amount \in Nat /\ r.staker_income \in Nat
        /\ One \in Nat \ {0}
    BY <2>3, <2>4, ProxyAssumption DEF RewardInfos
  <2>6. W \in Nat /\ W * One <= owed
    BY <2>1, <2>3, <2>4, UserClaims
  <2>7. RewardOf(reward_info, t) = r
    BY <1>1, <2>4 DEF RewardOf
  <2>8. r.reconciled_amount <= bal[t]
    BY <2>1, <2>3, <2>7 DEF RewardInv, CoverInv
  <2>9. ASSUME t # "astro" PROVE r.fee + r.staker_income + 0 + W <= r.reconciled_amount
    <3>1. Covered(user_info, Bond, t, 0)
      BY <2>1, <2>3, <2>9 DEF RewardInv, CoverInv
    <3>2. PICK free, A, D, P : /\ free = Free(Bond, t) /\ A = Total(Credits(user_info, t))
                              /\ D = Total(Debits(user_info, t))
                              /\ P = Bond.pool_info.reward_indexes[t] * Bond.pool_info.total_bond_share
      OBVIOUS
    <3>3. free = r.reconciled_amount - r.fee - r.staker_income
      BY <3>2, <2>2, <2>7 DEF Free
    <3>4. A + 0 <= (free * One - P) + D /\ owed = A + P - D
      BY <3>1, <3>2, <2>4, Zenon DEF Covered, Slack, OwedToUsers
    <3>5. A \in Nat /\ D \in Nat /\ P \in Int /\ free \in Int
      <4>1. UsersOK(user_info, pool_info)
        BY <2>1 DEF BondInv
      <4>2. A \in Nat /\ D \in Nat
        BY <4>1, <3>2, <2>3, UserSumsType, SumType, ProxyAssumption
      <4>3. P \in Int /\ free \in Int
        BY <3>2, <2>2, <2>3, AccountsType
      <4> QED
        BY <4>2, <4>3
    <3>6. W * One <= free * One
      <4>1. free * One \in Int /\ W * One \in Int
        BY <3>5, <2>5, <2>6
      <4> QED
        BY <4>1, <3>4, <3>5, <2>6
    <3>7. W <= free
      BY <3>5, <3>6, <2>6, WholeTokens
    <3> QED
      BY <3>3, <3>7, <2>5, <2>6
  <2>10. ASSUME t = "astro"
         PROVE  r.fee + (IF staking_state.total_bond_share > 0 THEN 0 ELSE r.staker_income)
                  + Total([u \in DOMAIN staker_info |-> Income(u)]) + W <= r.reconciled_amount
    <3>1. HasAstroReward
      BY <1>1, <2>10 DEF HasAstroReward
    <3>2. PICK s, q, i, I, out :
            /\ s = reconcile_staker_income(Staking) /\ q = Staking
            /\ i = [u \in DOMAIN staker_info |-> Income(u)] /\ I = Total(i)
            /\ out = OwedToStakers(staker_info, s.st)
      OBVIOUS
    <3>3. /\ s \in StakeStates /\ OwedInAstro \in Int
          /\ StakersOK(staker_info, s.st) /\ StakersPaid(staker_info, s, OwedInAstro)
          /\ s.st.total_bond_share = staking_state.total_bond_share
      BY <2>1, <3>1, <3>2, SpreadStart
    <3>4. i = [u \in DOMAIN staker_info |->
                 reconcile_to_staker_info(s.st, staker_info[u]).pending_reward]
      BY <3>1, <3>2 DEF Income
    <3>5. s.st.total_bond_share = Total(SharesIn(staker_info))
      BY <2>1, <3>3 DEF StakeInv, StakeOK
    <3>6. I \in Nat /\ I * One <= out
      BY <3>2, <3>3, <3>4, <3>5, StakerClaims
    <3>7. OwedInAstro = owed
      BY <2>4, <2>10 DEF OwedInAstro
    <3>8. PICK free, A, D, P : /\ free = StakeFree(s) /\ A = Total(StakerCredits(staker_info))
                              /\ D = Total(StakerDebits(staker_info))
                              /\ P = s.st.reward_index * s.st.total_bond_share
      OBVIOUS
    <3>9. A + owed <= (free * One - P) + D /\ out = A + P - D
      BY <3>2, <3>3, <3>7, <3>8, Zenon DEF StakersPaid, StakeSlack, OwedToStakers
    <3>10. A \in Nat /\ D \in Nat /\ P \in Int /\ free \in Int /\ owed \in Int
      <4>1. A \in Nat /\ D \in Nat
        BY <3>3, <3>8, StakerSumsType, SumType, ProxyAssumption
      <4>2. P \in Int /\ free \in Int
        BY <3>3, <3>8, StakeFields
      <4> QED
        BY <4>1, <4>2, <3>3, <3>7
    <3>11. (W + I) * One <= free * One
      <4>1. (W + I) * One = W * One + I * One
        BY <2>5, <2>6, <3>6
      <4>2. free * One \in Int /\ W * One \in Int /\ I * One \in Int
        BY <2>5, <2>6, <3>6, <3>10
      <4> QED
        BY <4>1, <4>2, <2>6, <3>6, <3>9, <3>10
    <3>12. W + I <= free
      BY <2>6, <3>6, <3>10, <3>11, WholeTokens
    <3>13. /\ s.astro.reconciled_amount = r.reconciled_amount /\ s.astro.fee = r.fee
           /\ s.astro.staker_income =
                (IF staking_state.total_bond_share > 0 THEN 0 ELSE r.staker_income)
      <4>1. q \in StakeStates /\ q.st = staking_state /\ q.astro = r
        BY <2>1, <2>4, <2>10, <3>1, <3>2, StartStaking DEF Staking
      <4>2. q.st.total_bond_share \in Nat
        BY <4>1, StakeFields
      <4>3. CASE q.st.total_bond_share = 0
        BY <4>1, <4>3, <3>2 DEF reconcile_staker_income
      <4>4. CASE q.st.total_bond_share > 0
        <5>1. s.astro = [r EXCEPT !.staker_income = 0]
          BY <4>1, <4>2, <4>4, <3>2 DEF reconcile_staker_income, StakeStates
        <5> QED
          BY <5>1, <4>1, <4>4, <2>5 DEF RewardInfos
      <4> QED
        BY <4>2, <4>3, <4>4
    <3>14. free = r.reconciled_amount - r.fee
                    - (IF staking_state.total_bond_share > 0 THEN 0 ELSE r.staker_income)
      BY <3>8, <3>13 DEF StakeFree
    <3>15. r.fee + (IF staking_state.total_bond_share > 0 THEN 0 ELSE r.staker_income) + I + W
             <= r.reconciled_amount
      BY <3>6, <3>12, <3>14, <2>5, <2>6
    <3> QED
      BY <3>2, <3>15
  <2>11. CASE t # "astro"
    BY <2>4, <2>8, <2>9, <2>11, Zenon
  <2>12. CASE t = "astro"
    BY <2>4, <2>8, <2>10, <2>12, Zenon
  <2> QED
    BY <2>11, <2>12
<1>2. ProxyInv => RewardsAreCovered
  BY <1>1 DEF RewardsAreCovered
<1> QED
  BY <1>2, ProxyInvHolds, PTL

=============================================================================
