------------------------------ MODULE HubMath ------------------------------
(***************************************************************************)
(* The pure algorithms of the Stake Hub: contracts/hub/src/math.rs and     *)
(* get_wanted_delegations in helpers.rs.                                   *)
(*                                                                         *)
(* A list of delegations (Vec<Delegation>) is a duplicate-free sequence of *)
(* validators `list` beside the amounts d, a function on validators.  A    *)
(* loop that hands out a running amount is written as what it leaves for   *)
(* each element: the amount minus what the elements before it wanted.      *)
(* Decimal values are naturals at the scale One (10^18 in the code).       *)
(***************************************************************************)
EXTENDS Sums, Sequences, SequencesExt

CONSTANT One

ASSUME OneAssumption == One \in Nat \ {0}

\* Mutant: a subtraction that does not saturate.
PlainSub(a, b) == a - b

\* Uint128::saturating_sub.
SatSub(a, b) == IF a >= b THEN a - b ELSE 0

MinOf(a, b) == IF a <= b THEN a ELSE b

\* Division rounded up, for the mutants that round the wrong way.
CeilDiv(a, b) == (a + b - 1) \div b

\* DecimalCheckedOps::checked_mul_uint: a Decimal times an integer, rounded down.
MulUint(decimal, n) == (decimal * n) \div One

(***************************************************************************)
(* Exchange rate                                                           *)
(***************************************************************************)

ComputeMintAmount(ustake_supply, uluna_to_bond, uluna_bonded) ==
  IF uluna_bonded = 0
    THEN uluna_to_bond
    ELSE (ustake_supply * uluna_to_bond) \div uluna_bonded

\* Mutant: rounded in the favour of the one who leaves.
ComputeUnbondAmountUp(ustake_supply, ustake_to_burn, uluna_bonded) ==
  CeilDiv(uluna_bonded * ustake_to_burn, ustake_supply)

ComputeUnbondAmount(ustake_supply, ustake_to_burn, uluna_bonded) ==
  (uluna_bonded * ustake_to_burn) \div ustake_supply

(***************************************************************************)
(* Target amounts of the validators                                        *)
(***************************************************************************)

\* The position of validator v in a list.
Pos(list, v) == CHOOSE i \in 1..Len(list) : list[i] = v

\* The validators of the list that a loop visits before v.
Before(list, v) == {w \in Range(list) : Pos(list, w) < Pos(list, v)}

\* The delegations, then the whitelisted validators that have none.
MergeWithValidators(list, validators) ==
  list \o SelectSeq(validators, LAMBDA v : v \notin Range(list))

\* The stored goal's shares of the stake, an even split if there is no goal.
UlunaPerValidator(goal, uluna_staked, validators) ==
  IF DOMAIN goal # {}
    THEN [v \in DOMAIN goal |-> MulUint(goal[v], uluna_staked)]
    ELSE [v \in Range(validators) |-> uluna_staked \div Len(validators)]

\* Mutant: the rounding remainder is handed to nobody.
UlunaForValidatorNoRemainder(per, uluna_staked, list) ==
  [v \in Range(list) |-> IF v \in DOMAIN per THEN per[v] ELSE 0]

\* What the visit of a list makes of the split `per`: the rounding remainder
\* `add` goes to the first element, an excess `remove` is taken from the first
\* element that has that much.
UlunaForValidator(per, uluna_staked, list) ==
  LET total    == Total(per)
      add      == SatSub(uluna_staked, total)
      remove   == SatSub(total, uluna_staked)
      added(v) == (IF v \in DOMAIN per THEN per[v] ELSE 0)
                    + (IF v = list[1] THEN add ELSE 0)
      payer(v) == /\ added(v) >= remove
                  /\ \A w \in Before(list, v) : added(w) < remove
  IN  [v \in Range(list) |-> IF payer(v) THEN added(v) - remove ELSE added(v)]

(***************************************************************************)
(* Delegation moves, as sets of messages                                   *)
(***************************************************************************)

\* Mutant: the running amount is never checked.
HandOutUncapped(list, want, amount) ==
  {[validator |-> v, amount |-> want[v]] : v \in Range(list)}

\* `amount` handed out along the list, at most want[v] to each v.
HandOut(list, want, amount) ==
  {[validator |-> v,
    amount |-> MinOf(want[v], SatSub(amount, Total([w \in Before(list, v) |-> want[w]])))] :
     v \in Range(list)}

\* The messages that move something, and how much they move together.
NonZero(msgs) == {m \in msgs : m.amount > 0}
TotalOf(msgs) == Total([m \in msgs |-> m.amount])

\* What to undelegate from each validator.  The code fails with
\* ComputeUndelegationsWrong unless the total is uluna_to_unbond.
ComputeUndelegations(goal, uluna_to_unbond, d, list, validators) ==
  LET merged == MergeWithValidators(list, validators)
      stay   == Total([v \in Range(list) |-> d[v]]) - uluna_to_unbond
      target == UlunaForValidator(UlunaPerValidator(goal, stay, validators), stay, merged)
  IN  NonZero(HandOut(merged, [v \in Range(merged) |-> SatSub(d[v], target[v])],
                      uluna_to_unbond))

\* Mutant: the removed validator's stake is left out of the stake to spread.
RemovalForgetsStake(goal, removed, d, list, validators) ==
  LET merged == MergeWithValidators(list, validators)
      staked == Total([v \in Range(list) |-> d[v]])
      target == UlunaForValidator(UlunaPerValidator(goal, staked, validators), staked, merged)
      receipts == HandOut(merged, [v \in Range(merged) |-> SatSub(target[v], d[v])], d[removed])
  IN  NonZero({[src |-> removed, dst |-> r.validator, amount |-> r.amount] : r \in receipts})

\* The redelegations of the amount at `removed`, a validator off the list.
ComputeRedelegationsForRemoval(goal, removed, d, list, validators) ==
  LET merged == MergeWithValidators(list, validators)
      staked == Total([v \in Range(list) |-> d[v]]) + d[removed]
      target == UlunaForValidator(UlunaPerValidator(goal, staked, validators), staked, merged)
      receipts == HandOut(merged, [v \in Range(merged) |-> SatSub(target[v], d[v])], d[removed])
  IN  NonZero({[src |-> removed, dst |-> r.validator, amount |-> r.amount] : r \in receipts})

\* The amounts f laid end to end in the order of the list.
Intervals(list, f) ==
  {[validator |-> v,
    lo |-> Total([w \in Before(list, v) |-> f[w]]),
    hi |-> Total([w \in Before(list, v) \cup {v} |-> f[w]])] : v \in Range(list)}

Overlap(a, b) == SatSub(MinOf(a.hi, b.hi), IF a.lo >= b.lo THEN a.lo ELSE b.lo)

\* The redelegations that bring every validator to its target.  The code pairs the
\* head of the surpluses with the head of the deficits until one list is used up:
\* a redelegation is the overlap of a surplus and a deficit, each laid end to end.
ComputeRedelegationsForRebalancing(goal, d, list, validators) ==
  LET merged == MergeWithValidators(list, validators)
      staked == Total([v \in Range(list) |-> d[v]])
      target == UlunaForValidator(UlunaPerValidator(goal, staked, validators), staked, merged)
      surplus == Intervals(merged, [v \in Range(merged) |-> SatSub(d[v], target[v])])
      deficit == Intervals(merged, [v \in Range(merged) |-> SatSub(target[v], d[v])])
  IN  NonZero({[src |-> a.validator, dst |-> b.validator, amount |-> Overlap(a, b)] :
                 a \in surplus, b \in deficit})

(***************************************************************************)
(* Wanted delegations: the gauges' points as shares of the stake           *)
(***************************************************************************)

\* Mutant: a share is rounded up.
FromRatioUp(a, b) == CeilDiv(a * One, b)

\* Decimal::from_ratio.
FromRatio(a, b) == (a * One) \div b

\* The goal of DelegationStrategy::Gauges, from the points of the amp gauges and
\* (when the strategy names them) the emp gauges.
WantedShares(s, validators, vamp, emp) ==
  LET share(v) == IF s.emp_gauges
                    THEN MulUint(s.amp_factor, FromRatio(vamp[v], Total(vamp)))
                           + MulUint(One - s.amp_factor, FromRatio(emp[v], Total(emp)))
                    ELSE FromRatio(vamp[v], Total(vamp))
      score(v) == MinOf(share(v), s.max_delegation)
      kept     == {v \in Range(validators) : score(v) > s.min_delegation}
      ahead(v) == {w \in kept : \/ share(w) > share(v)
                                \/ share(w) = share(v) /\ w \in Before(validators, v)}
      top      == {v \in kept : Cardinality(ahead(v)) < s.validator_count}
      total    == Total([v \in top |-> score(v)])
  IN  [v \in top |-> FromRatio(score(v), total)]

(***************************************************************************)
(* Batches                                                                 *)
(***************************************************************************)

\* Mutant: every batch bears the rounding.
BatchPartUp(amount, n, i) == CeilDiv(amount, n)

\* The part of batch number i when n batches share an amount.
BatchPart(amount, n, i) == amount \div n + (IF i <= amount % n THEN 1 ELSE 0)

\* The position of batch id among the batches being reconciled, oldest first.
Rank(ids, id) == Cardinality({j \in ids : j <= id})

\* Mutant: a batch that bears exactly its part counts as short.
UnderflowsOrEqual(unclaimed, uluna_to_deduct) ==
  LET ids == DOMAIN unclaimed
      n   == Cardinality(ids)
  IN  {id \in ids : n > 1 /\ unclaimed[id] <= BatchPart(uluna_to_deduct, n, Rank(ids, id))}

\* First pass: the batches that hold less than their part of the deduction.
Underflows(unclaimed, uluna_to_deduct) ==
  LET ids == DOMAIN unclaimed
      n   == Cardinality(ids)
  IN  {id \in ids : n > 1 /\ unclaimed[id] < BatchPart(uluna_to_deduct, n, Rank(ids, id))}

\* The second pass divides by the number of batches that did not underflow.
ReconcileDefined(unclaimed, uluna_to_deduct) ==
  LET under == Underflows(unclaimed, uluna_to_deduct)
  IN  under # {} => under # DOMAIN unclaimed

\* uluna_unclaimed of each batch after reconcile_batches.
ReconcileBatches(unclaimed, uluna_to_deduct) ==
  LET ids   == DOMAIN unclaimed
      n     == Cardinality(ids)
      part1 == [id \in ids |-> BatchPart(uluna_to_deduct, n, Rank(ids, id))]
      left1 == [id \in ids |-> SatSub(unclaimed[id], part1[id])]
      under == Underflows(unclaimed, uluna_to_deduct)
      m     == n - Cardinality(under)
      short == Total([id \in under |-> part1[id] - unclaimed[id]])
      part2 == [id \in ids |-> IF left1[id] = 0 THEN 0
                                                ELSE BatchPart(short, m, Rank(ids, id))]
      left2 == [id \in ids |-> SatSub(left1[id], part2[id])]
      still == IF m > 1 THEN Total([id \in ids |-> SatSub(part2[id], left1[id])]) ELSE 0
      older(id) == Total([j \in {k \in ids : k < id} |-> left2[j]])
  IN  IF under = {} THEN left1
                    ELSE [id \in ids |-> SatSub(left2[id], SatSub(still, older(id)))]

=============================================================================
