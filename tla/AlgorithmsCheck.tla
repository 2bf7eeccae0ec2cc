-------------------------- MODULE AlgorithmsCheck --------------------------
(***************************************************************************)
(* The algorithms of HubMath and CompounderMath checked on every input of  *)
(* bounded size.  A behaviour is one input; the invariants compare what    *)
(* the algorithm makes of it with what it is for.                          *)
(***************************************************************************)
EXTENDS HubMath, CompounderMath

CONSTANTS
  ChainOrder,    \* validators in the chain's order
  Whitelists,    \* sequences of validators
  Goals,         \* stored delegation goals, the empty one included
  MaxAmount,     \* bound: delegation of a validator, in uluna
  MaxUnclaimed,  \* bound: uluna_unclaimed of a batch
  MaxBatchCount, \* bound: batches reconciled together
  MaxPoints,     \* bound: gauge points of a validator
  Pools, Offers, \* amounts in a pool; amounts offered to it
  Commissions,   \* commissions of a pair
  Tokens,        \* fee tokens: 1..n, with bridges to later ones
  MaxFees        \* bound: fees to distribute, amounts to fill up

VARIABLE in

Vals == Range(ChainOrder)

DelegationInputs ==
  [kind : {"delegations"}, d : [Vals -> 0..MaxAmount], validators : Whitelists,
   goal : Goals, amount : 0..MaxAmount]

ReconcileInputs ==
  UNION {[kind : {"reconcile"}, unclaimed : [1..n -> 0..MaxUnclaimed],
          deduct : 1..(n * MaxUnclaimed)] : n \in 1..MaxBatchCount}

GaugeInputs ==
  [kind : {"gauges"}, vamp : [Vals -> 0..MaxPoints], emp : [Vals -> 0..MaxPoints],
   validators : Whitelists,
   s : [emp_gauges : BOOLEAN, amp_factor : {One \div 3}, min_delegation : {0, One \div 10},
        max_delegation : {One \div 2}, validator_count : 1..2]]

SwapInputs ==
  [kind : {"swap"}, a : Offers, b : Offers, pool_a : Pools, pool_b : Pools,
   commission : Commissions]

\* Every asset of a bridge has a pool with it; the stablecoin is the asset 0.
BridgeInputs ==
  [kind : {"bridges"}, stable_pools : SUBSET Tokens,
   bridges : {b \in UNION {[s -> Tokens] : s \in SUBSET Tokens} :
                \A x \in DOMAIN b : x < b[x]}]

\* Two targets to fill up and two with weights, in an order that mixes them.
FeeInputs ==
  [kind : {"fees"}, total : 1..MaxFees, held : [1..2 -> 0..2], filled_to : [1..2 -> 0..MaxFees],
   min_fill : 0..2, weights : {<<1, 1>>, <<0, 3>>, <<0, 0>>}]

Init == in \in UNION {DelegationInputs, ReconcileInputs, GaugeInputs,
                      SwapInputs, BridgeInputs, FeeInputs}
Next == UNCHANGED in
Spec == Init /\ [][Next]_in

-----------------------------------------------------------------------------
Listed == SelectSeq(ChainOrder, LAMBDA v : in.d[v] > 0)
Staked == Total(in.d)
Share(v, staked) ==
  LET per == UlunaPerValidator(in.goal, staked, in.validators)
  IN  IF v \in DOMAIN per THEN per[v] ELSE 0
GoalListed == DOMAIN in.goal \subseteq Range(in.validators)

TakenFrom(msgs, v) == TotalOf({m \in msgs : m.validator = v})
Outflow(msgs, v) == TotalOf({m \in msgs : m.src = v})
Inflow(msgs, v) == TotalOf({m \in msgs : m.dst = v})

\* Exactly the uluna to unbond, from no validator more than is there, and none is cut
\* below its share of what remains staked.
UndelegationsExact ==
  in.amount <= Staked =>
    LET msgs == ComputeUndelegations(in.goal, in.amount, in.d, Listed, in.validators)
    IN  /\ TotalOf(msgs) = in.amount
        /\ \A v \in Vals :
             TakenFrom(msgs, v) <= SatSub(in.d[v], Share(v, Staked - in.amount))

\* All of the removed validator's stake, and no validator but the first is lifted above
\* its share.
RemovalMovesAll ==
  GoalListed =>
    \A v \in Vals \ Range(in.validators) :
      LET msgs == ComputeRedelegationsForRemoval(in.goal, v, in.d, in.validators, in.validators)
          staked == Total([w \in Range(in.validators) |-> in.d[w]]) + in.d[v]
      IN  /\ Outflow(msgs, v) = in.d[v]
          /\ \A w \in Vals \ {in.validators[1]} :
               Inflow(msgs, w) <= SatSub(Share(w, staked), in.d[w])

\* Every validator comes to its share, with the rounding remainder at the first one
\* listed; no stake passes through a validator.
RebalancingReachesShares ==
  GoalListed =>
    LET msgs == ComputeRedelegationsForRebalancing(in.goal, in.d, Listed, in.validators)
        after(v) == in.d[v] - Outflow(msgs, v) + Inflow(msgs, v)
        first == MergeWithValidators(Listed, in.validators)[1]
    IN  /\ {m.src : m \in msgs} \cap {m.dst : m \in msgs} = {}
        /\ \A v \in Vals \ {first} : after(v) = Share(v, Staked)
        /\ after(first) >= Share(first, Staked)

\* compute_undelegations finds exactly the uluna to unbond without cutting a validator
\* below its share, so that ComputeUndelegationsWrong is never returned; a removal moves
\* all of the removed validator's stake; a rebalancing brings every validator to its share.
StakeReachesShares ==
  in.kind = "delegations" => UndelegationsExact /\ RemovalMovesAll /\ RebalancingReachesShares

\* reconcile_batches takes no batch below zero and takes no more than it was asked to;
\* one batch alone gives all it has to give; and a shortfall the batches can bear never
\* makes it divide by zero.
ReconcileNeverOverdeducts ==
  in.kind = "reconcile" =>
    /\ in.deduct <= Total(in.unclaimed) => ReconcileDefined(in.unclaimed, in.deduct)
    /\ ReconcileDefined(in.unclaimed, in.deduct) =>
         LET left == ReconcileBatches(in.unclaimed, in.deduct)
         IN  /\ \A id \in DOMAIN left : left[id] \in 0..in.unclaimed[id]
             /\ Total(left) >= SatSub(Total(in.unclaimed), in.deduct)
             /\ DOMAIN left = {1} => Total(left) = SatSub(Total(in.unclaimed), in.deduct)

\* The gauges' goal never hands out more than the whole stake, loses at most one
\* unit of each share to rounding, and keeps the best validators: no whitelisted
\* validator outside the goal has more points than one inside.
GoalIsTheBest ==
  in.kind = "gauges" /\ Total(in.vamp) > 0 /\ Total(in.emp) > 0 =>
    LET goal == WantedShares(in.s, in.validators, in.vamp, in.emp)
    IN  /\ Total(goal) <= One
        /\ goal # <<>> => Total(goal) + Cardinality(DOMAIN goal) > One
        /\ Cardinality(DOMAIN goal) <= in.s.validator_count
        /\ DOMAIN goal \subseteq Range(in.validators)
        /\ \A v \in DOMAIN goal, w \in Range(in.validators) \ DOMAIN goal :
             ~(in.vamp[w] > in.vamp[v] /\ in.emp[w] >= in.emp[v])

\* The excess of a over the pool's proportion when s of it is swapped, multiplied by the
\* denominators: the pool keeps pool_b - r of b and gives r, its commission taken off.
Excess(s) ==
  LET d == COMMISSION_DENOM
      pool == d * (in.pool_a + s)
      r == in.pool_b * s * (d - in.commission)
  IN  (in.a - s) * (in.pool_b * pool - r) - (in.b * pool + r) * (in.pool_a + s)

\* By how much the roots and divisions of get_swap_amount round down.
Slack ==
  LET ax == (in.a + in.pool_a) * in.pool_b
      bx == (in.b + in.pool_b) * in.pool_a
      d  == COMMISSION_DENOM
  IN  3 + (isqrt(ax) + isqrt(in.commission * in.commission * ax + 4 * (d - in.commission) * d * bx))
            \div (2 * d * (in.b + in.pool_b))

\* The optimal swap sells neither so much that the other asset comes to be in excess nor
\* so little that rounding cannot explain what stays unpaired, whatever the commission of
\* the pair; and swapping never yields less of the LP token than not swapping.
SwapPairsTheDeposit ==
  in.kind = "swap" /\ in.a * in.pool_b > in.b * in.pool_a =>
    LET s == get_swap_amount(in.a, in.b, in.pool_a, in.pool_b, in.commission)
    IN  /\ s <= in.a
        /\ Excess(s) >= 0
        /\ s + Slack <= in.a => Excess(s + Slack) <= 0
        /\ query_compound_simulation(in.a, in.b, in.pool_a, in.pool_b, in.pool_a, in.commission)
             >= lp_minted(in.a, in.b, in.pool_a, in.pool_b, in.pool_a)

Stable == 0
FeePairs ==
  {{x, in.bridges[x]} : x \in DOMAIN in.bridges} \cup {{x, Stable} : x \in in.stable_pools}

\* "Check that bridge tokens can be swapped to stablecoin": when every bridge is valid and
\* none starts at a token that has a pool with the stablecoin, a collection of all the
\* tokens with bridges reaches the stablecoin before the limit of its depth.
ValidBridgesReachStable ==
  /\ in.kind = "bridges"
  /\ update_bridges_accepts(in.bridges, FeePairs, Stable)
  /\ DOMAIN in.bridges \cap in.stable_pools = {}
  =>   \A s \in SUBSET DOMAIN in.bridges :
         collect_succeeds(in.bridges, FeePairs, Stable, Max(Tokens), s)

FeeTargets ==
  LET fill(i) == [addr |-> i, fill |-> TRUE, weight |-> 0, filled_to |-> in.filled_to[i],
                  min_fill |-> in.min_fill]
      part(i) == [addr |-> i + 2, fill |-> FALSE, weight |-> in.weights[i], filled_to |-> 0,
                  min_fill |-> 0]
  IN  <<part(1), fill(1), part(2), fill(2)>>

\* A distribution pays out no more than there is and all of it but the rounding, fills no
\* target beyond its mark, and gives the weighted targets more than the least fill only
\* when the others are full.
DistributionFillsFirst ==
  in.kind = "fees" /\ distribute_defined(FeeTargets) =>
    LET held  == [i \in 1..4 |-> IF i <= 2 THEN in.held[i] ELSE 0]
        paid  == distribute(FeeTargets, held, in.total)
        spent == Total(paid)
        lacks(i) == SatSub(in.filled_to[i], held[i])
    IN  /\ spent <= in.total /\ in.total - spent < 2
        /\ \A i \in 1..2 : paid[i] <= lacks(i)
        /\ in.total - paid[1] - paid[2] > in.min_fill =>
             \A i \in 1..2 : paid[i] = lacks(i) \/ lacks(i) <= in.min_fill

=============================================================================
