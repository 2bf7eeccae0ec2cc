--------------------------- MODULE CompounderMath ---------------------------
(***************************************************************************)
(* The algorithms of the amp compounder (contracts/amp-compounder): the    *)
(* optimal swap and the simulation of the compound proxy, and what the     *)
(* fees collector does with bridges and targets.                           *)
(***************************************************************************)
EXTENDS Integers, Sequences, SequencesExt, Functions, FiniteSetsExt

CONSTANT COMMISSION_DENOM    \* a commission of one

Less(a, b) == IF a >= b THEN a - b ELSE 0

-----------------------------------------------------------------------------
(* compound_proxy: the optimal swap.                                       *)

\* The root of m from that of m / 4, rounded down.
isqrt(n) ==
  LET root[m \in 0..n] ==
        IF m = 0 THEN 0
        ELSE LET r == 2 * root[m \div 4] IN IF (r + 1) * (r + 1) <= m THEN r + 1 ELSE r
  IN  root[n]

\* Mutant of get_swap_amount: no commission is taken off the return.
SwapWithoutCommission(amount_a, amount_b, pool_a, pool_b, commission_bps) ==
  LET area_ax == (amount_a + pool_a) * pool_b
      area_bx == (amount_b + pool_b) * pool_a
      b == 2 * COMMISSION_DENOM * isqrt(area_ax) * isqrt(area_bx)
  IN  Less((b \div (2 * COMMISSION_DENOM)) \div (amount_b + pool_b), pool_a)

\* How much of a to swap, so that what is left and what is returned are in the
\* proportion of the pool.
get_swap_amount(amount_a, amount_b, pool_a, pool_b, commission_bps) ==
  LET area_ax == (amount_a + pool_a) * pool_b
      area_bx == (amount_b + pool_b) * pool_a
      a == commission_bps * commission_bps * area_ax
           + 4 * (COMMISSION_DENOM - commission_bps) * COMMISSION_DENOM * area_bx
      b == commission_bps * area_ax + isqrt(area_ax) * isqrt(a)
  IN  Less((b \div (2 * COMMISSION_DENOM)) \div (amount_b + pool_b), pool_a)

\* The Decimal of cp / (pool + offer) has 18 digits: what is returned is rounded down.
simulate(offer_pool, ask_pool, offer_amount, commission_bps) ==
  LET pool_after == offer_pool + offer_amount
      return_amount == ask_pool - (offer_pool * ask_pool + pool_after - 1) \div pool_after
  IN  return_amount - (return_amount * commission_bps) \div COMMISSION_DENOM

\* The asset in excess of the pool's proportion is swapped; nothing is when nothing
\* would be returned.
calculate_optimal_swap(amount_a, amount_b, pool_a, pool_b, commission_bps) ==
  LET a_to_b == amount_a * pool_b > amount_b * pool_a
      b_to_a == amount_a * pool_b < amount_b * pool_a
      swap_a == get_swap_amount(amount_a, amount_b, pool_a, pool_b, commission_bps)
      swap_b == get_swap_amount(amount_b, amount_a, pool_b, pool_a, commission_bps)
      back_b == simulate(pool_a, pool_b, swap_a, commission_bps)
      back_a == simulate(pool_b, pool_a, swap_b, commission_bps)
      none   == [swap_a |-> 0, swap_b |-> 0, return_a |-> 0, return_b |-> 0]
  IN  IF a_to_b /\ swap_a > 0 /\ back_b > 0
        THEN [none EXCEPT !.swap_a = swap_a, !.return_b = back_b]
      ELSE IF b_to_a /\ swap_b > 0 /\ back_a > 0
        THEN [none EXCEPT !.swap_b = swap_b, !.return_a = back_a]
      ELSE none

\* The LP tokens a pool gives for a and b.
lp_minted(a, b, pool_a, pool_b, total_share) ==
  Min({(a * total_share) \div pool_a, (b * total_share) \div pool_b})

\* query_compound_simulation for an xyk pair.
query_compound_simulation(amount_a, amount_b, pool_a, pool_b, total_share, commission_bps) ==
  LET s == calculate_optimal_swap(amount_a, amount_b, pool_a, pool_b, commission_bps)
  IN  lp_minted(amount_a - s.swap_a + s.return_a, amount_b - s.swap_b + s.return_b,
                pool_a + s.swap_a - s.return_a, pool_b + s.swap_b - s.return_b, total_share)

-----------------------------------------------------------------------------
(* fees_collector: bridges.                                                *)

BRIDGES_MAX_DEPTH == 2
BRIDGES_EXECUTION_MAX_DEPTH == 3

\* Mutant of validate_bridge: one more level is accepted.
ValidatedOneDeeper(bridges, pairs, stable, from) ==
  LET pool(x, y) == {x, y} \in pairs
      valid[depth \in 0..BRIDGES_MAX_DEPTH + 2, x \in DOMAIN bridges] ==
        /\ pool(x, bridges[x])
        /\ \/ pool(bridges[x], stable)
           \/ /\ depth < BRIDGES_MAX_DEPTH + 1
              /\ bridges[x] \in DOMAIN bridges
              /\ valid[depth + 1, bridges[x]]
  IN  valid[0, from]

\* The pool of the asset with its bridge exists, and one of the bridge with the
\* stablecoin, or the bridge has a bridge that is valid.
validate_bridge(bridges, pairs, stable, from) ==
  LET pool(x, y) == {x, y} \in pairs
      valid[depth \in 0..BRIDGES_MAX_DEPTH + 1, x \in DOMAIN bridges] ==
        /\ pool(x, bridges[x])
        /\ \/ pool(bridges[x], stable)
           \/ /\ depth < BRIDGES_MAX_DEPTH
              /\ bridges[x] \in DOMAIN bridges
              /\ valid[depth + 1, bridges[x]]
  IN  valid[0, from]

\* update_bridges stores bridges all of which are valid, and none to the asset itself.
update_bridges_accepts(bridges, pairs, stable) ==
  \A x \in DOMAIN bridges : bridges[x] # x /\ validate_bridge(bridges, pairs, stable, x)

\* What fees_collector::swap turns an asset into: its bridge, or else the stablecoin, or
\* else uluna; nothing when the pool is missing.
swap(bridges, pairs, stable, uluna, from) ==
  LET pools == {x \in {stable, uluna} \ {from} : {from, x} \in pairs}
  IN  IF from \in DOMAIN bridges THEN {x \in {bridges[from]} : {from, x} \in pairs}
      ELSE IF stable \in pools THEN {stable} ELSE pools

\* swap_assets swaps all of the assets or fails.  What comes out of a bridge is swapped in
\* turn by swap_bridge_assets, at the next depth: whether a collection of the assets, of
\* which there is a balance, ends.
collect_succeeds(bridges, pairs, stable, uluna, assets) ==
  LET to(x) == swap(bridges, pairs, stable, uluna, x)
      isBridge(x) == x \in DOMAIN bridges \/ to(x) # {stable}
      assetsAt[n \in 0..BRIDGES_EXECUTION_MAX_DEPTH + 1] ==
        IF n = 0 THEN assets \ {stable}
        ELSE UNION {to(x) : x \in {y \in assetsAt[n - 1] : isBridge(y)}}
  IN  /\ \A n \in 0..BRIDGES_EXECUTION_MAX_DEPTH : \A x \in assetsAt[n] : to(x) # {}
      /\ assetsAt[BRIDGES_EXECUTION_MAX_DEPTH + 1] = {}

-----------------------------------------------------------------------------
(* fees_collector: distribution.                                           *)

\* Mutant of fill_up: a target is filled with what it has missed, whatever is there.
FillBeyond(targets, held, total) ==
  FoldSeq(LAMBDA t, acc :
            LET amount == t.filled_to - held[t.addr]
            IN  IF t.fill /\ t.filled_to > held[t.addr] /\ amount > t.min_fill
                THEN [left |-> Less(acc.left, amount),
                      paid |-> [acc.paid EXCEPT ![t.addr] = @ + amount]]
                ELSE acc,
          [left |-> total, paid |-> [x \in DOMAIN held |-> 0]], targets)

\* The targets to fill up first, in their order: each gets what it lacks or all that is
\* left, if that is more than its min_fill.  The balances are those before the transfers.
fill_up(targets, held, total) ==
  FoldSeq(LAMBDA t, acc :
            LET amount == Min({acc.left, t.filled_to - held[t.addr]})
            IN  IF t.fill /\ t.filled_to > held[t.addr] /\ amount > t.min_fill
                THEN [left |-> acc.left - amount,
                      paid |-> [acc.paid EXCEPT ![t.addr] = @ + amount]]
                ELSE acc,
          [left |-> total, paid |-> [x \in DOMAIN held |-> 0]], targets)

\* The others share the rest by weight; there is no distribution of nothing.
distribute(targets, held, total) ==
  LET filled   == fill_up(targets, held, total)
      weighted == SelectSeq(targets, LAMBDA t : ~t.fill)
      weight   == FoldSeq(LAMBDA t, sum : sum + t.weight, 0, weighted)
  IN  FoldSeq(LAMBDA t, paid : [paid EXCEPT ![t.addr] = @ + (filled.left * t.weight) \div weight],
              filled.paid, weighted)

\* The division by the total weight panics when every weight is zero.
distribute_defined(targets) ==
  LET weighted == SelectSeq(targets, LAMBDA t : ~t.fill)
  IN  weighted # <<>> => \E i \in DOMAIN weighted : weighted[i].weight > 0
=============================================================================
