---------------------------- MODULE CompoundProxy ----------------------------
(***************************************************************************)
(* The compound proxy (contracts/amp-compounder/compound_proxy) turns any  *)
(* tokens into the LP token of a pair, and tokens into other tokens.       *)
(*                                                                         *)
(* A transaction runs through several contracts.  Its parts are operators  *)
(* on `chain', the tokens of the accounts and the storage of the contracts *)
(* called, that return the set of values they can leave: one if the part   *)
(* succeeds, none if it fails, which undoes the whole transaction.         *)
(*                                                                         *)
(* External: the Astroport pairs.  The pair of the LP token is an xyk pair *)
(* with the account "pair"; the pairs of a route swap one for one.  Nobody *)
(* moves an amount of zero.  Spreads and slippages stay within tolerance.  *)
(***************************************************************************)
EXTENDS CompounderMath, Sums

CONSTANTS
  Users,
  Luna, Other,         \* the assets of the pair: uluna and another
  Astro,               \* a reward token that is not in the pair
  LP, AmpLP,           \* the LP token of the pair; the farm's token
  Commission,          \* commission_bps of the pair
  InitialPool,         \* external: the pair's pool of either asset, and its LP tokens
  InitialFunds,        \* external: what every user has of each asset
  Swaps, Gifts,        \* amounts that users swap; that they leave in the proxy
  MaxCalls             \* bound: calls of users and owners

VARIABLES
  chain,
  proxy,               \* State of the proxy: factory, routes, whether the LP is listed
  gifts,               \* external: tokens third parties left in the proxy
  calls                \* number of calls of users and owners

PairAssets == {Luna, Other}
Assets == PairAssets \cup {Astro, LP, AmpLP}
Contracts == {"proxy", "pair", "farm", "ampz"}
Accounts == Users \cup Contracts

ASSUME CompoundAssumption ==
  /\ IsFiniteSet(Users) /\ Users \cap Contracts = {}
  /\ Luna # Other /\ Astro \notin PairAssets
  /\ LP \notin PairAssets \cup {Astro} /\ AmpLP \notin PairAssets \cup {Astro, LP}
  /\ COMMISSION_DENOM \in Nat \ {0} /\ Commission \in 0..COMMISSION_DENOM
  /\ InitialPool \in Nat \ {0} /\ InitialFunds \in [Assets -> Nat] /\ InitialFunds[AmpLP] = 0
  /\ Swaps \cup Gifts \subseteq Nat \ {0}

Held(c, who, a) == c.bal[who][a]
Then(cs, Op(_)) == UNION {Op(c) : c \in cs}

\* External: the bank and the cw20 tokens.  What leaves the accounts is not followed.
Give(c, who, a, n) == {[c EXCEPT !.bal[who][a] = @ + n]}
Take(c, who, a, n) ==
  IF n > 0 /\ n <= Held(c, who, a) THEN {[c EXCEPT !.bal[who][a] = @ - n]} ELSE {}
Move(c, from, to, a, n) == Then(Take(c, from, a, n), LAMBDA d : Give(d, to, a, n))

\* The messages of one transaction that move amounts of several assets.
Amount(amounts, a) == IF a \in DOMAIN amounts THEN amounts[a] ELSE 0
TakeAll(c, who, amounts) ==
  IF \A a \in DOMAIN amounts : amounts[a] > 0 /\ amounts[a] <= Held(c, who, a)
  THEN {[c EXCEPT !.bal[who] = [a \in Assets |-> @[a] - Amount(amounts, a)]]} ELSE {}
GiveAll(c, who, amounts) ==
  {[c EXCEPT !.bal[who] = [a \in Assets |-> @[a] + Amount(amounts, a)]]}

\* AssetEx::deposit_asset skips what is zero.
deposit_asset(amounts) == Restrict(amounts, {a \in DOMAIN amounts : amounts[a] # 0})
deposit_assets(c, from, to, amounts) ==
  Then(TakeAll(c, from, deposit_asset(amounts)), LAMBDA d : GiveAll(d, to, amounts))

-----------------------------------------------------------------------------
(* compound.                                                               *)

\* RouteConfig::create_swap and Factory::create_swap of every reward, for the account to.
create_swap(c, rewards, wanted, to) ==
  IF \A a \in DOMAIN rewards : <<a, wanted>> \in proxy.routes \/ proxy.factory
  THEN Then(TakeAll(c, "proxy", rewards), LAMBDA d : Give(d, to, wanted, Total(rewards)))
  ELSE {}

\* External: a swap in the pair.
PairSwap(c, offer, n, ask, back) ==
  Then(Move(c, "proxy", "pair", offer, n), LAMBDA d : Move(d, "pair", "proxy", ask, back))

\* The swap is computed from all that the proxy holds.
optimal_swap(c) ==
  LET s == calculate_optimal_swap(Held(c, "proxy", Luna), Held(c, "proxy", Other),
             Held(c, "pair", Luna), Held(c, "pair", Other), Commission)
  IN  IF s.swap_a > 0 THEN PairSwap(c, Luna, s.swap_a, Other, s.return_b)
      ELSE IF s.swap_b > 0 THEN PairSwap(c, Other, s.swap_b, Luna, s.return_a)
      ELSE {c}

\* Mutant of provide_liquidity: all that the proxy holds is provided.
ProvideAll(c, prev, receiver) ==
  LET amount(a) == Held(c, "proxy", a)
      minted == lp_minted(amount(Luna), amount(Other), Held(c, "pair", Luna),
                          Held(c, "pair", Other), c.supply)
  IN  IF minted = 0 THEN {}
      ELSE Then(deposit_assets(c, "proxy", "pair", [a \in PairAssets |-> amount(a)]),
                LAMBDA d : Give([d EXCEPT !.supply = @ + minted], receiver, LP, minted))

\* What the proxy did not hold before is provided; the pair takes no deposit that is worth
\* no LP token.
provide_liquidity(c, prev, receiver) ==
  LET amount(a) == Held(c, "proxy", a) - prev[a]
      minted == lp_minted(amount(Luna), amount(Other), Held(c, "pair", Luna),
                          Held(c, "pair", Other), c.supply)
  IN  IF (\E a \in PairAssets : amount(a) <= 0) \/ minted = 0 THEN {}
      ELSE Then(deposit_assets(c, "proxy", "pair", [a \in PairAssets |-> amount(a)]),
                LAMBDA d : Give([d EXCEPT !.supply = @ + minted], receiver, LP, minted))

\* A reward that is not of the pair is swapped into the wanted asset, here uluna.
compound(c, sender, rewards, receiver, no_swap) ==
  LET deposited == deposit_assets(c, sender, "proxy", rewards)
      others  == Restrict(rewards, DOMAIN rewards \ PairAssets)
      swapped == Then(deposited, LAMBDA d : create_swap(d, others, Luna, "proxy"))
      paired == IF no_swap THEN swapped ELSE Then(swapped, optimal_swap)
      prev_balances == [a \in PairAssets |-> Held(c, "proxy", a)]
  IN  IF ~proxy.lp THEN {}
      ELSE Then(paired, LAMBDA d : provide_liquidity(d, prev_balances, receiver))

\* What is of the wanted asset already is sent back, with all the proxy has of it.
multi_swap(c, sender, into, rewards, receiver) ==
  LET deposited == deposit_assets(c, sender, "proxy", rewards)
      others  == Restrict(rewards, DOMAIN rewards \ {into})
      swapped == Then(deposited, LAMBDA d : create_swap(d, others, into, receiver))
      send_swap_result(d) == Move(d, "proxy", receiver, into, Held(d, "proxy", into))
  IN  IF into \in DOMAIN rewards THEN Then(swapped, send_swap_result) ELSE swapped

-----------------------------------------------------------------------------
(* Messages to the proxy.                                                  *)

ProxyInit ==
  /\ chain = [bal |-> [w \in Accounts |-> [a \in Assets |->
                CASE w \in Users -> InitialFunds[a]
                  [] w = "pair" /\ a \in PairAssets -> InitialPool
                  [] OTHER -> 0]],
              supply |-> InitialPool + Cardinality(Users) * InitialFunds[LP],
              deposit |-> 0, total_bond_share |-> 0,
              exchange_history |-> [t \in {} |-> 0], pending |-> [a \in {Astro, Luna} |-> 0]]
  /\ proxy = [factory |-> FALSE, routes |-> {<<Astro, Luna>>, <<Luna, Astro>>}, lp |-> TRUE]
  /\ gifts = [a \in PairAssets |-> 0] /\ calls = 0

\* The whole balance goes to the sender when he swaps an asset into itself.
MultiSwap(u, a, n, into) ==
  /\ calls < MaxCalls /\ calls' = calls + 1
  /\ chain' \in multi_swap(chain, u, into, [x \in {a} |-> n], u)
  /\ gifts' = IF a = into /\ a \in PairAssets THEN [gifts EXCEPT ![a] = 0] ELSE gifts
  /\ UNCHANGED proxy

\* External: somebody sends tokens to the proxy.
Gift(u, a, n) ==
  /\ calls < MaxCalls /\ calls' = calls + 1
  /\ chain' \in Move(chain, u, "proxy", a, n)
  /\ gifts' = [gifts EXCEPT ![a] = @ + n]
  /\ UNCHANGED proxy

\* update_config: a route is stored in both directions or one, and not over another.
add_route(ends, both) ==
  LET keys == {ends} \cup {k \in {<<ends[2], ends[1]>>} : both}
  IN  /\ keys \cap proxy.routes = {}
      /\ proxy' = [proxy EXCEPT !.routes = @ \cup keys]

delete_route(ends, both) ==
  LET keys == {ends} \cup {k \in {<<ends[2], ends[1]>>} : both}
  IN  /\ keys \subseteq proxy.routes
      /\ proxy' = [proxy EXCEPT !.routes = @ \ keys]

set_factory(on) == proxy.factory # on /\ proxy' = [proxy EXCEPT !.factory = on]
remove_lp == proxy.lp /\ proxy' = [proxy EXCEPT !.lp = FALSE]
add_lp == ~proxy.lp /\ proxy' = [proxy EXCEPT !.lp = TRUE]

proxy_update_config ==
  /\ calls < MaxCalls /\ calls' = calls + 1
  /\ \/ \E from \in {Astro, Other}, both \in BOOLEAN :
          add_route(<<from, Luna>>, both) \/ delete_route(<<from, Luna>>, both)
     \/ \E on \in BOOLEAN : set_factory(on)
     \/ remove_lp \/ add_lp
  /\ UNCHANGED <<chain, gifts>>

=============================================================================
