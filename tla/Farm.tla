-------------------------------- MODULE Farm --------------------------------
(***************************************************************************)
(* The farm (contracts/amp-compounder/astroport_farm): it stakes the LP    *)
(* tokens of its holders in the generator, gives them amp LP tokens, and   *)
(* compounds the rewards into LP tokens.  A new holder gets fewer shares   *)
(* the faster the farm has earned, so that joining just before a           *)
(* compounding does not pay.                                               *)
(*                                                                         *)
(* External: the generator, which holds the farm's deposit and the rewards *)
(* it has earned until it claims them.                                     *)
(***************************************************************************)
EXTENDS CompoundProxy

CONSTANTS
  DecimalOne,          \* a Decimal of one
  FarmConfigs,         \* fee and deposit_profit_delay of the farm
  Bonds, Shares,       \* LP tokens and other assets bonded; amp LP tokens given back
  Earnings,            \* what the generator credits at a time
  MaxEarnings, MaxTime \* bounds

ASSUME FarmAssumption ==
  /\ DecimalOne \in Nat \ {0} /\ UNION {Bonds, Shares, Earnings} \subseteq Nat \ {0}
  /\ \A k \in FarmConfigs : k.fee \in 0..DecimalOne /\ k.delay \in Nat

VARIABLES
  farm,                \* CONFIG of the farm
  now,                 \* external: block time
  earned               \* number of credits by the generator

farmVars == <<farm, now, earned>>
proxyVars == <<proxy, gifts, calls>>

-----------------------------------------------------------------------------
(* state.rs                                                                *)

RELAVANT_EXCHANGE_RATES == 3

calc_bond_share(c, bond_amount) ==
  IF c.total_bond_share = 0 \/ c.deposit = 0 THEN bond_amount
  ELSE (bond_amount * c.total_bond_share) \div c.deposit

\* Mutant of calc_bond_amount: rounded up.
BondAmountUp(c, bond_share) ==
  IF c.total_bond_share = 0 THEN 0
  ELSE (c.deposit * bond_share + c.total_bond_share - 1) \div c.total_bond_share

calc_bond_amount(c, bond_share) ==
  IF c.total_bond_share = 0 THEN 0 ELSE (c.deposit * bond_share) \div c.total_bond_share

calc_exchange_rate(c, total_lp) ==
  IF c.total_bond_share = 0 THEN DecimalOne ELSE (total_lp * DecimalOne) \div c.total_bond_share

\* Mutant of calc_adjusted_share: the share is multiplied by the factor.
AdjustedUp(c, bond_share) ==
  LET times   == DOMAIN c.exchange_history
      recent  == {t \in times : Cardinality({x \in times : x > t}) < RELAVANT_EXCHANGE_RATES}
      rate(t) == c.exchange_history[t]
      current == Max(times)
      last    == Min(recent)
      percent == (Max({rate(current) - rate(last), 0}) * DecimalOne) \div rate(last)
      factor_plus_one ==
        (percent * ((farm.delay * DecimalOne) \div (current - last))) \div DecimalOne + DecimalOne
  IN  IF farm.delay = 0 \/ Cardinality(times) < 2 THEN bond_share
      ELSE (bond_share * factor_plus_one) \div DecimalOne

\* DepositProfitDelay::calc_adjusted_share: by how much the exchange rate has risen over
\* the last compoundings, for the length of the delay.
calc_adjusted_share(c, bond_share) ==
  LET times   == DOMAIN c.exchange_history
      recent  == {t \in times : Cardinality({x \in times : x > t}) < RELAVANT_EXCHANGE_RATES}
      rate(t) == c.exchange_history[t]
      current == Max(times)
      last    == Min(recent)
      percent == (Max({rate(current) - rate(last), 0}) * DecimalOne) \div rate(last)
      factor_plus_one ==
        (percent * ((farm.delay * DecimalOne) \div (current - last))) \div DecimalOne + DecimalOne
  IN  IF farm.delay = 0 \/ Cardinality(times) < 2 THEN bond_share
      ELSE (bond_share * ((DecimalOne * DecimalOne) \div factor_plus_one)) \div DecimalOne

-----------------------------------------------------------------------------
(* bond.rs                                                                 *)

\* The shares are those of the deposit before; the token mints no amount of zero.
bond_internal(c, staker, amount) ==
  LET share == calc_adjusted_share(c, calc_bond_share(c, amount))
  IN  IF share = 0 THEN {}
      ELSE Then(Take(c, "farm", LP, amount),
             LAMBDA d : Give([d EXCEPT !.total_bond_share = @ + share, !.deposit = @ + amount],
                             staker, AmpLP, share))

\* bond_to, the callback, bonds the LP tokens that the compounding has added.
bond_to(c, to, prev_balance) == bond_internal(c, to, Held(c, "farm", LP) - prev_balance)

bond_assets(c, sender, assets, no_swap, receiver) ==
  Then(deposit_assets(c, sender, "farm", assets),
    LAMBDA d : Then(compound(d, "farm", assets, "farm", no_swap),
      LAMBDA e : bond_to(e, receiver, Held(c, "farm", LP))))

bond(c, sender, amount, staker) ==
  Then(Move(c, sender, "farm", LP, amount), LAMBDA d : bond_internal(d, staker, amount))

\* The amp LP tokens are burned, the LP tokens withdrawn and sent.
unbond(c, sender, amount, receiver) ==
  LET bond_amount == calc_bond_amount(c, amount)
  IN  IF bond_amount = 0 \/ amount > c.total_bond_share THEN {}
      ELSE Then(Take(c, sender, AmpLP, amount),
             LAMBDA d : Give([d EXCEPT !.total_bond_share = @ - amount, !.deposit = @ - bond_amount],
                             receiver, LP, bond_amount))

-----------------------------------------------------------------------------
(* compound.rs                                                             *)

\* stake, the callback, records the exchange rate with what the compounding has added.
stake(c, prev_balance) ==
  LET amount == Held(c, "farm", LP) - prev_balance
      rate   == calc_exchange_rate(c, c.deposit + amount)
  IN  Then(Take(c, "farm", LP, amount),
        LAMBDA d : {[d EXCEPT !.deposit = @ + amount,
                              !.exchange_history =
                                [t \in DOMAIN @ \cup {now} |-> IF t = now THEN rate ELSE @[t]]]})

\* The rewards are claimed; when there is a deposit the commission is sent to the collector
\* and the rest is compounded.  The whole amount of a native reward is sent along with the
\* message, and the proxy refuses it when there is a commission on it.
farm_compound(c) ==
  LET commission(a) == (c.pending[a] * farm.fee) \div DecimalOne
      claimed == [c EXCEPT !.bal["farm"] = [a \in Assets |-> IF a \in DOMAIN c.pending
                             THEN @[a] + c.pending[a] ELSE @[a]],
                           !.pending = [a \in DOMAIN @ |-> 0]]
      earning == {a \in DOMAIN c.pending : c.pending[a] > 0 /\ c.deposit > 0}
      rewards == {a \in earning : commission(a) < c.pending[a]}
      paid == TakeAll(claimed, "farm", [a \in {x \in earning : commission(x) > 0} |-> commission(a)])
  IN  IF Luna \in rewards /\ commission(Luna) > 0 THEN {}
      ELSE IF rewards = {} THEN paid
      ELSE Then(paid, LAMBDA d :
             Then(compound(d, "farm", [a \in rewards |-> c.pending[a] - commission(a)],
                           "farm", FALSE),
                  LAMBDA e : stake(e, Held(c, "farm", LP))))

-----------------------------------------------------------------------------
(* Messages to the farm.                                                   *)

FarmInit == ProxyInit /\ farm \in FarmConfigs /\ now = 0 /\ earned = 0

BondAssets(u, a, n, no_swap, receiver) ==
  /\ calls < MaxCalls /\ calls' = calls + 1
  /\ chain' \in bond_assets(chain, u, [x \in {a} |-> n], no_swap, receiver)
  /\ UNCHANGED <<proxy, gifts, farmVars>>

Bond(u, n, staker) ==
  /\ calls < MaxCalls /\ calls' = calls + 1
  /\ chain' \in bond(chain, u, n, staker)
  /\ UNCHANGED <<proxy, gifts, farmVars>>

Unbond(u, n, receiver) ==
  /\ calls < MaxCalls /\ calls' = calls + 1
  /\ chain' \in unbond(chain, u, n, receiver)
  /\ UNCHANGED <<proxy, gifts, farmVars>>

\* The controller compounds.
Compound ==
  /\ \E a \in DOMAIN chain.pending : chain.pending[a] > 0
  /\ chain' \in farm_compound(chain)
  /\ UNCHANGED <<proxyVars, farmVars>>

farm_update_config(k) ==
  /\ calls < MaxCalls /\ calls' = calls + 1 /\ farm' = k
  /\ UNCHANGED <<chain, proxy, gifts, now, earned>>

\* External: the generator credits rewards for the deposit, in ASTRO or through a proxy in
\* another token.
Earn(a, n) ==
  /\ earned < MaxEarnings /\ chain.deposit > 0
  /\ chain' = [chain EXCEPT !.pending[a] = @ + n] /\ earned' = earned + 1
  /\ UNCHANGED <<proxyVars, farm, now>>

\* External: amp LP tokens are tokens.
TransferShares(u, v, n) ==
  /\ calls < MaxCalls /\ calls' = calls + 1
  /\ u # v /\ chain' \in Move(chain, u, v, AmpLP, n)
  /\ UNCHANGED <<proxy, gifts, farmVars>>

Tick ==
  /\ now < MaxTime /\ now' = now + 1
  /\ UNCHANGED <<chain, proxyVars, farm, earned>>

-----------------------------------------------------------------------------
(* What the farm promises.                                                 *)

Pool == INSTANCE SharePool WITH
  Holders <- Users, pool <- chain.deposit,
  share <- [u \in Users |-> Held(chain, u, AmpLP)]

\* The farm is a share pool: nobody's bond, in whatever tokens and however soon after a
\* compounding, takes value from the other holders, nobody unbonds more than his part, and
\* compounding only adds to the deposit.
FarmIsAPool == Pool!PoolSpec

=============================================================================
