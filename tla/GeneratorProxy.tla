--------------------------- MODULE GeneratorProxy ---------------------------
(***************************************************************************)
(* The generator proxy (contracts/amp-compounder/generator_proxy): it      *)
(* stakes the LP tokens of its users in the Astroport generator and the    *)
(* xASTRO of its stakers in the Astroport escrow, whose power boosts the   *)
(* rewards of the LP tokens; the boost is shared between both.  One LP     *)
(* token is modelled.                                                      *)
(*                                                                         *)
(* A transaction is a chain of messages and callbacks that succeeds or     *)
(* fails as a whole.  It is an action built from operators on a record of  *)
(* the state that the chain changes.                                       *)
(*                                                                         *)
(* External: the generator (gen), the escrow's lock (lock), the fee        *)
(* distributor (week, last_claim) and the tokens.  The generator pays what *)
(* it owes whenever the proxy's deposit changes, also when a third party   *)
(* deposits for the proxy, and the distributor when anyone claims for the  *)
(* proxy: the code calls both "claimed by others".  cw20 tokens refuse     *)
(* amounts of zero.                                                        *)
(***************************************************************************)
EXTENDS Naturals, FiniteSets, Sums

CONSTANTS
  Users,
  Extras,              \* reward tokens besides ASTRO
  One,                 \* a Decimal of one
  Configs,             \* values of boost_fee, staker_rate and max_quota
  LpAmounts, StakeAmounts,
  WeeklyFees,          \* what the distributor owes the proxy for a week
  MaxLp, MaxStake,     \* bounds: tokens of a user
  MaxHeight,           \* bound: blocks
  MaxPeriod,           \* bound: weeks
  MaxGifts             \* bound: deposits and transfers of third parties

Tokens == {"astro"} \cup Extras

ASSUME ProxyAssumption ==
  /\ IsFiniteSet(Users) /\ IsFiniteSet(Extras) /\ "astro" \notin Extras
  /\ One \in Nat \ {0} /\ LpAmounts \subseteq Nat \ {0} /\ StakeAmounts \subseteq Nat \ {0}
  /\ Configs \subseteq [boost_fee : 0..One, staker_rate : 0..One, max_quota : Nat]
  /\ {WeeklyFees, MaxLp, MaxStake, MaxHeight, MaxPeriod, MaxGifts} \subseteq Nat

VARIABLES
  config,              \* CONFIG: boost_fee, staker_rate and max_quota
  pool_info,           \* POOL_INFO of the LP token
  user_info,           \* USER_INFO by user
  reward_info,         \* REWARD_INFO by token
  staking_state,       \* STAKING_STATE
  staker_info,         \* STAKER_INFO by user
  gen,                 \* external: the proxy's entry in the generator
  lock,                \* external: the proxy's lock in the escrow
  week,                \* external: what the distributor owes the proxy by week
  last_claim,          \* external: the first week not claimed; None before any claim
  bal,                 \* external: the proxy's balance of every reward token
  xastro,              \* external: the proxy's balance of xASTRO
  lp, stake,           \* external: LP tokens and xASTRO of the users
  height, period,      \* external: block height and week
  gifts                \* number of deposits and transfers of third parties

bondVars == <<pool_info, user_info, gen, lp>>
stakingVars == <<staking_state, staker_info, lock, last_claim, xastro, stake>>
chainVars == <<week, height, period, gifts>>
vars == <<config, bondVars, stakingVars, chainVars, reward_info, bal>>

\* Weeks are counted from one.
None == 0

Min2(a, b) == IF a <= b THEN a ELSE b
\* saturating_sub: the naturals' smallest difference is zero.
Sat(a, b) == IF a >= b THEN a - b ELSE 0
Ceil(a, b) == (a + b - 1) \div b

\* Map::save: the entry of a key is set, or added.
Saved(map, key, value) ==
  [k \in DOMAIN map \cup {key} |-> IF k = key THEN value ELSE map[k]]

NoReward == [reconciled_amount |-> 0, fee |-> 0, staker_income |-> 0]
NoPool == [exists |-> FALSE, total_bond_share |-> 0, reward_indexes |-> [t \in Tokens |-> 0],
           prev_index |-> 0, prev_debt |-> [t \in Extras |-> 0], last_reconcile |-> 0]

-----------------------------------------------------------------------------
(* The generator.                                                          *)

\* Rewards are boosted to the most: the virtual amount is the amount.
VirtualAmount(g) == g.amount

Owed(g) ==
  [t \in Tokens |-> IF t = "astro" THEN (g.acc - g.index) * VirtualAmount(g)
                    ELSE g.accp[t] * g.amount - g.debt[t]]

\* Pays what is owed and sets the deposit.
GenSet(s, amount) ==
  [s EXCEPT !.bal = [t \in Tokens |-> @[t] + Owed(s.gen)[t]],
            !.gen = [@ EXCEPT !.exists = TRUE, !.amount = amount, !.index = s.gen.acc,
                              !.debt = [t \in Extras |-> s.gen.accp[t] * amount]]]

GenClaim(s) == GenSet(s, s.gen.amount)

-----------------------------------------------------------------------------
(* bond.rs: rewards of LP tokens.                                          *)

RewardOf(rewards, t) == IF t \in DOMAIN rewards THEN rewards[t] ELSE NoReward

\* The parts of an amount of ASTRO: 40% of it per LP token is the base reward, the rest
\* is the boost, less a fee and the stakers' part.
Split(s, net) ==
  LET based     == IF net = 0 THEN 0
                   ELSE (net * ((s.gen.amount * 2) \div 5)) \div VirtualAmount(s.gen)
      boosted   == net - based
      fee       == (boosted * config.boost_fee) \div One
      to_staker == ((boosted - fee) * config.staker_rate) \div One
  IN  [fee |-> fee, to_staker |-> to_staker, to_lp |-> boosted - fee - to_staker + based]

\* Mutant of reconcile_rewards: the stakers' part is also given to the LP tokens.
BoostGivenTwice(s, net) ==
  [s EXCEPT
     !.reward_info = [t \in DOMAIN @ \cup {x \in Tokens : net[x] > 0} |->
        LET r == RewardOf(@, t)
            part == Split(s, IF t = "astro" THEN net[t] ELSE 0)
        IN  [reconciled_amount |-> r.reconciled_amount + net[t], fee |-> r.fee + part.fee,
             staker_income |-> r.staker_income + part.to_staker]],
     !.pool_info.reward_indexes = [t \in Tokens |->
        IF net[t] = 0 THEN @[t]
        ELSE @[t] + (net[t] * One) \div s.pool_info.total_bond_share]]

\* reconcile_astro_reward and reconcile_token_reward of the amounts net: the fee and the
\* stakers' income are set aside, the rest is spread over the shares.
reconcile_rewards(s, net) ==
  [s EXCEPT
     !.reward_info = [t \in DOMAIN @ \cup {x \in Tokens : net[x] > 0} |->
        LET r == RewardOf(@, t)
            part == Split(s, IF t = "astro" THEN net[t] ELSE 0)
        IN  [reconciled_amount |-> r.reconciled_amount + net[t], fee |-> r.fee + part.fee,
             staker_income |-> r.staker_income + part.to_staker]],
     !.pool_info.reward_indexes = [t \in Tokens |->
        IF net[t] = 0 THEN @[t]
        ELSE @[t] + ((IF t = "astro" THEN Split(s, net[t]).to_lp ELSE net[t]) * One)
                      \div s.pool_info.total_bond_share]]

\* prev_reward_user_index and prev_reward_debt_proxy follow the generator.
FollowGenerator(s) ==
  [s EXCEPT !.pool_info.prev_index = s.gen.index, !.pool_info.prev_debt = s.gen.debt]

\* What arrived since the last reconciliation, but no more than the generator's entry
\* says it paid.
ClaimedByOthers(s) ==
  [t \in Tokens |->
     Min2(Sat(s.bal[t], RewardOf(s.reward_info, t).reconciled_amount),
          IF t = "astro" THEN (s.gen.index - s.pool_info.prev_index) * VirtualAmount(s.gen)
          ELSE Sat(s.gen.debt[t], s.pool_info.prev_debt[t]))]

Reconciled(s) == s.pool_info.total_bond_share > 0 /\ s.pool_info.last_reconcile = height

reconcile_claimed_by_others(s) ==
  IF s.pool_info.total_bond_share = 0 \/ Reconciled(s) THEN s
  ELSE FollowGenerator(reconcile_rewards(s, ClaimedByOthers(s)))

\* callback_after_bond_claimed: what a claim changed in the balances since before.
callback_after_bond_claimed(s, before) ==
  LET net == [t \in Tokens |-> s.bal[t] - before[t]]
      r   == FollowGenerator(reconcile_rewards(s, net))
  IN  [r EXCEPT !.pool_info.last_reconcile = height]

\* The messages up to the first callback of a deposit, a withdrawal or a claim.
Claimed(s) ==
  LET r == reconcile_claimed_by_others(s)
  IN  IF ~ s.gen.exists \/ Reconciled(s) THEN s
      ELSE callback_after_bond_claimed(GenClaim(r), s.bal)

\* The callback finds no pool_info when someone deposited for the proxy before it had a
\* pool, and divides by zero when a claim pays a pool without shares.
CanClaim(s) ==
  s.gen.exists /\ ~ Reconciled(s) =>
    /\ s.pool_info.exists
    /\ s.pool_info.total_bond_share = 0 => \A t \in Tokens : Owed(s.gen)[t] = 0

calc_bond_share(pool, total_bond_amount, amount, ceiling) ==
  IF pool.total_bond_share = 0 \/ total_bond_amount = 0 THEN amount
  ELSE IF ceiling THEN Ceil(amount * pool.total_bond_share, total_bond_amount)
  ELSE (amount * pool.total_bond_share) \div total_bond_amount

calc_bond_amount(pool, total_bond_amount, share) ==
  IF pool.total_bond_share = 0 THEN 0
  ELSE (total_bond_amount * share) \div pool.total_bond_share

NewUser(pool) ==
  [bond_share |-> 0, reward_indexes |-> pool.reward_indexes,
   pending_rewards |-> [t \in Tokens |-> 0]]

UserOf(pool, u) == IF u \in DOMAIN user_info THEN user_info[u] ELSE NewUser(pool)

\* Mutant of reconcile_to_user_info: the user's indexes are not brought up to date.
IndexesKept(pool, user) ==
  [user EXCEPT
     !.pending_rewards = [t \in Tokens |->
        @[t] + ((pool.reward_indexes[t] - user.reward_indexes[t]) * user.bond_share) \div One]]

reconcile_to_user_info(pool, user) ==
  [user EXCEPT
     !.pending_rewards = [t \in Tokens |->
        @[t] + ((pool.reward_indexes[t] - user.reward_indexes[t]) * user.bond_share) \div One],
     !.reward_indexes = pool.reward_indexes]

Bond == [pool_info |-> pool_info, reward_info |-> reward_info, gen |-> gen, bal |-> bal]

BecomeBond(s) ==
  /\ pool_info' = s.pool_info /\ reward_info' = s.reward_info
  /\ gen' = s.gen /\ bal' = s.bal

\* The deposit or the withdrawal in the generator and callback_after_bond_changed.
callback_after_bond_changed(s, amount) == FollowGenerator(GenSet(s, amount))

\* Deposit: claim, then callback_deposit.
execute_deposit(u, amount) ==
  LET s     == Claimed(Bond)
      share == calc_bond_share(s.pool_info, s.gen.amount, amount, FALSE)
      user  == reconcile_to_user_info(s.pool_info, UserOf(s.pool_info, u))
  IN  /\ CanClaim(Bond)
      /\ amount <= lp[u]
      /\ BecomeBond(callback_after_bond_changed(
           [s EXCEPT !.pool_info.exists = TRUE, !.pool_info.total_bond_share = @ + share],
           s.gen.amount + amount))
      /\ user_info' = Saved(user_info, u, [user EXCEPT !.bond_share = @ + share])
      /\ lp' = [lp EXCEPT ![u] = @ - amount]
      /\ UNCHANGED <<config, stakingVars, chainVars>>

\* Mutant of WithdrawnShare: the shares of a withdrawal are rounded down.
WithdrawnShareDown(pool, total_bond_amount, amount) ==
  calc_bond_share(pool, total_bond_amount, amount, FALSE)

WithdrawnShare(pool, total_bond_amount, amount) ==
  calc_bond_share(pool, total_bond_amount, amount, TRUE)

\* Withdraw: claim, then callback_withdraw.
execute_withdraw(u, amount) ==
  LET s     == Claimed(Bond)
      share == WithdrawnShare(s.pool_info, s.gen.amount, amount)
      user  == reconcile_to_user_info(s.pool_info, user_info[u])
  IN  /\ gen.exists /\ CanClaim(Bond)
      /\ u \in DOMAIN user_info
      /\ share <= user.bond_share /\ amount <= s.gen.amount
      /\ BecomeBond(callback_after_bond_changed(
           [s EXCEPT !.pool_info.total_bond_share = @ - share], s.gen.amount - amount))
      /\ user_info' = [user_info EXCEPT ![u] = [user EXCEPT !.bond_share = @ - share]]
      /\ lp' = [lp EXCEPT ![u] = @ + amount]
      /\ UNCHANGED <<config, stakingVars, chainVars>>

\* What callback_claim_rewards sends.
Claimable(s, u) == reconcile_to_user_info(s.pool_info, user_info[u]).pending_rewards

\* ClaimRewards: claim, then callback_claim_rewards.
execute_claim_rewards(u) ==
  LET s    == Claimed(Bond)
      sent == Claimable(s, u)
  IN  /\ gen.exists /\ CanClaim(Bond)
      /\ u \in DOMAIN user_info
      /\ \A t \in Tokens : sent[t] > 0 =>
           t \in DOMAIN s.reward_info /\ s.reward_info[t].reconciled_amount >= sent[t]
      /\ BecomeBond([s EXCEPT
           !.reward_info = [t \in DOMAIN @ |->
              [s.reward_info[t] EXCEPT !.reconciled_amount = @ - sent[t]]],
           !.bal = [t \in Tokens |-> @[t] - sent[t]]])
      /\ user_info' = [user_info EXCEPT ![u] =
           [reconcile_to_user_info(s.pool_info, @) EXCEPT
              !.pending_rewards = [t \in Tokens |-> 0]]]
      /\ UNCHANGED <<config, stakingVars, chainVars, lp>>

\* Mutant of query_pending_token: fee and stakers' part are not taken off.
QueryForgetsTheSplit(u) ==
  LET net == [t \in Tokens |-> ClaimedByOthers(Bond)[t] + Owed(gen)[t]]
      s   == BoostGivenTwice(Bond, net)
  IN  IF ~ gen.exists THEN [t \in Tokens |-> 0]
      ELSE reconcile_to_user_info(s.pool_info, UserOf(s.pool_info, u)).pending_rewards

\* query_pending_token: what the farm asks before it claims.
query_pending_token(u) ==
  LET net == [t \in Tokens |-> ClaimedByOthers(Bond)[t] + Owed(gen)[t]]
      s   == reconcile_rewards(Bond, net)
  IN  IF ~ gen.exists THEN [t \in Tokens |-> 0]
      ELSE reconcile_to_user_info(s.pool_info, UserOf(s.pool_info, u)).pending_rewards

query_deposit(u) == calc_bond_amount(pool_info, gen.amount, UserOf(pool_info, u).bond_share)

-----------------------------------------------------------------------------
(* staking.rs: xASTRO of the stakers.                                      *)

Staking == [st |-> staking_state, astro |-> reward_info["astro"], bal |-> bal["astro"]]

HasAstroReward == "astro" \in DOMAIN reward_info

NewStaker(st) ==
  [bond_share |-> 0, reward_index |-> st.reward_index, pending_reward |-> 0,
   unstaking_amount |-> 0, unstaked_amount |-> 0, unstaking_period |-> st.unstaking_period]

StakerOf(st, u) == IF u \in DOMAIN staker_info THEN staker_info[u] ELSE NewStaker(st)

\* reconcile_staker_income: the income set aside is spread over the shares.
reconcile_staker_income(s) ==
  IF s.st.total_bond_share = 0 THEN s
  ELSE [s EXCEPT !.st.reward_index =
                   @ + (s.astro.staker_income * One) \div s.st.total_bond_share,
                 !.astro.staker_income = 0]

reconcile_to_staker_info(st, staker) ==
  [staker EXCEPT
     !.pending_reward = @ + ((st.reward_index - staker.reward_index) * staker.bond_share) \div One,
     !.reward_index = st.reward_index]

\* Mutant of update_staking: a request counts as unstaked in the period of the last relock.
UnstakedTooEarly(st, staker) ==
  IF st.unstaking_period >= staker.unstaking_period
  THEN [staker EXCEPT !.unstaked_amount = @ + staker.unstaking_amount,
                      !.unstaking_amount = 0, !.unstaking_period = st.unstaking_period]
  ELSE staker

\* StakerInfo::update_staking: what was requested before the last relock is unstaked.
update_staking(st, staker) ==
  IF st.unstaking_period > staker.unstaking_period
  THEN [staker EXCEPT !.unstaked_amount = @ + staker.unstaking_amount,
                      !.unstaking_amount = 0, !.unstaking_period = st.unstaking_period]
  ELSE staker

\* StakingState::calc_bond_share: xASTRO being unstaked has no shares.
calc_stake_share(st, locked, amount, ceiling) ==
  calc_bond_share(st, Sat(locked, st.total_unstaking_amount), amount, ceiling)

\* What the distributor paid for the weeks from start to before end.
calc_claim_amount(start, end) ==
  Total([p \in {q \in start..end : q < end /\ q <= lock.end} |-> week[p]])

\* The first week a claim pays.
ClaimStart == IF last_claim = None THEN 1 ELSE last_claim

\* reconcile_staking_claim_by_others: income that arrived since, but no more than the
\* distributor paid.
reconcile_staking_claim_by_others(s) ==
  LET net == Min2(Sat(s.bal, s.astro.reconciled_amount),
                  calc_claim_amount(s.st.next_claim_period, last_claim))
  IN  reconcile_staker_income(
        [s EXCEPT !.st.next_claim_period = last_claim, !.astro.staker_income = @ + net,
                  !.astro.reconciled_amount = @ + net])

\* The claim and callback_after_staking_claimed.
callback_after_staking_claimed(s) ==
  LET net == calc_claim_amount(ClaimStart, period)
  IN  reconcile_staker_income(
        [s EXCEPT !.st.next_claim_period = period, !.astro.staker_income = @ + net,
                  !.astro.reconciled_amount = @ + net, !.bal = @ + net])

\* Mutant of Unstake: what is being unstaked is locked again.
UnstakingForgotten(st) ==
  [st EXCEPT !.total_unstaked_amount = @ + st.total_unstaking_amount, !.unstaking_period = period]

\* At a relock the requested xASTRO becomes withdrawable.
Unstake(st) ==
  [st EXCEPT !.total_unstaked_amount = @ + st.total_unstaking_amount,
             !.total_unstaking_amount = 0, !.unstaking_period = period]

\* The state after execute_relock, from the state s that the transaction has reached.
Relocked(s) ==
  callback_after_staking_claimed(
    reconcile_staking_claim_by_others([s EXCEPT !.st = Unstake(@)]))

\* The distributor must know the proxy, the escrow releases ended locks only, and the
\* new lock needs an amount: once everything is requested, the lock stays as it is.
CanRelock ==
  /\ HasAstroReward /\ last_claim # None
  /\ lock.amount > 0 /\ lock.end <= period
  /\ staking_state.total_unstaking_amount < lock.amount

BecomeStaking(s) ==
  /\ staking_state' = s.st
  /\ reward_info' = [reward_info EXCEPT !["astro"] = s.astro]
  /\ bal' = [bal EXCEPT !["astro"] = s.bal]

\* execute_relock, by the controller.
execute_relock ==
  /\ CanRelock
  /\ BecomeStaking(Relocked(Staking))
  /\ lock' = [amount |-> lock.amount - staking_state.total_unstaking_amount, end |-> period + 1]
  /\ xastro' = xastro + staking_state.total_unstaking_amount
  /\ last_claim' = period
  /\ UNCHANGED <<config, bondVars, chainVars, staker_info, stake>>

\* execute_stake: shares are bought before the relock of an ended lock claims income.
execute_stake(u, amount) ==
  LET s      == reconcile_staker_income(Staking)
      staker == reconcile_to_staker_info(s.st, StakerOf(staking_state, u))
      share  == calc_stake_share(s.st, lock.amount, amount, FALSE)
      bought == [s EXCEPT !.st.total_bond_share = @ + share]
      ended  == lock.amount > 0 /\ lock.end <= period
      unlocked == IF ended THEN staking_state.total_unstaking_amount ELSE 0
  IN  /\ HasAstroReward
      /\ amount <= stake[u] /\ lock.amount + amount <= config.max_quota
      /\ ended => CanRelock
      /\ BecomeStaking(IF ended THEN Relocked(bought) ELSE bought)
      /\ staker_info' = Saved(staker_info, u, [staker EXCEPT !.bond_share = @ + share])
      /\ lock' = [amount |-> lock.amount - unlocked + amount,
                  end |-> IF lock.amount = 0 \/ ended THEN period + 1 ELSE lock.end]
      /\ xastro' = xastro + unlocked
      /\ last_claim' = IF ended THEN period ELSE last_claim
      /\ stake' = [stake EXCEPT ![u] = @ - amount]
      /\ UNCHANGED <<config, bondVars, chainVars>>

execute_request_unstake(u, amount) ==
  LET s      == reconcile_staker_income(Staking)
      staker == update_staking(s.st, reconcile_to_staker_info(s.st, staker_info[u]))
      share  == calc_stake_share(s.st, lock.amount, amount, TRUE)
  IN  /\ HasAstroReward /\ u \in DOMAIN staker_info
      /\ share <= staker.bond_share
      /\ BecomeStaking([s EXCEPT !.st.total_bond_share = @ - share,
                                 !.st.total_unstaking_amount = @ + amount])
      /\ staker_info' = [staker_info EXCEPT ![u] =
           [staker EXCEPT !.bond_share = @ - share, !.unstaking_amount = @ + amount]]
      /\ UNCHANGED <<config, bondVars, chainVars, lock, last_claim, xastro, stake>>

execute_withdraw_unstaked(u, amount) ==
  LET staker == update_staking(staking_state, staker_info[u])
  IN  /\ u \in DOMAIN staker_info
      /\ amount \in 1..staker.unstaked_amount
      /\ amount <= staking_state.total_unstaked_amount /\ amount <= xastro
      /\ staker_info' = [staker_info EXCEPT ![u] = [staker EXCEPT !.unstaked_amount = @ - amount]]
      /\ staking_state' = [staking_state EXCEPT !.total_unstaked_amount = @ - amount]
      /\ xastro' = xastro - amount
      /\ stake' = [stake EXCEPT ![u] = @ + amount]
      /\ UNCHANGED <<config, bondVars, chainVars, reward_info, bal, lock, last_claim>>

\* A staker's income so far.
Income(u) ==
  IF ~ HasAstroReward THEN 0
  ELSE reconcile_to_staker_info(reconcile_staker_income(Staking).st, staker_info[u]).pending_reward

execute_claim_income(u) ==
  LET s      == reconcile_staker_income(Staking)
      amount == Income(u)
  IN  /\ HasAstroReward /\ u \in DOMAIN staker_info
      /\ amount > 0 /\ amount <= s.astro.reconciled_amount /\ amount <= s.bal
      /\ BecomeStaking([s EXCEPT !.astro.reconciled_amount = @ - amount, !.bal = @ - amount])
      /\ staker_info' = [staker_info EXCEPT ![u] =
           [reconcile_to_staker_info(s.st, @) EXCEPT !.pending_reward = 0]]
      /\ UNCHANGED <<config, bondVars, chainVars, lock, last_claim, xastro, stake>>

-----------------------------------------------------------------------------
(* oper.rs.                                                                *)

\* execute_update_config and execute_update_parameters: the part the accounts depend on.
execute_update(new) ==
  /\ new # config /\ config' = new
  /\ UNCHANGED <<bondVars, stakingVars, chainVars, reward_info, bal>>

execute_send_income ==
  /\ HasAstroReward /\ reward_info["astro"].fee > 0
  /\ LET fee == reward_info["astro"].fee
     IN  /\ fee <= reward_info["astro"].reconciled_amount
         /\ reward_info' = [reward_info EXCEPT
              !["astro"].fee = 0, !["astro"].reconciled_amount = @ - fee]
         /\ bal' = [bal EXCEPT !["astro"] = @ - fee]
  /\ UNCHANGED <<config, bondVars, stakingVars, chainVars>>

-----------------------------------------------------------------------------
(* Third parties and the chain.                                            *)

\* A block: the generator accrues one unit of every reward per LP token.
NextBlock ==
  /\ height < MaxHeight /\ height' = height + 1
  /\ gen' = IF gen.amount = 0 THEN gen
            ELSE [gen EXCEPT !.acc = @ + 1, !.accp = [t \in Extras |-> @[t] + 1]]
  /\ UNCHANGED <<config, pool_info, user_info, lp, stakingVars, reward_info, bal, week, period, gifts>>

\* A week ends: the distributor owes its fees to a lock that had not ended.
NextWeek ==
  /\ period < MaxPeriod /\ period' = period + 1
  /\ week' = [week EXCEPT ![period] = IF period < lock.end THEN WeeklyFees ELSE 0]
  /\ UNCHANGED <<config, bondVars, stakingVars, reward_info, bal, height, gifts>>

Gift == gifts < MaxGifts /\ gifts' = gifts + 1

\* LP tokens deposited for the proxy: the generator pays the proxy what it owed.
DepositFor ==
  /\ Gift
  /\ BecomeBond(GenSet(Bond, gen.amount + 1))
  /\ UNCHANGED <<config, stakingVars, week, height, period, user_info, lp>>

\* xASTRO added to the proxy's lock.
LockFor ==
  /\ Gift
  /\ lock.amount > 0 /\ period < lock.end
  /\ lock' = [lock EXCEPT !.amount = @ + 1]
  /\ UNCHANGED <<config, bondVars, reward_info, bal, week, height, period,
                 staking_state, staker_info, last_claim, xastro, stake>>

\* ASTRO sent to the proxy.
Send ==
  /\ Gift
  /\ bal' = [bal EXCEPT !["astro"] = @ + 1]
  /\ UNCHANGED <<config, bondVars, stakingVars, reward_info, week, height, period>>

\* The distributor's claim for the proxy, by anyone.
ClaimMany ==
  /\ lock.amount > 0 /\ last_claim # period
  /\ bal' = [bal EXCEPT !["astro"] = @ + calc_claim_amount(ClaimStart, period)]
  /\ last_claim' = period
  /\ UNCHANGED <<config, bondVars, chainVars, reward_info, staking_state, staker_info,
                 lock, xastro, stake>>

-----------------------------------------------------------------------------
ProxyInit ==
  /\ config \in Configs
  /\ pool_info = NoPool
  /\ user_info = <<>> /\ reward_info = <<>> /\ staker_info = <<>>
  /\ staking_state = [total_bond_share |-> 0, reward_index |-> 0, next_claim_period |-> 1,
                      total_unstaking_amount |-> 0, total_unstaked_amount |-> 0,
                      unstaking_period |-> 1]
  /\ gen = [exists |-> FALSE, amount |-> 0, index |-> 0, acc |-> 0,
            debt |-> [t \in Extras |-> 0], accp |-> [t \in Extras |-> 0]]
  /\ lock = [amount |-> 0, end |-> 0]
  /\ week = [p \in 1..MaxPeriod |-> 0] /\ last_claim = None
  /\ bal = [t \in Tokens |-> 0] /\ xastro = 0
  /\ lp = [u \in Users |-> MaxLp] /\ stake = [u \in Users |-> MaxStake]
  /\ height = 1 /\ period = 1 /\ gifts = 0

ProxyNext ==
  \/ \E u \in Users, amount \in LpAmounts : execute_deposit(u, amount) \/ execute_withdraw(u, amount)
  \/ \E u \in Users : execute_claim_rewards(u) \/ execute_claim_income(u)
  \/ \E u \in Users, amount \in StakeAmounts :
       execute_stake(u, amount) \/ execute_request_unstake(u, amount)
         \/ execute_withdraw_unstaked(u, amount)
  \/ execute_relock \/ execute_send_income
  \/ \E new \in Configs : execute_update(new)
  \/ NextBlock \/ NextWeek
  \/ DepositFor \/ LockFor \/ Send \/ ClaimMany

ProxySpec == ProxyInit /\ [][ProxyNext]_vars

-----------------------------------------------------------------------------
(* Properties.                                                             *)

\* Every reward token the proxy accounts for is in its account, and what it accounts for
\* covers the fee, the income set aside and what every user and every staker can claim:
\* reconciliations of claims of others, splits and roundings in any order never promise
\* more than arrived, so no claim fails for want of tokens.
RewardsAreCovered ==
  \A t \in DOMAIN reward_info :
    LET r == reward_info[t]
        income == IF t = "astro" THEN Total([u \in DOMAIN staker_info |-> Income(u)]) ELSE 0
        unspread == IF t = "astro" /\ staking_state.total_bond_share > 0 THEN 0 ELSE r.staker_income
    IN  /\ r.reconciled_amount <= bal[t]
        /\ r.fee + unspread + income
             + Total([u \in DOMAIN user_info |-> Claimable(Bond, u)[t]]) <= r.reconciled_amount

\* The xASTRO of the stakers is there: requests add up to what the next relock takes out
\* of the lock, which holds as much, and what was taken out for them is in the account
\* until they withdraw it.
StakersAreCovered ==
  LET now(u) == update_staking(staking_state, staker_info[u])
  IN  /\ Total([u \in DOMAIN staker_info |-> now(u).unstaking_amount])
           = staking_state.total_unstaking_amount
      /\ Total([u \in DOMAIN staker_info |-> now(u).unstaked_amount])
           = staking_state.total_unstaked_amount
      /\ staking_state.total_unstaking_amount <= lock.amount
      /\ staking_state.total_unstaked_amount <= xastro

\* The farm spends what query_pending_token reported before it claimed: a claim in the
\* same transaction pays as much, except for one unit where claims of others are
\* reconciled first and rounded apart.
QueryIsPaid ==
  \A u \in DOMAIN user_info, t \in Tokens :
    pool_info.total_bond_share > 0 =>
      LET paid == Claimable(Claimed(Bond), u)[t]
          asked == query_pending_token(u)[t]
      IN  IF \A x \in Tokens : ClaimedByOthers(Bond)[x] = 0 THEN paid = asked
          ELSE asked <= paid + 1

\* The deposit in the generator is a pool shared by the users.
BondShares == [u \in Users |-> IF u \in DOMAIN user_info THEN user_info[u].bond_share ELSE 0]
Pool == INSTANCE SharePool WITH Holders <- Users, pool <- gen.amount, share <- BondShares

\* Deposits, withdrawals and claims, with the deposits of third parties, implement a
\* pool of shares: rounding never moves LP tokens from one user to another.
ImplementsPool == Pool!PoolSpec

=============================================================================
