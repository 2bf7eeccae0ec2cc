-------------------------------- MODULE Vault --------------------------------
(***************************************************************************)
(* The arbitrage vault (contracts/arb-vault): holders of its LP token own  *)
(* uluna that a bot may borrow for the length of a transaction, to buy     *)
(* liquid staking tokens below their worth.  The vault unbonds the tokens  *)
(* and waits; holders leave by a request that takes unbond_time_s, or at   *)
(* once for a fee.                                                         *)
(*                                                                         *)
(* A loan is a transaction of three parts: execute_arbitrage, the messages *)
(* of the borrower, and the callback execute_assert_result.  Between the   *)
(* first and the last the borrower may call anyone, the vault too; when    *)
(* any message fails, everything since execute_arbitrage is undone.        *)
(*                                                                         *)
(* External: the liquid staking hubs.  An entry of lsd has the exchange    *)
(* rate of the token, the tokens of the vault in the hub's pending batch,  *)
(* its records in submitted batches and those of reconciled batches; an    *)
(* adapter of the vault reads them and gives the orders.  Neither the bank *)
(* nor a cw20 token sends an amount of zero.                               *)
(*                                                                         *)
(* exchange_history, which only a query reads, is left out.                *)
(***************************************************************************)
EXTENDS Integers, Sequences, FiniteSets, Functions, SequencesExt, Sums

CONSTANTS
  Users,
  Lsds,                \* liquid staking tokens
  One,                 \* a Decimal of one
  Configs,             \* values of the vault's configuration
  Limit,               \* requests that one withdrawal looks at
  Deposits, Parts,     \* what users deposit; the LP tokens they give back
  Loans, Bought, Backs,  \* what the bot borrows; the tokens and the uluna it gives back
  Rates,               \* exchange rates of the tokens
  Roundings,           \* by how much a hub pays more than an adapter reported
  MaxDeposits, MaxId, MaxTime, MaxLoans   \* bounds

ASSUME VaultAssumption ==
  /\ IsFiniteSet(Users) /\ IsFiniteSet(Lsds)
  /\ {One, Limit} \subseteq Nat \ {0} /\ Backs \cup Roundings \subseteq Nat
  /\ UNION {Deposits, Parts, Loans, Bought, Rates} \subseteq Nat \ {0}
  /\ {MaxDeposits, MaxId, MaxTime, MaxLoans} \subseteq Nat
  /\ \A c \in Configs :
       /\ c.lsds \subseteq Lsds /\ c.unbond_time_s \in Nat \ {0}
       /\ 5 * c.protocol_performance_fee <= One /\ 20 * c.protocol_withdraw_fee <= One
       /\ 10 * c.immediate_withdraw_fee <= One

VARIABLES
  config,              \* State.config and State.fee_config
  unbond_history,      \* State.unbond_history: <<user, id>> to request
  unbond_id,           \* State.unbond_id
  balance_locked,      \* State.balance_locked
  checkpoint,          \* State.balance_checkpoint with the loan and what a failure restores
  utoken,              \* external: uluna in the vault's account
  xtoken,              \* external: liquid staking tokens in the vault's account
  lp,                  \* external: LP tokens of the users
  lsd,                 \* external: the hubs
  now,                 \* external: block time
  deposits, loans      \* number of deposits and of loans

accountVars == <<unbond_history, unbond_id, balance_locked, lp>>
fundVars == <<utoken, xtoken, lsd>>
countVars == <<deposits, loans>>
vars == <<config, accountVars, fundVars, checkpoint, now, countVars>>

NotNested == [result_token |-> "none"]
assert_not_nested == checkpoint = NotNested

supply == Total(lp)
Sat(a, b) == IF a >= b THEN a - b ELSE 0
DecMul(a, d) == (a * d) \div One

-----------------------------------------------------------------------------
(* lsds: the adapters.                                                     *)

\* A record is worth its tokens at its batch's rate, or while the batch is pending at the
\* token's rate, rounded down.
Worth(records) == FoldSeq(LAMBDA r, sum : sum + DecMul(r.amount, r.rate), 0, records)

query_unbonding(l) == DecMul(lsd[l].pending, lsd[l].rate) + Worth(lsd[l].unbonding)
query_withdrawable(l) == Worth(lsd[l].reconciled)

\* LsdGroup::get_total_assets, for the uluna in the account.
get_total_assets(account) ==
  LET tvl == account + Total([l \in config.lsds |-> query_unbonding(l)])
                     + Total([l \in config.lsds |-> query_withdrawable(l)])
  IN  [tvl_utoken |-> tvl,
       vault_total |-> Sat(tvl, balance_locked),
       vault_available |-> account,
       vault_takeable |-> Sat(account, balance_locked)]

assets == get_total_assets(utoken)

\* What is left of uluna, tokens and hub when the adapter unbonds amount of its tokens.
unbond(l, amount) == [lsd EXCEPT ![l].pending = @ + amount]

-----------------------------------------------------------------------------
(* Deposits and requests.                                                  *)

get_share_from_deposit(total_utoken, amount) ==
  IF supply = 0 THEN amount ELSE (amount * supply) \div total_utoken

\* Mutant of execute_provide_liquidity: borrowers may deposit.
ProvideNested(u, amount) ==
  LET total == assets.vault_total
      share == get_share_from_deposit(total, amount)
  IN  /\ supply > 0 => total > 0
      /\ share > 0 /\ deposits < MaxDeposits
      /\ utoken' = utoken + amount
      /\ lp' = [lp EXCEPT ![u] = @ + share]
      /\ deposits' = deposits + 1
      /\ UNCHANGED <<config, unbond_history, unbond_id, balance_locked, checkpoint,
                     xtoken, lsd, now, loans>>

\* The deposit is in the account when the handler runs and is taken off the total.
execute_provide_liquidity(u, amount) ==
  LET total == assets.vault_total
      share == get_share_from_deposit(total, amount)
  IN  /\ assert_not_nested
      /\ supply > 0 => total > 0
      /\ share > 0 /\ deposits < MaxDeposits
      /\ utoken' = utoken + amount
      /\ lp' = [lp EXCEPT ![u] = @ + share]
      /\ deposits' = deposits + 1
      /\ UNCHANGED <<config, unbond_history, unbond_id, balance_locked, checkpoint,
                     xtoken, lsd, now, loans>>

\* UnbondHistory::pool_fee_factor.
pool_fee_factor(h) ==
  Sat(One, ((now - h.start_time) * One) \div (h.release_time - h.start_time))

\* Mutant of create_withdraw_msgs: what is taken from the locked part is not taken off it.
LockedKept(amount, factor, take_from_locked) ==
  LET protocol_fee == DecMul(amount, config.protocol_withdraw_fee)
      pool_fee     == DecMul(amount, DecMul(factor, config.immediate_withdraw_fee))
  IN  /\ Sat(utoken, balance_locked) >= amount
      /\ amount - protocol_fee - pool_fee > 0
      /\ balance_locked' = Sat(balance_locked, take_from_locked)
      /\ utoken' = utoken - (amount - pool_fee)

\* Mutant of create_withdraw_msgs: a withdrawal at once also releases the locked part.
LockedReleased(amount, factor, take_from_locked) ==
  LET protocol_fee == DecMul(amount, config.protocol_withdraw_fee)
      pool_fee     == DecMul(amount, DecMul(factor, config.immediate_withdraw_fee))
      locked_after == Sat(balance_locked, amount)
  IN  /\ Sat(utoken, locked_after) >= amount
      /\ amount - protocol_fee - pool_fee > 0
      /\ balance_locked' = locked_after
      /\ utoken' = utoken - (amount - pool_fee)

\* Pays amount less the fees and releases take_from_locked.  The pool's fee stays.
create_withdraw_msgs(amount, factor, take_from_locked) ==
  LET protocol_fee == DecMul(amount, config.protocol_withdraw_fee)
      pool_fee     == DecMul(amount, DecMul(factor, config.immediate_withdraw_fee))
      locked_after == Sat(balance_locked, take_from_locked)
  IN  /\ Sat(utoken, locked_after) >= amount
      /\ amount - protocol_fee - pool_fee > 0
      /\ balance_locked' = locked_after
      /\ utoken' = utoken - (amount - pool_fee)

\* add_to_unbond_history.
add_to_unbond_history(u, amount) ==
  /\ unbond_id < MaxId /\ unbond_id' = unbond_id + 1
  /\ balance_locked' = balance_locked + amount
  /\ LET request == [start_time |-> now, release_time |-> now + config.unbond_time_s,
                     amount_asset |-> amount]
     IN  unbond_history' =
           [k \in DOMAIN unbond_history \cup {<<u, unbond_id>>} |->
              IF k = <<u, unbond_id>> THEN request ELSE unbond_history[k]]
  /\ UNCHANGED utoken

\* Unbond, sent with LP tokens: they are burned in either case.
execute_unbond_user(u, lp_amount, immediate) ==
  LET amount == (assets.vault_total * lp_amount) \div supply
  IN  /\ assert_not_nested
      /\ lp_amount <= lp[u]
      /\ \/ /\ immediate
            /\ create_withdraw_msgs(amount, One, 0)
            /\ UNCHANGED <<unbond_history, unbond_id>>
         \/ ~ immediate /\ add_to_unbond_history(u, amount)
      /\ lp' = [lp EXCEPT ![u] = @ - lp_amount]
      /\ UNCHANGED <<config, checkpoint, xtoken, lsd, now, countVars>>

\* WithdrawImmediate: the fee falls with the time waited.
execute_withdraw_unbonding_immediate(u, id) ==
  LET h == unbond_history[<<u, id>>]
  IN  /\ assert_not_nested
      /\ <<u, id>> \in DOMAIN unbond_history
      /\ create_withdraw_msgs(h.amount_asset, pool_fee_factor(h), h.amount_asset)
      /\ unbond_history' = Restrict(unbond_history, DOMAIN unbond_history \ {<<u, id>>})
      /\ UNCHANGED <<config, unbond_id, lp, checkpoint, xtoken, lsd, now, countVars>>

\* The first requests of a user.
RequestsOf(u) ==
  LET ids == {k \in DOMAIN unbond_history : k[1] = u}
  IN  {k \in ids : Cardinality({j \in ids : j[2] < k[2]}) < Limit}

Released(k) == unbond_history[k].release_time <= now

\* WithdrawUnbonded pays the released requests of those it looks at, and removes all of
\* those it looks at.
execute_withdraw_unbonded(u) ==
  LET amount == Total([k \in {k \in RequestsOf(u) : Released(k)} |->
                         unbond_history[k].amount_asset])
  IN  /\ assert_not_nested
      /\ create_withdraw_msgs(amount, 0, amount)
      /\ unbond_history' = Restrict(unbond_history, DOMAIN unbond_history \ RequestsOf(u))
      /\ UNCHANGED <<config, unbond_id, lp, checkpoint, xtoken, lsd, now, countVars>>

-----------------------------------------------------------------------------
(* Loans.                                                                  *)

\* Balances::calc_takeable_for_profit: a better profit may use more of the vault.
calc_takeable_for_profit(wanted) ==
  Sat(DecMul(assets.vault_total, config.utilization_method[wanted]) + assets.vault_takeable,
      assets.vault_total)

\* The least profit is half a percent.
assert_min_profit(wanted) == 200 * wanted >= One

execute_arbitrage(l, wanted, amount) ==
  /\ loans < MaxLoans
  /\ l \in config.lsds
  /\ assert_not_nested
  /\ assert_min_profit(wanted)
  /\ amount <= calc_takeable_for_profit(wanted)
  /\ checkpoint' = [vault_available |-> utoken, tvl_utoken |-> assets.tvl_utoken,
                    result_token |-> l, wanted_profit |-> wanted,
                    undo |-> [utoken |-> utoken, xtoken |-> xtoken, lsd |-> lsd],
                    vault_total |-> assets.vault_total]
  /\ utoken' = utoken - amount
  /\ UNCHANGED <<config, accountVars, xtoken, lsd, now, countVars>>

\* The gain on the uluna used must be nine tenths of what was wanted.
AssertProfit(profit, used, wanted) ==
  /\ profit >= 0 /\ used > 0
  /\ (profit * One) \div used >= DecMul(wanted, (9 * One) \div 10)

\* The borrower gives back uluna and the tokens it bought, and execute_assert_result: the
\* fee is paid in uluna when what is not locked allows it, otherwise in tokens; the rest
\* of the tokens is unbonded.
execute_assert_result(back, bought) ==
  LET l     == checkpoint.result_token
      new   == get_total_assets(utoken + back)
      xbal  == xtoken[l] + bought
      rate  == lsd[l].rate
      profit == new.tvl_utoken + DecMul(xbal, rate) - checkpoint.tvl_utoken
      fee   == DecMul(profit, config.protocol_performance_fee)
      xfee  == DecMul(fee, (One * One) \div rate)
      inUtoken == new.vault_takeable >= fee
      rest  == IF inUtoken THEN xbal ELSE xbal - xfee
  IN  /\ checkpoint # NotNested
      /\ supply > 0
      /\ AssertProfit(profit, checkpoint.vault_available - new.vault_available,
                      checkpoint.wanted_profit)
      /\ new.vault_available >= balance_locked
      /\ rest > 0 /\ (IF inUtoken THEN fee ELSE xfee) > 0
      /\ utoken' = utoken + back - IF inUtoken THEN fee ELSE 0
      /\ xtoken' = [xtoken EXCEPT ![l] = 0]
      /\ lsd' = unbond(l, rest)
      /\ checkpoint' = NotNested /\ loans' = loans + 1
      /\ UNCHANGED <<config, accountVars, now, deposits>>

\* The transaction fails.
Undo ==
  /\ checkpoint # NotNested
  /\ utoken' = checkpoint.undo.utoken /\ xtoken' = checkpoint.undo.xtoken
  /\ lsd' = checkpoint.undo.lsd
  /\ checkpoint' = NotNested
  /\ UNCHANGED <<config, accountVars, now, countVars>>

\* WithdrawLiquidity: every adapter with something withdrawable fetches it.  The hubs
\* round what they pay once, the adapters every record.
execute_withdraw_liquidity(extra) ==
  LET paying == {l \in config.lsds : query_withdrawable(l) > 0}
  IN  /\ assert_not_nested
      /\ paying # {}
      /\ utoken' = utoken + extra + Total([l \in paying |-> query_withdrawable(l)])
      /\ lsd' = [l \in Lsds |-> IF l \in paying THEN [lsd[l] EXCEPT !.reconciled = <<>>] ELSE lsd[l]]
      /\ UNCHANGED <<config, accountVars, checkpoint, xtoken, now, countVars>>

\* UpdateConfig, by the owner.
execute_update_config(new) ==
  /\ new # config /\ config' = new
  /\ UNCHANGED <<accountVars, fundVars, checkpoint, now, countVars>>

-----------------------------------------------------------------------------
(* The chain.                                                              *)

Wait ==
  /\ assert_not_nested
  /\ now < MaxTime /\ now' = now + 1
  /\ UNCHANGED <<config, accountVars, fundVars, checkpoint, countVars>>

\* A hub bonds its rewards: anyone may trigger it, the borrower too.
Harvest(l) ==
  /\ \E r \in Rates : r > lsd[l].rate /\ lsd' = [lsd EXCEPT ![l].rate = r]
  /\ UNCHANGED <<config, accountVars, utoken, xtoken, checkpoint, now, countVars>>

\* The pending batch of a hub is submitted.
Submit(l) ==
  /\ assert_not_nested /\ lsd[l].pending > 0
  /\ lsd' = [lsd EXCEPT ![l] =
       [@ EXCEPT !.pending = 0,
                 !.unbonding = Append(@, [amount |-> lsd[l].pending, rate |-> lsd[l].rate])]]
  /\ UNCHANGED <<config, accountVars, utoken, xtoken, checkpoint, now, countVars>>

\* The oldest submitted batch is reconciled.
Reconcile(l) ==
  /\ assert_not_nested /\ lsd[l].unbonding # <<>>
  /\ lsd' = [lsd EXCEPT ![l] =
       [@ EXCEPT !.unbonding = Tail(@), !.reconciled = Append(@, Head(lsd[l].unbonding))]]
  /\ UNCHANGED <<config, accountVars, utoken, xtoken, checkpoint, now, countVars>>

\* Someone sends tokens to the vault.
SendTokens(l) ==
  /\ xtoken[l] = 0 /\ xtoken' = [xtoken EXCEPT ![l] = 1]
  /\ UNCHANGED <<config, accountVars, utoken, lsd, checkpoint, now, countVars>>

-----------------------------------------------------------------------------
Init ==
  /\ config \in Configs
  /\ unbond_history = <<>> /\ unbond_id = 0 /\ balance_locked = 0
  /\ checkpoint = NotNested
  /\ utoken = 0 /\ xtoken = [l \in Lsds |-> 0]
  /\ lp = [u \in Users |-> 0]
  /\ lsd = [l \in Lsds |-> [rate |-> One, pending |-> 0, unbonding |-> <<>>, reconciled |-> <<>>]]
  /\ now = 0 /\ deposits = 0 /\ loans = 0

Next ==
  \/ \E u \in Users :
       \/ \E amount \in Deposits : execute_provide_liquidity(u, amount)
       \/ \E part \in Parts, immediate \in BOOLEAN : execute_unbond_user(u, part, immediate)
       \/ \E id \in 0..MaxId : execute_withdraw_unbonding_immediate(u, id)
       \/ execute_withdraw_unbonded(u)
  \/ \E l \in Lsds, wanted \in DOMAIN config.utilization_method, amount \in Loans :
       execute_arbitrage(l, wanted, amount)
  \/ \E back \in Backs, bought \in Bought : execute_assert_result(back, bought)
  \/ Undo
  \/ \E extra \in Roundings : execute_withdraw_liquidity(extra)
  \/ \E new \in Configs : execute_update_config(new)
  \/ Wait
  \/ \E l \in Lsds : Harvest(l) \/ Submit(l) \/ Reconcile(l) \/ SendTokens(l)

Spec == Init /\ [][Next]_vars

\* Blocks follow each other, the hubs submit and reconcile their batches, transactions
\* end, and anyone may have the vault collect what it is owed.  Users who wait try again.
Fairness ==
  /\ WF_vars(Wait) /\ WF_vars(Undo)
  /\ WF_vars(\E extra \in Roundings : execute_withdraw_liquidity(extra))
  /\ \A l \in Lsds : WF_vars(Submit(l)) /\ WF_vars(Reconcile(l))
  /\ \A u \in Users : SF_vars(execute_withdraw_unbonded(u))

FairSpec == Spec /\ Fairness

-----------------------------------------------------------------------------
(* Properties.                                                             *)

\* The value the holders share.  A loan in progress does not count: it is undone or
\* asserted.
Value == IF assert_not_nested THEN assets.vault_total ELSE checkpoint.vault_total

Pool == INSTANCE SharePool WITH Holders <- Users, pool <- Value, share <- lp

\* Deposits, requests, withdrawals with their fees and loans with theirs implement a pool
\* of shares: whatever borrowers buy, give back and call, and in whatever order funds come
\* back from the hubs, no holder loses to another, to a borrower or to a rounding.
VaultIsAPool == Pool!PoolSpec

\* Every request is locked, and what is locked is there: in the account or on its way from
\* the hubs.
RequestsAreBacked ==
  /\ Total([k \in DOMAIN unbond_history |-> unbond_history[k].amount_asset]) <= balance_locked
  /\ assert_not_nested => balance_locked <= assets.tvl_utoken

\* A user whose requests are released and who asks again is paid in the end: loans leave
\* what is locked alone, and what the vault waits for comes back.
Due(u) == \E k \in RequestsOf(u) : Released(k) /\ unbond_history[k].amount_asset > 1
RequestsArePaid == \A u \in Users : Due(u) ~> ~ Due(u)

\* What is locked belongs to requests.
LockedIsRequested ==
  balance_locked = Total([k \in DOMAIN unbond_history |-> unbond_history[k].amount_asset])

=============================================================================
