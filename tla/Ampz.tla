-------------------------------- MODULE Ampz --------------------------------
(***************************************************************************)
(* Ampz (contracts/ampz): users let it claim their staking and generator   *)
(* rewards, or take what is in their wallets over a threshold, on a        *)
(* schedule, and deposit it in the hub ("amplifier") or in a farm.  Anyone *)
(* may execute what is due, for a fee.                                     *)
(*                                                                         *)
(* An execution is one transaction through ampz, the user's account, the   *)
(* proxy and the farm: the claim, and the callbacks AuthzDeposit, Swap and *)
(* FinishExecution.  The flag is_executing lives no longer than that.      *)
(*                                                                         *)
(* External: the staking module and the generator, which pay rewards; the  *)
(* hub, which takes uluna for the user.                                    *)
(***************************************************************************)
EXTENDS Farm

CONSTANTS
  Operators,           \* accounts that execute for others, the controller among them
  BPS,                 \* basis points of one
  MaxFee,              \* the largest fee, in basis points
  FeeConfigs,          \* fee and operator_bps in basis points, and the receiver
  AstroCoins,          \* astroport.coins
  Executions,          \* source, destination and schedule of the executions that users add
  Rewards,             \* what users earn at a time
  MaxRewards           \* bound

ASSUME AmpzAssumption ==
  /\ "controller" \in Operators /\ Operators \cap Users = {}
  /\ BPS \in Nat \ {0} /\ MaxFee \in Nat /\ Rewards \subseteq Nat
  /\ \A f \in FeeConfigs : f.fee \in 0..MaxFee /\ f.operator \in 0..MaxFee
  /\ AstroCoins \subseteq Assets \ {LP, AmpLP}
  /\ \A e \in Executions :
       /\ e.source \in {"claim", "astro_rewards", "wallet"}
       /\ e.asset \in Assets \ {LP, AmpLP} /\ e.over \in Nat /\ e.max \in Nat
       /\ e.destination \in {"amplifier", "farm"} /\ e.interval \in Nat

VARIABLES
  executions,          \* State.executions: id to execution
  last_execution,      \* State.last_execution
  execution_user_source,  \* State.execution_user_source: <<user, key>> to id
  id,                  \* State.id, the next one
  fee, farms,          \* State.fee; whether the farm is allowed
  rewards,             \* external: rewards of the users, by source
  rewarded             \* number of rewards

ampzVars == <<executions, last_execution, execution_user_source, id, fee, farms>>
vars == <<chain, proxyVars, farmVars, ampzVars, rewards, rewarded>>

-----------------------------------------------------------------------------
(* crud.rs                                                                 *)

\* Source::try_get_uniq_key; a user may have many wallet executions.
try_get_uniq_key(e) == IF e.source = "wallet" THEN {} ELSE {<<e.user, e.source>>}

Without(f, keys) == Restrict(f, DOMAIN f \ keys)

\* The map with the same value saved under each of the keys.
Saved(f, keys, value) ==
  [k \in DOMAIN f \cup keys |-> IF k \in keys THEN value ELSE f[k]]

\* Mutant of overwritten: the old execution stays.
OverwrittenStays(keys) == {}

\* The execution that an overwrite removes, with its key.
overwritten(keys) == {execution_user_source[k] : k \in keys \cap DOMAIN execution_user_source}

\* The first execution is at the start, or now.
add_execution(u, e, overwrite) ==
  LET new  == [user |-> u, source |-> e.source, asset |-> e.asset, over |-> e.over, max |-> e.max,
               destination |-> e.destination, interval |-> e.interval]
      keys == try_get_uniq_key(new)
      start == IF e.start = 0 THEN now ELSE e.start
  IN  /\ calls < MaxCalls /\ calls' = calls + 1
      /\ e.destination = "farm" => farms
      /\ overwrite \/ keys \cap DOMAIN execution_user_source = {}
      /\ executions' = Saved(Without(executions, overwritten(keys)), {id}, new)
      /\ execution_user_source' = Saved(execution_user_source, keys, id)
      /\ last_execution' = Saved(last_execution, {id}, Less(start, e.interval))
      /\ id' = id + 1
      /\ UNCHANGED <<chain, proxy, gifts, farmVars, fee, farms, rewards, rewarded>>

\* remove_executions with the ids given, all of which must be the user's, or with none: all.
remove_executions(u, ids) ==
  /\ calls < MaxCalls /\ calls' = calls + 1
  /\ ids # {} /\ ids \subseteq DOMAIN executions
  /\ \A i \in ids : executions[i].user = u
  /\ executions' = Without(executions, ids)
  /\ last_execution' = Without(last_execution, ids)
  /\ execution_user_source' = Without(execution_user_source,
                                      UNION {try_get_uniq_key(executions[i]) : i \in ids})
  /\ UNCHANGED <<chain, proxy, gifts, farmVars, id, fee, farms, rewards, rewarded>>

-----------------------------------------------------------------------------
(* callback.rs                                                             *)

\* Mutant of query_balance_diff: the user's own balance is not taken off.
BalanceWithoutStart(c, u, start, max) ==
  LET amounts == [a \in DOMAIN start |-> IF max = 0 THEN Held(c, u, a) ELSE Min({Held(c, u, a), max})]
  IN  Restrict(amounts, {a \in DOMAIN start : amounts[a] > 0})

\* What the user has of each asset over the start, up to the most if there is one.
query_balance_diff(c, u, start, max) ==
  LET over(a) == Held(c, u, a) - start[a]
      amounts == [a \in DOMAIN start |-> IF max = 0 THEN over(a) ELSE Min({over(a), max})]
  IN  Restrict(amounts, {a \in DOMAIN start : amounts[a] > 0})

\* AuthzDeposit: in the user's name, ampz sends itself what has been added.
authz_deposit(c, u, start, max) ==
  LET balances == query_balance_diff(c, u, start, max)
  IN  IF DOMAIN balances = {} THEN {} ELSE deposit_assets(c, u, "ampz", balances)

\* Swap: all that ampz has of the assets, into uluna.
swap_callback(c, asset_infos) ==
  LET swapped == {a \in asset_infos \ {Luna} : Held(c, "ampz", a) > 0}
  IN  IF swapped = {} THEN {c}
      ELSE multi_swap(c, "ampz", Luna, [a \in swapped |-> Held(c, "ampz", a)], "ampz")

\* The fees on an amount.
operator_bps(operator, u) == IF operator = u THEN 0 ELSE fee.operator
operator_fee(n, operator, u) == (n * operator_bps(operator, u)) \div BPS
protocol_fee(n) == (n * fee.fee) \div BPS

\* Mutant of fees_paid: a fee that the operator is not paid is paid to nobody.
OperatorFeeLost(n, operator, u) ==
  IF operator \in {fee.receiver, "controller"} THEN protocol_fee(n)
  ELSE protocol_fee(n) + operator_fee(n, operator, u)

\* What leaves ampz of an amount: the protocol fee to the receiver and the operator fee to
\* the operator, or both to the receiver when he or the controller is the operator.
fees_paid(n, operator, u) == protocol_fee(n) + operator_fee(n, operator, u)

\* pay_fees pays and returns what is left of the balances, without those of zero; without
\* fees it returns all of them.
left_after_fees(balances, operator, u) ==
  LET amount(a) == balances[a] - protocol_fee(balances[a]) - operator_fee(balances[a], operator, u)
  IN  IF operator_bps(operator, u) + fee.fee = 0 THEN balances
      ELSE [a \in {x \in DOMAIN balances : balances[x] > 0} |-> amount(a)]

pay_fees(c, balances, operator, u) ==
  LET fees(a) == fees_paid(balances[a], operator, u)
  IN  TakeAll(c, "ampz", [a \in {x \in DOMAIN balances : fees(x) > 0} |-> fees(a)])

\* FinishExecution: all that ampz has of the assets is deposited for the user.
finish_execution(c, u, destination, asset_infos, operator) ==
  LET infos    == IF destination = "amplifier" THEN {Luna} ELSE asset_infos
      balances == [a \in infos |-> Held(c, "ampz", a)]
      left     == left_after_fees(balances, operator, u)
      bond_msg(d) == Take(d, "ampz", Luna, left[Luna])
      deposit_in_farm(d) == bond_assets(d, "ampz", left, FALSE, u)
  IN  IF destination = "farm" THEN Then(pay_fees(c, balances, operator, u), deposit_in_farm)
      ELSE IF balances[Luna] = 0 THEN {}
      ELSE Then(pay_fees(c, balances, operator, u), bond_msg)

-----------------------------------------------------------------------------
(* execute.rs                                                              *)

\* External: the user is paid his rewards of the source.
Claimed(c, u, source) ==
  [c EXCEPT !.bal[u] = [a \in Assets |-> IF a \in DOMAIN rewards[u][source]
                          THEN @[a] + rewards[u][source][a] ELSE @[a]]]

\* Claim and AstroRewards take what the claim adds to the assets; Wallet takes what is over
\* the threshold.
executed(c, e, sender) ==
  LET infos == CASE e.source = "claim" -> {Luna}
                 [] e.source = "astro_rewards" -> AstroCoins
                 [] e.source = "wallet" -> {e.asset}
      start == [a \in infos |-> IF e.source = "wallet" THEN e.over ELSE Held(c, e.user, a)]
      claimed == IF e.source = "wallet" THEN c ELSE Claimed(c, e.user, e.source)
      requires_swap == e.destination = "amplifier" /\ infos # {Luna}
      deposited == authz_deposit(claimed, e.user, start, e.max)
      swapped == IF requires_swap THEN Then(deposited, LAMBDA d : swap_callback(d, infos))
                 ELSE deposited
  IN  Then(swapped, LAMBDA d : finish_execution(d, e.user, e.destination,
                                 IF requires_swap THEN {Luna} ELSE infos, sender))

\* Others wait for the schedule; the user need not.
execute_id(i, sender) ==
  LET e == executions[i]
  IN  /\ sender = e.user \/ last_execution[i] + e.interval <= now
      /\ e.source = "wallet" => Held(chain, e.user, e.asset) > e.over
      /\ chain' \in executed(chain, e, sender)
      /\ last_execution' = [last_execution EXCEPT ![i] = now]
      /\ rewards' = IF e.source = "wallet" THEN rewards
                    ELSE [rewards EXCEPT ![e.user][e.source] = [a \in DOMAIN @ |-> 0]]
      /\ UNCHANGED <<proxyVars, farmVars, executions, execution_user_source, id, fee, farms,
                     rewarded>>

ampz_update_config ==
  /\ calls < MaxCalls /\ calls' = calls + 1
  /\ \/ fee' \in FeeConfigs \ {fee} /\ farms' = farms
     \/ farms' = ~farms /\ fee' = fee
  /\ UNCHANGED <<chain, proxy, gifts, farmVars, executions, last_execution,
                 execution_user_source, id, rewards, rewarded>>

-----------------------------------------------------------------------------
AmpzInit ==
  /\ FarmInit
  /\ executions = <<>> /\ last_execution = <<>> /\ execution_user_source = <<>> /\ id = 1
  /\ fee \in FeeConfigs /\ farms = TRUE
  /\ rewards = [u \in Users |-> [claim |-> [a \in {Luna} |-> 0],
                                 astro_rewards |-> [a \in AstroCoins |-> 0]]]
  /\ rewarded = 0

\* External: a user earns staking or generator rewards.
Reward(u, source, a, n) ==
  /\ rewarded < MaxRewards /\ rewarded' = rewarded + 1
  /\ a \in DOMAIN rewards[u][source]
  /\ rewards' = [rewards EXCEPT ![u][source][a] = @ + n]
  /\ UNCHANGED <<chain, proxyVars, farmVars, ampzVars>>

ProxyOrFarm ==
  /\ \/ \E u \in Users, a \in PairAssets, n \in Gifts : UNCHANGED farmVars /\ Gift(u, a, n)
     \/ \E u \in Users, a \in {Luna, Astro}, n \in Swaps : UNCHANGED farmVars /\ MultiSwap(u, a, n, Luna)
     \/ UNCHANGED farmVars /\ proxy_update_config
     \/ \E u, v \in Users, n \in Bonds, no_swap \in BOOLEAN : BondAssets(u, Astro, n, no_swap, v)
     \/ \E u \in Users, n \in Bonds : Bond(u, n, u)
     \/ \E u \in Users, n \in Shares : Unbond(u, n, u)
     \/ \E u, v \in Users, n \in Shares : TransferShares(u, v, n)
     \/ Compound
     \/ \E k \in FarmConfigs : farm_update_config(k)
     \/ \E a \in {Astro, Luna}, n \in Earnings : Earn(a, n)
     \/ Tick
  /\ UNCHANGED <<ampzVars, rewards, rewarded>>

Next ==
  \/ ProxyOrFarm
  \/ \E u \in Users, e \in Executions, overwrite \in BOOLEAN : add_execution(u, e, overwrite)
  \/ \E u \in Users, ids \in SUBSET DOMAIN executions : remove_executions(u, ids)
  \/ \E i \in DOMAIN executions, s \in Users \cup Operators : execute_id(i, s)
  \/ ampz_update_config
  \/ \E u \in Users, source \in {"claim", "astro_rewards"}, a \in Assets, n \in Rewards :
       Reward(u, source, a, n)

Spec == AmpzInit /\ [][Next]_vars

-----------------------------------------------------------------------------
(* Properties                                                              *)

\* execution_user_source names every claim and every ASTRO execution and nothing else, so
\* that a user has at most one of each and can always replace or remove it; and every
\* execution has the time of its last execution, without which it could not be executed.
SourcesAreUnique ==
  /\ \A k \in DOMAIN execution_user_source :
       LET i == execution_user_source[k]
       IN  i \in DOMAIN executions /\ try_get_uniq_key(executions[i]) = {k}
  /\ \A i \in DOMAIN executions :
       /\ \A k \in try_get_uniq_key(executions[i]) :
            k \in DOMAIN execution_user_source /\ execution_user_source[k] = i
       /\ i \in DOMAIN last_execution /\ i < id

\* Between transactions ampz has nothing, though its callbacks deposit whole balances: what
\* one user's execution left would go to the next user.  The proxy has what was given to it
\* and nothing of what was compounded.
NothingIsLeftBehind ==
  /\ \A a \in Assets : Held(chain, "ampz", a) = 0
  /\ \A a \in PairAssets : Held(chain, "proxy", a) = gifts[a]
  /\ Held(chain, "proxy", Astro) = 0

\* An execution in a user's name leaves him all he had of his own, or of a wallet's asset the
\* threshold, less no more than the most; and it touches no other user's tokens.
OwnFundsStay(i) ==
  LET e == executions[i]
  IN  /\ \A a \in Assets \ {AmpLP} :
           IF e.source = "wallet" /\ a = e.asset
           THEN /\ Held(chain', e.user, a) >= e.over
                /\ e.max > 0 => Held(chain', e.user, a) >= Held(chain, e.user, a) - e.max
           ELSE Held(chain', e.user, a) >= Held(chain, e.user, a)
      /\ \A u \in Users \ {e.user} : chain'.bal[u] = chain.bal[u]

ExecutionsTakeOnlyTheirSource ==
  [][\A i \in DOMAIN executions :
       OwnFundsStay(i) \/ ~ \E s \in Users \cup Operators : execute_id(i, s)]_vars

=============================================================================
