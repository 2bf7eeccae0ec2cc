-------------------------------- MODULE Hub --------------------------------
(***************************************************************************)
(* The Stake Hub (contracts/hub): users bond uluna for ustake, queue ustake*)
(* to be unbonded in batches, and withdraw the uluna of a batch once it has*)
(* been undelegated, paid out by the chain and reconciled.                 *)
(*                                                                         *)
(* A transaction of a CosmWasm contract is atomic: the handler, the        *)
(* messages it sends (staking, bank, cw20) and the callbacks it sends to   *)
(* itself all succeed or are all rolled back.  An action is one whole      *)
(* transaction; an error or a panic anywhere in it is a false guard.  What *)
(* interleaves are the transactions of different senders, the blocks of the*)
(* chain, and what the staking module does between them.                   *)
(*                                                                         *)
(* The only privileged sender is the owner, so AddValidator,               *)
(* RemoveValidator, TuneDelegations, Rebalance and UpdateConfig have no    *)
(* sender parameter.                                                       *)
(***************************************************************************)
EXTENDS HubMath

CONSTANTS
  Users,               \* accounts that hold ustake and uluna
  HubAddr,             \* the contract's own account
  Validators,          \* validators of the chain
  ChainOrder,          \* the validators in the order the chain lists delegations
  InitialWhitelist,    \* msg.validators of instantiate, without duplicates
  InitialConfig,
  Configs,             \* the configurations UpdateConfig may set
  FeeCap,              \* get_reward_fee_cap(), a Decimal
  ChainUnbonding,      \* unbonding time of the staking module
  MaxGap,              \* longest time between two blocks
  BondAmounts,         \* amounts sent with Bond and Donate
  RewardAmounts,       \* amounts a validator's rewards grow by
  DelegationSlashes,   \* amounts slashed from a delegation
  UnbondingSlashes,    \* amounts slashed from an unbonding entry
  MinRedelegations,    \* min_redelegation of Rebalance
  GaugePoints,         \* points the amp and emp gauges may publish
  MaxBatches,          \* bound: the pending batch's id stays within it
  MaxStake             \* bound: uluna held by the hub in any form; supply of ustake

BatchIds == 1..MaxBatches
Holders == Users \cup {HubAddr}
NoGoal == [v \in {} |-> 0]
Uniform == "uniform"
Gauges == "gauges"

\* The configurations update_config and instantiate accept.
ValidConfig(c) ==
  /\ c.protocol_reward_fee <= FeeCap
  /\ c.epoch_period # 0
  /\ c.unbond_period # 0

ASSUME HubAssumption ==
  /\ IsFiniteSet(Users) /\ HubAddr \notin Users
  /\ IsFiniteSet(Validators)
  /\ ChainOrder \in Seq(Validators) /\ Range(ChainOrder) = Validators
  /\ InitialWhitelist \in Seq(Validators)
  /\ \A c \in Configs \cup {InitialConfig} :
       /\ c.protocol_reward_fee \in Nat
       /\ c.epoch_period \in Nat
       /\ c.unbond_period \in Nat
       /\ c.allow_donations \in BOOLEAN
       /\ c.strategy.kind \in {Uniform, Gauges}
  /\ ValidConfig(InitialConfig)
  /\ FeeCap \in 0..One
  /\ ChainUnbonding \in Nat \ {0}
  /\ MaxGap \in Nat \ {0}
  /\ BondAmounts \subseteq Nat \ {0}
  /\ RewardAmounts \subseteq Nat \ {0}
  /\ DelegationSlashes \subseteq Nat \ {0}
  /\ UnbondingSlashes \subseteq Nat \ {0}
  /\ MinRedelegations \subseteq Nat
  /\ GaugePoints \subseteq [Validators -> Nat]
  /\ MaxBatches \in Nat \ {0}
  /\ MaxStake \in Nat

VARIABLES
  \* the chain, as the hub sees it
  now,              \* block time
  bank,             \* the hub's uluna balance
  delegated,        \* uluna delegated to each validator
  rewards,          \* claimable staking rewards at each validator
  unbonding,        \* uluna the staking module still owes for each batch
  completion,       \* when it pays them
  \* the cw20 stake token
  balance,          \* ustake of each holder
  \* the hub's storage
  pending_batch,
  total_shares, uluna_unclaimed, reconciled, est_unbond_end_time, \* previous_batches
  unbond_requests,  \* shares of each user in each batch
  unlocked_coins,   \* uluna that can be reinvested
  validators,       \* the whitelist
  delegation_goal,  \* shares wanted at the last tune
  config,
  \* history
  slashed,          \* uluna slashed from unbonding entries so far
  deducted          \* uluna taken from batches by Reconcile so far

staking == <<delegated, rewards>>
previous_batches == <<total_shares, uluna_unclaimed, reconciled, est_unbond_end_time>>
queue == <<pending_batch, previous_batches, unbond_requests>>
admin == <<validators, delegation_goal, config>>
history == <<slashed, deducted>>
vars == <<now, bank, staking, unbonding, completion, balance, queue,
          unlocked_coins, admin, history>>

Supply == Total(balance)
Bonded == Total(delegated)

\* All the uluna the hub holds in any form; the model's amounts stay within MaxStake.
Holdings == bank + Bonded + Total(rewards) + Total(unbonding)

\* The batches that exist: a batch is removed with its last share.
Batches == {id \in BatchIds : total_shares[id] > 0}

Init ==
  /\ now = 0
  /\ bank = 0
  /\ delegated = [v \in Validators |-> 0]
  /\ rewards = [v \in Validators |-> 0]
  /\ unbonding = [id \in BatchIds |-> 0]
  /\ completion = [id \in BatchIds |-> 0]
  /\ balance = [h \in Holders |-> 0]
  /\ pending_batch = [id |-> 1, ustake_to_burn |-> 0,
                      est_unbond_start_time |-> InitialConfig.epoch_period]
  /\ total_shares = [id \in BatchIds |-> 0]
  /\ uluna_unclaimed = [id \in BatchIds |-> 0]
  /\ reconciled = [id \in BatchIds |-> FALSE]
  /\ est_unbond_end_time = [id \in BatchIds |-> 0]
  /\ unbond_requests = [id \in BatchIds |-> [u \in Users |-> 0]]
  /\ unlocked_coins = 0
  /\ validators = InitialWhitelist
  /\ delegation_goal = NoGoal
  /\ config = InitialConfig
  /\ slashed = 0
  /\ deducted = 0

-----------------------------------------------------------------------------
(***************************************************************************)
(* The staking module (external)                                           *)
(***************************************************************************)

\* Every message that changes a delegation first pays out its rewards: what the
\* hub receives for the validators vs.
Payout(vs) == Total([v \in Validators |-> IF v \in vs THEN rewards[v] ELSE 0])
ClearRewards(vs) == rewards' = [v \in Validators |-> IF v \in vs THEN 0 ELSE rewards[v]]

\* Mutant: a transaction without the callback.
CheckReceivedCoinForgotten(vs) ==
  /\ bank' = bank + Payout(vs)
  /\ UNCHANGED unlocked_coins

\* The rewards of vs reach the account; the callback CheckReceivedCoin adds the
\* difference of the balances, taken before the messages and after, to the unlocked
\* coins.
CheckReceivedCoin(vs) ==
  /\ bank' = bank + Payout(vs)
  /\ unlocked_coins' = unlocked_coins + Payout(vs)

\* A staking message must carry a positive amount.
ValidMsgs(msgs) == \A m \in msgs : m.amount \in Nat \ {0}

\* The amount of the one message in msgs, if there is one.
AmountOf(msgs) == IF msgs = {} THEN 0 ELSE (CHOOSE m \in msgs : TRUE).amount

\* query_all_delegations: the non-zero delegations, in the chain's order.
AllDelegations == SelectSeq(ChainOrder, LAMBDA v : delegated[v] > 0)

\* The end of the current block pays the matured unbonding entries, after the
\* block's transactions; then the next block begins.  The clock stops when no
\* deadline lies ahead: the code compares times only with each other.
Deadline ==
  \/ now < pending_batch.est_unbond_start_time
  \/ \E id \in BatchIds : unbonding[id] > 0
  \/ \E id \in Batches : now <= est_unbond_end_time[id]

NextBlock ==
  /\ Deadline
  /\ LET matured == {id \in BatchIds : completion[id] <= now}
     IN  /\ bank' = bank + Total([id \in matured |-> unbonding[id]])
         /\ unbonding' = [id \in BatchIds |-> IF id \in matured THEN 0 ELSE unbonding[id]]
  /\ \E gap \in 1..MaxGap : now' = now + gap
  /\ UNCHANGED <<staking, completion, balance, queue, unlocked_coins, admin, history>>

AccrueRewards(v, amount) ==
  /\ delegated[v] > 0
  /\ Holdings + amount <= MaxStake
  /\ rewards' = [rewards EXCEPT ![v] = @ + amount]
  /\ UNCHANGED <<now, bank, delegated, unbonding, completion, balance, queue,
                 unlocked_coins, admin, history>>

\* A slash takes a fraction, so some of the delegation is left.
SlashDelegation(v, amount) ==
  /\ amount < delegated[v]
  /\ delegated' = [delegated EXCEPT ![v] = @ - amount]
  /\ UNCHANGED <<now, bank, rewards, unbonding, completion, balance, queue,
                 unlocked_coins, admin, history>>

SlashUnbonding(id, amount) ==
  /\ amount < unbonding[id]
  /\ unbonding' = [unbonding EXCEPT ![id] = @ - amount]
  /\ slashed' = slashed + amount
  /\ UNCHANGED <<now, bank, staking, completion, balance, queue, unlocked_coins,
                 admin, deducted>>

-----------------------------------------------------------------------------
(***************************************************************************)
(* Bonding and harvesting                                                  *)
(***************************************************************************)

\* find_new_delegation: the validators it considers.
NewDelegationList ==
  IF config.strategy.kind = Uniform THEN validators
  ELSE IF AllDelegations # <<>> THEN AllDelegations
  ELSE SelectSeq(validators, LAMBDA v : v = validators[1])

\* The first of them with the least delegation.
FindNewDelegation(list) ==
  CHOOSE v \in Range(list) :
    /\ \A w \in Range(list) : delegated[v] <= delegated[w]
    /\ \A w \in Before(list, v) : delegated[w] > delegated[v]

\* cw20_base 1.0.1 refuses to mint a zero amount.
Bond(receiver, uluna_to_bond) ==
  LET list == NewDelegationList
      v    == FindNewDelegation(list)
      considered == Total([w \in Validators |-> IF w \in Range(list) THEN delegated[w] ELSE 0])
      ustake_to_mint == ComputeMintAmount(Supply, uluna_to_bond, considered)
  IN  /\ Holdings + uluna_to_bond <= MaxStake
      /\ list # <<>>
      /\ ustake_to_mint > 0 /\ Supply + ustake_to_mint <= MaxStake
      /\ delegated' = [delegated EXCEPT ![v] = @ + uluna_to_bond]
      /\ balance' = [balance EXCEPT ![receiver] = @ + ustake_to_mint]
      /\ CheckReceivedCoin({v})
      /\ ClearRewards({v})
      /\ UNCHANGED <<now, unbonding, completion, queue, admin, history>>

Donate(uluna_to_bond) ==
  LET list == NewDelegationList
      v    == FindNewDelegation(list)
  IN  /\ config.allow_donations
      /\ Holdings + uluna_to_bond <= MaxStake
      /\ list # <<>>
      /\ delegated' = [delegated EXCEPT ![v] = @ + uluna_to_bond]
      /\ CheckReceivedCoin({v})
      /\ ClearRewards({v})
      /\ UNCHANGED <<now, unbonding, completion, balance, queue, admin, history>>

\* The withdrawals, CheckReceivedCoin and Reinvest, whose delegation and fee the
\* hub's account must cover.  Reinvest delegates without a
\* CheckReceivedCoin of its own: rewards its delegation pays out stay untracked.
Harvest ==
  LET earning == {w \in Validators : delegated[w] > 0}
      uluna_available == unlocked_coins + Payout(earning)
      protocol_fee_amount == MulUint(config.protocol_reward_fee, uluna_available)
      uluna_to_bond == SatSub(uluna_available, protocol_fee_amount)
      list == NewDelegationList
      v    == FindNewDelegation(list)
  IN  /\ uluna_available > 0
      /\ uluna_available <= bank + Payout(earning)
      /\ list # <<>> /\ uluna_to_bond > 0
      /\ delegated' = [delegated EXCEPT ![v] = @ + uluna_to_bond]
      /\ bank' = bank - unlocked_coins + Payout({v} \ earning)
      /\ unlocked_coins' = 0
      /\ ClearRewards(earning \cup {v})
      /\ UNCHANGED <<now, unbonding, completion, balance, queue, admin, history>>

-----------------------------------------------------------------------------
(***************************************************************************)
(* Unbonding                                                               *)
(***************************************************************************)

\* A cw20 Transfer of ustake, to a user or to the hub's own account.
Transfer(from, to, amount) ==
  /\ from # to
  /\ amount <= balance[from]
  /\ balance' = [balance EXCEPT ![from] = @ - amount, ![to] = @ + amount]
  /\ UNCHANGED <<now, bank, staking, unbonding, completion, queue, unlocked_coins,
                 admin, history>>

\* submit_batch, run when ustake_to_burn is queued and the hub's ustake is part of
\* bal.  cw20_base refuses to burn zero or more than is held; without a goal the
\* even split divides by the number of whitelisted validators.
Submit(bal, ustake_to_burn) ==
  LET id    == pending_batch.id
      uluna_to_unbond == ComputeUnbondAmount(Total(bal), ustake_to_burn, Bonded)
      undelegations   == ComputeUndelegations(delegation_goal, uluna_to_unbond, delegated,
                                              AllDelegations, validators)
      touched == {m.validator : m \in undelegations}
      taken(v) == AmountOf({m \in undelegations : m.validator = v})
  IN  /\ id < MaxBatches
      /\ now >= pending_batch.est_unbond_start_time
      /\ ustake_to_burn > 0 /\ ustake_to_burn <= bal[HubAddr]
      /\ delegation_goal # NoGoal \/ validators # <<>>
      /\ TotalOf(undelegations) = uluna_to_unbond
      /\ total_shares' = [total_shares EXCEPT ![id] = ustake_to_burn]
      /\ uluna_unclaimed' = [uluna_unclaimed EXCEPT ![id] = uluna_to_unbond]
      /\ reconciled' = [reconciled EXCEPT ![id] = FALSE]
      /\ est_unbond_end_time' = [est_unbond_end_time EXCEPT ![id] = now + config.unbond_period]
      /\ pending_batch' = [id |-> id + 1, ustake_to_burn |-> 0,
                           est_unbond_start_time |-> now + config.epoch_period]
      /\ ValidMsgs(undelegations)
      /\ \A v \in Validators : taken(v) <= delegated[v]
      /\ delegated' = [v \in Validators |-> delegated[v] - taken(v)]
      /\ unbonding' = [unbonding EXCEPT ![id] = uluna_to_unbond]
      /\ completion' = [completion EXCEPT ![id] = now + ChainUnbonding]
      /\ balance' = [bal EXCEPT ![HubAddr] = @ - ustake_to_burn]
      /\ CheckReceivedCoin(touched)
      /\ ClearRewards(touched)
      /\ UNCHANGED <<now, admin, history>>

SubmitBatch ==
  /\ Submit(balance, pending_batch.ustake_to_burn)
  /\ UNCHANGED unbond_requests

\* Mutant: a second request replaces the first.
AddRequestReplaced(id, receiver, shares) ==
  unbond_requests' = [unbond_requests EXCEPT ![id][receiver] = shares]

\* The receiver's request grows by the shares queued.
AddRequest(id, receiver, shares) ==
  unbond_requests' = [unbond_requests EXCEPT ![id][receiver] = @ + shares]

\* A cw20 Send of ustake to the hub.  A batch that is due is submitted in the same
\* transaction.
QueueUnbond(sender, receiver, ustake_to_burn) ==
  LET id  == pending_batch.id
      bal == [balance EXCEPT ![sender] = @ - ustake_to_burn, ![HubAddr] = @ + ustake_to_burn]
  IN  /\ ustake_to_burn > 0 /\ ustake_to_burn <= balance[sender]
      /\ AddRequest(id, receiver, ustake_to_burn)
      /\ \/ /\ now < pending_batch.est_unbond_start_time
            /\ pending_batch' = [pending_batch EXCEPT !.ustake_to_burn = @ + ustake_to_burn]
            /\ balance' = bal
            /\ UNCHANGED <<now, bank, staking, unbonding, completion, previous_batches,
                           unlocked_coins, admin, history>>
         \/ Submit(bal, pending_batch.ustake_to_burn + ustake_to_burn)

\* Mutant: batches are reconciled before their unbonding has ended.
DueTooEarly == {id \in Batches : ~reconciled[id]}

\* The batches Reconcile looks at.
Due == {id \in Batches : ~reconciled[id] /\ now > est_unbond_end_time[id]}

ReconcileShortfall ==
  SatSub(Total([id \in Due |-> uluna_unclaimed[id]]) + unlocked_coins, bank)

Reconcile ==
  LET expected == [id \in Due |-> uluna_unclaimed[id]]
      left     == IF ReconcileShortfall = 0
                    THEN expected
                    ELSE ReconcileBatches(expected, ReconcileShortfall)
  IN  /\ Total(expected) > 0
      /\ ReconcileShortfall > 0 => ReconcileDefined(expected, ReconcileShortfall)
      /\ reconciled' = [id \in BatchIds |-> id \in Due \/ reconciled[id]]
      /\ uluna_unclaimed' = [id \in BatchIds |->
                               IF id \in Due THEN left[id] ELSE uluna_unclaimed[id]]
      /\ deducted' = deducted + SatSub(Total(expected), Total(left))
      /\ UNCHANGED <<now, bank, staking, unbonding, completion, balance, pending_batch,
                     total_shares, est_unbond_end_time, unbond_requests, unlocked_coins,
                     admin, slashed>>

\* Reconcile with nothing to receive returns at once.
ReconcileNothing ==
  /\ Total([id \in Due |-> uluna_unclaimed[id]]) = 0
  /\ UNCHANGED vars

\* Mutant: any submitted batch may be withdrawn from.
WithdrawableAtOnce(user) == {id \in Batches : unbond_requests[id][user] > 0}

\* The user's requests that WithdrawUnbonded refunds.
Withdrawable(user) ==
  {id \in Batches : /\ unbond_requests[id][user] > 0
                    /\ reconciled[id]
                    /\ est_unbond_end_time[id] < now}

\* Mutant: refunds are rounded up.
RefundRoundedUp(user) ==
  [id \in Withdrawable(user) |->
     CeilDiv(uluna_unclaimed[id] * unbond_requests[id][user], total_shares[id])]

Refund(user) ==
  [id \in Withdrawable(user) |->
     (uluna_unclaimed[id] * unbond_requests[id][user]) \div total_shares[id]]

WithdrawUnbonded(user) ==
  LET ids == Withdrawable(user)
      refund == Refund(user)
      gone == {id \in ids : total_shares[id] = unbond_requests[id][user]}
  IN  /\ Total(refund) > 0
      /\ Total(refund) <= bank
      /\ bank' = bank - Total(refund)
      /\ total_shares' = [id \in BatchIds |->
           IF id \in ids THEN total_shares[id] - unbond_requests[id][user] ELSE total_shares[id]]
      /\ uluna_unclaimed' = [id \in BatchIds |->
           IF id \in ids THEN uluna_unclaimed[id] - refund[id] ELSE uluna_unclaimed[id]]
      /\ reconciled' = [id \in BatchIds |-> reconciled[id] /\ id \notin gone]
      /\ est_unbond_end_time' = [id \in BatchIds |->
           IF id \in gone THEN 0 ELSE est_unbond_end_time[id]]
      /\ unbond_requests' = [id \in BatchIds |->
           [u \in Users |-> IF id \in ids /\ u = user THEN 0 ELSE unbond_requests[id][u]]]
      /\ UNCHANGED <<now, staking, unbonding, completion, balance, pending_batch,
                     unlocked_coins, admin, history>>

-----------------------------------------------------------------------------
(***************************************************************************)
(* Delegation strategy and management                                      *)
(***************************************************************************)

\* The redelegations `moves`.  The rewards of both validators are paid out, and
\* CheckReceivedCoin follows.
Redelegate(moves) ==
  LET move(v, w) == AmountOf({m \in moves : m.src = v /\ m.dst = w})
      out(v)  == Total([w \in Validators |-> move(v, w)])
      in(v)   == Total([w \in Validators |-> move(w, v)])
      touched == {m.src : m \in moves} \cup {m.dst : m \in moves}
  IN  /\ ValidMsgs(moves)
      /\ \A v \in Validators : out(v) <= delegated[v]
      /\ delegated' = [v \in Validators |-> delegated[v] - out(v) + in(v)]
      /\ CheckReceivedCoin(touched)
      /\ ClearRewards(touched)
      /\ UNCHANGED <<now, unbonding, completion, balance, queue, history>>

Rebalance(min_redelegation) ==
  LET moves == ComputeRedelegationsForRebalancing(delegation_goal, delegated,
                                                  AllDelegations, validators)
  IN  /\ delegation_goal # NoGoal \/ validators # <<>>
      /\ Redelegate({m \in moves : m.amount >= min_redelegation})
      /\ UNCHANGED admin

AddValidator(v) ==
  /\ v \notin Range(validators)
  /\ validators' = Append(validators, v)
  /\ UNCHANGED <<now, bank, staking, unbonding, completion, balance, queue, unlocked_coins,
                 delegation_goal, config, history>>

\* Only the uniform strategy moves the removed validator's delegation.
RemoveValidator(v) ==
  LET left == SelectSeq(validators, LAMBDA w : w # v)
      moves == ComputeRedelegationsForRemoval(delegation_goal, v, delegated, left, left)
  IN  /\ v \in Range(validators)
      /\ validators' = left
      /\ \/ /\ config.strategy.kind = Uniform
            /\ delegation_goal # NoGoal \/ left # <<>>
            /\ Redelegate(moves)
         \/ /\ config.strategy.kind = Gauges
            /\ UNCHANGED <<now, bank, staking, unbonding, completion, balance, queue,
                           unlocked_coins, history>>
      /\ UNCHANGED <<delegation_goal, config>>

\* The uniform strategy stores no goal.  The gauges' points are those the gauge
\* contracts hold at the time.
TuneDelegations ==
  /\ \/ /\ config.strategy.kind = Uniform
        /\ validators # <<>>
        /\ delegation_goal' = NoGoal
     \/ /\ config.strategy.kind = Gauges
        /\ \E vamp, emp \in GaugePoints :
             /\ Total(vamp) > 0
             /\ config.strategy.emp_gauges => Total(emp) > 0
             /\ delegation_goal' = WantedShares(config.strategy, validators, vamp, emp)
  /\ UNCHANGED <<now, bank, staking, unbonding, completion, balance, queue, unlocked_coins,
                 validators, config, history>>

UpdateConfig(c) ==
  /\ ValidConfig(c)
  /\ config' = c
  /\ UNCHANGED <<now, bank, staking, unbonding, completion, balance, queue, unlocked_coins,
                 validators, delegation_goal, history>>

-----------------------------------------------------------------------------
Next ==
  \/ NextBlock
  \/ \E v \in Validators, n \in RewardAmounts : AccrueRewards(v, n)
  \/ \E v \in Validators, n \in DelegationSlashes : SlashDelegation(v, n)
  \/ \E id \in BatchIds, n \in UnbondingSlashes : SlashUnbonding(id, n)
  \/ \E u \in Users, n \in BondAmounts : Bond(u, n)
  \/ \E n \in BondAmounts : Donate(n)
  \/ Harvest
  \/ \E u \in Users, h \in Holders : \E n \in 1..balance[u] : Transfer(u, h, n)
  \/ \E u, r \in Users : \E n \in 1..balance[u] : QueueUnbond(u, r, n)
  \/ SubmitBatch
  \/ Reconcile
  \/ ReconcileNothing
  \/ \E u \in Users : WithdrawUnbonded(u)
  \/ TuneDelegations
  \/ \E n \in MinRedelegations : Rebalance(n)
  \/ \E v \in Validators : AddValidator(v)
  \/ \E v \in Validators : RemoveValidator(v)
  \/ \E c \in Configs : UpdateConfig(c)

Spec == Init /\ [][Next]_vars

-----------------------------------------------------------------------------
(***************************************************************************)
(* What the hub promises                                                   *)
(***************************************************************************)

\* Every variable keeps its type.
TypeOK ==
  /\ now \in Nat /\ bank \in Nat
  /\ delegated \in [Validators -> Nat] /\ rewards \in [Validators -> Nat]
  /\ unbonding \in [BatchIds -> Nat] /\ completion \in [BatchIds -> Nat]
  /\ balance \in [Holders -> Nat]
  /\ pending_batch \in [id : BatchIds, ustake_to_burn : Nat, est_unbond_start_time : Nat]
  /\ total_shares \in [BatchIds -> Nat] /\ uluna_unclaimed \in [BatchIds -> Nat]
  /\ reconciled \in [BatchIds -> BOOLEAN] /\ est_unbond_end_time \in [BatchIds -> Nat]
  /\ unbond_requests \in [BatchIds -> [Users -> Nat]]
  /\ unlocked_coins \in Nat
  /\ config \in Configs \cup {InitialConfig}
  /\ slashed \in Nat /\ deducted \in Nat

\* A batch's shares are the shares of its requests, from the first QueueUnbond to
\* the last WithdrawUnbonded, and the ustake the hub is to burn is in its account:
\* nobody can withdraw from a batch more than its shares, and no share is lost.
ShareAccounting ==
  /\ pending_batch.ustake_to_burn = Total(unbond_requests[pending_batch.id])
  /\ pending_batch.ustake_to_burn <= balance[HubAddr]
  /\ \A id \in BatchIds :
       id # pending_batch.id => total_shares[id] = Total(unbond_requests[id])

\* Every uluna in the hub's account or owed to it by the staking module is either
\* an unlocked coin, part of a batch, or was written off by Reconcile; what
\* unbonding entries lost to slashing is the only thing missing.  A callback that
\* misses a payout, counts one twice, or a refund that is not deducted breaks it.
Conservation ==
  bank + Total(unbonding) + slashed = unlocked_coins + Total(uluna_unclaimed) + deducted

Owed(ids) == Total([id \in ids |-> uluna_unclaimed[id]])
Payable == unlocked_coins + Owed({id \in Batches : reconciled[id]}) <= bank

\* Reconcile writes off no more than slashing took from the unbonding entries; and
\* without slashing, the hub's account holds the unlocked coins and all that the
\* reconciled batches still owe: a withdrawal never fails and never takes the
\* coins of another batch or coins to be reinvested.
ReconciledPayable == deducted <= slashed /\ (slashed = 0 => Payable)

\* The queue cannot jam: a due batch with requests can be submitted, whatever the
\* delegations, the goal and the whitelist, as long as the whitelist is not empty.
DueBatchCanBeSubmitted ==
  ( /\ pending_batch.ustake_to_burn > 0
    /\ pending_batch.id < MaxBatches
    /\ now >= pending_batch.est_unbond_start_time
    /\ validators # <<>> ) => ENABLED SubmitBatch

\* In the uniform strategy, no delegation outside the whitelist.
NoOrphans ==
  config.strategy.kind = Uniform => \A v \in Validators \ Range(validators) : delegated[v] = 0

\* The exchange rate Bonded / Supply falls only by slashing: no rounding of a bond,
\* a submitted batch, a harvest or a redelegation is at the holders' expense.
RateNeverFalls ==
  [][ Bonded' * Supply < Bonded * Supply' =>
        \/ ~NoOrphans
        \/ \E v \in Validators, n \in DelegationSlashes : SlashDelegation(v, n) ]_vars

\* A withdrawal leaves the other users of a batch at least the uluna per share they
\* had before.
OthersKeepTheirPart ==
  \A id \in Batches :
    uluna_unclaimed'[id] * total_shares[id] < uluna_unclaimed[id] * total_shares'[id]
      => UNCHANGED total_shares
FairWithdrawals == [][OthersKeepTheirPart]_vars

(***************************************************************************)
(* Progress                                                                *)
(***************************************************************************)

\* Blocks are produced; SubmitBatch and Reconcile are open to anyone and are called
\* by the operator's bots; users come back for what they can withdraw.
Fairness ==
  /\ WF_vars(NextBlock)
  /\ WF_vars(SubmitBatch)
  /\ WF_vars(Reconcile)
  /\ \A u \in Users : WF_vars(WithdrawUnbonded(u))

FairSpec == Spec /\ Fairness

\* Every queued request is paid out in the end, unless slashing has reduced what a
\* share is worth (a refund that rounds to zero is refused).
RequestsArePaid ==
  \A id \in BatchIds \ {MaxBatches}, u \in Users :
    (unbond_requests[id][u] > 0) ~> (unbond_requests[id][u] = 0)

=============================================================================
