----------------------------- MODULE AmpGauges -----------------------------
(***************************************************************************)
(* The amp gauges (contracts/amp-governance/amp_gauges) on top of the      *)
(* voting escrow: holders of vAMP divide their voting power among the      *)
(* validators, and TuneVamp publishes the validators with the most power,  *)
(* which the hub turns into its delegation goal.  A vote counts from the   *)
(* next period on.  The escrow reports every change of a lock with         *)
(* UpdateVote in the same transaction, so a transaction of the escrow is   *)
(* LockChange together with update_vote, and fails when update_vote fails. *)
(*                                                                         *)
(* The list of validators the hub answers with is external and may be      *)
(* another one at every query.  Points of a validator that are older than  *)
(* the latest one up to the current period are not read by any transaction *)
(* and are dropped.                                                        *)
(***************************************************************************)
EXTENDS VotingEscrow
LOCAL INSTANCE SequencesExt

CONSTANTS
  Validators,          \* numbers, in the order of their addresses
  MAX_BPS,             \* BasicPoints::MAX
  Bps,                 \* basic points users give to a validator
  validators_limit     \* config.validators_limit

ASSUME GaugeAssumption ==
  /\ IsFiniteSet(Validators) /\ Validators \subseteq Nat
  /\ MAX_BPS \in Nat \ {0} /\ Bps \subseteq 0..MAX_BPS
  /\ validators_limit \in Nat

VARIABLES
  user_info,           \* USER_INFO: the users that voted, and their votes
  gauge,               \* per validator VALIDATOR_VOTES, _SLOPE_CHANGES and _FIXED_VAMP
  validators,          \* VALIDATORS: the validators that are tuned
  vamp_points,         \* TUNE_INFO: the outcome of the last TuneVamp
  spoiled              \* history: what made the gauges and the votes disagree

gaugeVars == <<user_info, gauge, validators, vamp_points, spoiled>>
vars == <<escrowVars, gaugeVars>>

Spoilers == {"expired vote", "partial removal"}

-----------------------------------------------------------------------------
\* BasicPoints * Uint128
BpsMul(bps, amount) == (amount * bps) \div MAX_BPS

\* The key of the latest entry of a map up to a period, if there is one.
KeysUpTo(map, period) == {k \in DOMAIN map : k <= period}
LastKey(map, period) ==
  CHOOSE k \in KeysUpTo(map, period) : \A l \in KeysUpTo(map, period) : l <= k

fetch_last_validator_fixed_vamp_value(g, period) ==
  IF KeysUpTo(g.fixed, period) = {} THEN 0 ELSE g.fixed[LastKey(g.fixed, period)]

\* get_validator_info_mut: the validator's power and slope at a period.
get_validator_info(g, period) ==
  IF KeysUpTo(g.votes, period) = {} THEN [start |-> period, power |-> 0, slope |-> 0]
  ELSE Recalculate(g.votes[LastKey(g.votes, period)], g.changes, period)

\* The points get_validator_info_mut saves on the way to a period without a point.
IntermediatePeriods(g, period) ==
  IF period \in DOMAIN g.votes \/ KeysUpTo(g.votes, period) = {} THEN {}
  ELSE {p \in DOMAIN g.changes : LastKey(g.votes, period) < p /\ p <= period}

\* update_validator_info: the points with the one of the period set to info.
update_validator_info(g, period, info) ==
  LET saved == IntermediatePeriods(g, period)
  IN  [g EXCEPT !.votes =
         [p \in DOMAIN @ \cup saved \cup {period} |->
            IF p = period THEN info
            ELSE IF p \in saved THEN get_validator_info(g, p)
            ELSE @[p]]]

add_fixed_vamp(g, period, vamps) ==
  [g EXCEPT !.fixed = Put(@, period, fetch_last_validator_fixed_vamp_value(g, period) + vamps)]

\* Mutant of remove_fixed_vamp: the fixed part of the old vote stays.
RemoveFixedForgotten(g, period, vamps) == g

remove_fixed_vamp(g, period, vamps) ==
  [g EXCEPT !.fixed = Put(@, period, SatSub(fetch_last_validator_fixed_vamp_value(g, period), vamps))]

\* Mutant of cancel_user_changes: the scheduled change of the old lock end stays.
CancelKeepsChange(g, period, vp, slope, lock_end) ==
  LET info == get_validator_info(g, period)
  IN  update_validator_info(g, period,
        [info EXCEPT !.power = SatSub(@, vp), !.slope = SatSub(@, slope)])

cancel_user_changes(g, period, vp, slope, lock_end) ==
  LET rest == SatSub(At(g.changes, lock_end + 1), slope)
      h    == [g EXCEPT !.changes = IF rest = 0 THEN Without(@, lock_end + 1)
                                    ELSE Put(@, lock_end + 1, rest)]
      info == get_validator_info(h, period)
  IN  update_validator_info(h, period,
        [info EXCEPT !.power = SatSub(@, vp), !.slope = SatSub(@, slope)])

vote_for_validator(g, period, vp, slope, lock_end) ==
  LET h    == [g EXCEPT !.changes = Put(@, lock_end + 1, At(@, lock_end + 1) + slope)]
      info == get_validator_info(h, period)
  IN  update_validator_info(h, period,
        [info EXCEPT !.power = @ + vp, !.slope = @ + slope])

\* Entries no transaction reads any more.
Settle(g) ==
  LET current(map) == {k \in DOMAIN map : \A l \in KeysUpTo(map, Period) : l <= k}
  IN  [fixed   |-> Restrict(g.fixed, current(g.fixed)),
       votes   |-> Restrict(g.votes, current(g.votes)),
       changes |-> Restrict(g.changes, {k \in DOMAIN g.changes :
                                          \A l \in KeysUpTo(g.votes, Period) : l < k})]

-----------------------------------------------------------------------------
(* A user's votes.                                                         *)

\* The voting power of recorded votes in the current period.
CurrentPower(info) ==
  SatSub(info.voting_power, info.slope * (Period - info.vote_period))

\* The validator's gauge with the votes of info applied from the next period on.
ApplyVotes(g, v, info) ==
  LET bps == info.votes[v]
  IN  vote_for_validator(add_fixed_vamp(g, Period + 1, BpsMul(bps, info.fixed_amount)),
                         Period + 1, BpsMul(bps, info.voting_power),
                         BpsMul(bps, info.slope), info.lock_end)

\* Mutant of RemoveVotes: the power at the time of the vote is taken off.
RemoveOldPower(g, v, info) ==
  LET bps == info.votes[v]
      h   == remove_fixed_vamp(g, Period + 1, BpsMul(bps, info.fixed_amount))
  IN  IF info.lock_end > Period
      THEN cancel_user_changes(h, Period + 1, BpsMul(bps, info.voting_power),
                               BpsMul(bps, info.slope), info.lock_end)
      ELSE h

\* The validator's gauge with the votes of info removed from the next period on.
RemoveVotes(g, v, info) ==
  LET bps == info.votes[v]
      h   == remove_fixed_vamp(g, Period + 1, BpsMul(bps, info.fixed_amount))
  IN  IF info.lock_end > Period
      THEN cancel_user_changes(h, Period + 1, BpsMul(bps, CurrentPower(info)),
                               BpsMul(bps, info.slope), info.lock_end)
      ELSE h

\* remove_votes_of_user finds what it has to take off: the fixed vAMP, and for a lock
\* that has not ended the slope change that VALIDATOR_SLOPE_CHANGES.load requires.
HasFixedVotes(v, info) ==
  fetch_last_validator_fixed_vamp_value(gauge[v], Period + 1)
    >= BpsMul(info.votes[v], info.fixed_amount)

CanRemoveVotes(v, info) ==
  /\ HasFixedVotes(v, info)
  /\ info.lock_end > Period => info.lock_end + 1 \in DOMAIN gauge[v].changes

NoVotes == [voting_power |-> 0, slope |-> 0, fixed_amount |-> 0, lock_end |-> 0,
            vote_period |-> 0, votes |-> [v \in {} |-> 0]]

RecordedVotes(user) == IF user \in DOMAIN user_info THEN user_info[user] ELSE NoVotes

\* remove_votes_of_user and, if the votes of info count, apply_votest_of_user.
ReplaceVotes(user, info, counts) ==
  LET old     == RecordedVotes(user)
      touched == DOMAIN old.votes \cup IF counts THEN DOMAIN info.votes ELSE {}
      without(v) == IF v \in DOMAIN old.votes THEN RemoveVotes(gauge[v], v, old) ELSE gauge[v]
      with(v) == IF counts /\ v \in DOMAIN info.votes THEN ApplyVotes(without(v), v, info)
                                                      ELSE without(v)
  IN  /\ \A v \in DOMAIN old.votes : CanRemoveVotes(v, old)
      /\ gauge' = [v \in Validators |-> IF v \in touched THEN Settle(with(v)) ELSE gauge[v]]
      /\ validators' = validators \cup touched
      /\ user_info' = Put(user_info, user, info)
      /\ spoiled' = spoiled \cup
           {c \in {"expired vote"} : counts /\ info.lock_end <= Period /\ info.slope > 0}
      /\ UNCHANGED vamp_points

InfoOf(lock, votes) ==
  [voting_power |-> lock.voting_power, slope |-> lock.slope, fixed_amount |-> lock.fixed_amount,
   lock_end |-> lock.lock_end, vote_period |-> Period, votes |-> votes]

\* The ways to divide voting power among validators: at most all of it.
Ballots ==
  {votes \in UNION {[vs -> Bps] : vs \in SUBSET Validators} : Total(votes) <= MAX_BPS}

handle_vote(user, votes) ==
  LET lock == get_user_lock_info(point[user], locked[user].end)
  IN  /\ locked[user].end > 0
      /\ lock.voting_power + lock.fixed_amount > 0
      /\ ReplaceVotes(user, InfoOf(lock, votes), TRUE)
      /\ UNCHANGED escrowVars

\* Mutant of update_vote: votes do not follow a lock that lost its power.
UpdateVoteUnlessZero(user) ==
  LET lock == get_user_lock_info(point'[user], locked'[user].end)
  IN  IF user \in DOMAIN user_info /\ lock.voting_power + lock.fixed_amount > 0
      THEN ReplaceVotes(user, InfoOf(lock, user_info[user].votes), TRUE)
      ELSE UNCHANGED gaugeVars

\* The escrow's message about a changed lock.
update_vote(user) ==
  LET lock == get_user_lock_info(point'[user], locked'[user].end)
  IN  IF user \in DOMAIN user_info
      THEN ReplaceVotes(user, InfoOf(lock, user_info[user].votes),
                        lock.voting_power + lock.fixed_amount > 0)
      ELSE UNCHANGED gaugeVars

\* A failure of remove_votes_of_user is reported and not returned, so what was done
\* until then stays: the validators in done, and of the one that failed the removal of
\* its fixed vAMP if that had succeeded.
remove_user(user) ==
  LET info   == user_info[user]
      failed == {v \in DOMAIN info.votes : ~ CanRemoveVotes(v, info)}
  IN  /\ user \in DOMAIN user_info
      /\ \E done \in SUBSET (DOMAIN info.votes \ failed), halted \in SUBSET failed :
           /\ IF failed = {} THEN done = DOMAIN info.votes
                             ELSE Cardinality(halted) = 1
           /\ gauge' = [v \in Validators |->
                          IF v \in done THEN Settle(RemoveVotes(gauge[v], v, info))
                          ELSE IF v \in halted /\ HasFixedVotes(v, info)
                          THEN remove_fixed_vamp(gauge[v], Period + 1,
                                                 BpsMul(info.votes[v], info.fixed_amount))
                          ELSE gauge[v]]
           /\ validators' = validators \cup done \cup halted
      /\ user_info' = Without(user_info, user)
      /\ spoiled' = spoiled \cup {c \in {"partial removal"} : failed # {}}
      /\ UNCHANGED <<vamp_points, escrowVars>>

-----------------------------------------------------------------------------
\* A validator's points in a period.
VampAt(g, period) ==
  get_validator_info(g, period).power + fetch_last_validator_fixed_vamp_value(g, period)

\* Mutant of filter_validators: the order is that of the addresses.
FilterUnsorted(vamp, allowed) ==
  LET ranked == SetToSortSeq({v \in DOMAIN vamp \cap allowed : vamp[v] > 0}, <)
  IN  SubSeq(ranked, 1, IF Len(ranked) < validators_limit THEN Len(ranked) ELSE validators_limit)

\* filter_validators: the first validators_limit of those the hub allows, by power and
\* then by address.
filter_validators(vamp, allowed) ==
  LET before(v, w) == vamp[v] > vamp[w] \/ (vamp[v] = vamp[w] /\ v < w)
      ranked == SetToSortSeq({v \in DOMAIN vamp \cap allowed : vamp[v] > 0}, before)
  IN  SubSeq(ranked, 1, IF Len(ranked) < validators_limit THEN Len(ranked) ELSE validators_limit)

\* Mutant of Idle: votes for the next period are overlooked.
IdleNow(v) == VampAt(gauge[v], Period) = 0

\* A validator leaves VALIDATORS when it has no power now and no fixed power next.
Idle(v) ==
  /\ VampAt(gauge[v], Period) = 0
  /\ fetch_last_validator_fixed_vamp_value(gauge[v], Period + 1) = 0

tune_vamp(allowed) ==
  LET vamp   == [v \in validators |-> VampAt(gauge[v], Period)]
      points == filter_validators(vamp, allowed)
  IN  /\ points # <<>>
      /\ vamp_points' = [i \in 1..Len(points) |-> <<points[i], vamp[points[i]]>>]
      /\ gauge' = [v \in Validators |->
                     IF v \in validators
                     THEN Settle(update_validator_info(gauge[v], Period,
                                                       get_validator_info(gauge[v], Period)))
                     ELSE gauge[v]]
      /\ validators' = {v \in validators : ~ Idle(v)}
      /\ UNCHANGED <<user_info, spoiled, escrowVars>>

GaugeInit ==
  /\ Init
  /\ user_info = [u \in {} |-> NoVotes]
  /\ gauge = [v \in Validators |-> [fixed   |-> [p \in {} |-> 0],
                                    votes   |-> [p \in {} |-> [start |-> 0, power |-> 0, slope |-> 0]],
                                    changes |-> [p \in {} |-> 0]]]
  /\ validators = {}
  /\ vamp_points = <<>>
  /\ spoiled = {}

GaugeNext ==
  \/ \E user \in Users : LockChange(user) /\ update_vote(user)
  \/ \E user \in Users, votes \in Ballots : handle_vote(user, votes)
  \/ \E user \in Users : remove_user(user)
  \/ \E allowed \in SUBSET Validators : tune_vamp(allowed)
  \/ \E step \in TimeSteps : Wait(step) /\ UNCHANGED gaugeVars

GaugeSpec == GaugeInit /\ [][GaugeNext]_vars

-----------------------------------------------------------------------------
(* Properties.                                                             *)

\* What the recorded votes give a validator, by a part of the information about a user.
Given(v, part(_)) ==
  Total([u \in DOMAIN user_info |->
           IF v \in DOMAIN user_info[u].votes
           THEN BpsMul(user_info[u].votes[v], part(user_info[u])) ELSE 0])

\* What the gauges have recorded of a voter is what the escrow says of them, also when
\* periods have passed since: the update that the escrow pushes misses no change.
VotesFollowLocks ==
  \A u \in DOMAIN user_info :
    /\ CurrentPower(user_info[u]) = calc_voting_power(point[u], Period)
    /\ user_info[u].fixed_amount = point[u].fixed
    /\ user_info[u].slope = point[u].slope
    /\ user_info[u].lock_end = locked[u].end

\* The slope of a validator from the next period on is the sum over the voters whose locks
\* have not ended, and the slope changes scheduled are theirs.
SlopesOfVoters ==
  \A v \in Validators :
    /\ get_validator_info(gauge[v], Period + 1).slope =
         Given(v, LAMBDA info : IF info.lock_end > Period THEN info.slope ELSE 0)
    /\ \A p \in DOMAIN gauge[v].changes :
         p > Period + 1 =>
           gauge[v].changes[p] = Given(v, LAMBDA info : IF info.lock_end + 1 = p THEN info.slope ELSE 0)

\* "The slope at which the amount of vAMP that voted for this validator will decay" is that
\* of its voters as long as nobody voted with a lock that had ended.
SlopesAreVoted == spoiled = {} => SlopesOfVoters

\* From the next period on a validator has the fixed power of its voters, no more and no
\* less, unless a removal stopped halfway, and at least the decaying power its voters have
\* now: rounding and the decay never cost a validator votes.
VotesAreCounted ==
  \A v \in Validators :
    /\ "partial removal" \notin spoiled =>
         fetch_last_validator_fixed_vamp_value(gauge[v], Period + 1) =
           Given(v, LAMBDA info : info.fixed_amount)
    /\ spoiled = {} =>
         get_validator_info(gauge[v], Period + 1).power >=
           Given(v, LAMBDA info : IF info.lock_end > Period THEN CurrentPower(info) ELSE 0)

\* TuneVamp publishes as many validators as the limit allows, and none that the hub allows
\* and that has more power is left out: no validator with votes, now or from the next period
\* on, has been forgotten by an earlier tuning.
TunedAreTheStrongest ==
  [][UNCHANGED <<user_info, escrowVars>> =>
       \A allowed \in SUBSET Validators : tune_vamp(allowed) =>
         LET chosen == {vamp_points'[i][1] : i \in DOMAIN vamp_points'}
         IN  /\ chosen \subseteq allowed /\ Cardinality(chosen) <= validators_limit
             /\ \A v \in allowed \ chosen :
                  VampAt(gauge[v], Period) > 0 =>
                    /\ Cardinality(chosen) = validators_limit
                    /\ \A w \in chosen : VampAt(gauge[w], Period) >= VampAt(gauge[v], Period)]_vars

=============================================================================
