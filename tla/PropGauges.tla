----------------------------- MODULE PropGauges -----------------------------
(***************************************************************************)
(* The proposal gauges (contracts/amp-governance/prop_gauges) on top of    *)
(* the voting escrow: holders of vAMP vote on proposals of the chain, with *)
(* the power they will have in the period in which the voting ends, and    *)
(* the hub casts its stake's vote accordingly.  As for the amp gauges, the *)
(* escrow reports every change of a lock with UpdateVote in the same       *)
(* transaction, so LockChange and update_vote happen or fail together.     *)
(*                                                                         *)
(* The gov module is external: it keeps the last vote of the hub and       *)
(* refuses a vote after the end of the voting and one without options.     *)
(* Ratios are compared by cross-multiplication: a quorum is a multiple of  *)
(* the Decimal's smallest unit, so cutting the ratio off does not matter.  *)
(***************************************************************************)
EXTENDS VotingEscrow

CONSTANTS
  Proposals,           \* proposal ids
  Options,             \* the votes users give
  EndTimes,            \* ends of voting
  MAX_BPS,             \* BasicPoints::MAX
  Configs              \* values of quorum_bps and use_weighted_vote

\* VoteOption, in the order of get_weighted_votes.
VoteOption == <<"Yes", "No", "Abstain", "NoWithVeto">>
VoteOptions == {VoteOption[i] : i \in DOMAIN VoteOption}

ASSUME PropAssumption ==
  /\ IsFiniteSet(Proposals) /\ Options \subseteq VoteOptions /\ EndTimes \subseteq Nat
  /\ MAX_BPS \in Nat \ {0}
  /\ Configs \subseteq [quorum_bps : 0..MAX_BPS, use_weighted_vote : BOOLEAN]

VARIABLES
  config,              \* quorum_bps and use_weighted_vote
  props,               \* props: the proposals by id
  users,               \* users: the votes by proposal and user
  voters,              \* voters: the votes by proposal, power and user
  cast,                \* external: the hub's vote on each proposal
  past_vp,             \* external: the escrow's total in a proposal's period that is over
  weighted,            \* history: proposals counted while votes were weighted
  reopened             \* history: proposals initialised again under an id that was voted on

propVars == <<config, props, users, voters, cast, past_vp, weighted, reopened>>
vars == <<escrowVars, propVars>>

-----------------------------------------------------------------------------
(* PropInfo.                                                               *)

\* rounding_factor of get_weighted_votes: weights are in thousandths.
RoundingFactor == 1000

voted_vp(prop) == Total(prop.vp)

reached_quorum(prop, total_vp, quorum) == voted_vp(prop) * MAX_BPS >= quorum * total_vp

\* A ballot gives every option its weight.
Ballot(vote) == [o \in VoteOptions |-> IF o = vote THEN RoundingFactor ELSE 0]
EmptyBallot == [o \in VoteOptions |-> 0]

\* The first option with a weight takes what rounding down leaves over.
get_weighted_votes(prop) ==
  LET weight == [o \in VoteOptions |-> (prop.vp[o] * RoundingFactor) \div voted_vp(prop)]
      first  == VoteOption[CHOOSE i \in DOMAIN VoteOption :
                             /\ weight[VoteOption[i]] > 0
                             /\ \A j \in 1..(i - 1) : weight[VoteOption[j]] = 0]
  IN  IF voted_vp(prop) = 0 THEN EmptyBallot
      ELSE [weight EXCEPT ![first] = @ + RoundingFactor - Total(weight)]

get_wanted_vote(prop, total_vp, quorum) ==
  LET beats(o, others) == \A p \in others : prop.vp[o] >= prop.vp[p]
  IN  IF ~ reached_quorum(prop, total_vp, quorum) THEN "None"
      ELSE IF beats("Yes", VoteOptions) THEN "Yes"
      ELSE IF beats("No", {"Abstain", "NoWithVeto"}) THEN "No"
      ELSE IF beats("NoWithVeto", {"Abstain"}) THEN "NoWithVeto"
      ELSE "Abstain"

-----------------------------------------------------------------------------
(* vote.rs                                                                 *)

\* Mutant of calc_voting_power_for_prop: the power of today.
PowerOfToday(lock, prop) == lock.voting_power + lock.fixed_amount

\* Defined if the proposal's period is not over, or the lock had ended by then.
calc_voting_power_for_prop(lock, prop) ==
  lock.fixed_amount + IF Period = prop.period THEN lock.voting_power
                      ELSE IF lock.lock_end <= prop.period THEN 0
                      ELSE SatSub(lock.voting_power, lock.slope * (prop.period - Period))

\* Mutant of remove_vote_of_user: an old vote stays counted.
RemoveForgotten(prop, info) == prop

remove_vote_of_user(prop, info) == [prop EXCEPT !.vp[info.current_vote] = @ - info.vp]

apply_vote_of_user(prop, info) == [prop EXCEPT !.vp[info.current_vote] = @ + info.vp]

\* PropUserInfo; who has no power is recorded as abstaining.
UserVote(lock, prop, vote) ==
  LET vp == calc_voting_power_for_prop(lock, prop)
  IN  [current_vote |-> IF vp = 0 THEN "Abstain" ELSE vote, vp |-> vp]

\* The escrow's answer about the proposal's period: after it is over, what it was.
get_total_voting_power(id, period) ==
  IF Period > period THEN past_vp[id] ELSE get_total_vamp_at_period(period)

NoMessage == [kind |-> "none", ballot |-> EmptyBallot]
Weighted(ballot) == [kind |-> "weighted", ballot |-> ballot]
Plain(vote) == [kind |-> "plain", ballot |-> Ballot(vote)]

\* Mutant of get_vote_msg: nothing is sent when the quorum is lost again.
VoteMsgWithoutAbstain(prop, total_vp) ==
  LET wanted == get_wanted_vote(prop, total_vp, config.quorum_bps)
  IN  IF config.use_weighted_vote
      THEN [current_vote |-> "None",
            msg |-> IF reached_quorum(prop, total_vp, config.quorum_bps)
                    THEN Weighted(get_weighted_votes(prop)) ELSE NoMessage]
      ELSE [current_vote |-> wanted,
            msg |-> IF wanted = prop.current_vote \/ wanted = "None" THEN NoMessage ELSE Plain(wanted)]

\* Mutant of get_vote_msg: weighted votes are sent without a quorum.
VoteMsgWithoutQuorum(prop, total_vp) ==
  LET wanted  == get_wanted_vote(prop, total_vp, config.quorum_bps)
      retreat == wanted = "None" /\ prop.current_vote \notin {"None", "Abstain"}
      vote    == IF retreat THEN "Abstain" ELSE wanted
  IN  IF config.use_weighted_vote
      THEN [current_vote |-> "None", msg |-> Weighted(get_weighted_votes(prop))]
      ELSE [current_vote |-> vote,
            msg |-> IF vote = prop.current_vote \/ vote = "None" THEN NoMessage ELSE Plain(vote)]

\* The message to the hub and the vote that is remembered.  Who has voted and loses the
\* quorum votes Abstain, once.
get_vote_msg(prop, total_vp) ==
  LET wanted  == get_wanted_vote(prop, total_vp, config.quorum_bps)
      retreat == wanted = "None" /\ prop.current_vote \notin {"None", "Abstain"}
      vote    == IF retreat THEN "Abstain" ELSE wanted
  IN  IF config.use_weighted_vote
      THEN [current_vote |-> "None",
            msg |-> IF reached_quorum(prop, total_vp, config.quorum_bps)
                    THEN Weighted(get_weighted_votes(prop)) ELSE NoMessage]
      ELSE [current_vote |-> vote,
            msg |-> IF vote = prop.current_vote \/ vote = "None" THEN NoMessage ELSE Plain(vote)]

\* vote and vote_weighted of the hub, and the gov module.
GovAccepts(id, msg) == msg = NoMessage \/ (now <= props[id].end_time_s /\ Total(msg.ballot) > 0)

\* The proposals of tally are saved with their new tallies, after the hub has been told.
\* A ratio with a total of zero panics.
SaveProps(tally, total_vp) ==
  LET outcome == [id \in DOMAIN tally |-> get_vote_msg(tally[id], total_vp[id])]
  IN  /\ \A id \in DOMAIN tally : total_vp[id] > 0 /\ GovAccepts(id, outcome[id].msg)
      /\ props' = [id \in DOMAIN props |->
                     IF id \in DOMAIN tally
                     THEN [tally[id] EXCEPT !.total_vp = total_vp[id],
                                            !.current_vote = outcome[id].current_vote]
                     ELSE props[id]]
      /\ cast' = [id \in Proposals |->
                    IF id \in DOMAIN tally /\ outcome[id].msg # NoMessage
                    THEN outcome[id].msg ELSE cast[id]]
      /\ weighted' = weighted \cup {id \in DOMAIN tally : config.use_weighted_vote}

NoVote == [current_vote |-> "Abstain", vp |-> 0]
RecordedVote(id, user) == IF <<id, user>> \in DOMAIN users THEN users[<<id, user>>] ELSE NoVote

VoterEntry(id, user, info) ==
  [id |-> id, vp |-> info.vp, user |-> user, vote |-> info.current_vote]

\* update_vote_state for the proposals in ids, with the lock that the escrow reports and
\* its totals.
update_vote_state(ids, user, lock, vote, total_vp) ==
  LET old(id) == RecordedVote(id, user)
      new(id) == UserVote(lock, props[id], vote[id])
  IN  /\ \A id \in ids :
           /\ props[id].vp[old(id).current_vote] >= old(id).vp
           /\ Period <= props[id].period \/ lock.lock_end <= props[id].period
      /\ SaveProps([id \in ids |->
                      apply_vote_of_user(remove_vote_of_user(props[id], old(id)), new(id))],
                   total_vp)
      /\ users' = [k \in DOMAIN users \cup (ids \X {user}) |->
                     IF k[2] = user /\ k[1] \in ids THEN new(k[1]) ELSE users[k]]
      /\ voters' = {e \in voters : ~ (e.id \in ids /\ e.user = user /\ e.vp = old(e.id).vp)}
                     \cup {VoterEntry(id, user, new(id)) : id \in ids}

-----------------------------------------------------------------------------
(* contract.rs                                                             *)

PropInit ==
  /\ Init
  /\ config \in Configs
  /\ props = [id \in {} |-> 0]
  /\ users = [k \in {} |-> NoVote]
  /\ voters = {}
  /\ cast = [id \in Proposals |-> NoMessage]
  /\ past_vp = [id \in Proposals |-> 0]
  /\ weighted = {}
  /\ reopened = {}

init_prop(id, end_time_s) ==
  LET period == get_periods_count(end_time_s)
  IN  /\ id \notin DOMAIN props
      /\ end_time_s >= now
      /\ props' = Put(props, id,
                      [end_time_s |-> end_time_s, period |-> period, vp |-> EmptyBallot,
                       total_vp |-> get_total_vamp_at_period(period), current_vote |-> "None"])
      /\ reopened' = reopened \cup {i \in {id} : \/ cast[i] # NoMessage
                                                  \/ \E u \in Users : <<i, u>> \in DOMAIN users}
      /\ UNCHANGED <<config, users, voters, cast, past_vp, weighted, escrowVars>>

handle_vote(id, user, vote) ==
  LET lock == get_user_lock_info(point[user], locked[user].end)
  IN  /\ locked[user].end > 0
      /\ lock.voting_power + lock.fixed_amount > 0
      /\ id \in DOMAIN props
      /\ update_vote_state({id}, user, lock, [i \in {id} |-> vote],
                           [i \in {id} |-> get_total_voting_power(i, props[i].period)])
      /\ UNCHANGED <<config, past_vp, reopened, escrowVars>>

all_active_props == {id \in DOMAIN props : props[id].end_time_s >= now}

\* The escrow's message about a changed lock.
update_vote(user) ==
  LET lock == get_user_lock_info(point'[user], locked'[user].end)
      ids  == {id \in all_active_props : <<id, user>> \in DOMAIN users}
  IN  /\ update_vote_state(ids, user, lock, [i \in ids |-> users[<<i, user>>].current_vote],
                           [i \in ids |-> TotalVampAt(total', slope_changes', props[i].period)])
      /\ UNCHANGED <<config, past_vp, reopened>>

remove_user(user) ==
  LET ids == {id \in all_active_props : <<id, user>> \in DOMAIN users}
  IN  /\ \A id \in ids : props[id].vp[users[<<id, user>>].current_vote] >= users[<<id, user>>].vp
      /\ SaveProps([id \in ids |-> remove_vote_of_user(props[id], users[<<id, user>>])],
                   [i \in ids |-> get_total_vamp_at_period(props[i].period)])
      /\ users' = Restrict(users, DOMAIN users \ (ids \X {user}))
      /\ voters' = voters \ {VoterEntry(id, user, users[<<id, user>>]) : id \in ids}
      /\ UNCHANGED <<config, past_vp, reopened, escrowVars>>

remove_prop(id) ==
  /\ id \in DOMAIN props
  /\ props' = Without(props, id)
  /\ UNCHANGED <<config, users, voters, cast, past_vp, weighted, reopened, escrowVars>>

update_config(new) ==
  /\ config' = new
  /\ UNCHANGED <<props, users, voters, cast, past_vp, weighted, reopened, escrowVars>>

\* Time between two transactions.  When a proposal's period ends, the escrow's total for
\* it is final.
TimePasses(step) ==
  /\ Wait(step)
  /\ past_vp' = [id \in Proposals |->
                   IF id \in DOMAIN props /\ Period <= props[id].period /\ props[id].period < Period'
                   THEN get_total_vamp_at_period(props[id].period) ELSE past_vp[id]]
  /\ UNCHANGED <<config, props, users, voters, cast, weighted, reopened>>

PropNext ==
  \/ \E user \in Users : LockChange(user) /\ update_vote(user)
  \/ \E id \in Proposals, end_time_s \in EndTimes : init_prop(id, end_time_s)
  \/ \E id \in Proposals, user \in Users, vote \in Options : handle_vote(id, user, vote)
  \/ \E user \in Users : remove_user(user)
  \/ \E id \in Proposals : remove_prop(id)
  \/ \E new \in Configs : update_config(new)
  \/ \E step \in TimeSteps : TimePasses(step)

PropSpec == PropInit /\ [][PropNext]_vars

-----------------------------------------------------------------------------
(* Properties.                                                             *)

\* The tally of a proposal is the sum of the votes recorded for its users, option by
\* option, and the list of voters by power names each of them once and with that vote:
\* votes, changes of locks and removals in any order never count a vote twice, or take
\* off one that was not counted.  A proposal created again under an id whose votes are
\* still recorded is the exception.
VotesAddUp ==
  /\ \A id \in DOMAIN props \ reopened, o \in VoteOptions :
       props[id].vp[o] =
         Total([u \in {v \in Users : <<id, v>> \in DOMAIN users} |->
                  IF users[<<id, u>>].current_vote = o THEN users[<<id, u>>].vp ELSE 0])
  /\ voters = {VoterEntry(k[1], k[2], users[k]) : k \in DOMAIN users}

\* As long as a proposal can be voted on, every vote counts with exactly the power the
\* escrow gives the voter in the period in which the voting ends: the gauges project the
\* power when the vote is given, and again when the lock changes.  Power that a lock kept
\* beyond its line is the exception: the escrow drops it at the end of the lock, the
\* projection does not.
VotesFollowEscrow ==
  "kept power" \notin drift =>
    \A k \in DOMAIN users :
      k[1] \in DOMAIN props \ reopened /\ props[k[1]].end_time_s >= now =>
        users[k].vp = get_user_vamp_at_period(k[2], props[k[1]].period)

\* What the contract remembers of its vote is the hub's vote on the chain.  A proposal
\* without a memory that was never counted with weights has no vote on the chain or an
\* abstention: a vote whose quorum is lost again is taken back.  Weights add up to one.
HubVoteFollows ==
  \A id \in DOMAIN props \ reopened :
    /\ props[id].current_vote # "None" => cast[id] = Plain(props[id].current_vote)
    /\ props[id].current_vote = "None" /\ id \notin weighted =>
         cast[id] \in {NoMessage, Plain("Abstain")}
    /\ cast[id].kind = "weighted" => Total(cast[id].ballot) = RoundingFactor

\* A vote never stands in the way of its voter's withdrawal from the escrow: the message
\* about the changed lock succeeds, unless nobody else has voting power (the ratio to a
\* total of zero panics) or the proposal was created again.
VotersCanLeave ==
  \A u \in Users :
    /\ locked[u].amount > 0 /\ locked[u].end <= Period /\ u \notin blacklist
    /\ \E other \in Users \ {u} : point[other].fixed > 0
    /\ reopened = {} /\ drift = {}
    => ENABLED (withdraw(u) /\ update_vote(u))
=============================================================================
