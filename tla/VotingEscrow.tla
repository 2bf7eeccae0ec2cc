---------------------------- MODULE VotingEscrow ----------------------------
(***************************************************************************)
(* The voting escrow (contracts/amp-governance/voting_escrow): users lock  *)
(* ampLP for a number of weekly periods and hold voting power (vAMP) that  *)
(* is a fixed part, the amount locked, and a part that decays linearly to  *)
(* zero at the end of the lock.  The contract keeps a point per user and a *)
(* total; the total is brought up to date only when somebody transacts,    *)
(* with the help of the slope changes scheduled for the ends of the locks. *)
(*                                                                         *)
(* An action is one transaction; an error or a panic in it is a false      *)
(* guard.  update_blacklist works on lists of addresses; its effect is that*)
(* of one Blacklist per appended address followed by one Whitelist per     *)
(* removed one, as long as no power outlives its lock.  The fields start   *)
(* and last_extend_lock_period of a lock are only reported by queries and  *)
(* left out.                                                               *)
(*                                                                         *)
(* Of HISTORY, a transaction reads the latest points and writes points from*)
(* there on; earlier ones are settled.  So one point per user is kept, and *)
(* of the total the points from the one before the last checkpoint on.  A  *)
(* user without a point is one with the zero point: a first checkpoint and *)
(* one that extends the zero point do the same.                            *)
(***************************************************************************)
EXTENDS Naturals, FiniteSets, Functions, Sums

CONSTANTS
  Users,               \* accounts that lock ampLP
  WEEK,                \* length of a period
  MAX_LOCK_TIME,       \* longest lock time
  MIN_LOCK_PERIODS,    \* fewest periods a lock must run when it is changed
  One,                 \* the Decimal 1 as a number of its smallest units
  Amounts,             \* amounts sent with a lock
  LockTimes,           \* lock times users ask for
  TimeSteps,           \* time that may pass between two transactions
  MaxAmount,           \* bound: amount a user locks
  MaxTime              \* bound: time

ASSUME EscrowAssumption ==
  /\ IsFiniteSet(Users)
  /\ WEEK \in Nat \ {0} /\ MAX_LOCK_TIME \in Nat /\ MAX_LOCK_TIME >= WEEK
  /\ MIN_LOCK_PERIODS \in Nat \ {0}
  /\ One \in Nat \ {0}
  /\ Amounts \subseteq Nat \ {0}
  /\ LockTimes \subseteq Nat
  /\ TimeSteps \subseteq Nat \ {0}
  /\ MaxAmount \in Nat /\ MaxTime \in Nat

VARIABLES
  now,                 \* block time, since EPOCH_START
  locked,              \* LOCKED: amount and end of each user's lock
  point,               \* HISTORY of the users: the latest point of each
  total,               \* HISTORY of the contract: the total's unsettled points by period
  slope_changes,       \* SLOPE_CHANGES: by how much the total's slope falls at a period
  last_slope_change,   \* LAST_SLOPE_CHANGE
  blacklist,           \* BLACKLIST
  drift                \* history: what made the total and the users disagree

escrowVars == <<now, locked, point, total, slope_changes, last_slope_change,
                blacklist, drift>>

Causes == {"late extension", "kept power", "expired blacklisted", "blacklisted withdrawal"}

-----------------------------------------------------------------------------
(* Helpers of governance_helper.rs, slope.rs and utils.rs.                 *)

SatSub(a, b) == IF a >= b THEN a - b ELSE 0

get_periods_count(interval) == interval \div WEEK

\* The current period, get_period(env.block.time.seconds()).
Period == get_periods_count(now)

calc_coefficient(interval) ==
  (90 * interval * One) \div (get_periods_count(MAX_LOCK_TIME) * 10)

checked_mul_uint(decimal, amount) == (decimal * amount) \div One

assert_time_limits(time) == WEEK <= time /\ time <= MAX_LOCK_TIME

assert_periods_remaining(periods) == periods >= MIN_LOCK_PERIODS

\* The decaying part of a point's power at a later period.
calc_voting_power(pt, period) == SatSub(pt.power, pt.slope * (period - pt.start))

ZeroPoint(period) == [power |-> 0, start |-> period, end |-> period, slope |-> 0, fixed |-> 0]

\* A map that has no entry for a key holds 0 there.
At(map, key) == IF key \in DOMAIN map THEN map[key] ELSE 0

\* The map with an entry set, or removed when it became zero.
Put(map, key, value) ==
  [k \in DOMAIN map \cup {key} |-> IF k = key THEN value ELSE map[k]]

Without(map, key) == Restrict(map, DOMAIN map \ {key})

cancel_scheduled_slope(changes, slope, period) ==
  IF period <= last_slope_change \/ period \notin DOMAIN changes THEN changes
  ELSE IF SatSub(changes[period], slope) = 0 THEN Without(changes, period)
  ELSE Put(changes, period, changes[period] - slope)

\* Mutant of schedule_slope_change: a second lock with the same end overwrites the first.
ScheduleOverwrites(changes, slope, period) ==
  IF slope = 0 THEN changes ELSE Put(changes, period, slope)

schedule_slope_change(changes, slope, period) ==
  IF slope = 0 THEN changes ELSE Put(changes, period, At(changes, period) + slope)

\* fetch_last_checkpoint: the latest of the points with a key up to period.
fetch_last_checkpoint(points, period) ==
  points[CHOOSE p \in DOMAIN points :
           p <= period /\ \A q \in DOMAIN points : q <= period => q <= p]

\* A point of a line carried on to the next period, where the slope falls by change.
NextPoint(pt, change, period) ==
  [pt EXCEPT !.start = period, !.power = SatSub(@, pt.slope), !.slope = SatSub(@, change)]

\* Mutant of Recalculate: the change at the last period is not applied.
RecalculateTooShort(pt, changes, period) ==
  LET line[p \in pt.start..period] ==
        IF p = pt.start THEN pt
        ELSE NextPoint(line[p - 1], IF p = period THEN 0 ELSE At(changes, p), p)
  IN  line[period]

\* The loop over fetch_slope_changes: the total's point pt carried on to a later period.
\* Between two scheduled changes the slope stays, so the loop is written period by period.
Recalculate(pt, changes, period) ==
  LET line[p \in pt.start..period] ==
        IF p = pt.start THEN pt ELSE NextPoint(line[p - 1], At(changes, p), p)
  IN  line[period]

-----------------------------------------------------------------------------
(* Checkpoints.                                                            *)

\* Points of the total are saved for the current period and for every period
\* with a slope change that has passed since the last checkpoint.
checkpoint_total(changes, add_power, add_amount, reduce_power, reduce_amount, old_slope, new_slope) ==
  LET last    == fetch_last_checkpoint(total, Period)
      passed  == {p \in DOMAIN changes : last_slope_change < p /\ p <= Period}
      current == Recalculate(last, changes, Period)
  IN  /\ total' =
           [p \in {last.start} \cup passed \cup {Period} |->
              IF p = Period
              THEN [current EXCEPT !.power = SatSub(@ + add_power, reduce_power),
                                   !.slope = SatSub(@, old_slope) + new_slope,
                                   !.fixed = SatSub(@ + add_amount, reduce_amount)]
              ELSE IF p \in passed THEN Recalculate(last, changes, p)
              ELSE last]
      /\ last_slope_change' = Period
      /\ slope_changes' = changes

\* lock_amount is the lock's amount after the deposit of add_amount.
checkpoint(user, add_amount, lock_amount, end) ==
  LET pt            == point[user]
      dt            == SatSub(end, Period)
      current_power == calc_voting_power(pt, Period)
      wanted_power  == IF end > pt.end
                       THEN checked_mul_uint(calc_coefficient(dt), lock_amount)
                       ELSE current_power + checked_mul_uint(calc_coefficient(dt), add_amount)
      new_slope     == IF dt = 0 THEN 0 ELSE wanted_power \div dt
      add_power     == SatSub(new_slope * dt, current_power)
      unapplied     == pt.end > last_slope_change
      changes       == schedule_slope_change(
                         cancel_scheduled_slope(slope_changes, pt.slope, pt.end),
                         new_slope, end)
  IN  /\ point' = [point EXCEPT ![user] =
                     [power |-> current_power + add_power, slope |-> new_slope,
                      start |-> Period, end |-> end, fixed |-> pt.fixed + add_amount]]
      /\ checkpoint_total(changes, add_power, add_amount, 0, 0,
                          IF unapplied THEN pt.slope ELSE 0, new_slope)
      /\ drift' = drift
           \cup {c \in {"late extension"} : unapplied /\ pt.end < Period /\ pt.slope > 0}
           \cup {c \in {"kept power"} : new_slope * dt < current_power}

-----------------------------------------------------------------------------
Init ==
  /\ now = 0
  /\ locked = [u \in Users |-> [amount |-> 0, end |-> 0]]
  /\ point = [u \in Users |-> ZeroPoint(0)]
  /\ total = [p \in {0} |-> ZeroPoint(0)]
  /\ slope_changes = [p \in {} |-> 0]
  /\ last_slope_change = 0
  /\ blacklist = {}
  /\ drift = {}

create_lock(user, amount, time) ==
  LET periods == get_periods_count(time)
  IN  /\ user \notin blacklist
      /\ assert_time_limits(time) /\ assert_periods_remaining(periods)
      /\ locked[user].amount = 0 /\ amount <= MaxAmount
      /\ locked' = [locked EXCEPT ![user] = [amount |-> amount, end |-> Period + periods]]
      /\ checkpoint(user, amount, amount, Period + periods)
      /\ UNCHANGED <<now, blacklist>>

\* A deposit that leaves the end of the lock alone.
DepositKeepingEnd(user, amount) ==
  /\ locked[user].end > Period
  /\ assert_periods_remaining(locked[user].end - Period)
  /\ locked' = [locked EXCEPT ![user].amount = @ + amount]
  /\ checkpoint(user, amount, locked[user].amount + amount, point[user].end)

\* Mutant of DepositExtending: the lock itself keeps its end.
DepositForgetsEnd(user, amount) ==
  LET min_end == Period + MIN_LOCK_PERIODS
  IN  /\ locked' = [locked EXCEPT ![user].amount = @ + amount]
      /\ checkpoint(user, amount, locked[user].amount + amount,
                    IF locked[user].end < min_end THEN min_end ELSE point[user].end)

\* A deposit with extend_to_min_periods.
DepositExtending(user, amount) ==
  LET min_end == Period + MIN_LOCK_PERIODS
      extends == locked[user].end < min_end
  IN  /\ locked' = [locked EXCEPT ![user] =
                      [amount |-> @.amount + amount,
                       end    |-> IF extends THEN min_end ELSE @.end]]
      /\ checkpoint(user, amount, locked[user].amount + amount,
                    IF extends THEN min_end ELSE point[user].end)

deposit_for(user, amount, extend_to_min_periods) ==
  /\ locked[user].amount > 0 /\ locked[user].amount + amount <= MaxAmount
  /\ IF extend_to_min_periods THEN DepositExtending(user, amount)
                              ELSE DepositKeepingEnd(user, amount)
  /\ UNCHANGED <<now, blacklist>>

\* Cw20HookMsg::ExtendLockAmount
ExtendLockAmount(user, amount, extend_to_min_periods) ==
  /\ user \notin blacklist
  /\ deposit_for(user, amount, extend_to_min_periods)

\* Mutant of DepositFor: only the sender is looked up in the blacklist.
DepositForAnyone(sender, user, amount) ==
  /\ sender \notin blacklist
  /\ deposit_for(user, amount, FALSE)

\* Cw20HookMsg::DepositFor
DepositFor(sender, user, amount) ==
  /\ sender \notin blacklist /\ user \notin blacklist
  /\ deposit_for(user, amount, FALSE)

extend_lock_time(user, time) ==
  LET from == IF locked[user].end < Period THEN Period ELSE locked[user].end
      end  == from + get_periods_count(time)
  IN  /\ user \notin blacklist
      /\ locked[user].amount > 0
      /\ assert_time_limits(time)
      /\ assert_periods_remaining(end - Period)
      /\ assert_time_limits(end * WEEK - now)
      /\ locked' = [locked EXCEPT ![user].end = end]
      /\ checkpoint(user, 0, locked[user].amount, end)
      /\ UNCHANGED <<now, blacklist>>

\* Mutant of withdraw: the total keeps the amount that was withdrawn.
WithdrawKeepsTotal(user) ==
  /\ locked[user].amount > 0
  /\ locked[user].end <= Period
  /\ locked' = [locked EXCEPT ![user].amount = 0]
  /\ point' = [point EXCEPT ![user] = ZeroPoint(Period)]
  /\ UNCHANGED <<total, slope_changes, last_slope_change, drift, now, blacklist>>

withdraw(user) ==
  /\ locked[user].amount > 0
  /\ locked[user].end <= Period
  /\ locked' = [locked EXCEPT ![user].amount = 0]
  /\ point' = [point EXCEPT ![user] = ZeroPoint(Period)]
  /\ checkpoint_total(slope_changes, 0, 0, 0, locked[user].amount, 0, 0)
  /\ drift' = drift \cup {c \in {"blacklisted withdrawal"} : user \in blacklist}
  /\ UNCHANGED <<now, blacklist>>

\* update_blacklist for one address of append_addrs.
Blacklist(user) ==
  LET pt        == point[user]
      cur_power == calc_voting_power(pt, Period)
  IN  /\ user \notin blacklist
      /\ blacklist' = blacklist \cup {user}
      /\ point' = [point EXCEPT ![user] = ZeroPoint(Period)]
      /\ IF cur_power = 0
         THEN UNCHANGED <<total, slope_changes, last_slope_change>>
         ELSE checkpoint_total(cancel_scheduled_slope(slope_changes, pt.slope, pt.end),
                               0, 0, cur_power, pt.fixed, pt.slope, 0)
      /\ drift' = drift \cup {c \in {"expired blacklisted"} : cur_power = 0 /\ pt.fixed > 0}
      /\ UNCHANGED <<now, locked>>

\* update_blacklist for one address of remove_addrs.
Whitelist(user) ==
  /\ user \in blacklist
  /\ blacklist' = blacklist \ {user}
  /\ IF locked[user].end > 0
     THEN checkpoint(user, locked[user].amount, locked[user].amount, locked[user].end)
     ELSE UNCHANGED <<point, total, slope_changes, last_slope_change, drift>>
  /\ UNCHANGED <<now, locked>>

\* Time between two transactions.
Wait(step) ==
  /\ now + step <= MaxTime
  /\ now' = now + step
  /\ UNCHANGED <<locked, point, total, slope_changes, last_slope_change, blacklist, drift>>

LockChange(user) ==
  \/ \E amount \in Amounts, time \in LockTimes : create_lock(user, amount, time)
  \/ \E amount \in Amounts, extend \in BOOLEAN : ExtendLockAmount(user, amount, extend)
  \/ \E sender \in Users, amount \in Amounts : DepositFor(sender, user, amount)
  \/ \E time \in LockTimes : extend_lock_time(user, time)
  \/ withdraw(user)
  \/ Blacklist(user)
  \/ Whitelist(user)

Next == (\E user \in Users : LockChange(user)) \/ (\E step \in TimeSteps : Wait(step))

Spec == Init /\ [][Next]_escrowVars

-----------------------------------------------------------------------------
(* Queries.                                                                *)

\* get_user_vamp_at_period, for a period from the user's latest point on.
get_user_vamp_at_period(user, period) ==
  LET pt == point[user]
  IN  pt.fixed + IF pt.start = period THEN pt.power
                 ELSE IF pt.end <= period THEN 0
                 ELSE calc_voting_power(pt, period)

\* get_user_lock_info, from the user's point and the end of the lock.
get_user_lock_info(pt, end) ==
  [voting_power |-> calc_voting_power(pt, Period), slope |-> pt.slope,
   fixed_amount |-> pt.fixed, lock_end |-> end]

\* The total's power in a period, from its points and the slope changes.
TotalVampAt(points, changes, period) ==
  LET pt == Recalculate(fetch_last_checkpoint(points, period), changes, period)
  IN  pt.power + pt.fixed

get_total_vamp_at_period(period) == TotalVampAt(total, slope_changes, period)

-----------------------------------------------------------------------------
(* Properties.                                                             *)

\* The slopes of the users whose locks end at a period.
SlopesEndingAt(period) ==
  Total([u \in Users |-> IF point[u].end = period THEN point[u].slope ELSE 0])

\* As long as no lock keeps power beyond its line, the slope of the total is what is
\* scheduled to be taken off after the last checkpoint; for a period still ahead that is
\* exactly the slopes of the locks that end there, for one that has passed without a
\* checkpoint at least theirs (a user may have been blacklisted since).  Then no
\* saturating_sub of a slope cuts anything off, and the subtraction in
\* get_total_vamp_at_period, which does not saturate, never panics: checkpoint,
\* cancel_scheduled_slope and schedule_slope_change agree.
SlopesAreScheduled ==
  "kept power" \notin drift =>
    /\ total[last_slope_change].slope =
         Total([p \in DOMAIN slope_changes |->
                  IF p > last_slope_change THEN slope_changes[p] ELSE 0])
    /\ \A p \in DOMAIN slope_changes \cup {point[u].end : u \in Users} :
         /\ p > last_slope_change => At(slope_changes, p) >= SlopesEndingAt(p)
         /\ p > Period => At(slope_changes, p) = SlopesEndingAt(p)

\* As long as nothing of Causes happened, the total voting power that the contract
\* reports for any period from now on is the sum of what it reports for the users,
\* however many periods passed between the checkpoints.
TotalIsSumOfUsers ==
  drift = {} =>
    \A p \in Period..(Period + get_periods_count(MAX_LOCK_TIME) + 1) :
      get_total_vamp_at_period(p) = Total([u \in Users |-> get_user_vamp_at_period(u, p)])

\* The fixed part of a user's power is what they have locked, and the point decays to
\* the end of the lock: LOCKED and HISTORY, which separate functions update, agree.  A
\* blacklisted user has no voting power in any period to come: neither their own
\* transactions nor deposits by others bring it back.
PowerIsLocked ==
  \A u \in Users :
    IF u \in blacklist
    THEN \A p \in Period..(Period + get_periods_count(MAX_LOCK_TIME) + 1) :
           get_user_vamp_at_period(u, p) = 0
    ELSE /\ point[u].fixed = locked[u].amount
         /\ locked[u].amount > 0 => point[u].end = locked[u].end

\* The total voting power reported for a period that is over does not change any more:
\* a checkpoint fills in the periods passed with what the query computed for them.  A
\* late extension is the exception, and so is power kept beyond the end of a lock.
PastIsFinal ==
  [][\A p \in last_slope_change..(Period - 1) :
       drift' \cap {"late extension", "kept power"} # {} \/
         get_total_vamp_at_period(p)' = get_total_vamp_at_period(p)]_escrowVars
=============================================================================
