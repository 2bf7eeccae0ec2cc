----------------------------- MODULE EmpGauges -----------------------------
(***************************************************************************)
(* The emp gauges (contracts/amp-governance/emp_gauges): the owner grants  *)
(* merit points to validators, for good or decaying over some periods, and *)
(* every grant is followed by TuneEmps, which publishes the validators     *)
(* with the most points.  A grant counts from the current period on.       *)
(*                                                                         *)
(* AddEmps and the TuneEmps it sends to itself are one transaction.  The   *)
(* list of validators the hub answers with is external and may be another  *)
(* one at every transaction.  Points of a validator from before the latest *)
(* ones are read by queries about the past only and are dropped.           *)
(***************************************************************************)
EXTENDS Naturals, FiniteSets, Sequences, Sums
LOCAL INSTANCE SequencesExt

CONSTANTS
  Validators,          \* numbers, in the order of their addresses
  Grants,              \* lists of EmpInfo that AddEmps gives a validator
  Limits,              \* values of validators_limit
  MaxPeriod,           \* bound: period
  MaxGrants            \* bound: number of AddEmps

\* Option<u64>: the decaying_period of points granted for good is None.
None == <<>>
Some(n) == <<n>>

ASSUME EmpAssumption ==
  /\ IsFiniteSet(Validators) /\ Validators \subseteq Nat
  /\ \A grant \in Grants :
       /\ grant \in Seq([umerit_points : Nat, decaying_period : Seq(Nat)])
       /\ \A i \in DOMAIN grant : Len(grant[i].decaying_period) <= 1
  /\ Limits \subseteq Nat /\ MaxPeriod \in Nat /\ MaxGrants \in Nat

VARIABLES
  period,              \* the current period
  validators_limit,    \* config.validators_limit
  gauge,               \* per validator VALIDATOR_VOTES, _SLOPE_CHANGES and _FIXED_EMPS
  validators,          \* VALIDATORS: the validators that are tuned
  tune_info,           \* TUNE_INFO: tune_period and emp_points
  granted,             \* history: the slopes of each validator's grants by their end, and
                       \* the points it has for good
  grants               \* history: number of AddEmps

vars == <<period, validators_limit, gauge, validators, tune_info, granted, grants>>

-----------------------------------------------------------------------------
(* utils.rs                                                                *)

saturating_sub(a, b) == IF a >= b THEN a - b ELSE 0

\* A map holds 0 where it has no entry.
Entry(map, key) == IF key \in DOMAIN map THEN map[key] ELSE 0
Save(map, key, value) ==
  [k \in DOMAIN map \cup {key} |-> IF k = key THEN value ELSE map[k]]
Only(key, value) == [k \in {key} |-> value]

\* The last key of a map up to a period, if it has one.
KeysUpTo(map, p) == {k \in DOMAIN map : k <= p}
LastKey(map, p) == CHOOSE k \in KeysUpTo(map, p) : \A l \in KeysUpTo(map, p) : l <= k

fetch_last_validator_fixed_emps_value(g, p) ==
  IF KeysUpTo(g.fixed, p) = {} THEN 0 ELSE g.fixed[LastKey(g.fixed, p)]

\* Mutant of get_validator_info_mut: the slope is taken off without its changes.
DecayWithoutChanges(g, p) ==
  IF KeysUpTo(g.votes, p) = {} THEN [power |-> 0, slope |-> 0]
  ELSE LET last == LastKey(g.votes, p)
       IN  [g.votes[last] EXCEPT !.power = saturating_sub(@, g.votes[last].slope * (p - last))]

\* The points a period later, where the slope falls by change.
NextInfo(info, change) ==
  [power |-> saturating_sub(info.power, info.slope), slope |-> saturating_sub(info.slope, change)]

\* The loop over fetch_slope_changes: the points info of period first carried on to p.
\* Between two changes the points fall along a line, so it is written period by period;
\* what the loop saves on the way is what it would compute again.
Recalculate(first, info, changes, p) ==
  LET line[q \in first..p] ==
        IF q = first THEN info ELSE NextInfo(line[q - 1], Entry(changes, q))
  IN  line[p]

\* The points of a validator in a period, from the last ones saved.
get_validator_info_mut(g, p) ==
  IF KeysUpTo(g.votes, p) = {} THEN [power |-> 0, slope |-> 0]
  ELSE LET first == LastKey(g.votes, p)
       IN  Recalculate(first, g.votes[first], g.changes, p)

\* update_validator_info with no points saved but those of the period.
update_validator_info(g, p, vp, slope) ==
  LET info == get_validator_info_mut(g, p)
  IN  [g EXCEPT !.votes = Only(p, [power |-> info.power + vp, slope |-> info.slope + slope])]

vote_for_validator(g, p, vp, slope, lock_end) ==
  update_validator_info([g EXCEPT !.changes = Save(@, lock_end + 1, Entry(@, lock_end + 1) + slope)],
                        p, vp, slope)

\* Mutant of add_fixed_emp: points of an earlier period are overlooked.
FixedOfThisPeriod(g, p, uemps) ==
  [g EXCEPT !.fixed = Only(p, Entry(g.fixed, p) + uemps)]

add_fixed_emp(g, p, uemps) ==
  [g EXCEPT !.fixed = Only(p, fetch_last_validator_fixed_emps_value(g, p) + uemps)]

adjust_vp_and_slope(vp, dt) == vp \div dt

-----------------------------------------------------------------------------
\* One EmpInfo for a validator.
AddPoints(g, emp) ==
  LET dt    == emp.decaying_period[1]
      slope == adjust_vp_and_slope(emp.umerit_points, dt)
  IN  IF emp.decaying_period = None THEN add_fixed_emp(g, period, emp.umerit_points)
      ELSE vote_for_validator(g, period, slope * dt, slope, period + dt)

\* What the owner meant by it.
Grant(h, emp) ==
  LET dt == emp.decaying_period[1]
  IN  IF emp.decaying_period = None THEN [h EXCEPT !.fixed = @ + emp.umerit_points]
      ELSE [h EXCEPT !.slopes = Save(@, period + dt, Entry(@, period + dt) + emp.umerit_points \div dt)]

\* The EmpInfos of a validator, one after the other.
AddAll(g, emps) ==
  LET after[i \in 0..Len(emps)] == IF i = 0 THEN g ELSE AddPoints(after[i - 1], emps[i])
  IN  after[Len(emps)]

GrantAll(h, emps) ==
  LET after[i \in 0..Len(emps)] == IF i = 0 THEN h ELSE Grant(after[i - 1], emps[i])
  IN  after[Len(emps)]

\* The points TuneEmps ranks a validator by.
EmpsAt(g, p) == get_validator_info_mut(g, p).power + fetch_last_validator_fixed_emps_value(g, p)

\* The first validators_limit of those the hub allows, by points and then by address.
filter_validators(emps, allowed) ==
  LET before(v, w) == emps[v] > emps[w] \/ (emps[v] = emps[w] /\ v < w)
      ranked == SetToSortSeq({v \in DOMAIN emps \cap allowed : emps[v] > 0}, before)
  IN  SubSeq(ranked, 1, IF Len(ranked) < validators_limit THEN Len(ranked) ELSE validators_limit)

\* Mutant of StillTuned: a validator with points for good only is forgotten.
TunedWhileDecaying(v, g) == get_validator_info_mut(g, period).power > 0

\* A validator without points leaves VALIDATORS.
StillTuned(v, g) == EmpsAt(g, period) > 0

\* tune_emps, for gauges and VALIDATORS as AddEmps left them.
Tune(gauges, active, allowed) ==
  LET emps   == [v \in active |-> EmpsAt(gauges[v], period)]
      points == filter_validators(emps, allowed)
  IN  /\ points # <<>>
      /\ tune_info' = [tune_period |-> period,
                       emp_points  |-> [i \in 1..Len(points) |-> <<points[i], emps[points[i]]>>]]
      /\ gauge' = [v \in Validators |->
                     IF v \in active THEN update_validator_info(gauges[v], period, 0, 0)
                                     ELSE gauges[v]]
      /\ validators' = {v \in active : StillTuned(v, gauges[v])}

tune_emps(allowed) ==
  /\ Tune(gauge, validators, allowed)
  /\ UNCHANGED <<period, validators_limit, granted, grants>>

\* A decaying_period of zero is a division by zero, an error.
add_emps(emps, allowed) ==
  /\ DOMAIN emps \subseteq allowed
  /\ \A v \in DOMAIN emps : \A i \in DOMAIN emps[v] : emps[v][i].decaying_period # Some(0)
  /\ Tune([v \in Validators |-> IF v \in DOMAIN emps THEN AddAll(gauge[v], emps[v]) ELSE gauge[v]],
          validators \cup {v \in DOMAIN emps : emps[v] # <<>>},
          allowed)
  /\ granted' = [v \in Validators |-> IF v \in DOMAIN emps THEN GrantAll(granted[v], emps[v]) ELSE granted[v]]
  /\ grants < MaxGrants /\ grants' = grants + 1
  /\ UNCHANGED <<period, validators_limit>>

update_config(limit) ==
  /\ validators_limit' = limit
  /\ UNCHANGED <<period, gauge, validators, tune_info, granted, grants>>

Wait ==
  /\ period < MaxPeriod /\ period' = period + 1
  /\ UNCHANGED <<validators_limit, gauge, validators, tune_info, granted, grants>>

EmptyMap == [p \in {} |-> 0]

Init ==
  /\ period = 0
  /\ validators_limit \in Limits
  /\ gauge = [v \in Validators |-> [fixed |-> EmptyMap, votes |-> EmptyMap, changes |-> EmptyMap]]
  /\ validators = {}
  /\ tune_info = [tune_period |-> 0, emp_points |-> <<>>]
  /\ granted = [v \in Validators |-> [slopes |-> EmptyMap, fixed |-> 0]]
  /\ grants = 0

Next ==
  \/ \E vs \in SUBSET Validators, allowed \in SUBSET Validators :
       \E emps \in [vs -> Grants] : add_emps(emps, allowed)
  \/ \E allowed \in SUBSET Validators : tune_emps(allowed)
  \/ \E limit \in Limits : update_config(limit)
  \/ Wait

Spec == Init /\ [][Next]_vars

-----------------------------------------------------------------------------
(* Properties.                                                             *)

\* The decaying points a validator's grants are worth in a period.
Worth(v, p) ==
  Total([end \in DOMAIN granted[v].slopes |-> granted[v].slopes[end] * saturating_sub(end, p)])

Periods == period..(MaxPeriod + 1)

\* At the end of a grant, and when its change is applied a period later, nothing of it
\* is left: the slope of a validator in any period to come is that of the grants that
\* have not ended before it.
SlopesAreGranted ==
  \A v \in Validators, p \in Periods :
    get_validator_info_mut(gauge[v], p).slope =
      Total([end \in DOMAIN granted[v].slopes |-> IF end >= p THEN granted[v].slopes[end] ELSE 0])

\* A validator never has more points than its grants are worth, in no period to come and
\* after any pattern of grants and tunings; it has exactly as many until the first of the
\* grants has ended, and again when all have.  The points for good are all there.
PointsAreGranted ==
  \A v \in Validators, p \in Periods :
    /\ get_validator_info_mut(gauge[v], p).power <= Worth(v, p)
    /\ (\A end \in DOMAIN granted[v].slopes : end >= p) \/ Worth(v, p) = 0 =>
         get_validator_info_mut(gauge[v], p).power = Worth(v, p)
    /\ fetch_last_validator_fixed_emps_value(gauge[v], p) = granted[v].fixed

\* A validator that has points is one that TuneEmps looks at, also when the hub did not
\* list it for a while.
PointsAreTuned ==
  \A v \in Validators : EmpsAt(gauge[v], period) > 0 => v \in validators
=============================================================================
