---------------------------- MODULE MCAmpGauges ----------------------------
(***************************************************************************)
(* Instances of AmpGauges for TLC.                                         *)
(***************************************************************************)
EXTENDS AmpGauges, TLC

\* What the next steps depend on: the current values of lines, not the points from which
\* they are drawn, and neither the escrow's total nor the published points, which no
\* guard reads.
GaugeView ==
  <<now, blacklist, locked, spoiled, validators,
    [u \in Users |-> [point[u] EXCEPT !.start = 0, !.power = calc_voting_power(point[u], Period)]],
    [u \in DOMAIN user_info |->
       [user_info[u] EXCEPT !.vote_period = 0, !.voting_power = CurrentPower(user_info[u])]],
    [v \in Validators |->
       <<{<<get_validator_info(gauge[v], p),
            fetch_last_validator_fixed_vamp_value(gauge[v], p)>> : p \in {Period, Period + 1}},
         Restrict(gauge[v].changes, {k \in DOMAIN gauge[v].changes : k > Period + 1})>>]>>

\* Every vote with an ended lock adds to a validator's slope, without bound.
SpoilBound == spoiled = {}

UserSymmetry == Permutations(Users)
=============================================================================
