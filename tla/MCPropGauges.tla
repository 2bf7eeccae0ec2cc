---------------------------- MODULE MCPropGauges ----------------------------
(***************************************************************************)
(* Instances of PropGauges for TLC.                                        *)
(***************************************************************************)
EXTENDS PropGauges, TLC

\* What the next steps depend on: power as it is now, not the points it is computed from,
\* and not what the properties derive from it.
PropView ==
  <<now, blacklist, locked, last_slope_change, drift,
    Restrict(slope_changes, {p \in DOMAIN slope_changes : p > last_slope_change}),
    Recalculate(fetch_last_checkpoint(total, Period), slope_changes, Period),
    [u \in Users |-> [point[u] EXCEPT !.start = 0, !.power = calc_voting_power(point[u], Period)]],
    config, [id \in DOMAIN props |-> [props[id] EXCEPT !.total_vp = 0]],
    users, cast, past_vp, weighted, reopened>>

PropConfigs == {[quorum_bps |-> 1, use_weighted_vote |-> w] : w \in BOOLEAN}

\* Disagreements inside the escrow are VotingEscrow's subject, a proposal created again
\* cannot be voted on by its old voters.
PropBound == drift = {} /\ reopened = {}

UserSymmetry == Permutations(Users)
=============================================================================
