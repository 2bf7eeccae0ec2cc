------------------------------- MODULE MCHub -------------------------------
(***************************************************************************)
(* Small instances of Hub for TLC.                                         *)
(***************************************************************************)
EXTENDS Hub

CONSTANTS u1, u2, v1, v2, v3

Chain1 == <<v1>>
Chain2 == <<v1, v2>>
Chain3 == <<v1, v2, v3>>
White1 == <<v1>>
White2 == <<v2, v1>>

UniformStrategy == [kind |-> Uniform]
GaugeStrategy(emp, count) ==
  [kind |-> Gauges, emp_gauges |-> emp, amp_factor |-> One \div 2,
   min_delegation |-> One \div 10, max_delegation |-> One \div 2, validator_count |-> count]

Config(strategy, fee, epoch, unbond, donations) ==
  [strategy |-> strategy, protocol_reward_fee |-> fee, epoch_period |-> epoch,
   unbond_period |-> unbond, allow_donations |-> donations]

\* A unit fee of the cap, an epoch of 1 and an unbonding period of 2.
Plain == Config(UniformStrategy, FeeCap, 1, 2, FALSE)
Margin == Config(UniformStrategy, FeeCap, 1, 3, FALSE)

Brief == Config(UniformStrategy, FeeCap, 1, 1, FALSE)
\* The gauges with and without merit points, and the uniform strategy with donations.
Managed == {Brief, Config(GaugeStrategy(TRUE, 2), 0, 1, 1, TRUE)}
Points == {v1 :> 1 @@ v2 :> 2, v1 :> 1 @@ v2 :> 0}

Symmetry == Permutations({u1, u2})
=============================================================================
