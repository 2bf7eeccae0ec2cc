-------------------------- MODULE MCGeneratorProxy --------------------------
(***************************************************************************)
(* Instances of GeneratorProxy for TLC.                                    *)
(***************************************************************************)
EXTENDS GeneratorProxy, TLC

\* The owner may raise the fee of the boost.
ProxyConfigs ==
  {[boost_fee |-> fee, staker_rate |-> 5, max_quota |-> 6] : fee \in {2, 5}}

UserSymmetry == Permutations(Users)
=============================================================================
