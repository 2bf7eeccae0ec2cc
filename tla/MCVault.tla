------------------------------- MODULE MCVault -------------------------------
(***************************************************************************)
(* Instances of Vault for TLC.                                             *)
(***************************************************************************)
EXTENDS Vault, TLC

\* Ten percent of profit may use half of the vault, a fifth all of it.
Steps == 10 :> 50 @@ 20 :> 100

VaultConfig(time) ==
  [lsds |-> Lsds, unbond_time_s |-> time, utilization_method |-> Steps,
   protocol_performance_fee |-> 20, protocol_withdraw_fee |-> 5, immediate_withdraw_fee |-> 10]

VaultConfigs == {VaultConfig(1), VaultConfig(2)}

UserSymmetry == Permutations(Users)
=============================================================================
