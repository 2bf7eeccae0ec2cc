--------------------------- MODULE MCVotingEscrow ---------------------------
(***************************************************************************)
(* Instances of VotingEscrow for TLC.                                      *)
(***************************************************************************)
EXTENDS VotingEscrow, TLC

DriftBound == drift \subseteq {"late extension", "kept power"}

UserSymmetry == Permutations(Users)
=============================================================================
