---------------------------- MODULE MCEmpGauges ----------------------------
(***************************************************************************)
(* Instances of EmpGauges for TLC.                                         *)
(***************************************************************************)
EXTENDS EmpGauges

Emp(points, periods) == [umerit_points |-> points, decaying_period |-> periods]

\* Grants of one and of two parts, some with a remainder that decay leaves out.
EmpGrants ==
  {<<Emp(3, Some(2))>>, <<Emp(1, None)>>, <<Emp(2, Some(1)), Emp(4, Some(4))>>, <<Emp(4, Some(0))>>, <<>>}
=============================================================================
