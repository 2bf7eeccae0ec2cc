---------------------------- MODULE MCAlgorithms ----------------------------
(***************************************************************************)
(* Bounded inputs: three validators, whitelists that miss delegated        *)
(* validators or list them in another order, goals with and without        *)
(* rounding loss.                                                          *)
(***************************************************************************)
EXTENDS AlgorithmsCheck

CONSTANTS v1, v2, v3

Chain == <<v1, v2, v3>>
Lists == {<<v2>>, <<v3, v1>>, <<v2, v1, v3>>}
GoalSet == {[v \in {} |-> 0], v1 :> 6 @@ v3 :> 6, v1 :> 3 @@ v2 :> 4 @@ v3 :> 4, v2 :> 12}
=============================================================================
