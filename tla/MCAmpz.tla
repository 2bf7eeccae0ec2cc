------------------------------- MODULE MCAmpz -------------------------------
(***************************************************************************)
(* Two users, one pair, one farm, and executions of every source to either *)
(* destination.  A basis point is a tenth, so that the fees on a handful   *)
(* of tokens are not all zero.                                             *)
(***************************************************************************)
EXTENDS Ampz

CONSTANTS u1, u2

Symmetry == Permutations(Users)

Funds == [a \in Assets |-> CASE a = LP -> 10 [] a = Luna -> 20 [] a = Astro -> 10 [] OTHER -> 0]

FarmSettings == {[fee |-> 20, delay |-> 2]}
FeeSettings ==
  {[fee |-> 1, operator |-> 1, receiver |-> "treasury"], [fee |-> 0, operator |-> 0, receiver |-> "operator"]}

Exec(source, asset, over, max, destination) ==
  [source |-> source, asset |-> asset, over |-> over, max |-> max, destination |-> destination,
   interval |-> 1, start |-> 0]

ExecutionChoices ==
  {Exec("claim", Luna, 0, 0, "amplifier"), Exec("astro_rewards", Astro, 0, 0, "farm"),
   Exec("wallet", Luna, 5, 10, "farm"), Exec("wallet", Astro, 5, 0, "amplifier")}
=============================================================================
