-------------------------------- MODULE Sums --------------------------------
(***************************************************************************)
(* Totals of amounts.  The contracts keep amounts of coins and shares in   *)
(* maps and add them up with Iterator::sum.  A total is the number of      *)
(* units held: every key x contributes the f[x] pairs <<x, 1>> ..          *)
(* <<x, f[x]>>.  Counting units makes the laws of addition consequences of *)
(* the laws of Cardinality, which the proofs use.                          *)
(***************************************************************************)
EXTENDS Naturals, FiniteSets

\* The units held by key x when it holds n of them.
UnitsAt(x, n) == {x} \X (1..n)

\* All the units of the amounts f, a function into Nat.
Units(f) == UNION {UnitsAt(x, f[x]) : x \in DOMAIN f}

\* The total of the amounts f.
Total(f) == Cardinality(Units(f))

=============================================================================
