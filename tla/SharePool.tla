------------------------------ MODULE SharePool ------------------------------
(***************************************************************************)
(* What a contract promises that keeps the tokens of many holders in one   *)
(* pool and gives out shares of it: a deposit buys no more shares than it  *)
(* pays for, a withdrawal takes no more of the pool than its shares are    *)
(* worth, and nothing else takes from the pool or touches a share.         *)
(***************************************************************************)
EXTENDS Integers, Sums

CONSTANT Holders

VARIABLES
  pool,                \* the tokens in the pool
  share                \* the shares of every holder

poolVars == <<pool, share>>

total == Total(share)

PoolInit == pool = 0 /\ share = [h \in Holders |-> 0]

\* The first shares are sold at any price.
Deposit(h) ==
  LET amount == pool' - pool
      bought == share'[h] - share[h]
  IN  /\ share'[h] > share[h] /\ pool' > pool
      /\ total > 0 => bought * pool <= amount * total
      /\ \A g \in Holders \ {h} : share'[g] = share[g]

Withdraw(h) ==
  LET paid == pool - pool'
      sold == share[h] - share'[h]
  IN  /\ share'[h] < share[h] /\ pool' < pool
      /\ paid * total <= sold * pool
      /\ \A g \in Holders \ {h} : share'[g] = share[g]

\* Earnings, and gifts of third parties.
Grow == UNCHANGED share /\ pool' > pool

\* Shares are tokens.
Transfer(h, g) ==
  /\ share'[h] < share[h] /\ share'[h] + share'[g] = share[h] + share[g]
  /\ \A x \in Holders \ {g, h} : share'[x] = share[x]
  /\ UNCHANGED pool

PoolNext ==
  \/ \E h \in Holders : Deposit(h) \/ Withdraw(h)
  \/ \E h, g \in Holders : Transfer(h, g)
  \/ Grow

PoolSpec == PoolInit /\ [][PoolNext]_poolVars

=============================================================================
