---------------------------- MODULE EscrowProofs ----------------------------
(***************************************************************************)
(* Proofs about the voting escrow.  The points of the users are typed and  *)
(* never start after the current period; together with the points of the   *)
(* blacklisted users, which hold no power at all, that makes PowerIsLocked *)
(* inductive (EscrowInv).                                                  *)
(*                                                                         *)
(* The rest is about the total.  Recalculate is the one line that starts   *)
(* at a point and takes off what is scheduled (RecalculateIs).  TotalInv   *)
(* says that the schedule after the last checkpoint covers the slopes of   *)
(* the locks that end there, and that the total's point has the users'     *)
(* power and fixed part; a checkpoint moves the point along its line, and  *)
(* a transaction of a user changes both sides by the same amount.          *)
(***************************************************************************)
EXTENDS VotingEscrow, SumsProofs

\* A point of a user's HISTORY.
Points == [power : Nat, start : Nat, end : Nat, slope : Nat, fixed : Nat]

\* LOCKED, and the latest point of each user, which no transaction dates ahead.
EscrowTypeOK ==
  /\ now \in Nat
  /\ blacklist \subseteq Users
  /\ locked \in [Users -> [amount : Nat, end : Nat]]
  /\ point \in [Users -> Points]
  /\ \A u \in Users : point[u].start <= Period

\* A point's line reaches zero at the end of the lock; it lies above that only when power
\* was kept.  Who has locked nothing has no power.
OnItsLine(pt, causes) ==
  /\ pt.power >= pt.slope * SatSub(pt.end, pt.start)
  /\ "kept power" \notin causes => pt.power = pt.slope * SatSub(pt.end, pt.start)
  /\ pt.fixed = 0 => pt.power = 0 /\ pt.slope = 0

\* What is known of one user: a lock that holds something has an end, a blacklisted
\* user has a point without power, and anyone else one that agrees with the lock.
UserInv(u) ==
  /\ OnItsLine(point[u], drift)
  /\ locked[u].amount > 0 => locked[u].end > 0
  /\ IF u \in blacklist
     THEN point[u].power = 0 /\ point[u].slope = 0 /\ point[u].fixed = 0
     ELSE /\ point[u].fixed = locked[u].amount
          /\ locked[u].amount > 0 => point[u].end = locked[u].end

\* The inductive invariant of the escrow's users.
EscrowInv == EscrowTypeOK /\ \A u \in Users : UserInv(u)

-----------------------------------------------------------------------------
(* Lemmas about the helpers.                                               *)

\* Dividing keeps a number natural: the Decimal and period arithmetic stays in range.
LEMMA DivNat ==
  ASSUME NEW a \in Nat, NEW b \in Nat \ {0}
  PROVE  a \div b \in Nat
  BY SMT

\* A product of two amounts is an amount.
LEMMA MulNat ==
  ASSUME NEW a \in Nat, NEW b \in Nat
  PROVE  a * b \in Nat
  BY SMT

\* saturating_sub stays natural, also where its second argument is negative.
LEMMA SatSubNat ==
  ASSUME NEW a \in Nat, NEW b \in Int
  PROVE  /\ SatSub(a, b) \in Int
         /\ b >= 0 => SatSub(a, b) \in Nat
  BY SMT DEF SatSub

\* get_periods_count of a time is a number of periods, and time only adds to them.
LEMMA PeriodsNat ==
  ASSUME NEW t \in Nat, NEW d \in Nat
  PROVE  /\ get_periods_count(t) \in Nat
         /\ get_periods_count(t) <= get_periods_count(t + d)
<1> WEEK \in Nat \ {0}
  BY EscrowAssumption
<1> QED
  BY SMT DEF get_periods_count

\* calc_coefficient divides by the longest lock, which lasts at least one period.
LEMMA CoefficientNat ==
  ASSUME NEW dt \in Nat
  PROVE  calc_coefficient(dt) \in Nat
<1> DEFINE max == get_periods_count(MAX_LOCK_TIME)
<1>1. max \in Nat /\ max >= 1
  <2>1. WEEK \in Nat \ {0} /\ MAX_LOCK_TIME \in Nat /\ MAX_LOCK_TIME >= WEEK
    BY EscrowAssumption
  <2> QED
    BY <2>1, SMT DEF get_periods_count
<1>2. max * 10 \in Nat \ {0}
  BY <1>1
<1>3. 90 * dt * One \in Nat
  BY MulNat, EscrowAssumption
<1> QED
  BY <1>2, <1>3, DivNat DEF calc_coefficient

\* What the coefficient makes of an amount is an amount.
LEMMA PowerNat ==
  ASSUME NEW dt \in Nat, NEW amount \in Nat
  PROVE  checked_mul_uint(calc_coefficient(dt), amount) \in Nat
<1>1. calc_coefficient(dt) * amount \in Nat
  BY CoefficientNat, MulNat
<1> QED
  BY <1>1, DivNat, EscrowAssumption DEF checked_mul_uint

\* The power of a point, asked for no earlier than it starts.
LEMMA VotingPowerNat ==
  ASSUME NEW pt \in Points, NEW p \in Nat, pt.start <= p
  PROVE  calc_voting_power(pt, p) \in Nat
<1>1. pt.slope \in Nat /\ pt.power \in Nat /\ pt.start \in Nat
  BY DEF Points
<1>2. p - pt.start \in Nat
  BY <1>1
<1>3. pt.slope * (p - pt.start) \in Nat
  BY <1>1, <1>2, MulNat
<1> QED
  BY <1>1, <1>3, SMT DEF calc_voting_power, SatSub

\* The decay of a point's power can be taken off in two parts, however the subtraction
\* saturates: up to the period of the vote, and from there on.
LEMMA DecayInParts ==
  ASSUME NEW pt \in Points, NEW p \in Nat, NEW q \in Nat, pt.start <= p, p <= q
  PROVE  SatSub(calc_voting_power(pt, p), pt.slope * (q - p)) = calc_voting_power(pt, q)
<1>1. pt.power \in Nat /\ pt.slope \in Nat /\ pt.start \in Nat
  BY DEF Points
<1> DEFINE a == pt.slope * (p - pt.start)
           b == pt.slope * (q - p)
           c == pt.slope * (q - pt.start)
<1>2. a \in Nat /\ b \in Nat /\ c \in Nat
  <2>1. p - pt.start \in Nat /\ q - p \in Nat /\ q - pt.start \in Nat
    BY <1>1
  <2> QED
    BY <1>1, <2>1, MulNat
<1>3. c = a + b
  BY <1>1, SMT
<1> HIDE DEF a, b, c
<1>4. SatSub(SatSub(pt.power, a), b) = SatSub(pt.power, c)
  BY <1>1, <1>2, <1>3, SMT DEF SatSub
<1> QED
  BY <1>4, Zenon DEF a, b, c, calc_voting_power

\* One user's amount changes: what the others have stays.
LEMMA OneUserMoves ==
  ASSUME NEW f \in [Users -> Nat], NEW h \in [Users -> Nat], NEW user \in Users,
         \A u \in Users \ {user} : h[u] = f[u]
  PROVE  /\ Total(f) \in Nat /\ Total(h) \in Nat /\ f[user] \in Nat /\ h[user] \in Nat
         /\ h[user] = 0 => Total(h) = SatSub(Total(f), f[user])
         /\ f[user] = 0 => Total(h) = Total(f) + h[user]
<1>1. IsFiniteSet(Users)
  BY EscrowAssumption
<1>2. Total(f) \in Nat /\ Total(h) \in Nat
  BY <1>1, SumType
<1>3. Total(h) + f[user] = Total(f) + h[user] /\ f[user] <= Total(f)
  BY <1>1, SumChange, SumElement
<1> QED
  BY <1>2, <1>3 DEF SatSub

\* Totals over the users.
LEMMA UsersTotal ==
  ASSUME NEW f \in [Users -> Nat]
  PROVE  Total(f) \in Nat
  BY SumType, EscrowAssumption

LEMMA UsersAdd ==
  ASSUME NEW f \in [Users -> Nat], NEW g \in [Users -> Nat], NEW h \in [Users -> Nat],
         \A u \in Users : h[u] = f[u] + g[u]
  PROVE  Total(h) = Total(f) + Total(g)
  BY SumAdd, EscrowAssumption

LEMMA UsersMono ==
  ASSUME NEW f \in [Users -> Nat], NEW g \in [Users -> Nat], \A u \in Users : g[u] <= f[u]
  PROVE  Total(g) <= Total(f)
  BY SumMono, EscrowAssumption

LEMMA UsersExtend ==
  ASSUME NEW S, S \subseteq Users, NEW f \in [S -> Nat], NEW g \in [Users -> Nat],
         \A u \in S : g[u] = f[u], \A u \in Users \ S : g[u] = 0
  PROVE  Total(g) = Total(f)
  BY SumExtend, EscrowAssumption

LEMMA UsersZero ==
  ASSUME NEW f \in [Users -> Nat], \A u \in Users : f[u] = 0
  PROVE  Total(f) = 0
  BY SumZero, EscrowAssumption

\* A map from which an entry has been removed.
LEMMA WithoutMap ==
  ASSUME NEW map, NEW key
  PROVE  /\ DOMAIN Without(map, key) = DOMAIN map \ {key}
         /\ \A k \in DOMAIN map \ {key} : Without(map, key)[k] = map[k]
  BY DEF Without, Restrict

LEMMA WithoutFunction ==
  ASSUME NEW map, NEW key
  PROVE  Without(map, key) = [k \in DOMAIN map \ {key} |-> map[k]]
  BY DEF Without, Restrict

\* A checkpoint gives the user a point that starts now, ends where it was asked to, and
\* has the deposit added to its fixed part; no other user's point changes.
LEMMA CheckpointPoint ==
  ASSUME EscrowTypeOK,
         NEW user \in Users, NEW add \in Nat, NEW amount \in Nat, NEW end \in Nat,
         checkpoint(user, add, amount, end)
  PROVE  \E pt \in Points :
           /\ point' = [point EXCEPT ![user] = pt]
           /\ pt.start = Period /\ pt.end = end
           /\ pt.fixed = point[user].fixed + add
           /\ drift \subseteq drift'
           /\ (point[user].fixed = 0 => point[user].power = 0 /\ point[user].slope = 0)
                /\ (pt.fixed = 0 => amount = 0) => OnItsLine(pt, drift')
<1> DEFINE old   == point[user]
           dt    == SatSub(end, Period)
           cur   == calc_voting_power(old, Period)
           power == IF end > old.end
                    THEN checked_mul_uint(calc_coefficient(dt), amount)
                    ELSE cur + checked_mul_uint(calc_coefficient(dt), add)
           slope == IF dt = 0 THEN 0 ELSE power \div dt
           more  == SatSub(slope * dt, cur)
           pt    == [power |-> cur + more, slope |-> slope, start |-> Period,
                     end |-> end, fixed |-> old.fixed + add]
<1>1. old \in Points /\ old.start <= Period /\ Period \in Nat
  BY PeriodsNat DEF EscrowTypeOK, Period
<1>2. dt \in Nat
  BY <1>1, SMT DEF SatSub
<1>3. cur \in Nat
  BY <1>1, VotingPowerNat
<1> HIDE DEF old, dt, cur
<1>4. power \in Nat
  <2>1. checked_mul_uint(calc_coefficient(dt), amount) \in Nat
    BY <1>2, PowerNat
  <2>2. cur + checked_mul_uint(calc_coefficient(dt), add) \in Nat
    <3>1. checked_mul_uint(calc_coefficient(dt), add) \in Nat
      BY <1>2, PowerNat
    <3> QED
      BY <1>3, <3>1
  <2> QED
    BY <2>1, <2>2, Zenon
<1> HIDE DEF power
<1>5. slope \in Nat
  BY <1>2, <1>4, DivNat
<1>6. slope * dt \in Nat
  BY <1>2, <1>5, MulNat
<1>7. more \in Nat
  BY <1>3, <1>6, SMT DEF SatSub
<1>8. old.fixed + add \in Nat
  BY <1>1 DEF Points
<1> HIDE DEF slope, more
<1>9. pt \in Points
  BY <1>1, <1>3, <1>5, <1>7, <1>8 DEF Points
<1>10. point' = [point EXCEPT ![user] = pt]
  BY DEF checkpoint, old, dt, cur, power, slope, more
<1>11. drift \subseteq drift' /\ (slope * dt < cur => "kept power" \in drift')
  BY DEF checkpoint, old, dt, cur, power, slope
<1>12. ASSUME old.fixed = 0 => old.power = 0 /\ old.slope = 0, pt.fixed = 0 => amount = 0
       PROVE  OnItsLine(pt, drift')
  <2>1. pt.slope * SatSub(pt.end, pt.start) = slope * dt
    BY DEF dt
  <2>2. cur + more >= slope * dt /\ ("kept power" \notin drift' => cur + more = slope * dt)
    <3> DEFINE full == slope * dt
    <3>1. full \in Nat /\ more = SatSub(full, cur)
      BY <1>6 DEF more
    <3> HIDE DEF full
    <3>2. cur + more >= full /\ (cur + more = full \/ full < cur)
      BY <1>3, <3>1 DEF SatSub
    <3> QED
      BY <1>11, <3>2, Zenon DEF full
  <2>3. ASSUME pt.fixed = 0 PROVE cur + more = 0 /\ slope = 0
    <3>1. old.fixed \in Nat /\ old.fixed + add = 0
      BY <1>1, <2>3 DEF Points
    <3>2. old.fixed = 0 /\ add = 0 /\ amount = 0
      BY <1>12, <2>3, <3>1
    <3>3. cur = 0
      <4>1. old.power = 0 /\ old.slope = 0 /\ old.start \in Nat
        BY <1>1, <1>12, <3>2 DEF Points
      <4> QED
        BY <1>1, <4>1 DEF cur, calc_voting_power, SatSub
    <3>4. checked_mul_uint(calc_coefficient(dt), 0) = 0
      <4>1. calc_coefficient(dt) \in Nat
        BY <1>2, CoefficientNat
      <4>2. calc_coefficient(dt) * 0 = 0
        BY <4>1
      <4> QED
        BY <4>2, EscrowAssumption DEF checked_mul_uint
    <3>5. power = 0
      BY <3>2, <3>3, <3>4 DEF power
    <3>6. slope = 0
      BY <1>2, <3>5 DEF slope
    <3> QED
      BY <1>2, <3>3, <3>6 DEF more, SatSub
  <2> QED
    BY <2>1, <2>2, <2>3 DEF OnItsLine
<1> QED
  BY <1>9, <1>10, <1>11, <1>12 DEF old

-----------------------------------------------------------------------------
(* The invariant.                                                          *)

\* The zero point lies on its line.
LEMMA ZeroPointOnLine ==
  ASSUME NEW p \in Nat, NEW causes
  PROVE  OnItsLine(ZeroPoint(p), causes)
<1> DEFINE pt == ZeroPoint(p)
<1>1. pt.power = 0 /\ pt.slope = 0 /\ pt.fixed = 0 /\ pt.start = p /\ pt.end = p
  BY DEF ZeroPoint
<1> HIDE DEF pt
<1>2. pt.slope * SatSub(pt.end, pt.start) = 0
  BY <1>1 DEF SatSub
<1>3. pt.power >= pt.slope * SatSub(pt.end, pt.start) /\ pt.power = pt.slope * SatSub(pt.end, pt.start)
  BY <1>1, <1>2
<1>4. OnItsLine(pt, causes)
  BY <1>1, <1>3, Zenon DEF OnItsLine
<1> QED
  BY <1>4 DEF pt

\* A point stays on its line when more has happened.
LEMMA LineStays ==
  ASSUME NEW pt, NEW causes, NEW more, causes \subseteq more, OnItsLine(pt, causes)
  PROVE  OnItsLine(pt, more)
  BY Zenon DEF OnItsLine

\* In the initial state nobody has a lock.
LEMMA EscrowInvInit ==
  ASSUME Init
  PROVE  EscrowInv
<1>1. now = 0 /\ blacklist = {} /\ Period \in Nat
  BY PeriodsNat DEF Init, Period
<1>2. Period >= 0
  BY <1>1
<1>3. \A u \in Users : locked[u] = [amount |-> 0, end |-> 0] /\ point[u] = ZeroPoint(0)
  BY DEF Init
<1>4. EscrowTypeOK
  BY <1>1, <1>2, <1>3 DEF Init, EscrowTypeOK, ZeroPoint, Points
<1>5. \A u \in Users : UserInv(u)
  BY <1>1, <1>3, ZeroPointOnLine DEF UserInv, ZeroPoint
<1> QED
  BY <1>4, <1>5 DEF EscrowInv

\* A transaction on one user's lock, seen from outside: it leaves a lock lk and a point pt
\* that agree, and touches the blacklist for that user only.
UserBecomes(user, lk, pt) ==
  /\ lk \in [amount : Nat, end : Nat] /\ pt \in Points
  /\ locked' = [locked EXCEPT ![user] = lk]
  /\ point' = [point EXCEPT ![user] = pt]
  /\ pt.start <= Period /\ now' = now
  /\ blacklist' \subseteq Users
  /\ \A u \in Users \ {user} : u \in blacklist' <=> u \in blacklist
  /\ lk.amount > 0 => lk.end > 0
  /\ drift \subseteq drift' /\ OnItsLine(pt, drift')
  /\ IF user \in blacklist'
     THEN pt.power = 0 /\ pt.slope = 0 /\ pt.fixed = 0
     ELSE pt.fixed = lk.amount /\ (lk.amount > 0 => pt.end = lk.end)

\* Such a transaction keeps the invariant and leaves the other users alone.
LEMMA OneUserChanges ==
  ASSUME EscrowInv, NEW user \in Users, NEW lk, NEW pt, UserBecomes(user, lk, pt)
  PROVE  /\ EscrowInv'
         /\ now' = now /\ drift \subseteq drift'
         /\ \A u \in Users \ {user} : locked'[u] = locked[u] /\ point'[u] = point[u]
<1>1. Period \in Nat /\ Period' = Period
  BY PeriodsNat DEF EscrowInv, EscrowTypeOK, Period, UserBecomes
<1>2. locked[user]' = lk /\ point[user]' = pt
  BY DEF EscrowInv, EscrowTypeOK, UserBecomes
<1>3. \A u \in Users \ {user} : locked'[u] = locked[u] /\ point'[u] = point[u]
  BY DEF EscrowInv, EscrowTypeOK, UserBecomes
<1>4. EscrowTypeOK'
  BY <1>1, <1>2, <1>3 DEF EscrowInv, EscrowTypeOK, UserBecomes
<1>5. ASSUME NEW u \in Users
      PROVE  UserInv(u)'
  <2>1. CASE u = user
    BY <1>2, <2>1 DEF UserInv, UserBecomes
  <2>2. CASE u # user
    BY <1>3, <2>2, LineStays DEF EscrowInv, UserInv, UserBecomes
  <2> QED
    BY <2>1, <2>2
<1> QED
  BY <1>3, <1>4, <1>5 DEF EscrowInv, UserBecomes

\* A checkpoint of a user who is not, or no longer, blacklisted makes their point agree
\* with the lock.
LEMMA CheckpointBecomes ==
  ASSUME EscrowInv, NEW user \in Users, NEW add \in Nat, NEW lk \in [amount : Nat, end : Nat],
         checkpoint(user, add, lk.amount, lk.end),
         locked' = [locked EXCEPT ![user] = lk],
         now' = now, blacklist' = blacklist \ {user},
         lk.end > 0, point[user].fixed + add = lk.amount
  PROVE  \E pt : UserBecomes(user, lk, pt)
<1>1. Period \in Nat
  BY PeriodsNat DEF EscrowInv, EscrowTypeOK, Period
<1>2. lk.amount \in Nat /\ lk.end \in Nat
  OBVIOUS
<1>3. PICK pt \in Points :
        /\ point' = [point EXCEPT ![user] = pt]
        /\ pt.start = Period /\ pt.end = lk.end
        /\ pt.fixed = point[user].fixed + add
        /\ drift \subseteq drift'
        /\ (point[user].fixed = 0 => point[user].power = 0 /\ point[user].slope = 0)
             /\ (pt.fixed = 0 => lk.amount = 0) => OnItsLine(pt, drift')
  BY <1>2, CheckpointPoint DEF EscrowInv
<1>4. OnItsLine(pt, drift')
  BY <1>3 DEF EscrowInv, UserInv, OnItsLine
<1>5. UserBecomes(user, lk, pt)
  BY <1>1, <1>3, <1>4 DEF UserBecomes, EscrowInv, EscrowTypeOK
<1> QED
  BY <1>5

\* A lock of which one field is set.
LEMMA LockFieldSet ==
  ASSUME NEW user \in Users, NEW n, locked \in [Users -> [amount : Nat, end : Nat]]
  PROVE  /\ [locked EXCEPT ![user].amount = n] =
              [locked EXCEPT ![user] = [amount |-> n, end |-> locked[user].end]]
         /\ [locked EXCEPT ![user].end = n] =
              [locked EXCEPT ![user] = [amount |-> locked[user].amount, end |-> n]]
<1> DEFINE lk == locked[user]
<1>1. lk \in [amount : Nat, end : Nat]
  OBVIOUS
<1> HIDE DEF lk
<1>2. /\ [lk EXCEPT !.amount = n] = [amount |-> n, end |-> lk.end]
      /\ [lk EXCEPT !.end = n] = [amount |-> lk.amount, end |-> n]
  BY <1>1
<1> QED
  BY <1>2, Zenon DEF lk

\* create_lock, for a user without one.
LEMMA CreateLockBecomes ==
  ASSUME EscrowInv, NEW user \in Users, NEW amount \in Amounts, NEW time \in LockTimes,
         create_lock(user, amount, time)
  PROVE  \E lk, pt : UserBecomes(user, lk, pt)
<1> DEFINE lk == [amount |-> amount, end |-> Period + get_periods_count(time)]
<1>1. Period \in Nat /\ amount \in Nat /\ get_periods_count(time) \in Nat
  BY PeriodsNat, EscrowAssumption DEF EscrowInv, EscrowTypeOK, Period
<1>2. get_periods_count(time) > 0
  BY <1>1, EscrowAssumption DEF create_lock, assert_periods_remaining
<1>3. lk \in [amount : Nat, end : Nat] /\ lk.end > 0
  BY <1>1, <1>2
<1>4. point[user].fixed = 0
  BY DEF create_lock, EscrowInv, UserInv
<1>5. checkpoint(user, amount, lk.amount, lk.end) /\ locked' = [locked EXCEPT ![user] = lk]
  BY DEF create_lock
<1>6. now' = now /\ blacklist' = blacklist \ {user}
  BY DEF create_lock
<1>7. point[user].fixed + amount = lk.amount
  BY <1>1, <1>4
<1> HIDE DEF lk
<1> QED
  BY <1>1, <1>3, <1>5, <1>6, <1>7, CheckpointBecomes

\* deposit_for, into a lock that holds something.
LEMMA DepositBecomes ==
  ASSUME EscrowInv, NEW user \in Users \ blacklist, NEW amount \in Amounts, NEW extend \in BOOLEAN,
         deposit_for(user, amount, extend)
  PROVE  \E lk, pt : UserBecomes(user, lk, pt)
<1>1. Period \in Nat /\ amount \in Nat /\ MIN_LOCK_PERIODS \in Nat
  BY PeriodsNat, EscrowAssumption DEF EscrowInv, EscrowTypeOK, Period
<1>2. /\ locked[user] \in [amount : Nat, end : Nat] /\ locked[user].amount > 0
      /\ locked[user].end > 0 /\ point[user].end = locked[user].end
      /\ point[user].fixed = locked[user].amount
  BY DEF EscrowInv, EscrowTypeOK, UserInv, deposit_for
<1>3. now' = now /\ blacklist' = blacklist \ {user}
  BY DEF deposit_for
<1> DEFINE Deposited(end) == [amount |-> locked[user].amount + amount, end |-> end]
<1>4. ASSUME NEW end \in Nat, end > 0,
             locked' = [locked EXCEPT ![user] = Deposited(end)],
             checkpoint(user, amount, locked[user].amount + amount, end)
      PROVE  \E lk, pt : UserBecomes(user, lk, pt)
  <2> DEFINE lk == Deposited(end)
  <2>1. lk \in [amount : Nat, end : Nat] /\ lk.end > 0
    BY <1>1, <1>2, <1>4
  <2>2. checkpoint(user, amount, lk.amount, lk.end) /\ locked' = [locked EXCEPT ![user] = lk]
    BY <1>4
  <2>3. point[user].fixed + amount = lk.amount
    BY <1>2
  <2> HIDE DEF lk
  <2> QED
    BY <1>1, <1>3, <2>1, <2>2, <2>3, CheckpointBecomes
<1>5. CASE extend
  <2> DEFINE end == IF locked[user].end < Period + MIN_LOCK_PERIODS
                    THEN Period + MIN_LOCK_PERIODS ELSE locked[user].end
  <2>1. end \in Nat /\ end > 0
    BY <1>1, <1>2
  <2>2. DepositExtending(user, amount)
    BY <1>5 DEF deposit_for
  <2>3. locked' = [locked EXCEPT ![user] = Deposited(end)]
    BY <2>2 DEF DepositExtending
  <2>4. checkpoint(user, amount, locked[user].amount + amount, end)
    BY <1>2, <2>2 DEF DepositExtending
  <2> HIDE DEF end, Deposited
  <2> QED
    BY <1>4, <2>1, <2>3, <2>4
<1>6. CASE ~ extend
  <2>1. DepositKeepingEnd(user, amount)
    BY <1>6 DEF deposit_for
  <2>2. locked' = [locked EXCEPT ![user] = Deposited(locked[user].end)]
    BY <2>1, LockFieldSet, Zenon DEF DepositKeepingEnd, EscrowInv, EscrowTypeOK
  <2>3. checkpoint(user, amount, locked[user].amount + amount, locked[user].end)
    BY <1>2, <2>1 DEF DepositKeepingEnd
  <2>4. locked[user].end \in Nat
    BY <1>2
  <2> HIDE DEF Deposited
  <2> QED
    BY <1>2, <1>4, <2>2, <2>3, <2>4
<1> QED
  BY <1>5, <1>6

\* extend_lock_time, of a lock that holds something.
LEMMA ExtendBecomes ==
  ASSUME EscrowInv, NEW user \in Users, NEW time \in LockTimes, extend_lock_time(user, time)
  PROVE  \E lk, pt : UserBecomes(user, lk, pt)
<1> DEFINE from == IF locked[user].end < Period THEN Period ELSE locked[user].end
           end  == from + get_periods_count(time)
           lk   == [amount |-> locked[user].amount, end |-> end]
<1>1. Period \in Nat /\ get_periods_count(time) \in Nat
  BY PeriodsNat, EscrowAssumption DEF EscrowInv, EscrowTypeOK, Period
<1>2. /\ locked[user] \in [amount : Nat, end : Nat] /\ locked[user].end > 0
      /\ point[user].fixed = locked[user].amount
  BY DEF EscrowInv, EscrowTypeOK, UserInv, extend_lock_time
<1>3. end \in Nat /\ end > 0
  BY <1>1, <1>2
<1>4. /\ locked' = [locked EXCEPT ![user].end = end]
      /\ checkpoint(user, 0, locked[user].amount, end)
      /\ now' = now /\ blacklist' = blacklist \ {user}
  BY DEF extend_lock_time
<1> HIDE DEF end
<1>5. locked' = [locked EXCEPT ![user] = lk]
  BY <1>4, LockFieldSet, Zenon DEF EscrowInv, EscrowTypeOK
<1>6. lk \in [amount : Nat, end : Nat] /\ lk.end > 0
  BY <1>2, <1>3
<1>7. checkpoint(user, 0, lk.amount, lk.end) /\ point[user].fixed + 0 = lk.amount
  BY <1>2, <1>4
<1> HIDE DEF lk
<1> QED
  BY <1>4, <1>5, <1>6, <1>7, CheckpointBecomes

\* withdraw and Blacklist leave the zero point of the current period.
LEMMA ZeroPointType ==
  ASSUME EscrowInv
  PROVE  /\ ZeroPoint(Period) \in Points /\ ZeroPoint(Period).start <= Period
         /\ \A causes : OnItsLine(ZeroPoint(Period), causes)
<1>1. Period \in Nat
  BY PeriodsNat DEF EscrowInv, EscrowTypeOK, Period
<1>2. ZeroPoint(Period) \in Points /\ ZeroPoint(Period).start <= Period
  BY <1>1 DEF ZeroPoint, Points
<1> QED
  BY <1>1, <1>2, ZeroPointOnLine

\* withdraw, by a user on or off the blacklist.
LEMMA WithdrawBecomes ==
  ASSUME EscrowInv, NEW user \in Users, withdraw(user)
  PROVE  \E lk, pt : UserBecomes(user, lk, pt)
<1> DEFINE lk == [amount |-> 0, end |-> locked[user].end]
<1>1. locked[user] \in [amount : Nat, end : Nat]
  BY DEF EscrowInv, EscrowTypeOK
<1>2. locked' = [locked EXCEPT ![user] = lk]
  BY LockFieldSet, Zenon DEF withdraw, EscrowInv, EscrowTypeOK
<1>3. lk \in [amount : Nat, end : Nat] /\ lk.amount = 0
  BY <1>1
<1>4. /\ point' = [point EXCEPT ![user] = ZeroPoint(Period)] /\ now' = now /\ blacklist' = blacklist
      /\ drift \subseteq drift'
  BY DEF withdraw
<1>5. /\ ZeroPoint(Period).power = 0 /\ ZeroPoint(Period).slope = 0 /\ ZeroPoint(Period).fixed = 0
  BY DEF ZeroPoint
<1> HIDE DEF lk
<1>6. UserBecomes(user, lk, ZeroPoint(Period))
  BY <1>2, <1>3, <1>4, <1>5, ZeroPointType DEF UserBecomes, EscrowInv, EscrowTypeOK
<1> QED
  BY <1>6

\* update_blacklist, appending an address.
LEMMA BlacklistBecomes ==
  ASSUME EscrowInv, NEW user \in Users, Blacklist(user)
  PROVE  \E lk, pt : UserBecomes(user, lk, pt)
<1>1. /\ locked[user] \in [amount : Nat, end : Nat]
      /\ locked[user].amount > 0 => locked[user].end > 0
  BY DEF EscrowInv, EscrowTypeOK, UserInv
<1>2. locked' = [locked EXCEPT ![user] = locked[user]]
  BY DEF Blacklist, EscrowInv, EscrowTypeOK
<1>3. /\ point' = [point EXCEPT ![user] = ZeroPoint(Period)] /\ now' = now
      /\ blacklist' = blacklist \cup {user} /\ drift \subseteq drift'
  BY DEF Blacklist
<1>4. ZeroPoint(Period).power = 0 /\ ZeroPoint(Period).slope = 0 /\ ZeroPoint(Period).fixed = 0
  BY DEF ZeroPoint
<1>5. UserBecomes(user, locked[user], ZeroPoint(Period))
  BY <1>1, <1>2, <1>3, <1>4, ZeroPointType DEF UserBecomes, EscrowInv, EscrowTypeOK
<1> QED
  BY <1>5

\* update_blacklist, removing an address.
LEMMA WhitelistBecomes ==
  ASSUME EscrowInv, NEW user \in Users, Whitelist(user)
  PROVE  \E lk, pt : UserBecomes(user, lk, pt)
<1>1. /\ locked[user] \in [amount : Nat, end : Nat]
      /\ locked[user].amount > 0 => locked[user].end > 0
      /\ point[user] \in Points /\ point[user].fixed = 0 /\ point[user].start <= Period
  BY DEF Whitelist, EscrowInv, EscrowTypeOK, UserInv
<1>2. /\ locked' = [locked EXCEPT ![user] = locked[user]]
      /\ now' = now /\ blacklist' = blacklist \ {user}
  BY DEF Whitelist, EscrowInv, EscrowTypeOK
<1>3. CASE locked[user].end > 0
  <2>1. checkpoint(user, locked[user].amount, locked[user].amount, locked[user].end)
    BY <1>3 DEF Whitelist
  <2>2. locked[user].amount \in Nat /\ point[user].fixed + locked[user].amount = locked[user].amount
    BY <1>1
  <2> QED
    BY <1>1, <1>2, <1>3, <2>1, <2>2, CheckpointBecomes
<1>4. CASE ~ (locked[user].end > 0)
  <2>1. locked[user].amount = 0
    BY <1>1, <1>4
  <2>2. point' = [point EXCEPT ![user] = point[user]] /\ drift' = drift
    BY <1>4 DEF Whitelist, EscrowInv, EscrowTypeOK
  <2>3. UserBecomes(user, locked[user], point[user])
    BY <1>1, <1>2, <2>1, <2>2 DEF UserBecomes, EscrowInv, EscrowTypeOK, UserInv
  <2> QED
    BY <2>3
<1> QED
  BY <1>3, <1>4

\* Every transaction of the escrow keeps the invariant and the other users' locks.
LEMMA LockChangeKeeps ==
  ASSUME EscrowInv, NEW user \in Users, LockChange(user)
  PROVE  /\ EscrowInv'
         /\ now' = now /\ drift \subseteq drift'
         /\ \A u \in Users \ {user} : locked'[u] = locked[u] /\ point'[u] = point[u]
<1>1. \E lk, pt : UserBecomes(user, lk, pt)
  <2>1. ASSUME NEW amount \in Amounts, NEW time \in LockTimes, create_lock(user, amount, time)
        PROVE  \E lk, pt : UserBecomes(user, lk, pt)
    BY <2>1, CreateLockBecomes
  <2>2. ASSUME NEW amount \in Amounts, NEW extend \in BOOLEAN, ExtendLockAmount(user, amount, extend)
        PROVE  \E lk, pt : UserBecomes(user, lk, pt)
    BY <2>2, DepositBecomes DEF ExtendLockAmount
  <2>3. ASSUME NEW sender \in Users, NEW amount \in Amounts, DepositFor(sender, user, amount)
        PROVE  \E lk, pt : UserBecomes(user, lk, pt)
    BY <2>3, DepositBecomes DEF DepositFor
  <2>4. ASSUME NEW time \in LockTimes, extend_lock_time(user, time)
        PROVE  \E lk, pt : UserBecomes(user, lk, pt)
    BY <2>4, ExtendBecomes
  <2>5. CASE withdraw(user)
    BY <2>5, WithdrawBecomes
  <2>6. CASE Blacklist(user)
    BY <2>6, BlacklistBecomes
  <2>7. CASE Whitelist(user)
    BY <2>7, WhitelistBecomes
  <2> QED
    BY <2>1, <2>2, <2>3, <2>4, <2>5, <2>6, <2>7 DEF LockChange
<1> QED
  BY <1>1, OneUserChanges

\* Time only moves the current period on.
LEMMA WaitKeeps ==
  ASSUME EscrowInv, NEW step \in TimeSteps, Wait(step)
  PROVE  EscrowInv' /\ Period' >= Period
<1>1. step \in Nat /\ now \in Nat /\ now' = now + step
  BY EscrowAssumption DEF Wait, EscrowInv, EscrowTypeOK
<1>2. Period \in Nat /\ Period' \in Nat /\ Period' >= Period
  BY <1>1, PeriodsNat DEF Period
<1>3. /\ point' = point /\ locked' = locked /\ blacklist' = blacklist /\ drift' = drift
      /\ now' \in Nat
  BY <1>1 DEF Wait
<1>4. \A u \in Users : point[u].start \in Nat /\ point[u].start <= Period
  BY DEF EscrowInv, EscrowTypeOK, Points
<1>5. EscrowTypeOK'
  BY <1>2, <1>3, <1>4 DEF EscrowInv, EscrowTypeOK
<1>6. \A u \in Users : UserInv(u)'
  BY <1>3 DEF EscrowInv, UserInv
<1> QED
  BY <1>2, <1>5, <1>6 DEF EscrowInv

\* A step that leaves the escrow alone keeps its invariant.
LEMMA EscrowStutters ==
  ASSUME EscrowInv, UNCHANGED escrowVars
  PROVE  EscrowInv'
  BY DEF escrowVars, EscrowInv, EscrowTypeOK, UserInv, Period

\* The invariant says what is promised of the users' power.
LEMMA EscrowInvImplies ==
  ASSUME EscrowInv
  PROVE  PowerIsLocked
<1> SUFFICES ASSUME NEW u \in Users, u \in blacklist,
                    NEW p \in Period..(Period + get_periods_count(MAX_LOCK_TIME) + 1)
             PROVE  get_user_vamp_at_period(u, p) = 0
  BY DEF EscrowInv, UserInv, PowerIsLocked
<1>1. p \in Int /\ point[u].start \in Int
  BY DEF EscrowInv, EscrowTypeOK, Points
<1>2. point[u].power = 0 /\ point[u].slope = 0 /\ point[u].fixed = 0
  BY DEF EscrowInv, UserInv
<1> QED
  BY <1>1, <1>2 DEF get_user_vamp_at_period, calc_voting_power, SatSub

\* At every time, in the escrow's every transaction: the fixed part of a user's power is
\* the amount in LOCKED and decays to the lock's end, and a blacklisted user has no power
\* in any period to come.
THEOREM PowerStaysLocked == Spec => []PowerIsLocked
<1>1. Init => EscrowInv
  BY EscrowInvInit
<1>2. EscrowInv /\ [Next]_escrowVars => EscrowInv'
  BY LockChangeKeeps, WaitKeeps, EscrowStutters DEF Next
<1>3. EscrowInv => PowerIsLocked
  BY EscrowInvImplies
<1> QED
  BY <1>1, <1>2, <1>3, PTL DEF Spec


-----------------------------------------------------------------------------
(* The line of the total.  Recalculate follows a recursive function; that  *)
(* there is one, and only one, is shown by looking at the first period for *)
(* which it would fail.                                                    *)

\* f is the line that starts with pt and follows the changes up to period b.
IsLine(f, pt, changes, b) ==
  /\ f \in [pt.start..b -> Points]
  /\ f[pt.start] = pt
  /\ \A p \in (pt.start + 1)..b : f[p] = NextPoint(f[p - 1], At(changes, p), p)

\* A map of slope changes by period.
Changes == UNION {[D -> Nat] : D \in {S \in SUBSET Nat : IsFiniteSet(S)}}

\* The entry of a map of changes.
LEMMA AtNat ==
  ASSUME NEW changes \in Changes, NEW p
  PROVE  At(changes, p) \in Nat
  BY DEF Changes, At

\* The fields of the next point of a line.
LEMMA NextPointIs ==
  ASSUME NEW pt \in Points, NEW change \in Nat, NEW p \in Nat
  PROVE  /\ NextPoint(pt, change, p) \in Points
         /\ NextPoint(pt, change, p).start = p
         /\ NextPoint(pt, change, p).end = pt.end
         /\ NextPoint(pt, change, p).fixed = pt.fixed
         /\ NextPoint(pt, change, p).power = SatSub(pt.power, pt.slope)
         /\ NextPoint(pt, change, p).slope = SatSub(pt.slope, change)
<1>1. pt.power \in Nat /\ pt.slope \in Nat
  BY DEF Points
<1> DEFINE power == SatSub(pt.power, pt.slope)
           slope == SatSub(pt.slope, change)
<1>2. power \in Nat /\ slope \in Nat
  BY <1>1, SMT DEF SatSub
<1>3. NextPoint(pt, change, p) = [[[pt EXCEPT !.start = p] EXCEPT !.power = power] EXCEPT !.slope = slope]
  BY Zenon DEF NextPoint
<1> HIDE DEF power, slope
<1>4. [[[pt EXCEPT !.start = p] EXCEPT !.power = power] EXCEPT !.slope = slope] =
        [power |-> power, start |-> p, end |-> pt.end, slope |-> slope, fixed |-> pt.fixed]
  <2> DEFINE a == [pt EXCEPT !.start = p]
             b == [a EXCEPT !.power = power]
  <2>1. a = [power |-> pt.power, start |-> p, end |-> pt.end, slope |-> pt.slope, fixed |-> pt.fixed]
    BY DEF Points
  <2> HIDE DEF a
  <2>2. b = [power |-> power, start |-> p, end |-> pt.end, slope |-> pt.slope, fixed |-> pt.fixed]
    BY <2>1
  <2> HIDE DEF b
  <2>3. [b EXCEPT !.slope = slope] =
          [power |-> power, start |-> p, end |-> pt.end, slope |-> slope, fixed |-> pt.fixed]
    BY <2>2
  <2> QED
    BY <2>3, Zenon DEF a, b
<1>5. pt.end \in Nat /\ pt.fixed \in Nat
  BY DEF Points
<1> QED
  BY <1>2, <1>3, <1>4, <1>5 DEF power, slope, Points

\* Every point has a line.
LEMMA LineExists ==
  ASSUME NEW pt \in Points, NEW changes \in Changes, NEW b \in Nat, pt.start <= b
  PROVE  \E f : IsLine(f, pt, changes, b)
<1> DEFINE Bad == {n \in Nat : pt.start <= n /\ ~ \E f : IsLine(f, pt, changes, n)}
<1>1. pt.start \in Nat
  BY DEF Points
<1>2. SUFFICES ASSUME Bad # {} PROVE FALSE
  BY Zenon
<1>3. PICK n \in Bad : \A m \in Bad : n <= m
  <2>1. Bad \subseteq Nat
    OBVIOUS
  <2> HIDE DEF Bad
  <2> QED
    BY <1>2, <2>1, NatMin
<1>4. n \in Nat /\ pt.start <= n /\ ~ \E f : IsLine(f, pt, changes, n)
  BY Zenon
<1>5. n # pt.start
  <2> SUFFICES ASSUME n = pt.start PROVE FALSE
    OBVIOUS
  <2> DEFINE f == [p \in pt.start..n |-> pt]
  <2>1. f \in [pt.start..n -> Points] /\ f[pt.start] = pt
    BY <1>1
  <2>2. (pt.start + 1)..n = {}
    BY <1>1
  <2> HIDE DEF f
  <2>3. IsLine(f, pt, changes, n)
    BY <2>1, <2>2 DEF IsLine
  <2> QED
    BY <1>4, <2>3
<1>6. n - 1 \in Nat /\ pt.start <= n - 1 /\ n - 1 \notin Bad
  <2>1. n - 1 \in Nat /\ pt.start <= n - 1
    BY <1>1, <1>4, <1>5
  <2>2. ~ (n <= n - 1)
    BY <1>4
  <2> QED
    BY <1>3, <2>1, <2>2, Zenon
<1>7. PICK f : IsLine(f, pt, changes, n - 1)
  BY <1>6, Zenon
<1> HIDE DEF Bad
<1> DEFINE next == NextPoint(f[n - 1], At(changes, n), n)
           g    == [p \in pt.start..n |-> IF p = n THEN next ELSE f[p]]
<1>8. next \in Points
  <2>1. f[n - 1] \in Points
    BY <1>1, <1>6, <1>7 DEF IsLine
  <2>2. At(changes, n) \in Nat
    BY AtNat
  <2> QED
    BY <1>4, <2>1, <2>2, NextPointIs
<1> HIDE DEF next
<1>9. /\ \A p \in pt.start..(n - 1) : g[p] = f[p] /\ f[p] \in Points
      /\ g[n] = next /\ g \in [pt.start..n -> Points]
  <2>1. \A p \in pt.start..(n - 1) : p \in pt.start..n /\ p # n /\ f[p] \in Points
    BY <1>1, <1>4, <1>7 DEF IsLine
  <2>2. \A p \in pt.start..n : p = n \/ p \in pt.start..(n - 1)
    BY <1>1, <1>4
  <2>3. n \in pt.start..n
    BY <1>1, <1>4
  <2> QED
    BY <1>8, <2>1, <2>2, <2>3
<1> HIDE DEF g
<1>10. g[pt.start] = pt
  BY <1>1, <1>6, <1>7, <1>9 DEF IsLine
<1>11. ASSUME NEW p \in (pt.start + 1)..n
       PROVE  g[p] = NextPoint(g[p - 1], At(changes, p), p)
  <2>1. p - 1 \in pt.start..(n - 1)
    BY <1>1, <1>4
  <2>2. g[p - 1] = f[p - 1]
    BY <1>9, <2>1
  <2>3. CASE p = n
    BY <1>9, <2>2, <2>3 DEF next
  <2>4. CASE p # n
    <3>1. p \in (pt.start + 1)..(n - 1) /\ p \in pt.start..(n - 1)
      BY <1>1, <1>4, <2>4
    <3> QED
      BY <1>7, <1>9, <2>2, <3>1 DEF IsLine
  <2> QED
    BY <2>3, <2>4
<1>12. IsLine(g, pt, changes, n)
  BY <1>9, <1>10, <1>11 DEF IsLine
<1> QED
  BY <1>4, <1>12

\* Recalculate follows the line.
LEMMA RecalculateIs ==
  ASSUME NEW pt \in Points, NEW changes, NEW b \in Nat, pt.start <= b,
         NEW f, IsLine(f, pt, changes, b)
  PROVE  Recalculate(pt, changes, b) = f[b]
<1> DEFINE Follows(g) == g = [p \in pt.start..b |->
                                IF p = pt.start THEN pt ELSE NextPoint(g[p - 1], At(changes, p), p)]
           line       == CHOOSE g : Follows(g)
<1>1. pt.start \in Nat
  BY DEF Points
<1>2. Follows(f)
  <2> DEFINE F == [p \in pt.start..b |->
                     IF p = pt.start THEN pt ELSE NextPoint(f[p - 1], At(changes, p), p)]
  <2>1. ASSUME NEW p \in pt.start..b PROVE f[p] = F[p]
    <3>1. CASE p = pt.start
      BY <3>1 DEF IsLine
    <3>2. CASE p # pt.start
      <4>1. p \in (pt.start + 1)..b
        BY <1>1, <3>2
      <4> QED
        BY <3>2, <4>1 DEF IsLine
    <3> QED
      BY <3>1, <3>2
  <2>2. f = [p \in pt.start..b |-> f[p]]
    BY DEF IsLine
  <2> QED
    BY <2>1, <2>2, Zenon
<1>3. Follows(line)
  BY <1>2, Zenon
<1>4. Recalculate(pt, changes, b) = line[b]
  BY DEF Recalculate
<1>5. \A p \in pt.start..b :
        line[p] = IF p = pt.start THEN pt ELSE NextPoint(line[p - 1], At(changes, p), p)
  BY <1>3, Zenon
<1> HIDE DEF line, Follows
<1> DEFINE Bad == {p \in pt.start..b : line[p] # f[p]}
<1>6. Bad = {}
  <2> SUFFICES ASSUME Bad # {} PROVE FALSE
    OBVIOUS
  <2>1. Bad \subseteq Nat
    BY <1>1
  <2>2. PICK n \in Bad : \A m \in Bad : n <= m
    <3> HIDE DEF Bad
    <3> QED
      BY <2>1, NatMin
  <2>3. n \in pt.start..b /\ line[n] # f[n]
    BY Zenon
  <2>4. CASE n = pt.start
    BY <1>5, <2>3, <2>4 DEF IsLine
  <2>5. CASE n # pt.start
    <3>1. n - 1 \in pt.start..b /\ n \in (pt.start + 1)..b /\ ~ (n <= n - 1)
      BY <1>1, <2>3, <2>5
    <3>2. line[n - 1] = f[n - 1]
      BY <2>2, <3>1, Zenon
    <3> QED
      BY <1>5, <2>3, <2>5, <3>1, <3>2 DEF IsLine
  <2> QED
    BY <2>4, <2>5
<1>7. b \in pt.start..b
  BY <1>1
<1> QED
  BY <1>4, <1>6, <1>7

-----------------------------------------------------------------------------
(* The slope changes still to come.                                        *)

\* What is scheduled to be taken off after period q.
After(changes, q) == Total([p \in DOMAIN changes |-> IF p > q THEN changes[p] ELSE 0])

\* A finite set of periods.
Periods(D) == IsFiniteSet(D) /\ D \subseteq Nat

\* A map of changes has finitely many entries.
LEMMA ChangesMap ==
  ASSUME NEW changes \in Changes
  PROVE  /\ IsFiniteSet(DOMAIN changes) /\ DOMAIN changes \subseteq Nat
         /\ changes \in [DOMAIN changes -> Nat]
<1>1. PICK D \in {S \in SUBSET Nat : IsFiniteSet(S)} : changes \in [D -> Nat]
  BY Zenon DEF Changes
<1>2. DOMAIN changes = D
  BY <1>1
<1> QED
  BY <1>1, <1>2

\* A map of changes is one that has these properties.
LEMMA IsChanges ==
  ASSUME NEW changes, NEW D, IsFiniteSet(D), D \subseteq Nat, changes \in [D -> Nat]
  PROVE  changes \in Changes
  BY Zenon DEF Changes

\* The total of the changes to come can be taken over any larger set of periods.
LEMMA AfterOver ==
  ASSUME NEW changes \in Changes, NEW q \in Nat,
         NEW D, Periods(D), DOMAIN changes \subseteq D
  PROVE  /\ [p \in D |-> IF p > q THEN At(changes, p) ELSE 0] \in [D -> Nat]
         /\ After(changes, q) = Total([p \in D |-> IF p > q THEN At(changes, p) ELSE 0])
         /\ After(changes, q) \in Nat
<1> DEFINE f == [p \in DOMAIN changes |-> IF p > q THEN changes[p] ELSE 0]
           g == [p \in D |-> IF p > q THEN At(changes, p) ELSE 0]
<1>1. changes \in [DOMAIN changes -> Nat]
  BY ChangesMap
<1>2. f \in [DOMAIN changes -> Nat]
  BY <1>1
<1>3. g \in [D -> Nat]
  BY AtNat
<1>4. \A p \in DOMAIN changes : g[p] = f[p]
  BY DEF At
<1>5. \A p \in D \ DOMAIN changes : g[p] = 0
  BY DEF At
<1> HIDE DEF f, g
<1>6. Total(g) = Total(f) /\ Total(g) \in Nat
  <2>1. Total(g) = Total(f)
    BY <1>2, <1>3, <1>4, <1>5, SumExtend
  <2>2. Total(g) \in Nat
    BY <1>3, SumType DEF Periods
  <2> QED
    BY <2>1, <2>2
<1> QED
  BY <1>3, <1>6 DEF f, g, After

\* From one period to the next, the change scheduled there has been taken off.
LEMMA AfterStep ==
  ASSUME NEW changes \in Changes, NEW q \in Nat
  PROVE  /\ After(changes, q) = At(changes, q + 1) + After(changes, q + 1)
         /\ After(changes, q) \in Nat /\ After(changes, q + 1) \in Nat
<1> DEFINE D == DOMAIN changes \cup {q + 1}
           f == [p \in D |-> IF p > q THEN At(changes, p) ELSE 0]
           g == [p \in D |-> IF p > q + 1 THEN At(changes, p) ELSE 0]
<1>1. /\ Periods(D) /\ IsFiniteSet(D) /\ D \subseteq Nat
      /\ DOMAIN changes \subseteq D /\ q + 1 \in D
  BY ChangesMap, FS_AddElement DEF Periods
<1>2. At(changes, q + 1) \in Nat
  BY AtNat
<1>3. f[q + 1] = At(changes, q + 1) /\ g[q + 1] = 0
  BY <1>1
<1>4. \A p \in D \ {q + 1} : g[p] = f[p]
  <2>1. \A p \in D \ {q + 1} : p > q <=> p > q + 1
    BY <1>1
  <2> QED
    BY <2>1
<1> HIDE DEF D
<1>5. /\ f \in [D -> Nat] /\ After(changes, q) = Total(f) /\ After(changes, q) \in Nat
  BY <1>1, AfterOver
<1>6. /\ g \in [D -> Nat] /\ After(changes, q + 1) = Total(g) /\ After(changes, q + 1) \in Nat
  <2>1. q + 1 \in Nat
    OBVIOUS
  <2> QED
    BY <1>1, <2>1, AfterOver
<1> HIDE DEF f, g
<1>7. Total(g) + f[q + 1] = Total(f) + g[q + 1]
  <2> DEFINE k == q + 1
  <2>1. k \in D /\ \A p \in D \ {k} : g[p] = f[p]
    BY <1>1, <1>4
  <2> HIDE DEF k
  <2>2. Total(g) + f[k] = Total(f) + g[k]
    BY <1>1, <1>5, <1>6, <2>1, SumChange
  <2> QED
    BY <2>2 DEF k
<1> QED
  BY <1>2, <1>3, <1>5, <1>6, <1>7

\* The change at one period is a part of what is to come before it, and replacing it
\* changes what is to come by as much.
LEMMA AfterMoves ==
  ASSUME NEW changes \in Changes, NEW other \in Changes, NEW q \in Nat, NEW k \in Nat,
         \A p \in Nat \ {k} : At(other, p) = At(changes, p)
  PROVE  /\ After(changes, q) \in Nat /\ After(other, q) \in Nat
         /\ k > q => /\ After(other, q) + At(changes, k) = After(changes, q) + At(other, k)
                     /\ At(changes, k) <= After(changes, q)
         /\ ~ (k > q) => After(other, q) = After(changes, q)
<1> DEFINE D == (DOMAIN changes \cup DOMAIN other) \cup {k}
           f == [p \in D |-> IF p > q THEN At(changes, p) ELSE 0]
           g == [p \in D |-> IF p > q THEN At(other, p) ELSE 0]
<1>1. /\ Periods(D) /\ IsFiniteSet(D) /\ D \subseteq Nat /\ k \in D
      /\ DOMAIN changes \subseteq D /\ DOMAIN other \subseteq D
  <2>1. IsFiniteSet(DOMAIN changes \cup DOMAIN other)
    BY ChangesMap, FS_Union
  <2>2. IsFiniteSet(D)
    BY <2>1, FS_AddElement
  <2> QED
    BY <2>2, ChangesMap DEF Periods
<1>2. At(changes, k) \in Nat /\ At(other, k) \in Nat
  BY AtNat
<1>3. /\ f[k] = IF k > q THEN At(changes, k) ELSE 0
      /\ g[k] = IF k > q THEN At(other, k) ELSE 0
  BY <1>1
<1>4. \A p \in D \ {k} : g[p] = f[p]
  BY <1>1
<1> HIDE DEF D
<1>5. /\ f \in [D -> Nat] /\ After(changes, q) = Total(f) /\ After(changes, q) \in Nat
  BY <1>1, AfterOver
<1>6. /\ g \in [D -> Nat] /\ After(other, q) = Total(g) /\ After(other, q) \in Nat
  BY <1>1, AfterOver
<1> HIDE DEF f, g
<1>7. Total(g) + f[k] = Total(f) + g[k] /\ f[k] <= Total(f)
  BY <1>1, <1>4, <1>5, <1>6, SumChange, SumElement
<1> QED
  BY <1>2, <1>3, <1>5, <1>6, <1>7

\* cancel_scheduled_slope takes the slope off the change at the period, if that is still
\* to come.
LEMMA CancelIs ==
  ASSUME NEW changes \in Changes, NEW slope \in Nat, NEW k \in Nat
  PROVE  LET c == cancel_scheduled_slope(changes, slope, k)
         IN  /\ c \in Changes
             /\ \A p \in Nat \ {k} : At(c, p) = At(changes, p)
             /\ At(c, k) = IF k <= last_slope_change THEN At(changes, k)
                           ELSE SatSub(At(changes, k), slope)
<1> DEFINE c == cancel_scheduled_slope(changes, slope, k)
<1>1. /\ IsFiniteSet(DOMAIN changes) /\ DOMAIN changes \subseteq Nat
      /\ changes \in [DOMAIN changes -> Nat]
  BY ChangesMap
<1>2. CASE k <= last_slope_change \/ k \notin DOMAIN changes
  <2>1. c = changes
    BY <1>2 DEF cancel_scheduled_slope
  <2>2. k \notin DOMAIN changes => At(changes, k) = 0 /\ SatSub(0, slope) = 0
    BY DEF At, SatSub
  <2> HIDE DEF c
  <2>3. /\ c \in Changes
        /\ \A p \in Nat \ {k} : At(c, p) = At(changes, p)
        /\ At(c, k) = IF k <= last_slope_change THEN At(changes, k)
                      ELSE SatSub(At(changes, k), slope)
    BY <1>2, <2>1, <2>2, Zenon
  <2> QED
    BY <2>3 DEF c
<1>3. CASE ~ (k <= last_slope_change) /\ k \in DOMAIN changes /\ SatSub(changes[k], slope) = 0
  <2>1. c = Without(changes, k)
    BY <1>3 DEF cancel_scheduled_slope
  <2> HIDE DEF c
  <2>2. /\ DOMAIN c = DOMAIN changes \ {k}
        /\ \A p \in DOMAIN changes \ {k} : c[p] = changes[p]
    BY <2>1, WithoutMap
  <2>3. c \in [DOMAIN changes \ {k} -> Nat]
    <3>1. c = [p \in DOMAIN changes \ {k} |-> changes[p]]
      BY <2>1 DEF Without, Restrict
    <3> QED
      BY <1>1, <3>1
  <2>4. IsFiniteSet(DOMAIN changes \ {k})
    BY <1>1, FS_Subset
  <2>5. c \in Changes
    BY <1>1, <2>3, <2>4, IsChanges
  <2>6. \A p \in Nat \ {k} : At(c, p) = At(changes, p)
    BY <2>2 DEF At
  <2>7. At(c, k) = 0 /\ SatSub(At(changes, k), slope) = 0
    BY <1>3, <2>2 DEF At
  <2> QED
    BY <1>3, <2>5, <2>6, <2>7 DEF c
<1>4. CASE ~ (k <= last_slope_change) /\ k \in DOMAIN changes /\ SatSub(changes[k], slope) # 0
  <2>1. c = Put(changes, k, changes[k] - slope)
    BY <1>4 DEF cancel_scheduled_slope
  <2> HIDE DEF c
  <2>2. changes[k] \in Nat
    BY <1>1, <1>4
  <2>3. changes[k] - slope \in Nat /\ SatSub(changes[k], slope) = changes[k] - slope
    BY <1>4, <2>2, SMT DEF SatSub
  <2>4. c = [p \in DOMAIN changes |-> IF p = k THEN changes[k] - slope ELSE changes[p]]
    <3>1. DOMAIN changes \cup {k} = DOMAIN changes
      BY <1>4
    <3> QED
      BY <2>1, <3>1 DEF Put
  <2>5. c \in [DOMAIN changes -> Nat]
    BY <1>1, <2>3, <2>4
  <2>6. c \in Changes
    BY <1>1, <2>5, IsChanges
  <2>7. \A p \in Nat \ {k} : At(c, p) = At(changes, p)
    BY <2>4 DEF At
  <2>8. At(c, k) = SatSub(At(changes, k), slope)
    BY <1>4, <2>3, <2>4 DEF At
  <2> QED
    BY <1>4, <2>6, <2>7, <2>8 DEF c
<1> QED
  BY <1>2, <1>3, <1>4

\* schedule_slope_change adds the slope to the change at the period.
LEMMA ScheduleIs ==
  ASSUME NEW changes \in Changes, NEW slope \in Nat, NEW k \in Nat
  PROVE  LET c == schedule_slope_change(changes, slope, k)
         IN  /\ c \in Changes
             /\ \A p \in Nat \ {k} : At(c, p) = At(changes, p)
             /\ At(c, k) = At(changes, k) + slope
<1> DEFINE c == schedule_slope_change(changes, slope, k)
<1>1. /\ IsFiniteSet(DOMAIN changes) /\ DOMAIN changes \subseteq Nat
      /\ changes \in [DOMAIN changes -> Nat]
  BY ChangesMap
<1>2. At(changes, k) \in Nat
  BY AtNat
<1>3. CASE slope = 0
  <2>1. c = changes /\ At(changes, k) + slope = At(changes, k)
    BY <1>2, <1>3 DEF schedule_slope_change
  <2> QED
    BY <2>1
<1>4. CASE slope # 0
  <2> DEFINE new == At(changes, k) + slope
  <2>1. c = [p \in DOMAIN changes \cup {k} |-> IF p = k THEN new ELSE changes[p]]
    BY <1>4 DEF schedule_slope_change, Put
  <2>2. new \in Nat
    BY <1>2
  <2> HIDE DEF c, new
  <2>3. c \in [DOMAIN changes \cup {k} -> Nat]
    BY <1>1, <2>1, <2>2
  <2>4. c \in Changes
    <3>1. IsFiniteSet(DOMAIN changes \cup {k}) /\ DOMAIN changes \cup {k} \subseteq Nat
      BY <1>1, FS_AddElement
    <3> QED
      BY <2>3, <3>1, IsChanges
  <2>5. \A p \in Nat \ {k} : At(c, p) = At(changes, p)
    BY <2>1 DEF At
  <2>6. At(c, k) = new
    BY <2>1 DEF At
  <2> QED
    BY <2>4, <2>5, <2>6 DEF c, new
<1> QED
  BY <1>3, <1>4

-----------------------------------------------------------------------------
(* Totals over the users' points.                                          *)

\* What one point adds to the slope that ends at a period, to the slope after a period
\* and to the decaying power in a period.
EndingPart(pt, p) == IF pt.end = p THEN pt.slope ELSE 0
SlopePart(pt, q) == IF pt.end > q THEN pt.slope ELSE 0
PowerPart(pt, q) == pt.slope * SatSub(pt.end, q)

EndingOf(pts, p) == Total([u \in Users |-> EndingPart(pts[u], p)])
SlopeOf(pts, q) == Total([u \in Users |-> SlopePart(pts[u], q)])
PowerOf(pts, q) == Total([u \in Users |-> PowerPart(pts[u], q)])
FixedOf(pts) == Total([u \in Users |-> pts[u].fixed])

\* The parts are amounts.
LEMMA PartsNat ==
  ASSUME NEW pt \in Points, NEW q \in Nat
  PROVE  /\ EndingPart(pt, q) \in Nat /\ SlopePart(pt, q) \in Nat /\ PowerPart(pt, q) \in Nat
         /\ pt.fixed \in Nat
<1>1. pt.slope \in Nat /\ pt.end \in Nat /\ pt.fixed \in Nat
  BY DEF Points
<1>2. SatSub(pt.end, q) \in Nat
  BY <1>1, SMT DEF SatSub
<1>3. PowerPart(pt, q) \in Nat
  BY <1>1, <1>2, MulNat DEF PowerPart
<1> QED
  BY <1>1, <1>3 DEF EndingPart, SlopePart

\* So are the totals.
LEMMA TotalsNat ==
  ASSUME NEW pts \in [Users -> Points], NEW q \in Nat
  PROVE  /\ EndingOf(pts, q) \in Nat /\ SlopeOf(pts, q) \in Nat /\ PowerOf(pts, q) \in Nat
         /\ FixedOf(pts) \in Nat
<1> DEFINE e == [u \in Users |-> EndingPart(pts[u], q)]
           s == [u \in Users |-> SlopePart(pts[u], q)]
           w == [u \in Users |-> PowerPart(pts[u], q)]
           x == [u \in Users |-> pts[u].fixed]
<1>1. e \in [Users -> Nat] /\ s \in [Users -> Nat] /\ w \in [Users -> Nat] /\ x \in [Users -> Nat]
  BY PartsNat
<1> HIDE DEF e, s, w, x
<1>2. Total(e) \in Nat /\ Total(s) \in Nat /\ Total(w) \in Nat /\ Total(x) \in Nat
  BY <1>1, SumType, EscrowAssumption
<1> QED
  BY <1>2 DEF e, s, w, x, EndingOf, SlopeOf, PowerOf, FixedOf

\* When one user's point changes, the totals change by what that point adds.
LEMMA TotalsMove ==
  ASSUME NEW pts \in [Users -> Points], NEW user \in Users, NEW pt \in Points, NEW q \in Nat,
         NEW new \in [Users -> Points], new[user] = pt, \A u \in Users \ {user} : new[u] = pts[u]
  PROVE  /\ EndingOf(new, q) + EndingPart(pts[user], q) = EndingOf(pts, q) + EndingPart(pt, q)
         /\ EndingPart(pts[user], q) <= EndingOf(pts, q)
         /\ PowerOf(new, q) + PowerPart(pts[user], q) = PowerOf(pts, q) + PowerPart(pt, q)
         /\ PowerPart(pts[user], q) <= PowerOf(pts, q)
         /\ FixedOf(new) + pts[user].fixed = FixedOf(pts) + pt.fixed
         /\ pts[user].fixed <= FixedOf(pts)
<1>1. new \in [Users -> Points] /\ new[user] = pt /\ \A u \in Users \ {user} : new[u] = pts[u]
  OBVIOUS
<1> DEFINE e(m) == [u \in Users |-> EndingPart(m[u], q)]
           w(m) == [u \in Users |-> PowerPart(m[u], q)]
           x(m) == [u \in Users |-> m[u].fixed]
<1>2. ASSUME NEW m \in [Users -> Points]
      PROVE  e(m) \in [Users -> Nat] /\ w(m) \in [Users -> Nat] /\ x(m) \in [Users -> Nat]
  BY PartsNat
<1>3. /\ \A u \in Users \ {user} : e(new)[u] = e(pts)[u]
      /\ \A u \in Users \ {user} : w(new)[u] = w(pts)[u]
      /\ \A u \in Users \ {user} : x(new)[u] = x(pts)[u]
  BY <1>1
<1>4. /\ e(new)[user] = EndingPart(pt, q) /\ e(pts)[user] = EndingPart(pts[user], q)
      /\ w(new)[user] = PowerPart(pt, q) /\ w(pts)[user] = PowerPart(pts[user], q)
      /\ x(new)[user] = pt.fixed /\ x(pts)[user] = pts[user].fixed
  BY <1>1
<1>5. /\ e(new) \in [Users -> Nat] /\ w(new) \in [Users -> Nat] /\ x(new) \in [Users -> Nat]
      /\ e(pts) \in [Users -> Nat] /\ w(pts) \in [Users -> Nat] /\ x(pts) \in [Users -> Nat]
  BY <1>1, <1>2, Zenon
<1> DEFINE e1 == e(new)  e0 == e(pts)  w1 == w(new)  w0 == w(pts)  x1 == x(new)  x0 == x(pts)
<1>6. /\ EndingOf(new, q) = Total(e1) /\ EndingOf(pts, q) = Total(e0)
      /\ PowerOf(new, q) = Total(w1) /\ PowerOf(pts, q) = Total(w0)
      /\ FixedOf(new) = Total(x1) /\ FixedOf(pts) = Total(x0)
  BY DEF EndingOf, PowerOf, FixedOf
<1> HIDE DEF e1, e0, w1, w0, x1, x0
<1>7. /\ Total(e1) + e0[user] = Total(e0) + e1[user] /\ e0[user] <= Total(e0)
  BY <1>3, <1>5, SumChange, SumElement, EscrowAssumption DEF e1, e0
<1>8. /\ Total(w1) + w0[user] = Total(w0) + w1[user] /\ w0[user] <= Total(w0)
  BY <1>3, <1>5, SumChange, SumElement, EscrowAssumption DEF w1, w0
<1>9. /\ Total(x1) + x0[user] = Total(x0) + x1[user] /\ x0[user] <= Total(x0)
  BY <1>3, <1>5, SumChange, SumElement, EscrowAssumption DEF x1, x0
<1>10. /\ e1[user] = EndingPart(pt, q) /\ e0[user] = EndingPart(pts[user], q)
       /\ w1[user] = PowerPart(pt, q) /\ w0[user] = PowerPart(pts[user], q)
       /\ x1[user] = pt.fixed /\ x0[user] = pts[user].fixed
  BY <1>4 DEF e1, e0, w1, w0, x1, x0
<1> QED
  BY <1>6, <1>7, <1>8, <1>9, <1>10, Zenon

\* From one period to the next, the slopes that end there are gone, and the power has
\* fallen by the slope.
LEMMA TotalsStep ==
  ASSUME NEW pts \in [Users -> Points], NEW q \in Nat
  PROVE  /\ SlopeOf(pts, q) = EndingOf(pts, q + 1) + SlopeOf(pts, q + 1)
         /\ PowerOf(pts, q) = SlopeOf(pts, q) + PowerOf(pts, q + 1)
<1>1. ASSUME NEW pt \in Points
      PROVE  /\ SlopePart(pt, q) = EndingPart(pt, q + 1) + SlopePart(pt, q + 1)
             /\ PowerPart(pt, q) = SlopePart(pt, q) + PowerPart(pt, q + 1)
  <2> DEFINE s == pt.slope
             e == pt.end
  <2>1. s \in Nat /\ e \in Nat
    BY DEF Points
  <2> HIDE DEF s, e
  <2>2. SlopePart(pt, q) = EndingPart(pt, q + 1) + SlopePart(pt, q + 1)
    <3>1. (IF e > q THEN s ELSE 0) = (IF e = q + 1 THEN s ELSE 0) + (IF e > q + 1 THEN s ELSE 0)
      BY <2>1
    <3> QED
      BY <3>1 DEF SlopePart, EndingPart, s, e
  <2>3. s * SatSub(e, q) = (IF e > q THEN s ELSE 0) + s * SatSub(e, q + 1)
    <3>1. CASE e > q
      <4>1. SatSub(e, q) = (e - (q + 1)) + 1 /\ SatSub(e, q + 1) = e - (q + 1) /\ e - (q + 1) \in Nat
        BY <2>1, <3>1 DEF SatSub
      <4> DEFINE d == e - (q + 1)
      <4> HIDE DEF d
      <4>2. s * (d + 1) = s + s * d
        BY <2>1, <4>1, SMT DEF d
      <4> QED
        BY <3>1, <4>1, <4>2 DEF d
    <3>2. CASE ~ (e > q)
      <4>1. SatSub(e, q) = 0 /\ SatSub(e, q + 1) = 0
        BY <2>1, <3>2 DEF SatSub
      <4> QED
        BY <2>1, <3>2, <4>1
    <3> QED
      BY <3>1, <3>2
  <2> QED
    BY <2>2, <2>3 DEF SlopePart, PowerPart, s, e
<1> DEFINE s  == [u \in Users |-> SlopePart(pts[u], q)]
           e1 == [u \in Users |-> EndingPart(pts[u], q + 1)]
           s1 == [u \in Users |-> SlopePart(pts[u], q + 1)]
           w  == [u \in Users |-> PowerPart(pts[u], q)]
           w1 == [u \in Users |-> PowerPart(pts[u], q + 1)]
<1>2. q + 1 \in Nat
  OBVIOUS
<1>3. /\ s \in [Users -> Nat] /\ e1 \in [Users -> Nat] /\ s1 \in [Users -> Nat]
      /\ w \in [Users -> Nat] /\ w1 \in [Users -> Nat]
  BY <1>2, PartsNat
<1>4. /\ \A u \in Users : s[u] = e1[u] + s1[u]
      /\ \A u \in Users : w[u] = s[u] + w1[u]
  BY <1>1
<1> HIDE DEF s, e1, s1, w, w1
<1>5. Total(s) = Total(e1) + Total(s1) /\ Total(w) = Total(s) + Total(w1)
  BY <1>3, <1>4, SumAdd, EscrowAssumption
<1> QED
  BY <1>5 DEF s, e1, s1, w, w1, SlopeOf, EndingOf, PowerOf

\* The keys of a map of changes and the ends of the locks have a bound.
LEMMA EndsAreBounded ==
  ASSUME NEW changes \in Changes, NEW pts \in [Users -> Points]
  PROVE  \E b \in Nat : /\ \A p \in DOMAIN changes : p <= b
                        /\ \A u \in Users : pts[u].end <= b
<1> DEFINE D == DOMAIN changes
           f == [p \in D |-> p]
           g == [u \in Users |-> pts[u].end]
<1>1. IsFiniteSet(D) /\ D \subseteq Nat
  BY ChangesMap
<1>2. f \in [D -> Nat] /\ \A p \in D : f[p] = p
  BY <1>1
<1>3. g \in [Users -> Nat] /\ \A u \in Users : g[u] = pts[u].end
  BY DEF Points
<1> HIDE DEF D, f, g
<1>4. Total(f) \in Nat /\ \A p \in D : p <= Total(f)
  <2>1. Total(f) \in Nat
    BY <1>1, <1>2, SumType
  <2>2. ASSUME NEW p \in D PROVE f[p] <= Total(f)
    BY <1>1, <1>2, SumElement
  <2> QED
    BY <1>2, <2>1, <2>2
<1>5. Total(g) \in Nat /\ \A u \in Users : pts[u].end <= Total(g)
  <2>1. Total(g) \in Nat
    BY <1>3, SumType, EscrowAssumption
  <2>2. ASSUME NEW u \in Users PROVE g[u] <= Total(g)
    BY <1>3, SumElement, EscrowAssumption
  <2> QED
    BY <1>3, <2>1, <2>2
<1>6. /\ Total(f) + Total(g) \in Nat
      /\ \A p \in D : p <= Total(f) + Total(g)
      /\ \A u \in Users : pts[u].end <= Total(f) + Total(g)
  <2>1. \A u \in Users : pts[u].end \in Nat
    BY DEF Points
  <2> QED
    BY <1>1, <1>4, <1>5, <2>1
<1> QED
  BY <1>6 DEF D

\* When the change scheduled for every period to come is the sum of the slopes that end
\* there, what is scheduled altogether is the sum of the slopes of the locks still running.
LEMMA ScheduledSlopes ==
  ASSUME NEW changes \in Changes, NEW pts \in [Users -> Points], NEW from \in Nat,
         \A p \in Nat : p > from => At(changes, p) = EndingOf(pts, p),
         NEW q \in Nat, q >= from
  PROVE  After(changes, q) = SlopeOf(pts, q)
<1>1. PICK b \in Nat : /\ \A p \in DOMAIN changes : p <= b
                       /\ \A u \in Users : pts[u].end <= b
  BY EndsAreBounded
<1> DEFINE Differs(n, r) == r >= from /\ r + n >= b /\ After(changes, r) # SlopeOf(pts, r)
           Bad == {n \in Nat : \E r \in Nat : Differs(n, r)}
<1>2. ASSUME Bad = {} PROVE After(changes, q) = SlopeOf(pts, q)
  <2>1. ~ Differs(b, q)
    BY <1>2, Zenon
  <2>2. q + b >= b
    OBVIOUS
  <2> QED
    BY <2>1, <2>2
<1>3. ASSUME Bad # {} PROVE FALSE
  <2>1. PICK n \in Bad : \A m \in Bad : n <= m
    <3>1. Bad \subseteq Nat
      OBVIOUS
    <3> HIDE DEF Bad
    <3> QED
      BY <1>3, <3>1, NatMin
  <2>2. n \in Nat
    BY Zenon
  <2>3. PICK r \in Nat : Differs(n, r)
    BY Zenon
  <2>4. r >= from /\ r + n >= b /\ After(changes, r) # SlopeOf(pts, r)
    BY <2>3
  <2>5. CASE n = 0
    <3>1. r >= b
      BY <2>4, <2>5
    <3>2. After(changes, r) = 0
      <4> DEFINE D == DOMAIN changes
                 f == [p \in D |-> IF p > r THEN changes[p] ELSE 0]
      <4>1. IsFiniteSet(D) /\ D \subseteq Nat /\ changes \in [D -> Nat]
        BY ChangesMap
      <4>2. f \in [D -> Nat] /\ \A p \in D : f[p] = 0
        BY <1>1, <3>1, <4>1
      <4> HIDE DEF D, f
      <4>3. Total(f) = 0
        BY <4>1, <4>2, SumZero
      <4> QED
        BY <4>3 DEF f, D, After
    <3>3. SlopeOf(pts, r) = 0
      <4> DEFINE g == [u \in Users |-> SlopePart(pts[u], r)]
      <4>1. \A u \in Users : SlopePart(pts[u], r) = 0
        <5>1. \A u \in Users : pts[u].end \in Nat /\ ~ (pts[u].end > r)
          BY <1>1, <3>1 DEF Points
        <5> QED
          BY <5>1 DEF SlopePart
      <4>2. g \in [Users -> Nat] /\ \A u \in Users : g[u] = 0
        BY <4>1
      <4> HIDE DEF g
      <4>3. Total(g) = 0
        BY <4>2, SumZero, EscrowAssumption
      <4> QED
        BY <4>3 DEF g, SlopeOf
    <3> QED
      BY <2>4, <3>2, <3>3
  <2>6. CASE n # 0
    <3>1. n - 1 \in Nat /\ ~ (n <= n - 1) /\ r + 1 \in Nat
      BY <2>2, <2>6
    <3>2. ~ Differs(n - 1, r + 1)
      <4>1. n - 1 \notin Bad
        BY <2>1, <3>1, Zenon
      <4> QED
        BY <3>1, <4>1, Zenon
    <3>3. r + 1 >= from /\ (r + 1) + (n - 1) >= b /\ r + 1 > from
      BY <2>2, <2>4
    <3>4. After(changes, r + 1) = SlopeOf(pts, r + 1)
      BY <3>2, <3>3
    <3>5. At(changes, r + 1) = EndingOf(pts, r + 1)
      BY <3>1, <3>3
    <3>6. After(changes, r) = SlopeOf(pts, r)
      BY <3>4, <3>5, AfterStep, TotalsStep
    <3> QED
      BY <2>4, <3>6
  <2> QED
    BY <2>5, <2>6
<1> QED
  BY <1>2, <1>3

\* The points of a line have its end and its fixed part, and their slope is what the
\* changes passed have left of the first one's.
LEMMA LineSlope ==
  ASSUME NEW pt \in Points, NEW changes \in Changes, NEW b \in Nat,
         NEW f, IsLine(f, pt, changes, b), NEW p \in pt.start..b
  PROVE  /\ f[p] \in Points /\ f[p].start = p /\ f[p].end = pt.end /\ f[p].fixed = pt.fixed
         /\ After(changes, p) <= After(changes, pt.start)
         /\ f[p].slope = SatSub(pt.slope, After(changes, pt.start) - After(changes, p))
<1> DEFINE Good(n) == /\ f[n] \in Points /\ f[n].start = n
                      /\ f[n].end = pt.end /\ f[n].fixed = pt.fixed
                      /\ After(changes, n) <= After(changes, pt.start)
                      /\ f[n].slope = SatSub(pt.slope, After(changes, pt.start) - After(changes, n))
           Bad == {n \in pt.start..b : ~ Good(n)}
<1>1. pt.start \in Nat /\ pt.slope \in Nat
  BY DEF Points
<1>2. After(changes, pt.start) \in Nat
  BY <1>1, AfterStep
<1> SUFFICES ASSUME Bad # {} PROVE FALSE
  BY Zenon
<1>3. PICK n \in Bad : \A m \in Bad : n <= m
  <2>1. Bad \subseteq Nat
    BY <1>1
  <2> HIDE DEF Bad
  <2> QED
    BY <2>1, NatMin
<1>4. n \in pt.start..b /\ ~ Good(n)
  BY Zenon
<1>5. CASE n = pt.start
  <2>1. f[n] = pt /\ pt \in Points
    BY <1>5 DEF IsLine
  <2>2. SatSub(pt.slope, After(changes, pt.start) - After(changes, pt.start)) = pt.slope
    BY <1>1, <1>2 DEF SatSub
  <2> QED
    BY <1>2, <1>4, <1>5, <2>1, <2>2
<1>6. CASE n # pt.start
  <2>1. /\ n - 1 \in pt.start..b /\ n \in (pt.start + 1)..b /\ ~ (n <= n - 1)
        /\ n - 1 \in Nat /\ n \in Nat /\ (n - 1) + 1 = n
    BY <1>1, <1>4, <1>6
  <2>2. Good(n - 1)
    BY <1>3, <2>1, Zenon
  <2>3. f[n] = NextPoint(f[n - 1], At(changes, n), n)
    BY <2>1 DEF IsLine
  <2>4. At(changes, n) \in Nat
    BY AtNat
  <2>5. /\ f[n] \in Points /\ f[n].start = n /\ f[n].end = f[n - 1].end
        /\ f[n].fixed = f[n - 1].fixed
        /\ f[n].slope = SatSub(f[n - 1].slope, At(changes, n))
    <3> DEFINE o == f[n - 1]
               d == At(changes, n)
    <3>1. o \in Points /\ d \in Nat /\ f[n] = NextPoint(o, d, n)
      BY <2>2, <2>3, <2>4
    <3> HIDE DEF o, d
    <3>2. /\ f[n] \in Points /\ f[n].start = n /\ f[n].end = o.end
          /\ f[n].fixed = o.fixed /\ f[n].slope = SatSub(o.slope, d)
      <4>1. NextPoint(o, d, n) \in Points /\ NextPoint(o, d, n).start = n
        BY <2>1, <3>1, NextPointIs, ZenonT(60)
      <4>2. NextPoint(o, d, n).end = o.end /\ NextPoint(o, d, n).fixed = o.fixed
        BY <2>1, <3>1, NextPointIs, ZenonT(60)
      <4>3. NextPoint(o, d, n).slope = SatSub(o.slope, d)
        BY <2>1, <3>1, NextPointIs, ZenonT(60)
      <4> QED
        BY <3>1, <4>1, <4>2, <4>3, Zenon
    <3> QED
      BY <3>2 DEF o, d
  <2>6. /\ After(changes, n - 1) = At(changes, n) + After(changes, n)
        /\ After(changes, n - 1) \in Nat /\ After(changes, n) \in Nat
    BY <2>1, AfterStep
  <2> DEFINE a == After(changes, pt.start)
             x == After(changes, n - 1)
             y == After(changes, n)
             c == At(changes, n)
             s == pt.slope
  <2>7. /\ a \in Nat /\ x \in Nat /\ y \in Nat /\ c \in Nat /\ s \in Nat /\ x = c + y /\ x <= a
    BY <1>1, <1>2, <2>2, <2>4, <2>6
  <2>8. f[n].slope = SatSub(SatSub(s, a - x), c)
    BY <2>2, <2>5
  <2> HIDE DEF a, x, y, c, s
  <2>9. y <= a /\ SatSub(SatSub(s, a - x), c) = SatSub(s, a - y)
    BY <2>7 DEF SatSub
  <2>10. Good(n)
    BY <2>2, <2>5, <2>8, <2>9 DEF a, y, s
  <2> QED
    BY <1>4, <2>10
<1> QED
  BY <1>5, <1>6

\* A line that has the power and the slopes of the users' points has their power all along.
LEMMA LinePower ==
  ASSUME NEW pt \in Points, NEW changes \in Changes, NEW b \in Nat,
         NEW f, IsLine(f, pt, changes, b), NEW pts \in [Users -> Points],
         pt.power = PowerOf(pts, pt.start),
         \A q \in pt.start..b : q < b => f[q].slope = SlopeOf(pts, q),
         NEW p \in pt.start..b
  PROVE  f[p].power = PowerOf(pts, p)
<1> DEFINE Bad == {n \in pt.start..b : f[n].power # PowerOf(pts, n)}
<1>1. pt.start \in Nat
  BY DEF Points
<1> SUFFICES ASSUME Bad # {} PROVE FALSE
  BY Zenon
<1>2. PICK n \in Bad : \A m \in Bad : n <= m
  <2>1. Bad \subseteq Nat
    BY <1>1
  <2> HIDE DEF Bad
  <2> QED
    BY <2>1, NatMin
<1>3. n \in pt.start..b /\ f[n].power # PowerOf(pts, n)
  BY Zenon
<1>4. CASE n = pt.start
  BY <1>3, <1>4 DEF IsLine
<1>5. CASE n # pt.start
  <2>1. /\ n - 1 \in pt.start..b /\ n \in (pt.start + 1)..b /\ ~ (n <= n - 1)
        /\ n - 1 \in Nat /\ n \in Nat /\ (n - 1) + 1 = n /\ n - 1 < b
    BY <1>1, <1>3, <1>5
  <2>2. f[n - 1].power = PowerOf(pts, n - 1)
    BY <1>2, <2>1, Zenon
  <2>3. f[n] = NextPoint(f[n - 1], At(changes, n), n) /\ f[n - 1] \in Points
    BY <2>1 DEF IsLine
  <2>4. f[n].power = SatSub(f[n - 1].power, f[n - 1].slope)
    <3> DEFINE o == f[n - 1]
               d == At(changes, n)
    <3>1. o \in Points /\ d \in Nat /\ f[n] = NextPoint(o, d, n)
      BY <2>3, AtNat
    <3> HIDE DEF o, d
    <3>2. NextPoint(o, d, n).power = SatSub(o.power, o.slope)
      BY <2>1, <3>1, NextPointIs, ZenonT(60)
    <3>3. f[n].power = SatSub(o.power, o.slope)
      BY <3>1, <3>2, Zenon
    <3> QED
      BY <3>3 DEF o
  <2>5. f[n - 1].slope = SlopeOf(pts, n - 1)
    BY <2>1
  <2>6. PowerOf(pts, n - 1) = SlopeOf(pts, n - 1) + PowerOf(pts, n)
    BY <2>1, TotalsStep
  <2>7. SlopeOf(pts, n - 1) \in Nat /\ PowerOf(pts, n) \in Nat
    BY <2>1, TotalsNat
  <2>8. f[n].power = PowerOf(pts, n)
    BY <2>2, <2>4, <2>5, <2>6, <2>7 DEF SatSub
  <2> QED
    BY <1>3, <2>8
<1> QED
  BY <1>4, <1>5

\* From any of its points on, Recalculate follows the same line.
LEMMA RecalculateOn ==
  ASSUME NEW pt \in Points, NEW changes \in Changes, NEW b \in Nat,
         NEW f, IsLine(f, pt, changes, b), NEW k \in pt.start..b, NEW p \in k..b
  PROVE  Recalculate(f[k], changes, p) = f[p]
<1> DEFINE g == [q \in k..p |-> f[q]]
<1>1. pt.start \in Nat
  BY DEF Points
<1>2. k \in Nat /\ p \in Nat /\ k <= p
  BY <1>1
<1>3. f[k] \in Points /\ f[k].start = k
  BY LineSlope
<1>4. \A q \in k..p : q \in pt.start..b /\ f[q] \in Points
  BY <1>1, <1>2 DEF IsLine
<1>5. g \in [k..p -> Points] /\ g[k] = f[k] /\ g[p] = f[p]
  BY <1>2, <1>4
<1>6. ASSUME NEW q \in (k + 1)..p
      PROVE  g[q] = NextPoint(g[q - 1], At(changes, q), q)
  <2>1. q - 1 \in k..p /\ q \in k..p /\ q \in (pt.start + 1)..b
    BY <1>1, <1>2
  <2>2. g[q] = f[q] /\ g[q - 1] = f[q - 1]
    BY <2>1
  <2> QED
    BY <2>1, <2>2 DEF IsLine
<1> HIDE DEF g
<1> DEFINE o == f[k]
<1>7. IsLine(g, o, changes, p)
  BY <1>3, <1>5, <1>6 DEF IsLine
<1>8. o \in Points /\ o.start <= p
  BY <1>2, <1>3
<1> HIDE DEF o
<1>9. Recalculate(o, changes, p) = g[p]
  BY <1>2, <1>7, <1>8, RecalculateIs
<1> QED
  BY <1>5, <1>9 DEF o

-----------------------------------------------------------------------------
(* The total's checkpoints.                                                *)

\* fetch_last_checkpoint finds the latest point.
LEMMA FetchIs ==
  ASSUME NEW points, NEW p \in Nat, DOMAIN points \subseteq Nat, NEW k \in DOMAIN points,
         k <= p, \A q \in DOMAIN points : q <= p => q <= k
  PROVE  fetch_last_checkpoint(points, p) = points[k]
<1> DEFINE Latest(m) == m <= p /\ \A q \in DOMAIN points : q <= p => q <= m
<1>1. k \in DOMAIN points /\ Latest(k)
  OBVIOUS
<1>2. \A m \in DOMAIN points : Latest(m) => m = k
  <2> SUFFICES ASSUME NEW m \in DOMAIN points, Latest(m) PROVE m = k
    OBVIOUS
  <2>1. m <= k /\ k <= m /\ m \in Nat /\ k \in Nat
    OBVIOUS
  <2> QED
    BY <2>1
<1>3. (CHOOSE m \in DOMAIN points : Latest(m)) = k
  <2> HIDE DEF Latest
  <2> QED
    BY <1>1, <1>2, Zenon
<1> QED
  BY <1>3 DEF fetch_last_checkpoint

\* The total's points end with the one of the last checkpoint, which lies not ahead.
TotalTypeOK ==
  /\ last_slope_change \in Nat /\ last_slope_change <= Period
  /\ slope_changes \in Changes
  /\ DOMAIN total \subseteq 0..last_slope_change /\ last_slope_change \in DOMAIN total
  /\ total[last_slope_change] \in Points
  /\ total[last_slope_change].start = last_slope_change

\* So a query for any later period starts from there.
LEMMA LastCheckpoint ==
  ASSUME TotalTypeOK, NEW p \in Nat, last_slope_change <= p
  PROVE  fetch_last_checkpoint(total, p) = total[last_slope_change]
<1>1. /\ last_slope_change \in Nat /\ DOMAIN total \subseteq Nat
      /\ \A q \in DOMAIN total : q <= last_slope_change
      /\ last_slope_change \in DOMAIN total
  BY DEF TotalTypeOK
<1> QED
  BY <1>1, FetchIs

\* What checkpoint_total leaves: the line from the last checkpoint on, at the periods with
\* a change, and its point at the current period with the user's change applied.
CheckpointLeaves(f, changes, add_power, add_amount, reduce_power, reduce_amount, old_slope, new_slope) ==
  /\ IsLine(f, total[last_slope_change], changes, Period)
  /\ last_slope_change' = Period /\ slope_changes' = changes
  /\ DOMAIN total' \subseteq last_slope_change..Period
  /\ last_slope_change \in DOMAIN total' /\ Period \in DOMAIN total'
  /\ \A p \in DOMAIN total' : p < Period => total'[p] = f[p]
  /\ total'[Period] \in Points /\ total'[Period].start = Period
  /\ total'[Period].power = SatSub(f[Period].power + add_power, reduce_power)
  /\ total'[Period].slope = SatSub(f[Period].slope, old_slope) + new_slope
  /\ total'[Period].fixed = SatSub(f[Period].fixed + add_amount, reduce_amount)

\* checkpoint_total carries the total on to the current period.
LEMMA CheckpointTotal ==
  ASSUME TotalTypeOK, Period \in Nat, NEW changes \in Changes,
         NEW ap \in Nat, NEW aa \in Nat, NEW rp \in Nat, NEW ra \in Nat,
         NEW os \in Nat, NEW ns \in Nat,
         checkpoint_total(changes, ap, aa, rp, ra, os, ns)
  PROVE  \E f : CheckpointLeaves(f, changes, ap, aa, rp, ra, os, ns)
<1> DEFINE last    == total[last_slope_change]
           passed  == {p \in DOMAIN changes : last_slope_change < p /\ p <= Period}
           current == Recalculate(last, changes, Period)
           power   == SatSub(current.power + ap, rp)
           slope   == SatSub(current.slope, os) + ns
           fixed   == SatSub(current.fixed + aa, ra)
           now_    == [current EXCEPT !.power = power, !.slope = slope, !.fixed = fixed]
<1>1. fetch_last_checkpoint(total, Period) = last
  BY LastCheckpoint DEF TotalTypeOK
<1>2. /\ last_slope_change \in Nat /\ last_slope_change <= Period
      /\ last \in Points /\ last.start = last_slope_change
  BY DEF TotalTypeOK
<1>3. total' = [p \in {last.start} \cup passed \cup {Period} |->
                  IF p = Period THEN now_
                  ELSE IF p \in passed THEN Recalculate(last, changes, p) ELSE last]
  BY <1>1, Zenon DEF checkpoint_total
<1>4. last_slope_change' = Period /\ slope_changes' = changes
  BY DEF checkpoint_total
<1> HIDE DEF last
<1>5. PICK f : IsLine(f, last, changes, Period)
  BY <1>2, LineExists
<1>6. /\ f[Period] \in Points /\ f[Period].start = Period
      /\ \A p \in last.start..Period : Recalculate(last, changes, p) = f[p]
  <2>1. Period \in last.start..Period /\ last.start \in last.start..Period /\ last.start \in Nat
    BY <1>2
  <2>2. f[last.start] = last
    BY <1>5 DEF IsLine
  <2>3. ASSUME NEW p \in last.start..Period PROVE Recalculate(last, changes, p) = f[p]
    <3> DEFINE k == last.start
    <3>1. k \in last.start..Period /\ p \in k..Period
      BY <2>1
    <3>2. Recalculate(f[k], changes, p) = f[p]
      BY <1>2, <1>5, <3>1, RecalculateOn
    <3> QED
      BY <2>2, <3>2
  <2>4. f[Period] \in Points /\ f[Period].start = Period
    BY <1>2, <1>5, <2>1, LineSlope
  <2> QED
    BY <2>3, <2>4
<1>7. current = f[Period]
  <2>1. Period \in last.start..Period
    BY <1>2
  <2> QED
    BY <1>6, <2>1
<1>8. power \in Nat /\ slope \in Nat /\ fixed \in Nat
  <2>1. current.power \in Nat /\ current.slope \in Nat /\ current.fixed \in Nat
    BY <1>6, <1>7 DEF Points
  <2> HIDE DEF current
  <2> QED
    BY <2>1, SMT DEF SatSub
<1>9. /\ now_ \in Points /\ now_.start = Period
      /\ now_.power = power /\ now_.slope = slope /\ now_.fixed = fixed
  <2>1. current \in Points /\ current.start = Period
    BY <1>6, <1>7
  <2> HIDE DEF current, power, slope, fixed
  <2> DEFINE a == [current EXCEPT !.power = power]
             c == [a EXCEPT !.slope = slope]
             d == [c EXCEPT !.fixed = fixed]
  <2>2. a = [power |-> power, start |-> Period, end |-> current.end, slope |-> current.slope,
             fixed |-> current.fixed]
    BY <2>1 DEF Points
  <2>3. current.end \in Nat
    BY <2>1 DEF Points
  <2>4. now_ = d
    BY Zenon
  <2> HIDE DEF a, now_
  <2>5. c = [power |-> power, start |-> Period, end |-> current.end, slope |-> slope,
             fixed |-> current.fixed]
    BY <2>2
  <2> HIDE DEF c
  <2>6. d = [power |-> power, start |-> Period, end |-> current.end, slope |-> slope,
             fixed |-> fixed]
    BY <2>5
  <2> HIDE DEF d
  <2> QED
    BY <1>8, <2>3, <2>4, <2>6 DEF Points
<1> HIDE DEF now_
<1>10. /\ DOMAIN total' = {last.start} \cup passed \cup {Period}
       /\ total'[Period] = now_
  BY <1>3
<1>11. DOMAIN total' \subseteq last_slope_change..Period
  <2>1. \A p \in passed : p \in Nat /\ last_slope_change < p /\ p <= Period
    BY ChangesMap
  <2> HIDE DEF passed
  <2> QED
    BY <1>2, <1>10, <2>1
<1>12. ASSUME NEW p \in DOMAIN total', p < Period
       PROVE  total'[p] = f[p]
  <2>1. p # Period /\ p \in last.start..Period
    BY <1>2, <1>11, <1>12
  <2>2. CASE p \in passed
    BY <1>3, <1>6, <1>10, <2>1, <2>2
  <2>3. CASE p \notin passed
    <3>1. p = last.start
      BY <1>10, <2>1, <2>3
    <3>2. total'[p] = last
      BY <1>3, <1>10, <2>1, <2>3
    <3> QED
      BY <1>5, <3>1, <3>2 DEF IsLine
  <2> QED
    BY <2>2, <2>3
<1>13. /\ total'[Period].power = SatSub(f[Period].power + ap, rp)
       /\ total'[Period].slope = SatSub(f[Period].slope, os) + ns
       /\ total'[Period].fixed = SatSub(f[Period].fixed + aa, ra)
  BY <1>7, <1>9, <1>10
<1>14. /\ last_slope_change \in DOMAIN total' /\ Period \in DOMAIN total'
  BY <1>2, <1>10
<1> QED
  BY <1>4, <1>5, <1>9, <1>10, <1>11, <1>12, <1>13, <1>14 DEF CheckpointLeaves, last

\* After it the total is typed again.
LEMMA CheckpointTyped ==
  ASSUME TotalTypeOK, Period \in Nat, Period' = Period, NEW changes \in Changes, NEW f,
         NEW ap, NEW aa, NEW rp, NEW ra, NEW os, NEW ns,
         CheckpointLeaves(f, changes, ap, aa, rp, ra, os, ns)
  PROVE  TotalTypeOK'
<1>1. last_slope_change \in Nat
  BY DEF TotalTypeOK
<1>2. DOMAIN total' \subseteq 0..Period
  BY <1>1 DEF CheckpointLeaves
<1> QED
  BY <1>2 DEF TotalTypeOK, CheckpointLeaves

-----------------------------------------------------------------------------
(* The invariant of the total.                                             *)

\* The slope of the total is what is scheduled, and the schedule covers the locks.
ScheduleCovers ==
  /\ total[last_slope_change].slope = After(slope_changes, last_slope_change)
  /\ \A p \in Nat :
       /\ p > last_slope_change => EndingOf(point, p) <= At(slope_changes, p)
       /\ p > Period => At(slope_changes, p) = EndingOf(point, p)

\* The schedule is that of the locks from the last checkpoint on, and the total has the
\* power of the users.
TotalsAgree ==
  /\ \A p \in Nat : p > last_slope_change => At(slope_changes, p) = EndingOf(point, p)
  /\ total[last_slope_change].power = PowerOf(point, last_slope_change)
  /\ total[last_slope_change].fixed = FixedOf(point)

\* The first holds unless a lock kept power, the second as long as nothing of Causes
\* happened.
SlopesInv == "kept power" \notin drift => ScheduleCovers

SumsInv == drift = {} => TotalsAgree

TotalInv == TotalTypeOK /\ SlopesInv /\ SumsInv

\* A transaction gives a user the point n.
UserGets(user, n) == n \in Points /\ point' = [point EXCEPT ![user] = n]

\* The totals over the users' points after that.
LEMMA UsersMove ==
  ASSUME EscrowTypeOK, NEW user \in Users, NEW n, UserGets(user, n), NEW q \in Nat
  PROVE  /\ point' \in [Users -> Points]
         /\ EndingOf(point', q) + EndingPart(point[user], q) = EndingOf(point, q) + EndingPart(n, q)
         /\ PowerOf(point', q) + PowerPart(point[user], q) = PowerOf(point, q) + PowerPart(n, q)
         /\ FixedOf(point') + point[user].fixed = FixedOf(point) + n.fixed
         /\ EndingPart(point[user], q) <= EndingOf(point, q)
<1>1. point \in [Users -> Points] /\ n \in Points /\ point' = [point EXCEPT ![user] = n]
  BY DEF EscrowTypeOK, UserGets
<1>2. /\ point' \in [Users -> Points] /\ point'[user] = n
      /\ \A u \in Users \ {user} : point'[u] = point[u]
  BY <1>1
<1>3. point \in [Users -> Points] /\ n \in Points
  BY <1>1
<1> QED
  BY <1>2, <1>3, TotalsMove

\* The schedule after t of the slope of point o has been cancelled and the slope of point
\* n added: mid is the schedule in between.
Rescheduled(mid, changes, o, n, t) ==
  /\ mid \in Changes /\ changes \in Changes /\ t \in Nat
  /\ \A p \in Nat \ {o.end} : At(mid, p) = At(slope_changes, p)
  /\ At(mid, o.end) + t = At(slope_changes, o.end)
  /\ \A p \in Nat \ {n.end} : At(changes, p) = At(mid, p)
  /\ At(changes, n.end) = At(mid, n.end) + n.slope
  /\ t > 0 => o.end > last_slope_change
  /\ o.end > Period => t = o.slope
  /\ n.slope > 0 => n.end > Period

\* What is then scheduled altogether, and at one period.
LEMMA RescheduledIs ==
  ASSUME NEW o \in Points, NEW n \in Points, NEW mid, NEW changes, NEW t,
         slope_changes \in Changes, Rescheduled(mid, changes, o, n, t), NEW q \in Nat
  PROVE  /\ After(changes, q) \in Nat /\ After(slope_changes, q) \in Nat
         /\ After(changes, q) + (IF o.end > q THEN t ELSE 0) =
              After(slope_changes, q) + (IF n.end > q THEN n.slope ELSE 0)
         /\ o.end > q => t <= After(slope_changes, q)
         /\ At(changes, q) \in Nat /\ At(slope_changes, q) \in Nat
         /\ At(changes, q) + (IF o.end = q THEN t ELSE 0) =
              At(slope_changes, q) + (IF n.end = q THEN n.slope ELSE 0)
<1>1. /\ o.end \in Nat /\ n.end \in Nat /\ n.slope \in Nat /\ t \in Nat
      /\ mid \in Changes /\ changes \in Changes
  BY DEF Points, Rescheduled
<1>2. /\ At(mid, o.end) \in Nat /\ At(slope_changes, o.end) \in Nat
      /\ At(mid, n.end) \in Nat /\ At(changes, n.end) \in Nat
      /\ At(mid, q) \in Nat /\ At(changes, q) \in Nat /\ At(slope_changes, q) \in Nat
  BY <1>1, AtNat
<1>3. /\ After(slope_changes, q) \in Nat /\ After(mid, q) \in Nat
      /\ o.end > q => /\ After(mid, q) + At(slope_changes, o.end) =
                           After(slope_changes, q) + At(mid, o.end)
                      /\ At(slope_changes, o.end) <= After(slope_changes, q)
      /\ ~ (o.end > q) => After(mid, q) = After(slope_changes, q)
  <2> DEFINE k == o.end
  <2>1. k \in Nat /\ \A p \in Nat \ {k} : At(mid, p) = At(slope_changes, p)
    BY <1>1 DEF Rescheduled
  <2> HIDE DEF k
  <2>2. /\ After(slope_changes, q) \in Nat /\ After(mid, q) \in Nat
        /\ k > q => /\ After(mid, q) + At(slope_changes, k) = After(slope_changes, q) + At(mid, k)
                    /\ At(slope_changes, k) <= After(slope_changes, q)
        /\ ~ (k > q) => After(mid, q) = After(slope_changes, q)
    BY <1>1, <2>1, AfterMoves
  <2> QED
    BY <2>2 DEF k
<1>4. /\ After(changes, q) \in Nat
      /\ n.end > q => After(changes, q) + At(mid, n.end) = After(mid, q) + At(changes, n.end)
      /\ ~ (n.end > q) => After(changes, q) = After(mid, q)
  <2> DEFINE k == n.end
  <2>1. k \in Nat /\ \A p \in Nat \ {k} : At(changes, p) = At(mid, p)
    BY <1>1 DEF Rescheduled
  <2> HIDE DEF k
  <2>2. /\ After(changes, q) \in Nat
        /\ k > q => After(changes, q) + At(mid, k) = After(mid, q) + At(changes, k)
        /\ ~ (k > q) => After(changes, q) = After(mid, q)
    BY <1>1, <2>1, AfterMoves
  <2> QED
    BY <2>2 DEF k
<1>5. /\ At(mid, o.end) + t = At(slope_changes, o.end)
      /\ At(changes, n.end) = At(mid, n.end) + n.slope
      /\ q # o.end => At(mid, q) = At(slope_changes, q)
      /\ q # n.end => At(changes, q) = At(mid, q)
  BY DEF Rescheduled
<1>6. /\ After(changes, q) + (IF o.end > q THEN t ELSE 0) =
           After(slope_changes, q) + (IF n.end > q THEN n.slope ELSE 0)
      /\ o.end > q => t <= After(slope_changes, q)
  BY <1>1, <1>2, <1>3, <1>4, <1>5
<1>7. At(changes, q) + (IF o.end = q THEN t ELSE 0) =
        At(slope_changes, q) + (IF n.end = q THEN n.slope ELSE 0)
  <2>1. At(changes, q) = At(mid, q) + (IF n.end = q THEN n.slope ELSE 0)
    BY <1>1, <1>2, <1>5
  <2>2. At(mid, q) + (IF o.end = q THEN t ELSE 0) = At(slope_changes, q)
    BY <1>1, <1>2, <1>5
  <2> QED
    BY <1>1, <1>2, <2>1, <2>2
<1> QED
  BY <1>2, <1>3, <1>4, <1>6, <1>7

\* The checkpoint of a user whose slope has been rescheduled leaves a total whose slope is
\* what is scheduled, and a schedule that is exactly that of the locks.
LEMMA SlopesMove ==
  ASSUME EscrowTypeOK, TotalTypeOK, ScheduleCovers, Period \in Nat,
         NEW user \in Users, NEW n, UserGets(user, n),
         NEW mid, NEW changes, NEW t, Rescheduled(mid, changes, point[user], n, t),
         NEW f, NEW ap, NEW aa, NEW rp, NEW ra,
         CheckpointLeaves(f, changes, ap, aa, rp, ra, t, n.slope)
  PROVE  /\ total'[Period].slope = After(changes, Period)
         /\ \A p \in Nat : p > Period => At(changes, p) = EndingOf(point', p)
<1> DEFINE o    == point[user]
           last == total[last_slope_change]
           L    == last_slope_change
<1>1. /\ o \in Points /\ n \in Points /\ L \in Nat /\ L <= Period /\ last \in Points /\ last.start = L
      /\ slope_changes \in Changes /\ changes \in Changes
  BY DEF EscrowTypeOK, TotalTypeOK, Rescheduled, UserGets
<1>2. Rescheduled(mid, changes, o, n, t)
  OBVIOUS
<1>3. /\ t \in Nat /\ (t > 0 => o.end > L) /\ (o.end > Period => t = o.slope)
      /\ (n.slope > 0 => n.end > Period)
  BY DEF Rescheduled
<1>4. /\ o.end \in Nat /\ o.slope \in Nat /\ n.end \in Nat /\ n.slope \in Nat
  BY <1>1 DEF Points
<1>5. last.slope = After(slope_changes, L)
  BY DEF ScheduleCovers
<1>6. IsLine(f, last, changes, Period) /\ total'[Period].slope = SatSub(f[Period].slope, t) + n.slope
  BY DEF CheckpointLeaves
<1>7. point \in [Users -> Points]
  BY DEF EscrowTypeOK
<1> HIDE DEF o, last
<1>8. /\ After(changes, Period) <= After(changes, L)
      /\ f[Period].slope = SatSub(last.slope, After(changes, L) - After(changes, Period))
  <2>1. Period \in last.start..Period
    BY <1>1
  <2>2. /\ After(changes, Period) <= After(changes, last.start)
        /\ f[Period].slope = SatSub(last.slope, After(changes, last.start) - After(changes, Period))
    BY <1>1, <1>6, <2>1, LineSlope
  <2> QED
    BY <1>1, <2>2
<1>9. /\ After(changes, L) \in Nat /\ After(slope_changes, L) \in Nat
      /\ After(changes, L) + (IF o.end > L THEN t ELSE 0) =
           After(slope_changes, L) + (IF n.end > L THEN n.slope ELSE 0)
  BY <1>1, <1>2, RescheduledIs
<1>10. /\ After(changes, Period) \in Nat /\ After(slope_changes, Period) \in Nat
       /\ After(changes, Period) + (IF o.end > Period THEN t ELSE 0) =
            After(slope_changes, Period) + (IF n.end > Period THEN n.slope ELSE 0)
       /\ o.end > Period => t <= After(slope_changes, Period)
  BY <1>1, <1>2, RescheduledIs
<1>11. total'[Period].slope = After(changes, Period)
  <2> DEFINE a == After(changes, L)
             b == After(changes, Period)
             s == After(slope_changes, L)
             c == After(slope_changes, Period)
             ns == n.slope
  <2>1. a \in Nat /\ b \in Nat /\ s \in Nat /\ c \in Nat /\ ns \in Nat /\ b <= a
    BY <1>4, <1>8, <1>9, <1>10
  <2>2. a + t = s + ns
    BY <1>1, <1>3, <1>4, <1>9
  <2>3. b + (IF o.end > Period THEN t ELSE 0) = c + ns
    BY <1>3, <1>4, <1>10
  <2>4. total'[Period].slope = SatSub(SatSub(s, a - b), t) + ns
    BY <1>5, <1>6, <1>8
  <2>5. o.end > Period => t <= c
    BY <1>10
  <2> HIDE DEF a, b, s, c, ns
  <2>6. CASE o.end > Period
    <3>1. b + t = c + ns /\ t <= c
      BY <2>3, <2>5, <2>6
    <3>2. SatSub(s, a - b) = c
      BY <1>3, <2>1, <2>2, <3>1 DEF SatSub
    <3>3. SatSub(c, t) + ns = b
      BY <1>3, <2>1, <3>1 DEF SatSub
    <3> QED
      BY <2>4, <3>2, <3>3 DEF b
  <2>7. CASE ~ (o.end > Period)
    <3>1. b = c + ns
      BY <2>1, <2>3, <2>7
    <3>2. SatSub(s, a - b) = c + t
      BY <1>3, <2>1, <2>2, <3>1 DEF SatSub
    <3>3. SatSub(c + t, t) + ns = b
      BY <1>3, <2>1, <3>1 DEF SatSub
    <3> QED
      BY <2>4, <3>2, <3>3 DEF b
  <2> QED
    BY <2>6, <2>7
<1>12. ASSUME NEW p \in Nat, p > Period
       PROVE  At(changes, p) = EndingOf(point', p)
  <2>1. /\ At(changes, p) \in Nat /\ At(slope_changes, p) \in Nat
        /\ At(changes, p) + (IF o.end = p THEN t ELSE 0) =
             At(slope_changes, p) + (IF n.end = p THEN n.slope ELSE 0)
    BY <1>1, <1>2, RescheduledIs
  <2>2. At(slope_changes, p) = EndingOf(point, p)
    BY <1>12 DEF ScheduleCovers
  <2>3. EndingOf(point', p) + EndingPart(o, p) = EndingOf(point, p) + EndingPart(n, p)
    BY UsersMove DEF o
  <2>4. EndingOf(point', p) \in Nat
    <3>1. point' \in [Users -> Points]
      BY <1>1, <1>7 DEF UserGets
    <3> QED
      BY <3>1, TotalsNat
  <2>5. EndingPart(o, p) = IF o.end = p THEN t ELSE 0
    BY <1>3, <1>12 DEF EndingPart
  <2>6. EndingPart(n, p) = IF n.end = p THEN n.slope ELSE 0
    BY DEF EndingPart
  <2> QED
    BY <1>3, <1>4, <2>1, <2>2, <2>3, <2>4, <2>5, <2>6
<1> QED
  BY <1>11, <1>12

\* No change that was due before the current period has been cancelled.
NotLate(o, t) == t > 0 => o.end >= Period

\* Up to the period before the current one, the schedule is then what it was.
LEMMA ScheduleKept ==
  ASSUME NEW o \in Points, NEW n \in Points, NEW mid, NEW changes, NEW t,
         slope_changes \in Changes, Rescheduled(mid, changes, o, n, t), NotLate(o, t),
         Period \in Nat, NEW q \in Nat, q < Period
  PROVE  /\ At(changes, q) = At(slope_changes, q)
         /\ After(changes, q) \in Nat /\ After(slope_changes, q) \in Nat
         /\ After(changes, q) + t = After(slope_changes, q) + n.slope
<1>1. /\ After(changes, q) \in Nat /\ After(slope_changes, q) \in Nat
      /\ After(changes, q) + (IF o.end > q THEN t ELSE 0) =
           After(slope_changes, q) + (IF n.end > q THEN n.slope ELSE 0)
      /\ At(changes, q) \in Nat /\ At(slope_changes, q) \in Nat
      /\ At(changes, q) + (IF o.end = q THEN t ELSE 0) =
           At(slope_changes, q) + (IF n.end = q THEN n.slope ELSE 0)
  BY RescheduledIs
<1>2. /\ t \in Nat /\ (t > 0 => o.end >= Period) /\ (n.slope > 0 => n.end > Period)
  BY DEF Rescheduled, NotLate
<1>3. o.end \in Nat /\ n.end \in Nat /\ n.slope \in Nat
  BY DEF Points
<1>4. /\ (IF o.end > q THEN t ELSE 0) = t /\ (IF o.end = q THEN t ELSE 0) = 0
      /\ (IF n.end > q THEN n.slope ELSE 0) = n.slope /\ (IF n.end = q THEN n.slope ELSE 0) = 0
  BY <1>2, <1>3
<1> QED
  BY <1>1, <1>4

\* The line that checkpoint_total follows then has the slopes of the locks.
LEMMA LineIsUsers ==
  ASSUME EscrowTypeOK, TotalTypeOK, ScheduleCovers, TotalsAgree, Period \in Nat,
         NEW o \in Points, NEW n \in Points, NEW mid, NEW changes, NEW t,
         Rescheduled(mid, changes, o, n, t), NotLate(o, t),
         NEW f, IsLine(f, total[last_slope_change], changes, Period)
  PROVE  f[Period].power = PowerOf(point, Period)
<1> DEFINE last == total[last_slope_change]
           L    == last_slope_change
<1>1. /\ L \in Nat /\ L <= Period /\ last \in Points /\ last.start = L
      /\ slope_changes \in Changes /\ changes \in Changes /\ point \in [Users -> Points]
  BY DEF EscrowTypeOK, TotalTypeOK, Rescheduled
<1>2. last.slope = After(slope_changes, L) /\ last.power = PowerOf(point, L)
  BY DEF ScheduleCovers, TotalsAgree
<1>3. \A p \in Nat : p > L => At(slope_changes, p) = EndingOf(point, p)
  BY DEF TotalsAgree
<1>4. n.slope \in Nat /\ t \in Nat
  BY DEF Points, Rescheduled
<1>5. IsLine(f, last, changes, Period)
  OBVIOUS
<1> HIDE DEF last
<1>6. ASSUME NEW q \in last.start..Period, q < Period
      PROVE  f[q].slope = SlopeOf(point, q)
  <2>1. q \in Nat /\ L <= q /\ L < Period
    BY <1>1, <1>6
  <2>2. /\ After(changes, q) <= After(changes, last.start)
        /\ f[q].slope = SatSub(last.slope, After(changes, last.start) - After(changes, q))
    BY <1>1, <1>5, LineSlope
  <2>3. /\ After(changes, q) \in Nat /\ After(slope_changes, q) \in Nat
        /\ After(changes, q) + t = After(slope_changes, q) + n.slope
    BY <1>1, <1>6, <2>1, ScheduleKept
  <2>4. /\ After(changes, L) \in Nat /\ After(slope_changes, L) \in Nat
        /\ After(changes, L) + t = After(slope_changes, L) + n.slope
    BY <1>1, <2>1, ScheduleKept
  <2>5. f[q].slope = SatSub(After(slope_changes, L), After(changes, L) - After(changes, q))
    BY <1>1, <1>2, <2>2
  <2>6. After(changes, q) <= After(changes, L)
    BY <1>1, <2>2
  <2> DEFINE a == After(changes, q)
             b == After(changes, L)
             c == After(slope_changes, q)
             d == After(slope_changes, L)
             s == n.slope
  <2>7. /\ a \in Nat /\ b \in Nat /\ c \in Nat /\ d \in Nat /\ s \in Nat /\ t \in Nat
        /\ a + t = c + s /\ b + t = d + s /\ a <= b
    BY <1>4, <2>3, <2>4, <2>6
  <2> HIDE DEF a, b, c, d, s
  <2>8. SatSub(d, b - a) = c
    BY <2>7 DEF SatSub
  <2>9. f[q].slope = After(slope_changes, q)
    BY <2>5, <2>8 DEF a, b, c, d
  <2>10. After(slope_changes, q) = SlopeOf(point, q)
    BY <1>1, <1>3, <2>1, ScheduledSlopes
  <2> QED
    BY <2>9, <2>10
<1>7. last.power = PowerOf(point, last.start)
  BY <1>1, <1>2
<1>8. Period \in last.start..Period
  BY <1>1
<1>9. \A q \in last.start..Period : q < Period => f[q].slope = SlopeOf(point, q)
  BY <1>6
<1> QED
  BY <1>1, <1>5, <1>7, <1>8, <1>9, LinePower

\* The power and the amount that a transaction adds are those of the user's point.
Balanced(o, n, ap, aa, rp, ra) ==
  /\ ap + PowerPart(o, Period) = PowerPart(n, Period) + rp
  /\ aa + o.fixed = n.fixed + ra

\* So the total keeps being the sum of the users.
LEMMA SumsMove ==
  ASSUME EscrowTypeOK, TotalTypeOK, ScheduleCovers, TotalsAgree, Period \in Nat,
         NEW user \in Users, NEW n, UserGets(user, n),
         NEW mid, NEW changes, NEW t, Rescheduled(mid, changes, point[user], n, t),
         NotLate(point[user], t),
         NEW f, NEW ap \in Nat, NEW aa \in Nat, NEW rp \in Nat, NEW ra \in Nat,
         CheckpointLeaves(f, changes, ap, aa, rp, ra, t, n.slope),
         Balanced(point[user], n, ap, aa, rp, ra)
  PROVE  /\ total'[Period].power = PowerOf(point', Period)
         /\ total'[Period].fixed = FixedOf(point')
<1> DEFINE o    == point[user]
           last == total[last_slope_change]
<1>1. /\ o \in Points /\ n \in Points /\ point \in [Users -> Points]
      /\ last \in Points /\ last.start = last_slope_change
      /\ last_slope_change \in Nat /\ last_slope_change <= Period /\ changes \in Changes
  BY DEF EscrowTypeOK, TotalTypeOK, UserGets, Rescheduled
<1>2. /\ IsLine(f, last, changes, Period)
      /\ total'[Period].power = SatSub(f[Period].power + ap, rp)
      /\ total'[Period].fixed = SatSub(f[Period].fixed + aa, ra)
  BY DEF CheckpointLeaves
<1>3. f[Period].power = PowerOf(point, Period)
  BY <1>1, <1>2, LineIsUsers
<1>4. f[Period].fixed = FixedOf(point)
  <2>1. Period \in last.start..Period
    BY <1>1
  <2>2. last.fixed = FixedOf(point)
    BY DEF TotalsAgree
  <2> HIDE DEF last
  <2>3. f[Period].fixed = last.fixed
    BY <1>1, <1>2, <2>1, LineSlope
  <2> QED
    BY <2>2, <2>3
<1>5. /\ point' \in [Users -> Points]
      /\ PowerOf(point', Period) + PowerPart(o, Period) = PowerOf(point, Period) + PowerPart(n, Period)
      /\ FixedOf(point') + o.fixed = FixedOf(point) + n.fixed
  BY UsersMove
<1>6. /\ PowerOf(point, Period) \in Nat /\ FixedOf(point) \in Nat
      /\ PowerOf(point', Period) \in Nat /\ FixedOf(point') \in Nat
  BY <1>1, <1>5, TotalsNat
<1>7. /\ PowerPart(o, Period) \in Nat /\ o.fixed \in Nat
      /\ PowerPart(n, Period) \in Nat /\ n.fixed \in Nat
  BY <1>1, PartsNat
<1>8. /\ ap + PowerPart(o, Period) = PowerPart(n, Period) + rp
      /\ aa + o.fixed = n.fixed + ra
  BY DEF Balanced
<1> HIDE DEF o, last
<1>9. SatSub(PowerOf(point, Period) + ap, rp) = PowerOf(point', Period)
  <2> DEFINE w  == PowerOf(point, Period)
             w1 == PowerOf(point', Period)
             x  == PowerPart(o, Period)
             y  == PowerPart(n, Period)
  <2>1. /\ w \in Nat /\ w1 \in Nat /\ x \in Nat /\ y \in Nat
        /\ w1 + x = w + y /\ ap + x = y + rp
    BY <1>5, <1>6, <1>7, <1>8
  <2> HIDE DEF w, w1, x, y
  <2>2. SatSub(w + ap, rp) = w1
    BY <2>1 DEF SatSub
  <2> QED
    BY <2>2 DEF w, w1
<1>10. SatSub(FixedOf(point) + aa, ra) = FixedOf(point')
  <2> DEFINE w  == FixedOf(point)
             w1 == FixedOf(point')
             x  == o.fixed
             y  == n.fixed
  <2>1. /\ w \in Nat /\ w1 \in Nat /\ x \in Nat /\ y \in Nat
        /\ w1 + x = w + y /\ aa + x = y + ra
    BY <1>5, <1>6, <1>7, <1>8
  <2> HIDE DEF w, w1, x, y
  <2>2. SatSub(w + aa, ra) = w1
    BY <2>1 DEF SatSub
  <2> QED
    BY <2>2 DEF w, w1
<1> QED
  BY <1>2, <1>3, <1>4, <1>9, <1>10

\* And the periods that are over keep their total.
LEMMA PastMove ==
  ASSUME TotalTypeOK, Period \in Nat,
         NEW o \in Points, NEW n \in Points,
         NEW mid, NEW changes, NEW t, Rescheduled(mid, changes, o, n, t), NotLate(o, t),
         NEW f, NEW ap, NEW aa, NEW rp, NEW ra,
         CheckpointLeaves(f, changes, ap, aa, rp, ra, t, n.slope),
         NEW p \in last_slope_change..(Period - 1)
  PROVE  TotalVampAt(total', changes, p) = TotalVampAt(total, slope_changes, p)
<1> DEFINE last == total[last_slope_change]
           L    == last_slope_change
<1>1. /\ L \in Nat /\ last \in Points /\ last.start = L
      /\ slope_changes \in Changes /\ changes \in Changes
  BY DEF TotalTypeOK, Rescheduled
<1>2. /\ p \in Nat /\ L <= p /\ p < Period /\ p \in L..Period /\ L \in L..Period
  BY <1>1
<1>3. /\ IsLine(f, last, changes, Period)
      /\ DOMAIN total' \subseteq L..Period /\ L \in DOMAIN total'
      /\ \A q \in DOMAIN total' : q < Period => total'[q] = f[q]
  BY DEF CheckpointLeaves
<1>4. fetch_last_checkpoint(total, p) = last
  BY <1>2, LastCheckpoint
<1> HIDE DEF last
<1>5. Recalculate(last, slope_changes, p) = f[p]
  <2> DEFINE g == [q \in L..p |-> f[q]]
  <2>1. \A q \in L..p : q \in L..Period /\ f[q] \in Points
    BY <1>1, <1>2, <1>3 DEF IsLine
  <2>2. g \in [L..p -> Points] /\ g[L] = last /\ g[p] = f[p]
    BY <1>1, <1>2, <1>3, <2>1 DEF IsLine
  <2>3. ASSUME NEW q \in (L + 1)..p
        PROVE  g[q] = NextPoint(g[q - 1], At(slope_changes, q), q)
    <3>1. q \in Nat /\ q < Period /\ q \in L..p /\ q - 1 \in L..p /\ q \in (L + 1)..Period
      BY <1>1, <1>2
    <3>2. At(changes, q) = At(slope_changes, q)
      BY <1>1, <3>1, ScheduleKept
    <3>3. f[q] = NextPoint(f[q - 1], At(changes, q), q)
      BY <1>1, <1>3, <3>1 DEF IsLine
    <3>4. g[q] = f[q] /\ g[q - 1] = f[q - 1]
      BY <3>1
    <3> QED
      BY <3>2, <3>3, <3>4
  <2> HIDE DEF g
  <2>4. IsLine(g, last, slope_changes, p)
    BY <1>1, <2>2, <2>3 DEF IsLine
  <2>5. Recalculate(last, slope_changes, p) = g[p]
    BY <1>1, <1>2, <2>4, RecalculateIs
  <2> QED
    BY <2>2, <2>5
<1> DEFINE D == {q \in DOMAIN total' : q <= p}
<1>6. PICK k \in D : \A q \in D : q <= k
  <2>1. D \subseteq 0..p /\ L \in D
    BY <1>1, <1>2, <1>3
  <2> HIDE DEF D
  <2> QED
    BY <1>2, <2>1, NatMax
<1>7. /\ k \in DOMAIN total' /\ k <= p /\ k \in L..Period /\ k < Period /\ p \in k..Period
      /\ \A q \in DOMAIN total' : q <= p => q <= k
  BY <1>1, <1>2, <1>3, <1>6
<1>8. fetch_last_checkpoint(total', p) = f[k]
  <2>1. PICK points : points = total'
    OBVIOUS
  <2>2. DOMAIN points \subseteq Nat
    BY <1>1, <1>3, <2>1
  <2>3. fetch_last_checkpoint(points, p) = points[k]
    BY <1>2, <1>7, <2>1, <2>2, FetchIs
  <2>4. total'[k] = f[k]
    BY <1>3, <1>7
  <2> QED
    BY <2>1, <2>3, <2>4
<1>9. Recalculate(f[k], changes, p) = f[p]
  <2>1. k \in last.start..Period
    BY <1>1, <1>7
  <2> QED
    BY <1>1, <1>3, <1>7, <2>1, RecalculateOn
<1>10. TotalVampAt(total', changes, p) = f[p].power + f[p].fixed
  BY <1>8, <1>9, Zenon DEF TotalVampAt
<1>11. TotalVampAt(total, slope_changes, p) = f[p].power + f[p].fixed
  BY <1>4, <1>5, Zenon DEF TotalVampAt
<1> QED
  BY <1>10, <1>11

-----------------------------------------------------------------------------
(* The transactions.                                                       *)

\* What PastIsFinal says of a step.
PastStep ==
  \A p \in last_slope_change..(Period - 1) :
    drift' \cap {"late extension", "kept power"} # {} \/
      get_total_vamp_at_period(p)' = get_total_vamp_at_period(p)

\* Whether power was kept, or a lock extended late, among the causes.
Kept(causes) == "kept power" \in causes
Late(causes) == "late extension" \in causes

\* Nothing else happened to a user than what the transaction's checkpoint of the total
\* says, unless one of the causes is recorded.
Accounted(user, n, mid, changes, t, ap, aa, rp, ra, os) ==
  /\ changes \in Changes
  /\ ap \in Nat /\ aa \in Nat /\ rp \in Nat /\ ra \in Nat /\ os \in Nat
  /\ checkpoint_total(changes, ap, aa, rp, ra, os, n.slope)
  /\ UserGets(user, n)
  /\ drift \subseteq drift'
  /\ ~ Kept(drift') => os = t /\ Rescheduled(mid, changes, point[user], n, t)
  /\ ~ Kept(drift') /\ ~ Late(drift') => NotLate(point[user], t)
  /\ drift' = {} => Balanced(point[user], n, ap, aa, rp, ra)

\* Such a transaction keeps the invariant of the total, and the past.
LEMMA AccountedKeeps ==
  ASSUME EscrowTypeOK, TotalInv, Period \in Nat, Period' = Period, NEW user \in Users,
         NEW n, NEW mid, NEW changes, NEW t, NEW ap, NEW aa, NEW rp, NEW ra, NEW os,
         Accounted(user, n, mid, changes, t, ap, aa, rp, ra, os)
  PROVE  TotalInv' /\ PastStep
<1>1. /\ changes \in Changes
      /\ ap \in Nat /\ aa \in Nat /\ rp \in Nat /\ ra \in Nat /\ os \in Nat
      /\ checkpoint_total(changes, ap, aa, rp, ra, os, n.slope)
      /\ UserGets(user, n)
  BY DEF Accounted
<1>2. n \in Points /\ n.slope \in Nat /\ point[user] \in Points
  BY <1>1 DEF UserGets, Points, EscrowTypeOK
<1>3. TotalTypeOK /\ slope_changes \in Changes /\ last_slope_change \in Nat
  BY DEF TotalInv, TotalTypeOK
<1>4. PICK f : CheckpointLeaves(f, changes, ap, aa, rp, ra, os, n.slope)
  BY <1>1, <1>2, <1>3, CheckpointTotal
<1>5. TotalTypeOK'
  BY <1>1, <1>3, <1>4, CheckpointTyped
<1>6. last_slope_change' = Period /\ slope_changes' = changes
  BY <1>4 DEF CheckpointLeaves
<1>7. ASSUME ~ Kept(drift')
      PROVE  /\ Rescheduled(mid, changes, point[user], n, t) /\ ScheduleCovers
             /\ CheckpointLeaves(f, changes, ap, aa, rp, ra, t, n.slope)
             /\ ScheduleCovers'
  <2>1. os = t /\ Rescheduled(mid, changes, point[user], n, t)
    BY <1>7 DEF Accounted
  <2>2. ScheduleCovers
    BY <1>7 DEF Accounted, Kept, TotalInv, SlopesInv
  <2>3. CheckpointLeaves(f, changes, ap, aa, rp, ra, t, n.slope)
    BY <1>4, <2>1
  <2>4. /\ total'[Period].slope = After(changes, Period)
        /\ \A p \in Nat : p > Period => At(changes, p) = EndingOf(point', p)
    <3>1. UserGets(user, n) /\ TotalTypeOK /\ Rescheduled(mid, changes, point[user], n, t)
      BY <1>1, <1>3, <2>1
    <3> QED
      BY <2>2, <2>3, <3>1, SlopesMove, Zenon
  <2>5. point' \in [Users -> Points]
    BY <1>1, UsersMove
  <2>6. \A p \in Nat : EndingOf(point', p) \in Nat
    BY <2>5, TotalsNat
  <2>7. \A p \in Nat : p > Period => EndingOf(point', p) <= At(changes, p)
    BY <2>4, <2>6
  <2>8. ScheduleCovers'
    BY <1>6, <2>4, <2>7 DEF ScheduleCovers
  <2> QED
    BY <2>1, <2>2, <2>3, <2>8
<1>8. SlopesInv'
  BY <1>7 DEF SlopesInv, Kept
<1>9. ASSUME drift' = {}
      PROVE  TotalsAgree'
  <2>1. drift = {} /\ ~ Kept(drift') /\ ~ Late(drift')
    BY <1>9 DEF Accounted, Kept, Late
  <2>2. TotalsAgree
    BY <2>1 DEF TotalInv, SumsInv
  <2>3. NotLate(point[user], t) /\ Balanced(point[user], n, ap, aa, rp, ra)
    BY <1>9, <2>1 DEF Accounted
  <2>4. /\ Rescheduled(mid, changes, point[user], n, t) /\ ScheduleCovers /\ ScheduleCovers'
        /\ CheckpointLeaves(f, changes, ap, aa, rp, ra, t, n.slope)
    BY <1>7, <2>1
  <2>5. /\ total'[Period].power = PowerOf(point', Period)
        /\ total'[Period].fixed = FixedOf(point')
    BY <1>1, <1>3, <2>2, <2>3, <2>4, SumsMove
  <2>6. \A p \in Nat : p > last_slope_change' => At(slope_changes', p) = EndingOf(point', p)
    BY <1>6, <2>4 DEF ScheduleCovers
  <2> QED
    BY <1>6, <2>5, <2>6 DEF TotalsAgree
<1>10. SumsInv'
  BY <1>9 DEF SumsInv
<1>11. ASSUME NEW p \in last_slope_change..(Period - 1), ~ Kept(drift'), ~ Late(drift')
       PROVE  get_total_vamp_at_period(p)' = get_total_vamp_at_period(p)
  <2>1. NotLate(point[user], t)
    BY <1>11 DEF Accounted
  <2>2. TotalVampAt(total', changes, p) = TotalVampAt(total, slope_changes, p)
    BY <1>2, <1>3, <1>7, <1>11, <2>1, PastMove
  <2> QED
    BY <1>6, <2>2 DEF get_total_vamp_at_period
<1>12. PastStep
  <2> SUFFICES ASSUME NEW p \in last_slope_change..(Period - 1),
                      drift' \cap {"late extension", "kept power"} = {}
               PROVE  get_total_vamp_at_period(p)' = get_total_vamp_at_period(p)
    BY Zenon DEF PastStep
  <2>1. ~ Kept(drift') /\ ~ Late(drift')
    BY Zenon DEF Kept, Late
  <2> QED
    BY <1>11, <2>1
<1> QED
  BY <1>5, <1>8, <1>10, <1>12 DEF TotalInv

\* The power of a point on its line is its part of the total.
LEMMA PowerIsPart ==
  ASSUME NEW pt \in Points, NEW causes, OnItsLine(pt, causes), ~ Kept(causes),
         NEW p \in Nat, pt.start <= p
  PROVE  calc_voting_power(pt, p) = PowerPart(pt, p)
<1> DEFINE w == pt.power
           s == pt.slope
           a == pt.start
           e == pt.end
<1>1. w \in Nat /\ s \in Nat /\ a \in Nat /\ e \in Nat /\ a <= p
  BY DEF Points
<1>2. w = s * SatSub(e, a)
  BY DEF OnItsLine, Kept
<1> HIDE DEF w, s, a, e
<1>3. SatSub(w, s * (p - a)) = s * SatSub(e, p)
  <2>1. CASE e >= p
    <3> DEFINE x == e - p
               y == p - a
    <3>1. x \in Nat /\ y \in Nat /\ SatSub(e, a) = x + y /\ SatSub(e, p) = x
      BY <1>1, <2>1 DEF SatSub
    <3> HIDE DEF x, y
    <3>2. s * (x + y) = s * x + s * y /\ s * x \in Nat /\ s * y \in Nat
      BY <1>1, <3>1, SMT
    <3> DEFINE sx == s * x
               sy == s * y
    <3>3. w = sx + sy /\ sx \in Nat /\ sy \in Nat
      BY <1>2, <3>1, <3>2
    <3> HIDE DEF sx, sy
    <3>4. SatSub(w, sy) = sx
      BY <3>3 DEF SatSub
    <3> QED
      BY <3>1, <3>4 DEF sx, sy, y
  <2>2. CASE ~ (e >= p)
    <3> DEFINE x == SatSub(e, a)
               y == p - a
               z == y - x
    <3>1. x \in Nat /\ y \in Nat /\ z \in Nat /\ y = x + z /\ SatSub(e, p) = 0
      BY <1>1, <2>2 DEF SatSub
    <3>2. w = s * x
      BY <1>2
    <3> HIDE DEF x, y, z
    <3>3. s * y = s * x + s * z /\ s * x \in Nat /\ s * z \in Nat
      BY <1>1, <3>1, SMT
    <3> DEFINE sx == s * x
               sy == s * y
               sz == s * z
    <3>4. w = sx /\ sy = sx + sz /\ sx \in Nat /\ sz \in Nat
      BY <3>2, <3>3
    <3> HIDE DEF sx, sy, sz
    <3>5. SatSub(w, sy) = 0
      BY <3>4 DEF SatSub
    <3>6. s * 0 = 0
      BY <1>1
    <3> QED
      BY <3>1, <3>5, <3>6 DEF sy, y
  <2> QED
    BY <2>1, <2>2
<1> QED
  BY <1>3 DEF w, s, a, e, calc_voting_power, PowerPart

\* Cancelling the slope of a point takes it off the schedule in full: the schedule covers it.
LEMMA CancelInFull ==
  ASSUME EscrowTypeOK, TotalTypeOK, ScheduleCovers, NEW user \in Users,
         NEW o, o = point[user], NEW mid,
         mid = cancel_scheduled_slope(slope_changes, o.slope, o.end)
  PROVE  /\ mid \in Changes
         /\ \A p \in Nat \ {o.end} : At(mid, p) = At(slope_changes, p)
         /\ At(mid, o.end) + (IF o.end > last_slope_change THEN o.slope ELSE 0) =
              At(slope_changes, o.end)
<1>1. /\ o \in Points /\ o.end \in Nat /\ o.slope \in Nat /\ slope_changes \in Changes
      /\ last_slope_change \in Nat /\ point \in [Users -> Points]
  BY DEF EscrowTypeOK, TotalTypeOK, Points
<1>2. /\ mid \in Changes
      /\ \A p \in Nat \ {o.end} : At(mid, p) = At(slope_changes, p)
      /\ At(mid, o.end) = IF o.end <= last_slope_change THEN At(slope_changes, o.end)
                          ELSE SatSub(At(slope_changes, o.end), o.slope)
  <2> DEFINE k == o.end
             s == o.slope
  <2>1. k \in Nat /\ s \in Nat /\ mid = cancel_scheduled_slope(slope_changes, s, k)
    BY <1>1
  <2> HIDE DEF k, s
  <2>2. /\ mid \in Changes
        /\ \A p \in Nat \ {k} : At(mid, p) = At(slope_changes, p)
        /\ At(mid, k) = IF k <= last_slope_change THEN At(slope_changes, k)
                        ELSE SatSub(At(slope_changes, k), s)
    <3> DEFINE c == cancel_scheduled_slope(slope_changes, s, k)
    <3>1. /\ c \in Changes
          /\ \A p \in Nat \ {k} : At(c, p) = At(slope_changes, p)
          /\ At(c, k) = IF k <= last_slope_change THEN At(slope_changes, k)
                        ELSE SatSub(At(slope_changes, k), s)
      BY <1>1, <2>1, CancelIs
    <3> HIDE DEF c
    <3>2. mid = c
      BY <2>1 DEF c
    <3> QED
      BY <3>1, <3>2, Zenon
  <2> QED
    BY <2>2, Zenon DEF k, s
<1>3. At(slope_changes, o.end) \in Nat
  BY <1>1, AtNat
<1>4. ASSUME o.end > last_slope_change PROVE o.slope <= At(slope_changes, o.end)
  <2>1. EndingOf(point, o.end) <= At(slope_changes, o.end)
    BY <1>1, <1>4 DEF ScheduleCovers
  <2>2. EndingPart(o, o.end) = o.slope
    BY DEF EndingPart
  <2>3. EndingPart(o, o.end) <= EndingOf(point, o.end)
    BY <1>1, TotalsMove
  <2>4. EndingOf(point, o.end) \in Nat
    BY <1>1, TotalsNat
  <2> QED
    BY <1>1, <1>3, <2>1, <2>2, <2>3, <2>4
<1>5. At(mid, o.end) + (IF o.end > last_slope_change THEN o.slope ELSE 0) =
        At(slope_changes, o.end)
  <2>1. CASE o.end > last_slope_change
    <3>1. At(mid, o.end) = SatSub(At(slope_changes, o.end), o.slope)
      BY <1>1, <1>2, <2>1
    <3>2. \A x \in Nat : o.slope <= x => SatSub(x, o.slope) + o.slope = x
      BY <1>1 DEF SatSub
    <3> QED
      BY <1>3, <1>4, <2>1, <3>1, <3>2
  <2>2. CASE ~ (o.end > last_slope_change)
    <3>1. At(mid, o.end) = At(slope_changes, o.end)
      BY <1>1, <1>2, <2>2
    <3> QED
      BY <1>3, <2>2, <3>1
  <2> QED
    BY <2>1, <2>2
<1> QED
  BY <1>2, <1>5

\* checkpoint reschedules the user's slope and adds to the total what it adds to the point.
LEMMA CheckpointAccounted ==
  ASSUME EscrowInv, TotalInv, Period \in Nat, NEW user \in Users,
         NEW add \in Nat, NEW amount \in Nat, NEW end \in Nat,
         checkpoint(user, add, amount, end)
  PROVE  \E n, mid, changes, t, ap, aa, rp, ra, os :
           Accounted(user, n, mid, changes, t, ap, aa, rp, ra, os)
<1> DEFINE o       == point[user]
           dt      == SatSub(end, Period)
           cur     == calc_voting_power(o, Period)
           power   == IF end > o.end
                      THEN checked_mul_uint(calc_coefficient(dt), amount)
                      ELSE cur + checked_mul_uint(calc_coefficient(dt), add)
           slope   == IF dt = 0 THEN 0 ELSE power \div dt
           more    == SatSub(slope * dt, cur)
           fixed   == o.fixed + add
           n       == [power |-> cur + more, slope |-> slope, start |-> Period,
                       end |-> end, fixed |-> fixed]
           t       == IF o.end > last_slope_change THEN o.slope ELSE 0
           mid     == cancel_scheduled_slope(slope_changes, o.slope, o.end)
           changes == schedule_slope_change(mid, slope, end)
<1>1. /\ point' = [point EXCEPT ![user] = n]
      /\ checkpoint_total(changes, more, add, 0, 0, t, slope)
      /\ drift' = drift
           \cup {c \in {"late extension"} : o.end > last_slope_change /\ o.end < Period /\ o.slope > 0}
           \cup {c \in {"kept power"} : slope * dt < cur}
  BY DEF checkpoint
<1>2. /\ o \in Points /\ o.start <= Period /\ OnItsLine(o, drift)
      /\ o.end \in Nat /\ o.slope \in Nat /\ o.fixed \in Nat
      /\ last_slope_change \in Nat /\ last_slope_change <= Period /\ slope_changes \in Changes
  BY DEF EscrowInv, EscrowTypeOK, UserInv, Points, TotalInv, TotalTypeOK
<1>3. dt \in Nat /\ (dt # 0 => end > Period)
  BY SMT DEF SatSub
<1>4. cur \in Nat
  BY <1>2, VotingPowerNat
<1> HIDE DEF o, dt, cur
<1>5. power \in Nat
  <2>1. checked_mul_uint(calc_coefficient(dt), amount) \in Nat
    BY <1>3, PowerNat
  <2>2. checked_mul_uint(calc_coefficient(dt), add) \in Nat
    BY <1>3, PowerNat
  <2>3. cur + checked_mul_uint(calc_coefficient(dt), add) \in Nat
    BY <1>4, <2>2
  <2> QED
    BY <2>1, <2>3, Zenon
<1> HIDE DEF power
<1>6. slope \in Nat /\ (slope > 0 => end > Period)
  BY <1>3, <1>5, DivNat
<1>7. slope * dt \in Nat
  BY <1>3, <1>6, MulNat
<1>8. more \in Nat
  BY <1>4, <1>7, SMT DEF SatSub
<1>9. fixed \in Nat
  BY <1>2
<1>10. t \in Nat
  BY <1>2
<1> HIDE DEF slope, more, fixed, t
<1>11. n \in Points /\ n.slope = slope /\ n.end = end /\ n.fixed = fixed
  BY <1>4, <1>6, <1>8, <1>9 DEF Points
<1>12. UserGets(user, n)
  BY <1>1, <1>11, Zenon DEF UserGets
<1> HIDE DEF n
<1>13. mid \in Changes
  <2> DEFINE k == o.end
             s == o.slope
  <2>1. k \in Nat /\ s \in Nat
    BY <1>2
  <2> HIDE DEF k, s
  <2>2. cancel_scheduled_slope(slope_changes, s, k) \in Changes
    BY <1>2, <2>1, CancelIs, Zenon
  <2> QED
    BY <2>2 DEF k, s
<1> HIDE DEF mid
<1>14. /\ changes \in Changes
       /\ \A p \in Nat \ {end} : At(changes, p) = At(mid, p)
       /\ At(changes, end) = At(mid, end) + slope
  BY <1>6, <1>13, ScheduleIs, Zenon
<1> HIDE DEF changes
<1>15. ASSUME ~ Kept(drift')
       PROVE  Rescheduled(mid, changes, o, n, t)
  <2>1. ScheduleCovers
    BY <1>1, <1>15, Zenon DEF TotalInv, SlopesInv, Kept
  <2>2. /\ \A p \in Nat \ {o.end} : At(mid, p) = At(slope_changes, p)
        /\ At(mid, o.end) + t = At(slope_changes, o.end)
    BY <2>1, CancelInFull, Zenon DEF EscrowInv, TotalInv, o, mid, t
  <2>3. t > 0 => o.end > last_slope_change
    BY DEF t
  <2>4. o.end > Period => t = o.slope
    BY <1>2 DEF t
  <2>5. /\ \A p \in Nat \ {n.end} : At(changes, p) = At(mid, p)
        /\ At(changes, n.end) = At(mid, n.end) + n.slope
        /\ n.slope > 0 => n.end > Period
    BY <1>6, <1>11, <1>14
  <2> QED
    BY <1>10, <1>13, <1>14, <2>2, <2>3, <2>4, <2>5 DEF Rescheduled
<1>16. ASSUME ~ Late(drift') PROVE NotLate(o, t)
  <2>1. ~ (o.end > last_slope_change /\ o.end < Period /\ o.slope > 0)
    BY <1>1, <1>16, Zenon DEF Late
  <2> QED
    BY <1>2, <2>1 DEF NotLate, t
<1>17. ASSUME drift' = {} PROVE Balanced(o, n, more, add, 0, 0)
  <2>1. drift = {} /\ ~ Kept(drift) /\ ~ (slope * dt < cur)
    BY <1>1, <1>17, Zenon DEF Kept
  <2>2. cur = PowerPart(o, Period)
    BY <1>2, <2>1, PowerIsPart DEF cur
  <2>3. PowerPart(n, Period) = slope * dt
    BY <1>11 DEF PowerPart, dt
  <2> DEFINE w == slope * dt
  <2>4. w \in Nat /\ ~ (w < cur) /\ more = SatSub(w, cur)
    BY <1>7, <2>1 DEF more
  <2> HIDE DEF w
  <2>5. more + cur = w + 0
    BY <1>4, <2>4 DEF SatSub
  <2>6. add + o.fixed = n.fixed + 0
    BY <1>2, <1>9, <1>11 DEF fixed
  <2> QED
    BY <2>2, <2>3, <2>5, <2>6 DEF Balanced, w
<1>18. drift \subseteq drift'
  BY <1>1, Zenon
<1>19. checkpoint_total(changes, more, add, 0, 0, t, n.slope)
  BY <1>1, <1>11
<1>20. Accounted(user, n, mid, changes, t, more, add, 0, 0, t)
  BY <1>8, <1>10, <1>12, <1>14, <1>15, <1>16, <1>17, <1>18, <1>19 DEF Accounted, o
<1> QED
  BY <1>20, Zenon

\* The zero point adds nothing to any total.
LEMMA ZeroPointParts ==
  ASSUME Period \in Nat, NEW q \in Nat
  PROVE  /\ ZeroPoint(Period) \in Points
         /\ ZeroPoint(Period).slope = 0 /\ ZeroPoint(Period).end = Period
         /\ ZeroPoint(Period).fixed = 0 /\ ZeroPoint(Period).power = 0
         /\ EndingPart(ZeroPoint(Period), q) = 0 /\ PowerPart(ZeroPoint(Period), q) = 0
<1> DEFINE z == ZeroPoint(Period)
<1>1. z \in Points /\ z.slope = 0 /\ z.end = Period /\ z.fixed = 0 /\ z.power = 0
  BY DEF ZeroPoint, Points
<1> HIDE DEF z
<1>2. SatSub(z.end, q) \in Nat
  BY <1>1 DEF SatSub
<1>3. EndingPart(z, q) = 0 /\ PowerPart(z, q) = 0
  BY <1>1, <1>2 DEF EndingPart, PowerPart
<1> QED
  BY <1>1, <1>3 DEF z

\* withdraw changes no schedule: the lock has ended, or the user has no slope.
LEMMA WithdrawAccounted ==
  ASSUME EscrowInv, TotalInv, Period \in Nat, NEW user \in Users, withdraw(user)
  PROVE  \E n, mid, changes, t, ap, aa, rp, ra, os :
           Accounted(user, n, mid, changes, t, ap, aa, rp, ra, os)
<1> DEFINE o == point[user]
           n == ZeroPoint(Period)
           amount == locked[user].amount
<1>1. /\ n \in Points /\ n.slope = 0 /\ n.end = Period /\ n.fixed = 0
      /\ PowerPart(n, Period) = 0
  BY ZeroPointParts
<1>2. /\ point' = [point EXCEPT ![user] = n]
      /\ checkpoint_total(slope_changes, 0, 0, 0, amount, 0, 0)
      /\ drift' = drift \cup {c \in {"blacklisted withdrawal"} : user \in blacklist}
      /\ amount > 0 /\ locked[user].end <= Period
  BY DEF withdraw
<1>3. /\ o \in Points /\ o.end \in Nat /\ o.slope \in Nat /\ o.fixed \in Nat
      /\ amount \in Nat /\ slope_changes \in Changes
  BY DEF EscrowInv, EscrowTypeOK, Points, TotalInv, TotalTypeOK
<1>4. user \notin blacklist => o.end <= Period /\ o.fixed = amount
  BY <1>2 DEF EscrowInv, UserInv
<1>5. o.end > Period => o.slope = 0
  <2>1. CASE user \in blacklist
    BY <2>1 DEF EscrowInv, UserInv
  <2>2. CASE user \notin blacklist
    BY <1>3, <1>4, <2>2
  <2> QED
    BY <2>1, <2>2
<1>6. UserGets(user, n)
  BY <1>1, <1>2, Zenon DEF UserGets
<1> HIDE DEF o, n, amount
<1>7. Rescheduled(slope_changes, slope_changes, o, n, 0)
  <2>1. At(slope_changes, o.end) + 0 = At(slope_changes, o.end)
    BY <1>3, AtNat
  <2>2. At(slope_changes, n.end) = At(slope_changes, n.end) + n.slope
    BY <1>1, <1>3, AtNat
  <2> QED
    BY <1>1, <1>3, <1>5, <2>1, <2>2 DEF Rescheduled
<1>8. NotLate(o, 0)
  BY DEF NotLate
<1>9. ASSUME drift' = {} PROVE Balanced(o, n, 0, 0, 0, amount)
  <2>1. user \notin blacklist
    BY <1>2, <1>9
  <2>2. PowerPart(o, Period) = 0
    <3>1. SatSub(o.end, Period) = 0
      BY <1>3, <1>4, <2>1 DEF SatSub
    <3> QED
      BY <1>3, <3>1 DEF PowerPart
  <2>3. 0 + o.fixed = n.fixed + amount
    BY <1>1, <1>3, <1>4, <2>1
  <2> QED
    BY <1>1, <2>2, <2>3 DEF Balanced
<1>10. drift \subseteq drift'
  BY <1>2, Zenon
<1>11. checkpoint_total(slope_changes, 0, 0, 0, amount, 0, n.slope)
  BY <1>1, <1>2
<1>12. 0 \in Nat
  OBVIOUS
<1>13. Accounted(user, n, slope_changes, slope_changes, 0, 0, 0, 0, amount, 0)
  BY <1>3, <1>6, <1>7, <1>8, <1>9, <1>10, <1>11, <1>12 DEF Accounted, o
<1> QED
  BY <1>13, Zenon

\* Blacklisting a user who has power takes it, and the slope, off the total.
LEMMA BlacklistAccounted ==
  ASSUME EscrowInv, TotalInv, Period \in Nat, NEW user \in Users, Blacklist(user),
         calc_voting_power(point[user], Period) # 0
  PROVE  \E n, mid, changes, t, ap, aa, rp, ra, os :
           Accounted(user, n, mid, changes, t, ap, aa, rp, ra, os)
<1> DEFINE o == point[user]
           n == ZeroPoint(Period)
           cur == calc_voting_power(o, Period)
           mid == cancel_scheduled_slope(slope_changes, o.slope, o.end)
<1>1. /\ n \in Points /\ n.slope = 0 /\ n.end = Period /\ n.fixed = 0
      /\ PowerPart(n, Period) = 0
  BY ZeroPointParts
<1>2. /\ point' = [point EXCEPT ![user] = n]
      /\ checkpoint_total(mid, 0, 0, cur, o.fixed, o.slope, 0)
      /\ drift \subseteq drift' /\ cur # 0
  BY DEF Blacklist
<1>3. /\ o \in Points /\ o.end \in Nat /\ o.slope \in Nat /\ o.fixed \in Nat
      /\ o.start <= Period /\ OnItsLine(o, drift)
      /\ slope_changes \in Changes /\ last_slope_change \in Nat /\ last_slope_change <= Period
  BY DEF EscrowInv, EscrowTypeOK, UserInv, Points, TotalInv, TotalTypeOK
<1>4. cur \in Nat
  BY <1>3, VotingPowerNat
<1>5. UserGets(user, n)
  BY <1>1, <1>2, Zenon DEF UserGets
<1> HIDE DEF o, n, cur
<1>6. mid \in Changes
  <2> DEFINE k == o.end
             s == o.slope
  <2>1. k \in Nat /\ s \in Nat
    BY <1>3
  <2> HIDE DEF k, s
  <2>2. cancel_scheduled_slope(slope_changes, s, k) \in Changes
    BY <1>3, <2>1, CancelIs, Zenon
  <2> QED
    BY <2>2 DEF k, s
<1> HIDE DEF mid
<1>7. ASSUME ~ Kept(drift)
      PROVE  cur = PowerPart(o, Period) /\ o.end > Period
  <2>1. cur = PowerPart(o, Period)
    BY <1>3, <1>7, PowerIsPart DEF cur
  <2>2. SatSub(o.end, Period) # 0
    BY <1>2, <1>3, <2>1 DEF PowerPart
  <2> QED
    BY <1>3, <2>1, <2>2 DEF SatSub
<1>8. ASSUME ~ Kept(drift')
      PROVE  Rescheduled(mid, mid, o, n, o.slope)
  <2>1. ~ Kept(drift)
    BY <1>2, <1>8, Zenon DEF Kept
  <2>2. ScheduleCovers
    BY <2>1 DEF TotalInv, SlopesInv, Kept
  <2>3. o.end > Period /\ o.end > last_slope_change
    BY <1>3, <1>7, <2>1
  <2>4. /\ \A p \in Nat \ {o.end} : At(mid, p) = At(slope_changes, p)
        /\ At(mid, o.end) + (IF o.end > last_slope_change THEN o.slope ELSE 0) =
             At(slope_changes, o.end)
    BY <2>2, CancelInFull, Zenon DEF EscrowInv, TotalInv, o, mid
  <2>5. At(mid, o.end) + o.slope = At(slope_changes, o.end)
    BY <2>3, <2>4
  <2>6. At(mid, n.end) = At(mid, n.end) + n.slope
    BY <1>1, <1>6, AtNat
  <2> QED
    BY <1>1, <1>3, <1>6, <2>3, <2>4, <2>5, <2>6 DEF Rescheduled
<1>9. ASSUME ~ Kept(drift') PROVE NotLate(o, o.slope)
  <2>1. ~ Kept(drift)
    BY <1>2, <1>9, Zenon DEF Kept
  <2> QED
    BY <1>3, <1>7, <2>1 DEF NotLate
<1>10. ASSUME drift' = {} PROVE Balanced(o, n, 0, 0, cur, o.fixed)
  <2>1. ~ Kept(drift)
    BY <1>2, <1>10, Zenon DEF Kept
  <2>2. 0 + PowerPart(o, Period) = PowerPart(n, Period) + cur
    BY <1>1, <1>4, <1>7, <2>1
  <2>3. 0 + o.fixed = n.fixed + o.fixed
    BY <1>1, <1>3
  <2> QED
    BY <2>2, <2>3 DEF Balanced
<1>11. checkpoint_total(mid, 0, 0, cur, o.fixed, o.slope, n.slope)
  BY <1>1, <1>2
<1>12. 0 \in Nat /\ drift \subseteq drift'
  BY <1>2
<1>13. Accounted(user, n, mid, mid, o.slope, 0, 0, cur, o.fixed, o.slope)
  BY <1>3, <1>4, <1>5, <1>6, <1>8, <1>9, <1>10, <1>11, <1>12 DEF Accounted, o
<1> QED
  BY <1>13, Zenon

\* Blacklisting a user without decaying power leaves the total as it is.
LEMMA BlacklistWithoutPower ==
  ASSUME EscrowInv, TotalInv, Period \in Nat, Period' = Period, NEW user \in Users,
         Blacklist(user), calc_voting_power(point[user], Period) = 0
  PROVE  TotalInv' /\ PastStep
<1> DEFINE o == point[user]
           n == ZeroPoint(Period)
<1>1. /\ n \in Points /\ n.fixed = 0 /\ \A q \in Nat : EndingPart(n, q) = 0 /\ PowerPart(n, q) = 0
  BY ZeroPointParts
<1>2. /\ point' = [point EXCEPT ![user] = n]
      /\ total' = total /\ slope_changes' = slope_changes
      /\ last_slope_change' = last_slope_change
      /\ drift' = drift \cup {c \in {"expired blacklisted"} : 0 = 0 /\ o.fixed > 0}
  BY DEF Blacklist
<1>3. /\ o \in Points /\ o.end \in Nat /\ o.slope \in Nat /\ o.fixed \in Nat
      /\ o.start <= Period /\ OnItsLine(o, drift) /\ last_slope_change \in Nat
      /\ slope_changes \in Changes /\ point \in [Users -> Points] /\ EscrowTypeOK
  BY DEF EscrowInv, EscrowTypeOK, UserInv, Points, TotalInv, TotalTypeOK
<1>4. UserGets(user, n)
  BY <1>1, <1>2, Zenon DEF UserGets
<1>5. calc_voting_power(o, Period) = 0
  OBVIOUS
<1>6. ASSUME NEW q \in Nat
      PROVE  /\ point' \in [Users -> Points]
             /\ EndingOf(point', q) + EndingPart(o, q) = EndingOf(point, q)
             /\ PowerOf(point', q) + PowerPart(o, q) = PowerOf(point, q)
             /\ FixedOf(point') + o.fixed = FixedOf(point)
             /\ EndingOf(point', q) \in Nat /\ EndingPart(o, q) \in Nat /\ EndingOf(point, q) \in Nat
             /\ PowerOf(point', q) \in Nat /\ PowerOf(point, q) \in Nat
             /\ FixedOf(point') \in Nat /\ FixedOf(point) \in Nat
  <2>1. /\ point' \in [Users -> Points]
        /\ EndingOf(point', q) + EndingPart(o, q) = EndingOf(point, q) + EndingPart(n, q)
        /\ PowerOf(point', q) + PowerPart(o, q) = PowerOf(point, q) + PowerPart(n, q)
        /\ FixedOf(point') + o.fixed = FixedOf(point) + n.fixed
    <3> HIDE DEF n
    <3> QED
      BY <1>3, <1>4, UsersMove
  <2>2. /\ EndingOf(point', q) \in Nat /\ PowerOf(point', q) \in Nat /\ FixedOf(point') \in Nat
    BY <2>1, TotalsNat
  <2>3. /\ EndingOf(point, q) \in Nat /\ PowerOf(point, q) \in Nat /\ FixedOf(point) \in Nat
    BY <1>3, TotalsNat
  <2>4. EndingPart(o, q) \in Nat
    BY <1>3, PartsNat
  <2>5. EndingPart(n, q) = 0 /\ PowerPart(n, q) = 0 /\ n.fixed = 0
    BY <1>1
  <2> HIDE DEF o, n
  <2>6. /\ EndingOf(point, q) + 0 = EndingOf(point, q) /\ PowerOf(point, q) + 0 = PowerOf(point, q)
        /\ FixedOf(point) + 0 = FixedOf(point)
    BY <2>3
  <2> QED
    BY <2>1, <2>2, <2>3, <2>4, <2>5, <2>6, Zenon
<1> HIDE DEF o, n
<1>7. TotalTypeOK'
  BY <1>2 DEF TotalInv, TotalTypeOK
<1>8. ASSUME ~ Kept(drift') PROVE ScheduleCovers'
  <2>1. ~ Kept(drift)
    BY <1>2, <1>8, Zenon DEF Kept
  <2>2. ScheduleCovers
    BY <2>1 DEF TotalInv, SlopesInv, Kept
  <2>3. o.end > Period => o.slope = 0
    <3>1. o.slope * SatSub(o.end, Period) = 0
      BY <1>3, <1>5, <2>1, PowerIsPart DEF PowerPart
    <3>2. o.end > Period => SatSub(o.end, Period) \in Nat \ {0}
      BY <1>3 DEF SatSub
    <3> DEFINE d == SatSub(o.end, Period)
    <3> HIDE DEF d
    <3>3. \A s \in Nat : \A e \in Nat \ {0} : s * e = 0 => s = 0
      BY SMT
    <3> QED
      BY <1>3, <3>1, <3>2, <3>3
  <2>4. ASSUME NEW p \in Nat
        PROVE  /\ p > last_slope_change => EndingOf(point', p) <= At(slope_changes, p)
               /\ p > Period => At(slope_changes, p) = EndingOf(point', p)
    <3>1. /\ p > last_slope_change => EndingOf(point, p) <= At(slope_changes, p)
          /\ p > Period => At(slope_changes, p) = EndingOf(point, p)
      BY <2>2 DEF ScheduleCovers
    <3>2. /\ EndingOf(point', p) + EndingPart(o, p) = EndingOf(point, p)
          /\ EndingOf(point', p) \in Nat /\ EndingPart(o, p) \in Nat /\ EndingOf(point, p) \in Nat
      BY <1>6
    <3>3. At(slope_changes, p) \in Nat
      BY <1>3, AtNat
    <3>4. p > Period => EndingPart(o, p) = 0
      BY <1>3, <2>3 DEF EndingPart
    <3> DEFINE e == EndingOf(point, p)
               e1 == EndingOf(point', p)
               x == EndingPart(o, p)
               a == At(slope_changes, p)
    <3>5. /\ e \in Nat /\ e1 \in Nat /\ x \in Nat /\ a \in Nat /\ e1 + x = e
          /\ p > Period => x = 0
          /\ p > last_slope_change => e <= a
          /\ p > Period => a = e
      BY <3>1, <3>2, <3>3, <3>4
    <3> HIDE DEF e, e1, x, a
    <3>6. (p > last_slope_change => e1 <= a) /\ (p > Period => a = e1)
      BY <3>5
    <3> QED
      BY <3>6 DEF e1, a
  <2>5. total[last_slope_change].slope = After(slope_changes, last_slope_change)
    BY <2>2 DEF ScheduleCovers
  <2> QED
    BY <1>2, <2>4, <2>5 DEF ScheduleCovers
<1>9. ASSUME drift' = {} PROVE TotalsAgree'
  <2>1. drift = {} /\ o.fixed = 0
    <3>1. drift = {} /\ ~ (o.fixed > 0)
      BY <1>2, <1>9, Zenon
    <3> QED
      BY <1>3, <3>1
  <2>2. TotalsAgree
    BY <2>1 DEF TotalInv, SumsInv
  <2>3. o.slope = 0
    BY <1>3, <2>1 DEF OnItsLine
  <2>4. ASSUME NEW q \in Nat
        PROVE  /\ EndingOf(point', q) = EndingOf(point, q) /\ PowerOf(point', q) = PowerOf(point, q)
               /\ FixedOf(point') = FixedOf(point)
    <3>1. SatSub(o.end, q) \in Nat
      BY <1>3 DEF SatSub
    <3>2. EndingPart(o, q) = 0 /\ PowerPart(o, q) = 0
      BY <2>3, <3>1 DEF EndingPart, PowerPart
    <3>3. /\ EndingOf(point', q) + 0 = EndingOf(point, q) /\ EndingOf(point', q) \in Nat
          /\ PowerOf(point', q) + 0 = PowerOf(point, q) /\ PowerOf(point', q) \in Nat
          /\ FixedOf(point') + 0 = FixedOf(point) /\ FixedOf(point') \in Nat
      BY <1>6, <2>1, <3>2
    <3> QED
      BY <3>3
  <2> QED
    BY <1>2, <1>3, <2>2, <2>4 DEF TotalsAgree
<1>10. PastStep
  BY <1>2, Zenon DEF PastStep, get_total_vamp_at_period
<1> QED
  BY <1>7, <1>8, <1>9, <1>10 DEF TotalInv, SlopesInv, SumsInv, Kept

\* Where the total and the users' points stay as they are, so does the invariant.
LEMMA TotalUntouched ==
  ASSUME TotalInv, Period \in Nat, Period' \in Nat, Period' >= Period,
         point' = point, total' = total, slope_changes' = slope_changes,
         last_slope_change' = last_slope_change, drift' = drift
  PROVE  TotalInv' /\ PastStep
<1>1. TotalTypeOK'
  BY DEF TotalInv, TotalTypeOK
<1>2. ASSUME ScheduleCovers PROVE ScheduleCovers'
  <2>1. \A p \in Nat : p > Period' => p > Period
    OBVIOUS
  <2> QED
    BY <1>2, <2>1 DEF ScheduleCovers
<1>3. ASSUME TotalsAgree PROVE TotalsAgree'
  BY <1>3 DEF TotalsAgree
<1>4. PastStep
  BY Zenon DEF PastStep, get_total_vamp_at_period
<1> QED
  BY <1>1, <1>2, <1>3, <1>4 DEF TotalInv, SlopesInv, SumsInv

\* A checkpoint, whoever asks for it.
LEMMA CheckpointKeeps ==
  ASSUME EscrowInv, TotalInv, Period \in Nat, Period' = Period, NEW user \in Users,
         NEW add \in Nat, NEW amount \in Nat, NEW end \in Nat,
         checkpoint(user, add, amount, end)
  PROVE  TotalInv' /\ PastStep
<1>1. PICK n, mid, changes, t, ap, aa, rp, ra, os :
        Accounted(user, n, mid, changes, t, ap, aa, rp, ra, os)
  BY CheckpointAccounted
<1>2. EscrowTypeOK
  BY DEF EscrowInv
<1> QED
  BY <1>1, <1>2, AccountedKeeps

\* The deposit into a lock.
LEMMA DepositKeeps ==
  ASSUME EscrowInv, TotalInv, Period \in Nat, Period' = Period, NEW user \in Users,
         NEW amount \in Amounts, NEW extend \in BOOLEAN, deposit_for(user, amount, extend)
  PROVE  TotalInv' /\ PastStep
<1>1. /\ amount \in Nat /\ locked[user].amount + amount \in Nat /\ point[user].end \in Nat
      /\ Period + MIN_LOCK_PERIODS \in Nat
  BY EscrowAssumption DEF EscrowInv, EscrowTypeOK, Points
<1>2. CASE extend
  <2> DEFINE end == IF locked[user].end < Period + MIN_LOCK_PERIODS
                    THEN Period + MIN_LOCK_PERIODS ELSE point[user].end
  <2>1. checkpoint(user, amount, locked[user].amount + amount, end)
    BY <1>2 DEF deposit_for, DepositExtending
  <2>2. end \in Nat
    BY <1>1
  <2> HIDE DEF end
  <2> QED
    BY <1>1, <2>1, <2>2, CheckpointKeeps
<1>3. CASE ~ extend
  <2>1. checkpoint(user, amount, locked[user].amount + amount, point[user].end)
    BY <1>3 DEF deposit_for, DepositKeepingEnd
  <2> QED
    BY <1>1, <2>1, CheckpointKeeps
<1> QED
  BY <1>2, <1>3

\* Every transaction keeps the invariant of the total.
LEMMA LockChangeTotal ==
  ASSUME EscrowInv, TotalInv, NEW user \in Users, LockChange(user)
  PROVE  TotalInv' /\ PastStep
<1>1. Period \in Nat /\ Period' = Period
  <2>1. now' = now
    BY LockChangeKeeps
  <2> QED
    BY <2>1, PeriodsNat DEF EscrowInv, EscrowTypeOK, Period
<1>2. locked[user].amount \in Nat /\ locked[user].end \in Nat
  BY DEF EscrowInv, EscrowTypeOK
<1>3. ASSUME NEW amount \in Amounts, NEW time \in LockTimes, create_lock(user, amount, time)
      PROVE  TotalInv' /\ PastStep
  <2>1. checkpoint(user, amount, amount, Period + get_periods_count(time))
    BY <1>3 DEF create_lock
  <2>2. amount \in Nat /\ Period + get_periods_count(time) \in Nat
    BY <1>1, PeriodsNat, EscrowAssumption
  <2> QED
    BY <1>1, <2>1, <2>2, CheckpointKeeps
<1>4. ASSUME NEW amount \in Amounts, NEW extend \in BOOLEAN, ExtendLockAmount(user, amount, extend)
      PROVE  TotalInv' /\ PastStep
  BY <1>1, <1>4, DepositKeeps DEF ExtendLockAmount
<1>5. ASSUME NEW sender \in Users, NEW amount \in Amounts, DepositFor(sender, user, amount)
      PROVE  TotalInv' /\ PastStep
  BY <1>1, <1>5, DepositKeeps DEF DepositFor
<1>6. ASSUME NEW time \in LockTimes, extend_lock_time(user, time)
      PROVE  TotalInv' /\ PastStep
  <2> DEFINE from == IF locked[user].end < Period THEN Period ELSE locked[user].end
             end  == from + get_periods_count(time)
  <2>1. checkpoint(user, 0, locked[user].amount, end)
    BY <1>6 DEF extend_lock_time
  <2>2. end \in Nat /\ 0 \in Nat
    BY <1>1, <1>2, PeriodsNat, EscrowAssumption
  <2> HIDE DEF end
  <2> QED
    BY <1>1, <1>2, <2>1, <2>2, CheckpointKeeps
<1>7. ASSUME withdraw(user) PROVE TotalInv' /\ PastStep
  <2>1. PICK n, mid, changes, t, ap, aa, rp, ra, os :
          Accounted(user, n, mid, changes, t, ap, aa, rp, ra, os)
    BY <1>1, <1>7, WithdrawAccounted
  <2>2. EscrowTypeOK
    BY DEF EscrowInv
  <2> QED
    BY <1>1, <2>1, <2>2, AccountedKeeps
<1>8. ASSUME Blacklist(user) PROVE TotalInv' /\ PastStep
  <2>1. CASE calc_voting_power(point[user], Period) = 0
    BY <1>1, <1>8, <2>1, BlacklistWithoutPower
  <2>2. CASE calc_voting_power(point[user], Period) # 0
    <3>1. PICK n, mid, changes, t, ap, aa, rp, ra, os :
            Accounted(user, n, mid, changes, t, ap, aa, rp, ra, os)
      BY <1>1, <1>8, <2>2, BlacklistAccounted
    <3>2. EscrowTypeOK
      BY DEF EscrowInv
    <3> QED
      BY <1>1, <3>1, <3>2, AccountedKeeps
  <2> QED
    BY <2>1, <2>2
<1>9. ASSUME Whitelist(user) PROVE TotalInv' /\ PastStep
  <2>1. CASE locked[user].end > 0
    <3>1. checkpoint(user, locked[user].amount, locked[user].amount, locked[user].end)
      BY <1>9, <2>1 DEF Whitelist
    <3> QED
      BY <1>1, <1>2, <3>1, CheckpointKeeps
  <2>2. CASE ~ (locked[user].end > 0)
    <3>1. /\ point' = point /\ total' = total /\ slope_changes' = slope_changes
          /\ last_slope_change' = last_slope_change /\ drift' = drift
      BY <1>9, <2>2 DEF Whitelist
    <3>2. Period' >= Period
      BY <1>1
    <3> QED
      BY <1>1, <3>1, <3>2, TotalUntouched
  <2> QED
    BY <2>1, <2>2
<1> QED
  BY <1>3, <1>4, <1>5, <1>6, <1>7, <1>8, <1>9 DEF LockChange

\* And so does every step of the escrow.
LEMMA TotalInvStep ==
  ASSUME EscrowInv, TotalInv, [Next]_escrowVars
  PROVE  TotalInv' /\ [PastStep]_escrowVars
<1>1. ASSUME NEW user \in Users, LockChange(user) PROVE TotalInv' /\ PastStep
  BY <1>1, LockChangeTotal
<1>2. ASSUME NEW step \in TimeSteps, Wait(step) PROVE TotalInv' /\ PastStep
  <2>1. /\ point' = point /\ total' = total /\ slope_changes' = slope_changes
        /\ last_slope_change' = last_slope_change /\ drift' = drift
    BY <1>2 DEF Wait
  <2>2. step \in Nat /\ now \in Nat /\ now' = now + step
    BY <1>2, EscrowAssumption DEF Wait, EscrowInv, EscrowTypeOK
  <2>3. Period \in Nat /\ Period' \in Nat /\ Period' >= Period
    BY <2>2, PeriodsNat DEF Period
  <2> QED
    BY <2>1, <2>3, TotalUntouched
<1>3. ASSUME UNCHANGED escrowVars PROVE TotalInv'
  <2>1. /\ point' = point /\ total' = total /\ slope_changes' = slope_changes
        /\ last_slope_change' = last_slope_change /\ drift' = drift /\ now' = now
    BY <1>3 DEF escrowVars
  <2>2. Period \in Nat /\ Period' \in Nat /\ Period' >= Period
    <3>1. Period \in Nat /\ Period' = Period
      BY <2>1, PeriodsNat DEF EscrowInv, EscrowTypeOK, Period
    <3> QED
      BY <3>1
  <2> QED
    BY <2>1, <2>2, TotalUntouched
<1> QED
  BY <1>1, <1>2, <1>3 DEF Next

\* In the initial state nothing is scheduled and nobody has power.
LEMMA TotalInvInit ==
  ASSUME Init
  PROVE  TotalInv
<1> DEFINE z == ZeroPoint(0)
<1>1. z \in Points /\ z.slope = 0 /\ z.power = 0 /\ z.fixed = 0 /\ z.start = 0 /\ z.end = 0
  BY DEF ZeroPoint, Points
<1> HIDE DEF z
<1>2. /\ point = [u \in Users |-> z] /\ total = [p \in {0} |-> z]
      /\ slope_changes = [p \in {} |-> 0] /\ last_slope_change = 0 /\ now = 0
  BY DEF Init, z
<1>3. Period \in Nat
  BY <1>2, PeriodsNat DEF Period
<1>4. slope_changes \in Changes /\ \A p : At(slope_changes, p) = 0
  <2> DEFINE E == {}
  <2>1. IsFiniteSet(E) /\ E \subseteq Nat /\ slope_changes \in [E -> Nat]
    BY <1>2, FS_EmptySet
  <2> HIDE DEF E
  <2>2. slope_changes \in Changes
    BY <2>1, IsChanges
  <2>3. \A p : At(slope_changes, p) = 0
    BY <1>2 DEF At
  <2> QED
    BY <2>2, <2>3
<1>5. TotalTypeOK
  BY <1>1, <1>2, <1>3, <1>4 DEF TotalTypeOK
<1>6. point \in [Users -> Points] /\ \A u \in Users : point[u] = z
  BY <1>1, <1>2
<1>7. \A q \in Nat : EndingPart(z, q) = 0 /\ PowerPart(z, q) = 0
  <2>1. \A q \in Nat : SatSub(z.end, q) \in Nat
    BY <1>1 DEF SatSub
  <2> QED
    BY <1>1, <2>1 DEF EndingPart, PowerPart
<1>8. ASSUME NEW q \in Nat
      PROVE  EndingOf(point, q) = 0 /\ PowerOf(point, q) = 0 /\ FixedOf(point) = 0
  <2> DEFINE e == [u \in Users |-> EndingPart(point[u], q)]
             w == [u \in Users |-> PowerPart(point[u], q)]
             x == [u \in Users |-> point[u].fixed]
  <2>1. /\ e \in [Users -> Nat] /\ \A u \in Users : e[u] = 0
        /\ w \in [Users -> Nat] /\ \A u \in Users : w[u] = 0
        /\ x \in [Users -> Nat] /\ \A u \in Users : x[u] = 0
    BY <1>1, <1>6, <1>7
  <2> HIDE DEF e, w, x
  <2>2. Total(e) = 0 /\ Total(w) = 0 /\ Total(x) = 0
    BY <2>1, SumZero, EscrowAssumption
  <2> QED
    BY <2>2 DEF e, w, x, EndingOf, PowerOf, FixedOf
<1>9. After(slope_changes, 0) = 0
  <2> DEFINE E == DOMAIN slope_changes
             g == [p \in E |-> IF p > 0 THEN slope_changes[p] ELSE 0]
  <2>1. E = {}
    BY <1>2
  <2>2. IsFiniteSet(E) /\ g \in [E -> Nat] /\ \A p \in E : g[p] = 0
    BY <2>1, FS_EmptySet
  <2> HIDE DEF E, g
  <2>3. Total(g) = 0
    BY <2>2, SumZero
  <2> QED
    BY <2>3 DEF E, g, After
<1>10. total[0] = z
  BY <1>2
<1>11. ScheduleCovers
  BY <1>1, <1>2, <1>4, <1>8, <1>9, <1>10 DEF ScheduleCovers
<1>12. TotalsAgree
  BY <1>1, <1>2, <1>4, <1>8, <1>10 DEF TotalsAgree
<1> QED
  BY <1>5, <1>11, <1>12 DEF TotalInv, SlopesInv, SumsInv

\* The invariant says what is promised of the schedule.
LEMMA TotalInvSchedules ==
  ASSUME EscrowInv, TotalInv
  PROVE  SlopesAreScheduled
<1> SUFFICES ASSUME ~ Kept(drift)
             PROVE  /\ total[last_slope_change].slope =
                         Total([p \in DOMAIN slope_changes |->
                                  IF p > last_slope_change THEN slope_changes[p] ELSE 0])
                    /\ \A p \in DOMAIN slope_changes \cup {point[u].end : u \in Users} :
                         /\ p > last_slope_change => At(slope_changes, p) >= SlopesEndingAt(p)
                         /\ p > Period => At(slope_changes, p) = SlopesEndingAt(p)
  BY DEF SlopesAreScheduled, Kept
<1>1. ScheduleCovers /\ slope_changes \in Changes /\ point \in [Users -> Points]
  BY DEF TotalInv, SlopesInv, Kept, TotalTypeOK, EscrowInv, EscrowTypeOK
<1>2. total[last_slope_change].slope =
        Total([p \in DOMAIN slope_changes |->
                 IF p > last_slope_change THEN slope_changes[p] ELSE 0])
  BY <1>1 DEF ScheduleCovers, After
<1>3. ASSUME NEW p \in DOMAIN slope_changes \cup {point[u].end : u \in Users}
      PROVE  /\ p > last_slope_change => At(slope_changes, p) >= SlopesEndingAt(p)
             /\ p > Period => At(slope_changes, p) = SlopesEndingAt(p)
  <2>1. p \in Nat
    BY <1>1, ChangesMap DEF Points
  <2>2. SlopesEndingAt(p) = EndingOf(point, p)
    BY DEF SlopesEndingAt, EndingOf, EndingPart
  <2>3. At(slope_changes, p) \in Nat /\ EndingOf(point, p) \in Nat
    BY <1>1, <2>1, AtNat, TotalsNat
  <2>4. /\ p > last_slope_change => EndingOf(point, p) <= At(slope_changes, p)
        /\ p > Period => At(slope_changes, p) = EndingOf(point, p)
    BY <1>1, <2>1 DEF ScheduleCovers
  <2> QED
    BY <2>2, <2>3, <2>4
<1> QED
  BY <1>2, <1>3

\* The power that the query reports for a user whose point lies on its line.
LEMMA UserVamp ==
  ASSUME EscrowInv, ~ Kept(drift), Period \in Nat, NEW u \in Users, NEW p \in Nat, p >= Period
  PROVE  get_user_vamp_at_period(u, p) = point[u].fixed + PowerPart(point[u], p)
<1> DEFINE pt == point[u]
<1>1. /\ pt \in Points /\ pt.start \in Nat /\ pt.end \in Nat /\ pt.slope \in Nat
      /\ pt.start <= Period /\ OnItsLine(pt, drift)
  BY DEF EscrowInv, EscrowTypeOK, UserInv, Points
<1>2. pt.start <= p
  BY <1>1
<1> HIDE DEF pt
<1>3. calc_voting_power(pt, p) = PowerPart(pt, p)
  BY <1>1, <1>2, PowerIsPart
<1>4. pt.start = p => pt.power = PowerPart(pt, p)
  BY <1>1 DEF OnItsLine, Kept, PowerPart
<1>5. pt.end <= p => PowerPart(pt, p) = 0
  <2> SUFFICES ASSUME pt.end <= p PROVE PowerPart(pt, p) = 0
    OBVIOUS
  <2>1. SatSub(pt.end, p) = 0
    BY <1>1 DEF SatSub
  <2> QED
    BY <1>1, <2>1 DEF PowerPart
<1>6. get_user_vamp_at_period(u, p) =
        pt.fixed + (IF pt.start = p THEN pt.power
                    ELSE IF pt.end <= p THEN 0 ELSE calc_voting_power(pt, p))
  BY DEF get_user_vamp_at_period, pt
<1>7. (IF pt.start = p THEN pt.power
       ELSE IF pt.end <= p THEN 0 ELSE calc_voting_power(pt, p)) = PowerPart(pt, p)
  BY <1>3, <1>4, <1>5, Zenon
<1> QED
  BY <1>6, <1>7, Zenon DEF pt

\* The invariant says what is promised of the total.
LEMMA TotalInvSums ==
  ASSUME EscrowInv, TotalInv
  PROVE  TotalIsSumOfUsers
<1> SUFFICES ASSUME drift = {},
                    NEW p \in Period..(Period + get_periods_count(MAX_LOCK_TIME) + 1)
             PROVE  get_total_vamp_at_period(p) =
                      Total([u \in Users |-> get_user_vamp_at_period(u, p)])
  BY DEF TotalIsSumOfUsers
<1>1. Period \in Nat
  BY PeriodsNat DEF EscrowInv, EscrowTypeOK, Period
<1>2. p \in Nat /\ p >= Period
  BY <1>1
<1>3. ~ Kept(drift) /\ ScheduleCovers /\ TotalsAgree /\ TotalTypeOK
  BY DEF Kept, TotalInv, SlopesInv, SumsInv
<1> DEFINE last == total[last_slope_change]
           L    == last_slope_change
<1>4. /\ L \in Nat /\ L <= p /\ last \in Points /\ last.start = L
      /\ slope_changes \in Changes /\ point \in [Users -> Points]
  BY <1>1, <1>2, <1>3 DEF TotalTypeOK, EscrowInv, EscrowTypeOK
<1>5. /\ last.slope = After(slope_changes, L)
      /\ last.power = PowerOf(point, L) /\ last.fixed = FixedOf(point)
      /\ \A q \in Nat : q > L => At(slope_changes, q) = EndingOf(point, q)
  BY <1>3 DEF ScheduleCovers, TotalsAgree
<1>6. fetch_last_checkpoint(total, p) = last
  BY <1>2, <1>3, <1>4, LastCheckpoint
<1> HIDE DEF last
<1>7. PICK f : IsLine(f, last, slope_changes, p)
  BY <1>2, <1>4, LineExists
<1>8. Recalculate(last, slope_changes, p) = f[p]
  BY <1>2, <1>4, <1>7, RecalculateIs
<1>9. ASSUME NEW q \in last.start..p
      PROVE  f[q].slope = SlopeOf(point, q)
  <2>1. q \in Nat /\ q >= L
    BY <1>2, <1>4
  <2>2. /\ After(slope_changes, q) <= After(slope_changes, last.start)
        /\ f[q].slope = SatSub(last.slope, After(slope_changes, last.start) - After(slope_changes, q))
    BY <1>2, <1>4, <1>7, LineSlope
  <2>3. After(slope_changes, q) \in Nat /\ After(slope_changes, L) \in Nat
    BY <1>4, <2>1, AfterStep
  <2> DEFINE a == After(slope_changes, L)
             b == After(slope_changes, q)
  <2>4. a \in Nat /\ b \in Nat /\ b <= a /\ f[q].slope = SatSub(a, a - b)
    BY <1>4, <1>5, <2>2, <2>3
  <2>5. b = SlopeOf(point, q)
    BY <1>4, <1>5, <2>1, ScheduledSlopes
  <2> HIDE DEF a, b
  <2>6. SatSub(a, a - b) = b
    BY <2>4 DEF SatSub
  <2> QED
    BY <2>4, <2>5, <2>6
<1>10. f[p].power = PowerOf(point, p) /\ f[p].fixed = FixedOf(point)
  <2>1. p \in last.start..p /\ last.power = PowerOf(point, last.start)
    BY <1>2, <1>4, <1>5
  <2>2. \A q \in last.start..p : q < p => f[q].slope = SlopeOf(point, q)
    BY <1>9
  <2>3. f[p].power = PowerOf(point, p)
    BY <1>2, <1>4, <1>7, <2>1, <2>2, LinePower
  <2>4. f[p].fixed = last.fixed
    BY <1>2, <1>4, <1>7, <2>1, LineSlope
  <2> QED
    BY <1>5, <2>3, <2>4
<1>11. get_total_vamp_at_period(p) = PowerOf(point, p) + FixedOf(point)
  BY <1>6, <1>8, <1>10, Zenon DEF get_total_vamp_at_period, TotalVampAt
<1>12. Total([u \in Users |-> get_user_vamp_at_period(u, p)]) = PowerOf(point, p) + FixedOf(point)
  <2> DEFINE w == [u \in Users |-> PowerPart(point[u], p)]
             x == [u \in Users |-> point[u].fixed]
             h == [u \in Users |-> get_user_vamp_at_period(u, p)]
  <2>1. \A u \in Users : PowerPart(point[u], p) \in Nat /\ point[u].fixed \in Nat
    BY <1>2, <1>4, PartsNat
  <2>2. \A u \in Users : get_user_vamp_at_period(u, p) = point[u].fixed + PowerPart(point[u], p)
    BY <1>1, <1>2, <1>3, UserVamp
  <2>3. w \in [Users -> Nat] /\ x \in [Users -> Nat] /\ h \in [Users -> Nat]
    BY <2>1, <2>2
  <2>4. \A u \in Users : h[u] = w[u] + x[u]
    BY <2>1, <2>2
  <2> HIDE DEF w, x, h
  <2>5. Total(h) = Total(w) + Total(x)
    BY <2>3, <2>4, SumAdd, EscrowAssumption
  <2> QED
    BY <2>5 DEF w, x, h, PowerOf, FixedOf
<1> QED
  BY <1>11, <1>12

\* As long as no lock keeps power beyond its line, the slope of the total is what
\* SLOPE_CHANGES takes off after the last checkpoint, and the schedule of every period to
\* come is that of the locks that end there, whatever transactions come in which order and
\* however many periods pass between them.
THEOREM SlopesStayScheduled == Spec => []SlopesAreScheduled
<1>1. Init => EscrowInv /\ TotalInv
  BY EscrowInvInit, TotalInvInit
<1>2. EscrowInv /\ TotalInv /\ [Next]_escrowVars => EscrowInv' /\ TotalInv'
  BY LockChangeKeeps, WaitKeeps, EscrowStutters, TotalInvStep DEF Next
<1>3. EscrowInv /\ TotalInv => SlopesAreScheduled
  BY TotalInvSchedules
<1> QED
  BY <1>1, <1>2, <1>3, PTL DEF Spec

\* As long as nothing of Causes happened, the total that the contract reports for a period
\* from now on, recalculated from its last checkpoint, is the sum of what it reports for
\* the users.
THEOREM TotalStaysSumOfUsers == Spec => []TotalIsSumOfUsers
<1>1. Init => EscrowInv /\ TotalInv
  BY EscrowInvInit, TotalInvInit
<1>2. EscrowInv /\ TotalInv /\ [Next]_escrowVars => EscrowInv' /\ TotalInv'
  BY LockChangeKeeps, WaitKeeps, EscrowStutters, TotalInvStep DEF Next
<1>3. EscrowInv /\ TotalInv => TotalIsSumOfUsers
  BY TotalInvSums
<1> QED
  BY <1>1, <1>2, <1>3, PTL DEF Spec

\* No transaction changes the total reported for a period that is over, except after a late
\* extension or where power was kept: the points that checkpoint_total fills in are those
\* that the query computed.
THEOREM PastStaysFinal == Spec => PastIsFinal
<1>1. Init => EscrowInv /\ TotalInv
  BY EscrowInvInit, TotalInvInit
<1>2. EscrowInv /\ TotalInv /\ [Next]_escrowVars => EscrowInv' /\ TotalInv'
  BY LockChangeKeeps, WaitKeeps, EscrowStutters, TotalInvStep DEF Next
<1>3. EscrowInv /\ TotalInv /\ [Next]_escrowVars => [PastStep]_escrowVars
  BY TotalInvStep
<1> QED
  BY <1>1, <1>2, <1>3, PTL DEF Spec, PastIsFinal, PastStep
=============================================================================
