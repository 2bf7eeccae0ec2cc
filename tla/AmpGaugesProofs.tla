-------------------------- MODULE AmpGaugesProofs ---------------------------
(***************************************************************************)
(* Proofs about the amp gauges on top of the voting escrow: the votes that *)
(* are recorded of a user follow the user's lock, and what a validator has *)
(* (fixed power, decaying power, slope and the changes of its slope) is    *)
(* the sum of what the recorded votes give it from the next period on.     *)
(***************************************************************************)
EXTENDS AmpGauges, EscrowProofs

\* What is recorded of a voter was taken from the voter's present point and lock, in a
\* period since the point started.
VoterFollows(u) ==
  LET info == user_info[u]
  IN  /\ info.slope = point[u].slope
      /\ info.fixed_amount = point[u].fixed
      /\ info.lock_end = locked[u].end
      /\ info.vote_period \in Nat
      /\ point[u].start <= info.vote_period /\ info.vote_period <= Period
      /\ info.voting_power = calc_voting_power(point[u], info.vote_period)

\* The inductive invariant of the recorded votes.
VotersInv ==
  /\ EscrowInv
  /\ DOMAIN user_info \subseteq Users
  /\ \A u \in DOMAIN user_info : VoterFollows(u)

\* What is promised follows from the invariant.
LEMMA VotersInvImplies ==
  ASSUME VotersInv
  PROVE  VotesFollowLocks
<1> SUFFICES ASSUME NEW u \in DOMAIN user_info
             PROVE  CurrentPower(user_info[u]) = calc_voting_power(point[u], Period)
  BY DEF VotesFollowLocks, VotersInv, VoterFollows
<1>1. Period \in Nat /\ point[u] \in Points
  BY PeriodsNat DEF VotersInv, EscrowInv, EscrowTypeOK, Period
<1>2. VoterFollows(u)
  BY DEF VotersInv
<1> QED
  BY <1>1, <1>2, DecayInParts DEF VoterFollows, CurrentPower

\* A voter whose point, lock and record stay follows them still.
LEMMA VoterStays ==
  ASSUME NEW u, VoterFollows(u),
         point'[u] = point[u], locked'[u] = locked[u], user_info'[u] = user_info[u],
         Period \in Nat, Period' \in Nat, Period' >= Period
  PROVE  VoterFollows(u)'
  BY SMT DEF VoterFollows, calc_voting_power

\* A change of a lock, together with the update_vote the escrow sends.
LEMMA LockChangeIsFollowed ==
  ASSUME VotersInv, NEW user \in Users, LockChange(user), update_vote(user)
  PROVE  VotersInv'
<1>1. /\ EscrowInv' /\ now' = now
      /\ \A u \in Users \ {user} : locked'[u] = locked[u] /\ point'[u] = point[u]
  BY LockChangeKeeps DEF VotersInv
<1>2. Period \in Nat /\ Period' = Period
  BY <1>1, PeriodsNat DEF VotersInv, EscrowInv, EscrowTypeOK, Period
<1>3. CASE user \in DOMAIN user_info
  <2> DEFINE info == InfoOf(get_user_lock_info(point'[user], locked'[user].end), user_info[user].votes)
  <2>1. user_info' = Put(user_info, user, info)
    BY <1>3 DEF update_vote, ReplaceVotes
  <2>2. /\ DOMAIN user_info' = DOMAIN user_info /\ user_info'[user] = info
        /\ \A u \in DOMAIN user_info \ {user} : user_info'[u] = user_info[u]
    BY <1>3, <2>1 DEF Put
  <2>3. VoterFollows(user)'
    <3>1. point'[user].start <= Period
      BY <1>1, <1>2 DEF EscrowInv, EscrowTypeOK
    <3> QED
      BY <1>2, <2>2, <3>1 DEF VoterFollows, InfoOf, get_user_lock_info, calc_voting_power
  <2>4. ASSUME NEW u \in DOMAIN user_info \ {user}
        PROVE  VoterFollows(u)'
    BY <1>1, <1>2, <2>2, <2>4, VoterStays DEF VotersInv
  <2> QED
    BY <1>1, <2>2, <2>3, <2>4 DEF VotersInv
<1>4. CASE user \notin DOMAIN user_info
  <2>1. user_info' = user_info
    BY <1>4 DEF update_vote, gaugeVars
  <2>2. ASSUME NEW u \in DOMAIN user_info
        PROVE  VoterFollows(u)'
    BY <1>1, <1>2, <1>4, <2>1, <2>2, VoterStays DEF VotersInv
  <2> QED
    BY <1>1, <2>1, <2>2 DEF VotersInv
<1> QED
  BY <1>3, <1>4

\* Steps that leave the escrow alone and touch the record of at most one user.
LEMMA VoteIsRecorded ==
  ASSUME VotersInv, NEW user \in Users, NEW votes, handle_vote(user, votes)
  PROVE  VotersInv'
<1> DEFINE info == InfoOf(get_user_lock_info(point[user], locked[user].end), votes)
<1>1. user_info' = Put(user_info, user, info) /\ UNCHANGED escrowVars
  BY DEF handle_vote, ReplaceVotes
<1>2. EscrowInv' /\ point' = point /\ locked' = locked /\ Period' = Period
  BY <1>1, EscrowStutters DEF VotersInv, escrowVars, Period
<1>3. Period \in Nat /\ point[user].start <= Period
  BY PeriodsNat DEF VotersInv, EscrowInv, EscrowTypeOK, Period
<1> HIDE DEF info
<1>4. /\ DOMAIN user_info' = DOMAIN user_info \cup {user} /\ user_info'[user] = info
      /\ \A u \in DOMAIN user_info \ {user} : user_info'[u] = user_info[u]
  BY <1>1 DEF Put
<1>5. VoterFollows(user)'
  BY <1>2, <1>3, <1>4 DEF info, VoterFollows, InfoOf, get_user_lock_info, calc_voting_power
<1>6. ASSUME NEW u \in DOMAIN user_info \ {user}
      PROVE  VoterFollows(u)'
  BY <1>2, <1>3, <1>4, <1>6, VoterStays DEF VotersInv
<1> QED
  BY <1>2, <1>4, <1>5, <1>6 DEF VotersInv

\* remove_user forgets a user, whatever became of the removal of the votes.
LEMMA RemovalIsRecorded ==
  ASSUME VotersInv, NEW user \in Users, remove_user(user)
  PROVE  VotersInv'
<1>1. user_info' = Without(user_info, user) /\ UNCHANGED escrowVars
  BY DEF remove_user
<1>2. EscrowInv' /\ point' = point /\ locked' = locked /\ Period' = Period
  BY <1>1, EscrowStutters DEF VotersInv, escrowVars, Period
<1>3. Period \in Nat
  BY PeriodsNat DEF VotersInv, EscrowInv, EscrowTypeOK, Period
<1>4. /\ DOMAIN user_info' = DOMAIN user_info \ {user}
      /\ \A u \in DOMAIN user_info \ {user} : user_info'[u] = user_info[u]
  BY <1>1, WithoutMap
<1>5. ASSUME NEW u \in DOMAIN user_info \ {user}
      PROVE  VoterFollows(u)'
  BY <1>2, <1>3, <1>4, <1>5, VoterStays DEF VotersInv
<1> QED
  BY <1>2, <1>4, <1>5 DEF VotersInv

\* Steps in which nothing is recorded of a voter: tuning, time, and stuttering.
LEMMA RecordsStay ==
  ASSUME VotersInv, EscrowInv', UNCHANGED <<point, locked, user_info>>, Period' >= Period
  PROVE  VotersInv'
<1>1. Period \in Nat /\ Period' \in Nat
  BY PeriodsNat DEF VotersInv, EscrowInv, EscrowTypeOK, Period
<1>2. ASSUME NEW u \in DOMAIN user_info
      PROVE  VoterFollows(u)'
  BY <1>1, <1>2, VoterStays DEF VotersInv
<1> QED
  BY <1>2 DEF VotersInv

\* The records follow the locks in every state.
LEMMA VotersInvAlways == GaugeSpec => []VotersInv
<1>1. GaugeInit => VotersInv
  <2> SUFFICES ASSUME GaugeInit PROVE VotersInv
    OBVIOUS
  <2>1. EscrowInv
    BY EscrowInvInit DEF GaugeInit
  <2>2. DOMAIN user_info = {}
    BY DEF GaugeInit
  <2> QED
    BY <2>1, <2>2 DEF VotersInv
<1>2. VotersInv /\ [GaugeNext]_vars => VotersInv'
  <2> SUFFICES ASSUME VotersInv, [GaugeNext]_vars PROVE VotersInv'
    OBVIOUS
  <2>0. Period \in Nat
    BY PeriodsNat DEF VotersInv, EscrowInv, EscrowTypeOK, Period
  <2>1. ASSUME NEW user \in Users, LockChange(user), update_vote(user)
        PROVE  VotersInv'
    BY <2>1, LockChangeIsFollowed
  <2>2. ASSUME NEW user \in Users, NEW votes \in Ballots, handle_vote(user, votes)
        PROVE  VotersInv'
    BY <2>2, VoteIsRecorded
  <2>3. ASSUME NEW user \in Users, remove_user(user)
        PROVE  VotersInv'
    BY <2>3, RemovalIsRecorded
  <2>4. ASSUME NEW allowed \in SUBSET Validators, tune_vamp(allowed)
        PROVE  VotersInv'
    <3>1. UNCHANGED escrowVars /\ UNCHANGED user_info
      BY <2>4 DEF tune_vamp
    <3>2. EscrowInv' /\ UNCHANGED <<point, locked, user_info>> /\ Period' >= Period
      BY <2>0, <3>1, EscrowStutters DEF VotersInv, escrowVars, Period
    <3> QED
      BY <3>2, RecordsStay
  <2>5. ASSUME NEW step \in TimeSteps, Wait(step), UNCHANGED gaugeVars
        PROVE  VotersInv'
    <3>1. EscrowInv' /\ Period' >= Period
      BY <2>5, WaitKeeps DEF VotersInv
    <3>2. UNCHANGED <<point, locked, user_info>>
      BY <2>5 DEF Wait, gaugeVars
    <3> QED
      BY <3>1, <3>2, RecordsStay
  <2>6. CASE UNCHANGED vars
    <3>1. UNCHANGED escrowVars /\ UNCHANGED user_info
      BY <2>6 DEF vars, gaugeVars
    <3>2. EscrowInv' /\ UNCHANGED <<point, locked, user_info>> /\ Period' >= Period
      BY <2>0, <3>1, EscrowStutters DEF VotersInv, escrowVars, Period
    <3> QED
      BY <3>2, RecordsStay
  <2> QED
    BY <2>1, <2>2, <2>3, <2>4, <2>5, <2>6 DEF GaugeNext
<1> QED
  BY <1>1, <1>2, PTL DEF GaugeSpec

\* What the gauges have recorded of a voter is at all times what the escrow says of them:
\* the power left, the fixed part, the slope and the end of the lock, in whatever order
\* locks change, votes are cast and removed, validators are tuned and periods pass.
THEOREM VotesAlwaysFollowLocks == GaugeSpec => []VotesFollowLocks
<1>1. VotersInv => VotesFollowLocks
  BY VotersInvImplies
<1> QED
  BY <1>1, VotersInvAlways, PTL

-----------------------------------------------------------------------------
(* The line of a validator.                                                *)

GaugePoints == [start : Nat, power : Nat, slope : Nat]

LEMMA NextGaugePoint ==
  ASSUME NEW pt \in GaugePoints, NEW change \in Nat, NEW p \in Nat
  PROVE  /\ NextPoint(pt, change, p) \in GaugePoints
         /\ NextPoint(pt, change, p).start = p
         /\ NextPoint(pt, change, p).power = SatSub(pt.power, pt.slope)
         /\ NextPoint(pt, change, p).slope = SatSub(pt.slope, change)
<1>1. pt.power \in Nat /\ pt.slope \in Nat
  BY DEF GaugePoints
<1> DEFINE power == SatSub(pt.power, pt.slope)
           slope == SatSub(pt.slope, change)
<1>2. power \in Nat /\ slope \in Nat
  BY <1>1, SMT DEF SatSub
<1>3. NextPoint(pt, change, p) = [[[pt EXCEPT !.start = p] EXCEPT !.power = power] EXCEPT !.slope = slope]
  BY Zenon DEF NextPoint
<1> HIDE DEF power, slope
<1>4. [[[pt EXCEPT !.start = p] EXCEPT !.power = power] EXCEPT !.slope = slope] =
        [start |-> p, power |-> power, slope |-> slope]
  <2> DEFINE a == [pt EXCEPT !.start = p]
             b == [a EXCEPT !.power = power]
  <2>1. a = [start |-> p, power |-> pt.power, slope |-> pt.slope]
    BY DEF GaugePoints
  <2> HIDE DEF a
  <2>2. b = [start |-> p, power |-> power, slope |-> pt.slope]
    BY <2>1
  <2> HIDE DEF b
  <2>3. [b EXCEPT !.slope = slope] = [start |-> p, power |-> power, slope |-> slope]
    BY <2>2
  <2> QED
    BY <2>3, Zenon DEF a, b
<1> QED
  BY <1>2, <1>3, <1>4 DEF power, slope, GaugePoints

LEMMA NextGaugeNumbers ==
  \A pt \in GaugePoints, change \in Nat, p \in Nat :
    /\ NextPoint(pt, change, p).power = SatSub(pt.power, pt.slope)
    /\ NextPoint(pt, change, p).slope = SatSub(pt.slope, change)
  BY NextGaugePoint

\* f is the line of a validator from pt on to period b.
GaugeLine(f, pt, changes, b) ==
  /\ f \in [pt.start..b -> GaugePoints]
  /\ f[pt.start] = pt
  /\ \A p \in (pt.start + 1)..b : f[p] = NextPoint(f[p - 1], At(changes, p), p)

LEMMA GaugeLineExists ==
  ASSUME NEW pt \in GaugePoints, NEW changes \in Changes, NEW b \in Nat, pt.start <= b
  PROVE  \E f : GaugeLine(f, pt, changes, b)
<1> DEFINE a    == pt.start
           step == [d \in GaugePoints \X ((a + 1)..b) |-> NextPoint(d[1], At(changes, d[2]), d[2])]
<1>1. a \in Nat
  BY DEF GaugePoints
<1>2. \A p \in (a + 1)..b, d \in GaugePoints :
        step[<<d, p>>] = NextPoint(d, At(changes, p), p) /\ step[<<d, p>>] \in GaugePoints
  <2> TAKE p \in (a + 1)..b, d \in GaugePoints
  <2>1. step[<<d, p>>] = NextPoint(d, At(changes, p), p)
    OBVIOUS
  <2>2. p \in Nat /\ At(changes, p) \in Nat
    BY <1>1, AtNat
  <2>3. NextPoint(d, At(changes, p), p) \in GaugePoints
    BY <2>2, NextGaugePoint
  <2> QED
    BY <2>1, <2>3, Zenon
<1> HIDE DEF step
<1>3. PICK f : IsPath(f, GaugePoints, pt, step, a, b)
  <2>1. StepsIn(GaugePoints, step, a, b)
    BY <1>2, Zenon DEF StepsIn
  <2> HIDE DEF a
  <2>2. a <= b
    BY DEF a
  <2> QED
    BY <1>1, <2>1, <2>2, PathExists
<1>4. \A p \in (a + 1)..b : f[p] = NextPoint(f[p - 1], At(changes, p), p)
  <2> TAKE p \in (a + 1)..b
  <2>1. f[p - 1] \in GaugePoints
    BY <1>1, <1>3 DEF IsPath
  <2> QED
    BY <1>2, <1>3, <2>1, Zenon DEF IsPath
<1> QED
  BY <1>3, <1>4 DEF GaugeLine, IsPath

LEMMA GaugeRecalculate ==
  ASSUME NEW pt \in GaugePoints, NEW changes, NEW b \in Nat, pt.start <= b,
         NEW f, GaugeLine(f, pt, changes, b)
  PROVE  Recalculate(pt, changes, b) = f[b]
<1> DEFINE a          == pt.start
           Follows(g) == g = [p \in a..b |->
                                IF p = a THEN pt ELSE NextPoint(g[p - 1], At(changes, p), p)]
           line       == CHOOSE g : Follows(g)
<1>1. a \in Nat /\ a <= b
  BY DEF GaugePoints
<1>2. Follows(f)
  <2> DEFINE F == [p \in a..b |-> IF p = a THEN pt ELSE NextPoint(f[p - 1], At(changes, p), p)]
  <2>1. ASSUME NEW p \in a..b PROVE f[p] = F[p]
    <3>1. CASE p = a
      BY <3>1 DEF GaugeLine
    <3>2. CASE p # a
      <4>1. p \in (a + 1)..b
        BY <1>1, <3>2
      <4> QED
        BY <3>2, <4>1 DEF GaugeLine
    <3> QED
      BY <3>1, <3>2
  <2>2. f = [p \in a..b |-> f[p]]
    BY DEF GaugeLine
  <2> QED
    BY <2>1, <2>2, Zenon
<1>3. Follows(line)
  BY <1>2, Zenon
<1>4. Recalculate(pt, changes, b) = line[b]
  BY DEF Recalculate
<1>5. \A p \in a..b : line[p] = IF p = a THEN pt ELSE NextPoint(line[p - 1], At(changes, p), p)
  BY <1>3, Zenon
<1>6. f[a] = pt /\ \A p \in (a + 1)..b : f[p] = NextPoint(f[p - 1], At(changes, p), p)
  BY DEF GaugeLine
<1> HIDE DEF line, Follows, a
<1> DEFINE Same == {p \in a..b : line[p] = f[p]}
<1>7. a \in Same
  BY <1>1, <1>5, <1>6
<1>8. \A p \in (a + 1)..b : p - 1 \in Same => p \in Same
  <2> SUFFICES ASSUME NEW p \in (a + 1)..b, p - 1 \in Same PROVE p \in Same
    OBVIOUS
  <2>1. line[p - 1] = f[p - 1] /\ p \in a..b /\ p # a
    BY <1>1
  <2>2. line[p] = NextPoint(f[p - 1], At(changes, p), p)
    BY <1>5, <2>1
  <2> QED
    BY <1>6, <2>1, <2>2
<1> HIDE DEF Same
<1>9. b \in Same
  <2>1. \A p \in a..b : p \in Same
    BY <1>1, <1>7, <1>8, UpTo
  <2> QED
    BY <1>1, <2>1
<1> QED
  BY <1>4, <1>9 DEF Same

\* A point carried on to its own period stays, and to a later one takes one more step.
LEMMA RecalculateNext ==
  ASSUME NEW pt \in GaugePoints, NEW changes \in Changes, NEW b \in Nat, pt.start <= b
  PROVE  /\ Recalculate(pt, changes, pt.start) = pt
         /\ Recalculate(pt, changes, b) \in GaugePoints
         /\ Recalculate(pt, changes, b).start = b
         /\ Recalculate(pt, changes, b + 1) =
              NextPoint(Recalculate(pt, changes, b), At(changes, b + 1), b + 1)
<1> DEFINE a == pt.start
<1>0. a \in Nat /\ a <= b /\ b + 1 \in Nat /\ a <= b + 1
  BY DEF GaugePoints
<1>1. PICK f : GaugeLine(f, pt, changes, b + 1)
  BY <1>0, GaugeLineExists
<1>2. /\ f \in [a..(b + 1) -> GaugePoints] /\ f[a] = pt
      /\ \A p \in (a + 1)..(b + 1) : f[p] = NextPoint(f[p - 1], At(changes, p), p)
  BY <1>1 DEF GaugeLine
<1>3. ASSUME NEW c \in a..(b + 1) PROVE Recalculate(pt, changes, c) = f[c] /\ f[c] \in GaugePoints
  <2> DEFINE g == [p \in a..c |-> f[p]]
  <2>1. \A p \in a..c : p \in a..(b + 1) /\ g[p] = f[p]
    BY <1>0
  <2>2. g \in [a..c -> GaugePoints] /\ g[a] = pt
    BY <1>0, <1>2, <2>1
  <2>3. \A p \in (a + 1)..c : g[p] = NextPoint(g[p - 1], At(changes, p), p)
    <3> TAKE p \in (a + 1)..c
    <3>1. p \in a..c /\ p - 1 \in a..c /\ p \in (a + 1)..(b + 1)
      BY <1>0
    <3>2. f[p] = NextPoint(f[p - 1], At(changes, p), p)
      BY <1>2, <3>1
    <3> QED
      BY <2>1, <3>1, <3>2, Zenon
  <2> HIDE DEF g
  <2>4. GaugeLine(g, pt, changes, c)
    BY <2>2, <2>3 DEF GaugeLine
  <2>5. c \in Nat /\ pt.start <= c /\ c \in a..c
    BY <1>0
  <2>6. Recalculate(pt, changes, c) = g[c]
    BY <2>4, <2>5, GaugeRecalculate
  <2> QED
    BY <1>2, <2>1, <2>5, <2>6
<1>4. a \in a..(b + 1) /\ b \in a..(b + 1) /\ b + 1 \in a..(b + 1) /\ b + 1 \in (a + 1)..(b + 1)
  BY <1>0
<1>5. f[b + 1] = NextPoint(f[b], At(changes, b + 1), b + 1)
  <2>1. f[b + 1] = NextPoint(f[(b + 1) - 1], At(changes, b + 1), b + 1)
    BY <1>2, <1>4
  <2> QED
    BY <2>1
<1>6. f[b].start = b
  <2>1. CASE a = b
    BY <1>2, <2>1
  <2>2. CASE a # b
    <3>1. b \in (a + 1)..(b + 1) /\ b - 1 \in a..(b + 1)
      BY <1>0, <2>2
    <3>2. f[b] = NextPoint(f[b - 1], At(changes, b), b) /\ f[b - 1] \in GaugePoints
      BY <1>2, <3>1
    <3>3. At(changes, b) \in Nat
      BY AtNat
    <3> DEFINE before == f[b - 1]
               change == At(changes, b)
    <3>4. before \in GaugePoints /\ change \in Nat /\ f[b] = NextPoint(before, change, b)
      BY <3>2, <3>3
    <3> HIDE DEF before, change
    <3>5. NextPoint(before, change, b).start = b
      BY <3>4, NextGaugePoint
    <3> QED
      BY <3>4, <3>5
  <2> QED
    BY <2>1, <2>2
<1> QED
  BY <1>2, <1>3, <1>4, <1>5, <1>6

\* A line depends on the changes after its start only.
LEMMA RecalculateSame ==
  ASSUME NEW pt \in GaugePoints, NEW c \in Changes, NEW d \in Changes, NEW b \in Nat, pt.start <= b,
         \A p \in (pt.start + 1)..b : At(c, p) = At(d, p)
  PROVE  Recalculate(pt, c, b) = Recalculate(pt, d, b)
<1> DEFINE a    == pt.start
           Same == {p \in a..b : Recalculate(pt, c, p) = Recalculate(pt, d, p)}
<1>1. a \in Nat /\ a <= b
  BY DEF GaugePoints
<1>2. a \in Same
  <2>1. Recalculate(pt, c, a) = pt /\ Recalculate(pt, d, a) = pt
    BY RecalculateNext
  <2> QED
    BY <1>1, <2>1
<1>3. \A p \in (a + 1)..b : p - 1 \in Same => p \in Same
  <2> SUFFICES ASSUME NEW p \in (a + 1)..b, p - 1 \in Same PROVE p \in Same
    OBVIOUS
  <2> DEFINE q == p - 1
  <2>1. q \in Nat /\ pt.start <= q /\ q + 1 = p /\ p \in a..b
    BY <1>1
  <2>2. Recalculate(pt, c, q) = Recalculate(pt, d, q) /\ At(c, p) = At(d, p)
    OBVIOUS
  <2> HIDE DEF q, Same
  <2>3. Recalculate(pt, c, q + 1) = NextPoint(Recalculate(pt, c, q), At(c, q + 1), q + 1)
    BY <2>1, RecalculateNext
  <2>4. Recalculate(pt, d, q + 1) = NextPoint(Recalculate(pt, d, q), At(d, q + 1), q + 1)
    BY <2>1, RecalculateNext
  <2>5. Recalculate(pt, c, p) = Recalculate(pt, d, p)
    BY <2>1, <2>2, <2>3, <2>4, Zenon
  <2> QED
    BY <2>1, <2>5 DEF Same
<1> HIDE DEF Same
<1>4. b \in Same
  <2> HIDE DEF a
  <2>1. \A p \in a..b : p \in Same
    BY <1>1, <1>2, <1>3, UpTo
  <2> QED
    BY <1>1, <2>1
<1> QED
  BY <1>4 DEF Same

-----------------------------------------------------------------------------
(* What is read of a gauge.                                                *)

PointMaps == UNION {[D -> GaugePoints] : D \in SUBSET Nat}
GaugeStates == [fixed : Changes, votes : PointMaps, changes : Changes]

\* Nothing has been saved for a period after next, and a point is saved where it starts.
GaugeTyped(g, next) ==
  /\ g \in GaugeStates
  /\ \A k \in DOMAIN g.fixed : k <= next
  /\ \A k \in DOMAIN g.votes : k <= next /\ g.votes[k].start = k

LEMMA GaugeFields ==
  ASSUME NEW g \in GaugeStates
  PROVE  /\ g.fixed \in Changes /\ g.votes \in PointMaps /\ g.changes \in Changes
         /\ DOMAIN g.votes \subseteq Nat /\ g.votes \in [DOMAIN g.votes -> GaugePoints]
         /\ DOMAIN g.fixed \subseteq Nat
<1>1. g.fixed \in Changes /\ g.votes \in PointMaps /\ g.changes \in Changes
  BY DEF GaugeStates
<1>2. DOMAIN g.fixed \subseteq Nat
  BY <1>1, ChangesMap
<1>3. DOMAIN g.votes \subseteq Nat /\ g.votes \in [DOMAIN g.votes -> GaugePoints]
  BY <1>1 DEF PointMaps
<1> QED
  BY <1>1, <1>2, <1>3

LEMMA IsPointMap ==
  ASSUME NEW D, D \subseteq Nat, NEW map \in [D -> GaugePoints]
  PROVE  map \in PointMaps
  BY DEF PointMaps

\* The last key is the greatest of the keys up to a period.
LEMMA LastKeyIs ==
  ASSUME NEW map, DOMAIN map \subseteq Nat, NEW p \in Nat, KeysUpTo(map, p) # {}
  PROVE  /\ LastKey(map, p) \in DOMAIN map /\ LastKey(map, p) <= p
         /\ \A l \in DOMAIN map : l <= p => l <= LastKey(map, p)
<1>1. KeysUpTo(map, p) \subseteq 0..p
  BY DEF KeysUpTo
<1>2. \E k \in KeysUpTo(map, p) : \A l \in KeysUpTo(map, p) : l <= k
  BY <1>1, NatMax
<1>3. /\ LastKey(map, p) \in KeysUpTo(map, p)
      /\ \A l \in KeysUpTo(map, p) : l <= LastKey(map, p)
  BY <1>2, Zenon DEF LastKey
<1> QED
  BY <1>3, Zenon DEF KeysUpTo

LEMMA LastKeyUnique ==
  ASSUME NEW map, DOMAIN map \subseteq Nat, NEW p \in Nat, NEW k \in DOMAIN map, k <= p,
         \A l \in DOMAIN map : l <= p => l <= k
  PROVE  KeysUpTo(map, p) # {} /\ LastKey(map, p) = k
<1>1. k \in KeysUpTo(map, p)
  BY DEF KeysUpTo
<1>2. KeysUpTo(map, p) # {}
  BY <1>1
<1>3. /\ LastKey(map, p) \in DOMAIN map /\ LastKey(map, p) <= p
      /\ \A l \in DOMAIN map : l <= p => l <= LastKey(map, p)
  BY <1>2, LastKeyIs
<1>4. k <= LastKey(map, p) /\ LastKey(map, p) <= k /\ k \in Nat /\ LastKey(map, p) \in Nat
  BY <1>3
<1> QED
  BY <1>2, <1>4

NoPoint(p) == [start |-> p, power |-> 0, slope |-> 0]

\* The validator's point in a period is on the line of the last one saved.
LEMMA InfoIs ==
  ASSUME NEW g, NEW next \in Nat, GaugeTyped(g, next), NEW p \in Nat
  PROVE  \/ KeysUpTo(g.votes, p) = {} /\ get_validator_info(g, p) = NoPoint(p)
         \/ \E k \in Nat :
              /\ k \in DOMAIN g.votes /\ k <= p /\ \A l \in DOMAIN g.votes : l <= p => l <= k
              /\ LastKey(g.votes, p) = k
              /\ g.votes[k] \in GaugePoints /\ g.votes[k].start = k
              /\ get_validator_info(g, p) = Recalculate(g.votes[k], g.changes, p)
<1>1. CASE KeysUpTo(g.votes, p) = {}
  BY <1>1 DEF get_validator_info, NoPoint
<1>2. CASE KeysUpTo(g.votes, p) # {}
  <2> DEFINE k == LastKey(g.votes, p)
  <2>1. g \in GaugeStates /\ \A l \in DOMAIN g.votes : g.votes[l].start = l
    BY DEF GaugeTyped
  <2>2. DOMAIN g.votes \subseteq Nat /\ g.votes \in [DOMAIN g.votes -> GaugePoints]
    BY <2>1, GaugeFields
  <2>3. k \in DOMAIN g.votes /\ k <= p /\ \A l \in DOMAIN g.votes : l <= p => l <= k
    BY <1>2, <2>2, LastKeyIs
  <2>4. get_validator_info(g, p) = Recalculate(g.votes[k], g.changes, p)
    BY <1>2 DEF get_validator_info
  <2> HIDE DEF k
  <2>5. k \in Nat /\ g.votes[k] \in GaugePoints /\ g.votes[k].start = k
    BY <2>1, <2>2, <2>3
  <2>6. LastKey(g.votes, p) = k
    BY DEF k
  <2> QED
    BY <2>3, <2>4, <2>5, <2>6, Zenon
<1> QED
  BY <1>1, <1>2

LEMMA InfoType ==
  ASSUME NEW g, NEW next \in Nat, GaugeTyped(g, next), NEW p \in Nat
  PROVE  get_validator_info(g, p) \in GaugePoints /\ get_validator_info(g, p).start = p
<1>1. g.changes \in Changes
  BY GaugeFields DEF GaugeTyped
<1>2. CASE get_validator_info(g, p) = NoPoint(p)
  BY <1>2 DEF NoPoint, GaugePoints
<1>3. ASSUME NEW k \in Nat, k <= p, g.votes[k] \in GaugePoints, g.votes[k].start = k,
             get_validator_info(g, p) = Recalculate(g.votes[k], g.changes, p)
      PROVE  get_validator_info(g, p) \in GaugePoints /\ get_validator_info(g, p).start = p
  <2> DEFINE pt == g.votes[k]
  <2>1. pt \in GaugePoints /\ pt.start <= p
    BY <1>3
  <2> HIDE DEF pt
  <2>2. Recalculate(pt, g.changes, p) \in GaugePoints /\ Recalculate(pt, g.changes, p).start = p
    BY <1>1, <2>1, RecalculateNext
  <2> QED
    BY <1>3, <2>2 DEF pt
<1> QED
  BY <1>2, <1>3, InfoIs, Zenon

\* A period in which a point is saved.
LEMMA InfoSaved ==
  ASSUME NEW g, NEW next \in Nat, GaugeTyped(g, next), NEW p \in Nat, p \in DOMAIN g.votes
  PROVE  get_validator_info(g, p) = g.votes[p]
<1> DEFINE pt == g.votes[p]
<1>1. g \in GaugeStates /\ pt.start = p
  BY DEF GaugeTyped
<1>2. g.changes \in Changes /\ DOMAIN g.votes \subseteq Nat /\ pt \in GaugePoints
  BY <1>1, GaugeFields
<1>3. p <= p /\ \A l \in DOMAIN g.votes : l <= p => l <= p
  OBVIOUS
<1>4. KeysUpTo(g.votes, p) # {} /\ LastKey(g.votes, p) = p
  BY <1>2, <1>3, LastKeyUnique
<1>5. get_validator_info(g, p) = Recalculate(pt, g.changes, p)
  BY <1>4 DEF get_validator_info
<1> HIDE DEF pt
<1>6. Recalculate(pt, g.changes, pt.start) = pt
  BY <1>1, <1>2, <1>3, RecalculateNext
<1> QED
  BY <1>1, <1>5, <1>6 DEF pt

\* A period in which no point is saved follows the one before it.
LEMMA InfoNext ==
  ASSUME NEW g, NEW next \in Nat, GaugeTyped(g, next), NEW p \in Nat, p + 1 \notin DOMAIN g.votes
  PROVE  get_validator_info(g, p + 1) = NextPoint(get_validator_info(g, p), At(g.changes, p + 1), p + 1)
<1>1. g.changes \in Changes /\ DOMAIN g.votes \subseteq Nat /\ p + 1 \in Nat
  BY GaugeFields DEF GaugeTyped
<1>2. \A l \in DOMAIN g.votes : l <= p + 1 <=> l <= p
  BY <1>1
<1>3. CASE KeysUpTo(g.votes, p) = {} /\ get_validator_info(g, p) = NoPoint(p)
  <2>1. KeysUpTo(g.votes, p + 1) = {}
    BY <1>2, <1>3 DEF KeysUpTo
  <2>2. get_validator_info(g, p + 1) = NoPoint(p + 1)
    BY <2>1 DEF get_validator_info, NoPoint
  <2> DEFINE q      == p + 1
             change == At(g.changes, q)
             zero   == NoPoint(p)
             new    == NoPoint(q)
             after  == NextPoint(zero, change, q)
  <2>3. change \in Nat /\ zero \in GaugePoints /\ zero.power = 0 /\ zero.slope = 0
    BY <1>1, AtNat DEF NoPoint, GaugePoints
  <2>4. new \in GaugePoints /\ new.power = 0 /\ new.slope = 0 /\ new.start = q /\ q \in Nat
    BY <1>1 DEF NoPoint, GaugePoints
  <2> HIDE DEF q, zero, change, new
  <2>5. /\ after \in GaugePoints /\ after.start = q
        /\ after.power = SatSub(zero.power, zero.slope) /\ after.slope = SatSub(zero.slope, change)
    <3>1. zero \in GaugePoints /\ change \in Nat /\ q \in Nat
      BY <2>3, <2>4
    <3> HIDE DEF after
    <3>2. after = NextPoint(zero, change, q)
      BY Zenon DEF after
    <3>3. /\ NextPoint(zero, change, q) \in GaugePoints /\ NextPoint(zero, change, q).start = q
          /\ NextPoint(zero, change, q).power = SatSub(zero.power, zero.slope)
          /\ NextPoint(zero, change, q).slope = SatSub(zero.slope, change)
      BY ONLY <3>1, NextGaugePoint
    <3> QED
      BY <3>2, <3>3, Zenon
  <2> HIDE DEF after
  <2>6. SatSub(0, 0) = 0 /\ SatSub(0, change) = 0
    BY <2>3 DEF SatSub
  <2>7. after = new
    BY <2>3, <2>4, <2>5, <2>6 DEF GaugePoints
  <2> QED
    BY <1>3, <2>2, <2>7 DEF after, new, zero, change, q
<1>4. ASSUME NEW k \in Nat, k \in DOMAIN g.votes, k <= p, \A l \in DOMAIN g.votes : l <= p => l <= k,
             g.votes[k] \in GaugePoints, g.votes[k].start = k,
             get_validator_info(g, p) = Recalculate(g.votes[k], g.changes, p)
      PROVE  get_validator_info(g, p + 1) = NextPoint(get_validator_info(g, p), At(g.changes, p + 1), p + 1)
  <2> DEFINE pt == g.votes[k]
             q  == p + 1
  <2>1. pt \in GaugePoints /\ pt.start <= p
    BY <1>4
  <2>2. k <= q /\ q \in Nat /\ \A l \in DOMAIN g.votes : l <= q => l <= k
    BY <1>2, <1>4
  <2> HIDE DEF q
  <2>3. KeysUpTo(g.votes, q) # {} /\ LastKey(g.votes, q) = k
    BY <1>1, <1>4, <2>2, LastKeyUnique
  <2>4. get_validator_info(g, q) = Recalculate(pt, g.changes, q)
    BY <2>3 DEF get_validator_info
  <2> HIDE DEF pt
  <2>5. Recalculate(pt, g.changes, p + 1) = NextPoint(Recalculate(pt, g.changes, p), At(g.changes, p + 1), p + 1)
    BY <1>1, <2>1, RecalculateNext
  <2> QED
    BY <1>4, <2>4, <2>5 DEF pt, q
<1> QED
  BY <1>3, <1>4, InfoIs, Zenon

\* What is read depends on the last point and on the changes after it.
LEMMA InfoSame ==
  ASSUME NEW g, NEW next \in Nat, GaugeTyped(g, next), NEW e, NEW other \in Nat, GaugeTyped(e, other),
         NEW p \in Nat,
         \A k \in DOMAIN e.votes : k \in DOMAIN g.votes /\ e.votes[k] = g.votes[k],
         KeysUpTo(g.votes, p) # {} => LastKey(g.votes, p) \in DOMAIN e.votes,
         \A q \in Nat : q <= p /\ (KeysUpTo(g.votes, p) # {} => q > LastKey(g.votes, p)) =>
                          At(e.changes, q) = At(g.changes, q)
  PROVE  get_validator_info(e, p) = get_validator_info(g, p)
<1>1. g.changes \in Changes /\ e.changes \in Changes /\ DOMAIN e.votes \subseteq Nat
  BY GaugeFields DEF GaugeTyped
<1>2. CASE KeysUpTo(g.votes, p) = {} /\ get_validator_info(g, p) = NoPoint(p)
  <2>1. KeysUpTo(e.votes, p) = {}
    BY <1>2 DEF KeysUpTo
  <2> QED
    BY <1>2, <2>1 DEF get_validator_info, NoPoint
<1>3. ASSUME NEW k \in Nat, k \in DOMAIN g.votes, k <= p, \A l \in DOMAIN g.votes : l <= p => l <= k,
             LastKey(g.votes, p) = k,
             g.votes[k] \in GaugePoints, g.votes[k].start = k,
             get_validator_info(g, p) = Recalculate(g.votes[k], g.changes, p)
      PROVE  get_validator_info(e, p) = get_validator_info(g, p)
  <2> DEFINE pt == g.votes[k]
  <2>1. KeysUpTo(g.votes, p) # {}
    BY <1>3 DEF KeysUpTo
  <2>2. k \in DOMAIN e.votes /\ e.votes[k] = pt /\ \A l \in DOMAIN e.votes : l <= p => l <= k
    BY <1>3, <2>1
  <2>3. KeysUpTo(e.votes, p) # {} /\ LastKey(e.votes, p) = k
    BY <1>1, <1>3, <2>2, LastKeyUnique
  <2>4. get_validator_info(e, p) = Recalculate(pt, e.changes, p)
    BY <2>2, <2>3 DEF get_validator_info
  <2>5. \A q \in (k + 1)..p : At(e.changes, q) = At(g.changes, q)
    <3> TAKE q \in (k + 1)..p
    <3>1. q \in Nat /\ q <= p /\ q > LastKey(g.votes, p)
      BY <1>3
    <3> QED
      BY <3>1, Zenon
  <2>6. pt \in GaugePoints /\ pt.start = k /\ pt.start <= p
    BY <1>3
  <2> HIDE DEF pt
  <2>7. Recalculate(pt, e.changes, p) = Recalculate(pt, g.changes, p)
    BY <1>1, <2>5, <2>6, RecalculateSame
  <2> QED
    BY <1>3, <2>4, <2>7 DEF pt
<1> QED
  BY <1>2, <1>3, InfoIs, Zenon

-----------------------------------------------------------------------------
(* The operations on a gauge.                                              *)

\* Two gauges from which the same is read for the periods from next on.
SameReads(e, g, next) ==
  /\ get_validator_info(e, next) = get_validator_info(g, next)
  /\ fetch_last_validator_fixed_vamp_value(e, next) = fetch_last_validator_fixed_vamp_value(g, next)
  /\ \A p \in Nat : p > next => At(e.changes, p) = At(g.changes, p)

\* A map of changes with another entry at k.
SavedAt(more, map, k, n) ==
  more \in Changes /\ \A l : At(more, l) = IF l = k THEN n ELSE At(map, l)

LEMMA PutIs ==
  ASSUME NEW map \in Changes, NEW k \in Nat, NEW n \in Nat
  PROVE  /\ SavedAt(Put(map, k, n), map, k, n)
         /\ DOMAIN Put(map, k, n) = DOMAIN map \cup {k} /\ Put(map, k, n)[k] = n
<1> DEFINE D == DOMAIN map \cup {k}
           s == [l \in D |-> IF l = k THEN n ELSE map[l]]
<1>1. Put(map, k, n) = s
  BY DEF Put
<1>2. map \in [DOMAIN map -> Nat] /\ IsFiniteSet(DOMAIN map) /\ DOMAIN map \subseteq Nat
  BY ChangesMap
<1>3. IsFiniteSet(D) /\ D \subseteq Nat
  BY <1>2, FS_AddElement
<1>4. s \in [D -> Nat]
  BY <1>2
<1>5. s \in Changes
  BY <1>3, <1>4, IsChanges
<1>6. \A l : At(s, l) = IF l = k THEN n ELSE At(map, l)
  BY DEF At
<1>7. DOMAIN s = D /\ s[k] = n
  OBVIOUS
<1> HIDE DEF s
<1> QED
  BY <1>1, <1>5, <1>6, <1>7 DEF SavedAt

LEMMA RestrictIs ==
  ASSUME NEW map \in Changes, NEW D, D \subseteq DOMAIN map
  PROVE  /\ Restrict(map, D) \in Changes /\ DOMAIN Restrict(map, D) = D
         /\ \A k \in D : Restrict(map, D)[k] = map[k]
         /\ \A k : At(Restrict(map, D), k) = IF k \in D THEN At(map, k) ELSE 0
<1>1. map \in [DOMAIN map -> Nat] /\ IsFiniteSet(DOMAIN map) /\ DOMAIN map \subseteq Nat
  BY ChangesMap
<1>2. IsFiniteSet(D) /\ D \subseteq Nat
  BY <1>1, FS_Subset
<1>3. Restrict(map, D) \in [D -> Nat]
  BY <1>1 DEF Restrict
<1>4. Restrict(map, D) \in Changes
  BY <1>2, <1>3, IsChanges
<1> QED
  BY <1>4 DEF Restrict, At

LEMMA WithoutIs ==
  ASSUME NEW map \in Changes, NEW k
  PROVE  SavedAt(Without(map, k), map, k, 0)
<1> DEFINE D == DOMAIN map \ {k}
<1>1. D \subseteq DOMAIN map
  OBVIOUS
<1> HIDE DEF D
<1>2. Restrict(map, D) \in Changes /\ \A l : At(Restrict(map, D), l) = IF l \in D THEN At(map, l) ELSE 0
  BY <1>1, RestrictIs
<1>3. \A l : IF l \in D THEN l # k ELSE l = k \/ At(map, l) = 0
  BY DEF D, At
<1>4. \A l : At(Restrict(map, D), l) = IF l = k THEN 0 ELSE At(map, l)
  <2> TAKE l
  <2>1. CASE l \in D
    BY <1>2, <1>3, <2>1
  <2>2. CASE l \notin D
    BY <1>2, <1>3, <2>2
  <2> QED
    BY <2>1, <2>2
<1>5. Without(map, k) = Restrict(map, D)
  BY WithoutFunction DEF D, Restrict
<1> QED
  BY <1>2, <1>4, <1>5 DEF SavedAt

\* A gauge with another map in one of its fields.
LEMMA VotesSet ==
  ASSUME NEW g \in GaugeStates, NEW votes \in PointMaps
  PROVE  LET e == [g EXCEPT !.votes = votes]
         IN  e \in GaugeStates /\ e.fixed = g.fixed /\ e.votes = votes /\ e.changes = g.changes
  BY DEF GaugeStates

LEMMA FixedSet ==
  ASSUME NEW g \in GaugeStates, NEW fixed \in Changes
  PROVE  LET e == [g EXCEPT !.fixed = fixed]
         IN  e \in GaugeStates /\ e.fixed = fixed /\ e.votes = g.votes /\ e.changes = g.changes
  BY DEF GaugeStates

LEMMA ChangesSet ==
  ASSUME NEW g \in GaugeStates, NEW changes \in Changes
  PROVE  LET e == [g EXCEPT !.changes = changes]
         IN  e \in GaugeStates /\ e.fixed = g.fixed /\ e.votes = g.votes /\ e.changes = changes
  BY DEF GaugeStates

\* The fixed part is a number.
LEMMA FixedType ==
  ASSUME NEW g, NEW next \in Nat, GaugeTyped(g, next), NEW p \in Nat
  PROVE  fetch_last_validator_fixed_vamp_value(g, p) \in Nat
<1>1. g.fixed \in Changes /\ DOMAIN g.fixed \subseteq Nat
  BY GaugeFields DEF GaugeTyped
<1>2. g.fixed \in [DOMAIN g.fixed -> Nat]
  BY <1>1, ChangesMap
<1>3. CASE KeysUpTo(g.fixed, p) = {}
  BY <1>3 DEF fetch_last_validator_fixed_vamp_value
<1>4. CASE KeysUpTo(g.fixed, p) # {}
  <2>1. LastKey(g.fixed, p) \in DOMAIN g.fixed
    BY <1>1, <1>4, LastKeyIs
  <2> QED
    BY <1>2, <1>4, <2>1 DEF fetch_last_validator_fixed_vamp_value
<1> QED
  BY <1>3, <1>4

\* add_fixed_vamp and remove_fixed_vamp save a number for the next period.
LEMMA FixedSaved ==
  ASSUME NEW g, NEW next \in Nat, GaugeTyped(g, next), NEW n \in Nat
  PROVE  LET e == [g EXCEPT !.fixed = Put(g.fixed, next, n)]
         IN  /\ GaugeTyped(e, next) /\ e.votes = g.votes /\ e.changes = g.changes
             /\ fetch_last_validator_fixed_vamp_value(e, next) = n
<1> DEFINE map == Put(g.fixed, next, n)
           e   == [g EXCEPT !.fixed = map]
<1>1. g \in GaugeStates /\ g.fixed \in Changes /\ DOMAIN g.fixed \subseteq Nat
  BY GaugeFields DEF GaugeTyped
<1>2. map \in Changes /\ DOMAIN map = DOMAIN g.fixed \cup {next} /\ map[next] = n
  <2>1. g.fixed \in Changes /\ next \in Nat /\ n \in Nat
    BY <1>1
  <2> QED
    BY ONLY <2>1, PutIs DEF SavedAt
<1> HIDE DEF map
<1>3. e \in GaugeStates /\ e.fixed = map /\ e.votes = g.votes /\ e.changes = g.changes
  BY <1>1, <1>2, FixedSet
<1> HIDE DEF e
<1>4. GaugeTyped(e, next)
  BY <1>2, <1>3 DEF GaugeTyped
<1>5. DOMAIN map \subseteq Nat /\ next \in DOMAIN map /\ next <= next
  BY <1>1, <1>2
<1>6. KeysUpTo(map, next) # {} /\ LastKey(map, next) = next
  <2>1. \A l \in DOMAIN map : l <= next => l <= next
    OBVIOUS
  <2> QED
    BY <1>5, <2>1, LastKeyUnique
<1>7. fetch_last_validator_fixed_vamp_value(e, next) = n
  BY <1>2, <1>3, <1>6 DEF fetch_last_validator_fixed_vamp_value
<1> QED
  BY <1>3, <1>4, <1>7 DEF e, map

\* update_validator_info sets the point of a period and fills in some before it.
LEMMA UpdateIs ==
  ASSUME NEW g, NEW next \in Nat, GaugeTyped(g, next), NEW p \in Nat, p <= next,
         NEW info \in GaugePoints, info.start = p
  PROVE  LET e == update_validator_info(g, p, info)
         IN  /\ GaugeTyped(e, next) /\ e.fixed = g.fixed /\ e.changes = g.changes
             /\ p \in DOMAIN e.votes /\ e.votes[p] = info
             /\ \A q \in Nat : q > p =>
                  /\ q \in DOMAIN e.votes <=> q \in DOMAIN g.votes
                  /\ q \in DOMAIN g.votes => e.votes[q] = g.votes[q]
<1> DEFINE saved == IntermediatePeriods(g, p)
           D     == DOMAIN g.votes \cup saved \cup {p}
           votes == [q \in D |-> IF q = p THEN info
                                 ELSE IF q \in saved THEN get_validator_info(g, q) ELSE g.votes[q]]
           e     == [g EXCEPT !.votes = votes]
<1>1. /\ g \in GaugeStates /\ DOMAIN g.votes \subseteq Nat /\ g.votes \in [DOMAIN g.votes -> GaugePoints]
      /\ g.changes \in Changes /\ \A k \in DOMAIN g.votes : k <= next /\ g.votes[k].start = k
  BY GaugeFields DEF GaugeTyped
<1>2. \A q \in saved : q \in Nat /\ q <= p
  <2>1. DOMAIN g.changes \subseteq Nat
    BY <1>1, ChangesMap
  <2> QED
    BY <2>1 DEF IntermediatePeriods
<1>3. update_validator_info(g, p, info) = e
  BY Zenon DEF update_validator_info
<1> HIDE DEF saved
<1>4. \A q \in saved : get_validator_info(g, q) \in GaugePoints /\ get_validator_info(g, q).start = q
  BY <1>2, InfoType
<1>5. D \subseteq Nat /\ \A q \in D : q <= next /\ votes[q] \in GaugePoints /\ votes[q].start = q
  <2>1. ASSUME NEW q \in D PROVE q \in Nat /\ q <= next /\ votes[q] \in GaugePoints /\ votes[q].start = q
    <3>1. CASE q = p
      BY <3>1
    <3>2. CASE q # p /\ q \in saved
      <4>1. votes[q] = get_validator_info(g, q)
        BY <3>2
      <4> HIDE DEF votes
      <4> QED
        BY <1>2, <1>4, <3>2, <4>1
    <3>3. CASE q # p /\ q \notin saved
      <4>1. votes[q] = g.votes[q] /\ q \in DOMAIN g.votes
        BY <3>3
      <4> HIDE DEF votes
      <4> QED
        BY <1>1, <4>1
    <3> QED
      BY <3>1, <3>2, <3>3
  <2> QED
    BY <2>1
<1>6. DOMAIN votes = D /\ votes[p] = info /\ p \in D
  OBVIOUS
<1>7. \A q \in Nat : q > p => /\ q \in D <=> q \in DOMAIN g.votes
                              /\ q \in DOMAIN g.votes => votes[q] = g.votes[q]
  BY <1>2
<1>8. votes \in PointMaps
  <2>1. votes \in [D -> GaugePoints]
    BY <1>5
  <2> HIDE DEF D, votes
  <2> QED
    BY <1>5, <2>1, IsPointMap
<1> HIDE DEF D, votes
<1>9. e \in GaugeStates /\ e.fixed = g.fixed /\ e.votes = votes /\ e.changes = g.changes
  BY <1>1, <1>8, VotesSet
<1> HIDE DEF e
<1>10. GaugeTyped(e, next)
  BY <1>5, <1>6, <1>9 DEF GaugeTyped
<1> QED
  BY <1>3, <1>6, <1>7, <1>9, <1>10

\* The point of the next period, set.
LEMMA UpdateNext ==
  ASSUME NEW g, NEW next \in Nat, GaugeTyped(g, next), NEW info \in GaugePoints, info.start = next
  PROVE  LET e == update_validator_info(g, next, info)
         IN  /\ GaugeTyped(e, next) /\ e.fixed = g.fixed /\ e.changes = g.changes
             /\ get_validator_info(e, next) = info
<1> DEFINE e == update_validator_info(g, next, info)
<1>1. /\ GaugeTyped(e, next) /\ e.fixed = g.fixed /\ e.changes = g.changes
      /\ next \in DOMAIN e.votes /\ e.votes[next] = info
  <2>1. next <= next
    OBVIOUS
  <2> QED
    BY <2>1, UpdateIs
<1> HIDE DEF e
<1>2. get_validator_info(e, next) = info
  BY <1>1, InfoSaved
<1> QED
  BY <1>1, <1>2 DEF e

\* The point of the current period, saved, changes nothing.
LEMMA UpdateNow ==
  ASSUME NEW g, NEW now0 \in Nat, GaugeTyped(g, now0 + 1)
  PROVE  LET e == update_validator_info(g, now0, get_validator_info(g, now0))
         IN  GaugeTyped(e, now0 + 1) /\ SameReads(e, g, now0 + 1)
<1> DEFINE next == now0 + 1
           info == get_validator_info(g, now0)
           e    == update_validator_info(g, now0, info)
<1>1. next \in Nat /\ now0 <= next /\ next > now0 /\ GaugeTyped(g, next)
  OBVIOUS
<1> HIDE DEF next
<1>2. info \in GaugePoints /\ info.start = now0
  BY <1>1, InfoType
<1> HIDE DEF info
<1>3. /\ GaugeTyped(e, next) /\ e.fixed = g.fixed /\ e.changes = g.changes
      /\ now0 \in DOMAIN e.votes /\ e.votes[now0] = info
      /\ next \in DOMAIN e.votes <=> next \in DOMAIN g.votes
      /\ next \in DOMAIN g.votes => e.votes[next] = g.votes[next]
  BY <1>1, <1>2, UpdateIs
<1> HIDE DEF e
<1>4. get_validator_info(e, next) = get_validator_info(g, next)
  <2>1. CASE next \in DOMAIN g.votes
    <3>1. get_validator_info(g, next) = g.votes[next]
      BY <1>1, <2>1, InfoSaved
    <3>2. get_validator_info(e, next) = e.votes[next]
      BY <1>1, <1>3, <2>1, InfoSaved
    <3> QED
      BY <1>3, <2>1, <3>1, <3>2
  <2>2. CASE next \notin DOMAIN g.votes
    <3>1. now0 + 1 \notin DOMAIN g.votes /\ now0 + 1 \notin DOMAIN e.votes
      BY <1>3, <2>2 DEF next
    <3>2. get_validator_info(g, now0 + 1) =
            NextPoint(get_validator_info(g, now0), At(g.changes, now0 + 1), now0 + 1)
      BY <1>1, <3>1, InfoNext
    <3>3. get_validator_info(e, now0 + 1) =
            NextPoint(get_validator_info(e, now0), At(e.changes, now0 + 1), now0 + 1)
      BY <1>1, <1>3, <3>1, InfoNext
    <3>4. get_validator_info(e, now0) = info
      BY <1>1, <1>3, InfoSaved
    <3> QED
      BY <1>3, <3>2, <3>3, <3>4 DEF next, info
  <2> QED
    BY <2>1, <2>2
<1>5. fetch_last_validator_fixed_vamp_value(e, next) = fetch_last_validator_fixed_vamp_value(g, next)
  BY <1>3 DEF fetch_last_validator_fixed_vamp_value
<1>6. SameReads(e, g, next)
  BY <1>3, <1>4, <1>5 DEF SameReads
<1> QED
  BY <1>3, <1>6 DEF e, info, next

\* The latest key is kept when older ones are dropped.
LEMMA KeptKeys ==
  ASSUME NEW map, DOMAIN map \subseteq Nat, NEW p \in Nat, NEW q \in Nat, p <= q,
         NEW rest, DOMAIN rest = {k \in DOMAIN map : \A l \in KeysUpTo(map, p) : l <= k}
  PROVE  /\ KeysUpTo(map, q) = {} <=> KeysUpTo(rest, q) = {}
         /\ KeysUpTo(map, q) # {} =>
              LastKey(map, q) \in DOMAIN rest /\ LastKey(rest, q) = LastKey(map, q)
<1>1. KeysUpTo(map, q) = {} => KeysUpTo(rest, q) = {}
  BY DEF KeysUpTo
<1>2. ASSUME KeysUpTo(map, q) # {}
      PROVE  /\ KeysUpTo(rest, q) # {}
             /\ LastKey(map, q) \in DOMAIN rest /\ LastKey(rest, q) = LastKey(map, q)
  <2> DEFINE k == LastKey(map, q)
  <2>1. k \in DOMAIN map /\ k <= q /\ \A l \in DOMAIN map : l <= q => l <= k
    BY <1>2, LastKeyIs
  <2> HIDE DEF k
  <2>2. \A l \in KeysUpTo(map, p) : l <= k
    BY <2>1 DEF KeysUpTo
  <2>3. k \in DOMAIN rest
    BY <2>1, <2>2
  <2>4. DOMAIN rest \subseteq Nat /\ \A l \in DOMAIN rest : l <= q => l <= k
    BY <2>1
  <2>5. KeysUpTo(rest, q) # {} /\ LastKey(rest, q) = k
    BY <2>1, <2>3, <2>4, LastKeyUnique
  <2> QED
    BY <2>3, <2>5 DEF k
<1> QED
  BY <1>1, <1>2

\* Entries that no transaction reads can be dropped.
LEMMA SettleReads ==
  ASSUME Period \in Nat, NEW g, GaugeTyped(g, Period + 1)
  PROVE  GaugeTyped(Settle(g), Period + 1) /\ SameReads(Settle(g), g, Period + 1)
<1> DEFINE now0    == Period
           next    == now0 + 1
           FixedD  == {k \in DOMAIN g.fixed : \A l \in KeysUpTo(g.fixed, now0) : l <= k}
           VotesD  == {k \in DOMAIN g.votes : \A l \in KeysUpTo(g.votes, now0) : l <= k}
           ChangeD == {k \in DOMAIN g.changes : \A l \in KeysUpTo(g.votes, now0) : l < k}
           fixed   == Restrict(g.fixed, FixedD)
           votes   == Restrict(g.votes, VotesD)
           changes == Restrict(g.changes, ChangeD)
           e       == [fixed |-> fixed, votes |-> votes, changes |-> changes]
<1>1. Settle(g) = e
  BY DEF Settle
<1>2. /\ g \in GaugeStates /\ g.fixed \in Changes /\ g.votes \in PointMaps /\ g.changes \in Changes
      /\ DOMAIN g.votes \subseteq Nat /\ g.votes \in [DOMAIN g.votes -> GaugePoints]
      /\ DOMAIN g.fixed \subseteq Nat
      /\ \A k \in DOMAIN g.fixed : k <= next
      /\ \A k \in DOMAIN g.votes : k <= next /\ g.votes[k].start = k
  BY GaugeFields DEF GaugeTyped
<1>3. now0 \in Nat /\ next \in Nat /\ now0 <= next
  OBVIOUS
<1>4. fixed \in Changes /\ DOMAIN fixed = FixedD /\ \A k \in FixedD : fixed[k] = g.fixed[k]
  <2>1. FixedD \subseteq DOMAIN g.fixed
    OBVIOUS
  <2> HIDE DEF FixedD
  <2> QED
    BY <1>2, <2>1, RestrictIs
<1>5. /\ changes \in Changes
      /\ \A q : At(changes, q) = IF q \in ChangeD THEN At(g.changes, q) ELSE 0
  <2>1. ChangeD \subseteq DOMAIN g.changes
    OBVIOUS
  <2> HIDE DEF ChangeD
  <2> QED
    BY <1>2, <2>1, RestrictIs
<1>6. votes \in PointMaps /\ DOMAIN votes = VotesD /\ \A k \in VotesD : votes[k] = g.votes[k]
  <2>1. VotesD \subseteq DOMAIN g.votes
    OBVIOUS
  <2> HIDE DEF VotesD
  <2>2. VotesD \subseteq Nat /\ votes \in [VotesD -> GaugePoints]
    BY <1>2, <2>1 DEF Restrict
  <2>3. votes \in PointMaps
    BY <2>2, IsPointMap
  <2> QED
    BY <2>3 DEF Restrict
<1> HIDE DEF fixed, votes, changes
<1>7. e \in GaugeStates /\ e.fixed = fixed /\ e.votes = votes /\ e.changes = changes
  BY <1>4, <1>5, <1>6 DEF GaugeStates
<1> HIDE DEF e
<1>8. FixedD \subseteq DOMAIN g.fixed /\ VotesD \subseteq DOMAIN g.votes
  OBVIOUS
<1>9. GaugeTyped(e, next)
  <2> HIDE DEF FixedD, VotesD, next
  <2> QED
    BY <1>2, <1>4, <1>6, <1>7, <1>8 DEF GaugeTyped
<1>10. fetch_last_validator_fixed_vamp_value(e, next) = fetch_last_validator_fixed_vamp_value(g, next)
  <2>1. DOMAIN fixed = {k \in DOMAIN g.fixed : \A l \in KeysUpTo(g.fixed, now0) : l <= k}
    BY <1>4
  <2> HIDE DEF now0, next
  <2>2. /\ KeysUpTo(g.fixed, next) = {} <=> KeysUpTo(fixed, next) = {}
        /\ KeysUpTo(g.fixed, next) # {} =>
             LastKey(g.fixed, next) \in DOMAIN fixed /\ LastKey(fixed, next) = LastKey(g.fixed, next)
    <3>1. DOMAIN g.fixed \subseteq Nat /\ now0 \in Nat /\ next \in Nat /\ now0 <= next
      BY <1>2, <1>3
    <3> QED
      BY ONLY <2>1, <3>1, KeptKeys
  <2>3. LastKey(g.fixed, next) \in DOMAIN fixed => fixed[LastKey(g.fixed, next)] = g.fixed[LastKey(g.fixed, next)]
    BY <1>4, Zenon
  <2>4. CASE KeysUpTo(g.fixed, next) = {}
    BY <1>7, <2>2, <2>4, Zenon DEF fetch_last_validator_fixed_vamp_value
  <2>5. CASE KeysUpTo(g.fixed, next) # {}
    BY <1>7, <2>2, <2>3, <2>5, Zenon DEF fetch_last_validator_fixed_vamp_value
  <2> QED
    BY <2>4, <2>5, Zenon
<1>11. get_validator_info(e, next) = get_validator_info(g, next)
  <2>1. DOMAIN votes = {k \in DOMAIN g.votes : \A l \in KeysUpTo(g.votes, now0) : l <= k}
    BY <1>6
  <2>2. /\ KeysUpTo(g.votes, next) = {} <=> KeysUpTo(votes, next) = {}
        /\ KeysUpTo(g.votes, next) # {} =>
             LastKey(g.votes, next) \in DOMAIN votes /\ LastKey(votes, next) = LastKey(g.votes, next)
    <3> HIDE DEF now0, next
    <3>1. DOMAIN g.votes \subseteq Nat /\ now0 \in Nat /\ next \in Nat /\ now0 <= next
      BY <1>2, <1>3
    <3> QED
      BY ONLY <2>1, <3>1, KeptKeys
  <2>3. ASSUME NEW q \in Nat, q <= next, KeysUpTo(g.votes, next) # {} => q > LastKey(g.votes, next)
        PROVE  At(changes, q) = At(g.changes, q)
    <3>1. CASE q \in ChangeD
      BY <1>5, <3>1
    <3>2. CASE q \notin DOMAIN g.changes
      BY <1>5, <3>2 DEF At
    <3>3. CASE q \in DOMAIN g.changes /\ q \notin ChangeD
      <4>1. PICK l \in KeysUpTo(g.votes, now0) : ~ l < q
        BY <3>3
      <4>2. l \in DOMAIN g.votes /\ l <= next /\ l \in Nat /\ l \in KeysUpTo(g.votes, next)
        BY <1>2, <1>3, <4>1 DEF KeysUpTo
      <4>3. l <= LastKey(g.votes, next) /\ LastKey(g.votes, next) \in DOMAIN g.votes
        <5> HIDE DEF next
        <5> QED
          BY <1>2, <1>3, <4>2, LastKeyIs
      <4>4. q > LastKey(g.votes, next)
        BY <2>3, <4>2
      <4>5. LastKey(g.votes, next) \in Nat
        BY <1>2, <4>3
      <4> QED
        BY <2>3, <4>1, <4>2, <4>3, <4>4, <4>5
    <3> QED
      BY <3>1, <3>2, <3>3
  <2> HIDE DEF next, VotesD, ChangeD
  <2>4. \A k \in DOMAIN e.votes : k \in DOMAIN g.votes /\ e.votes[k] = g.votes[k]
    BY <1>6, <1>7, <1>8
  <2>5. KeysUpTo(g.votes, next) # {} => LastKey(g.votes, next) \in DOMAIN e.votes
    BY <1>7, <2>2
  <2>6. \A q \in Nat : q <= next /\ (KeysUpTo(g.votes, next) # {} => q > LastKey(g.votes, next)) =>
                         At(e.changes, q) = At(g.changes, q)
    BY <1>7, <2>3
  <2>7. GaugeTyped(g, next)
    BY DEF next
  <2> QED
    BY <1>3, <1>9, <2>4, <2>5, <2>6, <2>7, InfoSame
<1>12. ASSUME NEW p \in Nat, p > next PROVE At(changes, p) = At(g.changes, p)
  <2>1. CASE p \in ChangeD
    BY <1>5, <2>1
  <2>2. CASE p \notin DOMAIN g.changes
    BY <1>5, <2>2 DEF At
  <2>3. CASE p \in DOMAIN g.changes /\ p \notin ChangeD
    <3>1. PICK l \in KeysUpTo(g.votes, now0) : ~ l < p
      BY <2>3
    <3>2. l \in Nat /\ l <= now0
      BY <1>2, <3>1 DEF KeysUpTo
    <3> QED
      BY <1>3, <1>12, <3>1, <3>2
  <2> QED
    BY <2>1, <2>2, <2>3
<1>13. SameReads(e, g, next)
  <2> HIDE DEF next
  <2> QED
    BY <1>7, <1>10, <1>11, <1>12 DEF SameReads
<1> QED
  BY <1>1, <1>9, <1>13 DEF next

\* The fixed part takes part in nothing else.
LEMMA FixedMoves ==
  ASSUME NEW g, NEW next \in Nat, GaugeTyped(g, next), NEW n \in Nat
  PROVE  /\ LET e == add_fixed_vamp(g, next, n)
            IN  /\ GaugeTyped(e, next) /\ e.changes = g.changes
                /\ get_validator_info(e, next) = get_validator_info(g, next)
                /\ fetch_last_validator_fixed_vamp_value(e, next) =
                     fetch_last_validator_fixed_vamp_value(g, next) + n
         /\ LET e == remove_fixed_vamp(g, next, n)
            IN  /\ GaugeTyped(e, next) /\ e.changes = g.changes
                /\ get_validator_info(e, next) = get_validator_info(g, next)
                /\ fetch_last_validator_fixed_vamp_value(e, next) =
                     SatSub(fetch_last_validator_fixed_vamp_value(g, next), n)
<1> DEFINE old  == fetch_last_validator_fixed_vamp_value(g, next)
           e(m) == [g EXCEPT !.fixed = Put(g.fixed, next, m)]
<1>1. add_fixed_vamp(g, next, n) = e(old + n) /\ remove_fixed_vamp(g, next, n) = e(SatSub(old, n))
  BY Zenon DEF add_fixed_vamp, remove_fixed_vamp
<1>2. old + n \in Nat /\ SatSub(old, n) \in Nat
  <2>1. old \in Nat
    BY FixedType
  <2> HIDE DEF old
  <2> QED
    BY <2>1 DEF SatSub
<1>3. ASSUME NEW m \in Nat
      PROVE  /\ GaugeTyped(e(m), next) /\ e(m).changes = g.changes
             /\ get_validator_info(e(m), next) = get_validator_info(g, next)
             /\ fetch_last_validator_fixed_vamp_value(e(m), next) = m
  <2> DEFINE h == e(m)
  <2>1. /\ GaugeTyped(h, next) /\ h.votes = g.votes /\ h.changes = g.changes
        /\ fetch_last_validator_fixed_vamp_value(h, next) = m
    BY FixedSaved
  <2> HIDE DEF h
  <2>2. get_validator_info(h, next) = get_validator_info(g, next)
    BY <2>1 DEF get_validator_info
  <2> QED
    BY <2>1, <2>2 DEF h
<1> HIDE DEF old, e
<1> QED
  BY <1>1, <1>2, <1>3 DEF old

\* A change scheduled for later, or left as it was, moves no point up to the next period.
LEMMA ChangesMoved ==
  ASSUME NEW g, NEW next \in Nat, GaugeTyped(g, next), NEW changes, NEW k \in Nat, NEW n \in Nat,
         SavedAt(changes, g.changes, k, n)
  PROVE  LET h == [g EXCEPT !.changes = changes]
         IN  /\ GaugeTyped(h, next) /\ h.fixed = g.fixed /\ h.changes = changes
             /\ k > next \/ n = At(g.changes, k) =>
                  get_validator_info(h, next) = get_validator_info(g, next)
<1> DEFINE h == [g EXCEPT !.changes = changes]
<1>1. g \in GaugeStates /\ changes \in Changes /\ \A l : At(changes, l) = IF l = k THEN n ELSE At(g.changes, l)
  BY DEF GaugeTyped, SavedAt
<1>2. h \in GaugeStates /\ h.fixed = g.fixed /\ h.votes = g.votes /\ h.changes = changes
  BY <1>1, ChangesSet
<1> HIDE DEF h
<1>3. GaugeTyped(h, next)
  BY <1>2 DEF GaugeTyped
<1>4. ASSUME k > next \/ n = At(g.changes, k)
      PROVE  get_validator_info(h, next) = get_validator_info(g, next)
  <2>1. \A q \in Nat : q <= next => At(h.changes, q) = At(g.changes, q)
    <3> SUFFICES ASSUME NEW q \in Nat, q <= next PROVE At(changes, q) = At(g.changes, q)
      BY <1>2
    <3>1. CASE q = k
      BY <1>1, <1>4, <3>1
    <3>2. CASE q # k
      BY <1>1, <3>2
    <3> QED
      BY <3>1, <3>2
  <2>2. DOMAIN g.votes \subseteq Nat
    BY <1>1, GaugeFields
  <2>3. KeysUpTo(g.votes, next) # {} => LastKey(g.votes, next) \in DOMAIN h.votes
    BY <1>2, <2>2, LastKeyIs
  <2>4. \A q \in Nat : q <= next /\ (KeysUpTo(g.votes, next) # {} => q > LastKey(g.votes, next)) =>
                         At(h.changes, q) = At(g.changes, q)
    BY <2>1
  <2>5. \A l \in DOMAIN h.votes : l \in DOMAIN g.votes /\ h.votes[l] = g.votes[l]
    BY <1>2
  <2> QED
    BY <1>3, <2>3, <2>4, <2>5, InfoSame
<1> QED
  BY <1>2, <1>3, <1>4 DEF h

\* A point with another power and slope.
PointWith(pt, power, slope) == [[pt EXCEPT !.power = power] EXCEPT !.slope = slope]

LEMMA PointSet ==
  ASSUME NEW pt \in GaugePoints, NEW power \in Nat, NEW slope \in Nat
  PROVE  /\ PointWith(pt, power, slope) \in GaugePoints
         /\ PointWith(pt, power, slope).start = pt.start
         /\ PointWith(pt, power, slope).power = power
         /\ PointWith(pt, power, slope).slope = slope
<1> DEFINE mid == [pt EXCEPT !.power = power]
           new == [mid EXCEPT !.slope = slope]
<1>1. mid \in GaugePoints /\ mid.start = pt.start /\ mid.power = power
  BY DEF GaugePoints
<1> HIDE DEF mid
<1>2. new \in GaugePoints /\ new.start = mid.start /\ new.power = mid.power /\ new.slope = slope
  BY <1>1 DEF GaugePoints
<1>3. PointWith(pt, power, slope) = new
  BY DEF PointWith, mid
<1> HIDE DEF new
<1> QED
  BY <1>1, <1>2, <1>3

\* What an operation makes of a gauge: the power, the slope, and a change scheduled at p.
Moved(e, g, next, power, slope, p, change) ==
  /\ get_validator_info(e, next).power = power
  /\ get_validator_info(e, next).slope = slope
  /\ \A q \in Nat : q > next => At(e.changes, q) = IF q = p THEN change ELSE At(g.changes, q)

\* A point that is moved together with the change at one period.
LEMMA GaugeMoves ==
  ASSUME NEW g, NEW next \in Nat, GaugeTyped(g, next), NEW changes, NEW k \in Nat, NEW n \in Nat,
         SavedAt(changes, g.changes, k, n), NEW power \in Nat, NEW slope \in Nat
  PROVE  LET h    == [g EXCEPT !.changes = changes]
             info == get_validator_info(h, next)
             e    == update_validator_info(h, next, PointWith(info, power, slope))
         IN  /\ GaugeTyped(e, next)
             /\ fetch_last_validator_fixed_vamp_value(e, next) =
                  fetch_last_validator_fixed_vamp_value(g, next)
             /\ Moved(e, g, next, power, slope, k, n)
<1> DEFINE h    == [g EXCEPT !.changes = changes]
           info == get_validator_info(h, next)
           new  == PointWith(info, power, slope)
           e    == update_validator_info(h, next, new)
<1>1. GaugeTyped(h, next) /\ h.fixed = g.fixed /\ h.changes = changes
  BY ChangesMoved
<1> HIDE DEF h
<1>2. info \in GaugePoints /\ info.start = next
  BY <1>1, InfoType
<1> HIDE DEF info
<1>3. new \in GaugePoints /\ new.start = next /\ new.power = power /\ new.slope = slope
  <2>1. info \in GaugePoints /\ power \in Nat /\ slope \in Nat
    BY <1>2
  <2>2. new = PointWith(info, power, slope)
    BY Zenon
  <2> HIDE DEF new
  <2>3. /\ PointWith(info, power, slope) \in GaugePoints
        /\ PointWith(info, power, slope).start = info.start
        /\ PointWith(info, power, slope).power = power
        /\ PointWith(info, power, slope).slope = slope
    BY ONLY <2>1, PointSet
  <2> QED
    BY <1>2, <2>2, <2>3, Zenon
<1> HIDE DEF new
<1>4. GaugeTyped(e, next) /\ e.fixed = h.fixed /\ e.changes = h.changes /\ get_validator_info(e, next) = new
  BY <1>1, <1>3, UpdateNext
<1> HIDE DEF e
<1>5. fetch_last_validator_fixed_vamp_value(e, next) = fetch_last_validator_fixed_vamp_value(g, next)
  BY <1>1, <1>4 DEF fetch_last_validator_fixed_vamp_value
<1>6. Moved(e, g, next, power, slope, k, n)
  BY <1>1, <1>3, <1>4 DEF Moved, SavedAt
<1> QED
  BY <1>4, <1>5, <1>6 DEF e, new, info, h

\* vote_for_validator: what a vote adds.  It adds it in the next period and takes it off
\* again after the lock has ended, unless that is over or nothing decays.
LEMMA GaugeVoteIs ==
  ASSUME NEW g, NEW next \in Nat, GaugeTyped(g, next),
         NEW vp \in Nat, NEW slope \in Nat, NEW lock_end \in Nat
  PROVE  LET e    == vote_for_validator(g, next, vp, slope, lock_end)
             info == get_validator_info(g, next)
         IN  /\ GaugeTyped(e, next)
             /\ fetch_last_validator_fixed_vamp_value(e, next) =
                  fetch_last_validator_fixed_vamp_value(g, next)
             /\ lock_end + 1 > next \/ slope = 0 =>
                  Moved(e, g, next, info.power + vp, info.slope + slope,
                        lock_end + 1, At(g.changes, lock_end + 1) + slope)
<1> DEFINE k       == lock_end + 1
           old     == At(g.changes, k)
           changes == Put(g.changes, k, old + slope)
           h       == [g EXCEPT !.changes = changes]
           info    == get_validator_info(g, next)
           point0  == get_validator_info(h, next)
           power1  == point0.power + vp
           slope1  == point0.slope + slope
           n       == old + slope
           e       == vote_for_validator(g, next, vp, slope, lock_end)
<1>1. g.changes \in Changes
  BY GaugeFields DEF GaugeTyped
<1>2. k \in Nat /\ old \in Nat /\ old + slope \in Nat
  BY <1>1, AtNat
<1>3. e = update_validator_info(h, next, PointWith(point0, power1, slope1))
  BY Zenon DEF vote_for_validator, PointWith
<1> HIDE DEF e, k, old
<1>4. n \in Nat /\ SavedAt(changes, g.changes, k, n)
  BY <1>1, <1>2, PutIs
<1>5. slope = 0 => n = old
  BY <1>2
<1> HIDE DEF changes, n
<1>6. GaugeTyped(h, next) /\ (k > next \/ n = old => point0 = info)
  BY <1>2, <1>4, ChangesMoved DEF old
<1>7. power1 \in Nat /\ slope1 \in Nat
  <2>1. point0 \in GaugePoints
    BY <1>6, InfoType
  <2> HIDE DEF point0
  <2>2. point0.power \in Nat /\ point0.slope \in Nat
    BY <2>1 DEF GaugePoints
  <2> QED
    BY <2>2
<1> HIDE DEF power1, slope1
<1>8. /\ GaugeTyped(e, next)
      /\ fetch_last_validator_fixed_vamp_value(e, next) = fetch_last_validator_fixed_vamp_value(g, next)
      /\ Moved(e, g, next, power1, slope1, k, n)
  <2>1. k \in Nat /\ n \in Nat /\ SavedAt(changes, g.changes, k, n)
    BY <1>2, <1>4
  <2>2. power1 \in Nat /\ slope1 \in Nat
    BY <1>7
  <2> QED
    BY <1>3, <2>1, <2>2, GaugeMoves
<1>9. ASSUME k > next \/ slope = 0
       PROVE  Moved(e, g, next, info.power + vp, info.slope + slope, k, n)
  <2>1. point0 = info
    BY <1>5, <1>6, <1>9
  <2>2. power1 = info.power + vp /\ slope1 = info.slope + slope
    BY <2>1 DEF power1, slope1
  <2> QED
    BY <1>8, <2>2
<1> QED
  BY <1>8, <1>9 DEF e, k, n, old

\* cancel_user_changes: what taking the votes of a lock that has not ended off removes.
LEMMA GaugeCancelIs ==
  ASSUME NEW g, NEW next \in Nat, GaugeTyped(g, next),
         NEW vp \in Nat, NEW slope \in Nat, NEW lock_end \in Nat, lock_end + 1 > next
  PROVE  LET e    == cancel_user_changes(g, next, vp, slope, lock_end)
             info == get_validator_info(g, next)
         IN  /\ GaugeTyped(e, next)
             /\ fetch_last_validator_fixed_vamp_value(e, next) =
                  fetch_last_validator_fixed_vamp_value(g, next)
             /\ Moved(e, g, next, SatSub(info.power, vp), SatSub(info.slope, slope),
                      lock_end + 1, SatSub(At(g.changes, lock_end + 1), slope))
<1> DEFINE k       == lock_end + 1
           rest    == SatSub(At(g.changes, k), slope)
           changes == IF rest = 0 THEN Without(g.changes, k) ELSE Put(g.changes, k, rest)
           h       == [g EXCEPT !.changes = changes]
           info    == get_validator_info(g, next)
           point0  == get_validator_info(h, next)
           power1  == SatSub(point0.power, vp)
           slope1  == SatSub(point0.slope, slope)
           e       == cancel_user_changes(g, next, vp, slope, lock_end)
<1>1. g.changes \in Changes
  BY GaugeFields DEF GaugeTyped
<1>2. k \in Nat /\ k > next /\ rest \in Nat
  <2>1. At(g.changes, k) \in Nat
    BY <1>1, AtNat
  <2> QED
    BY <2>1 DEF SatSub
<1>3. e = update_validator_info(h, next, PointWith(point0, power1, slope1))
  BY Zenon DEF cancel_user_changes, PointWith
<1> HIDE DEF e, k, rest
<1>4. SavedAt(changes, g.changes, k, rest)
  <2>1. CASE rest = 0
    BY <1>1, <2>1, WithoutIs
  <2>2. CASE rest # 0
    BY <1>1, <1>2, <2>2, PutIs
  <2> QED
    BY <2>1, <2>2
<1> HIDE DEF changes
<1>5. GaugeTyped(h, next) /\ point0 = info
  BY <1>2, <1>4, ChangesMoved
<1>6. power1 \in Nat /\ slope1 \in Nat
  <2>1. point0 \in GaugePoints
    BY <1>5, InfoType
  <2> HIDE DEF point0
  <2>2. point0.power \in Nat /\ point0.slope \in Nat
    BY <2>1 DEF GaugePoints
  <2> QED
    BY <2>2 DEF SatSub
<1> HIDE DEF power1, slope1
<1>7. /\ GaugeTyped(e, next)
      /\ fetch_last_validator_fixed_vamp_value(e, next) = fetch_last_validator_fixed_vamp_value(g, next)
      /\ Moved(e, g, next, power1, slope1, k, rest)
  BY <1>2, <1>3, <1>4, <1>6, GaugeMoves
<1>8. power1 = SatSub(info.power, vp) /\ slope1 = SatSub(info.slope, slope)
  BY <1>5 DEF power1, slope1
<1> QED
  BY <1>7, <1>8 DEF e, k, rest

-----------------------------------------------------------------------------
(* What a record gives a validator.                                        *)

\* What a validator gets of an amount of a voter's.
Share(v, r, amount) == IF v \in DOMAIN r.votes THEN BpsMul(r.votes[v], amount) ELSE 0

\* What a record counts for from a period q on: its slope and its power, and what ends
\* at a period.
SlopeFrom(r, q) == IF r.lock_end >= q THEN r.slope ELSE 0
PowerFrom(r, q) ==
  IF r.lock_end >= q THEN SatSub(r.voting_power, r.slope * ((q - 1) - r.vote_period)) ELSE 0
EndingAt(r, p) == IF r.lock_end + 1 = p THEN r.slope ELSE 0

\* A record of numbers made in a period up to p, whose power lasts until its lock ends.
RecordOK(r, p) ==
  /\ r.voting_power \in Nat /\ r.slope \in Nat /\ r.fixed_amount \in Nat /\ r.lock_end \in Nat
  /\ r.vote_period \in Nat /\ r.vote_period <= p
  /\ r.voting_power >= r.slope * SatSub(r.lock_end, r.vote_period)
  /\ DOMAIN r.votes \subseteq Validators /\ \A v \in DOMAIN r.votes : r.votes[v] \in Nat

LEMMA BpsNat ==
  ASSUME NEW w \in Nat, NEW a \in Nat
  PROVE  BpsMul(w, a) \in Nat /\ BpsMul(w, 0) = 0
<1>1. MAX_BPS \in Nat \ {0}
  BY GaugeAssumption
<1>2. a * w \in Nat
  BY MulNat
<1>3. (a * w) \div MAX_BPS \in Nat
  BY <1>1, <1>2, DivNat
<1>4. 0 * w = 0 /\ 0 \div MAX_BPS = 0
  BY <1>1, SMT
<1> QED
  BY <1>3, <1>4 DEF BpsMul

\* Parts that are rounded down on their own come to no more than the whole.
LEMMA BpsParts ==
  ASSUME NEW w \in Nat, NEW a \in Nat, NEW b \in Nat, NEW c \in Nat, a >= b + c
  PROVE  BpsMul(w, a) >= BpsMul(w, b) + BpsMul(w, c)
<1> DEFINE x == b * w
           y == c * w
           z == a * w
           M == MAX_BPS
<1>1. M \in Nat \ {0}
  BY GaugeAssumption
<1>2. x \in Nat /\ y \in Nat /\ z \in Nat
  BY MulNat
<1>3. z >= x + y
  <2> DEFINE d == a - (b + c)
  <2>1. d \in Nat /\ a = b + c + d
    OBVIOUS
  <2>2. d * w \in Nat
    BY <2>1, MulNat
  <2>3. (b + c + d) * w = b * w + c * w + d * w
    BY <2>1, SMT
  <2> QED
    BY <1>2, <2>1, <2>2, <2>3
<1> HIDE DEF x, y, z, M
<1>4. ASSUME NEW n \in Nat PROVE n \div M \in Nat /\ M * (n \div M) <= n /\ n < M * (n \div M) + M
  BY <1>1, SMT
<1> DEFINE qx == x \div M
           qy == y \div M
           qz == z \div M
<1>5. /\ qx \in Nat /\ qy \in Nat /\ qz \in Nat
      /\ M * qx <= x /\ M * qy <= y /\ z < M * qz + M
  BY <1>2, <1>4
<1> HIDE DEF qx, qy, qz
<1>6. M * (qx + qy) = M * qx + M * qy /\ M * (qz + 1) = M * qz + M
  BY <1>1, <1>5, SMT
<1>7. M * (qx + qy) < M * (qz + 1)
  <2>1. M * qx \in Nat /\ M * qy \in Nat /\ M * qz \in Nat
    BY <1>1, <1>5, MulNat
  <2> QED
    BY <1>1, <1>2, <1>3, <1>5, <1>6, <2>1
<1>8. qx + qy < qz + 1
  BY <1>1, <1>5, <1>7, SMT
<1> QED
  BY <1>5, <1>8 DEF BpsMul, qx, qy, qz, x, y, z, M

\* A validator's share of an amount.
LEMMA ShareNat ==
  ASSUME NEW r, NEW p, RecordOK(r, p), NEW v, NEW a \in Nat
  PROVE  Share(v, r, a) \in Nat /\ Share(v, r, 0) = 0
<1>1. CASE v \in DOMAIN r.votes
  <2> DEFINE w == r.votes[v]
  <2>1. w \in Nat
    BY <1>1 DEF RecordOK
  <2> HIDE DEF w
  <2>2. BpsMul(w, a) \in Nat /\ BpsMul(w, 0) = 0
    BY <2>1, BpsNat
  <2> QED
    BY <1>1, <2>2 DEF Share, w
<1>2. CASE v \notin DOMAIN r.votes
  BY <1>2 DEF Share
<1> QED
  BY <1>1, <1>2

LEMMA ShareParts ==
  ASSUME NEW r, NEW p, RecordOK(r, p), NEW v, NEW a \in Nat, NEW b \in Nat, NEW c \in Nat, a >= b + c
  PROVE  Share(v, r, a) >= Share(v, r, b) + Share(v, r, c)
<1>1. CASE v \in DOMAIN r.votes
  <2> DEFINE w == r.votes[v]
  <2>1. w \in Nat
    BY <1>1 DEF RecordOK
  <2> HIDE DEF w
  <2>2. BpsMul(w, a) >= BpsMul(w, b) + BpsMul(w, c)
    BY <2>1, BpsParts
  <2> QED
    BY <1>1, <2>2 DEF Share, w
<1>2. CASE v \notin DOMAIN r.votes
  BY <1>2 DEF Share
<1> QED
  BY <1>1, <1>2

\* The parts of a record are numbers.
LEMMA RecordParts ==
  ASSUME NEW r, NEW p \in Nat, RecordOK(r, p), NEW q \in Nat, q > p
  PROVE  /\ r.fixed_amount \in Nat /\ SlopeFrom(r, q) \in Nat /\ PowerFrom(r, q) \in Nat
         /\ \A k : EndingAt(r, k) \in Nat
<1>1. /\ r.voting_power \in Nat /\ r.slope \in Nat /\ r.fixed_amount \in Nat
      /\ r.vote_period \in Nat /\ r.vote_period <= p
  BY DEF RecordOK
<1>2. (q - 1) - r.vote_period \in Nat
  BY <1>1
<1>3. r.slope * ((q - 1) - r.vote_period) \in Nat
  BY <1>1, <1>2, MulNat
<1>4. SatSub(r.voting_power, r.slope * ((q - 1) - r.vote_period)) \in Nat
  BY <1>1, <1>3 DEF SatSub
<1> QED
  BY <1>1, <1>4 DEF SlopeFrom, PowerFrom, EndingAt

\* From one period to the next a record loses the slope, and the slope of a lock that ends.
LEMMA RecordDecays ==
  ASSUME NEW r, NEW p \in Nat, RecordOK(r, p), NEW q \in Nat, q > p
  PROVE  /\ PowerFrom(r, q) >= PowerFrom(r, q + 1) + SlopeFrom(r, q)
         /\ \/ SlopeFrom(r, q + 1) = 0 /\ EndingAt(r, q + 1) = SlopeFrom(r, q)
            \/ EndingAt(r, q + 1) = 0 /\ SlopeFrom(r, q + 1) = SlopeFrom(r, q)
<1> DEFINE vp == r.voting_power
           s  == r.slope
           e  == r.lock_end
           t  == r.vote_period
<1>1. vp \in Nat /\ s \in Nat /\ e \in Nat /\ t \in Nat /\ t <= p /\ vp >= s * SatSub(e, t)
  BY DEF RecordOK
<1>2. /\ SlopeFrom(r, q) = IF e >= q THEN s ELSE 0
      /\ SlopeFrom(r, q + 1) = IF e >= q + 1 THEN s ELSE 0
      /\ EndingAt(r, q + 1) = IF e + 1 = q + 1 THEN s ELSE 0
  BY DEF SlopeFrom, EndingAt
<1>3. /\ PowerFrom(r, q) = IF e >= q THEN SatSub(vp, s * ((q - 1) - t)) ELSE 0
      /\ PowerFrom(r, q + 1) = IF e >= q + 1 THEN SatSub(vp, s * (((q + 1) - 1) - t)) ELSE 0
  BY DEF PowerFrom
<1> HIDE DEF vp, s, e, t
<1>4. \/ SlopeFrom(r, q + 1) = 0 /\ EndingAt(r, q + 1) = SlopeFrom(r, q)
      \/ EndingAt(r, q + 1) = 0 /\ SlopeFrom(r, q + 1) = SlopeFrom(r, q)
  BY <1>1, <1>2
<1>5. CASE e < q
  BY <1>1, <1>2, <1>3, <1>5
<1>6. CASE e >= q
  <2> DEFINE d == (q - 1) - t
             x == e - q
             a == s * d
             b == s * x
  <2>1. d \in Nat /\ x \in Nat /\ ((q + 1) - 1) - t = d + 1 /\ e - t = d + 1 + x /\ e >= t
    BY <1>1, <1>6
  <2>2. SatSub(e, t) = d + 1 + x
    BY <2>1 DEF SatSub
  <2>3. a \in Nat /\ b \in Nat
    BY <1>1, <2>1, MulNat
  <2> HIDE DEF d, x
  <2>4. s * (d + 1) = a + s /\ s * (d + 1 + x) = a + s + b
    BY <1>1, <2>1, SMT
  <2> HIDE DEF a, b
  <2>5. vp >= a + s + b
    BY <1>1, <2>2, <2>4
  <2>6. PowerFrom(r, q) = vp - a
    <3>1. PowerFrom(r, q) = SatSub(vp, a)
      BY <1>3, <1>6 DEF a, d
    <3> QED
      BY <1>1, <2>3, <2>5, <3>1 DEF SatSub
  <2>7. PowerFrom(r, q + 1) <= vp - (a + s)
    <3>1. PowerFrom(r, q + 1) = IF e >= q + 1 THEN SatSub(vp, a + s) ELSE 0
      BY <1>3, <2>1, <2>4
    <3> QED
      BY <1>1, <2>3, <2>5, <3>1 DEF SatSub
  <2>8. SlopeFrom(r, q) = s
    BY <1>2, <1>6
  <2>9. PowerFrom(r, q + 1) \in Nat
    <3>1. q + 1 \in Nat /\ q + 1 > p
      OBVIOUS
    <3> QED
      BY <3>1, RecordParts
  <2>10. PowerFrom(r, q) >= PowerFrom(r, q + 1) + SlopeFrom(r, q)
    BY <1>1, <2>3, <2>5, <2>6, <2>7, <2>8, <2>9
  <2> QED
    BY <1>4, <2>10
<1> QED
  BY <1>1, <1>5, <1>6

\* The gauge after the shares of a record have been taken off it, or added to it.
TakenOff(e, g, v, r, q) ==
  /\ get_validator_info(e, q).slope = SatSub(get_validator_info(g, q).slope, Share(v, r, SlopeFrom(r, q)))
  /\ get_validator_info(e, q).power = SatSub(get_validator_info(g, q).power, Share(v, r, PowerFrom(r, q)))
  /\ \A k \in Nat : k > q =>
       At(e.changes, k) = SatSub(At(g.changes, k), Share(v, r, EndingAt(r, k)))

Added(e, g, v, r, q) ==
  /\ get_validator_info(e, q).slope = get_validator_info(g, q).slope + Share(v, r, SlopeFrom(r, q))
  /\ get_validator_info(e, q).power >= get_validator_info(g, q).power + Share(v, r, PowerFrom(r, q))
  /\ \A k \in Nat : k > q =>
       At(e.changes, k) = At(g.changes, k) + Share(v, r, EndingAt(r, k))

\* The numbers read from a gauge.
LEMMA GaugeNumbers ==
  ASSUME NEW g, NEW q \in Nat, GaugeTyped(g, q)
  PROVE  /\ get_validator_info(g, q).slope \in Nat /\ get_validator_info(g, q).power \in Nat
         /\ fetch_last_validator_fixed_vamp_value(g, q) \in Nat
         /\ \A k : At(g.changes, k) \in Nat
<1>1. get_validator_info(g, q) \in GaugePoints /\ fetch_last_validator_fixed_vamp_value(g, q) \in Nat
  BY InfoType, FixedType
<1>2. g.changes \in Changes
  BY GaugeFields DEF GaugeTyped
<1>3. \A k : At(g.changes, k) \in Nat
  BY <1>2, AtNat
<1> QED
  BY <1>1, <1>3 DEF GaugePoints

\* RemoveVotes takes a record's shares off a validator.
LEMMA RemoveVotesIs ==
  ASSUME Period \in Nat, NEW g, GaugeTyped(g, Period + 1),
         NEW r, RecordOK(r, Period), NEW v \in DOMAIN r.votes
  PROVE  LET e == RemoveVotes(g, v, r)
         IN  /\ GaugeTyped(e, Period + 1)
             /\ fetch_last_validator_fixed_vamp_value(e, Period + 1) =
                  SatSub(fetch_last_validator_fixed_vamp_value(g, Period + 1), Share(v, r, r.fixed_amount))
             /\ TakenOff(e, g, v, r, Period + 1)
<1> DEFINE p  == Period
           q  == p + 1
           w  == r.votes[v]
           fx == BpsMul(w, r.fixed_amount)
           vp == BpsMul(w, CurrentPower(r))
           sl == BpsMul(w, r.slope)
           le == r.lock_end
           h  == remove_fixed_vamp(g, q, fx)
           e  == RemoveVotes(g, v, r)
<1>1. e = IF le > p THEN cancel_user_changes(h, q, vp, sl, le) ELSE h
  BY DEF RemoveVotes
<1>2. /\ w \in Nat /\ r.fixed_amount \in Nat /\ r.slope \in Nat /\ le \in Nat
      /\ r.voting_power \in Nat /\ r.vote_period \in Nat /\ r.vote_period <= p
  BY DEF RecordOK
<1>3. p \in Nat /\ q \in Nat /\ q > p /\ GaugeTyped(g, q) /\ RecordOK(r, p) /\ q - 1 = p
  OBVIOUS
<1>4. q = p + 1
  OBVIOUS
<1>5. CurrentPower(r) = SatSub(r.voting_power, r.slope * (p - r.vote_period))
  BY DEF CurrentPower
<1> HIDE DEF p, q, le, w, e
<1>6. CurrentPower(r) \in Nat
  <2>1. p - r.vote_period \in Nat
    BY <1>2, <1>3
  <2>2. r.slope * (p - r.vote_period) \in Nat
    BY <1>2, <2>1, MulNat
  <2> QED
    BY <1>2, <1>5, <2>2 DEF SatSub
<1>7. fx \in Nat /\ vp \in Nat /\ sl \in Nat
  BY <1>2, <1>6, BpsNat
<1>8. \A a : Share(v, r, a) = BpsMul(w, a)
  BY DEF Share, w
<1>9. Share(v, r, 0) = 0
  BY <1>3, ShareNat
<1> HIDE DEF fx, vp, sl
<1>10. /\ GaugeTyped(h, q) /\ h.changes = g.changes
       /\ get_validator_info(h, q) = get_validator_info(g, q)
       /\ fetch_last_validator_fixed_vamp_value(h, q) = SatSub(fetch_last_validator_fixed_vamp_value(g, q), fx)
  BY <1>3, <1>7, FixedMoves
<1> HIDE DEF h
<1>11. Share(v, r, r.fixed_amount) = fx
  BY <1>8 DEF fx
<1>12. CASE le > p
  <2>1. e = cancel_user_changes(h, q, vp, sl, le)
    BY <1>1, <1>12
  <2>2. le + 1 > q
    BY <1>2, <1>3, <1>4, <1>12
  <2>3. /\ GaugeTyped(e, q)
        /\ fetch_last_validator_fixed_vamp_value(e, q) = fetch_last_validator_fixed_vamp_value(h, q)
        /\ Moved(e, h, q, SatSub(get_validator_info(h, q).power, vp),
                 SatSub(get_validator_info(h, q).slope, sl), le + 1, SatSub(At(h.changes, le + 1), sl))
    BY <1>2, <1>3, <1>7, <1>10, <2>1, <2>2, GaugeCancelIs
  <2>4. SlopeFrom(r, q) = r.slope /\ PowerFrom(r, q) = CurrentPower(r)
    <3>1. r.lock_end >= q
      BY <1>2, <1>3, <1>4, <1>12 DEF le
    <3> QED
      BY <1>3, <1>5, <3>1 DEF SlopeFrom, PowerFrom
  <2>5. Share(v, r, SlopeFrom(r, q)) = sl /\ Share(v, r, PowerFrom(r, q)) = vp
    BY <1>8, <2>4 DEF sl, vp
  <2>6. \A k \in Nat : Share(v, r, EndingAt(r, k)) = IF k = le + 1 THEN sl ELSE 0
    <3> TAKE k \in Nat
    <3>1. CASE k = le + 1
      <4>1. EndingAt(r, k) = r.slope
        BY <3>1 DEF EndingAt, le
      <4> QED
        BY <1>8, <3>1, <4>1 DEF sl
    <3>2. CASE k # le + 1
      <4>1. EndingAt(r, k) = 0
        BY <3>2 DEF EndingAt, le
      <4> QED
        BY <1>9, <3>2, <4>1
    <3> QED
      BY <3>1, <3>2
  <2>7. TakenOff(e, g, v, r, q)
    <3>1. /\ get_validator_info(e, q).power = SatSub(get_validator_info(h, q).power, vp)
          /\ get_validator_info(e, q).slope = SatSub(get_validator_info(h, q).slope, sl)
      BY <2>3 DEF Moved
    <3>2. ASSUME NEW k \in Nat, k > q
          PROVE  At(e.changes, k) = SatSub(At(g.changes, k), Share(v, r, EndingAt(r, k)))
      <4>1. At(e.changes, k) = IF k = le + 1 THEN SatSub(At(h.changes, le + 1), sl) ELSE At(h.changes, k)
        BY <2>3, <3>2 DEF Moved
      <4>2. CASE k = le + 1
        BY <1>10, <2>6, <4>1, <4>2
      <4>3. CASE k # le + 1
        <5>1. At(g.changes, k) \in Nat
          BY <1>3, GaugeNumbers
        <5>2. Share(v, r, EndingAt(r, k)) = 0 /\ At(e.changes, k) = At(g.changes, k)
          BY <1>10, <2>6, <4>1, <4>3
        <5>3. SatSub(At(g.changes, k), 0) = At(g.changes, k)
          BY <5>1 DEF SatSub
        <5> QED
          BY <5>2, <5>3
      <4> QED
        BY <4>2, <4>3
    <3> QED
      BY <1>10, <2>5, <3>1, <3>2 DEF TakenOff
  <2> QED
    BY <1>10, <1>11, <2>3, <2>7 DEF e, q, p
<1>13. CASE ~ le > p
  <2>1. e = h
    BY <1>1, <1>13
  <2>2. SlopeFrom(r, q) = 0 /\ PowerFrom(r, q) = 0
    <3>1. ~ r.lock_end >= q
      BY <1>2, <1>3, <1>4, <1>13 DEF le
    <3> QED
      BY <3>1 DEF SlopeFrom, PowerFrom
  <2>3. ASSUME NEW k \in Nat, k > q PROVE EndingAt(r, k) = 0
    <3>1. r.lock_end + 1 # k
      BY <1>2, <1>3, <1>4, <1>13, <2>3 DEF le
    <3> QED
      BY <3>1 DEF EndingAt
  <2>4. \A n \in Nat : SatSub(n, 0) = n
    BY DEF SatSub
  <2>5. /\ get_validator_info(g, q).slope \in Nat /\ get_validator_info(g, q).power \in Nat
        /\ \A k : At(g.changes, k) \in Nat
    BY <1>3, GaugeNumbers
  <2>6. TakenOff(e, g, v, r, q)
    BY <1>9, <1>10, <2>1, <2>2, <2>3, <2>4, <2>5 DEF TakenOff
  <2> QED
    BY <1>10, <1>11, <2>1, <2>6 DEF e, q, p
<1> QED
  BY <1>12, <1>13

\* ApplyVotes adds a record's shares to a validator, unless its lock has ended and it has
\* a slope still.
LEMMA ApplyVotesIs ==
  ASSUME Period \in Nat, NEW g, GaugeTyped(g, Period + 1),
         NEW r, RecordOK(r, Period), NEW v \in DOMAIN r.votes
  PROVE  LET e == ApplyVotes(g, v, r)
         IN  /\ GaugeTyped(e, Period + 1)
             /\ fetch_last_validator_fixed_vamp_value(e, Period + 1) =
                  fetch_last_validator_fixed_vamp_value(g, Period + 1) + Share(v, r, r.fixed_amount)
             /\ r.lock_end > Period \/ r.slope = 0 => Added(e, g, v, r, Period + 1)
<1> DEFINE p  == Period
           q  == p + 1
           w  == r.votes[v]
           fx == BpsMul(w, r.fixed_amount)
           vp == BpsMul(w, r.voting_power)
           sl == BpsMul(w, r.slope)
           le == r.lock_end
           h  == add_fixed_vamp(g, q, fx)
           e  == ApplyVotes(g, v, r)
<1>1. e = vote_for_validator(h, q, vp, sl, le)
  BY DEF ApplyVotes
<1>2. /\ w \in Nat /\ r.fixed_amount \in Nat /\ r.slope \in Nat /\ le \in Nat /\ r.voting_power \in Nat
      /\ r.vote_period \in Nat /\ r.vote_period <= p
  BY DEF RecordOK
<1>3. p \in Nat /\ q \in Nat /\ q > p /\ GaugeTyped(g, q) /\ RecordOK(r, p)
  OBVIOUS
<1>4. q = p + 1
  OBVIOUS
<1> HIDE DEF p, q, le, w, e
<1>5. fx \in Nat /\ vp \in Nat /\ sl \in Nat
  BY <1>2, BpsNat
<1>6. \A a : Share(v, r, a) = BpsMul(w, a)
  BY DEF Share, w
<1>7. Share(v, r, 0) = 0
  BY <1>3, ShareNat
<1>8. r.slope = 0 => sl = 0
  BY <1>2, BpsNat
<1>9. Share(v, r, r.fixed_amount) = fx /\ Share(v, r, r.slope) = sl /\ Share(v, r, r.voting_power) = vp
  BY <1>6
<1> HIDE DEF fx, vp, sl
<1>10. /\ GaugeTyped(h, q) /\ h.changes = g.changes
       /\ get_validator_info(h, q) = get_validator_info(g, q)
       /\ fetch_last_validator_fixed_vamp_value(h, q) = fetch_last_validator_fixed_vamp_value(g, q) + fx
  <2>1. q \in Nat /\ GaugeTyped(g, q) /\ fx \in Nat
    BY <1>3, <1>5
  <2> QED
    BY ONLY <2>1, FixedMoves
<1> HIDE DEF h
<1>11. /\ GaugeTyped(e, q)
       /\ fetch_last_validator_fixed_vamp_value(e, q) = fetch_last_validator_fixed_vamp_value(h, q)
       /\ le + 1 > q \/ sl = 0 =>
            Moved(e, h, q, get_validator_info(h, q).power + vp, get_validator_info(h, q).slope + sl,
                  le + 1, At(h.changes, le + 1) + sl)
  <2>1. q \in Nat /\ GaugeTyped(h, q) /\ vp \in Nat /\ sl \in Nat /\ le \in Nat
    BY <1>2, <1>3, <1>5, <1>10
  <2> QED
    BY <1>1, <2>1, GaugeVoteIs
<1>12. ASSUME le > p \/ r.slope = 0
       PROVE  Added(e, g, v, r, q)
  <2>1. le + 1 > q \/ sl = 0
    BY <1>2, <1>3, <1>4, <1>8, <1>12
  <2>2. /\ get_validator_info(e, q).power = get_validator_info(h, q).power + vp
        /\ get_validator_info(e, q).slope = get_validator_info(h, q).slope + sl
        /\ \A k \in Nat : k > q =>
             At(e.changes, k) = IF k = le + 1 THEN At(h.changes, le + 1) + sl ELSE At(h.changes, k)
    BY <1>11, <2>1 DEF Moved
  <2>3. Share(v, r, SlopeFrom(r, q)) = sl
    <3>1. SlopeFrom(r, q) = r.slope
      <4>1. r.lock_end >= q \/ r.slope = 0
        BY <1>2, <1>3, <1>4, <1>12 DEF le
      <4> QED
        BY <4>1 DEF SlopeFrom
    <3> QED
      BY <1>9, <3>1
  <2>4. Share(v, r, PowerFrom(r, q)) \in Nat /\ Share(v, r, PowerFrom(r, q)) <= vp
    <3> DEFINE x == PowerFrom(r, q)
    <3>1. x \in Nat
      BY <1>3, RecordParts
    <3>2. r.voting_power >= x + 0
      <4>1. (q - 1) - r.vote_period \in Nat
        BY <1>2, <1>3, <1>4
      <4>2. r.slope * ((q - 1) - r.vote_period) \in Nat
        BY <1>2, <4>1, MulNat
      <4> QED
        BY <1>2, <4>2 DEF PowerFrom, SatSub
    <3> HIDE DEF x
    <3>3. Share(v, r, r.voting_power) >= Share(v, r, x) + Share(v, r, 0)
      BY <1>2, <1>3, <3>1, <3>2, ShareParts
    <3>4. Share(v, r, x) \in Nat
      BY <1>3, <3>1, ShareNat
    <3> QED
      BY <1>7, <1>9, <3>3, <3>4 DEF x
  <2>5. ASSUME NEW k \in Nat, k > q
        PROVE  At(e.changes, k) = At(g.changes, k) + Share(v, r, EndingAt(r, k))
    <3>0. At(g.changes, k) \in Nat
      BY <1>3, GaugeNumbers
    <3>1. CASE k = le + 1
      <4>1. EndingAt(r, k) = r.slope
        BY <3>1 DEF EndingAt, le
      <4> QED
        BY <1>9, <1>10, <2>2, <2>5, <3>1, <4>1
    <3>2. CASE k # le + 1
      <4>1. EndingAt(r, k) = 0
        BY <3>2 DEF EndingAt, le
      <4>2. At(e.changes, k) = At(g.changes, k)
        BY <1>10, <2>2, <2>5, <3>2
      <4> QED
        BY <1>7, <3>0, <4>1, <4>2
    <3> QED
      BY <3>1, <3>2
  <2>6. get_validator_info(e, q).power >= get_validator_info(g, q).power + Share(v, r, PowerFrom(r, q))
    <3>1. get_validator_info(g, q).power \in Nat
      BY <1>3, GaugeNumbers
    <3>2. get_validator_info(e, q).power = get_validator_info(g, q).power + vp
      BY <1>10, <2>2
    <3> QED
      BY <1>5, <2>4, <3>1, <3>2
  <2>7. get_validator_info(e, q).slope = get_validator_info(g, q).slope + Share(v, r, SlopeFrom(r, q))
    BY <1>10, <2>2, <2>3
  <2> QED
    BY <2>5, <2>6, <2>7 DEF Added
<1> QED
  BY <1>9, <1>10, <1>11, <1>12 DEF e, q, p, le

-----------------------------------------------------------------------------
(* The gauges and the records.                                             *)

\* What the records R of all users give a validator.
GivenFixed(v, R) == [u \in Users |-> Share(v, R[u], R[u].fixed_amount)]
GivenSlopes(v, R, q) == [u \in Users |-> Share(v, R[u], SlopeFrom(R[u], q))]
GivenPowers(v, R, q) == [u \in Users |-> Share(v, R[u], PowerFrom(R[u], q))]
GivenEnding(v, R, k) == [u \in Users |-> Share(v, R[u], EndingAt(R[u], k))]

RecordsIn(R, p) == \A u \in Users : RecordOK(R[u], p)

\* The gauge of a validator agrees with the records from period q on.
FixedAgrees(g, v, R, q) == fetch_last_validator_fixed_vamp_value(g, q) = Total(GivenFixed(v, R))
SlopesAgree(g, v, R, q) ==
  /\ get_validator_info(g, q).slope = Total(GivenSlopes(v, R, q))
  /\ \A k \in Nat : k > q => At(g.changes, k) = Total(GivenEnding(v, R, k))
PowersAgree(g, v, R, q) == get_validator_info(g, q).power >= Total(GivenPowers(v, R, q))

VotesAgree(g, v, R, q, causes) ==
  /\ GaugeTyped(g, q)
  /\ "partial removal" \notin causes => FixedAgrees(g, v, R, q)
  /\ causes = {} => SlopesAgree(g, v, R, q) /\ PowersAgree(g, v, R, q)

LEMMA GivenNat ==
  ASSUME NEW p \in Nat, NEW q \in Nat, q > p, NEW R, RecordsIn(R, p), NEW v
  PROVE  /\ GivenFixed(v, R) \in [Users -> Nat] /\ GivenSlopes(v, R, q) \in [Users -> Nat]
         /\ GivenPowers(v, R, q) \in [Users -> Nat] /\ \A k : GivenEnding(v, R, k) \in [Users -> Nat]
<1>1. ASSUME NEW u \in Users
      PROVE  /\ Share(v, R[u], R[u].fixed_amount) \in Nat
             /\ Share(v, R[u], SlopeFrom(R[u], q)) \in Nat
             /\ Share(v, R[u], PowerFrom(R[u], q)) \in Nat
             /\ \A k : Share(v, R[u], EndingAt(R[u], k)) \in Nat
  <2> DEFINE r == R[u]
  <2>1. RecordOK(r, p)
    BY DEF RecordsIn
  <2> HIDE DEF r
  <2>2. /\ r.fixed_amount \in Nat /\ SlopeFrom(r, q) \in Nat /\ PowerFrom(r, q) \in Nat
        /\ \A k : EndingAt(r, k) \in Nat
    BY <2>1, RecordParts
  <2>3. \A a \in Nat : Share(v, r, a) \in Nat
    BY <2>1, ShareNat
  <2> QED
    BY <2>2, <2>3 DEF r
<1> QED
  BY <1>1 DEF GivenFixed, GivenSlopes, GivenPowers, GivenEnding

\* A record that gives a validator nothing from period q on.
Silent(v, r, q) ==
  /\ Share(v, r, r.fixed_amount) = 0
  /\ Share(v, r, SlopeFrom(r, q)) = 0 /\ Share(v, r, PowerFrom(r, q)) = 0
  /\ \A k \in Nat : k > q => Share(v, r, EndingAt(r, k)) = 0

LEMMA SilentElsewhere ==
  ASSUME NEW r, NEW q, NEW v, v \notin DOMAIN r.votes
  PROVE  Silent(v, r, q)
  BY DEF Silent, Share

\* Without power and a fixed part when it is made, a record has no slope to come.
LEMMA SilentWithoutPower ==
  ASSUME NEW p \in Nat, NEW r, RecordOK(r, p), r.vote_period = p,
         r.voting_power = 0, r.fixed_amount = 0, NEW v
  PROVE  Silent(v, r, p + 1)
<1> DEFINE q == p + 1
           s == r.slope
           e == r.lock_end
<1>1. s \in Nat /\ e \in Nat /\ 0 >= s * SatSub(e, p)
  BY DEF RecordOK
<1>2. q \in Nat /\ q > p /\ q = p + 1
  OBVIOUS
<1>3. SlopeFrom(r, q) = IF e >= q THEN s ELSE 0
  BY DEF SlopeFrom
<1>4. \A k : EndingAt(r, k) = IF e + 1 = k THEN s ELSE 0
  BY DEF EndingAt
<1>5. PowerFrom(r, q) = 0
  <2> DEFINE x == r.slope * ((q - 1) - r.vote_period)
  <2>1. PowerFrom(r, q) = 0 \/ PowerFrom(r, q) = SatSub(0, x)
    BY DEF PowerFrom
  <2>2. x \in Nat
    BY <1>1
  <2> HIDE DEF x
  <2>3. SatSub(0, x) = 0
    BY <2>2 DEF SatSub
  <2> QED
    BY <2>1, <2>3
<1> HIDE DEF q, s, e
<1>6. e > p => s = 0
  <2> SUFFICES ASSUME e > p, s # 0 PROVE FALSE
    OBVIOUS
  <2> DEFINE d == e - p
  <2>1. d \in Nat /\ d >= 1 /\ SatSub(e, p) = d
    BY <1>1 DEF SatSub
  <2> HIDE DEF d
  <2>2. s * d > 0
    BY <1>1, <2>1, SMT
  <2> QED
    BY <1>1, <2>1, <2>2
<1>7. SlopeFrom(r, q) = 0 /\ \A k \in Nat : k > q => EndingAt(r, k) = 0
  BY <1>1, <1>2, <1>3, <1>4, <1>6
<1>8. Share(v, r, 0) = 0
  BY ShareNat
<1>9. Silent(v, r, q)
  BY <1>5, <1>7, <1>8 DEF Silent
<1> QED
  BY <1>9 DEF q

\* Records that differ in what is silent give the validator the same.
LEMMA SilentAgrees ==
  ASSUME NEW q \in Nat, NEW R, NEW S, NEW user \in Users, \A u \in Users \ {user} : S[u] = R[u],
         NEW v, Silent(v, R[user], q), Silent(v, S[user], q),
         NEW g, NEW causes, VotesAgree(g, v, R, q, causes)
  PROVE  VotesAgree(g, v, S, q, causes)
<1>1. ASSUME NEW u \in Users
      PROVE  /\ Share(v, S[u], S[u].fixed_amount) = Share(v, R[u], R[u].fixed_amount)
             /\ Share(v, S[u], SlopeFrom(S[u], q)) = Share(v, R[u], SlopeFrom(R[u], q))
             /\ Share(v, S[u], PowerFrom(S[u], q)) = Share(v, R[u], PowerFrom(R[u], q))
             /\ \A k \in Nat : k > q =>
                  Share(v, S[u], EndingAt(S[u], k)) = Share(v, R[u], EndingAt(R[u], k))
  <2>1. CASE u = user
    BY <2>1 DEF Silent
  <2>2. CASE u # user
    <3>1. S[u] = R[u]
      BY <2>2
    <3> QED
      BY <3>1
  <2> QED
    BY <2>1, <2>2
<1>2. /\ GivenFixed(v, S) = GivenFixed(v, R) /\ GivenSlopes(v, S, q) = GivenSlopes(v, R, q)
      /\ GivenPowers(v, S, q) = GivenPowers(v, R, q)
  BY <1>1 DEF GivenFixed, GivenSlopes, GivenPowers
<1>3. \A k \in Nat : k > q => GivenEnding(v, S, k) = GivenEnding(v, R, k)
  BY <1>1 DEF GivenEnding
<1>4. /\ FixedAgrees(g, v, R, q) => FixedAgrees(g, v, S, q)
      /\ SlopesAgree(g, v, R, q) => SlopesAgree(g, v, S, q)
      /\ PowersAgree(g, v, R, q) => PowersAgree(g, v, S, q)
  BY <1>2, <1>3 DEF FixedAgrees, SlopesAgree, PowersAgree
<1> QED
  BY <1>4, Zenon DEF VotesAgree

\* The shares of one user are taken off a gauge with the user's record, or added to it.
LEMMA OneRecordMoves ==
  ASSUME NEW p \in Nat, NEW q \in Nat, q > p, NEW R, NEW S, RecordsIn(R, p), RecordsIn(S, p),
         NEW user \in Users, \A u \in Users \ {user} : S[u] = R[u], NEW v
  PROVE  /\ Silent(v, S[user], q) =>
              /\ Total(GivenFixed(v, S)) = SatSub(Total(GivenFixed(v, R)), Share(v, R[user], R[user].fixed_amount))
              /\ Total(GivenSlopes(v, S, q)) =
                   SatSub(Total(GivenSlopes(v, R, q)), Share(v, R[user], SlopeFrom(R[user], q)))
              /\ Total(GivenPowers(v, S, q)) =
                   SatSub(Total(GivenPowers(v, R, q)), Share(v, R[user], PowerFrom(R[user], q)))
              /\ \A k \in Nat : k > q =>
                   Total(GivenEnding(v, S, k)) =
                     SatSub(Total(GivenEnding(v, R, k)), Share(v, R[user], EndingAt(R[user], k)))
         /\ Silent(v, R[user], q) =>
              /\ Total(GivenFixed(v, S)) = Total(GivenFixed(v, R)) + Share(v, S[user], S[user].fixed_amount)
              /\ Total(GivenSlopes(v, S, q)) =
                   Total(GivenSlopes(v, R, q)) + Share(v, S[user], SlopeFrom(S[user], q))
              /\ Total(GivenPowers(v, S, q)) =
                   Total(GivenPowers(v, R, q)) + Share(v, S[user], PowerFrom(S[user], q))
              /\ \A k \in Nat : k > q =>
                   Total(GivenEnding(v, S, k)) = Total(GivenEnding(v, R, k)) + Share(v, S[user], EndingAt(S[user], k))
<1>1. /\ GivenFixed(v, R) \in [Users -> Nat] /\ GivenSlopes(v, R, q) \in [Users -> Nat]
      /\ GivenPowers(v, R, q) \in [Users -> Nat] /\ \A k : GivenEnding(v, R, k) \in [Users -> Nat]
  BY GivenNat
<1>2. /\ GivenFixed(v, S) \in [Users -> Nat] /\ GivenSlopes(v, S, q) \in [Users -> Nat]
      /\ GivenPowers(v, S, q) \in [Users -> Nat] /\ \A k : GivenEnding(v, S, k) \in [Users -> Nat]
  BY GivenNat
<1>3. \A u \in Users :
        /\ GivenFixed(v, R)[u] = Share(v, R[u], R[u].fixed_amount)
        /\ GivenFixed(v, S)[u] = Share(v, S[u], S[u].fixed_amount)
        /\ GivenSlopes(v, R, q)[u] = Share(v, R[u], SlopeFrom(R[u], q))
        /\ GivenSlopes(v, S, q)[u] = Share(v, S[u], SlopeFrom(S[u], q))
        /\ GivenPowers(v, R, q)[u] = Share(v, R[u], PowerFrom(R[u], q))
        /\ GivenPowers(v, S, q)[u] = Share(v, S[u], PowerFrom(S[u], q))
        /\ \A k : GivenEnding(v, R, k)[u] = Share(v, R[u], EndingAt(R[u], k))
        /\ \A k : GivenEnding(v, S, k)[u] = Share(v, S[u], EndingAt(S[u], k))
  BY DEF GivenFixed, GivenSlopes, GivenPowers, GivenEnding
<1>4. ASSUME NEW u \in Users \ {user}
      PROVE  /\ GivenFixed(v, S)[u] = GivenFixed(v, R)[u] /\ GivenSlopes(v, S, q)[u] = GivenSlopes(v, R, q)[u]
             /\ GivenPowers(v, S, q)[u] = GivenPowers(v, R, q)[u]
             /\ \A k : GivenEnding(v, S, k)[u] = GivenEnding(v, R, k)[u]
  <2>1. S[u] = R[u] /\ u \in Users
    OBVIOUS
  <2> QED
    BY <1>3, <2>1
<1>5. /\ GivenFixed(v, S)[user] = 0 => Total(GivenFixed(v, S)) = SatSub(Total(GivenFixed(v, R)), GivenFixed(v, R)[user])
      /\ GivenFixed(v, R)[user] = 0 => Total(GivenFixed(v, S)) = Total(GivenFixed(v, R)) + GivenFixed(v, S)[user]
  BY <1>1, <1>2, <1>4, OneUserMoves
<1>6. /\ GivenSlopes(v, S, q)[user] = 0 =>
           Total(GivenSlopes(v, S, q)) = SatSub(Total(GivenSlopes(v, R, q)), GivenSlopes(v, R, q)[user])
      /\ GivenSlopes(v, R, q)[user] = 0 =>
           Total(GivenSlopes(v, S, q)) = Total(GivenSlopes(v, R, q)) + GivenSlopes(v, S, q)[user]
  BY <1>1, <1>2, <1>4, OneUserMoves
<1>7. /\ GivenPowers(v, S, q)[user] = 0 =>
           Total(GivenPowers(v, S, q)) = SatSub(Total(GivenPowers(v, R, q)), GivenPowers(v, R, q)[user])
      /\ GivenPowers(v, R, q)[user] = 0 =>
           Total(GivenPowers(v, S, q)) = Total(GivenPowers(v, R, q)) + GivenPowers(v, S, q)[user]
  BY <1>1, <1>2, <1>4, OneUserMoves
<1>8. ASSUME NEW k
      PROVE  /\ GivenEnding(v, S, k)[user] = 0 =>
                  Total(GivenEnding(v, S, k)) = SatSub(Total(GivenEnding(v, R, k)), GivenEnding(v, R, k)[user])
             /\ GivenEnding(v, R, k)[user] = 0 =>
                  Total(GivenEnding(v, S, k)) = Total(GivenEnding(v, R, k)) + GivenEnding(v, S, k)[user]
  BY <1>1, <1>2, <1>4, OneUserMoves
<1>9. ASSUME Silent(v, S[user], q)
      PROVE  /\ GivenFixed(v, S)[user] = 0 /\ GivenSlopes(v, S, q)[user] = 0 /\ GivenPowers(v, S, q)[user] = 0
             /\ \A k \in Nat : k > q => GivenEnding(v, S, k)[user] = 0
  BY <1>3, <1>9 DEF Silent
<1>10. ASSUME Silent(v, R[user], q)
      PROVE  /\ GivenFixed(v, R)[user] = 0 /\ GivenSlopes(v, R, q)[user] = 0 /\ GivenPowers(v, R, q)[user] = 0
             /\ \A k \in Nat : k > q => GivenEnding(v, R, k)[user] = 0
  BY <1>3, <1>10 DEF Silent
<1> QED
  BY <1>3, <1>5, <1>6, <1>7, <1>8, <1>9, <1>10, Zenon

\* A record is taken off: what its user gives is silent afterwards.
LEMMA RemovalAgrees ==
  ASSUME NEW p \in Nat, NEW q \in Nat, q > p, NEW R, NEW S, RecordsIn(R, p), RecordsIn(S, p),
         NEW user \in Users, \A u \in Users \ {user} : S[u] = R[u], NEW v, Silent(v, S[user], q),
         NEW g, NEW causes, VotesAgree(g, v, R, q, causes), NEW e, GaugeTyped(e, q),
         fetch_last_validator_fixed_vamp_value(e, q) =
           SatSub(fetch_last_validator_fixed_vamp_value(g, q), Share(v, R[user], R[user].fixed_amount)),
         TakenOff(e, g, v, R[user], q)
  PROVE  VotesAgree(e, v, S, q, causes)
<1>1. /\ Total(GivenFixed(v, S)) = SatSub(Total(GivenFixed(v, R)), Share(v, R[user], R[user].fixed_amount))
      /\ Total(GivenSlopes(v, S, q)) = SatSub(Total(GivenSlopes(v, R, q)), Share(v, R[user], SlopeFrom(R[user], q)))
      /\ Total(GivenPowers(v, S, q)) = SatSub(Total(GivenPowers(v, R, q)), Share(v, R[user], PowerFrom(R[user], q)))
      /\ \A k \in Nat : k > q =>
           Total(GivenEnding(v, S, k)) = SatSub(Total(GivenEnding(v, R, k)), Share(v, R[user], EndingAt(R[user], k)))
  BY OneRecordMoves
<1>2. FixedAgrees(g, v, R, q) => FixedAgrees(e, v, S, q)
  BY <1>1, Zenon DEF FixedAgrees
<1>3. SlopesAgree(g, v, R, q) => SlopesAgree(e, v, S, q)
  BY <1>1, Zenon DEF SlopesAgree, TakenOff
<1>4. PowersAgree(g, v, R, q) => PowersAgree(e, v, S, q)
  <2> DEFINE a == get_validator_info(g, q).power
             b == get_validator_info(e, q).power
             c == Total(GivenPowers(v, R, q))
             d == Total(GivenPowers(v, S, q))
             x == Share(v, R[user], PowerFrom(R[user], q))
  <2>1. b = SatSub(a, x) /\ d = SatSub(c, x)
    BY <1>1 DEF TakenOff
  <2>2. a \in Nat /\ c \in Nat /\ x \in Nat
    <3>1. a \in Nat
      BY GaugeNumbers DEF VotesAgree
    <3>2. c \in Nat
      BY GivenNat, UsersTotal
    <3>3. x \in Nat
      <4>1. GivenPowers(v, R, q) \in [Users -> Nat]
        BY GivenNat
      <4>2. x = GivenPowers(v, R, q)[user]
        BY DEF GivenPowers
      <4> QED
        BY <4>1, <4>2
    <3> QED
      BY <3>1, <3>2, <3>3
  <2> HIDE DEF a, b, c, d, x
  <2>3. a >= c => b >= d
    BY <2>1, <2>2 DEF SatSub
  <2> QED
    BY <2>3, Zenon DEF PowersAgree, a, b, c, d
<1> QED
  BY <1>2, <1>3, <1>4, Zenon DEF VotesAgree

\* A record is added, that of a user whose votes gave nothing before.
LEMMA AdditionAgrees ==
  ASSUME NEW p \in Nat, NEW q \in Nat, q > p, NEW R, NEW S, RecordsIn(R, p), RecordsIn(S, p),
         NEW user \in Users, \A u \in Users \ {user} : S[u] = R[u], NEW v, Silent(v, R[user], q),
         NEW g, NEW causes, VotesAgree(g, v, R, q, causes), NEW e, GaugeTyped(e, q),
         fetch_last_validator_fixed_vamp_value(e, q) =
           fetch_last_validator_fixed_vamp_value(g, q) + Share(v, S[user], S[user].fixed_amount),
         NEW more, causes \subseteq more, more = {} => Added(e, g, v, S[user], q)
  PROVE  VotesAgree(e, v, S, q, more)
<1>1. /\ Total(GivenFixed(v, S)) = Total(GivenFixed(v, R)) + Share(v, S[user], S[user].fixed_amount)
      /\ Total(GivenSlopes(v, S, q)) = Total(GivenSlopes(v, R, q)) + Share(v, S[user], SlopeFrom(S[user], q))
      /\ Total(GivenPowers(v, S, q)) = Total(GivenPowers(v, R, q)) + Share(v, S[user], PowerFrom(S[user], q))
      /\ \A k \in Nat : k > q =>
           Total(GivenEnding(v, S, k)) = Total(GivenEnding(v, R, k)) + Share(v, S[user], EndingAt(S[user], k))
  BY OneRecordMoves
<1>2. FixedAgrees(g, v, R, q) => FixedAgrees(e, v, S, q)
  BY <1>1, Zenon DEF FixedAgrees
<1>3. SlopesAgree(g, v, R, q) /\ Added(e, g, v, S[user], q) => SlopesAgree(e, v, S, q)
  BY <1>1, Zenon DEF SlopesAgree, Added
<1>4. PowersAgree(g, v, R, q) /\ Added(e, g, v, S[user], q) => PowersAgree(e, v, S, q)
  <2> DEFINE a == get_validator_info(g, q).power
             b == get_validator_info(e, q).power
             c == Total(GivenPowers(v, R, q))
             d == Total(GivenPowers(v, S, q))
             x == Share(v, S[user], PowerFrom(S[user], q))
  <2>1. Added(e, g, v, S[user], q) => b >= a + x
    BY DEF Added
  <2>2. d = c + x
    BY <1>1
  <2>3. a \in Nat /\ b \in Nat /\ c \in Nat /\ x \in Nat
    <3>1. a \in Nat /\ b \in Nat
      BY GaugeNumbers DEF VotesAgree
    <3>2. c \in Nat
      BY GivenNat, UsersTotal
    <3>3. x \in Nat
      <4>1. GivenPowers(v, S, q) \in [Users -> Nat]
        BY GivenNat
      <4>2. x = GivenPowers(v, S, q)[user]
        BY DEF GivenPowers
      <4> QED
        BY <4>1, <4>2
    <3> QED
      BY <3>1, <3>2, <3>3
  <2> HIDE DEF a, b, c, d, x
  <2>4. a >= c /\ Added(e, g, v, S[user], q) => b >= d
    BY <2>1, <2>2, <2>3
  <2> QED
    BY <2>4, Zenon DEF PowersAgree, a, b, c, d
<1>5. (more = {} => causes = {}) /\ ("partial removal" \notin more => "partial removal" \notin causes)
  BY Zenon
<1> QED
  BY <1>2, <1>3, <1>4, <1>5, Zenon DEF VotesAgree

\* What is read the same agrees the same.
LEMMA ReadsAgree ==
  ASSUME NEW q, NEW R, NEW v, NEW g, NEW causes, VotesAgree(g, v, R, q, causes),
         NEW e, GaugeTyped(e, q), SameReads(e, g, q)
  PROVE  VotesAgree(e, v, R, q, causes)
<1>1. /\ FixedAgrees(g, v, R, q) => FixedAgrees(e, v, R, q)
      /\ SlopesAgree(g, v, R, q) => SlopesAgree(e, v, R, q)
      /\ PowersAgree(g, v, R, q) => PowersAgree(e, v, R, q)
  BY DEF SameReads, FixedAgrees, SlopesAgree, PowersAgree
<1> QED
  BY <1>1, Zenon DEF VotesAgree

\* From one period to the next, while nothing is saved.
LEMMA NextPeriodAgrees ==
  ASSUME NEW p \in Nat, NEW q \in Nat, q > p, NEW R, RecordsIn(R, p), NEW v,
         NEW g, NEW next \in Nat, GaugeTyped(g, next), next <= q,
         SlopesAgree(g, v, R, q), PowersAgree(g, v, R, q)
  PROVE  SlopesAgree(g, v, R, q + 1) /\ PowersAgree(g, v, R, q + 1)
<1> DEFINE n == q + 1
           A == get_validator_info(g, q)
           B == get_validator_info(g, n)
           c == At(g.changes, n)
           SQ == GivenSlopes(v, R, q)
           SN == GivenSlopes(v, R, n)
           PQ == GivenPowers(v, R, q)
           PN == GivenPowers(v, R, n)
           EN == GivenEnding(v, R, n)
           PS == [u \in Users |-> PN[u] + SQ[u]]
<1>1. n \in Nat /\ n > p /\ n > q
  OBVIOUS
<1>2. A \in GaugePoints /\ c \in Nat /\ B = NextPoint(A, c, n)
  <2>1. q + 1 \notin DOMAIN g.votes
    BY GaugeFields DEF GaugeTyped
  <2>2. B = NextPoint(A, c, n)
    BY <2>1, InfoNext
  <2>3. A \in GaugePoints
    BY InfoType
  <2>4. c \in Nat
    BY GaugeFields, AtNat DEF GaugeTyped
  <2> QED
    BY <2>2, <2>3, <2>4
<1>3. \A u \in Users :
        /\ SQ[u] = Share(v, R[u], SlopeFrom(R[u], q)) /\ SN[u] = Share(v, R[u], SlopeFrom(R[u], n))
        /\ PQ[u] = Share(v, R[u], PowerFrom(R[u], q)) /\ PN[u] = Share(v, R[u], PowerFrom(R[u], n))
        /\ EN[u] = Share(v, R[u], EndingAt(R[u], n))
  BY DEF GivenSlopes, GivenPowers, GivenEnding
<1>4. /\ SQ \in [Users -> Nat] /\ PQ \in [Users -> Nat]
      /\ SN \in [Users -> Nat] /\ PN \in [Users -> Nat] /\ EN \in [Users -> Nat]
  <2>1. SQ \in [Users -> Nat] /\ PQ \in [Users -> Nat] /\ EN \in [Users -> Nat]
    BY GivenNat
  <2> HIDE DEF n
  <2>2. SN \in [Users -> Nat] /\ PN \in [Users -> Nat]
    BY <1>1, GivenNat
  <2> QED
    BY <2>1, <2>2
<1>5. A.slope = Total(SQ) /\ c = Total(EN) /\ A.power >= Total(PQ)
  BY <1>1 DEF SlopesAgree, PowersAgree
<1>6. ASSUME NEW u \in Users
      PROVE  SQ[u] = SN[u] + EN[u] /\ PQ[u] >= PN[u] + SQ[u]
  <2> DEFINE r == R[u]
  <2>1. RecordOK(r, p)
    BY DEF RecordsIn
  <2> HIDE DEF r
  <2>2. /\ PowerFrom(r, q) >= PowerFrom(r, n) + SlopeFrom(r, q)
        /\ \/ SlopeFrom(r, n) = 0 /\ EndingAt(r, n) = SlopeFrom(r, q)
           \/ EndingAt(r, n) = 0 /\ SlopeFrom(r, n) = SlopeFrom(r, q)
    BY <2>1, RecordDecays
  <2>3. /\ SlopeFrom(r, q) \in Nat /\ PowerFrom(r, q) \in Nat
    BY <2>1, RecordParts
  <2> HIDE DEF n
  <2>4. PowerFrom(r, n) \in Nat
    BY <1>1, <2>1, RecordParts
  <2>5. Share(v, r, PowerFrom(r, q)) >= Share(v, r, PowerFrom(r, n)) + Share(v, r, SlopeFrom(r, q))
    BY <2>1, <2>2, <2>3, <2>4, ShareParts
  <2>6. Share(v, r, 0) = 0 /\ Share(v, r, SlopeFrom(r, q)) \in Nat
    BY <2>1, <2>3, ShareNat
  <2>7. Share(v, r, SlopeFrom(r, q)) = Share(v, r, SlopeFrom(r, n)) + Share(v, r, EndingAt(r, n))
    BY <2>2, <2>6
  <2> QED
    BY <1>3, <2>5, <2>7 DEF r
<1> HIDE DEF n, A, B, c, SQ, SN, PQ, PN, EN
<1>7. /\ Total(SQ) \in Nat /\ Total(SN) \in Nat /\ Total(EN) \in Nat
      /\ Total(PQ) \in Nat /\ Total(PN) \in Nat
  BY <1>4, UsersTotal
<1>8. Total(SQ) = Total(SN) + Total(EN)
  BY <1>4, <1>6, UsersAdd
<1>9. Total(PQ) >= Total(PN) + Total(SQ)
  <2>1. PS \in [Users -> Nat] /\ \A u \in Users : PS[u] = PN[u] + SQ[u]
    BY <1>4
  <2> HIDE DEF PS
  <2>2. Total(PS) = Total(PN) + Total(SQ)
    BY <1>4, <2>1, UsersAdd
  <2>3. \A u \in Users : PS[u] <= PQ[u]
    BY <1>4, <1>6, <2>1
  <2>4. Total(PS) <= Total(PQ)
    BY <1>4, <2>1, <2>3, UsersMono
  <2> QED
    BY <1>7, <2>2, <2>4
<1>10. B.slope = SatSub(A.slope, c) /\ B.power = SatSub(A.power, A.slope)
  <2>1. A \in GaugePoints /\ c \in Nat /\ n \in Nat
    BY <1>1, <1>2
  <2>2. NextPoint(A, c, n).slope = SatSub(A.slope, c)
    BY <2>1, NextGaugeNumbers
  <2>3. NextPoint(A, c, n).power = SatSub(A.power, A.slope)
    BY <2>1, NextGaugeNumbers
  <2> QED
    BY <1>2, <2>2, <2>3
<1>11. B.slope = Total(SN)
  BY <1>5, <1>7, <1>8, <1>10 DEF SatSub
<1>12. B.power >= Total(PN)
  <2>1. A.power \in Nat
    BY <1>2 DEF GaugePoints
  <2> QED
    BY <1>5, <1>7, <1>9, <1>10, <2>1 DEF SatSub
<1>13. \A k \in Nat : k > n => At(g.changes, k) = Total(GivenEnding(v, R, k))
  <2> TAKE k \in Nat
  <2>1. k > n => k > q
    BY <1>1
  <2> QED
    BY <2>1 DEF SlopesAgree
<1> QED
  BY <1>11, <1>12, <1>13 DEF SlopesAgree, PowersAgree, B, SN, PN, n

\* What agrees still does when periods pass, however many.
LEMMA WaitAgrees ==
  ASSUME NEW p \in Nat, NEW p2 \in Nat, p <= p2, NEW R, RecordsIn(R, p), NEW v, NEW g, NEW causes,
         VotesAgree(g, v, R, p + 1, causes)
  PROVE  VotesAgree(g, v, R, p2 + 1, causes)
<1> DEFINE q  == p + 1
           q2 == p2 + 1
<1>1. q \in Nat /\ q2 \in Nat /\ q <= q2 /\ q > p
  OBVIOUS
<1>2. VotesAgree(g, v, R, q, causes)
  OBVIOUS
<1> HIDE DEF q, q2
<1>3. GaugeTyped(g, q)
  BY <1>2 DEF VotesAgree
<1>4. /\ DOMAIN g.votes \subseteq Nat /\ DOMAIN g.fixed \subseteq Nat
      /\ \A k \in DOMAIN g.fixed : k <= q /\ k <= q2
      /\ \A k \in DOMAIN g.votes : k <= q2
  BY <1>1, <1>3, GaugeFields DEF GaugeTyped
<1>5. GaugeTyped(g, q2)
  BY <1>3, <1>4 DEF GaugeTyped
<1>6. FixedAgrees(g, v, R, q) => FixedAgrees(g, v, R, q2)
  <2>1. KeysUpTo(g.fixed, q2) = KeysUpTo(g.fixed, q)
    BY <1>4 DEF KeysUpTo
  <2>2. LastKey(g.fixed, q2) = LastKey(g.fixed, q)
    BY <2>1, Zenon DEF LastKey
  <2>3. fetch_last_validator_fixed_vamp_value(g, q2) = fetch_last_validator_fixed_vamp_value(g, q)
    BY <2>1, <2>2 DEF fetch_last_validator_fixed_vamp_value
  <2> QED
    BY <2>3, Zenon DEF FixedAgrees
<1>7. ASSUME SlopesAgree(g, v, R, q), PowersAgree(g, v, R, q)
      PROVE  SlopesAgree(g, v, R, q2) /\ PowersAgree(g, v, R, q2)
  <2> DEFINE Good == {n \in q..q2 : SlopesAgree(g, v, R, n) /\ PowersAgree(g, v, R, n)}
  <2>1. q \in Good
    BY <1>1, <1>7
  <2>2. ASSUME NEW n \in (q + 1)..q2, n - 1 \in Good PROVE n \in Good
    <3> DEFINE m == n - 1
    <3>1. m \in Nat /\ q <= m /\ m > p /\ m + 1 = n /\ n \in q..q2
      BY <1>1
    <3>2. SlopesAgree(g, v, R, m) /\ PowersAgree(g, v, R, m)
      BY <2>2
    <3> HIDE DEF m
    <3>3. SlopesAgree(g, v, R, m + 1) /\ PowersAgree(g, v, R, m + 1)
      BY <1>1, <1>3, <3>1, <3>2, NextPeriodAgrees
    <3>4. SlopesAgree(g, v, R, n) /\ PowersAgree(g, v, R, n)
      BY <3>1, <3>3, Zenon
    <3> QED
      BY <3>1, <3>4
  <2> HIDE DEF Good
  <2>3. \A n \in q..q2 : n \in Good
    BY <1>1, <2>1, <2>2, UpTo
  <2>4. q2 \in Good
    BY <1>1, <2>3
  <2> QED
    BY <2>4 DEF Good
<1>8. VotesAgree(g, v, R, q2, causes)
  BY <1>2, <1>5, <1>6, <1>7, Zenon DEF VotesAgree
<1> QED
  BY <1>8 DEF q2

LEMMA MoreCauses ==
  ASSUME NEW q, NEW R, NEW v, NEW g, NEW causes, VotesAgree(g, v, R, q, causes),
         NEW more, causes \subseteq more
  PROVE  VotesAgree(g, v, R, q, more)
<1>1. (more = {} => causes = {}) /\ ("partial removal" \notin more => "partial removal" \notin causes)
  BY Zenon
<1> QED
  BY <1>1, Zenon DEF VotesAgree

LEMMA NoVotesOK ==
  ASSUME NEW p \in Nat
  PROVE  RecordOK(NoVotes, p) /\ DOMAIN NoVotes.votes = {}
<1>1. 0 * SatSub(0, 0) = 0
  BY DEF SatSub
<1> QED
  BY <1>1 DEF RecordOK, NoVotes

\* The record of one user replaced by that of a user without votes.
Cleared(R, M, user) == M[user] = NoVotes /\ \A u \in Users \ {user} : M[u] = R[u]

\* remove_votes_of_user, for one validator.
LEMMA VotesRemoved ==
  ASSUME Period \in Nat, NEW R, NEW M, RecordsIn(R, Period), RecordsIn(M, Period),
         NEW user \in Users, Cleared(R, M, user), NEW v, NEW g, NEW causes,
         VotesAgree(g, v, R, Period + 1, causes)
  PROVE  VotesAgree(IF v \in DOMAIN R[user].votes THEN RemoveVotes(g, v, R[user]) ELSE g,
                    v, M, Period + 1, causes)
<1> DEFINE p == Period
           q == p + 1
           r == R[user]
           e == RemoveVotes(g, v, r)
<1>1. /\ p \in Nat /\ q \in Nat /\ q > p /\ RecordsIn(R, p) /\ RecordsIn(M, p)
      /\ VotesAgree(g, v, R, q, causes) /\ GaugeTyped(g, q) /\ RecordOK(r, p)
  <2>1. GaugeTyped(g, q)
    BY Zenon DEF VotesAgree
  <2>2. RecordOK(r, p)
    BY DEF RecordsIn
  <2> QED
    BY <2>1, <2>2
<1>2. Silent(v, M[user], q) /\ \A u \in Users \ {user} : M[u] = R[u]
  <2>1. v \notin DOMAIN M[user].votes
    BY NoVotesOK DEF Cleared
  <2>2. Silent(v, M[user], q)
    BY <2>1, SilentElsewhere
  <2> QED
    BY <2>2 DEF Cleared
<1>3. CASE v \in DOMAIN r.votes
  <2>1. /\ GaugeTyped(e, q)
        /\ fetch_last_validator_fixed_vamp_value(e, q) =
             SatSub(fetch_last_validator_fixed_vamp_value(g, q), Share(v, r, r.fixed_amount))
        /\ TakenOff(e, g, v, r, q)
    BY <1>1, <1>3, RemoveVotesIs
  <2> HIDE DEF p, q, e
  <2>2. VotesAgree(e, v, M, q, causes)
    BY <1>1, <1>2, <2>1, RemovalAgrees
  <2> QED
    BY <1>3, <2>2 DEF p, q, e
<1>4. CASE v \notin DOMAIN r.votes
  <2>1. Silent(v, R[user], q)
    BY <1>4, SilentElsewhere
  <2> HIDE DEF p, q, r
  <2>2. VotesAgree(g, v, M, q, causes)
    BY <1>1, <1>2, <2>1, SilentAgrees
  <2> QED
    BY <1>4, <2>2 DEF p, q, r
<1> QED
  BY <1>3, <1>4

\* apply_votest_of_user, for one validator.
LEMMA VotesApplied ==
  ASSUME Period \in Nat, NEW M, NEW S, RecordsIn(M, Period), RecordsIn(S, Period),
         NEW user \in Users, Cleared(S, M, user), NEW v, NEW g, NEW causes,
         VotesAgree(g, v, M, Period + 1, causes), NEW more, causes \subseteq more, NEW counts \in BOOLEAN,
         counts /\ more = {} => S[user].lock_end > Period \/ S[user].slope = 0,
         ~ counts => Silent(v, S[user], Period + 1)
  PROVE  VotesAgree(IF counts /\ v \in DOMAIN S[user].votes THEN ApplyVotes(g, v, S[user]) ELSE g,
                    v, S, Period + 1, more)
<1> DEFINE p == Period
           q == p + 1
           r == S[user]
           e == ApplyVotes(g, v, r)
<1>1. /\ p \in Nat /\ q \in Nat /\ q > p /\ RecordsIn(S, p) /\ RecordsIn(M, p)
      /\ VotesAgree(g, v, M, q, causes) /\ GaugeTyped(g, q) /\ RecordOK(r, p)
  <2>1. GaugeTyped(g, q)
    BY Zenon DEF VotesAgree
  <2>2. RecordOK(r, p)
    BY DEF RecordsIn
  <2> QED
    BY <2>1, <2>2
<1>2. Silent(v, M[user], q) /\ \A u \in Users \ {user} : S[u] = M[u]
  <2>1. v \notin DOMAIN M[user].votes
    BY NoVotesOK DEF Cleared
  <2>2. Silent(v, M[user], q)
    BY <2>1, SilentElsewhere
  <2> QED
    BY <2>2 DEF Cleared
<1>3. CASE counts /\ v \in DOMAIN r.votes
  <2>1. /\ GaugeTyped(e, q)
        /\ fetch_last_validator_fixed_vamp_value(e, q) =
             fetch_last_validator_fixed_vamp_value(g, q) + Share(v, r, r.fixed_amount)
        /\ r.lock_end > p \/ r.slope = 0 => Added(e, g, v, r, q)
    BY <1>1, <1>3, ApplyVotesIs
  <2>2. more = {} => Added(e, g, v, r, q)
    BY <1>3, <2>1
  <2> HIDE DEF p, q, e
  <2>3. VotesAgree(e, v, S, q, more)
    BY <1>1, <1>2, <2>1, <2>2, AdditionAgrees
  <2> QED
    BY <1>3, <2>3 DEF p, q, e
<1>4. CASE ~ (counts /\ v \in DOMAIN r.votes)
  <2>1. Silent(v, S[user], q)
    <3>1. CASE counts
      BY <1>4, <3>1, SilentElsewhere
    <3>2. CASE ~ counts
      BY <3>2
    <3> QED
      BY <3>1, <3>2
  <2> HIDE DEF p, q, r
  <2>2. VotesAgree(g, v, S, q, causes)
    BY <1>1, <1>2, <2>1, SilentAgrees
  <2>3. VotesAgree(g, v, S, q, more)
    BY <2>2, MoreCauses
  <2> QED
    BY <1>4, <2>3 DEF p, q, r
<1> QED
  BY <1>3, <1>4

-----------------------------------------------------------------------------
(* The gauges in every step.                                               *)

\* The records of all users, those that have not voted included.
Records == [u \in Users |-> RecordedVotes(u)]

\* The votes recorded are for validators.
VotesListed ==
  \A u \in DOMAIN user_info :
    /\ DOMAIN user_info[u].votes \subseteq Validators
    /\ \A v \in DOMAIN user_info[u].votes : user_info[u].votes[v] \in Nat

RecordsOK == RecordsIn(Records, Period)

\* The invariant of the gauges: each agrees with the records from the next period on.
GaugesAgree == \A v \in Validators : VotesAgree(gauge[v], v, Records, Period + 1, spoiled)

\* The power of a point lasts until the lock ends.
LEMMA PowerLasts ==
  ASSUME NEW pt \in Points, NEW end \in Nat, NEW p \in Nat, pt.start <= p,
         pt.power >= pt.slope * SatSub(pt.end, pt.start), pt.slope > 0 => pt.end = end
  PROVE  calc_voting_power(pt, p) >= pt.slope * SatSub(end, p)
<1> DEFINE s == pt.slope
           a == p - pt.start
           b == SatSub(end, p)
<1>1. s \in Nat /\ pt.power \in Nat /\ pt.end \in Nat /\ pt.start \in Nat /\ a \in Nat /\ b \in Nat
  BY DEF Points, SatSub
<1>2. calc_voting_power(pt, p) = SatSub(pt.power, s * a)
  BY DEF calc_voting_power
<1>3. calc_voting_power(pt, p) \in Nat
  BY VotingPowerNat
<1>4. CASE s = 0
  <2>1. s * b = 0
    BY <1>1, <1>4
  <2> QED
    BY <1>3, <2>1
<1>5. CASE b = 0
  <2>1. s * b = 0
    BY <1>1, <1>5
  <2> QED
    BY <1>3, <2>1
<1>6. CASE s > 0 /\ b > 0
  <2>1. pt.end = end /\ end > p /\ b = end - p
    BY <1>6 DEF SatSub
  <2>2. SatSub(pt.end, pt.start) = a + b
    BY <1>1, <2>1 DEF SatSub
  <2> HIDE DEF a, b, s
  <2>3. s * (a + b) = s * a + s * b /\ s * a \in Nat /\ s * b \in Nat
    BY <1>1, SMT
  <2>4. pt.power >= s * a + s * b
    BY <2>2, <2>3 DEF s
  <2> QED
    BY <1>1, <1>2, <2>3, <2>4 DEF SatSub, s, b
<1> QED
  BY <1>1, <1>4, <1>5, <1>6

\* What is recorded of a voter is a record that lasts.
LEMMA RecordsAreOK ==
  ASSUME VotersInv, VotesListed
  PROVE  RecordsOK
<1>1. Period \in Nat
  BY PeriodsNat DEF VotersInv, EscrowInv, EscrowTypeOK, Period
<1>2. ASSUME NEW u \in Users, u \in DOMAIN user_info
      PROVE  RecordOK(user_info[u], Period)
  <2> DEFINE pt  == point[u]
             end == locked[u].end
  <2>1. pt \in Points /\ end \in Nat
    BY DEF VotersInv, EscrowInv, EscrowTypeOK
  <2>2. UserInv(u) /\ VoterFollows(u)
    BY <1>2 DEF VotersInv, EscrowInv
  <2>3. /\ pt.power >= pt.slope * SatSub(pt.end, pt.start)
        /\ pt.slope > 0 => pt.end = end
    <3>1. pt.power >= pt.slope * SatSub(pt.end, pt.start) /\ (pt.fixed = 0 => pt.slope = 0)
      BY <2>2, Zenon DEF UserInv, OnItsLine
    <3>2. \/ pt.slope = 0
          \/ pt.fixed = locked[u].amount /\ (locked[u].amount > 0 => pt.end = end)
      BY <2>2, Zenon DEF UserInv
    <3>3. pt.slope \in Nat /\ pt.fixed \in Nat
      BY <2>1 DEF Points
    <3> QED
      BY <3>1, <3>2, <3>3
  <2> DEFINE r == user_info[u]
  <2>4. /\ r.slope = pt.slope /\ r.fixed_amount = pt.fixed /\ r.lock_end = end
        /\ r.vote_period \in Nat /\ pt.start <= r.vote_period /\ r.vote_period <= Period
        /\ r.voting_power = calc_voting_power(pt, r.vote_period)
    BY <2>2 DEF VoterFollows
  <2>5. DOMAIN r.votes \subseteq Validators /\ \A v \in DOMAIN r.votes : r.votes[v] \in Nat
    BY <1>2 DEF VotesListed
  <2> HIDE DEF pt, end, r
  <2>6. r.voting_power \in Nat
    BY <2>1, <2>4, VotingPowerNat
  <2>7. r.voting_power >= r.slope * SatSub(r.lock_end, r.vote_period)
    BY <2>1, <2>3, <2>4, PowerLasts
  <2>8. r.slope \in Nat /\ r.fixed_amount \in Nat
    BY <2>1, <2>4 DEF Points
  <2> QED
    BY <2>1, <2>4, <2>5, <2>6, <2>7, <2>8 DEF RecordOK, r
<1>3. ASSUME NEW u \in Users PROVE RecordOK(RecordedVotes(u), Period)
  <2>1. CASE u \in DOMAIN user_info
    BY <1>2, <2>1 DEF RecordedVotes
  <2>2. CASE u \notin DOMAIN user_info
    BY <1>1, <2>2, NoVotesOK DEF RecordedVotes
  <2> QED
    BY <2>1, <2>2
<1> QED
  BY <1>3 DEF RecordsOK, RecordsIn, Records

\* remove_votes_of_user followed by apply_votest_of_user leave gauges that agree.
LEMMA ReplaceAgrees ==
  ASSUME GaugesAgree, RecordsOK, RecordsOK', Period \in Nat, Period' = Period,
         NEW user \in Users, NEW info, NEW counts \in BOOLEAN, ReplaceVotes(user, info, counts),
         info.vote_period = Period, ~ counts => ~ info.voting_power + info.fixed_amount > 0
  PROVE  GaugesAgree'
<1>1. PICK R : R = Records
  OBVIOUS
<1>2. PICK S : S = Records'
  OBVIOUS
<1>3. PICK more : more = spoiled'
  OBVIOUS
<1> DEFINE M   == [R EXCEPT ![user] = NoVotes]
           p   == Period
           old == R[user]
<1>4. user_info' = Put(user_info, user, info)
  BY DEF ReplaceVotes
<1>5. S[user] = info /\ \A u \in Users \ {user} : S[u] = R[u]
  <2>1. DOMAIN user_info' = DOMAIN user_info \cup {user} /\ user_info'[user] = info
    BY <1>4 DEF Put
  <2>2. \A u \in DOMAIN user_info \ {user} : user_info'[u] = user_info[u]
    BY <1>4 DEF Put
  <2>3. \A u \in Users : S[u] = IF u \in DOMAIN user_info' THEN user_info'[u] ELSE NoVotes
    BY <1>2 DEF Records, RecordedVotes
  <2>4. \A u \in Users : R[u] = IF u \in DOMAIN user_info THEN user_info[u] ELSE NoVotes
    BY <1>1 DEF Records, RecordedVotes
  <2> QED
    BY <2>1, <2>2, <2>3, <2>4
<1>6. M[user] = NoVotes /\ \A u \in Users \ {user} : M[u] = R[u]
  BY <1>1 DEF Records
<1> HIDE DEF M
<1>7. RecordsIn(R, p) /\ RecordsIn(S, p) /\ RecordsIn(M, p)
  <2>1. RecordsIn(R, p)
    BY <1>1 DEF RecordsOK
  <2>2. RecordsIn(S, p)
    BY <1>2 DEF RecordsOK
  <2>3. RecordOK(NoVotes, p)
    BY NoVotesOK
  <2>4. RecordsIn(M, p)
    BY <1>6, <2>1, <2>3 DEF RecordsIn
  <2> QED
    BY <2>1, <2>2, <2>4
<1>8. Cleared(R, M, user) /\ Cleared(S, M, user)
  BY <1>5, <1>6 DEF Cleared
<1>9. spoiled \subseteq more
  BY <1>3 DEF ReplaceVotes
<1>10. counts /\ more = {} => info.lock_end > p \/ info.slope = 0
  <2> SUFFICES ASSUME counts, more = {} PROVE info.lock_end > p \/ info.slope = 0
    OBVIOUS
  <2>1. ~ (info.lock_end <= p /\ info.slope > 0)
    BY <1>3, Zenon DEF ReplaceVotes
  <2>2. RecordOK(info, p)
    BY <1>5, <1>7 DEF RecordsIn
  <2>3. info.lock_end \in Nat /\ info.slope \in Nat
    BY <2>2 DEF RecordOK
  <2> HIDE DEF p
  <2>4. p \in Nat
    BY DEF p
  <2> QED
    BY <2>1, <2>3, <2>4
<1>11. ASSUME ~ counts, NEW v PROVE Silent(v, info, p + 1)
  <2>1. RecordOK(info, p)
    BY <1>5, <1>7 DEF RecordsIn
  <2>2. info.voting_power \in Nat /\ info.fixed_amount \in Nat
    BY <2>1 DEF RecordOK
  <2>3. info.voting_power = 0 /\ info.fixed_amount = 0
    BY <1>11, <2>2
  <2> QED
    BY <2>1, <2>3, SilentWithoutPower
<1>12. ASSUME NEW v \in Validators PROVE VotesAgree(gauge'[v], v, S, p + 1, more)
  <2> DEFINE g  == gauge[v]
             g1 == IF v \in DOMAIN old.votes THEN RemoveVotes(g, v, old) ELSE g
             g2 == IF counts /\ v \in DOMAIN info.votes THEN ApplyVotes(g1, v, info) ELSE g1
             touched == DOMAIN old.votes \cup (IF counts THEN DOMAIN info.votes ELSE {})
  <2>1. old = RecordedVotes(user)
    BY <1>1 DEF Records
  <2>2. gauge'[v] = IF v \in touched THEN Settle(g2) ELSE g
    BY <2>1 DEF ReplaceVotes
  <2>3. VotesAgree(g, v, R, Period + 1, spoiled)
    BY <1>1 DEF GaugesAgree
  <2> HIDE DEF g
  <2>4. VotesAgree(g1, v, M, Period + 1, spoiled)
    BY <1>7, <1>8, <2>3, VotesRemoved
  <2>5. g2 = IF counts /\ v \in DOMAIN S[user].votes THEN ApplyVotes(g1, v, S[user]) ELSE g1
    BY <1>5
  <2>6. v \notin touched => g2 = g
    OBVIOUS
  <2> HIDE DEF g1, g2, touched
  <2>7. VotesAgree(g2, v, S, Period + 1, more)
    <3>1. counts /\ more = {} => S[user].lock_end > Period \/ S[user].slope = 0
      BY <1>5, <1>10
    <3>2. ~ counts => Silent(v, S[user], Period + 1)
      BY <1>5, <1>11
    <3> QED
      BY <1>7, <1>8, <1>9, <2>4, <2>5, <3>1, <3>2, VotesApplied
  <2>8. VotesAgree(Settle(g2), v, S, Period + 1, more)
    <3>1. GaugeTyped(g2, Period + 1)
      BY <2>7, Zenon DEF VotesAgree
    <3>2. GaugeTyped(Settle(g2), Period + 1) /\ SameReads(Settle(g2), g2, Period + 1)
      BY <3>1, SettleReads
    <3> QED
      BY <2>7, <3>2, ReadsAgree
  <2> QED
    BY <2>2, <2>6, <2>7, <2>8
<1>13. \A v \in Validators : VotesAgree(gauge'[v], v, S, Period' + 1, more)
  BY <1>12
<1> QED
  BY <1>2, <1>3, <1>13, Zenon DEF GaugesAgree

\* What is settled after it agreed agrees.
LEMMA SettledAgrees ==
  ASSUME Period \in Nat, NEW R, NEW v, NEW g, NEW causes, VotesAgree(g, v, R, Period + 1, causes)
  PROVE  VotesAgree(Settle(g), v, R, Period + 1, causes)
<1>1. GaugeTyped(g, Period + 1)
  BY Zenon DEF VotesAgree
<1>2. GaugeTyped(Settle(g), Period + 1) /\ SameReads(Settle(g), g, Period + 1)
  BY <1>1, SettleReads
<1> QED
  BY <1>2, ReadsAgree

\* remove_user, whether or not all votes could be taken off.
LEMMA RemoveAgrees ==
  ASSUME GaugesAgree, RecordsOK, RecordsOK', Period \in Nat, Period' = Period,
         NEW user \in Users, remove_user(user)
  PROVE  GaugesAgree'
<1>1. PICK R : R = Records
  OBVIOUS
<1>2. PICK S : S = Records'
  OBVIOUS
<1>3. PICK more : more = spoiled'
  OBVIOUS
<1> DEFINE p      == Period
           info   == user_info[user]
           failed == {v \in DOMAIN info.votes : ~ CanRemoveVotes(v, info)}
<1>4. user \in DOMAIN user_info /\ user_info' = Without(user_info, user)
  BY DEF remove_user
<1>5. Cleared(R, S, user) /\ R[user] = info
  <2>1. /\ DOMAIN user_info' = DOMAIN user_info \ {user}
        /\ \A u \in DOMAIN user_info \ {user} : user_info'[u] = user_info[u]
    BY <1>4, WithoutMap
  <2>2. \A u \in Users : S[u] = IF u \in DOMAIN user_info' THEN user_info'[u] ELSE NoVotes
    BY <1>2 DEF Records, RecordedVotes
  <2>3. \A u \in Users : R[u] = IF u \in DOMAIN user_info THEN user_info[u] ELSE NoVotes
    BY <1>1 DEF Records, RecordedVotes
  <2> QED
    BY <1>4, <2>1, <2>2, <2>3 DEF Cleared
<1>6. RecordsIn(R, p) /\ RecordsIn(S, p)
  BY <1>1, <1>2 DEF RecordsOK
<1>7. RecordOK(info, p)
  BY <1>5, <1>6 DEF RecordsIn
<1>8. PICK done \in SUBSET (DOMAIN info.votes \ failed), halted \in SUBSET failed :
        /\ failed = {} => done = DOMAIN info.votes
        /\ gauge' = [v \in Validators |->
                       IF v \in done THEN Settle(RemoveVotes(gauge[v], v, info))
                       ELSE IF v \in halted /\ HasFixedVotes(v, info)
                       THEN remove_fixed_vamp(gauge[v], Period + 1,
                                              BpsMul(info.votes[v], info.fixed_amount))
                       ELSE gauge[v]]
  BY DEF remove_user
<1>9. spoiled \subseteq more /\ (failed # {} => "partial removal" \in more)
  BY <1>3, Zenon DEF remove_user
<1>10. \A v \in Validators : VotesAgree(gauge[v], v, R, Period + 1, spoiled)
  BY <1>1 DEF GaugesAgree
<1>11. ASSUME NEW v \in Validators PROVE VotesAgree(gauge'[v], v, S, p + 1, more)
  <2> DEFINE g == gauge[v]
             e == RemoveVotes(g, v, info)
             h == remove_fixed_vamp(g, Period + 1, BpsMul(info.votes[v], info.fixed_amount))
  <2>1. gauge'[v] = IF v \in done THEN Settle(e)
                    ELSE IF v \in halted /\ HasFixedVotes(v, info) THEN h ELSE g
    BY <1>8
  <2>2. VotesAgree(g, v, R, Period + 1, spoiled)
    BY <1>10
  <2>3. GaugeTyped(g, Period + 1)
    BY <2>2, Zenon DEF VotesAgree
  <2> HIDE DEF g
  <2>4. CASE failed = {}
    <3> DEFINE g1 == IF v \in DOMAIN R[user].votes THEN RemoveVotes(g, v, R[user]) ELSE g
    <3>1. VotesAgree(g1, v, S, Period + 1, spoiled)
      BY <1>5, <1>6, <2>2, VotesRemoved
    <3>2. v \in DOMAIN info.votes => g1 = e /\ gauge'[v] = Settle(e)
      BY <1>5, <1>8, <2>1, <2>4
    <3>3. v \notin DOMAIN info.votes => g1 = g /\ gauge'[v] = g
      BY <1>5, <1>8, <2>1, <2>4
    <3> HIDE DEF g1
    <3>4. VotesAgree(Settle(g1), v, S, Period + 1, spoiled)
      BY <3>1, SettledAgrees
    <3>5. VotesAgree(gauge'[v], v, S, Period + 1, spoiled)
      BY <3>1, <3>2, <3>3, <3>4
    <3> QED
      BY <1>9, <3>5, MoreCauses
  <2>5. CASE failed # {}
    <3>1. ASSUME v \in DOMAIN info.votes
          PROVE  GaugeTyped(Settle(e), Period + 1) /\ GaugeTyped(h, Period + 1)
      <4>1. GaugeTyped(e, Period + 1)
        BY <1>7, <2>3, <3>1, RemoveVotesIs
      <4>2. GaugeTyped(Settle(e), Period + 1)
        BY <4>1, SettleReads
      <4>3. BpsMul(info.votes[v], info.fixed_amount) \in Nat
        <5>1. info.votes[v] \in Nat /\ info.fixed_amount \in Nat
          BY <1>7, <3>1 DEF RecordOK
        <5> QED
          BY <5>1, BpsNat
      <4>4. GaugeTyped(h, Period + 1)
        <5> DEFINE n == BpsMul(info.votes[v], info.fixed_amount)
                   q == Period + 1
        <5>1. n \in Nat /\ q \in Nat /\ GaugeTyped(g, q)
          BY <2>3, <4>3
        <5>2. h = remove_fixed_vamp(g, q, n)
          OBVIOUS
        <5> HIDE DEF n, h, q
        <5>3. GaugeTyped(h, q)
          BY <5>1, <5>2, FixedMoves
        <5> QED
          BY <5>3 DEF q
      <4> QED
        BY <4>2, <4>4
    <3>2. v \in done \/ v \in halted => v \in DOMAIN info.votes
      BY <1>8
    <3> HIDE DEF e, h
    <3>3. GaugeTyped(gauge'[v], Period + 1)
      BY <2>1, <2>3, <3>1, <3>2
    <3>4. "partial removal" \in more
      BY <1>9, <2>5, Zenon
    <3>5. more # {}
      BY <3>4, Zenon
    <3> QED
      BY <3>3, <3>4, <3>5, Zenon DEF VotesAgree
  <2> QED
    BY <2>4, <2>5
<1>12. \A v \in Validators : VotesAgree(gauge'[v], v, S, Period' + 1, more)
  BY <1>11
<1> QED
  BY <1>2, <1>3, <1>12, Zenon DEF GaugesAgree

\* tune_vamp saves the points of the current period and drops what is no longer read.
LEMMA TuneAgrees ==
  ASSUME GaugesAgree, Period \in Nat, Period' = Period, NEW allowed, tune_vamp(allowed)
  PROVE  GaugesAgree'
<1>1. PICK R : R = Records
  OBVIOUS
<1>2. Records' = R /\ spoiled' = spoiled
  BY <1>1 DEF tune_vamp, Records, RecordedVotes
<1>3. \A v \in Validators : VotesAgree(gauge[v], v, R, Period + 1, spoiled)
  BY <1>1 DEF GaugesAgree
<1>4. ASSUME NEW v \in Validators PROVE VotesAgree(gauge'[v], v, R, Period + 1, spoiled)
  <2> DEFINE g == gauge[v]
             e == update_validator_info(g, Period, get_validator_info(g, Period))
  <2>1. gauge'[v] = IF v \in validators THEN Settle(e) ELSE g
    BY DEF tune_vamp
  <2>2. VotesAgree(g, v, R, Period + 1, spoiled)
    BY <1>3
  <2> HIDE DEF g
  <2>3. GaugeTyped(g, Period + 1)
    BY <2>2, Zenon DEF VotesAgree
  <2>4. GaugeTyped(e, Period + 1) /\ SameReads(e, g, Period + 1)
    BY <2>3, UpdateNow
  <2> HIDE DEF e
  <2>5. VotesAgree(e, v, R, Period + 1, spoiled)
    BY <2>2, <2>4, ReadsAgree
  <2>6. VotesAgree(Settle(e), v, R, Period + 1, spoiled)
    BY <2>5, SettledAgrees
  <2> QED
    BY <2>1, <2>2, <2>6
<1>5. \A v \in Validators : VotesAgree(gauge'[v], v, R, Period' + 1, spoiled)
  BY <1>4
<1> QED
  BY <1>2, <1>5, Zenon DEF GaugesAgree

\* Time passes; or nothing does.
LEMMA PassingAgrees ==
  ASSUME GaugesAgree, RecordsOK, Period \in Nat, Period' \in Nat, Period' >= Period, UNCHANGED gaugeVars
  PROVE  GaugesAgree'
<1>1. PICK R : R = Records
  OBVIOUS
<1>2. Records' = R /\ spoiled' = spoiled /\ gauge' = gauge
  BY <1>1 DEF gaugeVars, Records, RecordedVotes
<1>3. \A v \in Validators : VotesAgree(gauge[v], v, R, Period + 1, spoiled)
  BY <1>1 DEF GaugesAgree
<1>4. PICK p : p = Period
  OBVIOUS
<1>5. PICK p2 : p2 = Period'
  OBVIOUS
<1>6. p \in Nat /\ p2 \in Nat /\ p <= p2 /\ RecordsIn(R, p)
  BY <1>1, <1>4, <1>5 DEF RecordsOK
<1>7. \A v \in Validators : VotesAgree(gauge[v], v, R, p2 + 1, spoiled)
  BY <1>3, <1>4, <1>6, WaitAgrees
<1>8. \A v \in Validators : VotesAgree(gauge'[v], v, R, Period' + 1, spoiled)
  BY <1>2, <1>5, <1>7
<1> QED
  BY <1>2, <1>8, Zenon DEF GaugesAgree

LEMMA ListedPut ==
  ASSUME VotesListed, NEW user, NEW info, user_info' = Put(user_info, user, info),
         DOMAIN info.votes \subseteq Validators, \A v \in DOMAIN info.votes : info.votes[v] \in Nat
  PROVE  VotesListed'
<1>1. DOMAIN user_info' = DOMAIN user_info \cup {user} /\ user_info'[user] = info
  BY DEF Put
<1>2. \A u \in DOMAIN user_info \ {user} : user_info'[u] = user_info[u]
  BY DEF Put
<1>3. ASSUME NEW u \in DOMAIN user_info'
      PROVE  /\ DOMAIN user_info'[u].votes \subseteq Validators
             /\ \A v \in DOMAIN user_info'[u].votes : user_info'[u].votes[v] \in Nat
  <2>1. CASE u = user
    BY <1>1, <2>1
  <2>2. CASE u # user
    <3>1. u \in DOMAIN user_info /\ user_info'[u] = user_info[u]
      BY <1>1, <1>2, <2>2
    <3> QED
      BY <3>1 DEF VotesListed
  <2> QED
    BY <2>1, <2>2
<1> QED
  BY <1>3 DEF VotesListed

\* Whoever votes gives basic points to validators, and keeps the votes when a lock changes.
LEMMA ListedAlways == GaugeSpec => []VotesListed
<1>1. GaugeInit => VotesListed
  BY DEF GaugeInit, VotesListed
<1>2. VotesListed /\ [GaugeNext]_vars => VotesListed'
  <2> SUFFICES ASSUME VotesListed, [GaugeNext]_vars PROVE VotesListed'
    OBVIOUS
  <2>0. ASSUME user_info' = user_info PROVE VotesListed'
    BY <2>0 DEF VotesListed
  <2>1. ASSUME NEW user \in Users, LockChange(user), update_vote(user)
        PROVE  VotesListed'
    <3>1. CASE user \in DOMAIN user_info
      <4> DEFINE info == InfoOf(get_user_lock_info(point'[user], locked'[user].end), user_info[user].votes)
      <4>1. user_info' = Put(user_info, user, info)
        BY <2>1, <3>1 DEF update_vote, ReplaceVotes
      <4>2. info.votes = user_info[user].votes
        BY DEF InfoOf
      <4> HIDE DEF info
      <4>3. DOMAIN info.votes \subseteq Validators /\ \A v \in DOMAIN info.votes : info.votes[v] \in Nat
        BY <3>1, <4>2 DEF VotesListed
      <4> QED
        BY <4>1, <4>3, ListedPut
    <3>2. CASE user \notin DOMAIN user_info
      BY <2>0, <2>1, <3>2 DEF update_vote, gaugeVars
    <3> QED
      BY <3>1, <3>2
  <2>2. ASSUME NEW user \in Users, NEW votes \in Ballots, handle_vote(user, votes)
        PROVE  VotesListed'
    <3> DEFINE info == InfoOf(get_user_lock_info(point[user], locked[user].end), votes)
    <3>1. user_info' = Put(user_info, user, info)
      BY <2>2 DEF handle_vote, ReplaceVotes
    <3>2. info.votes = votes
      BY DEF InfoOf
    <3> HIDE DEF info
    <3>3. PICK vs \in SUBSET Validators : votes \in [vs -> Bps]
      BY DEF Ballots
    <3>5. \A w \in Bps : w \in Nat
      BY GaugeAssumption
    <3>6. DOMAIN info.votes = vs /\ \A v \in vs : info.votes[v] \in Bps
      BY <3>2, <3>3, Zenon
    <3>4. DOMAIN info.votes \subseteq Validators /\ \A v \in DOMAIN info.votes : info.votes[v] \in Nat
      BY <3>5, <3>6, Zenon
    <3> QED
      BY <3>1, <3>4, ListedPut
  <2>3. ASSUME NEW user \in Users, remove_user(user)
        PROVE  VotesListed'
    <3>1. user_info' = Without(user_info, user)
      BY <2>3 DEF remove_user
    <3>2. /\ DOMAIN user_info' = DOMAIN user_info \ {user}
          /\ \A u \in DOMAIN user_info \ {user} : user_info'[u] = user_info[u]
      BY <3>1, WithoutMap
    <3> QED
      BY <3>2 DEF VotesListed
  <2>4. ASSUME NEW allowed \in SUBSET Validators, tune_vamp(allowed)
        PROVE  VotesListed'
    BY <2>0, <2>4 DEF tune_vamp
  <2>5. ASSUME NEW step \in TimeSteps, Wait(step), UNCHANGED gaugeVars
        PROVE  VotesListed'
    BY <2>0, <2>5 DEF gaugeVars
  <2>6. CASE UNCHANGED vars
    BY <2>0, <2>6 DEF vars, gaugeVars
  <2> QED
    BY <2>1, <2>2, <2>3, <2>4, <2>5, <2>6 DEF GaugeNext
<1> QED
  BY <1>1, <1>2, PTL DEF GaugeSpec

LEMMA RecordsAlwaysOK == GaugeSpec => []RecordsOK
<1>1. VotersInv /\ VotesListed => RecordsOK
  BY RecordsAreOK
<1> QED
  BY <1>1, VotersInvAlways, ListedAlways, PTL

\* Before anybody has voted.
LEMMA NobodyAgrees ==
  ASSUME GaugeInit
  PROVE  GaugesAgree
<1>1. PICK R : R = Records
  OBVIOUS
<1>2. now = 0 /\ spoiled = {} /\ \A u \in Users : R[u] = NoVotes
  BY <1>1 DEF GaugeInit, Init, Records, RecordedVotes
<1> DEFINE q == Period + 1
<1>3. Period \in Nat
  BY <1>2, PeriodsNat DEF Period
<1>4. q \in Nat
  BY <1>3
<1> HIDE DEF q
<1>5. ASSUME NEW v \in Validators PROVE VotesAgree(gauge[v], v, R, q, {})
  <2> DEFINE g == gauge[v]
  <2>1. g = [fixed   |-> [p \in {} |-> 0],
             votes   |-> [p \in {} |-> [start |-> 0, power |-> 0, slope |-> 0]],
             changes |-> [p \in {} |-> 0]]
    BY DEF GaugeInit
  <2>2. DOMAIN g.fixed = {} /\ DOMAIN g.votes = {} /\ DOMAIN g.changes = {}
    BY <2>1
  <2>3. GaugeTyped(g, q)
    <3> DEFINE none == [p \in {} |-> 0]
               some == [p \in {} |-> [start |-> 0, power |-> 0, slope |-> 0]]
    <3>1. none \in Changes
      <4>1. IsFiniteSet({}) /\ {} \subseteq Nat /\ none \in [{} -> Nat]
        BY FS_EmptySet
      <4> QED
        BY <4>1, IsChanges
    <3>2. some \in PointMaps
      <4>1. {} \subseteq Nat /\ some \in [{} -> GaugePoints]
        OBVIOUS
      <4> QED
        BY <4>1, IsPointMap
    <3> HIDE DEF g
    <3>3. g \in GaugeStates
      BY <2>1, <3>1, <3>2 DEF GaugeStates
    <3> QED
      BY <2>2, <3>3 DEF GaugeTyped
  <2> HIDE DEF g
  <2>4. KeysUpTo(g.fixed, q) = {} /\ KeysUpTo(g.votes, q) = {}
    BY <2>2 DEF KeysUpTo
  <2>5. fetch_last_validator_fixed_vamp_value(g, q) = 0
    BY <2>4 DEF fetch_last_validator_fixed_vamp_value
  <2>6. get_validator_info(g, q).slope = 0 /\ get_validator_info(g, q).power = 0
    BY <2>4 DEF get_validator_info
  <2>7. \A k : At(g.changes, k) = 0
    BY <2>2 DEF At
  <2>8. ASSUME NEW u \in Users, NEW a PROVE Share(v, R[u], a) = 0
    BY <1>2, <2>8 DEF NoVotes, Share
  <2>9. /\ Total(GivenFixed(v, R)) = 0 /\ Total(GivenSlopes(v, R, q)) = 0
        /\ Total(GivenPowers(v, R, q)) = 0 /\ \A k : Total(GivenEnding(v, R, k)) = 0
    <3> DEFINE zero == [u \in Users |-> 0]
    <3>1. zero \in [Users -> Nat] /\ \A u \in Users : zero[u] = 0
      OBVIOUS
    <3>2. /\ GivenFixed(v, R) = zero /\ GivenSlopes(v, R, q) = zero
          /\ GivenPowers(v, R, q) = zero /\ \A k : GivenEnding(v, R, k) = zero
      BY <2>8 DEF GivenFixed, GivenSlopes, GivenPowers, GivenEnding
    <3> HIDE DEF zero
    <3>3. Total(zero) = 0
      BY <3>1, UsersZero
    <3> QED
      BY <3>2, <3>3
  <2>10. FixedAgrees(g, v, R, q) /\ SlopesAgree(g, v, R, q) /\ PowersAgree(g, v, R, q)
    BY <2>5, <2>6, <2>7, <2>9 DEF FixedAgrees, SlopesAgree, PowersAgree
  <2>11. VotesAgree(g, v, R, q, {})
    BY <2>3, <2>10, Zenon DEF VotesAgree
  <2> QED
    BY <2>11 DEF g
<1> QED
  BY <1>1, <1>2, <1>5 DEF GaugesAgree, q

\* Every step keeps the gauges in agreement with the records.
LEMMA GaugesAlwaysAgree == GaugeSpec => []GaugesAgree
<1>1. GaugeInit => GaugesAgree
  BY NobodyAgrees
<1>2. /\ VotersInv /\ VotersInv' /\ RecordsOK /\ RecordsOK' /\ GaugesAgree
      /\ [GaugeNext]_vars
      => GaugesAgree'
  <2> SUFFICES ASSUME VotersInv, VotersInv', RecordsOK, RecordsOK', GaugesAgree, [GaugeNext]_vars
               PROVE  GaugesAgree'
    OBVIOUS
  <2>0. Period \in Nat
    BY PeriodsNat DEF VotersInv, EscrowInv, EscrowTypeOK, Period
  <2>1. ASSUME NEW user \in Users, LockChange(user), update_vote(user)
        PROVE  GaugesAgree'
    <3>1. Period' = Period
      <4>1. now' = now
        BY <2>1, LockChangeKeeps DEF VotersInv
      <4> QED
        BY <4>1 DEF Period
    <3>2. CASE user \in DOMAIN user_info
      <4>1. PICK lock : lock = get_user_lock_info(point'[user], locked'[user].end)
        OBVIOUS
      <4> DEFINE info   == InfoOf(lock, user_info[user].votes)
                 counts == lock.voting_power + lock.fixed_amount > 0
      <4>2. ReplaceVotes(user, info, counts)
        BY <2>1, <3>2, <4>1 DEF update_vote
      <4>3. /\ info.vote_period = Period /\ info.voting_power = lock.voting_power
            /\ info.fixed_amount = lock.fixed_amount
        BY DEF InfoOf
      <4>4. counts \in BOOLEAN /\ (~ counts => ~ info.voting_power + info.fixed_amount > 0)
        BY <4>3
      <4> HIDE DEF info, counts
      <4> QED
        BY <2>0, <3>1, <4>2, <4>3, <4>4, ReplaceAgrees
    <3>3. CASE user \notin DOMAIN user_info
      <4>1. UNCHANGED gaugeVars
        BY <2>1, <3>3 DEF update_vote
      <4>2. Period' \in Nat /\ Period' >= Period
        BY <2>0, <3>1
      <4> QED
        BY <2>0, <4>1, <4>2, PassingAgrees
    <3> QED
      BY <3>2, <3>3
  <2>2. ASSUME NEW user \in Users, NEW votes \in Ballots, handle_vote(user, votes)
        PROVE  GaugesAgree'
    <3>1. PICK lock : lock = get_user_lock_info(point[user], locked[user].end)
      OBVIOUS
    <3> DEFINE info == InfoOf(lock, votes)
    <3>2. ReplaceVotes(user, info, TRUE) /\ UNCHANGED escrowVars
      BY <2>2, <3>1 DEF handle_vote
    <3>3. info.vote_period = Period
      BY DEF InfoOf
    <3> HIDE DEF info
    <3>4. Period' = Period
      BY <3>2 DEF escrowVars, Period
    <3> QED
      BY <2>0, <3>2, <3>3, <3>4, ReplaceAgrees
  <2>3. ASSUME NEW user \in Users, remove_user(user)
        PROVE  GaugesAgree'
    <3>1. Period' = Period
      BY <2>3 DEF remove_user, escrowVars, Period
    <3> QED
      BY <2>0, <2>3, <3>1, RemoveAgrees
  <2>4. ASSUME NEW allowed \in SUBSET Validators, tune_vamp(allowed)
        PROVE  GaugesAgree'
    <3>1. Period' = Period
      BY <2>4 DEF tune_vamp, escrowVars, Period
    <3> QED
      BY <2>0, <2>4, <3>1, TuneAgrees
  <2>5. ASSUME NEW step \in TimeSteps, Wait(step), UNCHANGED gaugeVars
        PROVE  GaugesAgree'
    <3>1. Period' >= Period
      BY <2>5, WaitKeeps DEF VotersInv
    <3>2. Period' \in Nat
      BY PeriodsNat DEF VotersInv, EscrowInv, EscrowTypeOK, Period
    <3> QED
      BY <2>0, <2>5, <3>1, <3>2, PassingAgrees
  <2>6. CASE UNCHANGED vars
    <3>1. UNCHANGED gaugeVars /\ Period' = Period
      BY <2>6 DEF vars, escrowVars, Period
    <3>2. Period' \in Nat /\ Period' >= Period
      BY <2>0, <3>1
    <3> QED
      BY <2>0, <3>1, <3>2, PassingAgrees
  <2> QED
    BY <2>1, <2>2, <2>3, <2>4, <2>5, <2>6 DEF GaugeNext
<1> QED
  BY <1>1, <1>2, VotersInvAlways, RecordsAlwaysOK, PTL DEF GaugeSpec

\* What the users in a map give a validator is what their records give it: a user who is
\* not recorded gives nothing.
LEMMA RecordedGive ==
  ASSUME DOMAIN user_info \subseteq Users, NEW v, NEW f \in [Users -> Nat],
         NEW h, h = [u \in DOMAIN user_info |-> h[u]],
         \A u \in DOMAIN user_info : h[u] = f[u],
         \A u \in Users \ DOMAIN user_info : f[u] = 0
  PROVE  Total(h) = Total(f)
<1>1. \A u \in DOMAIN user_info : h[u] \in Nat
  OBVIOUS
<1>2. h \in [DOMAIN user_info -> Nat]
  BY <1>1
<1> QED
  BY <1>2, UsersExtend

\* The records, one by one.
LEMMA RecordsRead ==
  ASSUME RecordsOK
  PROVE  /\ \A u \in DOMAIN user_info : u \in Users => Records[u] = user_info[u] /\ RecordOK(user_info[u], Period)
         /\ \A u \in Users \ DOMAIN user_info : Records[u] = NoVotes
<1>1. \A u \in Users : Records[u] = RecordedVotes(u)
  BY DEF Records
<1>2. \A u \in Users : RecordOK(Records[u], Period)
  BY DEF RecordsOK, RecordsIn
<1>3. \A u \in DOMAIN user_info : u \in Users => Records[u] = user_info[u]
  BY <1>1 DEF RecordedVotes
<1>4. \A u \in Users \ DOMAIN user_info : Records[u] = NoVotes
  BY <1>1 DEF RecordedVotes
<1> QED
  BY <1>2, <1>3, <1>4, Zenon

LEMMA NoVotesGive ==
  ASSUME NEW v, NEW amount
  PROVE  Share(v, NoVotes, amount) = 0
<1>1. v \notin DOMAIN NoVotes.votes
  BY DEF NoVotes
<1> QED
  BY <1>1 DEF Share

\* A lock has not ended by the next period exactly if it ends after this one.
LEMMA NextPeriodParts ==
  ASSUME NEW r, RecordOK(r, Period), Period \in Nat
  PROVE  /\ SlopeFrom(r, Period + 1) = IF r.lock_end > Period THEN r.slope ELSE 0
         /\ PowerFrom(r, Period + 1) = IF r.lock_end > Period THEN CurrentPower(r) ELSE 0
         /\ \A k : EndingAt(r, k) = IF r.lock_end + 1 = k THEN r.slope ELSE 0
<1>1. r.lock_end \in Nat
  BY DEF RecordOK
<1>2. (r.lock_end >= Period + 1) = (r.lock_end > Period)
  BY <1>1
<1>3. (Period + 1) - 1 = Period
  OBVIOUS
<1>4. SlopeFrom(r, Period + 1) = IF r.lock_end > Period THEN r.slope ELSE 0
  BY <1>1, <1>2 DEF SlopeFrom
<1>5. PowerFrom(r, Period + 1) = IF r.lock_end > Period THEN CurrentPower(r) ELSE 0
  BY <1>2, <1>3, Zenon DEF PowerFrom, CurrentPower
<1>6. \A k : EndingAt(r, k) = IF r.lock_end + 1 = k THEN r.slope ELSE 0
  BY Zenon DEF EndingAt
<1> QED
  BY <1>4, <1>5, <1>6

\* The sums over the voters that the properties speak of.
LEMMA VotersGive ==
  ASSUME VotersInv, RecordsOK, NEW v, Period \in Nat
  PROVE  /\ Given(v, LAMBDA info : info.fixed_amount) = Total(GivenFixed(v, Records))
         /\ Given(v, LAMBDA info : IF info.lock_end > Period THEN info.slope ELSE 0)
              = Total(GivenSlopes(v, Records, Period + 1))
         /\ Given(v, LAMBDA info : IF info.lock_end > Period THEN CurrentPower(info) ELSE 0)
              = Total(GivenPowers(v, Records, Period + 1))
         /\ \A p : Given(v, LAMBDA info : IF info.lock_end + 1 = p THEN info.slope ELSE 0)
              = Total(GivenEnding(v, Records, p))
<1> DEFINE R == Records
           S == DOMAIN user_info
           q == Period + 1
<1>1. S \subseteq Users
  BY DEF VotersInv
<1>2. /\ \A u \in S : R[u] = user_info[u] /\ RecordOK(user_info[u], Period)
      /\ \A u \in Users \ S : R[u] = NoVotes
  BY <1>1, RecordsRead
<1>3. /\ GivenFixed(v, R) \in [Users -> Nat] /\ GivenSlopes(v, R, q) \in [Users -> Nat]
      /\ GivenPowers(v, R, q) \in [Users -> Nat] /\ \A k : GivenEnding(v, R, k) \in [Users -> Nat]
  <2>1. RecordsIn(R, Period) /\ q \in Nat /\ q > Period
    BY DEF RecordsOK
  <2> QED
    BY <2>1, GivenNat, Zenon
<1>4. \A u \in Users \ S :
        /\ GivenFixed(v, R)[u] = 0 /\ GivenSlopes(v, R, q)[u] = 0
        /\ GivenPowers(v, R, q)[u] = 0 /\ \A k : GivenEnding(v, R, k)[u] = 0
  BY <1>2, NoVotesGive, Zenon DEF GivenFixed, GivenSlopes, GivenPowers, GivenEnding
<1> DEFINE fixed  == [u \in S |-> Share(v, user_info[u], user_info[u].fixed_amount)]
           slopes == [u \in S |-> Share(v, user_info[u],
                        IF user_info[u].lock_end > Period THEN user_info[u].slope ELSE 0)]
           powers == [u \in S |-> Share(v, user_info[u],
                        IF user_info[u].lock_end > Period THEN CurrentPower(user_info[u]) ELSE 0)]
           ending(k) == [u \in S |-> Share(v, user_info[u],
                        IF user_info[u].lock_end + 1 = k THEN user_info[u].slope ELSE 0)]
<1>5. /\ Given(v, LAMBDA info : info.fixed_amount) = Total(fixed)
      /\ Given(v, LAMBDA info : IF info.lock_end > Period THEN info.slope ELSE 0) = Total(slopes)
      /\ Given(v, LAMBDA info : IF info.lock_end > Period THEN CurrentPower(info) ELSE 0) = Total(powers)
      /\ \A k : Given(v, LAMBDA info : IF info.lock_end + 1 = k THEN info.slope ELSE 0) = Total(ending(k))
  BY Zenon DEF Given, Share
<1>6. \A u \in S :
        /\ fixed[u] = GivenFixed(v, R)[u] /\ slopes[u] = GivenSlopes(v, R, q)[u]
        /\ powers[u] = GivenPowers(v, R, q)[u] /\ \A k : ending(k)[u] = GivenEnding(v, R, k)[u]
  <2> SUFFICES ASSUME NEW u \in S
               PROVE  /\ fixed[u] = GivenFixed(v, R)[u] /\ slopes[u] = GivenSlopes(v, R, q)[u]
                      /\ powers[u] = GivenPowers(v, R, q)[u]
                      /\ \A k : ending(k)[u] = GivenEnding(v, R, k)[u]
    OBVIOUS
  <2>1. u \in Users /\ R[u] = user_info[u] /\ RecordOK(user_info[u], Period)
    BY <1>1, <1>2
  <2>2. PICK r : r = user_info[u]
    OBVIOUS
  <2>3. /\ SlopeFrom(r, q) = IF r.lock_end > Period THEN r.slope ELSE 0
        /\ PowerFrom(r, q) = IF r.lock_end > Period THEN CurrentPower(r) ELSE 0
        /\ \A k : EndingAt(r, k) = IF r.lock_end + 1 = k THEN r.slope ELSE 0
    BY <2>1, <2>2, NextPeriodParts, Zenon
  <2>4. /\ GivenFixed(v, R)[u] = Share(v, r, r.fixed_amount)
        /\ GivenSlopes(v, R, q)[u] = Share(v, r, SlopeFrom(r, q))
        /\ GivenPowers(v, R, q)[u] = Share(v, r, PowerFrom(r, q))
        /\ \A k : GivenEnding(v, R, k)[u] = Share(v, r, EndingAt(r, k))
    BY <2>1, <2>2, Zenon DEF GivenFixed, GivenSlopes, GivenPowers, GivenEnding
  <2>5. /\ fixed[u] = Share(v, r, r.fixed_amount)
        /\ slopes[u] = Share(v, r, IF r.lock_end > Period THEN r.slope ELSE 0)
        /\ powers[u] = Share(v, r, IF r.lock_end > Period THEN CurrentPower(r) ELSE 0)
        /\ \A k : ending(k)[u] = Share(v, r, IF r.lock_end + 1 = k THEN r.slope ELSE 0)
    BY <2>2, Zenon
  <2> HIDE DEF fixed, slopes, powers, ending, R, q
  <2>6. fixed[u] = GivenFixed(v, R)[u] /\ slopes[u] = GivenSlopes(v, R, q)[u]
    BY <2>3, <2>4, <2>5
  <2>7. powers[u] = GivenPowers(v, R, q)[u]
    BY <2>3, <2>4, <2>5
  <2>8. \A k : ending(k)[u] = GivenEnding(v, R, k)[u]
    BY <2>3, <2>4, <2>5
  <2> QED
    BY <2>6, <2>7, <2>8, Zenon
<1>7. /\ fixed = [u \in S |-> fixed[u]] /\ slopes = [u \in S |-> slopes[u]]
      /\ powers = [u \in S |-> powers[u]] /\ \A k : ending(k) = [u \in S |-> ending(k)[u]]
  OBVIOUS
<1> HIDE DEF fixed, slopes, powers, ending, R, q
<1>8. Total(fixed) = Total(GivenFixed(v, R))
  BY <1>1, <1>3, <1>4, <1>6, <1>7, RecordedGive
<1>9. Total(slopes) = Total(GivenSlopes(v, R, q))
  BY <1>1, <1>3, <1>4, <1>6, <1>7, RecordedGive
<1>10. Total(powers) = Total(GivenPowers(v, R, q))
  BY <1>1, <1>3, <1>4, <1>6, <1>7, RecordedGive
<1>11. ASSUME NEW k PROVE Total(ending(k)) = Total(GivenEnding(v, R, k))
  BY <1>1, <1>3, <1>4, <1>6, <1>7, RecordedGive
<1> QED
  BY <1>5, <1>8, <1>9, <1>10, <1>11, Zenon DEF R, q

\* What is promised follows from the invariant.
LEMMA AgreementSuffices ==
  ASSUME VotersInv, RecordsOK, GaugesAgree
  PROVE  SlopesAreVoted /\ VotesAreCounted
<1>1. Period \in Nat
  BY PeriodsNat DEF VotersInv, EscrowInv, EscrowTypeOK, Period
<1> DEFINE q == Period + 1
<1>2. ASSUME NEW v \in Validators, spoiled = {}
      PROVE  /\ get_validator_info(gauge[v], q).slope = Total(GivenSlopes(v, Records, q))
             /\ \A k \in Nat : k > q => At(gauge[v].changes, k) = Total(GivenEnding(v, Records, k))
             /\ get_validator_info(gauge[v], q).power >= Total(GivenPowers(v, Records, q))
  BY <1>2, Zenon DEF GaugesAgree, VotesAgree, SlopesAgree, PowersAgree
<1>3. ASSUME NEW v \in Validators, "partial removal" \notin spoiled
      PROVE  fetch_last_validator_fixed_vamp_value(gauge[v], q) = Total(GivenFixed(v, Records))
  BY <1>3, Zenon DEF GaugesAgree, VotesAgree, FixedAgrees
<1>4. ASSUME NEW v \in Validators
      PROVE  DOMAIN gauge[v].changes \subseteq Nat
  <2>1. gauge[v] \in GaugeStates
    BY Zenon DEF GaugesAgree, VotesAgree, GaugeTyped
  <2>2. gauge[v].changes \in Changes
    BY <2>1, GaugeFields
  <2> QED
    BY <2>2, ChangesMap
<1>5. SlopesAreVoted
  <2> SUFFICES ASSUME spoiled = {}, NEW v \in Validators
               PROVE  /\ get_validator_info(gauge[v], q).slope =
                           Given(v, LAMBDA info : IF info.lock_end > Period THEN info.slope ELSE 0)
                      /\ \A p \in DOMAIN gauge[v].changes :
                           p > q => gauge[v].changes[p] =
                                      Given(v, LAMBDA info : IF info.lock_end + 1 = p THEN info.slope ELSE 0)
    BY DEF SlopesAreVoted, SlopesOfVoters
  <2>1. get_validator_info(gauge[v], q).slope =
          Given(v, LAMBDA info : IF info.lock_end > Period THEN info.slope ELSE 0)
    BY <1>1, <1>2, VotersGive
  <2>2. ASSUME NEW p \in DOMAIN gauge[v].changes, p > q
        PROVE  gauge[v].changes[p] =
                 Given(v, LAMBDA info : IF info.lock_end + 1 = p THEN info.slope ELSE 0)
    <3>1. At(gauge[v].changes, p) = gauge[v].changes[p]
      BY DEF At
    <3>2. p \in Nat
      BY <1>4
    <3>3. At(gauge[v].changes, p) = Total(GivenEnding(v, Records, p))
      BY <1>2, <2>2, <3>2
    <3>4. Given(v, LAMBDA info : IF info.lock_end + 1 = p THEN info.slope ELSE 0)
            = Total(GivenEnding(v, Records, p))
      BY <1>1, VotersGive
    <3> QED
      BY <3>1, <3>3, <3>4
  <2> QED
    BY <2>1, <2>2
<1>6. VotesAreCounted
  <2> SUFFICES ASSUME NEW v \in Validators
               PROVE  /\ "partial removal" \notin spoiled =>
                           fetch_last_validator_fixed_vamp_value(gauge[v], q) =
                             Given(v, LAMBDA info : info.fixed_amount)
                      /\ spoiled = {} =>
                           get_validator_info(gauge[v], q).power >=
                             Given(v, LAMBDA info : IF info.lock_end > Period THEN CurrentPower(info) ELSE 0)
    BY DEF VotesAreCounted
  <2>1. ASSUME "partial removal" \notin spoiled
        PROVE  fetch_last_validator_fixed_vamp_value(gauge[v], q) = Given(v, LAMBDA info : info.fixed_amount)
    BY <1>1, <1>3, <2>1, VotersGive
  <2>2. ASSUME spoiled = {}
        PROVE  get_validator_info(gauge[v], q).power >=
                 Given(v, LAMBDA info : IF info.lock_end > Period THEN CurrentPower(info) ELSE 0)
    BY <1>1, <1>2, <2>2, VotersGive
  <2> QED
    BY <2>1, <2>2
<1> QED
  BY <1>5, <1>6

\* As long as nothing has spoiled the sums, the slope at which a validator's votes decay
\* from the next period on is the sum over the voters whose locks have not ended, and the
\* slope changes that vote and the escrow's updates scheduled are the voters' own, however
\* many periods pass between two calls.
THEOREM SlopesAreAlwaysVoted == GaugeSpec => []SlopesAreVoted
<1>1. VotersInv /\ RecordsOK /\ GaugesAgree => SlopesAreVoted
  BY AgreementSuffices
<1> QED
  BY <1>1, VotersInvAlways, RecordsAlwaysOK, GaugesAlwaysAgree, PTL

\* From the next period on a validator has exactly the fixed power its voters gave it,
\* unless a removal stopped halfway, and at least the decaying power they have now, as long
\* as nothing spoiled the sums: rounding and the walk over the periods cost no votes.
THEOREM VotesAreAlwaysCounted == GaugeSpec => []VotesAreCounted
<1>1. VotersInv /\ RecordsOK /\ GaugesAgree => VotesAreCounted
  BY AgreementSuffices
<1> QED
  BY <1>1, VotersInvAlways, RecordsAlwaysOK, GaugesAlwaysAgree, PTL
=============================================================================
