-------------------------- MODULE PropGaugesProofs --------------------------
(***************************************************************************)
(* Proofs about the prop gauges on top of the voting escrow: a proposal's  *)
(* tally is the sum of the votes recorded, every vote that can still count *)
(* has the power the escrow reports, and the hub's vote is the remembered  *)
(* one.                                                                    *)
(***************************************************************************)
EXTENDS PropGauges, EscrowProofs

\* PropUserInfo
VoteInfos == [current_vote : VoteOptions, vp : Nat]

\* PropInfo.  Of the total that was last seen nothing is needed.
PropsLike(p) ==
  [end_time_s : Nat, period : Nat, vp : [VoteOptions -> Nat],
   total_vp : {p.total_vp}, current_vote : VoteOptions \cup {"None"}]

IsProp(p) == p \in PropsLike(p) /\ p.period = get_periods_count(p.end_time_s)

\* The proposals and the recorded votes.
PropTypeOK ==
  /\ DOMAIN props \subseteq Proposals
  /\ \A id \in DOMAIN props : IsProp(props[id])
  /\ DOMAIN users \subseteq Proposals \X Users
  /\ \A k \in DOMAIN users : users[k] \in VoteInfos

\* What a recorded vote gives an option, and what all of them give it.
VoteFor(info, o) == IF info.current_vote = o THEN info.vp ELSE 0
Counted(id, o) == Total([u \in Users |-> VoteFor(RecordedVote(id, u), o)])

\* The first part of VotesAddUp, over all users: who has no vote recorded gives nothing.
TalliesInv == \A id \in DOMAIN props \ reopened, o \in VoteOptions : props[id].vp[o] = Counted(id, o)

VotersInv == voters = {VoterEntry(k[1], k[2], users[k]) : k \in DOMAIN users}

-----------------------------------------------------------------------------
(* Lemmas.                                                                 *)

\* The four options of VoteOption.
LEMMA OptionsAre == VoteOptions = {"Yes", "No", "Abstain", "NoWithVeto"}
<1>1. DOMAIN VoteOption = 1..4
  BY DEF VoteOption
<1>2. 1..4 = {1, 2, 3, 4}
  OBVIOUS
<1>3. VoteOption[1] = "Yes" /\ VoteOption[2] = "No" /\ VoteOption[3] = "Abstain"
      /\ VoteOption[4] = "NoWithVeto"
  BY DEF VoteOption
<1> QED
  BY <1>1, <1>2, <1>3, Zenon DEF VoteOptions

\* What is recorded, or counts for nothing, is a vote.
LEMMA RecordedVoteType ==
  ASSUME PropTypeOK, NEW id, NEW user
  PROVE  RecordedVote(id, user) \in VoteInfos
<1>1. NoVote \in VoteInfos
  BY OptionsAre DEF NoVote, VoteInfos
<1> QED
  BY <1>1 DEF RecordedVote, PropTypeOK

\* A vote gives an option an amount.
LEMMA VoteForType ==
  ASSUME NEW info \in VoteInfos, NEW o
  PROVE  VoteFor(info, o) \in Nat
  BY DEF VoteFor, VoteInfos

\* The votes of the users for an option, as a map from all users.
LEMMA CountedType ==
  ASSUME PropTypeOK, NEW id, NEW o
  PROVE  [u \in Users |-> VoteFor(RecordedVote(id, u), o)] \in [Users -> Nat]
  BY RecordedVoteType, VoteForType

\* Taking a vote off moves the tally by it and nothing else.
LEMMA TallyFalls ==
  ASSUME NEW p, p \in PropsLike(p), NEW old \in VoteInfos, p.vp[old.current_vote] >= old.vp
  PROVE  LET r == remove_vote_of_user(p, old)
         IN  /\ r \in PropsLike(p)
             /\ r.end_time_s = p.end_time_s /\ r.period = p.period
             /\ r.current_vote = p.current_vote /\ r.total_vp = p.total_vp
             /\ \A o \in VoteOptions : r.vp[o] + VoteFor(old, o) = p.vp[o]
<1> DEFINE r == remove_vote_of_user(p, old)
<1>1. old.current_vote \in VoteOptions /\ old.vp \in Nat /\ p.vp \in [VoteOptions -> Nat]
  BY DEF VoteInfos, PropsLike
<1>2. /\ r.vp = [p.vp EXCEPT ![old.current_vote] = p.vp[old.current_vote] - old.vp]
      /\ r.end_time_s = p.end_time_s /\ r.period = p.period
      /\ r.current_vote = p.current_vote /\ r.total_vp = p.total_vp
      /\ r = [p EXCEPT !.vp = r.vp]
  BY DEF remove_vote_of_user, PropsLike
<1>3. r.vp \in [VoteOptions -> Nat]
  BY <1>1, <1>2
<1>4. r \in PropsLike(p)
  BY <1>2, <1>3 DEF PropsLike
<1>5. \A o \in VoteOptions : r.vp[o] + VoteFor(old, o) = p.vp[o]
  BY <1>1, <1>2 DEF VoteFor
<1> QED
  BY <1>2, <1>4, <1>5

\* Replacing a vote by another moves the tally by their difference and nothing else.
LEMMA TallyMoves ==
  ASSUME NEW p, p \in PropsLike(p), NEW old \in VoteInfos, NEW new \in VoteInfos,
         p.vp[old.current_vote] >= old.vp
  PROVE  LET q == apply_vote_of_user(remove_vote_of_user(p, old), new)
         IN  /\ q \in PropsLike(p)
             /\ q.end_time_s = p.end_time_s /\ q.period = p.period
             /\ q.current_vote = p.current_vote
             /\ \A o \in VoteOptions :
                  q.vp[o] + VoteFor(old, o) = p.vp[o] + VoteFor(new, o)
<1> DEFINE r == remove_vote_of_user(p, old)
           q == apply_vote_of_user(r, new)
<1>1. /\ r \in PropsLike(p)
      /\ r.end_time_s = p.end_time_s /\ r.period = p.period
      /\ r.current_vote = p.current_vote /\ r.total_vp = p.total_vp
      /\ \A o \in VoteOptions : r.vp[o] + VoteFor(old, o) = p.vp[o]
  BY TallyFalls
<1> HIDE DEF r
<1>2. new.current_vote \in VoteOptions /\ new.vp \in Nat /\ r.vp \in [VoteOptions -> Nat]
  BY <1>1 DEF VoteInfos, PropsLike
<1>3. /\ q.vp = [r.vp EXCEPT ![new.current_vote] = r.vp[new.current_vote] + new.vp]
      /\ q.end_time_s = r.end_time_s /\ q.period = r.period
      /\ q.current_vote = r.current_vote
      /\ q = [r EXCEPT !.vp = q.vp]
  BY <1>1 DEF apply_vote_of_user, PropsLike
<1>4. q.vp \in [VoteOptions -> Nat]
  BY <1>2, <1>3
<1>5. q \in PropsLike(p)
  BY <1>1, <1>3, <1>4 DEF PropsLike
<1>6. ASSUME NEW o \in VoteOptions
      PROVE  q.vp[o] + VoteFor(old, o) = p.vp[o] + VoteFor(new, o)
  <2>1. q.vp[o] = r.vp[o] + VoteFor(new, o)
    BY <1>2, <1>3 DEF VoteFor
  <2>2. r.vp[o] \in Nat /\ VoteFor(old, o) \in Nat /\ VoteFor(new, o) \in Nat
    BY <1>2, VoteForType
  <2> QED
    BY <1>1, <2>1, <2>2
<1> QED
  BY <1>1, <1>3, <1>5, <1>6 DEF r

-----------------------------------------------------------------------------
(* Saving proposals and votes.                                             *)

\* What a proposal is after its tally t has been saved.
LEMMA SavedProp ==
  ASSUME NEW ids, NEW tally, NEW total_vp, DOMAIN tally = ids,
         ids \subseteq DOMAIN props, PropTypeOK, SaveProps(tally, total_vp),
         \A id \in ids :
           /\ tally[id] \in PropsLike(props[id])
           /\ tally[id].end_time_s = props[id].end_time_s /\ tally[id].period = props[id].period
  PROVE  /\ DOMAIN props' = DOMAIN props
         /\ \A id \in DOMAIN props :
              /\ IsProp(props'[id])
              /\ props'[id].end_time_s = props[id].end_time_s
              /\ props'[id].period = props[id].period
              /\ props'[id].vp = IF id \in ids THEN tally[id].vp ELSE props[id].vp
<1> DEFINE vote(id) == get_vote_msg(tally[id], total_vp[id]).current_vote
<1>1. /\ DOMAIN props' = DOMAIN props
      /\ \A id \in DOMAIN props :
           props'[id] = IF id \in ids
                        THEN [tally[id] EXCEPT !.total_vp = total_vp[id], !.current_vote = vote(id)]
                        ELSE props[id]
  BY DEF SaveProps
<1>2. ASSUME NEW id \in ids PROVE vote(id) \in VoteOptions \cup {"None"}
  BY OptionsAre DEF get_vote_msg, get_wanted_vote
<1> HIDE DEF vote
<1>3. ASSUME NEW id \in DOMAIN props, id \notin ids
      PROVE  IsProp(props'[id]) /\ props'[id] = props[id]
  BY <1>1, <1>3 DEF PropTypeOK
<1>4. ASSUME NEW id \in ids
      PROVE  /\ IsProp(props'[id])
             /\ props'[id].end_time_s = props[id].end_time_s
             /\ props'[id].period = props[id].period
             /\ props'[id].vp = tally[id].vp
  <2> DEFINE t == tally[id]
             q == [t EXCEPT !.total_vp = total_vp[id], !.current_vote = vote(id)]
  <2>1. /\ t \in PropsLike(props[id])
        /\ t.end_time_s = props[id].end_time_s /\ t.period = props[id].period
    OBVIOUS
  <2> HIDE DEF t
  <2>2. /\ q.end_time_s = t.end_time_s /\ q.period = t.period /\ q.vp = t.vp
        /\ q \in PropsLike(q)
    BY <1>2, <2>1 DEF PropsLike
  <2>3. props'[id] = q
    BY <1>1 DEF t
  <2>4. props[id].period = get_periods_count(props[id].end_time_s)
    BY DEF PropTypeOK, IsProp
  <2> HIDE DEF q
  <2> QED
    BY <2>1, <2>2, <2>3, <2>4 DEF IsProp, t
<1> QED
  BY <1>1, <1>3, <1>4

-----------------------------------------------------------------------------
(* The hub's vote.                                                         *)

\* A total over the four options.
LEMMA FourOptions ==
  ASSUME NEW f \in [VoteOptions -> Nat]
  PROVE  /\ IsFiniteSet(VoteOptions)
         /\ Total(f) = f["Yes"] + f["No"] + f["Abstain"] + f["NoWithVeto"]
<1>1. IsFiniteSet(VoteOptions)
  <2>1. IsFiniteSet({"Yes"})
    BY FS_Singleton
  <2>2. IsFiniteSet({"Yes"} \cup {"No"})
    BY <2>1, FS_AddElement
  <2>3. IsFiniteSet(({"Yes"} \cup {"No"}) \cup {"Abstain"})
    BY <2>2, FS_AddElement
  <2>4. IsFiniteSet((({"Yes"} \cup {"No"}) \cup {"Abstain"}) \cup {"NoWithVeto"})
    BY <2>3, FS_AddElement
  <2>5. VoteOptions = (({"Yes"} \cup {"No"}) \cup {"Abstain"}) \cup {"NoWithVeto"}
    BY OptionsAre
  <2> QED
    BY <2>4, <2>5
<1> DEFINE upto(S) == [o \in VoteOptions |-> IF o \in S THEN f[o] ELSE 0]
<1>2. \A S : upto(S) \in [VoteOptions -> Nat]
  OBVIOUS
<1>3. ASSUME NEW S, NEW o \in VoteOptions \ S
      PROVE  Total(upto(S \cup {o})) = Total(upto(S)) + f[o] /\ Total(upto(S)) \in Nat
  <2> DEFINE a == upto(S)
             b == upto(S \cup {o})
  <2>1. a[o] = 0 /\ b[o] = f[o] /\ f[o] \in Nat
    BY <1>3
  <2>2. \A x \in VoteOptions \ {o} : b[x] = a[x]
    OBVIOUS
  <2>3. a \in [VoteOptions -> Nat] /\ b \in [VoteOptions -> Nat]
    BY <1>2
  <2> HIDE DEF a, b
  <2>4. Total(a) \in Nat /\ Total(b) \in Nat
    BY <1>1, <2>3, SumType
  <2>5. Total(b) + a[o] = Total(a) + b[o]
    BY <1>1, <2>2, <2>3, SumChange
  <2>6. Total(b) = Total(a) + f[o] /\ Total(a) \in Nat
    BY <2>1, <2>4, <2>5
  <2> QED
    BY <2>6 DEF a, b
<1>4. Total(upto({})) = 0
  <2>1. \A x \in VoteOptions : upto({})[x] = 0
    OBVIOUS
  <2> HIDE DEF upto
  <2> QED
    BY <1>1, <1>2, <2>1, SumZero
<1>5. upto(((({} \cup {"Yes"}) \cup {"No"}) \cup {"Abstain"}) \cup {"NoWithVeto"}) = f
  BY OptionsAre
<1> HIDE DEF upto
<1>6. Total(upto({} \cup {"Yes"})) = f["Yes"]
  BY <1>3, <1>4, OptionsAre
<1>7. Total(upto(({} \cup {"Yes"}) \cup {"No"})) = f["Yes"] + f["No"]
  BY <1>3, <1>6, OptionsAre
<1>8. Total(upto((({} \cup {"Yes"}) \cup {"No"}) \cup {"Abstain"})) = f["Yes"] + f["No"] + f["Abstain"]
  BY <1>3, <1>7, OptionsAre
<1>9. Total(upto(((({} \cup {"Yes"}) \cup {"No"}) \cup {"Abstain"}) \cup {"NoWithVeto"})) =
        f["Yes"] + f["No"] + f["Abstain"] + f["NoWithVeto"]
  BY <1>3, <1>8, OptionsAre
<1> QED
  BY <1>1, <1>5, <1>9

\* The share of a part in a total, in thousandths and rounded down.
LEMMA ShareBounds ==
  ASSUME NEW a \in Nat, NEW t \in Nat \ {0}
  PROVE  LET w == (a * RoundingFactor) \div t
         IN  w \in Nat /\ w * t <= a * 1000 /\ a * 1000 < (w + 1) * t
<1> DEFINE n == a * 1000
           w == n \div t
<1>1. n \in Nat
  OBVIOUS
<1> HIDE DEF n
<1>2. w \in Nat /\ w * t <= n /\ n < (w + 1) * t
  BY <1>1, SMT
<1> QED
  BY <1>2 DEF n, RoundingFactor

\* The weights that get_weighted_votes computes add up to one, unless nobody voted.
LEMMA WeightsAddUp ==
  ASSUME NEW p, p.vp \in [VoteOptions -> Nat], Total(get_weighted_votes(p)) > 0
  PROVE  Total(get_weighted_votes(p)) = RoundingFactor
<1> DEFINE vp == p.vp
           t == voted_vp(p)
           weight == [o \in VoteOptions |-> (vp[o] * RoundingFactor) \div t]
           IsFirst(i) == /\ weight[VoteOption[i]] > 0
                         /\ \A j \in 1..(i - 1) : weight[VoteOption[j]] = 0
           first == VoteOption[CHOOSE i \in DOMAIN VoteOption : IsFirst(i)]
           g == [weight EXCEPT ![first] = weight[first] + RoundingFactor - Total(weight)]
<1>1. t \in Nat /\ t = vp["Yes"] + vp["No"] + vp["Abstain"] + vp["NoWithVeto"]
      /\ IsFiniteSet(VoteOptions)
  <2>1. IsFiniteSet(VoteOptions) /\ Total(vp) = vp["Yes"] + vp["No"] + vp["Abstain"] + vp["NoWithVeto"]
    BY FourOptions
  <2>2. Total(vp) \in Nat
    BY <2>1, SumType
  <2> QED
    BY <2>1, <2>2 DEF voted_vp
<1>2. t # 0
  <2> SUFFICES ASSUME t = 0 PROVE FALSE
    OBVIOUS
  <2>1. get_weighted_votes(p) = EmptyBallot
    BY DEF get_weighted_votes
  <2>2. EmptyBallot \in [VoteOptions -> Nat] /\ \A o \in VoteOptions : EmptyBallot[o] = 0
    BY DEF EmptyBallot
  <2>3. Total(EmptyBallot) = 0
    BY <1>1, <2>2, SumZero
  <2> QED
    BY <2>1, <2>3
<1>3. get_weighted_votes(p) = g
  BY <1>2 DEF get_weighted_votes
<1> HIDE DEF t
<1>4. ASSUME NEW o \in VoteOptions
      PROVE  /\ vp[o] \in Nat /\ weight[o] \in Nat
             /\ weight[o] * t <= vp[o] * 1000 /\ vp[o] * 1000 < (weight[o] + 1) * t
  <2> DEFINE a == vp[o]
             w == (a * RoundingFactor) \div t
  <2>1. a \in Nat /\ weight[o] = w
    OBVIOUS
  <2> HIDE DEF a
  <2>2. w \in Nat /\ w * t <= a * 1000 /\ a * 1000 < (w + 1) * t
    BY <1>1, <1>2, <2>1, ShareBounds
  <2> HIDE DEF w
  <2> QED
    BY <2>1, <2>2 DEF a
<1>5. weight \in [VoteOptions -> Nat]
  BY <1>4
<1> HIDE DEF vp, weight
<1>6. Total(weight) = weight["Yes"] + weight["No"] + weight["Abstain"] + weight["NoWithVeto"]
  BY <1>5, FourOptions
<1> DEFINE w1 == weight["Yes"]
           w2 == weight["No"]
           w3 == weight["Abstain"]
           w4 == weight["NoWithVeto"]
           v1 == vp["Yes"]
           v2 == vp["No"]
           v3 == vp["Abstain"]
           v4 == vp["NoWithVeto"]
<1>7. /\ w1 \in Nat /\ w2 \in Nat /\ w3 \in Nat /\ w4 \in Nat
      /\ v1 \in Nat /\ v2 \in Nat /\ v3 \in Nat /\ v4 \in Nat
      /\ w1 * t <= v1 * 1000 /\ v1 * 1000 < (w1 + 1) * t
      /\ w2 * t <= v2 * 1000 /\ v2 * 1000 < (w2 + 1) * t
      /\ w3 * t <= v3 * 1000 /\ v3 * 1000 < (w3 + 1) * t
      /\ w4 * t <= v4 * 1000 /\ v4 * 1000 < (w4 + 1) * t
  BY <1>4, OptionsAre
<1>8. t = v1 + v2 + v3 + v4
  BY <1>1
<1> HIDE DEF w1, w2, w3, w4, v1, v2, v3, v4
<1>9. w1 + w2 + w3 + w4 <= 1000
  <2>1. (w1 + w2 + w3 + w4) * t = w1 * t + w2 * t + w3 * t + w4 * t
    BY <1>1, <1>7
  <2>2. (w1 + w2 + w3 + w4) * t <= 1000 * t
    BY <1>1, <1>7, <1>8, <2>1
  <2> DEFINE w == w1 + w2 + w3 + w4
  <2>3. w \in Nat /\ w * t <= 1000 * t
    BY <1>7, <2>2
  <2> HIDE DEF w
  <2>4. w <= 1000
    BY <1>1, <1>2, <2>3
  <2> QED
    BY <2>4 DEF w
<1>10. w1 > 0 \/ w2 > 0 \/ w3 > 0 \/ w4 > 0
  <2> SUFFICES ASSUME w1 = 0, w2 = 0, w3 = 0, w4 = 0 PROVE FALSE
    BY <1>7
  <2>1. v1 * 1000 < t /\ v2 * 1000 < t /\ v3 * 1000 < t /\ v4 * 1000 < t
    BY <1>1, <1>7
  <2> QED
    BY <1>1, <1>7, <1>8, <2>1
<1>11. first \in VoteOptions
  <2>1. DOMAIN VoteOption = 1..4
    BY DEF VoteOption
  <2>2. /\ VoteOption[1] = "Yes" /\ VoteOption[2] = "No" /\ VoteOption[3] = "Abstain"
        /\ VoteOption[4] = "NoWithVeto"
    BY DEF VoteOption
  <2>3. \E i \in DOMAIN VoteOption : IsFirst(i)
    <3>1. CASE w1 > 0
      <4>1. IsFirst(1)
        BY <2>2, <3>1 DEF w1
      <4> QED
        BY <2>1, <4>1
    <3>2. CASE w1 = 0 /\ w2 > 0
      <4>1. IsFirst(2)
        BY <2>2, <3>2 DEF w1, w2
      <4> QED
        BY <2>1, <4>1
    <3>3. CASE w1 = 0 /\ w2 = 0 /\ w3 > 0
      <4>1. \A j \in 1..(3 - 1) : j = 1 \/ j = 2
        OBVIOUS
      <4>2. IsFirst(3)
        BY <2>2, <3>3, <4>1 DEF w1, w2, w3
      <4> QED
        BY <2>1, <4>2
    <3>4. CASE w1 = 0 /\ w2 = 0 /\ w3 = 0 /\ w4 > 0
      <4>1. \A j \in 1..(4 - 1) : j = 1 \/ j = 2 \/ j = 3
        OBVIOUS
      <4>2. IsFirst(4)
        BY <2>2, <3>4, <4>1 DEF w1, w2, w3, w4
      <4> QED
        BY <2>1, <4>2
    <3> QED
      BY <1>7, <1>10, <3>1, <3>2, <3>3, <3>4
  <2>4. (CHOOSE i \in DOMAIN VoteOption : IsFirst(i)) \in DOMAIN VoteOption
    BY <2>3, Zenon
  <2> HIDE DEF IsFirst
  <2> QED
    BY <2>4, Zenon DEF VoteOptions
<1> HIDE DEF first
<1>12. Total(weight) \in Nat /\ Total(weight) <= 1000
  BY <1>6, <1>7, <1>9 DEF w1, w2, w3, w4
<1>13. g \in [VoteOptions -> Nat]
  BY <1>5, <1>11, <1>12 DEF RoundingFactor
<1>14. Total(g) + weight[first] = Total(weight) + g[first] /\ Total(g) \in Nat
  <2>1. \A o \in VoteOptions \ {first} : g[o] = weight[o]
    BY <1>5
  <2> HIDE DEF g
  <2> QED
    BY <1>1, <1>5, <1>11, <1>13, <2>1, SumChange, SumType
<1>15. g[first] = weight[first] + RoundingFactor - Total(weight) /\ weight[first] \in Nat
  BY <1>5, <1>11
<1> HIDE DEF g
<1> QED
  BY <1>3, <1>12, <1>14, <1>15 DEF RoundingFactor

\* What the contract remembers after get_vote_msg, and the message that goes with it: none
\* if the vote stays what it is, or there never was one or only an abstention.
LEMMA VoteMsgCases ==
  ASSUME NEW p, NEW total_vp, p.current_vote \in VoteOptions \cup {"None"}
  PROVE  LET out == get_vote_msg(p, total_vp)
         IN  /\ config.use_weighted_vote =>
                  out.current_vote = "None" /\ out.msg \in {NoMessage, Weighted(get_weighted_votes(p))}
             /\ ~ config.use_weighted_vote =>
                  /\ out.current_vote \in VoteOptions \cup {"None"}
                  /\ \/ /\ out.current_vote = "None" /\ out.msg = NoMessage
                        /\ p.current_vote \in {"None", "Abstain"}
                     \/ /\ out.current_vote # "None" /\ out.current_vote = p.current_vote
                        /\ out.msg = NoMessage
                     \/ /\ out.current_vote # "None" /\ out.msg = Plain(out.current_vote)
<1> DEFINE wanted == get_wanted_vote(p, total_vp, config.quorum_bps)
           retreat == wanted = "None" /\ p.current_vote \notin {"None", "Abstain"}
           vote == IF retreat THEN "Abstain" ELSE wanted
           out == get_vote_msg(p, total_vp)
<1>1. wanted \in VoteOptions \cup {"None"}
  BY OptionsAre DEF get_wanted_vote
<1> HIDE DEF wanted
<1>2. CASE config.use_weighted_vote
  <2>1. out = [current_vote |-> "None",
               msg |-> IF reached_quorum(p, total_vp, config.quorum_bps)
                       THEN Weighted(get_weighted_votes(p)) ELSE NoMessage]
    BY <1>2, Zenon DEF get_vote_msg
  <2>2. out.current_vote = "None" /\ out.msg \in {NoMessage, Weighted(get_weighted_votes(p))}
    BY <2>1
  <2> QED
    BY <1>2, <2>2
<1>3. CASE ~ config.use_weighted_vote
  <2>1. out = [current_vote |-> vote,
               msg |-> IF vote = p.current_vote \/ vote = "None" THEN NoMessage ELSE Plain(vote)]
    BY <1>3, Zenon DEF get_vote_msg, wanted
  <2>2. vote \in VoteOptions \cup {"None"} /\ (vote = "None" => p.current_vote \in {"None", "Abstain"})
    BY <1>1, OptionsAre
  <2> HIDE DEF vote
  <2>3. /\ out.current_vote = vote
        /\ out.msg = IF vote = p.current_vote \/ vote = "None" THEN NoMessage ELSE Plain(vote)
    BY <2>1
  <2> HIDE DEF out
  <2>4. \/ vote = "None" /\ out.msg = NoMessage /\ p.current_vote \in {"None", "Abstain"}
        \/ vote # "None" /\ vote = p.current_vote /\ out.msg = NoMessage
        \/ vote # "None" /\ out.msg = Plain(vote)
    BY <2>2, <2>3, Zenon
  <2> QED
    BY <1>3, <2>2, <2>3, <2>4, Zenon DEF out
<1> QED
  BY <1>2, <1>3

\* The hub's votes, one per proposal.
HubInv == DOMAIN cast = Proposals /\ HubVoteFollows

\* Saving tallies sends the hub what will be remembered.
LEMMA SavedVote ==
  ASSUME NEW ids, NEW tally, NEW total_vp, DOMAIN tally = ids,
         ids \subseteq DOMAIN props, PropTypeOK, HubInv, SaveProps(tally, total_vp),
         reopened' = reopened,
         \A id \in ids : tally[id] \in PropsLike(props[id])
                         /\ tally[id].current_vote = props[id].current_vote
  PROVE  HubInv'
<1> DEFINE out(id) == get_vote_msg(tally[id], total_vp[id])
<1>1. /\ DOMAIN props' = DOMAIN props /\ DOMAIN cast' = Proposals
      /\ \A id \in ids : out(id).msg = NoMessage \/ Total(out(id).msg.ballot) > 0
      /\ \A id \in DOMAIN props :
           props'[id] = IF id \in ids
                        THEN [tally[id] EXCEPT !.total_vp = total_vp[id],
                                               !.current_vote = out(id).current_vote]
                        ELSE props[id]
      /\ \A id \in Proposals :
           cast'[id] = IF id \in ids /\ out(id).msg # NoMessage THEN out(id).msg ELSE cast[id]
      /\ weighted' = weighted \cup {id \in ids : config.use_weighted_vote}
  BY DEF SaveProps, GovAccepts
<1>2. ASSUME NEW id \in DOMAIN props \ reopened, id \notin ids
      PROVE  /\ props'[id] = props[id] /\ cast'[id] = cast[id]
             /\ id \in weighted' <=> id \in weighted
  BY <1>1, <1>2 DEF PropTypeOK
<1>3. ASSUME NEW id \in ids
      PROVE  props'[id].current_vote = out(id).current_vote
  BY <1>1 DEF PropsLike
<1>4. ASSUME NEW id \in DOMAIN props \ reopened, id \in ids
      PROVE  /\ props'[id].current_vote # "None" => cast'[id] = Plain(props'[id].current_vote)
             /\ props'[id].current_vote = "None" /\ id \notin weighted' =>
                  cast'[id] \in {NoMessage, Plain("Abstain")}
             /\ cast'[id].kind = "weighted" => Total(cast'[id].ballot) = RoundingFactor
  <2> DEFINE p == tally[id]
             o == out(id)
  <2>1. /\ p.current_vote \in VoteOptions \cup {"None"} /\ p.current_vote = props[id].current_vote
        /\ p.vp \in [VoteOptions -> Nat]
    BY <1>4 DEF PropsLike
  <2>2. /\ props[id].current_vote # "None" => cast[id] = Plain(props[id].current_vote)
        /\ props[id].current_vote = "None" /\ id \notin weighted =>
             cast[id] \in {NoMessage, Plain("Abstain")}
        /\ cast[id].kind = "weighted" => Total(cast[id].ballot) = RoundingFactor
    BY DEF HubInv, HubVoteFollows
  <2>3. /\ config.use_weighted_vote =>
             o.current_vote = "None" /\ o.msg \in {NoMessage, Weighted(get_weighted_votes(p))}
        /\ ~ config.use_weighted_vote =>
             /\ o.current_vote \in VoteOptions \cup {"None"}
             /\ \/ /\ o.current_vote = "None" /\ o.msg = NoMessage
                   /\ p.current_vote \in {"None", "Abstain"}
                \/ /\ o.current_vote # "None" /\ o.current_vote = p.current_vote
                   /\ o.msg = NoMessage
                \/ /\ o.current_vote # "None" /\ o.msg = Plain(o.current_vote)
    BY <2>1, VoteMsgCases
  <2>4. /\ props'[id].current_vote = o.current_vote
        /\ cast'[id] = IF o.msg # NoMessage THEN o.msg ELSE cast[id]
        /\ o.msg = NoMessage \/ Total(o.msg.ballot) > 0
        /\ config.use_weighted_vote => id \in weighted'
        /\ ~ config.use_weighted_vote => (id \in weighted' <=> id \in weighted)
    BY <1>1, <1>3, <1>4 DEF PropTypeOK
  <2>5. \A v : Plain(v).kind = "plain" /\ Plain(v) # NoMessage
    BY DEF Plain, NoMessage
  <2>6. CASE config.use_weighted_vote
    <3>1. CASE o.msg = NoMessage
      BY <2>2, <2>3, <2>4, <2>6, <3>1, Zenon
    <3>2. CASE o.msg # NoMessage
      <4>1. cast'[id] = Weighted(get_weighted_votes(p)) /\ Total(cast'[id].ballot) > 0
        BY <2>3, <2>4, <2>6, <3>2, Zenon
      <4>2. cast'[id].ballot = get_weighted_votes(p)
        BY <4>1 DEF Weighted
      <4>3. Total(get_weighted_votes(p)) = RoundingFactor
        <5>1. Total(get_weighted_votes(p)) > 0
          BY <4>1, <4>2
        <5> HIDE DEF p
        <5> QED
          BY <2>1, <5>1, WeightsAddUp
      <4> QED
        BY <2>3, <2>4, <2>6, <4>2, <4>3, Zenon
    <3> QED
      BY <3>1, <3>2
  <2>7. CASE ~ config.use_weighted_vote
    <3>1. CASE o.current_vote = "None" /\ o.msg = NoMessage /\ p.current_vote \in {"None", "Abstain"}
      BY <2>1, <2>2, <2>4, <2>7, <3>1, Zenon
    <3>2. CASE o.current_vote # "None" /\ o.current_vote = p.current_vote /\ o.msg = NoMessage
      BY <2>1, <2>2, <2>4, <2>7, <3>2, Zenon
    <3>3. CASE o.current_vote # "None" /\ o.msg = Plain(o.current_vote)
      <4>1. cast'[id] = Plain(o.current_vote) /\ cast'[id].kind = "plain"
        BY <2>4, <2>5, <3>3, Zenon
      <4>2. cast'[id].kind # "weighted"
        BY <4>1
      <4> QED
        BY <2>4, <3>3, <4>1, <4>2, Zenon
    <3> QED
      BY <2>3, <2>7, <3>1, <3>2, <3>3, Zenon
  <2> QED
    BY <2>6, <2>7
<1>5. ASSUME NEW id \in DOMAIN props \ reopened, id \notin ids
      PROVE  /\ props'[id].current_vote # "None" => cast'[id] = Plain(props'[id].current_vote)
             /\ props'[id].current_vote = "None" /\ id \notin weighted' =>
                  cast'[id] \in {NoMessage, Plain("Abstain")}
             /\ cast'[id].kind = "weighted" => Total(cast'[id].ballot) = RoundingFactor
  BY <1>2, <1>5, Zenon DEF HubInv, HubVoteFollows
<1> QED
  BY <1>1, <1>4, <1>5, Zenon DEF HubInv, HubVoteFollows, Plain, NoMessage, Ballot, EmptyBallot

-----------------------------------------------------------------------------
(* Replacing votes.                                                        *)

\* What changes when the votes of a user on the proposals in ids are replaced by new.
VotesBecome(ids, user, new) ==
  /\ DOMAIN props' = DOMAIN props
  /\ \A id \in DOMAIN props :
       /\ props'[id].end_time_s = props[id].end_time_s
       /\ props'[id].period = props[id].period
  /\ DOMAIN users' = DOMAIN users \cup (ids \X {user})
  /\ \A k \in DOMAIN users' :
       users'[k] = IF k[2] = user /\ k[1] \in ids THEN new[k[1]] ELSE users[k]

\* update_vote_state takes the old votes off the tallies and off the list of voters and
\* puts the new ones there: tallies and list stay those of the recorded votes.
LEMMA VotesReplaced ==
  ASSUME PropTypeOK, TalliesInv, VotersInv, HubInv, reopened' = reopened,
         NEW ids, ids \subseteq DOMAIN props, NEW user \in Users,
         NEW lock, NEW vote, NEW total_vp, NEW new, new \in [ids -> VoteInfos],
         \A id \in ids : new[id] = UserVote(lock, props[id], vote[id]),
         update_vote_state(ids, user, lock, vote, total_vp)
  PROVE  PropTypeOK' /\ TalliesInv' /\ VotersInv' /\ HubInv' /\ VotesBecome(ids, user, new)
<1> DEFINE old(id) == RecordedVote(id, user)
           q(id) == apply_vote_of_user(remove_vote_of_user(props[id], old(id)), new[id])
           tally == [id \in ids |-> q(id)]
<1>1. /\ \A id \in ids : props[id].vp[old(id).current_vote] >= old(id).vp
      /\ SaveProps(tally, total_vp)
      /\ users' = [k \in DOMAIN users \cup (ids \X {user}) |->
                     IF k[2] = user /\ k[1] \in ids THEN new[k[1]] ELSE users[k]]
      /\ voters' = {e \in voters : ~ (e.id \in ids /\ e.user = user /\ e.vp = old(e.id).vp)}
                     \cup {VoterEntry(id, user, new[id]) : id \in ids}
  <2>1. tally = [id \in ids |-> apply_vote_of_user(remove_vote_of_user(props[id], old(id)),
                                                   UserVote(lock, props[id], vote[id]))]
    BY Zenon
  <2>2. [k \in DOMAIN users \cup (ids \X {user}) |->
           IF k[2] = user /\ k[1] \in ids THEN UserVote(lock, props[k[1]], vote[k[1]]) ELSE users[k]] =
        [k \in DOMAIN users \cup (ids \X {user}) |->
           IF k[2] = user /\ k[1] \in ids THEN new[k[1]] ELSE users[k]]
    BY Zenon
  <2>3. {VoterEntry(id, user, UserVote(lock, props[id], vote[id])) : id \in ids} =
        {VoterEntry(id, user, new[id]) : id \in ids}
    BY Zenon
  <2> QED
    BY <2>1, <2>2, <2>3, Zenon DEF update_vote_state
<1>2. ASSUME NEW id \in ids
      PROVE  /\ q(id) \in PropsLike(props[id])
             /\ q(id).end_time_s = props[id].end_time_s /\ q(id).period = props[id].period
             /\ q(id).current_vote = props[id].current_vote
             /\ \A o \in VoteOptions :
                  q(id).vp[o] + VoteFor(old(id), o) = props[id].vp[o] + VoteFor(new[id], o)
  <2>1. IsProp(props[id]) /\ old(id) \in VoteInfos /\ new[id] \in VoteInfos
    BY RecordedVoteType DEF PropTypeOK
  <2>2. props[id].vp[old(id).current_vote] >= old(id).vp
    BY <1>1
  <2> HIDE DEF old
  <2> QED
    BY <2>1, <2>2, TallyMoves DEF IsProp
<1> HIDE DEF q
<1>3. DOMAIN tally = ids /\ \A id \in ids : tally[id] = q(id)
  OBVIOUS
<1> HIDE DEF tally
<1>4. /\ DOMAIN props' = DOMAIN props
      /\ \A id \in DOMAIN props :
           /\ IsProp(props'[id])
           /\ props'[id].end_time_s = props[id].end_time_s
           /\ props'[id].period = props[id].period
           /\ props'[id].vp = IF id \in ids THEN q(id).vp ELSE props[id].vp
  BY <1>1, <1>2, <1>3, SavedProp
<1>5. /\ DOMAIN users' = DOMAIN users \cup (ids \X {user})
      /\ \A k \in DOMAIN users' :
           users'[k] = IF k[2] = user /\ k[1] \in ids THEN new[k[1]] ELSE users[k]
  BY <1>1
<1>6. PropTypeOK'
  <2>1. ids \X {user} \subseteq Proposals \X Users
    BY DEF PropTypeOK
  <2>2. ASSUME NEW k \in DOMAIN users' PROVE users'[k] \in VoteInfos
    BY <1>5, <2>2 DEF PropTypeOK
  <2> QED
    BY <1>4, <1>5, <2>1, <2>2 DEF PropTypeOK
<1>7. VotesBecome(ids, user, new)
  BY <1>4, <1>5 DEF VotesBecome
<1>8. ASSUME NEW id, NEW u
      PROVE  RecordedVote(id, u)' = IF id \in ids /\ u = user THEN new[id] ELSE RecordedVote(id, u)
  <2>1. <<id, u>> \in ids \X {user} <=> id \in ids /\ u = user
    OBVIOUS
  <2>2. <<id, u>>[1] = id /\ <<id, u>>[2] = u
    OBVIOUS
  <2> QED
    BY <1>5, <2>1, <2>2, Zenon DEF RecordedVote
<1>9. TalliesInv'
  <2> SUFFICES ASSUME NEW id \in DOMAIN props \ reopened, NEW o \in VoteOptions
               PROVE  props'[id].vp[o] = Counted(id, o)'
    BY <1>4 DEF TalliesInv
  <2> DEFINE f == [u \in Users |-> VoteFor(RecordedVote(id, u), o)]
             g == [u \in Users |-> VoteFor(RecordedVote(id, u)', o)]
  <2>1. Counted(id, o) = Total(f) /\ Counted(id, o)' = Total(g)
    BY DEF Counted, VoteFor
  <2>2. props[id].vp[o] = Total(f)
    BY <2>1 DEF TalliesInv
  <2>3. CASE id \notin ids
    <3>1. g = f
      BY <1>8, <2>3
    <3> QED
      BY <1>4, <2>1, <2>2, <2>3, <3>1
  <2>4. CASE id \in ids
    <3>1. f \in [Users -> Nat] /\ f[user] = VoteFor(old(id), o)
      BY CountedType
    <3>2. g[user] = VoteFor(new[id], o) /\ \A u \in Users \ {user} : g[u] = f[u]
      BY <1>8, <2>4
    <3>3. VoteFor(new[id], o) \in Nat /\ VoteFor(old(id), o) \in Nat
      BY <2>4, RecordedVoteType, VoteForType
    <3>4. g \in [Users -> Nat]
      <4>1. \A u \in Users : g[u] \in Nat
        BY <3>1, <3>2, <3>3
      <4> QED
        BY <4>1
    <3> HIDE DEF f, g
    <3>5. Total(g) + f[user] = Total(f) + g[user] /\ Total(g) \in Nat
      BY <3>1, <3>2, <3>4, SumChange, SumType, EscrowAssumption
    <3>6. q(id).vp[o] + VoteFor(old(id), o) = Total(f) + VoteFor(new[id], o)
      BY <1>2, <2>2, <2>4
    <3>7. q(id).vp[o] \in Nat /\ props'[id].vp[o] = q(id).vp[o]
      BY <1>2, <1>4, <2>4 DEF PropsLike
    <3> QED
      BY <2>1, <3>1, <3>2, <3>3, <3>5, <3>6, <3>7
  <2> QED
    BY <2>3, <2>4
<1>10. VotersInv'
  <2> DEFINE entry(k) == VoterEntry(k[1], k[2], users[k])
             stays(e) == ~ (e.id \in ids /\ e.user = user /\ e.vp = old(e.id).vp)
             touched(k) == k[1] \in ids /\ k[2] = user
  <2>1. ASSUME NEW k \in DOMAIN users
        PROVE  stays(entry(k)) <=> ~ touched(k)
    <3>1. entry(k).id = k[1] /\ entry(k).user = k[2] /\ entry(k).vp = users[k].vp
      BY DEF VoterEntry
    <3>2. k = <<k[1], k[2]>>
      BY DEF PropTypeOK
    <3>3. k[2] = user => old(k[1]) = users[k]
      BY <3>2, Zenon DEF RecordedVote
    <3> QED
      BY <3>1, <3>3, Zenon
  <2>2. ASSUME NEW e \in voters'
        PROVE  \E k \in DOMAIN users' : e = VoterEntry(k[1], k[2], users'[k])
    <3>1. CASE e \in voters /\ stays(e)
      <4>1. PICK k \in DOMAIN users : e = entry(k)
        BY <3>1 DEF VotersInv
      <4>2. k \in DOMAIN users' /\ users'[k] = users[k]
        BY <1>5, <2>1, <3>1, <4>1
      <4> QED
        BY <4>1, <4>2
    <3>2. CASE \E id \in ids : e = VoterEntry(id, user, new[id])
      <4>1. PICK id \in ids : e = VoterEntry(id, user, new[id])
        BY <3>2
      <4>2. <<id, user>> \in DOMAIN users' /\ <<id, user>>[1] = id /\ <<id, user>>[2] = user
        BY <1>5
      <4>3. users'[<<id, user>>] = new[id]
        BY <1>5, <4>2, Zenon
      <4> QED
        BY <4>1, <4>2, <4>3, Zenon
    <3> QED
      BY <1>1, <3>1, <3>2
  <2>3. ASSUME NEW k \in DOMAIN users'
        PROVE  VoterEntry(k[1], k[2], users'[k]) \in voters'
    <3>1. CASE touched(k)
      BY <1>1, <1>5, <3>1
    <3>2. CASE ~ touched(k)
      <4>1. k \in DOMAIN users /\ users'[k] = users[k]
        <5>1. k \notin ids \X {user}
          BY <3>2
        <5> QED
          BY <1>5, <3>2, <5>1
      <4>2. entry(k) \in voters /\ stays(entry(k))
        BY <2>1, <3>2, <4>1 DEF VotersInv
      <4> QED
        BY <1>1, <4>1, <4>2
    <3> QED
      BY <3>1, <3>2
  <2> QED
    BY <2>2, <2>3 DEF VotersInv
<1>11. HubInv'
  BY <1>1, <1>2, <1>3, SavedVote
<1> QED
  BY <1>6, <1>7, <1>9, <1>10, <1>11

-----------------------------------------------------------------------------
(* The power of a vote.                                                    *)

\* The votes that update_vote_state records are votes.
LEMMA UserVoteType ==
  ASSUME NEW pt \in Points, NEW end \in Nat, NEW p, p.period \in Nat, NEW vote \in VoteOptions,
         Period \in Nat, pt.start <= Period, Period <= p.period \/ end <= p.period
  PROVE  UserVote(get_user_lock_info(pt, end), p, vote) \in VoteInfos
<1> DEFINE vp == calc_voting_power_for_prop(get_user_lock_info(pt, end), p)
<1>1. calc_voting_power(pt, Period) \in Nat /\ pt.slope \in Nat /\ pt.fixed \in Nat
  BY VotingPowerNat DEF Points
<1>2. vp \in Nat
  <2>1. vp = pt.fixed + IF Period = p.period THEN calc_voting_power(pt, Period)
                        ELSE IF end <= p.period THEN 0
                        ELSE SatSub(calc_voting_power(pt, Period), pt.slope * (p.period - Period))
    BY DEF calc_voting_power_for_prop, get_user_lock_info
  <2>2. CASE Period = p.period \/ end <= p.period
    BY <1>1, <2>1, <2>2
  <2>3. CASE ~ (Period = p.period \/ end <= p.period)
    <3>1. p.period - Period \in Nat
      BY <2>3
    <3>2. pt.slope * (p.period - Period) \in Nat
      BY <1>1, <3>1, MulNat
    <3>3. SatSub(calc_voting_power(pt, Period), pt.slope * (p.period - Period)) \in Nat
      BY <1>1, <3>2 DEF SatSub
    <3> QED
      BY <1>1, <2>1, <2>3, <3>3
  <2> QED
    BY <2>2, <2>3
<1> HIDE DEF vp
<1>3. UserVote(get_user_lock_info(pt, end), p, vote) =
        [current_vote |-> IF vp = 0 THEN "Abstain" ELSE vote, vp |-> vp]
  BY DEF UserVote, vp
<1> QED
  BY <1>2, <1>3, OptionsAre DEF VoteInfos

\* For a proposal whose period is not over, the power projected from what the escrow
\* reports of a lock now is the power it will report in that period.
LEMMA PowerIsProjected ==
  ASSUME NEW pt \in Points, NEW end \in Nat, NEW p, p.period \in Nat,
         Period \in Nat, pt.start <= Period, Period <= p.period,
         pt.power = pt.slope * SatSub(pt.end, pt.start),
         pt.fixed = 0 => pt.power = 0 /\ pt.slope = 0,
         pt.fixed = 0 \/ pt.end = end
  PROVE  calc_voting_power_for_prop(get_user_lock_info(pt, end), p) =
           pt.fixed + IF pt.start = p.period THEN pt.power
                      ELSE IF pt.end <= p.period THEN 0
                      ELSE calc_voting_power(pt, p.period)
<1> DEFINE vp == calc_voting_power_for_prop(get_user_lock_info(pt, end), p)
           now_power == calc_voting_power(pt, Period)
<1>1. /\ pt.power \in Nat /\ pt.slope \in Nat /\ pt.fixed \in Nat
      /\ pt.start \in Nat /\ pt.end \in Nat
  BY DEF Points
<1>2. vp = pt.fixed + IF Period = p.period THEN now_power
                      ELSE IF end <= p.period THEN 0
                      ELSE SatSub(now_power, pt.slope * (p.period - Period))
  BY DEF calc_voting_power_for_prop, get_user_lock_info
<1>3. SatSub(now_power, pt.slope * (p.period - Period)) = calc_voting_power(pt, p.period)
  BY DecayInParts
<1>5. CASE pt.fixed = 0
  <2>1. pt.power = 0 /\ pt.slope = 0
    BY <1>5
  <2>2. now_power = 0 /\ calc_voting_power(pt, p.period) = 0
    BY <1>1, <2>1 DEF calc_voting_power, SatSub
  <2> HIDE DEF vp, now_power
  <2> QED
    BY <1>2, <1>3, <2>1, <2>2 DEF vp
<1>6. CASE pt.end = end /\ Period = p.period /\ pt.start # Period
  <2>1. CASE pt.end <= Period
    <3> DEFINE a == SatSub(pt.end, pt.start)
               b == Period - pt.start
    <3>1. a \in Nat /\ b \in Nat /\ a <= b
      BY <1>1, <1>6, <2>1 DEF SatSub
    <3> HIDE DEF a, b
    <3>2. pt.slope * a <= pt.slope * b /\ pt.slope * a \in Nat /\ pt.slope * b \in Nat
      BY <1>1, <3>1, SMT
    <3>3. SatSub(pt.slope * a, pt.slope * b) = 0
      BY <3>2 DEF SatSub
    <3>4. now_power = 0
      BY <3>3 DEF calc_voting_power, a, b
    <3> HIDE DEF vp, now_power
    <3> QED
      BY <1>2, <1>6, <2>1, <3>4 DEF vp
  <2>2. CASE ~ (pt.end <= Period)
    BY <1>2, <1>6, <2>2
  <2> QED
    BY <2>1, <2>2
<1>7. CASE Period = p.period /\ pt.start = Period
  <2>1. now_power = pt.power
    BY <1>1, <1>7 DEF calc_voting_power, SatSub
  <2> HIDE DEF vp, now_power
  <2> QED
    BY <1>2, <1>7, <2>1 DEF vp
<1>8. CASE pt.end = end /\ Period # p.period
  <2>1. pt.start # p.period
    BY <1>1, <1>8
  <2> HIDE DEF vp, now_power
  <2> QED
    BY <1>2, <1>3, <1>8, <2>1 DEF vp
<1> QED
  BY <1>5, <1>6, <1>7, <1>8

\* No lock has kept power beyond its line.
NothingKept(causes) == "kept power" \notin causes

\* The inductive invariant of tallies and votes.
PropInv == EscrowInv /\ PropTypeOK /\ TalliesInv /\ VotersInv /\ HubInv /\ VotesFollowEscrow

\* A user's votes on the proposals in ids are replaced by what the escrow says of the
\* user's lock after the transaction; either no other vote of the user can still count, or
\* the lock did not change.
LEMMA UpdateKeeps ==
  ASSUME PropInv, EscrowInv', NEW user \in Users, now' = now, drift \subseteq drift',
         \A u \in Users \ {user} : point'[u] = point[u], reopened' = reopened,
         NEW ids, ids \subseteq DOMAIN props, NEW vote, \A id \in ids : vote[id] \in VoteOptions,
         NEW total_vp,
         update_vote_state(ids, user, get_user_lock_info(point'[user], locked'[user].end),
                           vote, total_vp),
         \/ point'[user] = point[user]
         \/ \A id \in all_active_props : <<id, user>> \in DOMAIN users => id \in ids
  PROVE  PropInv'
<1> DEFINE lock == get_user_lock_info(point'[user], locked'[user].end)
           new  == [id \in ids |-> UserVote(lock, props[id], vote[id])]
<1>1. /\ Period \in Nat /\ Period' = Period
      /\ point'[user] \in Points /\ point'[user].start <= Period /\ locked'[user].end \in Nat
  BY PeriodsNat DEF PropInv, EscrowInv, EscrowTypeOK, Period
<1>2. \A id \in ids : Period <= props[id].period \/ locked'[user].end <= props[id].period
  BY DEF update_vote_state, get_user_lock_info
<1>3. \A id \in ids : props[id].period \in Nat
  BY DEF PropInv, PropTypeOK, IsProp, PropsLike
<1>4. new \in [ids -> VoteInfos]
  BY <1>1, <1>2, <1>3, UserVoteType
<1>5. \A id \in ids : new[id] = UserVote(lock, props[id], vote[id])
  BY Zenon
<1>6. update_vote_state(ids, user, lock, vote, total_vp)
  OBVIOUS
<1> HIDE DEF new, lock
<1>7. PropTypeOK' /\ TalliesInv' /\ VotersInv' /\ HubInv' /\ VotesBecome(ids, user, new)
  BY <1>4, <1>5, <1>6, VotesReplaced DEF PropInv
<1>8. VotesFollowEscrow'
  <2> SUFFICES ASSUME NothingKept(drift'), NEW k \in DOMAIN users',
                      k[1] \in DOMAIN props \ reopened, props[k[1]].end_time_s >= now
               PROVE  users'[k].vp = get_user_vamp_at_period(k[2], props[k[1]].period)'
    BY <1>7, Zenon DEF VotesFollowEscrow, VotesBecome, NothingKept
  <2> DEFINE p == props[k[1]]
  <2>1. p.period \in Nat /\ Period <= p.period
    <3>1. p.end_time_s \in Nat /\ p.period = get_periods_count(p.end_time_s) /\ now \in Nat
      BY DEF PropInv, PropTypeOK, IsProp, PropsLike, EscrowInv, EscrowTypeOK
    <3>2. p.end_time_s - now \in Nat /\ p.end_time_s = now + (p.end_time_s - now)
      BY <3>1
    <3> HIDE DEF p
    <3> QED
      BY <3>1, <3>2, PeriodsNat DEF Period
  <2> DEFINE vamp(pt) == pt.fixed + IF pt.start = p.period THEN pt.power
                                    ELSE IF pt.end <= p.period THEN 0
                                    ELSE calc_voting_power(pt, p.period)
  <2>5. get_user_vamp_at_period(k[2], props[k[1]].period)' = vamp(point'[k[2]])
    <3>1. props'[k[1]].period = p.period
      BY <1>7 DEF VotesBecome
    <3> QED
      BY <3>1, Zenon DEF get_user_vamp_at_period, calc_voting_power, SatSub
  <2>2. CASE k[2] = user /\ k[1] \in ids
    <3>1. users'[k] = UserVote(lock, p, vote[k[1]])
      BY <1>5, <1>7, <2>2 DEF VotesBecome
    <3>2. users'[k].vp = calc_voting_power_for_prop(lock, p)
      BY <3>1 DEF UserVote
    <3>3. /\ point'[user].fixed = 0 \/ point'[user].end = locked'[user].end
          /\ point'[user].fixed = 0 => point'[user].power = 0 /\ point'[user].slope = 0
          /\ point'[user].power =
               point'[user].slope * SatSub(point'[user].end, point'[user].start)
      <4>1. UserInv(user)' /\ locked'[user].amount \in Nat
        BY DEF EscrowInv, EscrowTypeOK
      <4>2. point'[user].fixed = 0 \/ point'[user].end = locked'[user].end
        BY <4>1 DEF UserInv
      <4>3. /\ point'[user].fixed = 0 => point'[user].power = 0 /\ point'[user].slope = 0
            /\ point'[user].power =
                 point'[user].slope * SatSub(point'[user].end, point'[user].start)
        BY <4>1, Zenon DEF UserInv, OnItsLine, NothingKept, SatSub
      <4> QED
        BY <4>2, <4>3, Zenon
    <3> DEFINE pt == point'[user]
               end == locked'[user].end
    <3>4. calc_voting_power_for_prop(get_user_lock_info(pt, end), p) =
            pt.fixed + IF pt.start = p.period THEN pt.power
                       ELSE IF pt.end <= p.period THEN 0
                       ELSE calc_voting_power(pt, p.period)
      <4>1. pt \in Points /\ end \in Nat /\ pt.start <= Period
        BY <1>1
      <4> HIDE DEF pt, end, p
      <4> QED
        BY <1>1, <2>1, <3>3, <4>1, PowerIsProjected DEF pt, end
    <3> QED
      BY <2>2, <2>5, <3>2, <3>4, Zenon DEF lock
  <2>3. CASE ~ (k[2] = user /\ k[1] \in ids)
    <3>1. k \in DOMAIN users /\ users'[k] = users[k]
      <4>1. k \notin ids \X {user}
        BY <2>3
      <4> QED
        BY <1>7, <2>3, <4>1 DEF VotesBecome
    <3>2. k[2] \in Users /\ k = <<k[1], k[2]>>
      BY <3>1 DEF PropInv, PropTypeOK
    <3>3. point'[k[2]] = point[k[2]]
      <4>1. k[1] \in all_active_props
        BY DEF all_active_props
      <4> QED
        BY <2>3, <3>1, <3>2, <4>1, Zenon
    <3>4. users[k].vp = get_user_vamp_at_period(k[2], p.period)
      BY <3>1, Zenon DEF PropInv, VotesFollowEscrow, NothingKept
    <3>5. get_user_vamp_at_period(k[2], p.period) = vamp(point[k[2]])
      BY DEF get_user_vamp_at_period
    <3> QED
      BY <2>5, <3>1, <3>3, <3>4, <3>5, Zenon
  <2> QED
    BY <2>2, <2>3
<1> QED
  BY <1>7, <1>8 DEF PropInv

-----------------------------------------------------------------------------
(* The transactions.                                                       *)

\* A lock changes, and the escrow tells the gauges.
LEMMA LockChangeKeepsVotes ==
  ASSUME PropInv, NEW user \in Users, LockChange(user), update_vote(user)
  PROVE  PropInv'
<1> DEFINE ids == {id \in all_active_props : <<id, user>> \in DOMAIN users}
           vote == [i \in ids |-> users[<<i, user>>].current_vote]
<1>1. /\ EscrowInv' /\ now' = now /\ drift \subseteq drift'
      /\ \A u \in Users \ {user} : locked'[u] = locked[u] /\ point'[u] = point[u]
  BY LockChangeKeeps DEF PropInv
<1>2. ids \subseteq DOMAIN props /\ \A id \in ids : vote[id] \in VoteOptions
  BY DEF all_active_props, PropInv, PropTypeOK, VoteInfos
<1>3. PICK total_vp :
        update_vote_state(ids, user, get_user_lock_info(point'[user], locked'[user].end),
                          vote, total_vp)
  BY DEF update_vote
<1>4. reopened' = reopened
  BY DEF update_vote
<1>5. \A id \in all_active_props : <<id, user>> \in DOMAIN users => id \in ids
  OBVIOUS
<1> HIDE DEF ids, vote
<1> QED
  BY <1>1, <1>2, <1>3, <1>4, <1>5, UpdateKeeps

\* A user votes; the escrow stays.
LEMMA VoteKeepsVotes ==
  ASSUME PropInv, NEW id \in Proposals, NEW user \in Users, NEW option \in Options,
         handle_vote(id, user, option)
  PROVE  PropInv'
<1> DEFINE ids == {id}
           vote == [i \in ids |-> option]
<1>1. UNCHANGED escrowVars /\ reopened' = reopened
  BY DEF handle_vote
<1>2. /\ EscrowInv' /\ now' = now /\ drift \subseteq drift'
      /\ point' = point /\ locked' = locked
  BY <1>1, EscrowStutters DEF PropInv, escrowVars
<1>3. ids \subseteq DOMAIN props /\ \A i \in ids : vote[i] \in VoteOptions
  BY PropAssumption DEF handle_vote
<1>4. PICK total_vp :
        update_vote_state(ids, user, get_user_lock_info(point'[user], locked'[user].end),
                          vote, total_vp)
  BY <1>2 DEF handle_vote
<1> HIDE DEF ids, vote
<1> QED
  BY <1>1, <1>2, <1>3, <1>4, UpdateKeeps

\* A proposal is created.  If votes are recorded under its id, it counts as reopened.
LEMMA InitPropKeepsVotes ==
  ASSUME PropInv, NEW id \in Proposals, NEW end_time_s \in EndTimes, init_prop(id, end_time_s)
  PROVE  PropInv'
<1> DEFINE p == [end_time_s |-> end_time_s, period |-> get_periods_count(end_time_s),
                 vp |-> EmptyBallot,
                 total_vp |-> get_total_vamp_at_period(get_periods_count(end_time_s)),
                 current_vote |-> "None"]
<1>1. /\ id \notin DOMAIN props /\ props' = Put(props, id, p)
      /\ users' = users /\ voters' = voters /\ UNCHANGED escrowVars
      /\ cast' = cast /\ weighted' = weighted
  BY DEF init_prop
<1>2. EscrowInv' /\ now' = now /\ point' = point /\ drift' = drift
  BY <1>1, EscrowStutters DEF PropInv, escrowVars
<1>3. IsProp(p) /\ p.vp = EmptyBallot /\ p.current_vote = "None"
  <2>1. end_time_s \in Nat /\ get_periods_count(end_time_s) \in Nat
    BY PropAssumption, PeriodsNat
  <2>2. EmptyBallot \in [VoteOptions -> Nat]
    BY DEF EmptyBallot
  <2> QED
    BY <2>1, <2>2 DEF IsProp, PropsLike
<1> HIDE DEF p
<1>4. /\ DOMAIN props' = DOMAIN props \cup {id} /\ props'[id] = p
      /\ \A i \in DOMAIN props : props'[i] = props[i]
  BY <1>1 DEF Put
<1>5. PropTypeOK'
  BY <1>1, <1>3, <1>4 DEF PropInv, PropTypeOK
<1>6. reopened \subseteq reopened' /\ (id \in reopened' \/ \A u \in Users : <<id, u>> \notin DOMAIN users)
  BY DEF init_prop
<1>7. TalliesInv'
  <2> SUFFICES ASSUME NEW i \in DOMAIN props' \ reopened', NEW o \in VoteOptions
               PROVE  props'[i].vp[o] = Counted(i, o)
    <3>1. \A i, o : Counted(i, o)' = Counted(i, o)
      BY <1>1 DEF Counted, RecordedVote
    <3> QED
      BY <3>1 DEF TalliesInv
  <2>1. CASE i \in DOMAIN props
    BY <1>4, <1>6, <2>1 DEF PropInv, TalliesInv
  <2>2. CASE i = id
    <3> DEFINE f == [u \in Users |-> VoteFor(RecordedVote(id, u), o)]
    <3>1. \A u \in Users : f[u] = 0
      BY <1>6, <2>2 DEF RecordedVote, NoVote, VoteFor
    <3>2. f \in [Users -> Nat]
      BY CountedType DEF PropInv
    <3> HIDE DEF f
    <3>3. Total(f) = 0
      BY <3>1, <3>2, SumZero, EscrowAssumption
    <3> QED
      BY <1>3, <1>4, <2>2, <3>3 DEF EmptyBallot, Counted, f
  <2> QED
    BY <1>4, <2>1, <2>2
<1>8. VotersInv'
  BY <1>1 DEF PropInv, VotersInv
<1>9. VotesFollowEscrow'
  <2> SUFFICES ASSUME NothingKept(drift), NEW k \in DOMAIN users,
                      k[1] \in DOMAIN props' \ reopened', props'[k[1]].end_time_s >= now
               PROVE  users[k].vp = get_user_vamp_at_period(k[2], props[k[1]].period)'
    BY <1>1, <1>2, Zenon DEF VotesFollowEscrow, NothingKept
  <2>1. k[2] \in Users /\ k = <<k[1], k[2]>>
    BY DEF PropInv, PropTypeOK
  <2>2. k[1] # id
    BY <1>6, <2>1
  <2>3. k[1] \in DOMAIN props \ reopened /\ props'[k[1]] = props[k[1]]
    BY <1>4, <1>6, <2>2
  <2>4. users[k].vp = get_user_vamp_at_period(k[2], props[k[1]].period)
    BY <2>3, Zenon DEF PropInv, VotesFollowEscrow, NothingKept
  <2> QED
    BY <1>2, <2>3, <2>4, Zenon DEF get_user_vamp_at_period, calc_voting_power, SatSub
<1>10. HubInv'
  <2> SUFFICES ASSUME NEW i \in DOMAIN props' \ reopened'
               PROVE  /\ props'[i].current_vote # "None" => cast[i] = Plain(props'[i].current_vote)
                      /\ props'[i].current_vote = "None" /\ i \notin weighted =>
                           cast[i] \in {NoMessage, Plain("Abstain")}
                      /\ cast[i].kind = "weighted" => Total(cast[i].ballot) = RoundingFactor
    BY <1>1, Zenon DEF PropInv, HubInv, HubVoteFollows, Plain, NoMessage, Ballot, EmptyBallot
  <2>1. CASE i \in DOMAIN props
    BY <1>4, <1>6, <2>1, Zenon DEF PropInv, HubInv, HubVoteFollows
  <2>2. CASE i = id
    <3>1. cast[id] = NoMessage
      BY <2>2 DEF init_prop
    <3>2. NoMessage.kind # "weighted"
      BY DEF NoMessage
    <3> QED
      BY <1>3, <1>4, <2>2, <3>1, <3>2, Zenon
  <2> QED
    BY <1>4, <2>1, <2>2
<1> QED
  BY <1>2, <1>5, <1>7, <1>8, <1>9, <1>10 DEF PropInv

\* Steps that leave the votes alone: proposals are removed, the configuration changes, time
\* passes.
LEMMA OthersKeepVotes ==
  ASSUME PropInv, EscrowInv', UNCHANGED <<users, voters, reopened, point, drift, cast, weighted>>,
         now' >= now,
         DOMAIN props' \subseteq DOMAIN props, \A id \in DOMAIN props' : props'[id] = props[id]
  PROVE  PropInv'
<1>1. PropTypeOK'
  BY DEF PropInv, PropTypeOK
<1>2. TalliesInv' /\ VotersInv'
  <2>1. \A i, o : Counted(i, o)' = Counted(i, o)
    BY DEF Counted, RecordedVote
  <2> QED
    BY <2>1 DEF PropInv, TalliesInv, VotersInv
<1>3. VotesFollowEscrow'
  <2> SUFFICES ASSUME NothingKept(drift), NEW k \in DOMAIN users,
                      k[1] \in DOMAIN props' \ reopened, props'[k[1]].end_time_s >= now'
               PROVE  users[k].vp = get_user_vamp_at_period(k[2], props[k[1]].period)'
    BY Zenon DEF VotesFollowEscrow, NothingKept
  <2>1. k[1] \in DOMAIN props \ reopened /\ props'[k[1]] = props[k[1]]
    OBVIOUS
  <2>2. props[k[1]].end_time_s >= now
    <3>1. now \in Nat /\ now' \in Nat /\ props[k[1]].end_time_s \in Nat
      BY <2>1 DEF PropInv, PropTypeOK, IsProp, PropsLike, EscrowInv, EscrowTypeOK
    <3> QED
      BY <2>1, <3>1
  <2>3. users[k].vp = get_user_vamp_at_period(k[2], props[k[1]].period)
    BY <2>1, <2>2, Zenon DEF PropInv, VotesFollowEscrow, NothingKept
  <2> QED
    BY <2>1, <2>3, Zenon DEF get_user_vamp_at_period, calc_voting_power, SatSub
<1>4. HubInv'
  <2> SUFFICES ASSUME NEW i \in DOMAIN props' \ reopened
               PROVE  /\ props'[i].current_vote # "None" => cast[i] = Plain(props'[i].current_vote)
                      /\ props'[i].current_vote = "None" /\ i \notin weighted =>
                           cast[i] \in {NoMessage, Plain("Abstain")}
                      /\ cast[i].kind = "weighted" => Total(cast[i].ballot) = RoundingFactor
    BY Zenon DEF PropInv, HubInv, HubVoteFollows, Plain, NoMessage, Ballot, EmptyBallot
  <2>1. i \in DOMAIN props \ reopened /\ props'[i] = props[i]
    OBVIOUS
  <2> QED
    BY <2>1, Zenon DEF PropInv, HubInv, HubVoteFollows
<1> QED
  BY <1>1, <1>2, <1>3, <1>4 DEF PropInv

\* A user is removed: the votes on the active proposals are taken off, those on the others
\* stay recorded and counted.
LEMMA RemovalKeepsVotes ==
  ASSUME PropInv, NEW user \in Users, remove_user(user)
  PROVE  PropInv'
<1> DEFINE ids == {id \in all_active_props : <<id, user>> \in DOMAIN users}
           old(id) == users[<<id, user>>]
           r(id) == remove_vote_of_user(props[id], old(id))
           tally == [id \in ids |-> r(id)]
<1>1. /\ \A id \in ids : props[id].vp[old(id).current_vote] >= old(id).vp
      /\ users' = Restrict(users, DOMAIN users \ (ids \X {user}))
      /\ voters' = voters \ {VoterEntry(id, user, old(id)) : id \in ids}
      /\ reopened' = reopened /\ UNCHANGED escrowVars
  BY DEF remove_user
<1>2. PICK total_vp : SaveProps(tally, total_vp)
  BY DEF remove_user
<1>3. EscrowInv' /\ now' = now /\ point' = point /\ drift' = drift
  BY <1>1, EscrowStutters DEF PropInv, escrowVars
<1>4. ids \subseteq DOMAIN props /\ \A id \in ids : <<id, user>> \in DOMAIN users
  BY DEF all_active_props
<1>5. ASSUME NEW id \in ids
      PROVE  /\ r(id) \in PropsLike(props[id])
             /\ r(id).end_time_s = props[id].end_time_s /\ r(id).period = props[id].period
             /\ r(id).current_vote = props[id].current_vote
             /\ \A o \in VoteOptions : r(id).vp[o] + VoteFor(old(id), o) = props[id].vp[o]
  <2>1. props[id] \in PropsLike(props[id]) /\ old(id) \in VoteInfos
    BY <1>4 DEF PropInv, PropTypeOK, IsProp
  <2>2. props[id].vp[old(id).current_vote] >= old(id).vp
    BY <1>1
  <2> HIDE DEF old
  <2> QED
    BY <2>1, <2>2, TallyFalls
<1> HIDE DEF ids, r
<1>6. DOMAIN tally = ids /\ \A id \in ids : tally[id] = r(id)
  OBVIOUS
<1> HIDE DEF tally
<1>7. /\ DOMAIN props' = DOMAIN props
      /\ \A id \in DOMAIN props :
           /\ IsProp(props'[id])
           /\ props'[id].end_time_s = props[id].end_time_s
           /\ props'[id].period = props[id].period
           /\ props'[id].vp = IF id \in ids THEN r(id).vp ELSE props[id].vp
  <2>1. \A id \in ids :
          /\ tally[id] \in PropsLike(props[id])
          /\ tally[id].end_time_s = props[id].end_time_s /\ tally[id].period = props[id].period
    BY <1>5, <1>6
  <2>2. PropTypeOK
    BY DEF PropInv
  <2> QED
    BY <1>2, <1>4, <1>6, <2>1, <2>2, SavedProp
<1>8. /\ DOMAIN users' = DOMAIN users \ (ids \X {user})
      /\ \A k \in DOMAIN users' : users'[k] = users[k]
  BY <1>1 DEF Restrict
<1>9. PropTypeOK'
  BY <1>7, <1>8 DEF PropInv, PropTypeOK
<1>10. ASSUME NEW id, NEW u
       PROVE  RecordedVote(id, u)' = IF id \in ids /\ u = user THEN NoVote ELSE RecordedVote(id, u)
  <2>1. <<id, u>> \in ids \X {user} <=> id \in ids /\ u = user
    OBVIOUS
  <2> QED
    BY <1>8, <2>1, Zenon DEF RecordedVote, NoVote
<1>11. TalliesInv'
  <2> SUFFICES ASSUME NEW id \in DOMAIN props \ reopened, NEW o \in VoteOptions
               PROVE  props'[id].vp[o] = Counted(id, o)'
    BY <1>1, <1>7 DEF TalliesInv
  <2> DEFINE f == [u \in Users |-> VoteFor(RecordedVote(id, u), o)]
             g == [u \in Users |-> VoteFor(RecordedVote(id, u)', o)]
  <2>1. Counted(id, o) = Total(f) /\ Counted(id, o)' = Total(g)
    BY DEF Counted, VoteFor
  <2>2. props[id].vp[o] = Total(f)
    BY <2>1 DEF PropInv, TalliesInv
  <2>3. CASE id \notin ids
    <3>1. g = f
      BY <1>10, <2>3
    <3> QED
      BY <1>7, <2>1, <2>2, <2>3, <3>1
  <2>4. CASE id \in ids
    <3>1. f \in [Users -> Nat] /\ f[user] = VoteFor(old(id), o)
      BY <1>4, <2>4, CountedType DEF PropInv, RecordedVote
    <3>2. g[user] = 0 /\ \A u \in Users \ {user} : g[u] = f[u]
      BY <1>10, <2>4 DEF NoVote, VoteFor
    <3>3. g \in [Users -> Nat]
      <4>1. \A u \in Users : g[u] \in Nat
        BY <3>1, <3>2
      <4> QED
        BY <4>1
    <3> HIDE DEF f, g
    <3>4. Total(g) + f[user] = Total(f) + g[user] /\ Total(g) \in Nat
      BY <3>1, <3>2, <3>3, SumChange, SumType, EscrowAssumption
    <3>5. r(id).vp[o] + VoteFor(old(id), o) = Total(f)
      BY <1>5, <2>2, <2>4
    <3>6. r(id).vp[o] \in Nat /\ props'[id].vp[o] = r(id).vp[o]
      BY <1>5, <1>7, <2>4 DEF PropsLike
    <3> QED
      BY <2>1, <3>1, <3>2, <3>4, <3>5, <3>6
  <2> QED
    BY <2>3, <2>4
<1>12. VotersInv'
  <2> DEFINE entry(k) == VoterEntry(k[1], k[2], users[k])
             touched(k) == k[1] \in ids /\ k[2] = user
  <2>1. ASSUME NEW k \in DOMAIN users
        PROVE  /\ k \in ids \X {user} <=> touched(k)
               /\ entry(k) \in {VoterEntry(id, user, old(id)) : id \in ids} <=> touched(k)
    <3>1. k = <<k[1], k[2]>>
      BY DEF PropInv, PropTypeOK
    <3>2. touched(k) => entry(k) = VoterEntry(k[1], user, old(k[1]))
      BY <3>1, Zenon
    <3>3. ASSUME NEW id \in ids, entry(k) = VoterEntry(id, user, old(id)) PROVE touched(k)
      <4>1. entry(k).id = k[1] /\ entry(k).user = k[2]
        BY DEF VoterEntry
      <4>2. VoterEntry(id, user, old(id)).id = id /\ VoterEntry(id, user, old(id)).user = user
        BY DEF VoterEntry
      <4> QED
        BY <3>3, <4>1, <4>2, Zenon
    <3>4. k \in ids \X {user} <=> touched(k)
      BY <3>1
    <3> QED
      BY <3>2, <3>3, <3>4, Zenon
  <2>2. voters = {entry(k) : k \in DOMAIN users}
    BY DEF PropInv, VotersInv
  <2>3. ASSUME NEW e
        PROVE  e \in voters' <=> \E k \in DOMAIN users' : e = VoterEntry(k[1], k[2], users'[k])
    <3> DEFINE gone == {VoterEntry(id, user, old(id)) : id \in ids}
    <3>1. voters' = voters \ gone
      BY <1>1
    <3>2. \A k \in DOMAIN users : entry(k) \in gone <=> ~ (k \in DOMAIN users')
      BY <1>8, <2>1
    <3>3. \A k \in DOMAIN users' : k \in DOMAIN users /\ VoterEntry(k[1], k[2], users'[k]) = entry(k)
      BY <1>8
    <3> HIDE DEF gone, entry
    <3> QED
      BY <2>2, <3>1, <3>2, <3>3
  <2> QED
    BY <2>3 DEF VotersInv
<1>13. VotesFollowEscrow'
  <2> SUFFICES ASSUME NothingKept(drift), NEW k \in DOMAIN users',
                      k[1] \in DOMAIN props \ reopened, props'[k[1]].end_time_s >= now
               PROVE  users'[k].vp = get_user_vamp_at_period(k[2], props[k[1]].period)'
    BY <1>1, <1>3, <1>7, Zenon DEF VotesFollowEscrow, NothingKept
  <2>1. k \in DOMAIN users /\ users'[k] = users[k]
    BY <1>8
  <2>2. /\ props'[k[1]].period = props[k[1]].period
        /\ props'[k[1]].end_time_s = props[k[1]].end_time_s
    BY <1>7
  <2>3. users[k].vp = get_user_vamp_at_period(k[2], props[k[1]].period)
    BY <2>1, <2>2, Zenon DEF PropInv, VotesFollowEscrow, NothingKept
  <2> QED
    BY <1>3, <2>1, <2>2, <2>3, Zenon DEF get_user_vamp_at_period, calc_voting_power, SatSub
<1>14. HubInv'
  <2>1. \A id \in ids : tally[id] \in PropsLike(props[id])
                        /\ tally[id].current_vote = props[id].current_vote
    BY <1>5, <1>6
  <2>2. PropTypeOK /\ HubInv
    BY DEF PropInv
  <2> QED
    BY <1>1, <1>2, <1>4, <1>6, <2>1, <2>2, SavedVote
<1> QED
  BY <1>3, <1>9, <1>11, <1>12, <1>13, <1>14 DEF PropInv

\* Every step keeps the invariant.
LEMMA PropInvStep == PropInv /\ [PropNext]_vars => PropInv'
<1> SUFFICES ASSUME PropInv, [PropNext]_vars PROVE PropInv'
  OBVIOUS
<1>0. now \in Nat
  BY DEF PropInv, EscrowInv, EscrowTypeOK
<1>1. ASSUME NEW user \in Users, LockChange(user), update_vote(user) PROVE PropInv'
  BY <1>1, LockChangeKeepsVotes
<1>2. ASSUME NEW id \in Proposals, NEW end_time_s \in EndTimes, init_prop(id, end_time_s) PROVE PropInv'
  BY <1>2, InitPropKeepsVotes
<1>3. ASSUME NEW id \in Proposals, NEW user \in Users, NEW vote \in Options, handle_vote(id, user, vote)
      PROVE  PropInv'
  BY <1>3, VoteKeepsVotes
<1>4. ASSUME NEW user \in Users, remove_user(user) PROVE PropInv'
  BY <1>4, RemovalKeepsVotes
<1>5. ASSUME NEW id \in Proposals, remove_prop(id) PROVE PropInv'
  <2>1. UNCHANGED escrowVars /\ UNCHANGED <<users, voters, reopened, cast, weighted>> /\ props' = Without(props, id)
    BY <1>5 DEF remove_prop
  <2>2. EscrowInv' /\ now' >= now /\ UNCHANGED <<users, voters, reopened, point, drift, cast, weighted>>
    BY <1>0, <2>1, EscrowStutters DEF PropInv, escrowVars
  <2>3. DOMAIN props' \subseteq DOMAIN props /\ \A i \in DOMAIN props' : props'[i] = props[i]
    BY <2>1, WithoutMap
  <2> QED
    BY <2>2, <2>3, OthersKeepVotes
<1>6. ASSUME NEW new \in Configs, update_config(new) PROVE PropInv'
  <2>1. UNCHANGED escrowVars /\ UNCHANGED <<users, voters, reopened, props, cast, weighted>>
    BY <1>6 DEF update_config
  <2>2. EscrowInv' /\ now' >= now /\ UNCHANGED <<users, voters, reopened, point, drift, cast, weighted>>
    BY <1>0, <2>1, EscrowStutters DEF PropInv, escrowVars
  <2> QED
    BY <2>1, <2>2, OthersKeepVotes
<1>7. ASSUME NEW step \in TimeSteps, TimePasses(step) PROVE PropInv'
  <2>1. Wait(step) /\ UNCHANGED <<users, voters, reopened, props, cast, weighted>>
    BY <1>7 DEF TimePasses
  <2>2. EscrowInv'
    BY <2>1, WaitKeeps DEF PropInv
  <2>3. now' >= now /\ UNCHANGED <<point, drift>>
    BY <1>0, <2>1, EscrowAssumption DEF Wait
  <2> QED
    BY <2>1, <2>2, <2>3, OthersKeepVotes
<1>8. CASE UNCHANGED vars
  <2>1. UNCHANGED escrowVars /\ UNCHANGED <<users, voters, reopened, props, cast, weighted>>
    BY <1>8 DEF vars, propVars
  <2>2. EscrowInv' /\ now' >= now /\ UNCHANGED <<users, voters, reopened, point, drift, cast, weighted>>
    BY <1>0, <2>1, EscrowStutters DEF PropInv, escrowVars
  <2> QED
    BY <2>1, <2>2, OthersKeepVotes
<1> QED
  BY <1>1, <1>2, <1>3, <1>4, <1>5, <1>6, <1>7, <1>8 DEF PropNext

\* At first there are no proposals and no votes.
LEMMA PropInvInit == PropInit => PropInv
<1> SUFFICES ASSUME PropInit PROVE PropInv
  OBVIOUS
<1>1. EscrowInv
  BY EscrowInvInit DEF PropInit
<1>2. DOMAIN props = {} /\ DOMAIN users = {} /\ voters = {} /\ DOMAIN cast = Proposals
  BY DEF PropInit
<1>3. HubVoteFollows /\ VotesFollowEscrow
  BY <1>2, Zenon DEF HubVoteFollows, VotesFollowEscrow
<1> QED
  BY <1>1, <1>2, <1>3 DEF PropInv, PropTypeOK, TalliesInv, VotersInv, HubInv

\* The tallies over all users are those over the users with a recorded vote.
LEMMA PropInvImplies ==
  ASSUME PropInv
  PROVE  VotesAddUp
<1> SUFFICES ASSUME NEW id \in DOMAIN props \ reopened, NEW o \in VoteOptions
             PROVE  props[id].vp[o] =
                      Total([u \in {v \in Users : <<id, v>> \in DOMAIN users} |->
                               IF users[<<id, u>>].current_vote = o THEN users[<<id, u>>].vp ELSE 0])
  BY DEF PropInv, VotersInv, VotesAddUp
<1> DEFINE S == {v \in Users : <<id, v>> \in DOMAIN users}
           f == [u \in S |-> IF users[<<id, u>>].current_vote = o THEN users[<<id, u>>].vp ELSE 0]
           g == [u \in Users |-> VoteFor(RecordedVote(id, u), o)]
<1>1. g \in [Users -> Nat]
  BY CountedType DEF PropInv
<1>2. \A u \in S : g[u] = f[u]
  BY DEF RecordedVote, VoteFor
<1>3. \A u \in Users \ S : g[u] = 0
  BY DEF RecordedVote, VoteFor, NoVote
<1>4. f \in [S -> Nat]
  <2>1. \A u \in S : f[u] \in Nat
    BY <1>1, <1>2
  <2> QED
    BY <2>1
<1>5. props[id].vp[o] = Total(g)
  BY DEF PropInv, TalliesInv, Counted
<1>6. S \subseteq Users
  OBVIOUS
<1> HIDE DEF f, g, S
<1>7. Total(g) = Total(f)
  BY <1>1, <1>2, <1>3, <1>4, <1>6, SumExtend
<1> QED
  BY <1>5, <1>7 DEF f, S

\* At all times the tally of every proposal is the sum of the recorded votes, option by
\* option, and the list of voters is that of the recorded votes.
THEOREM VotesAlwaysAddUp == PropSpec => []VotesAddUp
<1>1. PropInv => VotesAddUp
  BY PropInvImplies
<1> QED
  BY <1>1, PropInvInit, PropInvStep, PTL DEF PropSpec

\* At all times every vote that can still count has the power that the escrow reports for
\* the voter in the period in which the voting ends.
THEOREM VotesAlwaysFollowEscrow == PropSpec => []VotesFollowEscrow
<1>1. PropInv => VotesFollowEscrow
  BY DEF PropInv
<1> QED
  BY <1>1, PropInvInit, PropInvStep, PTL DEF PropSpec

\* At all times the vote that is remembered of a proposal is the hub's vote on the chain, a
\* vote whose quorum was lost is taken back, and weights add up to one.
THEOREM HubVoteAlwaysFollows == PropSpec => []HubVoteFollows
<1>1. PropInv => HubVoteFollows
  BY DEF PropInv, HubInv
<1> QED
  BY <1>1, PropInvInit, PropInvStep, PTL DEF PropSpec
=============================================================================
