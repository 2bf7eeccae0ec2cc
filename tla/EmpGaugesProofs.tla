-------------------------- MODULE EmpGaugesProofs --------------------------
(***************************************************************************)
(* Proofs about the emp gauges.  What is saved of a validator is one point *)
(* from which a line is drawn.  A point agrees with the grants when its    *)
(* slope is that of the grants that have not ended and its points are no   *)
(* more than they are worth; a line drawn from such a point stays like     *)
(* that, and a grant adds the same to the line and to what was granted.    *)
(***************************************************************************)
EXTENDS EmpGauges, SumsProofs, SequenceTheorems

\* Maps from finitely many periods.
Maps == UNION {[D -> Nat] : D \in {S \in SUBSET Nat : IsFiniteSet(S)}}
Infos == [power : Nat, slope : Nat]
InfoMaps == UNION {[D -> Infos] : D \in SUBSET Nat}
Gauges == [fixed : Maps, votes : InfoMaps, changes : Maps]
Histories == [slopes : Maps, fixed : Nat]

\* The slopes that remain from period q on, and the points they are worth.
Left(slopes, q) == Total([end \in DOMAIN slopes |-> IF end >= q THEN slopes[end] ELSE 0])
WorthOf(slopes, q) == Total([end \in DOMAIN slopes |-> slopes[end] * saturating_sub(end, q)])

\* The changes up to period p are those of the grants, one period late.
ChangesOf(changes, slopes, p) ==
  \A e \in Nat : e + 1 <= p => Entry(changes, e + 1) = Entry(slopes, e)

\* The points of period q agree with the grants.
InfoOK(info, slopes, q) ==
  /\ info \in Infos
  /\ info.slope = Left(slopes, q)
  /\ info.power <= WorthOf(slopes, q)
  /\ (\A end \in DOMAIN slopes : end >= q) => info.power = WorthOf(slopes, q)

\* What is saved of a validator agrees with what it was granted.
FixedOK(g, h, now) ==
  \/ DOMAIN g.fixed = {} /\ h.fixed = 0
  \/ \E k \in Nat : k <= now /\ DOMAIN g.fixed = {k} /\ g.fixed[k] = h.fixed

VotesOK(g, h, now) ==
  \/ DOMAIN g.votes = {} /\ DOMAIN h.slopes = {}
  \/ \E k \in Nat : k <= now /\ DOMAIN g.votes = {k} /\ InfoOK(g.votes[k], h.slopes, k)

GaugeOK(g, h, now) ==
  /\ g \in Gauges /\ h \in Histories
  /\ \A p \in Nat : ChangesOf(g.changes, h.slopes, p)
  /\ FixedOK(g, h, now)
  /\ VotesOK(g, h, now)

-----------------------------------------------------------------------------
(* Maps and totals.                                                        *)

\* A finite set of periods.
Ends(D) == IsFiniteSet(D) /\ D \subseteq Nat

LEMMA EntryNat ==
  ASSUME NEW map \in Maps, NEW k
  PROVE  Entry(map, k) \in Nat
  BY DEF Maps, Entry

LEMMA MapIs ==
  ASSUME NEW map \in Maps
  PROVE  Ends(DOMAIN map) /\ map \in [DOMAIN map -> Nat]
  BY DEF Maps, Ends

LEMMA IsMap ==
  ASSUME NEW D, Ends(D), NEW map \in [D -> Nat]
  PROVE  map \in Maps
  BY DEF Maps, Ends

\* A map with n saved at k.
Saved(more, map, k, n) ==
  /\ more \in Maps
  /\ DOMAIN more = DOMAIN map \cup {k}
  /\ Entry(more, k) = n
  /\ \A l : l # k => Entry(more, l) = Entry(map, l)

LEMMA SaveIs ==
  ASSUME NEW map \in Maps, NEW k \in Nat, NEW n \in Nat
  PROVE  Saved(Save(map, k, n), map, k, n)
<1> DEFINE D == DOMAIN map \cup {k}
           s == [l \in D |-> IF l = k THEN n ELSE map[l]]
<1>1. Save(map, k, n) = s
  BY DEF Save
<1>2. map \in [DOMAIN map -> Nat] /\ Ends(DOMAIN map)
  BY MapIs
<1>3. Ends(D)
  BY <1>2, FS_AddElement DEF Ends
<1>4. s \in [D -> Nat]
  BY <1>2
<1>5. s \in Maps
  BY <1>3, <1>4, IsMap
<1>6. Entry(s, k) = n /\ \A l : l # k => Entry(s, l) = Entry(map, l)
  BY DEF Entry
<1> QED
  BY <1>1, <1>5, <1>6 DEF Saved

\* Left and WorthOf can be taken over more periods.
LEMMA LeftOver ==
  ASSUME NEW slopes \in Maps, NEW q \in Nat, NEW D, Ends(D), DOMAIN slopes \subseteq D
  PROVE  /\ [e \in D |-> IF e >= q THEN Entry(slopes, e) ELSE 0] \in [D -> Nat]
         /\ Left(slopes, q) = Total([e \in D |-> IF e >= q THEN Entry(slopes, e) ELSE 0])
         /\ Left(slopes, q) \in Nat
<1> DEFINE f == [e \in DOMAIN slopes |-> IF e >= q THEN slopes[e] ELSE 0]
           g == [e \in D |-> IF e >= q THEN Entry(slopes, e) ELSE 0]
<1>1. slopes \in [DOMAIN slopes -> Nat]
  BY MapIs
<1>2. f \in [DOMAIN slopes -> Nat]
  BY <1>1
<1>3. g \in [D -> Nat]
  BY EntryNat
<1>4. (\A e \in DOMAIN slopes : g[e] = f[e]) /\ \A e \in D \ DOMAIN slopes : g[e] = 0
  BY DEF Entry
<1> HIDE DEF f, g
<1>5. Total(g) = Total(f)
  BY <1>2, <1>3, <1>4, SumExtend
<1>6. Total(g) \in Nat
  BY <1>3, SumType DEF Ends
<1> QED
  BY <1>3, <1>5, <1>6 DEF f, g, Left

LEMMA SubNat ==
  ASSUME NEW a \in Nat, NEW b \in Nat
  PROVE  saturating_sub(a, b) \in Nat
  BY DEF saturating_sub

LEMMA TimesNat ==
  ASSUME NEW a \in Nat, NEW b \in Nat
  PROVE  a * b \in Nat
  OBVIOUS

LEMMA WorthOver ==
  ASSUME NEW slopes \in Maps, NEW q \in Nat, NEW D, Ends(D), DOMAIN slopes \subseteq D
  PROVE  /\ [e \in D |-> Entry(slopes, e) * saturating_sub(e, q)] \in [D -> Nat]
         /\ WorthOf(slopes, q) = Total([e \in D |-> Entry(slopes, e) * saturating_sub(e, q)])
         /\ WorthOf(slopes, q) \in Nat
<1> DEFINE f == [e \in DOMAIN slopes |-> slopes[e] * saturating_sub(e, q)]
           g == [e \in D |-> Entry(slopes, e) * saturating_sub(e, q)]
<1>1. \A e \in DOMAIN slopes : slopes[e] = Entry(slopes, e)
  BY DEF Entry
<1>2. \A e \in D : Entry(slopes, e) * saturating_sub(e, q) \in Nat
  <2> TAKE e \in D
  <2>1. Entry(slopes, e) \in Nat /\ saturating_sub(e, q) \in Nat
    BY EntryNat, SubNat DEF Ends
  <2> HIDE DEF Ends
  <2> QED
    BY <2>1, TimesNat
<1>3. f \in [DOMAIN slopes -> Nat]
  BY <1>1, <1>2
<1>4. g \in [D -> Nat]
  BY <1>2
<1>5. \A e \in DOMAIN slopes : g[e] = f[e]
  BY <1>1
<1>6. \A e \in D \ DOMAIN slopes : g[e] = 0
  <2> TAKE e \in D \ DOMAIN slopes
  <2>1. Entry(slopes, e) = 0 /\ saturating_sub(e, q) \in Nat
    BY SubNat DEF Entry, Ends
  <2> QED
    BY <2>1
<1> HIDE DEF f, g
<1>7. Total(g) = Total(f)
  BY <1>3, <1>4, <1>5, <1>6, SumExtend
<1>8. Total(g) \in Nat
  BY <1>4, SumType DEF Ends
<1> QED
  BY <1>4, <1>7, <1>8 DEF f, g, WorthOf

\* From one period to the next, the slope of the grants that end there goes.
LEMMA LeftStep ==
  ASSUME NEW slopes \in Maps, NEW q \in Nat
  PROVE  /\ Left(slopes, q) = Entry(slopes, q) + Left(slopes, q + 1)
         /\ Left(slopes, q) \in Nat /\ Left(slopes, q + 1) \in Nat
<1> DEFINE D == DOMAIN slopes \cup {q}
           f == [e \in D |-> IF e >= q THEN Entry(slopes, e) ELSE 0]
           g == [e \in D |-> IF e >= q + 1 THEN Entry(slopes, e) ELSE 0]
<1>1. Ends(D) /\ IsFiniteSet(D) /\ q \in D /\ DOMAIN slopes \subseteq D
  <2>1. Ends(DOMAIN slopes)
    BY MapIs
  <2> QED
    BY <2>1, FS_AddElement DEF Ends
<1>2. f[q] = Entry(slopes, q) /\ g[q] = 0
  BY <1>1
<1>3. \A e \in D \ {q} : g[e] = f[e]
  <2>1. \A e \in D \ {q} : e >= q <=> e >= q + 1
    BY <1>1 DEF Ends
  <2> QED
    BY <2>1
<1> HIDE DEF D
<1>4. f \in [D -> Nat] /\ Left(slopes, q) = Total(f) /\ Left(slopes, q) \in Nat
  BY <1>1, LeftOver
<1>5. g \in [D -> Nat] /\ Left(slopes, q + 1) = Total(g) /\ Left(slopes, q + 1) \in Nat
  <2>1. q + 1 \in Nat
    OBVIOUS
  <2> QED
    BY <1>1, <2>1, LeftOver
<1> HIDE DEF f, g
<1>6. Total(g) + f[q] = Total(f) + g[q]
  BY <1>1, <1>3, <1>4, <1>5, SumChange
<1>7. Entry(slopes, q) \in Nat
  BY EntryNat
<1> QED
  BY <1>2, <1>4, <1>5, <1>6, <1>7

\* And so do the points that the remaining grants lose in a period.
LEMMA WorthStep ==
  ASSUME NEW slopes \in Maps, NEW q \in Nat
  PROVE  /\ WorthOf(slopes, q) = WorthOf(slopes, q + 1) + Left(slopes, q + 1)
         /\ WorthOf(slopes, q) \in Nat /\ WorthOf(slopes, q + 1) \in Nat
<1> DEFINE D == DOMAIN slopes
           f == [e \in D |-> Entry(slopes, e) * saturating_sub(e, q + 1)]
           g == [e \in D |-> IF e >= q + 1 THEN Entry(slopes, e) ELSE 0]
           h == [e \in D |-> Entry(slopes, e) * saturating_sub(e, q)]
<1>1. Ends(D) /\ IsFiniteSet(D) /\ q + 1 \in Nat
  BY MapIs DEF Ends
<1>2. \A e \in D : h[e] = f[e] + g[e]
  <2> TAKE e \in D
  <2>1. e \in Nat /\ Entry(slopes, e) \in Nat
    BY <1>1, EntryNat DEF Ends
  <2> DEFINE n == Entry(slopes, e)
  <2>2. n \in Nat
    BY <2>1
  <2> HIDE DEF n
  <2>3. n * saturating_sub(e, q) = n * saturating_sub(e, q + 1) + IF e >= q + 1 THEN n ELSE 0
    <3>1. CASE e >= q + 1
      <4>1. saturating_sub(e, q) = saturating_sub(e, q + 1) + 1 /\ saturating_sub(e, q + 1) \in Nat
        BY <2>1, <3>1 DEF saturating_sub
      <4> QED
        BY <2>2, <3>1, <4>1
    <3>2. CASE ~ (e >= q + 1)
      <4>1. saturating_sub(e, q) = 0 /\ saturating_sub(e, q + 1) = 0
        BY <2>1, <3>2 DEF saturating_sub
      <4> QED
        BY <2>2, <3>2, <4>1
    <3> QED
      BY <3>1, <3>2
  <2> QED
    BY <2>3 DEF n
<1> HIDE DEF D
<1>3. DOMAIN slopes \subseteq D
  BY DEF D
<1>4. f \in [D -> Nat] /\ WorthOf(slopes, q + 1) = Total(f) /\ WorthOf(slopes, q + 1) \in Nat
  BY <1>1, <1>3, WorthOver
<1>5. g \in [D -> Nat] /\ Left(slopes, q + 1) = Total(g)
  BY <1>1, <1>3, LeftOver
<1>6. h \in [D -> Nat] /\ WorthOf(slopes, q) = Total(h) /\ WorthOf(slopes, q) \in Nat
  BY <1>1, <1>3, WorthOver
<1> HIDE DEF f, g, h
<1>7. Total(h) = Total(f) + Total(g)
  BY <1>1, <1>2, <1>4, <1>5, <1>6, SumAdd
<1> QED
  BY <1>4, <1>5, <1>6, <1>7

\* A grant that ends at k adds its slope, and what it is worth.
LEMMA GrantAdds ==
  ASSUME NEW slopes \in Maps, NEW k \in Nat, NEW s \in Nat, NEW q \in Nat, q <= k,
         NEW more \in Maps, Entry(more, k) = Entry(slopes, k) + s,
         \A l : l # k => Entry(more, l) = Entry(slopes, l)
  PROVE  /\ Left(more, q) = Left(slopes, q) + s
         /\ WorthOf(more, q) = WorthOf(slopes, q) + s * (k - q)
<1> DEFINE D == (DOMAIN slopes \cup DOMAIN more) \cup {k}
<1>1. Ends(D) /\ IsFiniteSet(D) /\ k \in D /\ DOMAIN slopes \subseteq D /\ DOMAIN more \subseteq D
  <2>1. Ends(DOMAIN slopes) /\ Ends(DOMAIN more)
    BY MapIs
  <2>2. IsFiniteSet(DOMAIN slopes \cup DOMAIN more)
    BY <2>1, FS_Union DEF Ends
  <2> QED
    BY <2>1, <2>2, FS_AddElement DEF Ends
<1>2. Entry(slopes, k) \in Nat
  BY EntryNat
<1> HIDE DEF D
<1>3. Left(more, q) = Left(slopes, q) + s
  <2> DEFINE f == [e \in D |-> IF e >= q THEN Entry(slopes, e) ELSE 0]
             g == [e \in D |-> IF e >= q THEN Entry(more, e) ELSE 0]
  <2>1. \A e \in D \ {k} : g[e] = f[e]
    OBVIOUS
  <2>2. f[k] = Entry(slopes, k) /\ g[k] = Entry(slopes, k) + s
    BY <1>1
  <2>3. f \in [D -> Nat] /\ Left(slopes, q) = Total(f) /\ Left(slopes, q) \in Nat
    BY <1>1, LeftOver
  <2>4. g \in [D -> Nat] /\ Left(more, q) = Total(g) /\ Left(more, q) \in Nat
    BY <1>1, LeftOver
  <2> HIDE DEF f, g
  <2>5. Total(g) + f[k] = Total(f) + g[k]
    <3>1. /\ IsFiniteSet(D) /\ k \in D /\ f \in [D -> Nat] /\ g \in [D -> Nat]
          /\ \A e \in D \ {k} : g[e] = f[e]
      BY <1>1, <2>1, <2>3, <2>4
    <3> QED
      BY ONLY <3>1, SumChange
  <2> QED
    BY <1>2, <2>2, <2>3, <2>4, <2>5
<1>4. WorthOf(more, q) = WorthOf(slopes, q) + s * (k - q)
  <2> DEFINE f == [e \in D |-> Entry(slopes, e) * saturating_sub(e, q)]
             g == [e \in D |-> Entry(more, e) * saturating_sub(e, q)]
  <2>1. \A e \in D \ {k} : g[e] = f[e]
    OBVIOUS
  <2>2. f[k] = Entry(slopes, k) * (k - q) /\ g[k] = (Entry(slopes, k) + s) * (k - q)
    BY <1>1 DEF saturating_sub
  <2>3. f \in [D -> Nat] /\ WorthOf(slopes, q) = Total(f) /\ WorthOf(slopes, q) \in Nat
    BY <1>1, WorthOver
  <2>4. g \in [D -> Nat] /\ WorthOf(more, q) = Total(g) /\ WorthOf(more, q) \in Nat
    BY <1>1, WorthOver
  <2> HIDE DEF f, g
  <2>5. Total(g) + f[k] = Total(f) + g[k]
    <3>1. /\ IsFiniteSet(D) /\ k \in D /\ f \in [D -> Nat] /\ g \in [D -> Nat]
          /\ \A e \in D \ {k} : g[e] = f[e]
      BY <1>1, <2>1, <2>3, <2>4
    <3> QED
      BY ONLY <3>1, SumChange
  <2> DEFINE n == Entry(slopes, k)
             d == k - q
             m == n * d
             w == s * d
  <2>6. n \in Nat /\ d \in Nat
    BY <1>2
  <2> HIDE DEF n, d
  <2>7. (n + s) * d = m + w /\ m \in Nat /\ w \in Nat
    BY <2>6
  <2>8. f[k] = m /\ g[k] = m + w
    BY <2>2, <2>7 DEF n, d
  <2> HIDE DEF m, w
  <2>9. WorthOf(more, q) = WorthOf(slopes, q) + w
    BY <2>3, <2>4, <2>5, <2>7, <2>8
  <2> QED
    BY <2>9 DEF w, d
<1> QED
  BY <1>3, <1>4

-----------------------------------------------------------------------------
(* The line of a validator.                                                *)

IsLine(f, a, info, changes, b) ==
  /\ f \in [a..b -> Infos]
  /\ f[a] = info
  /\ \A q \in (a + 1)..b : f[q] = NextInfo(f[q - 1], Entry(changes, q))

LEMMA NextType ==
  ASSUME NEW info \in Infos, NEW change \in Nat
  PROVE  /\ NextInfo(info, change) \in Infos
         /\ NextInfo(info, change).power = saturating_sub(info.power, info.slope)
         /\ NextInfo(info, change).slope = saturating_sub(info.slope, change)
<1>1. info.power \in Nat /\ info.slope \in Nat
  BY DEF Infos
<1>2. saturating_sub(info.power, info.slope) \in Nat /\ saturating_sub(info.slope, change) \in Nat
  BY <1>1, SubNat
<1> QED
  BY <1>2 DEF NextInfo, Infos

LEMMA LineExists ==
  ASSUME NEW a \in Nat, NEW b \in Nat, a <= b, NEW info \in Infos, NEW changes \in Maps
  PROVE  \E f : IsLine(f, a, info, changes, b)
<1> DEFINE step == [p \in Infos \X ((a + 1)..b) |-> NextInfo(p[1], Entry(changes, p[2]))]
<1>1. \A q \in (a + 1)..b, d \in Infos :
        step[<<d, q>>] = NextInfo(d, Entry(changes, q)) /\ step[<<d, q>>] \in Infos
  <2> TAKE q \in (a + 1)..b, d \in Infos
  <2>1. step[<<d, q>>] = NextInfo(d, Entry(changes, q))
    OBVIOUS
  <2>2. NextInfo(d, Entry(changes, q)) \in Infos
    BY EntryNat, NextType
  <2> QED
    BY <2>1, <2>2, Zenon
<1> HIDE DEF step
<1>2. PICK f : IsPath(f, Infos, info, step, a, b)
  <2>1. StepsIn(Infos, step, a, b)
    BY <1>1, Zenon DEF StepsIn
  <2> QED
    BY <2>1, PathExists
<1>3. \A q \in (a + 1)..b : f[q] = NextInfo(f[q - 1], Entry(changes, q))
  <2> TAKE q \in (a + 1)..b
  <2>1. f[q - 1] \in Infos
    BY <1>2 DEF IsPath
  <2> QED
    BY <1>1, <1>2, <2>1, Zenon DEF IsPath
<1> QED
  BY <1>2, <1>3 DEF IsLine, IsPath

LEMMA RecalculateIs ==
  ASSUME NEW a \in Nat, NEW b \in Nat, a <= b, NEW info, NEW changes,
         NEW f, IsLine(f, a, info, changes, b)
  PROVE  Recalculate(a, info, changes, b) = f[b]
<1> DEFINE Follows(g) == g = [q \in a..b |->
                                IF q = a THEN info ELSE NextInfo(g[q - 1], Entry(changes, q))]
           line       == CHOOSE g : Follows(g)
<1>1. Follows(f)
  <2> DEFINE F == [q \in a..b |-> IF q = a THEN info ELSE NextInfo(f[q - 1], Entry(changes, q))]
  <2>1. ASSUME NEW q \in a..b PROVE f[q] = F[q]
    <3>1. CASE q = a
      BY <3>1 DEF IsLine
    <3>2. CASE q # a
      <4>1. q \in (a + 1)..b
        BY <3>2
      <4> QED
        BY <3>2, <4>1 DEF IsLine
    <3> QED
      BY <3>1, <3>2
  <2>2. f = [q \in a..b |-> f[q]]
    BY DEF IsLine
  <2> QED
    BY <2>1, <2>2, Zenon
<1>2. Follows(line)
  BY <1>1, Zenon
<1>3. Recalculate(a, info, changes, b) = line[b]
  BY DEF Recalculate
<1>4. \A q \in a..b : line[q] = IF q = a THEN info ELSE NextInfo(line[q - 1], Entry(changes, q))
  BY <1>2, Zenon
<1> HIDE DEF line, Follows
<1> DEFINE Same == {q \in a..b : line[q] = f[q]}
<1>5. a \in Same
  BY <1>4 DEF IsLine
<1>6. \A q \in (a + 1)..b : q - 1 \in Same => q \in Same
  <2> SUFFICES ASSUME NEW q \in (a + 1)..b, q - 1 \in Same PROVE q \in Same
    OBVIOUS
  <2>1. line[q - 1] = f[q - 1] /\ q \in a..b /\ q # a
    OBVIOUS
  <2>2. line[q] = NextInfo(f[q - 1], Entry(changes, q))
    BY <1>4, <2>1
  <2>3. f[q] = NextInfo(f[q - 1], Entry(changes, q))
    BY DEF IsLine
  <2> QED
    BY <2>1, <2>2, <2>3
<1> HIDE DEF Same
<1>7. b \in Same
  <2>1. \A q \in a..b : q \in Same
    BY <1>5, <1>6, UpTo
  <2> QED
    BY <2>1
<1> QED
  BY <1>3, <1>7 DEF Same

\* Carrying points on to the period they are of leaves them, and to a later one takes one
\* more step.
LEMMA RecalculateNext ==
  ASSUME NEW a \in Nat, NEW b \in Nat, a <= b, NEW info \in Infos, NEW changes \in Maps
  PROVE  /\ Recalculate(a, info, changes, a) = info
         /\ Recalculate(a, info, changes, b) \in Infos
         /\ Recalculate(a, info, changes, b + 1) =
              NextInfo(Recalculate(a, info, changes, b), Entry(changes, b + 1))
<1>1. PICK f : IsLine(f, a, info, changes, b + 1)
  BY LineExists
<1> DEFINE upto(c) == [q \in a..c |-> f[q]]
<1>2. ASSUME NEW c \in a..(b + 1) PROVE Recalculate(a, info, changes, c) = f[c] /\ f[c] \in Infos
  <2> DEFINE g == [q \in a..c |-> f[q]]
  <2>1. \A q \in a..c : q \in a..(b + 1) /\ g[q] = f[q]
    OBVIOUS
  <2>2. g \in [a..c -> Infos] /\ g[a] = info
    BY <1>1, <2>1 DEF IsLine
  <2>3. \A q \in (a + 1)..c : g[q] = NextInfo(g[q - 1], Entry(changes, q))
    <3> TAKE q \in (a + 1)..c
    <3>1. q \in a..c /\ q - 1 \in a..c /\ q \in (a + 1)..(b + 1)
      OBVIOUS
    <3>2. f[q] = NextInfo(f[q - 1], Entry(changes, q))
      BY <1>1, <3>1 DEF IsLine
    <3> QED
      BY <2>1, <3>1, <3>2, Zenon
  <2> HIDE DEF g
  <2>4. IsLine(g, a, info, changes, c)
    BY <2>2, <2>3 DEF IsLine
  <2>5. Recalculate(a, info, changes, c) = g[c]
    BY <2>4, RecalculateIs
  <2>6. c \in a..c
    OBVIOUS
  <2> QED
    BY <1>1, <2>1, <2>5, <2>6 DEF IsLine
<1>3. a \in a..(b + 1) /\ b \in a..(b + 1) /\ b + 1 \in a..(b + 1) /\ b + 1 \in (a + 1)..(b + 1)
  OBVIOUS
<1>4. f[b + 1] = NextInfo(f[b], Entry(changes, b + 1)) /\ f[a] = info
  <2>1. f[b + 1] = NextInfo(f[(b + 1) - 1], Entry(changes, b + 1)) /\ f[a] = info
    BY <1>1, <1>3 DEF IsLine
  <2> QED
    BY <2>1
<1> QED
  BY <1>2, <1>3, <1>4

\* A period later the points still agree with the grants.
LEMMA NextOK ==
  ASSUME NEW slopes \in Maps, NEW q \in Nat, NEW info, InfoOK(info, slopes, q),
         NEW change, change = Entry(slopes, q)
  PROVE  InfoOK(NextInfo(info, change), slopes, q + 1)
<1> DEFINE l == Left(slopes, q)
           m == Left(slopes, q + 1)
           w == WorthOf(slopes, q)
           x == WorthOf(slopes, q + 1)
           next == NextInfo(info, change)
<1>1. info \in Infos /\ info.slope = l /\ info.power <= w /\ change \in Nat
  BY EntryNat DEF InfoOK
<1>2. l = change + m /\ l \in Nat /\ m \in Nat
  BY LeftStep
<1>3. w = x + m /\ w \in Nat /\ x \in Nat
  BY WorthStep
<1>4. /\ next \in Infos /\ next.power = saturating_sub(info.power, info.slope)
      /\ next.slope = saturating_sub(info.slope, change)
  BY <1>1, NextType
<1>5. info.power \in Nat
  BY <1>1 DEF Infos
<1>6. ASSUME \A end \in DOMAIN slopes : end >= q + 1
      PROVE  change = 0 /\ info.power = w
  <2>1. Ends(DOMAIN slopes)
    BY MapIs
  <2>2. \A end \in DOMAIN slopes : end >= q
    BY <1>6, <2>1 DEF Ends
  <2>3. q \notin DOMAIN slopes
    BY <1>6
  <2> QED
    BY <2>2, <2>3 DEF InfoOK, Entry
<1> HIDE DEF l, m, w, x, next
<1>7. next.slope = m
  BY <1>1, <1>2, <1>4 DEF saturating_sub
<1>8. next.power <= x
  BY <1>1, <1>2, <1>3, <1>4, <1>5 DEF saturating_sub
<1>9. change = 0 /\ info.power = w => next.power = x
  BY <1>1, <1>2, <1>3, <1>4, <1>5 DEF saturating_sub
<1>10. (\A end \in DOMAIN slopes : end >= q + 1) => next.power = x
  BY <1>6, <1>9
<1> QED
  BY <1>4, <1>7, <1>8, <1>10 DEF m, x, next, InfoOK

\* A line drawn from points that agree with the grants agrees with them all along.
LEMMA RecalculateOK ==
  ASSUME NEW slopes \in Maps, NEW changes \in Maps, NEW a \in Nat, NEW b \in Nat, a <= b,
         ChangesOf(changes, slopes, b), NEW info, InfoOK(info, slopes, a)
  PROVE  InfoOK(Recalculate(a, info, changes, b), slopes, b)
<1> DEFINE Good == {q \in a..b : InfoOK(Recalculate(a, info, changes, q), slopes, q)}
<1>1. info \in Infos
  BY DEF InfoOK
<1>2. a \in Good
  <2>1. Recalculate(a, info, changes, a) = info
    BY <1>1, RecalculateNext
  <2> QED
    BY <2>1
<1>3. \A q \in (a + 1)..b : q - 1 \in Good => q \in Good
  <2> SUFFICES ASSUME NEW q \in (a + 1)..b, q - 1 \in Good PROVE q \in Good
    OBVIOUS
  <2> DEFINE p == q - 1
  <2>1. p \in Nat /\ a <= p /\ p + 1 = q /\ q \in a..b /\ p + 1 <= b
    OBVIOUS
  <2>2. InfoOK(Recalculate(a, info, changes, p), slopes, p)
    OBVIOUS
  <2> HIDE DEF p, Good
  <2>3. Recalculate(a, info, changes, p + 1) =
          NextInfo(Recalculate(a, info, changes, p), Entry(changes, p + 1))
    BY <1>1, <2>1, RecalculateNext
  <2>4. Entry(changes, p + 1) = Entry(slopes, p)
    BY <2>1 DEF ChangesOf
  <2>5. InfoOK(Recalculate(a, info, changes, p + 1), slopes, p + 1)
    BY <2>1, <2>2, <2>3, <2>4, NextOK
  <2> QED
    BY <2>1, <2>5 DEF Good
<1> HIDE DEF Good
<1>4. b \in Good
  <2>1. \A q \in a..b : q \in Good
    BY <1>2, <1>3, UpTo
  <2> QED
    BY <2>1
<1> QED
  BY <1>4 DEF Good

-----------------------------------------------------------------------------
(* The gauge of a validator.                                               *)

LEMMA GaugeFields ==
  ASSUME NEW g \in Gauges
  PROVE  g.fixed \in Maps /\ g.votes \in InfoMaps /\ g.changes \in Maps
  BY DEF Gauges

LEMMA LastOfOne ==
  ASSUME NEW map, NEW k \in Nat, NEW p \in Nat, k <= p, DOMAIN map = {k}
  PROVE  KeysUpTo(map, p) = {k} /\ LastKey(map, p) = k
<1>1. KeysUpTo(map, p) = {k}
  BY DEF KeysUpTo
<1> QED
  BY <1>1 DEF LastKey

LEMMA OnlyIs ==
  ASSUME NEW k \in Nat, NEW n
  PROVE  /\ DOMAIN Only(k, n) = {k} /\ Only(k, n)[k] = n
         /\ n \in Nat => Only(k, n) \in Maps
         /\ n \in Infos => Only(k, n) \in InfoMaps
<1>1. DOMAIN Only(k, n) = {k} /\ Only(k, n)[k] = n
  BY DEF Only
<1>2. ASSUME n \in Nat PROVE Only(k, n) \in Maps
  <2>1. Ends({k})
    BY FS_Singleton DEF Ends
  <2>2. Only(k, n) \in [{k} -> Nat]
    BY <1>2 DEF Only
  <2> QED
    BY <2>1, <2>2, IsMap
<1>3. ASSUME n \in Infos PROVE Only(k, n) \in InfoMaps
  <2>1. Only(k, n) \in [{k} -> Infos] /\ {k} \in SUBSET Nat
    BY <1>3 DEF Only
  <2> QED
    BY <2>1, Zenon DEF InfoMaps
<1> QED
  BY <1>1, <1>2, <1>3

\* Where nothing has been granted.
LEMMA NothingGranted ==
  ASSUME NEW slopes \in Maps, DOMAIN slopes = {}, NEW q \in Nat
  PROVE  InfoOK([power |-> 0, slope |-> 0], slopes, q)
<1>1. slopes \in [{} -> Nat] /\ IsFiniteSet({})
  BY MapIs, FS_EmptySet
<1>2. Left(slopes, q) = 0
  <2> DEFINE f == [end \in DOMAIN slopes |-> IF end >= q THEN slopes[end] ELSE 0]
  <2>1. f \in [{} -> Nat]
    BY <1>1
  <2> HIDE DEF f
  <2>2. Total(f) = 0
    BY <1>1, <2>1, SumZero
  <2> QED
    BY <2>2 DEF f, Left
<1>3. WorthOf(slopes, q) = 0
  <2> DEFINE f == [end \in DOMAIN slopes |-> slopes[end] * saturating_sub(end, q)]
  <2>1. f \in [{} -> Nat]
    BY <1>1
  <2> HIDE DEF f
  <2>2. Total(f) = 0
    BY <1>1, <2>1, SumZero
  <2> QED
    BY <2>2 DEF f, WorthOf
<1> QED
  BY <1>2, <1>3 DEF InfoOK, Infos

\* The points read for a period from now on agree with the grants.  What is granted from
\* now on does not matter to the present ones.
LEMMA InfoAtOK ==
  ASSUME NEW g \in Gauges, NEW h \in Histories, NEW now \in Nat, VotesOK(g, h, now),
         NEW p \in Nat, now <= p, NEW changes \in Maps, ChangesOf(changes, h.slopes, p),
         NEW e, e.votes = g.votes, e.changes = changes
  PROVE  InfoOK(get_validator_info_mut(e, p), h.slopes, p)
<1>1. h.slopes \in Maps
  BY DEF Histories
<1>2. CASE DOMAIN g.votes = {} /\ DOMAIN h.slopes = {}
  <2>1. get_validator_info_mut(e, p) = [power |-> 0, slope |-> 0]
    BY <1>2 DEF get_validator_info_mut, KeysUpTo
  <2> QED
    BY <1>1, <1>2, <2>1, NothingGranted
<1>3. ASSUME NEW k \in Nat, k <= now, DOMAIN g.votes = {k}, InfoOK(g.votes[k], h.slopes, k)
      PROVE  InfoOK(get_validator_info_mut(e, p), h.slopes, p)
  <2>1. k <= p /\ DOMAIN e.votes = {k}
    BY <1>3
  <2>2. KeysUpTo(e.votes, p) = {k} /\ LastKey(e.votes, p) = k
    BY <2>1, LastOfOne
  <2>3. KeysUpTo(e.votes, p) # {}
    BY <2>2
  <2>4. get_validator_info_mut(e, p) = Recalculate(k, g.votes[k], changes, p)
    BY <2>2, <2>3, Zenon DEF get_validator_info_mut
  <2>5. InfoOK(Recalculate(k, g.votes[k], changes, p), h.slopes, p)
    BY <1>1, <1>3, <2>1, RecalculateOK
  <2> QED
    BY <2>4, <2>5
<1> QED
  BY <1>2, <1>3, Zenon DEF VotesOK

LEMMA FixedAtOK ==
  ASSUME NEW g, NEW h, NEW now \in Nat, FixedOK(g, h, now), NEW p \in Nat, now <= p
  PROVE  fetch_last_validator_fixed_emps_value(g, p) = h.fixed
<1>1. CASE DOMAIN g.fixed = {} /\ h.fixed = 0
  BY <1>1 DEF fetch_last_validator_fixed_emps_value, KeysUpTo
<1>2. ASSUME NEW k \in Nat, k <= now, DOMAIN g.fixed = {k}, g.fixed[k] = h.fixed
      PROVE  fetch_last_validator_fixed_emps_value(g, p) = h.fixed
  <2>1. k <= p
    BY <1>2
  <2>2. KeysUpTo(g.fixed, p) = {k} /\ LastKey(g.fixed, p) = k
    BY <1>2, <2>1, LastOfOne
  <2> QED
    BY <1>2, <2>2 DEF fetch_last_validator_fixed_emps_value
<1> QED
  BY <1>1, <1>2, Zenon DEF FixedOK

\* A gauge with other points.
LEMMA VotesSet ==
  ASSUME NEW g \in Gauges, NEW votes \in InfoMaps
  PROVE  LET e == [g EXCEPT !.votes = votes]
         IN  e \in Gauges /\ e.fixed = g.fixed /\ e.votes = votes /\ e.changes = g.changes
  BY DEF Gauges

LEMMA FixedSet ==
  ASSUME NEW g \in Gauges, NEW fixed \in Maps
  PROVE  LET e == [g EXCEPT !.fixed = fixed]
         IN  e \in Gauges /\ e.fixed = fixed /\ e.votes = g.votes /\ e.changes = g.changes
  BY DEF Gauges

LEMMA ChangesSet ==
  ASSUME NEW g \in Gauges, NEW changes \in Maps
  PROVE  LET e == [g EXCEPT !.changes = changes]
         IN  e \in Gauges /\ e.fixed = g.fixed /\ e.votes = g.votes /\ e.changes = changes
  BY DEF Gauges

\* What update_validator_info leaves.
LEMMA UpdateIs ==
  ASSUME NEW g \in Gauges, NEW p \in Nat, NEW vp \in Nat, NEW slope \in Nat,
         get_validator_info_mut(g, p) \in Infos
  PROVE  LET info == get_validator_info_mut(g, p)
             e    == update_validator_info(g, p, vp, slope)
         IN  /\ e \in Gauges /\ e.fixed = g.fixed /\ e.changes = g.changes
             /\ DOMAIN e.votes = {p}
             /\ e.votes[p] = [power |-> info.power + vp, slope |-> info.slope + slope]
<1> DEFINE info == get_validator_info_mut(g, p)
           new  == [power |-> info.power + vp, slope |-> info.slope + slope]
           e    == [g EXCEPT !.votes = Only(p, new)]
<1>1. new \in Infos
  BY DEF Infos
<1>2. update_validator_info(g, p, vp, slope) = e
  BY DEF update_validator_info
<1> HIDE DEF new
<1>3. DOMAIN Only(p, new) = {p} /\ Only(p, new)[p] = new /\ Only(p, new) \in InfoMaps
  BY <1>1, OnlyIs
<1>4. e \in Gauges /\ e.fixed = g.fixed /\ e.votes = Only(p, new) /\ e.changes = g.changes
  BY <1>3, VotesSet
<1> HIDE DEF e
<1> QED
  BY <1>2, <1>3, <1>4 DEF new

\* Saving the points of the current period changes nothing.
LEMMA TuneKeeps ==
  ASSUME NEW g, NEW h, NEW now \in Nat, GaugeOK(g, h, now)
  PROVE  LET e == update_validator_info(g, now, 0, 0)
         IN  /\ GaugeOK(e, h, now)
             /\ EmpsAt(e, now) = EmpsAt(g, now)
<1> DEFINE info == get_validator_info_mut(g, now)
           e    == update_validator_info(g, now, 0, 0)
<1>1. /\ g \in Gauges /\ h \in Histories /\ VotesOK(g, h, now) /\ FixedOK(g, h, now)
      /\ \A p \in Nat : ChangesOf(g.changes, h.slopes, p)
  BY DEF GaugeOK
<1>2. InfoOK(info, h.slopes, now)
  <2>1. g.changes \in Maps /\ ChangesOf(g.changes, h.slopes, now) /\ now <= now
    BY <1>1, GaugeFields
  <2> QED
    BY <1>1, <2>1, InfoAtOK
<1>3. info \in Infos
  BY <1>2 DEF InfoOK
<1>4. info.power + 0 = info.power /\ info.slope + 0 = info.slope
      /\ info = [power |-> info.power, slope |-> info.slope]
  BY <1>3 DEF Infos
<1>5. /\ e \in Gauges /\ e.fixed = g.fixed /\ e.changes = g.changes /\ DOMAIN e.votes = {now}
      /\ e.votes[now] = [power |-> info.power + 0, slope |-> info.slope + 0]
  BY <1>1, <1>3, UpdateIs
<1> HIDE DEF info, e
<1>6. e.votes[now] = info
  BY <1>4, <1>5
<1>7. VotesOK(e, h, now) /\ FixedOK(e, h, now)
  BY <1>1, <1>2, <1>5, <1>6 DEF VotesOK, FixedOK
<1>8. GaugeOK(e, h, now)
  BY <1>1, <1>5, <1>7 DEF GaugeOK
<1>9. get_validator_info_mut(e, now) = info
  <2>1. KeysUpTo(e.votes, now) = {now} /\ LastKey(e.votes, now) = now
    <3>1. now <= now
      OBVIOUS
    <3> QED
      BY <1>5, <3>1, LastOfOne
  <2>2. get_validator_info_mut(e, now) = Recalculate(now, info, e.changes, now)
    BY <1>6, <2>1 DEF get_validator_info_mut
  <2>3. e.changes \in Maps
    BY <1>5, GaugeFields
  <2> QED
    BY <1>3, <2>2, <2>3, RecalculateNext
<1>10. fetch_last_validator_fixed_emps_value(e, now) = fetch_last_validator_fixed_emps_value(g, now)
  BY <1>5 DEF fetch_last_validator_fixed_emps_value
<1> QED
  BY <1>8, <1>9, <1>10 DEF info, e, EmpsAt

\* A decaying grant.
LEMMA DecayingKeeps ==
  ASSUME NEW g, NEW h, NEW now \in Nat, GaugeOK(g, h, now),
         NEW s \in Nat, NEW dt \in Nat \ {0}
  PROVE  GaugeOK(vote_for_validator(g, now, s * dt, s, now + dt),
                 [h EXCEPT !.slopes = Save(@, now + dt, Entry(@, now + dt) + s)], now)
<1> DEFINE k       == now + dt
           changes == Save(g.changes, k + 1, Entry(g.changes, k + 1) + s)
           slopes  == Save(h.slopes, k, Entry(h.slopes, k) + s)
           f       == [g EXCEPT !.changes = changes]
           info    == get_validator_info_mut(f, now)
           e       == update_validator_info(f, now, s * dt, s)
           m       == [h EXCEPT !.slopes = slopes]
<1>1. /\ g \in Gauges /\ h \in Histories /\ VotesOK(g, h, now) /\ FixedOK(g, h, now)
      /\ \A p \in Nat : ChangesOf(g.changes, h.slopes, p)
      /\ g.changes \in Maps /\ h.slopes \in Maps
  BY GaugeFields DEF GaugeOK, Histories
<1>2. k \in Nat /\ k + 1 \in Nat /\ now < k /\ s * dt \in Nat /\ k - now = dt
  BY TimesNat
<1>3. vote_for_validator(g, now, s * dt, s, now + dt) = e
  BY DEF vote_for_validator
<1>4. m \in Histories /\ m.slopes = slopes /\ m.fixed = h.fixed /\ slopes \in Maps
  <2>1. Entry(h.slopes, k) + s \in Nat
    BY <1>1, EntryNat
  <2>2. slopes \in Maps
    BY <1>1, <1>2, <2>1, SaveIs DEF Saved
  <2> HIDE DEF slopes
  <2> QED
    BY <1>1, <2>2 DEF Histories
<1> HIDE DEF k
<1>5. /\ changes \in Maps /\ Entry(changes, k + 1) = Entry(g.changes, k + 1) + s
      /\ \A l : l # k + 1 => Entry(changes, l) = Entry(g.changes, l)
  <2> DEFINE n   == Entry(g.changes, k + 1) + s
             end == k + 1
             map == g.changes
  <2>1. n \in Nat /\ end \in Nat /\ map \in Maps
    BY <1>1, <1>2, EntryNat
  <2> HIDE DEF n, end, map
  <2>2. Saved(Save(map, end, n), map, end, n)
    BY <2>1, SaveIs, Zenon
  <2> QED
    BY <2>2, Zenon DEF Saved, n, end, map
<1>6. /\ Entry(slopes, k) = Entry(h.slopes, k) + s
      /\ \A l : l # k => Entry(slopes, l) = Entry(h.slopes, l)
      /\ DOMAIN slopes = DOMAIN h.slopes \cup {k}
  <2> DEFINE n   == Entry(h.slopes, k) + s
             map == h.slopes
  <2>1. n \in Nat /\ map \in Maps
    BY <1>1, EntryNat
  <2> HIDE DEF n, map
  <2>2. Saved(Save(map, k, n), map, k, n)
    BY <1>2, <2>1, SaveIs, Zenon
  <2> QED
    BY <2>2, Zenon DEF Saved, n, map
<1> HIDE DEF changes, slopes, m
<1>7. f \in Gauges /\ f.fixed = g.fixed /\ f.votes = g.votes /\ f.changes = changes
  BY <1>1, <1>5, ChangesSet
<1> HIDE DEF f
<1>8. ASSUME NEW p \in Nat PROVE ChangesOf(changes, slopes, p)
  <2> SUFFICES ASSUME NEW l \in Nat PROVE Entry(changes, l + 1) = Entry(slopes, l)
    BY DEF ChangesOf
  <2>1. Entry(g.changes, l + 1) = Entry(h.slopes, l)
    <3>1. l + 1 \in Nat /\ l + 1 <= l + 1
      OBVIOUS
    <3> QED
      BY <1>1, <3>1 DEF ChangesOf
  <2>2. l = k \/ (l # k /\ l + 1 # k + 1)
    BY <1>2
  <2> QED
    BY <1>5, <1>6, <2>1, <2>2
<1>9. ChangesOf(changes, h.slopes, now)
  <2> SUFFICES ASSUME NEW l \in Nat, l + 1 <= now PROVE Entry(changes, l + 1) = Entry(h.slopes, l)
    BY DEF ChangesOf
  <2>1. Entry(g.changes, l + 1) = Entry(h.slopes, l)
    BY <1>1 DEF ChangesOf
  <2>2. l + 1 # k + 1
    BY <1>2
  <2> QED
    BY <1>5, <2>1, <2>2
<1>10. InfoOK(info, h.slopes, now)
  <2>1. now <= now
    OBVIOUS
  <2> QED
    BY <1>1, <1>5, <1>7, <1>9, <2>1, InfoAtOK
<1>11. info \in Infos
  BY <1>10 DEF InfoOK
<1>12. /\ e \in Gauges /\ e.fixed = f.fixed /\ e.changes = f.changes /\ DOMAIN e.votes = {now}
       /\ e.votes[now] = [power |-> info.power + s * dt, slope |-> info.slope + s]
  BY <1>2, <1>7, <1>11, UpdateIs
<1> HIDE DEF info, e
<1>13. InfoOK(e.votes[now], slopes, now)
  <2> DEFINE w == s * dt
             l == Left(h.slopes, now)
             x == WorthOf(h.slopes, now)
             new == e.votes[now]
  <2>1. Left(slopes, now) = l + s /\ WorthOf(slopes, now) = x + w
    <3>1. now <= k
      BY <1>2
    <3> QED
      BY <1>1, <1>2, <1>4, <1>6, <3>1, GrantAdds
  <2>2. l \in Nat /\ x \in Nat
    BY <1>1, LeftStep, WorthStep
  <2>3. info.power \in Nat /\ info.slope \in Nat /\ info.slope = l /\ info.power <= x
    BY <1>10 DEF InfoOK, Infos
  <2>4. w \in Nat /\ new = [power |-> info.power + w, slope |-> info.slope + s]
    BY <1>2, <1>12
  <2>5. (\A end \in DOMAIN slopes : end >= now) => info.power = x
    BY <1>6, <1>10 DEF InfoOK
  <2> HIDE DEF w, l, x, new
  <2>6. new \in Infos /\ new.power = info.power + w /\ new.slope = info.slope + s
    BY <2>3, <2>4 DEF Infos
  <2>7. new.slope = l + s /\ new.power <= x + w /\ (info.power = x => new.power = x + w)
    BY <2>2, <2>3, <2>4, <2>6
  <2>8. InfoOK(new, slopes, now)
    BY <2>1, <2>5, <2>6, <2>7 DEF InfoOK
  <2> QED
    BY <2>8 DEF new
<1>14. VotesOK(e, m, now) /\ FixedOK(e, m, now)
  <2>1. VotesOK(e, m, now)
    BY <1>4, <1>12, <1>13 DEF VotesOK
  <2>2. FixedOK(e, m, now)
    BY <1>1, <1>4, <1>7, <1>12 DEF FixedOK
  <2> QED
    BY <2>1, <2>2
<1>15. GaugeOK(e, m, now)
  BY <1>4, <1>7, <1>8, <1>12, <1>14 DEF GaugeOK
<1> QED
  BY <1>3, <1>15 DEF m, slopes, k

\* A grant for good.
LEMMA FixedKeeps ==
  ASSUME NEW g, NEW h, NEW now \in Nat, GaugeOK(g, h, now), NEW n \in Nat
  PROVE  GaugeOK(add_fixed_emp(g, now, n), [h EXCEPT !.fixed = @ + n], now)
<1> DEFINE sum == h.fixed + n
           e   == [g EXCEPT !.fixed = Only(now, sum)]
           m   == [h EXCEPT !.fixed = sum]
<1>1. /\ g \in Gauges /\ h \in Histories /\ VotesOK(g, h, now) /\ FixedOK(g, h, now)
      /\ \A p \in Nat : ChangesOf(g.changes, h.slopes, p)
  BY DEF GaugeOK
<1>2. fetch_last_validator_fixed_emps_value(g, now) = h.fixed
  <2>1. now <= now
    OBVIOUS
  <2> QED
    BY <1>1, <2>1, FixedAtOK
<1>3. add_fixed_emp(g, now, n) = e
  BY <1>2 DEF add_fixed_emp
<1>4. sum \in Nat
  BY <1>1 DEF Histories
<1>5. m \in Histories /\ m.fixed = sum /\ m.slopes = h.slopes
  BY <1>1, <1>4 DEF Histories
<1>6. DOMAIN Only(now, sum) = {now} /\ Only(now, sum)[now] = sum /\ Only(now, sum) \in Maps
  BY <1>4, OnlyIs
<1> HIDE DEF sum
<1>7. e \in Gauges /\ e.fixed = Only(now, sum) /\ e.votes = g.votes /\ e.changes = g.changes
  BY <1>1, <1>6, FixedSet
<1> HIDE DEF e, m
<1>8. FixedOK(e, m, now)
  BY <1>5, <1>6, <1>7 DEF FixedOK
<1>9. VotesOK(e, m, now)
  BY <1>1, <1>5, <1>7 DEF VotesOK
<1>10. GaugeOK(e, m, now)
  BY <1>1, <1>5, <1>7, <1>8, <1>9 DEF GaugeOK
<1> QED
  BY <1>3, <1>10 DEF m, sum

-----------------------------------------------------------------------------
(* The grants of AddEmps.                                                  *)

EmpInfos == [umerit_points : Nat, decaying_period : Seq(Nat)]

EmpOK(emp) ==
  emp \in EmpInfos /\ Len(emp.decaying_period) <= 1 /\ emp.decaying_period # Some(0)

LEMMA AddPointsKeeps ==
  ASSUME NEW g, NEW h, NEW emp, EmpOK(emp), period \in Nat, GaugeOK(g, h, period)
  PROVE  GaugeOK(AddPoints(g, emp), Grant(h, emp), period)
<1> DEFINE n  == emp.umerit_points
           dp == emp.decaying_period
           dt == dp[1]
<1>1. n \in Nat /\ dp \in Seq(Nat) /\ Len(dp) <= 1 /\ dp # <<0>>
  BY DEF EmpOK, EmpInfos, Some
<1>2. CASE dp = <<>>
  <2>1. AddPoints(g, emp) = add_fixed_emp(g, period, n) /\ Grant(h, emp) = [h EXCEPT !.fixed = @ + n]
    BY <1>2 DEF AddPoints, Grant, None
  <2> HIDE DEF n
  <2> QED
    BY <1>1, <2>1, FixedKeeps
<1>3. CASE dp # <<>>
  <2> HIDE DEF n, dp
  <2>1. dt \in Nat \ {0}
    <3>1. Len(dp) = 1 /\ dt \in Nat
      <4>1. Len(dp) \in Nat \ {0}
        BY <1>1, <1>3, EmptySeq
      <4>2. Len(dp) = 1
        BY <1>1, <4>1
      <4> QED
        BY <1>1, <4>2
    <3>2. dp = <<dt>>
      BY <1>1, <3>1
    <3> QED
      BY <1>1, <3>1, <3>2
  <2> DEFINE s == n \div dt
  <2>2. s \in Nat
    <3> HIDE DEF dt
    <3> QED
      BY <1>1, <2>1
  <2>3. AddPoints(g, emp) = vote_for_validator(g, period, s * dt, s, period + dt)
    BY <1>3 DEF AddPoints, None, adjust_vp_and_slope, n, dp
  <2>4. Grant(h, emp) =
          [h EXCEPT !.slopes = Save(@, period + dt, Entry(@, period + dt) + s)]
    BY <1>3 DEF Grant, None, n, dp
  <2> HIDE DEF s, dt
  <2> QED
    BY <2>1, <2>2, <2>3, <2>4, DecayingKeeps
<1> QED
  BY <1>2, <1>3

EmpsOK(emps) == \A i \in DOMAIN emps : EmpOK(emps[i])

\* The gauge and the history as they change together.
LEMMA AddAllKeeps ==
  ASSUME NEW g, NEW h, NEW emps \in Seq(EmpInfos), EmpsOK(emps), period \in Nat, GaugeOK(g, h, period)
  PROVE  GaugeOK(AddAll(g, emps), GrantAll(h, emps), period)
<1> DEFINE n    == Len(emps)
           Both == {d \in Gauges \X Histories : GaugeOK(d[1], d[2], period)}
           step == [p \in Both \X (1..n) |->
                      <<AddPoints(p[1][1], emps[p[2]]), Grant(p[1][2], emps[p[2]])>>]
<1>1. n \in Nat /\ 0 <= n /\ 0 + 1 = 1 /\ \A i \in 1..n : EmpOK(emps[i])
  BY DEF EmpsOK
<1>2. ASSUME NEW x, NEW y, GaugeOK(x, y, period) PROVE <<x, y>> \in Both
  BY <1>2 DEF GaugeOK
<1>3. \A i \in 1..n, d \in Both :
        /\ step[<<d, i>>] = <<AddPoints(d[1], emps[i]), Grant(d[2], emps[i])>>
        /\ step[<<d, i>>] \in Both
  <2> TAKE i \in 1..n, d \in Both
  <2>1. step[<<d, i>>] = <<AddPoints(d[1], emps[i]), Grant(d[2], emps[i])>>
    OBVIOUS
  <2>2. GaugeOK(d[1], d[2], period) /\ EmpOK(emps[i])
    BY <1>1
  <2> HIDE DEF Both, step
  <2>3. GaugeOK(AddPoints(d[1], emps[i]), Grant(d[2], emps[i]), period)
    BY <2>2, AddPointsKeeps, Zenon
  <2> QED
    BY <1>2, <2>1, <2>3, Zenon
<1>4. \A d \in Both : GaugeOK(d[1], d[2], period)
  BY Zenon
<1>5. <<g, h>> \in Both
  BY <1>2
<1> HIDE DEF n, Both, step
<1>6. PICK f : IsPath(f, Both, <<g, h>>, step, 0, n)
  <2>1. StepsIn(Both, step, 0, n)
    BY <1>1, <1>3, Zenon DEF StepsIn
  <2> QED
    BY <1>1, <1>5, <2>1, PathExists
<1>7. /\ f \in [0..n -> Both] /\ f[0] = <<g, h>>
      /\ \A i \in 1..n : f[i] = <<AddPoints(f[i - 1][1], emps[i]), Grant(f[i - 1][2], emps[i])>>
  <2>1. f \in [0..n -> Both] /\ f[0] = <<g, h>> /\ \A i \in 1..n : f[i] = step[<<f[i - 1], i>>]
    BY <1>1, <1>6, Zenon DEF IsPath
  <2>2. ASSUME NEW i \in 1..n
        PROVE  f[i] = <<AddPoints(f[i - 1][1], emps[i]), Grant(f[i - 1][2], emps[i])>>
    <3>1. f[i - 1] \in Both
      BY <1>1, <2>1
    <3> QED
      BY <1>3, <2>1, <3>1, Zenon
  <2> QED
    BY <2>1, <2>2
<1>8. AddAll(g, emps) = f[n][1]
  <2> DEFINE Follows(a) == a = [i \in 0..n |-> IF i = 0 THEN g ELSE AddPoints(a[i - 1], emps[i])]
             after      == CHOOSE a : Follows(a)
             first      == [i \in 0..n |-> f[i][1]]
  <2>1. Follows(first)
    <3> DEFINE F == [i \in 0..n |-> IF i = 0 THEN g ELSE AddPoints(first[i - 1], emps[i])]
    <3>1. ASSUME NEW i \in 0..n PROVE first[i] = F[i]
      <4>1. CASE i = 0
        BY <1>1, <1>7, <4>1
      <4>2. CASE i # 0
        <5>1. i \in 1..n /\ i - 1 \in 0..n
          BY <1>1, <4>2
        <5>2. first[i - 1] = f[i - 1][1] /\ first[i] = f[i][1] /\ F[i] = AddPoints(first[i - 1], emps[i])
          BY <4>2, <5>1
        <5>3. f[i][1] = AddPoints(f[i - 1][1], emps[i])
          BY <1>7, <5>1
        <5> QED
          BY <5>2, <5>3
      <4> QED
        BY <4>1, <4>2
    <3> QED
      BY <3>1, Zenon
  <2>2. Follows(after)
    BY <2>1, Zenon
  <2>3. AddAll(g, emps) = after[n]
    BY DEF AddAll, n
  <2>4. \A i \in 0..n : after[i] = IF i = 0 THEN g ELSE AddPoints(after[i - 1], emps[i])
    BY <2>2, Zenon
  <2> HIDE DEF after, Follows
  <2> DEFINE Same == {i \in 0..n : after[i] = f[i][1]}
  <2>5. 0 \in Same
    BY <1>1, <1>7, <2>4
  <2>6. \A i \in (0 + 1)..n : i - 1 \in Same => i \in Same
    <3> SUFFICES ASSUME NEW i \in 1..n, i - 1 \in Same PROVE i \in Same
      BY <1>1
    <3>1. after[i - 1] = f[i - 1][1] /\ i \in 0..n /\ i # 0
      OBVIOUS
    <3>2. after[i] = AddPoints(f[i - 1][1], emps[i])
      BY <2>4, <3>1
    <3>3. f[i][1] = AddPoints(f[i - 1][1], emps[i])
      BY <1>7
    <3> QED
      BY <3>1, <3>2, <3>3
  <2>7. after[n] = f[n][1]
    <3> HIDE DEF Same
    <3>1. \A i \in 0..n : i \in Same
      BY <1>1, <2>5, <2>6, UpTo
    <3>2. n \in Same
      BY <1>1, <3>1
    <3> QED
      BY <3>2 DEF Same
  <2> QED
    BY <2>3, <2>7
<1>9. GrantAll(h, emps) = f[n][2]
  <2> DEFINE Follows(a) == a = [i \in 0..n |-> IF i = 0 THEN h ELSE Grant(a[i - 1], emps[i])]
             after      == CHOOSE a : Follows(a)
             second     == [i \in 0..n |-> f[i][2]]
  <2>1. Follows(second)
    <3> DEFINE F == [i \in 0..n |-> IF i = 0 THEN h ELSE Grant(second[i - 1], emps[i])]
    <3>1. ASSUME NEW i \in 0..n PROVE second[i] = F[i]
      <4>1. CASE i = 0
        BY <1>1, <1>7, <4>1
      <4>2. CASE i # 0
        <5>1. i \in 1..n /\ i - 1 \in 0..n
          BY <1>1, <4>2
        <5>2. second[i - 1] = f[i - 1][2] /\ second[i] = f[i][2] /\ F[i] = Grant(second[i - 1], emps[i])
          BY <4>2, <5>1
        <5>3. f[i][2] = Grant(f[i - 1][2], emps[i])
          BY <1>7, <5>1
        <5> QED
          BY <5>2, <5>3
      <4> QED
        BY <4>1, <4>2
    <3> QED
      BY <3>1, Zenon
  <2>2. Follows(after)
    BY <2>1, Zenon
  <2>3. GrantAll(h, emps) = after[n]
    BY DEF GrantAll, n
  <2>4. \A i \in 0..n : after[i] = IF i = 0 THEN h ELSE Grant(after[i - 1], emps[i])
    BY <2>2, Zenon
  <2> HIDE DEF after, Follows
  <2> DEFINE Same == {i \in 0..n : after[i] = f[i][2]}
  <2>5. 0 \in Same
    BY <1>1, <1>7, <2>4
  <2>6. \A i \in (0 + 1)..n : i - 1 \in Same => i \in Same
    <3> SUFFICES ASSUME NEW i \in 1..n, i - 1 \in Same PROVE i \in Same
      BY <1>1
    <3>1. after[i - 1] = f[i - 1][2] /\ i \in 0..n /\ i # 0
      OBVIOUS
    <3>2. after[i] = Grant(f[i - 1][2], emps[i])
      BY <2>4, <3>1
    <3>3. f[i][2] = Grant(f[i - 1][2], emps[i])
      BY <1>7
    <3> QED
      BY <3>1, <3>2, <3>3
  <2>7. after[n] = f[n][2]
    <3> HIDE DEF Same
    <3>1. \A i \in 0..n : i \in Same
      BY <1>1, <2>5, <2>6, UpTo
    <3>2. n \in Same
      BY <1>1, <3>1
    <3> QED
      BY <3>2 DEF Same
  <2> QED
    BY <2>3, <2>7
<1>10. f[n] \in Both
  BY <1>1, <1>7
<1> QED
  BY <1>4, <1>8, <1>9, <1>10, Zenon

\* No EmpInfo, no change.
LEMMA AddNone ==
  ASSUME NEW g, NEW h
  PROVE  AddAll(g, <<>>) = g /\ GrantAll(h, <<>>) = h
<1>1. AddAll(g, <<>>) = g
  <2> DEFINE Follows(a) == a = [i \in 0..0 |-> IF i = 0 THEN g ELSE AddPoints(a[i - 1], <<>>[i])]
             after      == CHOOSE a : Follows(a)
             one        == [i \in 0..0 |-> g]
  <2>1. Follows(one)
    BY SMT
  <2>2. Follows(after)
    BY <2>1, Zenon
  <2>3. AddAll(g, <<>>) = after[0]
    BY DEF AddAll
  <2> HIDE DEF after
  <2> QED
    BY <2>2, <2>3, SMT
<1>2. GrantAll(h, <<>>) = h
  <2> DEFINE Follows(a) == a = [i \in 0..0 |-> IF i = 0 THEN h ELSE Grant(a[i - 1], <<>>[i])]
             after      == CHOOSE a : Follows(a)
             one        == [i \in 0..0 |-> h]
  <2>1. Follows(one)
    BY SMT
  <2>2. Follows(after)
    BY <2>1, Zenon
  <2>3. GrantAll(h, <<>>) = after[0]
    BY DEF GrantAll
  <2> HIDE DEF after
  <2> QED
    BY <2>2, <2>3, SMT
<1> QED
  BY <1>1, <1>2

-----------------------------------------------------------------------------
(* The next period.                                                        *)

LEMMA GaugeLater ==
  ASSUME NEW g, NEW h, NEW now \in Nat, GaugeOK(g, h, now)
  PROVE  GaugeOK(g, h, now + 1)
<1>1. \A k \in Nat : k <= now => k <= now + 1
  OBVIOUS
<1>2. FixedOK(g, h, now + 1)
  BY <1>1, Zenon DEF GaugeOK, FixedOK
<1>3. VotesOK(g, h, now + 1)
  BY <1>1, Zenon DEF GaugeOK, VotesOK
<1> QED
  BY <1>2, <1>3, Zenon DEF GaugeOK

\* Points only fall as time passes.
LEMMA EmpsFall ==
  ASSUME NEW g, NEW h, NEW now \in Nat, GaugeOK(g, h, now)
  PROVE  EmpsAt(g, now + 1) > 0 => EmpsAt(g, now) > 0
<1> DEFINE next  == now + 1
           this  == get_validator_info_mut(g, now)
           after == get_validator_info_mut(g, next)
<1>1. /\ g \in Gauges /\ h \in Histories /\ VotesOK(g, h, now) /\ FixedOK(g, h, now)
      /\ \A p \in Nat : ChangesOf(g.changes, h.slopes, p)
      /\ g.changes \in Maps
  BY GaugeFields DEF GaugeOK
<1>2. now <= now /\ now <= next /\ next \in Nat
  OBVIOUS
<1>3. this \in Infos
  <2>1. InfoOK(this, h.slopes, now)
    BY <1>1, <1>2, InfoAtOK
  <2> QED
    BY <2>1 DEF InfoOK
<1>4. after.power \in Nat /\ after.power <= this.power
  <2>1. CASE DOMAIN g.votes = {}
    <3>1. KeysUpTo(g.votes, now) = {} /\ KeysUpTo(g.votes, next) = {}
      BY <2>1 DEF KeysUpTo
    <3> QED
      BY <3>1 DEF get_validator_info_mut
  <2>2. ASSUME NEW k \in Nat, k <= now, DOMAIN g.votes = {k}, InfoOK(g.votes[k], h.slopes, k)
        PROVE  after.power \in Nat /\ after.power <= this.power
    <3>1. k <= next
      BY <2>2
    <3>2. KeysUpTo(g.votes, now) = {k} /\ LastKey(g.votes, now) = k
      BY <2>2, LastOfOne
    <3>3. KeysUpTo(g.votes, next) = {k} /\ LastKey(g.votes, next) = k
      BY <1>2, <2>2, <3>1, LastOfOne
    <3>4. this = Recalculate(k, g.votes[k], g.changes, now)
      BY <3>2 DEF get_validator_info_mut
    <3>5. after = Recalculate(k, g.votes[k], g.changes, next)
      BY <3>3 DEF get_validator_info_mut
    <3>6. g.votes[k] \in Infos
      BY <2>2 DEF InfoOK
    <3> HIDE DEF this, after
    <3>7. after = NextInfo(this, Entry(g.changes, next))
      BY <1>1, <2>2, <3>4, <3>5, <3>6, RecalculateNext
    <3>8. Entry(g.changes, next) \in Nat
      BY <1>1, EntryNat
    <3>9. after \in Infos /\ after.power = saturating_sub(this.power, this.slope)
      BY <1>3, <3>7, <3>8, NextType
    <3> QED
      BY <1>3, <3>9 DEF saturating_sub, Infos
  <2> QED
    BY <1>1, <2>1, <2>2, Zenon DEF VotesOK
<1>5. /\ fetch_last_validator_fixed_emps_value(g, now) = h.fixed
      /\ fetch_last_validator_fixed_emps_value(g, next) = h.fixed
      /\ h.fixed \in Nat
  BY <1>1, <1>2, FixedAtOK DEF Histories
<1>6. EmpsAt(g, now) = this.power + h.fixed /\ EmpsAt(g, next) = after.power + h.fixed
  BY <1>5 DEF EmpsAt
<1>7. this.power \in Nat
  BY <1>3 DEF Infos
<1> HIDE DEF this, after
<1> QED
  BY <1>4, <1>5, <1>6, <1>7

-----------------------------------------------------------------------------
(* The invariant.                                                          *)

EmpInv ==
  /\ period \in Nat
  /\ gauge \in [Validators -> Gauges] /\ granted \in [Validators -> Histories]
  /\ \A v \in Validators : GaugeOK(gauge[v], granted[v], period)
  /\ PointsAreTuned

\* The last of a transaction: TuneEmps for the gauges it finds.
LEMMA TuneInv ==
  ASSUME NEW gauges, NEW active, NEW allowed, NEW histories,
         period \in Nat, Tune(gauges, active, allowed),
         \A v \in Validators : GaugeOK(gauges[v], histories[v], period),
         \A v \in Validators : EmpsAt(gauges[v], period) > 0 => v \in active
  PROVE  /\ gauge' \in [Validators -> Gauges]
         /\ \A v \in Validators : /\ GaugeOK(gauge'[v], histories[v], period)
                                  /\ EmpsAt(gauge'[v], period) > 0 => v \in validators'
<1>1. /\ gauge' = [v \in Validators |->
                     IF v \in active THEN update_validator_info(gauges[v], period, 0, 0) ELSE gauges[v]]
      /\ validators' = {v \in active : StillTuned(v, gauges[v])}
  BY Zenon DEF Tune
<1>2. ASSUME NEW v \in Validators
      PROVE  /\ GaugeOK(gauge'[v], histories[v], period)
             /\ EmpsAt(gauge'[v], period) > 0 => v \in validators'
  <2>1. CASE v \in active
    <3>1. gauge'[v] = update_validator_info(gauges[v], period, 0, 0)
      BY <1>1, <2>1
    <3>2. /\ GaugeOK(gauge'[v], histories[v], period)
          /\ EmpsAt(gauge'[v], period) = EmpsAt(gauges[v], period)
      BY <3>1, TuneKeeps
    <3> QED
      BY <1>1, <2>1, <3>2 DEF StillTuned
  <2>2. CASE v \notin active
    <3>1. gauge'[v] = gauges[v]
      BY <1>1, <2>2
    <3> QED
      BY <2>2, <3>1
  <2> QED
    BY <2>1, <2>2
<1>3. \A v \in Validators : gauge'[v] \in Gauges
  BY <1>2, Zenon DEF GaugeOK
<1> HIDE DEF Tune
<1> QED
  BY <1>1, <1>2, <1>3

LEMMA InitInv ==
  ASSUME EmpAssumption, Init
  PROVE  EmpInv
<1> DEFINE g == [fixed |-> EmptyMap, votes |-> EmptyMap, changes |-> EmptyMap]
           h == [slopes |-> EmptyMap, fixed |-> 0]
<1>1. DOMAIN EmptyMap = {} /\ EmptyMap \in Maps /\ EmptyMap \in InfoMaps
  <2>1. Ends({})
    BY FS_EmptySet DEF Ends
  <2>2. DOMAIN EmptyMap = {} /\ EmptyMap \in [{} -> Nat] /\ EmptyMap \in [{} -> Infos] /\ {} \in SUBSET Nat
    BY DEF EmptyMap
  <2>3. EmptyMap \in Maps
    BY <2>1, <2>2, IsMap
  <2> QED
    BY <2>2, <2>3, Zenon DEF InfoMaps
<1>2. /\ period = 0
      /\ gauge = [v \in Validators |-> g] /\ granted = [v \in Validators |-> h]
  BY DEF Init
<1>3. g \in Gauges /\ g.fixed = EmptyMap /\ g.votes = EmptyMap /\ g.changes = EmptyMap
  BY <1>1 DEF Gauges
<1>4. h \in Histories /\ h.slopes = EmptyMap /\ h.fixed = 0
  BY <1>1 DEF Histories
<1> HIDE DEF g, h
<1>5. GaugeOK(g, h, 0)
  <2>1. FixedOK(g, h, 0) /\ VotesOK(g, h, 0)
    BY <1>1, <1>3, <1>4 DEF FixedOK, VotesOK
  <2>2. \A p \in Nat : ChangesOf(g.changes, h.slopes, p)
    BY <1>1, <1>3, <1>4 DEF ChangesOf, Entry
  <2> QED
    BY <1>3, <1>4, <2>1, <2>2 DEF GaugeOK
<1>6. EmpsAt(g, 0) = 0
  <2>1. KeysUpTo(g.votes, 0) = {} /\ KeysUpTo(g.fixed, 0) = {}
    BY <1>1, <1>3 DEF KeysUpTo
  <2> QED
    BY <2>1 DEF EmpsAt, get_validator_info_mut, fetch_last_validator_fixed_emps_value
<1> QED
  BY <1>2, <1>3, <1>4, <1>5, <1>6 DEF EmpInv, PointsAreTuned

LEMMA AddEmpsInv ==
  ASSUME EmpAssumption, EmpInv,
         NEW vs \in SUBSET Validators, NEW allowed \in SUBSET Validators,
         NEW emps \in [vs -> Grants], add_emps(emps, allowed)
  PROVE  EmpInv'
<1> DEFINE gauges    == [v \in Validators |-> IF v \in DOMAIN emps THEN AddAll(gauge[v], emps[v]) ELSE gauge[v]]
           active    == validators \cup {v \in DOMAIN emps : emps[v] # <<>>}
           histories == [v \in Validators |->
                           IF v \in DOMAIN emps THEN GrantAll(granted[v], emps[v]) ELSE granted[v]]
<1>1. /\ Tune(gauges, active, allowed) /\ granted' = histories /\ period' = period
      /\ \A v \in DOMAIN emps : \A i \in DOMAIN emps[v] : emps[v][i].decaying_period # Some(0)
  BY DEF add_emps
<1>2. /\ period \in Nat
      /\ \A v \in Validators : GaugeOK(gauge[v], granted[v], period)
      /\ \A v \in Validators : EmpsAt(gauge[v], period) > 0 => v \in validators
  BY DEF EmpInv, PointsAreTuned
<1>3. ASSUME NEW v \in Validators
      PROVE  /\ GaugeOK(gauges[v], histories[v], period)
             /\ EmpsAt(gauges[v], period) > 0 => v \in active
  <2>1. CASE v \in DOMAIN emps
    <3>1. gauges[v] = AddAll(gauge[v], emps[v]) /\ histories[v] = GrantAll(granted[v], emps[v])
      BY <2>1
    <3>2. emps[v] \in Seq(EmpInfos) /\ EmpsOK(emps[v])
      <4>1. emps[v] \in Grants
        BY <2>1
      <4>2. emps[v] \in Seq(EmpInfos) /\ \A i \in DOMAIN emps[v] : Len(emps[v][i].decaying_period) <= 1
        BY <4>1, Zenon DEF EmpAssumption, EmpInfos
      <4>3. \A i \in DOMAIN emps[v] : emps[v][i] \in EmpInfos
        BY <4>2
      <4> QED
        BY <1>1, <2>1, <4>2, <4>3, Zenon DEF EmpsOK, EmpOK
    <3>3. GaugeOK(gauges[v], histories[v], period)
      BY <1>2, <3>1, <3>2, AddAllKeeps
    <3>4. CASE emps[v] = <<>>
      <4>1. gauges[v] = gauge[v]
        BY <3>1, <3>4, AddNone
      <4> QED
        BY <1>2, <3>3, <4>1
    <3>5. CASE emps[v] # <<>>
      <4>1. v \in active
        BY <2>1, <3>5
      <4> QED
        BY <3>3, <4>1
    <3> QED
      BY <3>4, <3>5
  <2>2. CASE v \notin DOMAIN emps
    <3>1. gauges[v] = gauge[v] /\ histories[v] = granted[v]
      BY <2>2
    <3> QED
      BY <1>2, <3>1
  <2> QED
    BY <2>1, <2>2
<1> HIDE DEF gauges, active
<1>4. /\ gauge' \in [Validators -> Gauges]
      /\ \A v \in Validators : /\ GaugeOK(gauge'[v], histories[v], period)
                               /\ EmpsAt(gauge'[v], period) > 0 => v \in validators'
  BY <1>1, <1>2, <1>3, TuneInv
<1>5. histories \in [Validators -> Histories]
  <2>1. \A v \in Validators : histories[v] \in Histories
    BY <1>3, Zenon DEF GaugeOK
  <2> QED
    BY <2>1
<1> HIDE DEF histories
<1> QED
  BY <1>1, <1>2, <1>4, <1>5 DEF EmpInv, PointsAreTuned

LEMMA TuneEmpsInv ==
  ASSUME EmpInv, NEW allowed \in SUBSET Validators, tune_emps(allowed)
  PROVE  EmpInv'
<1>1. Tune(gauge, validators, allowed) /\ granted' = granted /\ period' = period
  BY DEF tune_emps
<1>2. /\ period \in Nat /\ granted \in [Validators -> Histories]
      /\ \A v \in Validators : GaugeOK(gauge[v], granted[v], period)
      /\ \A v \in Validators : EmpsAt(gauge[v], period) > 0 => v \in validators
  BY DEF EmpInv, PointsAreTuned
<1>3. /\ gauge' \in [Validators -> Gauges]
      /\ \A v \in Validators : /\ GaugeOK(gauge'[v], granted[v], period)
                               /\ EmpsAt(gauge'[v], period) > 0 => v \in validators'
  BY <1>1, <1>2, TuneInv
<1> QED
  BY <1>1, <1>2, <1>3 DEF EmpInv, PointsAreTuned

LEMMA WaitInv ==
  ASSUME EmpInv, Wait
  PROVE  EmpInv'
<1>1. period' = period + 1 /\ gauge' = gauge /\ validators' = validators /\ granted' = granted
  BY DEF Wait
<1>2. /\ period \in Nat /\ period + 1 \in Nat
      /\ \A v \in Validators : GaugeOK(gauge[v], granted[v], period)
      /\ \A v \in Validators : EmpsAt(gauge[v], period) > 0 => v \in validators
  BY DEF EmpInv, PointsAreTuned
<1>3. \A v \in Validators : /\ GaugeOK(gauge[v], granted[v], period + 1)
                            /\ EmpsAt(gauge[v], period + 1) > 0 => v \in validators
  BY <1>2, GaugeLater, EmpsFall
<1> QED
  BY <1>1, <1>2, <1>3 DEF EmpInv, PointsAreTuned

LEMMA NextInv ==
  ASSUME EmpAssumption, EmpInv, [Next]_vars
  PROVE  EmpInv'
<1>1. ASSUME NEW vs \in SUBSET Validators, NEW allowed \in SUBSET Validators,
             NEW emps \in [vs -> Grants], add_emps(emps, allowed)
      PROVE  EmpInv'
  BY <1>1, AddEmpsInv
<1>2. ASSUME NEW allowed \in SUBSET Validators, tune_emps(allowed)
      PROVE  EmpInv'
  BY <1>2, TuneEmpsInv
<1>3. ASSUME NEW limit \in Limits, update_config(limit)
      PROVE  EmpInv'
  BY <1>3 DEF update_config, EmpInv, PointsAreTuned
<1>4. CASE Wait
  BY <1>4, WaitInv
<1>5. CASE UNCHANGED vars
  BY <1>5 DEF vars, EmpInv, PointsAreTuned
<1> QED
  BY <1>1, <1>2, <1>3, <1>4, <1>5, Zenon DEF Next

LEMMA SpecInv ==
  ASSUME EmpAssumption
  PROVE  Spec => []EmpInv
<1>1. Init => EmpInv
  BY InitInv
<1>2. EmpInv /\ [Next]_vars => EmpInv'
  BY NextInv
<1> QED
  BY <1>1, <1>2, PTL DEF Spec

\* The points read for a period to come, as the invariant has them.
LEMMA InvInfo ==
  ASSUME EmpInv, NEW v \in Validators, NEW p \in Periods
  PROVE  /\ InfoOK(get_validator_info_mut(gauge[v], p), granted[v].slopes, p)
         /\ fetch_last_validator_fixed_emps_value(gauge[v], p) = granted[v].fixed
<1> DEFINE g == gauge[v]
           h == granted[v]
<1>1. period \in Nat /\ GaugeOK(g, h, period)
  BY DEF EmpInv
<1>2. p \in Nat /\ period <= p
  BY <1>1 DEF Periods
<1> HIDE DEF g, h
<1>3. /\ g \in Gauges /\ h \in Histories /\ VotesOK(g, h, period) /\ FixedOK(g, h, period)
      /\ g.changes \in Maps /\ ChangesOf(g.changes, h.slopes, p)
  BY <1>1, <1>2, GaugeFields DEF GaugeOK
<1>4. InfoOK(get_validator_info_mut(g, p), h.slopes, p)
  BY <1>1, <1>2, <1>3, InfoAtOK
<1>5. fetch_last_validator_fixed_emps_value(g, p) = h.fixed
  BY <1>1, <1>2, <1>3, FixedAtOK
<1> QED
  BY <1>4, <1>5 DEF g, h

-----------------------------------------------------------------------------
(* The theorems.                                                           *)

\* In every reachable state, for any validators, grants and number of periods, the slope
\* that get_validator_info computes for a period to come is that of the grants that have
\* not ended before it.
THEOREM SlopesStayGranted ==
  ASSUME EmpAssumption
  PROVE  Spec => []SlopesAreGranted
<1>1. ASSUME EmpInv PROVE SlopesAreGranted
  <2> SUFFICES ASSUME NEW v \in Validators, NEW p \in Periods
               PROVE  get_validator_info_mut(gauge[v], p).slope = Left(granted[v].slopes, p)
    BY Zenon DEF SlopesAreGranted, Left
  <2> QED
    BY <1>1, InvInfo, Zenon DEF InfoOK
<1> QED
  BY <1>1, SpecInv, PTL

\* A validator never has more points than its grants are worth, has exactly as many
\* until the first of them has ended, and keeps all its points for good.
THEOREM PointsStayGranted ==
  ASSUME EmpAssumption
  PROVE  Spec => []PointsAreGranted
<1>1. ASSUME EmpInv PROVE PointsAreGranted
  <2> SUFFICES ASSUME NEW v \in Validators, NEW p \in Periods
               PROVE  /\ get_validator_info_mut(gauge[v], p).power <= Worth(v, p)
                      /\ (\A end \in DOMAIN granted[v].slopes : end >= p) \/ Worth(v, p) = 0 =>
                           get_validator_info_mut(gauge[v], p).power = Worth(v, p)
                      /\ fetch_last_validator_fixed_emps_value(gauge[v], p) = granted[v].fixed
    BY Zenon DEF PointsAreGranted
  <2> DEFINE info   == get_validator_info_mut(gauge[v], p)
             slopes == granted[v].slopes
  <2>1. InfoOK(info, slopes, p) /\ fetch_last_validator_fixed_emps_value(gauge[v], p) = granted[v].fixed
    BY <1>1, InvInfo
  <2>2. Worth(v, p) = WorthOf(slopes, p)
    BY DEF Worth, WorthOf
  <2> HIDE DEF info
  <2>3. info.power \in Nat /\ info.power <= WorthOf(slopes, p)
    BY <2>1 DEF InfoOK, Infos
  <2>4. WorthOf(slopes, p) = 0 => info.power = WorthOf(slopes, p)
    BY <2>3
  <2> QED
    BY <2>1, <2>2, <2>3, <2>4 DEF InfoOK, info
<1> QED
  BY <1>1, SpecInv, PTL

\* A validator with points is always one that TuneEmps looks at.
THEOREM PointsStayTuned ==
  ASSUME EmpAssumption
  PROVE  Spec => []PointsAreTuned
<1>1. EmpInv => PointsAreTuned
  BY DEF EmpInv
<1> QED
  BY <1>1, SpecInv, PTL
=============================================================================
