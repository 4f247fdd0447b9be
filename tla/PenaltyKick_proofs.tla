-------------------------- MODULE PenaltyKick_proofs --------------------------
(***************************************************************************)
(* Theorems about PenaltyKick: what the players know of a shoot-out, and   *)
(* the order of kicks they keep, for every size of the team and any number *)
(* of kicks, goals, lost announcements and restarts.                       *)
(***************************************************************************)
EXTENDS PenaltyKick, FiniteSetTheorems, FunctionTheorems, TLAPS

Message == [name : Stages, side : Side, kick : Nat]

\* The announcements of a kick that is going on, and those a setup may follow.
OfKick  == {"penalty_setup", "penalty_ready", "penalty_taken"}
Between == {"penalty_onfield", "penalty_score", "penalty_miss"}

\* The side of the k-th kick if the n-th is of side s: the sides take turns.
SideOf(k, n, s) == IF (n - k) % 2 = 0 THEN s ELSE Opposite(s)

\* The referee knows the side of a kick once there is one.
RefereeInv ==
  /\ Kick > 0 => side \in {"left", "right"}
  /\ stage \notin {"time_extended", "penalty_onfield"} => Kick > 0

\* What a player that may have missed anything can still rely on: kicks come
\* to it in order, each with its side, and while a kick it knows of goes on, it
\* knows that it does.
Hears(p) ==
  /\ heard[p] <= Kick
  /\ heard[p] > 0 => pen[p].takerSide = SideOf(heard[p], Kick, side)
  /\ \A i \in 1 .. Len(inbox[p]) :
       /\ heard[p] <= inbox[p][i].kick /\ inbox[p][i].kick <= Kick
       /\ inbox[p][i].name \in OfKick =>
            inbox[p][i].kick > 0 /\ inbox[p][i].side = SideOf(inbox[p][i].kick, Kick, side)
       /\ stage \in OfKick /\ inbox[p][i].kick = Kick => inbox[p][i].name \in OfKick
       /\ \A j \in 1 .. i : inbox[p][j].kick <= inbox[p][i].kick
  /\ InKick(mode[p].type) => Kick > 0 /\ (heard[p] = Kick => mode[p].side = side)
  /\ stage \in OfKick /\ heard[p] = Kick => InKick(mode[p].type)
  /\ pen[p].kickSide # "neutral" => InKick(mode[p].type) /\ mode[p].side = pen[p].kickSide
  /\ pen[p].kickUnum # NoUnum => pen[p].ours > 0 /\ pen[p].kickUnum = Taker(pen[p].ours)

\* The kick and the type of play mode before the i-th of the announcements s
\* that a player has not read; before the first they are the player's own.
KickBefore(own, s, i) == IF i = 1 THEN own ELSE s[i - 1].kick
TypeBefore(own, s, i) == IF i = 1 THEN own ELSE PlayModeMap[s[i - 1].name]

\* The announcements a player has heard everything up to lead without a gap
\* from what it knows to what the referee has said.
Follows(p) ==
  /\ \A i \in 1 .. Len(inbox[p]) :
       IF inbox[p][i].name = "penalty_setup"
       THEN /\ inbox[p][i].kick = KickBefore(heard[p], inbox[p], i) + 1
            /\ TypeBefore(mode[p].type, inbox[p], i) \in {PlayModeMap[n] : n \in Between}
       ELSE inbox[p][i].kick = KickBefore(heard[p], inbox[p], i)
  /\ KickBefore(heard[p], inbox[p], Len(inbox[p]) + 1) = Kick
  /\ TypeBefore(mode[p].type, inbox[p], Len(inbox[p]) + 1) = PlayModeMap[stage]
  /\ InKick(mode[p].type) => heard[p] > 0 /\ mode[p].side = pen[p].takerSide

\* The announcements of a name and of one of the sides S in a sequence.
Pending(s, name, S) ==
  Cardinality({i \in 1 .. Len(s) : s[i].name = name /\ s[i].side \in S})

\* What such a player has counted and has yet to count is what the referee has.
Counts(p) ==
  /\ pen[p].ours + Pending(inbox[p], "penalty_setup", {OurSide}) = kicks[OurSide]
  /\ pen[p].theirs + Pending(inbox[p], "penalty_setup", Side \ {OurSide}) = kicks[TheirSide]
  /\ pen[p].ourScore + Pending(inbox[p], "penalty_score", {OurSide}) = scores[OurSide]
  /\ pen[p].theirScore + Pending(inbox[p], "penalty_score", Side \ {OurSide}) = scores[TheirSide]

Inv ==
  /\ TypeOK
  /\ RefereeInv
  /\ \A p \in Unums : Hears(p) /\ Len(inbox[p]) <= MaxInbox
  /\ \A p \in synced : Follows(p) /\ Counts(p)

-----------------------------------------------------------------------------
(* Announcements and play modes.                                           *)

Types == {PlayModeMap[n] : n \in DOMAIN PlayModeMap}

\* Each announcement of a shoot-out has a type of its own and keeps its side.
LEMMA StageTypes ==
  /\ PlayModeMap["time_extended"] = "ExtendHalf"
  /\ PlayModeMap["penalty_onfield"] = "PenaltyOnfield_"
  /\ PlayModeMap["penalty_setup"] = "PenaltySetup_"
  /\ PlayModeMap["penalty_ready"] = "PenaltyReady_"
  /\ PlayModeMap["penalty_taken"] = "PenaltyTaken_"
  /\ PlayModeMap["penalty_foul"] = "PenaltyFoul_"
  /\ PlayModeMap["penalty_score"] = "PenaltyScore_"
  /\ PlayModeMap["penalty_miss"] = "PenaltyMiss_"
  /\ PlayModeMap["before_kick_off"] = "BeforeKickOff"
  /\ Stages \subseteq DOMAIN PlayModeMap /\ "before_kick_off" \in DOMAIN PlayModeMap
  BY DEF PlayModeMap, Stages

LEMMA ParseFacts ==
  /\ \A n \in Stages, s \in Side :
       /\ Parse(n, s) = [type |-> PlayModeMap[n], side |-> s]
       /\ PlayModeMap[n] \in Types
       /\ InKick(PlayModeMap[n]) <=> n \in OfKick
  /\ \A s \in Side : /\ Parse("before_kick_off", s) = [type |-> "BeforeKickOff", side |-> s]
                     /\ ~InKick("BeforeKickOff")
  /\ "BeforeKickOff" \in Types
<1>1. \A n \in Stages : n # "foul" /\ n # "penalty_winner"
  BY DEF Stages
<1>2. \A n \in Stages : PlayModeMap[n] \in Types
  BY StageTypes DEF Types
<1>3. \A n \in Stages : InKick(PlayModeMap[n]) <=> n \in OfKick
  BY StageTypes DEF Stages, InKick, OfKick
<1>4. \A n \in Stages, s \in Side : Parse(n, s) = [type |-> PlayModeMap[n], side |-> s]
  BY <1>1 DEF Parse
<1>5. \A s \in Side : Parse("before_kick_off", s) = [type |-> "BeforeKickOff", side |-> s]
  BY StageTypes DEF Parse
<1>6. "BeforeKickOff" \in Types
  BY StageTypes DEF Types
<1> QED
  BY <1>2, <1>3, <1>4, <1>5, <1>6 DEF InKick

-----------------------------------------------------------------------------
(* Whose turn it is.                                                       *)

\* A remainder is told by its quotient.
LEMMA ModUnique ==
  ASSUME NEW n \in Nat \ {0}, NEW q \in Nat, NEW j \in 0 .. n - 1
  PROVE  (n * q + j) % n = j
OBVIOUS

\* The next number's remainder is the next one, or zero.
LEMMA ModNext ==
  ASSUME NEW n \in Nat \ {0}, NEW a \in Nat
  PROVE  /\ a % n \in 0 .. n - 1
         /\ (a + 1) % n = IF a % n = n - 1 THEN 0 ELSE (a % n) + 1
<1> DEFINE q == a \div n
           r == a % n
<1>1. q \in Nat /\ r \in 0 .. n - 1 /\ a = n * q + r
  OBVIOUS
<1> HIDE DEF q, r
<1>2. CASE r = n - 1
  <2>1. a + 1 = n * (q + 1) + 0 /\ q + 1 \in Nat /\ 0 \in 0 .. n - 1
    BY <1>1, <1>2
  <2>2. (n * (q + 1) + 0) % n = 0
    BY <2>1, ModUnique
  <2> QED
    BY <1>1, <1>2, <2>1, <2>2 DEF r
<1>3. CASE r # n - 1
  <2>1. a + 1 = n * q + (r + 1) /\ r + 1 \in 0 .. n - 1
    BY <1>1, <1>3
  <2>2. (n * q + (r + 1)) % n = r + 1
    BY <1>1, <2>1, ModUnique
  <2> QED
    BY <1>1, <1>3, <2>1, <2>2 DEF r
<1> QED
  BY <1>2, <1>3

\* The taker is a player.
LEMMA TakerFacts ==
  ASSUME NEW k \in Nat \ {0}
  PROVE  Taker(k) \in Unums
<1>1. k - 1 \in Nat
  OBVIOUS
<1>2. (k - 1) % TeamSize \in 0 .. TeamSize - 1
  BY <1>1, TeamAssumption, ModNext
<1> QED
  BY <1>2, TeamAssumption DEF Taker, Unums

\* The players that had their turn in the present round are those with the
\* highest numbers.
LEMMA HadFacts ==
  ASSUME NEW k \in Nat
  PROVE  {Taker(i) : i \in k - (k % TeamSize) + 1 .. k} = TeamSize - (k % TeamSize) + 1 .. TeamSize
<1> DEFINE n == k % TeamSize
           q == k \div TeamSize
<1> USE TeamAssumption
<1>1. n \in 0 .. TeamSize - 1 /\ q \in Nat /\ k = TeamSize * q + n
  OBVIOUS
<1> HIDE DEF n, q
<1>2. \A j \in 0 .. n - 1 : Taker(k - n + 1 + j) = TeamSize - j
  <2> TAKE j \in 0 .. n - 1
  <2>1. k - n + 1 + j - 1 = TeamSize * q + j /\ j \in 0 .. TeamSize - 1
    BY <1>1
  <2>2. (TeamSize * q + j) % TeamSize = j
    BY <1>1, <2>1, ModUnique
  <2>3. (k - n + 1 + j - 1) % TeamSize = j
    BY <2>1, <2>2
  <2> QED
    BY <1>1, <2>3 DEF Taker
<1>3. ASSUME NEW i \in k - n + 1 .. k
      PROVE  Taker(i) \in TeamSize - n + 1 .. TeamSize
  <2>1. i - (k - n + 1) \in 0 .. n - 1 /\ i = k - n + 1 + (i - (k - n + 1))
    BY <1>1, <1>3
  <2>2. Taker(i) = TeamSize - (i - (k - n + 1))
    BY <1>2, <2>1
  <2> QED
    BY <1>1, <2>1, <2>2
<1>4. ASSUME NEW p \in TeamSize - n + 1 .. TeamSize
      PROVE  \E i \in k - n + 1 .. k : Taker(i) = p
  <2>1. TeamSize - p \in 0 .. n - 1
    BY <1>1, <1>4
  <2>2. Taker(k - n + 1 + (TeamSize - p)) = TeamSize - (TeamSize - p)
    BY <1>2, <2>1
  <2>3. k - n + 1 + (TeamSize - p) \in k - n + 1 .. k
    BY <1>1, <2>1
  <2>4. TeamSize - (TeamSize - p) = p
    BY <1>1, <1>4
  <2> QED
    BY <2>2, <2>3, <2>4
<1> QED
  BY <1>3, <1>4 DEF n

-----------------------------------------------------------------------------
(* Sequences of announcements.                                             *)

\* Reading takes the first, and the others move up.
LEMMA TailFacts ==
  ASSUME NEW S, NEW s \in Seq(S), s # << >>
  PROVE  /\ Len(s) \in Nat \ {0} /\ Head(s) = s[1] /\ Head(s) \in S
         /\ Tail(s) \in Seq(S) /\ Len(Tail(s)) = Len(s) - 1
         /\ \A i \in 1 .. Len(s) - 1 : Tail(s)[i] = s[i + 1]
OBVIOUS

LEMMA AppendFacts ==
  ASSUME NEW S, NEW s \in Seq(S), NEW e \in S
  PROVE  /\ Append(s, e) \in Seq(S) /\ Len(Append(s, e)) = Len(s) + 1
         /\ \A i \in 1 .. Len(s) : Append(s, e)[i] = s[i]
         /\ Append(s, e)[Len(s) + 1] = e
OBVIOUS

\* What is pending grows by a matching announcement, and shrinks by one read.
LEMMA PendingFacts ==
  ASSUME NEW s \in Seq(Message), NEW name, NEW S
  PROVE  /\ Pending(s, name, S) \in Nat
         /\ s = << >> => Pending(s, name, S) = 0
<1> DEFINE P == {i \in 1 .. Len(s) : s[i].name = name /\ s[i].side \in S}
<1>1. IsFiniteSet(P)
  <2>1. IsFiniteSet(1 .. Len(s))
    BY FS_Interval
  <2> QED
    BY <2>1, FS_Subset
<1>2. Cardinality(P) \in Nat
  BY <1>1, FS_CardinalityType
<1>3. ASSUME s = << >> PROVE Cardinality(P) = 0
  <2>1. P = {}
    BY <1>3
  <2> QED
    BY <2>1, FS_EmptySet
<1> QED
  BY <1>2, <1>3 DEF Pending

LEMMA PendingAppend ==
  ASSUME NEW s \in Seq(Message), NEW name, NEW S, NEW m \in Message
  PROVE  Pending(Append(s, m), name, S) =
           Pending(s, name, S) + IF m.name = name /\ m.side \in S THEN 1 ELSE 0
<1> DEFINE P == {i \in 1 .. Len(s) : s[i].name = name /\ s[i].side \in S}
           t == Append(s, m)
           Q == {i \in 1 .. Len(t) : t[i].name = name /\ t[i].side \in S}
<1>1. IsFiniteSet(P) /\ Len(s) \in Nat
  <2>1. IsFiniteSet(1 .. Len(s))
    BY FS_Interval
  <2> QED
    BY <2>1, FS_Subset
<1>2. /\ Len(t) = Len(s) + 1 /\ t[Len(s) + 1] = m
      /\ \A i \in 1 .. Len(s) : t[i] = s[i]
  BY AppendFacts
<1>3. Cardinality(P) \in Nat
  BY <1>1, FS_CardinalityType
<1>0. Pending(s, name, S) = Cardinality(P) /\ Pending(t, name, S) = Cardinality(Q)
  BY DEF Pending
<1> HIDE DEF t
<1>4. CASE m.name = name /\ m.side \in S
  <2>1. Q = P \cup {Len(s) + 1}
    BY <1>1, <1>2, <1>4
  <2>2. Len(s) + 1 \notin P
    BY <1>1
  <2>3. Cardinality(P \cup {Len(s) + 1}) = Cardinality(P) + 1
    BY <1>1, <2>2, FS_AddElement
  <2> QED
    BY <1>0, <1>4, <2>1, <2>3 DEF t
<1>5. CASE ~(m.name = name /\ m.side \in S)
  <2>1. Q = P
    BY <1>1, <1>2, <1>5
  <2> HIDE DEF P, Q
  <2> QED
    BY <1>0, <1>3, <1>5, <2>1 DEF t
<1> QED
  BY <1>4, <1>5

LEMMA PendingTail ==
  ASSUME NEW s \in Seq(Message), NEW name, NEW S, s # << >>
  PROVE  Pending(s, name, S) =
           Pending(Tail(s), name, S)
             + IF Head(s).name = name /\ Head(s).side \in S THEN 1 ELSE 0
<1> DEFINE t == Tail(s)
           P == {i \in 1 .. Len(s) : s[i].name = name /\ s[i].side \in S}
           Q == {i \in 1 .. Len(t) : t[i].name = name /\ t[i].side \in S}
           R == {i \in P : i # 1}
<1>1. IsFiniteSet(P) /\ IsFiniteSet(R) /\ IsFiniteSet(Q)
  <2>1. IsFiniteSet(1 .. Len(s)) /\ IsFiniteSet(1 .. Len(t))
    BY FS_Interval
  <2> QED
    BY <2>1, FS_Subset
<1>2. /\ Len(s) \in Nat \ {0} /\ Head(s) = s[1]
      /\ t \in Seq(Message) /\ Len(t) = Len(s) - 1
      /\ \A i \in 1 .. Len(s) - 1 : t[i] = s[i + 1]
  BY TailFacts
<1>0. Pending(s, name, S) = Cardinality(P) /\ Pending(t, name, S) = Cardinality(Q)
  BY DEF Pending
<1> HIDE DEF t
<1>3. Cardinality(Q) = Cardinality(R)
  <2> DEFINE f == [i \in Q |-> i + 1]
  <2>1. f \in [Q -> R]
    BY <1>2
  <2>2. \A i, j \in Q : f[i] = f[j] => i = j
    OBVIOUS
  <2>3. \A r \in R : \E i \in Q : f[i] = r
    <3> TAKE r \in R
    <3>1. r - 1 \in Q /\ f[r - 1] = r
      BY <1>2
    <3> QED
      BY <3>1
  <2> HIDE DEF f, Q, R
  <2>4. f \in Bijection(Q, R)
    BY <2>1, <2>2, <2>3, Fun_IsBij
  <2>5. ExistsBijection(Q, R)
    BY <2>4 DEF ExistsBijection
  <2> QED
    BY <1>1, <2>5, FS_Bijection
<1>4. Cardinality(R) \in Nat
  BY <1>1, FS_CardinalityType
<1>5. CASE Head(s).name = name /\ Head(s).side \in S
  <2>1. P = R \cup {1} /\ 1 \notin R
    BY <1>2, <1>5
  <2>2. Cardinality(R \cup {1}) = Cardinality(R) + 1
    BY <1>1, <2>1, FS_AddElement
  <2> QED
    BY <1>0, <1>3, <1>5, <2>1, <2>2 DEF t
<1>6. CASE ~(Head(s).name = name /\ Head(s).side \in S)
  <2>1. P = R
    BY <1>2, <1>6
  <2> HIDE DEF P, Q, R
  <2> QED
    BY <1>0, <1>3, <1>4, <1>6, <2>1 DEF t
<1> QED
  BY <1>5, <1>6

-----------------------------------------------------------------------------
(* The referee's steps.                                                    *)

\* An announcement reaches every player that still hears everything.
Sends(name, s) ==
  /\ stage' = name
  /\ synced' \subseteq synced
  /\ \A p \in Unums :
       /\ Len(inbox[p]) < MaxInbox
       /\ \/ inbox'[p] = Append(inbox[p], [name |-> name, side |-> s, kick |-> Kick'])
          \/ inbox'[p] = inbox[p] /\ p \notin synced'
  /\ UNCHANGED <<mode, pen, heard>>

\* What the referee's step does, by the name it announces.
Announces(name, s) ==
  /\ Sends(name, s)
  /\ IF name = "penalty_setup"
     THEN /\ stage \in Between
          /\ s \in {"left", "right"} /\ side' = s
          /\ Kick > 0 => s = Opposite(side)
          /\ kicks' = [kicks EXCEPT ![s] = @ + 1] /\ Kick' = Kick + 1
     ELSE kicks' = kicks /\ Kick' = Kick /\ side' = side
  /\ name \in OfKick \ {"penalty_setup"} => stage \in OfKick /\ s = side
  /\ name \notin {"time_extended", "penalty_onfield"} => Kick' > 0
  /\ IF name = "penalty_score"
     THEN s \in {"left", "right"} /\ scores' = [scores EXCEPT ![s] = @ + 1]
     ELSE scores' = scores

LEMMA AnnounceFacts ==
  ASSUME TypeOK, NEW name \in Stages, NEW s \in Side, Kick' \in Nat, Announce(name, s)
  PROVE  /\ Sends(name, s)
         /\ stage' \in Stages
         /\ inbox' \in [Unums -> Seq(Message)]
         /\ mode' = mode /\ pen' = pen /\ heard' = heard
         /\ synced' \subseteq Unums /\ faults' \in Nat
<1> DEFINE message == [name |-> name, side |-> s, kick |-> Kick']
<1>1. message \in Message
  BY DEF Message
<1>2. inbox \in [Unums -> Seq(Message)] /\ synced \subseteq Unums /\ faults \in Nat
  BY DEF TypeOK, Message
<1>3. \A p \in Unums : Append(inbox[p], message) \in Seq(Message)
  BY <1>1, <1>2, AppendFacts
<1>4. stage' = name /\ mode' = mode /\ pen' = pen /\ heard' = heard
      /\ \A p \in Unums : Len(inbox[p]) < MaxInbox
  BY DEF Announce
<1>5. \/ /\ inbox' = [q \in Unums |-> IF q \in Unums THEN Append(inbox[q], message) ELSE inbox[q]]
         /\ synced' = synced /\ faults' = faults
      \/ \E p \in Unums :
           /\ inbox' = [q \in Unums |-> IF q \in Unums \ {p} THEN Append(inbox[q], message)
                                        ELSE inbox[q]]
           /\ synced' = synced \ {p} /\ faults' = faults + 1
  BY DEF Announce, Fault
<1> HIDE DEF message
<1>6. CASE /\ inbox' = [q \in Unums |-> IF q \in Unums THEN Append(inbox[q], message)
                                        ELSE inbox[q]]
           /\ synced' = synced /\ faults' = faults
  <2>1. /\ inbox' \in [Unums -> Seq(Message)]
        /\ \A p \in Unums : inbox'[p] = Append(inbox[p], message)
    BY <1>2, <1>3, <1>6
  <2> QED
    BY <1>2, <1>4, <1>6, <2>1 DEF Sends, message
<1>7. ASSUME NEW p \in Unums,
             inbox' = [q \in Unums |-> IF q \in Unums \ {p} THEN Append(inbox[q], message)
                                       ELSE inbox[q]],
             synced' = synced \ {p}, faults' = faults + 1
      PROVE  /\ Sends(name, s)
             /\ inbox' \in [Unums -> Seq(Message)]
             /\ synced' \subseteq Unums /\ faults' \in Nat
  <2>1. /\ inbox' \in [Unums -> Seq(Message)]
        /\ \A q \in Unums \ {p} : inbox'[q] = Append(inbox[q], message)
        /\ inbox'[p] = inbox[p]
    BY <1>2, <1>3, <1>7
  <2>2. p \notin synced' /\ synced' \subseteq synced
    BY <1>7
  <2> QED
    BY <1>2, <1>4, <1>7, <2>1, <2>2 DEF Sends, message
<1> QED
  BY <1>4, <1>5, <1>6, <1>7 DEF Sends, message

RefereeTypes ==
  /\ side \in Side /\ goal \in Side
  /\ kicks \in [{"left", "right"} -> Nat] /\ scores \in [{"left", "right"} -> Nat]

RefereeSteps == ChooseGoal \/ Setup \/ Ready \/ Taken \/ Foul \/ Score \/ Miss

\* Every step of the referee is one announcement, and keeps its types.
LEMMA RefereeStep ==
  ASSUME TypeOK, RefereeInv, RefereeSteps
  PROVE  /\ \E name \in Stages, s \in Side : Announces(name, s)
         /\ TypeOK' /\ RefereeInv'
<1>1. /\ stage \in Stages /\ Kick \in Nat /\ RefereeTypes
      /\ mode \in [Unums -> [type : Types, side : Side]]
      /\ pen \in [Unums -> PenaltyKickState] /\ heard \in [Unums -> Nat]
  BY DEF TypeOK, Kick, Types, RefereeTypes
<1>2. ASSUME NEW name \in Stages, NEW s \in Side, Announce(name, s), RefereeTypes',
             Sends(name, s) => Announces(name, s)
      PROVE  /\ Announces(name, s) /\ TypeOK' /\ RefereeInv'
  <2>1. Kick' \in Nat
    BY <1>2 DEF RefereeTypes, Kick
  <2>2. /\ Sends(name, s)
        /\ stage' \in Stages
        /\ inbox' \in [Unums -> Seq(Message)]
        /\ mode' = mode /\ pen' = pen /\ heard' = heard
        /\ synced' \subseteq Unums /\ faults' \in Nat
    BY <1>2, <2>1, AnnounceFacts
  <2>3. TypeOK'
    BY <1>1, <1>2, <2>2 DEF TypeOK, Types, RefereeTypes, Message
  <2>4. Announces(name, s)
    BY <1>2, <2>2
  <2>5. RefereeInv'
    BY <1>1, <2>4 DEF Announces, Sends, RefereeInv, Opposite, RefereeTypes, Side
  <2> QED
    BY <2>3, <2>4, <2>5
<1>3. CASE ChooseGoal
  BY <1>1, <1>2, <1>3 DEF ChooseGoal, Stages, Side, RefereeTypes, Announces, OfKick, RefereeInv, Kick
<1>4. CASE Setup
  <2>1. /\ stage \in Between
        /\ side' \in {"left", "right"} /\ (Kick > 0 => side' = Opposite(side))
        /\ kicks' = [kicks EXCEPT ![side'] = @ + 1]
        /\ scores' = scores /\ goal' = goal
        /\ Announce("penalty_setup", side')
    <3>1. side' \in IF Kick = 0 THEN {"left", "right"} ELSE {Opposite(side)}
      BY <1>4 DEF Setup
    <3>2. Kick # 0 => side \in {"left", "right"} /\ side' = Opposite(side)
      BY <1>1, <3>1 DEF RefereeInv
    <3>3. Kick = 0 => side' \in {"left", "right"}
      BY <3>1
    <3> QED
      BY <1>1, <1>4, <3>2, <3>3 DEF Setup, Between, Opposite
  <2>2. Kick' = Kick + 1 /\ kicks' \in [{"left", "right"} -> Nat]
    BY <1>1, <2>1 DEF Kick, RefereeTypes
  <2>3. side' \in Side /\ RefereeTypes'
    BY <1>1, <2>1, <2>2 DEF RefereeTypes, Side
  <2>4. Sends("penalty_setup", side') => Announces("penalty_setup", side')
    BY <1>1, <2>1, <2>2 DEF Announces, OfKick
  <2>5. "penalty_setup" \in Stages
    BY DEF Stages
  <2> QED
    BY <1>2, <2>1, <2>3, <2>4, <2>5
<1>5. CASE Ready
  BY <1>1, <1>2, <1>5 DEF Ready, Stages, Side, RefereeTypes, Announces, OfKick, RefereeInv, Kick
<1>6. CASE Taken
  BY <1>1, <1>2, <1>6 DEF Taken, Stages, Side, RefereeTypes, Announces, OfKick, RefereeInv, Kick
<1>7. CASE Foul
  BY <1>1, <1>2, <1>7 DEF Foul, Stages, Side, RefereeTypes, Announces, OfKick, RefereeInv, Kick
<1>8. CASE Score
  <2>1. /\ stage \in {"penalty_taken", "penalty_foul"}
        /\ side' = side /\ kicks' = kicks /\ goal' = goal
        /\ scores' = [scores EXCEPT ![side] = @ + 1]
        /\ Announce("penalty_score", side)
    BY <1>8 DEF Score
  <2>2. Kick > 0 /\ side \in {"left", "right"} /\ Kick' = Kick
    BY <2>1 DEF RefereeInv, Kick
  <2>3. side \in Side /\ RefereeTypes'
    BY <1>1, <2>1, <2>2 DEF RefereeTypes, Side
  <2>4. Sends("penalty_score", side) => Announces("penalty_score", side)
    BY <1>1, <2>1, <2>2 DEF Announces, OfKick
  <2>5. "penalty_score" \in Stages
    BY DEF Stages
  <2> QED
    BY <1>2, <2>1, <2>3, <2>4, <2>5
<1>9. CASE Miss
  BY <1>1, <1>2, <1>9 DEF Miss, Stages, Side, RefereeTypes, Announces, OfKick, RefereeInv, Kick
<1> QED
  BY <1>3, <1>4, <1>5, <1>6, <1>7, <1>8, <1>9 DEF RefereeSteps

-----------------------------------------------------------------------------
(* A player's steps.                                                       *)

\* What an announcement changes in a player's counts.
LEMMA UpdatedFacts ==
  ASSUME NEW s \in PenaltyKickState, NEW n \in Stages, NEW sd \in Side
  PROVE  LET u == Updated(s, [type |-> PlayModeMap[n], side |-> sd]) IN
         /\ u \in PenaltyKickState
         /\ u.ours = s.ours + IF n = "penalty_setup" /\ sd \in {OurSide} THEN 1 ELSE 0
         /\ u.theirs = s.theirs + IF n = "penalty_setup" /\ sd \in Side \ {OurSide} THEN 1 ELSE 0
         /\ u.ourScore = s.ourScore + IF n = "penalty_score" /\ sd \in {OurSide} THEN 1 ELSE 0
         /\ u.theirScore =
              s.theirScore + IF n = "penalty_score" /\ sd \in Side \ {OurSide} THEN 1 ELSE 0
         /\ u.takerSide = IF n = "penalty_setup" THEN sd ELSE s.takerSide
         /\ u.kickSide # "neutral" => n \in OfKick /\ u.kickSide = sd
         /\ u.kickUnum # NoUnum => u.ours > 0 /\ u.kickUnum = Taker(u.ours)
<1> DEFINE m == [type |-> PlayModeMap[n], side |-> sd]
           c == Counted(s, m)
           u == Updated(s, m)
<1>0. /\ s = [onfield |-> s.onfield, takerSide |-> s.takerSide, ours |-> s.ours,
              theirs |-> s.theirs, ourScore |-> s.ourScore, theirScore |-> s.theirScore,
              kickSide |-> s.kickSide, kickUnum |-> s.kickUnum]
      /\ s.onfield \in Side /\ s.takerSide \in Side /\ s.ours \in Nat /\ s.theirs \in Nat
      /\ s.ourScore \in Nat /\ s.theirScore \in Nat
      /\ s.kickSide \in Side /\ s.kickUnum \in Unums \cup {NoUnum}
  BY DEF PenaltyKickState
<1>1. /\ m.side = sd
      /\ m.type = "PenaltySetup_" <=> n = "penalty_setup"
      /\ m.type = "PenaltyScore_" <=> n = "penalty_score"
      /\ m.type = "PenaltyOnfield_" <=> n = "penalty_onfield"
      /\ InKick(m.type) <=> n \in OfKick
  BY StageTypes, ParseFacts DEF Stages
<1> HIDE DEF m
<1>2. /\ c = CASE n = "penalty_setup" /\ sd = OurSide ->
                    [s EXCEPT !.takerSide = sd, !.ours = s.ours + 1]
               [] n = "penalty_setup" /\ sd # OurSide ->
                    [s EXCEPT !.takerSide = sd, !.theirs = s.theirs + 1]
               [] n = "penalty_score" /\ sd = OurSide ->
                    [s EXCEPT !.ourScore = s.ourScore + 1]
               [] n = "penalty_score" /\ sd # OurSide ->
                    [s EXCEPT !.theirScore = s.theirScore + 1]
               [] n = "penalty_onfield" -> [s EXCEPT !.onfield = sd]
               [] OTHER -> s
  BY <1>1 DEF Counted
<1> HIDE DEF c
<1>3. /\ c \in PenaltyKickState
      /\ c.ours = s.ours + IF n = "penalty_setup" /\ sd \in {OurSide} THEN 1 ELSE 0
      /\ c.theirs = s.theirs + IF n = "penalty_setup" /\ sd \in Side \ {OurSide} THEN 1 ELSE 0
      /\ c.ourScore = s.ourScore + IF n = "penalty_score" /\ sd \in {OurSide} THEN 1 ELSE 0
      /\ c.theirScore =
           s.theirScore + IF n = "penalty_score" /\ sd \in Side \ {OurSide} THEN 1 ELSE 0
      /\ c.takerSide = IF n = "penalty_setup" THEN sd ELSE s.takerSide
  <2>1. CASE n = "penalty_setup" /\ sd = OurSide
    <3>1. c = [s EXCEPT !.takerSide = sd, !.ours = s.ours + 1]
      BY <1>2, <2>1
    <3>2. c \in PenaltyKickState
      <4>1. c = [onfield |-> s.onfield, takerSide |-> sd, ours |-> s.ours + 1,
                 theirs |-> s.theirs, ourScore |-> s.ourScore, theirScore |-> s.theirScore,
                 kickSide |-> s.kickSide, kickUnum |-> s.kickUnum]
        BY <1>0, <3>1
      <4>2. s.ours + 1 \in Nat /\ s.theirs \in Nat
        BY <1>0
      <4> QED
        BY <1>0, <4>1, <4>2 DEF PenaltyKickState
    <3>3. /\ c.ours = s.ours + 1 /\ c.theirs = s.theirs /\ c.takerSide = sd
          /\ c.ourScore = s.ourScore /\ c.theirScore = s.theirScore
      BY <1>0, <3>1
    <3> QED
      BY <1>0, <2>1, <3>2, <3>3
  <2>2. CASE n = "penalty_setup" /\ sd # OurSide
    <3>1. c = [s EXCEPT !.takerSide = sd, !.theirs = s.theirs + 1]
      BY <1>2, <2>2
    <3>2. c \in PenaltyKickState
      <4>1. c = [onfield |-> s.onfield, takerSide |-> sd, ours |-> s.ours,
                 theirs |-> s.theirs + 1, ourScore |-> s.ourScore, theirScore |-> s.theirScore,
                 kickSide |-> s.kickSide, kickUnum |-> s.kickUnum]
        BY <1>0, <3>1
      <4>2. s.ours \in Nat /\ s.theirs + 1 \in Nat
        BY <1>0
      <4> QED
        BY <1>0, <4>1, <4>2 DEF PenaltyKickState
    <3>3. /\ c.ours = s.ours /\ c.theirs = s.theirs + 1 /\ c.takerSide = sd
          /\ c.ourScore = s.ourScore /\ c.theirScore = s.theirScore
      BY <1>0, <3>1
    <3> QED
      BY <1>0, <2>2, <3>2, <3>3
  <2>3. CASE n = "penalty_score" /\ sd = OurSide
    <3>1. c = [s EXCEPT !.ourScore = s.ourScore + 1]
      BY <1>2, <2>3
    <3>2. c \in PenaltyKickState
      BY <1>0, <3>1 DEF PenaltyKickState
    <3>3. /\ c.ours = s.ours /\ c.theirs = s.theirs /\ c.takerSide = s.takerSide
          /\ c.ourScore = s.ourScore + 1 /\ c.theirScore = s.theirScore
      BY <1>0, <3>1
    <3> QED
      BY <1>0, <2>3, <3>2, <3>3
  <2>4. CASE n = "penalty_score" /\ sd # OurSide
    <3>1. c = [s EXCEPT !.theirScore = s.theirScore + 1]
      BY <1>2, <2>4
    <3>2. c \in PenaltyKickState
      BY <1>0, <3>1 DEF PenaltyKickState
    <3>3. /\ c.ours = s.ours /\ c.theirs = s.theirs /\ c.takerSide = s.takerSide
          /\ c.ourScore = s.ourScore /\ c.theirScore = s.theirScore + 1
      BY <1>0, <3>1
    <3> QED
      BY <1>0, <2>4, <3>2, <3>3
  <2>5. CASE n = "penalty_onfield"
    BY <1>2, <2>5 DEF PenaltyKickState
  <2>6. CASE n \notin {"penalty_setup", "penalty_score", "penalty_onfield"}
    BY <1>2, <2>6 DEF PenaltyKickState
  <2> QED
    BY <2>1, <2>2, <2>3, <2>4, <2>5, <2>6
<1>4. u = IF c.ours > 0 /\ n \in OfKick
          THEN [c EXCEPT !.kickSide = sd, !.kickUnum = Taker(c.ours)]
          ELSE [c EXCEPT !.kickSide = "neutral", !.kickUnum = NoUnum]
  BY <1>1 DEF Updated, c
<1>5. c.ours > 0 => Taker(c.ours) \in Unums
  <2>1. c.ours \in Nat
    BY <1>3 DEF PenaltyKickState
  <2> QED
    BY <2>1, TakerFacts
<1>6. /\ u \in PenaltyKickState
      /\ \A f \in {"ours", "theirs", "ourScore", "theirScore", "takerSide"} : u[f] = c[f]
      /\ u.kickSide # "neutral" => n \in OfKick /\ u.kickSide = sd
  BY <1>3, <1>4, <1>5 DEF PenaltyKickState, Side
<1>8. u.kickUnum # NoUnum => u.ours > 0 /\ u.kickUnum = Taker(u.ours)
  <2>1. CASE c.ours > 0 /\ n \in OfKick
    <3>1. u = [c EXCEPT !.kickSide = sd, !.kickUnum = Taker(c.ours)]
      BY <1>4, <2>1
    <3>2. u.ours = c.ours /\ u.kickUnum = Taker(c.ours)
      BY <1>3, <3>1 DEF PenaltyKickState
    <3> QED
      BY <2>1, <3>2
  <2>2. CASE ~(c.ours > 0 /\ n \in OfKick)
    <3>1. u = [c EXCEPT !.kickSide = "neutral", !.kickUnum = NoUnum]
      BY <1>4, <2>2
    <3> QED
      BY <1>3, <3>1 DEF PenaltyKickState
  <2> HIDE DEF u
  <2> QED
    BY <2>1, <2>2
<1> HIDE DEF u
<1>7. /\ u.ours = c.ours /\ u.theirs = c.theirs /\ u.ourScore = c.ourScore
      /\ u.theirScore = c.theirScore /\ u.takerSide = c.takerSide
  BY <1>6
<1> QED
  BY <1>3, <1>6, <1>7, <1>8 DEF u, m

\* Reading an announcement.
LEMMA HearFacts ==
  ASSUME TypeOK, NEW p \in Unums, HearReferee(p)
  PROVE  LET m == Head(inbox[p]) IN
         /\ inbox[p] # << >> /\ m \in Message
         /\ UNCHANGED <<referee, synced, faults>>
         /\ mode'[p] = [type |-> PlayModeMap[m.name], side |-> m.side]
         /\ pen'[p] = Updated(pen[p], mode'[p])
         /\ heard'[p] = IF m.name = "penalty_setup" THEN m.kick ELSE heard[p]
         /\ inbox'[p] = Tail(inbox[p])
         /\ \A q \in Unums \ {p} : /\ mode'[q] = mode[q] /\ pen'[q] = pen[q]
                                   /\ heard'[q] = heard[q] /\ inbox'[q] = inbox[q]
         /\ TypeOK'
<1> DEFINE m == Head(inbox[p])
           pm == Parse(m.name, m.side)
<1>1. /\ inbox \in [Unums -> Seq(Message)] /\ mode \in [Unums -> [type : Types, side : Side]]
      /\ pen \in [Unums -> PenaltyKickState] /\ heard \in [Unums -> Nat]
      /\ inbox[p] # << >>
  BY DEF TypeOK, Message, Types, HearReferee
<1>2. m \in Message /\ Tail(inbox[p]) \in Seq(Message)
  BY <1>1, TailFacts
<1>3. m.name \in Stages /\ m.side \in Side /\ m.kick \in Nat
  BY <1>2 DEF Message
<1>4. /\ mode' = [mode EXCEPT ![p] = pm]
      /\ pen' = [pen EXCEPT ![p] = Updated(pen[p], pm)]
      /\ heard' = IF m.name = "penalty_setup" THEN [heard EXCEPT ![p] = m.kick] ELSE heard
      /\ inbox' = [inbox EXCEPT ![p] = Tail(inbox[p])]
      /\ UNCHANGED <<referee, synced, faults>>
  BY DEF HearReferee
<1> HIDE DEF m, pm
<1>5. pm = [type |-> PlayModeMap[m.name], side |-> m.side] /\ PlayModeMap[m.name] \in Types
  BY <1>3, ParseFacts DEF pm
<1>6. pm \in [type : Types, side : Side]
  BY <1>3, <1>5
<1>7. pen[p] \in PenaltyKickState
  BY <1>1
<1>8. Updated(pen[p], pm) \in PenaltyKickState
  BY <1>3, <1>5, <1>7, UpdatedFacts
<1>9. /\ mode'[p] = pm /\ pen'[p] = Updated(pen[p], pm)
      /\ heard'[p] = IF m.name = "penalty_setup" THEN m.kick ELSE heard[p]
      /\ inbox'[p] = Tail(inbox[p])
      /\ \A q \in Unums \ {p} : /\ mode'[q] = mode[q] /\ pen'[q] = pen[q]
                                /\ heard'[q] = heard[q] /\ inbox'[q] = inbox[q]
  BY <1>1, <1>4
<1>10. /\ mode' \in [Unums -> [type : Types, side : Side]]
       /\ pen' \in [Unums -> PenaltyKickState] /\ heard' \in [Unums -> Nat]
       /\ inbox' \in [Unums -> Seq(Message)]
  BY <1>1, <1>2, <1>3, <1>4, <1>6, <1>8
<1>11. TypeOK'
  BY <1>4, <1>10 DEF TypeOK, Types, Message, referee
<1> QED
  BY <1>1, <1>2, <1>4, <1>5, <1>9, <1>11 DEF m

\* Starting again.
LEMMA RestartFacts ==
  ASSUME TypeOK, NEW p \in Unums, Restart(p)
  PROVE  /\ UNCHANGED referee /\ synced' = synced \ {p}
         /\ mode'[p].type = "BeforeKickOff" /\ heard'[p] = 0 /\ inbox'[p] = << >>
         /\ pen'[p].kickSide = "neutral" /\ pen'[p].kickUnum = NoUnum
         /\ \A q \in Unums \ {p} : /\ mode'[q] = mode[q] /\ pen'[q] = pen[q]
                                   /\ heard'[q] = heard[q] /\ inbox'[q] = inbox[q]
         /\ TypeOK'
<1> DEFINE pm == Parse("before_kick_off", "neutral")
<1>1. /\ inbox \in [Unums -> Seq(Message)] /\ mode \in [Unums -> [type : Types, side : Side]]
      /\ pen \in [Unums -> PenaltyKickState] /\ heard \in [Unums -> Nat]
  BY DEF TypeOK, Message, Types
<1>2. PICK takerSide \in Side : pen' = [pen EXCEPT ![p] = Fresh(takerSide)]
  BY DEF Restart
<1>3. pm = [type |-> "BeforeKickOff", side |-> "neutral"] /\ pm \in [type : Types, side : Side]
  BY ParseFacts DEF Side
<1>4. /\ mode' = [mode EXCEPT ![p] = pm]
      /\ heard' = [heard EXCEPT ![p] = 0]
      /\ inbox' = [inbox EXCEPT ![p] = << >>]
      /\ UNCHANGED referee /\ synced' = synced \ {p} /\ faults' = faults + 1
  BY DEF Restart, Fault
<1> HIDE DEF pm
<1>5. /\ Fresh(takerSide) \in PenaltyKickState
      /\ Fresh(takerSide).kickSide = "neutral" /\ Fresh(takerSide).kickUnum = NoUnum
  BY DEF Fresh, PenaltyKickState, Side
<1>6. << >> \in Seq(Message)
  OBVIOUS
<1>7. /\ mode' \in [Unums -> [type : Types, side : Side]]
      /\ pen' \in [Unums -> PenaltyKickState] /\ heard' \in [Unums -> Nat]
      /\ inbox' \in [Unums -> Seq(Message)]
  BY <1>1, <1>2, <1>3, <1>4, <1>5, <1>6
<1>8. /\ mode'[p].type = "BeforeKickOff" /\ heard'[p] = 0 /\ inbox'[p] = << >>
      /\ pen'[p] = Fresh(takerSide)
      /\ \A q \in Unums \ {p} : /\ mode'[q] = mode[q] /\ pen'[q] = pen[q]
                                /\ heard'[q] = heard[q] /\ inbox'[q] = inbox[q]
  BY <1>1, <1>2, <1>3, <1>4
<1>9. TypeOK'
  <2>1. faults' \in Nat /\ synced' \subseteq Unums
    BY <1>4 DEF TypeOK
  <2> QED
    BY <1>4, <1>7, <2>1 DEF TypeOK, Types, Message, referee
<1> QED
  BY <1>4, <1>5, <1>8, <1>9

-----------------------------------------------------------------------------
(* What every player hears.                                                *)

LEMMA SideOfFacts ==
  ASSUME NEW n \in Nat, NEW s \in {"left", "right"}
  PROVE  /\ SideOf(n, n, s) = s
         /\ \A k \in 0 .. n : /\ SideOf(k, n, s) \in {"left", "right"}
                              /\ SideOf(k, n + 1, Opposite(s)) = SideOf(k, n, s)
                              /\ SideOf(k + 1, n, s) = Opposite(SideOf(k, n, s))
<1>1. \A d \in Int : (d % 2 = 0 \/ d % 2 = 1) /\ ((d + 1) % 2 = 0 <=> d % 2 # 0)
  OBVIOUS
<1>2. n - n = 0 /\ 0 % 2 = 0
  OBVIOUS
<1>3. Opposite("left") = "right" /\ Opposite("right") = "left"
  BY DEF Opposite
<1>4. ASSUME NEW k \in 0 .. n
      PROVE  /\ SideOf(k, n, s) \in {"left", "right"}
             /\ SideOf(k, n + 1, Opposite(s)) = SideOf(k, n, s)
             /\ SideOf(k + 1, n, s) = Opposite(SideOf(k, n, s))
  <2>1. n - k \in Int /\ n + 1 - k = (n - k) + 1 /\ n - (k + 1) \in Int
        /\ n - k = (n - (k + 1)) + 1
    OBVIOUS
  <2>2. /\ (n + 1 - k) % 2 = 0 <=> (n - k) % 2 # 0
        /\ (n - (k + 1)) % 2 # 0 <=> (n - k) % 2 = 0
    BY <1>1, <2>1
  <2> QED
    BY <1>3, <2>2 DEF SideOf
<1> QED
  BY <1>2, <1>4 DEF SideOf

\* The side of a kick stays what it is when the next is announced.
LEMMA SideOfStep ==
  ASSUME TypeOK, RefereeInv, NEW name, NEW s, Announces(name, s)
  PROVE  /\ Kick \in Nat /\ Kick' \in Nat /\ Kick <= Kick'
         /\ \A k \in 1 .. Kick : SideOf(k, Kick', side') = SideOf(k, Kick, side)
<1>1. Kick \in Nat
  BY DEF TypeOK, Kick
<1>2. Kick' \in Nat /\ Kick <= Kick'
  BY <1>1 DEF Announces
<1>3. ASSUME NEW k \in 1 .. Kick
      PROVE  SideOf(k, Kick', side') = SideOf(k, Kick, side)
  <2>1. side \in {"left", "right"} /\ k \in 0 .. Kick
    BY <1>1, <1>3 DEF RefereeInv
  <2>2. CASE name = "penalty_setup"
    <3>1. Kick' = Kick + 1 /\ side' = Opposite(side)
      BY <1>1, <1>3, <2>2 DEF Announces
    <3> QED
      BY <1>1, <2>1, <3>1, SideOfFacts
  <2>3. CASE name # "penalty_setup"
    BY <2>3 DEF Announces
  <2> QED
    BY <2>2, <2>3
<1> QED
  BY <1>1, <1>2, <1>3

\* The announcements a player has before it after an announcement.
LEMMA SendsFacts ==
  ASSUME TypeOK, NEW name \in Stages, NEW s \in Side, Kick' \in Nat, Sends(name, s),
         NEW p \in Unums
  PROVE  LET m == [name |-> name, side |-> s, kick |-> Kick'] IN
         /\ inbox[p] \in Seq(Message) /\ Len(inbox[p]) \in Nat
         /\ \A i \in 1 .. Len(inbox[p]) : inbox[p][i] \in Message /\ inbox'[p][i] = inbox[p][i]
         /\ \/ /\ inbox'[p] = Append(inbox[p], m) /\ Len(inbox'[p]) = Len(inbox[p]) + 1
               /\ inbox'[p][Len(inbox[p]) + 1] = m
            \/ inbox'[p] = inbox[p] /\ p \notin synced'
<1>1. inbox[p] \in Seq(Message)
  BY DEF TypeOK, Message
<1>2. [name |-> name, side |-> s, kick |-> Kick'] \in Message
  BY DEF Message
<1>3. \A i \in 1 .. Len(inbox[p]) : inbox[p][i] \in Message
  BY <1>1
<1> QED
  BY <1>1, <1>2, <1>3, AppendFacts DEF Sends

LEMMA HearsAnnounced ==
  ASSUME TypeOK, RefereeInv, RefereeInv', NEW name \in Stages, NEW s \in Side,
         Announces(name, s), NEW p \in Unums, Hears(p)
  PROVE  Hears(p)'
<1> DEFINE m == [name |-> name, side |-> s, kick |-> Kick']
           n == Len(inbox[p])
<1>1. /\ Kick \in Nat /\ Kick' \in Nat /\ Kick <= Kick'
      /\ \A k \in 1 .. Kick : SideOf(k, Kick', side') = SideOf(k, Kick, side)
  BY SideOfStep
<1>2. Sends(name, s) /\ mode' = mode /\ pen' = pen /\ heard' = heard /\ stage' = name
  BY DEF Announces, Sends
<1>3. /\ n \in Nat
      /\ \A i \in 1 .. n : inbox[p][i] \in Message /\ inbox'[p][i] = inbox[p][i]
      /\ \/ Len(inbox'[p]) = n + 1 /\ inbox'[p][n + 1] = m
         \/ inbox'[p] = inbox[p]
  BY <1>1, <1>2, SendsFacts
<1>4. heard[p] \in Nat
  BY DEF TypeOK
<1>5. \A i \in 1 .. n : inbox[p][i].kick \in Nat
  BY <1>3 DEF Message
<1>6. name \in OfKick => s = side' /\ Kick' > 0 /\ side' \in {"left", "right"}
  BY <1>1 DEF Announces, RefereeInv, OfKick
<1>7. name \in OfKick => SideOf(Kick', Kick', side') = side'
  BY <1>1, <1>6, SideOfFacts
<1> HIDE DEF n, m
\* The clauses about the player itself.
<1>8. /\ heard[p] <= Kick /\ (heard[p] > 0 => pen[p].takerSide = SideOf(heard[p], Kick, side))
      /\ InKick(mode[p].type) => Kick > 0 /\ (heard[p] = Kick => mode[p].side = side)
      /\ stage \in OfKick /\ heard[p] = Kick => InKick(mode[p].type)
      /\ pen[p].kickSide # "neutral" => InKick(mode[p].type) /\ mode[p].side = pen[p].kickSide
      /\ pen[p].kickUnum # NoUnum => pen[p].ours > 0 /\ pen[p].kickUnum = Taker(pen[p].ours)
  BY DEF Hears
<1>9. heard[p] <= Kick' /\ (heard[p] > 0 => pen[p].takerSide = SideOf(heard[p], Kick', side'))
  <2>1. heard[p] > 0 => heard[p] \in 1 .. Kick
    BY <1>1, <1>4, <1>8
  <2> QED
    BY <1>1, <1>4, <1>8, <2>1
<1>10. InKick(mode[p].type) => Kick' > 0 /\ (heard[p] = Kick' => mode[p].side = side')
  BY <1>1, <1>4, <1>8 DEF Announces
<1>11. name \in OfKick /\ heard[p] = Kick' => InKick(mode[p].type)
  BY <1>1, <1>4, <1>8 DEF Announces, OfKick
\* The clauses about an announcement that it has not read.
<1>12. ASSUME NEW i \in 1 .. n
       PROVE  /\ heard[p] <= inbox'[p][i].kick /\ inbox'[p][i].kick <= Kick'
              /\ inbox'[p][i].name \in OfKick =>
                   /\ inbox'[p][i].kick > 0
                   /\ inbox'[p][i].side = SideOf(inbox[p][i].kick, Kick', side')
              /\ name \in OfKick /\ inbox'[p][i].kick = Kick' => inbox'[p][i].name \in OfKick
              /\ \A j \in 1 .. i : inbox'[p][j].kick <= inbox'[p][i].kick
  <2>1. inbox'[p][i] = inbox[p][i] /\ inbox[p][i].kick \in Nat
    BY <1>3, <1>5
  <2>2. /\ heard[p] <= inbox[p][i].kick /\ inbox[p][i].kick <= Kick
        /\ inbox[p][i].name \in OfKick =>
             inbox[p][i].kick > 0 /\ inbox[p][i].side = SideOf(inbox[p][i].kick, Kick, side)
        /\ stage \in OfKick /\ inbox[p][i].kick = Kick => inbox[p][i].name \in OfKick
        /\ \A j \in 1 .. i : inbox[p][j].kick <= inbox[p][i].kick
    BY DEF Hears, n
  <2>3. \A j \in 1 .. i : inbox'[p][j] = inbox[p][j]
    BY <1>3
  <2>4. inbox[p][i].kick > 0 =>
          SideOf(inbox[p][i].kick, Kick', side') = SideOf(inbox[p][i].kick, Kick, side)
    BY <1>1, <2>1, <2>2
  <2>5. name \in OfKick /\ inbox[p][i].kick = Kick' => stage \in OfKick /\ Kick = Kick'
    BY <1>1, <2>1, <2>2 DEF Announces, OfKick
  <2> QED
    BY <1>1, <1>4, <2>1, <2>2, <2>3, <2>4, <2>5
<1>13. ASSUME inbox'[p][n + 1] = m
       PROVE  /\ heard[p] <= inbox'[p][n + 1].kick /\ inbox'[p][n + 1].kick <= Kick'
              /\ inbox'[p][n + 1].name \in OfKick =>
                   /\ inbox'[p][n + 1].kick > 0
                   /\ inbox'[p][n + 1].side = SideOf(Kick', Kick', side')
              /\ inbox'[p][n + 1].kick = Kick'
              /\ inbox'[p][n + 1].name = name
              /\ \A j \in 1 .. n + 1 : inbox'[p][j].kick <= inbox'[p][n + 1].kick
  <2>1. m.kick = Kick' /\ m.name = name /\ m.side = s
    BY DEF m
  <2>2. \A j \in 1 .. n : inbox'[p][j].kick <= Kick'
    BY <1>12
  <2>3. \A j \in 1 .. n + 1 : j \in 1 .. n \/ j = n + 1
    BY <1>3
  <2> QED
    BY <1>1, <1>6, <1>7, <1>9, <1>13, <2>1, <2>2, <2>3
<1>14. /\ heard'[p] <= Kick' /\ (heard'[p] > 0 => pen'[p].takerSide = SideOf(heard[p], Kick', side'))
       /\ InKick(mode'[p].type) => Kick' > 0 /\ (heard'[p] = Kick' => mode'[p].side = side')
       /\ stage' \in OfKick /\ heard'[p] = Kick' => InKick(mode'[p].type)
       /\ pen'[p].kickSide # "neutral" => InKick(mode'[p].type) /\ mode'[p].side = pen'[p].kickSide
       /\ pen'[p].kickUnum # NoUnum => pen'[p].ours > 0 /\ pen'[p].kickUnum = Taker(pen'[p].ours)
  BY <1>2, <1>8, <1>9, <1>10, <1>11
<1>15. ASSUME NEW i \in 1 .. Len(inbox'[p])
       PROVE  /\ heard'[p] <= inbox'[p][i].kick /\ inbox'[p][i].kick <= Kick'
              /\ inbox'[p][i].name \in OfKick =>
                   /\ inbox'[p][i].kick > 0
                   /\ inbox'[p][i].side = SideOf(inbox'[p][i].kick, Kick', side')
              /\ stage' \in OfKick /\ inbox'[p][i].kick = Kick' => inbox'[p][i].name \in OfKick
              /\ \A j \in 1 .. i : inbox'[p][j].kick <= inbox'[p][i].kick
  <2>1. CASE i \in 1 .. n
    <3>1. inbox'[p][i] = inbox[p][i]
      BY <1>3, <2>1
    <3> QED
      BY <1>2, <1>12, <2>1, <3>1
  <2>2. CASE i \notin 1 .. n
    <3>1. i = n + 1 /\ inbox'[p][n + 1] = m
      BY <1>3, <2>2 DEF n
    <3> QED
      BY <1>2, <1>13, <3>1
  <2> QED
    BY <2>1, <2>2
<1> QED
  BY <1>2, <1>14, <1>15 DEF Hears

\* Reading an announcement, a player still hears in order.
LEMMA HearsRead ==
  ASSUME TypeOK, RefereeInv, NEW p \in Unums, HearReferee(p), Hears(p)
  PROVE  Hears(p)'
<1> DEFINE m == Head(inbox[p])
           n == Len(inbox[p])
<1>1. /\ inbox[p] # << >> /\ m \in Message
      /\ stage' = stage /\ side' = side /\ kicks' = kicks
      /\ mode'[p] = [type |-> PlayModeMap[m.name], side |-> m.side]
      /\ pen'[p] = Updated(pen[p], mode'[p])
      /\ heard'[p] = IF m.name = "penalty_setup" THEN m.kick ELSE heard[p]
      /\ inbox'[p] = Tail(inbox[p])
  BY HearFacts DEF referee
<1>2. /\ inbox[p] \in Seq(Message) /\ pen[p] \in PenaltyKickState /\ heard[p] \in Nat
      /\ Kick \in Nat /\ Kick' = Kick
  <2>1. Kick' = Kick
    BY <1>1 DEF Kick
  <2>2. Kick \in Nat
    BY DEF TypeOK, Kick
  <2>3. inbox[p] \in Seq(Message) /\ pen[p] \in PenaltyKickState /\ heard[p] \in Nat
    BY DEF TypeOK, Message
  <2> QED
    BY <2>1, <2>2, <2>3
<1>3. /\ n \in Nat \ {0} /\ m = inbox[p][1]
      /\ Len(inbox'[p]) = n - 1 /\ \A i \in 1 .. n - 1 : inbox'[p][i] = inbox[p][i + 1]
  BY <1>1, <1>2, TailFacts
<1>4. m.name \in Stages /\ m.side \in Side /\ m.kick \in Nat
  BY <1>1 DEF Message
<1>5. \A i \in 1 .. n : inbox[p][i].kick \in Nat
  <2>1. \A i \in 1 .. n : inbox[p][i] \in Message
    BY <1>2
  <2> QED
    BY <2>1 DEF Message
<1> HIDE DEF m, n
<1>6. /\ heard[p] <= m.kick /\ m.kick <= Kick
      /\ m.name \in OfKick => m.kick > 0 /\ m.side = SideOf(m.kick, Kick, side)
      /\ stage \in OfKick /\ m.kick = Kick => m.name \in OfKick
  <2>1. 1 \in 1 .. n
    BY <1>3
  <2> QED
    BY <1>3, <2>1 DEF Hears, n
<1>7. /\ mode'[p].side = m.side
      /\ InKick(mode'[p].type) <=> m.name \in OfKick
  BY <1>1, <1>4, ParseFacts
<1>13. pen'[p] = Updated(pen[p], [type |-> PlayModeMap[m.name], side |-> m.side])
  BY <1>1
<1>14. /\ pen'[p].takerSide = IF m.name = "penalty_setup" THEN m.side ELSE pen[p].takerSide
       /\ pen'[p].kickSide # "neutral" => m.name \in OfKick /\ pen'[p].kickSide = m.side
       /\ pen'[p].kickUnum # NoUnum => pen'[p].ours > 0 /\ pen'[p].kickUnum = Taker(pen'[p].ours)
  BY <1>2, <1>4, <1>13, UpdatedFacts
<1>8. heard'[p] <= m.kick /\ m.kick <= Kick /\ heard'[p] <= Kick
  BY <1>1, <1>2, <1>4, <1>6
<1>9. heard'[p] > 0 => pen'[p].takerSide = SideOf(heard'[p], Kick, side)
  <2>1. CASE m.name = "penalty_setup"
    <3>1. m.name \in OfKick
      BY <2>1 DEF OfKick
    <3> QED
      BY <1>1, <1>6, <1>14, <2>1, <3>1
  <2>2. CASE m.name # "penalty_setup"
    <3>1. heard[p] > 0 => pen[p].takerSide = SideOf(heard[p], Kick, side)
      BY DEF Hears
    <3> QED
      BY <1>1, <1>14, <2>2, <3>1
  <2> QED
    BY <2>1, <2>2
<1>10. InKick(mode'[p].type) => Kick > 0 /\ (heard'[p] = Kick => mode'[p].side = side)
  <2>1. ASSUME m.name \in OfKick PROVE Kick > 0 /\ side \in {"left", "right"}
    BY <1>2, <1>4, <1>6, <2>1 DEF RefereeInv
  <2>2. ASSUME m.name \in OfKick, heard'[p] = Kick PROVE m.kick = Kick
    BY <1>2, <1>4, <1>8, <2>2
  <2> QED
    BY <1>2, <1>6, <1>7, <2>1, <2>2, SideOfFacts
<1>11. stage \in OfKick /\ heard'[p] = Kick => InKick(mode'[p].type)
  BY <1>2, <1>4, <1>6, <1>7, <1>8
<1>12. ASSUME NEW i \in 1 .. Len(inbox'[p])
       PROVE  /\ heard'[p] <= inbox'[p][i].kick /\ inbox'[p][i].kick <= Kick
              /\ inbox'[p][i].name \in OfKick =>
                   inbox'[p][i].kick > 0 /\ inbox'[p][i].side = SideOf(inbox'[p][i].kick, Kick, side)
              /\ stage \in OfKick /\ inbox'[p][i].kick = Kick => inbox'[p][i].name \in OfKick
              /\ \A j \in 1 .. i : inbox'[p][j].kick <= inbox'[p][i].kick
  <2>1. i + 1 \in 1 .. n /\ 1 \in 1 .. i + 1 /\ inbox'[p][i] = inbox[p][i + 1]
    BY <1>3
  <2>2. \A j \in 1 .. i : inbox'[p][j] = inbox[p][j + 1] /\ j + 1 \in 1 .. i + 1
    BY <1>3
  <2>3. /\ inbox[p][i + 1].kick <= Kick
        /\ inbox[p][i + 1].name \in OfKick =>
             /\ inbox[p][i + 1].kick > 0
             /\ inbox[p][i + 1].side = SideOf(inbox[p][i + 1].kick, Kick, side)
        /\ stage \in OfKick /\ inbox[p][i + 1].kick = Kick => inbox[p][i + 1].name \in OfKick
        /\ \A j \in 1 .. i + 1 : inbox[p][j].kick <= inbox[p][i + 1].kick
    BY <2>1 DEF Hears, n
  <2>4. m.kick <= inbox[p][i + 1].kick
    BY <1>3, <2>1, <2>3
  <2>5. heard'[p] <= inbox[p][i + 1].kick
    BY <1>1, <1>2, <1>4, <1>5, <1>8, <2>1, <2>4
  <2> QED
    BY <2>1, <2>2, <2>3, <2>5
<1> QED
  BY <1>1, <1>2, <1>7, <1>14, <1>8, <1>9, <1>10, <1>11, <1>12 DEF Hears

\* A player that starts again has heard nothing.
LEMMA HearsRestarted ==
  ASSUME TypeOK, RefereeInv, NEW p \in Unums, Restart(p)
  PROVE  Hears(p)'
<1>1. /\ stage' = stage /\ side' = side /\ kicks' = kicks
      /\ mode'[p].type = "BeforeKickOff" /\ heard'[p] = 0 /\ inbox'[p] = << >>
      /\ pen'[p].kickSide = "neutral" /\ pen'[p].kickUnum = NoUnum
  BY RestartFacts DEF referee
<1>2. Kick \in Nat /\ Kick' = Kick
  BY <1>1 DEF TypeOK, Kick
<1>3. stage \in OfKick => Kick > 0
  BY DEF RefereeInv, OfKick
<1>4. ~InKick(mode'[p].type)
  BY <1>1 DEF InKick
<1> QED
  BY <1>1, <1>2, <1>3, <1>4 DEF Hears

\* Neither does what one player reads change what another one hears.
LEMMA HearsOther ==
  ASSUME NEW p \in Unums, Hears(p), UNCHANGED <<stage, side, kicks>>,
         mode'[p] = mode[p], pen'[p] = pen[p], heard'[p] = heard[p], inbox'[p] = inbox[p]
  PROVE  Hears(p)'
<1>1. Kick' = Kick
  BY DEF Kick
<1> QED
  BY <1>1 DEF Hears

-----------------------------------------------------------------------------
(* What the players know that have heard everything.                       *)

LEMMA FollowsAnnounced ==
  ASSUME TypeOK, RefereeInv, NEW name \in Stages, NEW s \in Side, Announces(name, s),
         NEW p \in Unums, p \in synced', Follows(p)
  PROVE  Follows(p)'
<1> DEFINE m == [name |-> name, side |-> s, kick |-> Kick']
           n == Len(inbox[p])
<1>1. Kick \in Nat /\ Kick' \in Nat
  BY SideOfStep
<1>2. Sends(name, s) /\ mode' = mode /\ pen' = pen /\ heard' = heard /\ stage' = name
  BY DEF Announces, Sends
<1>3. /\ n \in Nat
      /\ \A i \in 1 .. n : inbox'[p][i] = inbox[p][i]
      /\ Len(inbox'[p]) = n + 1 /\ inbox'[p][n + 1] = m
  BY <1>1, <1>2, SendsFacts
<1>4. m.name = name /\ m.kick = Kick'
  OBVIOUS
<1> HIDE DEF n, m
<1>5. ASSUME NEW i \in 1 .. n + 1
      PROVE  /\ KickBefore(heard'[p], inbox'[p], i) = KickBefore(heard[p], inbox[p], i)
             /\ TypeBefore(mode'[p].type, inbox'[p], i) = TypeBefore(mode[p].type, inbox[p], i)
  <2>1. CASE i = 1
    BY <1>2, <2>1 DEF KickBefore, TypeBefore
  <2>2. CASE i # 1
    <3>1. i - 1 \in 1 .. n
      BY <1>3, <2>2
    <3> QED
      BY <1>3, <2>2, <3>1 DEF KickBefore, TypeBefore
  <2> QED
    BY <2>1, <2>2
<1>6. /\ KickBefore(heard[p], inbox[p], n + 1) = Kick
      /\ TypeBefore(mode[p].type, inbox[p], n + 1) = PlayModeMap[stage]
      /\ InKick(mode[p].type) => heard[p] > 0 /\ mode[p].side = pen[p].takerSide
      /\ \A i \in 1 .. n :
           IF inbox[p][i].name = "penalty_setup"
           THEN /\ inbox[p][i].kick = KickBefore(heard[p], inbox[p], i) + 1
                /\ TypeBefore(mode[p].type, inbox[p], i) \in {PlayModeMap[k] : k \in Between}
           ELSE inbox[p][i].kick = KickBefore(heard[p], inbox[p], i)
  BY DEF Follows, n
<1>7. ASSUME NEW i \in 1 .. Len(inbox'[p])
      PROVE  IF inbox'[p][i].name = "penalty_setup"
             THEN /\ inbox'[p][i].kick = KickBefore(heard'[p], inbox'[p], i) + 1
                  /\ TypeBefore(mode'[p].type, inbox'[p], i) \in {PlayModeMap[k] : k \in Between}
             ELSE inbox'[p][i].kick = KickBefore(heard'[p], inbox'[p], i)
  <2>1. i \in 1 .. n + 1
    BY <1>3
  <2>2. /\ KickBefore(heard'[p], inbox'[p], i) = KickBefore(heard[p], inbox[p], i)
        /\ TypeBefore(mode'[p].type, inbox'[p], i) = TypeBefore(mode[p].type, inbox[p], i)
    BY <1>5, <2>1
  <2>3. CASE i \in 1 .. n
    BY <1>3, <1>6, <2>2, <2>3
  <2>4. CASE i = n + 1
    <3>1. inbox'[p][i].name = name /\ inbox'[p][i].kick = Kick'
      BY <1>3, <1>4, <2>4
    <3>2. CASE name = "penalty_setup"
      BY <1>6, <2>2, <2>4, <3>1, <3>2 DEF Announces
    <3>3. CASE name # "penalty_setup"
      BY <1>6, <2>2, <2>4, <3>1, <3>3 DEF Announces
    <3> QED
      BY <3>2, <3>3
  <2> QED
    BY <1>3, <2>1, <2>3, <2>4
<1>8. /\ KickBefore(heard'[p], inbox'[p], n + 2) = Kick'
      /\ TypeBefore(mode'[p].type, inbox'[p], n + 2) = PlayModeMap[name]
  <2>1. n + 2 # 1 /\ n + 2 - 1 = n + 1
    BY <1>3
  <2> QED
    BY <1>3, <1>4, <2>1 DEF KickBefore, TypeBefore
<1>9. Len(inbox'[p]) + 1 = n + 2
  BY <1>3
<1> QED
  BY <1>2, <1>6, <1>7, <1>8, <1>9 DEF Follows

LEMMA CountsAnnounced ==
  ASSUME TypeOK, RefereeInv, NEW name \in Stages, NEW s \in Side, Announces(name, s),
         NEW p \in Unums, p \in synced', Counts(p)
  PROVE  Counts(p)'
<1> DEFINE m == [name |-> name, side |-> s, kick |-> Kick']
           ours(t, k) == Pending(t, k, {OurSide})
           theirs(t, k) == Pending(t, k, Side \ {OurSide})
<1>1. Kick' \in Nat
  BY SideOfStep
<1>2. /\ inbox[p] \in Seq(Message) /\ pen[p] \in PenaltyKickState
      /\ kicks \in [{"left", "right"} -> Nat] /\ scores \in [{"left", "right"} -> Nat]
  BY DEF TypeOK, Message
<1>3. m \in Message /\ m.name = name /\ m.side = s
  BY <1>1 DEF Message
<1>4. inbox'[p] = Append(inbox[p], m) /\ pen' = pen
  BY DEF Announces, Sends
<1> HIDE DEF m
<1>5. \A k : /\ ours(inbox'[p], k) = ours(inbox[p], k) + IF name = k /\ s = OurSide THEN 1 ELSE 0
             /\ theirs(inbox'[p], k) =
                  theirs(inbox[p], k) + IF name = k /\ s # OurSide THEN 1 ELSE 0
             /\ ours(inbox[p], k) \in Nat /\ theirs(inbox[p], k) \in Nat
  BY <1>2, <1>3, <1>4, PendingAppend, PendingFacts
<1>6. /\ pen[p].ours \in Nat /\ pen[p].theirs \in Nat
      /\ pen[p].ourScore \in Nat /\ pen[p].theirScore \in Nat
  BY <1>2 DEF PenaltyKickState
<1>7. TheirSide \in {"left", "right"} /\ TheirSide # OurSide
      /\ \A d \in {"left", "right"} : d # OurSide => d = TheirSide
  BY SideAssumption DEF TheirSide, Opposite
<1>8. /\ kicks'[OurSide] = kicks[OurSide] + IF name = "penalty_setup" /\ s = OurSide THEN 1 ELSE 0
      /\ kicks'[TheirSide] = kicks[TheirSide] + IF name = "penalty_setup" /\ s # OurSide THEN 1 ELSE 0
  BY <1>2, <1>7, SideAssumption DEF Announces
<1>9. /\ scores'[OurSide] = scores[OurSide] + IF name = "penalty_score" /\ s = OurSide THEN 1 ELSE 0
      /\ scores'[TheirSide] =
           scores[TheirSide] + IF name = "penalty_score" /\ s # OurSide THEN 1 ELSE 0
  BY <1>2, <1>7, SideAssumption DEF Announces
<1>10. /\ pen[p].ours + ours(inbox[p], "penalty_setup") = kicks[OurSide]
       /\ pen[p].theirs + theirs(inbox[p], "penalty_setup") = kicks[TheirSide]
       /\ pen[p].ourScore + ours(inbox[p], "penalty_score") = scores[OurSide]
       /\ pen[p].theirScore + theirs(inbox[p], "penalty_score") = scores[TheirSide]
  BY DEF Counts
<1> HIDE DEF ours, theirs
<1>11. /\ pen[p].ours + ours(inbox'[p], "penalty_setup") = kicks'[OurSide]
       /\ pen[p].theirs + theirs(inbox'[p], "penalty_setup") = kicks'[TheirSide]
  BY <1>5, <1>6, <1>8, <1>10
<1>12. /\ pen[p].ourScore + ours(inbox'[p], "penalty_score") = scores'[OurSide]
       /\ pen[p].theirScore + theirs(inbox'[p], "penalty_score") = scores'[TheirSide]
  BY <1>5, <1>6, <1>9, <1>10
<1>13. TheirSide' = TheirSide
  BY DEF TheirSide
<1> QED
  BY <1>4, <1>11, <1>12, <1>13 DEF Counts, ours, theirs

LEMMA FollowsRead ==
  ASSUME TypeOK, NEW p \in Unums, HearReferee(p), Hears(p), Hears(p)', Follows(p)
  PROVE  Follows(p)'
<1> DEFINE m == Head(inbox[p])
           n == Len(inbox[p])
<1>1. /\ inbox[p] # << >> /\ m \in Message
      /\ stage' = stage /\ kicks' = kicks /\ side' = side
      /\ mode'[p] = [type |-> PlayModeMap[m.name], side |-> m.side]
      /\ heard'[p] = IF m.name = "penalty_setup" THEN m.kick ELSE heard[p]
      /\ inbox'[p] = Tail(inbox[p])
  BY HearFacts DEF referee
<1>2. inbox[p] \in Seq(Message)
  BY DEF TypeOK, Message
<1>3. /\ n \in Nat \ {0} /\ m = inbox[p][1]
      /\ Len(inbox'[p]) = n - 1 /\ \A i \in 1 .. n - 1 : inbox'[p][i] = inbox[p][i + 1]
  BY <1>1, <1>2, TailFacts
<1>4. m.name \in Stages /\ m.side \in Side /\ m.kick \in Nat
  BY <1>1 DEF Message
<1> HIDE DEF m, n
<1>5. /\ KickBefore(heard[p], inbox[p], n + 1) = Kick
      /\ TypeBefore(mode[p].type, inbox[p], n + 1) = PlayModeMap[stage]
      /\ \A i \in 1 .. n :
           IF inbox[p][i].name = "penalty_setup"
           THEN /\ inbox[p][i].kick = KickBefore(heard[p], inbox[p], i) + 1
                /\ TypeBefore(mode[p].type, inbox[p], i) \in {PlayModeMap[k] : k \in Between}
           ELSE inbox[p][i].kick = KickBefore(heard[p], inbox[p], i)
  BY DEF Follows, n
<1>6. heard'[p] = m.kick
  <2>1. 1 \in 1 .. n /\ KickBefore(heard[p], inbox[p], 1) = heard[p]
    BY <1>3 DEF KickBefore
  <2> QED
    BY <1>1, <1>3, <1>5, <2>1
<1>7. ASSUME NEW i \in 1 .. n
      PROVE  /\ KickBefore(heard'[p], inbox'[p], i) = KickBefore(heard[p], inbox[p], i + 1)
             /\ TypeBefore(mode'[p].type, inbox'[p], i) = TypeBefore(mode[p].type, inbox[p], i + 1)
  <2>1. i + 1 # 1 /\ i + 1 - 1 = i
    OBVIOUS
  <2>2. /\ KickBefore(heard[p], inbox[p], i + 1) = inbox[p][i].kick
        /\ TypeBefore(mode[p].type, inbox[p], i + 1) = PlayModeMap[inbox[p][i].name]
    BY <2>1 DEF KickBefore, TypeBefore
  <2>3. CASE i = 1
    BY <1>1, <1>3, <1>6, <2>2, <2>3 DEF KickBefore, TypeBefore
  <2>4. CASE i # 1
    <3>1. i - 1 \in 1 .. n - 1 /\ i - 1 + 1 = i
      BY <1>3, <2>4
    <3>2. inbox'[p][i - 1] = inbox[p][i]
      BY <1>3, <3>1
    <3> QED
      BY <2>2, <2>4, <3>2 DEF KickBefore, TypeBefore
  <2> QED
    BY <2>3, <2>4
<1>8. ASSUME NEW i \in 1 .. Len(inbox'[p])
      PROVE  IF inbox'[p][i].name = "penalty_setup"
             THEN /\ inbox'[p][i].kick = KickBefore(heard'[p], inbox'[p], i) + 1
                  /\ TypeBefore(mode'[p].type, inbox'[p], i) \in {PlayModeMap[k] : k \in Between}
             ELSE inbox'[p][i].kick = KickBefore(heard'[p], inbox'[p], i)
  <2>1. i \in 1 .. n /\ i + 1 \in 1 .. n /\ i \in 1 .. n - 1
    BY <1>3
  <2>2. inbox'[p][i] = inbox[p][i + 1]
    BY <1>3, <2>1
  <2>3. /\ KickBefore(heard'[p], inbox'[p], i) = KickBefore(heard[p], inbox[p], i + 1)
        /\ TypeBefore(mode'[p].type, inbox'[p], i) = TypeBefore(mode[p].type, inbox[p], i + 1)
    BY <1>7, <2>1
  <2> QED
    BY <1>5, <2>1, <2>2, <2>3
<1>9. /\ KickBefore(heard'[p], inbox'[p], Len(inbox'[p]) + 1) = Kick'
      /\ TypeBefore(mode'[p].type, inbox'[p], Len(inbox'[p]) + 1) = PlayModeMap[stage']
  <2>1. Len(inbox'[p]) + 1 = n /\ n \in 1 .. n
    BY <1>3
  <2> QED
    BY <1>1, <1>5, <1>7, <2>1 DEF Kick
<1>10. InKick(mode'[p].type) => heard'[p] > 0 /\ mode'[p].side = pen'[p].takerSide
  <2>1. InKick(mode'[p].type) => m.name \in OfKick
    BY <1>1, <1>4, ParseFacts
  <2>2. m.name \in OfKick => m.kick > 0 /\ m.side = SideOf(m.kick, Kick, side)
    <3>1. 1 \in 1 .. n
      BY <1>3
    <3> QED
      BY <1>3, <3>1 DEF Hears, n
  <2>3. heard'[p] > 0 => pen'[p].takerSide = SideOf(heard'[p], Kick, side)
    BY <1>1 DEF Hears, Kick
  <2> QED
    BY <1>1, <1>6, <2>1, <2>2, <2>3
<1> QED
  BY <1>8, <1>9, <1>10 DEF Follows

LEMMA CountsRead ==
  ASSUME TypeOK, NEW p \in Unums, HearReferee(p), Counts(p)
  PROVE  Counts(p)'
<1> DEFINE m == Head(inbox[p])
           ours(t, k) == Pending(t, k, {OurSide})
           theirs(t, k) == Pending(t, k, Side \ {OurSide})
<1>1. /\ inbox[p] # << >> /\ m \in Message
      /\ kicks' = kicks /\ scores' = scores
      /\ mode'[p] = [type |-> PlayModeMap[m.name], side |-> m.side]
      /\ pen'[p] = Updated(pen[p], mode'[p])
      /\ inbox'[p] = Tail(inbox[p])
  BY HearFacts DEF referee
<1>2. inbox[p] \in Seq(Message) /\ pen[p] \in PenaltyKickState
  BY DEF TypeOK, Message
<1>3. m.name \in Stages /\ m.side \in Side
  BY <1>1 DEF Message
<1>4. Tail(inbox[p]) \in Seq(Message)
  BY <1>1, <1>2, TailFacts
<1>13. Head(inbox[p]) = m
  OBVIOUS
<1> HIDE DEF m
<1>5. \A k : /\ ours(inbox[p], k) =
                  ours(inbox'[p], k) + IF m.name = k /\ m.side \in {OurSide} THEN 1 ELSE 0
             /\ theirs(inbox[p], k) =
                  theirs(inbox'[p], k) + IF m.name = k /\ m.side \in Side \ {OurSide} THEN 1 ELSE 0
             /\ ours(inbox'[p], k) \in Nat /\ theirs(inbox'[p], k) \in Nat
  <2>1. \A k, S : /\ Pending(inbox[p], k, S) = Pending(inbox'[p], k, S)
                       + IF m.name = k /\ m.side \in S THEN 1 ELSE 0
                  /\ Pending(inbox'[p], k, S) \in Nat
    <3> TAKE k, S
    <3>1. Pending(inbox[p], k, S) = Pending(Tail(inbox[p]), k, S)
            + IF Head(inbox[p]).name = k /\ Head(inbox[p]).side \in S THEN 1 ELSE 0
      BY <1>1, <1>2, PendingTail
    <3>2. Pending(Tail(inbox[p]), k, S) \in Nat
      BY <1>4, PendingFacts
    <3> QED
      BY <1>1, <1>13, <3>1, <3>2
  <2> QED
    BY <2>1
<1>6. /\ pen[p].ours \in Nat /\ pen[p].theirs \in Nat
      /\ pen[p].ourScore \in Nat /\ pen[p].theirScore \in Nat
  BY <1>2 DEF PenaltyKickState
<1>7. pen'[p] = Updated(pen[p], [type |-> PlayModeMap[m.name], side |-> m.side])
  BY <1>1
<1>8. /\ pen'[p].ours = pen[p].ours
           + IF m.name = "penalty_setup" /\ m.side \in {OurSide} THEN 1 ELSE 0
      /\ pen'[p].theirs = pen[p].theirs
           + IF m.name = "penalty_setup" /\ m.side \in Side \ {OurSide} THEN 1 ELSE 0
      /\ pen'[p].ourScore = pen[p].ourScore
           + IF m.name = "penalty_score" /\ m.side \in {OurSide} THEN 1 ELSE 0
      /\ pen'[p].theirScore = pen[p].theirScore
           + IF m.name = "penalty_score" /\ m.side \in Side \ {OurSide} THEN 1 ELSE 0
  BY <1>2, <1>3, <1>7, UpdatedFacts
<1>9. /\ pen[p].ours + ours(inbox[p], "penalty_setup") = kicks[OurSide]
      /\ pen[p].theirs + theirs(inbox[p], "penalty_setup") = kicks[TheirSide]
      /\ pen[p].ourScore + ours(inbox[p], "penalty_score") = scores[OurSide]
      /\ pen[p].theirScore + theirs(inbox[p], "penalty_score") = scores[TheirSide]
  BY DEF Counts
<1> HIDE DEF ours, theirs
<1>10. /\ pen'[p].ours + ours(inbox'[p], "penalty_setup") = kicks[OurSide]
       /\ pen'[p].theirs + theirs(inbox'[p], "penalty_setup") = kicks[TheirSide]
  BY <1>5, <1>6, <1>8, <1>9
<1>11. /\ pen'[p].ourScore + ours(inbox'[p], "penalty_score") = scores[OurSide]
       /\ pen'[p].theirScore + theirs(inbox'[p], "penalty_score") = scores[TheirSide]
  BY <1>5, <1>6, <1>8, <1>9
<1>12. TheirSide' = TheirSide
  BY DEF TheirSide
<1> QED
  BY <1>1, <1>10, <1>11, <1>12 DEF Counts, ours, theirs

LEMMA FollowsOther ==
  ASSUME NEW p \in Unums, Follows(p), Counts(p), UNCHANGED referee,
         mode'[p] = mode[p], pen'[p] = pen[p], heard'[p] = heard[p], inbox'[p] = inbox[p]
  PROVE  Follows(p)' /\ Counts(p)'
<1>1. Kick' = Kick /\ TheirSide' = TheirSide /\ stage' = stage /\ kicks' = kicks /\ scores' = scores
  BY DEF Kick, referee, TheirSide
<1>2. Follows(p)'
  BY <1>1 DEF Follows
<1>3. Counts(p)'
  BY <1>1 DEF Counts
<1> QED
  BY <1>2, <1>3

-----------------------------------------------------------------------------
(* The invariant.                                                          *)

\* A shoot-out that has not begun fulfils it.
THEOREM InitInv == Init => Inv
<1> SUFFICES ASSUME Init PROVE Inv
  OBVIOUS
<1>1. PICK takerSide \in Side : pen = [p \in Unums |-> Fresh(takerSide)]
  BY DEF Init
<1>2. /\ stage = "time_extended" /\ side = "neutral" /\ goal = "neutral"
      /\ kicks = [s \in {"left", "right"} |-> 0] /\ scores = [s \in {"left", "right"} |-> 0]
      /\ inbox = [p \in Unums |-> << >>] /\ heard = [p \in Unums |-> 0]
      /\ mode = [p \in Unums |-> [type |-> "ExtendHalf", side |-> "neutral"]]
      /\ synced = Unums /\ faults = 0
  <2>1. Parse("time_extended", "neutral") = [type |-> "ExtendHalf", side |-> "neutral"]
    BY StageTypes, ParseFacts DEF Stages, Side
  <2> QED
    BY <2>1 DEF Init
<1>3. Kick = 0
  BY <1>2 DEF Kick
<1>4. /\ Fresh(takerSide) \in PenaltyKickState
      /\ Fresh(takerSide).kickSide = "neutral" /\ Fresh(takerSide).kickUnum = NoUnum
      /\ Fresh(takerSide).ours = 0 /\ Fresh(takerSide).theirs = 0
      /\ Fresh(takerSide).ourScore = 0 /\ Fresh(takerSide).theirScore = 0
  BY DEF Fresh, PenaltyKickState, Side
<1>5. TypeOK
  <2>1. stage \in Stages /\ side \in Side /\ goal \in Side
    BY <1>2 DEF Stages, Side
  <2>2. /\ kicks \in [{"left", "right"} -> Nat] /\ scores \in [{"left", "right"} -> Nat]
        /\ heard \in [Unums -> Nat] /\ synced \subseteq Unums /\ faults \in Nat
    BY <1>2
  <2>3. inbox \in [Unums -> Seq(Message)]
    BY <1>2
  <2>4. mode \in [Unums -> [type : Types, side : Side]]
    <3>1. "ExtendHalf" \in Types /\ "neutral" \in Side
      BY StageTypes DEF Types, Stages, Side
    <3> QED
      BY <1>2, <3>1
  <2>5. pen \in [Unums -> PenaltyKickState]
    BY <1>1, <1>4
  <2> QED
    BY <2>1, <2>2, <2>3, <2>4, <2>5 DEF TypeOK, Types, Message
<1>6. RefereeInv
  BY <1>2, <1>3 DEF RefereeInv
<1>7. ASSUME NEW p \in Unums
      PROVE  Hears(p) /\ Follows(p) /\ Counts(p)
  <2>1. /\ inbox[p] = << >> /\ heard[p] = 0 /\ mode[p].type = "ExtendHalf"
        /\ pen[p] = Fresh(takerSide)
    BY <1>1, <1>2, <1>7
  <2>2. ~InKick(mode[p].type) /\ stage \notin OfKick
    BY <1>2, <2>1 DEF InKick, OfKick
  <2>3. Hears(p)
    BY <1>3, <1>4, <2>1, <2>2 DEF Hears
  <2>4. Follows(p)
    BY <1>2, <1>3, <2>1, <2>2, StageTypes DEF Follows, KickBefore, TypeBefore
  <2>5. \A k, S : Pending(inbox[p], k, S) = 0
    <3>1. << >> \in Seq(Message)
      OBVIOUS
    <3> QED
      BY <2>1, <3>1, PendingFacts
  <2>6. TheirSide \in {"left", "right"}
    BY SideAssumption DEF TheirSide, Opposite
  <2>7. Counts(p)
    BY <1>2, <1>4, <2>1, <2>5, <2>6, SideAssumption DEF Counts
  <2> QED
    BY <2>3, <2>4, <2>7
<1>8. \A p \in Unums : Len(inbox[p]) <= MaxInbox
  BY <1>2, BoundsAssumption
<1> QED
  BY <1>2, <1>5, <1>6, <1>7, <1>8 DEF Inv

\* Every step keeps it.
THEOREM NextInv == Inv /\ [Next]_vars => Inv'
<1> SUFFICES ASSUME Inv, [Next]_vars PROVE Inv'
  OBVIOUS
<1>1. /\ TypeOK /\ RefereeInv
      /\ \A p \in Unums : Hears(p) /\ Len(inbox[p]) <= MaxInbox
      /\ \A p \in synced : Follows(p) /\ Counts(p)
      /\ synced \subseteq Unums
  BY DEF Inv, TypeOK
<1>2. CASE RefereeSteps
  <2>1. TypeOK' /\ RefereeInv'
    BY <1>1, <1>2, RefereeStep
  <2>2. PICK name \in Stages, s \in Side : Announces(name, s)
    BY <1>1, <1>2, RefereeStep
  <2>3. \A p \in Unums : Hears(p)'
    BY <1>1, <2>1, <2>2, HearsAnnounced
  <2>4. synced' \subseteq synced
    BY <2>2 DEF Announces, Sends
  <2>5. \A p \in synced' : Follows(p)' /\ Counts(p)'
    BY <1>1, <2>2, <2>4, FollowsAnnounced, CountsAnnounced
  <2>6. ASSUME NEW p \in Unums PROVE Len(inbox'[p]) <= MaxInbox
    <3>1. Kick' \in Nat /\ Sends(name, s) /\ Len(inbox[p]) < MaxInbox
      BY <1>1, <2>2, SideOfStep DEF Announces, Sends
    <3>2. Len(inbox[p]) \in Nat /\ Len(inbox'[p]) \in {Len(inbox[p]), Len(inbox[p]) + 1}
      BY <1>1, <3>1, SendsFacts
    <3> QED
      BY <3>1, <3>2, BoundsAssumption
  <2> QED
    BY <2>1, <2>3, <2>5, <2>6 DEF Inv
<1>3. ASSUME NEW p \in Unums, HearReferee(p)
      PROVE  Inv'
  <2>1. /\ UNCHANGED referee /\ synced' = synced /\ TypeOK'
        /\ \A q \in Unums \ {p} : /\ mode'[q] = mode[q] /\ pen'[q] = pen[q]
                                  /\ heard'[q] = heard[q] /\ inbox'[q] = inbox[q]
    BY <1>1, <1>3, HearFacts
  <2>2. RefereeInv' /\ stage' = stage /\ side' = side /\ kicks' = kicks
    BY <1>1, <2>1 DEF RefereeInv, referee, Kick
  <2>3. Hears(p)'
    BY <1>1, <1>3, HearsRead
  <2>4. p \in synced => Follows(p)' /\ Counts(p)'
    BY <1>1, <1>3, <2>3, FollowsRead, CountsRead
  <2>5. \A q \in Unums \ {p} : Hears(q)' /\ (q \in synced => Follows(q)' /\ Counts(q)')
    BY <1>1, <2>1, <2>2, HearsOther, FollowsOther
  <2>6. Len(inbox'[p]) <= MaxInbox
    <3>1. inbox[p] # << >> /\ inbox'[p] = Tail(inbox[p])
      BY <1>1, <1>3, HearFacts
    <3>2. inbox[p] \in Seq(Message) /\ Len(inbox[p]) <= MaxInbox
      BY <1>1 DEF TypeOK, Message
    <3>3. Len(inbox'[p]) = Len(inbox[p]) - 1 /\ Len(inbox[p]) \in Nat
      BY <3>1, <3>2, TailFacts
    <3> QED
      BY <3>2, <3>3, BoundsAssumption
  <2> QED
    BY <1>1, <2>1, <2>2, <2>3, <2>4, <2>5, <2>6 DEF Inv
<1>4. ASSUME NEW p \in Unums, Restart(p)
      PROVE  Inv'
  <2>1. /\ UNCHANGED referee /\ synced' = synced \ {p} /\ TypeOK'
        /\ \A q \in Unums \ {p} : /\ mode'[q] = mode[q] /\ pen'[q] = pen[q]
                                  /\ heard'[q] = heard[q] /\ inbox'[q] = inbox[q]
    BY <1>1, <1>4, RestartFacts
  <2>2. RefereeInv' /\ stage' = stage /\ side' = side /\ kicks' = kicks
    BY <1>1, <2>1 DEF RefereeInv, referee, Kick
  <2>3. Hears(p)'
    BY <1>1, <1>4, HearsRestarted
  <2>4. \A q \in Unums \ {p} : Hears(q)' /\ (q \in synced => Follows(q)' /\ Counts(q)')
    BY <1>1, <2>1, <2>2, HearsOther, FollowsOther
  <2>5. Len(inbox'[p]) <= MaxInbox
    <3>1. inbox'[p] = << >>
      BY <1>1, <1>4, RestartFacts
    <3> QED
      BY <3>1, BoundsAssumption
  <2> QED
    BY <1>1, <2>1, <2>2, <2>3, <2>4, <2>5 DEF Inv
<1>5. CASE UNCHANGED vars
  <2>1. /\ UNCHANGED referee /\ synced' = synced
        /\ mode' = mode /\ pen' = pen /\ heard' = heard /\ inbox' = inbox /\ faults' = faults
        /\ stage' = stage /\ side' = side /\ kicks' = kicks /\ scores' = scores /\ goal' = goal
    BY <1>5 DEF vars, referee
  <2>2. TypeOK' /\ RefereeInv'
    BY <1>1, <2>1 DEF TypeOK, RefereeInv, Kick
  <2>3. \A q \in Unums : Hears(q)' /\ (q \in synced => Follows(q)' /\ Counts(q)')
    BY <1>1, <2>1, HearsOther, FollowsOther
  <2> QED
    BY <1>1, <2>1, <2>2, <2>3 DEF Inv
<1> QED
  BY <1>2, <1>3, <1>4, <1>5 DEF Next, RefereeSteps

LEMMA SpecInv == Spec => []Inv
BY InitInv, NextInv, PTL DEF Spec

\* Every variable stays in its type; in particular whoever is to kick is a
\* player of the team.
THEOREM TypeCorrect == Spec => []TypeOK
<1>1. Inv => TypeOK
  BY DEF Inv
<1> QED
  BY <1>1, SpecInv, PTL

\* A player that has heard everything knows the score and whose turn it is
\* (PenaltyKickState::update).
THEOREM ShootoutKnown == Spec => []KnowsShootout
<1>1. Inv => KnowsShootout
  <2> SUFFICES ASSUME Inv, NEW p \in synced, inbox[p] = << >>
               PROVE  /\ pen[p].ours = kicks[OurSide] /\ pen[p].theirs = kicks[TheirSide]
                      /\ pen[p].ourScore = scores[OurSide] /\ pen[p].theirScore = scores[TheirSide]
                      /\ Kick > 0 => pen[p].takerSide = side
    BY DEF KnowsShootout
  <2>1. TypeOK /\ RefereeInv /\ p \in Unums /\ Hears(p) /\ Follows(p) /\ Counts(p)
    BY DEF Inv, TypeOK
  <2>2. pen[p] \in PenaltyKickState /\ Kick \in Nat
    BY <2>1 DEF TypeOK, Kick
  <2>3. /\ pen[p].ours \in Nat /\ pen[p].theirs \in Nat
        /\ pen[p].ourScore \in Nat /\ pen[p].theirScore \in Nat
    BY <2>2 DEF PenaltyKickState
  <2>4. \A k, S : Pending(inbox[p], k, S) = 0
    <3>1. << >> \in Seq(Message)
      OBVIOUS
    <3> QED
      BY <3>1, PendingFacts
  <2>5. heard[p] = Kick
    BY <2>1 DEF Follows, KickBefore
  <2>6. Kick > 0 => pen[p].takerSide = side
    <3>1. Kick > 0 => pen[p].takerSide = SideOf(Kick, Kick, side) /\ side \in {"left", "right"}
      BY <2>1, <2>5 DEF Hears, RefereeInv
    <3> QED
      BY <2>2, <3>1, SideOfFacts
  <2> QED
    BY <2>1, <2>3, <2>4, <2>6 DEF Counts
<1> QED
  BY <1>1, SpecInv, PTL

\* Whatever it missed before, a player that has heard this kick's setup knows
\* whose kick it is (Bhv_PenaltyKick::execute).
THEOREM SideKnown == Spec => []RightSide
<1>1. Inv => RightSide
  <2> SUFFICES ASSUME Inv, NEW p \in Unums, inbox[p] = << >>, heard[p] = Kick,
                      InKick(PlayModeMap[stage])
               PROVE  IF side = OurSide THEN Role(p) # "keeper"
                      ELSE Role(p) = IF p = Goalie THEN "keeper" ELSE "wait"
    BY DEF RightSide
  <2>1. TypeOK /\ RefereeInv /\ Hears(p)
    BY DEF Inv
  <2>2. Kick \in Nat /\ stage \in Stages
    BY <2>1 DEF TypeOK, Kick
  <2>3. stage \in OfKick
    BY <2>2, ParseFacts DEF Side
  <2>4. Kick > 0 /\ side \in {"left", "right"}
    BY <2>1, <2>3 DEF RefereeInv, OfKick
  <2>5. InKick(mode[p].type) /\ pen[p].takerSide = side
    <3>1. InKick(mode[p].type) /\ pen[p].takerSide = SideOf(Kick, Kick, side)
      BY <2>1, <2>3, <2>4 DEF Hears
    <3> QED
      BY <2>2, <2>4, <3>1, SideOfFacts
  <2>6. /\ IsPenaltyKickMode(mode[p].type)
        /\ mode[p].type \notin {"PenaltyScore_", "PenaltyMiss_"}
    BY <2>5 DEF InKick, IsPenaltyKickMode
  <2> QED
    BY <2>5, <2>6 DEF Role
<1> QED
  BY <1>1, SpecInv, PTL

\* Whoever kicks or keeps sees the goal in use where it belongs
\* (is_reverse_side of the world model).
THEOREM GoalFaced == Spec => []FacesGoal
<1>1. Inv => FacesGoal
  <2> SUFFICES ASSUME Inv, NEW p \in Unums, pen[p].onfield # "neutral",
                      p \in synced \/ (inbox[p] = << >> /\ heard[p] = Kick)
               PROVE  /\ Role(p) = "kicker" => (IsReverseSide(p) <=> pen[p].onfield = "left")
                      /\ Role(p) = "keeper" => (IsReverseSide(p) <=> pen[p].onfield = "right")
    BY DEF FacesGoal
  <2>1. TypeOK /\ RefereeInv /\ Hears(p) /\ (p \in synced => Follows(p))
    BY DEF Inv
  <2>2. Kick \in Nat /\ pen[p] \in PenaltyKickState
    BY <2>1 DEF TypeOK, Kick
  <2>3. pen[p].onfield \in {"left", "right"}
    BY <2>2 DEF PenaltyKickState, Side
  <2>4. ASSUME Role(p) = "kicker" PROVE IsReverseSide(p) <=> pen[p].onfield = "left"
    <3>1. IsKickTaker(p)
      BY <2>4 DEF Role
    <3> QED
      BY <2>3, <3>1 DEF IsReverseSide
  <2>5. ASSUME Role(p) = "keeper" PROVE IsReverseSide(p) <=> pen[p].onfield = "right"
    <3>1. /\ p = Goalie
          /\ \/ InKick(mode[p].type) /\ pen[p].takerSide # OurSide
             \/ mode[p].type \in {"PenaltyScore_", "PenaltyMiss_"}
      BY <2>5 DEF Role
    <3>2. pen[p].kickSide # OurSide
      <4>1. SUFFICES ASSUME pen[p].kickSide = OurSide PROVE FALSE
        OBVIOUS
      <4>2. InKick(mode[p].type) /\ mode[p].side = OurSide
        BY <2>1, <4>1, SideAssumption DEF Hears
      <4>3. pen[p].takerSide # OurSide
        BY <3>1, <4>2 DEF InKick
      <4>4. CASE p \in synced
        BY <2>1, <4>2, <4>3, <4>4 DEF Follows
      <4>5. CASE heard[p] = Kick
        <5>1. Kick > 0 /\ mode[p].side = side /\ pen[p].takerSide = SideOf(Kick, Kick, side)
          BY <2>1, <4>2, <4>5 DEF Hears
        <5>2. side \in {"left", "right"}
          BY <2>1, <5>1 DEF RefereeInv
        <5> QED
          BY <2>2, <4>2, <4>3, <5>1, <5>2, SideOfFacts
      <4> QED
        BY <4>4, <4>5
    <3>3. ~IsKickTaker(p)
      BY <3>2 DEF IsKickTaker
    <3> QED
      BY <2>3, <3>1, <3>3 DEF IsReverseSide
  <2> QED
    BY <2>4, <2>5
<1> QED
  BY <1>1, SpecInv, PTL

-----------------------------------------------------------------------------
(* The order of kicks, for players that are less than four announcements   *)
(* behind the referee: between two kicks of a side there are at least a    *)
(* score or a miss, the other side's setup, and a score or a miss again.   *)

\* Nobody is in a kick when a setup may follow.
LEMMA BetweenFacts ==
  /\ \A n \in Stages : PlayModeMap[n] \in {PlayModeMap[b] : b \in Between} => n \notin OfKick
  /\ \A t \in {PlayModeMap[b] : b \in Between} : ~InKick(t)
<1>1. Between \subseteq Stages /\ \A b \in Between : b \notin OfKick
  BY DEF Between, Stages, OfKick
<1>2. "neutral" \in Side
  BY DEF Side
<1>3. \A n \in Stages : InKick(PlayModeMap[n]) <=> n \in OfKick
  BY <1>2, ParseFacts
<1> QED
  BY <1>1, <1>3

\* What makes a player want to kick.
LEMMA KickerFacts ==
  ASSUME Inv, NEW p \in synced, Role(p) = "kicker"
  PROVE  /\ p \in Unums /\ p = Taker(pen[p].ours) /\ pen[p].ours > 0
         /\ InKick(mode[p].type)
         /\ heard[p] > 0 /\ SideOf(heard[p], Kick, side) = OurSide
<1>1. p \in Unums /\ Hears(p) /\ Follows(p)
  BY DEF Inv, TypeOK
<1>2. InKick(mode[p].type) /\ pen[p].takerSide = OurSide /\ IsKickTaker(p)
  BY DEF Role
<1>3. p # NoUnum
  BY <1>1, TeamAssumption DEF Unums, NoUnum
<1>4. pen[p].kickUnum = p
  BY <1>2 DEF IsKickTaker
<1>5. p = Taker(pen[p].ours) /\ pen[p].ours > 0
  BY <1>1, <1>3, <1>4 DEF Hears
<1>6. heard[p] > 0
  BY <1>1, <1>2 DEF Follows
<1>7. SideOf(heard[p], Kick, side) = OurSide
  BY <1>1, <1>2, <1>6 DEF Hears
<1> QED
  BY <1>1, <1>2, <1>5, <1>6, <1>7

\* If a setup may follow soon after what a kicker has heard, then no other has
\* come in between.
LEMMA NextKick ==
  ASSUME Inv, NEW p \in synced, Role(p) = "kicker",
         NEW i \in 1 .. Len(inbox[p]) + 1, i <= 3,
         TypeBefore(mode[p].type, inbox[p], i) \in {PlayModeMap[n] : n \in Between}
  PROVE  KickBefore(heard[p], inbox[p], i) = heard[p]
<1> DEFINE s == inbox[p]
<1>1. p \in Unums /\ Follows(p) /\ InKick(mode[p].type) /\ s \in Seq(Message)
  BY KickerFacts DEF Inv, TypeOK, Message
<1>2. \A j \in 1 .. Len(s) : s[j].name \in Stages
  <2>1. \A j \in 1 .. Len(s) : s[j] \in Message
    BY <1>1
  <2> QED
    BY <2>1 DEF Message
<1>3. \A j \in 1 .. Len(s) : s[j].name # "penalty_setup" => s[j].kick = KickBefore(heard[p], s, j)
  BY <1>1 DEF Follows
<1>4. "penalty_setup" \in OfKick
  BY DEF OfKick
<1>5. Len(s) \in Nat
  BY <1>1
<1>6. Len(s) > 0 => s[1].name # "penalty_setup" /\ s[1].kick = heard[p]
  <2> SUFFICES ASSUME Len(s) > 0
               PROVE  s[1].name # "penalty_setup" /\ s[1].kick = heard[p]
    OBVIOUS
  <2>1. 1 \in 1 .. Len(s)
    BY <1>5
  <2>2. s[1].name = "penalty_setup" => mode[p].type \in {PlayModeMap[n] : n \in Between}
    BY <1>1, <2>1 DEF Follows, TypeBefore
  <2>3. s[1].name # "penalty_setup"
    BY <1>1, <2>2, BetweenFacts
  <2> QED
    BY <1>3, <2>1, <2>3 DEF KickBefore
<1> HIDE DEF s
<1>7. CASE i = 1
  BY <1>7 DEF KickBefore
<1>8. CASE i = 2
  <2>1. Len(s) > 0
    BY <1>5, <1>8 DEF s
  <2> QED
    BY <1>6, <1>8, <2>1 DEF KickBefore, s
<1>9. CASE i = 3
  <2>1. 2 \in 1 .. Len(s) /\ Len(s) > 0
    BY <1>5, <1>9 DEF s
  <2>2. PlayModeMap[s[2].name] \in {PlayModeMap[n] : n \in Between}
    BY <1>9 DEF TypeBefore, s
  <2>3. s[2].name # "penalty_setup"
    BY <1>2, <1>4, <2>1, <2>2, BetweenFacts
  <2>4. s[2].kick = s[1].kick
    BY <1>3, <2>1, <2>3 DEF KickBefore
  <2> QED
    BY <1>6, <1>9, <2>1, <2>4 DEF KickBefore, s
<1>10. i = 1 \/ i = 2 \/ i = 3
  BY <1>5 DEF s
<1> QED
  BY <1>7, <1>8, <1>9, <1>10

\* Whoever wants to kick is the player whose turn it is.
KickerIsDue ==
  \A p \in Kickers : kicks[OurSide] \in Nat \ {0} /\ p = Taker(kicks[OurSide])

LEMMA KickersDue ==
  ASSUME Inv, MaxInbox <= 3
  PROVE  KickerIsDue
<1> SUFFICES ASSUME NEW p \in Kickers
             PROVE  kicks[OurSide] \in Nat \ {0} /\ p = Taker(kicks[OurSide])
  BY DEF KickerIsDue
<1> DEFINE s == inbox[p]
           n == Kick
<1>1. p \in synced /\ Role(p) = "kicker"
  BY DEF Kickers
<1>2. /\ p \in Unums /\ p = Taker(pen[p].ours) /\ pen[p].ours > 0
      /\ heard[p] > 0 /\ SideOf(heard[p], n, side) = OurSide
  BY <1>1, KickerFacts
<1>3. /\ Follows(p) /\ Hears(p) /\ Counts(p) /\ RefereeInv /\ Len(s) <= MaxInbox
      /\ s \in Seq(Message) /\ heard[p] \in Nat /\ n \in Nat
      /\ pen[p] \in PenaltyKickState /\ kicks[OurSide] \in Nat
  <2>1. TypeOK /\ Follows(p) /\ Hears(p) /\ Counts(p) /\ RefereeInv /\ Len(s) <= MaxInbox
    BY <1>1, <1>2 DEF Inv
  <2>2. s \in Seq(Message) /\ heard[p] \in Nat /\ pen[p] \in PenaltyKickState
    BY <1>2, <2>1 DEF TypeOK, Message
  <2>3. n \in Nat /\ kicks[OurSide] \in Nat
    BY <2>1, SideAssumption DEF TypeOK, Kick
  <2> QED
    BY <2>1, <2>2, <2>3
<1>4. pen[p].ours \in Nat
  BY <1>3 DEF PenaltyKickState
<1>5. Len(s) \in Nat /\ Len(s) <= 3
  BY <1>3, BoundsAssumption
<1>6. heard[p] <= n /\ (n > 0 => side \in {"left", "right"})
  BY <1>3 DEF Hears, RefereeInv
<1> HIDE DEF n
<1>7. SideOf(heard[p] + 1, n, side) # OurSide
  <2>1. heard[p] \in 0 .. n /\ side \in {"left", "right"}
    BY <1>2, <1>3, <1>6
  <2>2. SideOf(heard[p] + 1, n, side) = Opposite(SideOf(heard[p], n, side))
    BY <1>3, <2>1, SideOfFacts
  <2> QED
    BY <1>2, <2>2, SideAssumption DEF Opposite
<1>8. ASSUME NEW i \in 1 .. Len(s), s[i].name = "penalty_setup"
      PROVE  s[i].side # OurSide
  <2>1. /\ s[i].kick = KickBefore(heard[p], s, i) + 1
        /\ TypeBefore(mode[p].type, s, i) \in {PlayModeMap[b] : b \in Between}
    BY <1>3, <1>8 DEF Follows
  <2>2. i \in 1 .. Len(s) + 1 /\ i <= 3
    BY <1>5
  <2>3. s[i].kick = heard[p] + 1
    BY <1>1, <2>1, <2>2, NextKick
  <2>4. s[i].side = SideOf(s[i].kick, n, side)
    BY <1>3, <1>8 DEF Hears, OfKick, n
  <2> QED
    BY <1>7, <2>3, <2>4
<1>9. Pending(s, "penalty_setup", {OurSide}) = 0
  <2>1. {i \in 1 .. Len(s) : s[i].name = "penalty_setup" /\ s[i].side \in {OurSide}} = {}
    BY <1>8
  <2> QED
    BY <2>1, FS_EmptySet DEF Pending
<1>10. pen[p].ours = kicks[OurSide]
  BY <1>3, <1>4, <1>9 DEF Counts
<1> QED
  BY <1>2, <1>3, <1>10

\* Nobody wants to kick any more when the referee announces our next kick.
LEMMA NobodyKicks ==
  ASSUME Inv, MaxInbox <= 3, Announces("penalty_setup", OurSide)
  PROVE  Kickers = {}
<1> SUFFICES ASSUME NEW p \in synced, Role(p) = "kicker"
             PROVE  FALSE
  BY DEF Kickers
<1> DEFINE s == inbox[p]
<1>1. /\ p \in Unums /\ heard[p] > 0 /\ SideOf(heard[p], Kick, side) = OurSide
  BY KickerFacts
<1>2. /\ Follows(p) /\ RefereeInv /\ s \in Seq(Message) /\ heard[p] \in Nat /\ Kick \in Nat
  <2>1. TypeOK /\ Follows(p) /\ RefereeInv
    BY <1>1 DEF Inv
  <2>2. s \in Seq(Message) /\ heard[p] \in Nat
    BY <1>1, <2>1 DEF TypeOK, Message
  <2>3. Kick \in Nat
    BY <2>1 DEF TypeOK, Kick
  <2> QED
    BY <2>1, <2>2, <2>3
<1>3. Len(s) < MaxInbox /\ stage \in Between /\ (Kick > 0 => OurSide = Opposite(side))
  BY <1>1 DEF Announces, Sends
<1>4. Len(s) \in Nat /\ Len(s) + 1 \in 1 .. Len(s) + 1 /\ Len(s) + 1 <= 3
  BY <1>2, <1>3, BoundsAssumption
<1>5. /\ TypeBefore(mode[p].type, s, Len(s) + 1) \in {PlayModeMap[b] : b \in Between}
      /\ KickBefore(heard[p], s, Len(s) + 1) = Kick
  BY <1>2, <1>3 DEF Follows
<1>6. heard[p] = Kick
  BY <1>4, <1>5, NextKick
<1>7. side \in {"left", "right"} /\ OurSide = Opposite(side)
  BY <1>1, <1>2, <1>3, <1>6 DEF RefereeInv
<1>8. SideOf(Kick, Kick, side) = side
  BY <1>2, <1>7, SideOfFacts
<1> QED
  BY <1>1, <1>6, <1>7, <1>8 DEF Opposite

Due == IF kicks[OurSide] = 0 THEN NoUnum ELSE Taker(kicks[OurSide])

\* Our next kick gives the turn to a player that did not have it in this round.
LEMMA TurnPasses ==
  ASSUME TypeOK, Kickers = {}, Kickers' = {}, kicks'[OurSide] = kicks[OurSide] + 1
  PROVE  Order!NextTurn
<1> DEFINE k == kicks[OurSide]
           n == k % TeamSize
           p == Taker(k + 1)
<1> USE TeamAssumption
<1>1. k \in Nat
  BY SideAssumption DEF TypeOK
<1>2. /\ Had = {Taker(i) : i \in k - n + 1 .. k}
      /\ Had' = {Taker(i) : i \in (k + 1) - ((k + 1) % TeamSize) + 1 .. k + 1}
      /\ Due' = IF k + 1 = 0 THEN NoUnum ELSE p
  BY DEF Had, Due
<1> HIDE DEF k
<1>3. /\ Had = TeamSize - n + 1 .. TeamSize
      /\ Had' = TeamSize - ((k + 1) % TeamSize) + 1 .. TeamSize
  <2>1. {Taker(i) : i \in k - (k % TeamSize) + 1 .. k} = TeamSize - (k % TeamSize) + 1 .. TeamSize
    BY <1>1, HadFacts
  <2>2. k + 1 \in Nat
    BY <1>1
  <2>3. {Taker(i) : i \in (k + 1) - ((k + 1) % TeamSize) + 1 .. k + 1} =
          TeamSize - ((k + 1) % TeamSize) + 1 .. TeamSize
    BY <2>2, HadFacts
  <2> QED
    BY <1>2, <2>1, <2>3
<1>4. /\ n \in 0 .. TeamSize - 1
      /\ (k + 1) % TeamSize = IF n = TeamSize - 1 THEN 0 ELSE n + 1
  BY <1>1, ModNext
<1>5. p = TeamSize - n /\ Due' = p
  <2>1. k + 1 - 1 = k /\ k + 1 # 0
    BY <1>1
  <2> QED
    BY <1>1, <1>2, <2>1 DEF Taker
<1> HIDE DEF n, p
<1>6. p \in Unums /\ p \notin Had
  BY <1>3, <1>4, <1>5 DEF Unums
<1>7. Had \cup {p} = TeamSize - n .. TeamSize
  BY <1>3, <1>4, <1>5
<1>8. Had' = IF Had \cup {p} = Unums THEN {} ELSE Had \cup {p}
  <2>1. CASE n = TeamSize - 1
    <3>1. Had \cup {p} = Unums
      BY <1>7, <2>1 DEF Unums
    <3>2. Had' = {}
      BY <1>3, <1>4, <2>1
    <3> QED
      BY <3>1, <3>2
  <2>2. CASE n # TeamSize - 1
    <3>1. 1 \notin Had \cup {p} /\ 1 \in Unums
      BY <1>4, <1>7, <2>2 DEF Unums
    <3>2. Had' = TeamSize - n .. TeamSize
      BY <1>3, <1>4, <2>2
    <3> QED
      BY <1>7, <3>1, <3>2
  <2> QED
    BY <2>1, <2>2
<1> QED
  BY <1>5, <1>6, <1>8 DEF Order!NextTurn, Due

\* Without a setup of ours, the player that is due begins or ends its kick.
LEMMA TurnStays ==
  ASSUME KickerIsDue, KickerIsDue', kicks'[OurSide] = kicks[OurSide]
  PROVE  Order!Begin \/ Order!End \/ UNCHANGED <<Due, Had, Kickers>>
<1>1. Due' = Due /\ Had' = Had
  BY DEF Due, Had
<1>2. \A p \in Kickers : Due = p /\ kicks[OurSide] # 0
  BY DEF KickerIsDue, Due
<1>3. \A p \in Kickers' : Due = p /\ Due # NoUnum
  <2>1. ASSUME NEW p \in Kickers'
        PROVE  Due = p /\ Due # NoUnum
    <3>1. kicks[OurSide] \in Nat \ {0} /\ p = Taker(kicks[OurSide])
      BY <2>1 DEF KickerIsDue
    <3>2. Due = p /\ p \in Unums
      BY <3>1, TakerFacts DEF Due
    <3> QED
      BY <3>2, TeamAssumption DEF Unums, NoUnum
  <2> QED
    BY <2>1
<1>4. CASE Kickers' = {}
  BY <1>1, <1>4 DEF Order!End, Due
<1>5. CASE Kickers' # {}
  <2>1. Kickers' = {Due} /\ Due # NoUnum
    BY <1>3, <1>5
  <2>2. Kickers = {} \/ Kickers = {Due}
    BY <1>2
  <2> QED
    BY <1>1, <2>1, <2>2 DEF Order!Begin, Due
<1> QED
  BY <1>4, <1>5

\* The players that have heard everything keep the order of kicks that
\* KickOrder promises (PenaltyKickState::update), if none of them is four or
\* more announcements behind.
THEOREM OrderKept == ASSUME MaxInbox <= 3 PROVE Spec => KeepsOrder
<1> USE DEF Due
<1>1. Init => Order!Init
  <2> SUFFICES ASSUME Init PROVE Order!Init
    OBVIOUS
  <2>1. kicks[OurSide] = 0 /\ Due = NoUnum
    BY SideAssumption DEF Init
  <2>2. Had = {}
    <3>1. 0 % TeamSize = 0
      BY TeamAssumption
    <3>2. Had = {Taker(k) : k \in 1 .. 0}
      BY <2>1, <3>1 DEF Had
    <3>3. 1 .. 0 = {}
      OBVIOUS
    <3> QED
      BY <3>2, <3>3
  <2>3. Kickers = {}
    <3>1. \A p \in synced : mode[p].type = "ExtendHalf"
      <4>1. Parse("time_extended", "neutral") = [type |-> "ExtendHalf", side |-> "neutral"]
        BY ParseFacts, StageTypes DEF Stages, Side
      <4> QED
        BY <4>1 DEF Init
    <3> QED
      BY <3>1 DEF Kickers, Role, IsPenaltyKickMode, InKick
  <2> QED
    BY <2>1, <2>2, <2>3 DEF Order!Init
<1>2. Inv => KickerIsDue
  BY KickersDue
<1>3. Inv /\ KickerIsDue /\ KickerIsDue' /\ [Next]_vars => [Order!Next]_(Order!vars)
  <2> SUFFICES ASSUME Inv, KickerIsDue, KickerIsDue', [Next]_vars
               PROVE  Order!Next \/ UNCHANGED <<Due, Had, Kickers>>
    BY DEF Order!vars
  <2>1. TypeOK /\ RefereeInv
    BY DEF Inv
  <2>2. CASE kicks'[OurSide] = kicks[OurSide]
    BY <2>2, TurnStays DEF Order!Next
  <2>3. CASE kicks'[OurSide] # kicks[OurSide]
    <3>1. RefereeSteps
      BY <2>3 DEF Next, RefereeSteps, HearReferee, Restart, referee, vars
    <3>2. PICK name \in Stages, s \in Side : Announces(name, s)
      BY <2>1, <3>1, RefereeStep
    <3>3. /\ name = "penalty_setup" /\ s \in {"left", "right"}
          /\ kicks' = [kicks EXCEPT ![s] = @ + 1]
      BY <2>3, <3>2 DEF Announces
    <3>4. s = OurSide /\ kicks'[OurSide] = kicks[OurSide] + 1
      BY <2>1, <2>3, <3>3, SideAssumption DEF TypeOK
    <3>5. Kickers = {}
      BY <3>2, <3>3, <3>4, NobodyKicks
    <3>6. Kickers' = {}
      <4>1. synced' \subseteq synced /\ mode' = mode /\ pen' = pen
        BY <3>2 DEF Announces, Sends
      <4>2. \A p \in synced' : Role(p)' = Role(p)
        BY <4>1 DEF Role, IsKickTaker
      <4> QED
        BY <3>5, <4>1, <4>2 DEF Kickers
    <3> QED
      BY <2>1, <3>4, <3>5, <3>6, TurnPasses DEF Order!Next
  <2> QED
    BY <2>2, <2>3
<1> QED
  BY <1>1, <1>2, <1>3, SpecInv, PTL DEF Spec, KeepsOrder, Order!Spec
=============================================================================
