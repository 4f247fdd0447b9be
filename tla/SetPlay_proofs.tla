--------------------------- MODULE SetPlay_proofs ---------------------------
(***************************************************************************)
(* Theorems about SetPlay: what the player knows of a set play, and when   *)
(* it kicks, for every time the server waits, every hold of the goalie and *)
(* any number of lost announcements.                                       *)
(***************************************************************************)
EXTENDS SetPlay, TLAPS

Caught == <<"goalie_catch_ball", Our>>
Free   == <<"free_kick", Our>>

\* What the server may announce.
Lasts == {PlayOn, Caught, Free, <<"kick_in", Our>>, <<"kick_in", Their>>, <<"corner_kick", Our>>,
          <<"goal_kick", Our>>, <<"offside", Their>>, <<"foul_charge", Their>>,
          <<"back_pass", Their>>, <<"goal", Their>>, <<"indirect_free_kick", Our>>,
          <<"kick_off", Our>>}

Heard(a) == Parse(a[1], a[2])

\* Announcements are under way only between the step's beginning and its
\* sense_body; the last of them is what the server waits for, except that a
\* caught ball comes with its free kick.
OnItsWay ==
  /\ pc = "act" => wire = << >>
  /\ \/ wire = << >>
     \/ wire = <<last>> \/ (last = Caught /\ wire \in {<<Caught, Free>>, <<Free>>})
  /\ wire # << >> => elapsed = 0 /\ chances = 0 /\ ~kicked

\* Whatever was lost, a set play is not younger to the player than it is, and
\* time stands only in a play mode that stops it.
Ages ==
  /\ Stands(last[1]) => elapsed = 0
  /\ elapsed <= startAge
  /\ pc = "act" /\ frozen => IsServerCycleStoppedMode(mode.type)

\* Decisions that count are decisions since the announcement.
Patient == last = PlayOn \/ AtMost(count, 7) <= quiet

\* While nothing is lost, the player has heard everything, and measures the set
\* play from its cycle, or will when it has read what is under way.
Informed ==
  lost = 0 =>
    \/ /\ wire = << >> /\ Knows
       /\ last # PlayOn => startAge = elapsed
       /\ Patient
    \/ /\ wire = <<last>> /\ ~heardNow
       /\ \/ last = PlayOn \/ Begins(mode, Heard(last))
          \/ startAge = 0 /\ Patient
    \/ /\ wire = <<Caught, Free>> /\ last = Caught /\ ~heardNow
       /\ Begins(mode, Heard(Caught))
    \/ /\ wire = <<Free>> /\ last = Caught /\ heardNow
       /\ mode = Heard(Caught) /\ startAge = 0 /\ Patient

\* How far the goalie is with its moves.
Moves == IF ~firstMove THEN 0
         ELSE IF ~secondMove THEN 1 ELSE 2 + AtMost(secondWait, 4)

\* A player that had its chance and did not kick has turned, or goes through
\* its moves; if a wait request came since, there is no time left to count up
\* to another chance.
Pressed ==
  chances > 0 /\ ~kicked =>
    /\ Knows /\ wire = << >>
    /\ \/ /\ Routines \in {{"kick_in"}, {"free_kick"}}
          /\ chances = 1 /\ turned /\ elapsed >= DropBallTime - 5
       \/ /\ Routines = {"indirect"}
          /\ chances = 1 /\ elapsed > DropBallTime - 3
          /\ \/ turned /\ count > 10
             \/ count <= elapsed - DropBallTime + (IF pc = "act" /\ decided THEN 5 ELSE 4)
       \/ /\ Routines = {"catch"}
          /\ chances <= Moves /\ elapsed > DropBallTime - 17

Inv == TypeOK /\ OnItsWay /\ Ages /\ Informed /\ Pressed

-----------------------------------------------------------------------------
(* Announcements.                                                          *)

Standing == {"offside", "foul_charge", "back_pass", "goal"}

\* The type of each announcement of a set play.
LEMMA TypesOf ==
  /\ PlayModeMap["play_on"] = "PlayOn" /\ PlayModeMap["kick_off"] = "KickOff_"
  /\ PlayModeMap["kick_in"] = "KickIn_" /\ PlayModeMap["free_kick"] = "FreeKick_"
  /\ PlayModeMap["corner_kick"] = "CornerKick_" /\ PlayModeMap["goal_kick"] = "GoalKick_"
  /\ PlayModeMap["offside"] = "OffSide_" /\ PlayModeMap["foul_charge"] = "FoulCharge_"
  /\ PlayModeMap["back_pass"] = "BackPass_" /\ PlayModeMap["goal"] = "AfterGoal_"
  /\ PlayModeMap["indirect_free_kick"] = "IndFreeKick_"
  /\ PlayModeMap["goalie_catch_ball"] = "GoalieCatch_"
  /\ {"play_on", "kick_off", "kick_in", "free_kick", "corner_kick", "goal_kick", "offside",
      "foul_charge", "back_pass", "goal", "indirect_free_kick", "goalie_catch_ball"}
       \subseteq DOMAIN PlayModeMap
  BY DEF PlayModeMap

Modes == [type : {PlayModeMap[n] : n \in DOMAIN PlayModeMap}, side : Side]

\* What an announcement means to a player, by its name and side.
LEMMA LastFacts ==
  ASSUME NEW a \in Lasts
  PROVE  /\ a = <<a[1], a[2]>> /\ Heard(a) = [type |-> PlayModeMap[a[1]], side |-> a[2]]
         /\ Heard(a) \in Modes
         /\ Heard(a).type = PlayModeMap[a[1]] /\ Heard(a).side = a[2]
         /\ Stands(a[1]) <=> a[1] \in Standing
         /\ Stands(a[1]) <=> IsServerCycleStoppedMode(Heard(a).type)
         /\ a[1] = "play_on" <=> a = PlayOn
         /\ a[1] \in Standing => a[2] = Their
<1>1. /\ a[1] \in {"play_on", "kick_off", "kick_in", "free_kick", "corner_kick", "goal_kick",
                   "offside", "foul_charge", "back_pass", "goal", "indirect_free_kick",
                   "goalie_catch_ball"}
      /\ a[2] \in Side /\ a = <<a[1], a[2]>>
      /\ a[1] = "play_on" <=> a = PlayOn
      /\ a[1] \in Standing => a[2] = Their
  BY DEF Lasts, PlayOn, Caught, Free, Side, Our, Their, Standing
<1>2. Heard(a) = [type |-> PlayModeMap[a[1]], side |-> a[2]]
  BY <1>1 DEF Heard, Parse
<1>3. PlayModeMap[a[1]] \in {PlayModeMap[n] : n \in DOMAIN PlayModeMap}
  BY <1>1, TypesOf
<1>4. Stands(a[1]) <=> a[1] \in Standing
  BY <1>1, TypesOf DEF Stands, IsServerCycleStoppedMode, Standing
<1>5. Heard(a) \in Modes
  BY <1>1, <1>2, <1>3 DEF Modes
<1> QED
  BY <1>1, <1>2, <1>4, <1>5 DEF Stands

\* The announcements TypeOK lists are these.
LEMMA LastSet ==
  {<<"play_on", "neutral">>} \cup (UNION {{seq[i] : i \in DOMAIN seq} : seq \in Ends})
    \cup {<<"free_kick", Our>>, <<"indirect_free_kick", Our>>, <<"kick_off", Our>>} = Lasts
<1> DEFINE U == UNION {{seq[i] : i \in DOMAIN seq} : seq \in Ends}
           One == {<<"kick_in", Our>>, <<"kick_in", Their>>, <<"corner_kick", Our>>,
                   <<"goal_kick", Our>>, <<"offside", Their>>, <<"foul_charge", Their>>,
                   <<"back_pass", Their>>, <<"goal", Their>>}
<1>1. Ends = {<<a>> : a \in One} \cup {<<Caught, Free>>}
  BY DEF Ends, Caught, Free
<1>2. U = One \cup {Caught, Free}
  <2>1. ASSUME NEW a \in One PROVE a \in U
    <3>1. <<a>> \in Ends /\ DOMAIN <<a>> = 1 .. 1 /\ <<a>>[1] = a
      BY <1>1
    <3> QED
      BY <3>1
  <2>2. Caught \in U /\ Free \in U
    <3>1. /\ <<Caught, Free>> \in Ends /\ DOMAIN <<Caught, Free>> = 1 .. 2
          /\ <<Caught, Free>>[1] = Caught /\ <<Caught, Free>>[2] = Free
      BY <1>1
    <3>2. 1 \in DOMAIN <<Caught, Free>> /\ 2 \in DOMAIN <<Caught, Free>>
      BY <3>1
    <3> QED
      BY <3>1, <3>2
  <2>3. ASSUME NEW seq \in Ends, NEW i \in DOMAIN seq PROVE seq[i] \in One \cup {Caught, Free}
    <3>1. CASE seq = <<Caught, Free>>
      <4>1. DOMAIN seq = 1 .. 2 /\ seq[1] = Caught /\ seq[2] = Free
        BY <3>1
      <4>2. i = 1 \/ i = 2
        BY <4>1
      <4> QED
        BY <4>1, <4>2
    <3>2. CASE seq # <<Caught, Free>>
      <4>1. PICK a \in One : seq = <<a>>
        BY <1>1, <3>2
      <4>2. DOMAIN seq = 1 .. 1 /\ seq[1] = a
        BY <4>1
      <4>3. i = 1
        BY <4>2
      <4> QED
        BY <4>2, <4>3
    <3> QED
      BY <3>1, <3>2
  <2> QED
    BY <2>1, <2>2, <2>3
<1>3. \A V : V = One \cup {Caught, Free} =>
        {<<"play_on", "neutral">>} \cup V
          \cup {<<"free_kick", Our>>, <<"indirect_free_kick", Our>>, <<"kick_off", Our>>} = Lasts
  BY DEF Lasts, PlayOn, Caught, Free
<1> HIDE DEF One
<1> QED
  BY <1>2, <1>3

\* What follows play or a set play begins another one, or stood before.
LEMMA FollowFacts ==
  ASSUME NEW a \in Lasts, NEW seq \in Follows(a[1])
  PROVE  \/ \E b \in Lasts : /\ seq = <<b>>
                             /\ Stands(a[1]) \/ Begins(Heard(a), Heard(b))
         \/ /\ seq = <<Caught, Free>> /\ a = PlayOn
            /\ Begins(Heard(a), Heard(Caught))
<1>1. ASSUME NEW b \in Lasts, a = PlayOn, b # PlayOn
      PROVE  Begins(Heard(a), Heard(b))
  <2>1. b[1] \in {"kick_off", "kick_in", "free_kick", "corner_kick", "goal_kick",
                  "offside", "foul_charge", "back_pass", "goal", "indirect_free_kick",
                  "goalie_catch_ball"} /\ a[1] = "play_on"
    BY <1>1 DEF Lasts, PlayOn, Caught, Free
  <2>2. Heard(a).type = "PlayOn" /\ Heard(b).type = PlayModeMap[b[1]]
    BY <2>1, LastFacts, TypesOf
  <2>3. ~IsPenaltyKickMode(Heard(b).type) /\ Heard(b).type # "PlayOn"
    BY <2>1, <2>2, TypesOf DEF IsPenaltyKickMode
  <2> QED
    BY <2>2, <2>3 DEF Begins
<1>2. CASE a[1] = "play_on"
  <2>1. a = PlayOn /\ Follows(a[1]) = Ends
    BY <1>2, LastFacts DEF Follows
  <2>2. CASE seq = <<Caught, Free>>
    <3>1. Caught \in Lasts /\ Caught # PlayOn
      BY DEF Lasts, Caught, PlayOn
    <3> QED
      BY <1>1, <2>1, <2>2, <3>1
  <2>3. CASE seq # <<Caught, Free>>
    <3>1. PICK b \in {<<"kick_in", Our>>, <<"kick_in", Their>>, <<"corner_kick", Our>>,
                      <<"goal_kick", Our>>, <<"offside", Their>>, <<"foul_charge", Their>>,
                      <<"back_pass", Their>>, <<"goal", Their>>} : seq = <<b>>
      BY <2>1, <2>3 DEF Ends, Caught, Free
    <3>2. b \in Lasts /\ b # PlayOn
      BY DEF Lasts, PlayOn
    <3> QED
      BY <1>1, <2>1, <3>1, <3>2
  <2> QED
    BY <2>2, <2>3
<1>3. CASE a[1] = "free_kick"
  <2>1. seq = <<Free>> /\ Free \in Lasts
    BY <1>3 DEF Follows, Free, Lasts
  <2>2. Free[1] = "free_kick" /\ Heard(a).type = "FreeKick_" /\ Heard(Free).type = "FreeKick_"
    BY <1>3, <2>1, LastFacts, TypesOf DEF Free
  <2> QED
    BY <2>1, <2>2 DEF Begins, IsPenaltyKickMode
<1>4. CASE a[1] \in Standing
  <2>1. Stands(a[1])
    BY <1>4, LastFacts
  <2>2. \E b \in {Free, <<"indirect_free_kick", Our>>, <<"kick_off", Our>>} : seq = <<b>>
    BY <1>4 DEF Follows, Standing, Free
  <2>3. \A b \in {Free, <<"indirect_free_kick", Our>>, <<"kick_off", Our>>} : b \in Lasts
    BY DEF Lasts
  <2> QED
    BY <2>1, <2>2, <2>3
<1> QED
  BY <1>2, <1>3, <1>4 DEF Follows, Standing

-----------------------------------------------------------------------------
(* The server's steps.                                                     *)

LEMMA Bounds ==
  /\ DropBallTime \in Nat /\ DropBallTime > 20 /\ GoalieHold \in Nat
  /\ GoalieHold < DropBallTime - 15 /\ MaxLost \in Nat
BY DropBallTimeAssumption, GoalieHoldAssumption, MaxLostAssumption

LEMMA AtMostFacts ==
  ASSUME NEW n \in Int, NEW bound \in Int
  PROVE  /\ AtMost(n, bound) \in Int /\ AtMost(n, bound) <= bound /\ AtMost(n, bound) <= n
         /\ AtMost(n, bound) = n \/ (AtMost(n, bound) = bound /\ n >= bound)
BY DEF AtMost

\* TypeOK, as the proofs use it.
Types ==
  /\ last \in Lasts
  /\ elapsed \in 0 .. DropBallTime /\ lost \in 0 .. MaxLost
  /\ moved \in BOOLEAN /\ kicked \in BOOLEAN /\ shot \in BOOLEAN
  /\ pc \in {"hear", "act"} /\ Len(wire) <= 2
  /\ mode \in Modes
  /\ heardNow \in BOOLEAN /\ frozen \in BOOLEAN
  /\ startAge \in 0 .. DropBallTime /\ count \in 0 .. MaxCount
  /\ request \in BOOLEAN /\ decided \in BOOLEAN
  /\ goalie \in BOOLEAN /\ atBall \in BOOLEAN /\ turned \in BOOLEAN
  /\ firstMove \in BOOLEAN /\ secondMove \in BOOLEAN /\ secondWait \in 0 .. 5
  /\ quiet \in 0 .. 7 /\ chances \in 0 .. 7

LEMMA TypesFacts == TypeOK <=> Types
BY LastSet DEF TypeOK, Types, Modes

\* What can be under way: one announcement, or the two of a caught ball.
LEMMA WireFacts ==
  /\ \A a : <<a>> # << >> /\ Tail(<<a>>) = << >> /\ Head(<<a>>) = a /\ Len(<<a>>) = 1
  /\ <<Caught, Free>> # << >> /\ Tail(<<Caught, Free>>) = <<Free>>
  /\ Head(<<Caught, Free>>) = Caught /\ Len(<<Caught, Free>>) = 2
  /\ Caught \in Lasts /\ Free \in Lasts /\ PlayOn \in Lasts
  /\ Caught # PlayOn /\ Free # PlayOn /\ Caught # Free
  /\ Len(<< >>) = 0
<1>1. Caught \in Lasts /\ Free \in Lasts /\ PlayOn \in Lasts
  BY DEF Lasts
<1>2. Caught # PlayOn /\ Free # PlayOn /\ Caught # Free
  BY DEF Caught, Free, PlayOn
<1> QED
  BY <1>1, <1>2

\* The server says nothing, or announces what begins a set play or follows one
\* in which the cycle stood, or play on.
SaysNothing ==
  /\ wire' = << >>
  /\ UNCHANGED <<last, kicked, shot, atBall, turned, quiet, chances>>
  /\ elapsed' = IF moved' /\ last # PlayOn THEN elapsed + 1 ELSE elapsed
  /\ elapsed' \in 0 .. DropBallTime

Says ==
  /\ last' \in Lasts /\ wire' # << >>
  /\ \/ /\ wire' = <<last'>>
        /\ last' = PlayOn \/ Stands(last[1]) \/ Begins(Heard(last), Heard(last'))
     \/ /\ wire' = <<Caught, Free>> /\ last' = Caught
        /\ Begins(Heard(last), Heard(Caught))
  /\ elapsed' = 0 /\ kicked' = FALSE /\ shot' = FALSE
  /\ atBall' = FALSE /\ turned' = FALSE /\ chances' = 0
  /\ quiet' = IF Stands(last[1]) THEN quiet ELSE 0

LEMMA NextFacts ==
  ASSUME TypeOK, NextCycle
  PROVE  /\ pc = "act" /\ pc' = "hear" /\ heardNow' = FALSE
         /\ moved' \in BOOLEAN /\ (moved' <=> ~Stands(last[1]))
         /\ startAge' = IF moved' THEN AtMost(startAge + 1, DropBallTime) ELSE startAge
         /\ startAge' \in 0 .. DropBallTime
         /\ UNCHANGED <<lost, mode, frozen, count, request, decided, goalie, statics>>
         /\ SaysNothing \/ Says
<1> USE Bounds
<1>1. Types
  BY TypesFacts
<1>2. /\ pc = "act" /\ pc' = "hear" /\ heardNow' = FALSE
      /\ moved' = ~Stands(last[1])
      /\ startAge' = IF moved' THEN AtMost(startAge + 1, DropBallTime) ELSE startAge
      /\ UNCHANGED <<lost, mode, frozen, count, request, decided, goalie, statics>>
  BY DEF NextCycle
<1>3. moved' \in BOOLEAN /\ (moved' <=> ~Stands(last[1]))
  BY <1>2 DEF Stands, IsServerCycleStoppedMode
<1>4. startAge' \in 0 .. DropBallTime
  BY <1>1, <1>2, AtMostFacts DEF Types, AtMost
<1>5. PICK announced \in
          IF last # PlayOn /\ (kicked \/ elapsed = DropBallTime) THEN {<<PlayOn>>}
          ELSE {<< >>} \cup Follows(last[1])
             \cup (IF last[2] = Their /\ ~Stands(last[1]) THEN {<<PlayOn>>} ELSE {}) :
         /\ wire' = announced
         /\ IF announced = << >>
            THEN /\ elapsed' = IF moved' /\ last # PlayOn THEN elapsed + 1 ELSE elapsed
                 /\ UNCHANGED <<last, kicked, shot, atBall, turned, quiet, chances>>
            ELSE /\ last' = Head(announced)
                 /\ elapsed' = 0
                 /\ kicked' = FALSE /\ shot' = FALSE /\ atBall' = FALSE /\ turned' = FALSE
                 /\ chances' = 0
                 /\ quiet' = IF Stands(last[1]) THEN quiet ELSE 0
  BY DEF NextCycle
<1>6. \/ announced = << >> \/ announced = <<PlayOn>> \/ announced \in Follows(last[1])
  BY <1>5
<1>7. CASE announced = << >>
  <2>1. ~(last # PlayOn /\ elapsed = DropBallTime)
    BY <1>5, <1>7, WireFacts
  <2>2. elapsed' \in 0 .. DropBallTime
    BY <1>1, <1>5, <1>7, <2>1 DEF Types
  <2> QED
    BY <1>2, <1>3, <1>4, <1>5, <1>7, <2>2 DEF SaysNothing
<1>8. ASSUME announced # << >>
      PROVE  /\ last' = Head(announced) /\ wire' = announced /\ wire' # << >>
             /\ elapsed' = 0 /\ kicked' = FALSE /\ shot' = FALSE /\ atBall' = FALSE
             /\ turned' = FALSE
             /\ chances' = 0 /\ quiet' = IF Stands(last[1]) THEN quiet ELSE 0
  BY <1>5, <1>8
<1>9. CASE announced = <<PlayOn>>
  <2>1. last' = PlayOn /\ wire' = <<last'>> /\ last' \in Lasts /\ announced # << >>
    BY <1>8, <1>9, WireFacts
  <2>2. Says
    BY <1>8, <2>1 DEF Says
  <2> QED
    BY <1>2, <1>3, <1>4, <2>2
<1>10. CASE announced \in Follows(last[1])
  <2>1. last \in Lasts
    BY <1>1 DEF Types
  <2>2. \/ \E b \in Lasts : /\ announced = <<b>>
                            /\ Stands(last[1]) \/ Begins(Heard(last), Heard(b))
        \/ announced = <<Caught, Free>> /\ Begins(Heard(last), Heard(Caught))
    BY <1>10, <2>1, FollowFacts
  <2>3. CASE announced = <<Caught, Free>> /\ Begins(Heard(last), Heard(Caught))
    <3>1. last' = Caught /\ wire' = <<Caught, Free>> /\ last' \in Lasts /\ announced # << >>
      BY <1>8, <2>3, WireFacts
    <3>2. Says
      BY <1>8, <2>3, <3>1 DEF Says
    <3> QED
      BY <1>2, <1>3, <1>4, <3>2
  <2>4. ASSUME NEW b \in Lasts, announced = <<b>>,
               Stands(last[1]) \/ Begins(Heard(last), Heard(b))
        PROVE  Says
    <3>1. last' = b /\ wire' = <<last'>> /\ last' \in Lasts /\ announced # << >>
      BY <1>8, <2>4, WireFacts
    <3>2. Stands(last[1]) \/ Begins(Heard(last), Heard(last'))
      BY <2>4, <3>1
    <3> QED
      BY <1>8, <3>1, <3>2 DEF Says
  <2> QED
    BY <1>2, <1>3, <1>4, <2>2, <2>3, <2>4
<1> QED
  BY <1>6, <1>7, <1>9, <1>10

\* What a step of the server leaves of the player's situation.
LEMMA NextCycleInv ==
  ASSUME Inv, NextCycle
  PROVE  Inv'
<1> USE Bounds
<1>1. /\ TypeOK /\ Types /\ OnItsWay /\ Ages /\ Informed /\ Pressed
      /\ wire = << >>
      /\ elapsed \in Nat /\ startAge \in Nat /\ count \in Nat /\ quiet \in Nat /\ lost \in Nat
      /\ last \in Lasts
  <2>1. pc = "act"
    BY NextFacts DEF Inv
  <2> QED
    BY <2>1, TypesFacts DEF Inv, OnItsWay, Types, MaxCount
<1>2. /\ pc = "act" /\ pc' = "hear" /\ heardNow' = FALSE
      /\ moved' \in BOOLEAN /\ (moved' <=> ~Stands(last[1]))
      /\ startAge' = IF moved' THEN AtMost(startAge + 1, DropBallTime) ELSE startAge
      /\ startAge' \in 0 .. DropBallTime
      /\ lost' = lost /\ mode' = mode /\ frozen' = frozen /\ count' = count
      /\ request' = request /\ decided' = decided /\ goalie' = goalie
      /\ firstMove' = firstMove /\ secondMove' = secondMove /\ secondWait' = secondWait
      /\ SaysNothing \/ Says
  BY <1>1, NextFacts DEF statics
<1>3. Routines' = Routines /\ Moves' = Moves
  BY <1>2 DEF Routines, Moves
<1>4. CASE SaysNothing
  <2>1. /\ wire' = << >> /\ last' = last /\ kicked' = kicked /\ shot' = shot /\ atBall' = atBall
        /\ turned' = turned /\ quiet' = quiet /\ chances' = chances
        /\ elapsed' = IF moved' /\ last # PlayOn THEN elapsed + 1 ELSE elapsed
        /\ elapsed' \in 0 .. DropBallTime
    BY <1>4 DEF SaysNothing
  <2>2. TypeOK'
    <3>1. Types'
      BY <1>1, <1>2, <2>1 DEF Types
    <3> QED
      BY <3>1, TypesFacts, PTL
  <2>3. OnItsWay'
    BY <1>2, <2>1 DEF OnItsWay
  <2>4. Ages'
    BY <1>1, <1>2, <2>1 DEF Ages, AtMost, Stands
  <2>5. Informed'
    <3> SUFFICES ASSUME lost = 0
                 PROVE  Knows' /\ (last # PlayOn => startAge' = elapsed') /\ Patient'
      BY <1>2, <2>1 DEF Informed
    <3>1. Knows /\ (last # PlayOn => startAge = elapsed) /\ Patient
      BY <1>1, WireFacts DEF Informed
    <3>2. Knows' /\ Patient'
      BY <1>2, <2>1, <3>1 DEF Knows, Patient, Parse
    <3>3. last # PlayOn => startAge' = elapsed'
      BY <1>1, <1>2, <2>1, <3>1 DEF AtMost
    <3> QED
      BY <3>2, <3>3
  <2>6. Pressed'
    <3> SUFFICES ASSUME chances > 0, ~kicked
                 PROVE  Pressed'
      BY <2>1 DEF Pressed
    <3>1. /\ Knows
          /\ \/ /\ Routines \in {{"kick_in"}, {"free_kick"}}
                /\ chances = 1 /\ turned /\ elapsed >= DropBallTime - 5
             \/ /\ Routines = {"indirect"}
                /\ chances = 1 /\ elapsed > DropBallTime - 3
                /\ \/ turned /\ count > 10
                   \/ count <= elapsed - DropBallTime + 5
             \/ /\ Routines = {"catch"}
                /\ chances <= Moves /\ elapsed > DropBallTime - 17
      BY <1>1 DEF Pressed
    <3>2. elapsed' = elapsed + 1
      <4>1. elapsed > 0
        BY <1>1, <3>1
      <4>2. ~Stands(last[1])
        BY <1>1, <4>1 DEF Ages
      <4>3. Routines # {}
        BY <3>1
      <4>4. last # PlayOn
        <5>1. ASSUME last = PlayOn PROVE FALSE
          <6>1. mode.type = "PlayOn"
            BY <3>1, <5>1, TypesOf DEF Knows, Parse, PlayOn
          <6> QED
            BY <4>3, <6>1 DEF Routines, IsTeamsSetPlay
        <5> QED
          BY <5>1
      <4> QED
        BY <1>2, <2>1, <4>2, <4>4
    <3>3. Knows' /\ wire' = << >> /\ pc' = "hear"
      BY <1>2, <2>1, <3>1 DEF Knows, Parse
    <3>4. \/ /\ Routines' \in {{"kick_in"}, {"free_kick"}}
             /\ chances' = 1 /\ turned' /\ elapsed' >= DropBallTime - 5
          \/ /\ Routines' = {"indirect"}
             /\ chances' = 1 /\ elapsed' > DropBallTime - 3
             /\ (turned' /\ count' > 10) \/ count' <= elapsed' - DropBallTime + 4
          \/ /\ Routines' = {"catch"}
             /\ chances' <= Moves' /\ elapsed' > DropBallTime - 17
      BY <1>1, <1>2, <1>3, <2>1, <3>1, <3>2
    <3> QED
      BY <3>3, <3>4 DEF Pressed
  <2> QED
    BY <2>2, <2>3, <2>4, <2>5, <2>6 DEF Inv
<1>5. CASE Says
  <2>1. /\ last' \in Lasts /\ wire' # << >>
        /\ \/ /\ wire' = <<last'>>
              /\ last' = PlayOn \/ Stands(last[1]) \/ Begins(Heard(last), Heard(last'))
           \/ /\ wire' = <<Caught, Free>> /\ last' = Caught
              /\ Begins(Heard(last), Heard(Caught))
        /\ elapsed' = 0 /\ kicked' = FALSE /\ shot' = FALSE
        /\ atBall' = FALSE /\ turned' = FALSE /\ chances' = 0
        /\ quiet' = IF Stands(last[1]) THEN quiet ELSE 0
    BY <1>5 DEF Says
  <2>2. TypeOK'
    <3>1. Len(wire') <= 2
      <4>1. wire' = <<last'>> => Len(wire') <= 2
        BY WireFacts
      <4>2. wire' = <<Caught, Free>> => Len(wire') <= 2
        BY WireFacts
      <4>3. wire' = <<last'>> \/ wire' = <<Caught, Free>>
        BY <2>1
      <4> QED
        BY <4>1, <4>2, <4>3
    <3>2. quiet' \in 0 .. 7
      BY <1>1, <2>1 DEF Types
    <3>3. elapsed' \in 0 .. DropBallTime /\ chances' \in 0 .. 7
      <4>1. elapsed' = 0 /\ chances' = 0
        BY <2>1
      <4> QED
        BY <4>1
    <3>4. /\ kicked' \in BOOLEAN /\ shot' \in BOOLEAN /\ atBall' \in BOOLEAN /\ turned' \in BOOLEAN
          /\ pc' \in {"hear", "act"} /\ heardNow' \in BOOLEAN /\ last' \in Lasts
      BY <1>2, <2>1, Zenon
    <3>5. Types'
      BY <1>1, <1>2, <3>1, <3>2, <3>3, <3>4 DEF Types
    <3> QED
      BY <3>5, TypesFacts, PTL
  <2>3. OnItsWay'
    BY <1>2, <2>1 DEF OnItsWay
  <2>4. Ages'
    BY <1>1, <1>2, <2>1 DEF Ages
  <2>5. Informed'
    <3> SUFFICES ASSUME lost = 0
                 PROVE  Informed'
      BY <1>2 DEF Informed
    <3>1. Knows /\ (last # PlayOn => startAge = elapsed) /\ Patient
      BY <1>1, WireFacts DEF Informed
    <3>2. mode = Heard(last)
      BY <3>1 DEF Knows, Heard
    <3>3. CASE wire' = <<Caught, Free>> /\ last' = Caught /\ Begins(Heard(last), Heard(Caught))
      BY <1>2, <3>2, <3>3 DEF Informed, Begins, Heard, Parse
    <3>4. CASE /\ wire' = <<last'>>
               /\ last' = PlayOn \/ Begins(Heard(last), Heard(last'))
      BY <1>2, <3>2, <3>4 DEF Informed
    <3>5. CASE wire' = <<last'>> /\ Stands(last[1])
      <4>1. last # PlayOn /\ elapsed = 0
        BY <1>1, <3>5, TypesOf DEF Ages, Stands, IsServerCycleStoppedMode, PlayOn
      <4>2. startAge' = 0 /\ Patient'
        BY <1>1, <1>2, <2>1, <3>1, <3>5, <4>1 DEF Patient
      <4> QED
        BY <1>2, <3>5, <4>2 DEF Informed
    <3> QED
      BY <2>1, <3>3, <3>4, <3>5
  <2>6. Pressed'
    BY <2>1 DEF Pressed
  <2> QED
    BY <2>2, <2>3, <2>4, <2>5, <2>6 DEF Inv
<1> QED
  BY <1>2, <1>4, <1>5

-----------------------------------------------------------------------------
(* What the player hears.                                                  *)

\* Taking an announcement leaves a shorter line.
LEMMA TailFacts ==
  ASSUME TypeOK, OnItsWay, wire # << >>
  PROVE  /\ pc = "hear" /\ elapsed = 0 /\ chances = 0 /\ ~kicked
         /\ Len(Tail(wire)) <= 2 /\ Head(wire) \in Lasts
         /\ \/ wire = <<last>> /\ Tail(wire) = << >> /\ Head(wire) = last
            \/ /\ wire = <<Caught, Free>> /\ last = Caught
               /\ Tail(wire) = <<Free>> /\ Head(wire) = Caught
            \/ /\ wire = <<Free>> /\ last = Caught
               /\ Tail(wire) = << >> /\ Head(wire) = Free
<1>1. Types
  BY TypesFacts
<1>2. pc = "hear" /\ elapsed = 0 /\ chances = 0 /\ ~kicked
  BY <1>1 DEF OnItsWay, Types
<1>3. CASE wire = <<last>>
  <2>1. Tail(wire) = << >> /\ Head(wire) = last
    BY <1>3, WireFacts
  <2> QED
    BY <1>1, <1>2, <1>3, <2>1, WireFacts DEF Types
<1>4. CASE wire = <<Caught, Free>> /\ last = Caught
  <2>1. Tail(wire) = <<Free>> /\ Head(wire) = Caught /\ Len(<<Free>>) <= 2
    BY <1>4, WireFacts
  <2> QED
    BY <1>2, <1>4, <2>1, WireFacts
<1>5. CASE wire = <<Free>> /\ last = Caught
  <2>1. Tail(wire) = << >> /\ Head(wire) = Free
    BY <1>5, WireFacts
  <2> QED
    BY <1>2, <1>5, <2>1, WireFacts
<1> QED
  BY <1>3, <1>4, <1>5 DEF OnItsWay

LEMMA LoseInv ==
  ASSUME Inv, Lose
  PROVE  Inv'
<1> USE Bounds
<1>1. TypeOK /\ Types /\ OnItsWay /\ Ages /\ wire # << >>
  BY TypesFacts DEF Inv, Lose
<1>2. /\ last' = last /\ elapsed' = elapsed /\ moved' = moved
      /\ kicked' = kicked /\ shot' = shot /\ pc' = pc
      /\ mode' = mode /\ heardNow' = heardNow /\ startAge' = startAge /\ frozen' = frozen
      /\ count' = count /\ request' = request /\ decided' = decided /\ goalie' = goalie
      /\ atBall' = atBall /\ turned' = turned /\ firstMove' = firstMove
      /\ secondMove' = secondMove /\ secondWait' = secondWait /\ quiet' = quiet
      /\ chances' = chances
      /\ lost < MaxLost /\ lost' = lost + 1 /\ wire' = Tail(wire)
  BY DEF Lose, server, heard, statics
<1>3. lost' \in 0 .. MaxLost /\ lost' # 0
  BY <1>1, <1>2 DEF Types
<1>4. Len(wire') <= 2
  BY <1>1, <1>2, TailFacts
<1>5. TypeOK'
  <2>1. Types'
    BY <1>1, <1>2, <1>3, <1>4 DEF Types
  <2> QED
    BY <2>1, TypesFacts, PTL
<1>6. OnItsWay'
  BY <1>1, <1>2, TailFacts DEF OnItsWay
<1>7. Ages'
  BY <1>1, <1>2 DEF Ages
<1>8. Informed' /\ Pressed'
  BY <1>1, <1>2, <1>3, TailFacts DEF Informed, Pressed
<1> QED
  BY <1>5, <1>6, <1>7, <1>8 DEF Inv

LEMMA HearRefereeInv ==
  ASSUME Inv, HearReferee
  PROVE  Inv'
<1> USE Bounds
<1> DEFINE a == Head(wire)
<1>1. TypeOK /\ Types /\ OnItsWay /\ Ages /\ Informed /\ wire # << >>
  BY TypesFacts DEF Inv, HearReferee
<1>2. /\ last' = last /\ elapsed' = elapsed /\ moved' = moved
      /\ kicked' = kicked /\ shot' = shot /\ pc' = pc
      /\ lost' = lost /\ frozen' = frozen
      /\ request' = request /\ decided' = decided /\ goalie' = goalie
      /\ atBall' = atBall /\ turned' = turned /\ firstMove' = firstMove
      /\ secondMove' = secondMove /\ secondWait' = secondWait /\ quiet' = quiet
      /\ chances' = chances
      /\ wire' = Tail(wire) /\ heardNow' = TRUE
      /\ mode' = Update(mode, Heard(a), heardNow)
      /\ IF Begins(mode, mode') THEN startAge' = 0 /\ count' = 0
         ELSE startAge' = startAge /\ count' = count
  BY DEF HearReferee, server, statics, Heard
<1>3. /\ pc = "hear" /\ elapsed = 0 /\ chances = 0 /\ ~kicked
      /\ Len(Tail(wire)) <= 2 /\ a \in Lasts
      /\ \/ wire = <<last>> /\ Tail(wire) = << >> /\ a = last
         \/ /\ wire = <<Caught, Free>> /\ last = Caught
            /\ Tail(wire) = <<Free>> /\ a = Caught
         \/ /\ wire = <<Free>> /\ last = Caught
            /\ Tail(wire) = << >> /\ a = Free
  BY <1>1, TailFacts
<1> HIDE DEF a
<1>4. mode' \in Modes /\ Heard(a) \in Modes
  BY <1>1, <1>2, <1>3, LastFacts DEF Update, Types
<1>5. /\ startAge' \in 0 .. DropBallTime /\ count' \in 0 .. MaxCount
      /\ startAge' >= 0 /\ startAge \in Nat /\ count \in Nat /\ quiet \in Nat
  BY <1>1, <1>2 DEF Types, MaxCount
<1>6. TypeOK'
  <2>1. Types'
    BY <1>1, <1>2, <1>3, <1>4, <1>5 DEF Types
  <2> QED
    BY <2>1, TypesFacts, PTL
<1>7. OnItsWay'
  BY <1>2, <1>3 DEF OnItsWay
<1>8. Ages'
  BY <1>1, <1>2, <1>3, <1>5 DEF Ages
<1>9. Pressed'
  BY <1>2, <1>3 DEF Pressed
<1>10. ASSUME (startAge' = 0 /\ Patient) \/ Begins(mode, mode')
       PROVE  startAge' = 0 /\ Patient'
  <2>1. CASE Begins(mode, mode')
    <3>1. startAge' = 0 /\ count' = 0
      BY <1>2, <2>1
    <3>2. AtMost(count', 7) <= quiet'
      BY <1>2, <1>5, <3>1 DEF AtMost
    <3> QED
      BY <3>1, <3>2 DEF Patient
  <2>2. CASE ~Begins(mode, mode')
    BY <1>2, <1>10, <2>2 DEF Patient
  <2> QED
    BY <2>1, <2>2
<1>11. Informed'
  <2> SUFFICES ASSUME lost = 0
               PROVE  Informed'
    BY <1>2 DEF Informed
  <2>1. CASE wire = <<last>>
    <3>1. /\ ~heardNow /\ Tail(wire) = << >> /\ a = last
          /\ \/ last = PlayOn \/ Begins(mode, Heard(last))
             \/ startAge = 0 /\ Patient
      BY <1>1, <1>3, <2>1, WireFacts DEF Informed
    <3>2. mode' = Heard(last)
      BY <1>2, <3>1 DEF Update
    <3>3. Knows'
      BY <1>2, <3>2 DEF Knows, Heard, Parse
    <3>4. last = PlayOn \/ (startAge' = 0 /\ Patient')
      <4>1. CASE last = PlayOn
        BY <4>1
      <4>2. CASE Begins(mode, Heard(last))
        BY <1>10, <3>2, <4>2
      <4>3. CASE startAge = 0 /\ Patient
        <5>1. startAge' = 0
          BY <1>2, <4>3
        <5> QED
          BY <1>10, <4>3, <5>1
      <4> QED
        BY <3>1, <4>1, <4>2, <4>3
    <3>5. Patient' /\ (last # PlayOn => startAge' = elapsed')
      BY <1>2, <1>3, <3>4 DEF Patient
    <3> QED
      BY <1>2, <3>1, <3>3, <3>5 DEF Informed
  <2>2. CASE wire = <<Caught, Free>> /\ last = Caught
    <3>1. Tail(wire) = <<Free>> /\ a = Caught
      BY <1>3, <2>2, WireFacts
    <3>2. ~heardNow /\ Begins(mode, Heard(Caught))
      BY <1>1, <2>2, WireFacts DEF Informed
    <3>3. mode' = Heard(Caught)
      BY <1>2, <3>1, <3>2 DEF Update
    <3>4. startAge' = 0 /\ Patient'
      BY <1>10, <3>2, <3>3
    <3>5. mode' = Heard(Caught)'
      BY <3>3 DEF Heard, Parse
    <3> QED
      BY <1>2, <2>2, <3>1, <3>4, <3>5 DEF Informed
  <2>3. CASE wire = <<Free>> /\ last = Caught
    <3>1. Tail(wire) = << >> /\ a = Free
      BY <1>3, <2>3, WireFacts
    <3>2. heardNow /\ mode = Heard(Caught) /\ startAge = 0 /\ Patient
      BY <1>1, <2>3, WireFacts DEF Informed
    <3>3. /\ Heard(Caught).type = "GoalieCatch_" /\ Heard(Free).type = "FreeKick_"
          /\ Heard(Caught).side = Our /\ Heard(Free).side = Our
      <4>1. /\ Caught[1] = "goalie_catch_ball" /\ Free[1] = "free_kick"
            /\ Caught[2] = Our /\ Free[2] = Our
        BY DEF Caught, Free
      <4> QED
        BY <4>1, LastFacts, WireFacts, TypesOf
    <3>4. mode' = mode
      BY <1>2, <3>1, <3>2, <3>3 DEF Update
    <3>5. ~Begins(mode, mode')
      BY <3>2, <3>3, <3>4 DEF Begins
    <3>6. startAge' = 0 /\ Patient'
      BY <1>2, <3>2, <3>5 DEF Patient
    <3>7. Knows'
      BY <1>2, <2>3, <3>2, <3>4 DEF Knows, Heard, Parse
    <3> QED
      BY <1>2, <1>3, <3>1, <3>6, <3>7 DEF Informed
  <2> QED
    BY <1>3, <2>1, <2>2, <2>3
<1> QED
  BY <1>6, <1>7, <1>8, <1>9, <1>11 DEF Inv

\* sense_body, a wait request, and the way to the ball.
LEMMA SenseInv ==
  ASSUME Inv, Sense
  PROVE  Inv'
<1>1. TypeOK /\ Types /\ OnItsWay /\ Ages /\ Informed /\ Pressed
  BY TypesFacts DEF Inv
<1>2. /\ last' = last /\ elapsed' = elapsed /\ moved' = moved /\ kicked' = kicked /\ shot' = shot
      /\ mode' = mode /\ heardNow' = heardNow /\ startAge' = startAge
      /\ count' = count /\ goalie' = goalie /\ lost' = lost /\ wire' = wire
      /\ atBall' = atBall /\ turned' = turned /\ firstMove' = firstMove
      /\ secondMove' = secondMove /\ secondWait' = secondWait /\ quiet' = quiet
      /\ chances' = chances
      /\ pc = "hear" /\ pc' = "act" /\ wire = << >>
      /\ frozen' = (IsServerCycleStoppedMode(mode.type) /\ (~moved \/ heardNow))
      /\ \/ decided' = FALSE /\ request' = FALSE
         \/ decided' = decided /\ request' = request
  BY DEF Sense, server, heard, statics
<1>3. frozen' \in BOOLEAN /\ (frozen' => IsServerCycleStoppedMode(mode.type))
  BY <1>2 DEF IsServerCycleStoppedMode
<1>4. decided' \in BOOLEAN /\ request' \in BOOLEAN
  BY <1>1, <1>2 DEF Types
<1>5. TypeOK'
  <2>1. Types'
    BY <1>1, <1>2, <1>3, <1>4 DEF Types
  <2> QED
    BY <2>1, TypesFacts, PTL
<1>6. OnItsWay' /\ Ages'
  BY <1>1, <1>2, <1>3 DEF OnItsWay, Ages
<1>7. Informed'
  BY <1>1, <1>2 DEF Informed, Knows, Patient, Heard, Parse
<1>8. Pressed'
  <2> SUFFICES ASSUME chances > 0, ~kicked
               PROVE  Pressed'
    BY <1>2 DEF Pressed
  <2>1. Routines' = Routines /\ Moves' = Moves /\ (Knows' <=> Knows)
    BY <1>2 DEF Routines, Moves, Knows, Parse
  <2>2. count <= elapsed - DropBallTime + 4 => count <= elapsed - DropBallTime + 5
    BY <1>1, Bounds DEF Types, MaxCount
  <2> QED
    BY <1>1, <1>2, <2>1, <2>2 DEF Pressed
<1> QED
  BY <1>5, <1>6, <1>7, <1>8 DEF Inv

LEMMA WaitInv ==
  ASSUME Inv, HearWaitRequest \/ Arrive \/ UNCHANGED vars
  PROVE  Inv'
<1>1. TypeOK /\ Types /\ OnItsWay /\ Ages /\ Informed /\ Pressed
  BY TypesFacts DEF Inv
<1>2. /\ last' = last /\ elapsed' = elapsed /\ moved' = moved
      /\ kicked' = kicked /\ shot' = shot /\ pc' = pc
      /\ mode' = mode /\ heardNow' = heardNow /\ startAge' = startAge /\ frozen' = frozen
      /\ count' = count /\ goalie' = goalie /\ lost' = lost /\ wire' = wire
      /\ turned' = turned /\ firstMove' = firstMove /\ decided' = decided
      /\ secondMove' = secondMove /\ secondWait' = secondWait /\ quiet' = quiet
      /\ chances' = chances
      /\ request' = request \/ request' = TRUE
      /\ atBall' = atBall \/ atBall' = TRUE
  BY DEF HearWaitRequest, Arrive, vars, server, heard, statics
<1>3. TypeOK'
  <2>2. request' \in BOOLEAN /\ atBall' \in BOOLEAN
    BY <1>1, <1>2, Zenon DEF Types
  <2>1. Types'
    BY <1>1, <1>2, <2>2 DEF Types
  <2> QED
    BY <2>1, TypesFacts, PTL
<1>4. OnItsWay' /\ Ages'
  BY <1>1, <1>2 DEF OnItsWay, Ages
<1>5. Informed'
  BY <1>1, <1>2 DEF Informed, Knows, Patient, Heard, Parse
<1>6. Pressed'
  <2>1. Routines' = Routines /\ Moves' = Moves /\ (Knows' <=> Knows)
    BY <1>2 DEF Routines, Moves, Knows, Parse
  <2> QED
    BY <1>1, <1>2, <2>1 DEF Pressed
<1> QED
  BY <1>3, <1>4, <1>5, <1>6 DEF Inv

-----------------------------------------------------------------------------
(* The kicker.                                                             *)

\* In a set play in which the cycle does not stand, the player that knows it
\* has one routine, and the kick is ours.
LEMMA RoutineFacts ==
  ASSUME Types, Knows, ~Stands(last[1]), NEW routine \in Routines
  PROVE  /\ Routines = {routine} /\ OurKick /\ ~IsServerCycleStoppedMode(mode.type)
         /\ routine \in {"kick_in", "free_kick", "goal_kick", "kick_off", "indirect", "catch"}
<1>1. /\ mode.type = PlayModeMap[last[1]] /\ mode.side = last[2]
      /\ ~IsServerCycleStoppedMode(mode.type)
  <2>1. last \in Lasts /\ mode = Heard(last)
    BY DEF Types, Knows, Heard
  <2> QED
    BY <2>1, LastFacts
<1>2. IsTeamsSetPlay(mode, Our)
  BY DEF Routines
<1>3. /\ mode.type \in {"KickOff_", "KickIn_", "CornerKick_", "GoalKick_", "FreeKick_",
                        "GoalieCatch_", "IndFreeKick_"}
      /\ mode.side = Our
  BY <1>1, <1>2 DEF IsTeamsSetPlay, IsServerCycleStoppedMode
<1>4. OurKick
  BY <1>1, <1>3 DEF OurKick
<1>5. goalie \in BOOLEAN
  BY DEF Types
<1>6. /\ Routines \in {{}, {"kick_in"}, {"free_kick"}, {"goal_kick"}, {"kick_off"},
                       {"indirect"}, {"catch"}}
  BY <1>2, <1>3, <1>5 DEF Routines
<1> QED
  BY <1>1, <1>4, <1>6

LEMMA KickFacts ==
  ASSUME Types, Kick \/ NoKick
  PROVE  /\ kicked' \in BOOLEAN /\ (kicked => kicked')
         /\ kicked' # kicked => Kick
         /\ Kick /\ OurKick /\ ~Stands(last[1]) => kicked'
BY DEF Kick, NoKick, Types, OurKick, Stands, IsServerCycleStoppedMode

\* A decision with one of the routines.
Plays(routine, see, stamina, excuse, turn) ==
  /\ turn => ~turned
  /\ Routine(routine, see, stamina, excuse, turn)

\* A decision that does not count: another's, a shot, or the chain action's.
Chains ==
  \E routine \in Routines, see, excuse, turn \in BOOLEAN, stamina \in {"low", "middle", "high"} :
    ChainAction(routine, count', see, stamina, excuse, turn)
Aside == Elsewhere \/ Shoot \/ Chains

LEMMA DecideFacts ==
  ASSUME Types, Decide
  PROVE  /\ pc = "act" /\ ~decided /\ decided' = TRUE
         /\ count' = IF request THEN 0 ELSE AtMost(count + 1, MaxCount)
         /\ count' \in 0 .. MaxCount /\ count' <= count + 1
         /\ quiet' = IF request THEN 0 ELSE AtMost(quiet + 1, 7)
         /\ quiet' \in 0 .. 7
         /\ UNCHANGED <<last, elapsed, moved, wire, lost, pc, mode, heardNow, startAge, frozen,
                        request, goalie>>
         /\ \/ Aside
            \/ \E routine \in Routines, see, excuse, turn \in BOOLEAN,
                  stamina \in {"low", "middle", "high"} :
                 Plays(routine, see, stamina, excuse, turn)
<1>1. count \in 0 .. 15 /\ quiet \in 0 .. 7
  BY DEF Types, MaxCount
<1>2. /\ count' = IF request THEN 0 ELSE AtMost(count + 1, MaxCount)
      /\ quiet' = IF request THEN 0 ELSE AtMost(quiet + 1, 7)
      /\ pc = "act" /\ ~decided /\ decided' = TRUE
      /\ UNCHANGED <<last, elapsed, moved, wire, lost, pc, heard, frozen, request, goalie>>
  BY DEF Decide, Counted
<1>3. count' \in 0 .. 15 /\ count' <= count + 1 /\ quiet' \in 0 .. 7
  BY <1>1, <1>2 DEF AtMost, MaxCount
<1>4. \/ Aside
      \/ \E routine \in Routines, see, excuse, turn \in BOOLEAN,
            stamina \in {"low", "middle", "high"} :
           Plays(routine, see, stamina, excuse, turn)
  BY DEF Decide, Aside, Chains, Plays
<1> QED
  BY <1>2, <1>3, <1>4 DEF heard, MaxCount

\* A decision that does not count leaves the moves, and begins another count.
LEMMA AsideFacts ==
  ASSUME Types, Aside
  PROVE  /\ kicked' \in BOOLEAN /\ (kicked => kicked')
         /\ turned' = FALSE /\ chances' = 0 /\ statics' = statics
         /\ shot' \in BOOLEAN /\ atBall' \in BOOLEAN
<1>1. CASE Elsewhere
  BY <1>1 DEF Elsewhere, Types
<1>2. CASE Shoot
  <2>1. /\ Kick /\ shot' = kicked' /\ turned' = FALSE /\ chances' = 0
        /\ atBall' = atBall /\ statics' = statics
    BY <1>2 DEF Shoot
  <2>2. kicked' \in BOOLEAN /\ (kicked => kicked')
    BY <2>1, KickFacts
  <2>3. shot' \in BOOLEAN
    BY <2>1, <2>2, Zenon
  <2> QED
    BY <2>1, <2>2, <2>3 DEF Types
<1>3. CASE Chains
  <2>1. /\ Kick \/ NoKick
        /\ turned' = FALSE /\ chances' = 0 /\ atBall' \in BOOLEAN
        /\ shot' = shot /\ statics' = statics
    BY <1>3 DEF Chains, ChainAction
  <2>2. kicked' \in BOOLEAN /\ (kicked => kicked')
    BY <2>1, KickFacts
  <2> QED
    BY <2>1, <2>2 DEF Types
<1> QED
  BY <1>1, <1>2, <1>3 DEF Aside

\* Whatever a routine does, it kicks or does not, and its statics stay counts.
LEMMA PlaysFacts ==
  ASSUME Types, NEW routine, NEW see, NEW stamina, NEW excuse, NEW turn \in BOOLEAN,
         Plays(routine, see, stamina, excuse, turn)
  PROVE  /\ Kick \/ NoKick
         /\ turned' \in BOOLEAN
         /\ firstMove' \in BOOLEAN /\ secondMove' \in BOOLEAN /\ secondWait' \in 0 .. 5
         /\ chances' \in 0 .. 7
         /\ shot' \in BOOLEAN /\ atBall' \in BOOLEAN
<1>0. shot' \in BOOLEAN /\ atBall' \in BOOLEAN
  BY DEF Plays, Routine, Types
<1>1. CASE routine = "catch"
  <2>1. Catch(count', see, stamina, excuse)
    BY <1>1 DEF Plays, Routine
  <2>2. (Kick \/ NoKick) /\ turned' = turned
    BY <2>1 DEF Catch
  <2>3. /\ firstMove' \in BOOLEAN /\ secondMove' \in BOOLEAN
        /\ secondWait' \in {0, secondWait, AtMost(secondWait + 1, 5)}
    BY <2>1 DEF Catch, Types, statics
  <2>4. secondWait' \in 0 .. 5
    BY <2>3 DEF Types, AtMost
  <2>5. turned' \in BOOLEAN
    BY <2>2 DEF Types
  <2>6. chances' \in 0 .. 7
    BY DEF Plays, Routine, AtMost, Types
  <2> QED
    BY <1>0, <2>2, <2>3, <2>4, <2>5, <2>6
<1>2. CASE routine # "catch"
  <2>1. Field(routine, count', see, stamina, excuse, turn)
    BY <1>2 DEF Plays, Routine
  <2>2. (Kick \/ NoKick) /\ statics' = statics
    BY <2>1 DEF Field
  <2>3. turned' = turn \/ turned' = turned \/ turned' = TRUE \/ turned' = FALSE
    BY <2>1 DEF Field
  <2>4. turned' \in BOOLEAN
    BY <2>3 DEF Types
  <2>5. firstMove' \in BOOLEAN /\ secondMove' \in BOOLEAN /\ secondWait' \in 0 .. 5
    BY <2>2 DEF statics, Types
  <2>6. chances' \in 0 .. 7
    BY DEF Plays, Routine, AtMost, Types
  <2> QED
    BY <1>0, <2>2, <2>4, <2>5, <2>6
<1> QED
  BY <1>1, <1>2

\* With nothing left to wait for, a player at the ball kicks or turns, and turns
\* only once.
LEMMA FieldPressed ==
  ASSUME Types, Ages, Knows, ~Stands(last[1]), pc = "act", count' \in 0 .. MaxCount,
         NEW routine \in Routines \ {"catch"},
         NEW see, NEW stamina, NEW excuse, NEW turn \in BOOLEAN, turn => ~turned,
         Field(routine, count', see, stamina, excuse, turn),
         NothingToWaitFor(routine, see), ~kicked'
  PROVE  /\ routine \in {"kick_in", "free_kick", "indirect"}
         /\ ~turned /\ turned'
         /\ routine = "indirect" => count' > 10
<1> USE Bounds
<1>1. /\ Routines = {routine} /\ OurKick /\ ~IsServerCycleStoppedMode(mode.type)
      /\ routine \in {"kick_in", "free_kick", "goal_kick", "kick_off", "indirect"}
  BY RoutineFacts
<1>2. ~frozen /\ elapsed \in Nat /\ startAge \in Nat /\ elapsed <= startAge /\ count' \in Nat
  BY <1>1 DEF Ages, Types, MaxCount
<1>3. ~Kick
  BY <1>1 DEF Kick, Stands, IsServerCycleStoppedMode
<1>4. CASE routine \in {"kick_in", "free_kick", "kick_off"}
  <2>1. startAge >= DropBallTime - 5
    <3>1. elapsed >= DropBallTime - 5
      BY <1>4 DEF NothingToWaitFor
    <3> QED
      BY <1>2, <3>1
  <2>2. /\ ~KickInWaits(count', see, stamina, excuse)
        /\ ~FreeKickWaits(count', see, stamina, excuse, turn)
        /\ ~KickOffWaits(see, stamina, excuse, turn)
    BY <1>2, <2>1 DEF KickInWaits, FreeKickWaits, KickOffWaits
  <2>3. ~FieldWaits(routine, count', see, stamina, excuse, turn)
    BY <1>4, <2>2 DEF FieldWaits
  <2>4. routine \in {"kick_in", "free_kick"} /\ ~turned /\ turned' = TRUE
    BY <1>3, <1>4, <2>3 DEF Field
  <2> QED
    BY <2>4
<1>5. CASE routine = "goal_kick"
  <2>1. startAge > DropBallTime - 10
    <3>1. elapsed > DropBallTime - 10
      BY <1>5 DEF NothingToWaitFor
    <3> QED
      BY <1>2, <3>1
  <2>2. ~GoalKickWaits(count', see, stamina, excuse, turn) /\ ~(startAge <= DropBallTime - 10)
    BY <1>2, <2>1 DEF GoalKickWaits
  <2>3. ~FieldWaits(routine, count', see, stamina, excuse, turn)
    BY <1>5, <2>2 DEF FieldWaits
  <2> QED
    BY <1>3, <1>5, <2>2, <2>3 DEF Field
<1>6. CASE routine = "indirect"
  <2>1. startAge > DropBallTime - 3 /\ count' > 10
    <3>1. elapsed > DropBallTime - 3 /\ count' > 10
      BY <1>6 DEF NothingToWaitFor
    <3> QED
      BY <1>2, <3>1
  <2>2. ~(count' <= 10) /\ ~(count' <= 3) /\ ~(startAge <= DropBallTime - 3)
    BY <1>2, <2>1
  <2>3. IndirectWaits(count', excuse, turn) => turn
    BY <1>2, <2>2 DEF IndirectWaits
  <2>4. FieldWaits(routine, count', see, stamina, excuse, turn) => turn
    BY <1>6, <2>3 DEF FieldWaits
  <2>5. turned' = turn /\ turn
    BY <1>3, <1>6, <2>2, <2>4 DEF Field
  <2> QED
    BY <1>6, <2>1, <2>5
<1> QED
  BY <1>1, <1>4, <1>5, <1>6

\* The goalie's moves only go on once it has held the ball; with nothing left
\* to wait for they do.
LEMMA CatchPressed ==
  ASSUME Types, Knows, ~Stands(last[1]), count' \in 0 .. MaxCount,
         Routines = {"catch"}, NEW see, NEW stamina, NEW excuse,
         Catch(count', see, stamina, excuse),
         elapsed > DropBallTime - 17, ~kicked'
  PROVE  /\ Moves' >= Moves /\ Moves \in Nat /\ Moves' \in Nat
         /\ NothingToWaitFor("catch", see) => Moves' = Moves + 1
<1> USE Bounds
<1>1. OurKick /\ elapsed \in Nat /\ secondWait \in 0 .. 5 /\ count' \in Nat
      /\ firstMove \in BOOLEAN /\ secondMove \in BOOLEAN
  <2>1. "catch" \in Routines
    OBVIOUS
  <2> QED
    BY <2>1, RoutineFacts DEF Types, MaxCount
<1>2. ~Kick
  BY <1>1 DEF Kick, Stands, IsServerCycleStoppedMode
<1>3. /\ ~(elapsed + 1 <= 2) /\ ~(elapsed + 1 < GoalieHold) /\ ~(elapsed + 1 < DropBallTime - 15)
  BY <1>1
<1>4. NothingToWaitFor("catch", see) => ~(count' < 3) /\ see
  BY <1>1 DEF NothingToWaitFor
<1>5. \/ /\ ~firstMove /\ firstMove' = TRUE /\ secondMove' = FALSE /\ secondWait' = 0
      \/ /\ firstMove /\ (NothingToWaitFor("catch", see) => FALSE)
         /\ UNCHANGED statics
      \/ /\ firstMove /\ ~secondMove
         /\ secondMove' = TRUE /\ secondWait' = 0 /\ firstMove' = firstMove
      \/ /\ firstMove /\ secondMove /\ (secondWait + 1 < 5 \/ ~see)
         /\ secondWait' = AtMost(secondWait + 1, 5) /\ UNCHANGED <<firstMove, secondMove>>
  BY <1>2, <1>3, <1>4 DEF Catch
<1>6. Moves = IF ~firstMove THEN 0 ELSE IF ~secondMove THEN 1
              ELSE 2 + (IF secondWait < 4 THEN secondWait ELSE 4)
  BY DEF Moves, AtMost
<1>7. Moves' = IF ~firstMove' THEN 0 ELSE IF ~secondMove' THEN 1
               ELSE 2 + (IF secondWait' < 4 THEN secondWait' ELSE 4)
  BY DEF Moves, AtMost
<1>8. CASE ~firstMove /\ firstMove' = TRUE /\ secondMove' = FALSE /\ secondWait' = 0
  BY <1>6, <1>7, <1>8
<1>9. CASE firstMove /\ (NothingToWaitFor("catch", see) => FALSE) /\ UNCHANGED statics
  BY <1>1, <1>6, <1>7, <1>9 DEF statics
<1>10. CASE /\ firstMove /\ ~secondMove
            /\ secondMove' = TRUE /\ secondWait' = 0 /\ firstMove' = firstMove
  BY <1>6, <1>7, <1>10
<1>11. CASE /\ firstMove /\ secondMove /\ (secondWait + 1 < 5 \/ ~see)
            /\ secondWait' = AtMost(secondWait + 1, 5) /\ UNCHANGED <<firstMove, secondMove>>
  <2>1. /\ Moves = 2 + (IF secondWait < 4 THEN secondWait ELSE 4)
        /\ Moves' = 2 + (IF secondWait' < 4 THEN secondWait' ELSE 4)
    BY <1>6, <1>7, <1>11
  <2>2. /\ secondWait' = IF secondWait + 1 < 5 THEN secondWait + 1 ELSE 5
        /\ NothingToWaitFor("catch", see) => secondWait + 1 < 5
    BY <1>4, <1>11 DEF AtMost
  <2> QED
    BY <1>1, <2>1, <2>2
<1> QED
  BY <1>5, <1>8, <1>9, <1>10, <1>11

LEMMA DecideInv ==
  ASSUME Inv, Decide
  PROVE  Inv'
<1> USE Bounds
<1>1. TypeOK /\ Types /\ OnItsWay /\ Ages /\ Informed /\ Pressed
  BY TypesFacts DEF Inv
<1>2. /\ pc = "act" /\ ~decided /\ decided' = TRUE
      /\ count' = IF request THEN 0 ELSE AtMost(count + 1, MaxCount)
      /\ count' \in 0 .. MaxCount /\ count' <= count + 1
      /\ quiet' = IF request THEN 0 ELSE AtMost(quiet + 1, 7)
      /\ quiet' \in 0 .. 7
      /\ UNCHANGED <<last, elapsed, moved, wire, lost, pc, mode, heardNow, startAge, frozen,
                     request, goalie>>
      /\ \/ Aside
         \/ \E routine \in Routines, see, excuse, turn \in BOOLEAN,
               stamina \in {"low", "middle", "high"} :
              Plays(routine, see, stamina, excuse, turn)
  BY <1>1, DecideFacts
<1>3. /\ elapsed \in Nat /\ count \in Nat /\ count' \in Nat /\ chances \in 0 .. 7
      /\ elapsed <= DropBallTime /\ count <= 15
  BY <1>1, <1>2 DEF Types, MaxCount
<1>4. /\ kicked' \in BOOLEAN /\ (kicked => kicked') /\ turned' \in BOOLEAN
      /\ firstMove' \in BOOLEAN /\ secondMove' \in BOOLEAN /\ secondWait' \in 0 .. 5
      /\ chances' \in 0 .. 7 /\ shot' \in BOOLEAN /\ atBall' \in BOOLEAN
  <2>1. CASE Aside
    <3>1. /\ kicked' \in BOOLEAN /\ (kicked => kicked') /\ turned' = FALSE /\ chances' = 0
          /\ statics' = statics /\ shot' \in BOOLEAN /\ atBall' \in BOOLEAN
      BY <1>1, <2>1, AsideFacts
    <3>2. turned' \in BOOLEAN
      BY <3>1, Zenon
    <3>3. /\ firstMove' \in BOOLEAN /\ secondMove' \in BOOLEAN /\ secondWait' \in 0 .. 5
          /\ chances' \in 0 .. 7
      BY <1>1, <3>1 DEF statics, Types
    <3> QED
      BY <3>1, <3>2, <3>3
  <2>2. CASE ~Aside
    BY <1>1, <1>2, <2>2, PlaysFacts, KickFacts
  <2> QED
    BY <2>1, <2>2
<1>5. TypeOK'
  <2>1. Types'
    BY <1>1, <1>2, <1>4 DEF Types
  <2> QED
    BY <2>1, TypesFacts, PTL
<1>6. OnItsWay' /\ Ages'
  BY <1>1, <1>2 DEF OnItsWay, Ages
<1>7. wire = << >>
  BY <1>1, <1>2 DEF OnItsWay
<1>8. Informed'
  <2> SUFFICES ASSUME lost = 0
               PROVE  Knows' /\ (last # PlayOn => startAge' = elapsed') /\ Patient'
    BY <1>2, <1>7 DEF Informed
  <2>1. Knows /\ (last # PlayOn => startAge = elapsed) /\ Patient
    BY <1>1, <1>7, WireFacts DEF Informed
  <2>2. AtMost(count, 7) <= quiet => AtMost(count', 7) <= quiet'
    <3>1. quiet \in 0 .. 7 /\ count \in 0 .. 15
      BY <1>1 DEF Types, MaxCount
    <3> QED
      BY <1>2, <3>1 DEF AtMost, MaxCount
  <2> QED
    BY <1>2, <2>1, <2>2 DEF Knows, Parse, Patient
<1>9. Pressed'
  <2> SUFFICES ASSUME chances' > 0, ~kicked'
               PROVE  Pressed'
    BY DEF Pressed
  <2>1. ~kicked /\ Routines' = Routines /\ (Knows' <=> Knows)
    BY <1>2, <1>4 DEF Routines, Knows, Parse
  <2>2. SUFFICES /\ Knows
                 /\ \/ /\ Routines \in {{"kick_in"}, {"free_kick"}}
                       /\ chances' = 1 /\ turned' /\ elapsed >= DropBallTime - 5
                    \/ /\ Routines = {"indirect"}
                       /\ chances' = 1 /\ elapsed > DropBallTime - 3
                       /\ (turned' /\ count' > 10) \/ count' <= elapsed - DropBallTime + 5
                    \/ /\ Routines = {"catch"}
                       /\ chances' <= Moves' /\ elapsed > DropBallTime - 17
    BY <1>2, <1>7, <2>1, <2>2 DEF Pressed
  <2>3. ASSUME chances > 0
        PROVE  /\ Knows /\ elapsed > 0
               /\ \/ /\ Routines \in {{"kick_in"}, {"free_kick"}}
                     /\ chances = 1 /\ turned /\ elapsed >= DropBallTime - 5
                  \/ /\ Routines = {"indirect"}
                     /\ chances = 1 /\ elapsed > DropBallTime - 3
                     /\ (turned /\ count > 10) \/ count <= elapsed - DropBallTime + 4
                  \/ /\ Routines = {"catch"}
                     /\ chances <= Moves /\ elapsed > DropBallTime - 17
    <3>1. /\ Knows
          /\ \/ /\ Routines \in {{"kick_in"}, {"free_kick"}}
                /\ chances = 1 /\ turned /\ elapsed >= DropBallTime - 5
             \/ /\ Routines = {"indirect"}
                /\ chances = 1 /\ elapsed > DropBallTime - 3
                /\ (turned /\ count > 10) \/ count <= elapsed - DropBallTime + 4
             \/ /\ Routines = {"catch"}
                /\ chances <= Moves /\ elapsed > DropBallTime - 17
      BY <1>1, <1>2, <2>1, <2>3 DEF Pressed
    <3> QED
      BY <1>3, <3>1
  <2>4. ASSUME elapsed > DropBallTime - 3
        PROVE  /\ count > 10 /\ ~request => count' > 10
               /\ request \/ count <= elapsed - DropBallTime + 4
                    => count' <= elapsed - DropBallTime + 5
    BY <1>2, <1>3, <2>4 DEF AtMost, MaxCount
  <2>5. ~Aside
    <3>1. Aside => chances' = 0
      BY <1>1, AsideFacts, Zenon
    <3>2. chances' # 0
      OBVIOUS
    <3> QED
      BY <3>1, <3>2, Zenon
  <2>6. ASSUME NEW routine \in Routines, NEW see \in BOOLEAN, NEW excuse \in BOOLEAN,
               NEW turn \in BOOLEAN, NEW stamina \in {"low", "middle", "high"},
               Plays(routine, see, stamina, excuse, turn)
        PROVE  /\ Knows
               /\ \/ /\ Routines \in {{"kick_in"}, {"free_kick"}}
                     /\ chances' = 1 /\ turned' /\ elapsed >= DropBallTime - 5
                  \/ /\ Routines = {"indirect"}
                     /\ chances' = 1 /\ elapsed > DropBallTime - 3
                     /\ (turned' /\ count' > 10) \/ count' <= elapsed - DropBallTime + 5
                  \/ /\ Routines = {"catch"}
                     /\ chances' <= Moves' /\ elapsed > DropBallTime - 17
    <3>1. /\ turn => ~turned
          /\ IF routine = "catch" THEN Catch(count', see, stamina, excuse)
             ELSE Field(routine, count', see, stamina, excuse, turn)
          /\ chances' = IF Knows /\ NothingToWaitFor(routine, see) THEN AtMost(chances + 1, 7)
                        ELSE chances
      BY <2>6 DEF Plays, Routine
    <3>2. CASE ~(Knows /\ NothingToWaitFor(routine, see))
      <4>1. chances' = chances /\ chances > 0 /\ Knows /\ ~NothingToWaitFor(routine, see)
        BY <2>3, <3>1, <3>2
      <4>2. ~Stands(last[1])
        BY <1>1, <2>3, <4>1 DEF Ages
      <4>3. CASE Routines \in {{"kick_in"}, {"free_kick"}}
        <5>1. routine \in {"kick_in", "free_kick"}
          BY <4>3
        <5>2. elapsed >= DropBallTime - 5
          BY <2>3, <4>1, <4>3
        <5> QED
          BY <4>1, <5>1, <5>2 DEF NothingToWaitFor
      <4>4. CASE Routines = {"indirect"}
        <5>1. routine = "indirect"
          BY <4>4
        <5>2. /\ elapsed > DropBallTime - 3 /\ chances = 1
              /\ (turned /\ count > 10) \/ count <= elapsed - DropBallTime + 4
          BY <2>3, <4>1, <4>4
        <5>3. ~(count' > 10)
          BY <4>1, <5>1, <5>2 DEF NothingToWaitFor
        <5> QED
          BY <2>4, <4>1, <4>4, <5>2, <5>3
      <4>5. CASE Routines = {"catch"}
        <5>1. routine = "catch" /\ chances <= Moves /\ elapsed > DropBallTime - 17
          BY <2>3, <4>1, <4>5
        <5>2. Catch(count', see, stamina, excuse)
          BY <3>1, <5>1
        <5>3. Moves' >= Moves /\ Moves \in Nat /\ Moves' \in Nat
          BY <1>1, <1>2, <4>1, <4>2, <4>5, <5>1, <5>2, CatchPressed
        <5> QED
          BY <1>3, <4>1, <4>5, <5>1, <5>3
      <4> QED
        BY <2>3, <4>1, <4>3, <4>4, <4>5
    <3>3. CASE Knows /\ NothingToWaitFor(routine, see)
      <4>1. chances' = AtMost(chances + 1, 7) /\ chances' <= chances + 1
            /\ (chances = 0 => chances' = 1)
        BY <1>3, <3>1, <3>3 DEF AtMost
      <4>2. /\ routine = "catch" => elapsed > DropBallTime - 17
            /\ routine = "indirect" => elapsed > DropBallTime - 3
            /\ routine = "goal_kick" => elapsed > DropBallTime - 10
            /\ routine \notin {"catch", "indirect", "goal_kick"} => elapsed >= DropBallTime - 5
        BY <3>3 DEF NothingToWaitFor
      <4>3. ~Stands(last[1])
        <5>1. elapsed > 0
          BY <1>3, <4>2
        <5> QED
          BY <1>1, <5>1 DEF Ages
      <4>4. Routines = {routine}
        BY <1>1, <3>3, <4>3, RoutineFacts
      <4>5. CASE routine = "catch"
        <5>1. /\ Moves' = Moves + 1 /\ Moves \in Nat
          BY <1>1, <1>2, <3>1, <3>3, <4>2, <4>3, <4>4, <4>5, CatchPressed
        <5>2. chances <= Moves
          <6>1. chances > 0 => chances <= Moves
            BY <2>3, <4>4, <4>5
          <6> QED
            BY <1>3, <5>1, <6>1
        <5>3. chances' <= Moves'
          BY <1>3, <1>4, <4>1, <5>1, <5>2
        <5> QED
          BY <3>3, <4>2, <4>4, <4>5, <5>3
      <4>6. CASE routine # "catch"
        <5>1. /\ routine \in {"kick_in", "free_kick", "indirect"}
              /\ ~turned /\ turned'
              /\ routine = "indirect" => count' > 10
          BY <1>1, <1>2, <3>1, <3>3, <4>3, <4>6, FieldPressed
        <5>2. chances = 0
          <6> SUFFICES ASSUME chances > 0 PROVE FALSE
            BY <1>3
          <6>1. /\ Routines = {"indirect"} /\ elapsed > DropBallTime - 3
                /\ count <= elapsed - DropBallTime + 4
            BY <2>3, <4>4, <5>1
          <6>2. count' <= elapsed - DropBallTime + 5 /\ routine = "indirect"
            BY <2>4, <4>4, <6>1
          <6> QED
            BY <1>3, <5>1, <6>2
        <5> QED
          BY <3>3, <4>1, <4>2, <4>4, <5>1, <5>2
      <4> QED
        BY <4>5, <4>6
    <3> QED
      BY <3>2, <3>3
  <2> QED
    BY <1>2, <2>5, <2>6
<1> QED
  BY <1>5, <1>6, <1>8, <1>9 DEF Inv

-----------------------------------------------------------------------------
(* The invariant.                                                          *)

LEMMA InitInv ==
  ASSUME Init
  PROVE  Inv
<1> USE Bounds
<1>1. /\ last = PlayOn /\ elapsed = 0 /\ moved = TRUE /\ kicked = FALSE /\ shot = FALSE
      /\ wire = << >> /\ lost = 0 /\ pc = "act"
      /\ mode = [type |-> "PlayOn", side |-> "neutral"]
      /\ heardNow = FALSE /\ frozen = FALSE
      /\ startAge = DropBallTime /\ count = 15
      /\ request = FALSE /\ decided = FALSE /\ goalie \in BOOLEAN
      /\ atBall = FALSE /\ turned = FALSE
      /\ firstMove = FALSE /\ secondMove = FALSE /\ secondWait = 0
      /\ quiet = 0 /\ chances = 0
  BY DEF Init, MaxCount
<1>2. Heard(PlayOn) = mode /\ mode \in Modes /\ last \in Lasts /\ ~Stands(last[1])
  <2>1. PlayOn[1] = "play_on" /\ PlayOn[2] = "neutral"
    BY DEF PlayOn
  <2> QED
    BY <1>1, <2>1, LastFacts, WireFacts, TypesOf DEF Standing
<1>3. TypeOK
  <2>1. /\ elapsed \in 0 .. DropBallTime /\ lost \in 0 .. MaxLost /\ Len(wire) <= 2
        /\ startAge \in 0 .. DropBallTime /\ count \in 0 .. 15 /\ secondWait \in 0 .. 5
        /\ quiet \in 0 .. 7 /\ chances \in 0 .. 7
    BY <1>1, WireFacts
  <2>2. /\ moved \in BOOLEAN /\ kicked \in BOOLEAN /\ shot \in BOOLEAN /\ pc \in {"hear", "act"}
        /\ heardNow \in BOOLEAN /\ frozen \in BOOLEAN /\ request \in BOOLEAN
        /\ decided \in BOOLEAN /\ atBall \in BOOLEAN /\ turned \in BOOLEAN
        /\ firstMove \in BOOLEAN /\ secondMove \in BOOLEAN
    BY <1>1, Zenon
  <2> QED
    BY <1>1, <1>2, <2>1, <2>2, TypesFacts DEF Types, MaxCount
<1>4. OnItsWay /\ Ages /\ Pressed
  BY <1>1, <1>2 DEF OnItsWay, Ages, Pressed
<1>5. Informed
  <2>1. Knows
    BY <1>1, <1>2 DEF Knows, Heard
  <2> QED
    BY <1>1, <2>1 DEF Informed, Patient
<1> QED
  BY <1>3, <1>4, <1>5 DEF Inv

LEMMA NextInv ==
  ASSUME Inv, [Next]_vars
  PROVE  Inv'
BY NextCycleInv, LoseInv, HearRefereeInv, SenseInv, WaitInv, DecideInv DEF Next

LEMMA SpecInv == Spec => []Inv
<1>1. Init => Inv
  BY InitInv
<1>2. Inv /\ [Next]_vars => Inv'
  BY NextInv
<1> QED
  BY <1>1, <1>2, PTL DEF Spec

-----------------------------------------------------------------------------
(* What the player knows and when it kicks.                                *)

\* Every variable stays in its type: a set play's count and its age are never
\* negative, and the server waits no longer than DropBallTime.
THEOREM TypeCorrect == Spec => []TypeOK
<1>1. Inv => TypeOK
  BY DEF Inv
<1> QED
  BY <1>1, SpecInv, PTL

\* If no referee's message was lost, the player knows the server's play mode
\* when it decides, a caught ball from the free kick that is announced with it,
\* and measures the set play from the same cycle as the server.
THEOREM SetPlayKnown == Spec => []KnowsSetPlay
<1>1. Inv => KnowsSetPlay
  BY WireFacts DEF Inv, KnowsSetPlay, OnItsWay, Informed
<1> QED
  BY <1>1, SpecInv, PTL

\* The waits of our set plays end before the server drops the ball: when its
\* time runs out, the routine of a player at the ball that knows the set play
\* kicks in the decisions it needs, whatever was lost, asked for or seen, unless
\* the chain action takes the ball or the decision is another's in between.
THEOREM WaitsEnded == Spec => []WaitsEnd
<1>1. Inv => WaitsEnd
  <2> SUFFICES ASSUME Inv, Knows, Routines # {}, ~kicked
               PROVE  chances < Needed(Routines)
    BY DEF WaitsEnd
  <2>1. Types /\ Pressed
    BY TypesFacts DEF Inv
  <2>2. chances \in 0 .. 7 /\ Moves \in 0 .. 6
    <3>1. secondWait \in 0 .. 5
      BY <2>1 DEF Types
    <3> QED
      BY <2>1, <3>1 DEF Types, Moves, AtMost
  <2>3. CASE chances = 0
    BY <2>3 DEF Needed
  <2>4. CASE chances > 0
    <3>1. \/ Routines \in {{"kick_in"}, {"free_kick"}, {"indirect"}} /\ chances = 1
          \/ Routines = {"catch"} /\ chances <= Moves
      BY <2>1, <2>4 DEF Pressed
    <3>2. /\ Needed({"catch"}) = 7
          /\ \A R \in {{"kick_in"}, {"free_kick"}, {"indirect"}} : Needed(R) = 2
      BY DEF Needed
    <3> QED
      BY <2>2, <3>1, <3>2
  <2> QED
    BY <2>2, <2>3, <2>4
<1> QED
  BY <1>1, SpecInv, PTL

\* If no referee's message was lost, a kick comes only after the team has had
\* four decisions (seven at a goal kick) since the set play was announced and
\* since the last wait request, until the time runs out.  A shot at their goal
\* waits for nobody.
THEOREM TeamReady == Spec => WaitsForTeam
<1> USE Bounds
<1>1. Inv /\ [Next]_vars =>
        [kicked' /\ ~kicked /\ ~shot' /\ lost = 0 /\ elapsed < DropBallTime - 10 =>
           CASE last[1] = "goal_kick" -> quiet' > 6
             [] last[1] \in {"kick_in", "corner_kick"} -> quiet' > 3
             [] last[1] = "free_kick" /\ ~goalie -> quiet' > 3
             [] OTHER -> TRUE]_vars
  <2> SUFFICES ASSUME Inv, [Next]_vars, kicked', ~kicked, ~shot', lost = 0,
                      elapsed < DropBallTime - 10
               PROVE  /\ last[1] = "goal_kick" => quiet' > 6
                      /\ last[1] \in {"kick_in", "corner_kick"} => quiet' > 3
                      /\ last[1] = "free_kick" /\ ~goalie => quiet' > 3
    OBVIOUS
  <2>1. Types /\ Inv' /\ OnItsWay
    BY TypesFacts, NextInv DEF Inv
  <2>2. Decide
    <3>1. NextCycle => ~kicked'
      BY NextFacts DEF Inv, SaysNothing, Says
    <3>2. Lose \/ HearReferee \/ Sense \/ HearWaitRequest \/ Arrive \/ UNCHANGED vars
            => kicked' = kicked
      BY DEF Lose, HearReferee, Sense, HearWaitRequest, Arrive, vars, server
    <3> QED
      BY <3>1, <3>2 DEF Next
  <2>3. /\ pc = "act" /\ wire = << >> /\ count' \in 0 .. 15 /\ quiet' \in 0 .. 7
        /\ last' = last /\ wire' = wire /\ lost' = lost
    BY <2>1, <2>2, DecideFacts DEF OnItsWay, MaxCount
  <2>4. Knows /\ (last # PlayOn => startAge = elapsed)
    BY <2>3, WireFacts DEF Inv, Informed
  <2>5. last = PlayOn \/ AtMost(count', 7) <= quiet'
    <3>1. Patient'
      BY <2>1, <2>3, WireFacts DEF Inv, Informed
    <3> QED
      BY <2>3, <3>1 DEF Patient
  <2>6. \A k \in {3, 6} : last # PlayOn /\ ~(count' <= k) => quiet' > k
    BY <2>3, <2>5 DEF AtMost
  <2>7. PICK routine \in Routines, see \in BOOLEAN, excuse \in BOOLEAN, turn \in BOOLEAN,
             stamina \in {"low", "middle", "high"} :
          \/ Plays(routine, see, stamina, excuse, turn)
          \/ ChainAction(routine, count', see, stamina, excuse, turn)
    <3>1. ~Elsewhere
      BY DEF Elsewhere
    <3>2. ~Shoot
      BY DEF Shoot
    <3> QED
      BY <2>1, <2>2, <3>1, <3>2, DecideFacts DEF Aside, Chains
  <2>8. routine # "catch" => ~FieldWaits(routine, count', see, stamina, excuse, turn)
    BY <2>7 DEF Plays, Routine, Field, ChainAction, NoKick
  <2>9. elapsed \in Nat /\ goalie \in BOOLEAN /\ last \in Lasts /\ PlayOn[1] = "play_on"
    BY <2>1 DEF Types, PlayOn
  <2>10. mode.type = PlayModeMap[last[1]]
    BY <2>4, <2>9, LastFacts DEF Knows, Heard
  <2>11. ASSUME last[1] = "goal_kick" PROVE quiet' > 6
    <3>1. routine = "goal_kick"
      BY <2>9, <2>10, <2>11, TypesOf DEF Routines
    <3>2. ~GoalKickWaits(count', see, stamina, excuse, turn)
      BY <2>8, <3>1 DEF FieldWaits
    <3>3. last # PlayOn
      BY <2>9, <2>11
    <3>4. ~(count' <= 6)
      BY <2>4, <3>2, <3>3 DEF GoalKickWaits
    <3> QED
      BY <2>6, <3>3, <3>4
  <2>12. ASSUME last[1] \in {"kick_in", "corner_kick"} PROVE quiet' > 3
    <3>1. routine = "kick_in"
      BY <2>9, <2>10, <2>12, TypesOf DEF Routines
    <3>2. ~KickInWaits(count', see, stamina, excuse)
      BY <2>8, <3>1 DEF FieldWaits
    <3>3. last # PlayOn
      BY <2>9, <2>12
    <3>4. ~(count' <= 3)
      BY <2>4, <2>9, <3>2, <3>3 DEF KickInWaits
    <3> QED
      BY <2>6, <3>3, <3>4
  <2>13. ASSUME last[1] = "free_kick", ~goalie PROVE quiet' > 3
    <3>1. routine = "free_kick"
      BY <2>9, <2>10, <2>13, TypesOf DEF Routines
    <3>2. ~FreeKickWaits(count', see, stamina, excuse, turn)
      BY <2>8, <3>1 DEF FieldWaits
    <3>3. last # PlayOn
      BY <2>9, <2>13
    <3>4. ~(count' <= 3)
      BY <2>4, <2>9, <3>2, <3>3 DEF FreeKickWaits
    <3> QED
      BY <2>6, <3>3, <3>4
  <2> QED
    BY <2>11, <2>12, <2>13
<1> QED
  BY <1>1, SpecInv, PTL DEF Spec, WaitsForTeam
=============================================================================
