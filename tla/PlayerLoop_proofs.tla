-------------------------- MODULE PlayerLoop_proofs --------------------------
(***************************************************************************)
(* Theorems about PlayerLoop: when the player decides, and on what it      *)
(* knows, for every number of steps and of faults.                         *)
(***************************************************************************)
EXTENDS PlayerLoop, SequenceTheorems, TLAPS

\* The player's clock agrees with the cycle c: a see of it would not move it.
Settled(stopped, t, c) == IF stopped THEN t[1] = c ELSE t = <<c, 0>>

\* Messages come in the order of the steps, each with the cycle of its step,
\* and a step that moves the cycle has one of its own.
Arrivals ==
  \A i \in 1 .. Len(inbox) :
    /\ 1 <= inbox[i].step /\ inbox[i].step <= step /\ heardStep <= inbox[i].step
    /\ inbox[i].cycle <= cycle
    /\ inbox[i].step = step => inbox[i].cycle = cycle
    /\ inbox[i].step < step /\ moved => inbox[i].cycle < cycle
    /\ \A j \in 1 .. i : /\ inbox[j].step <= inbox[i].step
                         /\ inbox[j].step = inbox[i].step => inbox[j].cycle = inbox[i].cycle
    /\ inbox[i].type = "init" =>
         i = 1 /\ heardStep = 0 /\ inbox[i].step = 1 /\ inbox[i].cycle = 0
    /\ inbox[i].type = "think" => synchMode

\* What the player knows and has decided is not newer than what it has heard,
\* and a decision in a step that moved the cycle is told by its time.
Clock ==
  /\ 1 <= step /\ heardStep <= step /\ decidedStep <= heardStep /\ midStep <= step
  /\ lastStop <= step
  /\ 0 <= time[1] /\ time[1] <= cycle /\ lastDecision[1] <= cycle
  /\ heardStep = 0 => time = <<0, 0>> /\ inbox # << >> /\ inbox[1].type = "init"
  /\ heardStep > 0 => joined
  /\ step = 1 => cycle = 0 /\ ~moved
  /\ senseTime = NoTime => time[2] = 0
  /\ heardStep < step /\ moved => time[1] < cycle
  /\ decidedStep < step /\ moved => lastDecision[1] < cycle
  /\ ~synchMode /\ heardStep = step => time[1] = cycle
  /\ think => pc = "drain" /\ synchMode

\* In synch_mode the player is never behind, and decides once for each (think).
Synched ==
  synchMode =>
    /\ decisions < 2
    /\ \A i \in 1 .. Len(inbox) : inbox[i].step = step
    /\ pc = "drain" => heardStep = step
    /\ ~thought \/ think => decidedStep < step
    /\ \A i \in 1 .. Len(inbox) : inbox[i].type = "think" =>
         /\ thought /\ ~think /\ decidedStep < step
         /\ \A j \in 1 .. Len(inbox) : inbox[j].type = "think" => j = i
    /\ think => thought

\* An announcement that begins a step comes with the step's sense_body; only if
\* that was lost it comes alone, to a player that had decided.
Accompanied ==
  \A i \in 1 .. Len(inbox) :
    ~synchMode /\ inbox[i].type = "referee" /\ midStep < inbox[i].step =>
      \/ /\ i < Len(inbox) /\ inbox[i + 1].type = "sense_body"
         /\ inbox[i + 1].step = inbox[i].step
      \/ /\ i = 1 /\ pc = "select"
         /\ alive => lastDecision = time \/ time[2] = 0

\* The clock agrees with the cycle of the step heard of and with whatever else
\* may come of it.
Agrees ==
  /\ heardStep = step => Settled(cycleStopped, time, cycle)
  /\ \A i \in 1 .. Len(inbox) :
       inbox[i].step = heardStep => Settled(cycleStopped, time, inbox[i].cycle)

\* Unless a sense_body is still to come, a player that might decide has a clock
\* that agrees with its step.
SettledToDecide ==
  ~synchMode /\ midStep < heardStep =>
    \/ Agrees
    \/ lastDecision = time
    \/ inbox # << >> /\ inbox[1].type = "sense_body" /\ inbox[1].step = heardStep

\* And when it has decided nothing that comes of this step moves it.
SettledOnceDecided ==
  ~synchMode /\ decidedStep = heardStep /\ decisions > 0 /\ midStep < decidedStep =>
    /\ Agrees /\ lastDecision = time
    /\ \A i \in 1 .. Len(inbox) :
         inbox[i].step = heardStep => inbox[i].type \notin {"referee", "sense_body"}

\* The first message tells how far a player has got with its step.
First(type) == inbox # << >> /\ inbox[1].type = type
AllHeard    == ~First("init") /\ ~First("referee") /\ ~First("sense_body")

\* While nothing is lost or late, the messages are those of one step: the
\* announcement, the sense_body, and then the rest.
Layout ==
  \A i \in 1 .. Len(inbox) :
    /\ inbox[i].step = step
    /\ inbox[i].type = "referee" =>
         i = 1 /\ Len(inbox) > 1 /\ inbox[2].type = "sense_body" /\ inbox[i].mode = mode
    /\ inbox[i].type = "sense_body" => step >= 2 /\ (i = 1 \/ (i = 2 /\ inbox[1].type = "referee"))
    /\ inbox[i].type = "init" => step = 1 /\ inbox[i].mode = mode /\ mode # "time_over"

\* Until the sense_body is read the clock is such that reading it gives a time
\* that has not been decided on.
AtReferee ==
  First("referee") =>
    /\ cycleStopped => time[1] = cycle /\ (step > 2 => time[2] > 0)
    /\ ~cycleStopped => time[1] < cycle
    /\ step > 2 => senseTime # NoTime /\ (alive /\ ~synchMode => lastDecision = time)

AtBody ==
  First("sense_body") =>
    /\ cycleStopped = IsServerCycleStoppedMode(mode)
    /\ mode = "time_over" => ~alive
    /\ cycleStopped => time[1] = cycle
    /\ step > 2 /\ alive /\ ~synchMode /\ lastDecision[1] = cycle =>
         lastDecision = time /\ (cycleStopped \/ time[2] > 0)

\* With the sense_body read, the clock is that of the step, and the step is
\* decided in or has a time of its own.
AtEnd ==
  AllHeard =>
    /\ heardStep = step
    /\ cycleStopped = IsServerCycleStoppedMode(mode)
    /\ mode = "time_over" => ~alive
    /\ Settled(cycleStopped, time, cycle)
    /\ step > 1 => senseTime = time /\ (cycleStopped => time[2] > 0)
    /\ step = 1 => senseTime = NoTime
    /\ step > 2 /\ alive /\ ~synchMode => decidedStep = step \/ lastDecision # time

\* An intention was set after the last stop, unless that is still to be read.
Intended ==
  alive => \/ intention = 0 \/ lastStop <= intention
           \/ First("referee") /\ inbox[1].mode # "play_on"

\* In synch_mode a step whose (think) was sent is decided in or will be.
Thinking ==
  synchMode /\ thought /\ step > 1 =>
    \/ decidedStep = step
    \/ think
    \/ \E i \in 1 .. Len(inbox) : inbox[i].type = "think"

Faultless ==
  faults = 0 =>
    /\ midStep = 0 /\ (First("init") => senseTime = NoTime)
    /\ Layout /\ AtReferee /\ AtBody /\ AtEnd /\ Intended /\ Thinking

Inv ==
  /\ TypeOK /\ Arrivals /\ Clock /\ Synched /\ Accompanied
  /\ SettledToDecide /\ SettledOnceDecided /\ DecidedOnce /\ Faultless

-----------------------------------------------------------------------------
(* Times.                                                                  *)

LEMMA TimeFacts ==
  ASSUME TypeOK, NEW c \in Nat, NEW b \in BOOLEAN
  PROVE  /\ UpdatedTime(c, b) \in GameTime /\ UpdatedTime(c, b)[1] = c
         /\ Settled(cycleStopped, UpdatedTime(c, b), c)
         /\ ~b /\ Settled(cycleStopped, time, c) => UpdatedTime(c, b) = time
         /\ ~b /\ time[2] = 0 => UpdatedTime(c, b)[2] = 0
         /\ b /\ cycleStopped /\ time[1] = c => /\ UpdatedTime(c, b)[2] > 0
                                                /\ UpdatedTime(c, b) # time
         /\ cycleStopped /\ time[1] = c /\ ~b => UpdatedTime(c, b) = time
         /\ ~cycleStopped \/ time[1] # c => UpdatedTime(c, b) = <<c, 0>>
<1>1. /\ time = <<time[1], time[2]>> /\ time[1] \in Int /\ time[2] \in Nat
      /\ cycleStopped \in BOOLEAN
  BY DEF TypeOK, GameTime
<1>2. UpdatedTime(c, b) = IF ~cycleStopped \/ c # time[1] THEN <<c, 0>>
                          ELSE IF b THEN <<time[1], time[2] + 1>> ELSE time
  BY DEF UpdatedTime
<1>3. CASE ~cycleStopped \/ c # time[1]
  <2>1. UpdatedTime(c, b) = <<c, 0>>
    BY <1>2, <1>3
  <2>2. UpdatedTime(c, b) \in GameTime /\ UpdatedTime(c, b)[1] = c /\ UpdatedTime(c, b)[2] = 0
    BY <2>1 DEF GameTime
  <2>3. Settled(cycleStopped, time, c) => time = <<c, 0>>
    BY <1>3 DEF Settled
  <2>4. Settled(cycleStopped, UpdatedTime(c, b), c)
    BY <2>1, <2>2 DEF Settled
  <2>5. ~(cycleStopped /\ time[1] = c)
    BY <1>3
  <2>6. /\ ~b /\ Settled(cycleStopped, time, c) => UpdatedTime(c, b) = time
        /\ ~b /\ time[2] = 0 => UpdatedTime(c, b)[2] = 0
    BY <2>1, <2>2, <2>3
  <2> QED
    BY <2>1, <2>2, <2>4, <2>5, <2>6
<1>4. CASE cycleStopped /\ c = time[1] /\ b
  <2>1. UpdatedTime(c, b) = <<time[1], time[2] + 1>>
    BY <1>2, <1>4
  <2>2. time[2] + 1 > 0 /\ time[2] + 1 # time[2] /\ time[2] + 1 \in Nat
    BY <1>1
  <2>3. UpdatedTime(c, b) # time
    BY <1>1, <2>1, <2>2
  <2>6. c = time[1] /\ time[1] \in Int
    BY <1>1, <1>4
  <2>7. <<time[1], time[2] + 1>> \in Int \X Nat
    BY <2>2, <2>6
  <2>8. /\ <<time[1], time[2] + 1>>[1] = time[1]
        /\ <<time[1], time[2] + 1>>[2] = time[2] + 1
    OBVIOUS
  <2>4. /\ UpdatedTime(c, b) \in GameTime /\ UpdatedTime(c, b)[1] = c
        /\ UpdatedTime(c, b)[2] > 0
    BY <2>1, <2>2, <2>6, <2>7, <2>8 DEF GameTime
  <2>5. Settled(cycleStopped, UpdatedTime(c, b), c)
    BY <1>4, <2>4 DEF Settled
  <2> QED
    BY <1>4, <2>3, <2>4, <2>5
<1>5. CASE cycleStopped /\ c = time[1] /\ ~b
  <2>1. UpdatedTime(c, b) = time
    BY <1>2, <1>5
  <2> QED
    BY <1>1, <1>5, <2>1 DEF Settled, GameTime
<1> QED
  BY <1>1, <1>3, <1>4, <1>5

-----------------------------------------------------------------------------
(* The player's steps.                                                     *)

ReadSteps == \/ AnalyzeInit \/ AnalyzeSenseBody \/ AnalyzeSee \/ AnalyzeHearReferee
             \/ AnalyzeThink

\* Reading takes the first of the messages.
LEMMA ReadFacts ==
  ASSUME TypeOK, ReadSteps
  PROVE  LET m == inbox[1]
             n == Len(inbox)
         IN  /\ n \in Nat \ {0} /\ m \in Message_
             /\ Len(inbox') = n - 1 /\ \A i \in 1 .. n - 1 : inbox'[i] = inbox[i + 1]
             /\ \A i \in 1 .. n : inbox[i] \in Message_
             /\ alive \/ pc = "drain"
             /\ pc' = "drain" /\ heardStep' = m.step
             /\ UNCHANGED <<server, lastDecision, decidedStep, decisions>>
             /\ time' = IF m.type \in {"init", "think"} THEN time
                        ELSE UpdatedTime(m.cycle, m.type = "sense_body")
             /\ senseTime' = IF m.type = "sense_body" THEN time' ELSE senseTime
             /\ think' = (think \/ m.type = "think")
             /\ joined' = (joined \/ m.type = "init")
             /\ cycleStopped' = IF m.type \in {"init", "referee"}
                                THEN IsServerCycleStoppedMode(m.mode) ELSE cycleStopped
             /\ alive' = (alive /\ ~(m.type = "referee" /\ m.mode = "time_over"))
             /\ IF m.type = "referee" /\ m.mode # "play_on"
                THEN m.mode # "time_over" => intention' = 0
                ELSE intention' = intention
             /\ TypeOK'
<1> DEFINE m == inbox[1]
           n == Len(inbox)
<1>1. /\ inbox # << >> /\ inbox' = Tail(inbox) /\ heardStep' = Head(inbox).step
      /\ pc' = "drain" /\ timeouts' = 0 /\ (alive \/ pc = "drain")
      /\ UNCHANGED server
  BY DEF ReadSteps, AnalyzeInit, AnalyzeSenseBody, AnalyzeSee, AnalyzeHearReferee,
         AnalyzeThink, Read
<1>2. inbox \in Seq(Message_)
  BY DEF TypeOK
<1>3. /\ n \in Nat \ {0} /\ Head(inbox) = m /\ m \in Message_
      /\ inbox' \in Seq(Message_)
      /\ Len(inbox') = n - 1 /\ \A i \in 1 .. n - 1 : inbox'[i] = inbox[i + 1]
      /\ \A i \in 1 .. n : inbox[i] \in Message_
  BY <1>1, <1>2
<1>4. m.type \in {"init", "sense_body", "see", "referee", "think"} /\ m.cycle \in Nat
      /\ m.mode \in Mode /\ m.step \in Nat
  BY <1>3 DEF Message_
<1> HIDE DEF m, n
<1>5. \A b \in BOOLEAN : UpdatedTime(m.cycle, b) \in GameTime
  BY <1>4, TimeFacts
<1>6. /\ \/ /\ m.type = "init" /\ joined' = TRUE
            /\ cycleStopped' = IsServerCycleStoppedMode(m.mode) /\ gameMode' = m.mode
            /\ UNCHANGED <<time, worldMode, senseTime, seeTime, think, alive, intention>>
         \/ /\ m.type = "sense_body"
            /\ time' = UpdatedTime(m.cycle, TRUE) /\ senseTime' = time'
            /\ UNCHANGED <<gameMode, cycleStopped, worldMode, seeTime, joined, think, alive,
                           intention>>
         \/ /\ m.type = "see"
            /\ time' = UpdatedTime(m.cycle, FALSE) /\ seeTime' = time'
            /\ UNCHANGED <<gameMode, cycleStopped, worldMode, senseTime, joined, think, alive,
                           intention>>
         \/ /\ m.type = "referee"
            /\ time' = UpdatedTime(m.cycle, FALSE)
            /\ gameMode' = m.mode /\ cycleStopped' = IsServerCycleStoppedMode(m.mode)
            /\ IF m.mode = "time_over"
               THEN alive' = FALSE /\ UNCHANGED <<worldMode, intention>>
               ELSE /\ worldMode' = m.mode /\ intention' = IntentionAfter(m.mode)
                    /\ alive' = alive
            /\ UNCHANGED <<senseTime, seeTime, joined, think>>
         \/ /\ m.type = "think" /\ think' = TRUE
            /\ UNCHANGED <<clock, world, alive, intention>>
      /\ UNCHANGED <<lastDecision, decidedStep, decisions>>
  BY <1>3 DEF ReadSteps, AnalyzeInit, AnalyzeSenseBody, AnalyzeSee, AnalyzeHearReferee,
              AnalyzeThink, Read, NoAct, clock, world
<1>7. /\ think \in BOOLEAN /\ joined \in BOOLEAN /\ alive \in BOOLEAN
      /\ cycleStopped \in BOOLEAN /\ time \in GameTime /\ senseTime \in GameTime
      /\ seeTime \in GameTime /\ gameMode \in Mode /\ worldMode \in Mode /\ intention \in Nat
  BY DEF TypeOK
<1>8. /\ time' = IF m.type \in {"init", "think"} THEN time
                 ELSE UpdatedTime(m.cycle, m.type = "sense_body")
      /\ senseTime' = IF m.type = "sense_body" THEN time' ELSE senseTime
      /\ think' = (think \/ m.type = "think")
      /\ joined' = (joined \/ m.type = "init")
      /\ cycleStopped' = IF m.type \in {"init", "referee"}
                         THEN IsServerCycleStoppedMode(m.mode) ELSE cycleStopped
      /\ alive' = (alive /\ ~(m.type = "referee" /\ m.mode = "time_over"))
  BY <1>6, <1>7 DEF clock, world
<1>9. IF m.type = "referee" /\ m.mode # "play_on"
      THEN m.mode # "time_over" => intention' = 0
      ELSE intention' = intention
  BY <1>6 DEF IntentionAfter
<1>10. /\ think' \in BOOLEAN /\ joined' \in BOOLEAN /\ alive' \in BOOLEAN
       /\ cycleStopped' \in BOOLEAN
  <2>1. IsServerCycleStoppedMode(m.mode) \in BOOLEAN
    BY DEF IsServerCycleStoppedMode
  <2> QED
    BY <1>6, <1>7, <2>1 DEF clock, world
<1>11. /\ time' \in GameTime /\ senseTime' \in GameTime /\ seeTime' \in GameTime
       /\ gameMode' \in Mode /\ worldMode' \in Mode /\ intention' \in Nat
  <2>1. CASE m.type = "init"
    BY <1>4, <1>6, <1>7, <2>1
  <2>2. CASE m.type = "sense_body"
    BY <1>5, <1>6, <1>7, <2>2
  <2>3. CASE m.type = "see"
    BY <1>5, <1>6, <1>7, <2>3
  <2>4. CASE m.type = "referee"
    <3>1. /\ time' = UpdatedTime(m.cycle, FALSE) /\ gameMode' = m.mode
          /\ UNCHANGED <<senseTime, seeTime>>
          /\ IF m.mode = "time_over"
             THEN UNCHANGED <<worldMode, intention>>
             ELSE worldMode' = m.mode /\ intention' = IntentionAfter(m.mode)
      BY <1>6, <2>4
    <3>2. IntentionAfter(m.mode) \in Nat
      BY <1>7 DEF IntentionAfter
    <3> QED
      BY <1>4, <1>5, <1>7, <3>1, <3>2
  <2>5. CASE m.type = "think"
    BY <1>6, <1>7, <2>5 DEF clock, world
  <2> QED
    BY <1>4, <2>1, <2>2, <2>3, <2>4, <2>5
<1>12. TypeOK'
  BY <1>1, <1>3, <1>4, <1>6, <1>10, <1>11 DEF TypeOK, server
<1> QED
  BY <1>1, <1>3, <1>6, <1>8, <1>9, <1>12 DEF m, n

ActSteps == EndOfDrain \/ HandleTimeout \/ ServerDown

\* What makes the player decide.
Decides ==
  /\ \/ pc = "drain" /\ think
     \/ ~synchMode /\ lastDecision # time
  /\ lastDecision' = time
  /\ decidedStep' = heardStep
  /\ decisions' = IF heardStep # decidedStep THEN 1 ELSE IF decisions = 0 THEN 1 ELSE 2
  /\ intention' \in {0, intention, heardStep}

\* Deciding or not, the player has read everything, and its clock stands.
LEMMA ActFacts ==
  ASSUME TypeOK, ActSteps
  PROVE  /\ inbox = << >> /\ Len(inbox) = 0 /\ pc' = "select"
         /\ think' = FALSE \/ (pc = "select" /\ think' = think)
         /\ alive' => alive
         /\ UNCHANGED <<server, inbox, clock, world, heardStep>>
         /\ \/ /\ UNCHANGED <<lastDecision, decidedStep, decisions, intention>>
               /\ ~(pc = "drain" /\ think)
            \/ Decides
         /\ TypeOK'
<1>1. /\ inbox = << >> /\ UNCHANGED <<server, inbox, clock, world, heardStep>>
      /\ pc' = "select" /\ pc' \in {"select", "drain"}
      /\ think' = FALSE \/ (pc = "select" /\ think' = think)
      /\ alive' = alive \/ alive' = FALSE
      /\ timeouts' \in 0 .. 3
  BY DEF ActSteps, EndOfDrain, HandleTimeout, ServerDown, TypeOK
<1>2. \/ /\ UNCHANGED <<lastDecision, decidedStep, decisions, intention>>
         /\ ~(pc = "drain" /\ think)
      \/ Decides
  <2>1. CASE EndOfDrain
    BY <1>1, <2>1 DEF EndOfDrain, Act, NoAct, Decides, clock
  <2>2. CASE HandleTimeout
    BY <1>1, <2>2 DEF HandleTimeout, Act, NoAct, Decides, clock, IsDecisionTiming
  <2>3. CASE ServerDown
    BY <2>3 DEF ServerDown, NoAct
  <2> QED
    BY <2>1, <2>2, <2>3 DEF ActSteps
<1>3. lastDecision' \in GameTime /\ decidedStep' \in Nat /\ decisions' \in 0 .. 2
      /\ intention' \in Nat
  BY <1>2 DEF TypeOK, Decides
<1>4. TypeOK'
  BY <1>1, <1>3 DEF TypeOK, server, clock, world
<1>5. Len(inbox) = 0
  BY <1>1
<1> QED
  BY <1>1, <1>2, <1>4, <1>5

-----------------------------------------------------------------------------
(* The server's steps.                                                     *)

LEMMA PairFacts ==
  ASSUME NEW S, NEW a \in S, NEW b \in S
  PROVE  /\ <<a>> \o <<b>> = <<a, b>> /\ << >> \o <<b>> = <<b>>
         /\ RemoveAt(<<a>>, 1) = << >>
         /\ RemoveAt(<<a, b>>, 1) = <<b>> /\ RemoveAt(<<a, b>>, 2) = <<a>>
<1>1. /\ <<a>> \in Seq(S) /\ <<b>> \in Seq(S) /\ <<a, b>> \in Seq(S) /\ << >> \in Seq(S)
      /\ Len(<<a>>) = 1 /\ Len(<<a, b>>) = 2 /\ <<a, b>>[1] = a /\ <<a, b>>[2] = b
      /\ <<a>>[1] = a /\ <<b>>[1] = b /\ Len(<<b>>) = 1
  OBVIOUS
<1>2. <<a>> \o <<b>> = <<a, b>>
  <2> DEFINE s == <<a>> \o <<b>>
  <2>1. /\ s \in Seq(S) /\ Len(s) = Len(<<a>>) + Len(<<b>>)
        /\ \A i \in 1 .. Len(<<a>>) + Len(<<b>>) :
             s[i] = IF i <= Len(<<a>>) THEN <<a>>[i] ELSE <<b>>[i - Len(<<a>>)]
    BY <1>1, ConcatProperties
  <2> HIDE DEF s
  <2>2. Len(s) = 2 /\ s[1] = a /\ s[2] = b
    BY <1>1, <2>1
  <2>3. \A i \in 1 .. Len(s) : s[i] = <<a, b>>[i]
    BY <1>1, <2>2
  <2>4. s = <<a, b>>
    BY <1>1, <2>1, <2>2, <2>3, SeqEqual
  <2> QED
    BY <2>4 DEF s
<1>3. \A s \in Seq(S) : << >> \o s = s /\ s \o << >> = s
  BY ConcatEmptySeq
<1>4. \A s : SubSeq(s, 1, 0) = << >> /\ SubSeq(s, 2, 1) = << >> /\ SubSeq(s, 3, 2) = << >>
  BY SubSeqEmpty
<1>5. \A i \in {1, 2} : SubSeq(<<a, b>>, i, i) = <<<<a, b>>[i]>>
  <2> SUFFICES ASSUME NEW i \in {1, 2}
               PROVE  SubSeq(<<a, b>>, i, i) = <<<<a, b>>[i]>>
    OBVIOUS
  <2> DEFINE s == SubSeq(<<a, b>>, i, i)
             e == <<a, b>>[i]
  <2>1. e \in S
    BY <1>1
  <2>2. i \in Int /\ \A j \in i .. i : <<a, b>>[j] \in S
    BY <2>1
  <2>3. /\ s \in Seq(S) /\ Len(s) = IF i <= i THEN i - i + 1 ELSE 0
        /\ \A j \in 1 .. i - i + 1 : s[j] = <<a, b>>[i + j - 1]
    BY <2>2, SubSeqProperties
  <2> HIDE DEF s
  <2>4. Len(s) = 1 /\ s[1] = e
    BY <2>3
  <2> HIDE DEF e
  <2>5. s = <<e>>
    BY <2>1, <2>3, <2>4, SeqEqual
  <2> QED
    BY <2>5 DEF s, e
<1>7. /\ RemoveAt(<<a>>, 1) = SubSeq(<<a>>, 1, 0) \o SubSeq(<<a>>, 2, 1)
      /\ RemoveAt(<<a, b>>, 1) = SubSeq(<<a, b>>, 1, 0) \o SubSeq(<<a, b>>, 2, 2)
      /\ RemoveAt(<<a, b>>, 2) = SubSeq(<<a, b>>, 1, 1) \o SubSeq(<<a, b>>, 3, 2)
  BY <1>1 DEF RemoveAt
<1>6. /\ RemoveAt(<<a>>, 1) = << >> \o << >>
      /\ RemoveAt(<<a, b>>, 1) = << >> \o <<b>> /\ RemoveAt(<<a, b>>, 2) = <<a>> \o << >>
  BY <1>1, <1>4, <1>5, <1>7
<1> QED
  BY <1>1, <1>2, <1>3, <1>6

\* A message is added, or lost.
Adds(m) ==
  \/ /\ Len(inbox') = Len(inbox) + 1 /\ inbox'[Len(inbox) + 1] = m
     /\ \A i \in 1 .. Len(inbox) : inbox'[i] = inbox[i]
     /\ faults' = faults
  \/ inbox' = inbox /\ faults' = faults + 1

AddSteps == SendSee \/ SendThink

LEMMA FaultFacts ==
  ASSUME TypeOK, NEW kind, Fault(kind)
  PROVE  faults' = faults + 1 /\ faults' \in 0 .. MaxFaults /\ faults' # 0
BY BoundsAssumption DEF Fault, TypeOK

LEMMA SendOne ==
  ASSUME TypeOK, NEW m \in Message_, Send(<<m>>)
  PROVE  Adds(m) /\ inbox' \in Seq(Message_) /\ faults' \in 0 .. MaxFaults
<1>1. inbox \in Seq(Message_) /\ <<m>> \in Seq(Message_) /\ faults \in 0 .. MaxFaults
  BY DEF TypeOK
<1>2. CASE inbox' = inbox \o <<m>> /\ faults' = faults
  BY <1>1, <1>2 DEF Adds
<1>3. CASE /\ Fault("loss")
           /\ \E lost \in 1 .. Len(<<m>>) : inbox' = inbox \o RemoveAt(<<m>>, lost)
  <2>1. inbox' = inbox \o RemoveAt(<<m>>, 1)
    BY <1>3
  <2>2. RemoveAt(<<m>>, 1) = << >>
    BY PairFacts
  <2>3. inbox' = inbox
    BY <1>1, <2>1, <2>2
  <2> QED
    BY <1>1, <1>3, <2>3, FaultFacts DEF Adds
<1> QED
  BY <1>2, <1>3 DEF Send

LEMMA AddFacts ==
  ASSUME TypeOK, AddSteps
  PROVE  /\ UNCHANGED <<synchMode, step, cycle, mode, moved, lastStop, midStep>>
         /\ AgentUnchanged
         /\ \/ Adds(Message("see", cycle, mode, step)) /\ thought' = thought
            \/ /\ Adds(Message("think", cycle, mode, step))
               /\ synchMode /\ ~thought /\ thought'
         /\ TypeOK'
<1>1. /\ Message("see", cycle, mode, step) \in Message_
      /\ Message("think", cycle, mode, step) \in Message_
  BY DEF TypeOK, Message, Message_
<1>2. CASE SendSee
  <2>1. /\ Adds(Message("see", cycle, mode, step))
        /\ inbox' \in Seq(Message_) /\ faults' \in 0 .. MaxFaults
    BY <1>1, <1>2, SendOne DEF SendSee
  <2> QED
    BY <1>2, <2>1 DEF SendSee, AgentUnchanged, TypeOK, clock, world
<1>3. CASE SendThink
  <2>1. /\ Adds(Message("think", cycle, mode, step))
        /\ inbox' \in Seq(Message_) /\ faults' \in 0 .. MaxFaults
    BY <1>1, <1>3, SendOne DEF SendThink
  <2> QED
    BY <1>3, <2>1 DEF SendThink, AgentUnchanged, TypeOK, clock, world
<1> QED
  BY <1>2, <1>3 DEF AddSteps

\* An announcement in the middle of a step.
LEMMA MidFacts ==
  ASSUME TypeOK, AnnounceMidStep
  PROVE  /\ UNCHANGED <<synchMode, step, cycle, moved, thought>> /\ AgentUnchanged
         /\ midStep' = step /\ lastStop' \in {lastStop, step}
         /\ faults' # 0
         /\ Len(inbox') = Len(inbox) + 1
         /\ \E m \in Mode : inbox'[Len(inbox) + 1] = Message("referee", cycle, m, step)
         /\ \A i \in 1 .. Len(inbox) : inbox'[i] = inbox[i]
         /\ TypeOK'
<1>1. PICK m \in Following(mode) :
        /\ mode' = m
        /\ lastStop' = IF m = "play_on" THEN lastStop ELSE step
        /\ inbox' = Append(inbox, Message("referee", cycle, m, step))
  BY DEF AnnounceMidStep
<1>2. m \in Mode
  BY DEF Following, Mode, TypeOK
<1>3. Message("referee", cycle, m, step) \in Message_ /\ inbox \in Seq(Message_)
  BY <1>2 DEF TypeOK, Message, Message_
<1>4. /\ inbox' \in Seq(Message_) /\ Len(inbox') = Len(inbox) + 1
      /\ inbox'[Len(inbox) + 1] = Message("referee", cycle, m, step)
      /\ \A i \in 1 .. Len(inbox) : inbox'[i] = inbox[i]
  BY <1>1, <1>3
<1>5. faults' # 0 /\ faults' \in 0 .. MaxFaults
  BY FaultFacts DEF AnnounceMidStep
<1>6. lastStop' \in Nat
  BY <1>1 DEF TypeOK
<1>7. TypeOK'
  BY <1>1, <1>2, <1>4, <1>5, <1>6 DEF TypeOK, AnnounceMidStep, AgentUnchanged, clock, world
<1> QED
  BY <1>1, <1>2, <1>4, <1>5, <1>7 DEF AnnounceMidStep

\* A step begins, with the messages s of its beginning.
Begins(s) ==
  /\ Len(inbox') = Len(inbox) + Len(s)
  /\ \A i \in 1 .. Len(inbox) : inbox'[i] = inbox[i]
  /\ \A i \in 1 .. Len(s) : inbox'[Len(inbox) + i] = s[i]

Body     == Message("sense_body", cycle', mode', step')
Announce == Message("referee", cycle', mode', step')

StepFact ==
  /\ step' = step + 1 /\ moved' = (cycle' # cycle)
  /\ cycle' = IF IsServerCycleStoppedMode(mode) \/ mode = "time_over" THEN cycle ELSE cycle + 1
  /\ thought' = FALSE
  /\ lastStop' = IF mode' \in {mode, "play_on"} THEN lastStop ELSE step'
  /\ mode' = mode \/ (mode' # mode /\ mode # "time_over")
  /\ synchMode' = synchMode /\ midStep' = midStep /\ AgentUnchanged
  /\ \/ Begins(<<Body>>) /\ (faults' = 0 => mode' = mode)
     \/ Begins(<<Announce, Body>>) /\ mode' # mode
     \/ NextStep /\ Begins(<<Announce>>) /\ faults' # 0
     \/ NextStep /\ Begins(<< >>) /\ faults' # 0
  /\ NextStep => Punctual /\ (faults' = 0 => faults = 0)
  /\ ~NextStep => faults' # 0 /\ ~synchMode

LEMMA StepFacts ==
  ASSUME TypeOK, NextStep \/ Overrun
  PROVE  StepFact /\ TypeOK'
<1> DEFINE A(m) == Message("referee", NextCycle, m, step + 1)
           B(m) == Message("sense_body", NextCycle, m, step + 1)
<1>1. PICK m \in {mode} \cup Following(mode) :
        /\ Step(m)
        /\ \/ NextStep /\ Send(StepMessages(m))
           \/ Fault("overrun") /\ inbox' = inbox \o StepMessages(m) /\ ~synchMode
  BY DEF NextStep, Overrun
<1>2. m \in Mode /\ (m = mode \/ (m # mode /\ mode # "time_over"))
  BY DEF Following, Mode, TypeOK
<1>3. /\ step' = step + 1 /\ cycle' = NextCycle /\ mode' = m /\ moved' = (cycle' # cycle)
      /\ thought' = FALSE /\ lastStop' = IF m \in {mode, "play_on"} THEN lastStop ELSE step'
      /\ synchMode' = synchMode /\ midStep' = midStep /\ AgentUnchanged
  BY <1>1 DEF Step
<1>4. /\ cycle' = IF IsServerCycleStoppedMode(mode) \/ mode = "time_over" THEN cycle ELSE cycle + 1
      /\ cycle' \in Nat /\ step' \in Nat /\ lastStop' \in Nat /\ moved' \in BOOLEAN
  BY <1>3 DEF NextCycle, TypeOK
<1>5. A(m) = Announce /\ B(m) = Body /\ A(m) \in Message_ /\ B(m) \in Message_
  BY <1>2, <1>3, <1>4 DEF Announce, Body, Message, Message_
<1>6. StepMessages(m) = IF m = mode THEN <<Body>> ELSE <<Announce, Body>>
  <2>1. \A a, b \in Message_ : <<a>> \o <<b>> = <<a, b>> /\ << >> \o <<b>> = <<b>>
    BY PairFacts
  <2>2. /\ StepMessages(m) = (IF m = mode THEN << >> ELSE <<A(m)>>) \o <<B(m)>>
    BY DEF StepMessages
  <2> QED
    BY <1>5, <2>1, <2>2
<1>7. inbox \in Seq(Message_) /\ faults \in 0 .. MaxFaults
  BY DEF TypeOK
<1>8. Body \in Message_ /\ Announce \in Message_
  BY <1>5
<1> HIDE DEF A, B
<1>9. ASSUME NEW s \in Seq(Message_), inbox' = inbox \o s
      PROVE  inbox' \in Seq(Message_) /\ Begins(s)
  BY <1>7, <1>9 DEF Begins
<1>10. /\ <<Body>> \in Seq(Message_) /\ <<Announce>> \in Seq(Message_)
       /\ <<Announce, Body>> \in Seq(Message_) /\ << >> \in Seq(Message_)
  BY <1>8
<1>11. ASSUME inbox' = inbox \o StepMessages(m)
       PROVE  /\ inbox' \in Seq(Message_)
              /\ IF m = mode THEN Begins(<<Body>>) ELSE Begins(<<Announce, Body>>)
  BY <1>6, <1>9, <1>10, <1>11
<1>12. ASSUME inbox' \in Seq(Message_), faults' \in 0 .. MaxFaults
       PROVE  TypeOK'
  BY <1>2, <1>3, <1>4, <1>12 DEF TypeOK, AgentUnchanged, clock, world
<1> HIDE DEF Body, Announce
<1>13. ASSUME NextStep, Send(StepMessages(m))
       PROVE  StepFact /\ TypeOK'
  <2>1. Punctual
    BY <1>13 DEF NextStep
  <2>2. CASE inbox' = inbox \o StepMessages(m) /\ faults' = faults
    <3>1. TypeOK'
      BY <1>7, <1>11, <1>12, <2>2
    <3> QED
      BY <1>2, <1>3, <1>4, <1>11, <1>13, <2>1, <2>2, <3>1 DEF StepFact
  <2>3. ASSUME Fault("loss"), NEW lost \in 1 .. Len(StepMessages(m)),
               inbox' = inbox \o RemoveAt(StepMessages(m), lost)
        PROVE  StepFact /\ TypeOK'
    <3>1. faults' = faults + 1 /\ faults' \in 0 .. MaxFaults /\ faults' # 0
      BY <2>3, FaultFacts
    <3>2. /\ RemoveAt(<<Body>>, 1) = << >>
          /\ RemoveAt(<<Announce, Body>>, 1) = <<Body>>
          /\ RemoveAt(<<Announce, Body>>, 2) = <<Announce>>
      BY <1>8, PairFacts
    <3>3. CASE m = mode
      <4>1. StepMessages(m) = <<Body>> /\ lost = 1
        BY <1>6, <2>3, <3>3
      <4>2. inbox' \in Seq(Message_) /\ Begins(<< >>)
        BY <1>9, <1>10, <2>3, <3>2, <4>1
      <4>3. TypeOK'
        BY <1>12, <3>1, <4>2
      <4> QED
        BY <1>2, <1>3, <1>4, <1>13, <2>1, <3>1, <4>2, <4>3 DEF StepFact
    <3>4. CASE m # mode
      <4>1. StepMessages(m) = <<Announce, Body>> /\ lost \in {1, 2}
        BY <1>6, <2>3, <3>4
      <4>2. inbox' \in Seq(Message_) /\ (Begins(<<Body>>) \/ Begins(<<Announce>>))
        BY <1>9, <1>10, <2>3, <3>2, <4>1
      <4>3. TypeOK'
        BY <1>12, <3>1, <4>2
      <4> QED
        BY <1>2, <1>3, <1>4, <1>13, <2>1, <3>1, <4>2, <4>3 DEF StepFact
    <3> QED
      BY <3>3, <3>4
  <2> QED
    BY <1>13, <2>2, <2>3 DEF Send
<1>14. ASSUME Fault("overrun"), inbox' = inbox \o StepMessages(m), ~synchMode
       PROVE  StepFact /\ TypeOK'
  <2>1. faults' \in 0 .. MaxFaults /\ faults' # 0
    BY <1>14, FaultFacts
  <2>2. TypeOK'
    BY <1>11, <1>12, <1>14, <2>1
  <2>3. NextStep => Punctual
    BY DEF NextStep
  <2> QED
    BY <1>2, <1>3, <1>4, <1>11, <1>14, <2>1, <2>2, <2>3 DEF StepFact
<1> QED
  BY <1>1, <1>13, <1>14

\* The messages a step begins with.
LEMMA CameFacts ==
  ASSUME TypeOK, StepFact
  PROVE  LET n == Len(inbox) IN
         /\ n \in Nat /\ Len(inbox') \in Nat /\ n <= Len(inbox')
         /\ \A i \in 1 .. n : inbox'[i] = inbox[i]
         /\ \A i \in n + 1 .. Len(inbox') :
              /\ inbox'[i].type \in {"referee", "sense_body"}
              /\ inbox'[i].step = step' /\ inbox'[i].cycle = cycle'
              /\ inbox'[i].type = "referee" =>
                   \/ i < Len(inbox') /\ inbox'[i + 1].type = "sense_body"
                      /\ inbox'[i + 1].step = inbox'[i].step
                   \/ NextStep /\ i = n + 1
<1> DEFINE n == Len(inbox)
<1>1. n \in Nat
  BY DEF TypeOK
<1>2. /\ Body.type = "sense_body" /\ Body.step = step' /\ Body.cycle = cycle'
      /\ Announce.type = "referee" /\ Announce.step = step' /\ Announce.cycle = cycle'
  BY DEF Body, Announce, Message
<1>3. \/ Begins(<<Body>>) \/ Begins(<<Announce, Body>>) \/ Begins(<< >>)
      \/ NextStep /\ Begins(<<Announce>>)
  BY DEF StepFact
<1> HIDE DEF n, Body, Announce
<1>4. CASE Begins(<<Body>>)
  <2>1. /\ Len(inbox') = n + 1 /\ inbox'[n + 1] = Body
        /\ \A i \in 1 .. n : inbox'[i] = inbox[i]
    BY <1>1, <1>4 DEF Begins, n
  <2>2. \A i \in n + 1 .. n + 1 : i = n + 1
    BY <1>1
  <2> QED
    BY <1>1, <1>2, <2>1, <2>2 DEF n
<1>5. CASE Begins(<<Announce, Body>>)
  <2>1. /\ Len(inbox') = n + 2 /\ inbox'[n + 1] = Announce /\ inbox'[n + 2] = Body
        /\ \A i \in 1 .. n : inbox'[i] = inbox[i]
    BY <1>1, <1>5 DEF Begins, n
  <2>2. \A i \in n + 1 .. n + 2 : i = n + 1 \/ i = n + 2
    BY <1>1
  <2>3. n + 1 < n + 2 /\ n + 1 + 1 = n + 2
    BY <1>1
  <2> QED
    BY <1>1, <1>2, <2>1, <2>2, <2>3 DEF n
<1>6. CASE NextStep /\ Begins(<<Announce>>)
  <2>1. /\ Len(inbox') = n + 1 /\ inbox'[n + 1] = Announce
        /\ \A i \in 1 .. n : inbox'[i] = inbox[i]
    BY <1>1, <1>6 DEF Begins, n
  <2>2. \A i \in n + 1 .. n + 1 : i = n + 1
    BY <1>1
  <2> QED
    BY <1>1, <1>2, <1>6, <2>1, <2>2 DEF n
<1>7. CASE Begins(<< >>)
  BY <1>1, <1>7 DEF Begins, n
<1> QED
  BY <1>3, <1>4, <1>5, <1>6, <1>7

-----------------------------------------------------------------------------
(* The invariant and the server's steps.                                   *)

\* What the invariant says of single values.
Numbers ==
  /\ step \in Nat /\ cycle \in Nat /\ heardStep \in Nat /\ decidedStep \in Nat
  /\ midStep \in Nat /\ lastStop \in Nat /\ intention \in Nat
  /\ time = <<time[1], time[2]>> /\ time[1] \in Int /\ time[2] \in Nat
  /\ lastDecision[1] \in Int
  /\ moved \in BOOLEAN /\ thought \in BOOLEAN /\ think \in BOOLEAN /\ alive \in BOOLEAN
  /\ cycleStopped \in BOOLEAN /\ synchMode \in BOOLEAN /\ joined \in BOOLEAN
  /\ decisions \in 0 .. 2 /\ pc \in {"select", "drain"}
  /\ Len(inbox) \in Nat /\ (inbox = << >> <=> Len(inbox) = 0)
  /\ \A i \in 1 .. Len(inbox) :
       /\ inbox[i].step \in Nat /\ inbox[i].cycle \in Nat /\ inbox[i].mode \in Mode
       /\ inbox[i].type \in {"init", "sense_body", "see", "referee", "think"}

LEMMA NumberTypes == TypeOK => Numbers
<1> SUFFICES ASSUME TypeOK PROVE Numbers
  OBVIOUS
<1>1. inbox \in Seq(Message_)
  BY DEF TypeOK
<1>2. /\ Len(inbox) \in Nat /\ (inbox = << >> <=> Len(inbox) = 0)
      /\ \A i \in 1 .. Len(inbox) : inbox[i] \in Message_
  BY <1>1
<1>3. \A m \in Message_ :
        /\ m.step \in Nat /\ m.cycle \in Nat /\ m.mode \in Mode
        /\ m.type \in {"init", "sense_body", "see", "referee", "think"}
  BY DEF Message_
<1>4. /\ time = <<time[1], time[2]>> /\ time[1] \in Int /\ time[2] \in Nat
      /\ lastDecision[1] \in Int
  BY DEF TypeOK, GameTime
<1> QED
  BY <1>2, <1>3, <1>4 DEF TypeOK, Numbers

\* A step that begins.
LEMMA StepArrivals ==
  ASSUME Inv, StepFact, TypeOK'
  PROVE  Arrivals' /\ Clock'
<1> DEFINE n == Len(inbox)
<1>1. Numbers /\ Numbers'
  <2>1. TypeOK
    BY DEF Inv
  <2> QED
    BY <2>1, NumberTypes, PTL
<1>2. /\ n \in Nat /\ Len(inbox') \in Nat /\ n <= Len(inbox')
      /\ \A i \in 1 .. n : inbox'[i] = inbox[i]
      /\ \A i \in n + 1 .. Len(inbox') :
           /\ inbox'[i].type \in {"referee", "sense_body"}
           /\ inbox'[i].step = step' /\ inbox'[i].cycle = cycle'
  BY CameFacts DEF Inv
<1>3. /\ step' = step + 1 /\ cycle <= cycle' /\ (moved' => cycle < cycle')
      /\ lastStop' \in {lastStop, step'}
      /\ synchMode' = synchMode /\ midStep' = midStep /\ heardStep' = heardStep
      /\ decidedStep' = decidedStep /\ time' = time /\ lastDecision' = lastDecision
      /\ joined' = joined /\ senseTime' = senseTime /\ think' = think /\ pc' = pc
  <2>1. moved' => cycle' # cycle
    BY DEF StepFact
  <2>2. cycle' = cycle \/ cycle' = cycle + 1
    BY DEF StepFact
  <2>3. cycle \in Nat
    BY <1>1 DEF Numbers
  <2>4. cycle <= cycle' /\ (moved' => cycle < cycle')
    BY <2>1, <2>2, <2>3
  <2> QED
    BY <2>4 DEF StepFact, AgentUnchanged, clock, world
<1>4. Clock
  BY DEF Inv
<1>5. Clock'
  <2>1. /\ 1 <= step' /\ heardStep <= step' /\ decidedStep <= heardStep /\ midStep <= step'
        /\ lastStop' <= step' /\ step' # 1
        /\ 0 <= time[1] /\ time[1] <= cycle' /\ lastDecision[1] <= cycle'
        /\ moved' => time[1] < cycle' /\ lastDecision[1] < cycle'
        /\ heardStep # step'
    <3>1. /\ step \in Nat /\ cycle \in Nat /\ heardStep \in Nat /\ decidedStep \in Nat
          /\ midStep \in Nat /\ lastStop \in Nat /\ cycle' \in Nat
          /\ time[1] \in Int /\ lastDecision[1] \in Int
      BY <1>1 DEF Numbers
    <3>2. /\ 1 <= step /\ heardStep <= step /\ decidedStep <= heardStep /\ midStep <= step
          /\ lastStop <= step /\ 0 <= time[1] /\ time[1] <= cycle /\ lastDecision[1] <= cycle
      BY <1>4 DEF Clock
    <3>3. 1 <= step' /\ heardStep <= step' /\ midStep <= step' /\ step' # 1 /\ heardStep # step'
      BY <1>3, <3>1, <3>2
    <3>4. lastStop' <= step'
      BY <1>3, <3>1, <3>2
    <3>5. /\ time[1] <= cycle' /\ lastDecision[1] <= cycle'
          /\ moved' => time[1] < cycle' /\ lastDecision[1] < cycle'
      BY <1>3, <3>1, <3>2
    <3> QED
      BY <3>2, <3>3, <3>4, <3>5
  <2>2. heardStep = 0 => inbox' # << >> /\ inbox'[1].type = "init"
    <3> SUFFICES ASSUME heardStep = 0 PROVE inbox' # << >> /\ inbox'[1].type = "init"
      OBVIOUS
    <3>1. inbox # << >> /\ inbox[1].type = "init"
      BY <1>4 DEF Clock
    <3>2. n # 0
      BY <1>1, <3>1 DEF Numbers
    <3>3. 1 \in 1 .. n /\ Len(inbox') # 0
      BY <1>2, <3>2
    <3> QED
      BY <1>1, <1>2, <3>1, <3>3 DEF Numbers
  <2> QED
    BY <1>3, <1>4, <2>1, <2>2 DEF Clock
<1>6. Arrivals'
  <2> SUFFICES ASSUME NEW i \in 1 .. Len(inbox')
               PROVE  /\ 1 <= inbox'[i].step /\ inbox'[i].step <= step'
                      /\ heardStep' <= inbox'[i].step
                      /\ inbox'[i].cycle <= cycle'
                      /\ inbox'[i].step = step' => inbox'[i].cycle = cycle'
                      /\ inbox'[i].step < step' /\ moved' => inbox'[i].cycle < cycle'
                      /\ \A j \in 1 .. i :
                           /\ inbox'[j].step <= inbox'[i].step
                           /\ inbox'[j].step = inbox'[i].step => inbox'[j].cycle = inbox'[i].cycle
                      /\ inbox'[i].type = "init" =>
                           i = 1 /\ heardStep' = 0 /\ inbox'[i].step = 1 /\ inbox'[i].cycle = 0
                      /\ inbox'[i].type = "think" => synchMode'
    BY DEF Arrivals
  <2>1. CASE i \in 1 .. n
    <3>1. inbox'[i] = inbox[i] /\ \A j \in 1 .. i : inbox'[j] = inbox[j]
      BY <1>2, <2>1
    <3>2. /\ 1 <= inbox[i].step /\ inbox[i].step <= step /\ heardStep <= inbox[i].step
          /\ inbox[i].cycle <= cycle
          /\ \A j \in 1 .. i :
               /\ inbox[j].step <= inbox[i].step
               /\ inbox[j].step = inbox[i].step => inbox[j].cycle = inbox[i].cycle
          /\ inbox[i].type = "init" =>
               i = 1 /\ heardStep = 0 /\ inbox[i].step = 1 /\ inbox[i].cycle = 0
          /\ inbox[i].type = "think" => synchMode
      BY <2>1 DEF Inv, Arrivals
    <3>3. inbox[i].step \in Nat /\ inbox[i].cycle \in Nat /\ step \in Nat /\ cycle \in Nat
          /\ cycle' \in Nat
      BY <1>1, <2>1 DEF Numbers
    <3>4. /\ inbox[i].step <= step' /\ inbox[i].step # step' /\ inbox[i].cycle <= cycle'
          /\ moved' => inbox[i].cycle < cycle'
      BY <1>3, <3>2, <3>3
    <3> QED
      BY <1>3, <3>1, <3>2, <3>4
  <2>2. CASE i \notin 1 .. n
    <3>1. i \in n + 1 .. Len(inbox')
      BY <1>2, <2>2
    <3>2. /\ inbox'[i].type \in {"referee", "sense_body"}
          /\ inbox'[i].step = step' /\ inbox'[i].cycle = cycle'
      BY <1>2, <3>1
    <3>3. \A j \in 1 .. i : /\ inbox'[j].step <= step'
                            /\ inbox'[j].step = step' => inbox'[j].cycle = cycle'
      <4> TAKE j \in 1 .. i
      <4>1. CASE j \in 1 .. n
        <5>1. inbox'[j] = inbox[j] /\ inbox[j].step <= step /\ inbox[j].step \in Nat
          BY <1>1, <1>2, <4>1 DEF Inv, Arrivals, Numbers
        <5>2. step \in Nat
          BY <1>1 DEF Numbers
        <5>3. inbox[j].step <= step + 1 /\ inbox[j].step # step + 1
          BY <5>1, <5>2
        <5> QED
          BY <1>3, <5>1, <5>3
      <4>2. CASE j \notin 1 .. n
        <5>1. j \in n + 1 .. Len(inbox')
          BY <1>2, <3>1, <4>2
        <5>2. inbox'[j].step = step' /\ inbox'[j].cycle = cycle'
          BY <1>2, <5>1
        <5>3. step' <= step'
          BY <1>1 DEF Numbers
        <5> QED
          BY <5>2, <5>3
      <4> QED
        BY <4>1, <4>2
    <3>4. 1 <= step' /\ step' <= step' /\ heardStep <= step' /\ cycle' <= cycle'
      BY <1>1, <1>3, <1>4 DEF Clock, Numbers
    <3> QED
      BY <1>3, <3>2, <3>3, <3>4
  <2> QED
    BY <2>1, <2>2
<1> QED
  BY <1>5, <1>6

LEMMA StepKept ==
  ASSUME Inv, StepFact, TypeOK', NextStep \/ Overrun
  PROVE  /\ Synched' /\ Accompanied' /\ SettledToDecide' /\ SettledOnceDecided'
         /\ DecidedOnce'
<1> DEFINE n == Len(inbox)
<1>1. Numbers /\ Numbers'
  <2>1. TypeOK
    BY DEF Inv
  <2> QED
    BY <2>1, NumberTypes, PTL
<1>2. /\ n \in Nat /\ Len(inbox') \in Nat /\ n <= Len(inbox')
      /\ \A i \in 1 .. n : inbox'[i] = inbox[i]
      /\ \A i \in n + 1 .. Len(inbox') :
           /\ inbox'[i].type \in {"referee", "sense_body"}
           /\ inbox'[i].step = step' /\ inbox'[i].cycle = cycle'
           /\ inbox'[i].type = "referee" =>
                \/ i < Len(inbox') /\ inbox'[i + 1].type = "sense_body"
                   /\ inbox'[i + 1].step = inbox'[i].step
                \/ NextStep /\ i = n + 1
  BY CameFacts DEF Inv
<1>3. /\ step' = step + 1 /\ thought' = FALSE
      /\ synchMode' = synchMode /\ midStep' = midStep /\ heardStep' = heardStep
      /\ decidedStep' = decidedStep /\ decisions' = decisions
      /\ time' = time /\ lastDecision' = lastDecision /\ cycleStopped' = cycleStopped
      /\ think' = think /\ pc' = pc /\ alive' = alive /\ joined' = joined
      /\ senseTime' = senseTime
      /\ NextStep => Punctual
      /\ ~NextStep => ~synchMode
  BY DEF StepFact, AgentUnchanged, clock, world
<1>4. Clock /\ heardStep # step' /\ decidedStep < step'
  <2>1. Clock
    BY DEF Inv
  <2> QED
    BY <1>1, <1>3, <2>1 DEF Clock, Numbers
<1>5. NextStep => n = 0 /\ pc = "select"
  BY <1>1, <1>3 DEF Punctual, Numbers
<1>6. Synched'
  <2> SUFFICES ASSUME synchMode
               PROVE  /\ decisions < 2 /\ pc # "drain" /\ ~think /\ decidedStep < step'
                      /\ \A i \in 1 .. Len(inbox') :
                           inbox'[i].step = step' /\ inbox'[i].type # "think"
    BY <1>3, <1>1 DEF Synched, Numbers
  <2>1. n = 0 /\ pc = "select"
    BY <1>3, <1>5
  <2>2. \A i \in 1 .. Len(inbox') : inbox'[i].step = step' /\ inbox'[i].type # "think"
    BY <1>2, <2>1
  <2>3. decisions < 2 /\ ~think
    BY <1>4, <2>1 DEF Inv, Synched, Clock
  <2> QED
    BY <1>4, <2>1, <2>2, <2>3
<1>7. Accompanied'
  <2> SUFFICES ASSUME NEW i \in 1 .. Len(inbox'),
                      ~synchMode, inbox'[i].type = "referee", midStep < inbox'[i].step
               PROVE  \/ /\ i < Len(inbox') /\ inbox'[i + 1].type = "sense_body"
                         /\ inbox'[i + 1].step = inbox'[i].step
                      \/ /\ i = 1 /\ pc = "select"
                         /\ alive => lastDecision = time \/ time[2] = 0
    BY <1>3 DEF Accompanied
  <2>1. CASE i \in 1 .. n
    <3>1. inbox'[i] = inbox[i]
      BY <1>2, <2>1
    <3>2. \/ /\ i < n /\ inbox[i + 1].type = "sense_body"
             /\ inbox[i + 1].step = inbox[i].step
          \/ /\ i = 1 /\ pc = "select"
             /\ alive => lastDecision = time \/ time[2] = 0
      BY <2>1, <3>1 DEF Inv, Accompanied
    <3>3. i < n => inbox'[i + 1] = inbox[i + 1] /\ i < Len(inbox')
      BY <1>2, <2>1
    <3> QED
      BY <3>1, <3>2, <3>3
  <2>2. CASE i \notin 1 .. n
    <3>1. i \in n + 1 .. Len(inbox')
      BY <1>2, <2>2
    <3>2. CASE NextStep /\ i = n + 1
      <4>1. n = 0 /\ pc = "select" /\ Punctual
        BY <1>3, <1>5, <3>2
      <4>2. alive => ~IsDecisionTiming(3, TRUE, TRUE)
        BY <4>1 DEF Punctual
      <4>3. joined
        BY <1>1, <1>4, <4>1 DEF Clock, Numbers
      <4>4. alive /\ lastDecision # time => senseTime = NoTime
        BY <4>2, <4>3 DEF IsDecisionTiming
      <4>5. senseTime = NoTime => time[2] = 0
        BY <1>4 DEF Clock
      <4> QED
        BY <3>2, <4>1, <4>4, <4>5
    <3> QED
      BY <1>2, <3>1, <3>2
  <2> QED
    BY <2>1, <2>2
<1>8. ASSUME Agrees PROVE Agrees'
  <2> SUFFICES ASSUME NEW i \in 1 .. Len(inbox'), inbox'[i].step = heardStep
               PROVE  Settled(cycleStopped, time, inbox'[i].cycle)
    BY <1>3, <1>4 DEF Agrees
  <2>1. i \in 1 .. n
    BY <1>2, <1>4
  <2> QED
    BY <1>2, <1>8, <2>1 DEF Agrees
<1>9. SettledToDecide'
  <2> SUFFICES ASSUME ~synchMode, midStep < heardStep
               PROVE  \/ Agrees' \/ lastDecision = time
                      \/ inbox' # << >> /\ inbox'[1].type = "sense_body"
                         /\ inbox'[1].step = heardStep
    BY <1>3 DEF SettledToDecide
  <2>1. \/ Agrees \/ lastDecision = time
        \/ inbox # << >> /\ inbox[1].type = "sense_body" /\ inbox[1].step = heardStep
    BY DEF Inv, SettledToDecide
  <2>2. inbox # << >> => inbox' # << >> /\ inbox'[1] = inbox[1]
    <3> SUFFICES ASSUME inbox # << >> PROVE inbox' # << >> /\ inbox'[1] = inbox[1]
      OBVIOUS
    <3>1. n # 0
      BY <1>1 DEF Numbers
    <3>2. 1 \in 1 .. n /\ Len(inbox') # 0
      BY <1>2, <3>1
    <3> QED
      BY <1>1, <1>2, <3>2 DEF Numbers
  <2> QED
    BY <1>8, <2>1, <2>2
<1>10. SettledOnceDecided'
  <2> SUFFICES ASSUME ~synchMode, decidedStep = heardStep, decisions > 0, midStep < decidedStep
               PROVE  /\ Agrees' /\ lastDecision = time
                      /\ \A i \in 1 .. Len(inbox') :
                           inbox'[i].step = heardStep
                             => inbox'[i].type \notin {"referee", "sense_body"}
    BY <1>3 DEF SettledOnceDecided
  <2>1. /\ Agrees /\ lastDecision = time
        /\ \A i \in 1 .. n :
             inbox[i].step = heardStep => inbox[i].type \notin {"referee", "sense_body"}
    BY DEF Inv, SettledOnceDecided
  <2>2. \A i \in 1 .. Len(inbox') : inbox'[i].step = heardStep => i \in 1 .. n
    BY <1>2, <1>4
  <2> QED
    BY <1>2, <1>8, <2>1, <2>2
<1>11. DecidedOnce'
  BY <1>3 DEF Inv, DecidedOnce
<1> QED
  BY <1>6, <1>7, <1>9, <1>10, <1>11

\* A step that begins in time, with nothing lost.
LEMMA StepFaultless ==
  ASSUME Inv, StepFact, TypeOK'
  PROVE  Faultless'
<1> SUFFICES ASSUME faults' = 0
             PROVE  /\ midStep' = 0 /\ (First("init")' => senseTime' = NoTime)
                    /\ Layout' /\ AtReferee' /\ AtBody' /\ AtEnd' /\ Intended' /\ Thinking'
  BY DEF Faultless
<1>1. Numbers /\ Numbers'
  <2>1. TypeOK
    BY DEF Inv
  <2> QED
    BY <2>1, NumberTypes, PTL
<1>2. /\ step' = step + 1 /\ thought' = FALSE
      /\ cycle' = IF IsServerCycleStoppedMode(mode) \/ mode = "time_over" THEN cycle ELSE cycle + 1
      /\ lastStop' = IF mode' \in {mode, "play_on"} THEN lastStop ELSE step'
      /\ synchMode' = synchMode /\ midStep' = midStep /\ heardStep' = heardStep
      /\ time' = time /\ lastDecision' = lastDecision /\ cycleStopped' = cycleStopped
      /\ alive' = alive /\ senseTime' = senseTime /\ intention' = intention
      /\ Punctual /\ faults = 0
  BY DEF StepFact, AgentUnchanged, clock, world
<1>3. /\ step \in Nat /\ cycle \in Nat /\ time[1] \in Int /\ time[2] \in Nat /\ step >= 1
      /\ 0 <= time[1] /\ (heardStep = 0 => inbox # << >>) /\ (heardStep > 0 => joined)
      /\ heardStep \in Nat
  BY <1>1 DEF Numbers, Inv, Clock
<1>4. inbox = << >> /\ Len(inbox) = 0
  BY <1>1, <1>2 DEF Punctual, Numbers
<1>5. /\ cycleStopped = IsServerCycleStoppedMode(mode)
      /\ mode = "time_over" => ~alive
      /\ Settled(cycleStopped, time, cycle)
      /\ step > 1 => senseTime = time /\ (cycleStopped => time[2] > 0)
      /\ step = 1 => senseTime = NoTime
      /\ alive => intention = 0 \/ lastStop <= intention
      /\ midStep = 0
  BY <1>2, <1>4 DEF Inv, Faultless, AtEnd, AllHeard, First, Intended
<1>6. time # NoTime
  BY <1>3 DEF NoTime
<1>7. step' > 2 => senseTime # NoTime /\ (alive /\ ~synchMode => lastDecision = time)
  <2> SUFFICES ASSUME step' > 2
               PROVE  senseTime # NoTime /\ (alive /\ ~synchMode => lastDecision = time)
    OBVIOUS
  <2>1. senseTime = time /\ senseTime # NoTime /\ joined
    BY <1>2, <1>3, <1>4, <1>5, <1>6
  <2>2. alive /\ ~synchMode => ~IsDecisionTiming(3, TRUE, TRUE)
    BY <1>2 DEF Punctual
  <2> QED
    BY <2>1, <2>2 DEF IsDecisionTiming
<1>8. /\ cycleStopped => time[1] = cycle' /\ (step' > 2 => time[2] > 0)
      /\ ~cycleStopped /\ mode # "time_over" => time = <<cycle, 0>> /\ cycle' = cycle + 1
  BY <1>2, <1>3, <1>5 DEF Settled
<1>9. CASE Begins(<<Body>>) /\ mode' = mode
  <2>1. /\ Len(inbox') = 1 /\ inbox' # << >>
        /\ inbox'[1].type = "sense_body" /\ inbox'[1].step = step'
    <3>1. Len(inbox') = 1 /\ inbox'[1] = Body
      BY <1>4, <1>9 DEF Begins
    <3> QED
      BY <1>1, <3>1 DEF Numbers, Body, Message
  <2>2. First("sense_body")' /\ ~First("referee")' /\ ~First("init")' /\ ~AllHeard'
    BY <2>1 DEF First, AllHeard
  <2>3. Layout'
    <3>1. \A i \in 1 .. Len(inbox') : i = 1
      BY <2>1
    <3>2. step' >= 2
      BY <1>2, <1>3
    <3> QED
      BY <2>1, <3>1, <3>2 DEF Layout
  <2>4. AtBody'
    <3>1. step' > 2 /\ alive /\ ~synchMode /\ lastDecision[1] = cycle' =>
            lastDecision = time /\ (cycleStopped \/ time[2] > 0)
      <4> SUFFICES ASSUME step' > 2, alive, ~synchMode, lastDecision[1] = cycle'
                   PROVE  lastDecision = time /\ cycleStopped
        OBVIOUS
      <4>1. lastDecision = time /\ mode # "time_over"
        BY <1>5, <1>7
      <4>2. ~cycleStopped => time[1] = cycle /\ cycle' = cycle + 1
        BY <1>8, <4>1
      <4>3. cycle + 1 # cycle
        BY <1>3
      <4> QED
        BY <4>1, <4>2, <4>3
    <3> QED
      BY <1>2, <1>5, <1>8, <1>9, <3>1 DEF AtBody
  <2>5. Intended'
    BY <1>2, <1>5, <1>9 DEF Intended
  <2> QED
    BY <1>2, <1>5, <2>2, <2>3, <2>4, <2>5 DEF AtReferee, AtEnd, Thinking
<1>10. CASE Begins(<<Announce, Body>>) /\ mode' # mode
  <2>1. /\ Len(inbox') = 2 /\ inbox' # << >>
        /\ inbox'[1].type = "referee" /\ inbox'[1].step = step' /\ inbox'[1].mode = mode'
        /\ inbox'[2].type = "sense_body" /\ inbox'[2].step = step'
    <3>1. Len(inbox') = 2 /\ inbox'[1] = Announce /\ inbox'[2] = Body
      BY <1>4, <1>10 DEF Begins
    <3> QED
      BY <1>1, <3>1 DEF Numbers, Body, Announce, Message
  <2>2. First("referee")' /\ ~First("sense_body")' /\ ~First("init")' /\ ~AllHeard'
    BY <2>1 DEF First, AllHeard
  <2>3. Layout'
    <3>1. \A i \in 1 .. Len(inbox') : i = 1 \/ i = 2
      BY <2>1
    <3>2. step' >= 2
      BY <1>2, <1>3
    <3> QED
      BY <2>1, <3>1, <3>2 DEF Layout
  <2>4. mode # "time_over"
    BY <1>10 DEF StepFact
  <2>5. AtReferee'
    <3>1. ~cycleStopped => time[1] < cycle'
      BY <1>3, <1>8, <2>4
    <3> QED
      BY <1>2, <1>7, <1>8, <3>1 DEF AtReferee
  <2>6. Intended'
    BY <1>2, <1>5, <1>10, <2>1, <2>2 DEF Intended
  <2> QED
    BY <1>2, <1>5, <2>2, <2>3, <2>5, <2>6 DEF AtBody, AtEnd, Thinking
<1> QED
  BY <1>9, <1>10 DEF StepFact

\* An announcement in the middle of a step.
LEMMA MidInv ==
  ASSUME Inv, AnnounceMidStep
  PROVE  Inv'
<1> DEFINE n == Len(inbox)
<1>1. Numbers
  BY NumberTypes DEF Inv
<1>2. /\ UNCHANGED <<synchMode, step, cycle, moved, thought, time, heardStep, decidedStep,
                     decisions, lastDecision, joined, senseTime, think, pc, alive>>
      /\ midStep' = step /\ lastStop' \in {lastStop, step}
      /\ faults' # 0 /\ TypeOK'
      /\ Len(inbox') = n + 1 /\ \A i \in 1 .. n : inbox'[i] = inbox[i]
      /\ inbox'[n + 1].type = "referee" /\ inbox'[n + 1].step = step
      /\ inbox'[n + 1].cycle = cycle
  <2>1. TypeOK
    BY DEF Inv
  <2>2. PICK m \in Mode : inbox'[n + 1] = Message("referee", cycle, m, step)
    BY <2>1, MidFacts
  <2>3. /\ inbox'[n + 1].type = "referee" /\ inbox'[n + 1].step = step
        /\ inbox'[n + 1].cycle = cycle
    BY <2>2 DEF Message
  <2> QED
    BY <2>1, <2>3, MidFacts DEF AgentUnchanged, clock, world
<1>3. /\ n \in Nat /\ step \in Nat /\ cycle \in Nat /\ heardStep \in Nat /\ decidedStep \in Nat
      /\ (inbox = << >> <=> n = 0)
      /\ \A i \in 1 .. n : inbox[i].step \in Nat /\ inbox[i].cycle \in Nat
  BY <1>1 DEF Numbers
<1>4. Clock
  BY DEF Inv
<1>5. \A i \in 1 .. Len(inbox') : i \in 1 .. n \/ i = n + 1
  BY <1>2, <1>3
<1>6. Arrivals'
  <2>1. ASSUME NEW i \in 1 .. Len(inbox')
        PROVE  /\ 1 <= inbox'[i].step /\ inbox'[i].step <= step /\ heardStep <= inbox'[i].step
               /\ inbox'[i].cycle <= cycle
               /\ inbox'[i].step = step => inbox'[i].cycle = cycle
               /\ inbox'[i].step < step /\ moved => inbox'[i].cycle < cycle
               /\ \A j \in 1 .. i :
                    /\ inbox'[j].step <= inbox'[i].step
                    /\ inbox'[j].step = inbox'[i].step => inbox'[j].cycle = inbox'[i].cycle
               /\ inbox'[i].type = "init" =>
                    i = 1 /\ heardStep = 0 /\ inbox'[i].step = 1 /\ inbox'[i].cycle = 0
               /\ inbox'[i].type = "think" => synchMode
    <3>1. CASE i \in 1 .. n
      <4>1. inbox'[i] = inbox[i] /\ \A j \in 1 .. i : inbox'[j] = inbox[j]
        BY <1>2, <1>3, <3>1
      <4> QED
        BY <3>1, <4>1 DEF Inv, Arrivals
    <3>2. CASE i = n + 1
      <4>1. \A j \in 1 .. n : /\ inbox'[j].step <= step
                              /\ inbox'[j].step = step => inbox'[j].cycle = cycle
        BY <1>2 DEF Inv, Arrivals
      <4>2. 1 <= step /\ heardStep <= step /\ step <= step /\ ~(step < step)
            /\ cycle <= cycle
        BY <1>3, <1>4 DEF Clock
      <4>3. \A j \in 1 .. i : j \in 1 .. n \/ j = n + 1
        BY <1>3, <3>2
      <4> QED
        BY <1>2, <3>2, <4>1, <4>2, <4>3
    <3> QED
      BY <1>5, <3>1, <3>2
  <2> QED
    BY <1>2, <2>1 DEF Arrivals
<1>7. Clock'
  <2>1. heardStep = 0 => inbox' # << >> /\ inbox'[1] = inbox[1]
    <3>1. heardStep = 0 => 1 \in 1 .. n /\ n + 1 # 0
      BY <1>3, <1>4 DEF Clock
    <3>2. Len(inbox') # 0 => inbox' # << >>
      OBVIOUS
    <3> QED
      BY <1>2, <3>1, <3>2
  <2>2. step <= step
    BY <1>3
  <2> QED
    BY <1>2, <1>4, <2>1, <2>2 DEF Clock
<1>8. Synched'
  <2> SUFFICES ASSUME synchMode PROVE Synched'
    BY <1>2 DEF Synched
  <2>1. \A i \in 1 .. Len(inbox') :
          /\ inbox'[i].step = step
          /\ inbox'[i].type = "think" => i \in 1 .. n
    BY <1>2, <1>5 DEF Inv, Synched
  <2> QED
    BY <1>2, <2>1 DEF Inv, Synched
<1>9. Accompanied' /\ SettledToDecide' /\ SettledOnceDecided' /\ DecidedOnce' /\ Faultless'
  <2>1. \A i \in 1 .. Len(inbox') : ~(midStep' < inbox'[i].step)
    <3>1. \A i \in 1 .. Len(inbox') : inbox'[i].step <= step' /\ inbox'[i].step \in Nat
      BY <1>2, <1>3, <1>5, <1>6 DEF Arrivals
    <3> QED
      BY <1>2, <1>3, <3>1
  <2>2. ~(midStep' < heardStep') /\ ~(midStep' < decidedStep') /\ midStep' >= decidedStep'
    BY <1>2, <1>3, <1>4 DEF Clock
  <2> QED
    BY <1>2, <2>1, <2>2 DEF Accompanied, SettledToDecide, SettledOnceDecided, DecidedOnce,
                            Faultless
<1> QED
  BY <1>2, <1>6, <1>7, <1>8, <1>9 DEF Inv

\* A see or a (think) of the present step.
LEMMA AddInv ==
  ASSUME Inv, AddSteps
  PROVE  Inv'
<1> DEFINE n == Len(inbox)
<1>1. Numbers
  BY NumberTypes DEF Inv
<1>2. /\ UNCHANGED <<synchMode, step, cycle, mode, moved, lastStop, midStep>>
      /\ UNCHANGED <<pc, time, gameMode, cycleStopped, worldMode, senseTime, seeTime, joined,
                     lastDecision, think, timeouts, alive, intention, heardStep, decidedStep,
                     decisions>>
      /\ TypeOK'
  BY AddFacts DEF Inv, AgentUnchanged, clock, world
<1>3. PICK m : /\ Adds(m) /\ m.step = step /\ m.cycle = cycle
               /\ \/ m.type = "see" /\ thought' = thought
                  \/ m.type = "think" /\ synchMode /\ ~thought /\ thought'
  BY AddFacts DEF Inv, Message
<1>4. /\ n \in Nat /\ step \in Nat /\ cycle \in Nat /\ heardStep \in Nat
      /\ (inbox = << >> <=> n = 0)
  BY <1>1 DEF Numbers
<1>5. Clock /\ heardStep <= step
  BY DEF Inv, Clock
<1>6. CASE inbox' = inbox /\ faults' = faults + 1
  <2>1. faults' # 0
    BY <1>6 DEF Inv, TypeOK
  <2>2. Arrivals' /\ Clock' /\ Accompanied' /\ SettledToDecide' /\ SettledOnceDecided'
        /\ DecidedOnce'
    BY <1>2, <1>6 DEF Inv, Arrivals, Clock, Accompanied, SettledToDecide, SettledOnceDecided,
                      DecidedOnce, Agrees
  <2>3. Synched'
    BY <1>2, <1>3, <1>6 DEF Inv, Synched
  <2>4. Faultless'
    BY <2>1 DEF Faultless
  <2> QED
    BY <1>2, <2>2, <2>3, <2>4 DEF Inv
<1>7. CASE /\ Len(inbox') = n + 1 /\ inbox'[n + 1] = m
           /\ \A i \in 1 .. n : inbox'[i] = inbox[i]
           /\ faults' = faults
  <2>1. \A i \in 1 .. Len(inbox') : i \in 1 .. n \/ i = n + 1
    BY <1>4, <1>7
  <2>2. m.type \in {"see", "think"} /\ (m.type = "think" => synchMode)
    BY <1>3
  <2>3. inbox' # << >> /\ (inbox # << >> => inbox'[1] = inbox[1])
        /\ (inbox = << >> => inbox'[1] = m)
    <3>1. Len(inbox') # 0 => inbox' # << >>
      OBVIOUS
    <3>2. n # 0 => 1 \in 1 .. n
      BY <1>4
    <3> QED
      BY <1>4, <1>7, <3>1, <3>2
  <2>4. Arrivals'
    <3>1. ASSUME NEW i \in 1 .. Len(inbox')
          PROVE  /\ 1 <= inbox'[i].step /\ inbox'[i].step <= step /\ heardStep <= inbox'[i].step
                 /\ inbox'[i].cycle <= cycle
                 /\ inbox'[i].step = step => inbox'[i].cycle = cycle
                 /\ inbox'[i].step < step /\ moved => inbox'[i].cycle < cycle
                 /\ \A j \in 1 .. i :
                      /\ inbox'[j].step <= inbox'[i].step
                      /\ inbox'[j].step = inbox'[i].step => inbox'[j].cycle = inbox'[i].cycle
                 /\ inbox'[i].type = "init" =>
                      i = 1 /\ heardStep = 0 /\ inbox'[i].step = 1 /\ inbox'[i].cycle = 0
                 /\ inbox'[i].type = "think" => synchMode
      <4>1. CASE i \in 1 .. n
        <5>1. inbox'[i] = inbox[i] /\ \A j \in 1 .. i : inbox'[j] = inbox[j]
          BY <1>4, <1>7, <4>1
        <5> QED
          BY <4>1, <5>1 DEF Inv, Arrivals
      <4>2. CASE i = n + 1
        <5>1. \A j \in 1 .. n : /\ inbox'[j].step <= step
                                /\ inbox'[j].step = step => inbox'[j].cycle = cycle
          BY <1>7 DEF Inv, Arrivals
        <5>2. 1 <= step /\ step <= step /\ ~(step < step) /\ cycle <= cycle
          BY <1>4, <1>5 DEF Clock
        <5>3. \A j \in 1 .. i : j \in 1 .. n \/ j = n + 1
          BY <1>4, <4>2
        <5> QED
          BY <1>3, <1>5, <1>7, <2>2, <4>2, <5>1, <5>2, <5>3
      <4> QED
        BY <2>1, <4>1, <4>2
    <3> QED
      BY <1>2, <3>1 DEF Arrivals
  <2>5. Clock'
    BY <1>2, <1>5, <2>3 DEF Clock
  <2>6. Synched'
    <3> SUFFICES ASSUME synchMode PROVE Synched'
      BY <1>2 DEF Synched
    <3>1. /\ decisions < 2 /\ \A i \in 1 .. n : inbox[i].step = step
          /\ pc = "drain" => heardStep = step
          /\ ~thought \/ think => decidedStep < step
          /\ \A i \in 1 .. n : inbox[i].type = "think" =>
               /\ thought /\ ~think /\ decidedStep < step
               /\ \A j \in 1 .. n : inbox[j].type = "think" => j = i
          /\ think => thought
      BY DEF Inv, Synched
    <3>2. \A i \in 1 .. Len(inbox') : inbox'[i].step = step
      BY <1>3, <1>7, <2>1, <3>1
    <3>3. CASE m.type = "see" /\ thought' = thought
      <4>1. \A i \in 1 .. Len(inbox') :
              inbox'[i].type = "think" => i \in 1 .. n /\ inbox[i].type = "think"
        BY <1>7, <2>1, <3>3
      <4> QED
        BY <1>2, <3>1, <3>2, <3>3, <4>1 DEF Synched
    <3>4. CASE m.type = "think" /\ ~thought /\ thought'
      <4>1. \A i \in 1 .. Len(inbox') : inbox'[i].type = "think" => i = n + 1
        BY <1>7, <2>1, <3>1, <3>4
      <4> QED
        BY <1>2, <3>1, <3>2, <3>4, <4>1 DEF Synched
    <3> QED
      BY <1>3, <3>3, <3>4
  <2>7. Accompanied'
    <3> SUFFICES ASSUME NEW i \in 1 .. Len(inbox'),
                        ~synchMode, inbox'[i].type = "referee", midStep < inbox'[i].step
                 PROVE  \/ /\ i < Len(inbox') /\ inbox'[i + 1].type = "sense_body"
                           /\ inbox'[i + 1].step = inbox'[i].step
                        \/ /\ i = 1 /\ pc = "select"
                           /\ alive => lastDecision = time \/ time[2] = 0
      BY <1>2 DEF Accompanied
    <3>1. i \in 1 .. n /\ inbox'[i] = inbox[i]
      BY <1>7, <2>1, <2>2
    <3>2. \/ /\ i < n /\ inbox[i + 1].type = "sense_body" /\ inbox[i + 1].step = inbox[i].step
          \/ /\ i = 1 /\ pc = "select" /\ (alive => lastDecision = time \/ time[2] = 0)
      BY <3>1 DEF Inv, Accompanied
    <3>3. i < n => inbox'[i + 1] = inbox[i + 1] /\ i < Len(inbox')
      BY <1>4, <1>7, <3>1
    <3> QED
      BY <3>1, <3>2, <3>3
  <2>8. Agrees => Agrees'
    <3> SUFFICES ASSUME Agrees, NEW i \in 1 .. Len(inbox'), inbox'[i].step = heardStep
                 PROVE  Settled(cycleStopped, time, inbox'[i].cycle)
      BY <1>2 DEF Agrees
    <3>1. CASE i \in 1 .. n
      BY <1>7, <3>1 DEF Agrees
    <3>2. CASE i = n + 1
      BY <1>3, <1>7, <3>2 DEF Agrees
    <3> QED
      BY <2>1, <3>1, <3>2
  <2>9. SettledToDecide'
    BY <1>2, <2>3, <2>8 DEF Inv, SettledToDecide
  <2>10. SettledOnceDecided'
    <3> SUFFICES ASSUME ~synchMode, decidedStep = heardStep, decisions > 0, midStep < decidedStep
                 PROVE  /\ Agrees' /\ lastDecision = time
                        /\ \A i \in 1 .. Len(inbox') :
                             inbox'[i].step = heardStep
                               => inbox'[i].type \notin {"referee", "sense_body"}
      BY <1>2 DEF SettledOnceDecided
    <3>1. /\ Agrees /\ lastDecision = time
          /\ \A i \in 1 .. n :
               inbox[i].step = heardStep => inbox[i].type \notin {"referee", "sense_body"}
      BY DEF Inv, SettledOnceDecided
    <3> QED
      BY <1>7, <2>1, <2>2, <2>8, <3>1
  <2>11. DecidedOnce'
    BY <1>2 DEF Inv, DecidedOnce
  <2>12. Faultless'
    <3> SUFFICES ASSUME faults = 0
                 PROVE  /\ midStep = 0 /\ (First("init")' => senseTime = NoTime)
                        /\ Layout' /\ AtReferee' /\ AtBody' /\ AtEnd' /\ Intended' /\ Thinking'
      BY <1>2, <1>7 DEF Faultless
    <3>1. /\ midStep = 0 /\ (First("init") => senseTime = NoTime)
          /\ Layout /\ AtReferee /\ AtBody /\ AtEnd /\ Intended /\ Thinking
      BY DEF Inv, Faultless
    <3>2. /\ First("init")' <=> First("init")
          /\ First("referee")' <=> First("referee")
          /\ First("sense_body")' <=> First("sense_body")
          /\ First("referee") => inbox'[1] = inbox[1]
      BY <2>2, <2>3 DEF First
    <3>3. AllHeard' <=> AllHeard
      BY <3>2 DEF AllHeard
    <3>4. Layout'
      <4> SUFFICES ASSUME NEW i \in 1 .. Len(inbox')
                   PROVE  /\ inbox'[i].step = step
                          /\ inbox'[i].type = "referee" =>
                               /\ i = 1 /\ Len(inbox') > 1 /\ inbox'[2].type = "sense_body"
                               /\ inbox'[i].mode = mode
                          /\ inbox'[i].type = "sense_body" =>
                               /\ step >= 2
                               /\ i = 1 \/ (i = 2 /\ inbox'[1].type = "referee")
                          /\ inbox'[i].type = "init" =>
                               step = 1 /\ inbox'[i].mode = mode /\ mode # "time_over"
        BY <1>2 DEF Layout
      <4>1. CASE i \in 1 .. n
        <5>1. /\ inbox[i].step = step
              /\ inbox[i].type = "referee" =>
                   i = 1 /\ n > 1 /\ inbox[2].type = "sense_body" /\ inbox[i].mode = mode
              /\ inbox[i].type = "sense_body" =>
                   step >= 2 /\ (i = 1 \/ (i = 2 /\ inbox[1].type = "referee"))
              /\ inbox[i].type = "init" => step = 1 /\ inbox[i].mode = mode /\ mode # "time_over"
          BY <3>1, <4>1 DEF Layout
        <5>2. inbox'[i] = inbox[i] /\ (n > 1 => inbox'[2] = inbox[2] /\ Len(inbox') > 1)
              /\ (i = 2 => inbox'[1] = inbox[1])
          BY <1>4, <1>7, <4>1
        <5> QED
          BY <5>1, <5>2
      <4>2. CASE i = n + 1
        BY <1>3, <1>7, <2>2, <4>2
      <4> QED
        BY <2>1, <4>1, <4>2
    <3>5. AtReferee' /\ AtBody' /\ AtEnd' /\ Intended'
      BY <1>2, <3>1, <3>2, <3>3 DEF AtReferee, AtBody, AtEnd, Intended
    <3>6. Thinking'
      <4> SUFFICES ASSUME synchMode, thought', step > 1
                   PROVE  \/ decidedStep = step \/ think
                          \/ \E i \in 1 .. Len(inbox') : inbox'[i].type = "think"
        BY <1>2 DEF Thinking
      <4>1. n + 1 \in 1 .. Len(inbox') /\ \A i \in 1 .. n : i \in 1 .. Len(inbox')
        BY <1>4, <1>7
      <4>2. CASE thought
        <5>1. \/ decidedStep = step \/ think
              \/ \E i \in 1 .. n : inbox[i].type = "think"
          BY <3>1, <4>2 DEF Thinking
        <5> QED
          BY <1>7, <4>1, <5>1
      <4>3. CASE ~thought
        BY <1>3, <1>7, <4>1, <4>3
      <4> QED
        BY <4>2, <4>3
    <3> QED
      BY <3>1, <3>2, <3>4, <3>5, <3>6
  <2> QED
    BY <1>2, <2>4, <2>5, <2>6, <2>7, <2>9, <2>10, <2>11, <2>12 DEF Inv
<1> QED
  BY <1>3, <1>6, <1>7 DEF Adds

-----------------------------------------------------------------------------
(* The invariant and the player's steps.                                   *)

\* The player decides, or does not.
LEMMA ActInv ==
  ASSUME Inv, ActSteps
  PROVE  Inv'
<1>1. Numbers /\ TypeOK /\ Clock /\ Synched /\ SettledToDecide /\ SettledOnceDecided
  BY NumberTypes DEF Inv
<1>2. /\ inbox = << >> /\ Len(inbox) = 0 /\ pc' = "select" /\ inbox' = inbox
      /\ UNCHANGED <<synchMode, step, cycle, mode, moved, thought, lastStop, midStep, faults>>
      /\ UNCHANGED <<time, gameMode, cycleStopped, worldMode, senseTime, seeTime, joined, heardStep>>
      /\ alive' => alive
      /\ TypeOK'
  BY <1>1, ActFacts DEF server, clock, world
<1>3. ~think'
  <2>1. think' = FALSE \/ (pc = "select" /\ think' = think)
    BY <1>1, ActFacts
  <2> QED
    BY <1>1, <2>1 DEF Clock
<1>4. \/ UNCHANGED <<lastDecision, decidedStep, decisions, intention>> /\ ~think
      \/ Decides
  BY <1>1, ActFacts DEF Clock
<1>5. ASSUME Decides
      PROVE  /\ lastDecision' = time /\ decidedStep' = heardStep
             /\ decisions' = IF heardStep # decidedStep THEN 1
                             ELSE IF decisions = 0 THEN 1 ELSE 2
             /\ intention' \in {0, intention, heardStep}
             /\ IF synchMode THEN heardStep = step /\ decidedStep < step /\ thought
                ELSE lastDecision # time
  BY <1>1, <1>5 DEF Decides, Clock, Synched
<1>6. /\ step \in Nat /\ heardStep \in Nat /\ decidedStep \in Nat /\ lastStop \in Nat
      /\ midStep \in Nat /\ synchMode \in BOOLEAN /\ decisions \in 0 .. 2
  BY <1>1 DEF Numbers
<1>7. Arrivals' /\ Accompanied'
  BY <1>2 DEF Arrivals, Accompanied
<1>8. Clock'
  <2>1. CASE UNCHANGED <<lastDecision, decidedStep, decisions, intention>> /\ ~think
    BY <1>1, <1>2, <1>3, <2>1 DEF Clock
  <2>2. CASE Decides
    <3>1. lastDecision' = time /\ decidedStep' = heardStep /\ heardStep <= heardStep
      BY <1>5, <1>6, <2>2
    <3> QED
      BY <1>1, <1>2, <1>3, <3>1 DEF Clock
  <2> QED
    BY <1>4, <2>1, <2>2
<1>9. Synched'
  <2> SUFFICES ASSUME synchMode PROVE Synched'
    BY <1>2 DEF Synched
  <2>1. CASE UNCHANGED <<lastDecision, decidedStep, decisions, intention>> /\ ~think
    BY <1>1, <1>2, <1>3, <2>1 DEF Synched
  <2>2. CASE Decides
    <3>1. decisions' = 1 /\ thought
      BY <1>5, <1>6, <2>2
    <3> QED
      BY <1>2, <1>3, <3>1 DEF Synched
  <2> QED
    BY <1>4, <2>1, <2>2
<1>10. Agrees' <=> Agrees
  BY <1>2 DEF Agrees
<1>11. SettledToDecide'
  <2>1. CASE UNCHANGED <<lastDecision, decidedStep, decisions, intention>> /\ ~think
    BY <1>1, <1>2, <1>10, <2>1 DEF SettledToDecide
  <2>2. CASE Decides
    BY <1>2, <1>5, <2>2 DEF SettledToDecide
  <2> QED
    BY <1>4, <2>1, <2>2
<1>12. SettledOnceDecided'
  <2>1. CASE UNCHANGED <<lastDecision, decidedStep, decisions, intention>> /\ ~think
    BY <1>1, <1>2, <1>10, <2>1 DEF SettledOnceDecided
  <2>2. CASE Decides
    <3>1. ~synchMode /\ midStep < heardStep => Agrees
      BY <1>1, <1>2, <1>5, <2>2 DEF SettledToDecide
    <3> QED
      BY <1>2, <1>5, <1>10, <2>2, <3>1 DEF SettledOnceDecided
  <2> QED
    BY <1>4, <2>1, <2>2
<1>13. DecidedOnce'
  <2>1. CASE UNCHANGED <<lastDecision, decidedStep, decisions, intention>> /\ ~think
    BY <1>2, <2>1 DEF Inv, DecidedOnce
  <2>2. CASE Decides
    <3>1. CASE heardStep # decidedStep \/ decisions = 0
      BY <1>5, <2>2, <3>1 DEF DecidedOnce
    <3>2. CASE heardStep = decidedStep /\ decisions # 0
      <4>1. ~synchMode /\ lastDecision # time
        BY <1>5, <1>6, <2>2, <3>2
      <4>2. ~(midStep < decidedStep)
        BY <1>1, <1>6, <3>2, <4>1 DEF SettledOnceDecided
      <4>3. midStep' >= decidedStep'
        BY <1>2, <1>5, <1>6, <2>2, <3>2, <4>2
      <4> QED
        BY <4>3 DEF DecidedOnce
    <3> QED
      BY <3>1, <3>2
  <2> QED
    BY <1>4, <2>1, <2>2
<1>14. Faultless'
  <2> SUFFICES ASSUME faults = 0
               PROVE  /\ midStep = 0 /\ (First("init")' => senseTime = NoTime)
                      /\ Layout' /\ AtReferee' /\ AtBody' /\ AtEnd' /\ Intended' /\ Thinking'
    BY <1>2 DEF Faultless
  <2>1. /\ midStep = 0 /\ AtEnd /\ Intended /\ Thinking
    BY DEF Inv, Faultless
  <2>2. \A type : ~First(type)' /\ ~First(type)
    BY <1>2 DEF First
  <2>3. AllHeard /\ heardStep = step
    BY <2>1, <2>2 DEF AllHeard, AtEnd
  <2>4. lastStop <= heardStep
    BY <1>1, <2>3 DEF Clock
  <2>5. \/ lastDecision' = lastDecision /\ decidedStep' = decidedStep /\ intention' = intention
           /\ ~think
        \/ decidedStep' = step /\ intention' \in {0, intention, heardStep}
    BY <1>4, <1>5, <2>3
  <2>6. AtEnd'
    BY <1>2, <2>1, <2>3, <2>5 DEF AtEnd
  <2>7. Intended'
    BY <1>2, <2>1, <2>2, <2>4, <2>5 DEF Intended
  <2>8. Thinking'
    BY <1>2, <2>1, <2>5 DEF Thinking
  <2>9. Layout'
    BY <1>2 DEF Layout
  <2> QED
    BY <2>1, <2>2, <2>6, <2>7, <2>8, <2>9 DEF AtReferee, AtBody
<1> QED
  BY <1>2, <1>7, <1>8, <1>9, <1>11, <1>12, <1>13, <1>14 DEF Inv

\* Reading a message.
LEMMA ReadArrivals ==
  ASSUME Inv, ReadSteps
  PROVE  Arrivals' /\ Clock' /\ Synched' /\ Accompanied'
<1> DEFINE n == Len(inbox)
           m == inbox[1]
<1>1. Numbers /\ TypeOK /\ Arrivals /\ Clock /\ Synched /\ Accompanied
  BY NumberTypes DEF Inv
<1>2. /\ n \in Nat \ {0}
      /\ Len(inbox') = n - 1 /\ \A i \in 1 .. n - 1 : inbox'[i] = inbox[i + 1]
      /\ pc' = "drain" /\ heardStep' = m.step
      /\ UNCHANGED <<synchMode, step, cycle, moved, thought, lastStop, midStep>>
      /\ UNCHANGED <<lastDecision, decidedStep, decisions>>
      /\ time' = IF m.type \in {"init", "think"} THEN time
                 ELSE UpdatedTime(m.cycle, m.type = "sense_body")
      /\ senseTime' = IF m.type = "sense_body" THEN time' ELSE senseTime
      /\ think' = (think \/ m.type = "think")
      /\ joined' = (joined \/ m.type = "init")
  BY <1>1, ReadFacts DEF server
<1>3. /\ 1 \in 1 .. n /\ 1 <= m.step /\ m.step <= step /\ heardStep <= m.step
      /\ m.cycle <= cycle /\ m.cycle \in Nat /\ m.step \in Nat
      /\ m.step = step => m.cycle = cycle
      /\ m.step < step /\ moved => m.cycle < cycle
      /\ m.type = "init" => heardStep = 0 /\ m.step = 1 /\ m.cycle = 0
      /\ m.type = "think" => synchMode
  <2>1. 1 \in 1 .. n
    BY <1>2
  <2> QED
    BY <1>1, <2>1 DEF Arrivals, Numbers
<1>4. /\ step \in Nat /\ cycle \in Nat /\ heardStep \in Nat /\ decidedStep \in Nat
      /\ synchMode \in BOOLEAN /\ think \in BOOLEAN /\ joined \in BOOLEAN
      /\ \A i \in 1 .. n : inbox[i].step \in Nat /\ inbox[i].cycle \in Nat
  BY <1>1 DEF Numbers
<1>5. \A i \in 1 .. n - 1 : i + 1 \in 1 .. n /\ i + 1 # 1
  BY <1>2
<1>6. /\ \A b \in BOOLEAN : UpdatedTime(m.cycle, b)[1] = m.cycle
      /\ time[2] = 0 => UpdatedTime(m.cycle, FALSE)[2] = 0
  BY <1>1, <1>3, TimeFacts
<1> HIDE DEF n, m
<1>7. Arrivals'
  <2> SUFFICES ASSUME NEW i \in 1 .. n - 1
               PROVE  /\ 1 <= inbox'[i].step /\ inbox'[i].step <= step
                      /\ m.step <= inbox'[i].step
                      /\ inbox'[i].cycle <= cycle
                      /\ inbox'[i].step = step => inbox'[i].cycle = cycle
                      /\ inbox'[i].step < step /\ moved => inbox'[i].cycle < cycle
                      /\ \A j \in 1 .. i :
                           /\ inbox'[j].step <= inbox'[i].step
                           /\ inbox'[j].step = inbox'[i].step =>
                                inbox'[j].cycle = inbox'[i].cycle
                      /\ inbox'[i].type # "init"
                      /\ inbox'[i].type = "think" => synchMode
    BY <1>2 DEF Arrivals
  <2>1. /\ 1 <= inbox[i + 1].step /\ inbox[i + 1].step <= step
        /\ inbox[i + 1].cycle <= cycle
        /\ inbox[i + 1].step = step => inbox[i + 1].cycle = cycle
        /\ inbox[i + 1].step < step /\ moved => inbox[i + 1].cycle < cycle
        /\ \A j \in 1 .. i + 1 :
             /\ inbox[j].step <= inbox[i + 1].step
             /\ inbox[j].step = inbox[i + 1].step => inbox[j].cycle = inbox[i + 1].cycle
        /\ inbox[i + 1].type # "init"
        /\ inbox[i + 1].type = "think" => synchMode
    BY <1>1, <1>5 DEF Arrivals, n
  <2>2. 1 \in 1 .. i + 1 /\ \A j \in 1 .. i : j + 1 \in 1 .. i + 1 /\ j \in 1 .. n - 1
    BY <1>2
  <2>3. inbox'[i] = inbox[i + 1] /\ \A j \in 1 .. i : inbox'[j] = inbox[j + 1]
    BY <1>2, <2>2
  <2> QED
    BY <2>1, <2>2, <2>3 DEF m
<1>8. Clock'
  <2>1. /\ 1 <= step /\ m.step <= step /\ decidedStep <= m.step /\ midStep <= step
        /\ lastStop <= step /\ lastDecision[1] <= cycle /\ m.step # 0
        /\ step = 1 => cycle = 0 /\ ~moved
        /\ decidedStep < step /\ moved => lastDecision[1] < cycle
    BY <1>1, <1>3, <1>4 DEF Clock
  <2>2. joined'
    <3>1. heardStep = 0 => m.type = "init"
      BY <1>1 DEF Clock, m
    <3>2. heardStep # 0 => joined
      BY <1>1, <1>4 DEF Clock
    <3> QED
      BY <1>2, <3>1, <3>2
  <2>3. /\ 0 <= time'[1] /\ time'[1] <= cycle
        /\ m.step < step /\ moved => time'[1] < cycle
        /\ ~synchMode /\ m.step = step => time'[1] = cycle
    <3>1. CASE m.type \notin {"init", "think"}
      <4>1. time'[1] = m.cycle
        BY <1>2, <1>6, <3>1
      <4> QED
        BY <1>3, <4>1
    <3>2. CASE m.type \in {"init", "think"}
      <4>1. time' = time
        BY <1>2, <3>2
      <4>2. m.step < step => heardStep < step
        BY <1>3, <1>4
      <4>3. m.type = "init" => time = <<0, 0>> /\ m.cycle = 0
        BY <1>1, <1>3 DEF Clock
      <4>4. 0 <= time[1] /\ time[1] <= cycle /\ (heardStep < step /\ moved => time[1] < cycle)
        BY <1>1 DEF Clock
      <4>5. ~synchMode /\ m.step = step => time[1] = cycle
        BY <1>3, <3>2, <4>3
      <4> QED
        BY <4>1, <4>2, <4>4, <4>5
    <3> QED
      BY <3>1, <3>2
  <2>4. senseTime' = NoTime => time'[2] = 0
    <3>1. CASE m.type = "sense_body"
      <4>1. time'[1] = m.cycle /\ senseTime' = time'
        BY <1>2, <1>6, <3>1
      <4> QED
        BY <1>3, <4>1 DEF NoTime
    <3>2. CASE m.type # "sense_body"
      <4>1. senseTime' = senseTime /\ time' \in {time, UpdatedTime(m.cycle, FALSE)}
        BY <1>2, <3>2
      <4> QED
        BY <1>1, <1>6, <4>1 DEF Clock
    <3> QED
      BY <3>1, <3>2
  <2>5. think' => synchMode
    BY <1>1, <1>2, <1>3 DEF Clock
  <2> QED
    BY <1>2, <2>1, <2>2, <2>3, <2>4, <2>5 DEF Clock
<1>9. Synched'
  <2> SUFFICES ASSUME synchMode
               PROVE  /\ decisions < 2
                      /\ \A i \in 1 .. n - 1 : inbox[i + 1].step = step
                      /\ m.step = step
                      /\ ~thought \/ think' => decidedStep < step
                      /\ \A i \in 1 .. n - 1 : inbox[i + 1].type = "think" =>
                           /\ thought /\ ~think' /\ decidedStep < step
                           /\ \A j \in 1 .. n - 1 : inbox[j + 1].type = "think" => j = i
                      /\ think' => thought
    BY <1>2 DEF Synched
  <2>1. /\ decisions < 2 /\ \A i \in 1 .. n : inbox[i].step = step
        /\ ~thought \/ think => decidedStep < step
        /\ \A i \in 1 .. n : inbox[i].type = "think" =>
             /\ thought /\ ~think /\ decidedStep < step
             /\ \A j \in 1 .. n : inbox[j].type = "think" => j = i
        /\ think => thought
    BY <1>1 DEF Synched, n
  <2>2. think' => think \/ m.type = "think"
    BY <1>2
  <2>3. m.type = "think" => /\ thought /\ decidedStep < step
                            /\ \A i \in 1 .. n - 1 : inbox[i + 1].type # "think"
    BY <1>3, <1>5, <2>1 DEF m
  <2>4. \A i \in 1 .. n - 1 : inbox[i + 1].type = "think" =>
          /\ thought /\ ~think /\ decidedStep < step
          /\ \A j \in 1 .. n - 1 : inbox[j + 1].type = "think" => j + 1 = i + 1
    BY <1>5, <2>1
  <2>5. \A i, j \in 1 .. n - 1 : j + 1 = i + 1 => j = i
    BY <1>2
  <2>6. m.step = step /\ \A i \in 1 .. n - 1 : inbox[i + 1].step = step
    BY <1>3, <1>5, <2>1 DEF m
  <2> QED
    BY <2>1, <2>2, <2>3, <2>4, <2>5, <2>6
<1>10. Accompanied'
  <2> SUFFICES ASSUME NEW i \in 1 .. n - 1,
                      ~synchMode, inbox[i + 1].type = "referee", midStep < inbox[i + 1].step
               PROVE  /\ i < n - 1 /\ inbox'[i + 1].type = "sense_body"
                      /\ inbox'[i + 1].step = inbox[i + 1].step
    BY <1>2 DEF Accompanied
  <2>1. /\ i + 1 < n /\ inbox[i + 1 + 1].type = "sense_body"
        /\ inbox[i + 1 + 1].step = inbox[i + 1].step
    BY <1>1, <1>5 DEF Accompanied, n
  <2>2. i < n - 1 /\ i + 1 \in 1 .. n - 1
    BY <1>2, <2>1
  <2> QED
    BY <1>2, <2>1, <2>2
<1> QED
  BY <1>7, <1>8, <1>9, <1>10

\* With a clock that agrees with the message read, the player agrees with the
\* step.
LEMMA ReadAgrees ==
  ASSUME Inv, ReadSteps, Settled(cycleStopped', time', inbox[1].cycle)
  PROVE  Agrees'
<1> DEFINE n == Len(inbox)
           m == inbox[1]
<1>1. TypeOK /\ Arrivals
  BY DEF Inv
<1>2. /\ n \in Nat \ {0}
      /\ Len(inbox') = n - 1 /\ \A i \in 1 .. n - 1 : inbox'[i] = inbox[i + 1]
      /\ heardStep' = m.step /\ UNCHANGED <<step, cycle>>
  BY <1>1, ReadFacts DEF server
<1>3. /\ m.step = step => m.cycle = cycle
      /\ \A i \in 2 .. n : inbox[i].step = m.step => inbox[i].cycle = m.cycle
  <2>1. 1 \in 1 .. n /\ \A i \in 2 .. n : i \in 1 .. n /\ 1 \in 1 .. i
    BY <1>2
  <2>2. \A i \in 1 .. n : \A j \in 1 .. i :
          inbox[j].step = inbox[i].step => inbox[j].cycle = inbox[i].cycle
    BY <1>1 DEF Arrivals
  <2>3. \A i \in 1 .. n : inbox[i].step = step => inbox[i].cycle = cycle
    BY <1>1 DEF Arrivals
  <2> QED
    BY <2>1, <2>2, <2>3
<1>4. \A i \in 1 .. n - 1 : i + 1 \in 2 .. n
  BY <1>2
<1> HIDE DEF n
<1>5. Settled(cycleStopped', time', m.cycle)
  OBVIOUS
<1> HIDE DEF m
<1>6. /\ heardStep' = step' => Settled(cycleStopped', time', cycle')
      /\ \A i \in 1 .. Len(inbox') :
           inbox'[i].step = heardStep' => Settled(cycleStopped', time', inbox'[i].cycle)
  BY <1>2, <1>3, <1>4, <1>5
<1> QED
  BY <1>6 DEF Agrees, Settled

LEMMA ReadKept ==
  ASSUME Inv, ReadSteps
  PROVE  SettledToDecide' /\ SettledOnceDecided' /\ DecidedOnce'
<1> DEFINE n == Len(inbox)
           m == inbox[1]
           c == m.cycle
<1>1. /\ Numbers /\ TypeOK /\ Arrivals /\ Clock /\ Accompanied /\ SettledOnceDecided
      /\ DecidedOnce
  BY NumberTypes DEF Inv
<1>2. /\ n \in Nat \ {0} /\ m \in Message_
      /\ Len(inbox') = n - 1 /\ \A i \in 1 .. n - 1 : inbox'[i] = inbox[i + 1]
      /\ heardStep' = m.step
      /\ UNCHANGED <<synchMode, step, cycle, midStep, lastDecision, decidedStep, decisions>>
      /\ time' = IF m.type \in {"init", "think"} THEN time
                 ELSE UpdatedTime(m.cycle, m.type = "sense_body")
      /\ cycleStopped' = IF m.type \in {"init", "referee"}
                         THEN IsServerCycleStoppedMode(m.mode) ELSE cycleStopped
      /\ alive \/ pc = "drain"
  BY <1>1, ReadFacts DEF server
<1>3. /\ 1 \in 1 .. n /\ heardStep <= m.step /\ m.step \in Nat /\ c \in Nat
      /\ m.type = "init" => heardStep = 0 /\ m.step = 1 /\ c = 0
      /\ m.type = "think" => synchMode
      /\ m.type \in {"init", "sense_body", "see", "referee", "think"}
  <2>1. 1 \in 1 .. n
    BY <1>2
  <2> QED
    BY <1>1, <1>2, <2>1 DEF Arrivals, Numbers
<1>4. /\ heardStep \in Nat /\ decidedStep \in Nat /\ midStep \in Nat /\ synchMode \in BOOLEAN
      /\ cycleStopped \in BOOLEAN /\ time = <<time[1], time[2]>>
  BY <1>1 DEF Numbers
<1>5. \A b \in BOOLEAN :
        /\ Settled(cycleStopped, UpdatedTime(c, b), c)
        /\ ~b /\ Settled(cycleStopped, time, c) => UpdatedTime(c, b) = time
        /\ cycleStopped /\ time[1] = c /\ ~b => UpdatedTime(c, b) = time
        /\ ~cycleStopped \/ time[1] # c => UpdatedTime(c, b) = <<c, 0>>
  BY <1>1, <1>3, TimeFacts
<1>6. \A stopped : Settled(stopped, <<c, 0>>, c)
  BY DEF Settled
<1>7. Settled(cycleStopped', time', c) => Agrees'
  BY ReadAgrees
<1> HIDE DEF n, m, c
<1>8. ASSUME ~synchMode, midStep < m.step
      PROVE  \/ Settled(cycleStopped', time', c)
             \/ lastDecision = time'
             \/ 1 \in 1 .. n - 1 /\ inbox'[1].type = "sense_body" /\ inbox'[1].step = m.step
  <2>1. CASE m.type \in {"see", "sense_body"}
    BY <1>2, <1>5, <2>1 DEF c
  <2>2. CASE m.type = "init"
    <3>1. time' = <<c, 0>>
      BY <1>1, <1>2, <1>3, <2>2 DEF Clock
    <3> QED
      BY <1>6, <3>1
  <2>3. CASE m.type = "referee"
    <3>1. \/ 1 < n /\ inbox[1 + 1].type = "sense_body" /\ inbox[1 + 1].step = m.step
          \/ pc = "select" /\ (alive => lastDecision = time \/ time[2] = 0)
      BY <1>1, <1>3, <1>8, <2>3 DEF Accompanied, n, m
    <3>2. CASE 1 < n /\ inbox[1 + 1].type = "sense_body" /\ inbox[1 + 1].step = m.step
      <4>1. 1 \in 1 .. n - 1
        BY <1>2, <3>2
      <4> QED
        BY <1>2, <3>2, <4>1
    <3>3. CASE pc = "select" /\ (alive => lastDecision = time \/ time[2] = 0)
      <4>1. lastDecision = time \/ time[2] = 0
        BY <1>2, <3>3
      <4>2. time' = UpdatedTime(c, FALSE)
        BY <1>2, <2>3 DEF c
      <4>3. CASE cycleStopped /\ time[1] = c
        <5>1. time' = time
          BY <1>5, <4>2, <4>3
        <5>2. time[2] = 0 => time = <<c, 0>>
          BY <1>4, <4>3
        <5> QED
          BY <1>6, <4>1, <5>1, <5>2
      <4>4. CASE ~(cycleStopped /\ time[1] = c)
        <5>1. time' = <<c, 0>>
          BY <1>5, <4>2, <4>4
        <5> QED
          BY <1>6, <5>1
      <4> QED
        BY <4>3, <4>4
    <3> QED
      BY <3>1, <3>2, <3>3
  <2> QED
    BY <1>3, <1>8, <2>1, <2>2, <2>3
<1>9. SettledToDecide'
  <2> SUFFICES ASSUME ~synchMode, midStep < m.step
               PROVE  \/ Agrees' \/ lastDecision = time'
                      \/ inbox' # << >> /\ inbox'[1].type = "sense_body" /\ inbox'[1].step = m.step
    BY <1>2 DEF SettledToDecide
  <2>1. 1 \in 1 .. n - 1 => inbox' # << >>
    BY <1>2
  <2> QED
    BY <1>7, <1>8, <2>1
<1>10. SettledOnceDecided'
  <2> SUFFICES ASSUME ~synchMode, decidedStep = m.step, decisions > 0, midStep < decidedStep
               PROVE  /\ Agrees' /\ lastDecision = time'
                      /\ \A i \in 1 .. n - 1 :
                           inbox'[i].step = m.step => inbox'[i].type \notin {"referee", "sense_body"}
    BY <1>2 DEF SettledOnceDecided
  <2>1. heardStep = decidedStep
    <3>1. decidedStep <= heardStep
      BY <1>1 DEF Clock
    <3> QED
      BY <1>3, <1>4, <3>1
  <2>2. /\ Agrees /\ lastDecision = time
        /\ \A i \in 1 .. n :
             inbox[i].step = m.step => inbox[i].type \notin {"referee", "sense_body"}
    BY <1>1, <2>1 DEF SettledOnceDecided, n
  <2>3. Settled(cycleStopped, time, c)
    BY <1>3, <2>1, <2>2 DEF Agrees, c, n, m
  <2>4. m.type = "see"
    <3>1. m.type \notin {"referee", "sense_body"}
      BY <1>3, <2>2 DEF m
    <3>2. m.type # "init"
      BY <1>3, <1>4, <2>1
    <3> QED
      BY <1>3, <3>1, <3>2
  <2>5. time' = time /\ cycleStopped' = cycleStopped
    <3>1. time' = UpdatedTime(c, FALSE) /\ cycleStopped' = cycleStopped
      BY <1>2, <2>4 DEF c
    <3> QED
      BY <1>5, <2>3, <3>1
  <2>6. \A i \in 1 .. n - 1 : i + 1 \in 1 .. n
    BY <1>2
  <2> QED
    BY <1>2, <1>7, <2>2, <2>3, <2>5, <2>6
<1>11. DecidedOnce'
  BY <1>1, <1>2 DEF DecidedOnce
<1> QED
  BY <1>9, <1>10, <1>11

\* While nothing is lost or late, reading goes through the announcement and the
\* sense_body to what follows them.
LEMMA ReadFaultless ==
  ASSUME Inv, ReadSteps
  PROVE  Faultless'
<1> SUFFICES ASSUME faults = 0
             PROVE  /\ midStep' = 0 /\ (First("init")' => senseTime' = NoTime)
                    /\ Layout' /\ AtReferee' /\ AtBody' /\ AtEnd' /\ Intended' /\ Thinking'
  <2>1. TypeOK
    BY DEF Inv
  <2>2. faults' = faults
    BY <2>1, ReadFacts DEF server
  <2> QED
    BY <2>2 DEF Faultless
<1> DEFINE n == Len(inbox)
           m == inbox[1]
           c == m.cycle
<1>1. /\ Numbers /\ TypeOK /\ Arrivals /\ Clock
      /\ midStep = 0 /\ (First("init") => senseTime = NoTime)
      /\ Layout /\ AtReferee /\ AtBody /\ AtEnd /\ Intended /\ Thinking
  BY NumberTypes DEF Inv, Faultless
<1>2. /\ n \in Nat \ {0} /\ m \in Message_
      /\ Len(inbox') = n - 1 /\ \A i \in 1 .. n - 1 : inbox'[i] = inbox[i + 1]
      /\ heardStep' = m.step
      /\ UNCHANGED <<synchMode, step, cycle, mode, moved, thought, lastStop, midStep>>
      /\ UNCHANGED <<lastDecision, decidedStep, decisions>>
      /\ time' = IF m.type \in {"init", "think"} THEN time
                 ELSE UpdatedTime(m.cycle, m.type = "sense_body")
      /\ senseTime' = IF m.type = "sense_body" THEN time' ELSE senseTime
      /\ think' = (think \/ m.type = "think")
      /\ cycleStopped' = IF m.type \in {"init", "referee"}
                         THEN IsServerCycleStoppedMode(m.mode) ELSE cycleStopped
      /\ alive' = (alive /\ ~(m.type = "referee" /\ m.mode = "time_over"))
      /\ IF m.type = "referee" /\ m.mode # "play_on"
         THEN m.mode # "time_over" => intention' = 0
         ELSE intention' = intention
  BY <1>1, ReadFacts DEF server
<1>3. /\ 1 \in 1 .. n /\ m.step = step /\ c = cycle /\ c \in Nat
      /\ m.type = "init" => heardStep = 0 /\ step = 1 /\ c = 0 /\ m.mode = mode
                            /\ mode # "time_over"
      /\ m.type \in {"init", "sense_body", "see", "referee", "think"}
      /\ m.type = "referee" =>
           n > 1 /\ inbox[1 + 1].type = "sense_body" /\ m.mode = mode
      /\ m.type = "sense_body" => step >= 2
  <2>1. 1 \in 1 .. n
    BY <1>2
  <2> QED
    BY <1>1, <1>2, <2>1 DEF Arrivals, Numbers, Layout
<1>4. /\ \A i \in 1 .. n - 1 : i + 1 \in 1 .. n /\ i + 1 # 1
      /\ (inbox # << >>) /\ (inbox' # << >> <=> 1 \in 1 .. n - 1)
  <2>1. Len(inbox') \in Nat /\ (inbox' = << >> <=> Len(inbox') = 0)
    <3>1. TypeOK'
      BY <1>1, ReadFacts
    <3>2. Numbers'
      BY <3>1, NumberTypes, PTL
    <3> QED
      BY <3>2 DEF Numbers
  <2> QED
    BY <1>1, <1>2, <2>1 DEF Numbers
<1>5. /\ step \in Nat /\ cycle \in Nat /\ lastStop \in Nat /\ decidedStep \in Nat
      /\ cycleStopped \in BOOLEAN /\ synchMode \in BOOLEAN /\ thought \in BOOLEAN
      /\ think \in BOOLEAN /\ alive \in BOOLEAN /\ time = <<time[1], time[2]>>
      /\ time[1] \in Int /\ time[2] \in Nat /\ lastDecision[1] \in Int
  BY <1>1 DEF Numbers
<1>6. \A b \in BOOLEAN :
        /\ UpdatedTime(c, b)[1] = c
        /\ Settled(cycleStopped, UpdatedTime(c, b), c)
        /\ ~b /\ Settled(cycleStopped, time, c) => UpdatedTime(c, b) = time
        /\ b /\ cycleStopped /\ time[1] = c => /\ UpdatedTime(c, b)[2] > 0
                                               /\ UpdatedTime(c, b) # time
        /\ cycleStopped /\ time[1] = c /\ ~b => UpdatedTime(c, b) = time
        /\ ~cycleStopped \/ time[1] # c => UpdatedTime(c, b) = <<c, 0>>
  BY <1>1, <1>3, TimeFacts
<1>7. \A type : First(type) <=> m.type = type
  BY <1>4 DEF First
<1>8. \A type : First(type)' <=> 1 \in 1 .. n - 1 /\ inbox[1 + 1].type = type
  BY <1>2, <1>4 DEF First
<1> HIDE DEF n, m, c
<1>9. /\ \A i \in 1 .. n - 1 :
           /\ inbox[i + 1].step = step
           /\ inbox[i + 1].type # "init" /\ inbox[i + 1].type # "referee"
           /\ inbox[i + 1].type = "sense_body" => step >= 2 /\ i = 1 /\ m.type = "referee"
  <2>1. \A i \in 1 .. n - 1 :
          /\ inbox[i + 1].step = step
          /\ inbox[i + 1].type # "init" /\ inbox[i + 1].type # "referee"
          /\ inbox[i + 1].type = "sense_body" => step >= 2 /\ i + 1 = 2 /\ m.type = "referee"
    BY <1>1, <1>4 DEF Layout, Arrivals, n, m
  <2>2. \A i \in 1 .. n - 1 : i + 1 = 2 => i = 1
    BY <1>2
  <2> QED
    BY <2>1, <2>2
<1>10. ~First("init")' /\ ~First("referee")'
  BY <1>8, <1>9
<1>11. Layout'
  BY <1>2, <1>9 DEF Layout
<1>12. AtBody'
  <2> SUFFICES ASSUME First("sense_body")'
               PROVE  /\ cycleStopped' = IsServerCycleStoppedMode(mode)
                      /\ mode = "time_over" => ~alive'
                      /\ cycleStopped' => time'[1] = cycle
                      /\ step > 2 /\ alive' /\ ~synchMode /\ lastDecision[1] = cycle =>
                           lastDecision = time' /\ (cycleStopped' \/ time'[2] > 0)
    BY <1>2 DEF AtBody
  <2>1. m.type = "referee" /\ m.mode = mode
    BY <1>3, <1>8, <1>9
  <2>2. /\ cycleStopped => time[1] = cycle /\ (step > 2 => time[2] > 0)
        /\ ~cycleStopped => time[1] < cycle
        /\ step > 2 => senseTime # NoTime /\ (alive /\ ~synchMode => lastDecision = time)
    BY <1>1, <1>7, <2>1 DEF AtReferee
  <2>3. /\ time' = UpdatedTime(c, FALSE) /\ cycleStopped' = IsServerCycleStoppedMode(m.mode)
        /\ mode = "time_over" => ~alive'
        /\ alive' => alive
    BY <1>2, <2>1 DEF c
  <2>4. time'[1] = cycle /\ (cycleStopped => time' = time)
    BY <1>3, <1>6, <2>2, <2>3
  <2>5. ASSUME step > 2, alive', ~synchMode, lastDecision[1] = cycle
        PROVE  lastDecision = time' /\ time'[2] > 0
    <3>1. lastDecision = time
      BY <2>2, <2>3, <2>5
    <3>2. cycleStopped
      BY <1>5, <2>2, <2>5, <3>1
    <3> QED
      BY <2>2, <2>4, <2>5, <3>1, <3>2
  <2> QED
    BY <2>1, <2>3, <2>4, <2>5
<1>13. AtEnd'
  <2> SUFFICES ASSUME AllHeard'
               PROVE  /\ cycleStopped' = IsServerCycleStoppedMode(mode)
                      /\ mode = "time_over" => ~alive'
                      /\ Settled(cycleStopped', time', cycle)
                      /\ step > 1 => senseTime' = time' /\ (cycleStopped' => time'[2] > 0)
                      /\ step = 1 => senseTime' = NoTime
                      /\ step > 2 /\ alive' /\ ~synchMode =>
                           decidedStep = step \/ lastDecision # time'
    BY <1>2, <1>3 DEF AtEnd, Settled
  <2>1. m.type # "referee"
    <3>1. m.type = "referee" => First("sense_body")'
      BY <1>2, <1>3, <1>8
    <3> QED
      BY <3>1 DEF AllHeard
  <2>2. CASE m.type = "init"
    <3>1. time = <<0, 0>> /\ senseTime = NoTime
      BY <1>1, <1>3, <1>7, <2>2 DEF Clock
    <3>2. /\ time' = time /\ cycleStopped' = IsServerCycleStoppedMode(mode)
          /\ senseTime' = senseTime
      BY <1>2, <1>3, <2>2
    <3>3. Settled(cycleStopped', time', cycle)
      BY <1>3, <2>2, <3>1, <3>2 DEF Settled
    <3> QED
      BY <1>3, <2>2, <3>1, <3>2, <3>3
  <2>3. CASE m.type = "sense_body"
    <3>1. /\ cycleStopped = IsServerCycleStoppedMode(mode)
          /\ mode = "time_over" => ~alive
          /\ cycleStopped => time[1] = cycle
          /\ step > 2 /\ alive /\ ~synchMode /\ lastDecision[1] = cycle =>
               lastDecision = time /\ (cycleStopped \/ time[2] > 0)
      BY <1>1, <1>7, <2>3 DEF AtBody
    <3>2. /\ time' = UpdatedTime(c, TRUE) /\ cycleStopped' = cycleStopped
          /\ senseTime' = time' /\ alive' = alive
      BY <1>2, <1>5, <2>3 DEF c
    <3>3. /\ time'[1] = cycle /\ Settled(cycleStopped', time', cycle)
          /\ cycleStopped => time'[2] > 0 /\ time' # time
          /\ ~cycleStopped => time' = <<cycle, 0>>
      BY <1>3, <1>6, <3>1, <3>2 DEF Settled
    <3>4. ASSUME step > 2, alive, ~synchMode, lastDecision = time'
          PROVE  FALSE
      <4>1. lastDecision = time /\ (cycleStopped \/ time[2] > 0)
        BY <3>1, <3>3, <3>4
      <4>2. ~cycleStopped /\ time[2] > 0 /\ time = <<cycle, 0>>
        BY <3>3, <3>4, <4>1
      <4> QED
        BY <4>2
    <3> QED
      <4>1. step # 1
        BY <1>3, <1>5, <2>3
      <4>2. cycleStopped' = cycleStopped /\ alive' = alive /\ senseTime' = time'
        BY <3>2
      <4>3. step > 1 => senseTime' = time' /\ (cycleStopped' => time'[2] > 0)
        BY <3>3, <4>2
      <4>4. step > 2 /\ alive' /\ ~synchMode => decidedStep = step \/ lastDecision # time'
        BY <3>4, <4>2
      <4> QED
        BY <3>1, <3>3, <4>1, <4>2, <4>3, <4>4
  <2>4. CASE m.type \in {"see", "think"}
    <3>1. AllHeard
      BY <1>7, <2>4 DEF AllHeard
    <3>2. /\ cycleStopped = IsServerCycleStoppedMode(mode)
          /\ mode = "time_over" => ~alive
          /\ Settled(cycleStopped, time, cycle)
          /\ step > 1 => senseTime = time /\ (cycleStopped => time[2] > 0)
          /\ step = 1 => senseTime = NoTime
          /\ step > 2 /\ alive /\ ~synchMode => decidedStep = step \/ lastDecision # time
      BY <1>1, <3>1 DEF AtEnd
    <3>3. time' \in {time, UpdatedTime(c, FALSE)} /\ UpdatedTime(c, FALSE) = time
      <4>1. Settled(cycleStopped, time, c)
        BY <1>3, <3>2
      <4>2. time' \in {time, UpdatedTime(c, FALSE)}
        BY <1>2, <2>4 DEF c
      <4> QED
        BY <1>6, <4>1, <4>2
    <3>4. time' = time /\ cycleStopped' = cycleStopped /\ senseTime' = senseTime /\ alive' = alive
      BY <1>2, <1>5, <2>4, <3>3
    <3> QED
      BY <3>2, <3>4
  <2> QED
    BY <1>3, <2>1, <2>2, <2>3, <2>4
<1>14. Intended'
  <2> SUFFICES ASSUME alive' PROVE intention' = 0 \/ lastStop <= intention'
    BY <1>2 DEF Intended
  <2>1. alive
    BY <1>2, <1>5
  <2>2. CASE m.type = "referee" /\ m.mode # "play_on"
    BY <1>2, <2>2
  <2>3. CASE ~(m.type = "referee" /\ m.mode # "play_on")
    <3>1. intention' = intention
      BY <1>2, <2>3
    <3>2. ~(First("referee") /\ m.mode # "play_on")
      BY <1>7, <2>3
    <3>3. intention = 0 \/ lastStop <= intention
      BY <1>1, <2>1, <3>2 DEF Intended, m
    <3> QED
      BY <3>1, <3>3
  <2> QED
    BY <2>2, <2>3
<1>15. Thinking'
  <2> SUFFICES ASSUME synchMode, thought, step > 1, ~think', decidedStep # step
               PROVE  \E i \in 1 .. n - 1 : inbox'[i].type = "think"
    BY <1>2 DEF Thinking
  <2>1. ~think /\ m.type # "think"
    BY <1>2, <1>5
  <2>2. PICK i \in 1 .. n : inbox[i].type = "think"
    BY <1>1, <2>1 DEF Thinking, n
  <2>3. i # 1
    BY <2>1, <2>2 DEF m
  <2>4. i - 1 \in 1 .. n - 1 /\ (i - 1) + 1 = i
    BY <1>2, <2>3
  <2>5. inbox'[i - 1] = inbox[i]
    BY <1>2, <2>4
  <2> QED
    BY <2>2, <2>4, <2>5
<1> QED
  BY <1>1, <1>2, <1>10, <1>11, <1>12, <1>13, <1>14, <1>15 DEF AtReferee

-----------------------------------------------------------------------------
(* The invariant.                                                          *)

LEMMA InitInv ==
  ASSUME Init
  PROVE  Inv
<1> DEFINE m == Message("init", 0, mode, 1)
<1>1. /\ synchMode \in BOOLEAN /\ mode \in Mode /\ mode # "time_over"
      /\ step = 1 /\ cycle = 0 /\ moved = FALSE /\ thought = TRUE /\ lastStop = 0
      /\ inbox = <<m>> /\ midStep = 0 /\ faults = 0 /\ pc = "select" /\ time = <<0, 0>>
      /\ gameMode = "before_kick_off" /\ worldMode = "before_kick_off" /\ cycleStopped = TRUE
      /\ senseTime = NoTime /\ seeTime = NoTime /\ lastDecision = NoTime
      /\ think = FALSE /\ timeouts = 0 /\ joined = FALSE /\ alive = TRUE
      /\ intention = 0 /\ heardStep = 0 /\ decidedStep = 0 /\ decisions = 0
  BY SynchModesAssumption DEF Init
<1>2. /\ m.type = "init" /\ m.cycle = 0 /\ m.mode = mode /\ m.step = 1
      /\ m \in Message_
  BY <1>1 DEF Message, Message_
<1> HIDE DEF m
<1>3. /\ Len(inbox) = 1 /\ inbox[1] = m /\ inbox # << >> /\ inbox \in Seq(Message_)
      /\ \A i \in 1 .. Len(inbox) : i = 1
  BY <1>1, <1>2
<1>4. NoTime \in GameTime /\ <<0, 0>> \in GameTime /\ NoTime[1] = -1 /\ 0 \in 0 .. MaxFaults
  BY BoundsAssumption DEF NoTime, GameTime
<1>5. TypeOK
  <2>1. /\ step \in Nat /\ cycle \in Nat /\ lastStop \in Nat /\ midStep \in Nat
        /\ faults \in 0 .. MaxFaults /\ timeouts \in 0 .. 3 /\ intention \in Nat
        /\ heardStep \in Nat /\ decidedStep \in Nat /\ decisions \in 0 .. 2
    BY <1>1, <1>4
  <2>2. /\ moved \in BOOLEAN /\ thought \in BOOLEAN /\ cycleStopped \in BOOLEAN
        /\ think \in BOOLEAN /\ joined \in BOOLEAN /\ alive \in BOOLEAN
    BY <1>1
  <2>3. /\ time \in GameTime /\ senseTime \in GameTime /\ seeTime \in GameTime
        /\ lastDecision \in GameTime /\ gameMode \in Mode /\ worldMode \in Mode
    BY <1>1, <1>4 DEF Mode
  <2> QED
    BY <1>1, <1>3, <2>1, <2>2, <2>3 DEF TypeOK
<1>6. Arrivals /\ Accompanied
  BY <1>1, <1>2, <1>3 DEF Arrivals, Accompanied
<1>7. Clock
  BY <1>1, <1>2, <1>3, <1>4 DEF Clock
<1>8. Synched
  BY <1>1, <1>2, <1>3 DEF Synched
<1>9. SettledToDecide /\ SettledOnceDecided /\ DecidedOnce
  BY <1>1 DEF SettledToDecide, SettledOnceDecided, DecidedOnce
<1>10. ~First("referee") /\ ~First("sense_body") /\ First("init")
  BY <1>2, <1>3 DEF First
<1>11. Layout
  BY <1>1, <1>2, <1>3 DEF Layout
<1>12. AtReferee /\ AtBody /\ AtEnd /\ Intended /\ Thinking
  <2>1. AtReferee /\ AtBody /\ AtEnd
    BY <1>10 DEF AtReferee, AtBody, AtEnd, AllHeard
  <2>2. Intended
    BY <1>1 DEF Intended
  <2>3. ~(step > 1)
    BY <1>1
  <2> QED
    BY <2>1, <2>2, <2>3 DEF Thinking
<1> QED
  BY <1>1, <1>5, <1>6, <1>7, <1>8, <1>9, <1>11, <1>12 DEF Inv, Faultless

\* The steps, grouped as the lemmas take them.
LEMMA StepKinds ==
  ASSUME [Next]_vars
  PROVE  \/ NextStep \/ Overrun
         \/ AnnounceMidStep \/ AddSteps \/ ReadSteps \/ ActSteps
         \/ UNCHANGED vars
BY DEF Next, AddSteps, ReadSteps, ActSteps

LEMMA StutterInv ==
  ASSUME Inv, UNCHANGED vars
  PROVE  Inv'
<1>1. UNCHANGED <<synchMode, step, cycle, mode, moved, thought, lastStop, inbox, midStep,
                  faults, pc, time, gameMode, cycleStopped, worldMode, senseTime, seeTime,
                  lastDecision, think, timeouts, joined, alive, intention, heardStep,
                  decidedStep, decisions>>
  BY DEF vars, server, clock, world
<1>2. TypeOK' /\ Arrivals' /\ Clock' /\ Synched' /\ Accompanied'
  BY <1>1 DEF Inv, TypeOK, Arrivals, Clock, Synched, Accompanied
<1>3. SettledToDecide' /\ SettledOnceDecided' /\ DecidedOnce'
  BY <1>1 DEF Inv, SettledToDecide, SettledOnceDecided, DecidedOnce, Agrees
<1>4. Faultless'
  <2> SUFFICES ASSUME faults = 0
               PROVE  /\ midStep' = 0 /\ (First("init")' => senseTime' = NoTime)
                      /\ Layout' /\ AtReferee' /\ AtBody' /\ AtEnd' /\ Intended' /\ Thinking'
    BY <1>1 DEF Faultless
  <2>1. /\ midStep = 0 /\ (First("init") => senseTime = NoTime)
        /\ Layout /\ AtReferee /\ AtBody /\ AtEnd /\ Intended /\ Thinking
    BY DEF Inv, Faultless
  <2>2. \A type : First(type)' <=> First(type)
    BY <1>1 DEF First
  <2> QED
    BY <1>1, <2>1, <2>2 DEF Layout, AtReferee, AtBody, AtEnd, AllHeard, Intended, Thinking
<1> QED
  BY <1>2, <1>3, <1>4 DEF Inv

LEMMA NextInv ==
  ASSUME Inv, [Next]_vars
  PROVE  Inv'
<1>1. TypeOK
  BY DEF Inv
<1>2. CASE NextStep \/ Overrun
  <2>1. StepFact /\ TypeOK'
    BY <1>1, <1>2, StepFacts
  <2> QED
    BY <1>2, <2>1, StepArrivals, StepKept, StepFaultless DEF Inv
<1>3. CASE AnnounceMidStep
  BY <1>3, MidInv
<1>4. CASE AddSteps
  BY <1>4, AddInv
<1>5. CASE ReadSteps
  <2>1. TypeOK'
    BY <1>1, <1>5, ReadFacts
  <2> QED
    BY <1>5, <2>1, ReadArrivals, ReadKept, ReadFaultless DEF Inv
<1>6. CASE ActSteps
  BY <1>6, ActInv
<1>7. CASE UNCHANGED vars
  BY <1>7, StutterInv
<1> QED
  BY <1>2, <1>3, <1>4, <1>5, <1>6, <1>7, StepKinds

LEMMA SpecInv == Spec => []Inv
<1>1. Init => Inv
  BY InitInv
<1>2. Inv /\ [Next]_vars => Inv'
  BY NextInv
<1> QED
  BY <1>1, <1>2, PTL DEF Spec

-----------------------------------------------------------------------------
(* What the player does, for every number of steps, faults and messages.   *)

\* Every variable of the message loop stays in its type: the agent's clock is
\* never moved to a time that is none.
THEOREM TypeCorrect == Spec => []TypeOK
<1>1. Inv => TypeOK
  BY DEF Inv
<1> QED
  BY <1>1, SpecInv, PTL

\* action() is called once in a step of the server at the most, whatever was
\* lost or late, unless an announcement came in the step's middle.
THEOREM ActsOnce == Spec => []DecidedOnce
<1>1. Inv => DecidedOnce
  BY DEF Inv
<1> QED
  BY <1>1, SpecInv, PTL

\* What the player executes while its socket is empty was set after the last
\* stop of play, if nothing was lost or late: analyzeHearReferee has dropped
\* what was set before.
THEOREM IntentionFresh == Spec => []NoIntentionAcrossStop
<1>1. Inv => NoIntentionAcrossStop
  <2> SUFFICES ASSUME Inv, alive, inbox = << >>, intention # 0, faults = 0
               PROVE  intention >= lastStop
    BY DEF NoIntentionAcrossStop
  <2>1. lastStop <= intention
    BY DEF Inv, Faultless, Intended, First
  <2>2. lastStop \in Nat /\ intention \in Nat
    BY DEF Inv, TypeOK
  <2> QED
    BY <2>1, <2>2
<1> QED
  BY <1>1, SpecInv, PTL

\* A punctual player that knows its number and has had a sense_body has
\* decided at the time it knows, unless it waits for (think).
LEMMA PunctualFacts ==
  ASSUME Inv, Punctual, heardStep = step
  PROVE  /\ joined /\ inbox = << >> /\ pc = "select"
         /\ synchMode => thought
         /\ ~synchMode /\ alive /\ senseTime # NoTime => lastDecision = time
<1>1. step \in Nat /\ synchMode \in BOOLEAN
  BY DEF Inv, TypeOK
<1>2. joined
  BY <1>1 DEF Inv, Clock
<1> QED
  BY <1>1, <1>2 DEF Punctual, IsDecisionTiming

\* If nothing was lost or late, the player decides in every step of the server
\* while it is joined, in moving and in stopped cycles alike.
THEOREM DecidesInEveryStep == Spec => EveryStepDecided
<1>1. Inv /\ [Next]_vars =>
        [step' # step /\ step > 2 /\ alive /\ faults' = 0 => decidedStep = step]_vars
  <2> SUFFICES ASSUME Inv, [Next]_vars, step' # step, step > 2, alive, faults' = 0
               PROVE  decidedStep = step
    OBVIOUS
  <2>1. TypeOK /\ Numbers
    BY NumberTypes DEF Inv
  <2>2. NextStep \/ Overrun
    <3>1. AnnounceMidStep => step' = step
      BY DEF AnnounceMidStep
    <3>2. AddSteps => step' = step
      BY DEF AddSteps, SendSee, SendThink
    <3>3. ReadSteps => step' = step
      BY <2>1, ReadFacts DEF server
    <3>4. ActSteps => step' = step
      BY <2>1, ActFacts DEF server
    <3>5. UNCHANGED vars => step' = step
      BY DEF vars, server
    <3> QED
      BY <3>1, <3>2, <3>3, <3>4, <3>5, StepKinds
  <2>3. Punctual /\ faults = 0
    <3>1. StepFact
      BY <2>1, <2>2, StepFacts
    <3> QED
      BY <3>1 DEF StepFact
  <2>4. AtEnd /\ Thinking /\ Clock
    BY <2>3 DEF Inv, Faultless
  <2>5. AllHeard
    BY <2>3 DEF Punctual, AllHeard, First
  <2>6. /\ heardStep = step /\ senseTime = time
        /\ ~synchMode => decidedStep = step \/ lastDecision # time
    BY <2>1, <2>4, <2>5 DEF AtEnd, Numbers
  <2>7. senseTime # NoTime
    BY <2>1, <2>4, <2>6 DEF NoTime, Clock
  <2>8. /\ inbox = << >> /\ pc = "select" /\ Len(inbox) = 0
        /\ synchMode => thought
        /\ ~synchMode => lastDecision = time
    BY <2>1, <2>3, <2>6, <2>7, PunctualFacts DEF Numbers
  <2>9. CASE synchMode
    <3>1. ~think /\ ~\E i \in 1 .. Len(inbox) : inbox[i].type = "think"
      BY <2>4, <2>8 DEF Clock
    <3> QED
      BY <2>1, <2>4, <2>8, <2>9, <3>1 DEF Thinking, Numbers
  <2> QED
    BY <2>1, <2>6, <2>8, <2>9 DEF Numbers
<1> QED
  BY <1>1, SpecInv, PTL DEF Spec, EveryStepDecided

\* Whatever was lost or late before, a step that moves the cycle is decided in,
\* if anything of it is heard and the agent has the time.
THEOREM DecidesInMovingSteps == Spec => MovingStepDecided
<1>1. Inv /\ [Next]_vars =>
        [NextStep /\ ~synchMode /\ alive /\ moved /\ heardStep = step /\ senseTime # NoTime
           => decidedStep = step]_vars
  <2> SUFFICES ASSUME Inv, NextStep, ~synchMode, alive, moved, heardStep = step,
                      senseTime # NoTime
               PROVE  decidedStep = step
    OBVIOUS
  <2>1. Numbers /\ Clock
    BY NumberTypes DEF Inv
  <2>2. lastDecision = time
    BY PunctualFacts DEF NextStep
  <2>3. time[1] = cycle /\ decidedStep <= step /\ (decidedStep < step => lastDecision[1] < cycle)
    BY <2>1 DEF Clock
  <2>4. decidedStep \in Nat /\ step \in Nat /\ time[1] \in Int
    BY <2>1 DEF Numbers
  <2> QED
    BY <2>2, <2>3, <2>4
<1> QED
  BY <1>1, SpecInv, PTL DEF Spec, MovingStepDecided

\* If nothing was lost or late, a decision is made on the step's own
\* sense_body.
THEOREM OwnBody == Spec => DecidesOnOwnBody
<1>1. Inv /\ [Next]_vars =>
        [lastDecision' # lastDecision /\ senseTime # NoTime /\ faults = 0
           => senseTime' = time']_vars
  <2> SUFFICES ASSUME Inv, [Next]_vars, lastDecision' # lastDecision, senseTime # NoTime,
                      faults = 0
               PROVE  senseTime' = time'
    OBVIOUS
  <2>1. TypeOK /\ Numbers /\ Clock
    BY NumberTypes DEF Inv
  <2>2. ActSteps
    <3>1. AnnounceMidStep => lastDecision' = lastDecision
      BY DEF AnnounceMidStep, AgentUnchanged
    <3>2. AddSteps => lastDecision' = lastDecision
      BY DEF AddSteps, SendSee, SendThink, AgentUnchanged
    <3>3. ReadSteps => lastDecision' = lastDecision
      BY <2>1, ReadFacts
    <3>4. NextStep \/ Overrun => lastDecision' = lastDecision
      BY DEF NextStep, Overrun, Step, AgentUnchanged
    <3>5. UNCHANGED vars => lastDecision' = lastDecision
      BY DEF vars
    <3> QED
      BY <3>1, <3>2, <3>3, <3>4, <3>5, StepKinds
  <2>3. inbox = << >> /\ UNCHANGED <<time, senseTime>>
    BY <2>1, <2>2, ActFacts DEF clock, world
  <2>4. AtEnd /\ AllHeard
    BY <2>3 DEF Inv, Faultless, AllHeard, First
  <2>5. step > 1
    BY <2>1, <2>4 DEF AtEnd, Clock, Numbers
  <2> QED
    BY <2>3, <2>4, <2>5 DEF AtEnd
<1> QED
  BY <1>1, SpecInv, PTL DEF Spec, DecidesOnOwnBody
=============================================================================
