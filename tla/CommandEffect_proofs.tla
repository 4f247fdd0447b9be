------------------------ MODULE CommandEffect_proofs ------------------------
(***************************************************************************)
(* For every set of body commands and every bound.  Under every pattern of *)
(* lost commands, until something else goes wrong: the player's own effect *)
(* model applies exactly what the server executed.  With two faults of any *)
(* kind: it applies no body command of a type that the server did not      *)
(* execute in the step before, if it had a decision.                       *)
(***************************************************************************)
EXTENDS CommandEffect, TLAPS

\* The effector agrees with the server about the commands of a step.
Matched(body, neck) ==
    /\ counter = counts
    /\ lastBody = Effect(body)
    /\ doneTurnNeck = neck

\* The server got nothing of what the effector counted.
Dropped(body, neck) ==
    /\ body = NoCommand /\ neck = FALSE
    /\ lastBody # NoCommand => counter[lastBody.type] # counts[lastBody.type]
    /\ doneTurnNeck => counter["turn_neck"] # counts["turn_neck"]

\* A sense_body is on its way.
WhileSensing ==
    sense # << >> =>
        /\ sense = <<counts>>
        /\ ~updated /\ ~decided /\ wire = << >>
        /\ taken = NoCommand /\ neckTaken = FALSE
        /\ Matched(executed, neckExecuted) \/ Dropped(executed, neckExecuted)

\* It has been read.
AfterSense ==
    sense = << >> =>
        /\ updated
        /\ applied = Effect(executed) /\ neckApplied = neckExecuted

\* The decision of the step is still to come.
BeforeDecision ==
    sense = << >> /\ ~decided =>
        /\ counter = counts /\ wire = << >>
        /\ taken = NoCommand /\ neckTaken = FALSE

\* Its commands are on their way.
WhileSending ==
    decided /\ wire # << >> =>
        /\ taken = NoCommand /\ neckTaken = FALSE
        /\ \E sent \in Bundle :
              /\ wire = <<sent>>
              /\ lastBody = Effect(sent.body)
              /\ doneTurnNeck = sent.neck
              /\ counter = Add(counts, {sent.body.type}
                                         \cup (IF sent.neck THEN {"turn_neck"} ELSE {}))

\* They have arrived, or are lost.
AfterSending ==
    decided /\ wire = << >> => Matched(taken, neckTaken) \/ Dropped(taken, neckTaken)

Agreement ==
    /\ TypeOK /\ step # 0
    /\ WhileSensing /\ AfterSense /\ BeforeDecision /\ WhileSending /\ AfterSending

IInv == TypeOK /\ (OnlyLost => Agreement)

-----------------------------------------------------------------------------
(* The operators.                                                          *)

LEMMA AddType ==
    ASSUME NEW c \in Counts, NEW types
    PROVE  Add(c, types) \in Counts
BY DEF Add, Counts

LEMMA NeckIsNoBodyType == "turn_neck" \notin BodyTypes /\ "none" \notin BodyTypes
BY BodyTypesAssumption

\* What sense_body leaves of a command is a command.
LEMMA BelievedType ==
    ASSUME NEW body \in Command, NEW sensed
    PROVE  Believed(body, sensed) \in Command
BY DEF Believed, Command, NoCommand

\* What is sent for a command is a command, and has the command's effect.
LEMMA SendableType ==
    ASSUME NEW body \in Command, NEW frozen \in BOOLEAN
    PROVE  Sendable(body, frozen) \in Command
BY BodyTypesAssumption DEF Sendable, Command, DummyTurn

-----------------------------------------------------------------------------
(* Type correctness, under every fault.                                    *)

LEMMA InitTypeOK == Init => TypeOK
<1> SUFFICES ASSUME Init PROVE TypeOK
  OBVIOUS
<1>1. NoCommand \in Command
  BY DEF NoCommand, Command
<1>2. counts \in Counts /\ counter \in Counts
  BY DEF Init, Counts
<1>3. sense \in Seq(Counts)
  <2>1. sense = <<counts>>
    BY DEF Init
  <2>2. QED
    BY <2>1, <1>2
<1>4. wire \in Seq(Bundle)
  BY DEF Init
<1>5. QED
  BY <1>1, <1>2, <1>3, <1>4 DEF Init, TypeOK

LEMMA NextTypeOK == TypeOK /\ [Next]_vars => TypeOK'
<1> SUFFICES ASSUME TypeOK, [Next]_vars PROVE TypeOK'
  OBVIOUS
<1> USE DEF server, effector, world, faulty
<1>1. CASE Deliver
  <2> DEFINE sent == Head(wire)
             body == sent.body.type # "none" /\ taken = NoCommand
             neck == sent.neck /\ ~neckTaken
  <2>1. sent \in Bundle /\ Tail(wire) \in Seq(Bundle)
    BY <1>1 DEF Deliver, TypeOK
  <2>2. taken' \in Command /\ neckTaken' \in BOOLEAN
    BY <1>1, <2>1 DEF Deliver, TypeOK, Bundle
  <2>3. counts' \in Counts
    BY <1>1, AddType DEF Deliver, TypeOK
  <2>4. QED
    BY <1>1, <2>1, <2>2, <2>3 DEF Deliver, TypeOK
<1>2. CASE Lose
  <2>1. wire' \in Seq(Bundle)
    BY <1>2 DEF Lose, TypeOK
  <2>2. faults' \in Nat /\ happened' \subseteq FaultKinds
    BY <1>2 DEF Lose, Fault, TypeOK
  <2>3. QED
    BY <1>2, <2>1, <2>2 DEF Lose, TypeOK
<1>3. CASE NextStep
  <2>1. sense' \in Seq(Counts)
    <3>1. <<counts>> \in Seq(Counts) /\ << >> \in Seq(Counts)
      BY DEF TypeOK
    <3>2. sense' = <<counts>> \/ sense' = << >>
      BY <1>3 DEF NextStep
    <3>3. QED
      BY <3>1, <3>2
  <2>2. faults' \in Nat /\ happened' \subseteq FaultKinds /\ step' \in Nat
    BY <1>3 DEF NextStep, Fault, TypeOK
  <2>3. NoCommand \in Command
    BY DEF NoCommand, Command
  <2>4. executed' \in Command /\ taken' \in Command
    BY <1>3, <2>3 DEF NextStep, TypeOK
  <2>5. QED
    BY <1>3, <2>1, <2>2, <2>4 DEF NextStep, TypeOK
<1>4. CASE ReadSense
  <2>1. Head(sense) \in Counts
    BY <1>4 DEF ReadSense, TypeOK
  <2>2. lastBody' \in Command
    BY <1>4, BelievedType DEF ReadSense, TypeOK
  <2>3. doneTurnNeck' \in BOOLEAN
    BY <1>4 DEF ReadSense, TypeOK, BelievedNeck
  <2>4. applied' \in Command /\ neckApplied' \in BOOLEAN /\ updated' \in BOOLEAN
    BY <1>4, <2>2, <2>3 DEF ReadSense, Update, TypeOK
  <2>5. QED
    BY <1>4, <2>1, <2>2, <2>3, <2>4 DEF ReadSense, TypeOK
<1>5. CASE ReadSee
  BY <1>5 DEF ReadSee, Update, TypeOK
<1>6. CASE Decide
  <2>1. PICK type \in BodyTypes \cup {"none"}, frozen \in BOOLEAN, neck \in BOOLEAN :
          LET body == IF type = "none" THEN NoCommand ELSE [type |-> type, step |-> step]
              sent == Sendable(body, frozen)
          IN  /\ lastBody' = body
              /\ doneTurnNeck' = neck
              /\ counter' = Add(counter, {sent.type} \cup (IF neck THEN {"turn_neck"} ELSE {}))
              /\ wire' = Append(wire, [body |-> sent, neck |-> neck])
    BY <1>6 DEF Decide
  <2>2. lastBody' \in Command
    BY <2>1 DEF Command, NoCommand, TypeOK
  <2>3. Sendable(lastBody', frozen) \in Command
    BY <2>2, SendableType
  <2>4. wire' \in Seq(Bundle)
    BY <2>1, <2>3 DEF TypeOK, Bundle
  <2>5. counter' \in Counts
    BY <2>1, AddType DEF TypeOK
  <2>6. applied' \in Command /\ neckApplied' \in BOOLEAN /\ updated' \in BOOLEAN
    BY <1>6 DEF Decide, Update, TypeOK
  <2>7. QED
    BY <1>6, <2>1, <2>2, <2>4, <2>5, <2>6 DEF Decide, TypeOK
<1>7. CASE UNCHANGED vars
  BY <1>7 DEF vars, TypeOK
<1>8. QED
  BY <1>1, <1>2, <1>3, <1>4, <1>5, <1>6, <1>7 DEF Next

\* Every variable stays in its type, whatever is lost, late or skipped.
THEOREM TypeCorrect == Spec => []TypeOK
<1>1. Init => TypeOK
  BY InitTypeOK
<1>2. TypeOK /\ [Next]_vars => TypeOK'
  BY NextTypeOK
<1>3. QED
  BY <1>1, <1>2, PTL DEF Spec

-----------------------------------------------------------------------------
(* Lost commands.                                                          *)

LEMMA InitAgreement == Init => Agreement
<1> SUFFICES ASSUME Init PROVE Agreement
  OBVIOUS
<1>1. TypeOK
  BY InitTypeOK
<1>2. counter = counts /\ sense = <<counts>> /\ sense # << >>
  BY DEF Init
<1>3. Matched(executed, neckExecuted)
  BY <1>2 DEF Init, Matched, Effect, NoCommand, DummyTurn
<1>4. QED
  BY <1>1, <1>2, <1>3 DEF Init, Agreement, WhileSensing, AfterSense, BeforeDecision,
     WhileSending, AfterSending

\* A sense_body that finds nothing wrong leaves the last command, and one that
\* finds a command lost takes it back.
LEMMA CheckFindsTheLoss ==
    ASSUME TypeOK, NEW body, NEW neck \in BOOLEAN,
           Matched(body, neck) \/ Dropped(body, neck)
    PROVE  /\ Believed(lastBody, counts) = Effect(body)
           /\ BelievedNeck(doneTurnNeck, counts) = neck
<1>1. CASE Matched(body, neck)
  BY <1>1 DEF Matched, Believed, BelievedNeck
<1>2. CASE Dropped(body, neck)
  <2>1. Effect(body) = NoCommand
    BY <1>2 DEF Dropped, Effect
  <2>2. CASE lastBody = NoCommand
    BY <2>1, <2>2, <1>2 DEF Dropped, Believed, BelievedNeck
  <2>3. CASE lastBody # NoCommand
    <3>1. counter[lastBody.type] # counts[lastBody.type]
      BY <2>3, <1>2 DEF Dropped
    <3>2. lastBody.type \in BodyTypes
      BY <2>3 DEF TypeOK, Command
    <3>3. QED
      BY <2>1, <3>1, <3>2, <1>2 DEF Dropped, Believed, BelievedNeck
  <2>4. QED
    BY <2>2, <2>3
<1>3. QED
  BY <1>1, <1>2

\* The commands of a decision, for the invariant and for the step that sends
\* them.
LEMMA DecideSends ==
    ASSUME TypeOK, step # 0, Decide
    PROVE  \E sent \in Command, neck \in BOOLEAN :
              /\ lastBody' = Effect(sent) /\ doneTurnNeck' = neck
              /\ counter' = Add(counter, {sent.type}
                                   \cup (IF neck THEN {"turn_neck"} ELSE {}))
              /\ wire' = Append(wire, [body |-> sent, neck |-> neck])
<1>1. PICK type \in BodyTypes \cup {"none"}, frozen \in BOOLEAN, neck \in BOOLEAN :
        LET body == IF type = "none" THEN NoCommand ELSE [type |-> type, step |-> step]
            sent == Sendable(body, frozen)
        IN  /\ lastBody' = body
            /\ doneTurnNeck' = neck
            /\ counter' = Add(counter, {sent.type} \cup (IF neck THEN {"turn_neck"} ELSE {}))
            /\ wire' = Append(wire, [body |-> sent, neck |-> neck])
  BY DEF Decide
<1>2. lastBody' \in Command
  BY <1>1 DEF Command, NoCommand, TypeOK
<1>3. Sendable(lastBody', frozen) \in Command
  BY <1>2, SendableType
<1>4. lastBody' # DummyTurn
  BY <1>1 DEF NoCommand, DummyTurn
<1>5. Effect(Sendable(lastBody', frozen)) = lastBody'
  BY <1>4 DEF Effect, Sendable
<1>6. QED
  BY <1>1, <1>3, <1>5

\* An arrival in a step in which the server has taken nothing yet.
LEMMA DeliverTakes ==
    ASSUME Agreement, Deliver, decided
    PROVE  wire' = << >> /\ Matched(taken, neckTaken)'
<1>0. taken = NoCommand /\ neckTaken = FALSE
  BY DEF Agreement, WhileSending, Deliver
<1>1. PICK sent \in Bundle :
        /\ wire = <<sent>>
        /\ lastBody = Effect(sent.body)
        /\ doneTurnNeck = sent.neck
        /\ counter = Add(counts, {sent.body.type}
                                   \cup (IF sent.neck THEN {"turn_neck"} ELSE {}))
  BY DEF Agreement, WhileSending, Deliver
<1>2. Head(wire) = sent /\ Tail(wire) = << >>
  BY <1>1
<1>3. wire' = << >>
  BY <1>2 DEF Deliver
<1>4. taken' = sent.body
  <2>1. sent.body.type = "none" => sent.body = NoCommand
    BY BodyTypesAssumption DEF Bundle, Command, NoCommand
  <2>2. taken' = IF sent.body.type # "none" THEN sent.body ELSE NoCommand
    BY <1>0, <1>1, <1>2 DEF Deliver
  <2>3. QED
    BY <2>1, <2>2
<1>5. neckTaken' = sent.neck
  <2>1. neckTaken' = (neckTaken \/ (sent.neck /\ ~neckTaken))
    BY <1>2 DEF Deliver
  <2>2. sent.neck \in BOOLEAN
    BY DEF Bundle
  <2>3. QED
    BY <2>1, <2>2, <1>0
<1>6. counts' = counter
  <2>1. counts' = Add(counts, (IF sent.body.type # "none" THEN {sent.body.type} ELSE {})
                                 \cup (IF sent.neck THEN {"turn_neck"} ELSE {}))
    BY <1>0, <1>1, <1>2 DEF Deliver
  <2>2. "none" \notin CountedTypes
    BY BodyTypesAssumption DEF CountedTypes
  <2>3. QED
    BY <1>1, <2>1, <2>2 DEF Add
<1>7. counter' = counter /\ lastBody' = lastBody /\ doneTurnNeck' = doneTurnNeck
  BY DEF Deliver, effector
<1>8. QED
  BY <1>1, <1>3, <1>4, <1>5, <1>6, <1>7 DEF Matched

\* A loss leaves the effector with counts that the server does not have.
LEMMA LoseDrops ==
    ASSUME Agreement, Lose, decided
    PROVE  wire' = << >> /\ Dropped(taken, neckTaken)'
<1>0. taken = NoCommand /\ neckTaken = FALSE
  BY DEF Agreement, WhileSending, Lose
<1>1. PICK sent \in Bundle :
        /\ wire = <<sent>>
        /\ lastBody = Effect(sent.body)
        /\ doneTurnNeck = sent.neck
        /\ counter = Add(counts, {sent.body.type}
                                   \cup (IF sent.neck THEN {"turn_neck"} ELSE {}))
  BY DEF Agreement, WhileSending, Lose
<1>2. wire' = << >>
  BY <1>1 DEF Lose
<1>3. counts \in Counts
  BY DEF Agreement, TypeOK
<1>4. ASSUME lastBody # NoCommand
      PROVE  counter[lastBody.type] # counts[lastBody.type]
  <2>1. lastBody = sent.body
    BY <1>1, <1>4 DEF Effect
  <2>2. lastBody.type \in CountedTypes
    BY <1>4 DEF Agreement, TypeOK, Command, CountedTypes
  <2>3. counter[lastBody.type] = counts[lastBody.type] + 1
    BY <1>1, <2>1, <2>2 DEF Add
  <2>4. QED
    BY <1>3, <2>2, <2>3 DEF Counts
<1>5. ASSUME doneTurnNeck
      PROVE  counter["turn_neck"] # counts["turn_neck"]
  <2>1. counter["turn_neck"] = counts["turn_neck"] + 1
    BY <1>1, <1>5 DEF Add, CountedTypes
  <2>2. QED
    BY <1>3, <2>1 DEF Counts, CountedTypes
<1>6. QED
  BY <1>0, <1>2, <1>4, <1>5 DEF Dropped, Lose, server, effector

LEMMA NextAgreement ==
    ASSUME Agreement, [Next]_vars, OnlyLost'
    PROVE  Agreement'
<1> USE DEF server, effector, world, faulty
<1>1. TypeOK'
  BY NextTypeOK DEF Agreement
<1>2. step' # 0
  BY DEF Agreement, TypeOK, Next, vars, Deliver, Lose, NextStep, ReadSense, ReadSee, Decide
<1>3. CASE Deliver
  <2>1. sense = << >> /\ decided
    BY <1>3 DEF Deliver, Agreement, WhileSensing, BeforeDecision
  <2>2. wire' = << >> /\ Matched(taken, neckTaken)'
    BY <1>3, <2>1, DeliverTakes
  <2>3. AfterSense'
    BY <1>3 DEF Agreement, AfterSense, Deliver
  <2>4. QED
    BY <1>1, <1>2, <1>3, <2>1, <2>2, <2>3 DEF Agreement, WhileSensing, BeforeDecision,
       WhileSending, AfterSending, Deliver
<1>4. CASE Lose
  <2>1. sense = << >> /\ decided
    BY <1>4 DEF Lose, Agreement, WhileSensing, BeforeDecision
  <2>2. wire' = << >> /\ Dropped(taken, neckTaken)'
    BY <1>4, <2>1, LoseDrops
  <2>3. AfterSense'
    BY <1>4 DEF Agreement, AfterSense, Lose
  <2>4. QED
    BY <1>1, <1>2, <1>4, <2>1, <2>2, <2>3 DEF Agreement, WhileSensing, BeforeDecision,
       WhileSending, AfterSending, Lose
<1>5. CASE NextStep
  <2>1. decided /\ wire = << >> /\ sense' = <<counts>>
    BY <1>5 DEF NextStep, Fault, OnlyLost
  <2>2. Matched(taken, neckTaken) \/ Dropped(taken, neckTaken)
    BY <2>1 DEF Agreement, AfterSending
  <2>3. Matched(executed, neckExecuted)' \/ Dropped(executed, neckExecuted)'
    BY <1>5, <2>2 DEF NextStep, Matched, Dropped
  <2>4. WhileSensing'
    BY <1>5, <2>1, <2>3 DEF NextStep, WhileSensing
  <2>5. QED
    BY <1>1, <1>2, <1>5, <2>1, <2>4 DEF NextStep, Agreement, AfterSense, BeforeDecision,
       WhileSending, AfterSending
<1>6. CASE ReadSense
  <2>1. /\ sense = <<counts>> /\ Head(sense) = counts
        /\ ~updated /\ ~decided /\ wire = << >>
        /\ taken = NoCommand /\ neckTaken = FALSE
        /\ Matched(executed, neckExecuted) \/ Dropped(executed, neckExecuted)
    BY <1>6 DEF ReadSense, Agreement, WhileSensing
  <2>2. lastBody' = Effect(executed) /\ doneTurnNeck' = neckExecuted
    BY <1>6, <2>1, CheckFindsTheLoss DEF ReadSense, Agreement, TypeOK
  <2>3. AfterSense'
    BY <1>6, <2>1, <2>2 DEF ReadSense, Update, AfterSense
  <2>4. BeforeDecision'
    BY <1>6, <2>1 DEF ReadSense, BeforeDecision
  <2>5. QED
    BY <1>1, <1>2, <1>6, <2>1, <2>3, <2>4 DEF ReadSense, Agreement, WhileSensing,
       WhileSending, AfterSending
<1>7. CASE ReadSee
  BY <1>7 DEF ReadSee, Agreement, AfterSense
<1>8. CASE Decide
  <2>1. /\ sense = << >> /\ ~decided /\ updated
        /\ counter = counts /\ wire = << >>
        /\ taken = NoCommand /\ neckTaken = FALSE
    BY <1>8 DEF Decide, Agreement, AfterSense, BeforeDecision
  <2>2. PICK sent \in Command, neck \in BOOLEAN :
          /\ lastBody' = Effect(sent) /\ doneTurnNeck' = neck
          /\ counter' = Add(counter, {sent.type}
                               \cup (IF neck THEN {"turn_neck"} ELSE {}))
          /\ wire' = Append(wire, [body |-> sent, neck |-> neck])
    BY <1>8, DecideSends DEF Agreement
  <2>3. wire' = <<[body |-> sent, neck |-> neck]>> /\ wire' # << >>
    BY <2>1, <2>2
  <2>4. WhileSending'
    <3> DEFINE bundle == [body |-> sent, neck |-> neck]
    <3>1. bundle \in Bundle /\ bundle.body = sent /\ bundle.neck = neck
      BY DEF Bundle
    <3>2. /\ wire' = <<bundle>>
          /\ lastBody' = Effect(bundle.body)
          /\ doneTurnNeck' = bundle.neck
      BY <2>2, <2>3, <3>1
    <3>3. counts' = counts /\ taken' = taken /\ neckTaken' = neckTaken
      BY <1>8 DEF Decide
    <3>4. counter' = Add(counts', {bundle.body.type}
                                    \cup (IF bundle.neck THEN {"turn_neck"} ELSE {}))
      BY <2>1, <2>2, <3>1, <3>3
    <3>5. QED
      BY <2>1, <3>1, <3>2, <3>3, <3>4 DEF WhileSending
  <2>5. AfterSense'
    BY <1>8, <2>1 DEF Decide, Update, Agreement, AfterSense
  <2>6. QED
    BY <1>1, <1>2, <1>8, <2>1, <2>3, <2>4, <2>5 DEF Decide, Agreement, WhileSensing,
       BeforeDecision, AfterSending
<1>9. CASE UNCHANGED vars
  BY <1>1, <1>2, <1>9 DEF vars, Agreement, WhileSensing, AfterSense, BeforeDecision,
     WhileSending, AfterSending, Matched, Dropped
<1>10. QED
  BY <1>3, <1>4, <1>5, <1>6, <1>7, <1>8, <1>9 DEF Next

\* What has happened is not undone.
LEMMA OnlyLostBefore ==
    ASSUME TypeOK, [Next]_vars, OnlyLost'
    PROVE  OnlyLost
<1>1. happened \subseteq happened'
  BY DEF Next, vars, faulty, Deliver, Lose, NextStep, ReadSense, ReadSee, Decide, Fault
<1>2. QED
  BY <1>1 DEF OnlyLost

\* However many decisions' commands are lost, in whatever steps, and whatever
\* the player decides, until something else is lost, late or skipped: once it
\* has updated its world model in a step, it has applied to itself exactly
\* what the server executed in the step before.
THEOREM EffectCorrect == Spec => []EffectMatchesServer
<1>1. Init => IInv
  BY InitTypeOK, InitAgreement DEF IInv
<1>2. IInv /\ [Next]_vars => IInv'
  <2> SUFFICES ASSUME IInv, [Next]_vars PROVE IInv'
    OBVIOUS
  <2>1. TypeOK'
    BY NextTypeOK DEF IInv
  <2>2. ASSUME OnlyLost' PROVE Agreement'
    BY <2>2, OnlyLostBefore, NextAgreement DEF IInv
  <2>3. QED
    BY <2>1, <2>2 DEF IInv
<1>3. IInv => EffectMatchesServer
  BY DEF IInv, Agreement, WhileSensing, AfterSense, EffectMatchesServer
<1>4. QED
  BY <1>1, <1>2, <1>3, PTL DEF Spec

-----------------------------------------------------------------------------
(* Lost and late commands, and a lost sense_body.                          *)

\* One more of a type.
One(t, type) == IF t = type THEN 1 ELSE 0

\* The counts of the sense_body under way are those of the step's beginning; it
\* is read before the step is decided.
SenseOfStep ==
    /\ sense # << >> =>
          /\ Len(sense) = 1 /\ ~updated /\ ~checked /\ ~decided
          /\ \A t \in BodyTypes : counts[t] = Head(sense)[t] + One(t, taken.type)
    /\ checked => updated

\* Since a check the effector counts what it has sent, and the server what it
\* has taken.
CountedSinceCheck ==
    checked =>
        \E sent \in BodyTypes \cup {"none"} :
            /\ \A t \in BodyTypes : counter[t] + One(t, taken.type) = counts[t] + One(t, sent)
            /\ decided => lastBody.type \in {"none", sent}
            /\ ~decided => sent = "none"

\* Unless commands were late, the effector has not counted less than the server,
\* and none is under way that it has not counted.
NotBehind ==
    "late" \notin happened =>
        /\ Len(wire) <= 1 /\ (wire # << >> => decided)
        /\ ~decided => taken = NoCommand
        /\ sense = << >> /\ wire = << >> => \A t \in BodyTypes : counter[t] >= counts[t]
        /\ sense = << >> /\ wire # << >> =>
              \A t \in BodyTypes : counter[t] >= counts[t] + One(t, Head(wire).body.type)

\* In a step whose sense_body is lost the effector has counted too little only
\* if that is the second fault, and it takes a third to hide a command that was
\* not taken.
Unchecked ==
    sense = << >> /\ ~checked =>
        /\ faults >= 1
        /\ ~decided =>
              /\ wire = << >> /\ taken = NoCommand
              /\ faults >= 2 \/ \A t \in BodyTypes : counter[t] >= counts[t]
        /\ decided /\ wire # << >> =>
              /\ Len(wire) = 1 /\ taken = NoCommand
              /\ lastBody.type \in {"none", Head(wire).body.type}
              /\ faults >= 2 \/ \A t \in BodyTypes :
                                   counter[t] >= counts[t] + One(t, Head(wire).body.type)
        /\ decided /\ wire = << >> =>
              \/ lastBody.type \in {"none", taken.type}
              \/ counter[lastBody.type] # counts[lastBody.type]
              \/ faults >= 3

\* After a step with a decision, the body command is one that the server took,
\* or the counts on their way tell.
Agreeing ==
    sense # << >> /\ ~skipped /\ faults <= 2 =>
        \/ lastBody.type \in {"none", executed.type}
        \/ counter[lastBody.type] # Head(sense)[lastBody.type]

LateCounted == "late" \in happened => faults >= 1

TInv ==
    /\ TypeOK /\ SenseOfStep /\ CountedSinceCheck /\ NotBehind /\ Unchecked
    /\ Agreeing /\ LateCounted /\ TypeMatchesServer

\* A command is of a body type, or none.
LEMMA CommandTypes ==
    ASSUME NEW c \in Command
    PROVE  /\ c.type \in BodyTypes \cup {"none"}
           /\ c.type = "none" <=> c = NoCommand
           /\ c.type # "none" <=> c.type \in BodyTypes
BY BodyTypesAssumption DEF Command, NoCommand

\* Counting adds one of the types counted.
LEMMA AddCounts ==
    ASSUME NEW c \in Counts, NEW types, NEW t \in BodyTypes
    PROVE  Add(c, types)[t] = c[t] + IF t \in types THEN 1 ELSE 0
BY DEF Add, Counts, CountedTypes

LEMMA CountsAreNat ==
    ASSUME NEW c \in Counts, NEW t \in BodyTypes
    PROVE  c[t] \in Nat
BY DEF Counts, CountedTypes

\* Of the commands that arrive the server takes the body command, or none if it
\* has one already, and counts what it takes.
LEMMA DeliverStep ==
    ASSUME TypeOK, Deliver
    PROVE  /\ wire # << >> /\ wire' = Tail(wire) /\ Head(wire).body \in Command
           /\ \/ /\ taken' = taken /\ \A t \in BodyTypes : counts'[t] = counts[t]
                 /\ taken # NoCommand \/ Head(wire).body.type = "none"
              \/ /\ taken = NoCommand /\ taken' = Head(wire).body
                 /\ Head(wire).body.type \in BodyTypes
                 /\ \A t \in BodyTypes : counts'[t] = counts[t] + One(t, Head(wire).body.type)
<1> DEFINE sent == Head(wire)
           taking == sent.body.type # "none" /\ taken = NoCommand
           neck == sent.neck /\ ~neckTaken
           types == (IF taking THEN {sent.body.type} ELSE {})
                      \cup (IF neck THEN {"turn_neck"} ELSE {})
<1>1. wire # << >> /\ wire' = Tail(wire) /\ sent \in Bundle
    BY DEF Deliver, TypeOK
<1>2. sent.body \in Command /\ counts \in Counts
    BY <1>1 DEF Bundle, TypeOK
<1>3. counts' = Add(counts, types) /\ taken' = IF taking THEN sent.body ELSE taken
    BY DEF Deliver
<1>4. ASSUME NEW t \in BodyTypes PROVE t \in types <=> taking /\ t = sent.body.type
    BY BodyTypesAssumption
<1> HIDE DEF types, sent
<1>5. \A t \in BodyTypes : counts'[t] = counts[t] + IF t \in types THEN 1 ELSE 0
    BY <1>2, <1>3, AddCounts
<1>6. \A t \in BodyTypes : counts[t] \in Nat
    BY <1>2, CountsAreNat
<1>7. CASE taking
  <2>1. sent.body.type \in BodyTypes
    BY <1>2, <1>7, CommandTypes
  <2>2. \A t \in BodyTypes : counts'[t] = counts[t] + One(t, sent.body.type)
    BY <1>4, <1>5, <1>7 DEF One
  <2> QED
    BY <1>1, <1>2, <1>3, <1>7, <2>1, <2>2 DEF sent
<1>8. CASE ~taking
  <2>1. \A t \in BodyTypes : counts'[t] = counts[t]
    BY <1>4, <1>5, <1>6, <1>8
  <2> QED
    BY <1>1, <1>2, <1>3, <1>8, <2>1 DEF sent
<1> QED
    BY <1>7, <1>8

\* What is decided is sent and counted by its type.
LEMMA DecideStep ==
    ASSUME TypeOK, Decide
    PROVE  \E b \in Bundle :
              /\ wire' = Append(wire, b)
              /\ b.body.type \in BodyTypes \cup {"none"}
              /\ lastBody'.type \in {"none", b.body.type}
              /\ \A t \in BodyTypes : counter'[t] = counter[t] + One(t, b.body.type)
<1>1. PICK type \in BodyTypes \cup {"none"}, frozen \in BOOLEAN, neck \in BOOLEAN :
        LET body == IF type = "none" THEN NoCommand ELSE [type |-> type, step |-> step]
            sent == Sendable(body, frozen)
        IN  /\ lastBody' = body
            /\ counter' = Add(counter, {sent.type} \cup (IF neck THEN {"turn_neck"} ELSE {}))
            /\ wire' = Append(wire, [body |-> sent, neck |-> neck])
    BY DEF Decide
<1> DEFINE sent == Sendable(lastBody', frozen)
           b    == [body |-> sent, neck |-> neck]
<1>2. lastBody' \in Command
    BY <1>1 DEF Command, NoCommand, TypeOK
<1>3. sent \in Command
    BY <1>2, SendableType
<1>4. /\ counter' = Add(counter, {sent.type} \cup (IF neck THEN {"turn_neck"} ELSE {}))
      /\ wire' = Append(wire, b)
    BY <1>1
<1>5. lastBody'.type \in {"none", sent.type}
    BY DEF Sendable, NoCommand
<1> HIDE DEF sent
<1>6. b \in Bundle /\ b.body = sent
    BY <1>3 DEF Bundle
<1>7. sent.type \in BodyTypes \cup {"none"}
    BY <1>3, CommandTypes
<1>8. ASSUME NEW t \in BodyTypes PROVE counter'[t] = counter[t] + One(t, sent.type)
  <2>1. t \in {sent.type} \cup (IF neck THEN {"turn_neck"} ELSE {}) <=> t = sent.type
    BY BodyTypesAssumption
  <2> QED
    BY <1>4, <2>1, AddCounts DEF TypeOK, One
<1> QED
    BY <1>4, <1>5, <1>6, <1>7, <1>8

\* The next step begins with its sense_body, which is lost, or not; then it has
\* had a decision unless it was skipped.
LEMMA NextStepCases ==
    ASSUME TypeOK, NextStep
    PROVE  /\ sense = << >> /\ executed' = taken /\ taken' = NoCommand
           /\ ~updated' /\ ~checked' /\ ~decided'
           /\ UNCHANGED <<counts, wire, counter, lastBody>>
           /\ faults \in Nat /\ faults' \in Nat /\ faults' >= faults
           /\ \/ /\ decided /\ wire = << >> /\ sense' = << >> /\ faults' = faults + 1
                 /\ happened' = happened \cup {"sense_body"}
              \/ /\ sense' = <<counts>> /\ (~skipped' => decided)
                 /\ \/ wire = << >> /\ ("late" \in happened' => "late" \in happened)
                    \/ wire # << >> /\ faults' = faults + 1 /\ "late" \in happened'
           /\ happened \subseteq happened'
           /\ "late" \in happened' => "late" \in happened \/ faults' >= 1
<1>1. faults \in Nat
    BY DEF TypeOK
<1>2. /\ sense = << >> /\ executed' = taken /\ taken' = NoCommand
      /\ ~updated' /\ ~checked' /\ ~decided'
      /\ UNCHANGED <<counts, wire, counter, lastBody>>
    BY DEF NextStep, effector
<1>7. ~skipped' => decided
    BY Zenon DEF NextStep
<1>3. CASE decided /\ wire = << >> /\ sense' = <<counts>> /\ UNCHANGED faulty
  <2>1. faults' = faults /\ happened' = happened
    BY <1>3 DEF faulty
  <2> QED
    BY <1>1, <1>2, <1>7, <1>3, <2>1
<1>4. CASE decided /\ wire = << >> /\ sense' = << >> /\ Fault("sense_body")
  <2>1. faults' = faults + 1 /\ happened' = happened \cup {"sense_body"}
    BY <1>4 DEF Fault
  <2> QED
    BY <1>1, <1>2, <1>7, <1>4, <2>1
<1>5. CASE ~decided /\ wire = << >> /\ sense' = <<counts>> /\ Fault("overrun")
  <2>1. faults' = faults + 1 /\ happened' = happened \cup {"overrun"}
    BY <1>5 DEF Fault
  <2> QED
    BY <1>1, <1>2, <1>7, <1>5, <2>1
<1>6. CASE decided /\ wire # << >> /\ sense' = <<counts>> /\ Fault("late")
  <2>1. faults' = faults + 1 /\ happened' = happened \cup {"late"}
    BY <1>6 DEF Fault
  <2> QED
    BY <1>1, <1>2, <1>7, <1>6, <2>1
<1> QED
    BY <1>3, <1>4, <1>5, <1>6 DEF NextStep

LEMMA InitTInv == Init => TInv
<1> SUFFICES ASSUME Init PROVE TInv
    OBVIOUS
<1>1. /\ counts = [t \in CountedTypes |-> 0] /\ sense = <<counts>> /\ wire = << >>
      /\ taken = NoCommand /\ ~updated /\ ~checked /\ ~decided
      /\ lastBody = NoCommand /\ happened = {}
    BY DEF Init
<1>2. sense # << >> /\ Len(sense) = 1 /\ Head(sense) = counts /\ NoCommand.type = "none"
    BY <1>1 DEF NoCommand
<1>3. SenseOfStep
  <2>1. \A t \in BodyTypes : counts[t] = counts[t] + One(t, taken.type)
    BY <1>1, <1>2, BodyTypesAssumption DEF One, CountedTypes
  <2> QED
    BY <1>1, <1>2, <2>1 DEF SenseOfStep
<1>4. CountedSinceCheck /\ Unchecked /\ Agreeing /\ LateCounted /\ TypeMatchesServer
    BY <1>1, <1>2 DEF CountedSinceCheck, Unchecked, Agreeing, LateCounted, TypeMatchesServer
<1>5. NotBehind
    BY <1>1, <1>2 DEF NotBehind
<1> QED
    BY <1>3, <1>4, <1>5, InitTypeOK DEF TInv

\* The facts about types and numbers that the steps below rest on.
LEMMA Numbers ==
    ASSUME TypeOK
    PROVE  /\ faults \in Nat
           /\ \A t \in BodyTypes : counts[t] \in Nat /\ counter[t] \in Nat
           /\ taken.type \in BodyTypes \cup {"none"} /\ lastBody.type \in BodyTypes \cup {"none"}
           /\ taken.type = "none" <=> taken = NoCommand
           /\ "none" \notin BodyTypes
BY CountsAreNat, CommandTypes, BodyTypesAssumption DEF TypeOK

LEMMA WireLength ==
    ASSUME TypeOK, wire # << >>
    PROVE  /\ Len(wire) \in Nat \ {0} /\ Tail(wire) \in Seq(Bundle)
           /\ Len(wire) <= 1 => Tail(wire) = << >>
<1>1. wire \in Seq(Bundle)
    BY DEF TypeOK
<1>2. Len(wire) \in Nat \ {0} /\ Tail(wire) \in Seq(Bundle) /\ Len(Tail(wire)) = Len(wire) - 1
    BY <1>1
<1> QED
    BY <1>2

LEMMA DeliverTInv ==
    ASSUME TInv, Deliver
    PROVE  SenseOfStep' /\ CountedSinceCheck' /\ NotBehind' /\ Unchecked'
<1> DEFINE b == Head(wire).body
<1>1. /\ wire # << >> /\ wire' = Tail(wire) /\ b \in Command
      /\ \/ /\ taken' = taken /\ \A t \in BodyTypes : counts'[t] = counts[t]
            /\ taken # NoCommand \/ b.type = "none"
         \/ /\ taken = NoCommand /\ taken' = b /\ b.type \in BodyTypes
            /\ \A t \in BodyTypes : counts'[t] = counts[t] + One(t, b.type)
    BY DeliverStep DEF TInv
<1>2. UNCHANGED <<sense, counter, lastBody, updated, checked, decided, skipped, faults, happened>>
    BY DEF Deliver, effector, world, faulty
<1>3. /\ \A t \in BodyTypes : counts[t] \in Nat /\ counter[t] \in Nat
      /\ taken.type \in BodyTypes \cup {"none"} /\ "none" \notin BodyTypes
      /\ taken.type = "none" <=> taken = NoCommand
    BY Numbers DEF TInv
<1>4. \A t \in BodyTypes : counts'[t] + One(t, taken.type) = counts[t] + One(t, taken'.type)
  <2> TAKE t \in BodyTypes
  <2>1. counts[t] \in Nat
    BY <1>3
  <2>2. CASE taken' = taken /\ counts'[t] = counts[t]
    BY <2>2
  <2>3. CASE taken = NoCommand /\ taken' = b /\ counts'[t] = counts[t] + One(t, b.type)
    <3>1. One(t, taken.type) = 0
      BY <1>3, <2>3 DEF One
    <3> QED
      BY <2>1, <2>3, <3>1 DEF One
  <2> QED
    BY <1>1, <2>2, <2>3
<1>5. Len(wire) = 1 => wire' = << >>
    BY <1>1, WireLength DEF TInv
<1>6. Len(wire) <= 1 => wire' = << >>
    BY <1>1, WireLength DEF TInv
<1> HIDE DEF b
<1>7. SenseOfStep'
  <2> SUFFICES ASSUME sense # << >>, NEW t \in BodyTypes
               PROVE  counts'[t] = Head(sense)[t] + One(t, taken'.type)
    BY <1>2 DEF SenseOfStep, TInv
  <2>1. counts[t] = Head(sense)[t] + One(t, taken.type)
    BY DEF TInv, SenseOfStep
  <2>2. counts'[t] + One(t, taken.type) = counts[t] + One(t, taken'.type)
    BY <1>4
  <2>3. Head(sense)[t] \in Nat
    <3>1. Head(sense) \in Counts
      BY DEF TInv, TypeOK
    <3> QED
      BY <3>1, CountsAreNat
  <2>4. counts'[t] \in Nat
    BY NextTypeOK, CountsAreNat DEF TInv, Next, TypeOK
  <2> QED
    BY <2>1, <2>2, <2>3, <2>4 DEF One
<1>8. CountedSinceCheck'
  <2> SUFFICES ASSUME checked PROVE CountedSinceCheck'
    BY <1>2 DEF CountedSinceCheck
  <2>1. PICK sent \in BodyTypes \cup {"none"} :
          /\ \A t \in BodyTypes : counter[t] + One(t, taken.type) = counts[t] + One(t, sent)
          /\ decided => lastBody.type \in {"none", sent}
          /\ ~decided => sent = "none"
    BY DEF TInv, CountedSinceCheck
  <2>2. ASSUME NEW t \in BodyTypes
        PROVE  counter[t] + One(t, taken'.type) = counts'[t] + One(t, sent)
    <3>1. counter[t] + One(t, taken.type) = counts[t] + One(t, sent)
      BY <2>1
    <3>2. counts'[t] + One(t, taken.type) = counts[t] + One(t, taken'.type)
      BY <1>4
    <3>3. counts'[t] \in Nat /\ counts[t] \in Nat /\ counter[t] \in Nat
      BY <1>3, NextTypeOK, CountsAreNat DEF TInv, Next, TypeOK
    <3> QED
      BY <3>1, <3>2, <3>3 DEF One
  <2> QED
    BY <1>2, <2>1, <2>2 DEF CountedSinceCheck
<1>9. NotBehind'
  <2> SUFFICES ASSUME "late" \notin happened PROVE NotBehind'
    BY <1>2 DEF NotBehind
  <2>1. Len(wire) <= 1 /\ decided
    BY <1>1 DEF TInv, NotBehind
  <2>2. wire' = << >>
    BY <1>6, <2>1
  <2>3. ASSUME sense = << >>, NEW t \in BodyTypes PROVE counter[t] >= counts'[t]
    <3>1. counter[t] >= counts[t] + One(t, b.type)
      BY <1>1, <2>3, <2>1 DEF TInv, NotBehind, b
    <3>2. counts'[t] = counts[t] \/ counts'[t] = counts[t] + One(t, b.type)
      BY <1>1
    <3> QED
      BY <1>3, <3>1, <3>2 DEF One
  <2> QED
    BY <1>2, <2>1, <2>2, <2>3 DEF NotBehind
<1>10. Unchecked'
  <2> SUFFICES ASSUME sense = << >>, ~checked PROVE Unchecked'
    BY <1>2 DEF Unchecked
  <2>1. decided /\ Len(wire) = 1 /\ taken = NoCommand /\ faults >= 1
        /\ lastBody.type \in {"none", b.type}
    BY <1>1 DEF TInv, Unchecked, b
  <2>2. wire' = << >>
    BY <1>5, <2>1
  <2>3. lastBody.type \in {"none", taken'.type}
    BY <1>1, <1>3, <2>1
  <2> QED
    BY <1>2, <2>1, <2>2, <2>3 DEF Unchecked
<1> QED
    BY <1>7, <1>8, <1>9, <1>10

LEMMA LoseTInv ==
    ASSUME TInv, Lose
    PROVE  SenseOfStep' /\ CountedSinceCheck' /\ NotBehind' /\ Unchecked'
<1> DEFINE b == Head(wire).body
<1>1. /\ wire # << >> /\ wire' = Tail(wire) /\ faults' = faults + 1
      /\ happened' = happened \cup {"command"}
      /\ UNCHANGED <<counts, taken, sense, counter, lastBody, updated, checked, decided>>
    BY DEF Lose, Fault, server, effector, world
<1>2. /\ \A t \in BodyTypes : counts[t] \in Nat /\ counter[t] \in Nat
      /\ lastBody.type \in BodyTypes \cup {"none"} /\ faults \in Nat
    BY Numbers DEF TInv
<1>3. Len(wire) <= 1 => wire' = << >>
    BY <1>1, WireLength DEF TInv
<1> HIDE DEF b
<1>4. SenseOfStep' /\ CountedSinceCheck'
    BY <1>1 DEF TInv, SenseOfStep, CountedSinceCheck
<1>5. NotBehind'
  <2> SUFFICES ASSUME "late" \notin happened PROVE NotBehind'
    BY <1>1 DEF NotBehind
  <2>1. Len(wire) <= 1 /\ decided
    BY <1>1 DEF TInv, NotBehind
  <2>2. wire' = << >>
    BY <1>3, <2>1
  <2>3. ASSUME sense = << >>, NEW t \in BodyTypes PROVE counter[t] >= counts[t]
    <3>1. counter[t] >= counts[t] + One(t, b.type)
      BY <1>1, <2>3 DEF TInv, NotBehind, b
    <3> QED
      BY <1>2, <3>1 DEF One
  <2> QED
    BY <1>1, <2>1, <2>2, <2>3 DEF NotBehind
<1>6. Unchecked'
  <2> SUFFICES ASSUME sense = << >>, ~checked PROVE Unchecked'
    BY <1>1 DEF Unchecked
  <2>1. /\ decided /\ Len(wire) = 1 /\ faults >= 1 /\ lastBody.type \in {"none", b.type}
        /\ faults >= 2 \/ \A t \in BodyTypes : counter[t] >= counts[t] + One(t, b.type)
    BY <1>1 DEF TInv, Unchecked, b
  <2>2. wire' = << >> /\ faults' >= 1
    BY <1>1, <1>2, <1>3, <2>1
  <2>3. lastBody.type = "none" \/ counter[lastBody.type] # counts[lastBody.type] \/ faults' >= 3
    <3>1. CASE faults >= 2
      BY <1>1, <1>2, <3>1
    <3>2. CASE lastBody.type \in BodyTypes /\ faults < 2
      <4>1. lastBody.type = b.type
        BY <2>1, <3>2, BodyTypesAssumption
      <4>2. counter[lastBody.type] >= counts[lastBody.type] + 1
        BY <1>2, <2>1, <3>2, <4>1 DEF One
      <4> QED
        BY <1>2, <3>2, <4>2
    <3> QED
      BY <1>2, <3>1, <3>2
  <2> QED
    BY <1>1, <2>1, <2>2, <2>3 DEF Unchecked
<1> QED
    BY <1>4, <1>5, <1>6

LEMMA NextStepTInv ==
    ASSUME TInv, NextStep
    PROVE  SenseOfStep' /\ CountedSinceCheck' /\ NotBehind' /\ Unchecked' /\ Agreeing'
<1>1. /\ sense = << >> /\ executed' = taken /\ taken' = NoCommand
      /\ ~updated' /\ ~checked' /\ ~decided'
      /\ UNCHANGED <<counts, wire, counter, lastBody>>
      /\ faults \in Nat /\ faults' \in Nat /\ faults' >= faults
      /\ \/ /\ decided /\ wire = << >> /\ sense' = << >> /\ faults' = faults + 1
            /\ happened' = happened \cup {"sense_body"}
         \/ /\ sense' = <<counts>> /\ (~skipped' => decided)
            /\ \/ wire = << >> /\ ("late" \in happened' => "late" \in happened)
               \/ wire # << >> /\ faults' = faults + 1 /\ "late" \in happened'
      /\ happened \subseteq happened'
    BY NextStepCases DEF TInv
<1>2. /\ \A t \in BodyTypes : counts[t] \in Nat /\ counter[t] \in Nat
      /\ lastBody.type \in BodyTypes \cup {"none"} /\ "none" \notin BodyTypes
      /\ taken.type \in BodyTypes \cup {"none"} /\ taken.type = "none" <=> taken = NoCommand
    BY Numbers DEF TInv
<1>3. NoCommand.type = "none"
    BY DEF NoCommand
<1>4. SenseOfStep'
  <2>1. ASSUME sense' # << >> PROVE Len(sense') = 1 /\ Head(sense') = counts
    BY <1>1, <2>1
  <2>2. \A t \in BodyTypes : counts[t] = counts[t] + One(t, taken'.type)
    BY <1>1, <1>2, <1>3 DEF One
  <2> QED
    BY <1>1, <2>1, <2>2 DEF SenseOfStep
<1>5. CountedSinceCheck'
    BY <1>1 DEF CountedSinceCheck
<1>6. NotBehind'
  <2> SUFFICES ASSUME "late" \notin happened' PROVE NotBehind'
    BY DEF NotBehind
  <2>1. wire = << >> /\ wire' = << >> /\ Len(wire') = 0 /\ "late" \notin happened
    BY <1>1
  <2>2. \A t \in BodyTypes : counter[t] >= counts[t]
    BY <1>1, <2>1 DEF TInv, NotBehind
  <2> QED
    BY <1>1, <2>1, <2>2 DEF NotBehind
<1>7. Unchecked'
  <2> SUFFICES ASSUME sense' = << >> PROVE Unchecked'
    BY DEF Unchecked
  <2>1. wire = << >> /\ faults' = faults + 1
    BY <1>1
  <2>2. faults' >= 2 \/ \A t \in BodyTypes : counter[t] >= counts[t]
    <3>1. CASE "late" \in happened
      BY <1>1, <2>1, <3>1 DEF TInv, LateCounted
    <3>2. CASE "late" \notin happened
      BY <1>1, <2>1, <3>2 DEF TInv, NotBehind
    <3> QED
      BY <3>1, <3>2
  <2>3. faults' >= 1
    BY <1>1, <2>1
  <2> QED
    BY <1>1, <2>1, <2>2, <2>3 DEF Unchecked
<1>8. Agreeing'
  <2> SUFFICES ASSUME sense' # << >>, ~skipped', faults' <= 2
               PROVE  \/ lastBody.type \in {"none", taken.type}
                      \/ counter[lastBody.type] # counts[lastBody.type]
    <3>1. sense' # << >> => Head(sense') = counts
      BY <1>1
    <3> QED
      BY <1>1, <3>1 DEF Agreeing
  <2>1. decided
    BY <1>1
  <2>2. CASE checked
    <3>1. PICK sent \in BodyTypes \cup {"none"} :
            /\ \A t \in BodyTypes : counter[t] + One(t, taken.type) = counts[t] + One(t, sent)
            /\ lastBody.type \in {"none", sent}
      BY <2>1, <2>2 DEF TInv, CountedSinceCheck
    <3>2. CASE lastBody.type = sent /\ sent \in BodyTypes /\ sent # taken.type
      <4>1. counter[sent] + One(sent, taken.type) = counts[sent] + One(sent, sent)
        BY <3>1, <3>2
      <4>2. counter[sent] + 0 = counts[sent] + 1
        BY <3>2, <4>1 DEF One
      <4> QED
        BY <1>2, <3>2, <4>2
    <3> QED
      BY <3>1, <3>2
  <2>3. CASE ~checked /\ wire = << >>
    <3>1. ~(faults >= 3)
      BY <1>1
    <3> QED
      BY <1>1, <2>1, <2>3, <3>1 DEF TInv, Unchecked
  <2>4. CASE ~checked /\ wire # << >>
    <3> DEFINE b == Head(wire).body
    <3>1. /\ lastBody.type \in {"none", b.type}
          /\ faults >= 2 \/ \A t \in BodyTypes : counter[t] >= counts[t] + One(t, b.type)
      BY <1>1, <2>1, <2>4 DEF TInv, Unchecked
    <3>2. ~(faults >= 2)
      BY <1>1, <2>4
    <3>3. CASE lastBody.type = b.type /\ b.type \in BodyTypes
      <4>1. counter[b.type] >= counts[b.type] + 1
        BY <3>1, <3>2, <3>3 DEF One
      <4>2. counter[b.type] # counts[b.type]
        BY <1>2, <3>3, <4>1
      <4> QED
        BY <3>3, <4>2
    <3> QED
      BY <1>2, <3>1, <3>3
  <2> QED
    BY <2>2, <2>3, <2>4
<1> QED
    BY <1>4, <1>5, <1>6, <1>7, <1>8

LEMMA ReadSenseTInv ==
    ASSUME TInv, ReadSense
    PROVE  SenseOfStep' /\ CountedSinceCheck' /\ NotBehind' /\ TypeMatchesServer'
<1> DEFINE sensed == Head(sense)
<1>1. /\ sense # << >> /\ sense' = << >> /\ checked' /\ updated'
      /\ lastBody' = Believed(lastBody, sensed) /\ counter' = sensed
      /\ UNCHANGED <<counts, taken, executed, wire, decided, skipped, faults, happened>>
    BY DEF ReadSense, Update, server, faulty
<1>2. /\ ~updated /\ ~decided
      /\ \A t \in BodyTypes : counts[t] = sensed[t] + One(t, taken.type)
    BY <1>1 DEF TInv, SenseOfStep
<1>3. applied' = lastBody'
    BY <1>2 DEF ReadSense, Update
<1>4. \A t \in BodyTypes : sensed[t] \in Nat
  <2>1. sensed \in Counts
    BY <1>1 DEF TInv, TypeOK
  <2> QED
    BY <2>1, CountsAreNat
<1> HIDE DEF sensed
<1>5. SenseOfStep'
    BY <1>1 DEF SenseOfStep
<1>6. CountedSinceCheck'
  <2>1. \A t \in BodyTypes : sensed[t] + One(t, taken.type) = counts[t] + One(t, "none")
    <3> TAKE t \in BodyTypes
    <3>1. counts[t] = sensed[t] + One(t, taken.type) /\ sensed[t] \in Nat /\ t # "none"
      BY <1>2, <1>4, BodyTypesAssumption
    <3> QED
      BY <3>1 DEF One
  <2> QED
    BY <1>1, <1>2, <2>1 DEF CountedSinceCheck
<1>7. NotBehind'
  <2> SUFFICES ASSUME "late" \notin happened PROVE NotBehind'
    BY <1>1 DEF NotBehind
  <2>1. Len(wire) <= 1 /\ wire = << >> /\ taken = NoCommand
    BY <1>2 DEF TInv, NotBehind
  <2>2. \A t \in BodyTypes : sensed[t] >= counts[t]
    <3> TAKE t \in BodyTypes
    <3>1. counts[t] = sensed[t] + One(t, taken.type) /\ sensed[t] \in Nat /\ t # "none"
      BY <1>2, <1>4, BodyTypesAssumption
    <3>2. taken.type = "none"
      BY <2>1 DEF NoCommand
    <3>3. counts[t] = sensed[t] + 0
      BY <3>1, <3>2 DEF One
    <3> QED
      BY <3>1, <3>3
  <2> QED
    BY <1>1, <1>2, <2>1, <2>2 DEF NotBehind
<1>8. TypeMatchesServer'
  <2> SUFFICES ASSUME ~skipped, faults <= 2 PROVE lastBody'.type \in {"none", executed.type}
    BY <1>1, <1>3 DEF TypeMatchesServer
  <2>1. \/ lastBody.type \in {"none", executed.type}
        \/ lastBody.type \in BodyTypes /\ counter[lastBody.type] # sensed[lastBody.type]
    BY <1>1, Numbers DEF TInv, Agreeing, sensed
  <2> QED
    BY <1>1, <2>1 DEF Believed, NoCommand
<1> QED
    BY <1>5, <1>6, <1>7, <1>8

LEMMA DecideTInv ==
    ASSUME TInv, Decide
    PROVE  SenseOfStep' /\ CountedSinceCheck' /\ NotBehind' /\ Unchecked'
<1>1. /\ sense = << >> /\ ~decided /\ decided' /\ updated'
      /\ UNCHANGED <<counts, taken, sense, checked, faults, happened>>
    BY DEF Decide, Update, server, faulty
<1>2. PICK b \in Bundle :
        /\ wire' = Append(wire, b)
        /\ b.body.type \in BodyTypes \cup {"none"}
        /\ lastBody'.type \in {"none", b.body.type}
        /\ \A t \in BodyTypes : counter'[t] = counter[t] + One(t, b.body.type)
    BY DecideStep DEF TInv
<1>3. \A t \in BodyTypes : counts[t] \in Nat /\ counter[t] \in Nat
    BY Numbers DEF TInv
<1>4. wire = << >> => Len(wire') = 1 /\ Head(wire') = b /\ wire' # << >>
    BY <1>2
<1>5. SenseOfStep'
    BY <1>1 DEF SenseOfStep
<1>6. CountedSinceCheck'
  <2> SUFFICES ASSUME checked PROVE CountedSinceCheck'
    BY <1>1 DEF CountedSinceCheck
  <2>1. \A t \in BodyTypes : counter[t] + One(t, taken.type) = counts[t] + One(t, "none")
    BY <1>1 DEF TInv, CountedSinceCheck
  <2>2. \A t \in BodyTypes : counter'[t] + One(t, taken.type) = counts[t] + One(t, b.body.type)
    BY <1>2, <1>3, <2>1, BodyTypesAssumption DEF One
  <2> QED
    BY <1>1, <1>2, <2>2 DEF CountedSinceCheck
<1>7. NotBehind'
  <2> SUFFICES ASSUME "late" \notin happened PROVE NotBehind'
    BY <1>1 DEF NotBehind
  <2>1. wire = << >> /\ \A t \in BodyTypes : counter[t] >= counts[t]
    BY <1>1 DEF TInv, NotBehind
  <2>2. \A t \in BodyTypes : counter'[t] >= counts[t] + One(t, b.body.type)
    BY <1>2, <1>3, <2>1 DEF One
  <2>3. Len(wire') = 1 /\ Head(wire') = b /\ wire' # << >>
    BY <1>4, <2>1
  <2> QED
    BY <1>1, <2>2, <2>3 DEF NotBehind
<1>8. Unchecked'
  <2> SUFFICES ASSUME ~checked PROVE Unchecked'
    BY <1>1 DEF Unchecked
  <2>1. /\ wire = << >> /\ taken = NoCommand /\ faults >= 1
        /\ faults >= 2 \/ \A t \in BodyTypes : counter[t] >= counts[t]
    BY <1>1 DEF TInv, Unchecked
  <2>2. faults >= 2 \/ \A t \in BodyTypes : counter'[t] >= counts[t] + One(t, b.body.type)
    BY <1>2, <1>3, <2>1 DEF One
  <2>3. Len(wire') = 1 /\ Head(wire') = b /\ wire' # << >>
    BY <1>4, <2>1
  <2> QED
    BY <1>1, <1>2, <2>1, <2>2, <2>3 DEF Unchecked
<1> QED
    BY <1>5, <1>6, <1>7, <1>8

LEMMA NextTInv == TInv /\ [Next]_vars => TInv'
<1> SUFFICES ASSUME TInv, [Next]_vars PROVE TInv'
    OBVIOUS
<1> USE DEF server, effector, world, faulty
<1>1. TypeOK' /\ faults \in Nat
    BY NextTypeOK DEF TInv, TypeOK
<1>2. CASE Deliver
  <2>1. Agreeing' /\ LateCounted' /\ TypeMatchesServer'
    BY <1>2 DEF TInv, Agreeing, LateCounted, TypeMatchesServer, Deliver
  <2> QED
    BY <1>1, <1>2, <2>1, DeliverTInv DEF TInv
<1>3. CASE Lose
  <2>1. Agreeing' /\ LateCounted' /\ TypeMatchesServer'
    BY <1>1, <1>3 DEF TInv, Agreeing, LateCounted, TypeMatchesServer, Lose, Fault
  <2> QED
    BY <1>1, <1>3, <2>1, LoseTInv DEF TInv
<1>4. CASE NextStep
  <2>1. LateCounted'
    BY <1>1, <1>4, NextStepCases DEF TInv, LateCounted
  <2>2. TypeMatchesServer'
    BY <1>4, NextStepCases DEF TInv, TypeMatchesServer
  <2> QED
    BY <1>1, <1>4, <2>1, <2>2, NextStepTInv DEF TInv
<1>5. CASE ReadSense
  <2>1. Unchecked' /\ Agreeing' /\ LateCounted'
    BY <1>5 DEF TInv, Unchecked, Agreeing, LateCounted, ReadSense
  <2> QED
    BY <1>1, <1>5, <2>1, ReadSenseTInv DEF TInv
<1>6. CASE ReadSee
  <2>1. ~checked
    BY <1>6 DEF TInv, SenseOfStep, ReadSee
  <2> QED
    BY <1>1, <1>6, <2>1 DEF TInv, ReadSee, SenseOfStep, CountedSinceCheck, NotBehind, Unchecked,
       Agreeing, LateCounted, TypeMatchesServer
<1>7. CASE Decide
  <2>1. checked => updated
    BY DEF TInv, SenseOfStep
  <2>2. Agreeing' /\ LateCounted' /\ TypeMatchesServer'
    BY <1>7, <2>1 DEF TInv, Agreeing, LateCounted, TypeMatchesServer, Decide, Update
  <2> QED
    BY <1>1, <1>7, <2>2, DecideTInv DEF TInv
<1>8. CASE UNCHANGED vars
    BY <1>1, <1>8 DEF vars, TInv, SenseOfStep, CountedSinceCheck, NotBehind, Unchecked,
       Agreeing, LateCounted, TypeMatchesServer
<1> QED
    BY <1>2, <1>3, <1>4, <1>5, <1>6, <1>7, <1>8 DEF Next

\* With commands lost or late and sense_body lost, no more than two of them in
\* all, in whatever steps: an update that follows a check of the counts applies
\* no body command of a type that the server did not execute, unless the step
\* before had no decision.
THEOREM TypeCorrectEffect == Spec => []TypeMatchesServer
<1>1. TInv => TypeMatchesServer
    BY DEF TInv
<1> QED
    BY <1>1, InitTInv, NextTInv, PTL DEF Spec

=============================================================================
