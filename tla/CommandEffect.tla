---------------------------- MODULE CommandEffect ----------------------------
(***************************************************************************)
(* What the player believes its own last commands did.  ActionEffector     *)
(* counts the commands it sends and remembers the last body command and    *)
(* whether the neck was turned; sense_body reports how many commands of    *)
(* each type the server took, and checkCommandCount forgets what the       *)
(* server did not take, so that WorldModel::update (SelfObject::update)    *)
(* moves the player's own position only by what really happened.           *)
(*                                                                         *)
(* A command is the step it was decided in and its type; its parameters    *)
(* are abstracted.  Game times are the server's steps: SelfObject::M_time  *)
(* = current is "updated", last_decision_time_ = current is "decided".     *)
(***************************************************************************)
EXTENDS Integers, Sequences

CONSTANTS
    BodyTypes,   \* the types of body commands the player uses
    FaultKinds,  \* the kinds of fault that may happen: the commands of a
                 \* decision or a sense_body are lost, commands are late for
                 \* their step, a step passes without a decision
    MaxFaults,   \* how many of them may happen in one behaviour
    MaxStep      \* server steps

ASSUME BodyTypesAssumption ==
    "turn" \in BodyTypes /\ BodyTypes \cap {"none", "turn_neck"} = {}
ASSUME FaultKindsAssumption ==
    FaultKinds \subseteq {"command", "sense_body", "late", "overrun"}
ASSUME BoundsAssumption == MaxFaults \in Nat /\ MaxStep \in Nat

CountedTypes == BodyTypes \cup {"turn_neck"}
NoCommand    == [type |-> "none", step |-> 0]
DummyTurn    == [type |-> "turn", step |-> 0]
Command      == [type : BodyTypes, step : Nat] \cup {NoCommand}

\* turn(0) changes nothing.
Effect(c) == IF c = DummyTurn THEN NoCommand ELSE c

VARIABLES
    step,         \* the server's step
    taken,        \* server: the body command taken in this step
    neckTaken,    \* server: a turn_neck was taken in this step
    executed,     \* server: the body command of the step before, and whether
    neckExecuted, \* the neck was turned in it
    counts,       \* server: commands taken, by type
    sense,        \* a sense_body on its way: a sequence of at most one counts
    wire,         \* the commands of decisions, on their way to the server
    counter,      \* ActionEffector::M_command_counter
    lastBody,     \* M_last_body_command_type with the stored effect's step
    doneTurnNeck, \* M_done_turn_neck
    updated,      \* the world model has been updated in this step
    checked,      \* checkCommandCount has been called in this step
    decided,      \* action() has been called in this step
    skipped,      \* it was not called in the step before
    applied,      \* the body command whose effect the last update applied
    neckApplied,  \* the last update turned the neck
    faults,       \* faults so far
    happened      \* and their kinds

server == <<step, taken, neckTaken, executed, neckExecuted, counts>>
effector == <<counter, lastBody, doneTurnNeck>>
world  == <<updated, applied, neckApplied>>
faulty == <<faults, happened>>
vars   == <<server, sense, wire, effector, world, checked, decided, skipped, faulty>>

Fault(kind) ==
    /\ kind \in FaultKinds
    /\ faults < MaxFaults
    /\ faults' = faults + 1
    /\ happened' = happened \cup {kind}

\* Counting what is sent whatever its type, "none" included; and counting
\* commands by their types.
AddAnyType(c, types) ==
    [t \in CountedTypes \cup types |->
        IF t \notin CountedTypes THEN 1 ELSE IF t \in types THEN c[t] + 1 ELSE c[t]]
Add(c, types) == [t \in CountedTypes |-> IF t \in types THEN c[t] + 1 ELSE c[t]]

-----------------------------------------------------------------------------
(* The server (external).                                                  *)

\* The commands of a decision arrive: one body command and one turn_neck are
\* taken in a step, and only what is taken is counted.
Deliver ==
    /\ wire # << >>
    /\ LET sent    == Head(wire)
           body    == sent.body.type # "none" /\ taken = NoCommand
           neck    == sent.neck /\ ~neckTaken
       IN  /\ taken' = IF body THEN sent.body ELSE taken
           /\ neckTaken' = (neckTaken \/ neck)
           /\ counts' = Add(counts, (IF body THEN {sent.body.type} ELSE {})
                                      \cup (IF neck THEN {"turn_neck"} ELSE {}))
    /\ wire' = Tail(wire)
    /\ UNCHANGED <<step, executed, neckExecuted, sense, effector, world, checked,
                   decided, skipped, faulty>>

\* The commands of a decision are lost.
Lose ==
    /\ wire # << >>
    /\ Fault("command")
    /\ wire' = Tail(wire)
    /\ UNCHANGED <<server, sense, effector, world, checked, decided, skipped>>

\* The next step begins in time, too early for a decision, or too early for
\* commands still on their way; a sense_body is sent, or lost.
NextStep ==
    /\ step < MaxStep
    /\ sense = << >>
    /\ \/ /\ decided /\ wire = << >>
          /\ \/ sense' = <<counts>> /\ UNCHANGED faulty
             \/ sense' = << >> /\ Fault("sense_body")
       \/ ~decided /\ wire = << >> /\ sense' = <<counts>> /\ Fault("overrun")
       \/ decided /\ wire # << >> /\ sense' = <<counts>> /\ Fault("late")
    /\ step' = step + 1
    /\ executed' = taken /\ neckExecuted' = neckTaken
    /\ taken' = NoCommand /\ neckTaken' = FALSE
    /\ skipped' = ~decided
    /\ updated' = FALSE /\ checked' = FALSE /\ decided' = FALSE
    /\ UNCHANGED <<counts, wire, effector, applied, neckApplied>>

-----------------------------------------------------------------------------
(* The player.                                                             *)

\* WorldModel::update: nothing if it was called in this step, else what the
\* effector tells SelfObject::update.
Update(body, neck) ==
    /\ updated' = TRUE
    /\ IF updated
       THEN UNCHANGED <<applied, neckApplied>>
       ELSE applied' = body /\ neckApplied' = neck

\* The body command that is still believed; and one that is believed however
\* the counts compare, or as long as some of its type have been taken.
BelievedAlways(body, sensed)  == body
BelievedIfTaken(body, sensed) ==
    IF body.type # "none" /\ sensed[body.type] = 0 THEN NoCommand ELSE body
Believed(body, sensed) ==
    IF \E t \in BodyTypes : sensed[t] # counter[t] THEN NoCommand ELSE body

BelievedNeckAlways(neck, sensed) == neck
BelievedNeck(neck, sensed) == neck /\ sensed["turn_neck"] = counter["turn_neck"]

\* analyzeSenseBody: checkCommandCount, then updateAfterSenseBody.
ReadSense ==
    /\ sense # << >>
    /\ lastBody' = Believed(lastBody, Head(sense))
    /\ doneTurnNeck' = BelievedNeck(doneTurnNeck, Head(sense))
    /\ counter' = Head(sense)
    /\ checked' = TRUE
    /\ Update(lastBody', doneTurnNeck')
    /\ sense' = << >>
    /\ UNCHANGED <<server, wire, decided, skipped, faulty>>

\* analyzeSee: updateAfterSee, which updates if no sense_body has come.
ReadSee ==
    /\ sense = << >> /\ ~updated
    /\ Update(lastBody, doneTurnNeck)
    /\ UNCHANGED <<server, sense, wire, effector, checked, decided, skipped, faulty>>

\* makeCommand's body command: the one decided on, or, unless the player is
\* frozen, a turn that does nothing.
Sendable(body, frozen) == IF body = NoCommand /\ ~frozen THEN DummyTurn ELSE body

\* action(): updateJustBeforeDecision, ActionEffector::reset, the decision,
\* and makeCommand.
Decide ==
    /\ sense = << >> /\ ~decided
    /\ Update(lastBody, doneTurnNeck)
    /\ \E type \in BodyTypes \cup {"none"}, frozen \in BOOLEAN, neck \in BOOLEAN :
          LET body == IF type = "none" THEN NoCommand ELSE [type |-> type, step |-> step]
              sent == Sendable(body, frozen)
          IN  /\ lastBody' = body
              /\ doneTurnNeck' = neck
              /\ counter' = Add(counter, {sent.type} \cup (IF neck THEN {"turn_neck"} ELSE {}))
              /\ wire' = Append(wire, [body |-> sent, neck |-> neck])
    /\ decided' = TRUE
    /\ UNCHANGED <<server, sense, checked, skipped, faulty>>

-----------------------------------------------------------------------------
Init ==
    /\ step = 1
    /\ taken = NoCommand /\ neckTaken = FALSE
    /\ executed = NoCommand /\ neckExecuted = FALSE
    /\ counts = [t \in CountedTypes |-> 0]
    /\ sense = <<counts>> /\ wire = << >>
    /\ counter = [t \in CountedTypes |-> 0]
    /\ lastBody = NoCommand /\ doneTurnNeck = FALSE
    /\ updated = FALSE /\ checked = FALSE /\ decided = FALSE /\ skipped = FALSE
    /\ applied = NoCommand /\ neckApplied = FALSE
    /\ faults = 0 /\ happened = {}

Next == Deliver \/ Lose \/ NextStep \/ ReadSense \/ ReadSee \/ Decide

Spec == Init /\ [][Next]_vars

-----------------------------------------------------------------------------
(* Properties.                                                             *)

Bundle == [body : Command, neck : BOOLEAN]
Counts == [CountedTypes -> Nat]

\* Every variable stays in its type.
TypeOK ==
    /\ step \in Nat /\ faults \in Nat /\ happened \subseteq FaultKinds
    /\ taken \in Command /\ executed \in Command
    /\ neckTaken \in BOOLEAN /\ neckExecuted \in BOOLEAN
    /\ counts \in Counts /\ counter \in Counts
    /\ sense \in Seq(Counts)
    /\ wire \in Seq(Bundle)
    /\ lastBody \in Command /\ applied \in Command
    /\ doneTurnNeck \in BOOLEAN /\ neckApplied \in BOOLEAN
    /\ updated \in BOOLEAN /\ checked \in BOOLEAN
    /\ decided \in BOOLEAN /\ skipped \in BOOLEAN

\* As long as commands were lost and nothing else was, the player moves itself
\* by exactly what the server executed in the step before, lost commands,
\* turn(0) and frozen steps included.
OnlyLost == happened \subseteq {"command"}
EffectMatchesServer ==
    OnlyLost /\ updated => applied = Effect(executed) /\ neckApplied = neckExecuted

\* With commands late or lost and sense_body lost, no more than two of them in
\* all: an update that follows a check of the counts applies no body command
\* of a type that the server did not execute, unless the step before had no
\* decision, for then nothing has reset the effector.
TypeMatchesServer ==
    updated /\ checked /\ ~skipped /\ faults <= 2 => applied.type \in {"none", executed.type}
=============================================================================
