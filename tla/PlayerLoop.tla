----------------------------- MODULE PlayerLoop -----------------------------
(***************************************************************************)
(* The player client between two decisions: PlayerAgent's game clock, the  *)
(* messages that move it, and the two places that decide when action() is  *)
(* called, handleMessage and handleTimeout (rcsc/player/player_agent.cpp). *)
(*                                                                         *)
(* The server (external) takes numbered steps.  In a step it moves the     *)
(* cycle unless the play mode stops it, may announce another play mode,    *)
(* sends sense_body and then sees and a (think).  Every message carries    *)
(* the cycle and none the step: the agent has to work out from the play    *)
(* mode that a new step has come while the cycle stands.                   *)
(***************************************************************************)
EXTENDS Integers, SequencesExt

CONSTANTS
    SynchModes,  \* the values ServerParam::synchMode may have
    FaultKinds,  \* the kinds of fault that may happen: a message is lost, a
                 \* step begins before the agent has decided in the last one,
                 \* a play mode is announced after a step's sense_body
    MaxFaults,   \* how many of them may happen in one behaviour
    MaxStep,     \* server steps
    MaxFaultStep, \* server steps of a behaviour with faults
    MaxInbox     \* messages the agent's socket holds

ASSUME SynchModesAssumption == SynchModes \subseteq BOOLEAN
ASSUME FaultKindsAssumption == FaultKinds \subseteq {"loss", "overrun", "mid_step"}
ASSUME BoundsAssumption ==
    MaxFaults \in Nat /\ MaxStep \in Nat /\ MaxFaultStep \in Nat /\ MaxInbox \in Nat

\* Play modes, one for each way the client treats them.  The cycle stands in
\* before_kick_off and in a foul.
Mode        == {"before_kick_off", "play_on", "free_kick", "foul", "time_over"}
IsServerCycleStoppedMode(m) == m \in {"before_kick_off", "foul"}

\* What the server may announce next.
Following(m) ==
    CASE m = "before_kick_off" -> {"play_on"}
      [] m = "play_on"         -> {"foul", "free_kick", "time_over"}
      [] m = "foul"            -> {"free_kick"}
      [] m = "free_kick"       -> {"play_on"}
      [] m = "time_over"       -> {}

VARIABLES
    synchMode,    \* ServerParam::synchMode: decisions wait for (think)
    step, cycle, mode,  \* the server's step, cycle and play mode
    moved,        \* the step has moved the cycle
    thought,      \* the step's (think) has been sent
    lastStop,     \* the step of the last announcement that stopped play
    inbox,        \* messages in the agent's socket, oldest first
    midStep,      \* the last step with an announcement in its middle
    faults,       \* faults so far
    pc,           \* "select", or "drain" while handleMessage reads the socket
    time,         \* Impl::current_time_, a game time <<cycle, stopped>>
    gameMode,     \* Impl::game_mode_
    cycleStopped, \* Impl::server_cycle_stopped_
    worldMode,    \* world().gameMode()
    senseTime,    \* world().senseBodyTime()
    seeTime,      \* world().seeTime()
    lastDecision, \* Impl::last_decision_time_
    think,        \* Impl::think_received_
    timeouts,     \* the select loop's timeout_count, up to 3
    joined,       \* world().self().unum() is known
    alive,        \* BasicClient::isServerAlive
    intention,    \* Impl::intention_: the step it was set in, 0 for none
    heardStep,    \* the step of the newest message read
    decidedStep,  \* heardStep at the last action()
    decisions     \* the calls of action() for that step, 2 standing for more

server == <<synchMode, step, cycle, mode, moved, thought, lastStop, midStep, faults>>
clock  == <<time, gameMode, cycleStopped, worldMode>>
world  == <<senseTime, seeTime, joined>>
vars   == <<server, inbox, pc, clock, world, lastDecision, think, timeouts,
            alive, intention, heardStep, decidedStep, decisions>>

NoTime == <<-1, 0>>

\* A decision after count timeouts that may be the cycle's second, and one
\* that always waits for the cycle's sense_body.
DecisionTimingTwice(count, noSee, over) ==
    /\ ~synchMode /\ joined /\ senseTime # NoTime
    /\ seeTime = time \/ noSee \/ over

DecisionTimingAfterSense(count, noSee, over) ==
    /\ ~synchMode /\ joined /\ senseTime # NoTime
    /\ lastDecision # time
    /\ \/ seeTime = time
       \/ lastDecision # senseTime /\ (noSee \/ over)

\* isDecisionTiming after count timeouts; noSee: the agent is synchronised
\* and expects no see in this cycle; over: the wait threshold has passed.
IsDecisionTiming(count, noSee, over) ==
    /\ ~synchMode /\ joined
    /\ senseTime # NoTime
    /\ lastDecision # time
    /\ \/ seeTime = time
       \/ /\ lastDecision # senseTime \/ count > 2
          /\ noSee \/ over

-----------------------------------------------------------------------------
(* The server.                                                             *)

Fault(kind) ==
    /\ kind \in FaultKinds
    /\ faults < MaxFaults /\ step' <= MaxFaultStep
    /\ faults' = faults + 1

\* Put messages in the agent's socket, or lose one of them.
Send(messages) ==
    /\ Len(inbox) + Len(messages) <= MaxInbox
    /\ \/ inbox' = inbox \o messages /\ UNCHANGED faults
       \/ /\ Fault("loss")
          /\ \E lost \in 1 .. Len(messages) : inbox' = inbox \o RemoveAt(messages, lost)

AgentUnchanged ==
    UNCHANGED <<pc, clock, world, lastDecision, think, timeouts, alive,
                intention, heardStep, decidedStep, decisions>>

Message(type, c, m, s) == [type |-> type, cycle |-> c, mode |-> m, step |-> s]

\* A new step: the cycle, an announcement, sense_body.
NextCycle == IF IsServerCycleStoppedMode(mode) \/ mode = "time_over"
             THEN cycle ELSE cycle + 1

StepMessages(m) ==
    (IF m = mode THEN << >> ELSE <<Message("referee", NextCycle, m, step + 1)>>)
      \o <<Message("sense_body", NextCycle, m, step + 1)>>

Step(m) ==
    /\ step < IF faults = 0 THEN MaxStep ELSE MaxFaultStep
    /\ step' = step + 1
    /\ cycle' = NextCycle
    /\ moved' = (cycle' # cycle)
    /\ thought' = FALSE
    /\ mode' = m
    /\ lastStop' = IF m \in {mode, "play_on"} THEN lastStop ELSE step'
    /\ UNCHANGED <<synchMode, midStep>>
    /\ AgentUnchanged

\* The agent has read everything and has nothing left to decide: the wait
\* thresholds are shorter than a step.
Punctual ==
    /\ inbox = << >> /\ pc = "select"
    /\ IF synchMode THEN thought ELSE alive => ~IsDecisionTiming(3, TRUE, TRUE)

NextStep ==
    /\ Punctual
    /\ \E m \in {mode} \cup Following(mode) : Step(m) /\ Send(StepMessages(m))

\* A step begins while the agent is still at the last one; nothing is lost.
\* A server in synch_mode does not do this: it waits for each client's (done).
Overrun ==
    /\ ~synchMode /\ ~Punctual
    /\ \E m \in {mode} \cup Following(mode) :
          /\ Step(m)
          /\ Fault("overrun")
          /\ inbox' = inbox \o StepMessages(m)
          /\ Len(inbox') <= MaxInbox

\* An announcement in the middle of a step (a trainer's change_mode).
AnnounceMidStep ==
    /\ UNCHANGED <<synchMode, step, cycle, moved, thought>>
    /\ Fault("mid_step")
    /\ midStep' = step
    /\ Len(inbox) < MaxInbox
    /\ \E m \in Following(mode) :
          /\ mode' = m
          /\ lastStop' = IF m = "play_on" THEN lastStop ELSE step
          /\ inbox' = Append(inbox, Message("referee", cycle, m, step))
    /\ AgentUnchanged

SendSee ==
    /\ UNCHANGED <<synchMode, step, cycle, mode, moved, thought, lastStop, midStep>>
    /\ Send(<<Message("see", cycle, mode, step)>>)
    /\ AgentUnchanged

SendThink ==
    /\ synchMode /\ ~thought
    /\ thought' = TRUE
    /\ UNCHANGED <<synchMode, step, cycle, mode, moved, lastStop, midStep>>
    /\ Send(<<Message("think", cycle, mode, step)>>)
    /\ AgentUnchanged

-----------------------------------------------------------------------------
(* The agent's clock.                                                      *)

\* Clocks that any message in a stopped cycle moves on, or none does, or that
\* run backwards in it.
TimeMovedByAll(newCycle, bySenseBody) ==
    IF cycleStopped /\ newCycle = time[1] THEN <<time[1], time[2] + 1>>
    ELSE <<newCycle, 0>>

TimeMovedByNone(newCycle, bySenseBody) ==
    IF cycleStopped /\ newCycle = time[1] THEN time ELSE <<newCycle, 0>>

TimeMovedBack(newCycle, bySenseBody) ==
    IF cycleStopped /\ newCycle = time[1] THEN <<time[1], time[2] - 1>>
    ELSE <<newCycle, 0>>

\* Impl::updateCurrentTime.
UpdatedTime(newCycle, bySenseBody) ==
    IF ~cycleStopped THEN <<newCycle, 0>>
    ELSE IF newCycle # time[1] THEN <<newCycle, 0>>
    ELSE IF bySenseBody THEN <<time[1], time[2] + 1>>
    ELSE time

\* Impl::action, as far as the clock and the decision go: the decision is
\* made for the newest step heard of; it may keep, drop or set an intention.
Act ==
    /\ lastDecision' = time'
    /\ decidedStep' = heardStep'
    /\ decisions' = IF heardStep' # decidedStep THEN 1 ELSE IF decisions = 0 THEN 1 ELSE 2
    /\ intention' \in {0, intention, heardStep'}

NoAct == UNCHANGED <<lastDecision, decidedStep, decisions, intention>>

-----------------------------------------------------------------------------
(* handleMessage: read and parse until the socket is empty, then decide.   *)

Read ==
    /\ alive \/ pc = "drain"
    /\ inbox # << >>
    /\ inbox' = Tail(inbox)
    /\ pc' = "drain"
    /\ timeouts' = 0
    /\ heardStep' = Head(inbox).step
    /\ UNCHANGED server

\* analyzeInit: the side and number, and the play mode; the world model is
\* not told the mode.
AnalyzeInit ==
    /\ Read
    /\ Head(inbox).type = "init"
    /\ joined' = TRUE
    /\ gameMode' = Head(inbox).mode
    /\ cycleStopped' = IsServerCycleStoppedMode(Head(inbox).mode)
    /\ UNCHANGED <<time, worldMode, senseTime, seeTime, think, alive>>
    /\ NoAct

\* analyzeSenseBody and WorldModel::updateAfterSenseBody.
AnalyzeSenseBody ==
    /\ Read
    /\ Head(inbox).type = "sense_body"
    /\ time' = UpdatedTime(Head(inbox).cycle, TRUE)
    /\ senseTime' = time'
    /\ UNCHANGED <<gameMode, cycleStopped, worldMode, seeTime, joined, think, alive>>
    /\ NoAct

\* analyzeSee and WorldModel::updateAfterSee.
AnalyzeSee ==
    /\ Read
    /\ Head(inbox).type = "see"
    /\ time' = UpdatedTime(Head(inbox).cycle, FALSE)
    /\ seeTime' = time'
    /\ UNCHANGED <<gameMode, cycleStopped, worldMode, senseTime, joined, think, alive>>
    /\ NoAct

\* What a play mode leaves of the intention; and the same without a reset.
IntentionKept(m)  == intention
IntentionAfter(m) == IF m = "play_on" THEN intention ELSE 0

\* analyzeHear for a referee's message, analyzeHearReferee and
\* updateServerStatus.  Announcements that are no play mode are left out: cards,
\* and the end of a training episode, which drops the intention.
AnalyzeHearReferee ==
    /\ Read
    /\ Head(inbox).type = "referee"
    /\ time' = UpdatedTime(Head(inbox).cycle, FALSE)
    /\ LET m == Head(inbox).mode IN
          /\ gameMode' = m
          /\ cycleStopped' = IsServerCycleStoppedMode(m)
          /\ IF m = "time_over"
             THEN alive' = FALSE /\ UNCHANGED <<worldMode, intention>>
             ELSE /\ worldMode' = m
                  /\ intention' = IntentionAfter(m)
                  /\ UNCHANGED alive
    /\ UNCHANGED <<world, think, lastDecision, decidedStep, decisions>>

AnalyzeThink ==
    /\ Read
    /\ Head(inbox).type = "think"
    /\ think' = TRUE
    /\ UNCHANGED <<clock, world, alive>>
    /\ NoAct

\* The end of handleMessage: (think), or a see of the current cycle that has
\* not been decided on.
EndOfDrain ==
    /\ pc = "drain" /\ inbox = << >>
    /\ pc' = "select"
    /\ think' = FALSE
    /\ UNCHANGED <<server, inbox, clock, world, timeouts, alive, heardStep>>
    /\ IF think \/ (~synchMode /\ lastDecision # time /\ seeTime = time)
       THEN Act ELSE NoAct

\* handleTimeout.
HandleTimeout ==
    /\ alive /\ inbox = << >> /\ pc = "select"
    /\ timeouts' = IF timeouts < 3 THEN timeouts + 1 ELSE 3
    /\ UNCHANGED <<server, inbox, pc, clock, world, think, alive, heardStep>>
    /\ \E noSee, over \in BOOLEAN :
          IF IsDecisionTiming(timeouts', noSee, over) THEN Act ELSE NoAct

\* handleTimeout when the server has been silent for server_wait_seconds.
ServerDown ==
    /\ alive /\ inbox = << >> /\ pc = "select"
    /\ step = IF faults = 0 THEN MaxStep ELSE MaxFaultStep
    /\ timeouts = 3
    /\ alive' = FALSE
    /\ NoAct
    /\ UNCHANGED <<server, inbox, pc, clock, world, think, timeouts, heardStep>>

-----------------------------------------------------------------------------
\* The player joins, or joins again, in any play mode.
Init ==
    /\ synchMode \in SynchModes
    /\ mode \in Mode \ {"time_over"}
    /\ step = 1 /\ cycle = 0 /\ moved = FALSE /\ thought = TRUE /\ lastStop = 0
    /\ inbox = <<Message("init", 0, mode, 1)>>
    /\ midStep = 0 /\ faults = 0
    /\ pc = "select"
    /\ time = <<0, 0>>
    /\ gameMode = "before_kick_off" /\ worldMode = "before_kick_off"
    /\ cycleStopped = TRUE
    /\ senseTime = NoTime /\ seeTime = NoTime /\ lastDecision = NoTime
    /\ think = FALSE /\ timeouts = 0 /\ joined = FALSE /\ alive = TRUE
    /\ intention = 0 /\ heardStep = 0 /\ decidedStep = 0
    /\ decisions = 0

Next ==
    \/ NextStep \/ Overrun \/ AnnounceMidStep \/ SendSee \/ SendThink
    \/ AnalyzeInit \/ AnalyzeSenseBody \/ AnalyzeSee \/ AnalyzeHearReferee
    \/ AnalyzeThink \/ EndOfDrain \/ HandleTimeout \/ ServerDown

Spec == Init /\ [][Next]_vars

-----------------------------------------------------------------------------
(* Properties.                                                             *)

Message_ == [type : {"init", "sense_body", "see", "referee", "think"},
             cycle : Nat, mode : Mode, step : Nat]
GameTime == Int \X Nat

\* Every variable stays in its type.
TypeOK ==
    /\ step \in Nat /\ cycle \in Nat /\ mode \in Mode
    /\ synchMode \in BOOLEAN /\ moved \in BOOLEAN /\ thought \in BOOLEAN
    /\ lastStop \in Nat /\ midStep \in Nat /\ faults \in 0 .. MaxFaults
    /\ inbox \in Seq(Message_)
    /\ pc \in {"select", "drain"}
    /\ time \in GameTime /\ gameMode \in Mode /\ worldMode \in Mode
    /\ cycleStopped \in BOOLEAN
    /\ senseTime \in GameTime /\ seeTime \in GameTime /\ lastDecision \in GameTime
    /\ think \in BOOLEAN /\ joined \in BOOLEAN /\ alive \in BOOLEAN
    /\ timeouts \in 0 .. 3
    /\ intention \in Nat /\ heardStep \in Nat /\ decidedStep \in Nat
    /\ decisions \in 0 .. 2

\* The player never decides twice in one step of the server, whatever was
\* lost or late: its second commands would be refused, or would replace the
\* first.  Only an announcement in the middle of a step makes it do so: the
\* stopped time it knows then goes back to zero.
DecidedOnce == decisions < 2 \/ midStep >= decidedStep

\* If nothing was lost or late, the player decides in every step of the server
\* while it is joined, in moving and in stopped cycles alike.
EveryStepDecided ==
    [][step' # step /\ step > 2 /\ alive /\ faults' = 0 => decidedStep = step]_vars

\* Whatever was lost or late before, a step that moves the cycle is decided
\* in, if anything of it is heard and the agent has the time.
MovingStepDecided ==
    [][NextStep /\ ~synchMode /\ alive /\ moved /\ heardStep = step /\ senseTime # NoTime
         => decidedStep = step]_vars

\* If nothing was lost or late, a decision is made on the step's own
\* sense_body.
DecidesOnOwnBody ==
    [][lastDecision' # lastDecision /\ senseTime # NoTime /\ faults = 0
         => senseTime' = time']_vars

\* No intention survives a stop of play that the player was told of in time:
\* what it executes while the socket is empty was set after the last stop.
NoIntentionAcrossStop ==
    alive /\ inbox = << >> /\ intention # 0 /\ faults = 0 => intention >= lastStop
=============================================================================
