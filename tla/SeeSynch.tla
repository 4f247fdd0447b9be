------------------------------ MODULE SeeSynch ------------------------------
(***************************************************************************)
(* See synchronisation as a closed loop: the server's visual timer, the    *)
(* messages between server and agent, and what PlayerAgent does with       *)
(* SeeState when a see, a sense_body or a (think) arrives, when the select *)
(* loop times out, and when it decides.                                    *)
(*                                                                         *)
(* The server (external to the repository) is modelled from the timings    *)
(* that SeeState::Timing names: in 300 ms there are three 100 ms cycles    *)
(* and eight visual slots, 37.5 ms apart; a slot sends a see when as many  *)
(* slots as the view mode's interval have passed since the last see.       *)
(***************************************************************************)
EXTENDS SeeState, Sequences

CONSTANTS
    SynchModes,  \* the values ServerParam::synchMode may have
    FaultKinds,  \* the kinds of fault that may happen
    MaxFaults,   \* how many of them may happen in one behaviour
    MaxOverruns  \* and how many if all are overruns

ASSUME SynchModesAssumption == SynchModes \subseteq BOOLEAN
ASSUME FaultKindsAssumption ==
    FaultKinds \subseteq {"see", "sense_body", "change_view", "late", "overrun",
                          "play_on", "restart"}
ASSUME MaxFaultsAssumption == MaxFaults \in Nat /\ MaxOverruns \in Nat

VARIABLES
    synchMode,  \* ServerParam::synchMode: the server sends (think)
    clock,      \* the server's last event, an index of Schedule
    count,      \* visual slots since the server's last see
    view,       \* the view mode the server has for the player
    playOn,     \* GameMode is PlayOn
    ss,         \* PlayerAgent::Impl::see_state_
    self,       \* world().self(): viewWidth and viewQuality
    cycleStopped, \* server_cycle_stopped_: the server's time stands
    decided,    \* last_decision_time_ = current_time_
    stale,      \* the server's time is not current_time_.cycle() yet
    extra,      \* current_time_.stopped(): "none", "some", or "seen" if a see
                \* has come since it was some
    wire,       \* change_view commands on their way to the server
    disturbed,  \* a fault other than an overrun has happened
    faults      \* how many faults have happened

modeVars == <<playOn, cycleStopped>>
timeVars == <<decided, stale, extra>>
vars     == <<synchMode, clock, count, view, modeVars, ss, self, timeVars, wire,
              disturbed, faults>>

NoFault == UNCHANGED <<disturbed, faults>>

-----------------------------------------------------------------------------
(* The server's timer.                                                     *)

\* 300 ms of server events: the start of a cycle, where sense_body is sent,
\* the visual slots, named by the milliseconds since the cycle's start, and,
\* in synch_mode, (think) 60 ms after the cycle's start.
Schedule ==
    IF synchMode
    THEN << "sense_body", "0_00", "37_5", "think", "75_0",
            "sense_body", "12_5", "50_0", "think", "87_5",
            "sense_body", "22_5", "think", "62_5" >>
    ELSE << "sense_body", "0_00", "37_5", "75_0",
            "sense_body", "12_5", "50_0", "87_5",
            "sense_body", "22_5", "62_5" >>

NextClock  == IF clock = Len(Schedule) THEN 1 ELSE clock + 1
NextEvent  == Schedule[NextClock]
IsSlot(e)  == e \notin {"sense_body", "think"}

\* Slots between two sees in a view mode.
Interval(v) ==
    CASE v.width = "WIDE"   -> IF v.quality = "HIGH" THEN 8 ELSE 4
      [] v.width = "NORMAL" -> IF v.quality = "HIGH" THEN 4 ELSE 2
      [] v.width = "NARROW" -> IF v.quality = "HIGH" THEN 2 ELSE 1

-----------------------------------------------------------------------------
(* The agent's handlers, as functions of what they read and write.  out    *)
(* collects the change_view commands a handler sends.                      *)

Agent == [ss |-> ss, self |-> self, out |-> << >>]

\* What the three branches of adjustSeeSynch... do: send, then tell the
\* world model and the see state.
SendChangeView(a, v) ==
    [ss |-> SetViewMode(a.ss, v), self |-> v, out |-> Append(a.out, v)]

\* PlayerAgent::Impl::adjustSeeSynchNormalMode.
AdjustSeeSynchNormalMode(a) ==
    IF IsSynch(a.ss) THEN a
    ELSE IF IsSynchedSeeCountNormalMode(a.ss)
    THEN SendChangeView([a EXCEPT !.ss = SetLastSeeTiming(@, "0_00")],
                        Mode("NORMAL", "HIGH"))
    ELSE IF playOn /\ a.self.quality = "LOW"
    THEN SendChangeView(a, Mode("NARROW", "HIGH"))
    ELSE IF ~playOn /\ (a.self.width # "NARROW" \/ a.self.quality # "LOW")
    THEN SendChangeView(a, Mode("NARROW", "LOW"))
    ELSE a

\* PlayerAgent::Impl::adjustSeeSynchSynchMode.
AdjustSeeSynchSynchMode(a) ==
    IF IsSynch(a.ss) THEN a
    ELSE IF IsSynchedSeeCountSynchMode(a.ss)
    THEN SendChangeView([a EXCEPT !.ss = SetLastSeeTiming(@, "50_0")],
                        Mode("NARROW", "HIGH"))
    ELSE IF playOn /\ a.self.quality = "LOW"
    THEN SendChangeView(a, Mode("NARROW", "HIGH"))
    ELSE IF ~playOn /\ a.self.width # "NARROW" /\ a.self.quality # "LOW"
    THEN SendChangeView(a, Mode("NARROW", "LOW"))
    ELSE a

\* PlayerAgent::Impl::analyzeSee.
AnalyzeSee(a, isNew) ==
    LET seen == [a EXCEPT !.ss = UpdateBySee(@, isNew, a.self)]
    IN  IF synchMode THEN seen ELSE AdjustSeeSynchNormalMode(seen)

\* PlayerAgent::Impl::analyzeSenseBody: the world model takes the view mode
\* that sense_body reports.
AnalyzeSenseBody(a, isNew, v) ==
    [a EXCEPT !.ss = UpdateBySenseBody(@, isNew), !.self = v]

\* PlayerAgent::doChangeView for width w: the checks before the command is
\* queued.  Nothing is queued yet, so queuedNextViewWidth is self's.
MayChangeView(a, w) ==
    /\ IF IsSynch(a.ss) THEN CanChangeViewTo(a.ss, w, a.ss.seen) ELSE playOn
    /\ w # a.self.width

\* What the view action of a decision asks for.  Every decision of the team
\* sets one, and it ends in View_Wide, View_Normal or View_Synch.
Request == {"WIDE", "NORMAL", "SYNCH"}

\* View_Synch::execute; without synchronisation its doTimerSynchView asks for
\* NARROW or, as View_Normal does, for NORMAL.
WidthFor(a, request) ==
    IF request # "SYNCH" THEN request
    ELSE IF a.ss.timing = "0_00" /\ ~a.ss.synchSee THEN "NORMAL"
    ELSE "NARROW"

\* doViewAction.  The command is queued with high quality and sent later by
\* makeCommand.
DoViewAction(a, request) ==
    LET w == WidthFor(a, request)
    IN  IF (IsSynch(a.ss) \/ playOn) /\ MayChangeView(a, w)
        THEN [a EXCEPT !.self = Mode(w, "HIGH"), !.out = Append(@, Mode(w, "HIGH"))]
        ELSE a

\* The see that was due in this cycle has not arrived; and a check that never
\* finds one missing.
NeverMissed(s) == FALSE
SeeMissed(s) == IsSynch(s) /\ s.cycles = 0 /\ ~s.seen

\* PlayerAgent::action.
Action(a, request) ==
    LET checked  == IF SeeMissed(a.ss)
                    THEN [a EXCEPT !.ss = SetLastSeeTiming(@, "NOSYNCH")]
                    ELSE a
        adjusted == IF synchMode THEN AdjustSeeSynchSynchMode(checked) ELSE checked
        acted    == DoViewAction(adjusted, request)
    IN  [acted EXCEPT !.ss = SetViewMode(@, acted.self)]

\* A handler's outcome becomes the agent's state; its commands go out.
Become(a) ==
    /\ ss' = a.ss
    /\ self' = a.self
    /\ wire' = wire \o a.out

-----------------------------------------------------------------------------
Init ==
    /\ synchMode \in SynchModes
    /\ clock \in 1 .. Len(Schedule)
    /\ count \in 0 .. 3
    /\ view = Mode("NORMAL", "HIGH")
    /\ playOn \in BOOLEAN
    /\ cycleStopped \in {stands \in BOOLEAN : stands => ~playOn}
    /\ ss = InitSeeState
    /\ self = Mode("NORMAL", "HIGH")
    /\ decided = FALSE
    /\ stale = TRUE
    /\ extra = "none"
    /\ wire = << >>
    /\ disturbed = FALSE /\ faults = 0

Fault(kind) ==
    /\ kind \in FaultKinds
    /\ disturbed' = (disturbed \/ kind # "overrun")
    /\ faults < IF disturbed' THEN MaxFaults ELSE MaxOverruns
    /\ faults' = faults + 1

\* The server's next event comes after the agent has met its deadlines: its
\* commands have arrived, and it has decided before its cycle ends.
OnTime ==
    /\ wire = << >>
    /\ NextEvent = "sense_body" /\ ~synchMode => decided \/ stale

\* A deadline is missed.
Tardy == ~OnTime /\ Fault(IF wire # << >> THEN "late" ELSE "overrun")

InTime == (OnTime /\ NoFault) \/ Tardy

\* The server starts a cycle and sends sense_body with its view mode.  While
\* its time stands only sense_body tells the agent of a new cycle.
CycleStart ==
    /\ NextEvent = "sense_body"
    /\ clock' = NextClock
    /\ \/ /\ InTime
          /\ Become(AnalyzeSenseBody(Agent, TRUE, view))
          /\ decided' = FALSE
          /\ stale' = FALSE
          /\ extra' = IF ~cycleStopped \/ stale THEN "none"
                      ELSE IF extra = "none" THEN "some" ELSE extra
       \/ /\ OnTime /\ Fault("sense_body")
          /\ stale' = (stale \/ ~cycleStopped)
          /\ UNCHANGED <<ss, self, wire, decided, extra>>
    /\ UNCHANGED <<synchMode, count, view, modeVars>>

\* A visual slot passes without a see.
SilentSlot ==
    /\ IsSlot(NextEvent)
    /\ count + 1 < Interval(view)
    /\ InTime
    /\ clock' = NextClock
    /\ count' = count + 1
    /\ UNCHANGED <<synchMode, view, modeVars, ss, self, timeVars, wire>>

\* updateCurrentTime for a see: the agent's time moves with the server's, and
\* back to stopped 0 when the server's time has begun to run again; while it
\* stands a see moves nothing.
MovesTime == stale \/ (~cycleStopped /\ extra # "none")

\* handleMessage for a see: analyzeSee, and action() if the agent has not
\* decided at this time (a server in synch_mode sends (think) for that).
HandleSee(request) ==
    LET seen  == AnalyzeSee(Agent, MovesTime)
        ready == ~synchMode /\ (MovesTime \/ ~decided)
    IN  /\ Become(IF ready THEN Action(seen, request) ELSE seen)
        /\ decided' = (ready \/ (decided /\ ~MovesTime))
        /\ stale' = FALSE
        /\ extra' = IF MovesTime THEN "none"
                    ELSE IF extra = "some" THEN "seen" ELSE extra

\* A visual slot in which the server sends a see.
SeeSlot ==
    /\ IsSlot(NextEvent)
    /\ count + 1 >= Interval(view)
    /\ clock' = NextClock
    /\ count' = 0
    /\ \/ InTime /\ \E request \in Request : HandleSee(request)
       \/ /\ OnTime /\ Fault("see")
          /\ UNCHANGED <<ss, self, wire, timeVars>>
    /\ UNCHANGED <<synchMode, view, modeVars>>

\* The last event before the wait thresholds of 75 and 79 ms, or after them.
OverWaitThreshold == Schedule[clock] \in {"75_0", "50_0", "87_5", "62_5"}

\* handleTimeout when isDecisionTiming: no see is expected in this cycle, or
\* the wait for one is over.
HandleTimeout ==
    /\ ~synchMode /\ ~decided /\ ~stale
    /\ \/ ss.seen
       \/ IsSynch(ss) /\ ss.cycles > 0
       \/ OverWaitThreshold
    /\ \E request \in Request : Become(Action(Agent, request))
    /\ decided' = TRUE
    /\ UNCHANGED <<synchMode, clock, count, view, modeVars, stale, extra, disturbed, faults>>

\* handleMessage for (think): action(), whether or not the agent knows the
\* server's cycle.
HandleThink ==
    /\ NextEvent = "think"
    /\ InTime
    /\ clock' = NextClock
    /\ \E request \in Request : Become(Action(Agent, request))
    /\ decided' = TRUE
    /\ UNCHANGED <<synchMode, count, view, modeVars, stale, extra>>

\* The server takes a change_view; the visual timer goes on.
Deliver ==
    /\ wire # << >>
    /\ view' = Head(wire)
    /\ wire' = Tail(wire)
    /\ UNCHANGED <<synchMode, clock, count, modeVars, ss, self, timeVars, disturbed, faults>>

\* A change_view is lost.
Lose ==
    /\ wire # << >>
    /\ Fault("change_view")
    /\ wire' = Tail(wire)
    /\ UNCHANGED <<synchMode, clock, count, view, modeVars, ss, self, timeVars>>

\* The referee stops play or starts it, stops the server's time or lets it
\* run again (a stop lasts longer than the agent goes without a see), and the
\* agent hears it.  A start is a fault when the agent is in the middle of
\* finding its synchronisation.
Referee ==
    /\ \E on, stands \in BOOLEAN :
          /\ ~(on /\ stands) /\ <<on, stands>> # modeVars
          /\ playOn' = on /\ cycleStopped' = stands
    /\ cycleStopped /\ ~cycleStopped' => extra # "some"
    /\ IF self = view /\ self.quality = "HIGH" THEN NoFault
       ELSE IF ~playOn /\ playOn' THEN Fault("play_on")
       ELSE IF cycleStopped /\ ~cycleStopped' THEN Fault("restart")
       ELSE NoFault
    /\ UNCHANGED <<synchMode, clock, count, view, ss, self, timeVars, wire>>

Next == \/ CycleStart \/ SilentSlot \/ SeeSlot
        \/ HandleTimeout \/ HandleThink
        \/ Deliver \/ Lose \/ Referee

Spec == Init /\ [][Next]_vars

\* The server's clock never stops.  That is all the fairness there is: the
\* clock waits for the agent's deadlines (OnTime), and before each of them the
\* agent, whose select loop wakes up every 10 ms, has an action to meet it.
\* Faults and the referee are owed nothing.
FairSpec == Spec /\ []<><<Next>>_clock

-----------------------------------------------------------------------------
(* What is true of the server, for the properties below.                   *)

\* The slot an event is, or the last slot before it, of the eight in 300 ms,
\* and the cycle it falls in, the next 300 ms' first cycle being 3.
SlotAt ==
    IF synchMode THEN << 7, 0, 1, 1, 2, 2, 3, 4, 4, 5, 5, 6, 6, 7 >>
                 ELSE << 7, 0, 1, 2, 2, 3, 4, 5, 5, 6, 7 >>
CycleAt ==
    IF synchMode THEN << 3, 0, 0, 0, 0, 1, 1, 1, 1, 1, 2, 2, 2, 2 >>
                 ELSE << 3, 0, 0, 0, 1, 1, 1, 1, 2, 2, 2 >>

PhaseOfSlot ==
    [slot \in 0 .. 7 |->
        << "0_00", "37_5", "75_0", "12_5", "50_0", "87_5", "22_5", "62_5" >>[slot + 1]]

\* When the server's last see was sent, and in how many cycles the next one
\* falls if the view mode stays.
LastSeePhase == PhaseOfSlot[(SlotAt[clock] + 8 - count) % 8]

NextSeeSlot  ==
    SlotAt[clock] + (IF count < Interval(view) THEN Interval(view) - count ELSE 1)
NextSeeCycles ==
    << 0, 0, 0, 1, 1, 1, 2, 2 >>[(NextSeeSlot % 8) + 1] + 3 * (NextSeeSlot \div 8)
      - CycleAt[clock]

-----------------------------------------------------------------------------
(* Properties.                                                             *)

\* Every variable stays in its type.
TypeOK ==
    /\ synchMode \in BOOLEAN
    /\ clock \in 1 .. Len(Schedule)
    /\ count \in 0 .. 7
    /\ view \in View /\ self \in View
    /\ ss \in SeeStates
    /\ playOn \in BOOLEAN /\ cycleStopped \in BOOLEAN
    /\ decided \in BOOLEAN /\ stale \in BOOLEAN
    /\ extra \in {"none", "some", "seen"}
    /\ wire \in Seq(View)
    /\ disturbed \in BOOLEAN /\ faults \in Nat

\* Nothing was lost or late: at most the agent was too slow for a cycle.
OnlyOverruns == ~disturbed

\* The countdown of an agent that takes itself to be synchronised is right.
CyclesRight ==
    IsSynch(ss) /\ wire = << >> /\ decided /\ ~stale => ss.cycles = NextSeeCycles

\* An agent that takes itself to be synchronised (SeeState::isSynch) is right
\* about when in the cycle the server sent the last see (M_last_timing).
PhaseAgreement ==
    OnlyOverruns /\ IsSynch(ss) /\ wire = << >> => ss.timing = LastSeePhase

\* Once a synchronised agent has decided in a cycle, cyclesTillNextSee is the
\* number of cycles until the server's next see: it never decides at once in
\* a cycle whose see is still to come, nor waits in one that has none.
CyclesAgreement ==
    OnlyOverruns => CyclesRight

\* No sequence of the view actions the team asks for, accepted or refused by
\* doChangeView, costs a synchronised agent its synchronisation.
SynchKept == [][OnlyOverruns' /\ IsSynch(ss) => IsSynch(ss')]_vars

\* Whatever one fault, or overruns alone, did to an agent of a server that is
\* not in synch_mode, and whatever it then took for its synchronisation: if
\* play stays stopped it ends up synchronised for good, with the right
\* countdown to the next see.  While the server's time stands too, a see after
\* a lost sense_body is the second one of its time and costs the agent its
\* synchronisation, which it has to find again.  (A lost see and an overrun
\* after it can leave it wrong for good.)
Resynchronises ==
    ~synchMode /\ <>[]~playOn => <>[](IsSynch(ss) /\ CyclesRight)

\* "this condition means last see timing is TIME_0_00": an agent that finds
\* its synchronisation has just received a see sent at the cycle's start.
SynchChanceIsTime000 ==
    [][~IsSynch(ss) /\ IsSynch(ss') => Schedule[clock'] = "0_00"]_vars

\* "playmode is not play_on --> try adjustment. view mode is changed to
\* (Narrow, Low)": an agent that decides in a stopped play mode and has no
\* synchronisation leaves its view mode at (Narrow, Low).
StoppedUnsynchedIsNarrowLow ==
    [][HandleThink /\ ~playOn => IsSynch(ss') \/ self' = Mode("NARROW", "LOW")]_vars
=============================================================================
