------------------------------ MODULE SetPlay ------------------------------
(***************************************************************************)
(* Our set plays, from the referee's announcement to the kick: what a      *)
(* player knows of the play mode and of how long the set play has lasted   *)
(* (GameMode::update, WorldModel::updateGameMode and                       *)
(* updateJustBeforeDecision), and how the one at the ball waits, for its   *)
(* teammates too, before it kicks (the Bhv_SetPlay... behaviours).         *)
(*                                                                         *)
(* The server (external) drops the ball if nobody kicks it in time.  Times *)
(* are kept as ages in cycles, so that behaviours need no last cycle: ages *)
(* and counts stop at the largest value the code tells apart.              *)
(***************************************************************************)
EXTENDS GameMode, Sequences

CONSTANTS
    DropBallTime, \* ServerParam::dropBallTime
    GoalieHold,   \* cycles the goalie keeps a caught ball at least (50)
    MaxLost       \* referee's messages that may be lost in one behaviour

ASSUME DropBallTimeAssumption == DropBallTime \in Nat /\ DropBallTime > 20
ASSUME GoalieHoldAssumption == GoalieHold \in Nat /\ GoalieHold < DropBallTime - 15
ASSUME MaxLostAssumption == MaxLost \in Nat

Our   == "left"
Their == "right"
MaxCount == 15

AtMost(n, bound) == IF n < bound THEN n ELSE bound

VARIABLES
    last,       \* server: the last announcement <<name, side>>
    elapsed,    \* server: cycles since it
    moved,      \* server: this step has moved the cycle
    kicked,     \* server: our player has kicked in this set play
    shot,       \* that kick was doShoot's
    wire,       \* announcements of this step on their way to the player
    lost,       \* announcements lost so far
    pc,         \* "hear" until the step's sense_body, then "act"
    mode,       \* Impl::game_mode_ and world().gameMode(): type and side
    heardNow,   \* GameMode::M_time is the present time
    frozen,     \* world().time().stopped() is not 0
    startAge,   \* cycles since M_last_set_play_start_time
    count,      \* M_setplay_count
    request,    \* M_audio_memory->waitRequestTime() is the present time
    decided,    \* last_decision_time_ is the present time
    goalie,     \* the player is the goalie
    atBall,     \* Bhv_GoToStaticBall has nothing left to do
    turned,     \* its last decision in the set play was a turn
    firstMove, secondMove, secondWait, \* Bhv_GoalieFreeKick's static members
    quiet,      \* decisions since the set play was announced, or since the
                \* last wait request
    chances     \* decisions in a row in which its routine had no reason left to
                \* wait and the chain action did not take the ball

server   == <<last, elapsed, moved, kicked, shot>>
heard    == <<mode, heardNow, startAge>>
statics  == <<firstMove, secondMove, secondWait>>
vars     == <<server, wire, lost, pc, heard, frozen, count, request, decided, goalie,
              atBall, turned, statics, quiet, chances>>

-----------------------------------------------------------------------------
(* The server (external).                                                  *)

\* What ends play, and what follows while the cycle stands.
Ends == {<<<<"kick_in", Our>>>>, <<<<"kick_in", Their>>>>, <<<<"corner_kick", Our>>>>,
         <<<<"goal_kick", Our>>>>, <<<<"offside", Their>>>>, <<<<"foul_charge", Their>>>>,
         <<<<"back_pass", Their>>>>, <<<<"goal", Their>>>>,
         <<<<"goalie_catch_ball", Our>>, <<"free_kick", Our>>>>}

Follows(name) ==
    CASE name = "play_on"     -> Ends
      [] name = "offside"     -> {<<<<"free_kick", Our>>>>}
      [] name = "foul_charge" -> {<<<<"free_kick", Our>>>>, <<<<"indirect_free_kick", Our>>>>}
      [] name = "back_pass"   -> {<<<<"indirect_free_kick", Our>>>>}
      [] name = "goal"        -> {<<<<"kick_off", Our>>>>}
      [] name = "free_kick"   -> {<<<<"free_kick", Our>>>>}  \* a human judge again
      [] OTHER                -> {}

PlayOn == <<"play_on", "neutral">>
Stands(name) == IsServerCycleStoppedMode(PlayModeMap[name])

\* The server is waiting for our kick.
OurKick == last[2] = Our

\* The next step: play goes on if the ball was kicked or is dropped.
NextCycle ==
    /\ pc = "act"
    /\ moved' = ~Stands(last[1])
    /\ \E announced \in
          IF last # PlayOn /\ (kicked \/ elapsed = DropBallTime) THEN {<<PlayOn>>}
          ELSE {<< >>} \cup Follows(last[1])
             \cup (IF last[2] = Their /\ ~Stands(last[1]) THEN {<<PlayOn>>} ELSE {}) :
         /\ wire' = announced
         /\ IF announced = << >>
            THEN /\ elapsed' = IF moved' /\ last # PlayOn THEN elapsed + 1 ELSE elapsed
                 /\ UNCHANGED <<last, kicked, shot, atBall, turned, quiet, chances>>
            ELSE /\ last' = Head(announced)
                 /\ elapsed' = 0
                 /\ kicked' = FALSE /\ shot' = FALSE /\ atBall' = FALSE /\ turned' = FALSE
                 /\ chances' = 0
                 /\ quiet' = IF Stands(last[1]) THEN quiet ELSE 0
    /\ startAge' = IF moved' THEN AtMost(startAge + 1, DropBallTime) ELSE startAge
    /\ heardNow' = FALSE
    /\ pc' = "hear"
    /\ UNCHANGED <<lost, mode, frozen, count, request, decided, goalie, statics>>

Lose ==
    /\ wire # << >>
    /\ lost < MaxLost
    /\ lost' = lost + 1
    /\ wire' = Tail(wire)
    /\ UNCHANGED <<server, pc, heard, frozen, count, request, decided, goalie, atBall,
                   turned, statics, quiet, chances>>

-----------------------------------------------------------------------------
(* What the player hears.                                                  *)

\* GameMode::update: goalie_catch_ball and free_kick come in one cycle, and
\* the first is kept; and an update that keeps the last one.
UpdateLastOnly(old, new, now) == new
Update(old, new, now) ==
    IF old.type = "GoalieCatch_" /\ new.type = "FreeKick_" /\ old.side = new.side /\ now
    THEN old ELSE new

\* updateGameMode: whether a mode begins a set play; and a test of its type
\* alone, which does not see a free kick that is given again.
BeginsIfChanged(old, new) ==
    ~IsPenaltyKickMode(new.type) /\ new.type # "PlayOn" /\ old.type # new.type
Begins(old, new) ==
    /\ ~IsPenaltyKickMode(new.type)
    /\ new.type # "PlayOn"
    /\ \/ old.type # new.type
          /\ ~(new.type = "FreeKick_"
               /\ old.type \in {"OffSide_", "FoulCharge_", "FoulPush_", "BackPass_",
                                "FreeKickFault_", "CatchFault_", "IndFreeKick_"})
       \/ old.type = new.type /\ new.type = "FreeKick_"

\* analyzeHearReferee and WorldModel::updateGameMode.
HearReferee ==
    /\ wire # << >>
    /\ wire' = Tail(wire)
    /\ mode' = Update(mode, Parse(Head(wire)[1], Head(wire)[2]), heardNow)
    /\ heardNow' = TRUE
    /\ IF Begins(mode, mode') THEN startAge' = 0 /\ count' = 0
       ELSE UNCHANGED <<startAge, count>>
    /\ UNCHANGED <<server, lost, pc, frozen, request, decided, goalie, atBall, turned,
                   statics, quiet, chances>>

\* sense_body: the time stands for a player that does not know that the cycle
\* is stopped, and what it did at that time is done.
Sense ==
    /\ pc = "hear" /\ wire = << >>
    /\ pc' = "act"
    /\ frozen' = (IsServerCycleStoppedMode(mode.type) /\ (~moved \/ heardNow))
    /\ IF moved \/ frozen \/ frozen' THEN decided' = FALSE /\ request' = FALSE
       ELSE UNCHANGED <<decided, request>>
    /\ UNCHANGED <<server, wire, lost, heard, count, goalie, atBall, turned, statics,
                   quiet, chances>>

\* A teammate far from its place or tired says "w": AudioMemory::setWaitRequest.
HearWaitRequest ==
    /\ pc = "act" /\ ~decided /\ ~request
    /\ request' = TRUE
    /\ UNCHANGED <<server, wire, lost, pc, heard, frozen, count, decided, goalie, atBall,
                   turned, statics, quiet, chances>>

-----------------------------------------------------------------------------
(* The kicker.  n is the set play count of the decision; see: the see of   *)
(* this cycle has come; stamina is "low" up to 60 %, "high" from 90 %;     *)
(* excuse: delaying tactics, no teammate in sight, or kick off before nine *)
(* are; turn: it does not face where it wants to.                          *)

Forced(n, see, stamina)    == n >= 15 /\ see /\ stamina # "low"
Recovering(see, stamina)   == ~see \/ stamina # "high"

\* doKickWait of the kick in, the free kick, the goal kick, the kick off and
\* the indirect free kick; and a kick in that waits as long as it is asked to.
KickInWaitsAlways(n, see, stamina, excuse) ==
    excuse \/ n <= 3 \/ (~Forced(n, see, stamina) /\ Recovering(see, stamina))
KickInWaits(n, see, stamina, excuse) ==
    /\ startAge < DropBallTime - 5
    /\ excuse \/ n <= 3 \/ (~Forced(n, see, stamina) /\ Recovering(see, stamina))

FreeKickWaits(n, see, stamina, excuse, turn) ==
    /\ startAge < DropBallTime - 5
    /\ frozen \/ excuse \/ n <= 3
         \/ (~Forced(n, see, stamina) /\ (turn \/ Recovering(see, stamina)))

GoalKickWaits(n, see, stamina, excuse, turn) ==
    /\ startAge < DropBallTime - 10
    /\ excuse \/ turn \/ n <= 6
         \/ (~Forced(n, see, stamina) /\ Recovering(see, stamina))

KickOffWaits(see, stamina, excuse, turn) ==
    /\ startAge < DropBallTime - 5
    /\ excuse \/ turn \/ Recovering(see, stamina)

IndirectWaits(n, excuse, turn) == frozen \/ turn \/ (n <= 10 /\ excuse)

\* The player's play mode is the server's: of a caught ball it is the first
\* announcement of the two.
Knows == mode = Parse(last[1], last[2])

\* What a player at the ball does in our set play; is_kicker leaves a caught
\* ball to the goalie.
Routines ==
    IF ~IsTeamsSetPlay(mode, Our) THEN {}
    ELSE IF goalie
         THEN CASE mode.type \in {"BackPass_", "IndFreeKick_"} -> {"indirect"}
                [] mode.type = "GoalieCatch_"                  -> {"catch"}
                [] OTHER                                       -> {}
    ELSE CASE mode.type \in {"KickIn_", "CornerKick_"}        -> {"kick_in"}
           [] mode.type = "GoalKick_"                         -> {"goal_kick"}
           [] mode.type = "KickOff_"                          -> {"kick_off"}
           [] mode.type \in {"BackPass_", "IndFreeKick_"}     -> {"indirect"}
           [] mode.type \in {"FoulCharge_", "FoulPush_"}      -> {"indirect", "free_kick"}
           [] mode.type = "GoalieCatch_"                      -> {}
           [] OTHER                                           -> {"free_kick"}

Kick == kicked' = (kicked \/ (OurKick /\ ~Stands(last[1])))
NoKick == UNCHANGED kicked

FieldWaits(routine, n, see, stamina, excuse, turn) ==
    CASE routine = "kick_in"   -> KickInWaits(n, see, stamina, excuse)
      [] routine = "free_kick" -> FreeKickWaits(n, see, stamina, excuse, turn)
      [] routine = "goal_kick" -> GoalKickWaits(n, see, stamina, excuse, turn)
      [] routine = "kick_off"  -> KickOffWaits(see, stamina, excuse, turn)
      [] routine = "indirect"  -> IndirectWaits(n, excuse, turn)

\* One decision: wait, turn to the ball once before the kick, or kick.  A
\* goal kick without a pass and an indirect kick without a partner wait on.
Field(routine, n, see, stamina, excuse, turn) ==
    /\ UNCHANGED statics
    /\ IF FieldWaits(routine, n, see, stamina, excuse, turn) THEN NoKick /\ turned' = turn
       ELSE \/ Kick /\ UNCHANGED turned
            \/ routine \in {"kick_in", "free_kick"} /\ ~turned /\ NoKick /\ turned' = TRUE
            \/ /\ \/ routine = "goal_kick" /\ startAge <= DropBallTime - 10
                  \/ routine = "indirect" /\ n <= 3
                  \/ routine = "indirect" /\ excuse /\ startAge <= DropBallTime - 3
               /\ NoKick /\ turned' = FALSE

\* After the wait all but the kick off hand the ball to Bhv_ChainAction first,
\* and are content if it takes it.  It need not kick: it turns to a receiver
\* that it does not see, holds the ball, goes somewhere, or has no action; and
\* it may do so in any number of decisions.
ChainAction(routine, n, see, stamina, excuse, turn) ==
    /\ routine \in {"kick_in", "free_kick", "goal_kick", "indirect"}
    /\ ~FieldWaits(routine, n, see, stamina, excuse, turn)
    /\ Kick \/ NoKick
    /\ turned' = FALSE /\ chances' = 0
    /\ atBall' \in BOOLEAN
    /\ UNCHANGED <<shot, statics>>

\* Bhv_GoalieFreeKick, the ball in its hands since the cycle before the
\* announcement.
Catch(n, see, stamina, excuse) ==
    LET held == elapsed + 1 IN
    /\ UNCHANGED turned
    /\ IF held <= 2
       THEN firstMove' = FALSE /\ secondMove' = FALSE /\ secondWait' = 0 /\ NoKick
       ELSE IF ~firstMove
       THEN firstMove' = TRUE /\ secondMove' = FALSE /\ secondWait' = 0 /\ NoKick
       ELSE IF held < GoalieHold \/ n < 3
               \/ (held < DropBallTime - 15 /\ (stamina # "high" \/ excuse))
       THEN UNCHANGED statics /\ NoKick
       ELSE IF ~secondMove
       THEN secondMove' = TRUE /\ secondWait' = 0 /\ UNCHANGED firstMove /\ NoKick
       ELSE IF secondWait + 1 < 5 \/ ~see
       THEN secondWait' = AtMost(secondWait + 1, 5) /\ UNCHANGED <<firstMove, secondMove>>
            /\ NoKick
       ELSE firstMove' = FALSE /\ secondMove' = FALSE /\ secondWait' = 0 /\ Kick

\* The count of a decision, 0 after a wait request; and counts that no request
\* stops, or that go back by one.
CountOnAndOn == AtMost(count + 1, MaxCount)
CountedBack == IF request THEN count - 1 ELSE AtMost(count + 1, MaxCount)
Counted == IF request THEN 0 ELSE AtMost(count + 1, MaxCount)

\* When the player has no reason left to wait: from these cycles on, and for
\* an indirect kick and a caught ball if no wait request was heard of late.
NothingToWaitFor(routine, see) ==
    CASE routine = "goal_kick" -> elapsed > DropBallTime - 10
      [] routine = "indirect"  -> elapsed > DropBallTime - 3 /\ count' > 10
      [] routine = "catch"     -> elapsed > DropBallTime - 17 /\ count' > 2 /\ see
      [] OTHER                 -> elapsed >= DropBallTime - 5

\* A decision that is not the set play's: the player is not at the ball, or
\* leaves it to another, or doPreprocess has something to do before: to look
\* for the ball or for its own position, or to go on with an intention.
\* IntentionWaitAfterSetPlayKick, set when the chain action took the ball, is
\* one, whether there was a kick or not, as long as the ball is kickable.
Elsewhere ==
    /\ turned' = FALSE /\ chances' = 0
    /\ UNCHANGED <<kicked, shot, atBall, statics>>

\* doShoot, which doPreprocess tries first, near enough to their goal.
Shoot ==
    /\ OurKick /\ last[1] # "goal_kick" /\ ~goalie
    /\ ~frozen /\ mode.type \notin {"IndFreeKick_", "KickOff_"}
    /\ Kick /\ shot' = kicked'
    /\ turned' = FALSE /\ chances' = 0
    /\ UNCHANGED <<atBall, statics>>

\* A decision of the set play's routine itself.
Routine(routine, see, stamina, excuse, turn) ==
    /\ IF routine = "catch" THEN Catch(count', see, stamina, excuse)
       ELSE Field(routine, count', see, stamina, excuse, turn)
    /\ chances' = IF Knows /\ NothingToWaitFor(routine, see) THEN AtMost(chances + 1, 7)
                  ELSE chances
    /\ UNCHANGED <<shot, atBall>>

Decide ==
    /\ pc = "act" /\ ~decided
    /\ decided' = TRUE
    /\ count' = Counted
    /\ quiet' = IF request THEN 0 ELSE AtMost(quiet + 1, 7)
    /\ \/ Elsewhere
       \/ Shoot
       \/ /\ atBall
          /\ \E routine \in Routines, see, excuse, turn \in BOOLEAN,
                stamina \in {"low", "middle", "high"} :
               /\ turn => ~turned
               /\ \/ Routine(routine, see, stamina, excuse, turn)
                  \/ ChainAction(routine, count', see, stamina, excuse, turn)
    /\ UNCHANGED <<last, elapsed, moved, wire, lost, pc, heard, frozen, request, goalie>>

\* The player has reached the ball, or holds it.
Arrive ==
    /\ pc = "act" /\ ~atBall /\ OurKick
    /\ atBall' = TRUE
    /\ UNCHANGED <<server, wire, lost, pc, heard, frozen, count, request, decided, goalie,
                   turned, statics, quiet, chances>>

-----------------------------------------------------------------------------
Init ==
    /\ last = PlayOn /\ elapsed = 0 /\ moved = TRUE /\ kicked = FALSE /\ shot = FALSE
    /\ wire = << >> /\ lost = 0 /\ pc = "act"
    /\ mode = [type |-> "PlayOn", side |-> "neutral"]
    /\ heardNow = FALSE /\ frozen = FALSE
    /\ startAge = DropBallTime /\ count = MaxCount
    /\ request = FALSE /\ decided = FALSE
    /\ goalie \in BOOLEAN
    /\ atBall = FALSE /\ turned = FALSE
    /\ firstMove = FALSE /\ secondMove = FALSE /\ secondWait = 0
    /\ quiet = 0 /\ chances = 0

Next ==
    \/ NextCycle \/ Lose \/ HearReferee \/ Sense \/ HearWaitRequest \/ Decide \/ Arrive

Spec == Init /\ [][Next]_vars

-----------------------------------------------------------------------------
(* Properties.                                                             *)

\* Every variable stays in its type.
TypeOK ==
    /\ last \in {<<"play_on", "neutral">>} \cup (UNION {{seq[i] : i \in DOMAIN seq} : seq \in Ends})
             \cup {<<"free_kick", Our>>, <<"indirect_free_kick", Our>>, <<"kick_off", Our>>}
    /\ elapsed \in 0 .. DropBallTime /\ lost \in 0 .. MaxLost
    /\ moved \in BOOLEAN /\ kicked \in BOOLEAN /\ shot \in BOOLEAN
    /\ pc \in {"hear", "act"} /\ Len(wire) <= 2
    /\ mode \in [type : {PlayModeMap[n] : n \in DOMAIN PlayModeMap}, side : Side]
    /\ heardNow \in BOOLEAN /\ frozen \in BOOLEAN
    /\ startAge \in 0 .. DropBallTime /\ count \in 0 .. MaxCount
    /\ request \in BOOLEAN /\ decided \in BOOLEAN
    /\ goalie \in BOOLEAN /\ atBall \in BOOLEAN /\ turned \in BOOLEAN
    /\ firstMove \in BOOLEAN /\ secondMove \in BOOLEAN /\ secondWait \in 0 .. 5
    /\ quiet \in 0 .. 7 /\ chances \in 0 .. 7

\* Decisions a routine needs to kick, once it has no reason left to wait: one
\* may be a turn; the goalie's moves take five more.
Needed(routines) ==
    IF routines = {"catch"} THEN 7 ELSE IF routines = {"goal_kick"} THEN 1 ELSE 2

\* The waits of our set plays end before the server drops the ball: when its
\* time runs out, the routine of a player at the ball that knows the set play
\* kicks in the decisions it needs, whatever was lost, asked for or seen, unless
\* the chain action takes the ball or the decision is another's in between.
\* Wait requests may hold an indirect kick and the goalie longer.
WaitsEnd ==
    Knows /\ Routines # {} /\ ~kicked => chances < Needed(Routines)

\* If no referee's message was lost, a kick comes only after the team has had
\* four decisions (seven at a goal kick) since the set play was announced and
\* since the last wait request, until the time runs out.  A shot at their goal
\* waits for nobody.
WaitsForTeam ==
    [][kicked' /\ ~kicked /\ ~shot' /\ lost = 0 /\ elapsed < DropBallTime - 10 =>
         CASE last[1] = "goal_kick" -> quiet' > 6
           [] last[1] \in {"kick_in", "corner_kick"} -> quiet' > 3
           [] last[1] = "free_kick" /\ ~goalie -> quiet' > 3
           [] OTHER -> TRUE]_vars

\* If no referee's message was lost, the player knows the server's play mode
\* in every step, a caught ball from the free kick that is announced with it,
\* and measures the set play from the same cycle as the server.
KnowsSetPlay ==
    lost = 0 /\ pc = "act" => Knows /\ (last # PlayOn => startAge = elapsed)
=============================================================================
