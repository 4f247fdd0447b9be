---------------------------- MODULE PenaltyKick ----------------------------
(***************************************************************************)
(* Our team in a penalty shoot-out.  Every player counts the referee's     *)
(* announcements for itself (rcsc/player/penalty_kick_state.cpp) and       *)
(* concludes from its own counts whose turn it is, whether it is the       *)
(* keeper's, and in which direction it sees the pitch (is_reverse_side).   *)
(* Bhv_PenaltyKick::execute then acts on that.                             *)
(*                                                                         *)
(* The referee (external) announces the goal in use, and for each kick its *)
(* setup, that it is ready, that it is taken, and a score or a miss.       *)
(***************************************************************************)
EXTENDS GameMode, Sequences, FiniteSets

CONSTANTS
    TeamSize,    \* players of the team (11)
    Goalie,      \* the uniform number of the goalie
    OurSide,
    MaxKicks,    \* kicks of the shoot-out
    MaxGoals,    \* goals of both sides
    FaultKinds,  \* "loss" of an announcement to one player, "restart" of one
    MaxFaults,   \* how many of them may happen in one behaviour
    MaxInbox     \* announcements a player may be behind

ASSUME TeamAssumption == TeamSize \in Nat \ {0} /\ Goalie \in 1 .. TeamSize
ASSUME SideAssumption == OurSide \in {"left", "right"}
ASSUME BoundsAssumption ==
    /\ MaxKicks \in Nat /\ MaxGoals \in Nat /\ MaxFaults \in Nat /\ MaxInbox \in Nat
    /\ FaultKinds \subseteq {"loss", "restart"}

Unums    == 1 .. TeamSize
TheirSide == Opposite(OurSide)
NoUnum   == -1  \* Unum_Unknown

VARIABLES
    stage,    \* referee: the name of the last announcement
    side,     \* referee: the side of the present kick
    kicks,    \* referee: setups announced, by side
    scores,   \* referee: goals, by side
    goal,     \* referee: the side of the goal in use
    inbox,    \* announcements each player has not read yet
    mode,     \* each player's world().gameMode()
    pen,      \* each player's PenaltyKickState
    heard,    \* the kick each player last heard the setup of
    synced,   \* the players that have heard everything since the beginning
    faults    \* faults so far

referee == <<stage, side, kicks, scores, goal>>
vars    == <<referee, inbox, mode, pen, heard, synced, faults>>

Kick == kicks["left"] + kicks["right"]

Fault(kind) ==
    /\ kind \in FaultKinds
    /\ faults < MaxFaults
    /\ faults' = faults + 1

-----------------------------------------------------------------------------
(* The referee (external).                                                 *)

\* An announcement to every player, or to every player but one.
Announce(name, s) ==
    LET message == [name |-> name, side |-> s, kick |-> Kick']
        Sent(to) == inbox' = [p \in Unums |-> IF p \in to THEN Append(inbox[p], message)
                                              ELSE inbox[p]]
    IN  /\ stage' = name
        /\ \A p \in Unums : Len(inbox[p]) < MaxInbox
        /\ \/ Sent(Unums) /\ UNCHANGED <<synced, faults>>
           \/ \E p \in Unums : Sent(Unums \ {p}) /\ Fault("loss") /\ synced' = synced \ {p}
        /\ UNCHANGED <<mode, pen, heard>>

ChooseGoal ==
    /\ stage = "time_extended"
    /\ goal' \in {"left", "right"}
    /\ UNCHANGED <<side, kicks, scores>>
    /\ Announce("penalty_onfield", goal')

\* The sides take turns; either begins.
Setup ==
    /\ stage \in {"penalty_onfield", "penalty_score", "penalty_miss"}
    /\ Kick < MaxKicks
    /\ side' \in IF Kick = 0 THEN {"left", "right"} ELSE {Opposite(side)}
    /\ kicks' = [kicks EXCEPT ![side'] = @ + 1]
    /\ UNCHANGED <<scores, goal>>
    /\ Announce("penalty_setup", side')

Ready ==
    /\ stage = "penalty_setup"
    /\ UNCHANGED <<side, kicks, scores, goal>>
    /\ Announce("penalty_ready", side)

Taken ==
    /\ stage = "penalty_ready"
    /\ UNCHANGED <<side, kicks, scores, goal>>
    /\ Announce("penalty_taken", side)

\* A foul of either side, followed at once by a score or a miss.
Foul ==
    /\ stage \in {"penalty_setup", "penalty_ready", "penalty_taken"}
    /\ UNCHANGED <<side, kicks, scores, goal>>
    /\ \E s \in {"left", "right"} : Announce("penalty_foul", s)

Score ==
    /\ stage \in {"penalty_taken", "penalty_foul"}
    /\ scores["left"] + scores["right"] < MaxGoals
    /\ scores' = [scores EXCEPT ![side] = @ + 1]
    /\ UNCHANGED <<side, kicks, goal>>
    /\ Announce("penalty_score", side)

Miss ==
    /\ stage \in {"penalty_setup", "penalty_ready", "penalty_taken", "penalty_foul"}
    /\ UNCHANGED <<side, kicks, scores, goal>>
    /\ Announce("penalty_miss", side)

-----------------------------------------------------------------------------
(* A player.                                                               *)

\* PenaltyKickState::update.  The kick taker is counted down from the highest
\* number with our kicks; and counts that leave out the lowest number or begin
\* beyond the highest.
TakerButOne(ours) == TeamSize - ((ours - 1) % (TeamSize - 1))
TakerBeyond(ours) == TeamSize + 1 - ((ours - 1) % TeamSize)
Taker(ours)       == TeamSize - ((ours - 1) % TeamSize)

\* The counts and sides, before the taker is assigned; and with the kick
\* counted when it is ready, or every goal counted as ours.
CountedAtReady(s, m) ==
    IF m.type # "PenaltyReady_" THEN s
    ELSE [s EXCEPT !.takerSide = m.side, !.ours = IF m.side = OurSide THEN @ + 1 ELSE @]
CountedAsOurs(s, m) ==
    CASE m.type = "PenaltySetup_" /\ m.side = OurSide ->
           [s EXCEPT !.takerSide = m.side, !.ours = @ + 1]
      [] m.type = "PenaltySetup_" /\ m.side # OurSide ->
           [s EXCEPT !.takerSide = m.side, !.theirs = @ + 1]
      [] m.type = "PenaltyScore_"   -> [s EXCEPT !.ourScore = @ + 1]
      [] m.type = "PenaltyOnfield_" -> [s EXCEPT !.onfield = m.side]
      [] OTHER                      -> s
Counted(s, m) ==
    CASE m.type = "PenaltySetup_" /\ m.side = OurSide ->
           [s EXCEPT !.takerSide = m.side, !.ours = @ + 1]
      [] m.type = "PenaltySetup_" /\ m.side # OurSide ->
           [s EXCEPT !.takerSide = m.side, !.theirs = @ + 1]
      [] m.type = "PenaltyScore_" /\ m.side = OurSide -> [s EXCEPT !.ourScore = @ + 1]
      [] m.type = "PenaltyScore_" /\ m.side # OurSide -> [s EXCEPT !.theirScore = @ + 1]
      [] m.type = "PenaltyOnfield_"                   -> [s EXCEPT !.onfield = m.side]
      [] OTHER                                        -> s

InKick(type) == type \in {"PenaltySetup_", "PenaltyReady_", "PenaltyTaken_"}

Updated(s, m) ==
    LET c == Counted(s, m) IN
    IF c.ours > 0 /\ InKick(m.type)
    THEN [c EXCEPT !.kickSide = m.side, !.kickUnum = Taker(c.ours)]
    ELSE [c EXCEPT !.kickSide = "neutral", !.kickUnum = NoUnum]

\* PenaltyKickState's constructor, which leaves M_current_taker_side as it is.
Fresh(takerSide) ==
    [onfield |-> "neutral", takerSide |-> takerSide, ours |-> 0, theirs |-> 0,
     ourScore |-> 0, theirScore |-> 0, kickSide |-> "neutral", kickUnum |-> NoUnum]

\* analyzeHearReferee, GameMode::update and WorldModel::updateGameMode.
HearReferee(p) ==
    /\ inbox[p] # << >>
    /\ LET message == Head(inbox[p])
           m == Parse(message.name, message.side)
       IN  /\ mode' = [mode EXCEPT ![p] = m]
           /\ pen' = [pen EXCEPT ![p] = Updated(@, m)]
           /\ heard' = IF message.name = "penalty_setup"
                       THEN [heard EXCEPT ![p] = message.kick] ELSE heard
    /\ inbox' = [inbox EXCEPT ![p] = Tail(@)]
    /\ UNCHANGED <<referee, synced, faults>>

\* The client is started again and reconnects.  analyzeInit does not tell the
\* world model the play mode.
Restart(p) ==
    /\ Fault("restart")
    /\ synced' = synced \ {p}
    /\ mode' = [mode EXCEPT ![p] = Parse("before_kick_off", "neutral")]
    /\ \E takerSide \in Side : pen' = [pen EXCEPT ![p] = Fresh(takerSide)]
    /\ inbox' = [inbox EXCEPT ![p] = << >>]
    /\ heard' = [heard EXCEPT ![p] = 0]
    /\ UNCHANGED referee

\* isKickTaker for our side; and without a look at the side.
NumberOfTaker(p) == pen[p].kickUnum = p
IsKickTaker(p) == pen[p].kickSide = OurSide /\ pen[p].kickUnum = p

\* Bhv_PenaltyKick::execute.
Role(p) ==
    LET type == mode[p].type
        ours == pen[p].takerSide = OurSide
    IN  CASE ~IsPenaltyKickMode(type)                     -> "none"
          [] InKick(type) /\ ours /\ IsKickTaker(p)       -> "kicker"
          [] InKick(type) /\ ~ours /\ p = Goalie          -> "keeper"
          [] type \in {"PenaltyScore_", "PenaltyMiss_"}
               /\ ours /\ p = Goalie                      -> "keeper"
          [] OTHER                                        -> "wait"

\* is_reverse_side: the pitch is seen turned by 180 degrees.
IsReverseSide(p) ==
    CASE pen[p].onfield = "left" /\ IsKickTaker(p)  -> TRUE
      [] pen[p].onfield = "left" /\ p = Goalie /\ ~IsKickTaker(p) -> FALSE
      [] pen[p].onfield = "right" /\ IsKickTaker(p) -> FALSE
      [] pen[p].onfield = "right" /\ p = Goalie /\ ~IsKickTaker(p) -> TRUE
      [] OTHER                                      -> OurSide = "right"

-----------------------------------------------------------------------------
Init ==
    /\ stage = "time_extended" /\ side = "neutral" /\ goal = "neutral"
    /\ kicks = [s \in {"left", "right"} |-> 0] /\ scores = [s \in {"left", "right"} |-> 0]
    /\ inbox = [p \in Unums |-> << >>]
    /\ mode = [p \in Unums |-> Parse("time_extended", "neutral")]
    /\ \E takerSide \in Side : pen = [p \in Unums |-> Fresh(takerSide)]
    /\ heard = [p \in Unums |-> 0]
    /\ synced = Unums /\ faults = 0

Next ==
    \/ ChooseGoal \/ Setup \/ Ready \/ Taken \/ Foul \/ Score \/ Miss
    \/ \E p \in Unums : HearReferee(p) \/ Restart(p)

Spec == Init /\ [][Next]_vars

-----------------------------------------------------------------------------
(* Properties.                                                             *)

Stages == {"time_extended", "penalty_onfield", "penalty_setup", "penalty_ready", "penalty_taken",
           "penalty_foul", "penalty_score", "penalty_miss"}
PenaltyKickState ==
    [onfield : Side, takerSide : Side, ours : Nat, theirs : Nat, ourScore : Nat,
     theirScore : Nat, kickSide : Side, kickUnum : Unums \cup {NoUnum}]

\* Every variable stays in its type; the kick taker is a player of the team.
TypeOK ==
    /\ stage \in Stages /\ side \in Side /\ goal \in Side
    /\ kicks \in [{"left", "right"} -> Nat] /\ scores \in [{"left", "right"} -> Nat]
    /\ inbox \in [Unums -> Seq([name : Stages, side : Side, kick : Nat])]
    /\ mode \in [Unums -> [type : {PlayModeMap[n] : n \in DOMAIN PlayModeMap}, side : Side]]
    /\ pen \in [Unums -> PenaltyKickState]
    /\ heard \in [Unums -> Nat]
    /\ synced \subseteq Unums /\ faults \in Nat

Kickers == {p \in synced : Role(p) = "kicker"}

\* A player that has heard everything knows the score and whose turn it is.
KnowsShootout ==
    \A p \in synced : inbox[p] = << >> =>
        /\ pen[p].ours = kicks[OurSide] /\ pen[p].theirs = kicks[TheirSide]
        /\ pen[p].ourScore = scores[OurSide] /\ pen[p].theirScore = scores[TheirSide]
        /\ Kick > 0 => pen[p].takerSide = side

\* Whatever a player missed before, once it has heard a kick's setup it knows
\* whose kick it is: in theirs the goalie keeps and the others wait, in ours
\* nobody keeps.
RightSide ==
    \A p \in Unums :
        inbox[p] = << >> /\ heard[p] = Kick /\ InKick(PlayModeMap[stage]) =>
            IF side = OurSide THEN Role(p) # "keeper"
            ELSE Role(p) = IF p = Goalie THEN "keeper" ELSE "wait"

\* Whoever kicks or keeps and knows the goal in use sees it where it belongs:
\* the kicker in front of it, with the pitch turned if it is the left one, and
\* the keeper behind it.  The goalie too has its turn to kick.  A player that
\* missed something has to have heard this kick's setup: a goalie that did not
\* may keep the goal in its own turn to kick, and sees it in front of it.
FacesGoal ==
    \A p \in Unums :
        pen[p].onfield # "neutral" /\ (p \in synced \/ (inbox[p] = << >> /\ heard[p] = Kick)) =>
        /\ Role(p) = "kicker" => (IsReverseSide(p) <=> pen[p].onfield = "left")
        /\ Role(p) = "keeper" => (IsReverseSide(p) <=> pen[p].onfield = "right")

\* The players that have heard everything keep the promised order, although
\* one may be MaxInbox announcements behind the other: no two of them want to
\* kick at once, and none kicks again before every other had its turn.
Had == LET n == kicks[OurSide] % TeamSize
       IN  {Taker(k) : k \in kicks[OurSide] - n + 1 .. kicks[OurSide]}
Order == INSTANCE KickOrder WITH
    Players <- Unums, None <- NoUnum, had <- Had, kicking <- Kickers,
    due <- IF kicks[OurSide] = 0 THEN NoUnum ELSE Taker(kicks[OurSide])
KeepsOrder == Order!Spec
=============================================================================
