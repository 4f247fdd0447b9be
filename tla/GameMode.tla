------------------------------ MODULE GameMode ------------------------------
(***************************************************************************)
(* Play modes as the clients read them (rcsc/util/game_mode.cpp): what the *)
(* referee announces, a name and a side, is mapped to a type and a side,   *)
(* and every client keeps the last one it heard.                           *)
(***************************************************************************)
EXTENDS Integers

Side == {"left", "right", "neutral"}
Opposite(side) == CASE side = "left" -> "right" [] side = "right" -> "left"
                    [] OTHER -> "neutral"

\* MapHolder's M_playmode_map: the type of each announcement that has one,
\* without its side.
PlayModeMap ==
    [before_kick_off |-> "BeforeKickOff", time_over |-> "TimeOver", play_on |-> "PlayOn",
     kick_off |-> "KickOff_", kick_in |-> "KickIn_", free_kick |-> "FreeKick_",
     corner_kick |-> "CornerKick_", goal_kick |-> "GoalKick_", drop_ball |-> "PlayOn",
     offside |-> "OffSide_", penalty_kick |-> "PenaltyKick_",
     first_half_over |-> "FirstHalfOver", pause |-> "Pause", human_judge |-> "Human",
     foul_charge |-> "FoulCharge_", foul_push |-> "FoulPush_",
     foul_multiple_attack |-> "FoulMultipleAttacker_", foul_ballout |-> "FoulBallOut_",
     back_pass |-> "BackPass_", free_kick_fault |-> "FreeKickFault_",
     catch_fault |-> "CatchFault_", indirect_free_kick |-> "IndFreeKick_",
     penalty_setup |-> "PenaltySetup_", penalty_ready |-> "PenaltyReady_",
     penalty_taken |-> "PenaltyTaken_", penalty_miss |-> "PenaltyMiss_",
     penalty_score |-> "PenaltyScore_", half_time |-> "FirstHalfOver",
     time_extended |-> "ExtendHalf", time_up_without_a_team |-> "TimeOver",
     time_up |-> "TimeOver", foul |-> "FreeKick_", goalie_catch_ball |-> "GoalieCatch_",
     penalty_onfield |-> "PenaltyOnfield_", penalty_foul |-> "PenaltyFoul_",
     penalty_winner |-> "TimeOver", penalty_draw |-> "TimeOver",
     goal |-> "AfterGoal_"]

\* GameMode::parse: foul_l is a free kick of the right; an end by a winner has
\* no side.
Parse(name, side) ==
    [type |-> PlayModeMap[name],
     side |-> CASE name = "foul" -> Opposite(side)
                [] name = "penalty_winner" -> "neutral"
                [] OTHER -> side]

IsServerCycleStoppedMode(type) ==
    type \in {"BeforeKickOff", "AfterGoal_", "OffSide_", "FoulCharge_", "FoulPush_",
              "FreeKickFault_", "BackPass_", "CatchFault_"}

IsPenaltyKickMode(type) ==
    type \in {"PenaltySetup_", "PenaltyReady_", "PenaltyTaken_", "PenaltyMiss_",
              "PenaltyScore_", "PenaltyOnfield_", "PenaltyFoul_"}

\* isTeamsSetPlay, which isOurSetPlay calls.  A fault's side is the side that
\* committed it.
IsTeamsSetPlay(mode, side) ==
    \/ /\ mode.type \in {"KickOff_", "KickIn_", "CornerKick_", "GoalKick_", "FreeKick_",
                         "GoalieCatch_", "IndFreeKick_"}
       /\ mode.side = side
    \/ /\ mode.type \in {"OffSide_", "FoulCharge_", "FoulPush_", "FreeKickFault_",
                         "BackPass_", "CatchFault_"}
       /\ mode.side # side
=============================================================================
