------------------------------ MODULE SeeState ------------------------------
(***************************************************************************)
(* The agent's estimate of when the server sends it visual messages:       *)
(* rcsc/player/see_state.cpp, as operators on the record of its members.   *)
(*                                                                         *)
(* SeeState compares game times for equality only.  M_current_time and     *)
(* M_last_see_time are therefore kept as the one fact the code asks of     *)
(* them, "seen": M_last_see_time = M_current_time; and a handler that      *)
(* brings a time takes isNew: that time differs from M_current_time.  A    *)
(* time that differs from it is none that M_last_see_time holds either:    *)
(* the agent's time goes back only from (T,s) to (T,0), when the server's  *)
(* time runs again, and a see has come since it was (T,0).                 *)
(* M_view_width, M_view_quality and M_synch_type are written and never     *)
(* read (SYNCH_SYNC, the one synch type that is tested, is never stored),  *)
(* so the record has no field for them.                                    *)
(***************************************************************************)
EXTENDS Integers

Width   == {"NARROW", "NORMAL", "WIDE"}
Quality == {"HIGH", "LOW"}
View    == [width : Width, quality : Quality]

Mode(w, q) == [width |-> w, quality |-> q]

\* The see arrival timings a synchronised agent can be in, named by the
\* milliseconds since sense_body; SYNC is the timing of synch_see mode.
SynchTiming == {"0_00", "50_0", "22_5"}
Timing      == SynchTiming \cup {"SYNC", "NOSYNCH"}

SeeStates ==
    [ seen : BOOLEAN, timing : Timing, seeCount : Nat,
      history : Nat \X Nat \X Nat, cycles : 0 .. 100, synchSee : BOOLEAN ]

\* SeeState::SeeState.  No time has been seen: M_current_time and
\* M_last_see_time are both (-1,0).  100 is the initial countdown.
InitSeeState ==
    [ seen |-> TRUE, timing |-> "NOSYNCH", seeCount |-> 0,
      history |-> <<0, 0, 0>>, cycles |-> 100, synchSee |-> FALSE ]

IsSynch(ss) == ss.synchSee \/ ss.timing \in SynchTiming

\* A countdown that is not stopped at zero.
UnclampedNewCycle(ss) ==
    [ss EXCEPT !.seen     = FALSE,
               !.cycles   = ss.cycles - 1,
               !.history  = <<ss.seeCount, ss.history[1], ss.history[2]>>,
               !.seeCount = 0]

\* SeeState::setNewCycle for a time that differs from M_current_time.
NewCycle(ss) ==
    [ss EXCEPT !.seen     = FALSE,
               !.cycles   = IF ss.cycles = 0 THEN 0 ELSE ss.cycles - 1,
               !.history  = <<ss.seeCount, ss.history[1], ss.history[2]>>,
               !.seeCount = 0]

SetNewCycle(ss, isNew) == IF isNew THEN NewCycle(ss) ELSE ss

SetLastSeeTiming(ss, timing) == [ss EXCEPT !.timing = timing]

SetSynchSeeMode(ss) == [ss EXCEPT !.synchSee = TRUE]

\* A table that takes a narrow see after 50_0 for the next cycle's start.
NextTimingSkipping22(ss, view) ==
    CASE view.quality = "LOW"                             -> "NOSYNCH"
      [] view.width = "WIDE" /\ ss.timing \in SynchTiming -> ss.timing
      [] view.width = "NORMAL" /\ ss.timing = "0_00"      -> "50_0"
      [] view.width = "NORMAL" /\ ss.timing = "50_0"      -> "0_00"
      [] view.width = "NARROW" /\ ss.timing = "50_0"      -> "0_00"
      [] OTHER                                            -> "NOSYNCH"

\* SeeState::getNextTiming: where the see after a see at the current timing
\* falls when the agent keeps the given view mode.
NextTiming(ss, view) ==
    IF ss.synchSee THEN "SYNC"
    ELSE IF view.quality = "LOW" THEN "NOSYNCH"
    ELSE CASE view.width = "WIDE" /\ ss.timing \in SynchTiming -> ss.timing
           [] view.width = "NORMAL" /\ ss.timing = "0_00"      -> "50_0"
           [] view.width = "NORMAL" /\ ss.timing = "50_0"      -> "0_00"
           [] view.width = "NARROW" /\ ss.timing = "50_0"      -> "22_5"
           [] view.width = "NARROW" /\ ss.timing = "22_5"      -> "0_00"
           [] OTHER                                            -> "NOSYNCH"

\* The (timing, width) pairs setViewMode reports as illegal: the countdown
\* is left as it was.
IllegalWidth(ss, width) ==
    /\ ~ss.synchSee
    /\ \/ ss.timing = "0_00" /\ width = "NARROW"
       \/ ss.timing = "22_5" /\ width = "NORMAL"

\* A countdown that takes every NORMAL for two cycles.
CyclesIgnoringTiming(ss, width) ==
    CASE width = "WIDE" -> 3 [] width = "NORMAL" -> 2 [] width = "NARROW" -> 1

\* The cycles until the next see for a legal pair.
CyclesFor(ss, width) ==
    CASE width = "WIDE"   -> 3
      [] width = "NORMAL" -> IF ~ss.synchSee /\ ss.timing = "0_00" THEN 1 ELSE 2
      [] width = "NARROW" -> 1

\* SeeState::setViewMode.
SetViewMode(ss, view) ==
    IF ss.seen /\ ~IllegalWidth(ss, view.width)
    THEN [ss EXCEPT !.cycles = CyclesFor(ss, view.width)]
    ELSE ss

\* SeeState::updateBySenseBody.
UpdateBySenseBody(ss, isNew) == SetNewCycle(ss, isNew)

\* The first half of SeeState::updateBySee: count the see.  A second see in
\* one cycle ends an estimated synchronisation.
CountSee(ss, isNew) ==
    IF ss.seen /\ ~isNew
    THEN [ss EXCEPT !.seeCount = @ + 1,
                    !.timing   = IF IsSynch(ss) THEN "NOSYNCH" ELSE @]
    ELSE [SetNewCycle(ss, isNew) EXCEPT !.seen = TRUE, !.seeCount = 1]

\* SeeState::updateBySee; view is the agent's own view mode.
UpdateBySee(ss, isNew, view) ==
    LET counted == CountSee(ss, isNew)
        early   == IF counted.cycles > 0
                   THEN SetViewMode([counted EXCEPT !.cycles = 0], view)
                   ELSE counted
    IN  IF view.quality = "LOW" THEN [counted EXCEPT !.timing = "NOSYNCH"]
        ELSE IF ~IsSynch(counted) THEN counted
        ELSE [early EXCEPT !.timing = NextTiming(early, view)]

\* "Synchronisation chance" of a normal server: two sees in the previous
\* cycle and three in the one before.
IsSynchedSeeCountNormalMode(ss) ==
    /\ ss.history[1] = 2
    /\ ss.history[2] = 3

\* The same for a server in synch_mode, where the agent looks when (think)
\* arrives.
IsSynchedSeeCountSynchMode(ss) ==
    /\ ss.seeCount = 2
    /\ ss.history = <<3, 2, 3>>

\* A check that takes NORMAL for possible at every timing.
CanChangeToNormalAnytime(ss, width, seenNow) ==
    seenNow /\ (width = "NARROW" => ss.timing # "0_00")

\* SeeState::canChangeViewTo; seenNow: the current time is M_last_see_time.
CanChangeViewTo(ss, width, seenNow) ==
    /\ seenNow
    /\ \/ ss.synchSee
       \/ width = "WIDE"
       \/ width = "NORMAL" /\ ss.timing \in {"0_00", "50_0"}
       \/ width = "NARROW" /\ ss.timing # "0_00"
=============================================================================
