----------------------------- MODULE KickOrder -----------------------------
(***************************************************************************)
(* What a team promises of its order of kicks in a penalty shoot-out: one  *)
(* player at a time is due, nobody kicks but the one that is due, and      *)
(* nobody is due again before every other player was.                      *)
(***************************************************************************)
EXTENDS Integers

CONSTANTS Players, None

VARIABLES due, had, kicking

vars == <<due, had, kicking>>

Init == due = None /\ had = {} /\ kicking = {}

NextTurn ==
    /\ kicking = {}
    /\ \E p \in Players \ had :
          /\ due' = p
          /\ had' = IF had \cup {p} = Players THEN {} ELSE had \cup {p}
    /\ UNCHANGED kicking

Begin ==
    /\ kicking = {} /\ due # None
    /\ kicking' = {due}
    /\ UNCHANGED <<due, had>>

End == kicking' = {} /\ UNCHANGED <<due, had>>

Next == NextTurn \/ Begin \/ End

Spec == Init /\ [][Next]_vars
=============================================================================
