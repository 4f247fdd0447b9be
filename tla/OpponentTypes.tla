--------------------------- MODULE OpponentTypes ---------------------------
(***************************************************************************)
(* The online coach finds out the player types of the opponents and tells  *)
(* them to its team.  The server says who was replaced but not by which    *)
(* type; PlayerTypeAnalyzer rules types out by what it sees of a player    *)
(* and takes the last one that remains.  SampleCoach sends the types that  *)
(* are news to it in a freeform message, when it may, and a player of the  *)
(* team believes the last thing it was told.                               *)
(*                                                                         *)
(* The measurements (positions, velocities, kickable areas) are abstracted *)
(* to the types they rule out, never the real one.  One teammate is        *)
(* modelled: teammates do not talk about types.  The server allows any     *)
(* number of default players (allow_mult_default_type, as by default).     *)
(***************************************************************************)
EXTENDS Integers, FiniteSets, Sequences

CONSTANTS
    MaxOpponent,  \* the opponents are 1 .. MaxOpponent
    MaxType,      \* the player types are 0 .. MaxType
    PtMax,        \* PlayerParam::ptMax: players of one type
    Allowed,      \* freeform messages the coach may send
    MaxChanges,   \* bound: substitutions of the opponents
    FaultKinds,   \* what may go wrong: a message to the coach about a change,
                  \* one to the player, a say or a hear is lost; play goes on
                  \* before the coach has had a cycle
    MaxFaults,    \* bound: faults in one behaviour
    MaxQueue      \* bound: messages on the way to the server, to the player

Hetero_Unknown == -1
Hetero_Default == 0
Opponents      == 1 .. MaxOpponent
Types          == 0 .. MaxType

ASSUME SizesAssumption == MaxOpponent \in Nat \ {0} /\ MaxType \in Nat
ASSUME LimitsAssumption ==
    PtMax \in Nat \ {0} /\ Allowed \in Nat /\ MaxChanges \in Nat /\ MaxQueue \in Nat
ASSUME FaultsAssumption ==
    FaultKinds \subseteq {"change", "told", "say", "hear", "late"} /\ MaxFaults \in Nat

VARIABLES
    real,     \* server: the type of each opponent
    changes,  \* server: substitutions of the opponents so far
    window,   \* play is stopped, or on and closed or open to freeform messages
    type,     \* M_opponent_data[].type_, which M_player_type_id follows
    invalid,  \* M_opponent_data[].invalid_flags_: the types ruled out
    used,     \* M_opponent_type_used_count
    turn,     \* 0 between cycles, n when analyze is at opponent n, then action
    acted,    \* the coach has acted since the last change or change of window
    said,     \* M_opponent_player_types of SampleCoach
    sent,     \* M_freeform_send_count
    saying,   \* freeform messages on their way to the server
    toPlayer, \* messages on their way to the player
    belief,   \* M_opponent_types of the player's world model
    happened, \* the faults and coincidences so far
    faults    \* how many of them are faults

opponent == <<real, changes>>
analyzer == <<type, invalid, used, turn>>
coach    == <<acted, said, sent>>
wire     == <<saying, toPlayer>>
vars     == <<opponent, window, analyzer, coach, wire, belief, happened, faults>>

If(condition, kind) == IF condition THEN {kind} ELSE {}

Fault(kind) ==
    /\ kind \in FaultKinds
    /\ faults < MaxFaults
    /\ faults' = faults + 1

NoFault == UNCHANGED <<faults, happened>>

Holders(typeOf, t) == {n \in Opponents : typeOf[n] = t}
Known(t)           == t # Hetero_Unknown

-----------------------------------------------------------------------------
(* A substitution of an opponent, and what coach and player make of it.    *)

\* PlayerTypeAnalyzer::reset; and one that leaves the flags as they are.
FlagsKept(n)  == invalid
FlagsReset(n) == [invalid EXCEPT ![n] = {}]

\* The count of a known type is not taken back with it; and one that is, also
\* for the default type that was never counted.
UsedTakenBack(n)  == IF Known(type[n]) THEN [used EXCEPT ![type[n]] = @ - 1] ELSE used
UsedAfterReset(n) == used

\* WorldModel::setTheirPlayerType; and one that ignores the unknown type.
SetIfKnown(n, id)         == IF Known(id) THEN [belief EXCEPT ![n] = id] ELSE belief
SetTheirPlayerType(n, id) == [belief EXCEPT ![n] = id]

\* The server (external) replaces an opponent by one of another type while
\* play is stopped.  The coach reads (change_player_type n) before the cycle's
\* see_global: setPlayerType and reset make the type unknown.
Replace(n, t) ==
    /\ window = "stopped" /\ turn = 0
    /\ changes < MaxChanges /\ changes' = changes + 1
    /\ t # real[n]
    /\ t = Hetero_Default \/ Cardinality(Holders(real, t)) < PtMax
    /\ real' = [real EXCEPT ![n] = t]
    /\ acted' = FALSE

CoachReadsChange(n) ==
    /\ type' = [type EXCEPT ![n] = Hetero_Unknown]
    /\ invalid' = FlagsReset(n)
    /\ used' = UsedAfterReset(n)

PlayerIsTold(n) ==
    /\ Len(toPlayer) < MaxQueue
    /\ toPlayer' = Append(toPlayer, [type |-> "change", unum |-> n])

\* It is noted if the coach had already found out the replaced player's type,
\* and if a message that tells of that player is on its way.
Coincidences(n) ==
    If(Known(type[n]) /\ type[n] # Hetero_Default, "replaced")
      \cup If(\E i \in 1 .. Len(saying) : Known(saying[i][n]), "crossed")

Substitute ==
    \E n \in Opponents, t \in Types :
        /\ Replace(n, t)
        /\ \/ /\ CoachReadsChange(n) /\ PlayerIsTold(n)
              /\ happened' = happened \cup Coincidences(n)
              /\ UNCHANGED faults
           \/ /\ Fault("change") /\ PlayerIsTold(n)
              /\ happened' = happened \cup Coincidences(n) \cup {"change"}
              /\ UNCHANGED <<type, invalid, used>>
           \/ /\ Fault("told") /\ CoachReadsChange(n)
              /\ happened' = happened \cup Coincidences(n) \cup {"told"}
              /\ UNCHANGED toPlayer
        /\ UNCHANGED <<window, turn, said, sent, saying, belief>>

\* Play stops, goes on, or comes to the periods in which a freeform message
\* may be sent.  The coach has acted before, and the server read its message.
ChangeWindow ==
    /\ turn = 0
    /\ window' \in {"stopped", "closed", "period"} \ {window}
    /\ acted' = FALSE
    /\ \/ acted /\ saying = << >> /\ NoFault
       \/ ~(acted /\ saying = << >>) /\ Fault("late") /\ happened' = happened \cup {"late"}
    /\ UNCHANGED <<opponent, analyzer, said, sent, wire, belief>>

-----------------------------------------------------------------------------
(* A cycle of the coach: PlayerTypeAnalyzer::update and SampleCoach's      *)
(* action.  Between its steps the coach reads nothing.                     *)

\* What the checks of a cycle may rule out, of opponents not yet identified.
\* (The flags of the others are cleared before they are used again.)
RuledOut ==
    {seen \in [Opponents -> SUBSET Types] :
        \A n \in Opponents : real[n] \notin seen[n] /\ (Known(type[n]) => seen[n] = {})}

\* PlayerTypeAnalyzer::update, up to the loop of analyze.
SeeGlobal ==
    /\ turn = 0 /\ turn' = 1
    /\ \E seen \in RuledOut :
          invalid' = [n \in Opponents |-> invalid[n] \cup seen[n]]
    /\ UNCHANGED <<opponent, window, type, used, coach, wire, belief>>
    /\ NoFault

Candidates(n) == Types \ invalid[n]

\* The only candidate t is the type of n, and when PtMax opponents have been
\* found to be of type t nobody else is a candidate for it.  It is noted if
\* that is the default type, and if t is what the coach has last said of n.
Determined(n, t) ==
    LET full == used[t] + 1 >= PtMax
    IN  /\ type' = [type EXCEPT ![n] = t]
        /\ used' = [used EXCEPT ![t] = @ + 1]
        /\ invalid' = [m \in Opponents |->
                         IF full /\ m # n /\ ~Known(type[m]) THEN invalid[m] \cup {t} ELSE invalid[m]]
        /\ happened' = happened \cup If(full /\ t = Hetero_Default, "default")
                                \cup If(said[n] = t, "again")

\* The loop of analyze at opponent turn: one whose type is known, who has
\* several candidates or who was perhaps moved by the referee is left as it
\* is; with no candidate left its analysis starts again.
Analyze ==
    /\ turn \in Opponents /\ turn' = turn + 1
    /\ \/ UNCHANGED <<type, invalid, used, happened>>
       \/ /\ ~Known(type[turn]) /\ Candidates(turn) = {}
          /\ invalid' = FlagsReset(turn)
          /\ UNCHANGED <<type, used, happened>>
       \/ /\ ~Known(type[turn])
          /\ \E t \in Types : Candidates(turn) = {t} /\ Determined(turn, t)
    /\ UNCHANGED <<opponent, window, coach, wire, belief, faults>>

\* GlobalWorldModel::canSendFreeform.
CanSendFreeform == sent < Allowed /\ window # "closed"

\* sayPlayerTypes marks what it is about to say, only if it may say it; and one
\* that marks it first.
MarkedFirst == type
Marked      == IF CanSendFreeform THEN type ELSE said
IsNews      == CanSendFreeform /\ \E n \in Opponents : type[n] # said[n] /\ Known(type[n])

\* CoachAgent::doSayFreeform.
DoSayFreeform ==
    /\ Len(saying) < MaxQueue
    /\ saying' = Append(saying, type)
    /\ sent' = sent + 1

\* SampleCoach::sayPlayerTypes.
SayPlayerTypes ==
    /\ turn = MaxOpponent + 1 /\ turn' = 0
    /\ acted' = TRUE
    /\ said' = Marked
    /\ IF IsNews THEN DoSayFreeform ELSE UNCHANGED <<saying, sent>>
    /\ UNCHANGED <<opponent, window, type, invalid, used, toPlayer, belief>>
    /\ NoFault

-----------------------------------------------------------------------------
(* The way to the player.                                                  *)

\* The server (external) passes the message on, or refuses it because play has
\* gone on in the meantime.
Serve ==
    /\ saying # << >>
    /\ saying' = Tail(saying)
    /\ IF window = "closed"
       THEN UNCHANGED toPlayer
       ELSE /\ Len(toPlayer) < MaxQueue
            /\ toPlayer' = Append(toPlayer, [type |-> "hear", table |-> Head(saying)])
    /\ UNCHANGED <<opponent, window, analyzer, coach, belief>>
    /\ NoFault

LoseSay ==
    /\ Fault("say") /\ happened' = happened \cup {"say"}
    /\ saying # << >> /\ saying' = Tail(saying)
    /\ UNCHANGED <<opponent, window, analyzer, coach, toPlayer, belief>>

LoseHear ==
    /\ Fault("hear") /\ happened' = happened \cup {"hear"}
    /\ toPlayer # << >> /\ Head(toPlayer).type = "hear"
    /\ toPlayer' = Tail(toPlayer)
    /\ UNCHANGED <<opponent, window, analyzer, coach, saying, belief>>

\* analyzeChangePlayerType of the player, for an opponent.
PlayerReadsChange ==
    /\ toPlayer # << >> /\ Head(toPlayer).type = "change"
    /\ toPlayer' = Tail(toPlayer)
    /\ belief' = SetTheirPlayerType(Head(toPlayer).unum, Hetero_Unknown)
    /\ UNCHANGED <<opponent, window, analyzer, coach, saying>>
    /\ NoFault

\* AudioSensor::parseCoachMessage and FreeformParser::parse, which sets every
\* entry of the table, the unknown ones too.
PlayerHears ==
    /\ toPlayer # << >> /\ Head(toPlayer).type = "hear"
    /\ toPlayer' = Tail(toPlayer)
    /\ belief' = Head(toPlayer).table
    /\ UNCHANGED <<opponent, window, analyzer, coach, saying>>
    /\ NoFault

-----------------------------------------------------------------------------
Init ==
    /\ real = [n \in Opponents |-> Hetero_Default] /\ changes = 0
    /\ window = "stopped"
    /\ type = [n \in Opponents |-> Hetero_Default]
    /\ invalid = [n \in Opponents |-> {}]
    /\ used = [t \in Types |-> 0]
    /\ turn = 0 /\ acted = FALSE
    /\ said = [n \in Opponents |-> Hetero_Default]
    /\ sent = 0 /\ saying = << >> /\ toPlayer = << >>
    /\ belief = [n \in Opponents |-> Hetero_Default]
    /\ happened = {} /\ faults = 0

Next ==
    \/ Substitute \/ ChangeWindow
    \/ SeeGlobal \/ Analyze \/ SayPlayerTypes
    \/ Serve \/ LoseSay \/ LoseHear \/ PlayerReadsChange \/ PlayerHears

Spec == Init /\ [][Next]_vars

\* The coach's cycles go on, and the server's clock, so that a closed window
\* does not stay closed; the server and the player read what arrives.
FairSpec ==
    /\ Spec
    /\ WF_vars(SeeGlobal) /\ WF_vars(Analyze) /\ WF_vars(SayPlayerTypes)
    /\ SF_vars(window = "closed" /\ ChangeWindow)
    /\ WF_vars(Serve) /\ WF_vars(PlayerReadsChange) /\ WF_vars(PlayerHears)

-----------------------------------------------------------------------------
(* Properties.                                                             *)

Table   == [Opponents -> Types \cup {Hetero_Unknown}]
Message == [type : {"change"}, unum : Opponents] \cup [type : {"hear"}, table : Table]

\* Every variable stays in its type; the coach never sends more messages than
\* it is allowed.
TypeOK ==
    /\ real \in [Opponents -> Types] /\ changes \in 0 .. MaxChanges
    /\ window \in {"stopped", "closed", "period"}
    /\ type \in Table
    /\ invalid \in [Opponents -> SUBSET Types]
    /\ used \in [Types -> Nat]
    /\ turn \in 0 .. MaxOpponent + 1
    /\ acted \in BOOLEAN
    /\ said \in Table
    /\ sent \in 0 .. Allowed
    /\ saying \in Seq(Table)
    /\ toPlayer \in Seq(Message)
    /\ belief \in Table
    /\ happened \subseteq FaultKinds \cup {"replaced", "crossed", "default", "again"}
    /\ faults \in 0 .. MaxFaults

\* The type the coach has found for an opponent is its type, and the type of
\* one not yet identified is still among its candidates.  The exclusion of
\* used up types spoils this when the count is of players since replaced, or
\* when it is applied to the default type, of which there may be any number.
IdentifiedRight ==
    happened \cap {"change", "replaced", "default"} = {} =>
        \A n \in Opponents :
            IF Known(type[n]) THEN type[n] = real[n] ELSE real[n] \notin invalid[n]

\* What a player believes of an opponent's type is right, unless a message of
\* its change is still to come: the coach's tables, which repeat everything it
\* knows, undo no change.
BelievesRight ==
    happened \cap {"change", "replaced", "default", "crossed", "told"} = {} =>
        \A n \in Opponents :
            \/ belief[n] \in {Hetero_Unknown, real[n]}
            \/ \E i \in 1 .. Len(toPlayer) :
                  toPlayer[i].type = "change" /\ toPlayer[i].unum = n

\* As long as the coach may send, and no message of it is lost or too late,
\* every type it has found out reaches the player, though it marks types as
\* said and may find out others while the window is closed; unless it is what
\* was said of that player before its change, found out again at once.
Told ==
    <>[](\/ happened \cap {"change", "say", "hear", "late", "again"} # {}
         \/ sent = Allowed
         \/ \A n \in Opponents : Known(type[n]) => belief[n] = type[n])

\* The only candidate that is left is the opponent's type (default types
\* excepted), for "reset all data for the specified player ... is called when
\* coach receives the change_player_type message".
OnlyCandidateIsRight ==
    "default" \notin happened => \A n \in Opponents : type[n] \in {Hetero_Unknown, real[n]}
=============================================================================
