---------------------------- MODULE Substitution ----------------------------
(***************************************************************************)
(* Player substitution by the online coach: what SampleCoach asks for      *)
(* (sample_coach.cpp), what the server (external) makes of it, and what    *)
(* GlobalWorldModel learns from the answers: the type of each player, the  *)
(* types still available, the number of substitutions, and which players   *)
(* are tired, heard from their say messages.                               *)
(*                                                                         *)
(* The coach decides once in each cycle it sees.  Time and play mode reach *)
(* it with see_global, and the messages arrive in the order they are sent. *)
(* The speeds that order the player types are abstracted: getFastestType   *)
(* takes any candidate.                                                    *)
(***************************************************************************)
EXTENDS Integers, FiniteSets, Sequences, Functions

CONSTANTS
    Players,      \* uniform numbers of the team; 1 is the goalie
    PlayerTypes,  \* PlayerParam::playerTypes
    PtMax,        \* PlayerParam::ptMax: players of one type
    SubsMax,      \* PlayerParam::subsMax: substitutions after kick-off
    AllowMultDefaultType, \* PlayerParam::allowMultDefaultType
    FaultKinds,   \* the kinds of fault that may happen: a request or a
                  \* message to the coach is lost, something is late
    MaxFaults,    \* how many of them may happen in one behaviour
    MaxInbox      \* messages the coach's socket holds

Hetero_Unknown == -1
Hetero_Default == 0
Goalie         == 1
Types          == 0 .. PlayerTypes - 1

ASSUME PlayersAssumption == IsFiniteSet(Players) /\ Goalie \in Players
ASSUME LimitsAssumption ==
    PlayerTypes \in Nat \ {0} /\ PtMax \in Nat \ {0} /\ SubsMax \in Nat /\ MaxInbox \in Nat
ASSUME AllowMultAssumption == AllowMultDefaultType \in BOOLEAN
ASSUME FaultsAssumption ==
    FaultKinds \subseteq {"request", "message", "late"} /\ MaxFaults \in Nat

\* Game time as far as the coach asks: cycle 0 up to and after ten stopped
\* cycles, the match, and the match from 500 cycles before normal time ends.
Phase == {"waiting", "kick_off_near", "match", "late_match"}
Mode  == {"before_kick_off", "play_on", "set_play", "penalty"}
Started(phase) == phase \in {"match", "late_match"}

VARIABLES
    phase, mode, \* the server's time and play mode
    types,       \* server: the type of each player
    subs,        \* server: substitutions since kick-off
    tired,       \* the players whose recovery is below its initial value
    refused,     \* the server has refused a request
    requests,    \* change_player_type commands on their way, as <<unum, type>>
    inbox,       \* messages on their way to the coach
    seenPhase,   \* world().time()
    seenMode,    \* world().gameMode()
    typeId,      \* M_player_type_id of the coach's side
    available,   \* M_available_player_type_id, as the number of each type
    count,       \* M_substitute_count of the coach's side
    weary,       \* the players whose M_recovery is below its initial value
    heard,       \* AudioMemory::recovery() of the current cycle
    firstDone,   \* S_first_substituted
    decided,     \* last_decision_time_ = current_time_
    happened,    \* the kinds of fault that have happened
    faults       \* and how many of them

server == <<phase, mode, types, subs, tired, refused>>
world  == <<seenPhase, seenMode, typeId, available, count, weary, heard>>
vars   == <<server, requests, inbox, world, firstDone, decided, happened, faults>>

Fault(kind) ==
    /\ kind \in FaultKinds
    /\ faults < MaxFaults
    /\ faults' = faults + 1
    /\ happened' = happened \cup {kind}

NoFault == UNCHANGED <<faults, happened>>

Used(typeOf, t) == Cardinality({u \in Players : typeOf[u] = t})

-----------------------------------------------------------------------------
(* The server (external).                                                  *)

\* A change is refused in play, over the number of substitutions, and over
\* the number of players of the type.
Acceptable(t) ==
    /\ mode # "play_on"
    /\ Started(phase) => subs < SubsMax
    /\ (AllowMultDefaultType /\ t = Hetero_Default) \/ Used(types, t) < PtMax

Serve ==
    \E request \in requests :
        LET u == request[1]
            t == request[2]
        IN  /\ requests' = requests \ {request}
            /\ IF Acceptable(t)
               THEN /\ Len(inbox) < MaxInbox
                    /\ types' = [types EXCEPT ![u] = t]
                    /\ subs' = IF Started(phase) THEN subs + 1 ELSE subs
                    /\ tired' = tired \ {u}
                    /\ inbox' = Append(inbox, [type |-> "change", unum |-> u, to |-> t])
                    /\ UNCHANGED refused
               ELSE refused' = TRUE /\ UNCHANGED <<types, subs, tired, inbox>>
            /\ UNCHANGED <<phase, mode, world, firstDone, decided>>
            /\ NoFault

LoseRequest ==
    /\ Fault("request")
    /\ \E request \in requests : requests' = requests \ {request}
    /\ UNCHANGED <<server, inbox, world, firstDone, decided>>

\* The phases and modes the next cycle may have.
NextPhase ==
    CASE phase = "waiting"       -> {"waiting", "kick_off_near", "match"}
      [] phase = "kick_off_near" -> {"kick_off_near", "match"}
      [] phase = "match"         -> {"match", "late_match"}
      [] phase = "late_match"    -> {"late_match"}

ModesIn(p) ==
    CASE ~Started(p)      -> {"before_kick_off"}
      [] p = "match"      -> {"before_kick_off", "play_on", "set_play"}
      [] p = "late_match" -> {"play_on", "set_play", "penalty"}

\* A new cycle, which the coach sees.  It comes after the last one's messages
\* have been served and read and the coach has decided, or it is early.  A
\* half starts with rested players.
Cycle ==
    /\ \/ requests = {} /\ inbox = << >> /\ decided /\ NoFault
       \/ (requests # {} \/ inbox # << >> \/ ~decided) /\ Fault("late")
    /\ Len(inbox) < MaxInbox
    /\ \E p \in NextPhase : \E m \in ModesIn(p) :
          /\ phase' = p /\ mode' = m
          /\ inbox' = Append(inbox, [type |-> "see_global", phase |-> p, mode |-> m])
          /\ tired' = IF m = "before_kick_off" THEN {} ELSE tired
    /\ UNCHANGED <<types, subs, refused, requests, world, firstDone, decided>>

GetTired ==
    /\ Started(phase)
    /\ mode = "play_on"
    /\ \E u \in Players \ tired : tired' = tired \cup {u}
    /\ UNCHANGED <<phase, mode, types, subs, refused, requests, inbox, world,
                   firstDone, decided>>
    /\ NoFault

\* A tired player whose turn it is says so, in a stopped mode, once in a cycle.
SayRecovery ==
    /\ mode \in {"before_kick_off", "set_play"}
    /\ Len(inbox) < MaxInbox
    /\ \E u \in tired \ heard :
          LET message == [type |-> "hear", unum |-> u]
          IN  message \notin Range(inbox) /\ inbox' = Append(inbox, message)
    /\ UNCHANGED <<server, requests, world, firstDone, decided>>
    /\ NoFault

LoseMessage ==
    /\ Fault("message")
    /\ inbox # << >>
    /\ inbox' = Tail(inbox)
    /\ UNCHANGED <<server, requests, world, firstDone, decided>>

-----------------------------------------------------------------------------
(* The coach's messages.                                                   *)

ReadSeeGlobal ==
    /\ inbox # << >> /\ Head(inbox).type = "see_global"
    /\ inbox' = Tail(inbox)
    /\ seenPhase' = Head(inbox).phase
    /\ seenMode' = Head(inbox).mode
    /\ heard' = {}
    /\ decided' = FALSE
    /\ UNCHANGED <<server, requests, typeId, available, count, weary, firstDone>>
    /\ NoFault

ReadHear ==
    /\ inbox # << >> /\ Head(inbox).type = "hear"
    /\ inbox' = Tail(inbox)
    /\ heard' = heard \cup {Head(inbox).unum}
    /\ UNCHANGED <<server, requests, seenPhase, seenMode, typeId, available,
                   count, weary, firstDone, decided>>
    /\ NoFault

\* What setPlayerType does to the count, the available types and the tired
\* players; and the first two with a plausible slip in them.
CountAlways(n)   == n + 1
CountAfter(n)    == IF Started(seenPhase) THEN n + 1 ELSE n
NotErased(of, t) == of
Erase(of, t)     == IF of[t] > 0 THEN [of EXCEPT ![t] = @ - 1] ELSE of
Rested(w, u)     == w \ {u}

\* GlobalWorldModel::setPlayerType for the coach's own side.
SetPlayerType ==
    /\ inbox # << >> /\ Head(inbox).type = "change"
    /\ inbox' = Tail(inbox)
    /\ LET u == Head(inbox).unum
           t == Head(inbox).to
       IN  /\ typeId' = [typeId EXCEPT ![u] = t]
           /\ count' = CountAfter(count)
           /\ available' = Erase(available, t)
           /\ weary' = Rested(weary, u)
    /\ UNCHANGED <<server, requests, seenPhase, seenMode, heard, firstDone, decided>>
    /\ NoFault

-----------------------------------------------------------------------------
(* The coach's decision.                                                   *)

\* updateTeammateStamina: the tired players known before and those heard of
\* in this cycle; all are rested before the kick-off of a half.  And the
\* same without the rest.
WearyAllTheSame == weary \cup heard
WearyNow ==
    IF seenMode = "before_kick_off" /\ seenPhase # "late_match" THEN {} ELSE weary \cup heard

\* The ways to give candidates, a number of each type, to players: all get
\* one unless the candidates run out.
GivenTo(give, t) == {u \in DOMAIN give : give[u] = t}
Choices(players, candidates) ==
    { give \in [players -> Types \cup {Hetero_Unknown}] :
        /\ \A t \in Types : Cardinality(GivenTo(give, t)) <= candidates[t]
        /\ GivenTo(give, Hetero_Unknown) # {} =>
               \A t \in Types : Cardinality(GivenTo(give, t)) = candidates[t] }

\* substituteTo for each of them: the checks before the command is sent; and
\* a coach that sends whatever getFastestType gives.
SubstituteUnchecked(give) == { <<u, give[u]>> : u \in DOMAIN give }
SubstituteTo(give) ==
    { <<u, give[u]>> : u \in {p \in DOMAIN give :
        /\ give[p] # Hetero_Unknown
        /\ Started(seenPhase) => count < SubsMax
        /\ available[give[p]] > 0} }

\* The candidates of doFirstSubstitute: a default type is kept for the goalie.
FirstCandidates ==
    [t \in Types |->
        IF t # Hetero_Default THEN PtMax
        ELSE PtMax - 1 + (IF AllowMultDefaultType THEN Cardinality(Players) + 1 ELSE 0)]

\* doFirstSubstitute, for the teammates the coach can see, and for the goalie as
\* from protocol version 14, which the team's coach.conf sets.
FirstSubstitution ==
    /\ ~firstDone /\ seenPhase = "kick_off_near"
    /\ firstDone' = TRUE
    /\ \E present \in SUBSET (Players \ {Goalie}) :
       \E give \in Choices(present, FirstCandidates) :
          requests' = requests \cup SubstituteTo(give)
                        \cup SubstituteTo([u \in {Goalie} |-> Hetero_Default])

\* The players the loop of doSubstituteTiredPlayers reaches: its own count
\* stops it; and a loop that forgets to count.
LoopUncounted(players) == {players}
LoopReaches(players) ==
    LET left == SubsMax - count
    IN  {some \in SUBSET players :
            \/ some = players /\ Cardinality(players) <= left
            \/ Cardinality(some) = left /\ Cardinality(players) > left}

TiredTime == seenPhase = "late_match" /\ seenMode \notin {"play_on", "penalty"}

\* doSubstituteTiredPlayers.
TiredSubstitution ==
    /\ TiredTime /\ count < SubsMax
    /\ \E some \in LoopReaches(WearyNow) : \E give \in Choices(some, available) :
          requests' = requests \cup SubstituteTo(give)
    /\ UNCHANGED firstDone

NoSubstitution ==
    /\ ~(~firstDone /\ seenPhase = "kick_off_near")
    /\ ~(TiredTime /\ count < SubsMax)
    /\ UNCHANGED <<requests, firstDone>>

\* CoachAgent::action and SampleCoach::doSubstitute.
Decide ==
    /\ ~decided
    /\ decided' = TRUE
    /\ weary' = WearyNow
    /\ FirstSubstitution \/ TiredSubstitution \/ NoSubstitution
    /\ UNCHANGED <<server, inbox, seenPhase, seenMode, typeId, available,
                   count, heard>>
    /\ NoFault

-----------------------------------------------------------------------------
Init ==
    /\ phase = "waiting" /\ mode = "before_kick_off"
    /\ types = [u \in Players |-> Hetero_Default]
    /\ subs = 0 /\ tired = {} /\ refused = FALSE
    /\ requests = {} /\ inbox = << >>
    /\ seenPhase = "waiting" /\ seenMode = "before_kick_off"
    /\ typeId = [u \in Players |-> Hetero_Default]
    /\ available = [t \in Types |-> IF t = Hetero_Default /\ AllowMultDefaultType THEN 0 ELSE PtMax]
    /\ count = 0 /\ weary = {} /\ heard = {}
    /\ firstDone = FALSE /\ decided = TRUE
    /\ happened = {} /\ faults = 0

Next ==
    \/ Serve \/ LoseRequest \/ Cycle \/ GetTired \/ SayRecovery \/ LoseMessage
    \/ ReadSeeGlobal \/ ReadHear \/ SetPlayerType \/ Decide

Spec == Init /\ [][Next]_vars

\* The server's cycles go on, it serves what arrives, and the coach reads and
\* decides.
FairSpec ==
    /\ Spec
    /\ WF_vars(Serve) /\ WF_vars(Cycle)
    /\ WF_vars(ReadSeeGlobal) /\ WF_vars(ReadHear) /\ WF_vars(SetPlayerType)
    /\ WF_vars(Decide)

-----------------------------------------------------------------------------
(* Properties.                                                             *)

\* GlobalWorldModel::canSubstitute, which SampleCoach does not ask.
CanSubstitute(t) ==
    /\ Started(seenPhase) => count < SubsMax
    /\ (AllowMultDefaultType /\ t = Hetero_Default) \/ Used(typeId, t) < PtMax

MessageToCoach ==
    [type : {"change"}, unum : Players, to : Types]
      \cup [type : {"see_global"}, phase : Phase, mode : Mode]
      \cup [type : {"hear"}, unum : Players]

\* Every variable stays in its type.
TypeOK ==
    /\ refused \in BOOLEAN /\ firstDone \in BOOLEAN /\ decided \in BOOLEAN
    /\ phase \in Phase /\ seenPhase \in Phase /\ mode \in Mode /\ seenMode \in Mode
    /\ types \in [Players -> Types] /\ typeId \in [Players -> Types]
    /\ subs \in Nat /\ count \in Nat
    /\ available \in [Types -> Nat]
    /\ tired \subseteq Players /\ weary \subseteq Players /\ heard \subseteq Players
    /\ requests \subseteq Players \X Types
    /\ inbox \in Seq(MessageToCoach)
    /\ happened \subseteq FaultKinds /\ faults \in 0 .. MaxFaults

\* The two books the coach keeps agree, whatever was lost or late: a type
\* that substituteTo finds in M_available_player_type_id is one that
\* canSubstitute allows by the used counts.  (Every player starts with the
\* default type, which is not counted against its own availability.)
AvailableIsSubstitutable ==
    \A t \in Types \ {Hetero_Default} :
        available[t] > 0 /\ (Started(seenPhase) => count < SubsMax) => CanSubstitute(t)

\* If no message to the coach was lost, and no change is under way, it knows
\* the type of each player and how many substitutions the server has counted,
\* also of changes that were under way when the match started.
BookkeepingAgrees ==
    "message" \notin happened /\ (\A i \in 1 .. Len(inbox) : inbox[i].type # "change")
      => typeId = types /\ count = subs

\* Without a fault the coach asks for nothing the server refuses, though it
\* sends several requests before the first answer.
NoneRefused == faults = 0 /\ AllowMultDefaultType => ~refused

\* Without a fault no substitution that the server counts is spent on a rested
\* player: it replaces one whose recovery is below its initial value.
OnlyTiredReplaced ==
    [][faults = 0 /\ subs' # subs => \E u \in tired : u \notin tired']_vars

\* A player whom the coach knows to be tired is replaced, also if the request
\* is lost: the coach asks again, until play goes on, the substitutions are
\* used up, or no type is available.  (If the server's answer is lost, the
\* coach takes a replaced player for tired and asks in vain.)
TiredReplaced ==
    \A u \in Players :
        u \in weary ~> \/ u \notin weary
                       \/ "message" \in happened
                       \/ ~TiredTime
                       \/ count >= SubsMax
                       \/ \A t \in Types : available[t] = 0
=============================================================================
