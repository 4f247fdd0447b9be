------------------------------ MODULE Connection ------------------------------
(***************************************************************************)
(* The life of one client of the match server, from the first datagram to  *)
(* the last: BasicClient::run with the handlers the player, the coach and  *)
(* the trainer give it.  The client joins with one init that it never      *)
(* repeats, asks for its settings when the answer comes, switches to       *)
(* packed datagrams when the server says so, counts the time it has heard  *)
(* nothing, and leaves when the match is over, when the server seems down  *)
(* or when select fails.                                                   *)
(*                                                                         *)
(* The server is not part of the repository: its actions say what the      *)
(* client's handlers and the protocol notes in the command headers expect. *)
(* UDP may lose a datagram or let one overtake another.                    *)
(*                                                                         *)
(* One tick is the share of server_wait_seconds that ServerWait counts; it *)
(* passes at Timeout, when every datagram under way has arrived or is lost *)
(* and a running server has had its turn.                                  *)
(***************************************************************************)
EXTENDS Integers, Sequences, SequencesExt

CONSTANTS Levels,      \* compression levels a client may be started with
          ServerWait,  \* server_wait_seconds, in ticks
          MaxFaults    \* bound: datagrams lost or overtaken, failed selects

ASSUME ConnectionAssumption ==
  /\ Levels \subseteq -1 .. 9
  /\ MaxFaults \in Nat
  /\ ServerWait \in Nat
  /\ MaxFaults < ServerWait

VARIABLES config,      \* [kind, eye, level]: what the client is and asks for
          server,      \* [up, over, known, eye, packed, served]
          toServer,    \* types of the datagrams on their way to the server
          toClient,    \* [type, packed] of those on their way to the client
          pc,          \* where BasicClient::run is
          alive,       \* M_server_alive
          packed,      \* M_compression_level > 0: datagrams are packed
          joined,      \* analyzeInit has been through
          waited,      \* waited_msec, in ticks
          byes,        \* bye commands sent
          exits,       \* handleExit calls
          garbled,     \* a datagram was read in the wrong format
          lost,        \* types of the datagrams lost, "order" if one overtook
          faults,      \* faults so far
          noLog        \* initDebug could not open a log file

netVars    == <<toServer, toClient>>
clientVars == <<pc, alive, packed, joined, waited, byes, exits, garbled>>
faultVars  == <<lost, faults, noLog>>
vars       == <<config, server, netVars, clientVars, faultVars>>

Kinds       == {"player", "coach", "trainer"}
ClientTypes == {"init", "eye", "compression", "check_ball", "bye"}
ServerTypes == {"init_ok", "error", "eye_ok", "comp_ok", "ball_ok", "cycle",
                "over"}

TypeOK ==
  /\ config \in [kind : Kinds, eye : BOOLEAN, level : Levels]
  /\ server \in [up : BOOLEAN, over : BOOLEAN, known : BOOLEAN,
                 eye : BOOLEAN, packed : BOOLEAN, served : BOOLEAN]
  /\ toServer \in Seq(ClientTypes)
  /\ toClient \in Seq([type : ServerTypes, packed : BOOLEAN])
  /\ pc \in {"start", "select", "drain", "exiting", "exited"}
  /\ alive \in BOOLEAN /\ packed \in BOOLEAN /\ joined \in BOOLEAN
  /\ waited \in 0 .. 2 * ServerWait + 1
  /\ byes \in Nat /\ exits \in 0 .. 2 /\ garbled \in BOOLEAN
  /\ lost \subseteq ClientTypes \union ServerTypes \union {"order"}
  /\ faults \in 0 .. MaxFaults
  /\ noLog \in BOOLEAN

Init ==
  /\ config \in {c \in [kind : Kinds, eye : BOOLEAN, level : Levels] :
                   c.kind = "player" => ~c.eye}
  /\ server = [up |-> TRUE, over |-> FALSE, known |-> FALSE,
               eye |-> FALSE, packed |-> FALSE, served |-> FALSE]
  /\ toServer = <<>> /\ toClient = <<>>
  /\ pc = "start"
  /\ alive = FALSE /\ packed = FALSE /\ joined = FALSE
  /\ waited = 0 /\ byes = 0 /\ exits = 0
  /\ garbled = FALSE
  /\ lost = {} /\ faults = 0 /\ noLog = FALSE

-----------------------------------------------------------------------------
(* What the client's handlers compute. *)

\* A datagram to a server that is down goes nowhere; sendto succeeds.
Sent(types) == IF server.up THEN toServer \o types ELSE toServer

\* The trainer has no bye; the flag is cleared all the same.
ByeTypes == IF config.kind = "trainer" THEN <<>> ELSE <<"bye">>

\* Mutant of Patience: the coach that does not see is given no longer.
PatienceOfAll == ServerWait

\* How long the client hears nothing before it takes the server for dead.
Patience == IF config.kind = "coach" /\ ~config.eye
            THEN 2 * ServerWait ELSE ServerWait

\* The compression command goes out for every level in 1 .. 9.
AsksCompression == 0 < config.level /\ config.level <= 9

\* The commands analyzeInit sends.  The player's are one datagram, whose
\* only setting the model tells apart is the compression.
Settings ==
  (IF config.kind # "player" /\ config.eye THEN <<"eye">> ELSE <<>>)
    \o (IF AsksCompression THEN <<"compression">> ELSE <<>>)

\* setCompressionLevel takes 0 .. 8 and keeps the old level otherwise.
Packing(level, old) == IF level < 0 \/ 9 <= level THEN old ELSE level > 0

\* Mutant of SayBye: the flag is left as it was.
SayByeStaying ==
  /\ toServer' = Sent(ByeTypes)
  /\ byes' = byes + Len(ByeTypes)
  /\ UNCHANGED alive

\* sendByeCommand: the command, and the end of the loop.
SayBye ==
  /\ toServer' = Sent(ByeTypes)
  /\ byes' = byes + Len(ByeTypes)
  /\ alive' = FALSE

\* finalize: a bye if the server is still thought to be there.
Finalize ==
  IF alive THEN SayBye ELSE UNCHANGED <<toServer, byes, alive>>

-----------------------------------------------------------------------------
(* The client. *)

\* handleStart connects and sends the init, once.
Start ==
  /\ pc = "start"
  /\ pc' = "select" /\ alive' = TRUE
  /\ toServer' = Sent(<<"init">>)
  /\ UNCHANGED <<config, server, toClient, packed, joined, waited, byes,
                 exits, garbled, faultVars>>

\* handleStart fails: no host, no socket or no init sent.  runOnline calls
\* handleExit, and run calls it again.
StartFails ==
  /\ pc = "start"
  /\ pc' = "exiting" /\ exits' = 1
  /\ UNCHANGED <<config, server, netVars, alive, packed, joined, waited,
                 byes, garbled, faultVars>>

\* The coach connects but cannot open its offline log: the first of the two
\* handleExit calls finds the server alive and says bye, before any init.
LogFails ==
  /\ pc = "start" /\ config.kind = "coach"
  /\ pc' = "exiting" /\ exits' = 1
  /\ SayBye
  /\ UNCHANGED <<config, server, toClient, packed, joined, waited, garbled,
                 faultVars>>

\* select reports a datagram: whatever it says, the waiting starts anew.
Wake ==
  /\ pc = "select" /\ toClient # <<>>
  /\ pc' = "drain" /\ waited' = 0
  /\ UNCHANGED <<config, server, netVars, alive, packed, joined, byes,
                 exits, garbled, faultVars>>

Unread == UNCHANGED <<toServer, alive, packed, joined, byes, noLog>>

\* Mutant of ReadInit: the format changes with the request, not the answer.
ReadInitSwitching ==
  /\ joined' = TRUE
  /\ toServer' = Sent(Settings)
  /\ packed' = Packing(config.level, packed)
  /\ UNCHANGED <<alive, byes, noLog>>

\* initDebug of the player and the coach: one log file that cannot be opened
\* clears the flag, and the loop will be left at the end of this drain.
InitDebug ==
  \/ UNCHANGED <<alive, noLog>>
  \/ config.kind # "trainer" /\ alive' = FALSE /\ noLog' = TRUE

\* analyzeInit.  The settings go out with a log file or without.
ReadInit ==
  /\ joined' = TRUE
  /\ InitDebug
  /\ toServer' = Sent(Settings)
  /\ UNCHANGED <<packed, byes>>

ReadCompression ==
  /\ packed' = Packing(config.level, packed)
  /\ UNCHANGED <<toServer, alive, joined, byes, noLog>>

ReadOver == SayBye /\ UNCHANGED <<packed, joined, noLog>>

\* One recvMessage and one parse of handleMessage.  A datagram in the other
\* format makes no sense to the parser and changes nothing.
Read ==
  /\ pc = "drain" /\ toClient # <<>>
  /\ LET m == Head(toClient)
     IN  /\ garbled' = (garbled \/ m.packed # packed)
         /\ CASE m.packed # packed    -> Unread
              [] m.type = "init_ok"   -> ReadInit
              [] m.type = "comp_ok"   -> ReadCompression
              [] m.type = "over"      -> ReadOver
              [] OTHER                -> Unread
  /\ toClient' = Tail(toClient)
  /\ UNCHANGED <<config, server, pc, waited, exits, lost, faults>>

\* recvMessage finds nothing more; the loop looks at isServerAlive.
EndOfDrain ==
  /\ pc = "drain" /\ toClient = <<>>
  /\ pc' = IF alive THEN "select" ELSE "exiting"
  /\ UNCHANGED <<config, server, netVars, alive, packed, joined, waited,
                 byes, exits, garbled, faultVars>>

\* A tick passes with nothing to read.
QuietTick ==
  /\ pc = "select"
  /\ toClient = <<>> /\ toServer = <<>>
  /\ server.up => server.served
  /\ server' = [server EXCEPT !.served = FALSE]
  /\ UNCHANGED <<config, toClient, packed, joined, byes, exits, garbled,
                 faultVars>>

\* Mutant of Timeout: asking for the ball starts the waiting anew.
TimeoutAskingAnew ==
  /\ QuietTick
  /\ IF waited < ServerWait \/ Patience = ServerWait
     THEN /\ waited' = waited + 1 /\ UNCHANGED toServer
          /\ alive' = (waited' <= Patience)
     ELSE waited' = 0 /\ toServer' = Sent(<<"check_ball">>) /\ UNCHANGED alive
  /\ pc' = IF alive' THEN pc ELSE "exiting"

\* Mutant of Timeout: the loop never gives up.
TimeoutForEver ==
  /\ QuietTick
  /\ waited' = waited + 1
  /\ UNCHANGED <<pc, alive, toServer>>

\* Mutant of Timeout: the waiting counts only once the client has joined.
TimeoutOnceJoined ==
  /\ QuietTick
  /\ waited' = IF joined THEN waited + 1 ELSE 0
  /\ alive' = (waited' <= Patience)
  /\ pc' = IF alive' THEN pc ELSE "exiting"
  /\ UNCHANGED toServer

\* handleTimeout: give up, or, as a coach that does not see, ask for the ball
\* once the usual time is over.
Timeout ==
  /\ QuietTick
  /\ waited' = waited + 1
  /\ IF waited' > Patience
     THEN pc' = "exiting" /\ alive' = FALSE /\ UNCHANGED toServer
     ELSE /\ toServer' = Sent(IF waited' > ServerWait THEN <<"check_ball">>
                                                      ELSE <<>>)
          /\ UNCHANGED <<pc, alive>>

\* select reports an error: the loop is left with the server alive.
SelectFails ==
  /\ pc = "select" /\ faults < MaxFaults
  /\ pc' = "exiting" /\ faults' = faults + 1
  /\ UNCHANGED <<config, server, netVars, alive, packed, joined, waited,
                 byes, exits, garbled, lost, noLog>>

\* run ends with handleExit.
Exit ==
  /\ pc = "exiting"
  /\ pc' = "exited" /\ exits' = exits + 1
  /\ Finalize
  /\ UNCHANGED <<config, server, toClient, packed, joined, waited, garbled,
                 faultVars>>

-----------------------------------------------------------------------------
(* The server and the network. *)

Reply(type) ==
  toClient' = Append(toClient, [type |-> type, packed |-> server.packed])

Ignore == UNCHANGED <<server, toClient>>

\* An init is accepted or refused; the match may already be over.
TakeInit ==
  \/ server' = [server EXCEPT !.known = TRUE] /\ Reply("init_ok")
  \/ Reply("error") /\ UNCHANGED server

TakeEye == server' = [server EXCEPT !.eye = TRUE] /\ Reply("eye_ok")

\* The answer still goes out in the old format; a server without zlib warns.
TakeCompression ==
  \/ server' = [server EXCEPT !.packed = TRUE] /\ Reply("comp_ok")
  \/ Reply("error") /\ UNCHANGED server

TakeBye == server' = [server EXCEPT !.known = FALSE] /\ UNCHANGED toClient

\* The server is silent to one it does not know.
ServerReceive ==
  /\ server.up /\ toServer # <<>>
  /\ LET type == Head(toServer)
     IN  CASE type = "init"                         -> TakeInit
           [] server.known /\ type = "eye"          -> TakeEye
           [] server.known /\ type = "compression"  -> TakeCompression
           [] server.known /\ type = "check_ball"   -> Reply("ball_ok")
                                                       /\ UNCHANGED server
           [] server.known /\ type = "bye"          -> TakeBye
           [] OTHER                                 -> Ignore
  /\ toServer' = Tail(toServer)
  /\ UNCHANGED <<config, clientVars, faultVars>>

\* The server's turn in a tick: what a player senses, or what a coach or a
\* trainer with its eye on sees.
ServerCycle ==
  /\ server.up /\ ~server.served
  /\ server' = [server EXCEPT !.served = TRUE]
  /\ IF server.known /\ (config.kind = "player" \/ server.eye)
     THEN Reply("cycle") ELSE UNCHANGED toClient
  /\ UNCHANGED <<config, toServer, clientVars, faultVars>>

\* The referee ends the match and says so to everyone the server knows.
End ==
  /\ server.up /\ ~server.over
  /\ server' = [server EXCEPT !.over = TRUE]
  /\ IF server.known THEN Reply("over") ELSE UNCHANGED toClient
  /\ UNCHANGED <<config, toServer, clientVars, faultVars>>

\* The server process ends, with what it has not read.
Down ==
  /\ server.up
  /\ server' = [server EXCEPT !.up = FALSE]
  /\ toServer' = <<>>
  /\ UNCHANGED <<config, toClient, clientVars, faultVars>>

LoseToServer ==
  /\ faults < MaxFaults /\ faults' = faults + 1
  /\ \E i \in DOMAIN toServer : /\ lost' = lost \union {toServer[i]}
                                /\ toServer' = RemoveAt(toServer, i)
  /\ UNCHANGED <<config, server, toClient, clientVars, noLog>>

LoseToClient ==
  /\ faults < MaxFaults /\ faults' = faults + 1
  /\ \E i \in DOMAIN toClient : /\ lost' = lost \union {toClient[i].type}
                                /\ toClient' = RemoveAt(toClient, i)
  /\ UNCHANGED <<config, server, toServer, clientVars, noLog>>

\* A datagram overtakes the one sent before it.
Overtake ==
  /\ faults < MaxFaults /\ faults' = faults + 1
  /\ \E i \in 2 .. Len(toClient) :
       toClient' = [toClient EXCEPT ![i - 1] = toClient[i],
                                    ![i] = toClient[i - 1]]
  /\ lost' = lost \union {"order"}
  /\ UNCHANGED <<config, server, toServer, clientVars, noLog>>

ClientNext == \/ Start \/ StartFails \/ LogFails \/ Wake \/ Read
              \/ EndOfDrain \/ Timeout \/ SelectFails \/ Exit

ServerNext == ServerReceive \/ ServerCycle \/ End \/ Down

NetNext == LoseToServer \/ LoseToClient \/ Overtake

Next == ClientNext \/ ServerNext \/ NetNext

\* The client's loop runs, its timer ticks, and a running server answers and
\* takes its turns.  Neither the end of the match nor a fault is promised.
Fairness ==
  /\ WF_vars(Start) /\ WF_vars(Wake) /\ WF_vars(Read) /\ WF_vars(EndOfDrain)
  /\ WF_vars(Timeout) /\ WF_vars(Exit)
  /\ WF_vars(ServerReceive) /\ WF_vars(ServerCycle)

Spec == Init /\ [][Next]_vars /\ Fairness
-----------------------------------------------------------------------------
(* Properties. *)

\* Client and server change the format at the same datagram: the client never
\* reads one in the wrong format, unless the answer that announces the change
\* was lost or overtaken, or the level was 9.
Understands ==
  garbled => \/ "comp_ok" \in lost \/ "order" \in lost
             \/ config.level = 9

\* What the protocol notes promise of levels 0 to 9: a client whose compression
\* command is answered reads what the server sends from then on.
UnderstandsEveryLevel ==
  garbled => "comp_ok" \in lost \/ "order" \in lost

\* A client the running server knows does not take it for dead, however few
\* datagrams arrive: what a fault may take away is less than the patience the
\* client has, for a coach that does not see because it asks.  Only a coach
\* or trainer whose eye was never switched on because the one request was
\* lost, and a trainer that does not see at all, may be wrong.  (A client
\* that could not open its logs stops in its drain, not by waiting.)
NoFalseAlarm ==
  [][pc = "select" /\ alive /\ ~alive' /\ server.up /\ server.known
       => /\ config.kind # "player"
          /\ \/ config.eye /\ {"init_ok", "eye"} \intersect lost # {}
             \/ config.kind = "trainer" /\ ~config.eye]_vars

\* A client that was started says bye once if it leaves a server it believes
\* in, and not at all if it took the server for dead.  One that could not
\* open its logs leaves a running match without a bye.  No client says it
\* twice, however the loop was left and whatever the last drain brought.
ByeOnce ==
  /\ byes <= 1
  /\ pc = "exited" /\ exits = 1 /\ config.kind # "trainer"
       => IF noLog THEN byes = 1 => server.over
                   ELSE byes = IF waited > Patience THEN 0 ELSE 1

\* When the server is gone every client stops, whatever it was waiting for.
GivesUp == (~server.up /\ pc # "start") ~> (pc = "exited")

\* A client that said init gets in or stops: only when the answer was lost can
\* a client stay that the server counts in and that knows nothing of itself.
JoinsOrStops == (pc = "select") ~> (joined \/ pc = "exited" \/ "init_ok" \in lost)
=============================================================================
