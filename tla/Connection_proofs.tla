-------------------------- MODULE Connection_proofs --------------------------
(***************************************************************************)
(* Theorems about Connection: types, the bye a client says once, the       *)
(* format of the datagrams, and that no client gives up a server that      *)
(* knows it, for every set of levels, patience and number of faults.       *)
(***************************************************************************)
EXTENDS Connection, TLAPS

\* What is left of a sequence without its i-th element.
LEMMA RemoveAtFacts ==
  ASSUME NEW S, NEW s \in Seq(S), NEW i \in 1 .. Len(s)
  PROVE  /\ RemoveAt(s, i) \in Seq(S)
         /\ Len(RemoveAt(s, i)) = Len(s) - 1
         /\ \A k \in 1 .. Len(s) - 1 :
              RemoveAt(s, i)[k] = IF k < i THEN s[k] ELSE s[k + 1]
<1> DEFINE head == SubSeq(s, 1, i - 1)
           tail == SubSeq(s, i + 1, Len(s))
<1>0. Len(s) \in Nat /\ i \in Nat /\ 1 <= i /\ i <= Len(s)
  OBVIOUS
<1>1. head \in Seq(S) /\ Len(head) = i - 1
  OBVIOUS
<1>2. tail \in Seq(S) /\ Len(tail) = Len(s) - i
  OBVIOUS
<1>3. \A k \in 1 .. i - 1 : head[k] = s[k]
  OBVIOUS
<1>4. \A k \in 1 .. Len(s) - i : tail[k] = s[k + i]
  OBVIOUS
<1>5. RemoveAt(s, i) = head \o tail
  BY DEF RemoveAt
<1> HIDE DEF head, tail
<1>6. head \o tail \in Seq(S) /\ Len(head \o tail) = Len(s) - 1
  BY <1>1, <1>2
<1>7. \A k \in 1 .. Len(s) - 1 :
         (head \o tail)[k] = IF k < i THEN head[k] ELSE tail[k - (i - 1)]
  BY <1>1, <1>2
<1>8. \A k \in 1 .. Len(s) - 1 :
         (head \o tail)[k] = IF k < i THEN s[k] ELSE s[k + 1]
  <2> SUFFICES ASSUME NEW k \in 1 .. Len(s) - 1
               PROVE  (head \o tail)[k] = IF k < i THEN s[k] ELSE s[k + 1]
    OBVIOUS
  <2>0. k \in Nat /\ 1 <= k /\ k <= Len(s) - 1
    BY <1>0
  <2>1. CASE k < i
    <3>1. k \in 1 .. i - 1
      BY <1>0, <2>0, <2>1
    <3> QED
      BY <1>3, <1>7, <2>1, <3>1
  <2>2. CASE ~(k < i)
    <3>1. k - (i - 1) \in 1 .. Len(s) - i
      BY <1>0, <2>0, <2>2
    <3>2. tail[k - (i - 1)] = s[k - (i - 1) + i] /\ k - (i - 1) + i = k + 1
      BY <1>0, <1>4, <2>0, <3>1
    <3> QED
      BY <1>7, <2>2, <3>2
  <2> QED
    BY <2>1, <2>2
<1> QED
  BY <1>5, <1>6, <1>8

Message == [type : ServerTypes, packed : BOOLEAN]

\* What a client has said when it leaves with its flag cleared.
Parted ==
  IF noLog THEN byes = 0 \/ (byes = Len(ByeTypes) /\ server.over)
           ELSE byes = IF waited > Patience THEN 0 ELSE Len(ByeTypes)

\* What each place of BasicClient::run implies: the flag, the waiting, the
\* byes and the calls of handleExit.  Without its logs a client is on its way
\* out, with a bye only if the match was over.
Place ==
  /\ pc = "start"  => ~alive /\ byes = 0 /\ exits = 0 /\ waited = 0
  /\ pc = "select" => alive /\ byes = 0 /\ exits = 0 /\ waited <= Patience
  /\ pc = "drain" =>
       /\ exits = 0 /\ waited = 0
       /\ alive => byes = 0
       /\ ~alive => \/ byes = Len(ByeTypes) /\ server.over
                    \/ byes = 0 /\ noLog
  /\ pc = "exiting" /\ exits = 0 =>
       IF alive THEN byes = 0 /\ waited <= Patience ELSE Parted
  /\ pc = "exiting" /\ exits # 0 =>
       exits = 1 /\ ~alive /\ byes <= 1 /\ ~noLog
  /\ pc = "exited" =>
       /\ byes <= 1
       /\ exits = 1 => Parted
  /\ noLog => ~alive /\ pc \notin {"start", "select"}

\* The end of the match is announced once, and a client that has said bye in
\* a drain does not read it again.
OneOver ==
  /\ \A i \in 1 .. Len(toClient) : toClient[i].type = "over" =>
       /\ server.over
       /\ pc = "drain" => byes = 0
       /\ \A j \in 1 .. Len(toClient) : toClient[j].type = "over" => i = j

Inv == TypeOK /\ Place /\ OneOver

\* A client that has not started fulfils it.
THEOREM InitInv == Init => Inv
<1> SUFFICES ASSUME Init PROVE Inv
  OBVIOUS
<1> USE ConnectionAssumption
<1>1. TypeOK
  <2>1. toServer \in Seq(ClientTypes)
    BY DEF Init
  <2>2. toClient \in Seq(Message)
    BY DEF Init
  <2>3. waited \in 0 .. 2 * ServerWait + 1 /\ faults \in 0 .. MaxFaults
    BY DEF Init
  <2>4. config \in [kind : Kinds, eye : BOOLEAN, level : Levels]
    BY DEF Init
  <2>5. server \in [up : BOOLEAN, over : BOOLEAN, known : BOOLEAN,
                    eye : BOOLEAN, packed : BOOLEAN, served : BOOLEAN]
    BY DEF Init
  <2>6. /\ pc \in {"start", "select", "drain", "exiting", "exited"}
        /\ byes \in Nat /\ exits \in 0 .. 2
        /\ lost \subseteq ClientTypes \union ServerTypes \union {"order"}
    BY DEF Init
  <2>7. alive \in BOOLEAN /\ packed \in BOOLEAN /\ joined \in BOOLEAN
        /\ garbled \in BOOLEAN /\ noLog \in BOOLEAN
    BY DEF Init
  <2> QED
    BY <2>1, <2>2, <2>3, <2>4, <2>5, <2>6, <2>7 DEF TypeOK, Message
<1>2. Place
  BY DEF Init, Place, Parted
<1>3. OneOver
  BY DEF Init, OneOver
<1> QED
  BY <1>1, <1>2, <1>3 DEF Inv

\* Sent commands keep the type of the queue, whether the server is up or not.
LEMMA SentFacts ==
  ASSUME TypeOK, NEW types \in Seq(ClientTypes)
  PROVE  Sent(types) \in Seq(ClientTypes)
  BY DEF TypeOK, Sent

\* A bye is one command, or none for the trainer.
LEMMA ByeFacts ==
  /\ ByeTypes \in Seq(ClientTypes)
  /\ Len(ByeTypes) \in {0, 1}
  /\ config.kind # "trainer" => Len(ByeTypes) = 1
  BY DEF ByeTypes, ClientTypes

\* What analyzeInit sends are commands.
LEMMA SettingsFacts == Settings \in Seq(ClientTypes)
  BY DEF Settings, ClientTypes

\* No client waits longer than twice the usual time.
LEMMA PatienceFacts == Patience \in Nat /\ Patience <= 2 * ServerWait
  BY ConnectionAssumption DEF Patience

\* The client is configured once.
LEMMA ConfigKept ==
  ASSUME config' = config
  PROVE  ByeTypes' = ByeTypes /\ Patience' = Patience
  BY DEF ByeTypes, Patience

\* A client that has left stays so, whatever the server does.
LEMMA PartedKept ==
  ASSUME Parted, UNCHANGED <<config, noLog, byes, waited>>,
         server.over => server'.over
  PROVE  Parted'
  BY ConfigKept DEF Parted

\* A step that neither adds to what the client will read nor ends the match
\* keeps OneOver, unless a client says bye in its drain.
LEMMA OneOverKept ==
  ASSUME OneOver, toClient' = toClient, server'.over = server.over,
         pc' = "drain" => byes' = 0 \/ (pc = "drain" /\ byes' = byes)
  PROVE  OneOver'
  BY DEF OneOver

\* What sendByeCommand leaves.
LEMMA ByeSaid ==
  ASSUME TypeOK, SayBye
  PROVE  /\ alive' = FALSE /\ alive' \in BOOLEAN
         /\ byes' \in Nat /\ byes' = byes + Len(ByeTypes)
         /\ toServer' \in Seq(ClientTypes)
<1>1. Sent(ByeTypes) \in Seq(ClientTypes) /\ Len(ByeTypes) \in {0, 1}
  BY SentFacts, ByeFacts
<1>2. alive' = FALSE /\ alive' \in BOOLEAN
  BY DEF SayBye
<1>3. byes' \in Nat /\ byes' = byes + Len(ByeTypes)
  BY <1>1 DEF SayBye, TypeOK
<1>4. toServer' \in Seq(ClientTypes)
  BY <1>1 DEF SayBye
<1> QED
  BY <1>2, <1>3, <1>4

\* The start keeps the invariant, and so do its failures.
LEMMA StartInv == Inv /\ (Start \/ StartFails \/ LogFails) => Inv'
<1> SUFFICES ASSUME Inv, Start \/ StartFails \/ LogFails PROVE Inv'
  OBVIOUS
<1> USE ConnectionAssumption DEF Inv
<1>0. config' = config /\ server' = server /\ toClient' = toClient
  BY DEF Start, StartFails, LogFails, netVars
<1>a. ByeTypes' = ByeTypes /\ Patience' = Patience
  BY <1>0, ConfigKept
<1>1. CASE Start
  <2>1. Sent(<<"init">>) \in Seq(ClientTypes)
    BY SentFacts, <<"init">> \in Seq(ClientTypes) DEF ClientTypes
  <2>2. TypeOK'
    BY <1>1, <2>1 DEF Start, TypeOK, faultVars
  <2>3. Place'
    BY <1>1, <1>a, PatienceFacts DEF Start, Place, faultVars
  <2>4. OneOver'
    BY <1>0, <1>1, OneOverKept DEF Start
  <2> QED
    BY <2>2, <2>3, <2>4
<1>2. CASE StartFails
  <2>1. TypeOK'
    BY <1>2 DEF StartFails, TypeOK, faultVars, netVars
  <2>2. Place'
    <3>1. /\ pc = "start" /\ pc' = "exiting" /\ exits' = 1
          /\ UNCHANGED <<alive, byes, noLog>>
      BY <1>2 DEF StartFails, faultVars
    <3>2. ~alive /\ byes = 0 /\ ~noLog
      BY <3>1 DEF Place
    <3>3. byes' <= 1
      BY <3>1, <3>2
    <3> QED
      BY <3>1, <3>2, <3>3 DEF Place
  <2>3. OneOver'
    BY <1>0, <1>2, OneOverKept DEF StartFails
  <2> QED
    BY <2>1, <2>2, <2>3
<1>3. CASE LogFails
  <2>1. SayBye
    BY <1>3 DEF LogFails
  <2>b. /\ ~alive' /\ alive' \in BOOLEAN
        /\ byes' \in Nat /\ byes' = byes + Len(ByeTypes)
        /\ toServer' \in Seq(ClientTypes)
    BY <2>1, ByeSaid
  <2>2. TypeOK'
    BY <1>3, <2>b DEF LogFails, TypeOK, faultVars
  <2>3. Place'
    <3>1. /\ pc = "start" /\ pc' = "exiting" /\ exits' = 1
          /\ noLog' = noLog
      BY <1>3 DEF LogFails, faultVars
    <3>2. byes = 0 /\ ~noLog
      BY <3>1 DEF Place
    <3>3. byes' <= 1
      BY <2>b, <3>2, ByeFacts
    <3> QED
      BY <2>b, <3>1, <3>2, <3>3 DEF Place
  <2>4. OneOver'
    BY <1>0, <1>3, OneOverKept DEF LogFails
  <2> QED
    BY <2>2, <2>3, <2>4
<1> QED
  BY <1>1, <1>2, <1>3

\* Waiting in select keeps the invariant: its three ways out.
LEMMA SelectInv == Inv /\ (Wake \/ Timeout \/ SelectFails) => Inv'
<1> SUFFICES ASSUME Inv, Wake \/ Timeout \/ SelectFails PROVE Inv'
  OBVIOUS
<1> USE ConnectionAssumption DEF Inv
<1>1. CASE Wake
  <2>1. config' = config /\ server' = server /\ toClient' = toClient
    BY <1>1 DEF Wake, netVars
  <2>2. ByeTypes' = ByeTypes /\ Patience' = Patience
    BY <2>1, ConfigKept
  <2>3. TypeOK'
    BY <1>1 DEF Wake, TypeOK, netVars, faultVars
  <2>4. Place'
    BY <1>1, <2>2, PatienceFacts DEF Wake, Place, faultVars
  <2>5. OneOver'
    BY <1>1, <2>1, OneOverKept DEF Wake, Place
  <2> QED
    BY <2>3, <2>4, <2>5
<1>2. CASE Timeout
  <2>1. /\ config' = config /\ toClient' = toClient /\ pc = "select"
        /\ server' = [server EXCEPT !.served = FALSE]
    BY <1>2 DEF Timeout, QuietTick
  <2>2. ByeTypes' = ByeTypes /\ Patience' = Patience
    BY <2>1, ConfigKept
  <2>3. server'.over = server.over
    BY <2>1 DEF TypeOK
  <2>4. waited' = waited + 1 /\ waited' \in 0 .. 2 * ServerWait + 1
    BY <1>2, <2>1, PatienceFacts DEF Timeout, TypeOK, Place
  <2>5. /\ toServer' \in Seq(ClientTypes) /\ alive' \in BOOLEAN
        /\ pc' \in {"select", "exiting"}
    <3>1. CASE waited' > Patience
      <4>1. toServer' = toServer /\ alive' = FALSE /\ pc' = "exiting"
        BY <1>2, <3>1 DEF Timeout
      <4> QED
        BY <4>1 DEF TypeOK
    <3>2. CASE ~(waited' > Patience)
      <4>1. /\ pc' = "select" /\ alive' = alive
            /\ \/ toServer' = Sent(<<"check_ball">>)
               \/ toServer' = Sent(<<>>)
        BY <1>2, <2>1, <3>2 DEF Timeout
      <4>2. /\ <<"check_ball">> \in Seq(ClientTypes)
            /\ <<>> \in Seq(ClientTypes)
        BY DEF ClientTypes
      <4> QED
        BY <4>1, <4>2, SentFacts DEF TypeOK
    <3> QED
      BY <3>1, <3>2
  <2>6. TypeOK'
    <3>1. server' \in [up : BOOLEAN, over : BOOLEAN, known : BOOLEAN,
                       eye : BOOLEAN, packed : BOOLEAN, served : BOOLEAN]
      BY <2>1 DEF TypeOK
    <3> QED
      BY <1>2, <2>4, <2>5, <3>1 DEF Timeout, QuietTick, TypeOK, faultVars
  <2>7. Place'
    <3>1. byes' = byes /\ exits' = exits /\ noLog' = noLog
      BY <1>2 DEF Timeout, QuietTick, faultVars
    <3>2. alive /\ byes = 0 /\ exits = 0 /\ ~noLog
      BY <2>1 DEF Place
    <3>3. CASE waited' > Patience
      <4>1. pc' = "exiting" /\ ~alive'
        BY <1>2, <3>3 DEF Timeout
      <4> QED
        BY <2>2, <3>1, <3>2, <3>3, <4>1 DEF Place, Parted
    <3>4. CASE ~(waited' > Patience)
      <4>1. pc' = "select" /\ alive'
        BY <1>2, <2>1, <3>2, <3>4 DEF Timeout
      <4>2. waited' <= Patience
        BY <2>4, <3>4, PatienceFacts
      <4> QED
        BY <2>2, <3>1, <3>2, <4>1, <4>2 DEF Place
    <3> QED
      BY <3>3, <3>4
  <2>8. OneOver'
    BY <2>1, <2>3, <2>5, OneOverKept
  <2> QED
    BY <2>6, <2>7, <2>8
<1>3. CASE SelectFails
  <2>1. config' = config /\ server' = server /\ toClient' = toClient
    BY <1>3 DEF SelectFails, netVars
  <2>2. ByeTypes' = ByeTypes /\ Patience' = Patience
    BY <2>1, ConfigKept
  <2>3. TypeOK'
    BY <1>3 DEF SelectFails, TypeOK, netVars
  <2>4. Place'
    BY <1>3, <2>2 DEF SelectFails, Place
  <2>5. OneOver'
    BY <1>3, <2>1, OneOverKept DEF SelectFails
  <2> QED
    BY <2>3, <2>4, <2>5
<1> QED
  BY <1>1, <1>2, <1>3

\* The end of a drain and the end of the program keep the invariant.
LEMMA ExitInv == Inv /\ (EndOfDrain \/ Exit) => Inv'
<1> SUFFICES ASSUME Inv, EndOfDrain \/ Exit PROVE Inv'
  OBVIOUS
<1> USE ConnectionAssumption DEF Inv
<1>0. config' = config /\ server' = server /\ toClient' = toClient
  BY DEF EndOfDrain, Exit, netVars
<1>a. ByeTypes' = ByeTypes /\ Patience' = Patience
  BY <1>0, ConfigKept
<1>1. CASE EndOfDrain
  <2>1. TypeOK'
    BY <1>1 DEF EndOfDrain, TypeOK, netVars, faultVars
  <2>2. Place'
    <3>1. /\ pc' = IF alive THEN "select" ELSE "exiting"
          /\ UNCHANGED <<alive, byes, exits, waited, noLog>>
      BY <1>1 DEF EndOfDrain, faultVars
    <3>2. /\ exits = 0 /\ waited = 0
          /\ alive => byes = 0 /\ ~noLog
          /\ ~alive => \/ byes = Len(ByeTypes) /\ server.over
                       \/ byes = 0 /\ noLog
      BY <1>1 DEF EndOfDrain, Place
    <3>3. ~(0 > Patience) /\ 0 <= Patience
      BY PatienceFacts
    <3>4. CASE alive
      BY <1>a, <3>1, <3>2, <3>3, <3>4 DEF Place
    <3>5. CASE ~alive
      <4>1. Parted
        BY <3>2, <3>3, <3>5 DEF Parted
      <4>2. Parted'
        BY <1>0, <3>1, <4>1, PartedKept
      <4> QED
        BY <3>1, <3>2, <3>5, <4>2 DEF Place
    <3> QED
      BY <3>4, <3>5
  <2>3. OneOver'
    BY <1>0, <1>1, OneOverKept DEF EndOfDrain
  <2> QED
    BY <2>1, <2>2, <2>3
<1>2. CASE Exit
  <2>1. /\ toServer' \in Seq(ClientTypes) /\ alive' \in BOOLEAN /\ ~alive'
        /\ byes' \in Nat
        /\ byes' = IF alive THEN byes + Len(ByeTypes) ELSE byes
    <3>1. CASE alive
      BY <1>2, <3>1, ByeSaid DEF Exit, Finalize
    <3>2. CASE ~alive
      <4>1. UNCHANGED <<toServer, byes, alive>>
        BY <1>2, <3>2 DEF Exit, Finalize
      <4> QED
        BY <3>2, <4>1 DEF TypeOK
    <3> QED
      BY <3>1, <3>2
  <2>2. exits' = exits + 1 /\ exits \in {0, 1} /\ pc' = "exited"
    BY <1>2 DEF Exit, Place, TypeOK
  <2>3. TypeOK'
    BY <1>2, <2>1, <2>2 DEF Exit, TypeOK, faultVars
  <2>4. Place'
    <3>1. waited' = waited /\ pc = "exiting" /\ noLog' = noLog
      BY <1>2 DEF Exit, faultVars
    <3>2. waited \in Int /\ Patience \in Int
      BY PatienceFacts DEF TypeOK
    <3>3. CASE exits = 0 /\ alive
      <4>1. byes = 0 /\ ~(waited > Patience) /\ ~noLog
        BY <3>1, <3>2, <3>3 DEF Place
      <4>2. byes' = Len(ByeTypes) /\ byes' <= 1
        BY <2>1, <3>3, <4>1, ByeFacts
      <4>3. Parted'
        BY <1>a, <3>1, <4>1, <4>2 DEF Parted
      <4> QED
        BY <2>1, <2>2, <4>2, <4>3 DEF Place
    <3>4. CASE exits = 0 /\ ~alive
      <4>1. Parted /\ byes' = byes
        BY <2>1, <3>1, <3>4 DEF Place
      <4>2. Parted'
        BY <1>0, <3>1, <4>1, PartedKept
      <4>3. byes' <= 1
        <5>1. byes' = 0 \/ byes' = Len(ByeTypes)
          BY <4>1 DEF Parted
        <5>2. byes' = 0 \/ byes' = 1
          BY <5>1, ByeFacts
        <5> QED
          BY <5>2
      <4> QED
        BY <2>1, <2>2, <4>2, <4>3 DEF Place
    <3>5. CASE exits # 0
      <4>a. ~alive /\ byes <= 1 /\ exits = 1
        BY <3>1, <3>5 DEF Place
      <4>1. exits' = 2 /\ byes' <= 1
        BY <2>1, <2>2, <4>a
      <4> QED
        BY <2>1, <2>2, <4>1 DEF Place
    <3> QED
      BY <3>3, <3>4, <3>5
  <2>5. OneOver'
    BY <1>0, <1>2, OneOverKept DEF Exit
  <2> QED
    BY <2>3, <2>4, <2>5
<1> QED
  BY <1>1, <1>2

\* What reading one datagram does: nothing to the flag and the byes, or a bye
\* for the end of the match.
LEMMA ReadFacts ==
  ASSUME TypeOK, Read
  PROVE  /\ toClient # <<>> /\ Head(toClient) \in Message
         /\ toServer' \in Seq(ClientTypes) /\ alive' \in BOOLEAN
         /\ packed' \in BOOLEAN /\ joined' \in BOOLEAN /\ garbled' \in BOOLEAN
         /\ byes' \in Nat /\ noLog' \in BOOLEAN
         /\ \/ alive' = alive /\ byes' = byes /\ noLog' = noLog
            \/ ~alive' /\ byes' = byes /\ noLog'
            \/ /\ Head(toClient).type = "over"
               /\ ~alive' /\ byes' = byes + Len(ByeTypes) /\ noLog' = noLog
<1> DEFINE m == Head(toClient)
<1>1. toClient # <<>> /\ m \in Message
  <2>1. toClient \in Seq(Message) /\ toClient # <<>>
    BY DEF Read, TypeOK, Message
  <2> QED
    BY <2>1
<1>2. garbled' \in BOOLEAN
  BY DEF Read, TypeOK
<1>3. CASE Unread
  <2>1. UNCHANGED <<toServer, alive, packed, joined, byes, noLog>>
    BY <1>3 DEF Unread
  <2> QED
    BY <1>1, <1>2, <2>1 DEF TypeOK
<1>4. CASE ReadInit
  <2>1. toServer' \in Seq(ClientTypes)
    BY <1>4, SettingsFacts, SentFacts DEF ReadInit
  <2>2. joined' \in BOOLEAN /\ UNCHANGED <<packed, byes>>
    BY <1>4 DEF ReadInit
  <2>3. UNCHANGED <<alive, noLog>> \/ (alive' = FALSE /\ noLog' = TRUE)
    BY <1>4 DEF ReadInit, InitDebug
  <2> QED
    BY <1>1, <1>2, <2>1, <2>2, <2>3 DEF TypeOK
<1>5. CASE ReadCompression
  <2>1. packed' = packed \/ packed' = (config.level > 0)
    BY <1>5 DEF ReadCompression, Packing
  <2>a. packed' \in BOOLEAN
    <3>1. packed \in BOOLEAN /\ (config.level > 0) \in BOOLEAN
      BY DEF TypeOK
    <3> QED
      BY <2>1, <3>1, Zenon
  <2>2. UNCHANGED <<toServer, alive, joined, byes, noLog>>
    BY <1>5 DEF ReadCompression
  <2> QED
    BY <1>1, <1>2, <2>a, <2>2 DEF TypeOK
<1>6. CASE m.type = "over" /\ ReadOver
  <2>1. /\ ~alive' /\ alive' \in BOOLEAN
        /\ byes' \in Nat /\ byes' = byes + Len(ByeTypes)
        /\ toServer' \in Seq(ClientTypes)
    BY <1>6, ByeSaid DEF ReadOver
  <2>2. UNCHANGED <<packed, joined, noLog>>
    BY <1>6 DEF ReadOver
  <2> QED
    BY <1>1, <1>2, <1>6, <2>1, <2>2 DEF TypeOK
<1>7. Unread \/ ReadInit \/ ReadCompression \/ (m.type = "over" /\ ReadOver)
  <2> HIDE DEF m
  <2>1. CASE m.packed # packed    \/ m.type \notin {"init_ok", "comp_ok", "over"}
    BY <2>1 DEF Read, m
  <2>2. CASE m.packed = packed /\ m.type = "init_ok"
    BY <2>2 DEF Read, m
  <2>3. CASE m.packed = packed /\ m.type = "comp_ok"
    BY <2>3 DEF Read, m
  <2>4. CASE m.packed = packed /\ m.type = "over"
    BY <2>4 DEF Read, m
  <2> QED
    BY <2>1, <2>2, <2>3, <2>4
<1> QED
  BY <1>3, <1>4, <1>5, <1>6, <1>7

\* Reading a datagram keeps the invariant.
LEMMA ReadInv == Inv /\ Read => Inv'
<1> SUFFICES ASSUME Inv, Read PROVE Inv'
  OBVIOUS
<1> USE ConnectionAssumption DEF Inv
<1>1. /\ config' = config /\ server' = server /\ pc = "drain" /\ pc' = "drain"
      /\ waited' = waited /\ exits' = exits /\ toClient' = Tail(toClient)
      /\ UNCHANGED <<lost, faults>>
  BY DEF Read
<1>2. toClient \in Seq(Message) /\ toClient # <<>>
  BY ReadFacts DEF TypeOK, Message
<1>3. /\ toClient' \in Seq(Message) /\ Len(toClient') = Len(toClient) - 1
      /\ \A k \in 1 .. Len(toClient') : toClient'[k] = toClient[k + 1]
  BY <1>1, <1>2
<1>4. Head(toClient) = toClient[1] /\ 1 \in 1 .. Len(toClient)
  BY <1>2
<1>5. TypeOK'
  BY <1>1, <1>3, ReadFacts DEF TypeOK, Message, faultVars
<1>6. ByeTypes' = ByeTypes /\ Patience' = Patience
  BY <1>1, ConfigKept
<1>7. CASE /\ byes' = byes
           /\ \/ alive' = alive /\ noLog' = noLog
              \/ ~alive' /\ noLog'
  <2>1. Place'
    <3>1. CASE alive' = alive /\ noLog' = noLog
      BY <1>1, <1>6, <1>7, <3>1 DEF Place
    <3>2. CASE ~alive' /\ noLog'
      <4>1. \/ byes = 0
            \/ byes = Len(ByeTypes) /\ server.over
        BY <1>1 DEF Place
      <4>2. exits = 0 /\ waited = 0
        BY <1>1 DEF Place
      <4> QED
        BY <1>1, <1>6, <1>7, <3>2, <4>1, <4>2 DEF Place
    <3> QED
      BY <1>7, <3>1, <3>2
  <2>2. OneOver'
    <3>1. \A k \in 1 .. Len(toClient') : k + 1 \in 1 .. Len(toClient)
      BY <1>2, <1>3
    <3> SUFFICES ASSUME NEW i \in 1 .. Len(toClient'),
                        toClient'[i].type = "over"
                 PROVE  /\ server'.over
                        /\ byes' = 0
                        /\ \A j \in 1 .. Len(toClient') :
                             toClient'[j].type = "over" => i = j
      BY <1>1 DEF OneOver
    <3>2. toClient[i + 1].type = "over" /\ i + 1 \in 1 .. Len(toClient)
      BY <1>3, <3>1
    <3>3. \A j \in 1 .. Len(toClient') :
             toClient'[j].type = "over" => i + 1 = j + 1
      BY <1>3, <3>1, <3>2 DEF OneOver
    <3> QED
      BY <1>1, <1>3, <1>7, <3>2, <3>3 DEF OneOver
  <2> QED
    BY <1>5, <2>1, <2>2
<1>8. CASE /\ Head(toClient).type = "over" /\ noLog' = noLog
           /\ ~alive' /\ byes' = byes + Len(ByeTypes)
  <2>1. server.over /\ byes = 0
    BY <1>1, <1>4, <1>8 DEF OneOver
  <2>2. Place'
    <3>1. exits = 0 /\ waited = 0
      BY <1>1 DEF Place
    <3>2. byes' = Len(ByeTypes)
      BY <1>8, <2>1, ByeFacts
    <3> QED
      BY <1>1, <1>6, <1>8, <2>1, <3>1, <3>2 DEF Place
  <2>3. OneOver'
    <3>1. ASSUME NEW k \in 1 .. Len(toClient'), toClient'[k].type = "over"
          PROVE  FALSE
      <4>1. k + 1 \in 1 .. Len(toClient) /\ toClient[k + 1].type = "over"
        BY <1>2, <1>3, <3>1
      <4>2. 1 = k + 1
        BY <1>4, <1>8, <4>1 DEF OneOver
      <4> QED
        BY <4>2
    <3> QED
      BY <3>1 DEF OneOver
  <2> QED
    BY <1>5, <2>2, <2>3
<1> QED
  BY <1>7, <1>8, ReadFacts

\* A reply that does not end the match keeps OneOver.
LEMMA OneOverAppend ==
  ASSUME OneOver, toClient \in Seq(Message), NEW m, m.type # "over",
         toClient' = Append(toClient, m), server'.over = server.over,
         pc' = pc, byes' = byes
  PROVE  OneOver'
<1>1. /\ Len(toClient') = Len(toClient) + 1
      /\ \A k \in 1 .. Len(toClient) : toClient'[k] = toClient[k]
      /\ toClient'[Len(toClient) + 1] = m
  OBVIOUS
<1>2. ASSUME NEW k \in 1 .. Len(toClient'), toClient'[k].type = "over"
      PROVE  k \in 1 .. Len(toClient) /\ toClient[k].type = "over"
  <2>1. Len(toClient) \in Nat /\ k # Len(toClient) + 1
    BY <1>1, <1>2
  <2>2. k \in 1 .. Len(toClient)
    BY <1>1, <2>1
  <2> QED
    BY <1>1, <1>2, <2>2
<1> QED
  BY <1>2 DEF OneOver

\* Losing or exchanging datagrams keeps OneOver: each that is left has a
\* place of its own in the old queue.
LEMMA OneOverMoved ==
  ASSUME OneOver, server' = server, pc' = pc, byes' = byes,
         NEW old \in [1 .. Len(toClient') -> 1 .. Len(toClient)],
         \A k \in 1 .. Len(toClient') : toClient'[k] = toClient[old[k]],
         \A k, l \in 1 .. Len(toClient') : old[k] = old[l] => k = l
  PROVE  OneOver'
<1>1. ASSUME NEW i \in 1 .. Len(toClient'), toClient'[i].type = "over"
      PROVE  /\ server'.over
             /\ pc' = "drain" => byes' = 0
             /\ \A j \in 1 .. Len(toClient') :
                  toClient'[j].type = "over" => i = j
  <2>1. old[i] \in 1 .. Len(toClient) /\ toClient[old[i]].type = "over"
    BY <1>1
  <2>2. server.over /\ (pc = "drain" => byes = 0)
    BY <2>1 DEF OneOver
  <2>3. ASSUME NEW j \in 1 .. Len(toClient'), toClient'[j].type = "over"
        PROVE  i = j
    <3>1. old[j] \in 1 .. Len(toClient) /\ toClient[old[j]].type = "over"
      BY <2>3
    <3>2. old[i] = old[j]
      BY <2>1, <3>1 DEF OneOver
    <3> QED
      BY <3>2
  <2> QED
    BY <2>2, <2>3
<1> QED
  BY <1>1 DEF OneOver

\* What a server's step may leave: a reply in its format, or none.
LEMMA ServerReceiveFacts ==
  ASSUME TypeOK, ServerReceive
  PROVE  /\ toServer' \in Seq(ClientTypes)
         /\ server' \in [up : BOOLEAN, over : BOOLEAN, known : BOOLEAN,
                        eye : BOOLEAN, packed : BOOLEAN, served : BOOLEAN]
         /\ server'.over = server.over
         /\ \/ toClient' = toClient
            \/ \E t \in ServerTypes \ {"over"} :
                 toClient' = Append(toClient,
                                    [type |-> t, packed |-> server.packed])
<1> DEFINE type == Head(toServer)
<1>1. toServer' \in Seq(ClientTypes)
  <2>1. toServer \in Seq(ClientTypes) /\ toServer # <<>>
    BY DEF TypeOK, ServerReceive
  <2>2. toServer' = Tail(toServer)
    BY DEF ServerReceive
  <2> QED
    BY <2>1, <2>2
<1>2. TakeInit \/ TakeEye \/ TakeCompression \/ TakeBye \/ Ignore
      \/ (Reply("ball_ok") /\ UNCHANGED server)
  <2>1. CASE type = "init"
    BY <2>1 DEF ServerReceive
  <2>2. CASE server.known /\ type = "eye"
    BY <2>2 DEF ServerReceive
  <2>3. CASE server.known /\ type = "compression"
    BY <2>3 DEF ServerReceive
  <2>4. CASE server.known /\ type = "check_ball"
    BY <2>4 DEF ServerReceive
  <2>5. CASE server.known /\ type = "bye"
    BY <2>5 DEF ServerReceive
  <2>6. CASE /\ type # "init"
             /\ server.known =>
                  type \notin {"eye", "compression", "check_ball", "bye"}
    BY <2>6 DEF ServerReceive
  <2> QED
    BY <2>1, <2>2, <2>3, <2>4, <2>5, <2>6
<1>3. /\ server' \in [up : BOOLEAN, over : BOOLEAN, known : BOOLEAN,
                     eye : BOOLEAN, packed : BOOLEAN, served : BOOLEAN]
      /\ server'.over = server.over
  BY <1>2 DEF TakeInit, TakeEye, TakeCompression, TakeBye, Ignore, TypeOK
<1>4. \/ toClient' = toClient
      \/ \E t \in {"init_ok", "error", "eye_ok", "comp_ok", "ball_ok"} :
           Reply(t)
  BY <1>2 DEF TakeInit, TakeEye, TakeCompression, TakeBye, Ignore
<1> QED
  BY <1>1, <1>3, <1>4 DEF Reply, ServerTypes

\* The server's steps keep the invariant.
LEMMA ServerInv == Inv /\ ServerNext => Inv'
<1> SUFFICES ASSUME Inv, ServerNext PROVE Inv'
  OBVIOUS
<1> USE ConnectionAssumption DEF Inv
<1>0. UNCHANGED <<config, pc, alive, packed, joined, waited, byes, exits,
                  garbled, lost, faults, noLog>>
  BY DEF ServerNext, ServerReceive, ServerCycle, End, Down, clientVars,
         faultVars
<1>1. ByeTypes' = ByeTypes /\ Patience' = Patience
  BY <1>0, ConfigKept
<1>2. toClient \in Seq(Message)
  BY DEF TypeOK, Message
<1>3. ASSUME toServer' \in Seq(ClientTypes), toClient' \in Seq(Message),
             server' \in [up : BOOLEAN, over : BOOLEAN, known : BOOLEAN,
                         eye : BOOLEAN, packed : BOOLEAN, served : BOOLEAN]
      PROVE  TypeOK'
  BY <1>0, <1>3 DEF TypeOK, Message
<1>4. ASSUME server.over => server'.over PROVE Place'
  <2>1. Parted => Parted'
    BY <1>0, <1>4, PartedKept
  <2> QED
    BY <1>0, <1>1, <1>4, <2>1 DEF Place
<1>5. CASE ServerReceive
  <2>1. CASE toClient' = toClient
    BY <1>0, <1>2, <1>3, <1>4, <1>5, <2>1, ServerReceiveFacts, OneOverKept
  <2>2. CASE \E t \in ServerTypes \ {"over"} :
               toClient' = Append(toClient,
                                  [type |-> t, packed |-> server.packed])
    <3>1. PICK t \in ServerTypes \ {"over"} :
            toClient' = Append(toClient,
                               [type |-> t, packed |-> server.packed])
      BY <2>2
    <3> DEFINE m == [type |-> t, packed |-> server.packed]
    <3>2. m \in Message /\ m.type # "over" /\ toClient' = Append(toClient, m)
      BY <3>1 DEF Message, TypeOK
    <3> HIDE DEF m
    <3>3. toClient' \in Seq(Message)
      BY <1>2, <3>2
    <3>4. OneOver'
      BY <1>0, <1>2, <1>5, <3>2, OneOverAppend, ServerReceiveFacts
    <3> QED
      BY <1>3, <1>4, <1>5, <3>3, <3>4, ServerReceiveFacts
  <2> QED
    BY <1>5, <2>1, <2>2, ServerReceiveFacts
<1>6. CASE ServerCycle
  <2>1. /\ toServer' = toServer
        /\ server' = [server EXCEPT !.served = TRUE]
    BY <1>6 DEF ServerCycle
  <2>2. /\ toServer' \in Seq(ClientTypes) /\ server'.over = server.over
        /\ server' \in [up : BOOLEAN, over : BOOLEAN, known : BOOLEAN,
                       eye : BOOLEAN, packed : BOOLEAN, served : BOOLEAN]
    BY <2>1 DEF TypeOK
  <2>3. CASE toClient' = toClient
    BY <1>0, <1>2, <1>3, <1>4, <2>2, <2>3, OneOverKept
  <2>4. CASE Reply("cycle")
    <3> DEFINE m == [type |-> "cycle", packed |-> server.packed]
    <3>1. m \in Message /\ m.type # "over" /\ toClient' = Append(toClient, m)
      BY <2>4 DEF Message, TypeOK, Reply, ServerTypes
    <3> HIDE DEF m
    <3>2. toClient' \in Seq(Message)
      BY <1>2, <3>1
    <3>3. OneOver'
      BY <1>0, <1>2, <2>2, <3>1, OneOverAppend
    <3> QED
      BY <1>3, <1>4, <2>2, <3>2, <3>3
  <2> QED
    BY <1>6, <2>3, <2>4 DEF ServerCycle
<1>7. CASE End
  <2>1. /\ toServer' = toServer /\ ~server.over
        /\ server' = [server EXCEPT !.over = TRUE]
    BY <1>7 DEF End
  <2>2. /\ toServer' \in Seq(ClientTypes) /\ server'.over
        /\ server' \in [up : BOOLEAN, over : BOOLEAN, known : BOOLEAN,
                       eye : BOOLEAN, packed : BOOLEAN, served : BOOLEAN]
    BY <2>1 DEF TypeOK
  <2>3. /\ \A k \in 1 .. Len(toClient) : toClient[k].type # "over"
        /\ pc = "drain" => byes = 0
    BY <2>1 DEF OneOver, Place
  <2>4. CASE toClient' = toClient
    <3>1. OneOver'
      BY <2>3, <2>4 DEF OneOver
    <3> QED
      BY <1>2, <1>3, <1>4, <2>2, <2>4, <3>1
  <2>5. CASE Reply("over")
    <3> DEFINE m == [type |-> "over", packed |-> server.packed]
    <3>1. m \in Message /\ toClient' = Append(toClient, m)
      BY <2>5 DEF Message, TypeOK, Reply, ServerTypes
    <3> HIDE DEF m
    <3>2. toClient' \in Seq(Message)
      BY <1>2, <3>1
    <3>3. /\ Len(toClient') = Len(toClient) + 1 /\ Len(toClient) \in Nat
          /\ \A k \in 1 .. Len(toClient) : toClient'[k] = toClient[k]
      BY <1>2, <3>1
    <3>4. \A k \in 1 .. Len(toClient') :
             toClient'[k].type = "over" => k = Len(toClient) + 1
      BY <2>3, <3>3
    <3>5. OneOver'
      BY <1>0, <2>2, <2>3, <3>4 DEF OneOver
    <3> QED
      BY <1>3, <1>4, <2>2, <3>2, <3>5
  <2> QED
    BY <1>7, <2>4, <2>5 DEF End
<1>8. CASE Down
  <2>1. /\ toServer' = <<>> /\ toClient' = toClient
        /\ server' = [server EXCEPT !.up = FALSE]
    BY <1>8 DEF Down
  <2>a. toServer' \in Seq(ClientTypes)
    BY <2>1
  <2>b. /\ server'.over = server.over
        /\ server' \in [up : BOOLEAN, over : BOOLEAN, known : BOOLEAN,
                       eye : BOOLEAN, packed : BOOLEAN, served : BOOLEAN]
    <3>1. server \in [up : BOOLEAN, over : BOOLEAN, known : BOOLEAN,
                     eye : BOOLEAN, packed : BOOLEAN, served : BOOLEAN]
      BY DEF TypeOK
    <3> QED
      BY <2>1, <3>1
  <2>2. /\ toServer' \in Seq(ClientTypes) /\ server'.over = server.over
        /\ server' \in [up : BOOLEAN, over : BOOLEAN, known : BOOLEAN,
                       eye : BOOLEAN, packed : BOOLEAN, served : BOOLEAN]
    BY <2>a, <2>b
  <2>3. OneOver'
    BY <1>0, <2>1, <2>b, OneOverKept
  <2>4. Place'
    BY <1>4, <2>2
  <2> QED
    BY <1>2, <1>3, <2>1, <2>2, <2>3, <2>4
<1> QED
  BY <1>5, <1>6, <1>7, <1>8 DEF ServerNext

\* The network's faults keep the invariant.
LEMMA NetInv == Inv /\ NetNext => Inv'
<1> SUFFICES ASSUME Inv, NetNext PROVE Inv'
  OBVIOUS
<1> USE ConnectionAssumption DEF Inv
<1>0. /\ UNCHANGED <<config, server, pc, alive, packed, joined, waited, byes,
                     exits, garbled, noLog>>
      /\ faults < MaxFaults /\ faults' = faults + 1
  BY DEF NetNext, LoseToServer, LoseToClient, Overtake, clientVars
<1>1. ByeTypes' = ByeTypes /\ Patience' = Patience
  BY <1>0, ConfigKept
<1>2. toClient \in Seq(Message) /\ toServer \in Seq(ClientTypes)
  BY DEF TypeOK, Message
<1>3. faults' \in 0 .. MaxFaults
  BY <1>0 DEF TypeOK
<1>4. Place'
  <2>1. Parted => Parted'
    BY <1>0, PartedKept
  <2> QED
    BY <1>0, <1>1, <2>1 DEF Place
<1>5. ASSUME toServer' \in Seq(ClientTypes), toClient' \in Seq(Message),
             lost' \subseteq ClientTypes \union ServerTypes \union {"order"}
      PROVE  TypeOK'
  BY <1>0, <1>3, <1>5 DEF TypeOK, Message
<1>6. CASE LoseToServer
  <2>1. PICK i \in DOMAIN toServer : /\ lost' = lost \union {toServer[i]}
                                     /\ toServer' = RemoveAt(toServer, i)
    BY <1>6 DEF LoseToServer
  <2>2. toClient' = toClient
    BY <1>6 DEF LoseToServer
  <2>3. i \in 1 .. Len(toServer) /\ toServer[i] \in ClientTypes
    BY <1>2
  <2>4. toServer' \in Seq(ClientTypes)
    BY <1>2, <2>1, <2>3, RemoveAtFacts
  <2>5. lost' \subseteq ClientTypes \union ServerTypes \union {"order"}
    BY <2>1, <2>3 DEF TypeOK
  <2>6. OneOver'
    BY <1>0, <2>2, OneOverKept
  <2> QED
    BY <1>2, <1>4, <1>5, <2>2, <2>4, <2>5, <2>6
<1>7. CASE LoseToClient
  <2>1. PICK i \in DOMAIN toClient : /\ lost' = lost \union {toClient[i].type}
                                     /\ toClient' = RemoveAt(toClient, i)
    BY <1>7 DEF LoseToClient
  <2>2. toServer' = toServer
    BY <1>7 DEF LoseToClient
  <2>3. i \in 1 .. Len(toClient) /\ toClient[i] \in Message
    BY <1>2
  <2>4. /\ toClient' \in Seq(Message) /\ Len(toClient') = Len(toClient) - 1
        /\ \A k \in 1 .. Len(toClient') :
             toClient'[k] = IF k < i THEN toClient[k] ELSE toClient[k + 1]
    BY <1>2, <2>1, <2>3, RemoveAtFacts
  <2>5. lost' \subseteq ClientTypes \union ServerTypes \union {"order"}
    BY <2>1, <2>3 DEF TypeOK, Message
  <2>6. OneOver'
    <3> DEFINE old == [k \in 1 .. Len(toClient') |->
                         IF k < i THEN k ELSE k + 1]
    <3>1. Len(toClient) \in Nat
      BY <1>2
    <3>2. old \in [1 .. Len(toClient') -> 1 .. Len(toClient)]
      BY <2>4, <3>1
    <3>3. \A k \in 1 .. Len(toClient') : toClient'[k] = toClient[old[k]]
      BY <2>4
    <3>4. \A k, l \in 1 .. Len(toClient') : old[k] = old[l] => k = l
      BY <2>3
    <3> HIDE DEF old
    <3> QED
      BY <1>0, <3>2, <3>3, <3>4, OneOverMoved
  <2> QED
    BY <1>2, <1>4, <1>5, <2>2, <2>4, <2>5, <2>6
<1>8. CASE Overtake
  <2>1. PICK i \in 2 .. Len(toClient) :
          toClient' = [toClient EXCEPT ![i - 1] = toClient[i],
                                       ![i] = toClient[i - 1]]
    BY <1>8 DEF Overtake
  <2>2. toServer' = toServer /\ lost' = lost \union {"order"}
    BY <1>8 DEF Overtake
  <2>3. /\ i \in 1 .. Len(toClient) /\ i - 1 \in 1 .. Len(toClient)
        /\ Len(toClient) \in Nat
    BY <1>2
  <2>4. toClient' \in Seq(Message) /\ Len(toClient') = Len(toClient)
    BY <1>2, <2>1, <2>3
  <2>5. OneOver'
    <3> DEFINE old == [k \in 1 .. Len(toClient') |->
                         IF k = i THEN i - 1
                         ELSE IF k = i - 1 THEN i ELSE k]
    <3>1. old \in [1 .. Len(toClient') -> 1 .. Len(toClient)]
      BY <2>3, <2>4
    <3>2. \A k \in 1 .. Len(toClient') : toClient'[k] = toClient[old[k]]
      BY <1>2, <2>1, <2>3, <2>4
    <3>3. \A k, l \in 1 .. Len(toClient') : old[k] = old[l] => k = l
      BY <2>3, <2>4
    <3> HIDE DEF old
    <3> QED
      BY <1>0, <3>1, <3>2, <3>3, OneOverMoved
  <2>6. lost' \subseteq ClientTypes \union ServerTypes \union {"order"}
    BY <2>2 DEF TypeOK
  <2> QED
    BY <1>2, <1>4, <1>5, <2>2, <2>4, <2>5, <2>6
<1> QED
  BY <1>6, <1>7, <1>8 DEF NetNext

\* Every step keeps the invariant.
LEMMA NextInv == Inv /\ [Next]_vars => Inv'
<1>1. Inv /\ ClientNext => Inv'
  BY StartInv, SelectInv, ReadInv, ExitInv DEF ClientNext
<1>2. Inv /\ UNCHANGED vars => Inv'
  BY DEF Inv, TypeOK, Place, Parted, OneOver, Patience, ByeTypes, vars, netVars,
         clientVars, faultVars
<1> QED
  BY <1>1, <1>2, ServerInv, NetInv DEF Next

\* The invariant holds in every behaviour.
THEOREM InvCorrect == Spec => []Inv
  BY InitInv, NextInv, PTL DEF Spec

\* Every variable keeps its type; in particular the waiting never passes
\* twice server_wait_seconds by more than a tick, and handleExit is called at
\* most twice.
THEOREM TypeCorrect == Spec => []TypeOK
<1>1. Inv => TypeOK
  BY DEF Inv
<1> QED
  BY <1>1, InvCorrect, PTL

\* Whatever is lost, late or over, no client says bye twice.  One that was
\* started and leaves says it once if it has its logs and did not take the
\* server for dead; it says none if it did take it for dead, and without its
\* logs it says one only if the match was over when it left.
THEOREM ByeCorrect == Spec => []ByeOnce
<1>1. Inv => ByeOnce
  <2> SUFFICES ASSUME Inv PROVE ByeOnce
    OBVIOUS
  <2>1. byes <= 1
    <3>1. CASE pc = "start" \/ pc = "select" \/ pc = "exited"
      BY <3>1 DEF Inv, Place
    <3>2. CASE pc = "drain" \/ pc = "exiting"
      <4>1. byes = 0 \/ byes = Len(ByeTypes) \/ byes <= 1
        BY <3>2 DEF Inv, Place, Parted
      <4>2. byes = 0 \/ byes = 1 \/ byes <= 1
        BY <4>1, ByeFacts
      <4> QED
        BY <4>2
    <3> QED
      BY <3>1, <3>2 DEF Inv, TypeOK
  <2>2. ASSUME pc = "exited" /\ exits = 1 /\ config.kind # "trainer"
        PROVE  IF noLog THEN byes = 1 => server.over
                        ELSE byes = IF waited > Patience THEN 0 ELSE 1
    <3>1. Parted /\ Len(ByeTypes) = 1
      BY <2>2, ByeFacts DEF Inv, Place
    <3> QED
      BY <3>1 DEF Parted
  <2> QED
    BY <2>1, <2>2 DEF ByeOnce
<1> QED
  BY <1>1, InvCorrect, PTL
-----------------------------------------------------------------------------
\* Only a client that may be answered so has asked for compression.
AskedOf(queue) ==
  \A i \in 1 .. Len(queue) : queue[i] = "compression" => AsksCompression

Answered ==
  \A i \in 1 .. Len(toClient) : toClient[i].type = "comp_ok" => AsksCompression

\* No answer was lost or overtaken, and the client takes the level.
Trusted ==
  "comp_ok" \notin lost /\ "order" \notin lost /\ config.level # 9

\* Among the first k datagrams of a queue one announces the change.
Announced(queue, k) == \E j \in 1 .. k : queue[j].type = "comp_ok"

\* Each datagram has the format the client will expect when it gets to it, and
\* the server writes the next one in that format too.
Formats ==
  /\ \A i \in 1 .. Len(toClient) :
       toClient[i].packed <=> (packed \/ Announced(toClient, i - 1))
  /\ server.packed <=> (packed \/ Announced(toClient, Len(toClient)))

FormatInv ==
  /\ AskedOf(toServer) /\ Answered
  /\ Trusted => Formats /\ ~garbled

\* At the start nothing is under way.
LEMMA FormatInit == Init => FormatInv
  BY DEF Init, FormatInv, AskedOf, Answered, Formats, Announced

\* The question whether a client asks is settled with its configuration.
LEMMA AsksKept ==
  ASSUME config' = config
  PROVE  /\ AsksCompression' <=> AsksCompression
         /\ (config.level # 9)' <=> config.level # 9
  BY DEF AsksCompression

\* Sending commands that ask for no compression, or only as they may.
LEMMA SentAsked ==
  ASSUME TypeOK, AskedOf(toServer), NEW types \in Seq(ClientTypes),
         AskedOf(types)
  PROVE  AskedOf(Sent(types))
<1>1. CASE server.up
  <2>1. toServer \in Seq(ClientTypes) /\ Sent(types) = toServer \o types
    BY <1>1 DEF TypeOK, Sent
  <2>2. ASSUME NEW i \in 1 .. Len(Sent(types))
        PROVE  \/ i \in 1 .. Len(toServer) /\ Sent(types)[i] = toServer[i]
               \/ /\ i - Len(toServer) \in 1 .. Len(types)
                  /\ Sent(types)[i] = types[i - Len(toServer)]
    BY <2>1
  <2> QED
    BY <2>2 DEF AskedOf
<1>2. CASE ~server.up
  BY <1>2 DEF Sent
<1> QED
  BY <1>1, <1>2

\* A step that leaves what the client will read, and what it has made of it,
\* keeps the formats.
LEMMA FormatKept ==
  ASSUME FormatInv, config' = config, toClient' = toClient, packed' = packed,
         server'.packed = server.packed, garbled' = garbled,
         lost \subseteq lost', AskedOf(toServer')
  PROVE  FormatInv'
<1>1. AskedOf(toServer)' /\ Answered'
  BY AsksKept DEF FormatInv, AskedOf, Answered
<1>2. Trusted' => Trusted
  BY DEF Trusted
<1>3. Formats => Formats'
  BY DEF Formats, Announced
<1> QED
  BY <1>1, <1>2, <1>3 DEF FormatInv

\* What the client sends of its own accord asks for no compression, and
\* analyzeInit asks for it only if the client may.
LEMMA CommandsAsked ==
  /\ AskedOf(ByeTypes) /\ AskedOf(<<>>) /\ AskedOf(<<"init">>)
  /\ AskedOf(<<"check_ball">>) /\ AskedOf(Settings)
  /\ <<>> \in Seq(ClientTypes) /\ <<"init">> \in Seq(ClientTypes)
  /\ <<"check_ball">> \in Seq(ClientTypes)
<1>1. AskedOf(Settings)
  <2>1. CASE AsksCompression
    BY <2>1 DEF AskedOf
  <2>2. CASE ~AsksCompression
    BY <2>2 DEF Settings, AskedOf
  <2> QED
    BY <2>1, <2>2
<1> QED
  BY <1>1 DEF AskedOf, ByeTypes, ClientTypes

\* The client's steps other than reading keep the formats.
LEMMA FormatClient ==
  ASSUME Inv, FormatInv, ClientNext, ~Read
  PROVE  FormatInv'
<1>1. /\ config' = config /\ toClient' = toClient /\ packed' = packed
      /\ garbled' = garbled /\ lost' = lost
  BY DEF ClientNext, Start, StartFails, LogFails, Wake, EndOfDrain, Timeout,
         QuietTick, SelectFails, Exit, netVars, faultVars
<1>2. server'.packed = server.packed
  <2>1. server' = server \/ server' = [server EXCEPT !.served = FALSE]
    BY DEF ClientNext, Start, StartFails, LogFails, Wake, EndOfDrain, Timeout,
           QuietTick, SelectFails, Exit
  <2> QED
    BY <2>1 DEF Inv, TypeOK
<1>3. \/ toServer' = toServer \/ toServer' = Sent(<<"init">>)
      \/ toServer' = Sent(ByeTypes) \/ toServer' = Sent(<<"check_ball">>)
      \/ toServer' = Sent(<<>>)
  <2>1. CASE Timeout
    BY <2>1 DEF Timeout
  <2>2. CASE LogFails \/ Exit
    BY <2>2 DEF LogFails, Exit, Finalize, SayBye
  <2>3. CASE Start \/ StartFails \/ Wake \/ EndOfDrain \/ SelectFails
    BY <2>3 DEF Start, StartFails, Wake, EndOfDrain, SelectFails, netVars
  <2> QED
    BY <2>1, <2>2, <2>3 DEF ClientNext
<1>4. AskedOf(toServer')
  <2>1. AskedOf(toServer) /\ TypeOK
    BY DEF FormatInv, Inv
  <2> QED
    BY <1>3, <2>1, CommandsAsked, SentAsked, ByeFacts
<1> QED
  BY <1>1, <1>2, <1>4, FormatKept

\* The client reads the datagram at the head in the format it has, and takes
\* over the format that an answer announces.
LEMMA FormatRead ==
  ASSUME Inv, FormatInv, Read
  PROVE  FormatInv'
<1> DEFINE m == Head(toClient)
<1>1. toClient \in Seq(Message) /\ toClient # <<>> /\ m \in Message
  BY ReadFacts DEF Inv, TypeOK, Message
<1>2. /\ m = toClient[1] /\ Len(toClient) \in Nat /\ 1 \in 1 .. Len(toClient)
      /\ Len(Tail(toClient)) = Len(toClient) - 1
      /\ \A k \in 1 .. Len(toClient) - 1 : Tail(toClient)[k] = toClient[k + 1]
  BY <1>1
<1>3. /\ config' = config /\ server' = server /\ lost' = lost
      /\ toClient' = Tail(toClient)
      /\ garbled' = (garbled \/ m.packed # packed)
  BY DEF Read, faultVars
<1> HIDE DEF m
<1>4. AskedOf(toServer')
  <2>1. \/ toServer' = toServer \/ toServer' = Sent(Settings)
        \/ toServer' = Sent(ByeTypes)
    BY DEF Read, Unread, ReadInit, ReadCompression, ReadOver, SayBye
  <2>2. AskedOf(toServer) /\ TypeOK
    BY DEF FormatInv, Inv
  <2> QED
    BY <2>1, <2>2, CommandsAsked, SentAsked, ByeFacts, SettingsFacts
<1>5. AskedOf(toServer)' /\ Answered'
  <2>1. Answered'
    BY <1>2, <1>3, AsksKept DEF FormatInv, Answered
  <2> QED
    BY <1>3, <1>4, <2>1, AsksKept DEF AskedOf
<1>6. ASSUME Trusted' PROVE Formats' /\ ~garbled'
  <2>1. Trusted /\ Formats /\ ~garbled
    BY <1>3, <1>6 DEF Trusted, FormatInv
  <2>2. ~Announced(toClient, 0)
    BY DEF Announced
  <2>3. m.packed <=> packed
    BY <1>2, <2>1, <2>2 DEF Formats
  <2>4. ~garbled'
    <3>1. m.packed \in BOOLEAN /\ packed \in BOOLEAN
      BY <1>1 DEF Message, Inv, TypeOK
    <3>2. m.packed = packed
      BY <2>3, <3>1
    <3> QED
      BY <1>3, <2>1, <3>2
  <2>5. packed' <=> packed \/ m.type = "comp_ok"
    <3>1. m.packed = packed
      <4>1. m.packed \in BOOLEAN /\ packed \in BOOLEAN
        BY <1>1 DEF Message, Inv, TypeOK
      <4> QED
        BY <2>3, <4>1
    <3>2. CASE m.type = "comp_ok"
      <4>1. packed' = Packing(config.level, packed)
        BY <3>1, <3>2 DEF Read, ReadCompression, m
      <4>2. AsksCompression
        BY <1>2, <3>2 DEF FormatInv, Answered
      <4>3. config.level \in Int /\ config.level # 9
        <5>1. config.level \in Levels /\ config.level # 9
          BY <2>1 DEF Trusted, Inv, TypeOK
        <5>2. Levels \subseteq (-1) .. 9
          BY ConnectionAssumption
        <5>3. config.level \in (-1) .. 9
          BY <5>1, <5>2
        <5> QED
          BY <5>1, <5>3
      <4>4. 0 < config.level /\ ~(config.level < 0) /\ ~(9 <= config.level)
        BY <4>2, <4>3 DEF AsksCompression
      <4>5. Packing(config.level, packed) = TRUE
        BY <4>4 DEF Packing
      <4> QED
        BY <3>2, <4>1, <4>5
    <3>3. CASE m.type # "comp_ok"
      <4>1. packed' = packed
        BY <3>1, <3>3 DEF Read, Unread, ReadInit, ReadOver, m
      <4> QED
        BY <3>3, <4>1
    <3> QED
      BY <3>2, <3>3
  <2>6. \A k \in 0 .. Len(toClient) - 1 :
           Announced(toClient, k + 1)
             <=> m.type = "comp_ok" \/ Announced(toClient', k)
    <3> SUFFICES ASSUME NEW k \in 0 .. Len(toClient) - 1
                 PROVE  Announced(toClient, k + 1)
                          <=> m.type = "comp_ok" \/ Announced(toClient', k)
      OBVIOUS
    <3>1. ASSUME NEW j \in 1 .. k + 1, toClient[j].type = "comp_ok", j # 1
          PROVE  Announced(toClient', k)
      <4>1. j - 1 \in 1 .. k /\ toClient'[j - 1] = toClient[j]
        BY <1>2, <1>3, <3>1
      <4> QED
        BY <3>1, <4>1 DEF Announced
    <3>2. ASSUME NEW j \in 1 .. k, toClient'[j].type = "comp_ok"
          PROVE  Announced(toClient, k + 1)
      <4>1. j + 1 \in 1 .. k + 1 /\ toClient'[j] = toClient[j + 1]
        BY <1>2, <1>3, <3>2
      <4> QED
        BY <3>2, <4>1 DEF Announced
    <3>3. m.type = "comp_ok" => Announced(toClient, k + 1)
      <4>1. 1 \in 1 .. k + 1
        OBVIOUS
      <4> QED
        BY <1>2, <4>1 DEF Announced
    <3> QED
      BY <1>2, <3>1, <3>2, <3>3 DEF Announced
  <2>7. Formats'
    <3>1. ASSUME NEW i \in 1 .. Len(toClient')
          PROVE  toClient'[i].packed <=> (packed' \/ Announced(toClient', i - 1))
      <4>1. i + 1 \in 1 .. Len(toClient) /\ toClient'[i] = toClient[i + 1]
        BY <1>2, <1>3
      <4>2. /\ i - 1 \in 0 .. Len(toClient) - 1 /\ (i - 1) + 1 = i
            /\ (i + 1) - 1 = i
        BY <1>2, <1>3
      <4>3. toClient'[i].packed <=> (packed \/ Announced(toClient, i))
        <5>1. toClient[i + 1].packed <=> (packed \/ Announced(toClient, (i + 1) - 1))
          BY <2>1, <4>1 DEF Formats
        <5> QED
          BY <4>1, <4>2, <5>1
      <4>4. Announced(toClient, i)
              <=> m.type = "comp_ok" \/ Announced(toClient', i - 1)
        <5>1. Announced(toClient, (i - 1) + 1)
                <=> m.type = "comp_ok" \/ Announced(toClient', i - 1)
          BY <2>6, <4>2
        <5> QED
          BY <4>2, <5>1
      <4> QED
        BY <2>5, <4>3, <4>4
    <3>2. server'.packed <=> (packed' \/ Announced(toClient', Len(toClient')))
      <4>1. /\ Len(toClient) - 1 \in 0 .. Len(toClient) - 1
            /\ Len(toClient') = Len(toClient) - 1
            /\ (Len(toClient) - 1) + 1 = Len(toClient)
        BY <1>2, <1>3
      <4>2. Announced(toClient, (Len(toClient) - 1) + 1)
              <=> \/ m.type = "comp_ok"
                  \/ Announced(toClient', Len(toClient) - 1)
        BY <2>6, <4>1
      <4>3. Announced(toClient, Len(toClient))
              <=> m.type = "comp_ok" \/ Announced(toClient', Len(toClient'))
        BY <4>1, <4>2
      <4>4. server.packed <=> (packed \/ Announced(toClient, Len(toClient)))
        BY <2>1 DEF Formats
      <4> QED
        BY <1>3, <2>5, <4>3, <4>4
    <3> QED
      BY <3>1, <3>2 DEF Formats
  <2> QED
    BY <2>4, <2>7
<1> QED
  BY <1>5, <1>6 DEF FormatInv

\* A datagram in the server's format that comes behind the others, and after
\* which the server changes its format if it announces that.
LEMMA FormatAppend ==
  ASSUME FormatInv, toClient \in Seq(Message), NEW m \in Message,
         config' = config, packed' = packed, garbled' = garbled, lost' = lost,
         AskedOf(toServer'), toClient' = Append(toClient, m),
         m.packed = server.packed,
         server'.packed <=> server.packed \/ m.type = "comp_ok",
         m.type = "comp_ok" => AsksCompression
  PROVE  FormatInv'
<1>1. /\ Len(toClient') = Len(toClient) + 1 /\ Len(toClient) \in Nat
      /\ \A k \in 1 .. Len(toClient) : toClient'[k] = toClient[k]
      /\ toClient'[Len(toClient) + 1] = m
  OBVIOUS
<1>2. \A k \in 1 .. Len(toClient') :
         k \in 1 .. Len(toClient) \/ k = Len(toClient) + 1
  BY <1>1
<1>3. AskedOf(toServer)' /\ Answered'
  <2>1. Answered'
    BY <1>1, <1>2, AsksKept DEF FormatInv, Answered
  <2> QED
    BY <2>1, AsksKept DEF AskedOf
<1>4. \A k \in 0 .. Len(toClient) :
         Announced(toClient', k) <=> Announced(toClient, k)
  <2> SUFFICES ASSUME NEW k \in 0 .. Len(toClient)
               PROVE  Announced(toClient', k) <=> Announced(toClient, k)
    OBVIOUS
  <2>1. \A j \in 1 .. k : toClient'[j] = toClient[j]
    BY <1>1
  <2> QED
    BY <2>1 DEF Announced
<1>5. Announced(toClient', Len(toClient'))
        <=> Announced(toClient, Len(toClient)) \/ m.type = "comp_ok"
  BY <1>1, <1>2 DEF Announced
<1>6. ASSUME Trusted' PROVE Formats' /\ ~garbled'
  <2>1. Trusted /\ Formats /\ ~garbled
    BY <1>6 DEF Trusted, FormatInv
  <2>2. ASSUME NEW i \in 1 .. Len(toClient')
        PROVE  toClient'[i].packed <=> (packed' \/ Announced(toClient', i - 1))
    <3>1. i - 1 \in 0 .. Len(toClient)
      BY <1>1
    <3>2. Announced(toClient', i - 1) <=> Announced(toClient, i - 1)
      BY <1>4, <3>1
    <3>3. CASE i \in 1 .. Len(toClient)
      BY <1>1, <2>1, <3>2, <3>3 DEF Formats
    <3>4. CASE i = Len(toClient) + 1
      <4>1. i - 1 = Len(toClient) /\ toClient'[i] = m
        BY <1>1, <3>4
      <4>2. server.packed <=> (packed \/ Announced(toClient, Len(toClient)))
        BY <2>1 DEF Formats
      <4> QED
        BY <3>2, <4>1, <4>2
    <3> QED
      BY <1>2, <3>3, <3>4
  <2>3. server'.packed <=> (packed' \/ Announced(toClient', Len(toClient')))
    BY <1>5, <2>1 DEF Formats
  <2> QED
    BY <2>1, <2>2, <2>3 DEF Formats
<1> QED
  BY <1>3, <1>6 DEF FormatInv

\* The server's steps keep the formats.
LEMMA FormatServer ==
  ASSUME Inv, FormatInv, ServerNext
  PROVE  FormatInv'
<1>0. /\ config' = config /\ packed' = packed /\ garbled' = garbled
      /\ lost' = lost
  BY DEF ServerNext, ServerReceive, ServerCycle, End, Down, clientVars,
         faultVars
<1>1. /\ toClient \in Seq(Message) /\ AskedOf(toServer)
      /\ server \in [up : BOOLEAN, over : BOOLEAN, known : BOOLEAN,
                    eye : BOOLEAN, packed : BOOLEAN, served : BOOLEAN]
  BY DEF Inv, TypeOK, Message, FormatInv
<1>2. ASSUME NEW t \in ServerTypes, Reply(t), AskedOf(toServer'),
             server'.packed <=> server.packed \/ t = "comp_ok",
             t = "comp_ok" => AsksCompression
      PROVE  FormatInv'
  <2> DEFINE m == [type |-> t, packed |-> server.packed]
  <2>1. /\ m \in Message /\ m.type = t /\ m.packed = server.packed
        /\ toClient' = Append(toClient, m)
    BY <1>1, <1>2 DEF Message, Reply
  <2> HIDE DEF m
  <2> QED
    BY <1>0, <1>1, <1>2, <2>1, FormatAppend
<1>3. CASE ServerReceive
  <2>1. AskedOf(toServer')
    <3>1. toServer \in Seq(ClientTypes) /\ toServer # <<>>
      BY <1>3 DEF ServerReceive, Inv, TypeOK
    <3>2. toServer' = Tail(toServer)
      BY <1>3 DEF ServerReceive
    <3>3. /\ Len(toServer') = Len(toServer) - 1 /\ Len(toServer) \in Nat
          /\ \A k \in 1 .. Len(toServer') : toServer'[k] = toServer[k + 1]
      BY <3>1, <3>2
    <3>4. \A k \in 1 .. Len(toServer') : k + 1 \in 1 .. Len(toServer)
      BY <3>3
    <3> QED
      BY <1>1, <3>3, <3>4 DEF AskedOf
  <2>2. Head(toServer) = "compression" => AsksCompression
    <3>1. toServer \in Seq(ClientTypes) /\ toServer # <<>>
      BY <1>3 DEF ServerReceive, Inv, TypeOK
    <3>2. Head(toServer) = toServer[1] /\ 1 \in 1 .. Len(toServer)
      BY <3>1
    <3> QED
      BY <1>1, <3>2 DEF AskedOf
  <2>3. \/ toClient' = toClient /\ server'.packed = server.packed
        \/ \E t \in ServerTypes \ {"comp_ok"} :
             Reply(t) /\ server'.packed = server.packed
        \/ /\ Head(toServer) = "compression"
           /\ Reply("comp_ok") /\ server'.packed = TRUE
    <3> DEFINE type == Head(toServer)
    <3> USE DEF ServerTypes
    <3>1. CASE type = "init"
      BY <1>1, <1>3, <3>1 DEF ServerReceive, TakeInit
    <3>2. CASE server.known /\ type = "eye"
      BY <1>1, <1>3, <3>2 DEF ServerReceive, TakeEye
    <3>3. CASE server.known /\ type = "compression"
      BY <1>1, <1>3, <3>3 DEF ServerReceive, TakeCompression
    <3>4. CASE server.known /\ type = "check_ball"
      BY <1>1, <1>3, <3>4 DEF ServerReceive
    <3>5. CASE server.known /\ type = "bye"
      BY <1>1, <1>3, <3>5 DEF ServerReceive, TakeBye
    <3>6. CASE /\ type # "init"
               /\ server.known =>
                    type \notin {"eye", "compression", "check_ball", "bye"}
      BY <1>1, <1>3, <3>6 DEF ServerReceive, Ignore
    <3> QED
      BY <3>1, <3>2, <3>3, <3>4, <3>5, <3>6
  <2>4. CASE toClient' = toClient /\ server'.packed = server.packed
    BY <1>0, <2>1, <2>4, FormatKept
  <2>5. CASE \E t \in ServerTypes \ {"comp_ok"} :
               Reply(t) /\ server'.packed = server.packed
    BY <1>2, <2>1, <2>5
  <2>6. CASE /\ Head(toServer) = "compression"
             /\ Reply("comp_ok") /\ server'.packed = TRUE
    <3>1. "comp_ok" \in ServerTypes
      BY DEF ServerTypes
    <3> QED
      BY <1>2, <2>1, <2>2, <2>6, <3>1
  <2> QED
    BY <2>3, <2>4, <2>5, <2>6
<1>4. CASE ServerCycle \/ End
  <2>1. /\ toServer' = toServer /\ server'.packed = server.packed
    BY <1>1, <1>4 DEF ServerCycle, End
  <2>2. toClient' = toClient \/ Reply("cycle") \/ Reply("over")
    BY <1>4 DEF ServerCycle, End
  <2>3. CASE toClient' = toClient
    BY <1>0, <1>1, <2>1, <2>3, FormatKept
  <2>4. CASE Reply("cycle")
    BY <1>1, <1>2, <2>1, <2>4 DEF ServerTypes
  <2>5. CASE Reply("over")
    BY <1>1, <1>2, <2>1, <2>5 DEF ServerTypes
  <2> QED
    BY <2>2, <2>3, <2>4, <2>5
<1>5. CASE Down
  <2>1. /\ toServer' = <<>> /\ toClient' = toClient
        /\ server'.packed = server.packed
    BY <1>1, <1>5 DEF Down
  <2> QED
    BY <1>0, <2>1, CommandsAsked, FormatKept
<1> QED
  BY <1>3, <1>4, <1>5 DEF ServerNext

\* A queue without one of its datagrams announces what it did, as long as that
\* one was not the announcement.
LEMMA AnnouncedWithout ==
  ASSUME NEW q \in Seq(Message), NEW i \in 1 .. Len(q),
         q[i].type # "comp_ok", NEW r,
         \A k \in 1 .. Len(q) - 1 : r[k] = IF k < i THEN q[k] ELSE q[k + 1]
  PROVE  /\ \A k \in 0 .. i - 1 : Announced(r, k) <=> Announced(q, k)
         /\ \A k \in i - 1 .. Len(q) - 1 :
              Announced(r, k) <=> Announced(q, k + 1)
<1>0. Len(q) \in Nat /\ i \in Nat /\ 1 <= i /\ i <= Len(q)
  OBVIOUS
<1>1. \A k \in 0 .. i - 1 : Announced(r, k) <=> Announced(q, k)
  <2> SUFFICES ASSUME NEW k \in 0 .. i - 1
               PROVE  Announced(r, k) <=> Announced(q, k)
    OBVIOUS
  <2>1. \A j \in 1 .. k : r[j] = q[j]
    BY <1>0
  <2> QED
    BY <2>1 DEF Announced
<1>2. ASSUME NEW k \in i - 1 .. Len(q) - 1
      PROVE  Announced(r, k) <=> Announced(q, k + 1)
  <2>1. ASSUME NEW j \in 1 .. k, r[j].type = "comp_ok"
        PROVE  Announced(q, k + 1)
    <3>1. CASE j < i
      <4>1. j \in 1 .. k + 1 /\ r[j] = q[j]
        BY <1>0, <1>2, <3>1
      <4> QED
        BY <2>1, <4>1 DEF Announced
    <3>2. CASE ~(j < i)
      <4>1. j + 1 \in 1 .. k + 1 /\ r[j] = q[j + 1]
        BY <1>0, <1>2, <3>2
      <4> QED
        BY <2>1, <4>1 DEF Announced
    <3> QED
      BY <3>1, <3>2
  <2>2. ASSUME NEW j \in 1 .. k + 1, q[j].type = "comp_ok"
        PROVE  Announced(r, k)
    <3>1. CASE j < i
      <4>1. j \in 1 .. k /\ r[j] = q[j]
        BY <1>0, <1>2, <3>1
      <4> QED
        BY <2>2, <4>1 DEF Announced
    <3>2. CASE i < j
      <4>1. /\ j - 1 \in 1 .. k /\ j - 1 \in 1 .. Len(q) - 1 /\ ~(j - 1 < i)
            /\ (j - 1) + 1 = j
        BY <1>0, <1>2, <3>2
      <4>2. r[j - 1] = q[(j - 1) + 1]
        BY <4>1
      <4>3. r[j - 1].type = "comp_ok"
        BY <2>2, <4>1, <4>2
      <4> QED
        BY <4>1, <4>3 DEF Announced
    <3>3. j # i
      BY <2>2
    <3> QED
      BY <1>0, <1>2, <3>1, <3>2, <3>3
  <2> QED
    BY <2>1, <2>2 DEF Announced
<1> QED
  BY <1>1, <1>2

\* The network's faults keep the formats, but for those that Trusted names.
LEMMA FormatNet ==
  ASSUME Inv, FormatInv, NetNext
  PROVE  FormatInv'
<1>0. UNCHANGED <<config, server, packed, garbled>>
  BY DEF NetNext, LoseToServer, LoseToClient, Overtake, clientVars
<1>1. toClient \in Seq(Message) /\ toServer \in Seq(ClientTypes)
  BY DEF Inv, TypeOK, Message
<1>2. CASE LoseToServer
  <2>1. PICK i \in DOMAIN toServer : /\ lost' = lost \union {toServer[i]}
                                     /\ toServer' = RemoveAt(toServer, i)
    BY <1>2 DEF LoseToServer
  <2>2. toClient' = toClient
    BY <1>2 DEF LoseToServer
  <2>3. i \in 1 .. Len(toServer)
    BY <1>1
  <2>a. /\ toServer' \in Seq(ClientTypes) /\ Len(toServer') = Len(toServer) - 1
        /\ \A k \in 1 .. Len(toServer) - 1 :
             toServer'[k] = IF k < i THEN toServer[k] ELSE toServer[k + 1]
    BY <1>1, <2>1, <2>3, RemoveAtFacts
  <2>4. /\ Len(toServer') = Len(toServer) - 1 /\ Len(toServer) \in Nat
        /\ \A k \in 1 .. Len(toServer) - 1 :
             toServer'[k] = IF k < i THEN toServer[k] ELSE toServer[k + 1]
    BY <1>1, <2>a
  <2>5. AskedOf(toServer')
    <3>1. \A k \in 1 .. Len(toServer') : /\ k \in 1 .. Len(toServer)
                                         /\ k + 1 \in 1 .. Len(toServer)
      BY <2>4
    <3> QED
      BY <2>4, <3>1 DEF FormatInv, AskedOf
  <2>6. lost \subseteq lost'
    BY <2>1
  <2> QED
    BY <1>0, <2>2, <2>5, <2>6, FormatKept
<1>3. CASE LoseToClient
  <2>1. PICK i \in DOMAIN toClient : /\ lost' = lost \union {toClient[i].type}
                                     /\ toClient' = RemoveAt(toClient, i)
    BY <1>3 DEF LoseToClient
  <2>2. toServer' = toServer
    BY <1>3 DEF LoseToClient
  <2>3. i \in 1 .. Len(toClient)
    BY <1>1
  <2>a. /\ toClient' \in Seq(Message) /\ Len(toClient') = Len(toClient) - 1
        /\ \A k \in 1 .. Len(toClient) - 1 :
             toClient'[k] = IF k < i THEN toClient[k] ELSE toClient[k + 1]
    BY <1>1, <2>1, <2>3, RemoveAtFacts
  <2>4. /\ Len(toClient') = Len(toClient) - 1 /\ Len(toClient) \in Nat
        /\ \A k \in 1 .. Len(toClient) - 1 :
             toClient'[k] = IF k < i THEN toClient[k] ELSE toClient[k + 1]
    BY <1>1, <2>a
  <2>5. AskedOf(toServer)' /\ Answered'
    <3>1. \A k \in 1 .. Len(toClient') : /\ k \in 1 .. Len(toClient)
                                         /\ k + 1 \in 1 .. Len(toClient)
      BY <2>4
    <3>2. Answered'
      BY <1>0, <2>4, <3>1, AsksKept DEF FormatInv, Answered
    <3> QED
      BY <1>0, <2>2, <3>2, AsksKept DEF FormatInv, AskedOf
  <2>6. ASSUME Trusted' PROVE Formats' /\ ~garbled'
    <3>1. Trusted /\ Formats /\ ~garbled /\ toClient[i].type # "comp_ok"
      BY <1>0, <2>1, <2>6 DEF Trusted, FormatInv
    <3>2. /\ \A k \in 0 .. i - 1 :
               Announced(toClient', k) <=> Announced(toClient, k)
          /\ \A k \in i - 1 .. Len(toClient) - 1 :
               Announced(toClient', k) <=> Announced(toClient, k + 1)
      BY <1>1, <2>3, <2>4, <3>1, AnnouncedWithout
    <3>3. ASSUME NEW k \in 1 .. Len(toClient')
          PROVE  toClient'[k].packed <=> packed \/ Announced(toClient', k - 1)
      <4>1. CASE k < i
        <5>1. /\ toClient'[k] = toClient[k] /\ k \in 1 .. Len(toClient)
              /\ k - 1 \in 0 .. i - 1
          BY <2>3, <2>4, <4>1
        <5> QED
          BY <3>1, <3>2, <5>1 DEF Formats
      <4>2. CASE ~(k < i)
        <5>1. /\ toClient'[k] = toClient[k + 1] /\ k + 1 \in 1 .. Len(toClient)
              /\ k - 1 \in i - 1 .. Len(toClient) - 1
              /\ (k - 1) + 1 = k /\ (k + 1) - 1 = k
          BY <2>3, <2>4, <4>2
        <5>2. Announced(toClient', k - 1) <=> Announced(toClient, k)
          <6>1. Announced(toClient', k - 1) <=> Announced(toClient, (k - 1) + 1)
            BY <3>2, <5>1
          <6> QED
            BY <5>1, <6>1
        <5>3. toClient[k + 1].packed <=> packed \/ Announced(toClient, k)
          <6>1. toClient[k + 1].packed
                  <=> packed \/ Announced(toClient, (k + 1) - 1)
            BY <3>1, <5>1 DEF Formats
          <6> QED
            BY <5>1, <6>1
        <5> QED
          BY <5>1, <5>2, <5>3
      <4> QED
        BY <4>1, <4>2
    <3>4. server.packed <=> packed \/ Announced(toClient', Len(toClient'))
      <4>1. /\ Len(toClient) - 1 \in i - 1 .. Len(toClient) - 1
            /\ (Len(toClient) - 1) + 1 = Len(toClient)
        BY <2>3, <2>4
      <4>2. Announced(toClient', Len(toClient) - 1)
              <=> Announced(toClient, (Len(toClient) - 1) + 1)
        BY <3>2, <4>1
      <4>3. Announced(toClient', Len(toClient'))
              <=> Announced(toClient, Len(toClient))
        BY <2>4, <4>1, <4>2
      <4> QED
        BY <3>1, <4>3 DEF Formats
    <3> QED
      BY <1>0, <3>1, <3>3, <3>4 DEF Formats
  <2> QED
    BY <2>5, <2>6 DEF FormatInv
<1>4. CASE Overtake
  <2>1. PICK i \in 2 .. Len(toClient) :
          toClient' = [toClient EXCEPT ![i - 1] = toClient[i],
                                       ![i] = toClient[i - 1]]
    BY <1>4 DEF Overtake
  <2>2. toServer' = toServer /\ lost' = lost \union {"order"}
    BY <1>4 DEF Overtake
  <2>3. /\ i \in 1 .. Len(toClient) /\ i - 1 \in 1 .. Len(toClient)
        /\ Len(toClient') = Len(toClient)
        /\ \A k \in 1 .. Len(toClient) :
             toClient'[k] \in {toClient[k], toClient[i], toClient[i - 1]}
    <3>1. Len(toClient) \in Nat
      BY <1>1
    <3>2. /\ i \in 1 .. Len(toClient) /\ i - 1 \in 1 .. Len(toClient)
          /\ i # i - 1
      BY <3>1
    <3>3. Len(toClient') = Len(toClient)
      BY <1>1, <2>1, <3>2
    <3>4. \A k \in 1 .. Len(toClient) :
             toClient'[k] = IF k = i THEN toClient[i - 1]
                            ELSE IF k = i - 1 THEN toClient[i]
                            ELSE toClient[k]
      BY <1>1, <2>1, <3>2
    <3> QED
      BY <3>2, <3>3, <3>4
  <2>4. Answered'
    <3>1. ASSUME NEW k \in 1 .. Len(toClient), toClient'[k].type = "comp_ok"
          PROVE  AsksCompression
      <4>1. \E j \in 1 .. Len(toClient) : toClient[j].type = "comp_ok"
        BY <2>3, <3>1
      <4> QED
        BY <4>1 DEF FormatInv, Answered
    <3>2. AsksCompression' <=> AsksCompression
      BY <1>0, AsksKept
    <3> QED
      BY <2>3, <3>1, <3>2 DEF Answered
  <2>5. AskedOf(toServer)'
    BY <1>0, <2>2, AsksKept DEF FormatInv, AskedOf
  <2>6. ~Trusted'
    BY <2>2 DEF Trusted
  <2> QED
    BY <2>4, <2>5, <2>6 DEF FormatInv
<1> QED
  BY <1>2, <1>3, <1>4 DEF NetNext

\* A client that takes the level it asks for and loses no answer never reads a
\* datagram in the wrong format, however the answers, the cycles and the end
\* of the match interleave and whatever else is lost.
THEOREM FormatsAgree == Spec => []Understands
<1>1. Inv /\ FormatInv /\ [Next]_vars => FormatInv'
  <2> SUFFICES ASSUME Inv, FormatInv, [Next]_vars PROVE FormatInv'
    OBVIOUS
  <2>1. CASE Read
    BY <2>1, FormatRead
  <2>2. CASE ClientNext /\ ~Read
    BY <2>2, FormatClient
  <2>3. CASE ServerNext
    BY <2>3, FormatServer
  <2>4. CASE NetNext
    BY <2>4, FormatNet
  <2>5. CASE UNCHANGED vars
    <3>1. /\ config' = config /\ toClient' = toClient /\ packed' = packed
          /\ server' = server /\ garbled' = garbled /\ lost' = lost
          /\ toServer' = toServer
      BY <2>5 DEF vars, netVars, clientVars, faultVars
    <3> QED
      BY <3>1, FormatKept DEF FormatInv
  <2> QED
    BY <2>1, <2>2, <2>3, <2>4, <2>5 DEF Next
<1>2. FormatInv => Understands
  BY DEF FormatInv, Trusted, Understands
<1> QED
  BY <1>1, <1>2, FormatInit, InvCorrect, PTL DEF Spec
-----------------------------------------------------------------------------
\* Whether a command is on its way to the server, an answer to the client.
Asks(queue, type) == \E i \in 1 .. Len(queue) : queue[i] = type
Answers(queue, type) == \E i \in 1 .. Len(queue) : queue[i].type = type

\* The init and its answer travel while nothing is packed and with nothing
\* but byes, cycles and the end of the match beside them: a client asks for
\* its settings when it has read the answer, and sends one init.
AtStart ==
  pc = "start" =>
    /\ toServer = <<>> /\ toClient = <<>>
    /\ ~packed /\ ~server.packed /\ ~server.known

InitAsked ==
  \A i \in 1 .. Len(toServer) : toServer[i] = "init" =>
    /\ waited = 0 /\ toClient = <<>>
    /\ ~packed /\ ~server.packed /\ ~server.known
    /\ \A j \in 1 .. Len(toServer) : i = j \/ toServer[j] = "bye"

InitAnswered ==
  \A i \in 1 .. Len(toClient) : toClient[i].type = "init_ok" =>
    /\ ~toClient[i].packed /\ ~packed /\ ~server.packed
    /\ \A j \in 1 .. Len(toServer) : toServer[j] = "bye"
    /\ \A j \in 1 .. Len(toClient) :
         i = j \/ toClient[j].type \in {"cycle", "over"}

Greeting == AtStart /\ InitAsked /\ InitAnswered

Known == server.up /\ server.known

EyeLost == {"init_ok", "eye"} \intersect lost # {}

\* A client that wants its eye on has it on, or the request or the answer
\* that makes it ask is under way, unless one of them was lost.
Seeing ==
  Known /\ config.kind # "player" /\ config.eye /\ ~EyeLost
    => \/ server.eye
       \/ Asks(toServer, "eye") \/ Answers(toClient, "init_ok")

\* The clients that may take a running server that knows them for dead.
MayErr == /\ config.kind # "player"
          /\ \/ config.eye /\ EyeLost
             \/ config.kind = "trainer" /\ ~config.eye

Blind == config.kind = "coach" /\ ~config.eye

\* The time before a client the server knows has something to read in every
\* tick: a coach that does not see has to ask first.
Calm == IF Blind THEN ServerWait ELSE 0

\* Something the client will read is still to come in this tick.
Owed == \/ Blind /\ Asks(toServer, "check_ball")
        \/ ~Blind /\ ~server.served /\ (config.kind = "player" \/ server.eye)

\* A tick beyond the calm is one in which a datagram is due or was lost.
Waiting ==
  Known /\ pc = "select" /\ ~MayErr =>
    /\ waited <= Calm + faults + 1
    /\ waited <= Calm + faults \/ toClient # <<>> \/ Owed

Heard == Greeting /\ Seeing /\ Waiting

\* A queue whose elements come from another one, each from a place of its own,
\* but for some that are new.
Stays(new, queue, added) ==
  \E old \in [1 .. Len(new) -> 0 .. Len(queue)] :
    /\ \A k \in 1 .. Len(new) : IF old[k] = 0 THEN new[k] \in added
                                              ELSE new[k] = queue[old[k]]
    /\ \A k, l \in 1 .. Len(new) : old[k] = old[l] /\ old[k] # 0 => k = l

\* A queue left alone.
LEMMA StaysSame ==
  ASSUME NEW S, NEW s \in Seq(S), NEW added
  PROVE  Stays(s, s, added)
<1> DEFINE old == [k \in 1 .. Len(s) |-> k]
<1>1. /\ old \in [1 .. Len(s) -> 0 .. Len(s)]
      /\ \A k \in 1 .. Len(s) : old[k] # 0 /\ s[k] = s[old[k]]
      /\ \A k, l \in 1 .. Len(s) : old[k] = old[l] => k = l
  OBVIOUS
<1> HIDE DEF old
<1> QED
  BY <1>1 DEF Stays

\* One element less.
LEMMA StaysWithout ==
  ASSUME NEW S, NEW s \in Seq(S), NEW i \in 1 .. Len(s), NEW added
  PROVE  Stays(RemoveAt(s, i), s, added)
<1> DEFINE r == RemoveAt(s, i)
           old == [k \in 1 .. Len(r) |-> IF k < i THEN k ELSE k + 1]
<1>1. /\ Len(s) \in Nat /\ Len(r) = Len(s) - 1
      /\ \A k \in 1 .. Len(r) : r[k] = IF k < i THEN s[k] ELSE s[k + 1]
  BY RemoveAtFacts
<1> HIDE DEF r
<1>2. old \in [1 .. Len(r) -> 0 .. Len(s)]
  BY <1>1
<1>3. \A k \in 1 .. Len(r) : old[k] # 0 /\ r[k] = s[old[k]]
  BY <1>1
<1>4. \A k, l \in 1 .. Len(r) : old[k] = old[l] => k = l
  BY <1>1
<1> HIDE DEF old
<1>5. Stays(r, s, added)
  BY <1>2, <1>3, <1>4 DEF Stays
<1> QED
  BY <1>5 DEF r

\* The head taken.
LEMMA StaysTail ==
  ASSUME NEW S, NEW s \in Seq(S), s # <<>>, NEW added
  PROVE  Stays(Tail(s), s, added)
<1> DEFINE r == Tail(s)
           old == [k \in 1 .. Len(r) |-> k + 1]
<1>1. /\ Len(s) \in Nat /\ Len(r) = Len(s) - 1
      /\ \A k \in 1 .. Len(r) : r[k] = s[k + 1]
  OBVIOUS
<1> HIDE DEF r
<1>2. old \in [1 .. Len(r) -> 0 .. Len(s)]
  BY <1>1
<1>3. \A k \in 1 .. Len(r) : old[k] # 0 /\ r[k] = s[old[k]]
  BY <1>1
<1>4. \A k, l \in 1 .. Len(r) : old[k] = old[l] => k = l
  BY <1>1
<1> HIDE DEF old
<1>5. Stays(r, s, added)
  BY <1>2, <1>3, <1>4 DEF Stays
<1> QED
  BY <1>5 DEF r

\* Two neighbours exchanged.
LEMMA StaysSwapped ==
  ASSUME NEW S, NEW s \in Seq(S), NEW i \in 2 .. Len(s), NEW added
  PROVE  Stays([s EXCEPT ![i - 1] = s[i], ![i] = s[i - 1]], s, added)
<1> DEFINE r == [s EXCEPT ![i - 1] = s[i], ![i] = s[i - 1]]
           old == [k \in 1 .. Len(r) |-> IF k = i THEN i - 1
                                         ELSE IF k = i - 1 THEN i ELSE k]
<1>1. /\ Len(s) \in Nat /\ i - 1 \in 1 .. Len(s) /\ i \in 1 .. Len(s)
      /\ Len(r) = Len(s)
      /\ \A k \in 1 .. Len(r) : r[k] = IF k = i THEN s[i - 1]
                                       ELSE IF k = i - 1 THEN s[i] ELSE s[k]
  OBVIOUS
<1> HIDE DEF r
<1>2. old \in [1 .. Len(r) -> 0 .. Len(s)]
  BY <1>1
<1>3. \A k \in 1 .. Len(r) : old[k] # 0 /\ r[k] = s[old[k]]
  BY <1>1
<1>4. \A k, l \in 1 .. Len(r) : old[k] = old[l] => k = l
  BY <1>1
<1> HIDE DEF old
<1>5. Stays(r, s, added)
  BY <1>2, <1>3, <1>4 DEF Stays
<1> QED
  BY <1>5 DEF r

\* Something new at the end.
LEMMA StaysLonger ==
  ASSUME NEW S, NEW s \in Seq(S), NEW m, NEW added, m \in added
  PROVE  Stays(Append(s, m), s, added) /\ Append(s, m) # <<>>
<1> DEFINE r == Append(s, m)
           old == [k \in 1 .. Len(r) |-> IF k = Len(s) + 1 THEN 0 ELSE k]
<1>1. /\ Len(s) \in Nat /\ Len(r) = Len(s) + 1
      /\ \A k \in 1 .. Len(r) : r[k] = IF k = Len(s) + 1 THEN m ELSE s[k]
  OBVIOUS
<1>6. r # <<>>
  BY <1>1
<1> HIDE DEF r
<1>2. old \in [1 .. Len(r) -> 0 .. Len(s)]
  BY <1>1
<1>3. \A k \in 1 .. Len(r) : IF old[k] = 0 THEN r[k] \in added
                                           ELSE r[k] = s[old[k]]
  BY <1>1
<1>4. \A k, l \in 1 .. Len(r) : old[k] = old[l] /\ old[k] # 0 => k = l
  BY <1>1
<1> HIDE DEF old
<1>5. Stays(r, s, added)
  BY <1>2, <1>3, <1>4 DEF Stays
<1> QED
  BY <1>5, <1>6 DEF r

\* Saying bye, or saying nothing.
LEMMA StaysBye ==
  ASSUME TypeOK
  PROVE  Stays(Sent(ByeTypes), toServer, {"bye"})
<1>1. toServer \in Seq(ClientTypes)
  BY DEF TypeOK
<1>2. CASE Sent(ByeTypes) = toServer
  BY <1>1, <1>2, StaysSame
<1>3. CASE Sent(ByeTypes) # toServer
  <2>1. ByeTypes = <<"bye">> /\ Sent(ByeTypes) = toServer \o <<"bye">>
    BY <1>1, <1>3 DEF Sent, ByeTypes
  <2>2. Sent(ByeTypes) = Append(toServer, "bye")
    BY <1>1, <2>1
  <2> QED
    BY <1>1, <2>2, StaysLonger
<1> QED
  BY <1>2, <1>3

-----------------------------------------------------------------------------
\* What may come behind an init_ok.
Later == [type : {"cycle", "over"}, packed : BOOLEAN]

\* Nothing of the greeting is under way.
LEMMA GreetOver ==
  ASSUME ~Asks(toServer', "init"), ~Answers(toClient', "init_ok"),
         pc' # "start"
  PROVE  Greeting'
  BY DEF Greeting, AtStart, InitAsked, InitAnswered, Asks, Answers

\* A step that says at most bye to the server, and after which the client has
\* at most a cycle or the end of the match more to read.
LEMMA GreetKept ==
  ASSUME Greeting,
         Stays(toServer', toServer, {"bye"}), Stays(toClient', toClient, Later),
         toClient = <<>> /\ ~server.known => toClient' = <<>>,
         pc' = "start" => pc = "start" /\ toServer' = <<>>,
         waited' = waited \/ waited' = 0, packed' = packed,
         server'.packed = server.packed, server'.known => server.known,
         server.known \in BOOLEAN, server'.known \in BOOLEAN
  PROVE  Greeting'
<1>1. PICK s \in [1 .. Len(toServer') -> 0 .. Len(toServer)] :
         /\ \A k \in 1 .. Len(toServer') :
              IF s[k] = 0 THEN toServer'[k] \in {"bye"}
                          ELSE toServer'[k] = toServer[s[k]]
         /\ \A k, l \in 1 .. Len(toServer') : s[k] = s[l] /\ s[k] # 0 => k = l
  BY DEF Stays
<1>2. PICK c \in [1 .. Len(toClient') -> 0 .. Len(toClient)] :
         /\ \A k \in 1 .. Len(toClient') :
              IF c[k] = 0 THEN toClient'[k] \in Later
                          ELSE toClient'[k] = toClient[c[k]]
         /\ \A k, l \in 1 .. Len(toClient') : c[k] = c[l] /\ c[k] # 0 => k = l
  BY DEF Stays
<1>3. AtStart'
  BY DEF Greeting, AtStart
<1>4. InitAsked'
  <2> SUFFICES ASSUME NEW i \in (1 .. Len(toServer))', toServer'[i] = "init"
               PROVE  /\ waited' = 0 /\ toClient' = <<>>
                      /\ ~packed' /\ ~server'.packed /\ ~server'.known
                      /\ \A j \in (1 .. Len(toServer))' :
                           i = j \/ toServer'[j] = "bye"
    BY DEF InitAsked
  <2>1. s[i] \in 1 .. Len(toServer) /\ toServer[s[i]] = "init"
    BY <1>1
  <2>2. /\ waited = 0 /\ toClient = <<>>
        /\ ~packed /\ ~server.packed /\ ~server.known
        /\ \A j \in 1 .. Len(toServer) : s[i] = j \/ toServer[j] = "bye"
    BY <2>1 DEF Greeting, InitAsked
  <2>3. ASSUME NEW j \in (1 .. Len(toServer))'
        PROVE  i = j \/ toServer'[j] = "bye"
    <3>1. CASE s[j] = 0
      BY <1>1, <3>1
    <3>2. CASE s[j] # 0
      <4>1. s[j] \in 1 .. Len(toServer) /\ toServer'[j] = toServer[s[j]]
        BY <1>1, <3>2
      <4>2. s[i] = s[j] => i = j
        BY <1>1, <3>2
      <4> QED
        BY <2>2, <4>1, <4>2
    <3> QED
      BY <3>1, <3>2
  <2> QED
    BY <2>2, <2>3
<1>5. InitAnswered'
  <2> SUFFICES ASSUME NEW i \in (1 .. Len(toClient))',
                      toClient'[i].type = "init_ok"
               PROVE  /\ ~toClient'[i].packed /\ ~packed' /\ ~server'.packed
                      /\ \A j \in (1 .. Len(toServer))' : toServer'[j] = "bye"
                      /\ \A j \in (1 .. Len(toClient))' :
                           i = j \/ toClient'[j].type \in {"cycle", "over"}
    BY DEF InitAnswered
  <2>0. \A m \in Later : m.type \in {"cycle", "over"}
    BY DEF Later
  <2>1. c[i] \in 1 .. Len(toClient) /\ toClient'[i] = toClient[c[i]]
    <3>1. c[i] # 0
      BY <1>2, <2>0
    <3> QED
      BY <1>2, <3>1
  <2>2. /\ ~toClient[c[i]].packed /\ ~packed /\ ~server.packed
        /\ \A j \in 1 .. Len(toServer) : toServer[j] = "bye"
        /\ \A j \in 1 .. Len(toClient) :
             c[i] = j \/ toClient[j].type \in {"cycle", "over"}
    BY <2>1 DEF Greeting, InitAnswered
  <2>3. ASSUME NEW j \in (1 .. Len(toServer))'
        PROVE  toServer'[j] = "bye"
    <3>1. CASE s[j] = 0
      BY <1>1, <3>1
    <3>2. CASE s[j] # 0
      <4>1. s[j] \in 1 .. Len(toServer) /\ toServer'[j] = toServer[s[j]]
        BY <1>1, <3>2
      <4> QED
        BY <2>2, <4>1
    <3> QED
      BY <3>1, <3>2
  <2>4. ASSUME NEW j \in (1 .. Len(toClient))'
        PROVE  i = j \/ toClient'[j].type \in {"cycle", "over"}
    <3>1. CASE c[j] = 0
      BY <1>2, <2>0, <3>1
    <3>2. CASE c[j] # 0
      <4>1. c[j] \in 1 .. Len(toClient) /\ toClient'[j] = toClient[c[j]]
        BY <1>2, <3>2
      <4>2. c[i] = c[j] => i = j
        BY <1>2, <3>2
      <4> QED
        BY <2>2, <4>1, <4>2
    <3> QED
      BY <3>1, <3>2
  <2> QED
    BY <2>1, <2>2, <2>3, <2>4
<1> QED
  BY <1>3, <1>4, <1>5 DEF Greeting

\* A step keeps the sight that is coming, or takes it a stage further.
LEMMA SeeKept ==
  ASSUME Seeing, config' = config, Known' => Known, lost \subseteq lost',
         server.eye => server'.eye,
         Asks(toServer, "eye") =>
           Asks(toServer', "eye") \/ server'.eye \/ "eye" \in lost',
         Answers(toClient, "init_ok") =>
           \/ Answers(toClient', "init_ok") \/ Asks(toServer', "eye")
           \/ "init_ok" \in lost'
           \/ ~(Known /\ config.kind # "player" /\ config.eye)
  PROVE  Seeing'
<1>1. EyeLost => EyeLost'
  BY DEF EyeLost
<1>2. "eye" \in lost' \/ "init_ok" \in lost' => EyeLost'
  BY DEF EyeLost
<1> QED
  BY <1>1, <1>2 DEF Seeing

\* Later bounds are wider.
LEMMA Wider ==
  \A calm, time, before, after \in Nat : before <= after =>
    /\ time <= calm + before + 1 => time <= calm + after + 1
    /\ time <= calm + before => time <= calm + after
    /\ time <= calm + before + 1 /\ before + 1 = after => time <= calm + after
OBVIOUS

\* A step outside the timeout keeps what the client waits for coming, or
\* costs a fault.
LEMMA WaitKept ==
  ASSUME TypeOK, Waiting, config' = config, Known' => Known,
         lost \subseteq lost', faults' \in Nat, faults <= faults',
         pc' = "select" => pc = "select", waited' = waited,
         toClient # <<>> => toClient' # <<>> \/ faults' = faults + 1,
         Known /\ Owed => Owed' \/ toClient' # <<>> \/ faults' = faults + 1
  PROVE  Waiting'
<1> SUFFICES ASSUME Known', pc' = "select", ~MayErr'
             PROVE  /\ waited' <= Calm' + faults' + 1
                    /\ \/ waited' <= Calm' + faults'
                       \/ toClient' # <<>> \/ Owed'
  BY DEF Waiting
<1>1. ~MayErr
  BY DEF MayErr, EyeLost
<1>2. /\ waited <= Calm + faults + 1
      /\ waited <= Calm + faults \/ toClient # <<>> \/ Owed
  BY <1>1 DEF Waiting
<1>3. /\ waited \in Nat /\ faults \in Nat /\ faults' \in Nat
      /\ faults <= faults'
  BY DEF TypeOK
<1>4. Calm \in Nat /\ Calm' = Calm
  BY ConnectionAssumption DEF Calm, Blind
<1>5. /\ waited <= Calm + faults + 1 => waited <= Calm + faults' + 1
      /\ waited <= Calm + faults => waited <= Calm + faults'
      /\ waited <= Calm + faults + 1 /\ faults + 1 = faults'
           => waited <= Calm + faults'
  BY <1>3, <1>4, Wider, Zenon
<1>6. waited <= Calm + faults' \/ toClient' # <<>> \/ Owed'
  <2>1. CASE faults + 1 = faults'
    BY <1>2, <1>5, <2>1, Zenon
  <2>2. CASE faults + 1 # faults'
    <3>1. toClient # <<>> \/ Owed => toClient' # <<>> \/ Owed'
      BY <2>2 DEF Known
    <3> QED
      BY <1>2, <1>5, <3>1, Zenon
  <2> QED
    BY <2>1, <2>2
<1>7. waited' = waited /\ Calm' = Calm
  BY <1>4
<1> QED
  BY <1>2, <1>5, <1>6, <1>7, Zenon

-----------------------------------------------------------------------------
\* What a queue is without its head.
LEMMA Rest ==
  ASSUME NEW S, NEW s \in Seq(S), s # <<>>
  PROVE  /\ 1 \in 1 .. Len(s) /\ Head(s) = s[1]
         /\ \A k \in 1 .. Len(Tail(s)) :
              k + 1 \in 1 .. Len(s) /\ k + 1 # 1 /\ Tail(s)[k] = s[k + 1]
         /\ \A k \in 1 .. Len(s) :
              k = 1 \/ (k - 1 \in 1 .. Len(Tail(s)) /\ Tail(s)[k - 1] = s[k])
OBVIOUS

\* Sending leaves what is under way, and adds to it if the server is up.
LEMMA SentAsks ==
  ASSUME TypeOK, NEW types \in Seq(ClientTypes), NEW t
  PROVE  /\ Asks(toServer, t) => Asks(Sent(types), t)
         /\ server.up /\ Asks(types, t) => Asks(Sent(types), t)
         /\ Asks(Sent(types), t) => Asks(toServer, t) \/ Asks(types, t)
<1>1. CASE server.up
  <2>1. toServer \in Seq(ClientTypes) /\ Sent(types) = toServer \o types
    BY <1>1 DEF TypeOK, Sent
  <2>2. ASSUME NEW i \in 1 .. Len(toServer)
        PROVE  i \in 1 .. Len(Sent(types)) /\ Sent(types)[i] = toServer[i]
    BY <2>1
  <2>3. ASSUME NEW i \in 1 .. Len(types)
        PROVE  /\ Len(toServer) + i \in 1 .. Len(Sent(types))
               /\ Sent(types)[Len(toServer) + i] = types[i]
    BY <2>1
  <2>4. ASSUME NEW i \in 1 .. Len(Sent(types))
        PROVE  \/ i \in 1 .. Len(toServer) /\ Sent(types)[i] = toServer[i]
               \/ /\ i - Len(toServer) \in 1 .. Len(types)
                  /\ Sent(types)[i] = types[i - Len(toServer)]
    BY <2>1
  <2> QED
    BY <2>2, <2>3, <2>4 DEF Asks
<1>2. CASE ~server.up
  BY <1>2 DEF Sent
<1> QED
  BY <1>1, <1>2

\* The client's steps that read nothing and let no tick pass.
LEMMA HeardClient ==
  ASSUME Inv, Heard,
         Start \/ StartFails \/ LogFails \/ Wake \/ EndOfDrain \/ SelectFails
           \/ Exit
  PROVE  Heard'
<1>0. /\ config' = config /\ server' = server /\ toClient' = toClient
      /\ packed' = packed /\ lost' = lost
  BY DEF Start, StartFails, LogFails, Wake, EndOfDrain, SelectFails, Exit,
         netVars, faultVars
<1>1. /\ toServer \in Seq(ClientTypes) /\ toClient \in Seq(Message)
      /\ server.known \in BOOLEAN /\ TypeOK /\ Place
      /\ AtStart /\ Greeting /\ Seeing /\ Waiting
  BY DEF Inv, TypeOK, Message, Heard, Greeting
<1>2. \/ toServer' = toServer \/ toServer' = Sent(<<"init">>)
      \/ toServer' = Sent(ByeTypes)
  BY DEF Start, StartFails, LogFails, Wake, EndOfDrain, SelectFails, Exit,
         netVars, Finalize, SayBye
<1>3. Asks(toServer, "eye") => Asks(toServer', "eye")
  <2>1. <<"init">> \in Seq(ClientTypes) /\ ByeTypes \in Seq(ClientTypes)
    BY ByeFacts, CommandsAsked
  <2>2. /\ Asks(toServer, "eye") => Asks(Sent(<<"init">>), "eye")
        /\ Asks(toServer, "eye") => Asks(Sent(ByeTypes), "eye")
    BY <1>1, <2>1, SentAsks
  <2> QED
    BY <1>2, <2>2
<1>4. Seeing'
  BY <1>0, <1>1, <1>3, SeeKept DEF Known
<1>5. CASE Start
  <2>1. pc = "start" /\ pc' = "select" /\ toServer' = Sent(<<"init">>)
        /\ waited' = 0
    BY <1>1, <1>5 DEF Start, Place
  <2>2. /\ toServer = <<>> /\ toClient = <<>>
        /\ ~packed /\ ~server.packed /\ ~server.known
    BY <1>1, <2>1 DEF AtStart
  <2>3. \A i, j \in 1 .. Len(toServer') : i = j
    <3>1. toServer' = <<"init">> \/ toServer' = <<>>
      BY <2>1, <2>2 DEF Sent
    <3> QED
      BY <3>1
  <2>4. AtStart' /\ InitAsked' /\ InitAnswered'
    BY <1>0, <2>1, <2>2, <2>3 DEF AtStart, InitAsked, InitAnswered
  <2>5. Waiting'
    BY <1>0, <2>2 DEF Waiting, Known
  <2> QED
    BY <1>4, <2>4, <2>5 DEF Heard, Greeting
<1>6. CASE ~Start
  <2>1. toServer' = toServer \/ toServer' = Sent(ByeTypes)
    BY <1>6 DEF StartFails, LogFails, Wake, EndOfDrain, SelectFails, Exit,
                netVars, Finalize, SayBye
  <2>2. Stays(toServer', toServer, {"bye"})
    BY <1>1, <2>1, StaysSame, StaysBye
  <2>3. Stays(toClient', toClient, Later)
    BY <1>0, <1>1, StaysSame
  <2>4. pc' # "start" /\ (waited' = waited \/ waited' = 0)
    BY <1>6 DEF StartFails, LogFails, Wake, EndOfDrain, SelectFails, Exit
  <2>5. Greeting'
    BY <1>0, <1>1, <2>2, <2>3, <2>4, GreetKept
  <2>6. Waiting'
    <3>1. CASE EndOfDrain
      <4>1. waited' = 0 /\ faults' = faults
        BY <1>1, <3>1 DEF EndOfDrain, Place, faultVars
      <4>2. Calm' \in Nat /\ faults' \in Nat
        BY <1>1, <4>1, ConnectionAssumption DEF Calm, TypeOK
      <4>3. \A c, f \in Nat : 0 <= c + f /\ 0 <= c + f + 1
        OBVIOUS
      <4>4. waited' <= Calm' + faults' /\ waited' <= Calm' + faults' + 1
        BY <4>1, <4>2, <4>3, Zenon
      <4> QED
        BY <4>4 DEF Waiting
    <3>2. CASE ~EndOfDrain
      <4>1. pc' # "select"
        BY <1>6, <3>2 DEF StartFails, LogFails, Wake, SelectFails, Exit
      <4> QED
        BY <4>1 DEF Waiting
    <3> QED
      BY <3>1, <3>2
  <2> QED
    BY <1>4, <2>5, <2>6 DEF Heard
<1> QED
  BY <1>5, <1>6

\* A known client that may not err has heard nothing for no longer than the
\* calm and the faults account for when a tick ends with nothing to read.
LEMMA TickCalm ==
  ASSUME Inv, Heard, QuietTick, Known, ~MayErr
  PROVE  /\ waited <= Calm + faults
         /\ ~Blind => config.kind = "player" \/ server.eye
<1>1. /\ pc = "select" /\ toClient = <<>> /\ toServer = <<>>
      /\ server.served
  BY DEF QuietTick, Known
<1>2. ~Asks(toServer, "check_ball") /\ ~Asks(toServer, "eye")
      /\ ~Answers(toClient, "init_ok")
  BY <1>1 DEF Asks, Answers
<1>3. ~Owed
  BY <1>1, <1>2 DEF Owed
<1>4. config.kind \in Kinds /\ config.eye \in BOOLEAN
  BY DEF Inv, TypeOK
<1>5. ~Blind => config.kind = "player" \/ server.eye
  BY <1>2, <1>4 DEF Heard, Seeing, MayErr, Blind, Kinds
<1>6. waited <= Calm + faults
  BY <1>1, <1>3 DEF Heard, Waiting
<1> QED
  BY <1>5, <1>6

\* What a client asks for or gives up at the end of a tick keeps the waiting
\* within bounds: a tick beyond the calm leaves something to come.
LEMMA HeardTimeout == Inv /\ Heard /\ Timeout => Heard'
<1> SUFFICES ASSUME Inv, Heard, Timeout PROVE Heard'
  OBVIOUS
<1>0. /\ config' = config /\ toClient' = toClient /\ packed' = packed
      /\ lost' = lost /\ faults' = faults
      /\ server' = [server EXCEPT !.served = FALSE]
      /\ toServer = <<>> /\ toClient = <<>> /\ pc = "select"
      /\ waited' = waited + 1 /\ QuietTick
  BY DEF Timeout, QuietTick, faultVars
<1>1. TypeOK /\ Place /\ server'.served = FALSE /\ server'.up = server.up
      /\ server'.known = server.known /\ server'.eye = server.eye
  BY <1>0 DEF Inv, TypeOK
<1>2. toServer' \in {<<>>, <<"check_ball">>}
  <2>1. \/ toServer' = toServer \/ toServer' = Sent(<<"check_ball">>)
        \/ toServer' = Sent(<<>>)
    BY DEF Timeout
  <2> QED
    BY <1>0, <2>1 DEF Sent
<1>3. /\ ~Asks(toServer', "init") /\ ~Asks(toServer, "eye")
      /\ ~Answers(toClient', "init_ok") /\ ~Answers(toClient, "init_ok")
  BY <1>0, <1>2 DEF Asks, Answers
<1>4. Greeting'
  <2>1. pc' # "start"
    BY <1>0 DEF Timeout
  <2> QED
    BY <1>3, <2>1, GreetOver
<1>5. Seeing'
  BY <1>0, <1>1, <1>3, SeeKept DEF Heard, Known
<1>6. Waiting'
  <2> SUFFICES ASSUME Known', pc' = "select", ~MayErr'
               PROVE  /\ waited' <= Calm' + faults' + 1
                      /\ \/ waited' <= Calm' + faults'
                         \/ toClient' # <<>> \/ Owed'
    BY DEF Waiting
  <2>1. Known /\ ~MayErr
    BY <1>0, <1>1 DEF Known, MayErr, EyeLost
  <2>2. /\ waited <= Calm + faults
        /\ ~Blind => config.kind = "player" \/ server.eye
    BY <1>0, <2>1, TickCalm
  <2>3. Calm \in Nat /\ Calm' = Calm /\ (Blind' <=> Blind)
        /\ waited \in Nat /\ faults \in Nat /\ ServerWait \in Nat
    BY <1>0, <1>1, ConnectionAssumption DEF Calm, Blind, TypeOK
  <2>4. waited + 1 <= Calm + faults + 1
    BY <2>2, <2>3
  <2>5. waited' <= Calm + faults \/ Owed'
    <3>1. CASE Blind
      <4>1. CASE waited + 1 > ServerWait
        <5>1. ~(waited' > Patience)
          BY <1>0 DEF Timeout
        <5>2. toServer' = <<"check_ball">>
          BY <1>0, <2>1, <4>1, <5>1 DEF Timeout, Sent, Known
        <5>3. Asks(toServer', "check_ball")
          BY <5>2 DEF Asks
        <5> QED
          BY <2>3, <3>1, <5>3 DEF Owed
      <4>2. CASE ~(waited + 1 > ServerWait)
        <5>1. Calm = ServerWait
          BY <3>1 DEF Calm
        <5>2. waited + 1 <= Calm + faults
          BY <2>3, <4>2, <5>1
        <5> QED
          BY <1>0, <5>2
      <4> QED
        BY <4>1, <4>2
    <3>2. CASE ~Blind
      BY <1>0, <1>1, <2>2, <2>3, <3>2 DEF Owed
    <3> QED
      BY <3>1, <3>2
  <2> QED
    BY <1>0, <2>3, <2>4, <2>5, Zenon
<1> QED
  BY <1>4, <1>5, <1>6 DEF Heard

\* Without its head a queue still holds everything but the head.
LEMMA RestAsks ==
  ASSUME NEW S, NEW s \in Seq(S), s # <<>>, NEW t
  PROVE  /\ Asks(Tail(s), t) => Asks(s, t)
         /\ Asks(s, t) => Head(s) = t \/ Asks(Tail(s), t)
         /\ Answers(Tail(s), t) => Answers(s, t)
         /\ Answers(s, t) => Head(s).type = t \/ Answers(Tail(s), t)
<1> DEFINE r == Tail(s)
           h == Head(s)
<1>1. /\ 1 \in 1 .. Len(s) /\ h = s[1]
      /\ \A k \in 1 .. Len(r) :
           k + 1 \in 1 .. Len(s) /\ k + 1 # 1 /\ r[k] = s[k + 1]
      /\ \A k \in 1 .. Len(s) :
           k = 1 \/ (k - 1 \in 1 .. Len(r) /\ r[k - 1] = s[k])
  BY Rest
<1> HIDE DEF r, h
<1>2. /\ Asks(r, t) => Asks(s, t)
      /\ Answers(r, t) => Answers(s, t)
  BY <1>1 DEF Asks, Answers
<1>3. /\ Asks(s, t) => h = t \/ Asks(r, t)
      /\ Answers(s, t) => h.type = t \/ Answers(r, t)
  BY <1>1 DEF Asks, Answers
<1> QED
  BY <1>2, <1>3 DEF r, h

\* What the head of a queue says of the greeting: no init and no answer to
\* one is beside a datagram of another kind.
LEMMA HeadGreets ==
  ASSUME TypeOK, Greeting
  PROVE  /\ toServer # <<>> /\ Head(toServer) \notin {"init", "bye"} =>
              ~Asks(toServer, "init") /\ ~Answers(toClient, "init_ok")
         /\ toServer # <<>> /\ Head(toServer) = "init" =>
              /\ toClient = <<>> /\ ~Asks(Tail(toServer), "init") /\ waited = 0
              /\ ~Asks(Tail(toServer), "eye")
              /\ \A j \in 1 .. Len(Tail(toServer)) : Tail(toServer)[j] = "bye"
              /\ ~packed /\ ~server.packed
         /\ toClient # <<>> => ~Asks(toServer, "init")
         /\ toClient # <<>> /\ Head(toClient).type = "init_ok" =>
              /\ ~Answers(Tail(toClient), "init_ok")
              /\ ~Head(toClient).packed /\ ~packed
         /\ toClient # <<>>
              /\ Head(toClient).type \notin {"init_ok", "cycle", "over"} =>
              ~Answers(toClient, "init_ok")
<1> USE DEF Greeting
<1>1. toServer \in Seq(ClientTypes) /\ toClient \in Seq(Message)
  BY DEF TypeOK, Message
<1>2. toClient # <<>> => ~Asks(toServer, "init")
  BY DEF InitAsked, Asks
<1>3. ASSUME toServer # <<>>
      PROVE  /\ Head(toServer) \notin {"init", "bye"} =>
                  ~Asks(toServer, "init") /\ ~Answers(toClient, "init_ok")
             /\ Head(toServer) = "init" =>
                  /\ toClient = <<>> /\ ~Asks(Tail(toServer), "init")
                  /\ waited = 0 /\ ~Asks(Tail(toServer), "eye")
                  /\ \A j \in 1 .. Len(Tail(toServer)) :
                       Tail(toServer)[j] = "bye"
                  /\ ~packed /\ ~server.packed
  <2> DEFINE r == Tail(toServer)
             h == Head(toServer)
  <2>1. /\ 1 \in 1 .. Len(toServer) /\ h = toServer[1]
        /\ \A k \in 1 .. Len(r) : /\ k + 1 \in 1 .. Len(toServer)
                                  /\ k + 1 # 1 /\ r[k] = toServer[k + 1]
    BY <1>1, <1>3, Rest
  <2> HIDE DEF r, h
  <2>2. ASSUME h \notin {"init", "bye"}
        PROVE  ~Asks(toServer, "init") /\ ~Answers(toClient, "init_ok")
    <3>1. ~Asks(toServer, "init")
      BY <2>1, <2>2 DEF InitAsked, Asks
    <3>2. ~Answers(toClient, "init_ok")
      BY <2>1, <2>2 DEF InitAnswered, Answers
    <3> QED
      BY <3>1, <3>2
  <2>3. ASSUME h = "init"
        PROVE  /\ toClient = <<>> /\ ~Asks(r, "init") /\ waited = 0
               /\ ~Asks(r, "eye")
               /\ \A j \in 1 .. Len(r) : r[j] = "bye"
               /\ ~packed /\ ~server.packed
    <3>1. /\ toClient = <<>> /\ waited = 0 /\ ~packed /\ ~server.packed
          /\ \A j \in 1 .. Len(toServer) : 1 = j \/ toServer[j] = "bye"
      BY <2>1, <2>3 DEF InitAsked
    <3>2. \A j \in 1 .. Len(r) : r[j] = "bye"
      BY <2>1, <3>1
    <3> QED
      BY <3>1, <3>2 DEF Asks
  <2> QED
    BY <2>2, <2>3 DEF r, h
<1>4. ASSUME toClient # <<>>
      PROVE  /\ Head(toClient).type = "init_ok" =>
                  /\ ~Answers(Tail(toClient), "init_ok")
                  /\ ~Head(toClient).packed /\ ~packed
             /\ Head(toClient).type \notin {"init_ok", "cycle", "over"} =>
                  ~Answers(toClient, "init_ok")
  <2> DEFINE r == Tail(toClient)
             h == Head(toClient)
  <2>1. /\ 1 \in 1 .. Len(toClient) /\ h = toClient[1]
        /\ \A k \in 1 .. Len(r) : /\ k + 1 \in 1 .. Len(toClient)
                                  /\ k + 1 # 1 /\ r[k] = toClient[k + 1]
    BY <1>1, <1>4, Rest
  <2> HIDE DEF r, h
  <2>2. ASSUME h.type = "init_ok"
        PROVE  ~Answers(r, "init_ok") /\ ~h.packed /\ ~packed
    <3>1. /\ ~h.packed /\ ~packed
          /\ \A j \in 1 .. Len(toClient) :
               1 = j \/ toClient[j].type \in {"cycle", "over"}
      BY <2>1, <2>2 DEF InitAnswered
    <3>2. ~Answers(r, "init_ok")
      BY <2>1, <3>1 DEF Answers
    <3> QED
      BY <3>1, <3>2
  <2>3. ASSUME h.type \notin {"init_ok", "cycle", "over"}
        PROVE  ~Answers(toClient, "init_ok")
    BY <2>1, <2>3 DEF InitAnswered, Answers
  <2> QED
    BY <2>2, <2>3 DEF r, h
<1> QED
  BY <1>2, <1>3, <1>4

\* Settings ask for the eye if the client wants it, and never for entry.
LEMMA SettingsAsk ==
  /\ ~Asks(Settings, "init")
  /\ config.kind # "player" /\ config.eye => Asks(Settings, "eye")
<1> DEFINE wants == config.kind # "player" /\ config.eye
           first == IF wants THEN <<"eye">> ELSE <<>>
           second == IF AsksCompression THEN <<"compression">> ELSE <<>>
<1>1. Settings = first \o second
  BY DEF Settings
<1>2. /\ first \in Seq({"eye"}) /\ second \in Seq({"compression"})
      /\ wants => Len(first) = 1 /\ first[1] = "eye"
  OBVIOUS
<1> HIDE DEF wants, first, second
<1>3. \A i \in 1 .. Len(Settings) : Settings[i] \in {"eye", "compression"}
  BY <1>1, <1>2
<1>4. ASSUME wants PROVE Asks(Settings, "eye")
  <2>1. Len(first) = 1 /\ first[1] = "eye" /\ Len(second) \in Nat
    BY <1>2, <1>4
  <2>2. Len(first \o second) = Len(first) + Len(second)
    BY <1>2
  <2>3. 1 \in 1 .. Len(first \o second) /\ (first \o second)[1] = first[1]
    BY <1>2, <2>1, <2>2
  <2> QED
    BY <1>1, <2>1, <2>3 DEF Asks
<1> QED
  BY <1>3, <1>4 DEF wants, Asks

\* The client that reads the answer to its init asks for its eye.
LEMMA HeardRead == Inv /\ Heard /\ Read => Heard'
<1> SUFFICES ASSUME Inv, Heard, Read PROVE Heard'
  OBVIOUS
<1> DEFINE m == Head(toClient)
<1>0. /\ config' = config /\ server' = server /\ lost' = lost
      /\ waited' = waited /\ pc' = "drain" /\ pc' = pc
      /\ toClient # <<>> /\ toClient' = Tail(toClient)
  BY DEF Read, faultVars
<1>1. /\ toServer \in Seq(ClientTypes) /\ toClient \in Seq(Message)
      /\ server.known \in BOOLEAN /\ TypeOK
      /\ Greeting /\ Seeing /\ Waiting
  BY DEF Inv, TypeOK, Message, Heard
<1>2. (CASE m.packed # packed    -> Unread
         [] m.type = "init_ok" -> ReadInit
         [] m.type = "comp_ok" -> ReadCompression
         [] m.type = "over"    -> ReadOver
         [] OTHER              -> Unread)
  BY DEF Read
<1>3. /\ ~Asks(toServer, "init")
      /\ m.type = "init_ok" =>
           ~Answers(toClient', "init_ok") /\ ~m.packed /\ ~packed
      /\ m.type \notin {"init_ok", "cycle", "over"} =>
           ~Answers(toClient, "init_ok")
  BY <1>0, <1>1, HeadGreets
<1>4. /\ Answers(toClient, "init_ok") =>
           m.type = "init_ok" \/ Answers(toClient', "init_ok")
      /\ Answers(toClient', "init_ok") => Answers(toClient, "init_ok")
  BY <1>0, <1>1, RestAsks
<1>5. m \in Message
  BY <1>0, <1>1
<1>6. Stays(toClient', toClient, Later)
  BY <1>0, <1>1, StaysTail
<1> HIDE DEF m
<1>7. CASE m.type = "init_ok"
  <2>1. ReadInit
    <3>1. m.packed \in BOOLEAN /\ packed \in BOOLEAN
      BY <1>1, <1>5 DEF Message, TypeOK
    <3>2. ~(m.packed # packed)
      BY <1>3, <1>7, <3>1
    <3> QED
      BY <1>2, <1>7, <3>2
  <2>2. toServer' = Sent(Settings) /\ Settings \in Seq(ClientTypes)
    BY <2>1, SettingsFacts DEF ReadInit
  <2>3. /\ Asks(toServer, "eye") => Asks(toServer', "eye")
        /\ server.up /\ Asks(Settings, "eye") => Asks(toServer', "eye")
        /\ Asks(toServer', "init") =>
             Asks(toServer, "init") \/ Asks(Settings, "init")
    BY <1>1, <2>2, SentAsks
  <2>4. ~Asks(toServer', "init")
    BY <1>3, <2>3, SettingsAsk
  <2>5. Greeting'
    BY <1>0, <1>3, <1>7, <2>4, GreetOver
  <2>6. Seeing'
    BY <1>0, <1>1, <2>3, SeeKept, SettingsAsk DEF Known
  <2> QED
    BY <1>0, <2>5, <2>6 DEF Heard, Waiting
<1>8. CASE m.type # "init_ok"
  <2>1. Unread \/ (ReadCompression /\ m.type = "comp_ok") \/ ReadOver
    BY <1>2, <1>8
  <2>2. /\ Asks(toServer, "eye") => Asks(toServer', "eye")
        /\ Stays(toServer', toServer, {"bye"})
    <3>1. toServer' = toServer \/ toServer' = Sent(ByeTypes)
      BY <2>1 DEF Unread, ReadCompression, ReadOver, SayBye
    <3>2. CASE toServer' = toServer
      BY <1>1, <3>2, StaysSame
    <3>3. CASE toServer' = Sent(ByeTypes)
      BY <1>1, <3>3, StaysBye, SentAsks, ByeFacts
    <3> QED
      BY <3>1, <3>2, <3>3
  <2>3. Seeing'
    BY <1>0, <1>1, <1>4, <1>8, <2>2, SeeKept DEF Known
  <2>4. Greeting'
    <3>1. CASE packed' = packed
      BY <1>0, <1>1, <1>6, <2>2, <3>1, GreetKept
    <3>2. CASE packed' # packed
      <4>1. ReadCompression /\ m.type = "comp_ok"
        BY <2>1, <3>2 DEF Unread, ReadOver
      <4>2. toServer' = toServer
        BY <4>1 DEF ReadCompression
      <4> QED
        BY <1>0, <1>3, <1>4, <4>1, <4>2, GreetOver
    <3> QED
      BY <3>1, <3>2
  <2> QED
    BY <1>0, <2>3, <2>4 DEF Heard, Waiting
<1> QED
  BY <1>7, <1>8

\* A reply is read by the client, and adds nothing to what was under way but
\* itself.
LEMMA Replied ==
  ASSUME TypeOK, NEW t \in ServerTypes, Reply(t)
  PROVE  /\ toClient' # <<>>
         /\ \A u : Answers(toClient, u) => Answers(toClient', u)
         /\ Answers(toClient', t)
         /\ t # "init_ok" /\ ~Answers(toClient, "init_ok")
              => ~Answers(toClient', "init_ok")
         /\ t \in {"cycle", "over"} => Stays(toClient', toClient, Later)
<1> DEFINE m == [type |-> t, packed |-> server.packed]
<1>1. toClient \in Seq(Message) /\ toClient' = Append(toClient, m)
      /\ server.packed \in BOOLEAN
  BY DEF Reply, TypeOK, Message
<1>2. /\ Len(toClient) + 1 \in 1 .. Len(toClient')
      /\ toClient'[Len(toClient) + 1] = m
      /\ \A k \in 1 .. Len(toClient) :
           k \in 1 .. Len(toClient') /\ toClient'[k] = toClient[k]
      /\ \A k \in 1 .. Len(toClient') :
           k = Len(toClient) + 1 \/ k \in 1 .. Len(toClient)
  BY <1>1
<1>3. m.type = t
  OBVIOUS
<1>4. t \in {"cycle", "over"} => m \in Later
  BY <1>1 DEF Later
<1> HIDE DEF m
<1>5. t \in {"cycle", "over"} => Stays(toClient', toClient, Later)
  BY <1>1, <1>4, StaysLonger
<1>6. toClient' # <<>>
  BY <1>1
<1>7. /\ \A u : Answers(toClient, u) => Answers(toClient', u)
      /\ Answers(toClient', t)
      /\ t # "init_ok" /\ ~Answers(toClient, "init_ok")
           => ~Answers(toClient', "init_ok")
  BY <1>2, <1>3 DEF Answers
<1> QED
  BY <1>5, <1>6, <1>7

\* What the server answers comes in time.
LEMMA HeardReceive == Inv /\ Heard /\ ServerReceive => Heard'
<1> SUFFICES ASSUME Inv, Heard, ServerReceive PROVE Heard'
  OBVIOUS
<1> DEFINE type == Head(toServer)
<1>0. /\ config' = config /\ lost' = lost /\ faults' = faults
      /\ waited' = waited /\ pc' = pc /\ packed' = packed
      /\ toServer # <<>> /\ toServer' = Tail(toServer) /\ server.up
  BY DEF ServerReceive, faultVars, clientVars
<1>1. /\ toServer \in Seq(ClientTypes) /\ toClient \in Seq(Message)
      /\ TypeOK /\ Greeting /\ Seeing /\ Waiting
      /\ faults \in Nat /\ Calm \in Nat /\ Calm' = Calm
      /\ server.known \in BOOLEAN /\ server.packed \in BOOLEAN
  BY <1>0, ConnectionAssumption DEF Inv, TypeOK, Message, Heard, Calm, Blind
<1>2. pc # "start"
  BY <1>0, <1>1 DEF Greeting, AtStart
<1>3. (CASE type = "init"                        -> TakeInit
         [] server.known /\ type = "eye"         -> TakeEye
         [] server.known /\ type = "compression" -> TakeCompression
         [] server.known /\ type = "check_ball"  -> Reply("ball_ok")
                                                      /\ UNCHANGED server
         [] server.known /\ type = "bye"         -> TakeBye
         [] OTHER                                -> Ignore)
  BY DEF ServerReceive
<1>4. /\ type \notin {"init", "bye"} =>
           ~Asks(toServer, "init") /\ ~Answers(toClient, "init_ok")
      /\ type = "init" =>
           /\ toClient = <<>> /\ ~Asks(toServer', "init") /\ waited = 0
           /\ \A j \in 1 .. Len(toServer') : toServer'[j] = "bye"
           /\ ~packed /\ ~server.packed
  BY <1>0, <1>1, HeadGreets
<1>5. /\ Asks(toServer, "eye") => type = "eye" \/ Asks(toServer', "eye")
      /\ Asks(toServer, "check_ball") =>
           type = "check_ball" \/ Asks(toServer', "check_ball")
      /\ Asks(toServer', "init") => Asks(toServer, "init")
  BY <1>0, <1>1, RestAsks
<1>6. Stays(toServer', toServer, {"bye"})
  BY <1>0, <1>1, StaysTail
<1>7. ServerTypes = {"init_ok", "error", "eye_ok", "comp_ok", "ball_ok",
                     "cycle", "over"}
  BY DEF ServerTypes
<1> HIDE DEF type
<1>8. CASE type = "init" /\ server' = [server EXCEPT !.known = TRUE]
             /\ Reply("init_ok")
  <2>1. toClient' = <<[type |-> "init_ok", packed |-> server.packed]>>
    BY <1>4, <1>8 DEF Reply
  <2>2. /\ toClient' # <<>> /\ Answers(toClient', "init_ok")
    BY <2>1 DEF Answers
  <2>3. server'.packed = server.packed
    BY <1>1, <1>8 DEF TypeOK
  <2>4. Greeting'
    <3>1. /\ \A i, j \in 1 .. Len(toClient') : i = j
          /\ \A i \in 1 .. Len(toClient') :
               toClient'[i].packed = server.packed
      BY <2>1
    <3>2. InitAnswered'
      BY <1>0, <1>4, <1>8, <2>3, <3>1 DEF InitAnswered
    <3>3. InitAsked'
      BY <1>4, <1>8 DEF InitAsked, Asks
    <3> QED
      BY <1>0, <1>2, <3>2, <3>3 DEF Greeting, AtStart
  <2>5. Seeing'
    BY <2>2 DEF Seeing
  <2>6. Waiting'
    <3>1. waited' = 0 /\ faults' \in Nat /\ Calm' \in Nat
      BY <1>0, <1>1, <1>4, <1>8
    <3>2. \A c, f \in Nat : 0 <= c + f + 1
      OBVIOUS
    <3>3. waited' <= Calm' + faults' + 1
      BY <3>1, <3>2, Zenon
    <3> QED
      BY <2>2, <3>3 DEF Waiting
  <2> QED
    BY <2>4, <2>5, <2>6 DEF Heard
<1>9. CASE type = "init" /\ Reply("error") /\ UNCHANGED server
  <2>1. /\ toClient' # <<>>
        /\ Answers(toClient, "init_ok") => Answers(toClient', "init_ok")
        /\ ~Answers(toClient, "init_ok") => ~Answers(toClient', "init_ok")
    <3>1. "error" \in ServerTypes
      BY <1>7
    <3> QED
      BY <1>1, <1>9, <3>1, Replied
  <2>2. Greeting'
    <3>1. ~Answers(toClient, "init_ok")
      BY <1>4, <1>9 DEF Answers
    <3> QED
      BY <1>0, <1>2, <1>4, <1>9, <2>1, <3>1, GreetOver
  <2>3. Seeing'
    BY <1>0, <1>1, <1>5, <1>9, <2>1, SeeKept DEF Known
  <2>4. Waiting'
    BY <1>0, <1>1, <1>9, <2>1, WaitKept DEF Known
  <2> QED
    BY <2>2, <2>3, <2>4 DEF Heard
<1>10. CASE type \notin {"init", "bye"} /\ server.known /\ toClient' # toClient
  <2>1. PICK t \in {"eye_ok", "comp_ok", "error", "ball_ok"} : Reply(t)
    BY <1>3, <1>10 DEF TakeEye, TakeCompression, Ignore
  <2>2. /\ server'.known = server.known /\ server'.up = server.up
        /\ server.eye => server'.eye
        /\ type = "eye" => server'.eye
    <3>1. \/ server' = server /\ type # "eye"
          \/ server' = [server EXCEPT !.eye = TRUE]
          \/ server' = [server EXCEPT !.packed = TRUE] /\ type # "eye"
      BY <1>3, <1>10 DEF TakeEye, TakeCompression, Ignore
    <3> QED
      BY <1>1, <3>1 DEF TypeOK
  <2>3. /\ toClient' # <<>>
        /\ Answers(toClient, "init_ok") => Answers(toClient', "init_ok")
        /\ ~Answers(toClient, "init_ok") => ~Answers(toClient', "init_ok")
    BY <1>1, <1>7, <2>1, Replied
  <2>4. Greeting'
    BY <1>0, <1>2, <1>4, <1>5, <1>10, <2>3, GreetOver
  <2>5. Seeing'
    BY <1>0, <1>1, <1>5, <2>2, <2>3, SeeKept DEF Known
  <2>6. Waiting'
    BY <1>0, <1>1, <2>2, <2>3, WaitKept DEF Known
  <2> QED
    BY <2>4, <2>5, <2>6 DEF Heard
<1>11. CASE /\ toClient' = toClient
            /\ \/ /\ server' = server
                  /\ server.known => type \notin {"eye", "check_ball"}
               \/ server' = [server EXCEPT !.known = FALSE]
  <2>1. /\ server'.packed = server.packed /\ server'.up = server.up
        /\ server'.eye = server.eye /\ server'.served = server.served
        /\ server'.known \in BOOLEAN
        /\ \/ /\ server'.known = server.known
              /\ server.known => type \notin {"eye", "check_ball"}
           \/ ~server'.known
    BY <1>1, <1>11 DEF TypeOK
  <2>2. Stays(toClient', toClient, Later)
    BY <1>1, <1>11, StaysSame
  <2>3. Greeting'
    BY <1>0, <1>1, <1>2, <1>6, <1>11, <2>1, <2>2, GreetKept
  <2>4. CASE ~server'.known
    BY <2>3, <2>4 DEF Heard, Seeing, Waiting, Known
  <2>5. CASE server'.known
    <3>1. server.known /\ type \notin {"eye", "check_ball"}
      BY <2>1, <2>5
    <3>2. Seeing'
      BY <1>0, <1>1, <1>5, <1>11, <2>1, <3>1, SeeKept DEF Known
    <3>3. Owed => Owed'
      BY <1>0, <1>5, <2>1, <3>1 DEF Owed, Blind
    <3>4. Waiting'
      BY <1>0, <1>1, <1>11, <2>1, <3>1, <3>3, WaitKept DEF Known
    <3> QED
      BY <2>3, <3>2, <3>4 DEF Heard
  <2> QED
    BY <2>4, <2>5
<1> QED
  <2>1. CASE type = "init"
    BY <1>3, <1>8, <1>9, <2>1 DEF TakeInit
  <2>2. CASE type # "init"
    <3>1. CASE ~server.known
      BY <1>3, <1>11, <2>2, <3>1 DEF Ignore
    <3>2. CASE server.known /\ type = "bye"
      BY <1>3, <1>11, <3>2 DEF TakeBye
    <3>3. CASE server.known /\ type \notin {"init", "bye"}
      <4>1. CASE toClient' # toClient
        BY <1>10, <3>3, <4>1
      <4>2. CASE toClient' = toClient
        <5>1. \A t \in ServerTypes : ~Reply(t)
          BY <1>1, <4>2 DEF Reply
        <5>2. type \notin {"eye", "compression", "check_ball"} /\ Ignore
          BY <1>3, <1>7, <3>3, <5>1 DEF TakeEye, TakeCompression
        <5> QED
          BY <1>11, <4>2, <5>2 DEF Ignore
      <4> QED
        BY <4>1, <4>2
    <3> QED
      BY <2>2, <3>1, <3>2, <3>3
  <2> QED
    BY <2>1, <2>2

\* The server's turn, the end of the match and the server's own end.
LEMMA HeardServer == Inv /\ Heard /\ (ServerCycle \/ End \/ Down) => Heard'
<1> SUFFICES ASSUME Inv, Heard, ServerCycle \/ End \/ Down PROVE Heard'
  OBVIOUS
<1>0. /\ config' = config /\ lost' = lost /\ faults' = faults
      /\ waited' = waited /\ pc' = pc /\ packed' = packed /\ server.up
  BY DEF ServerCycle, End, Down, faultVars, clientVars
<1>1. /\ toServer \in Seq(ClientTypes) /\ toClient \in Seq(Message)
      /\ TypeOK /\ Greeting /\ Seeing /\ Waiting /\ faults \in Nat
      /\ server.known \in BOOLEAN
  BY DEF Inv, TypeOK, Message, Heard
<1>2. pc = "start" => toServer = <<>>
  BY <1>1 DEF Greeting, AtStart
<1>3. CASE ServerCycle \/ End
  <2>1. toServer' = toServer
    BY <1>3 DEF ServerCycle, End
  <2>2. /\ server'.known = server.known /\ server'.up = server.up
        /\ server'.eye = server.eye /\ server'.packed = server.packed
        /\ End => server'.served = server.served
    BY <1>1, <1>3 DEF ServerCycle, End, TypeOK
  <2>3. \/ toClient' = toClient
        \/ server.known /\ \E t \in {"cycle", "over"} : Reply(t)
    BY <1>3 DEF ServerCycle, End
  <2>4. /\ Stays(toClient', toClient, Later)
        /\ toClient # <<>> => toClient' # <<>>
        /\ Answers(toClient, "init_ok") => Answers(toClient', "init_ok")
    <3>1. CASE toClient' = toClient
      BY <1>1, <3>1, StaysSame
    <3>2. CASE \E t \in {"cycle", "over"} : Reply(t)
      <4>1. {"cycle", "over"} \subseteq ServerTypes
        BY DEF ServerTypes
      <4> QED
        BY <1>1, <3>2, <4>1, Replied
    <3> QED
      BY <2>3, <3>1, <3>2
  <2>5. Greeting'
    <3>1. Stays(toServer', toServer, {"bye"})
      BY <1>1, <2>1, StaysSame
    <3>2. toClient = <<>> /\ ~server.known => toClient' = <<>>
      BY <2>3
    <3> QED
      BY <1>0, <1>1, <1>2, <2>1, <2>2, <2>4, <3>1, <3>2, GreetKept
  <2>6. Seeing'
    BY <1>0, <1>1, <2>1, <2>2, <2>4, SeeKept DEF Known
  <2>7. Known /\ Owed => Owed' \/ toClient' # <<>>
    <3>1. CASE End
      BY <1>0, <2>1, <2>2, <3>1 DEF Owed, Blind
    <3>2. CASE ServerCycle
      <4>1. CASE Blind
        BY <1>0, <2>1, <4>1 DEF Owed, Blind
      <4>2. CASE ~Blind
        <5>1. ASSUME Known, Owed PROVE toClient' # <<>>
          <6>1. Reply("cycle")
            BY <3>2, <4>2, <5>1 DEF ServerCycle, Owed, Known
          <6> QED
            BY <1>1, <6>1, Replied DEF ServerTypes
        <5> QED
          BY <5>1
      <4> QED
        BY <4>1, <4>2
    <3> QED
      BY <1>3, <3>1, <3>2
  <2>8. Waiting'
    BY <1>0, <1>1, <2>2, <2>4, <2>7, WaitKept DEF Known
  <2> QED
    BY <2>5, <2>6, <2>8 DEF Heard
<1>4. CASE Down
  <2>1. /\ toServer' = <<>> /\ toClient' = toClient
        /\ server' = [server EXCEPT !.up = FALSE]
    BY <1>4 DEF Down
  <2>2. /\ ~server'.up /\ server'.known = server.known
        /\ server'.packed = server.packed
    BY <1>1, <2>1 DEF TypeOK
  <2>3. Greeting'
    <3>1. Stays(toClient', toClient, Later)
      BY <1>1, <2>1, StaysSame
    <3>2. Stays(toServer', toServer, {"bye"})
      <4> DEFINE old == [k \in 1 .. Len(toServer') |-> 0]
      <4>1. Len(toServer') = 0 /\ \A k \in 1 .. Len(toServer') : FALSE
        BY <2>1
      <4>2. old \in [1 .. Len(toServer') -> 0 .. Len(toServer)]
        BY <4>1
      <4> HIDE DEF old
      <4> QED
        BY <4>1, <4>2 DEF Stays
    <3> QED
      BY <1>0, <1>1, <2>1, <2>2, <3>1, <3>2, GreetKept
  <2> QED
    BY <2>2, <2>3 DEF Heard, Seeing, Waiting, Known
<1> QED
  BY <1>3, <1>4

\* A fault takes one tick of the calm and no more.
LEMMA HeardNet == Inv /\ Heard /\ NetNext => Heard'
<1> SUFFICES ASSUME Inv, Heard, NetNext PROVE Heard'
  OBVIOUS
<1>0. /\ config' = config /\ server' = server /\ waited' = waited
      /\ pc' = pc /\ packed' = packed /\ faults' = faults + 1
      /\ lost \subseteq lost'
  BY DEF NetNext, LoseToServer, LoseToClient, Overtake, clientVars
<1>1. /\ toServer \in Seq(ClientTypes) /\ toClient \in Seq(Message)
      /\ TypeOK /\ Greeting /\ Seeing /\ Waiting
      /\ server.known \in BOOLEAN
  BY DEF Inv, TypeOK, Message, Heard
<1>2. faults' \in Nat /\ faults <= faults'
  <2>1. faults \in Nat
    BY DEF Inv, TypeOK
  <2>2. faults + 1 \in Nat /\ faults <= faults + 1
    BY <2>1
  <2> QED
    BY <1>0, <2>2
<1>3. Waiting'
  BY <1>0, <1>1, <1>2, WaitKept DEF Known
<1>4. pc = "start" => toServer = <<>> /\ toClient = <<>>
  BY <1>1 DEF Greeting, AtStart
<1>5. CASE LoseToServer
  <2>1. PICK i \in 1 .. Len(toServer) : /\ lost' = lost \union {toServer[i]}
                                        /\ toServer' = RemoveAt(toServer, i)
    BY <1>1, <1>5 DEF LoseToServer
  <2>2. toClient' = toClient /\ pc # "start"
    BY <1>4, <1>5, <2>1 DEF LoseToServer
  <2>3. /\ Stays(toServer', toServer, {"bye"})
        /\ Stays(toClient', toClient, Later)
    BY <1>1, <2>1, <2>2, StaysSame, StaysWithout
  <2>4. Greeting'
    BY <1>0, <1>1, <2>2, <2>3, GreetKept
  <2>5. Asks(toServer, "eye") => Asks(toServer', "eye") \/ "eye" \in lost'
    <3>1. /\ Len(toServer) \in Nat /\ Len(toServer') = Len(toServer) - 1
          /\ \A k \in 1 .. Len(toServer) - 1 :
               toServer'[k] = IF k < i THEN toServer[k] ELSE toServer[k + 1]
      BY <1>1, <2>1, RemoveAtFacts
    <3>2. ASSUME NEW k \in 1 .. Len(toServer), k # i
          PROVE  \E j \in 1 .. Len(toServer') : toServer'[j] = toServer[k]
      <4>1. CASE k < i
        <5>1. k \in 1 .. Len(toServer') /\ k \in 1 .. Len(toServer) - 1
          BY <3>1, <4>1
        <5>2. toServer'[k] = toServer[k]
          BY <3>1, <4>1, <5>1
        <5> QED
          BY <5>1, <5>2
      <4>2. CASE ~(k < i)
        <5>1. /\ k - 1 \in 1 .. Len(toServer') /\ ~(k - 1 < i)
              /\ k - 1 \in 1 .. Len(toServer) - 1 /\ (k - 1) + 1 = k
          BY <3>1, <3>2, <4>2
        <5> QED
          BY <3>1, <5>1
      <4> QED
        BY <4>1, <4>2
    <3> QED
      BY <2>1, <3>2 DEF Asks
  <2>6. Seeing'
    BY <1>0, <1>1, <2>2, <2>5, SeeKept DEF Known
  <2> QED
    BY <1>3, <2>4, <2>6 DEF Heard
<1>6. CASE LoseToClient
  <2>1. PICK i \in 1 .. Len(toClient) :
          /\ lost' = lost \union {toClient[i].type}
          /\ toClient' = RemoveAt(toClient, i)
    BY <1>1, <1>6 DEF LoseToClient
  <2>2. toServer' = toServer /\ pc # "start" /\ toClient # <<>>
    BY <1>4, <1>6, <2>1 DEF LoseToClient
  <2>3. /\ Stays(toServer', toServer, {"bye"})
        /\ Stays(toClient', toClient, Later)
    BY <1>1, <2>1, <2>2, StaysSame, StaysWithout
  <2>4. Greeting'
    BY <1>0, <1>1, <2>2, <2>3, GreetKept
  <2>5. Answers(toClient, "init_ok") =>
          Answers(toClient', "init_ok") \/ "init_ok" \in lost'
    <3>1. /\ Len(toClient) \in Nat /\ Len(toClient') = Len(toClient) - 1
          /\ \A k \in 1 .. Len(toClient) - 1 :
               toClient'[k] = IF k < i THEN toClient[k] ELSE toClient[k + 1]
      BY <1>1, <2>1, RemoveAtFacts
    <3>2. ASSUME NEW k \in 1 .. Len(toClient), k # i
          PROVE  \E j \in 1 .. Len(toClient') : toClient'[j] = toClient[k]
      <4>1. CASE k < i
        <5>1. k \in 1 .. Len(toClient') /\ k \in 1 .. Len(toClient) - 1
          BY <3>1, <4>1
        <5> QED
          BY <3>1, <4>1, <5>1
      <4>2. CASE ~(k < i)
        <5>1. /\ k - 1 \in 1 .. Len(toClient') /\ ~(k - 1 < i)
              /\ k - 1 \in 1 .. Len(toClient) - 1 /\ (k - 1) + 1 = k
          BY <3>1, <3>2, <4>2
        <5> QED
          BY <3>1, <5>1
      <4> QED
        BY <4>1, <4>2
    <3> QED
      BY <2>1, <3>2 DEF Answers
  <2>6. Seeing'
    BY <1>0, <1>1, <2>2, <2>5, SeeKept DEF Known
  <2> QED
    BY <1>3, <2>4, <2>6 DEF Heard
<1>7. CASE Overtake
  <2>1. PICK i \in 2 .. Len(toClient) :
          toClient' = [toClient EXCEPT ![i - 1] = toClient[i],
                                       ![i] = toClient[i - 1]]
    BY <1>7 DEF Overtake
  <2>2. toServer' = toServer /\ pc # "start" /\ toClient # <<>>
    BY <1>4, <1>7, <2>1 DEF Overtake
  <2>3. /\ Stays(toServer', toServer, {"bye"})
        /\ Stays(toClient', toClient, Later)
    BY <1>1, <2>1, <2>2, StaysSame, StaysSwapped
  <2>4. Greeting'
    BY <1>0, <1>1, <2>2, <2>3, GreetKept
  <2>5. Answers(toClient, "init_ok") => Answers(toClient', "init_ok")
    <3>1. /\ Len(toClient) \in Nat /\ i \in 1 .. Len(toClient)
          /\ i - 1 \in 1 .. Len(toClient) /\ Len(toClient') = Len(toClient)
          /\ toClient'[i] = toClient[i - 1]
          /\ toClient'[i - 1] = toClient[i]
          /\ \A k \in 1 .. Len(toClient) :
               k # i /\ k # i - 1 => toClient'[k] = toClient[k]
      BY <1>1, <2>1
    <3>2. ASSUME NEW k \in 1 .. Len(toClient)
          PROVE  \E j \in 1 .. Len(toClient') : toClient'[j] = toClient[k]
      BY <3>1
    <3> QED
      BY <3>2 DEF Answers
  <2>6. Seeing'
    BY <1>0, <1>1, <2>2, <2>5, SeeKept DEF Known
  <2> QED
    BY <1>3, <2>4, <2>6 DEF Heard
<1> QED
  BY <1>5, <1>6, <1>7 DEF NetNext

\* A client that has said nothing waits for nothing.
LEMMA HeardInit == Init => Heard
  BY DEF Init, Heard, Greeting, AtStart, InitAsked, InitAnswered, Seeing,
         Waiting, Known, Asks, Answers

\* Every step keeps what the client waits for coming.
LEMMA HeardNext == Inv /\ Heard /\ [Next]_vars => Heard'
<1>1. Inv /\ Heard /\ ClientNext => Heard'
  BY HeardClient, HeardTimeout, HeardRead DEF ClientNext
<1>2. Heard /\ UNCHANGED vars => Heard'
  BY DEF Heard, Greeting, AtStart, InitAsked, InitAnswered, Seeing, Waiting,
         Known, Asks, Answers, EyeLost, MayErr, Blind, Calm, Owed, vars,
         netVars, clientVars, faultVars
<1> QED
  BY <1>1, <1>2, HeardReceive, HeardServer, HeardNet DEF Next, ServerNext

\* A client gives up only after a silence longer than its patience, and one
\* that a running server knows is silent so long only if it may err.
LEMMA GivesUpOnlyDeaf ==
  ASSUME Inv, Heard, Next, pc = "select", alive, ~alive', Known
  PROVE  MayErr
<1>1. Timeout
  <2>1. ClientNext
    BY DEF Next, ServerNext, NetNext, ServerReceive, ServerCycle, End, Down,
           LoseToServer, LoseToClient, Overtake, clientVars
  <2> QED
    BY <2>1 DEF ClientNext, Start, StartFails, LogFails, Wake, Read,
                EndOfDrain, SelectFails, Exit
<1>2. /\ waited \in Nat /\ faults \in Nat /\ faults <= MaxFaults
      /\ MaxFaults \in Nat /\ ServerWait \in Nat /\ MaxFaults < ServerWait
      /\ Calm \in Nat /\ config.kind \in Kinds
  BY ConnectionAssumption DEF Inv, TypeOK, Calm
<1>3. waited + 1 > Patience /\ QuietTick
  BY <1>1 DEF Timeout
<1>4. Patience = Calm + ServerWait
  BY <1>2 DEF Patience, Calm, Blind
<1>5. ASSUME ~MayErr PROVE FALSE
  <2>1. waited <= Calm + faults
    BY <1>3, <1>5, TickCalm
  <2> QED
    BY <1>2, <1>3, <1>4, <2>1
<1> QED
  BY <1>5

\* No client takes a running server that knows it for dead, however few of
\* the datagrams arrive that the faults leave, unless it could not see: its
\* eye was never on because the one request or the answer before it was lost,
\* or it is a trainer that asks for none.
THEOREM NoClientErrs == Spec => NoFalseAlarm
<1>1. Inv /\ Heard /\ [Next]_vars
        => [pc = "select" /\ alive /\ ~alive' /\ server.up /\ server.known
              => /\ config.kind # "player"
                 /\ \/ config.eye /\ {"init_ok", "eye"} \intersect lost # {}
                    \/ config.kind = "trainer" /\ ~config.eye]_vars
  BY GivesUpOnlyDeaf DEF Known, MayErr, EyeLost
<1>2. Init /\ [][Next]_vars => []Heard
  <2>1. Init => Inv /\ Heard
    BY InitInv, HeardInit
  <2>2. Inv /\ Heard /\ [Next]_vars => (Inv /\ Heard)'
    BY NextInv, HeardNext
  <2> QED
    BY <2>1, <2>2, PTL
<1> QED
  BY <1>1, <1>2, InvCorrect, PTL DEF Spec, NoFalseAlarm
=============================================================================
