------------------------ MODULE Substitution_proofs -------------------------
(***************************************************************************)
(* For any team, any number of types, any limits and any pattern of lost   *)
(* and late requests and messages: the coach's list of available types     *)
(* offers only types that the used counts leave free, and a coach no       *)
(* message to which was lost knows the types and the count.  In a          *)
(* behaviour without a fault the server refuses nothing, and no            *)
(* substitution is spent on a rested player.                               *)
(***************************************************************************)
EXTENDS Substitution, FiniteSetTheorems, FunctionTheorems, TLAPS

\* What makes AvailableIsSubstitutable inductive: while a type is on the list,
\* its players and its places on the list fit into PtMax together.
FitsPtMax ==
    \A t \in Types \ {Hetero_Default} :
        available[t] > 0 => Used(typeId, t) + available[t] <= PtMax

IInv == TypeOK /\ FitsPtMax

-----------------------------------------------------------------------------
(* The used counts.                                                        *)

\* A count is a number, and none has the type that nobody has.
LEMMA UsedType ==
    ASSUME NEW typeOf, NEW t
    PROVE  Used(typeOf, t) \in Nat
<1> DEFINE users == {u \in Players : typeOf[u] = t}
<1>1. IsFiniteSet(users)
    BY PlayersAssumption, FS_Subset
<1> QED
    BY <1>1, FS_CardinalityType DEF Used

\* A change of one player's type adds at most that player to the type's users.
LEMMA UsedAfterChange ==
    ASSUME NEW typeOf \in [Players -> Types], NEW p \in Players, NEW to, NEW t
    PROVE  LET changed == [typeOf EXCEPT ![p] = to]
           IN  /\ Used(changed, t) <= Used(typeOf, t) + 1
               /\ t # to => Used(changed, t) <= Used(typeOf, t)
<1> DEFINE changed == [typeOf EXCEPT ![p] = to]
           before  == {u \in Players : typeOf[u] = t}
           after   == {u \in Players : changed[u] = t}
<1>1. IsFiniteSet(before) /\ IsFiniteSet(before \cup {p})
    BY PlayersAssumption, FS_Subset, FS_AddElement
<1>2. after \subseteq before \cup {p}
    OBVIOUS
<1>3. t # to => after \subseteq before
    OBVIOUS
<1>4. Cardinality(before \cup {p}) <= Cardinality(before) + 1
    BY <1>1, FS_AddElement, FS_CardinalityType
<1>5. /\ Cardinality(after) <= Cardinality(before \cup {p})
      /\ t # to => Cardinality(after) <= Cardinality(before)
    BY <1>1, <1>2, <1>3, FS_Subset
<1>6. /\ Cardinality(before) \in Nat /\ Cardinality(before \cup {p}) \in Nat
      /\ Cardinality(after) \in Nat
    BY <1>1, <1>2, FS_Subset, FS_CardinalityType
<1> HIDE DEF changed
<1>7. /\ Cardinality(after) <= Cardinality(before) + 1
      /\ t # to => Cardinality(after) <= Cardinality(before)
    BY <1>4, <1>5, <1>6
<1> QED
    BY <1>7 DEF Used, changed

-----------------------------------------------------------------------------
(* The types of the operators.                                             *)

\* The coach asks for known types only, and for its own players.
LEMMA SubstituteToType ==
    ASSUME NEW players \in SUBSET Players,
           NEW give \in [players -> Types \cup {Hetero_Unknown}]
    PROVE  SubstituteTo(give) \subseteq Players \X Types
BY DEF SubstituteTo

\* A message is of one of three kinds, and has that kind's fields.
LEMMA MessageFields ==
    ASSUME NEW message \in MessageToCoach
    PROVE  /\ message.type = "change" => message.unum \in Players /\ message.to \in Types
           /\ message.type = "see_global" => message.phase \in Phase /\ message.mode \in Mode
           /\ message.type = "hear" => message.unum \in Players
BY DEF MessageToCoach

-----------------------------------------------------------------------------
(* Type correctness, under every fault.                                    *)

LEMMA InitTypeOK == Init => TypeOK
<1> SUFFICES ASSUME Init PROVE TypeOK
    OBVIOUS
<1>1. types \in [Players -> Types] /\ typeId \in [Players -> Types]
    BY LimitsAssumption DEF Init, Types, Hetero_Default
<1>2. available \in [Types -> Nat]
    BY LimitsAssumption DEF Init
<1>3. inbox \in Seq(MessageToCoach)
    BY DEF Init
<1>4. QED
    <2>1. requests \subseteq Players \X Types /\ faults \in 0 .. MaxFaults
      BY FaultsAssumption DEF Init
    <2>2. /\ refused \in BOOLEAN /\ firstDone \in BOOLEAN /\ decided \in BOOLEAN
          /\ subs \in Nat /\ count \in Nat /\ happened \subseteq FaultKinds
          /\ tired \subseteq Players /\ weary \subseteq Players /\ heard \subseteq Players
      BY DEF Init
    <2>3. phase \in Phase /\ seenPhase \in Phase /\ mode \in Mode /\ seenMode \in Mode
      BY DEF Init, Phase, Mode
    <2> QED
      BY <1>1, <1>2, <1>3, <2>1, <2>2, <2>3 DEF TypeOK

\* The head of the inbox is a message, and the rest is an inbox.
LEMMA InboxHead ==
    ASSUME TypeOK, inbox # << >>
    PROVE  Head(inbox) \in MessageToCoach /\ Tail(inbox) \in Seq(MessageToCoach)
BY DEF TypeOK

\* The fault counters, in a step that is no fault and in one that is.
LEMMA FaultTypes ==
    ASSUME TypeOK, NEW kind, NoFault \/ Fault(kind)
    PROVE  happened' \subseteq FaultKinds /\ faults' \in 0 .. MaxFaults
<1>1. CASE NoFault
    BY <1>1 DEF NoFault, TypeOK
<1>2. CASE Fault(kind)
    <2>1. happened' \subseteq FaultKinds
      BY <1>2 DEF Fault, TypeOK
    <2>2. faults' \in 0 .. MaxFaults
      BY <1>2, FaultsAssumption DEF Fault, TypeOK
    <2> QED
      BY <2>1, <2>2
<1> QED
    BY <1>1, <1>2

LEMMA NextTypeOK == TypeOK /\ [Next]_vars => TypeOK'
<1> SUFFICES ASSUME TypeOK, [Next]_vars PROVE TypeOK'
    OBVIOUS
<1> USE DEF server, world
<1>1. CASE Serve
  <2>1. PICK request \in requests :
          /\ requests' = requests \ {request}
          /\ \/ /\ types' = [types EXCEPT ![request[1]] = request[2]]
                /\ subs' = IF Started(phase) THEN subs + 1 ELSE subs
                /\ tired' = tired \ {request[1]}
                /\ inbox' = Append(inbox, [type |-> "change", unum |-> request[1],
                                           to |-> request[2]])
                /\ UNCHANGED refused
             \/ refused' = TRUE /\ UNCHANGED <<types, subs, tired, inbox>>
    BY <1>1, Zenon DEF Serve
  <2>2. request[1] \in Players /\ request[2] \in Types
    BY DEF TypeOK
  <2>3. [type |-> "change", unum |-> request[1], to |-> request[2]] \in MessageToCoach
    BY <2>2 DEF MessageToCoach
  <2>4. inbox' \in Seq(MessageToCoach)
    <3> DEFINE change == [type |-> "change", unum |-> request[1], to |-> request[2]]
    <3>1. inbox' = Append(inbox, change) \/ inbox' = inbox
      BY <2>1
    <3>2. change \in MessageToCoach /\ inbox \in Seq(MessageToCoach)
      BY <2>3 DEF TypeOK
    <3> HIDE DEF change
    <3> QED
      BY <3>1, <3>2
  <2>5. types' \in [Players -> Types]
    BY <2>1, <2>2 DEF TypeOK
  <2>6. subs' \in Nat
    BY <2>1 DEF TypeOK
  <2>7. tired' \subseteq Players
    BY <2>1 DEF TypeOK
  <2>8. requests' \subseteq Players \X Types
    BY <2>1 DEF TypeOK
  <2>9. refused' \in BOOLEAN
    BY <2>1 DEF TypeOK
  <2>10. happened' \subseteq FaultKinds /\ faults' \in 0 .. MaxFaults
    BY <1>1, FaultTypes DEF Serve
  <2> QED
    BY <1>1, <2>4, <2>5, <2>6, <2>7, <2>8, <2>9, <2>10 DEF Serve, TypeOK
<1>2. CASE LoseRequest
  <2>1. happened' \subseteq FaultKinds /\ faults' \in 0 .. MaxFaults
    BY <1>2, FaultTypes DEF LoseRequest
  <2> QED
    BY <1>2, <2>1 DEF LoseRequest, TypeOK
<1>3. CASE Cycle
  <2> PICK p \in NextPhase : \E m \in ModesIn(p) :
        /\ phase' = p /\ mode' = m
        /\ inbox' = Append(inbox, [type |-> "see_global", phase |-> p, mode |-> m])
        /\ tired' = IF m = "before_kick_off" THEN {} ELSE tired
    BY <1>3 DEF Cycle
  <2> PICK m \in ModesIn(p) :
        /\ phase' = p /\ mode' = m
        /\ inbox' = Append(inbox, [type |-> "see_global", phase |-> p, mode |-> m])
        /\ tired' = IF m = "before_kick_off" THEN {} ELSE tired
    OBVIOUS
  <2>1. p \in Phase
    BY DEF NextPhase, Phase, TypeOK
  <2>2. m \in Mode
    BY <2>1 DEF ModesIn, Mode, Started, Phase
  <2>3. [type |-> "see_global", phase |-> p, mode |-> m] \in MessageToCoach
    BY <2>1, <2>2 DEF MessageToCoach
  <2>4. inbox' \in Seq(MessageToCoach) /\ tired' \subseteq Players
    BY <2>3 DEF TypeOK
  <2>5. happened' \subseteq FaultKinds /\ faults' \in 0 .. MaxFaults
    BY <1>3, FaultTypes DEF Cycle
  <2> QED
    BY <1>3, <2>1, <2>2, <2>4, <2>5 DEF Cycle, TypeOK
<1>4. CASE GetTired
    BY <1>4 DEF GetTired, NoFault, TypeOK
<1>5. CASE SayRecovery
  <2>1. PICK u \in tired : inbox' = Append(inbox, [type |-> "hear", unum |-> u])
    BY <1>5 DEF SayRecovery
  <2>2. [type |-> "hear", unum |-> u] \in MessageToCoach
    BY DEF MessageToCoach, TypeOK
  <2>3. inbox' \in Seq(MessageToCoach)
    BY <2>1, <2>2 DEF TypeOK
  <2> QED
    BY <1>5, <2>3 DEF SayRecovery, NoFault, TypeOK
<1>6. CASE LoseMessage
  <2>1. inbox' \in Seq(MessageToCoach)
    BY <1>6, InboxHead DEF LoseMessage
  <2>2. happened' \subseteq FaultKinds /\ faults' \in 0 .. MaxFaults
    BY <1>6, FaultTypes DEF LoseMessage
  <2> QED
    BY <1>6, <2>1, <2>2 DEF LoseMessage, TypeOK
<1>7. CASE ReadSeeGlobal
  <2>1. inbox' \in Seq(MessageToCoach) /\ Head(inbox) \in MessageToCoach
    BY <1>7, InboxHead DEF ReadSeeGlobal
  <2>2. seenPhase' \in Phase /\ seenMode' \in Mode
    BY <1>7, <2>1, MessageFields DEF ReadSeeGlobal
  <2> QED
    BY <1>7, <2>1, <2>2 DEF ReadSeeGlobal, NoFault, TypeOK
<1>8. CASE ReadHear
  <2>1. inbox' \in Seq(MessageToCoach) /\ Head(inbox) \in MessageToCoach
    BY <1>8, InboxHead DEF ReadHear
  <2>2. heard' \subseteq Players
    BY <1>8, <2>1, MessageFields DEF ReadHear, TypeOK
  <2> QED
    BY <1>8, <2>1, <2>2 DEF ReadHear, NoFault, TypeOK
<1>9. CASE SetPlayerType
  <2>1. inbox' \in Seq(MessageToCoach) /\ Head(inbox) \in MessageToCoach
    BY <1>9, InboxHead DEF SetPlayerType
  <2>2. Head(inbox).unum \in Players /\ Head(inbox).to \in Types
    BY <1>9, <2>1, MessageFields DEF SetPlayerType
  <2>3. typeId' \in [Players -> Types] /\ weary' \subseteq Players
    BY <1>9, <2>2 DEF SetPlayerType, Rested, TypeOK
  <2>4. count' \in Nat
    BY <1>9 DEF SetPlayerType, CountAfter, TypeOK
  <2>5. available' \in [Types -> Nat]
    BY <1>9, <2>2 DEF SetPlayerType, Erase, TypeOK
  <2> QED
    BY <1>9, <2>1, <2>3, <2>4, <2>5 DEF SetPlayerType, NoFault, TypeOK
<1>10. CASE Decide
  <2>1. WearyNow \subseteq Players
    BY DEF WearyNow, TypeOK
  <2>2. CASE FirstSubstitution
    <3>1. PICK present \in SUBSET (Players \ {Goalie}) :
            \E give \in Choices(present, FirstCandidates) :
               requests' = requests \cup SubstituteTo(give)
                             \cup SubstituteTo([u \in {Goalie} |-> Hetero_Default])
      BY <2>2 DEF FirstSubstitution
    <3>2. PICK give \in [present -> Types \cup {Hetero_Unknown}] :
            requests' = requests \cup SubstituteTo(give)
                          \cup SubstituteTo([u \in {Goalie} |-> Hetero_Default])
      BY <3>1 DEF Choices
    <3>3. SubstituteTo(give) \subseteq Players \X Types
      BY SubstituteToType
    <3>4. /\ {Goalie} \in SUBSET Players
          /\ [u \in {Goalie} |-> Hetero_Default] \in [{Goalie} -> Types \cup {Hetero_Unknown}]
      BY PlayersAssumption, LimitsAssumption DEF Types, Hetero_Default
    <3>5. SubstituteTo([u \in {Goalie} |-> Hetero_Default]) \subseteq Players \X Types
      BY <3>4, SubstituteToType
    <3>6. requests' \subseteq Players \X Types /\ firstDone' \in BOOLEAN
      BY <2>2, <3>2, <3>3, <3>5 DEF FirstSubstitution, TypeOK
    <3> QED
      BY <1>10, <2>1, <3>6 DEF Decide, NoFault, TypeOK
  <2>3. CASE TiredSubstitution
    <3>1. PICK some \in LoopReaches(WearyNow) : \E give \in Choices(some, available) :
            requests' = requests \cup SubstituteTo(give)
      BY <2>3 DEF TiredSubstitution
    <3>2. some \in SUBSET Players
      BY <2>1 DEF LoopReaches
    <3>3. PICK give \in [some -> Types \cup {Hetero_Unknown}] :
            requests' = requests \cup SubstituteTo(give)
      BY <3>1 DEF Choices
    <3>4. SubstituteTo(give) \subseteq Players \X Types
      BY <3>2, SubstituteToType
    <3>5. requests' \subseteq Players \X Types
      BY <3>3, <3>4 DEF TypeOK
    <3> QED
      BY <1>10, <2>1, <2>3, <3>5 DEF Decide, TiredSubstitution, NoFault, TypeOK
  <2>4. CASE NoSubstitution
    BY <1>10, <2>1, <2>4 DEF Decide, NoSubstitution, NoFault, TypeOK
  <2> QED
    BY <1>10, <2>2, <2>3, <2>4 DEF Decide
<1>11. CASE UNCHANGED vars
    BY <1>11 DEF vars, TypeOK
<1> QED
    BY <1>1, <1>2, <1>3, <1>4, <1>5, <1>6, <1>7, <1>8, <1>9, <1>10, <1>11 DEF Next

\* Every variable keeps its type, for every team, number of types, limit, and
\* set of faults.
THEOREM TypeCorrect == Spec => []TypeOK
<1>1. Init => TypeOK
    BY InitTypeOK
<1>2. TypeOK /\ [Next]_vars => TypeOK'
    BY NextTypeOK
<1> QED
    BY <1>1, <1>2, PTL DEF Spec

-----------------------------------------------------------------------------
(* The coach's two books.                                                  *)

LEMMA InitFits == Init => FitsPtMax
<1> SUFFICES ASSUME Init, NEW t \in Types \ {Hetero_Default}
             PROVE  Used(typeId, t) + available[t] <= PtMax
    BY DEF FitsPtMax
<1>1. {u \in Players : typeId[u] = t} = {}
    BY DEF Init
<1>2. Used(typeId, t) = 0
    BY <1>1, FS_EmptySet DEF Used
<1>3. available[t] = PtMax
    BY DEF Init
<1> QED
    BY <1>2, <1>3, LimitsAssumption

LEMMA NextFits == IInv /\ [Next]_vars => FitsPtMax'
<1> SUFFICES ASSUME IInv, [Next]_vars PROVE FitsPtMax'
    OBVIOUS
<1>1. CASE SetPlayerType
  <2> SUFFICES ASSUME NEW t \in Types \ {Hetero_Default}, available'[t] > 0
               PROVE  Used(typeId', t) + available'[t] <= PtMax
    BY DEF FitsPtMax, Used
  <2> DEFINE p  == Head(inbox).unum
             to == Head(inbox).to
  <2>1. Head(inbox) \in MessageToCoach
    BY <1>1, InboxHead DEF SetPlayerType, IInv
  <2>2. p \in Players /\ to \in Types
    BY <1>1, <2>1, MessageFields DEF SetPlayerType
  <2>3. typeId' = [typeId EXCEPT ![p] = to] /\ available' = Erase(available, to)
    BY <1>1 DEF SetPlayerType
  <2>4. typeId \in [Players -> Types] /\ available \in [Types -> Nat]
    BY DEF IInv, TypeOK
  <2> HIDE DEF p, to
  <2>5. /\ Used(typeId', t) <= Used(typeId, t) + 1
        /\ t # to => Used(typeId', t) <= Used(typeId, t)
    BY <2>2, <2>3, <2>4, UsedAfterChange
  <2>6. Used(typeId', t) \in Nat /\ Used(typeId, t) \in Nat
    BY UsedType
  <2>7. available[t] > 0 => Used(typeId, t) + available[t] <= PtMax
    BY DEF IInv, FitsPtMax
  <2>8. CASE t = to
    <3>1. available[t] > 0 /\ available'[t] = available[t] - 1
      BY <2>2, <2>3, <2>4, <2>8 DEF Erase
    <3> QED
      BY <2>4, <2>5, <2>6, <2>7, <3>1, LimitsAssumption
  <2>9. CASE t # to
    <3>1. available'[t] = available[t]
      BY <2>2, <2>3, <2>4, <2>9 DEF Erase
    <3> QED
      BY <2>4, <2>5, <2>6, <2>7, <2>9, <3>1, LimitsAssumption
  <2> QED
    BY <2>8, <2>9
<1>2. CASE UNCHANGED <<typeId, available>>
    BY <1>2 DEF IInv, FitsPtMax, Used
<1>3. ~SetPlayerType => UNCHANGED <<typeId, available>>
    BY DEF Next, vars, world, Serve, LoseRequest, Cycle, GetTired, SayRecovery,
           LoseMessage, ReadSeeGlobal, ReadHear, Decide
<1> QED
    BY <1>1, <1>2, <1>3

LEMMA FitsIsSubstitutable == IInv => AvailableIsSubstitutable
<1> SUFFICES ASSUME IInv, NEW t \in Types \ {Hetero_Default}, available[t] > 0,
                    Started(seenPhase) => count < SubsMax
             PROVE  CanSubstitute(t)
    BY DEF AvailableIsSubstitutable
<1>1. Used(typeId, t) + available[t] <= PtMax
    BY DEF IInv, FitsPtMax
<1>2. Used(typeId, t) \in Nat /\ available[t] \in Nat
    BY UsedType DEF IInv, TypeOK
<1>3. Used(typeId, t) < PtMax
    BY <1>1, <1>2, LimitsAssumption
<1> QED
    BY <1>3 DEF CanSubstitute

\* Whatever is lost or late: a type that the coach's list offers, and that
\* substituteTo would ask for, is one that canSubstitute allows by the used
\* counts.
THEOREM BooksAgree == Spec => []AvailableIsSubstitutable
<1>1. Init => IInv
    BY InitTypeOK, InitFits DEF IInv
<1>2. IInv /\ [Next]_vars => IInv'
    BY NextTypeOK, NextFits DEF IInv
<1>3. IInv => AvailableIsSubstitutable
    BY FitsIsSubstitutable
<1> QED
    BY <1>1, <1>2, <1>3, PTL DEF Spec

-----------------------------------------------------------------------------
(* What is under way to the coach.                                         *)

\* A message changes a player's type, or tells that the match has started.
Changes(message, u) == message.type = "change" /\ message.unum = u
Starts(message)     == message.type = "see_global" /\ Started(message.phase)

\* A coach that knows of the start, or not, knows of it when it reads message i
\* of the inbox q; and the changes it counts by the time it has read them all.
StartKnown(known, q, i) == known \/ \E j \in 1 .. Len(q) : j < i /\ Starts(q[j])
Counted(known, q) ==
    {i \in 1 .. Len(q) : q[i].type = "change" /\ StartKnown(known, q, i)}

\* Once told of the start, the coach is not told otherwise.
InOrder(known, q) ==
    \A i \in 1 .. Len(q) :
        q[i].type = "see_global" /\ StartKnown(known, q, i) => Started(q[i].phase)

\* The last change under way says which type a player has, and if there is none
\* the coach knows it.
Tells(known, real, q, u) ==
    \/ known = real /\ \A i \in 1 .. Len(q) : ~Changes(q[i], u)
    \/ \E i \in 1 .. Len(q) :
          /\ Changes(q[i], u) /\ q[i].to = real
          /\ \A j \in 1 .. Len(q) : j > i => ~Changes(q[j], u)

\* A message at the end of the inbox.
LEMMA Appended ==
    ASSUME NEW q \in Seq(MessageToCoach), NEW m \in MessageToCoach
    PROVE  LET a == Append(q, m)
           IN  /\ a \in Seq(MessageToCoach)
               /\ Len(a) = Len(q) + 1 /\ Len(q) \in Nat
               /\ \A i \in 1 .. Len(q) : a[i] = q[i]
               /\ a[Len(q) + 1] = m
OBVIOUS

\* The inbox after its first message.
LEMMA Tailed ==
    ASSUME NEW q \in Seq(MessageToCoach), q # << >>
    PROVE  /\ Tail(q) \in Seq(MessageToCoach) /\ Len(q) \in Nat \ {0}
           /\ Len(Tail(q)) = Len(q) - 1
           /\ \A i \in 1 .. Len(q) - 1 : Tail(q)[i] = q[i + 1]
           /\ Head(q) = q[1]
OBVIOUS

\* A set of positions has as many elements as the set of the next positions.
LEMMA ShiftedSize ==
    ASSUME NEW n \in Nat, NEW P \in SUBSET (1 .. n)
    PROVE  LET Q == {i + 1 : i \in P}
           IN  IsFiniteSet(Q) /\ Cardinality(Q) = Cardinality(P)
<1> DEFINE Q == {i + 1 : i \in P}
           f == [i \in P |-> i + 1]
<1>1. IsFiniteSet(P)
  <2>1. IsFiniteSet(1 .. n)
    BY FS_Interval
  <2> QED
    BY <2>1, FS_Subset
<1>2. f \in Bijection(P, Q)
  <2>1. f \in [P -> Q] /\ \A q \in Q : \E i \in P : f[i] = q
    OBVIOUS
  <2>2. \A i, j \in P : f[i] = f[j] => i = j
    OBVIOUS
  <2> QED
    BY <2>1, <2>2, Fun_IsBij
<1>3. ExistsBijection(P, Q)
    BY <1>2, Fun_ExistsBij
<1> QED
    BY <1>1, <1>3, FS_Bijection

LEMMA CountedFinite ==
    ASSUME NEW known \in BOOLEAN, NEW q \in Seq(MessageToCoach)
    PROVE  IsFiniteSet(Counted(known, q)) /\ Cardinality(Counted(known, q)) \in Nat
<1>1. Counted(known, q) \in SUBSET (1 .. Len(q)) /\ Len(q) \in Int
    BY DEF Counted
<1>2. IsFiniteSet(1 .. Len(q))
    BY <1>1, FS_Interval
<1> QED
    BY <1>1, <1>2, FS_Subset, FS_CardinalityType

\* A message that comes last is counted if it is a change after the start, and
\* disturbs nothing else.
LEMMA CountedAppend ==
    ASSUME NEW known \in BOOLEAN, NEW q \in Seq(MessageToCoach), NEW m \in MessageToCoach
    PROVE  LET a == Append(q, m)
               n == Len(q) + 1
           IN  /\ \A i \in 1 .. n : StartKnown(known, a, i) <=> StartKnown(known, q, i)
               /\ StartKnown(known, a, n + 1) <=> StartKnown(known, q, n) \/ Starts(m)
               /\ Cardinality(Counted(known, a)) =
                    Cardinality(Counted(known, q))
                      + IF m.type = "change" /\ StartKnown(known, q, n) THEN 1 ELSE 0
<1> DEFINE a == Append(q, m)
           n == Len(q) + 1
<1>0. /\ Len(a) = n /\ n \in Nat \ {0} /\ Len(q) = n - 1 /\ a[n] = m
      /\ \A i \in 1 .. n - 1 : a[i] = q[i]
    BY Appended
<1> HIDE DEF a, n
<1>1. ASSUME NEW i \in 1 .. n PROVE StartKnown(known, a, i) <=> StartKnown(known, q, i)
    BY <1>0 DEF StartKnown
<1>2. StartKnown(known, a, n + 1) <=> StartKnown(known, q, n) \/ Starts(m)
  <2>1. StartKnown(known, a, n + 1) <=> known \/ \E j \in 1 .. n : Starts(a[j])
    BY <1>0 DEF StartKnown
  <2>2. StartKnown(known, q, n) <=> known \/ \E j \in 1 .. n - 1 : Starts(q[j])
    BY <1>0 DEF StartKnown
  <2>3. (\E j \in 1 .. n : Starts(a[j])) <=> (\E j \in 1 .. n - 1 : Starts(q[j])) \/ Starts(m)
    BY <1>0
  <2> QED
    BY <2>1, <2>2, <2>3
<1>3. Counted(known, a) =
        IF m.type = "change" /\ StartKnown(known, q, n)
        THEN Counted(known, q) \cup {n} ELSE Counted(known, q)
    BY <1>0, <1>1 DEF Counted
<1>4. n \notin Counted(known, q)
    BY <1>0 DEF Counted
<1>5. IsFiniteSet(Counted(known, q)) /\ Cardinality(Counted(known, q)) \in Nat
    BY CountedFinite
<1>6. Cardinality(Counted(known, q) \cup {n}) = Cardinality(Counted(known, q)) + 1
    BY <1>4, <1>5, FS_AddElement
<1>7. Cardinality(Counted(known, a)) =
        Cardinality(Counted(known, q))
          + IF m.type = "change" /\ StartKnown(known, q, n) THEN 1 ELSE 0
    BY <1>3, <1>5, <1>6
<1> QED
    BY <1>1, <1>2, <1>7 DEF a, n

\* A message that comes last keeps the order if it tells nothing older.
LEMMA InOrderAppend ==
    ASSUME NEW known \in BOOLEAN, NEW q \in Seq(MessageToCoach), NEW m \in MessageToCoach,
           InOrder(known, q),
           m.type = "see_global" /\ StartKnown(known, q, Len(q) + 1) => Started(m.phase)
    PROVE  InOrder(known, Append(q, m))
<1> DEFINE a == Append(q, m)
           n == Len(q) + 1
<1>0. /\ Len(a) = n /\ n \in Nat \ {0} /\ Len(q) = n - 1 /\ a[n] = m
      /\ \A i \in 1 .. n - 1 : a[i] = q[i]
    BY Appended
<1>1. \A i \in 1 .. n : StartKnown(known, a, i) <=> StartKnown(known, q, i)
    BY CountedAppend
<1> HIDE DEF a, n
<1>2. m.type = "see_global" /\ StartKnown(known, q, n) => Started(m.phase)
    BY DEF n
<1>3. \A i \in 1 .. n - 1 : q[i].type = "see_global" /\ StartKnown(known, q, i) => Started(q[i].phase)
    BY <1>0 DEF InOrder
<1>4. InOrder(known, a)
    BY <1>0, <1>1, <1>2, <1>3 DEF InOrder
<1> QED
    BY <1>4 DEF a

\* What the coach knows when it has read the first message.
LEMMA StartKnownTail ==
    ASSUME NEW known \in BOOLEAN, NEW q \in Seq(MessageToCoach), q # << >>, InOrder(known, q)
    PROVE  LET after == IF Head(q).type = "see_global" THEN Started(Head(q).phase) ELSE known
           IN  /\ after \in BOOLEAN
               /\ \A i \in 1 .. Len(q) :
                     StartKnown(after, Tail(q), i) <=> StartKnown(known, q, i + 1)
               /\ InOrder(after, Tail(q))
<1> DEFINE n == Len(q)
           t == Tail(q)
           h == Head(q)
           after == IF h.type = "see_global" THEN Started(h.phase) ELSE known
<1>0. /\ n \in Nat \ {0} /\ Len(t) = n - 1 /\ h = q[1]
      /\ \A i \in 1 .. n - 1 : t[i] = q[i + 1]
    BY Tailed
<1>1. after \in BOOLEAN
  <2>1. CASE h.type = "see_global"
    <3>1. after = Started(h.phase) /\ Started(h.phase) = (h.phase \in {"match", "late_match"})
      BY <2>1, Zenon DEF Started
    <3>2. (h.phase \in {"match", "late_match"}) \in BOOLEAN
      BY SMT
    <3> QED
      BY <3>1, <3>2, Zenon
  <2>2. CASE h.type # "see_global"
    BY <2>2, Zenon
  <2> QED
    BY <2>1, <2>2
<1>2. after <=> known \/ Starts(h)
  <2>1. StartKnown(known, q, 1) <=> known
    BY <1>0 DEF StartKnown
  <2>2. h.type = "see_global" /\ known => Started(h.phase)
    <3>1. 1 \in 1 .. n
      BY <1>0
    <3>2. q[1].type = "see_global" /\ StartKnown(known, q, 1) => Started(q[1].phase)
      BY <3>1, Zenon DEF InOrder
    <3> QED
      BY <1>0, <2>1, <3>2
  <2> QED
    BY <2>2 DEF Starts
<1> HIDE DEF after, t, h
<1>3. ASSUME NEW i \in 1 .. n PROVE StartKnown(after, t, i) <=> StartKnown(known, q, i + 1)
  <2>1. StartKnown(after, t, i) <=> known \/ Starts(h) \/ \E j \in 1 .. n - 1 : j < i /\ Starts(t[j])
    BY <1>0, <1>2 DEF StartKnown
  <2>2. StartKnown(known, q, i + 1) <=> known \/ \E j \in 1 .. n : j < i + 1 /\ Starts(q[j])
    BY <1>0 DEF StartKnown
  <2>3. (\E j \in 1 .. n : j < i + 1 /\ Starts(q[j]))
          <=> Starts(h) \/ \E j \in 1 .. n - 1 : j < i /\ Starts(t[j])
    <3>1. ASSUME NEW j \in 1 .. n, j < i + 1, Starts(q[j])
          PROVE  Starts(h) \/ \E k \in 1 .. n - 1 : k < i /\ Starts(t[k])
      <4>1. CASE j = 1
        BY <1>0, <3>1, <4>1
      <4>2. CASE j # 1
        <5>1. j - 1 \in 1 .. n - 1 /\ j - 1 < i /\ t[j - 1] = q[j]
          BY <1>0, <3>1, <4>2
        <5> QED
          BY <3>1, <5>1
      <4> QED
        BY <4>1, <4>2
    <3>2. ASSUME NEW j \in 1 .. n - 1, j < i, Starts(t[j])
          PROVE  \E k \in 1 .. n : k < i + 1 /\ Starts(q[k])
      <4>1. j + 1 \in 1 .. n /\ j + 1 < i + 1 /\ q[j + 1] = t[j]
        BY <1>0, <3>2
      <4> QED
        BY <3>2, <4>1
    <3>3. Starts(h) => 1 \in 1 .. n /\ 1 < i + 1 /\ Starts(q[1])
      BY <1>0
    <3> QED
      BY <3>1, <3>2, <3>3
  <2> QED
    BY <2>1, <2>2, <2>3
<1>4. InOrder(after, t)
  <2> SUFFICES ASSUME NEW i \in 1 .. n - 1, t[i].type = "see_global", StartKnown(after, t, i)
               PROVE  Started(t[i].phase)
    BY <1>0 DEF InOrder
  <2>1. i \in 1 .. n /\ i + 1 \in 1 .. n /\ t[i] = q[i + 1]
    BY <1>0
  <2>2. StartKnown(known, q, i + 1)
    BY <1>3, <2>1
  <2> QED
    BY <2>1, <2>2 DEF InOrder
<1> QED
    BY <1>1, <1>3, <1>4 DEF after, t, h

\* Reading the first message counts it if it is a change after the start.
LEMMA CountedTail ==
    ASSUME NEW known \in BOOLEAN, NEW q \in Seq(MessageToCoach), q # << >>, InOrder(known, q)
    PROVE  LET after == IF Head(q).type = "see_global" THEN Started(Head(q).phase) ELSE known
           IN  Cardinality(Counted(known, q)) =
                 Cardinality(Counted(after, Tail(q)))
                   + IF Head(q).type = "change" /\ known THEN 1 ELSE 0
<1> DEFINE n == Len(q)
           t == Tail(q)
           h == Head(q)
           after == IF h.type = "see_global" THEN Started(h.phase) ELSE known
           R == {i + 1 : i \in Counted(after, t)}
<1>0. /\ n \in Nat \ {0} /\ Len(t) = n - 1 /\ h = q[1] /\ t \in Seq(MessageToCoach)
      /\ \A i \in 1 .. n - 1 : t[i] = q[i + 1]
    BY Tailed
<1>1. /\ after \in BOOLEAN
      /\ \A i \in 1 .. n : StartKnown(after, t, i) <=> StartKnown(known, q, i + 1)
    BY StartKnownTail
<1>2. StartKnown(known, q, 1) <=> known
    BY <1>0 DEF StartKnown
<1> HIDE DEF after, t, h, n
<1>3. Counted(after, t) \in SUBSET (1 .. n) /\ n \in Nat
    BY <1>0 DEF Counted
<1>4. IsFiniteSet(R) /\ Cardinality(R) = Cardinality(Counted(after, t))
    BY <1>3, ShiftedSize
<1>5. \A i \in 1 .. n - 1 : i + 1 \in Counted(known, q) <=> i \in Counted(after, t)
  <2> TAKE i \in 1 .. n - 1
  <2>1. i \in 1 .. n /\ i + 1 \in 1 .. n /\ t[i] = q[i + 1]
    BY <1>0
  <2>2. StartKnown(after, t, i) <=> StartKnown(known, q, i + 1)
    BY <1>1, <2>1
  <2>3. i + 1 \in Counted(known, q) <=> q[i + 1].type = "change" /\ StartKnown(known, q, i + 1)
    BY <1>0, <2>1 DEF Counted, n
  <2>4. i \in Counted(after, t) <=> t[i].type = "change" /\ StartKnown(after, t, i)
    BY <1>0 DEF Counted
  <2> QED
    BY <2>1, <2>2, <2>3, <2>4
<1>6. 1 \in Counted(known, q) <=> h.type = "change" /\ known
    BY <1>0, <1>2 DEF Counted, n
<1>7. Counted(known, q) \subseteq 1 .. n /\ Counted(after, t) \subseteq 1 .. n - 1
    BY <1>0 DEF Counted, n
<1>8. Counted(known, q) = IF h.type = "change" /\ known THEN R \cup {1} ELSE R
  <2>1. ASSUME NEW i \in Counted(known, q), i # 1 PROVE i \in R
    <3>1. i - 1 \in 1 .. n - 1 /\ (i - 1) + 1 = i
      BY <1>0, <1>7, <2>1
    <3> QED
      BY <1>5, <2>1, <3>1
  <2>2. R \subseteq Counted(known, q)
    BY <1>5, <1>7
  <2> QED
    BY <1>6, <2>1, <2>2
<1>9. 1 \notin R
    BY <1>0, <1>7
<1>10. Cardinality(R \cup {1}) = Cardinality(R) + 1 /\ Cardinality(R) \in Nat
    BY <1>4, <1>9, FS_AddElement, FS_CardinalityType
<1>11. Cardinality(Counted(known, q)) =
         Cardinality(Counted(after, t)) + IF h.type = "change" /\ known THEN 1 ELSE 0
    BY <1>4, <1>8, <1>10
<1> QED
    BY <1>11 DEF after, t, h

\* A message that comes last tells the type of the player it is about.
LEMMA TellsAppend ==
    ASSUME NEW q \in Seq(MessageToCoach), NEW m \in MessageToCoach, NEW u,
           NEW known, NEW real, Tells(known, real, q, u)
    PROVE  Tells(known, IF Changes(m, u) THEN m.to ELSE real, Append(q, m), u)
<1> DEFINE a == Append(q, m)
           n == Len(q) + 1
<1>0. /\ Len(a) = n /\ n \in Nat \ {0} /\ Len(q) = n - 1 /\ a[n] = m
      /\ \A i \in 1 .. n - 1 : a[i] = q[i]
    BY Appended
<1> HIDE DEF a, n
<1>1. CASE Changes(m, u)
  <2>1. n \in 1 .. Len(a) /\ \A j \in 1 .. Len(a) : ~(j > n)
    BY <1>0
  <2>2. Tells(known, m.to, a, u)
    BY <1>0, <1>1, <2>1 DEF Tells
  <2> QED
    BY <1>1, <2>2 DEF a
<1>2. CASE ~Changes(m, u)
  <2>1. CASE known = real /\ \A i \in 1 .. Len(q) : ~Changes(q[i], u)
    <3>1. \A i \in 1 .. Len(a) : ~Changes(a[i], u)
      BY <1>0, <1>2, <2>1
    <3> QED
      BY <1>2, <2>1, <3>1 DEF Tells, a
  <2>2. CASE ~(known = real /\ \A i \in 1 .. Len(q) : ~Changes(q[i], u))
    <3>1. PICK i \in 1 .. Len(q) :
            /\ Changes(q[i], u) /\ q[i].to = real
            /\ \A j \in 1 .. Len(q) : j > i => ~Changes(q[j], u)
      BY <2>2 DEF Tells
    <3>2. i \in 1 .. Len(a) /\ a[i] = q[i]
      BY <1>0
    <3>3. \A j \in 1 .. Len(a) : j > i => ~Changes(a[j], u)
      BY <1>0, <1>2, <3>1
    <3>4. Tells(known, real, a, u)
      BY <3>1, <3>2, <3>3 DEF Tells
    <3> QED
      BY <1>2, <3>4 DEF a
  <2> QED
    BY <2>1, <2>2
<1> QED
    BY <1>1, <1>2

\* The coach that reads the first message knows as much as before.
LEMMA TellsTail ==
    ASSUME NEW q \in Seq(MessageToCoach), q # << >>, NEW u,
           NEW known, NEW real, Tells(known, real, q, u)
    PROVE  Tells(IF Changes(Head(q), u) THEN Head(q).to ELSE known, real, Tail(q), u)
<1> DEFINE n == Len(q)
           t == Tail(q)
           h == Head(q)
           now == IF Changes(h, u) THEN h.to ELSE known
<1>0. /\ n \in Nat \ {0} /\ Len(t) = n - 1 /\ h = q[1] /\ 1 \in 1 .. n
      /\ \A i \in 1 .. n - 1 : t[i] = q[i + 1]
    BY Tailed
<1> HIDE DEF n, t, h
<1>1. CASE known = real /\ \A i \in 1 .. n : ~Changes(q[i], u)
  <2>1. now = real
    BY <1>0, <1>1
  <2>2. \A i \in 1 .. Len(t) : ~Changes(t[i], u)
    BY <1>0, <1>1
  <2> QED
    BY <2>1, <2>2 DEF Tells, t, h
<1>2. ASSUME NEW i \in 1 .. n, Changes(q[i], u), q[i].to = real,
             \A j \in 1 .. n : j > i => ~Changes(q[j], u)
      PROVE  Tells(now, real, t, u)
  <2>1. CASE i = 1
    <3>1. now = real
      BY <1>0, <1>2, <2>1
    <3>2. ASSUME NEW j \in 1 .. Len(t) PROVE ~Changes(t[j], u)
      <4>1. j + 1 \in 1 .. n /\ j + 1 > i /\ t[j] = q[j + 1]
        BY <1>0, <2>1
      <4> QED
        BY <1>2, <4>1
    <3> QED
      BY <3>1, <3>2 DEF Tells
  <2>2. CASE i # 1
    <3>1. i - 1 \in 1 .. Len(t) /\ t[i - 1] = q[i]
      BY <1>0, <2>2
    <3>2. ASSUME NEW j \in 1 .. Len(t), j > i - 1 PROVE ~Changes(t[j], u)
      <4>1. j + 1 \in 1 .. n /\ j + 1 > i /\ t[j] = q[j + 1]
        BY <1>0, <3>2
      <4> QED
        BY <1>2, <4>1
    <3> HIDE DEF now
    <3> QED
      BY <1>2, <3>1, <3>2 DEF Tells
  <2> QED
    BY <2>1, <2>2
<1> QED
    BY <1>1, <1>2 DEF Tells, n, t, h

-----------------------------------------------------------------------------
(* What the coach knows of the players' types and of the substitutions.    *)

\* What makes BookkeepingAgrees inductive: with what is under way the coach
\* will know each player's type, whether the match has started, and how many
\* substitutions have been counted since.
TypesTold == \A u \in Players : Tells(typeId[u], types[u], inbox, u)
StartTold ==
    /\ InOrder(Started(seenPhase), inbox)
    /\ Started(phase) <=> StartKnown(Started(seenPhase), inbox, Len(inbox) + 1)
SubsTold  == subs = count + Cardinality(Counted(Started(seenPhase), inbox))

Told == "message" \notin happened => TypesTold /\ StartTold /\ SubsTold

\* Started is a truth value.
LEMMA StartedType == ASSUME NEW p PROVE Started(p) \in BOOLEAN
<1>1. (p \in {"match", "late_match"}) \in BOOLEAN
    BY SMT
<1>2. Started(p) = (p \in {"match", "late_match"})
    BY Zenon DEF Started
<1> QED
    BY <1>1, <1>2, Zenon

LEMMA InitTold == Init => Told
<1> SUFFICES ASSUME Init PROVE TypesTold /\ StartTold /\ SubsTold
    BY DEF Told
<1>1. inbox = << >> /\ Len(inbox) = 0 /\ subs = 0 /\ count = 0
    BY DEF Init
<1>2. ~Started(phase) /\ ~Started(seenPhase) /\ typeId = types
    BY DEF Init, Started
<1>3. Counted(Started(seenPhase), inbox) = {}
    BY <1>1 DEF Counted
<1>4. SubsTold
    BY <1>1, <1>3, FS_EmptySet DEF SubsTold
<1>5. TypesTold
    BY <1>1, <1>2 DEF TypesTold, Tells
<1>6. StartTold
    BY <1>1, <1>2 DEF StartTold, InOrder, StartKnown
<1> QED
    BY <1>4, <1>5, <1>6

\* Nothing that the coach's knowledge is about changes.
LEMMA SameTold ==
    ASSUME Told, happened \subseteq happened',
           UNCHANGED <<phase, types, subs, inbox, seenPhase, typeId, count>>
    PROVE  Told'
BY DEF Told, TypesTold, StartTold, SubsTold

\* The server sends a message.
LEMMA AppendTold ==
    ASSUME TypeOK, Told, happened \subseteq happened',
           NEW m \in MessageToCoach, inbox' = Append(inbox, m),
           UNCHANGED <<seenPhase, typeId, count>>,
           \A u \in Players : types'[u] = IF Changes(m, u) THEN m.to ELSE types[u],
           Started(phase') <=> Started(phase) \/ Starts(m),
           m.type = "see_global" /\ Started(phase) => Started(m.phase),
           subs' = subs + IF m.type = "change" /\ Started(phase) THEN 1 ELSE 0
    PROVE  Told'
<1> SUFFICES ASSUME "message" \notin happened'
             PROVE  TypesTold' /\ StartTold' /\ SubsTold'
    BY DEF Told
<1> DEFINE known == Started(seenPhase)
<1>1. TypesTold /\ StartTold /\ SubsTold
    BY DEF Told
<1>2. inbox \in Seq(MessageToCoach) /\ known \in BOOLEAN
    BY StartedType DEF TypeOK
<1>3. Started(phase) <=> StartKnown(known, inbox, Len(inbox) + 1)
    BY <1>1 DEF StartTold
<1>4. Len(inbox') = Len(inbox) + 1
    BY <1>2, Appended
<1> HIDE DEF known
<1>5. /\ StartKnown(known, inbox', Len(inbox) + 2)
           <=> StartKnown(known, inbox, Len(inbox) + 1) \/ Starts(m)
      /\ Cardinality(Counted(known, inbox')) =
           Cardinality(Counted(known, inbox))
             + IF m.type = "change" /\ StartKnown(known, inbox, Len(inbox) + 1) THEN 1 ELSE 0
  <2>1. Len(inbox) + 1 + 1 = Len(inbox) + 2
    BY <1>2
  <2>2. StartKnown(known, inbox', Len(inbox) + 1 + 1)
           <=> StartKnown(known, inbox, Len(inbox) + 1) \/ Starts(m)
    BY <1>2, CountedAppend
  <2>3. Cardinality(Counted(known, inbox')) =
           Cardinality(Counted(known, inbox))
             + IF m.type = "change" /\ StartKnown(known, inbox, Len(inbox) + 1) THEN 1 ELSE 0
    BY <1>2, CountedAppend
  <2> QED
    BY <2>1, <2>2, <2>3
<1>6. InOrder(known, inbox')
    BY <1>1, <1>2, <1>3, InOrderAppend DEF StartTold, known
<1>7. TypesTold'
  <2> SUFFICES ASSUME NEW u \in Players PROVE Tells(typeId[u], types'[u], inbox', u)
    BY DEF TypesTold
  <2>1. Tells(typeId[u], types[u], inbox, u)
    BY <1>1 DEF TypesTold
  <2> QED
    BY <1>2, <2>1, TellsAppend
<1>8. StartTold'
  <2>1. Started(phase') <=> StartKnown(known, inbox', Len(inbox') + 1)
    <3>1. Len(inbox') + 1 = Len(inbox) + 2
      BY <1>2, <1>4
    <3> QED
      BY <1>3, <1>5, <3>1
  <2>2. known = Started(seenPhase')
    BY DEF known
  <2> QED
    BY <1>6, <2>1, <2>2 DEF StartTold
<1>9. SubsTold'
  <2>1. subs = count + Cardinality(Counted(known, inbox))
    BY <1>1 DEF SubsTold, known
  <2>2. subs \in Nat /\ count \in Nat /\ Cardinality(Counted(known, inbox)) \in Nat
    BY <1>2, CountedFinite DEF TypeOK
  <2>3. subs' = count + Cardinality(Counted(known, inbox'))
    BY <1>3, <1>5, <2>1, <2>2
  <2> QED
    BY <2>3 DEF SubsTold, known
<1> QED
    BY <1>7, <1>8, <1>9

\* The coach reads a message.
LEMMA TailTold ==
    ASSUME TypeOK, Told, UNCHANGED <<happened, phase, types, subs>>,
           inbox # << >>, inbox' = Tail(inbox),
           Started(seenPhase') <=>
               IF Head(inbox).type = "see_global" THEN Started(Head(inbox).phase)
               ELSE Started(seenPhase),
           \A u \in Players :
               typeId'[u] = IF Changes(Head(inbox), u) THEN Head(inbox).to ELSE typeId[u],
           count' = count + IF Head(inbox).type = "change" /\ Started(seenPhase) THEN 1 ELSE 0
    PROVE  Told'
<1> SUFFICES ASSUME "message" \notin happened
             PROVE  TypesTold' /\ StartTold' /\ SubsTold'
    BY DEF Told
<1> DEFINE known == Started(seenPhase)
           h     == Head(inbox)
           after == IF h.type = "see_global" THEN Started(h.phase) ELSE known
<1>1. TypesTold /\ StartTold /\ SubsTold
    BY DEF Told
<1>2. inbox \in Seq(MessageToCoach) /\ known \in BOOLEAN
    BY StartedType DEF TypeOK
<1>3. InOrder(known, inbox) /\ (Started(phase) <=> StartKnown(known, inbox, Len(inbox) + 1))
    BY <1>1 DEF StartTold
<1>4. Len(inbox) \in Nat \ {0} /\ Len(inbox') = Len(inbox) - 1
    BY <1>2, Tailed
<1>5. /\ after \in BOOLEAN /\ InOrder(after, inbox')
      /\ \A i \in 1 .. Len(inbox) :
            StartKnown(after, inbox', i) <=> StartKnown(known, inbox, i + 1)
    BY <1>2, <1>3, StartKnownTail
<1>6. Cardinality(Counted(known, inbox)) =
        Cardinality(Counted(after, inbox')) + IF h.type = "change" /\ known THEN 1 ELSE 0
    BY <1>2, <1>3, CountedTail
<1>7. Started(seenPhase') = after
  <2>1. Started(seenPhase') \in BOOLEAN
    BY StartedType
  <2>2. Started(seenPhase') <=> after
    OBVIOUS
  <2> HIDE DEF after
  <2> QED
    BY <1>5, <2>1, <2>2
<1> HIDE DEF known, h, after
<1>8. TypesTold'
  <2> SUFFICES ASSUME NEW u \in Players PROVE Tells(typeId'[u], types[u], inbox', u)
    BY DEF TypesTold
  <2>1. Tells(typeId[u], types[u], inbox, u)
    BY <1>1 DEF TypesTold
  <2> QED
    BY <1>2, <2>1, TellsTail
<1>9. StartTold'
  <2>1. Len(inbox) \in 1 .. Len(inbox) /\ Len(inbox') + 1 = Len(inbox)
    BY <1>4
  <2>2. StartKnown(after, inbox', Len(inbox') + 1) <=> StartKnown(known, inbox, Len(inbox) + 1)
    BY <1>5, <2>1
  <2> QED
    BY <1>3, <1>5, <1>7, <2>2 DEF StartTold
<1>10. SubsTold'
  <2>1. subs = count + Cardinality(Counted(known, inbox))
    BY <1>1 DEF SubsTold, known
  <2>2. inbox' \in Seq(MessageToCoach)
    BY <1>2, Tailed
  <2>3. /\ subs \in Nat /\ count \in Nat
        /\ Cardinality(Counted(known, inbox)) \in Nat
        /\ Cardinality(Counted(after, inbox')) \in Nat
    BY <1>2, <1>5, <2>2, CountedFinite DEF TypeOK
  <2>4. count' = count + IF h.type = "change" /\ known THEN 1 ELSE 0
    BY DEF h, known
  <2>5. subs = count' + Cardinality(Counted(after, inbox'))
    <3>1. CASE h.type = "change" /\ known
      <4>1. Cardinality(Counted(known, inbox)) = Cardinality(Counted(after, inbox')) + 1
        BY <1>6, <3>1, Zenon
      <4>2. count' = count + 1
        BY <2>4, <3>1, Zenon
      <4> QED
        BY <2>1, <2>3, <4>1, <4>2
    <3>2. CASE ~(h.type = "change" /\ known)
      <4>1. Cardinality(Counted(known, inbox)) = Cardinality(Counted(after, inbox')) + 0
        BY <1>6, <3>2, Zenon
      <4>2. count' = count + 0
        BY <2>4, <3>2, Zenon
      <4> QED
        BY <2>1, <2>3, <4>1, <4>2
    <3> QED
      BY <3>1, <3>2
  <2> QED
    BY <1>7, <2>5 DEF SubsTold
<1> QED
    BY <1>8, <1>9, <1>10

\* A step that is a fault, or is none, forgets no fault.
LEMMA FaultsKept ==
    ASSUME NEW kind, NoFault \/ Fault(kind)
    PROVE  happened \subseteq happened'
BY DEF NoFault, Fault

\* The match does not stop being started.
LEMMA PhaseGrows ==
    ASSUME TypeOK, NEW p \in NextPhase
    PROVE  p \in Phase /\ (Started(phase) => Started(p))
BY DEF NextPhase, Phase, Started, TypeOK

\* The changes that Serve makes for one request.
ServeAccepts(request) ==
    /\ Acceptable(request[2])
    /\ types' = [types EXCEPT ![request[1]] = request[2]]
    /\ subs' = IF Started(phase) THEN subs + 1 ELSE subs
    /\ tired' = tired \ {request[1]}
    /\ inbox' = Append(inbox, [type |-> "change", unum |-> request[1], to |-> request[2]])
    /\ UNCHANGED refused

ServeRefuses(request) ==
    /\ ~Acceptable(request[2])
    /\ refused' = TRUE /\ UNCHANGED <<types, subs, tired, inbox>>

LEMMA ServeStep ==
    ASSUME TypeOK, Serve
    PROVE  /\ \E request \in requests :
                /\ requests' = requests \ {request}
                /\ request[1] \in Players /\ request[2] \in Types
                /\ [type |-> "change", unum |-> request[1], to |-> request[2]] \in MessageToCoach
                /\ ServeAccepts(request) \/ ServeRefuses(request)
           /\ UNCHANGED <<phase, mode, seenPhase, seenMode, typeId, available, count, weary,
                          heard, firstDone, decided, happened, faults>>
<1>1. PICK request \in requests :
        /\ requests' = requests \ {request}
        /\ ServeAccepts(request) \/ ServeRefuses(request)
    BY Zenon DEF Serve, ServeAccepts, ServeRefuses
<1>2. request[1] \in Players /\ request[2] \in Types
    BY DEF TypeOK
<1>3. [type |-> "change", unum |-> request[1], to |-> request[2]] \in MessageToCoach
    BY <1>2 DEF MessageToCoach
<1>4. UNCHANGED <<phase, mode, seenPhase, seenMode, typeId, available, count, weary,
                  heard, firstDone, decided, happened, faults>>
    BY DEF Serve, world, NoFault
<1> QED
    BY <1>1, <1>2, <1>3, <1>4

\* A new cycle, as the coach is told of it.
LEMMA CycleStep ==
    ASSUME TypeOK, Cycle
    PROVE  \E p \in NextPhase : \E m \in ModesIn(p) :
              /\ phase' = p /\ mode' = m
              /\ [type |-> "see_global", phase |-> p, mode |-> m] \in MessageToCoach
              /\ inbox' = Append(inbox, [type |-> "see_global", phase |-> p, mode |-> m])
              /\ tired' = IF m = "before_kick_off" THEN {} ELSE tired
<1>1. PICK p \in NextPhase : \E m \in ModesIn(p) :
        /\ phase' = p /\ mode' = m
        /\ inbox' = Append(inbox, [type |-> "see_global", phase |-> p, mode |-> m])
        /\ tired' = IF m = "before_kick_off" THEN {} ELSE tired
    BY DEF Cycle
<1>2. PICK m \in ModesIn(p) :
        /\ phase' = p /\ mode' = m
        /\ inbox' = Append(inbox, [type |-> "see_global", phase |-> p, mode |-> m])
        /\ tired' = IF m = "before_kick_off" THEN {} ELSE tired
    BY <1>1
<1>3. p \in Phase
    BY PhaseGrows
<1>4. m \in Mode
    BY <1>3 DEF ModesIn, Mode, Started, Phase
<1>5. [type |-> "see_global", phase |-> p, mode |-> m] \in MessageToCoach
    BY <1>3, <1>4 DEF MessageToCoach
<1> QED
    BY <1>2, <1>5

\* A player that says it is tired.
LEMMA SayStep ==
    ASSUME TypeOK, SayRecovery
    PROVE  \E u \in tired :
              /\ [type |-> "hear", unum |-> u] \in MessageToCoach
              /\ inbox' = Append(inbox, [type |-> "hear", unum |-> u])
<1>1. PICK u \in tired : inbox' = Append(inbox, [type |-> "hear", unum |-> u])
    BY DEF SayRecovery
<1>2. [type |-> "hear", unum |-> u] \in MessageToCoach
    BY DEF MessageToCoach, TypeOK
<1> QED
    BY <1>1, <1>2

LEMMA NextTold == TypeOK /\ Told /\ [Next]_vars => Told'
<1> SUFFICES ASSUME TypeOK, Told, [Next]_vars PROVE Told'
    OBVIOUS
<1> USE DEF server, world
<1>1. CASE Serve
  <2>1. PICK request \in requests :
          /\ requests' = requests \ {request}
          /\ request[1] \in Players /\ request[2] \in Types
          /\ [type |-> "change", unum |-> request[1], to |-> request[2]] \in MessageToCoach
          /\ ServeAccepts(request) \/ ServeRefuses(request)
    BY <1>1, ServeStep
  <2>2. UNCHANGED <<phase, seenPhase, typeId, count, happened>>
    BY <1>1, ServeStep
  <2>3. CASE ServeAccepts(request)
    <3> DEFINE m == [type |-> "change", unum |-> request[1], to |-> request[2]]
    <3>1. m \in MessageToCoach /\ inbox' = Append(inbox, m)
      BY <2>1, <2>3 DEF ServeAccepts
    <3>2. m.type = "change" /\ m.unum = request[1] /\ m.to = request[2]
      OBVIOUS
    <3> HIDE DEF m
    <3>3. \A u \in Players : types'[u] = IF Changes(m, u) THEN m.to ELSE types[u]
      BY <2>1, <2>3, <3>2 DEF ServeAccepts, Changes, TypeOK
    <3>4. ~Starts(m) /\ m.type # "see_global"
      BY <3>2 DEF Starts
    <3>5. subs' = subs + IF m.type = "change" /\ Started(phase) THEN 1 ELSE 0
      BY <2>3, <3>2 DEF ServeAccepts, TypeOK
    <3>6. Started(phase') <=> Started(phase) \/ Starts(m)
      BY <2>2, <3>4
    <3> QED
      BY <2>2, <3>1, <3>3, <3>4, <3>5, <3>6, AppendTold
  <2>4. CASE ServeRefuses(request)
    BY <2>2, <2>4, SameTold DEF ServeRefuses
  <2> QED
    BY <2>1, <2>3, <2>4
<1>2. CASE LoseRequest
  <2>1. happened \subseteq happened'
    BY <1>2, FaultsKept DEF LoseRequest
  <2> QED
    BY <1>2, <2>1, SameTold DEF LoseRequest
<1>3. CASE Cycle
  <2>1. PICK p \in NextPhase : \E m \in ModesIn(p) :
          /\ phase' = p /\ mode' = m
          /\ [type |-> "see_global", phase |-> p, mode |-> m] \in MessageToCoach
          /\ inbox' = Append(inbox, [type |-> "see_global", phase |-> p, mode |-> m])
          /\ tired' = IF m = "before_kick_off" THEN {} ELSE tired
    BY <1>3, CycleStep
  <2>2. PICK m \in ModesIn(p) :
          /\ phase' = p /\ mode' = m
          /\ [type |-> "see_global", phase |-> p, mode |-> m] \in MessageToCoach
          /\ inbox' = Append(inbox, [type |-> "see_global", phase |-> p, mode |-> m])
    BY <2>1
  <2> DEFINE see == [type |-> "see_global", phase |-> p, mode |-> m]
  <2>3. see.type = "see_global" /\ see.phase = p
    OBVIOUS
  <2>4. see \in MessageToCoach /\ inbox' = Append(inbox, see)
    BY <2>2
  <2> HIDE DEF see
  <2>5. happened \subseteq happened'
    BY <1>3, FaultsKept DEF Cycle
  <2>6. Started(phase) => Started(p)
    BY PhaseGrows
  <2>7. \A u \in Players : types'[u] = IF Changes(see, u) THEN see.to ELSE types[u]
    BY <1>3, <2>3 DEF Cycle, Changes
  <2>8. Started(phase') <=> Started(phase) \/ Starts(see)
    BY <2>2, <2>3, <2>6 DEF Starts
  <2>9. subs' = subs + IF see.type = "change" /\ Started(phase) THEN 1 ELSE 0
    BY <1>3, <2>3 DEF Cycle, TypeOK
  <2>10. UNCHANGED <<seenPhase, typeId, count>>
    BY <1>3 DEF Cycle
  <2> QED
    BY <2>3, <2>4, <2>5, <2>6, <2>7, <2>8, <2>9, <2>10, AppendTold
<1>4. CASE GetTired
    BY <1>4, SameTold DEF GetTired, NoFault
<1>5. CASE SayRecovery
  <2>1. PICK u \in tired :
          /\ [type |-> "hear", unum |-> u] \in MessageToCoach
          /\ inbox' = Append(inbox, [type |-> "hear", unum |-> u])
    BY <1>5, SayStep
  <2> DEFINE m == [type |-> "hear", unum |-> u]
  <2>2. m.type = "hear" /\ m \in MessageToCoach /\ inbox' = Append(inbox, m)
    BY <2>1
  <2> HIDE DEF m
  <2>3. ~Starts(m) /\ \A n \in Players : ~Changes(m, n)
    BY <2>2 DEF Starts, Changes
  <2>4. UNCHANGED <<phase, types, subs, seenPhase, typeId, count, happened>>
    BY <1>5 DEF SayRecovery, NoFault
  <2>5. subs' = subs + IF m.type = "change" /\ Started(phase) THEN 1 ELSE 0
    BY <2>2, <2>4 DEF TypeOK
  <2>6. Started(phase') <=> Started(phase) \/ Starts(m)
    BY <2>3, <2>4
  <2> QED
    BY <2>2, <2>3, <2>4, <2>5, <2>6, AppendTold
<1>6. CASE LoseMessage
    BY <1>6 DEF LoseMessage, Fault, Told
<1>7. CASE ReadSeeGlobal
  <2>1. \A u \in Players : ~Changes(Head(inbox), u)
    BY <1>7 DEF ReadSeeGlobal, Changes
  <2>2. count' = count + IF Head(inbox).type = "change" /\ Started(seenPhase) THEN 1 ELSE 0
    BY <1>7 DEF ReadSeeGlobal, TypeOK
  <2> QED
    BY <1>7, <2>1, <2>2, TailTold DEF ReadSeeGlobal, NoFault
<1>8. CASE ReadHear
  <2>1. \A u \in Players : ~Changes(Head(inbox), u)
    BY <1>8 DEF ReadHear, Changes
  <2>2. count' = count + IF Head(inbox).type = "change" /\ Started(seenPhase) THEN 1 ELSE 0
    BY <1>8 DEF ReadHear, TypeOK
  <2>3. Head(inbox).type # "see_global"
    BY <1>8 DEF ReadHear
  <2> QED
    BY <1>8, <2>1, <2>2, <2>3, TailTold DEF ReadHear, NoFault
<1>9. CASE SetPlayerType
  <2>1. /\ Head(inbox).type = "change" /\ inbox # << >> /\ inbox' = Tail(inbox)
        /\ typeId' = [typeId EXCEPT ![Head(inbox).unum] = Head(inbox).to]
        /\ count' = CountAfter(count)
        /\ UNCHANGED <<phase, types, subs, seenPhase, happened>>
    BY <1>9 DEF SetPlayerType, NoFault
  <2>2. \A u \in Players :
          typeId'[u] = IF Changes(Head(inbox), u) THEN Head(inbox).to ELSE typeId[u]
    BY <2>1 DEF Changes, TypeOK
  <2>3. count' = count + IF Head(inbox).type = "change" /\ Started(seenPhase) THEN 1 ELSE 0
    BY <2>1 DEF CountAfter, TypeOK
  <2> QED
    BY <2>1, <2>2, <2>3, TailTold
<1>10. CASE Decide
    BY <1>10, SameTold DEF Decide, NoFault
<1>11. CASE UNCHANGED vars
    BY <1>11, SameTold DEF vars
<1> QED
    BY <1>1, <1>2, <1>3, <1>4, <1>5, <1>6, <1>7, <1>8, <1>9, <1>10, <1>11 DEF Next

\* When no change is under way, what the coach is going to know it knows.
LEMMA ToldAgrees == TypeOK /\ Told => BookkeepingAgrees
<1> SUFFICES ASSUME TypeOK, Told, "message" \notin happened,
                    \A i \in 1 .. Len(inbox) : inbox[i].type # "change"
             PROVE  typeId = types /\ count = subs
    BY DEF BookkeepingAgrees
<1>1. ASSUME NEW u \in Players PROVE typeId[u] = types[u]
  <2>1. Tells(typeId[u], types[u], inbox, u)
    BY DEF Told, TypesTold
  <2> QED
    BY <2>1 DEF Tells, Changes
<1>2. typeId = types
    BY <1>1 DEF TypeOK
<1>3. Counted(Started(seenPhase), inbox) = {}
    BY DEF Counted
<1>4. subs = count + 0
    BY <1>3, FS_EmptySet DEF Told, SubsTold
<1> QED
    BY <1>2, <1>4 DEF TypeOK

\* If no message to the coach was lost and no change is under way, the coach
\* knows the type of each player and how many substitutions are counted.
THEOREM CoachInformed == Spec => []BookkeepingAgrees
<1>1. Init => TypeOK /\ Told
    BY InitTypeOK, InitTold
<1>2. TypeOK /\ Told /\ [Next]_vars => (TypeOK /\ Told)'
    BY NextTypeOK, NextTold
<1>3. TypeOK /\ Told => BookkeepingAgrees
    BY ToldAgrees
<1> QED
    BY <1>1, <1>2, <1>3, PTL DEF Spec

-----------------------------------------------------------------------------
(* A behaviour without a fault.                                            *)

\* The inbox holds a cycle that the coach has not seen, holds no change, tells
\* nothing but the present cycle and that at its front, says of tired players
\* only that they are tired; and the players whose change it holds.
Unseen(q) == \E i \in 1 .. Len(q) : q[i].type = "see_global"
NoChange(q) == \A i \in 1 .. Len(q) : q[i].type # "change"
Front(q, p, m) ==
    \A i \in 1 .. Len(q) :
        q[i].type = "see_global" => i = 1 /\ q[i].phase = p /\ q[i].mode = m
HearsOf(q, players) ==
    \A i \in 1 .. Len(q) : q[i].type = "hear" => q[i].unum \in players
Answered(q) == {u \in Players : \E i \in 1 .. Len(q) : Changes(q[i], u)}

Asking(asked, t) == {r \in asked : r[2] = t}

\* A cycle begins when everything asked for in the last one is answered, and
\* the coach asks once in it.
InCycle ==
    /\ Unseen(inbox) => decided
    /\ Unseen(inbox) \/ ~decided => requests = {} /\ NoChange(inbox)
    /\ Front(inbox, phase, mode)
    /\ ~Unseen(inbox) => seenPhase = phase /\ seenMode = mode

\* Everything the coach asks for together fits into the limits.
Affordable ==
    /\ requests # {} => mode # "play_on"
    /\ requests # {} /\ Started(phase) => subs + Cardinality(requests) <= SubsMax
    /\ AllowMultDefaultType =>
          \A t \in Types \ {Hetero_Default} :
              Used(types, t) + Cardinality(Asking(requests, t)) <= PtMax
    /\ ~firstDone /\ phase # "late_match" =>
          requests = {} /\ \A u \in Players : types[u] = Hetero_Default

\* When the coach asks it takes no rested player for tired, and it asks for
\* each player once.
Truthful ==
    /\ ~decided \/ Unseen(inbox) =>
          HearsOf(inbox, tired) /\ (mode = "before_kick_off" \/ weary \subseteq tired)
    /\ ~decided => heard \subseteq tired
    /\ decided /\ ~Unseen(inbox) => weary \subseteq tired \cup Answered(inbox)
    /\ \A r \in requests : Started(phase) => r[1] \in tired
    /\ \A r, s \in requests : r[1] = s[1] => r = s

Granted == AllowMultDefaultType => ~refused

Orderly == faults = 0 => happened = {} /\ InCycle /\ Affordable /\ Truthful /\ Granted

ModeFits == mode \in ModesIn(phase)

Inv == IInv /\ Told /\ ModeFits /\ Orderly

\* The inbox after a message is sent, and after one is read.
LEMMA InboxAppend ==
    ASSUME NEW q \in Seq(MessageToCoach), NEW m \in MessageToCoach
    PROVE  LET a == Append(q, m)
           IN  /\ Unseen(a) <=> Unseen(q) \/ m.type = "see_global"
               /\ NoChange(a) <=> NoChange(q) /\ m.type # "change"
               /\ \A p, o : Front(q, p, o) /\ m.type # "see_global" => Front(a, p, o)
               /\ \A players : HearsOf(q, players) /\ (m.type = "hear" => m.unum \in players)
                                 => HearsOf(a, players)
               /\ \A u \in Players : u \in Answered(a) <=> u \in Answered(q) \/ Changes(m, u)
<1> DEFINE a == Append(q, m)
           n == Len(q) + 1
<1>0. /\ Len(a) = n /\ n \in Nat \ {0} /\ Len(q) = n - 1 /\ a[n] = m
      /\ \A i \in 1 .. n - 1 : a[i] = q[i]
    BY Appended
<1> HIDE DEF a, n
<1>1. \A i \in 1 .. n : i = n \/ i \in 1 .. n - 1
    BY <1>0
<1>2. n \in 1 .. n /\ \A i \in 1 .. n - 1 : i \in 1 .. n
    BY <1>0
<1>3. Unseen(a) <=> Unseen(q) \/ m.type = "see_global"
    BY <1>0, <1>1, <1>2 DEF Unseen
<1>4. NoChange(a) <=> NoChange(q) /\ m.type # "change"
    BY <1>0, <1>1, <1>2 DEF NoChange
<1>5. ASSUME NEW p, NEW o, Front(q, p, o), m.type # "see_global" PROVE Front(a, p, o)
    BY <1>0, <1>1, <1>5 DEF Front
<1>6. ASSUME NEW players, HearsOf(q, players), m.type = "hear" => m.unum \in players
      PROVE  HearsOf(a, players)
    BY <1>0, <1>1, <1>6 DEF HearsOf
<1>7. \A u \in Players : u \in Answered(a) <=> u \in Answered(q) \/ Changes(m, u)
    BY <1>0, <1>1, <1>2 DEF Answered
<1> QED
    BY <1>3, <1>4, <1>5, <1>6, <1>7 DEF a

LEMMA InboxTail ==
    ASSUME NEW q \in Seq(MessageToCoach), q # << >>, NEW p, NEW o, Front(q, p, o)
    PROVE  LET t == Tail(q)
           IN  /\ ~Unseen(t)
               /\ Unseen(q) <=> Head(q).type = "see_global"
               /\ NoChange(q) => Head(q).type # "change" /\ NoChange(t)
               /\ Front(t, p, o)
               /\ Head(q).type = "see_global" => Head(q).phase = p /\ Head(q).mode = o
               /\ \A players : HearsOf(q, players) =>
                     HearsOf(t, players) /\ (Head(q).type = "hear" => Head(q).unum \in players)
               /\ \A u \in Players : u \in Answered(q) <=> u \in Answered(t) \/ Changes(Head(q), u)
<1> DEFINE n == Len(q)
           t == Tail(q)
           h == Head(q)
<1>0. /\ n \in Nat \ {0} /\ Len(t) = n - 1 /\ h = q[1] /\ 1 \in 1 .. n
      /\ \A i \in 1 .. n - 1 : t[i] = q[i + 1]
    BY Tailed
<1> HIDE DEF n, t, h
<1>1. ASSUME NEW i \in 1 .. Len(t) PROVE i + 1 \in 1 .. n /\ i + 1 # 1 /\ t[i] = q[i + 1]
    BY <1>0, <1>1
<1>2. ASSUME NEW i \in 1 .. n, i # 1 PROVE i - 1 \in 1 .. Len(t) /\ t[i - 1] = q[i]
    BY <1>0, <1>2
<1>3. ~Unseen(t)
    BY <1>1 DEF Unseen, Front, n
<1>4. Unseen(q) <=> h.type = "see_global"
    BY <1>0 DEF Unseen, Front, n
<1>5. NoChange(q) => h.type # "change" /\ NoChange(t)
    BY <1>0, <1>1 DEF NoChange, n
<1>6. Front(t, p, o)
    BY <1>3 DEF Front, Unseen
<1>7. h.type = "see_global" => h.phase = p /\ h.mode = o
    BY <1>0 DEF Front, n
<1>8. ASSUME NEW players, HearsOf(q, players)
      PROVE  HearsOf(t, players) /\ (h.type = "hear" => h.unum \in players)
    BY <1>0, <1>1, <1>8 DEF HearsOf, n
<1>9. ASSUME NEW u \in Players PROVE u \in Answered(q) <=> u \in Answered(t) \/ Changes(h, u)
    BY <1>0, <1>1, <1>2 DEF Answered, n
<1> QED
    BY <1>3, <1>4, <1>5, <1>6, <1>7, <1>8, <1>9 DEF t, h

\* Requests for different players are no more than the players.
LEMMA RequestsOfPlayers ==
    ASSUME NEW asked \in SUBSET (Players \X Types), NEW players, IsFiniteSet(players),
           \A r, s \in asked : r[1] = s[1] => r = s,
           \A r \in asked : r[1] \in players
    PROVE  Cardinality(asked) <= Cardinality(players)
<1> DEFINE f == [r \in asked |-> r[1]]
<1>1. f \in [asked -> players] /\ \A r, s \in asked : f[r] = f[s] => r = s
    OBVIOUS
<1> HIDE DEF f
<1>2. f \in Injection(asked, players)
    BY <1>1, Fun_IsInj
<1> QED
    BY <1>2, FS_Injection

\* The requests are finitely many.
LEMMA RequestsFinite ==
    ASSUME NEW asked \in SUBSET (Players \X Types)
    PROVE  /\ IsFiniteSet(asked) /\ Cardinality(asked) \in Nat
           /\ \A t : IsFiniteSet(Asking(asked, t)) /\ Cardinality(Asking(asked, t)) \in Nat
<1>1. IsFiniteSet(Types)
    BY LimitsAssumption, FS_Interval DEF Types
<1>2. IsFiniteSet(Players \X Types)
    BY <1>1, PlayersAssumption, FS_Product
<1>3. IsFiniteSet(asked)
    BY <1>2, FS_Subset
<1>4. \A t : IsFiniteSet(Asking(asked, t))
    BY <1>3, FS_Subset DEF Asking
<1> QED
    BY <1>3, <1>4, FS_CardinalityType

\* What is sent of a choice: requests for its players, one for each of them, of
\* types that the coach finds available.
LEMMA SubstituteToFacts ==
    ASSUME NEW players \in SUBSET Players,
           NEW give \in [players -> Types \cup {Hetero_Unknown}]
    PROVE  LET asked == SubstituteTo(give)
           IN  /\ asked \in SUBSET (Players \X Types)
               /\ \A r \in asked : /\ r[1] \in players /\ r[2] = give[r[1]]
                                   /\ r[2] \in Types /\ available[r[2]] > 0
               /\ \A r, s \in asked : r[1] = s[1] => r = s
               /\ \A t : Cardinality(Asking(asked, t)) <= Cardinality(GivenTo(give, t))
<1> DEFINE asked == SubstituteTo(give)
<1>1. asked \in SUBSET (Players \X Types)
    BY SubstituteToType
<1>2. \A r \in asked : /\ r[1] \in players /\ r[2] = give[r[1]]
                       /\ r[2] \in Types /\ available[r[2]] > 0
    BY DEF SubstituteTo
<1>3. \A r, s \in asked : r[1] = s[1] => r = s
    BY DEF SubstituteTo
<1> HIDE DEF asked
<1>4. ASSUME NEW t PROVE Cardinality(Asking(asked, t)) <= Cardinality(GivenTo(give, t))
  <2>1. GivenTo(give, t) \in SUBSET Players
    BY DEF GivenTo
  <2>2. IsFiniteSet(GivenTo(give, t))
    BY <2>1, PlayersAssumption, FS_Subset
  <2>3. Asking(asked, t) \in SUBSET (Players \X Types)
    BY <1>1 DEF Asking
  <2>4. \A r \in Asking(asked, t) : r[1] \in GivenTo(give, t)
    BY <1>2 DEF Asking, GivenTo
  <2>5. \A r, s \in Asking(asked, t) : r[1] = s[1] => r = s
    BY <1>3 DEF Asking
  <2> QED
    BY <2>2, <2>3, <2>4, <2>5, RequestsOfPlayers
<1> QED
    BY <1>1, <1>2, <1>3, <1>4 DEF asked

\* A step after which no fault has happened is no fault.
LEMMA CalmStep ==
    ASSUME TypeOK, Next, faults' = 0
    PROVE  /\ faults = 0 /\ happened' = happened
           /\ \/ Serve \/ GetTired \/ SayRecovery
              \/ Cycle /\ requests = {} /\ inbox = << >> /\ decided
              \/ ReadSeeGlobal \/ ReadHear \/ SetPlayerType \/ Decide
<1>1. ASSUME NEW kind PROVE ~Fault(kind)
    BY DEF Fault, TypeOK
<1>2. ~LoseRequest /\ ~LoseMessage
    BY <1>1 DEF LoseRequest, LoseMessage
<1>3. Cycle => requests = {} /\ inbox = << >> /\ decided /\ NoFault
    BY <1>1, Zenon DEF Cycle
<1>4. NoFault
  <2>1. CASE Serve
    BY <2>1, ServeStep DEF NoFault
  <2>2. CASE ~Serve
    BY <1>2, <1>3, <2>2 DEF Next, GetTired, SayRecovery, ReadSeeGlobal, ReadHear,
                            SetPlayerType, Decide
  <2> QED
    BY <2>1, <2>2
<1> QED
    BY <1>2, <1>3, <1>4 DEF Next, NoFault

\* A calm state, and what the coach knows in it.
Calm == TypeOK /\ FitsPtMax /\ Told /\ ModeFits /\ happened = {} /\ InCycle
          /\ Affordable /\ Truthful /\ Granted

LEMMA InitOrderly == Init => ModeFits /\ Orderly
<1> SUFFICES ASSUME Init PROVE ModeFits /\ Orderly
    OBVIOUS
<1>1. inbox = << >> /\ Len(inbox) = 0 /\ requests = {} /\ ~refused /\ happened = {} /\ decided
    BY DEF Init
<1>2. ModeFits
    BY DEF Init, ModeFits, ModesIn, Started
<1>3. ~Unseen(inbox) /\ NoChange(inbox) /\ Front(inbox, phase, mode) /\ HearsOf(inbox, tired)
    BY <1>1 DEF Unseen, NoChange, Front, HearsOf
<1>4. InCycle
    BY <1>1, <1>3 DEF InCycle, Init
<1>5. Affordable
  <2>1. ASSUME NEW t \in Types \ {Hetero_Default}
        PROVE  Used(types, t) + Cardinality(Asking(requests, t)) <= PtMax
    <3>1. {u \in Players : types[u] = t} = {} /\ Asking(requests, t) = {}
      BY <1>1 DEF Init, Asking
    <3>2. Used(types, t) = 0 /\ Cardinality(Asking(requests, t)) = 0
      BY <3>1, FS_EmptySet DEF Used
    <3> QED
      BY <3>2, LimitsAssumption
  <2> QED
    BY <1>1, <2>1 DEF Affordable, Init
<1>6. Truthful
    BY <1>1, <1>3 DEF Truthful, Init
<1> QED
    BY <1>1, <1>2, <1>4, <1>5, <1>6 DEF Orderly, Granted

LEMMA NextModeFits == TypeOK /\ ModeFits /\ [Next]_vars => ModeFits'
<1> SUFFICES ASSUME TypeOK, ModeFits, [Next]_vars PROVE ModeFits'
    OBVIOUS
<1>1. CASE Cycle
    BY <1>1, CycleStep DEF ModeFits, ModesIn
<1>2. CASE Serve
    BY <1>2, ServeStep DEF ModeFits, ModesIn
<1>3. ~Cycle /\ ~Serve => UNCHANGED <<phase, mode>>
    BY DEF Next, vars, server, LoseRequest, GetTired, SayRecovery, LoseMessage,
           ReadSeeGlobal, ReadHear, SetPlayerType, Decide
<1> QED
    BY <1>1, <1>2, <1>3 DEF ModeFits, ModesIn

\* A request in a calm state is under way in a cycle the coach has decided in,
\* and the server accepts it.
LEMMA CalmRequest ==
    ASSUME Calm, NEW request \in requests
    PROVE  /\ decided /\ ~Unseen(inbox) /\ mode # "play_on"
           /\ AllowMultDefaultType => Acceptable(request[2])
<1>1. decided /\ ~Unseen(inbox) /\ mode # "play_on"
    BY DEF Calm, InCycle, Affordable
<1>2. request \in Players \X Types /\ requests \in SUBSET (Players \X Types)
    BY DEF Calm, TypeOK
<1>3. IsFiniteSet(requests) /\ Cardinality(requests) \in Nat
    BY <1>2, RequestsFinite
<1>4. ASSUME Started(phase) PROVE subs < SubsMax
  <2>1. subs + Cardinality(requests) <= SubsMax
    BY <1>4 DEF Calm, Affordable
  <2>2. Cardinality(requests) # 0
    BY <1>3, FS_EmptySet
  <2>3. subs \in Nat
    BY DEF Calm, TypeOK
  <2> QED
    BY <1>3, <2>1, <2>2, <2>3, LimitsAssumption
<1>5. ASSUME AllowMultDefaultType, request[2] # Hetero_Default
      PROVE  Used(types, request[2]) < PtMax
  <2> DEFINE t == request[2]
             asking == Asking(requests, t)
  <2>1. Used(types, t) + Cardinality(asking) <= PtMax
    BY <1>2, <1>5 DEF Calm, Affordable
  <2>2. IsFiniteSet(asking) /\ Cardinality(asking) \in Nat
    BY <1>2, RequestsFinite
  <2>3. request \in asking
    BY DEF Asking
  <2> HIDE DEF asking
  <2>4. Cardinality(asking) # 0
    BY <2>2, <2>3, FS_EmptySet
  <2>5. Used(types, t) \in Nat
    BY UsedType
  <2> QED
    BY <2>1, <2>2, <2>4, <2>5, LimitsAssumption
<1> QED
    BY <1>1, <1>4, <1>5 DEF Acceptable

\* In a calm state that has not been decided in, the coach knows the present
\* cycle, the types and the count.
LEMMA CalmDecision ==
    ASSUME Calm, ~decided
    PROVE  /\ ~Unseen(inbox) /\ NoChange(inbox) /\ requests = {}
           /\ seenPhase = phase /\ seenMode = mode
           /\ typeId = types /\ count = subs
           /\ WearyNow \subseteq tired
<1>1. ~Unseen(inbox) /\ NoChange(inbox) /\ requests = {} /\ seenPhase = phase /\ seenMode = mode
    BY DEF Calm, InCycle
<1>2. typeId = types /\ count = subs
  <2>1. BookkeepingAgrees
    BY ToldAgrees DEF Calm
  <2>2. "message" \notin happened
    BY DEF Calm
  <2> QED
    BY <1>1, <2>1, <2>2 DEF BookkeepingAgrees, NoChange
<1>3. WearyNow \subseteq tired
  <2>1. CASE mode = "before_kick_off" /\ phase # "late_match"
    BY <1>1, <2>1 DEF WearyNow
  <2>2. CASE ~(mode = "before_kick_off" /\ phase # "late_match")
    <3>1. mode # "before_kick_off"
      BY <2>2 DEF Calm, ModeFits, ModesIn, Started
    <3>2. weary \subseteq tired /\ heard \subseteq tired
      BY <3>1 DEF Calm, Truthful
    <3> QED
      BY <3>2 DEF WearyNow
  <2> QED
    BY <2>1, <2>2
<1> QED
    BY <1>1, <1>2, <1>3

\* What the coach asks for in a calm state fits into the limits, and is for
\* different players, tired ones if the match has started.
Fitting(asked) ==
    /\ asked \in SUBSET (Players \X Types)
    /\ asked # {} => mode # "play_on"
    /\ asked # {} /\ Started(phase) => subs + Cardinality(asked) <= SubsMax
    /\ AllowMultDefaultType =>
          \A t \in Types \ {Hetero_Default} :
              Used(types, t) + Cardinality(Asking(asked, t)) <= PtMax
    /\ \A r \in asked : Started(phase) => r[1] \in tired
    /\ \A r, s \in asked : r[1] = s[1] => r = s

LEMMA FirstFits ==
    ASSUME Calm, ~decided, FirstSubstitution
    PROVE  Fitting(requests')
<1>1. PICK present \in SUBSET (Players \ {Goalie}) :
        \E give \in Choices(present, FirstCandidates) :
           requests' = requests \cup SubstituteTo(give)
                         \cup SubstituteTo([u \in {Goalie} |-> Hetero_Default])
    BY DEF FirstSubstitution
<1>2. PICK give \in Choices(present, FirstCandidates) :
        requests' = requests \cup SubstituteTo(give)
                      \cup SubstituteTo([u \in {Goalie} |-> Hetero_Default])
    BY <1>1
<1>3. requests = {} /\ seenPhase = phase
    BY CalmDecision
<1>4. phase = "kick_off_near" /\ ~Started(phase) /\ mode # "play_on"
    BY <1>3 DEF FirstSubstitution, Started, Calm, ModeFits, ModesIn
<1> DEFINE A == SubstituteTo(give)
           goalie == [u \in {Goalie} |-> Hetero_Default]
           B == SubstituteTo(goalie)
<1>5. give \in [present -> Types \cup {Hetero_Unknown}] /\ present \in SUBSET Players
    BY DEF Choices
<1>6. /\ {Goalie} \in SUBSET Players
      /\ goalie \in [{Goalie} -> Types \cup {Hetero_Unknown}]
    BY PlayersAssumption, LimitsAssumption DEF Types, Hetero_Default
<1>7. /\ A \in SUBSET (Players \X Types)
      /\ \A r \in A : r[1] \in present
      /\ \A r, s \in A : r[1] = s[1] => r = s
      /\ \A t : Cardinality(Asking(A, t)) <= Cardinality(GivenTo(give, t))
    BY <1>5, SubstituteToFacts
<1>8. /\ B \in SUBSET (Players \X Types)
      /\ \A r \in B : r[1] \in {Goalie} /\ r[2] = goalie[r[1]]
      /\ \A r, s \in B : r[1] = s[1] => r = s
    BY <1>6, SubstituteToFacts
<1>9. \A r \in B : r[1] = Goalie /\ r[2] = Hetero_Default
    BY <1>8
<1>10. requests' = A \cup B
    BY <1>2, <1>3
<1>11. \A t \in Types \ {Hetero_Default} :
          Cardinality(GivenTo(give, t)) <= FirstCandidates[t] /\ FirstCandidates[t] = PtMax
    BY DEF Choices, FirstCandidates
<1> HIDE DEF A, B, goalie
<1>12. ASSUME NEW t \in Types \ {Hetero_Default}
       PROVE  Used(types, t) + Cardinality(Asking(requests', t)) <= PtMax
  <2>1. \A u \in Players : types[u] = Hetero_Default
    BY <1>4 DEF Calm, Affordable, FirstSubstitution
  <2>2. {u \in Players : types[u] = t} = {}
    BY <2>1
  <2>3. Used(types, t) = 0
    BY <2>2, FS_EmptySet DEF Used
  <2>4. Asking(requests', t) = Asking(A, t)
    BY <1>9, <1>10 DEF Asking
  <2>5. Cardinality(GivenTo(give, t)) \in Nat /\ Cardinality(Asking(A, t)) \in Nat
    <3>1. GivenTo(give, t) \in SUBSET Players
      BY <1>5 DEF GivenTo
    <3>2. IsFiniteSet(GivenTo(give, t))
      BY <3>1, PlayersAssumption, FS_Subset
    <3> QED
      BY <1>7, <3>2, FS_CardinalityType, RequestsFinite
  <2>6. Cardinality(Asking(A, t)) <= Cardinality(GivenTo(give, t))
    BY <1>7
  <2>7. Cardinality(GivenTo(give, t)) <= PtMax
    BY <1>11
  <2> QED
    BY <2>3, <2>4, <2>5, <2>6, <2>7, LimitsAssumption
<1>13. ASSUME NEW r \in A \cup B, NEW s \in A \cup B, r[1] = s[1] PROVE r = s
  <2>1. Goalie \notin present
    OBVIOUS
  <2> QED
    BY <1>7, <1>8, <1>9, <1>13, <2>1
<1> QED
    BY <1>4, <1>7, <1>8, <1>10, <1>12, <1>13 DEF Fitting

LEMMA TiredFits ==
    ASSUME Calm, ~decided, TiredSubstitution
    PROVE  Fitting(requests')
<1>1. PICK some \in LoopReaches(WearyNow) : \E give \in Choices(some, available) :
        requests' = requests \cup SubstituteTo(give)
    BY DEF TiredSubstitution
<1>2. PICK give \in Choices(some, available) : requests' = requests \cup SubstituteTo(give)
    BY <1>1
<1> DEFINE A == SubstituteTo(give)
<1>3. /\ requests = {} /\ seenPhase = phase /\ seenMode = mode
      /\ typeId = types /\ count = subs /\ WearyNow \subseteq tired
    BY CalmDecision
<1>4. mode # "play_on" /\ requests' = A
    BY <1>2, <1>3 DEF TiredSubstitution, TiredTime
<1>5. some \subseteq WearyNow /\ tired \subseteq Players
    BY DEF LoopReaches, Calm, TypeOK
<1>6. give \in [some -> Types \cup {Hetero_Unknown}] /\ some \in SUBSET Players
    BY <1>3, <1>5 DEF Choices
<1>7. IsFiniteSet(some)
    BY <1>6, PlayersAssumption, FS_Subset
<1>8. /\ A \in SUBSET (Players \X Types)
      /\ \A r \in A : r[1] \in some /\ r[2] \in Types /\ available[r[2]] > 0
      /\ \A r, s \in A : r[1] = s[1] => r = s
      /\ \A t : Cardinality(Asking(A, t)) <= Cardinality(GivenTo(give, t))
    BY <1>6, SubstituteToFacts
<1> HIDE DEF A
<1>9. subs + Cardinality(A) <= SubsMax
  <2>1. Cardinality(some) <= SubsMax - count
    <3>1. \/ some = WearyNow /\ Cardinality(WearyNow) <= SubsMax - count
          \/ Cardinality(some) = SubsMax - count
      BY DEF LoopReaches
    <3>2. SubsMax - count \in Int
      BY LimitsAssumption DEF Calm, TypeOK
    <3> QED
      BY <3>1, <3>2
  <2>2. Cardinality(A) <= Cardinality(some)
    BY <1>7, <1>8, RequestsOfPlayers
  <2>3. Cardinality(A) \in Nat /\ Cardinality(some) \in Nat /\ subs \in Nat
    BY <1>7, <1>8, RequestsFinite, FS_CardinalityType DEF Calm, TypeOK
  <2> QED
    BY <1>3, <2>1, <2>2, <2>3, LimitsAssumption
<1>10. ASSUME AllowMultDefaultType, NEW t \in Types \ {Hetero_Default}
       PROVE  Used(types, t) + Cardinality(Asking(A, t)) <= PtMax
  <2>1. /\ Used(types, t) \in Nat /\ Cardinality(Asking(A, t)) \in Nat
        /\ available[t] \in Nat
    BY <1>8, UsedType, RequestsFinite DEF Calm, TypeOK
  <2>2. CASE available[t] > 0
    <3>1. Used(types, t) + available[t] <= PtMax
      BY <1>3, <2>2 DEF Calm, FitsPtMax
    <3>2. Cardinality(GivenTo(give, t)) <= available[t]
      BY DEF Choices
    <3>3. IsFiniteSet(GivenTo(give, t))
      <4>1. GivenTo(give, t) \in SUBSET Players
        BY <1>6 DEF GivenTo
      <4> QED
        BY <4>1, PlayersAssumption, FS_Subset
    <3>4. Cardinality(GivenTo(give, t)) \in Nat
      BY <3>3, FS_CardinalityType
    <3>5. Cardinality(Asking(A, t)) <= Cardinality(GivenTo(give, t))
      BY <1>8
    <3> QED
      BY <2>1, <3>1, <3>2, <3>4, <3>5, LimitsAssumption
  <2>3. CASE ~(available[t] > 0)
    <3>1. Asking(A, t) = {} /\ Asking(requests, t) = {}
      BY <1>3, <1>8, <2>3 DEF Asking
    <3>2. Used(types, t) + Cardinality(Asking(requests, t)) <= PtMax
      BY <1>10 DEF Calm, Affordable
    <3> QED
      BY <3>1, <3>2
  <2> QED
    BY <2>2, <2>3
<1>11. \A r \in A : r[1] \in tired
    BY <1>3, <1>5, <1>8
<1> QED
    BY <1>4, <1>8, <1>9, <1>10, <1>11 DEF Fitting

\* The coach's decision in a calm state asks for what fits, or for nothing.
LEMMA DecideFits ==
    ASSUME Calm, Decide
    PROVE  /\ ~decided /\ decided' /\ weary' = WearyNow /\ Fitting(requests')
           /\ ~firstDone' /\ phase # "late_match" => requests' = {}
           /\ UNCHANGED <<phase, mode, types, subs, tired, refused, inbox, seenPhase,
                          seenMode, heard>>
           /\ firstDone => firstDone'
<1>1. ~decided /\ decided' /\ weary' = WearyNow
    BY DEF Decide
<1>2. requests = {} /\ seenPhase = phase
    BY <1>1, CalmDecision
<1>3. CASE FirstSubstitution
    BY <1>1, <1>3, FirstFits DEF FirstSubstitution, Decide, server
<1>4. CASE TiredSubstitution
  <2>1. phase = "late_match"
    BY <1>2, <1>4 DEF TiredSubstitution, TiredTime
  <2> QED
    BY <1>1, <1>4, <2>1, TiredFits DEF TiredSubstitution, Decide, server
<1>5. CASE NoSubstitution
  <2>1. requests' = {} /\ UNCHANGED firstDone
    BY <1>2, <1>5 DEF NoSubstitution
  <2>2. Fitting(requests')
    BY <1>2, <2>1 DEF Calm, Affordable, Fitting
  <2> QED
    BY <1>1, <2>1, <2>2 DEF Decide, server
<1> QED
    BY <1>3, <1>4, <1>5 DEF Decide

\* A new cycle in a calm state comes alone, and shows the coach what it is.
LEMMA CalmCycle ==
    ASSUME Calm, Cycle, inbox = << >>
    PROVE  /\ Unseen(inbox') /\ NoChange(inbox') /\ Front(inbox', phase', mode')
           /\ \A players : HearsOf(inbox', players)
           /\ tired' = IF mode' = "before_kick_off" THEN {} ELSE tired
           /\ phase' # "late_match" => phase # "late_match"
<1>1. PICK p \in NextPhase : \E m \in ModesIn(p) :
        /\ phase' = p /\ mode' = m
        /\ [type |-> "see_global", phase |-> p, mode |-> m] \in MessageToCoach
        /\ inbox' = Append(inbox, [type |-> "see_global", phase |-> p, mode |-> m])
        /\ tired' = IF m = "before_kick_off" THEN {} ELSE tired
    BY CycleStep DEF Calm
<1>2. PICK m \in ModesIn(p) :
        /\ phase' = p /\ mode' = m
        /\ inbox' = Append(inbox, [type |-> "see_global", phase |-> p, mode |-> m])
        /\ tired' = IF m = "before_kick_off" THEN {} ELSE tired
    BY <1>1
<1> DEFINE see == [type |-> "see_global", phase |-> p, mode |-> m]
<1>3. see.type = "see_global" /\ see.phase = phase' /\ see.mode = mode'
    BY <1>2
<1>4. Len(inbox') = 1 /\ inbox'[1] = see
    BY <1>2
<1> HIDE DEF see
<1>5. Unseen(inbox') /\ NoChange(inbox') /\ Front(inbox', phase', mode')
    BY <1>3, <1>4 DEF Unseen, NoChange, Front
<1>6. \A players : HearsOf(inbox', players)
    BY <1>3, <1>4 DEF HearsOf
<1>7. phase' # "late_match" => phase # "late_match"
    BY <1>2 DEF NextPhase, Calm, TypeOK, Phase
<1> QED
    BY <1>2, <1>5, <1>6, <1>7

\* The server accepts what is asked in a calm state, if players of the default
\* type are not counted.
LEMMA CalmServe ==
    ASSUME Calm, Serve
    PROVE  /\ Granted'
           /\ \E request \in requests :
                /\ requests' = requests \ {request}
                /\ request[1] \in Players /\ request[2] \in Types
                /\ [type |-> "change", unum |-> request[1], to |-> request[2]] \in MessageToCoach
                /\ ServeAccepts(request) \/ ServeRefuses(request)
<1>1. PICK request \in requests :
        /\ requests' = requests \ {request}
        /\ request[1] \in Players /\ request[2] \in Types
        /\ [type |-> "change", unum |-> request[1], to |-> request[2]] \in MessageToCoach
        /\ ServeAccepts(request) \/ ServeRefuses(request)
    BY ServeStep DEF Calm
<1>2. AllowMultDefaultType => Acceptable(request[2])
    BY CalmRequest
<1>3. AllowMultDefaultType => UNCHANGED refused
    BY <1>1, <1>2 DEF ServeAccepts, ServeRefuses
<1>4. Granted'
    BY <1>3 DEF Calm, Granted
<1> QED
    BY <1>1, <1>4

LEMMA NextInCycle == Calm /\ Next /\ faults' = 0 => InCycle'
<1> SUFFICES ASSUME Calm, Next, faults' = 0 PROVE InCycle'
    OBVIOUS
<1> USE DEF server, world
<1>0. InCycle /\ Front(inbox, phase, mode) /\ inbox \in Seq(MessageToCoach)
    BY DEF Calm, InCycle, TypeOK
<1>1. CASE Serve
  <2>1. PICK request \in requests :
          /\ requests' = requests \ {request}
          /\ [type |-> "change", unum |-> request[1], to |-> request[2]] \in MessageToCoach
          /\ ServeAccepts(request) \/ ServeRefuses(request)
    BY <1>1, CalmServe
  <2>2. decided /\ ~Unseen(inbox) /\ UNCHANGED <<phase, mode, seenPhase, seenMode, decided>>
    BY <1>1, CalmRequest, ServeStep DEF Calm
  <2>3. CASE ServeAccepts(request)
    <3> DEFINE m == [type |-> "change", unum |-> request[1], to |-> request[2]]
    <3>1. m.type = "change" /\ m \in MessageToCoach /\ inbox' = Append(inbox, m)
      BY <2>1, <2>3 DEF ServeAccepts
    <3> HIDE DEF m
    <3>2. ~Unseen(inbox') /\ Front(inbox', phase, mode)
      BY <1>0, <2>2, <3>1, InboxAppend
    <3> QED
      BY <1>0, <2>2, <3>2 DEF InCycle
  <2>4. CASE ServeRefuses(request)
    BY <1>0, <2>2, <2>4 DEF InCycle, ServeRefuses
  <2> QED
    BY <2>1, <2>3, <2>4
<1>2. CASE Cycle /\ requests = {} /\ inbox = << >> /\ decided
  <2>1. Unseen(inbox') /\ NoChange(inbox') /\ Front(inbox', phase', mode')
    BY <1>2, CalmCycle
  <2> QED
    BY <1>2, <2>1 DEF InCycle, Cycle
<1>3. CASE GetTired
    BY <1>0, <1>3 DEF GetTired, InCycle
<1>4. CASE SayRecovery
  <2>1. PICK u \in tired :
          /\ [type |-> "hear", unum |-> u] \in MessageToCoach
          /\ inbox' = Append(inbox, [type |-> "hear", unum |-> u])
    BY <1>4, SayStep DEF Calm
  <2> DEFINE m == [type |-> "hear", unum |-> u]
  <2>2. m.type = "hear" /\ m \in MessageToCoach /\ inbox' = Append(inbox, m)
    BY <2>1
  <2> HIDE DEF m
  <2>3. /\ Unseen(inbox') <=> Unseen(inbox)
        /\ NoChange(inbox') <=> NoChange(inbox)
        /\ Front(inbox', phase, mode)
    BY <1>0, <2>2, InboxAppend
  <2> QED
    BY <1>0, <1>4, <2>3 DEF SayRecovery, InCycle
<1>5. CASE ReadSeeGlobal
  <2>1. inbox # << >> /\ inbox' = Tail(inbox) /\ Head(inbox).type = "see_global"
    BY <1>5 DEF ReadSeeGlobal
  <2>2. /\ ~Unseen(inbox') /\ Unseen(inbox) /\ NoChange(inbox) /\ NoChange(inbox')
        /\ Front(inbox', phase, mode)
        /\ Head(inbox).phase = phase /\ Head(inbox).mode = mode
    <3>1. Unseen(inbox)
      BY <1>0, <2>1, InboxTail
    <3>2. NoChange(inbox)
      BY <1>0, <3>1 DEF InCycle
    <3> QED
      BY <1>0, <2>1, <3>1, <3>2, InboxTail
  <2> QED
    BY <1>0, <1>5, <2>2 DEF ReadSeeGlobal, InCycle
<1>6. CASE ReadHear \/ SetPlayerType
  <2>1. inbox # << >> /\ inbox' = Tail(inbox) /\ Head(inbox).type # "see_global"
    BY <1>6 DEF ReadHear, SetPlayerType
  <2>2. /\ ~Unseen(inbox') /\ ~Unseen(inbox) /\ Front(inbox', phase, mode)
        /\ NoChange(inbox) => NoChange(inbox')
    BY <1>0, <2>1, InboxTail
  <2>3. UNCHANGED <<phase, mode, seenPhase, seenMode, requests, decided>>
    BY <1>6 DEF ReadHear, SetPlayerType
  <2> QED
    BY <1>0, <2>2, <2>3 DEF InCycle
<1>7. CASE Decide
  <2>1. ~decided /\ decided' /\ UNCHANGED <<phase, mode, inbox, seenPhase, seenMode>>
    BY <1>7, DecideFits
  <2>2. ~Unseen(inbox)
    BY <2>1, CalmDecision
  <2> QED
    BY <1>0, <2>1, <2>2 DEF InCycle
<1> QED
    BY <1>1, <1>2, <1>3, <1>4, <1>5, <1>6, <1>7, CalmStep DEF Calm

\* Nothing that the limits are about changes.
LEMMA SameAffordable ==
    ASSUME Affordable, UNCHANGED <<phase, mode, types, subs, requests, firstDone>>
    PROVE  Affordable'
BY DEF Affordable, Used

LEMMA NextAffordable == Calm /\ Next /\ faults' = 0 => Affordable'
<1> SUFFICES ASSUME Calm, Next, faults' = 0 PROVE Affordable'
    OBVIOUS
<1> USE DEF server, world
<1>0. Affordable /\ requests \in SUBSET (Players \X Types) /\ types \in [Players -> Types]
    BY DEF Calm, TypeOK
<1>1. CASE Serve
  <2>1. PICK request \in requests :
          /\ requests' = requests \ {request}
          /\ request[1] \in Players /\ request[2] \in Types
          /\ ServeAccepts(request) \/ ServeRefuses(request)
    BY <1>1, CalmServe
  <2>2. UNCHANGED <<phase, mode, firstDone>>
    BY <1>1, ServeStep DEF Calm
  <2>3. mode # "play_on" /\ requests # {}
    BY CalmRequest
  <2>4. /\ IsFiniteSet(requests) /\ Cardinality(requests) \in Nat
        /\ Cardinality(requests') = Cardinality(requests) - 1
    BY <1>0, <2>1, RequestsFinite, FS_RemoveElement
  <2>5. subs \in Nat /\ subs' \in Nat /\ subs' <= subs + 1
    BY <2>1 DEF Calm, TypeOK, ServeAccepts, ServeRefuses
  <2>6. ASSUME Started(phase) PROVE subs' + Cardinality(requests') <= SubsMax
    <3>1. subs + Cardinality(requests) <= SubsMax
      BY <1>0, <2>3, <2>6 DEF Affordable
    <3> QED
      BY <2>4, <2>5, <3>1, LimitsAssumption
  <2>7. ASSUME AllowMultDefaultType, NEW t \in Types \ {Hetero_Default}
        PROVE  Used(types', t) + Cardinality(Asking(requests', t)) <= PtMax
    <3> DEFINE asking == Asking(requests, t)
    <3>1. /\ IsFiniteSet(asking) /\ Cardinality(asking) \in Nat
          /\ Used(types, t) \in Nat /\ Used(types', t) \in Nat
      BY <1>0, RequestsFinite, UsedType
    <3>2. Used(types, t) + Cardinality(asking) <= PtMax
      BY <1>0, <2>7 DEF Affordable
    <3>3. Asking(requests', t) = asking \ {request}
      BY <2>1 DEF Asking
    <3>4. request[2] = t <=> request \in asking
      BY DEF Asking
    <3> HIDE DEF asking
    <3>5. Cardinality(asking \ {request})
            = IF request \in asking THEN Cardinality(asking) - 1 ELSE Cardinality(asking)
      BY <3>1, FS_RemoveElement
    <3>6. CASE ServeAccepts(request)
      <4>1. types' = [types EXCEPT ![request[1]] = request[2]]
        BY <3>6 DEF ServeAccepts
      <4>2. /\ Used(types', t) <= Used(types, t) + 1
            /\ t # request[2] => Used(types', t) <= Used(types, t)
        BY <1>0, <2>1, <4>1, UsedAfterChange
      <4>3. CASE request[2] = t
        BY <3>1, <3>2, <3>3, <3>4, <3>5, <4>2, <4>3, LimitsAssumption
      <4>4. CASE request[2] # t
        BY <3>1, <3>2, <3>3, <3>4, <3>5, <4>2, <4>4, LimitsAssumption
      <4> QED
        BY <4>3, <4>4
    <3>7. CASE ServeRefuses(request)
      <4>1. types' = types
        BY <3>7 DEF ServeRefuses
      <4> QED
        BY <3>1, <3>2, <3>3, <3>5, <4>1, LimitsAssumption
    <3> QED
      BY <2>1, <3>6, <3>7
  <2>8. firstDone \/ phase = "late_match"
    BY <1>0, <2>3 DEF Affordable
  <2>9. \A t : Used(types, t)' = Used(types', t)
    BY DEF Used
  <2> QED
    BY <2>2, <2>3, <2>6, <2>7, <2>8, <2>9 DEF Affordable
<1>2. CASE Cycle /\ requests = {} /\ inbox = << >> /\ decided
  <2>1. phase' # "late_match" => phase # "late_match"
    BY <1>2, CalmCycle
  <2>2. requests' = {} /\ requests = {} /\ UNCHANGED <<types, subs, firstDone>>
    BY <1>2 DEF Cycle
  <2> QED
    BY <1>0, <2>1, <2>2 DEF Affordable, Used
<1>3. CASE GetTired
    BY <1>0, <1>3, SameAffordable DEF GetTired
<1>4. CASE SayRecovery
    BY <1>0, <1>4, SameAffordable DEF SayRecovery
<1>5. CASE ReadSeeGlobal
    BY <1>0, <1>5, SameAffordable DEF ReadSeeGlobal
<1>6. CASE ReadHear \/ SetPlayerType
    BY <1>0, <1>6, SameAffordable DEF ReadHear, SetPlayerType
<1>7. CASE Decide
  <2>1. /\ ~decided /\ Fitting(requests') /\ UNCHANGED <<phase, mode, types, subs>>
        /\ ~firstDone' /\ phase # "late_match" => requests' = {}
        /\ firstDone => firstDone'
    BY <1>7, DecideFits
  <2> QED
    BY <1>0, <2>1 DEF Affordable, Fitting, Used
<1> QED
    BY <1>1, <1>2, <1>3, <1>4, <1>5, <1>6, <1>7, CalmStep DEF Calm

LEMMA NextTruthful == Calm /\ Next /\ faults' = 0 => Truthful'
<1> SUFFICES ASSUME Calm, Next, faults' = 0 PROVE Truthful'
    OBVIOUS
<1> USE DEF server, world
<1>0. /\ Truthful /\ inbox \in Seq(MessageToCoach) /\ Front(inbox, phase, mode)
      /\ weary \subseteq Players
    BY DEF Calm, InCycle, TypeOK
<1>1. CASE Serve
  <2>1. PICK request \in requests :
          /\ requests' = requests \ {request}
          /\ request[1] \in Players
          /\ [type |-> "change", unum |-> request[1], to |-> request[2]] \in MessageToCoach
          /\ ServeAccepts(request) \/ ServeRefuses(request)
    BY <1>1, CalmServe
  <2>2. decided /\ ~Unseen(inbox) /\ UNCHANGED <<phase, mode, weary, heard, decided>>
    BY <1>1, CalmRequest, ServeStep DEF Calm
  <2>3. CASE ServeAccepts(request)
    <3> DEFINE m == [type |-> "change", unum |-> request[1], to |-> request[2]]
    <3>1. m.type = "change" /\ m.unum = request[1]
      OBVIOUS
    <3>2. m \in MessageToCoach /\ inbox' = Append(inbox, m) /\ tired' = tired \ {request[1]}
      BY <2>1, <2>3 DEF ServeAccepts
    <3> HIDE DEF m
    <3>3. /\ ~Unseen(inbox')
          /\ \A u \in Players : u \in Answered(inbox') <=> u \in Answered(inbox) \/ Changes(m, u)
      BY <1>0, <2>2, <3>1, <3>2, InboxAppend
    <3>4. weary' \subseteq tired' \cup Answered(inbox')
      BY <1>0, <2>2, <3>1, <3>2, <3>3 DEF Truthful, Changes
    <3>5. \A r \in requests' : Started(phase') => r[1] \in tired'
      BY <1>0, <2>1, <2>2, <3>2 DEF Truthful
    <3>6. \A r, s \in requests' : r[1] = s[1] => r = s
      BY <1>0, <2>1 DEF Truthful
    <3> QED
      BY <2>2, <3>3, <3>4, <3>5, <3>6 DEF Truthful
  <2>4. CASE ServeRefuses(request)
    BY <1>0, <2>1, <2>2, <2>4 DEF Truthful, ServeRefuses
  <2> QED
    BY <2>1, <2>3, <2>4
<1>2. CASE Cycle /\ requests = {} /\ inbox = << >> /\ decided
  <2>1. /\ Unseen(inbox') /\ HearsOf(inbox', tired')
        /\ tired' = IF mode' = "before_kick_off" THEN {} ELSE tired
    BY <1>2, CalmCycle
  <2>2. decided' /\ weary' = weary /\ requests' = {}
    BY <1>2 DEF Cycle
  <2>3. weary \subseteq tired
    <3>1. ~Unseen(inbox) /\ Answered(inbox) = {}
      BY <1>2 DEF Unseen, Answered
    <3> QED
      BY <1>0, <1>2, <3>1 DEF Truthful
  <2> QED
    BY <2>1, <2>2, <2>3 DEF Truthful
<1>3. CASE GetTired
  <2>1. tired \subseteq tired' /\ UNCHANGED <<phase, mode, requests, inbox, weary, heard, decided>>
    BY <1>3 DEF GetTired
  <2> QED
    BY <1>0, <2>1 DEF Truthful, HearsOf
<1>4. CASE SayRecovery
  <2>1. PICK u \in tired :
          /\ [type |-> "hear", unum |-> u] \in MessageToCoach
          /\ inbox' = Append(inbox, [type |-> "hear", unum |-> u])
    BY <1>4, SayStep DEF Calm
  <2> DEFINE m == [type |-> "hear", unum |-> u]
  <2>2. m.type = "hear" /\ m.unum = u
    OBVIOUS
  <2>3. m \in MessageToCoach /\ inbox' = Append(inbox, m)
    BY <2>1
  <2> HIDE DEF m
  <2>4. /\ Unseen(inbox') <=> Unseen(inbox)
        /\ HearsOf(inbox, tired) => HearsOf(inbox', tired)
        /\ \A n \in Players : n \in Answered(inbox) => n \in Answered(inbox')
    BY <1>0, <2>1, <2>2, <2>3, InboxAppend
  <2>5. UNCHANGED <<phase, mode, tired, requests, weary, heard, decided>>
    BY <1>4 DEF SayRecovery
  <2> QED
    BY <1>0, <2>4, <2>5 DEF Truthful
<1>5. CASE ReadSeeGlobal
  <2>1. /\ inbox # << >> /\ inbox' = Tail(inbox) /\ Head(inbox).type = "see_global"
        /\ heard' = {} /\ ~decided' /\ UNCHANGED <<phase, mode, tired, requests, weary>>
    BY <1>5 DEF ReadSeeGlobal
  <2>2. Unseen(inbox) /\ ~Unseen(inbox')
    BY <1>0, <2>1, InboxTail
  <2>3. HearsOf(inbox', tired) /\ (mode = "before_kick_off" \/ weary \subseteq tired)
    BY <1>0, <2>1, <2>2, InboxTail DEF Truthful
  <2> QED
    BY <1>0, <2>1, <2>2, <2>3 DEF Truthful
<1>6. CASE ReadHear
  <2>1. /\ inbox # << >> /\ inbox' = Tail(inbox) /\ Head(inbox).type = "hear"
        /\ heard' = heard \cup {Head(inbox).unum}
        /\ UNCHANGED <<phase, mode, tired, requests, weary, decided>>
    BY <1>6 DEF ReadHear
  <2>2. /\ ~Unseen(inbox) /\ ~Unseen(inbox')
        /\ HearsOf(inbox, tired) => HearsOf(inbox', tired) /\ Head(inbox).unum \in tired
        /\ \A u \in Players : u \in Answered(inbox) => u \in Answered(inbox')
    BY <1>0, <2>1, InboxTail DEF Changes
  <2> QED
    BY <1>0, <2>1, <2>2 DEF Truthful
<1>7. CASE SetPlayerType
  <2>1. /\ inbox # << >> /\ inbox' = Tail(inbox) /\ Head(inbox).type = "change"
        /\ weary' = weary \ {Head(inbox).unum}
        /\ UNCHANGED <<phase, mode, tired, requests, heard, decided>>
    BY <1>7 DEF SetPlayerType, Rested
  <2>2. /\ ~Unseen(inbox) /\ ~Unseen(inbox') /\ ~NoChange(inbox)
        /\ \A u \in Players :
              u \in Answered(inbox) => u \in Answered(inbox') \/ u = Head(inbox).unum
    BY <1>0, <2>1, InboxTail DEF Changes
  <2>3. decided
    BY <2>2 DEF Calm, InCycle
  <2> QED
    BY <1>0, <2>1, <2>2, <2>3 DEF Truthful
<1>8. CASE Decide
  <2>1. /\ ~decided /\ decided' /\ weary' = WearyNow /\ Fitting(requests')
        /\ UNCHANGED <<phase, mode, tired, inbox>>
    BY <1>8, DecideFits
  <2>2. ~Unseen(inbox) /\ WearyNow \subseteq tired
    BY <2>1, CalmDecision
  <2> QED
    BY <2>1, <2>2 DEF Truthful, Fitting
<1> QED
    BY <1>1, <1>2, <1>3, <1>4, <1>5, <1>6, <1>7, <1>8, CalmStep DEF Calm

LEMMA NextGranted == Calm /\ Next /\ faults' = 0 => Granted'
<1> SUFFICES ASSUME Calm, Next, faults' = 0 PROVE Granted'
    OBVIOUS
<1>1. CASE Serve
    BY <1>1, CalmServe
<1>2. ~Serve => UNCHANGED refused
    BY CalmStep DEF Calm, server, Cycle, GetTired, SayRecovery, ReadSeeGlobal, ReadHear,
                    SetPlayerType, Decide
<1> QED
    BY <1>1, <1>2 DEF Calm, Granted

LEMMA NextOrderly == Inv /\ [Next]_vars => Orderly'
<1> SUFFICES ASSUME Inv, [Next]_vars, faults' = 0
             PROVE  (happened = {} /\ InCycle /\ Affordable /\ Truthful /\ Granted)'
    BY DEF Orderly
<1>1. CASE Next
  <2>1. faults = 0 /\ happened' = happened
    BY <1>1, CalmStep DEF Inv, IInv
  <2>2. Calm
    BY <2>1 DEF Inv, IInv, Orderly, Calm
  <2> QED
    BY <1>1, <2>1, <2>2, NextInCycle, NextAffordable, NextTruthful, NextGranted DEF Calm
<1>2. CASE UNCHANGED vars
  <2>1. faults = 0 /\ happened = {} /\ InCycle /\ Affordable /\ Truthful /\ Granted
    BY <1>2 DEF Inv, Orderly, vars
  <2>2. UNCHANGED <<phase, mode, types, subs, tired, refused, requests, inbox, seenPhase,
                    seenMode, weary, heard, firstDone, decided, happened>>
    BY <1>2 DEF vars, server, world
  <2>3. Affordable'
    BY <2>1, <2>2, SameAffordable
  <2> QED
    BY <2>1, <2>2, <2>3 DEF InCycle, Truthful, Granted
<1> QED
    BY <1>1, <1>2

LEMMA NextInv == Inv /\ [Next]_vars => Inv'
BY NextTypeOK, NextFits, NextTold, NextModeFits, NextOrderly DEF Inv, IInv

THEOREM Invariance == Spec => []Inv
<1>1. Init => Inv
    BY InitTypeOK, InitFits, InitTold, InitOrderly DEF Inv, IInv
<1> QED
    BY <1>1, NextInv, PTL DEF Spec

\* Without a fault the server refuses nothing the coach asks for, though the
\* coach sends several requests before the first answer: for every team, every
\* number of types and every limit.
THEOREM RequestsGranted == Spec => []NoneRefused
<1>1. Inv => NoneRefused
    BY DEF Inv, Orderly, Granted, NoneRefused
<1> QED
    BY <1>1, Invariance, PTL

\* Without a fault no substitution that the server counts is spent on a rested
\* player: each makes one player rested that was tired.
THEOREM TiredPlayersReplaced == Spec => OnlyTiredReplaced
<1>1. Inv /\ [Next]_vars
        => (faults = 0 /\ subs' # subs => \E u \in tired : u \notin tired')
  <2> SUFFICES ASSUME Inv, [Next]_vars, faults = 0, subs' # subs
               PROVE  \E u \in tired : u \notin tired'
    OBVIOUS
  <2>1. Serve
    BY DEF Next, vars, server, LoseRequest, Cycle, GetTired, SayRecovery, LoseMessage,
           ReadSeeGlobal, ReadHear, SetPlayerType, Decide
  <2>2. PICK request \in requests : ServeAccepts(request) \/ ServeRefuses(request)
    BY <2>1, ServeStep DEF Inv, IInv
  <2>3. ServeAccepts(request) /\ Started(phase)
    BY <2>2 DEF ServeAccepts, ServeRefuses
  <2>4. request[1] \in tired
    BY <2>3 DEF Inv, Orderly, Truthful
  <2> QED
    BY <2>3, <2>4 DEF ServeAccepts
<1> QED
    BY <1>1, Invariance, PTL DEF Spec, OnlyTiredReplaced
=============================================================================
