------------------------ MODULE OpponentTypes_proofs ------------------------
(***************************************************************************)
(* For any number of opponents and types, any ptMax, and any pattern of    *)
(* faults: what the coach finds out of the opponents' types is right, and  *)
(* so is what the player believes, as long as none of the coincidences     *)
(* that the module names has happened.                                     *)
(***************************************************************************)
EXTENDS OpponentTypes, FiniteSetTheorems, SequenceTheorems, TLAPS

\* The server allows PtMax players of one type other than the default one.
ServerRule ==
    \A t \in Types \ {Hetero_Default} : Cardinality(Holders(real, t)) <= PtMax

\* Nothing has happened that the analysis is not meant for.
Calm == happened \cap {"change", "replaced", "default"} = {}

\* Then no opponent is counted that is not known to be of the type.
UsedRule ==
    Calm => \A t \in Types \ {Hetero_Default} : used[t] <= Cardinality(Holders(type, t))

\* The conclusion of IdentifiedRight, for one opponent.
Right(n) == IF Known(type[n]) THEN type[n] = real[n] ELSE real[n] \notin invalid[n]

IInv == TypeOK /\ ServerRule /\ UsedRule /\ IdentifiedRight

-----------------------------------------------------------------------------
(* The opponents of one type.                                              *)

LEMMA OpponentsFinite == IsFiniteSet(Opponents)
BY SizesAssumption, FS_Interval DEF Opponents

\* Their number is a number, and no more than that of any set that holds them.
LEMMA HoldersFinite ==
    ASSUME NEW f, NEW t
    PROVE  IsFiniteSet(Holders(f, t)) /\ Cardinality(Holders(f, t)) \in Nat
<1>1. Holders(f, t) \subseteq Opponents
    BY DEF Holders
<1> QED
    BY <1>1, OpponentsFinite, FS_Subset, FS_CardinalityType

\* One who becomes of type t is one more of it.
LEMMA HoldersAfterGain ==
    ASSUME NEW S, NEW f \in [Opponents -> S], NEW n \in Opponents, NEW t,
           f[n] # t
    PROVE  Cardinality(Holders([f EXCEPT ![n] = t], t)) = Cardinality(Holders(f, t)) + 1
<1>1. Holders([f EXCEPT ![n] = t], t) = Holders(f, t) \cup {n}
    BY DEF Holders
<1>2. n \notin Holders(f, t)
    BY DEF Holders
<1> QED
    BY <1>1, <1>2, HoldersFinite, FS_AddElement

\* One who becomes of another type is perhaps one less of it.
LEMMA HoldersAfterLoss ==
    ASSUME NEW S, NEW f \in [Opponents -> S], NEW n \in Opponents, NEW s, NEW t,
           s # t
    PROVE  Cardinality(Holders([f EXCEPT ![n] = s], t)) <= Cardinality(Holders(f, t))
<1>1. Holders([f EXCEPT ![n] = s], t) \subseteq Holders(f, t)
    BY DEF Holders
<1> QED
    BY <1>1, HoldersFinite, FS_Subset

-----------------------------------------------------------------------------
(* Type correctness.                                                       *)

LEMMA TypesFacts ==
    /\ Hetero_Default \in Types /\ Hetero_Unknown \notin Types
    /\ MaxOpponent \in Nat \ {0} /\ PtMax \in Nat \ {0}
BY SizesAssumption, LimitsAssumption DEF Types, Hetero_Default, Hetero_Unknown

LEMMA InitTypeOK == Init => TypeOK
<1> SUFFICES ASSUME Init PROVE TypeOK
    OBVIOUS
<1>1. /\ real \in [Opponents -> Types] /\ type \in Table /\ said \in Table
      /\ belief \in Table
    BY TypesFacts DEF Init, Table
<1>2. invalid \in [Opponents -> SUBSET Types] /\ used \in [Types -> Nat]
    BY DEF Init
<1>3. /\ changes \in 0 .. MaxChanges /\ turn \in 0 .. MaxOpponent + 1
      /\ sent \in 0 .. Allowed /\ faults \in 0 .. MaxFaults
    BY TypesFacts, LimitsAssumption, FaultsAssumption DEF Init
<1>4. saying \in Seq(Table) /\ toPlayer \in Seq(Message)
    BY DEF Init
<1> QED
    BY <1>1, <1>2, <1>3, <1>4 DEF Init, TypeOK

\* A fault is counted.
LEMMA FaultTypeOK ==
    ASSUME TypeOK, NEW kind, Fault(kind)
    PROVE  faults' \in 0 .. MaxFaults /\ kind \in FaultKinds
BY FaultsAssumption DEF TypeOK, Fault

LEMMA SubstituteTypeOK == TypeOK /\ Substitute => TypeOK'
<1> SUFFICES ASSUME TypeOK, Substitute PROVE TypeOK'
    OBVIOUS
<1>1. PICK n \in Opponents, t \in Types :
        /\ Replace(n, t)
        /\ \/ /\ CoachReadsChange(n) /\ PlayerIsTold(n)
              /\ happened' = happened \cup Coincidences(n)
              /\ UNCHANGED faults
           \/ /\ Fault("change") /\ PlayerIsTold(n)
              /\ happened' = happened \cup Coincidences(n) \cup {"change"}
              /\ UNCHANGED <<type, invalid, used>>
           \/ /\ Fault("told") /\ CoachReadsChange(n)
              /\ happened' = happened \cup Coincidences(n) \cup {"told"}
              /\ UNCHANGED toPlayer
        /\ UNCHANGED <<window, turn, said, sent, saying, belief>>
    BY DEF Substitute
<1>2. real' \in [Opponents -> Types]
    BY <1>1 DEF TypeOK, Replace
<1>3. changes' \in 0 .. MaxChanges
    BY <1>1, LimitsAssumption DEF TypeOK, Replace
<1>4. acted' \in BOOLEAN
    BY <1>1 DEF Replace
<1>5. type' \in Table /\ invalid' \in [Opponents -> SUBSET Types] /\ used' \in [Types -> Nat]
    BY <1>1 DEF TypeOK, CoachReadsChange, FlagsReset, UsedAfterReset, Table
<1>6. toPlayer' \in Seq(Message)
  <2>1. [type |-> "change", unum |-> n] \in Message
    BY DEF Message
  <2>2. toPlayer' \in {toPlayer, Append(toPlayer, [type |-> "change", unum |-> n])}
    BY <1>1 DEF PlayerIsTold
  <2>3. toPlayer \in Seq(Message)
    BY DEF TypeOK
  <2> QED
    BY <2>1, <2>2, <2>3
<1>7. happened' \subseteq FaultKinds \cup {"replaced", "crossed", "default", "again"}
    BY <1>1, FaultTypeOK DEF TypeOK, Coincidences, If
<1>8. faults' \in 0 .. MaxFaults
    BY <1>1, FaultTypeOK DEF TypeOK
<1> QED
    BY <1>1, <1>2, <1>3, <1>4, <1>5, <1>6, <1>7, <1>8 DEF TypeOK

LEMMA AnalyzeTypeOK == TypeOK /\ Analyze => TypeOK'
<1> SUFFICES ASSUME TypeOK, Analyze PROVE TypeOK'
    OBVIOUS
<1>1. turn \in Opponents /\ turn' \in 0 .. MaxOpponent + 1
    BY TypesFacts DEF Analyze, TypeOK, Opponents
<1>2. /\ type' \in Table /\ invalid' \in [Opponents -> SUBSET Types]
      /\ used' \in [Types -> Nat]
      /\ happened' \subseteq FaultKinds \cup {"replaced", "crossed", "default", "again"}
  <2>1. CASE UNCHANGED <<type, invalid, used, happened>>
    BY <2>1 DEF TypeOK
  <2>2. CASE invalid' = FlagsReset(turn) /\ UNCHANGED <<type, used, happened>>
    BY <1>1, <2>2 DEF TypeOK, FlagsReset
  <2>3. CASE \E t \in Types : Determined(turn, t)
    <3>1. PICK t \in Types : Determined(turn, t)
      BY <2>3
    <3> DEFINE full == used[t] + 1 >= PtMax
    <3>2. type' \in Table
      BY <3>1, <1>1 DEF Determined, TypeOK, Table
    <3>3. used' \in [Types -> Nat]
      BY <3>1 DEF Determined, TypeOK
    <3>4. invalid' = [m \in Opponents |->
              IF full /\ m # turn /\ ~Known(type[m]) THEN invalid[m] \cup {t} ELSE invalid[m]]
      BY <3>1 DEF Determined
    <3> HIDE DEF full
    <3>5. invalid' \in [Opponents -> SUBSET Types]
      BY <3>4 DEF TypeOK
    <3>6. happened' \subseteq FaultKinds \cup {"replaced", "crossed", "default", "again"}
      BY <3>1 DEF Determined, TypeOK, If
    <3> QED
      BY <3>2, <3>3, <3>5, <3>6
  <2> QED
    BY <2>1, <2>2, <2>3 DEF Analyze
<1> QED
    BY <1>1, <1>2 DEF TypeOK, Analyze, opponent, coach, wire

LEMMA NextTypeOK == TypeOK /\ [Next]_vars => TypeOK'
<1> SUFFICES ASSUME TypeOK, [Next]_vars PROVE TypeOK'
    OBVIOUS
<1>1. CASE Substitute
    BY <1>1, SubstituteTypeOK
<1>2. CASE ChangeWindow
  <2>1. happened' \subseteq FaultKinds \cup {"replaced", "crossed", "default", "again"}
    BY <1>2, FaultTypeOK DEF ChangeWindow, TypeOK, NoFault
  <2>2. faults' \in 0 .. MaxFaults
    BY <1>2, FaultTypeOK DEF ChangeWindow, TypeOK, NoFault
  <2>3. window' \in {"stopped", "closed", "period"} /\ acted' \in BOOLEAN
    BY <1>2 DEF ChangeWindow
  <2> QED
    BY <1>2, <2>1, <2>2, <2>3 DEF ChangeWindow, TypeOK, opponent, analyzer, wire
<1>3. CASE SeeGlobal
  <2>1. invalid' \in [Opponents -> SUBSET Types]
    BY <1>3 DEF SeeGlobal, RuledOut, TypeOK
  <2>2. turn' \in 0 .. MaxOpponent + 1
    BY <1>3, TypesFacts DEF SeeGlobal
  <2> QED
    BY <1>3, <2>1, <2>2 DEF SeeGlobal, TypeOK, opponent, coach, wire, NoFault
<1>4. CASE Analyze
    BY <1>4, AnalyzeTypeOK
<1>5. CASE SayPlayerTypes
  <2>1. said' \in Table
    BY <1>5 DEF SayPlayerTypes, Marked, TypeOK
  <2>2. saying' \in Seq(Table)
    <3>1. saying' \in {saying, Append(saying, type)}
      BY <1>5 DEF SayPlayerTypes, DoSayFreeform
    <3>2. saying \in Seq(Table) /\ type \in Table
      BY DEF TypeOK
    <3> QED
      BY <3>1, <3>2
  <2>3. sent' \in 0 .. Allowed
    BY <1>5, LimitsAssumption DEF SayPlayerTypes, DoSayFreeform, IsNews, CanSendFreeform, TypeOK
  <2>4. turn' \in 0 .. MaxOpponent + 1 /\ acted' \in BOOLEAN
    BY <1>5, TypesFacts DEF SayPlayerTypes
  <2> QED
    BY <1>5, <2>1, <2>2, <2>3, <2>4 DEF SayPlayerTypes, TypeOK, opponent, NoFault
<1>6. CASE Serve
  <2>1. Head(saying) \in Table /\ Tail(saying) \in Seq(Table)
    BY <1>6 DEF Serve, TypeOK
  <2>2. [type |-> "hear", table |-> Head(saying)] \in Message
    BY <2>1 DEF Message
  <2>3. toPlayer' \in Seq(Message)
    <3>1. toPlayer' \in {toPlayer,
                         Append(toPlayer, [type |-> "hear", table |-> Head(saying)])}
      BY <1>6 DEF Serve
    <3>2. toPlayer \in Seq(Message)
      BY DEF TypeOK
    <3> QED
      BY <2>2, <3>1, <3>2
  <2> QED
    BY <1>6, <2>1, <2>3 DEF Serve, TypeOK, opponent, analyzer, coach, NoFault
<1>7. CASE LoseSay
  <2>1. saying' \in Seq(Table)
    BY <1>7 DEF LoseSay, TypeOK
  <2>2. happened' \subseteq FaultKinds \cup {"replaced", "crossed", "default", "again"}
    BY <1>7, FaultTypeOK DEF LoseSay, TypeOK
  <2>3. faults' \in 0 .. MaxFaults
    BY <1>7, FaultTypeOK DEF LoseSay
  <2> QED
    BY <1>7, <2>1, <2>2, <2>3 DEF LoseSay, TypeOK, opponent, analyzer, coach
<1>8. CASE LoseHear
  <2>1. toPlayer' \in Seq(Message)
    BY <1>8 DEF LoseHear, TypeOK
  <2>2. happened' \subseteq FaultKinds \cup {"replaced", "crossed", "default", "again"}
    BY <1>8, FaultTypeOK DEF LoseHear, TypeOK
  <2>3. faults' \in 0 .. MaxFaults
    BY <1>8, FaultTypeOK DEF LoseHear
  <2> QED
    BY <1>8, <2>1, <2>2, <2>3 DEF LoseHear, TypeOK, opponent, analyzer, coach
<1>9. CASE PlayerReadsChange
  <2>1. toPlayer' \in Seq(Message)
    BY <1>9 DEF PlayerReadsChange, TypeOK
  <2>2. belief' \in Table
    BY <1>9 DEF PlayerReadsChange, SetTheirPlayerType, TypeOK, Table
  <2> QED
    BY <1>9, <2>1, <2>2 DEF PlayerReadsChange, TypeOK, opponent, analyzer, coach, NoFault
<1>10. CASE PlayerHears
  <2>1. toPlayer' \in Seq(Message)
    BY <1>10 DEF PlayerHears, TypeOK
  <2>2. Head(toPlayer) \in Message /\ Head(toPlayer).type = "hear"
    BY <1>10 DEF PlayerHears, TypeOK
  <2>3. belief' \in Table
    BY <1>10, <2>2 DEF PlayerHears, Message
  <2> QED
    BY <1>10, <2>1, <2>3 DEF PlayerHears, TypeOK, opponent, analyzer, coach, NoFault
<1>11. CASE UNCHANGED vars
    BY <1>11 DEF vars, opponent, analyzer, coach, wire, TypeOK
<1> QED
    BY <1>1, <1>2, <1>3, <1>4, <1>5, <1>6, <1>7, <1>8, <1>9, <1>10, <1>11 DEF Next

\* The coach and the player never hold a type that does not exist, and the
\* coach never sends more freeform messages than it is allowed.
THEOREM TypeCorrect == Spec => []TypeOK
<1> QED
    BY InitTypeOK, NextTypeOK, PTL DEF Spec

-----------------------------------------------------------------------------
(* What the coach finds out is right.                                      *)

LEMMA InitIInv == Init => IInv
<1> SUFFICES ASSUME Init PROVE IInv
    OBVIOUS
<1>1. TypeOK
    BY InitTypeOK
<1>2. \A t \in Types \ {Hetero_Default} : Holders(real, t) = {} /\ Holders(type, t) = {}
    BY DEF Init, Holders
<1>3. \A t \in Types \ {Hetero_Default} :
          Cardinality(Holders(real, t)) = 0 /\ Cardinality(Holders(type, t)) = 0
    BY <1>2, FS_EmptySet
<1>4. ServerRule
    BY <1>3, TypesFacts DEF ServerRule
<1>5. UsedRule
    BY <1>3 DEF UsedRule, Init
<1>6. IdentifiedRight
    BY DEF IdentifiedRight, Init
<1> QED
    BY <1>1, <1>4, <1>5, <1>6 DEF IInv

\* Steps that leave the opponents and the analysis alone.
LEMMA OtherSteps ==
    ASSUME IInv, UNCHANGED <<real, type, invalid, used>>, Calm' => Calm
    PROVE  ServerRule' /\ UsedRule' /\ IdentifiedRight'
BY DEF IInv, ServerRule, UsedRule, IdentifiedRight, Calm, Holders

\* A substitution obeys the server's rule.
LEMMA ReplaceServerRule ==
    ASSUME IInv, NEW n \in Opponents, NEW t \in Types, Replace(n, t)
    PROVE  ServerRule'
<1> SUFFICES ASSUME NEW s \in Types \ {Hetero_Default}
             PROVE  Cardinality(Holders(real', s)) <= PtMax
    BY DEF ServerRule, Holders
<1>1. real' = [real EXCEPT ![n] = t] /\ t # real[n] /\ real \in [Opponents -> Types]
    BY DEF Replace, IInv, TypeOK
<1>2. Cardinality(Holders(real, s)) <= PtMax
    BY DEF IInv, ServerRule
<1>3. CASE s = t
  <2>1. Cardinality(Holders(real, t)) < PtMax
    BY <1>3 DEF Replace
  <2>2. Cardinality(Holders(real', t)) = Cardinality(Holders(real, t)) + 1
    BY <1>1, HoldersAfterGain
  <2>3. Cardinality(Holders(real, t)) \in Nat
    BY HoldersFinite
  <2> QED
    BY <1>3, <2>1, <2>2, <2>3, TypesFacts
<1>4. CASE s # t
  <2>1. Cardinality(Holders(real', s)) <= Cardinality(Holders(real, s))
    BY <1>1, <1>4, HoldersAfterLoss
  <2>2. Cardinality(Holders(real', s)) \in Nat /\ Cardinality(Holders(real, s)) \in Nat
    BY HoldersFinite
  <2> QED
    BY <1>2, <2>1, <2>2, TypesFacts
<1> QED
    BY <1>3, <1>4

LEMMA SubstituteIInv == IInv /\ Substitute => ServerRule' /\ UsedRule' /\ IdentifiedRight'
<1> SUFFICES ASSUME IInv, Substitute PROVE ServerRule' /\ UsedRule' /\ IdentifiedRight'
    OBVIOUS
<1>1. PICK n \in Opponents, t \in Types :
        /\ Replace(n, t)
        /\ \/ CoachReadsChange(n) /\ Coincidences(n) \subseteq happened'
           \/ "change" \in happened'
        /\ happened \subseteq happened'
    BY DEF Substitute
<1>2. ServerRule'
    BY <1>1, ReplaceServerRule
<1>3. ASSUME Calm' PROVE UsedRule' /\ IdentifiedRight'
  <2>1. Calm /\ CoachReadsChange(n) /\ "replaced" \notin Coincidences(n)
    BY <1>1, <1>3 DEF Calm
  <2>2. type[n] \in {Hetero_Unknown, Hetero_Default}
    BY <2>1 DEF Coincidences, If, Known
  <2>3. /\ type' = [type EXCEPT ![n] = Hetero_Unknown]
        /\ invalid' = [invalid EXCEPT ![n] = {}]
        /\ used' = used
    BY <2>1 DEF CoachReadsChange, FlagsReset, UsedAfterReset
  <2>4. /\ type \in [Opponents -> Types \cup {Hetero_Unknown}]
        /\ invalid \in [Opponents -> SUBSET Types]
        /\ real \in [Opponents -> Types]
    BY DEF IInv, TypeOK, Table
  <2>5. UsedRule'
    <3> SUFFICES ASSUME NEW s \in Types \ {Hetero_Default}
                 PROVE  used'[s] <= Cardinality(Holders(type', s))
      BY DEF UsedRule, Holders
    <3>1. Holders(type', s) = Holders(type, s)
      <4>1. type[n] # s /\ s # Hetero_Unknown
        BY <2>2, TypesFacts
      <4> QED
        BY <2>3, <2>4, <4>1 DEF Holders
    <3>2. used[s] <= Cardinality(Holders(type, s))
      BY <2>1 DEF IInv, UsedRule
    <3> QED
      BY <2>3, <3>1, <3>2
  <2>6. IdentifiedRight'
    <3>1. \A m \in Opponents : Right(m)
      BY <2>1 DEF IInv, IdentifiedRight, Calm, Right
    <3>2. real' = [real EXCEPT ![n] = t]
      BY <1>1 DEF Replace
    <3> SUFFICES ASSUME NEW m \in Opponents
                 PROVE  IF Known(type'[m]) THEN type'[m] = real'[m]
                                           ELSE real'[m] \notin invalid'[m]
      BY DEF IdentifiedRight, Known
    <3>3. CASE m = n
      BY <2>3, <2>4, <3>3 DEF Known
    <3>4. CASE m # n
      BY <2>3, <2>4, <3>1, <3>2, <3>4 DEF Right
    <3> QED
      BY <3>3, <3>4
  <2> QED
    BY <2>5, <2>6
<1>4. ASSUME ~Calm' PROVE UsedRule' /\ IdentifiedRight'
    BY <1>4 DEF UsedRule, IdentifiedRight, Calm
<1> QED
    BY <1>2, <1>3, <1>4

\* The heart of it: when n is found to be of type t and the type is used up,
\* the opponents known to be of type t are all there are.
LEMMA UsedUp ==
    ASSUME IInv, Calm, NEW n \in Opponents, NEW t \in Types \ {Hetero_Default},
           ~Known(type[n]), real[n] = t, used[t] + 1 >= PtMax,
           NEW m \in Opponents, m # n, ~Known(type[m])
    PROVE  real[m] # t
<1> SUFFICES ASSUME real[m] = t PROVE FALSE
    OBVIOUS
<1> DEFINE known == Holders(type, t)
           all   == Holders(real, t)
<1>1. \A k \in Opponents : Right(k)
    BY DEF IInv, IdentifiedRight, Calm, Right
<1>2. known \subseteq all
    BY <1>1, TypesFacts DEF Holders, Right, Known
<1>3. n \notin known /\ m \notin known \cup {n}
    BY TypesFacts DEF Holders, Known
<1>4. (known \cup {n}) \cup {m} \subseteq all
    BY <1>2 DEF Holders
<1>5. /\ IsFiniteSet(known) /\ IsFiniteSet(all)
      /\ Cardinality(known) \in Nat /\ Cardinality(all) \in Nat
    BY HoldersFinite
<1>6. Cardinality(known) >= used[t] /\ Cardinality(all) <= PtMax
    BY DEF IInv, UsedRule, ServerRule
<1>7. used[t] \in Nat
    BY DEF IInv, TypeOK
<1> HIDE DEF known, all
<1>8. IsFiniteSet(known \cup {n}) /\ Cardinality(known \cup {n}) = Cardinality(known) + 1
    BY <1>3, <1>5, FS_AddElement
<1>9. Cardinality((known \cup {n}) \cup {m}) = Cardinality(known) + 2
  <2>1. Cardinality((known \cup {n}) \cup {m}) = Cardinality(known \cup {n}) + 1
    BY <1>3, <1>8, FS_AddElement
  <2> QED
    BY <1>5, <1>8, <2>1
<1>10. Cardinality((known \cup {n}) \cup {m}) <= Cardinality(all)
    BY <1>4, <1>5, FS_Subset
<1> QED
    BY <1>5, <1>6, <1>7, <1>9, <1>10, TypesFacts

LEMMA DeterminedIInv ==
    ASSUME IInv, NEW n \in Opponents, NEW t \in Types, ~Known(type[n]),
           Candidates(n) = {t}, Determined(n, t), UNCHANGED real, Calm'
    PROVE  UsedRule' /\ IdentifiedRight'
<1> DEFINE full == used[t] + 1 >= PtMax
<1>1. /\ type' = [type EXCEPT ![n] = t]
      /\ used' = [used EXCEPT ![t] = @ + 1]
      /\ invalid' = [m \in Opponents |->
            IF full /\ m # n /\ ~Known(type[m]) THEN invalid[m] \cup {t} ELSE invalid[m]]
      /\ happened \subseteq happened'
      /\ full /\ t = Hetero_Default => "default" \in happened'
    BY DEF Determined, If
<1>2. Calm /\ (full => t # Hetero_Default)
    BY <1>1 DEF Calm
<1>3. /\ type \in [Opponents -> Types \cup {Hetero_Unknown}]
      /\ invalid \in [Opponents -> SUBSET Types]
      /\ real \in [Opponents -> Types] /\ used \in [Types -> Nat]
    BY DEF IInv, TypeOK, Table
<1>4. \A m \in Opponents : Right(m)
    BY <1>2 DEF IInv, IdentifiedRight, Calm, Right
<1>5. real[n] = t
    BY <1>3, <1>4 DEF Right, Candidates
<1> HIDE DEF full
<1>6. UsedRule'
  <2> SUFFICES ASSUME NEW s \in Types \ {Hetero_Default}
               PROVE  used'[s] <= Cardinality(Holders(type', s))
    BY DEF UsedRule, Holders
  <2>1. used[s] <= Cardinality(Holders(type, s))
    BY <1>2 DEF IInv, UsedRule
  <2>2. type[n] # s
    BY TypesFacts DEF Known
  <2>3. CASE s = t
    <3>1. Cardinality(Holders(type', t)) = Cardinality(Holders(type, t)) + 1
      BY <1>1, <1>3, <2>2, <2>3, HoldersAfterGain
    <3>2. Cardinality(Holders(type, t)) \in Nat /\ used[t] \in Nat
      BY <1>3, HoldersFinite
    <3>3. used'[t] = used[t] + 1
      BY <1>1, <1>3
    <3> QED
      BY <2>1, <2>3, <3>1, <3>2, <3>3
  <2>4. CASE s # t
    <3>1. Holders(type', s) = Holders(type, s)
      BY <1>1, <1>3, <2>2, <2>4 DEF Holders
    <3>2. used'[s] = used[s]
      BY <1>1, <1>3, <2>4
    <3> QED
      BY <2>1, <3>1, <3>2
  <2> QED
    BY <2>3, <2>4
<1>7. IdentifiedRight'
  <2> SUFFICES ASSUME NEW m \in Opponents
               PROVE  IF Known(type'[m]) THEN type'[m] = real[m]
                                         ELSE real[m] \notin invalid'[m]
    BY DEF IdentifiedRight, Known
  <2>1. CASE m = n
    BY <1>1, <1>3, <1>5, <2>1, TypesFacts DEF Known
  <2>2. CASE m # n /\ Known(type[m])
    BY <1>1, <1>3, <1>4, <2>2 DEF Known, Right
  <2>3. CASE m # n /\ ~Known(type[m]) /\ ~full
    BY <1>1, <1>3, <1>4, <2>3 DEF Known, Right
  <2>4. CASE m # n /\ ~Known(type[m]) /\ full
    <3>1. real[m] # t
      BY <1>2, <1>5, <2>4, UsedUp DEF full
    <3>2. invalid'[m] = invalid[m] \cup {t} /\ type'[m] = type[m]
      BY <1>1, <1>3, <2>4
    <3> QED
      BY <1>4, <2>4, <3>1, <3>2 DEF Known, Right
  <2> QED
    BY <2>1, <2>2, <2>3, <2>4
<1> QED
    BY <1>6, <1>7

LEMMA AnalyzeIInv == IInv /\ Analyze => ServerRule' /\ UsedRule' /\ IdentifiedRight'
<1> SUFFICES ASSUME IInv, Analyze PROVE ServerRule' /\ UsedRule' /\ IdentifiedRight'
    OBVIOUS
<1>1. turn \in Opponents /\ UNCHANGED real
    BY DEF Analyze, opponent
<1>2. ServerRule'
    BY <1>1 DEF IInv, ServerRule, Holders
<1>3. CASE UNCHANGED <<type, invalid, used, happened>>
    BY <1>1, <1>3, OtherSteps DEF Calm
<1>4. CASE /\ ~Known(type[turn]) /\ Candidates(turn) = {}
           /\ invalid' = FlagsReset(turn) /\ UNCHANGED <<type, used, happened>>
  <2>1. UsedRule'
    BY <1>4 DEF IInv, UsedRule, Calm, Holders
  <2>2. invalid \in [Opponents -> SUBSET Types]
    BY DEF IInv, TypeOK
  <2>3. IdentifiedRight'
    BY <1>1, <1>4, <2>2 DEF IInv, IdentifiedRight, FlagsReset, Known
  <2> QED
    BY <1>2, <2>1, <2>3
<1>5. CASE /\ ~Known(type[turn])
           /\ \E t \in Types : Candidates(turn) = {t} /\ Determined(turn, t)
  <2>1. Calm' => UsedRule' /\ IdentifiedRight'
    BY <1>1, <1>5, DeterminedIInv
  <2>2. ~Calm' => UsedRule' /\ IdentifiedRight'
    BY DEF UsedRule, IdentifiedRight, Calm
  <2> QED
    BY <1>2, <2>1, <2>2
<1> QED
    BY <1>3, <1>4, <1>5 DEF Analyze

LEMMA SeeGlobalIInv == IInv /\ SeeGlobal => ServerRule' /\ UsedRule' /\ IdentifiedRight'
<1> SUFFICES ASSUME IInv, SeeGlobal PROVE ServerRule' /\ UsedRule' /\ IdentifiedRight'
    OBVIOUS
<1>1. UNCHANGED <<real, type, used, happened>>
    BY DEF SeeGlobal, opponent, NoFault
<1>2. PICK seen \in [Opponents -> SUBSET Types] :
          /\ \A n \in Opponents : real[n] \notin seen[n]
          /\ invalid' = [n \in Opponents |-> invalid[n] \cup seen[n]]
    BY DEF SeeGlobal, RuledOut
<1>3. ServerRule' /\ UsedRule'
    BY <1>1 DEF IInv, ServerRule, UsedRule, Calm, Holders
<1>4. IdentifiedRight'
    BY <1>1, <1>2 DEF IInv, IdentifiedRight
<1> QED
    BY <1>3, <1>4

LEMMA NextIInv == IInv /\ [Next]_vars => IInv'
<1> SUFFICES ASSUME IInv, [Next]_vars PROVE IInv'
    OBVIOUS
<1>1. TypeOK'
    BY NextTypeOK DEF IInv
<1>2. ServerRule' /\ UsedRule' /\ IdentifiedRight'
  <2>1. CASE Substitute
    BY <2>1, SubstituteIInv
  <2>2. CASE SeeGlobal
    BY <2>2, SeeGlobalIInv
  <2>3. CASE Analyze
    BY <2>3, AnalyzeIInv
  <2>4. CASE \/ ChangeWindow \/ SayPlayerTypes \/ Serve \/ LoseSay \/ LoseHear
             \/ PlayerReadsChange \/ PlayerHears \/ UNCHANGED vars
    <3>1. UNCHANGED <<real, type, invalid, used>>
      BY <2>4 DEF ChangeWindow, SayPlayerTypes, Serve, LoseSay, LoseHear,
             PlayerReadsChange, PlayerHears, vars, opponent, analyzer
    <3>2. happened \subseteq happened'
      BY <2>4 DEF ChangeWindow, SayPlayerTypes, Serve, LoseSay, LoseHear,
             PlayerReadsChange, PlayerHears, vars, NoFault
    <3> QED
      BY <3>1, <3>2, OtherSteps DEF Calm
  <2> QED
    BY <2>1, <2>2, <2>3, <2>4 DEF Next
<1> QED
    BY <1>1, <1>2 DEF IInv

\* The type the coach finds for an opponent is its type, and the type of one
\* not yet identified stays among its candidates: whatever is ruled out, in
\* whatever order the opponents are replaced and found out, until one that was
\* found out is replaced, or the default type counts as used up.
THEOREM TypesFoundRight == Spec => []IdentifiedRight
<1>1. IInv => IdentifiedRight
    BY DEF IInv
<1> QED
    BY <1>1, InitIInv, NextIInv, PTL DEF Spec

-----------------------------------------------------------------------------
(* What the player believes is right.                                      *)

\* No message that the player's belief hangs on has been lost or overtaken.
Quiet == happened \cap {"change", "replaced", "default", "crossed", "told"} = {}

\* What is said of n is right, or after place i of the way to the player comes
\* the message that n was replaced.
TrueOf(table, n)  == table[n] \in {Hetero_Unknown, real[n]}
ChangeAfter(n, i) ==
    \E j \in 1 .. Len(toPlayer) :
        j > i /\ toPlayer[j].type = "change" /\ toPlayer[j].unum = n

SaidRight == \A i \in 1 .. Len(saying) : \A n \in Opponents : TrueOf(saying[i], n)
HeardRight ==
    \A i \in 1 .. Len(toPlayer) : \A n \in Opponents :
        toPlayer[i].type = "hear" => TrueOf(toPlayer[i].table, n) \/ ChangeAfter(n, i)
HeldRight == \A n \in Opponents : TrueOf(belief, n) \/ ChangeAfter(n, 0)

\* What makes BelievesRight inductive: the same holds all along the way.
WayInv == Quiet => SaidRight /\ HeardRight /\ HeldRight

\* The first message is read or lost: the others move up.
LEMMA TailMoves ==
    ASSUME NEW M, NEW s \in Seq(M), s # << >>
    PROVE  /\ Len(Tail(s)) = Len(s) - 1 /\ Len(s) \in Nat \ {0}
           /\ \A i \in 1 .. Len(Tail(s)) : Tail(s)[i] = s[i + 1] /\ i + 1 \in 1 .. Len(s)
           /\ Head(s) = s[1] /\ 1 \in 1 .. Len(s)
OBVIOUS

LEMMA AppendAdds ==
    ASSUME NEW M, NEW s \in Seq(M), NEW e
    PROVE  /\ Len(Append(s, e)) = Len(s) + 1 /\ Len(s) \in Nat
           /\ \A i \in 1 .. Len(s) : Append(s, e)[i] = s[i]
           /\ Append(s, e)[Len(s) + 1] = e
           /\ \A i \in 1 .. Len(s) + 1 : i \in 1 .. Len(s) \/ i = Len(s) + 1
OBVIOUS

LEMMA InitWay == Init => WayInv
BY DEF Init, WayInv, SaidRight, HeardRight, HeldRight, TrueOf

LEMMA SubstituteWay == IInv /\ WayInv /\ Substitute => WayInv'
<1> SUFFICES ASSUME IInv, WayInv, Substitute, Quiet'
             PROVE  SaidRight' /\ HeardRight' /\ HeldRight'
    BY DEF WayInv
<1>1. PICK n \in Opponents, t \in Types :
        /\ Replace(n, t)
        /\ \/ PlayerIsTold(n) /\ Coincidences(n) \subseteq happened'
           \/ "change" \in happened'
           \/ "told" \in happened'
        /\ happened \subseteq happened'
        /\ UNCHANGED <<saying, belief>>
    BY DEF Substitute
<1>2. Quiet /\ PlayerIsTold(n) /\ "crossed" \notin Coincidences(n)
    BY <1>1 DEF Quiet
<1>3. \A i \in 1 .. Len(saying) : saying[i][n] = Hetero_Unknown
    BY <1>2 DEF Coincidences, If, Known
<1>4. SaidRight /\ HeardRight /\ HeldRight
    BY <1>2 DEF WayInv
<1>5. real' = [real EXCEPT ![n] = t] /\ real \in [Opponents -> Types]
    BY <1>1 DEF Replace, IInv, TypeOK
<1> DEFINE e == [type |-> "change", unum |-> n]
<1>6. toPlayer' = Append(toPlayer, e) /\ toPlayer \in Seq(Message)
    BY <1>2 DEF PlayerIsTold, IInv, TypeOK
<1>7. /\ Len(toPlayer') = Len(toPlayer) + 1 /\ Len(toPlayer) \in Nat
      /\ \A i \in 1 .. Len(toPlayer) : toPlayer'[i] = toPlayer[i]
      /\ toPlayer'[Len(toPlayer) + 1] = e
      /\ \A i \in 1 .. Len(toPlayer) + 1 : i \in 1 .. Len(toPlayer) \/ i = Len(toPlayer) + 1
    BY <1>6, AppendAdds
<1>8. SaidRight'
    BY <1>1, <1>3, <1>4, <1>5 DEF SaidRight, TrueOf
<1>9. HeardRight'
  <2> SUFFICES ASSUME NEW i \in 1 .. Len(toPlayer'), NEW m \in Opponents,
                      toPlayer'[i].type = "hear"
               PROVE  \/ toPlayer'[i].table[m] \in {Hetero_Unknown, real'[m]}
                      \/ \E j \in 1 .. Len(toPlayer') :
                            /\ j > i /\ toPlayer'[j].type = "change"
                            /\ toPlayer'[j].unum = m
    BY DEF HeardRight, TrueOf, ChangeAfter
  <2>1. i \in 1 .. Len(toPlayer) /\ toPlayer'[i] = toPlayer[i]
    BY <1>7
  <2>2. CASE m = n
    <3>1. /\ Len(toPlayer) + 1 \in 1 .. Len(toPlayer') /\ Len(toPlayer) + 1 > i
      BY <1>7, <2>1
    <3>2. toPlayer'[Len(toPlayer) + 1].type = "change" /\ toPlayer'[Len(toPlayer) + 1].unum = m
      BY <1>7, <2>2
    <3> QED
      BY <3>1, <3>2
  <2>3. CASE m # n
    <3>1. TrueOf(toPlayer[i].table, m) \/ ChangeAfter(m, i)
      BY <1>4, <2>1 DEF HeardRight
    <3>2. ASSUME ChangeAfter(m, i)
          PROVE  \E j \in 1 .. Len(toPlayer') :
                    /\ j > i /\ toPlayer'[j].type = "change"
                    /\ toPlayer'[j].unum = m
      BY <1>7, <3>2 DEF ChangeAfter
    <3>3. real'[m] = real[m]
      BY <1>5, <2>3
    <3> QED
      BY <2>1, <3>1, <3>2, <3>3 DEF TrueOf
  <2> QED
    BY <2>2, <2>3
<1>10. HeldRight'
  <2> SUFFICES ASSUME NEW m \in Opponents
               PROVE  \/ belief'[m] \in {Hetero_Unknown, real'[m]}
                      \/ \E j \in 1 .. Len(toPlayer') :
                            /\ j > 0 /\ toPlayer'[j].type = "change"
                            /\ toPlayer'[j].unum = m
    BY DEF HeldRight, TrueOf, ChangeAfter
  <2>1. CASE m = n
    <3>1. Len(toPlayer) + 1 \in 1 .. Len(toPlayer') /\ Len(toPlayer) + 1 > 0
      BY <1>7
    <3>2. toPlayer'[Len(toPlayer) + 1].type = "change" /\ toPlayer'[Len(toPlayer) + 1].unum = m
      BY <1>7, <2>1
    <3> QED
      BY <3>1, <3>2
  <2>2. CASE m # n
    <3>1. TrueOf(belief, m) \/ ChangeAfter(m, 0)
      BY <1>4 DEF HeldRight
    <3>2. ASSUME ChangeAfter(m, 0)
          PROVE  \E j \in 1 .. Len(toPlayer') :
                    /\ j > 0 /\ toPlayer'[j].type = "change"
                    /\ toPlayer'[j].unum = m
      BY <1>7, <3>2 DEF ChangeAfter
    <3>3. real'[m] = real[m]
      BY <1>5, <2>2
    <3> QED
      BY <1>1, <3>1, <3>2, <3>3 DEF TrueOf
  <2> QED
    BY <2>1, <2>2
<1> QED
    BY <1>8, <1>9, <1>10

LEMMA SayWay == IInv /\ WayInv /\ SayPlayerTypes => WayInv'
<1> SUFFICES ASSUME IInv, WayInv, SayPlayerTypes, Quiet'
             PROVE  SaidRight' /\ HeardRight' /\ HeldRight'
    BY DEF WayInv
<1>1. UNCHANGED <<real, toPlayer, belief, happened>>
    BY DEF SayPlayerTypes, opponent, NoFault
<1>2. Quiet /\ Calm
    BY <1>1 DEF Quiet, Calm
<1>3. \A n \in Opponents : TrueOf(type, n)
    BY <1>2 DEF IInv, IdentifiedRight, Calm, TrueOf, Known
<1>4. SaidRight /\ HeardRight /\ HeldRight
    BY <1>2 DEF WayInv
<1>5. HeardRight' /\ HeldRight'
    BY <1>1, <1>4 DEF HeardRight, HeldRight, TrueOf, ChangeAfter
<1>6. CASE saying' = saying
    BY <1>1, <1>4, <1>5, <1>6 DEF SaidRight, TrueOf
<1>7. CASE saying' = Append(saying, type)
  <2>1. saying \in Seq(Table)
    BY DEF IInv, TypeOK
  <2>2. /\ Len(saying') = Len(saying) + 1
        /\ \A i \in 1 .. Len(saying) : saying'[i] = saying[i]
        /\ saying'[Len(saying) + 1] = type
        /\ \A i \in 1 .. Len(saying) + 1 : i \in 1 .. Len(saying) \/ i = Len(saying) + 1
    BY <1>7, <2>1, AppendAdds
  <2>3. SaidRight'
    BY <1>1, <1>3, <1>4, <2>2 DEF SaidRight, TrueOf
  <2> QED
    BY <1>5, <2>3
<1> QED
    BY <1>6, <1>7 DEF SayPlayerTypes, DoSayFreeform

\* What is left of the way to the server after its first message.
LEMMA SaidTail ==
    ASSUME TypeOK, SaidRight, saying # << >>, saying' = Tail(saying), UNCHANGED real
    PROVE  SaidRight' /\ (\A n \in Opponents : TrueOf(Head(saying), n))
<1>1. saying \in Seq(Table)
    BY DEF TypeOK
<1>2. /\ Len(saying') = Len(saying) - 1
      /\ \A i \in 1 .. Len(saying') : saying'[i] = saying[i + 1] /\ i + 1 \in 1 .. Len(saying)
      /\ Head(saying) = saying[1] /\ 1 \in 1 .. Len(saying)
    BY <1>1, TailMoves
<1> QED
    BY <1>2 DEF SaidRight, TrueOf

LEMMA ServeWay == IInv /\ WayInv /\ Serve => WayInv'
<1> SUFFICES ASSUME IInv, WayInv, Serve, Quiet'
             PROVE  SaidRight' /\ HeardRight' /\ HeldRight'
    BY DEF WayInv
<1>1. UNCHANGED <<real, belief, happened>> /\ saying # << >> /\ saying' = Tail(saying)
    BY DEF Serve, opponent, NoFault
<1>2. SaidRight /\ HeardRight /\ HeldRight
    BY <1>1 DEF WayInv, Quiet
<1>3. SaidRight' /\ (\A n \in Opponents : TrueOf(Head(saying), n))
    BY <1>1, <1>2, SaidTail DEF IInv
<1>4. CASE toPlayer' = toPlayer
    BY <1>1, <1>2, <1>3, <1>4 DEF HeardRight, HeldRight, TrueOf, ChangeAfter
<1> DEFINE e == [type |-> "hear", table |-> Head(saying)]
<1>5. CASE toPlayer' = Append(toPlayer, e)
  <2>1. toPlayer \in Seq(Message)
    BY DEF IInv, TypeOK
  <2>2. /\ Len(toPlayer') = Len(toPlayer) + 1 /\ Len(toPlayer) \in Nat
        /\ \A i \in 1 .. Len(toPlayer) : toPlayer'[i] = toPlayer[i]
        /\ toPlayer'[Len(toPlayer) + 1] = e
        /\ \A i \in 1 .. Len(toPlayer) + 1 : i \in 1 .. Len(toPlayer) \/ i = Len(toPlayer) + 1
    BY <1>5, <2>1, AppendAdds
  <2>3. e.table = Head(saying)
    OBVIOUS
  <2> HIDE DEF e
  <2>4. \A m \in Opponents, i \in 0 .. Len(toPlayer) :
            ChangeAfter(m, i) =>
              \E j \in 1 .. Len(toPlayer') :
                 j > i /\ toPlayer'[j].type = "change" /\ toPlayer'[j].unum = m
    BY <2>2 DEF ChangeAfter
  <2>5. HeardRight'
    <3> SUFFICES ASSUME NEW i \in 1 .. Len(toPlayer'), NEW m \in Opponents,
                        toPlayer'[i].type = "hear"
                 PROVE  \/ toPlayer'[i].table[m] \in {Hetero_Unknown, real'[m]}
                        \/ \E j \in 1 .. Len(toPlayer') :
                              /\ j > i /\ toPlayer'[j].type = "change"
                              /\ toPlayer'[j].unum = m
      BY DEF HeardRight, TrueOf, ChangeAfter
    <3>1. CASE i \in 1 .. Len(toPlayer)
      BY <1>1, <1>2, <2>2, <2>4, <3>1 DEF HeardRight, TrueOf
    <3>2. CASE i = Len(toPlayer) + 1
      BY <1>1, <1>3, <2>2, <2>3, <3>2 DEF TrueOf
    <3> QED
      BY <2>2, <3>1, <3>2
  <2>6. HeldRight'
    <3> SUFFICES ASSUME NEW m \in Opponents
                 PROVE  \/ belief'[m] \in {Hetero_Unknown, real'[m]}
                        \/ \E j \in 1 .. Len(toPlayer') :
                              /\ j > 0 /\ toPlayer'[j].type = "change"
                              /\ toPlayer'[j].unum = m
      BY DEF HeldRight, TrueOf, ChangeAfter
    <3>1. 0 \in 0 .. Len(toPlayer)
      BY <2>2
    <3> QED
      BY <1>1, <1>2, <2>4, <3>1 DEF HeldRight, TrueOf
  <2> QED
    BY <1>3, <2>5, <2>6
<1> QED
    BY <1>4, <1>5 DEF Serve

\* The player has dealt with the first message, or it was a table and is lost.
LEMMA ReadWay ==
    ASSUME TypeOK, SaidRight, HeardRight, HeldRight,
           toPlayer # << >>, toPlayer' = Tail(toPlayer), UNCHANGED <<real, saying>>,
           \/ Head(toPlayer).type = "change"
                /\ belief' = [belief EXCEPT ![Head(toPlayer).unum] = Hetero_Unknown]
           \/ Head(toPlayer).type = "hear" /\ belief' = Head(toPlayer).table
           \/ Head(toPlayer).type = "hear" /\ belief' = belief
    PROVE  SaidRight' /\ HeardRight' /\ HeldRight'
<1>1. toPlayer \in Seq(Message) /\ belief \in Table
    BY DEF TypeOK
<1>2. /\ Len(toPlayer') = Len(toPlayer) - 1 /\ Len(toPlayer) \in Nat \ {0}
      /\ \A i \in 1 .. Len(toPlayer') :
            toPlayer'[i] = toPlayer[i + 1] /\ i + 1 \in 1 .. Len(toPlayer)
      /\ Head(toPlayer) = toPlayer[1] /\ 1 \in 1 .. Len(toPlayer)
    BY <1>1, TailMoves
<1>3. \A m \in Opponents, i \in 0 .. Len(toPlayer') :
          ChangeAfter(m, i + 1) =>
            \E j \in 1 .. Len(toPlayer') :
               j > i /\ toPlayer'[j].type = "change" /\ toPlayer'[j].unum = m
  <2> SUFFICES ASSUME NEW m \in Opponents, NEW i \in 0 .. Len(toPlayer'), ChangeAfter(m, i + 1)
               PROVE  \E j \in 1 .. Len(toPlayer') :
                        j > i /\ toPlayer'[j].type = "change" /\ toPlayer'[j].unum = m
    OBVIOUS
  <2>1. PICK k \in 1 .. Len(toPlayer) :
            k > i + 1 /\ toPlayer[k].type = "change" /\ toPlayer[k].unum = m
    BY DEF ChangeAfter
  <2>2. k - 1 \in 1 .. Len(toPlayer') /\ k - 1 > i /\ (k - 1) + 1 = k
    BY <1>2, <2>1
  <2>3. toPlayer'[k - 1] = toPlayer[k]
    BY <1>2, <2>2
  <2> QED
    BY <2>1, <2>2, <2>3
<1>4. SaidRight'
    BY DEF SaidRight, TrueOf
<1>5. HeardRight'
  <2> SUFFICES ASSUME NEW i \in 1 .. Len(toPlayer'), NEW m \in Opponents,
                      toPlayer'[i].type = "hear"
               PROVE  \/ toPlayer'[i].table[m] \in {Hetero_Unknown, real'[m]}
                      \/ \E j \in 1 .. Len(toPlayer') :
                            /\ j > i /\ toPlayer'[j].type = "change"
                            /\ toPlayer'[j].unum = m
    BY DEF HeardRight, TrueOf, ChangeAfter
  <2>1. toPlayer'[i] = toPlayer[i + 1] /\ i + 1 \in 1 .. Len(toPlayer)
    BY <1>2
  <2>2. TrueOf(toPlayer[i + 1].table, m) \/ ChangeAfter(m, i + 1)
    BY <2>1 DEF HeardRight
  <2>3. i \in 0 .. Len(toPlayer')
    OBVIOUS
  <2> QED
    BY <1>3, <2>1, <2>2, <2>3 DEF TrueOf
<1>6. HeldRight'
  <2> SUFFICES ASSUME NEW m \in Opponents
               PROVE  \/ belief'[m] \in {Hetero_Unknown, real'[m]}
                      \/ \E j \in 1 .. Len(toPlayer') :
                            /\ j > 0 /\ toPlayer'[j].type = "change"
                            /\ toPlayer'[j].unum = m
    BY DEF HeldRight, TrueOf, ChangeAfter
  <2>1. 0 \in 0 .. Len(toPlayer') /\ 0 + 1 = 1
    BY <1>2
  <2>2. ASSUME ChangeAfter(m, 1)
        PROVE  \E j \in 1 .. Len(toPlayer') :
                  /\ j > 0 /\ toPlayer'[j].type = "change"
                  /\ toPlayer'[j].unum = m
    BY <1>3, <2>1, <2>2
  <2>3. ASSUME ChangeAfter(m, 0), ~(toPlayer[1].type = "change" /\ toPlayer[1].unum = m)
        PROVE  ChangeAfter(m, 1)
    BY <2>3 DEF ChangeAfter
  <2>4. TrueOf(belief, m) \/ ChangeAfter(m, 0)
    BY DEF HeldRight
  <2>5. CASE /\ Head(toPlayer).type = "change"
             /\ belief' = [belief EXCEPT ![Head(toPlayer).unum] = Hetero_Unknown]
    <3>1. CASE Head(toPlayer).unum = m
      BY <1>1, <2>5, <3>1 DEF Table
    <3>2. CASE Head(toPlayer).unum # m
      <4>1. belief'[m] = belief[m]
        BY <1>1, <2>5, <3>2 DEF Table
      <4> QED
        BY <1>2, <2>2, <2>3, <2>4, <3>2, <4>1 DEF TrueOf
    <3> QED
      BY <3>1, <3>2
  <2>6. CASE Head(toPlayer).type = "hear" /\ belief' = Head(toPlayer).table
    <3>1. TrueOf(toPlayer[1].table, m) \/ ChangeAfter(m, 1)
      BY <1>2, <2>6 DEF HeardRight
    <3> QED
      BY <1>2, <2>2, <2>6, <3>1 DEF TrueOf
  <2>7. CASE Head(toPlayer).type = "hear" /\ belief' = belief
    BY <1>2, <2>2, <2>3, <2>4, <2>7 DEF TrueOf
  <2> QED
    BY <2>5, <2>6, <2>7
<1> QED
    BY <1>4, <1>5, <1>6

LEMMA NextWay == IInv /\ WayInv /\ [Next]_vars => WayInv'
<1> SUFFICES ASSUME IInv, WayInv, [Next]_vars PROVE WayInv'
    OBVIOUS
<1>1. CASE Substitute
    BY <1>1, SubstituteWay
<1>2. CASE SayPlayerTypes
    BY <1>2, SayWay
<1>3. CASE Serve
    BY <1>3, ServeWay
<1>4. CASE LoseSay
  <2>1. /\ UNCHANGED <<real, toPlayer, belief>>
        /\ Quiet' => Quiet
        /\ saying # << >> /\ saying' = Tail(saying)
    BY <1>4 DEF LoseSay, opponent, Quiet
  <2>2. ASSUME SaidRight PROVE SaidRight'
    BY <2>1, <2>2, SaidTail DEF IInv
  <2>3. ASSUME HeardRight, HeldRight PROVE HeardRight' /\ HeldRight'
    BY <2>1, <2>3 DEF HeardRight, HeldRight, TrueOf, ChangeAfter
  <2> QED
    BY <2>1, <2>2, <2>3 DEF WayInv
<1>5. CASE LoseHear \/ PlayerReadsChange \/ PlayerHears
  <2>1. /\ toPlayer # << >> /\ toPlayer' = Tail(toPlayer) /\ UNCHANGED <<real, saying>>
        /\ \/ Head(toPlayer).type = "change"
                /\ belief' = [belief EXCEPT ![Head(toPlayer).unum] = Hetero_Unknown]
           \/ Head(toPlayer).type = "hear" /\ belief' = Head(toPlayer).table
           \/ Head(toPlayer).type = "hear" /\ belief' = belief
    BY <1>5 DEF LoseHear, PlayerReadsChange, PlayerHears, SetTheirPlayerType, opponent
  <2>2. Quiet' => Quiet
    BY <1>5 DEF LoseHear, PlayerReadsChange, PlayerHears, NoFault, Quiet
  <2> QED
    BY <2>1, <2>2, ReadWay DEF WayInv, IInv
<1>6. CASE ChangeWindow \/ SeeGlobal \/ Analyze \/ UNCHANGED vars
  <2>1. UNCHANGED <<real, saying, toPlayer, belief>>
    BY <1>6 DEF ChangeWindow, SeeGlobal, Analyze, vars, opponent, wire
  <2>2. happened \subseteq happened'
    BY <1>6 DEF ChangeWindow, SeeGlobal, Analyze, Determined, vars, NoFault
  <2>3. Quiet' => Quiet
    BY <2>2 DEF Quiet
  <2> QED
    BY <2>1, <2>3 DEF WayInv, SaidRight, HeardRight, HeldRight, TrueOf, ChangeAfter
<1> QED
    BY <1>1, <1>2, <1>3, <1>4, <1>5, <1>6 DEF Next

\* The player is right about every opponent's type it believes to know, or the
\* message of its change is still to come: also when tables of the coach are
\* lost, refused or queued behind other messages.
THEOREM BeliefsRight == Spec => []BelievesRight
<1>1. Init => IInv /\ WayInv
    BY InitIInv, InitWay
<1>2. (IInv /\ WayInv) /\ [Next]_vars => (IInv /\ WayInv)'
    BY NextIInv, NextWay
<1>3. WayInv => BelievesRight
    BY DEF WayInv, BelievesRight, Quiet, HeldRight, TrueOf, ChangeAfter
<1> QED
    BY <1>1, <1>2, <1>3, PTL DEF Spec

=============================================================================
