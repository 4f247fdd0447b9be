--------------------------- MODULE SeeSynch_proofs ---------------------------
(***************************************************************************)
(* Theorems about SeeSynch: a synchronised agent knows when the server     *)
(* sends the next see and never gives its synchronisation up, however many *)
(* cycles it is too slow for.                                              *)
(***************************************************************************)
EXTENDS SeeSynch, SequenceTheorems, TLAPS

-----------------------------------------------------------------------------
(* The invariant.                                                          *)

\* The server's cycle of the three in 300 ms, and how many of its visual slots
\* have passed; the cycles have 3, 3 and 2 slots, the first of cycle c being
\* the slot 3 * c.
CycleOf  == IF synchMode THEN << 0, 0, 0, 0, 0, 1, 1, 1, 1, 1, 2, 2, 2, 2 >>
                         ELSE << 0, 0, 0, 0, 1, 1, 1, 1, 2, 2, 2 >>
PassedOf == IF synchMode THEN << 0, 1, 2, 2, 3, 0, 1, 2, 2, 3, 0, 1, 1, 2 >>
                         ELSE << 0, 1, 2, 3, 0, 1, 2, 3, 0, 1, 2 >>
Cycle    == CycleOf[clock]
Passed   == PassedOf[clock]
Slots(c) == IF c = 2 THEN 2 ELSE 3

\* The events from a (think) to the end of its cycle.
Thought == {4, 5, 9, 10, 13, 14}

\* The slot of a timing, and the cycle in which the see after it falls, the
\* next 300 ms' first cycle being 3.
SlotOf(timing) == CASE timing = "0_00" -> 0 [] timing = "50_0" -> 4 [] timing = "22_5" -> 6
Due(timing, width) ==
  CASE timing = "0_00" -> IF width = "NORMAL" THEN 1 ELSE 3
    [] timing = "50_0" -> IF width = "NARROW" THEN 2 ELSE IF width = "NORMAL" THEN 3 ELSE 4
    [] timing = "22_5" -> IF width = "NARROW" THEN 3 ELSE 5

\* The agent's see state s and view mode v fit the server's timer in cycle c
\* with p of its slots passed, n of them since the last see; done: the agent
\* has acted on a see of this cycle.  The view mode leads to the next timing,
\* except at 0_00, where a narrow view has yet to be changed.
Phase(c, p, n, s, v, done) ==
  /\ v.quality = "HIGH" /\ s.timing \in SynchTiming
  /\ SlotOf(s.timing) \in {3 * c + p - 1 - n, 3 * c + p - 1 - n + 8}
  /\ s.seen <=> n < p
  /\ n < Interval(v)
  /\ s.timing = "22_5" => v.width # "NORMAL"
  /\ s.timing = "0_00" /\ v.width = "NARROW" => s.seen /\ ~done

\* And so does the countdown, which stands at zero until the agent has acted.
Countdown(c, p, n, s, v, done) ==
  s.cycles = IF s.seen /\ ~done THEN 0
             ELSE Due(s.timing, v.width) - c
                    - (IF SlotOf(s.timing) = 3 * c + p - 1 - n THEN 0 ELSE 3)

\* An agent that looks for its synchronisation has counted the sees as they
\* came: three in a cycle only if the server sends one in each slot, and then
\* it has done so ever since.
Tallied(c, p, n, s, v) ==
  /\ s.timing = "NOSYNCH"
  /\ s.seeCount <= p
  /\ v.quality = "HIGH" => /\ s.seeCount > 0 => 2 * s.seeCount <= p - n + 1
                           /\ s.history[1] # 3 /\ s.history[2] # 3
  /\ v.quality = "LOW" => v.width = "NARROW"
  /\ s.seeCount = 3 => n = 0
  /\ s.history[1] = 3 => s.seeCount = p /\ n = 0 /\ c # 0
  /\ s.history[2] = 3 => /\ s.seeCount = p /\ n = 0 /\ c # 1
                         /\ s.history[1] = IF c = 0 THEN 2 ELSE 3

Counted(c, p, n, s, v) ==
  Tallied(c, p, n, s, v) /\ (v.quality = "LOW" => ~playOn)

InStep ==
  /\ ~stale
  /\ Phase(Cycle, Passed, count, ss, self, decided)
  /\ Countdown(Cycle, Passed, count, ss, self, decided)
  /\ IF synchMode THEN decided <=> clock \in Thought
                  ELSE (ss.seen => decided) /\ (decided => ss.cycles > 0)

Finding ==
  /\ Counted(Cycle, Passed, count, ss, self)
  /\ ~synchMode /\ ss.history[1] = 2 /\ ss.history[2] = 3 => Passed = 0
  /\ extra # "none" /\ ~cycleStopped => ss.history[1] # 3

\* What the server has for the agent's view mode, or will have.
Sent == IF wire = << >> THEN view = self ELSE wire[Len(wire)] = self

Calm ==
  /\ Sent
  /\ ~ss.synchSee
  /\ stale => ss.seeCount = 0 /\ ss.history = <<0, 0, 0>>
  /\ ~stale => (ss.seen <=> ss.seeCount > 0)
  /\ IF IsSynch(ss) THEN InStep ELSE Finding

Inv == TypeOK /\ (OnlyOverruns => Calm)

-----------------------------------------------------------------------------
(* The server's timer.                                                     *)

\* Where in its cycle an event of the server is.
LEMMA ClockFacts ==
  ASSUME synchMode \in BOOLEAN, clock \in 1 .. Len(Schedule)
  PROVE  /\ clock \in 1 .. 14 /\ (~synchMode => clock <= 11)
         /\ NextClock \in 1 .. Len(Schedule)
         /\ Cycle \in 0 .. 2 /\ Passed \in 0 .. Slots(Cycle)
         /\ NextEvent = "sense_body" =>
              /\ Passed = Slots(Cycle) /\ PassedOf[NextClock] = 0
              /\ CycleOf[NextClock] = IF Cycle = 2 THEN 0 ELSE Cycle + 1
              /\ synchMode => clock \in Thought /\ NextClock \notin Thought
         /\ IsSlot(NextEvent) =>
              /\ Passed < Slots(Cycle) /\ PassedOf[NextClock] = Passed + 1
              /\ CycleOf[NextClock] = Cycle
              /\ synchMode => (clock \in Thought <=> NextClock \in Thought)
              /\ synchMode /\ clock \notin Thought => Passed + (IF Cycle = 2 THEN 1 ELSE 0) < 2
              /\ synchMode /\ clock \in Thought => Passed = IF Cycle = 2 THEN 1 ELSE 2
         /\ NextEvent = "think" =>
              /\ synchMode /\ clock \notin Thought /\ NextClock \in Thought
              /\ PassedOf[NextClock] = Passed /\ CycleOf[NextClock] = Cycle
              /\ Passed = IF Cycle = 2 THEN 1 ELSE 2
         /\ ~synchMode /\ OverWaitThreshold => Passed >= (IF Cycle = 0 THEN 3 ELSE 2)
<1> USE DEF CycleOf, PassedOf, Cycle, Passed, Slots, Thought, NextClock, NextEvent, IsSlot,
            OverWaitThreshold
<1>1. CASE synchMode
  <2>1. /\ Schedule = << "sense_body", "0_00", "37_5", "think", "75_0",
                         "sense_body", "12_5", "50_0", "think", "87_5",
                         "sense_body", "22_5", "think", "62_5" >>
        /\ Len(Schedule) = 14 /\ clock \in 1 .. 14
    BY <1>1 DEF Schedule
  <2>2. CASE clock \in {1, 2, 3, 4, 5}
    BY <1>1, <2>1, <2>2
  <2>3. CASE clock \in {6, 7, 8, 9, 10}
    BY <1>1, <2>1, <2>3
  <2>4. CASE clock \in {11, 12, 13, 14}
    BY <1>1, <2>1, <2>4
  <2> QED
    BY <2>1, <2>2, <2>3, <2>4
<1>2. CASE ~synchMode
  <2>1. /\ Schedule = << "sense_body", "0_00", "37_5", "75_0",
                         "sense_body", "12_5", "50_0", "87_5",
                         "sense_body", "22_5", "62_5" >>
        /\ Len(Schedule) = 11 /\ clock \in 1 .. 11
    BY <1>2 DEF Schedule
  <2>2. CASE clock \in {1, 2, 3, 4}
    BY <1>2, <2>1, <2>2
  <2>3. CASE clock \in {5, 6, 7, 8}
    BY <1>2, <2>1, <2>3
  <2>4. CASE clock \in {9, 10, 11}
    BY <1>2, <2>1, <2>4
  <2> QED
    BY <2>1, <2>2, <2>3, <2>4
<1> QED
  BY <1>1, <1>2

-----------------------------------------------------------------------------
(* View modes and timings.                                                 *)

LEMMA IntervalFacts ==
  ASSUME NEW v \in View
  PROVE  /\ v.width \in Width /\ v.quality \in Quality /\ v = Mode(v.width, v.quality)
         /\ Interval(v) \in {1, 2, 4, 8}
         /\ v.quality = "HIGH" =>
              Interval(v) = IF v.width = "WIDE" THEN 8 ELSE IF v.width = "NORMAL" THEN 4 ELSE 2
         /\ v.quality = "LOW" /\ v.width = "NARROW" => Interval(v) = 1
BY DEF View, Width, Quality, Interval, Mode

LEMMA ModeFacts ==
  ASSUME NEW w \in Width, NEW q \in Quality
  PROVE  Mode(w, q) \in View /\ Mode(w, q).width = w /\ Mode(w, q).quality = q
BY DEF View, Mode

LEMMA TimingFacts ==
  /\ SlotOf("0_00") = 0 /\ SlotOf("50_0") = 4 /\ SlotOf("22_5") = 6
  /\ SynchTiming = {"0_00", "50_0", "22_5"}
  /\ \A t \in SynchTiming : t # "NOSYNCH" /\ t # "SYNC" /\ t \in Timing
BY DEF SlotOf, SynchTiming, Timing

LEMMA StateFacts ==
  ASSUME NEW s \in SeeStates
  PROVE  /\ s.seen \in BOOLEAN /\ s.timing \in Timing /\ s.seeCount \in Nat
         /\ s.history = <<s.history[1], s.history[2], s.history[3]>>
         /\ s.history[1] \in Nat /\ s.history[2] \in Nat /\ s.history[3] \in Nat
         /\ s.cycles \in 0 .. 100 /\ s.synchSee \in BOOLEAN
         /\ s = [seen |-> s.seen, timing |-> s.timing, seeCount |-> s.seeCount,
                 history |-> s.history, cycles |-> s.cycles, synchSee |-> s.synchSee]
BY DEF SeeStates

\* The see that a synchronised agent's view mode leads to comes when it is
\* due, in a cycle without another, and the timing moves with it.
LEMMA DueSee ==
  ASSUME NEW c \in 0 .. 2, NEW p \in 0 .. Slots(c) - 1, NEW n \in 0 .. 7,
         NEW s \in SeeStates, NEW v \in View, NEW done \in BOOLEAN,
         Phase(c, p, n, s, v, done), Countdown(c, p, n, s, v, done),
         ~s.synchSee, n + 1 >= Interval(v), s.seen => done
  PROVE  /\ ~s.seen /\ s.cycles = 0
         /\ NextTiming(s, v) \in SynchTiming
         /\ SlotOf(NextTiming(s, v)) = 3 * c + p
         /\ NextTiming(s, v) = "22_5" => v.width # "NORMAL"
<1>1. /\ s.timing \in SynchTiming /\ v.quality = "HIGH" /\ v.width \in Width
      /\ s.timing = "22_5" => v.width # "NORMAL"
      /\ s.timing = "0_00" => v.width # "NARROW"
  BY IntervalFacts DEF Phase
<1>2. n + 1 = IF v.width = "WIDE" THEN 8 ELSE IF v.width = "NORMAL" THEN 4 ELSE 2
  BY <1>1, IntervalFacts DEF Phase
<1>3. /\ p \in 0 .. 2 /\ (c = 2 => p < 2)
      /\ \/ SlotOf(s.timing) = 3 * c + p - 1 - n
         \/ SlotOf(s.timing) = 3 * c + p - 1 - n + 8
  BY DEF Phase, Slots
<1>4. ~(n < p) => ~s.seen
  BY DEF Phase
<1>5. ~s.seen => s.cycles = Due(s.timing, v.width) - c
                   - (IF SlotOf(s.timing) = 3 * c + p - 1 - n THEN 0 ELSE 3)
  BY DEF Countdown
<1>6. CASE s.timing = "0_00"
  <2>1. SlotOf(s.timing) = 0
    BY <1>6, TimingFacts
  <2>2. CASE v.width = "WIDE"
    <3>1. n = 7 /\ c = 0 /\ p = 0
      <4>1. n = 7
        BY <1>2, <2>2
      <4> QED
        BY <1>3, <2>1, <4>1
    <3>2. NextTiming(s, v) = "0_00" /\ Due(s.timing, v.width) = 3
      BY <1>1, <1>6, <2>2, TimingFacts DEF NextTiming, Due
    <3>3. ~s.seen
      BY <1>4, <3>1
    <3>4. s.cycles = 0
      BY <1>5, <2>1, <3>1, <3>2, <3>3
    <3>5. SlotOf(NextTiming(s, v)) = 3 * c + p
      BY <3>1, <3>2, TimingFacts
    <3> QED
      BY <1>1, <2>2, <3>2, <3>3, <3>4, <3>5, TimingFacts
  <2>3. CASE v.width = "NORMAL"
    <3>1. n = 3 /\ c = 1 /\ p = 1
      <4>1. n = 3
        BY <1>2, <2>3
      <4> QED
        BY <1>3, <2>1, <4>1
    <3>2. NextTiming(s, v) = "50_0" /\ Due(s.timing, v.width) = 1
      BY <1>1, <1>6, <2>3, TimingFacts DEF NextTiming, Due
    <3>3. ~s.seen
      BY <1>4, <3>1
    <3>4. s.cycles = 0
      BY <1>5, <2>1, <3>1, <3>2, <3>3
    <3>5. SlotOf(NextTiming(s, v)) = 3 * c + p
      BY <3>1, <3>2, TimingFacts
    <3> QED
      BY <1>1, <2>3, <3>2, <3>3, <3>4, <3>5, TimingFacts
  <2> QED
    BY <1>1, <1>6, <2>2, <2>3 DEF Width
<1>7. CASE s.timing = "50_0"
  <2>1. SlotOf(s.timing) = 4
    BY <1>7, TimingFacts
  <2>2. CASE v.width = "WIDE"
    <3>1. n = 7 /\ c = 1 /\ p = 1
      <4>1. n = 7
        BY <1>2, <2>2
      <4> QED
        BY <1>3, <2>1, <4>1
    <3>2. NextTiming(s, v) = "50_0" /\ Due(s.timing, v.width) = 4
      BY <1>1, <1>7, <2>2, TimingFacts DEF NextTiming, Due
    <3>3. ~s.seen
      BY <1>4, <3>1
    <3>4. s.cycles = 0
      BY <1>5, <2>1, <3>1, <3>2, <3>3
    <3>5. SlotOf(NextTiming(s, v)) = 3 * c + p
      BY <3>1, <3>2, TimingFacts
    <3> QED
      BY <1>1, <2>2, <3>2, <3>3, <3>4, <3>5, TimingFacts
  <2>3. CASE v.width = "NORMAL"
    <3>1. n = 3 /\ c = 0 /\ p = 0
      <4>1. n = 3
        BY <1>2, <2>3
      <4> QED
        BY <1>3, <2>1, <4>1
    <3>2. NextTiming(s, v) = "0_00" /\ Due(s.timing, v.width) = 3
      BY <1>1, <1>7, <2>3, TimingFacts DEF NextTiming, Due
    <3>3. ~s.seen
      BY <1>4, <3>1
    <3>4. s.cycles = 0
      BY <1>5, <2>1, <3>1, <3>2, <3>3
    <3>5. SlotOf(NextTiming(s, v)) = 3 * c + p
      BY <3>1, <3>2, TimingFacts
    <3> QED
      BY <1>1, <2>3, <3>2, <3>3, <3>4, <3>5, TimingFacts
  <2>4. CASE v.width = "NARROW"
    <3>1. n = 1 /\ c = 2 /\ p = 0
      <4>1. n = 1
        BY <1>2, <2>4
      <4> QED
        BY <1>3, <2>1, <4>1
    <3>2. NextTiming(s, v) = "22_5" /\ Due(s.timing, v.width) = 2
      BY <1>1, <1>7, <2>4, TimingFacts DEF NextTiming, Due
    <3>3. ~s.seen
      BY <1>4, <3>1
    <3>4. s.cycles = 0
      BY <1>5, <2>1, <3>1, <3>2, <3>3
    <3>5. SlotOf(NextTiming(s, v)) = 3 * c + p
      BY <3>1, <3>2, TimingFacts
    <3> QED
      BY <1>1, <2>4, <3>2, <3>3, <3>4, <3>5, TimingFacts
  <2> QED
    BY <1>1, <1>7, <2>2, <2>3, <2>4 DEF Width
<1>8. CASE s.timing = "22_5"
  <2>1. SlotOf(s.timing) = 6
    BY <1>8, TimingFacts
  <2>2. CASE v.width = "WIDE"
    <3>1. n = 7 /\ c = 2 /\ p = 0
      <4>1. n = 7
        BY <1>2, <2>2
      <4> QED
        BY <1>3, <2>1, <4>1
    <3>2. NextTiming(s, v) = "22_5" /\ Due(s.timing, v.width) = 5
      BY <1>1, <1>8, <2>2, TimingFacts DEF NextTiming, Due
    <3>3. ~s.seen
      BY <1>4, <3>1
    <3>4. s.cycles = 0
      BY <1>5, <2>1, <3>1, <3>2, <3>3
    <3>5. SlotOf(NextTiming(s, v)) = 3 * c + p
      BY <3>1, <3>2, TimingFacts
    <3> QED
      BY <1>1, <2>2, <3>2, <3>3, <3>4, <3>5, TimingFacts
  <2>3. CASE v.width = "NARROW"
    <3>1. n = 1 /\ c = 0 /\ p = 0
      <4>1. n = 1
        BY <1>2, <2>3
      <4> QED
        BY <1>3, <2>1, <4>1
    <3>2. NextTiming(s, v) = "0_00" /\ Due(s.timing, v.width) = 3
      BY <1>1, <1>8, <2>3, TimingFacts DEF NextTiming, Due
    <3>3. ~s.seen
      BY <1>4, <3>1
    <3>4. s.cycles = 0
      BY <1>5, <2>1, <3>1, <3>2, <3>3
    <3>5. SlotOf(NextTiming(s, v)) = 3 * c + p
      BY <3>1, <3>2, TimingFacts
    <3> QED
      BY <1>1, <2>3, <3>2, <3>3, <3>4, <3>5, TimingFacts
  <2> QED
    BY <1>1, <1>8, <2>2, <2>3 DEF Width
<1> QED
  BY <1>1, <1>6, <1>7, <1>8, TimingFacts

\* A slot without a see, and a new cycle, keep the phase and the countdown.
LEMMA SilentPhase ==
  ASSUME NEW c \in 0 .. 2, NEW p \in 0 .. Slots(c) - 1, NEW n \in 0 .. 7,
         NEW s \in SeeStates, NEW v \in View, NEW done \in BOOLEAN,
         Phase(c, p, n, s, v, done), Countdown(c, p, n, s, v, done), n + 1 < Interval(v)
  PROVE  Phase(c, p + 1, n + 1, s, v, done) /\ Countdown(c, p + 1, n + 1, s, v, done)
BY IntervalFacts DEF Phase, Countdown, Slots

LEMMA CyclePhase ==
  ASSUME NEW c \in 0 .. 2, NEW n \in 0 .. 7,
         NEW s \in SeeStates, NEW v \in View, NEW done \in BOOLEAN, NEW t \in SeeStates,
         Phase(c, Slots(c), n, s, v, done), Countdown(c, Slots(c), n, s, v, done),
         s.seen => done,
         t.timing = s.timing, ~t.seen, t.cycles = IF s.cycles = 0 THEN 0 ELSE s.cycles - 1
  PROVE  /\ Phase(IF c = 2 THEN 0 ELSE c + 1, 0, n, t, v, FALSE)
         /\ Countdown(IF c = 2 THEN 0 ELSE c + 1, 0, n, t, v, FALSE)
<1>1. /\ s.timing \in SynchTiming /\ v.quality = "HIGH" /\ v.width \in Width
      /\ n < Interval(v)
      /\ SlotOf(s.timing) \in {3 * c + Slots(c) - 1 - n, 3 * c + Slots(c) - 1 - n + 8}
      /\ s.timing = "22_5" => v.width # "NORMAL"
      /\ s.timing = "0_00" => v.width # "NARROW"
  BY IntervalFacts DEF Phase
<1>2. s.cycles = Due(s.timing, v.width) - c
                   - (IF SlotOf(s.timing) = 3 * c + Slots(c) - 1 - n THEN 0 ELSE 3)
  BY DEF Countdown
<1>3. SlotOf(s.timing) \in 0 .. 6
  BY <1>1, TimingFacts
<1>4. /\ c = 2 => SlotOf(s.timing) = 7 - n
      /\ c < 2 => Slots(c) = 3
      /\ c = 2 => Slots(c) = 2
  BY <1>1, <1>3 DEF Slots
<1>5. s.cycles > 0
  <2>1. CASE s.timing = "0_00"
    BY <1>1, <1>2, <1>4, <2>1, TimingFacts, IntervalFacts DEF Due, Width
  <2>2. CASE s.timing = "50_0"
    BY <1>1, <1>2, <1>4, <2>2, TimingFacts, IntervalFacts DEF Due, Width
  <2>3. CASE s.timing = "22_5"
    BY <1>1, <1>2, <1>4, <2>3, TimingFacts, IntervalFacts DEF Due, Width
  <2> QED
    BY <1>1, <2>1, <2>2, <2>3, TimingFacts
<1>6. t.cycles = s.cycles - 1
  BY <1>5
<1>7. Phase(IF c = 2 THEN 0 ELSE c + 1, 0, n, t, v, FALSE)
  BY <1>1, <1>3, <1>4 DEF Phase
<1>8. Due(s.timing, v.width) \in Int
  BY <1>1, TimingFacts DEF Due
<1> HIDE DEF Due, SlotOf
<1>9. Countdown(IF c = 2 THEN 0 ELSE c + 1, 0, n, t, v, FALSE)
  BY <1>1, <1>2, <1>3, <1>4, <1>6, <1>8 DEF Countdown
<1> QED
  BY <1>7, <1>9

-----------------------------------------------------------------------------
(* The see state and the end of a decision.                                *)

AgentType == [ss : SeeStates, self : View, out : Seq(View)]

\* Two see states that differ in the countdown only.
Alike(s, t) ==
  /\ t.seen = s.seen /\ t.timing = s.timing /\ t.seeCount = s.seeCount
  /\ t.history = s.history /\ t.synchSee = s.synchSee

LEMMA SetViewModeFacts ==
  ASSUME NEW s \in SeeStates, NEW v \in View
  PROVE  /\ SetViewMode(s, v) \in SeeStates /\ Alike(s, SetViewMode(s, v))
         /\ ~s.seen => SetViewMode(s, v) = s
         /\ s.seen /\ ~IllegalWidth(s, v.width) =>
              SetViewMode(s, v).cycles = CyclesFor(s, v.width)
<1>1. CyclesFor(s, v.width) \in 0 .. 100
  BY IntervalFacts DEF CyclesFor, Width
<1>2. CASE s.seen /\ ~IllegalWidth(s, v.width)
  <2>1. SetViewMode(s, v) = [s EXCEPT !.cycles = CyclesFor(s, v.width)]
    BY <1>2 DEF SetViewMode
  <2> QED
    BY <1>1, <1>2, <2>1 DEF SeeStates, Alike
<1>3. CASE ~(s.seen /\ ~IllegalWidth(s, v.width))
  <2>1. SetViewMode(s, v) = s
    BY <1>3 DEF SetViewMode
  <2> QED
    BY <1>3, <2>1 DEF Alike
<1> QED
  BY <1>2, <1>3

LEMMA AgentFacts ==
  ASSUME NEW a \in AgentType
  PROVE  /\ a.ss \in SeeStates /\ a.self \in View /\ a.out \in Seq(View)
         /\ a = [ss |-> a.ss, self |-> a.self, out |-> a.out]
BY DEF AgentType

\* What Action does once it has looked at its synchronisation.
Finish(a, request) ==
  LET acted == DoViewAction(a, request)
  IN  [acted EXCEPT !.ss = SetViewMode(@, acted.self)]

\* The view mode that doViewAction leaves.
Wanted(a, request) ==
  IF (IsSynch(a.ss) \/ playOn) /\ MayChangeView(a, WidthFor(a, request))
  THEN Mode(WidthFor(a, request), "HIGH") ELSE a.self

LEMMA WantedFacts ==
  ASSUME NEW a \in AgentType, NEW request \in Request
  PROVE  /\ WidthFor(a, request) \in Width
         /\ Wanted(a, request) \in View
         /\ Wanted(a, request) # a.self => Wanted(a, request).quality = "HIGH"
<1>1. WidthFor(a, request) \in Width
  BY DEF WidthFor, Request, Width
<1> QED
  BY <1>1, ModeFacts, AgentFacts DEF Wanted, Quality

LEMMA FinishFacts ==
  ASSUME NEW a \in AgentType, NEW request \in Request
  PROVE  /\ Finish(a, request) \in AgentType
         /\ Finish(a, request).self = Wanted(a, request)
         /\ Finish(a, request).ss = SetViewMode(a.ss, Wanted(a, request))
         /\ \/ Finish(a, request).out = a.out /\ Wanted(a, request) = a.self
            \/ Finish(a, request).out = Append(a.out, Wanted(a, request))
<1> DEFINE w == Wanted(a, request)
           b == DoViewAction(a, request)
<1>1. w \in View
  BY WantedFacts
<1>2. /\ b.ss = a.ss /\ b.self = w /\ b = [ss |-> b.ss, self |-> b.self, out |-> b.out]
      /\ \/ b.out = a.out /\ w = a.self
         \/ b.out = Append(a.out, w)
  <2> DEFINE asks == (IsSynch(a.ss) \/ playOn) /\ MayChangeView(a, WidthFor(a, request))
             m == Mode(WidthFor(a, request), "HIGH")
  <2>1. CASE asks
    <3>1. b = [a EXCEPT !.self = m, !.out = Append(@, m)] /\ w = m
      BY <2>1 DEF DoViewAction, Wanted
    <3> HIDE DEF m, b, w
    <3>2. a = [ss |-> a.ss, self |-> a.self, out |-> a.out]
      BY AgentFacts
    <3>3. b = [ss |-> a.ss, self |-> m, out |-> Append(a.out, m)]
      BY <3>1, <3>2
    <3> QED
      BY <3>1, <3>3
  <2>2. CASE ~asks
    <3>1. b = a /\ w = a.self
      BY <2>2 DEF DoViewAction, Wanted
    <3> HIDE DEF b, w
    <3> QED
      BY <3>1, AgentFacts
  <2> QED
    BY <2>1, <2>2
<1> HIDE DEF w, b
<1>3. b.out \in Seq(View)
  BY <1>1, <1>2, AgentFacts
<1>4. Finish(a, request) = [ss |-> SetViewMode(a.ss, w), self |-> w, out |-> b.out]
  BY <1>2 DEF Finish, b
<1>5. SetViewMode(a.ss, w) \in SeeStates
  BY <1>1, AgentFacts, SetViewModeFacts
<1> QED
  BY <1>1, <1>2, <1>3, <1>4, <1>5 DEF AgentType, w

\* A synchronised agent that has just seen ends in a view mode that the server's
\* timer and the countdown fit.
LEMMA FinishSeen ==
  ASSUME NEW a \in AgentType, NEW request \in Request,
         NEW c \in 0 .. 2, NEW p \in 0 .. Slots(c), NEW n \in 0 .. 7,
         Phase(c, p, n, a.ss, a.self, FALSE), a.ss.seen, ~a.ss.synchSee
  PROVE  /\ Phase(c, p, n, Finish(a, request).ss, Finish(a, request).self, TRUE)
         /\ Countdown(c, p, n, Finish(a, request).ss, Finish(a, request).self, TRUE)
         /\ Finish(a, request).ss.cycles > 0 /\ Alike(a.ss, Finish(a, request).ss)
<1> DEFINE s == a.ss
           w == Wanted(a, request)
           t == SetViewMode(s, w)
<1>1. /\ s.timing \in SynchTiming /\ n < p /\ IsSynch(s)
      /\ s.timing = "22_5" => a.self.width # "NORMAL"
      /\ a.self.quality = "HIGH" /\ a.self.width \in Width /\ a.self \in View
      /\ s \in SeeStates /\ w \in View
  BY AgentFacts, WantedFacts, IntervalFacts DEF Phase, IsSynch
<1>2. /\ Finish(a, request).ss = t /\ Finish(a, request).self = w
      /\ Alike(s, t)
      /\ ~IllegalWidth(s, w.width) => t.cycles = CyclesFor(s, w.width)
  BY <1>1, FinishFacts, SetViewModeFacts
<1>3. w = IF CanChangeViewTo(s, WidthFor(a, request), s.seen)
             /\ WidthFor(a, request) # a.self.width
          THEN Mode(WidthFor(a, request), "HIGH") ELSE a.self
  BY <1>1 DEF Wanted, MayChangeView
<1> DEFINE m == Mode(WidthFor(a, request), "HIGH")
<1>11. m.width = WidthFor(a, request) /\ m.quality = "HIGH" /\ m.width \in Width
  BY WantedFacts, ModeFacts DEF Quality
<1> HIDE DEF w, t, m
<1>4. w.quality = "HIGH" /\ w.width \in Width
  BY <1>1, <1>3, <1>11 DEF m
<1>5. w.width = IF CanChangeViewTo(s, WidthFor(a, request), s.seen)
                THEN WidthFor(a, request) ELSE a.self.width
  BY <1>3, <1>11 DEF m
<1>6. /\ p <= 3 /\ (c = 2 => p <= 2) /\ p \in Nat
      /\ \/ SlotOf(s.timing) = 3 * c + p - 1 - n
         \/ SlotOf(s.timing) = 3 * c + p - 1 - n + 8
  BY DEF Phase, Slots
<1>7. ASSUME w.width # "NARROW" \/ n < 2
      PROVE  n < Interval(w)
  BY <1>1, <1>4, <1>6, <1>7, IntervalFacts DEF Width
<1>8. CASE s.timing = "0_00"
  <2>1. SlotOf(s.timing) = 0
    BY <1>8, TimingFacts
  <2>2. c = 0 /\ p = n + 1
    BY <1>1, <1>6, <2>1
  <2>3. w.width \in {"WIDE", "NORMAL"}
    BY <1>1, <1>5, <1>8 DEF CanChangeViewTo, WidthFor, Request
  <2>4. ~IllegalWidth(s, w.width)
    BY <1>8, <2>3 DEF IllegalWidth
  <2>5. t.cycles = Due(s.timing, w.width)
    BY <1>2, <1>8, <2>3, <2>4 DEF CyclesFor, Due
  <2>6. Phase(c, p, n, t, w, TRUE)
    BY <1>1, <1>2, <1>4, <1>7, <1>8, <2>1, <2>2, <2>3 DEF Phase, Alike
  <2>7. Countdown(c, p, n, t, w, TRUE)
    BY <1>2, <1>8, <2>1, <2>2, <2>3, <2>5 DEF Countdown, Alike, Due
  <2>8. t.cycles > 0
    BY <1>8, <2>3, <2>5 DEF Due
  <2> QED
    BY <1>2, <2>6, <2>7, <2>8
<1>9. CASE s.timing = "50_0"
  <2>1. SlotOf(s.timing) = 4
    BY <1>9, TimingFacts
  <2>2. c = 1 /\ p = n + 2
    BY <1>1, <1>6, <2>1
  <2>3. ~IllegalWidth(s, w.width)
    BY <1>9 DEF IllegalWidth
  <2>4. t.cycles = Due(s.timing, w.width) - 1
    BY <1>2, <1>4, <1>9, <2>3 DEF CyclesFor, Due, Width
  <2>5. n < 2
    BY <1>6, <2>2
  <2>6. Phase(c, p, n, t, w, TRUE)
    BY <1>1, <1>2, <1>4, <1>7, <1>9, <2>1, <2>2, <2>5 DEF Phase, Alike
  <2>7. Countdown(c, p, n, t, w, TRUE)
    BY <1>2, <1>4, <1>9, <2>1, <2>2, <2>4 DEF Countdown, Alike, Due, Width
  <2>8. t.cycles > 0
    BY <1>4, <1>9, <2>4 DEF Due, Width
  <2> QED
    BY <1>2, <2>6, <2>7, <2>8
<1>10. CASE s.timing = "22_5"
  <2>1. SlotOf(s.timing) = 6
    BY <1>10, TimingFacts
  <2>2. c = 2 /\ p = n + 1
    BY <1>1, <1>6, <2>1
  <2>3. w.width \in {"WIDE", "NARROW"}
    BY <1>1, <1>4, <1>5, <1>10 DEF CanChangeViewTo, Width
  <2>4. ~IllegalWidth(s, w.width)
    BY <1>10, <2>3 DEF IllegalWidth
  <2>5. t.cycles = Due(s.timing, w.width) - 2
    BY <1>2, <1>10, <2>3, <2>4 DEF CyclesFor, Due
  <2>6. n < 2
    BY <1>6, <2>2
  <2>7. Phase(c, p, n, t, w, TRUE)
    BY <1>1, <1>2, <1>4, <1>7, <1>10, <2>1, <2>2, <2>3, <2>6 DEF Phase, Alike
  <2>8. Countdown(c, p, n, t, w, TRUE)
    BY <1>2, <1>10, <2>1, <2>2, <2>3, <2>5 DEF Countdown, Alike, Due
  <2>9. t.cycles > 0
    BY <1>10, <2>3, <2>5 DEF Due
  <2> QED
    BY <1>2, <2>7, <2>8, <2>9
<1> QED
  BY <1>1, <1>8, <1>9, <1>10, TimingFacts

\* One that has not seen in this cycle changes nothing.
LEMMA FinishUnseen ==
  ASSUME NEW a \in AgentType, NEW request \in Request, IsSynch(a.ss), ~a.ss.seen
  PROVE  /\ Finish(a, request).ss = a.ss /\ Finish(a, request).self = a.self
         /\ Finish(a, request).out = a.out
<1>1. Wanted(a, request) = a.self
  BY DEF Wanted, MayChangeView, CanChangeViewTo
<1>2. DoViewAction(a, request) = a
  BY DEF DoViewAction, MayChangeView, CanChangeViewTo
<1>3. Finish(a, request) = [a EXCEPT !.ss = SetViewMode(a.ss, a.self)]
  BY <1>2 DEF Finish
<1>4. SetViewMode(a.ss, a.self) = a.ss
  BY AgentFacts, SetViewModeFacts
<1> QED
  BY <1>3, <1>4, AgentFacts

-----------------------------------------------------------------------------
(* Seeing.                                                                 *)

LEMMA NewCycleFacts ==
  ASSUME NEW s \in SeeStates
  PROVE  /\ NewCycle(s) \in SeeStates
         /\ ~NewCycle(s).seen /\ NewCycle(s).seeCount = 0
         /\ NewCycle(s).timing = s.timing /\ NewCycle(s).synchSee = s.synchSee
         /\ NewCycle(s).history = <<s.seeCount, s.history[1], s.history[2]>>
         /\ NewCycle(s).cycles = IF s.cycles = 0 THEN 0 ELSE s.cycles - 1
<1>1. s.cycles \in 0 .. 100 /\ (IF s.cycles = 0 THEN 0 ELSE s.cycles - 1) \in 0 .. 100
  BY StateFacts
<1>2. <<s.seeCount, s.history[1], s.history[2]>> \in Nat \X Nat \X Nat
  BY StateFacts
<1> QED
  BY <1>1, <1>2, StateFacts DEF SeeStates, NewCycle

LEMMA CountSeeFacts ==
  ASSUME NEW s \in SeeStates, NEW isNew \in BOOLEAN
  PROVE  /\ CountSee(s, isNew) \in SeeStates
         /\ CountSee(s, isNew).seen /\ CountSee(s, isNew).synchSee = s.synchSee
         /\ CountSee(s, isNew).seeCount = IF s.seen /\ ~isNew THEN s.seeCount + 1 ELSE 1
         /\ ~s.seen \/ isNew \/ s.timing = "NOSYNCH" => CountSee(s, isNew).timing = s.timing
         /\ CountSee(s, isNew).history =
              IF isNew THEN <<s.seeCount, s.history[1], s.history[2]>> ELSE s.history
         /\ ~isNew \/ s.cycles = 0 => CountSee(s, isNew).cycles = s.cycles
<1>1. CASE s.seen /\ ~isNew
  <2> DEFINE t == IF IsSynch(s) THEN "NOSYNCH" ELSE s.timing
  <2>1. CountSee(s, isNew) = [s EXCEPT !.seeCount = @ + 1, !.timing = t]
    BY <1>1 DEF CountSee
  <2>2. t \in Timing /\ s.seeCount + 1 \in Nat
    BY StateFacts DEF Timing
  <2>3. s.timing = "NOSYNCH" => t = s.timing
    OBVIOUS
  <2> HIDE DEF t
  <2> QED
    BY <1>1, <2>1, <2>2, <2>3, StateFacts DEF SeeStates
<1>2. CASE ~(s.seen /\ ~isNew)
  <2> DEFINE t == SetNewCycle(s, isNew)
  <2>1. CountSee(s, isNew) = [t EXCEPT !.seen = TRUE, !.seeCount = 1]
    BY <1>2 DEF CountSee
  <2>2. /\ t \in SeeStates /\ t.timing = s.timing /\ t.synchSee = s.synchSee
        /\ t.history = IF isNew THEN <<s.seeCount, s.history[1], s.history[2]>> ELSE s.history
        /\ ~isNew \/ s.cycles = 0 => t.cycles = s.cycles
    BY NewCycleFacts DEF SetNewCycle
  <2> HIDE DEF t
  <2>3. t = [seen |-> t.seen, timing |-> t.timing, seeCount |-> t.seeCount,
             history |-> t.history, cycles |-> t.cycles, synchSee |-> t.synchSee]
    BY <2>2, StateFacts
  <2>4. CountSee(s, isNew) =
          [seen |-> TRUE, timing |-> t.timing, seeCount |-> 1,
           history |-> t.history, cycles |-> t.cycles, synchSee |-> t.synchSee]
    BY <2>1, <2>3
  <2>5. CountSee(s, isNew) \in SeeStates
    BY <2>2, <2>4 DEF SeeStates
  <2> QED
    BY <1>2, <2>2, <2>4, <2>5
<1> QED
  BY <1>1, <1>2

LEMMA CountNew ==
  ASSUME NEW s \in SeeStates
  PROVE  /\ CountSee(s, TRUE) \in SeeStates /\ CountSee(s, TRUE).seen
         /\ CountSee(s, TRUE).synchSee = s.synchSee /\ CountSee(s, TRUE).seeCount = 1
         /\ CountSee(s, TRUE).timing = s.timing
         /\ CountSee(s, TRUE).history = <<s.seeCount, s.history[1], s.history[2]>>
         /\ s.cycles = 0 => CountSee(s, TRUE).cycles = 0
BY CountSeeFacts

LEMMA CountSame ==
  ASSUME NEW s \in SeeStates
  PROVE  /\ CountSee(s, FALSE) \in SeeStates /\ CountSee(s, FALSE).seen
         /\ CountSee(s, FALSE).synchSee = s.synchSee
         /\ s.seen => CountSee(s, FALSE).seeCount = s.seeCount + 1
         /\ ~s.seen => CountSee(s, FALSE).seeCount = 1
         /\ ~s.seen \/ s.timing = "NOSYNCH" => CountSee(s, FALSE).timing = s.timing
         /\ CountSee(s, FALSE).history = s.history /\ CountSee(s, FALSE).cycles = s.cycles
BY CountSeeFacts

\* A see without synchronisation is counted; view modes of high quality keep
\* the timings in their type.
LEMMA SeeUnsynched ==
  ASSUME NEW s \in SeeStates, NEW isNew \in BOOLEAN, NEW v \in View,
         s.timing = "NOSYNCH", ~s.synchSee
  PROVE  UpdateBySee(s, isNew, v) = CountSee(s, isNew)
<1> DEFINE t == CountSee(s, isNew)
<1>1. t \in SeeStates /\ t.timing = "NOSYNCH" /\ ~t.synchSee
  <2>1. CASE isNew = TRUE
    BY <2>1, CountSeeFacts
  <2>2. CASE isNew = FALSE
    BY <2>2, CountSeeFacts
  <2> QED
    BY <2>1, <2>2
<1>2. ~IsSynch(t)
  BY <1>1, TimingFacts DEF IsSynch
<1>3. [t EXCEPT !.timing = "NOSYNCH"] = t
  BY <1>1 DEF SeeStates
<1> QED
  BY <1>1, <1>2, <1>3 DEF UpdateBySee

LEMMA SeeTypes ==
  ASSUME NEW s \in SeeStates, NEW isNew \in BOOLEAN, NEW v \in View
  PROVE  UpdateBySee(s, isNew, v) \in SeeStates
<1> DEFINE t == CountSee(s, isNew)
           e == IF t.cycles > 0 THEN SetViewMode([t EXCEPT !.cycles = 0], v) ELSE t
<1>1. t \in SeeStates
  BY CountSeeFacts
<1>2. [t EXCEPT !.cycles = 0] \in SeeStates /\ [t EXCEPT !.timing = "NOSYNCH"] \in SeeStates
  BY <1>1 DEF SeeStates, Timing
<1>3. e \in SeeStates
  BY <1>1, <1>2, SetViewModeFacts
<1>4. NextTiming(e, v) \in Timing
  BY DEF NextTiming, Timing, SynchTiming
<1> HIDE DEF t, e
<1>5. [e EXCEPT !.timing = NextTiming(e, v)] \in SeeStates
  BY <1>3, <1>4 DEF SeeStates
<1>6. UpdateBySee(s, isNew, v) \in {[t EXCEPT !.timing = "NOSYNCH"], t,
                                    [e EXCEPT !.timing = NextTiming(e, v)]}
  BY DEF UpdateBySee, t, e
<1> QED
  BY <1>1, <1>2, <1>5, <1>6

\* The see that was due, to a synchronised agent.
SeenNow(s, isNew, v) == UpdateBySee(s, isNew, v)
Timely(c, p, n, s, v) ==
  /\ ~s.synchSee /\ n + 1 >= Interval(v)
  /\ \/ Phase(c, p, n, s, v, TRUE) /\ Countdown(c, p, n, s, v, TRUE)
     \/ Phase(c, p, n, s, v, FALSE) /\ Countdown(c, p, n, s, v, FALSE) /\ ~s.seen
JustSeen(c, p, s, t, v) ==
  /\ ~s.seen /\ s.cycles = 0
  /\ t.seen /\ t.seeCount = 1 /\ ~t.synchSee
  /\ Phase(c, p + 1, 0, t, v, FALSE) /\ Countdown(c, p + 1, 0, t, v, FALSE)

LEMMA SeeSynched ==
  ASSUME NEW c \in 0 .. 2, NEW p \in 0 .. Slots(c) - 1, NEW n \in 0 .. 7,
         NEW s \in SeeStates, NEW v \in View, NEW t \in SeeStates,
         NEW isNew \in BOOLEAN, Timely(c, p, n, s, v), t = SeenNow(s, isNew, v)
  PROVE  JustSeen(c, p, s, t, v)
<1>0. ~s.synchSee /\ n + 1 >= Interval(v)
  BY DEF Timely
<1>1. /\ ~s.seen /\ s.cycles = 0
      /\ NextTiming(s, v) \in SynchTiming /\ SlotOf(NextTiming(s, v)) = 3 * c + p
      /\ NextTiming(s, v) = "22_5" => v.width # "NORMAL"
  <2>1. ASSUME NEW done \in BOOLEAN, Phase(c, p, n, s, v, done),
               Countdown(c, p, n, s, v, done), s.seen => done
        PROVE  /\ ~s.seen /\ s.cycles = 0
               /\ NextTiming(s, v) \in SynchTiming /\ SlotOf(NextTiming(s, v)) = 3 * c + p
               /\ NextTiming(s, v) = "22_5" => v.width # "NORMAL"
    BY <1>0, <2>1, DueSee
  <2>2. CASE Phase(c, p, n, s, v, TRUE) /\ Countdown(c, p, n, s, v, TRUE)
    BY <2>1, <2>2
  <2>3. CASE Phase(c, p, n, s, v, FALSE) /\ Countdown(c, p, n, s, v, FALSE) /\ ~s.seen
    BY <2>1, <2>3
  <2> QED
    BY <2>2, <2>3 DEF Timely
<1> DEFINE k == CountSee(s, isNew)
           e == IF k.cycles > 0 THEN SetViewMode([k EXCEPT !.cycles = 0], v) ELSE k
<1>2. s.timing \in SynchTiming /\ v.quality = "HIGH"
  BY DEF Timely, Phase
<1>3. /\ k \in SeeStates /\ k.seen /\ k.synchSee = s.synchSee /\ k.seeCount = 1
      /\ k.timing = s.timing /\ k.cycles = 0
  <2>1. CASE isNew = TRUE
    BY <1>1, <2>1, CountNew
  <2>2. CASE isNew = FALSE
    BY <1>1, <2>2, CountSame
  <2> QED
    BY <2>1, <2>2
<1>4. NextTiming(k, v) = NextTiming(s, v)
  BY <1>3 DEF NextTiming
<1>5. IsSynch(k)
  BY <1>2, <1>3 DEF IsSynch
<1> HIDE DEF k, e
<1>6. t = [k EXCEPT !.timing = NextTiming(s, v)]
  <2>1. t = IF v.quality = "LOW" THEN [k EXCEPT !.timing = "NOSYNCH"]
            ELSE IF ~IsSynch(k) THEN k
            ELSE [e EXCEPT !.timing = NextTiming(e, v)]
    BY DEF UpdateBySee, SeenNow, k, e
  <2>2. e = k
    BY <1>3 DEF e
  <2> QED
    BY <1>2, <1>4, <1>5, <2>1, <2>2
<1>7. /\ t.seen /\ t.seeCount = 1 /\ ~t.synchSee
      /\ t.timing = NextTiming(s, v) /\ t.cycles = 0
  BY <1>0, <1>3, <1>6 DEF SeeStates
<1>8. 0 < Interval(v)
  BY IntervalFacts
<1>9. Phase(c, p + 1, 0, t, v, FALSE)
  <2>1. 3 * c + (p + 1) - 1 - 0 = 3 * c + p /\ 0 < p + 1
    OBVIOUS
  <2> QED
    BY <1>1, <1>2, <1>7, <1>8, <2>1 DEF Phase
<1>10. Countdown(c, p + 1, 0, t, v, FALSE)
  BY <1>7 DEF Countdown
<1> QED
  BY <1>1, <1>7, <1>9, <1>10 DEF JustSeen

\* A see without synchronisation keeps the count of sees right.
LEMMA SeeCounted ==
  ASSUME NEW c \in 0 .. 2, NEW p \in 0 .. Slots(c) - 1, NEW n \in 0 .. 7,
         NEW s \in SeeStates, NEW v \in View, NEW isNew \in BOOLEAN, NEW t,
         Counted(c, p, n, s, v), ~s.synchSee, n + 1 >= Interval(v),
         isNew => s.history[1] # 3,
         ~isNew => (s.seen <=> s.seeCount > 0),
         t = UpdateBySee(s, isNew, v)
  PROVE  /\ t \in SeeStates /\ t.seen /\ t.seeCount > 0 /\ ~t.synchSee
         /\ Counted(c, p + 1, 0, t, v)
         /\ ~isNew => t.history = s.history
         /\ isNew => t.history[2] # 3
<1>1. t = CountSee(s, isNew) /\ s.timing = "NOSYNCH"
  <2>1. s.timing = "NOSYNCH"
    BY DEF Counted, Tallied
  <2> QED
    BY <2>1, SeeUnsynched
<1>2. s.seeCount \in Nat /\ s.history[1] \in Nat /\ s.history[2] \in Nat /\ p \in Nat /\ p <= 2
  BY StateFacts DEF Slots
<1>3. v.quality = "HIGH" => n > 0
  BY IntervalFacts DEF Width
<1>4. CASE isNew = TRUE
  <2>1. t = CountSee(s, TRUE)
    BY <1>1, <1>4
  <2>2. /\ t \in SeeStates /\ t.seen /\ t.synchSee = s.synchSee /\ t.seeCount = 1
        /\ t.timing = s.timing /\ t.history = <<s.seeCount, s.history[1], s.history[2]>>
    BY <2>1, CountNew
  <2>3. t.history[1] = s.seeCount /\ t.history[2] = s.history[1]
    BY <2>2
  <2>4. s.seeCount <= p /\ s.history[1] # 3
    BY <1>4 DEF Counted, Tallied
  <2>5. s.seeCount # 3
    BY <1>2, <2>4
  <2>6. Counted(c, p + 1, 0, t, v)
    BY <1>1, <1>2, <2>2, <2>3, <2>4, <2>5 DEF Counted, Tallied
  <2>7. ~t.synchSee
    BY <2>2, Zenon
  <2>8. t.seeCount > 0 /\ t.history[2] # 3
    BY <2>2, <2>3, <2>4
  <2> QED
    BY <1>4, <2>2, <2>6, <2>7, <2>8, Zenon
<1>5. CASE isNew = FALSE
  <2>1. t = CountSee(s, FALSE) /\ (s.seen <=> s.seeCount > 0)
    BY <1>1, <1>5
  <2>2. /\ t \in SeeStates /\ t.seen /\ t.synchSee = s.synchSee /\ t.history = s.history
        /\ (s.seen => t.seeCount = s.seeCount + 1) /\ (~s.seen => t.seeCount = 1)
    BY <2>1, CountSame
  <2>3. t.timing = "NOSYNCH"
    BY <1>1, <2>1, CountSame
  <2>4. t.seeCount = s.seeCount + 1
    <3>1. CASE s.seen
      BY <2>2, <3>1
    <3>2. CASE ~s.seen
      <4>1. ~(s.seeCount > 0) /\ t.seeCount = 1
        BY <2>1, <2>2, <3>2, Zenon
      <4> QED
        BY <1>2, <4>1
    <3> QED
      BY <3>1, <3>2
  <2>5. Counted(c, p + 1, 0, t, v)
    BY <1>2, <1>3, <2>2, <2>3, <2>4 DEF Counted, Tallied
  <2>6. ~t.synchSee
    BY <2>2, Zenon
  <2> QED
    BY <1>2, <1>5, <2>2, <2>4, <2>5, <2>6
<1> QED
  BY <1>4, <1>5

-----------------------------------------------------------------------------
(* Adjusting.                                                              *)

LEMMA SendFacts ==
  ASSUME NEW a \in AgentType, NEW v \in View
  PROVE  /\ SendChangeView(a, v) \in AgentType
         /\ SendChangeView(a, v).ss = SetViewMode(a.ss, v)
         /\ SendChangeView(a, v).self = v
         /\ SendChangeView(a, v).out = Append(a.out, v)
BY AgentFacts, SetViewModeFacts DEF SendChangeView, AgentType

LEMMA TimedFacts ==
  ASSUME NEW a \in AgentType, NEW timing \in Timing
  PROVE  /\ [a EXCEPT !.ss = SetLastSeeTiming(@, timing)] \in AgentType
         /\ [a EXCEPT !.ss = SetLastSeeTiming(@, timing)].self = a.self
         /\ [a EXCEPT !.ss = SetLastSeeTiming(@, timing)].out = a.out
         /\ [a EXCEPT !.ss = SetLastSeeTiming(@, timing)].ss = [a.ss EXCEPT !.timing = timing]
         /\ [a.ss EXCEPT !.timing = timing] \in SeeStates
BY DEF SetLastSeeTiming, AgentType, SeeStates

\* The view modes of the adjustment, and what it may do.
Narrow(q) == Mode("NARROW", q)

LEMMA NormalModeCases ==
  ASSUME NEW a \in AgentType, NEW b, b = AdjustSeeSynchNormalMode(a)
  PROVE  \/ b = a
         \/ /\ ~IsSynch(a.ss) /\ IsSynchedSeeCountNormalMode(a.ss)
            /\ b = SendChangeView([a EXCEPT !.ss = SetLastSeeTiming(@, "0_00")],
                                  Mode("NORMAL", "HIGH"))
         \/ /\ ~IsSynch(a.ss) /\ ~IsSynchedSeeCountNormalMode(a.ss)
            /\ playOn /\ a.self.quality = "LOW" /\ b = SendChangeView(a, Narrow("HIGH"))
         \/ /\ ~IsSynch(a.ss) /\ ~IsSynchedSeeCountNormalMode(a.ss)
            /\ ~playOn /\ (a.self.width # "NARROW" \/ a.self.quality # "LOW")
            /\ b = SendChangeView(a, Narrow("LOW"))
BY DEF AdjustSeeSynchNormalMode, Narrow

LEMMA SynchModeCases ==
  ASSUME NEW a \in AgentType, NEW b, b = AdjustSeeSynchSynchMode(a)
  PROVE  \/ b = a
         \/ /\ ~IsSynch(a.ss) /\ IsSynchedSeeCountSynchMode(a.ss)
            /\ b = SendChangeView([a EXCEPT !.ss = SetLastSeeTiming(@, "50_0")], Narrow("HIGH"))
         \/ /\ ~IsSynch(a.ss) /\ ~IsSynchedSeeCountSynchMode(a.ss)
            /\ playOn /\ a.self.quality = "LOW" /\ b = SendChangeView(a, Narrow("HIGH"))
         \/ /\ ~IsSynch(a.ss) /\ ~IsSynchedSeeCountSynchMode(a.ss)
            /\ ~playOn /\ a.self.width # "NARROW" /\ a.self.quality # "LOW"
            /\ b = SendChangeView(a, Narrow("LOW"))
BY DEF AdjustSeeSynchSynchMode, Narrow

LEMMA ModesOfAdjustment ==
  /\ \A q \in Quality : Narrow(q) \in View /\ Narrow(q).width = "NARROW" /\ Narrow(q).quality = q
  /\ Mode("NORMAL", "HIGH") \in View /\ Mode("NORMAL", "HIGH").width = "NORMAL"
  /\ Mode("NORMAL", "HIGH").quality = "HIGH" /\ "HIGH" \in Quality /\ "LOW" \in Quality
BY DEF Narrow, Mode, View, Quality, Width

\* What a handler sends ends in the view mode the agent takes for its own.
Announced(a, v) == IF a.out = << >> THEN a.self = v ELSE a.out[Len(a.out)] = a.self

LEMMA AnnouncedSend ==
  ASSUME NEW a \in AgentType, NEW v \in View
  PROVE  Announced(SendChangeView(a, v), v) /\ \A w : Announced(SendChangeView(a, v), w)
<1> DEFINE b == SendChangeView(a, v)
<1>1. b.self = v /\ b.out = Append(a.out, v) /\ a.out \in Seq(View)
  BY SendFacts, AgentFacts
<1>2. b.out # << >> /\ b.out[Len(b.out)] = v
  BY <1>1
<1> QED
  BY <1>1, <1>2 DEF Announced

LEMMA AdjustTypes ==
  ASSUME NEW a \in AgentType, NEW w \in View, Announced(a, w)
  PROVE  /\ AdjustSeeSynchNormalMode(a) \in AgentType
         /\ AdjustSeeSynchSynchMode(a) \in AgentType
         /\ Announced(AdjustSeeSynchNormalMode(a), w)
         /\ Announced(AdjustSeeSynchSynchMode(a), w)
<1>1. "0_00" \in Timing /\ "50_0" \in Timing
  BY TimingFacts
<1> DEFINE x == [a EXCEPT !.ss = SetLastSeeTiming(@, "0_00")]
           y == [a EXCEPT !.ss = SetLastSeeTiming(@, "50_0")]
<1>2. x \in AgentType /\ y \in AgentType
  BY <1>1, TimedFacts
<1> HIDE DEF x, y
<1>3. \A b \in {a, x, y}, v \in View :
        SendChangeView(b, v) \in AgentType /\ Announced(SendChangeView(b, v), w)
  BY <1>2, SendFacts, AnnouncedSend
<1>4. PICK b : b = AdjustSeeSynchNormalMode(a)
  OBVIOUS
<1>5. b \in AgentType /\ Announced(b, w)
  BY <1>3, <1>4, NormalModeCases, ModesOfAdjustment DEF x
<1>6. PICK d : d = AdjustSeeSynchSynchMode(a)
  OBVIOUS
<1>7. d \in AgentType /\ Announced(d, w)
  BY <1>3, <1>6, SynchModeCases, ModesOfAdjustment DEF y
<1> QED
  BY <1>4, <1>5, <1>6, <1>7

LEMMA AnnouncedFinish ==
  ASSUME NEW a \in AgentType, NEW request \in Request, NEW w \in View, Announced(a, w)
  PROVE  Announced(Finish(a, request), w)
<1> DEFINE b == Finish(a, request)
<1>1. /\ b.self = Wanted(a, request) /\ a.out \in Seq(View) /\ Wanted(a, request) \in View
      /\ \/ b.out = a.out /\ Wanted(a, request) = a.self
         \/ b.out = Append(a.out, Wanted(a, request))
  BY FinishFacts, AgentFacts, WantedFacts
<1> HIDE DEF b
<1> SUFFICES Announced(b, w)
  BY DEF b
<1>2. CASE b.out = a.out /\ Wanted(a, request) = a.self
  BY <1>1, <1>2 DEF Announced
<1>3. CASE b.out = Append(a.out, Wanted(a, request))
  <2>1. b.out # << >> /\ b.out[Len(b.out)] = Wanted(a, request)
    BY <1>1, <1>3
  <2> QED
    BY <1>1, <2>1 DEF Announced
<1> QED
  BY <1>1, <1>2, <1>3

\* Another view mode of high quality, or the narrow one of low quality while
\* play is stopped, keeps the count of sees right.
LEMMA CountedOther ==
  ASSUME NEW c \in 0 .. 2, NEW p \in 0 .. Slots(c), NEW n \in 0 .. 7,
         NEW s \in SeeStates, NEW t \in SeeStates, NEW v \in View, NEW w \in View,
         Counted(c, p, n, s, v), Alike(s, t),
         \/ w = v
         \/ v.quality = "HIGH" /\ w.quality = "HIGH"
         \/ v.quality = "HIGH" /\ w = Narrow("LOW") /\ ~playOn
  PROVE  Counted(c, p, n, t, w) /\ (~t.synchSee => ~IsSynch(t))
<1>1. /\ t.timing = "NOSYNCH" /\ t.seeCount = s.seeCount /\ t.history = s.history
      /\ ~t.synchSee => ~IsSynch(t)
  BY TimingFacts DEF Counted, Tallied, Alike, IsSynch
<1>2. CASE \/ w = v
           \/ v.quality = "HIGH" /\ w.quality = "HIGH"
  <2>1. Counted(c, p, n, t, w)
    BY <1>1, <1>2 DEF Counted, Tallied
  <2> QED
    BY <1>1, <2>1
<1>3. CASE v.quality = "HIGH" /\ w = Narrow("LOW") /\ ~playOn
  <2>1. p <= 3 /\ p \in Nat /\ s.seeCount \in Nat
    BY StateFacts DEF Slots
  <2>2. w.quality = "LOW" /\ w.width = "NARROW"
    BY <1>3, ModesOfAdjustment
  <2>3. s.seeCount # 3 /\ s.history[1] # 3 /\ s.history[2] # 3 /\ s.seeCount <= p
    BY <1>3, <2>1 DEF Counted, Tallied
  <2>4. Counted(c, p, n, t, w)
    BY <1>1, <1>3, <2>2, <2>3 DEF Counted, Tallied
  <2> QED
    BY <1>1, <2>4
<1> QED
  BY <1>2, <1>3

LEMMA FinishCounted ==
  ASSUME NEW a \in AgentType, NEW request \in Request,
         NEW c \in 0 .. 2, NEW p \in 0 .. Slots(c), NEW n \in 0 .. 7,
         Counted(c, p, n, a.ss, a.self), ~a.ss.synchSee
  PROVE  /\ Counted(c, p, n, Finish(a, request).ss, Finish(a, request).self)
         /\ ~IsSynch(Finish(a, request).ss) /\ Alike(a.ss, Finish(a, request).ss)
<1> DEFINE w == Wanted(a, request)
           t == SetViewMode(a.ss, w)
<1>1. /\ Finish(a, request).ss = t /\ Finish(a, request).self = w
      /\ w \in View /\ a.ss \in SeeStates /\ a.self \in View
  BY FinishFacts, WantedFacts, AgentFacts
<1>2. t \in SeeStates /\ Alike(a.ss, t)
  BY <1>1, SetViewModeFacts
<1>3. w = a.self \/ (a.self.quality = "HIGH" /\ w.quality = "HIGH")
  <2>1. ~IsSynch(a.ss)
    BY TimingFacts DEF Counted, Tallied, IsSynch
  <2>2. w # a.self => playOn /\ w.quality = "HIGH"
    BY <2>1, WantedFacts DEF Wanted
  <2>3. playOn => a.self.quality # "LOW"
    BY DEF Counted, Tallied
  <2>4. a.self.quality \in {"HIGH", "LOW"}
    BY <1>1, IntervalFacts DEF Quality
  <2>5. CASE w = a.self
    BY <2>5
  <2>6. CASE w # a.self
    BY <2>2, <2>3, <2>4, <2>6
  <2> QED
    BY <2>5, <2>6
<1> HIDE DEF w, t
<1>4. ~t.synchSee
  BY <1>2 DEF Alike
<1> QED
  BY <1>1, <1>2, <1>3, <1>4, CountedOther

\* An agent that has found its synchronisation in slot p of cycle c.
Found(c, p, b) ==
  /\ \A done \in BOOLEAN : Phase(c, p, 0, b.ss, b.self, done)
  /\ Countdown(c, p, 0, b.ss, b.self, TRUE)
  /\ b.ss.seen /\ ~b.ss.synchSee /\ b.ss.cycles > 0 /\ IsSynch(b.ss)

LEMMA FoundBySend ==
  ASSUME NEW a \in AgentType, NEW b, a.ss.seen, ~a.ss.synchSee,
         NEW c, NEW p, NEW timing, NEW v,
         \/ c = 0 /\ p = 1 /\ timing = "0_00" /\ v = Mode("NORMAL", "HIGH")
         \/ c = 1 /\ p = 2 /\ timing = "50_0" /\ v = Narrow("HIGH"),
         b = SendChangeView([a EXCEPT !.ss = SetLastSeeTiming(@, timing)], v)
  PROVE  Found(c, p, b) /\ b.ss.seeCount = a.ss.seeCount /\ b.ss.history = a.ss.history
<1> DEFINE x == [a EXCEPT !.ss = SetLastSeeTiming(@, timing)]
<1>1. v \in View /\ timing \in SynchTiming /\ timing \in Timing /\ v.quality = "HIGH"
      /\ v.width = IF timing = "0_00" THEN "NORMAL" ELSE "NARROW"
  BY ModesOfAdjustment, TimingFacts
<1>2. x \in AgentType /\ x.ss = [a.ss EXCEPT !.timing = timing] /\ a.ss \in SeeStates
  BY <1>1, TimedFacts, AgentFacts
<1> HIDE DEF x
<1>3. /\ x.ss \in SeeStates /\ x.ss.seen /\ ~x.ss.synchSee /\ x.ss.timing = timing
      /\ x.ss.seeCount = a.ss.seeCount /\ x.ss.history = a.ss.history
  BY <1>2, AgentFacts DEF SeeStates
<1>4. b.ss = SetViewMode(x.ss, v) /\ b.self = v
  BY <1>1, <1>2, SendFacts DEF x
<1>5. ~IllegalWidth(x.ss, v.width) /\ CyclesFor(x.ss, v.width) = 1
  BY <1>1, <1>3 DEF IllegalWidth, CyclesFor
<1>6. Alike(x.ss, b.ss) /\ b.ss.cycles = 1
  BY <1>1, <1>3, <1>4, <1>5, SetViewModeFacts
<1>7. SlotOf(timing) = 3 * c + p - 1 - 0 /\ Due(timing, v.width) = c + 1
  BY <1>1, TimingFacts DEF Due
<1>8. 0 < Interval(v) /\ 0 < p
  BY <1>1, IntervalFacts
<1>9. \A done \in BOOLEAN : Phase(c, p, 0, b.ss, b.self, done)
  BY <1>1, <1>3, <1>4, <1>6, <1>7, <1>8 DEF Phase, Alike
<1>10. Countdown(c, p, 0, b.ss, b.self, TRUE)
  BY <1>3, <1>4, <1>6, <1>7 DEF Countdown, Alike
<1>11. IsSynch(b.ss)
  BY <1>1, <1>3, <1>6 DEF IsSynch, Alike
<1>12. /\ b.ss.seen /\ ~b.ss.synchSee /\ b.ss.cycles > 0
       /\ b.ss.seeCount = a.ss.seeCount /\ b.ss.history = a.ss.history
  <2>1. b.ss.seen /\ ~b.ss.synchSee
    BY <1>3, <1>6, Zenon DEF Alike
  <2>2. b.ss.seeCount = a.ss.seeCount /\ b.ss.history = a.ss.history
    BY <1>3, <1>6, Zenon DEF Alike
  <2> QED
    BY <1>6, <2>1, <2>2
<1> QED
  BY <1>9, <1>10, <1>11, <1>12, Zenon DEF Found

\* The adjustments: the agent has found its synchronisation, or counts on.
CountsOn(c, p, n, a, b) ==
  Counted(c, p, n, b.ss, b.self) /\ ~IsSynch(b.ss) /\ Alike(a.ss, b.ss)

LEMMA SendCounted ==
  ASSUME NEW c \in 0 .. 2, NEW p \in 0 .. Slots(c), NEW n \in 0 .. 7,
         NEW a \in AgentType, Counted(c, p, n, a.ss, a.self), ~a.ss.synchSee,
         ~playOn, a.self.quality # "LOW"
  PROVE  CountsOn(c, p, n, a, SendChangeView(a, Narrow("LOW")))
<1> DEFINE b == SendChangeView(a, Narrow("LOW"))
<1>1. /\ a.ss \in SeeStates /\ a.self \in View /\ a.self.quality = "HIGH"
      /\ Narrow("LOW") \in View
  BY AgentFacts, IntervalFacts, ModesOfAdjustment DEF Quality
<1>2. b.ss = SetViewMode(a.ss, Narrow("LOW")) /\ b.self = Narrow("LOW")
  BY <1>1, SendFacts
<1>3. b.ss \in SeeStates /\ Alike(a.ss, b.ss)
  BY <1>1, <1>2, SetViewModeFacts
<1> HIDE DEF b
<1>4. ~b.ss.synchSee
  BY <1>3 DEF Alike
<1>5. Counted(c, p, n, b.ss, b.self) /\ ~IsSynch(b.ss)
  BY <1>1, <1>2, <1>3, <1>4, CountedOther
<1> QED
  BY <1>3, <1>5 DEF CountsOn, b

LEMMA SameCounted ==
  ASSUME NEW c, NEW p, NEW n, NEW a, Counted(c, p, n, a.ss, a.self), ~a.ss.synchSee
  PROVE  CountsOn(c, p, n, a, a) /\ ~IsSynch(a.ss)
BY TimingFacts DEF CountsOn, Counted, Tallied, IsSynch, Alike

LEMMA AdjustNormal ==
  ASSUME NEW c \in 0 .. 2, NEW p \in 1 .. Slots(c), NEW a \in AgentType, NEW b,
         Counted(c, p, 0, a.ss, a.self), a.ss.seen, ~a.ss.synchSee,
         IsSynchedSeeCountNormalMode(a.ss) => p = 1,
         b = AdjustSeeSynchNormalMode(a)
  PROVE  \/ Found(c, p, b) /\ b.ss.seeCount = a.ss.seeCount /\ b.ss.history = a.ss.history
         \/ CountsOn(c, p, 0, a, b) /\ ~IsSynchedSeeCountNormalMode(b.ss)
<1>1. ~IsSynch(a.ss) /\ CountsOn(c, p, 0, a, a)
  BY SameCounted
<1>2. a.self.quality = "LOW" => ~playOn /\ a.self.width = "NARROW"
  BY DEF Counted, Tallied
<1>3. p \in 0 .. Slots(c) /\ 0 \in 0 .. 7
  BY DEF Slots
<1>4. CASE IsSynchedSeeCountNormalMode(a.ss)
  <2>1. b = SendChangeView([a EXCEPT !.ss = SetLastSeeTiming(@, "0_00")], Mode("NORMAL", "HIGH"))
    BY <1>1, <1>4 DEF AdjustSeeSynchNormalMode
  <2>2. a.ss.history[1] = 2 /\ a.ss.history[2] = 3 /\ p = 1
    BY <1>4 DEF IsSynchedSeeCountNormalMode
  <2>3. c = 0
    BY <2>2 DEF Counted, Tallied
  <2> QED
    BY <2>1, <2>2, <2>3, FoundBySend
<1>5. CASE ~IsSynchedSeeCountNormalMode(a.ss)
  <2>1. CASE b = a
    BY <1>1, <1>5, <2>1
  <2>2. CASE b # a
    <3>1. /\ ~playOn /\ a.self.quality # "LOW"
          /\ b = SendChangeView(a, Narrow("LOW"))
      BY <1>1, <1>2, <1>5, <2>2 DEF AdjustSeeSynchNormalMode, Narrow
    <3>2. CountsOn(c, p, 0, a, b)
      BY <1>3, <3>1, SendCounted
    <3>3. b.ss.history = a.ss.history
      BY <3>2 DEF CountsOn, Alike
    <3> QED
      BY <1>5, <3>2, <3>3 DEF IsSynchedSeeCountNormalMode
  <2> QED
    BY <2>1, <2>2
<1> QED
  BY <1>4, <1>5

LEMMA AdjustSynch ==
  ASSUME NEW c \in 0 .. 2, NEW p \in 0 .. Slots(c), NEW n \in 0 .. 7,
         NEW a \in AgentType, NEW b,
         Counted(c, p, n, a.ss, a.self), ~a.ss.synchSee,
         p = IF c = 2 THEN 1 ELSE 2,
         IsSynchedSeeCountSynchMode(a.ss) => a.ss.seen,
         b = AdjustSeeSynchSynchMode(a)
  PROVE  \/ /\ c = 1 /\ p = 2 /\ n = 0 /\ Found(c, p, b)
            /\ b.ss.seeCount = a.ss.seeCount /\ b.ss.history = a.ss.history
            /\ IsSynchedSeeCountSynchMode(a.ss)
         \/ CountsOn(c, p, n, a, b)
<1>1. ~IsSynch(a.ss) /\ CountsOn(c, p, n, a, a)
  BY SameCounted
<1>2. a.self.quality = "LOW" => ~playOn
  BY DEF Counted, Tallied
<1>3. CASE IsSynchedSeeCountSynchMode(a.ss)
  <2>1. b = SendChangeView([a EXCEPT !.ss = SetLastSeeTiming(@, "50_0")], Narrow("HIGH"))
    BY <1>1, <1>3 DEF AdjustSeeSynchSynchMode, Narrow
  <2>2. a.ss.history[1] = 3 /\ a.ss.seeCount = 2 /\ a.ss.seen
    BY <1>3 DEF IsSynchedSeeCountSynchMode
  <2>3. p = 2 /\ n = 0 /\ c = 1
    BY <2>2 DEF Counted, Tallied
  <2> QED
    BY <1>3, <2>1, <2>2, <2>3, FoundBySend
<1>4. CASE ~IsSynchedSeeCountSynchMode(a.ss)
  <2>1. CASE b = a
    BY <1>1, <2>1
  <2>2. CASE b # a
    <3>1. /\ ~playOn /\ a.self.quality # "LOW"
          /\ b = SendChangeView(a, Narrow("LOW"))
      BY <1>1, <1>2, <1>4, <2>2 DEF AdjustSeeSynchSynchMode, Narrow
    <3> QED
      BY <3>1, SendCounted
  <2> QED
    BY <2>1, <2>2
<1> QED
  BY <1>3, <1>4

-----------------------------------------------------------------------------
(* Types.                                                                  *)

Checked(a) == IF SeeMissed(a.ss) THEN [a EXCEPT !.ss = SetLastSeeTiming(@, "NOSYNCH")] ELSE a

LEMMA ActionIs ==
  ASSUME NEW a, NEW request
  PROVE  Action(a, request) =
           Finish(IF synchMode THEN AdjustSeeSynchSynchMode(Checked(a)) ELSE Checked(a), request)
BY DEF Action, Finish, Checked

LEMMA ActionTypes ==
  ASSUME NEW a \in AgentType, NEW request \in Request, NEW w \in View, Announced(a, w)
  PROVE  Action(a, request) \in AgentType /\ Announced(Action(a, request), w)
<1> DEFINE b == Checked(a)
           d == IF synchMode THEN AdjustSeeSynchSynchMode(b) ELSE b
<1>1. b \in AgentType /\ Announced(b, w)
  <2>1. CASE SeeMissed(a.ss)
    <3>1. "NOSYNCH" \in Timing
      BY DEF Timing
    <3>2. /\ b \in AgentType /\ b.self = a.self /\ b.out = a.out
      BY <2>1, <3>1, TimedFacts DEF Checked
    <3> QED
      BY <3>2 DEF Announced
  <2>2. CASE ~SeeMissed(a.ss)
    BY <2>2 DEF Checked
  <2> QED
    BY <2>1, <2>2
<1> HIDE DEF b
<1>2. d \in AgentType /\ Announced(d, w)
  BY <1>1, AdjustTypes
<1> HIDE DEF d
<1>3. Action(a, request) = Finish(d, request)
  BY ActionIs DEF d, b
<1> QED
  BY <1>2, <1>3, FinishFacts, AnnouncedFinish

LEMMA AgentIs ==
  ASSUME ss \in SeeStates, self \in View
  PROVE  Agent \in AgentType /\ Announced(Agent, self)
         /\ Agent.ss = ss /\ Agent.self = self /\ Agent.out = << >>
BY DEF Agent, AgentType, Announced

LEMMA AnalyzeSeeTypes ==
  ASSUME ss \in SeeStates, self \in View, NEW isNew \in BOOLEAN
  PROVE  /\ AnalyzeSee(Agent, isNew) \in AgentType /\ Announced(AnalyzeSee(Agent, isNew), self)
<1> DEFINE a == [Agent EXCEPT !.ss = UpdateBySee(@, isNew, Agent.self)]
<1>1. a = [ss |-> UpdateBySee(ss, isNew, self), self |-> self, out |-> << >>]
  BY DEF Agent
<1>2. UpdateBySee(ss, isNew, self) \in SeeStates
  BY SeeTypes
<1> HIDE DEF a
<1>3. a \in AgentType /\ Announced(a, self)
  BY <1>1, <1>2 DEF AgentType, Announced
<1>4. AnalyzeSee(Agent, isNew) = IF synchMode THEN a ELSE AdjustSeeSynchNormalMode(a)
  BY DEF AnalyzeSee, a
<1> QED
  BY <1>3, <1>4, AdjustTypes

LEMMA BecomeTypes ==
  ASSUME NEW a \in AgentType, wire \in Seq(View), Become(a)
  PROVE  ss' \in SeeStates /\ self' \in View /\ wire' \in Seq(View)
BY AgentFacts DEF Become

LEMMA FaultTypes ==
  ASSUME TypeOK, NoFault \/ InTime \/ \E k : Fault(k)
  PROVE  disturbed' \in BOOLEAN /\ faults' \in Nat
<1>1. NoFault \/ \E k : Fault(k)
  BY DEF InTime, Tardy
<1>2. faults' \in Nat
  BY <1>1 DEF TypeOK, NoFault, Fault
<1>3. CASE NoFault
  BY <1>2, <1>3, Zenon DEF TypeOK, NoFault
<1>4. CASE \E k : Fault(k)
  BY <1>2, <1>4, Zenon DEF Fault
<1> QED
  BY <1>1, <1>3, <1>4

LEMMA HandleSeeTypes ==
  ASSUME TypeOK, NEW request \in Request, HandleSee(request)
  PROVE  /\ ss' \in SeeStates /\ self' \in View /\ wire' \in Seq(View)
         /\ decided' \in BOOLEAN /\ stale' \in BOOLEAN
         /\ extra' \in {"none", "some", "seen"}
<1> DEFINE a == AnalyzeSee(Agent, MovesTime)
           ready == ~synchMode /\ (MovesTime \/ ~decided)
           b == IF ready THEN Action(a, request) ELSE a
<1>0. MovesTime \in BOOLEAN
  BY DEF MovesTime, TypeOK
<1>1. a \in AgentType /\ Announced(a, self)
  BY <1>0, AnalyzeSeeTypes DEF TypeOK
<1>2. b \in AgentType
  <2> HIDE DEF a
  <2> QED
    BY <1>1, ActionTypes DEF TypeOK
<1>3. Become(b) /\ decided' = (ready \/ (decided /\ ~MovesTime)) /\ stale' = FALSE
  BY DEF HandleSee
<1> USE DEF MovesTime
<1>5. extra' \in {"none", "some", "seen"}
  BY DEF HandleSee, TypeOK
<1> HIDE DEF b
<1>4. ss' \in SeeStates /\ self' \in View /\ wire' \in Seq(View)
  BY <1>2, <1>3, BecomeTypes DEF TypeOK
<1>6. decided' \in BOOLEAN /\ stale' \in BOOLEAN
  BY <1>0, <1>3, Zenon DEF TypeOK
<1> QED
  BY <1>4, <1>5, <1>6

LEMMA InitTypeOK == Init => TypeOK
<1> SUFFICES ASSUME Init PROVE TypeOK
  OBVIOUS
<1>1. Mode("NORMAL", "HIGH") \in View
  BY ModesOfAdjustment
<1>2. InitSeeState \in SeeStates
  BY DEF InitSeeState, SeeStates, Timing
<1>3. synchMode \in BOOLEAN
  BY SynchModesAssumption DEF Init
<1>4. clock \in 1 .. Len(Schedule) /\ count \in 0 .. 7
  BY DEF Init
<1>5. << >> \in Seq(View)
  OBVIOUS
<1> QED
  BY <1>1, <1>2, <1>3, <1>4, <1>5, Zenon DEF Init, TypeOK

LEMMA NextTypeOK == TypeOK /\ [Next]_vars => TypeOK'
<1> SUFFICES ASSUME TypeOK, [Next]_vars PROVE TypeOK'
  OBVIOUS
<1> DEFINE Kept == synchMode' = synchMode
           Clocked == clock' \in 1 .. Len(Schedule)
           AgentOK == /\ ss' \in SeeStates /\ self' \in View /\ wire' \in Seq(View)
                      /\ decided' \in BOOLEAN /\ stale' \in BOOLEAN
                      /\ extra' \in {"none", "some", "seen"}
           Rest == /\ count' \in 0 .. 7 /\ view' \in View
                   /\ playOn' \in BOOLEAN /\ cycleStopped' \in BOOLEAN
                   /\ disturbed' \in BOOLEAN /\ faults' \in Nat
<1>0. clock \in 1 .. Len(Schedule) /\ NextClock \in 1 .. Len(Schedule)
  BY ClockFacts DEF TypeOK
<1>1. CASE CycleStart
  <2>1. AgentOK
    <3>0. extra' \in {"none", "some", "seen"}
      BY <1>1 DEF CycleStart, TypeOK
    <3>1. CASE Become(AnalyzeSenseBody(Agent, TRUE, view)) /\ decided' = FALSE /\ stale' = FALSE
      <4> DEFINE a == AnalyzeSenseBody(Agent, TRUE, view)
      <4>1. a = [ss |-> NewCycle(ss), self |-> view, out |-> << >>]
        <5>1. a = [Agent EXCEPT !.ss = NewCycle(@), !.self = view]
          BY DEF AnalyzeSenseBody, UpdateBySenseBody, SetNewCycle
        <5> HIDE DEF a
        <5> QED
          BY <5>1 DEF Agent
      <4>2. NewCycle(ss) \in SeeStates
        BY NewCycleFacts DEF TypeOK
      <4> HIDE DEF a
      <4>3. a \in AgentType
        BY <4>1, <4>2 DEF TypeOK, AgentType
      <4>4. ss' \in SeeStates /\ self' \in View /\ wire' \in Seq(View)
        BY <3>1, <4>3, BecomeTypes DEF TypeOK, a
      <4> QED
        BY <3>0, <3>1, <4>4
    <3>2. CASE stale' = (stale \/ ~cycleStopped) /\ UNCHANGED <<ss, self, wire, decided>>
      BY <3>0, <3>2 DEF TypeOK
    <3> QED
      BY <1>1, <3>1, <3>2 DEF CycleStart
  <2>2. Rest
    BY <1>1, FaultTypes DEF CycleStart, modeVars, TypeOK
  <2>3. Kept /\ Clocked
    BY <1>0, <1>1 DEF CycleStart
  <2> QED
    BY <2>1, <2>2, <2>3 DEF TypeOK, Schedule
<1>2. CASE SilentSlot
  <2>1. count + 1 < Interval(view) /\ Interval(view) \in {1, 2, 4, 8}
    BY <1>2, IntervalFacts DEF SilentSlot, TypeOK
  <2>2. Rest
    BY <1>2, <2>1, FaultTypes DEF SilentSlot, modeVars, TypeOK
  <2>3. Kept /\ Clocked /\ AgentOK
    BY <1>0, <1>2 DEF SilentSlot, timeVars, TypeOK
  <2> QED
    BY <2>2, <2>3 DEF TypeOK, Schedule
<1>3. CASE SeeSlot
  <2>1. AgentOK
    <3>1. CASE \E request \in Request : HandleSee(request)
      BY <3>1, HandleSeeTypes
    <3>2. CASE UNCHANGED <<ss, self, wire, timeVars>>
      BY <3>2 DEF timeVars, TypeOK
    <3> QED
      BY <1>3, <3>1, <3>2 DEF SeeSlot
  <2>2. Rest
    BY <1>3, FaultTypes DEF SeeSlot, modeVars, TypeOK
  <2>3. Kept /\ Clocked
    BY <1>0, <1>3 DEF SeeSlot
  <2> QED
    BY <2>1, <2>2, <2>3 DEF TypeOK, Schedule
<1>4. ASSUME HandleTimeout \/ HandleThink PROVE TypeOK'
  <2>1. PICK request \in Request : Become(Action(Agent, request))
    BY <1>4 DEF HandleTimeout, HandleThink
  <2>2. Action(Agent, request) \in AgentType
    BY AgentIs, ActionTypes DEF TypeOK
  <2>3. ss' \in SeeStates /\ self' \in View /\ wire' \in Seq(View)
    BY <2>1, <2>2, BecomeTypes DEF TypeOK
  <2>4. decided' \in BOOLEAN /\ stale' \in BOOLEAN /\ extra' \in {"none", "some", "seen"}
    BY <1>4 DEF HandleTimeout, HandleThink, TypeOK
  <2>5. Rest
    BY <1>4, FaultTypes DEF HandleTimeout, HandleThink, modeVars, TypeOK
  <2>6. Kept /\ Clocked
    BY <1>0, <1>4 DEF HandleTimeout, HandleThink
  <2> QED
    BY <2>3, <2>4, <2>5, <2>6 DEF TypeOK, Schedule
<1>5. ASSUME Deliver \/ Lose PROVE TypeOK'
  <2>1. wire # << >> /\ wire' = Tail(wire) /\ (view' = Head(wire) \/ view' = view)
    BY <1>5 DEF Deliver, Lose
  <2>2. wire' \in Seq(View) /\ view' \in View
    BY <2>1 DEF TypeOK
  <2>3. disturbed' \in BOOLEAN /\ faults' \in Nat
    BY <1>5, FaultTypes DEF Deliver, Lose, TypeOK
  <2> QED
    BY <1>5, <2>2, <2>3 DEF Deliver, Lose, modeVars, timeVars, TypeOK, Schedule
<1>6. CASE Referee
  <2>1. disturbed' \in BOOLEAN /\ faults' \in Nat
    BY <1>6, FaultTypes DEF Referee
  <2> QED
    BY <1>6, <2>1 DEF Referee, timeVars, TypeOK, Schedule
<1>7. CASE UNCHANGED vars
  BY <1>7 DEF vars, modeVars, timeVars, TypeOK, Schedule
<1> QED
  BY <1>1, <1>2, <1>3, <1>4, <1>5, <1>6, <1>7 DEF Next

\* Every variable stays in its type: the see counts and the countdown of the
\* see state as rcsc/player/see_state.cpp keeps them, whatever is lost or late.
THEOREM TypeCorrect == Spec => []TypeOK
<1> QED
  BY InitTypeOK, NextTypeOK, PTL DEF Spec

-----------------------------------------------------------------------------
(* The server's steps keep a calm agent calm.                              *)

LEMMA OnlyBefore ==
  ASSUME [Next]_vars, OnlyOverruns'
  PROVE  OnlyOverruns
<1>1. disturbed => disturbed'
  BY DEF Next, vars, NoFault, Fault, InTime, Tardy, CycleStart, SilentSlot, SeeSlot,
         HandleTimeout, HandleThink, Deliver, Lose, Referee
<1> QED
  BY <1>1 DEF OnlyOverruns

LEMMA OnlyFault ==
  ASSUME NEW k, Fault(k), OnlyOverruns'
  PROVE  k = "overrun"
BY DEF Fault, OnlyOverruns

LEMMA OnlyInTime ==
  ASSUME InTime \/ OnTime, OnlyOverruns'
  PROVE  wire = << >>
BY OnlyFault DEF InTime, Tardy, OnTime

LEMMA SynchTold ==
  ASSUME NEW s \in SeeStates, ~s.synchSee
  PROVE  IsSynch(s) <=> s.timing \in SynchTiming
BY DEF IsSynch

LEMMA CalmCycleStart ==
  ASSUME TypeOK, Calm, CycleStart, OnlyOverruns'
  PROVE  Calm' /\ (IsSynch(ss) => IsSynch(ss'))
<1>1. /\ wire = << >> /\ Become(AnalyzeSenseBody(Agent, TRUE, view)) /\ ~decided' /\ ~stale'
      /\ extra' # "none" => cycleStopped'
  BY OnlyInTime, OnlyFault DEF CycleStart, modeVars
<1>2. view = self /\ ss \in SeeStates /\ self \in View
  BY <1>1 DEF Calm, Sent, TypeOK
<1> DEFINE a == AnalyzeSenseBody(Agent, TRUE, view)
<1>3. a.ss = NewCycle(ss) /\ a.self = self /\ a.out = << >>
  <2>1. a = [Agent EXCEPT !.ss = NewCycle(@), !.self = view]
    BY DEF AnalyzeSenseBody, UpdateBySenseBody, SetNewCycle
  <2> HIDE DEF a
  <2> QED
    BY <1>2, <2>1 DEF Agent
<1> HIDE DEF a
<1>4. /\ ss' = NewCycle(ss) /\ self' = self /\ wire' = << >>
      /\ view' = view /\ count' = count /\ playOn' = playOn /\ synchMode' = synchMode
      /\ clock' = NextClock
  <2>1. ss' = a.ss /\ self' = a.self /\ wire' = wire \o a.out
    BY <1>1 DEF Become, a
  <2>2. << >> \o << >> = << >>
    OBVIOUS
  <2> QED
    BY <1>1, <1>3, <2>1, <2>2 DEF CycleStart, modeVars
<1>5. /\ ss' \in SeeStates /\ ~ss'.seen /\ ss'.seeCount = 0
      /\ ss'.timing = ss.timing /\ ss'.synchSee = ss.synchSee
      /\ ss'.history[1] = ss.seeCount /\ ss'.history[2] = ss.history[1]
      /\ ss'.cycles = IF ss.cycles = 0 THEN 0 ELSE ss.cycles - 1
  BY <1>2, <1>4, NewCycleFacts
<1>6. /\ Cycle \in 0 .. 2 /\ Passed = Slots(Cycle) /\ count \in 0 .. 7
      /\ Passed' = 0 /\ Cycle' = IF Cycle = 2 THEN 0 ELSE Cycle + 1
      /\ synchMode => clock \in Thought /\ clock' \notin Thought
  <2>1. /\ synchMode \in BOOLEAN /\ clock \in 1 .. Len(Schedule) /\ count \in 0 .. 7
        /\ NextEvent = "sense_body"
    BY DEF TypeOK, CycleStart
  <2>2. Passed' = PassedOf[NextClock] /\ Cycle' = CycleOf[NextClock]
    BY <1>4 DEF Passed, PassedOf, Cycle, CycleOf
  <2> QED
    BY <1>4, <2>1, <2>2, ClockFacts
<1>7. Sent' /\ ~ss'.synchSee
  BY <1>2, <1>4, <1>5 DEF Sent, Calm
<1>8. IsSynch(ss') <=> IsSynch(ss)
  BY <1>5, Zenon DEF IsSynch
<1>9. CASE IsSynch(ss)
  <2>1. /\ Phase(Cycle, Slots(Cycle), count, ss, self, decided)
        /\ Countdown(Cycle, Slots(Cycle), count, ss, self, decided)
    BY <1>6, <1>9 DEF Calm, InStep
  <2>2. ss.seen => decided
    BY <1>6, <1>9 DEF Calm, InStep
  <2>3. /\ Phase(Cycle', Passed', count', ss', self', FALSE)
        /\ Countdown(Cycle', Passed', count', ss', self', FALSE)
    <3>1. decided \in BOOLEAN
      BY DEF TypeOK
    <3>2. /\ Phase(Cycle', 0, count, ss', self, FALSE)
          /\ Countdown(Cycle', 0, count, ss', self, FALSE)
      BY <1>2, <1>5, <1>6, <2>1, <2>2, <3>1, CyclePhase
    <3> QED
      BY <1>4, <1>6, <3>2
  <2>4. decided' = FALSE
    BY <1>1 DEF CycleStart
  <2>5. InStep'
    BY <1>1, <1>4, <1>5, <1>6, <2>3, <2>4 DEF InStep
  <2> QED
    BY <1>1, <1>5, <1>7, <1>8, <1>9, <2>5 DEF Calm
<1>10. CASE ~IsSynch(ss)
  <2>1. Counted(Cycle, Slots(Cycle), count, ss, self)
    BY <1>6, <1>10 DEF Calm, Finding
  <2>2. /\ Slots(Cycle) = (IF Cycle = 2 THEN 2 ELSE 3) /\ ss.seeCount \in Nat
        /\ ss.history[1] \in Nat /\ ss.history[2] \in Nat
    BY <1>2, StateFacts DEF Slots
  <2>3. Tallied(Cycle', Passed', count', ss', self')
    BY <1>4, <1>5, <1>6, <2>1, <2>2 DEF Counted, Tallied
  <2>4. Finding'
    BY <1>1, <1>4, <1>6, <2>1, <2>3 DEF Finding, Counted
  <2> QED
    BY <1>1, <1>5, <1>7, <1>8, <1>10, <2>4 DEF Calm
<1> QED
  BY <1>9, <1>10

LEMMA SlotClock ==
  ASSUME TypeOK, IsSlot(NextEvent), clock' = NextClock, synchMode' = synchMode
  PROVE  /\ Cycle \in 0 .. 2 /\ Passed \in 0 .. Slots(Cycle) - 1
         /\ Cycle' = Cycle /\ Passed' = Passed + 1 /\ count \in 0 .. 7
         /\ synchMode => (clock \in Thought <=> clock' \in Thought)
         /\ synchMode /\ clock \notin Thought => Passed + (IF Cycle = 2 THEN 1 ELSE 0) < 2
         /\ synchMode /\ clock \in Thought => Passed = IF Cycle = 2 THEN 1 ELSE 2
<1>1. synchMode \in BOOLEAN /\ clock \in 1 .. Len(Schedule) /\ count \in 0 .. 7
  BY DEF TypeOK
<1>2. Passed' = PassedOf[NextClock] /\ Cycle' = CycleOf[NextClock]
  BY DEF Passed, PassedOf, Cycle, CycleOf
<1>3. /\ Cycle \in 0 .. 2 /\ Passed \in 0 .. Slots(Cycle) /\ Passed < Slots(Cycle)
      /\ PassedOf[NextClock] = Passed + 1 /\ CycleOf[NextClock] = Cycle
  BY <1>1, ClockFacts
<1>4. Slots(Cycle) \in Nat
  BY DEF Slots
<1>5. Passed \in 0 .. Slots(Cycle) - 1
  BY <1>3, <1>4
<1> QED
  BY <1>1, <1>2, <1>3, <1>5, ClockFacts

LEMMA CalmSilentSlot ==
  ASSUME TypeOK, Calm, SilentSlot, OnlyOverruns'
  PROVE  Calm' /\ (IsSynch(ss) => IsSynch(ss'))
<1>1. wire = << >>
  BY OnlyInTime DEF SilentSlot
<1>2. view = self /\ ss \in SeeStates /\ self \in View /\ decided \in BOOLEAN
  BY <1>1 DEF Calm, Sent, TypeOK
<1>3. /\ ss' = ss /\ self' = self /\ wire' = wire /\ view' = view /\ count' = count + 1
      /\ playOn' = playOn /\ synchMode' = synchMode /\ clock' = NextClock
      /\ decided' = decided /\ stale' = stale
      /\ extra' = extra /\ cycleStopped' = cycleStopped
      /\ IsSlot(NextEvent) /\ count + 1 < Interval(self)
  BY <1>2 DEF SilentSlot, modeVars, timeVars
<1>4. /\ Cycle \in 0 .. 2 /\ Passed \in 0 .. Slots(Cycle) - 1
      /\ Cycle' = Cycle /\ Passed' = Passed + 1 /\ count \in 0 .. 7
      /\ synchMode => (clock \in Thought <=> clock' \in Thought)
  BY <1>3, SlotClock
<1>5. /\ Sent' /\ ~ss'.synchSee
      /\ stale' => ss'.seeCount = 0 /\ ss'.history = <<0, 0, 0>>
      /\ ~stale' => (ss'.seen <=> ss'.seeCount > 0)
  BY <1>3 DEF Sent, Calm
<1>6. CASE IsSynch(ss)
  <2>1. /\ Phase(Cycle, Passed, count, ss, self, decided)
        /\ Countdown(Cycle, Passed, count, ss, self, decided)
    BY <1>6 DEF Calm, InStep
  <2>2. /\ Phase(Cycle', Passed', count', ss', self', decided')
        /\ Countdown(Cycle', Passed', count', ss', self', decided')
    BY <1>2, <1>3, <1>4, <2>1, SilentPhase
  <2>3. InStep'
    BY <1>3, <1>4, <1>6, <2>2 DEF InStep, Calm
  <2> QED
    BY <1>3, <1>5, <1>6, <2>3 DEF Calm
<1>7. CASE ~IsSynch(ss)
  <2>1. Counted(Cycle, Passed, count, ss, self)
    BY <1>7 DEF Calm, Finding
  <2>2. ss.seeCount \in Nat /\ Passed <= 2 /\ Passed \in Nat
    BY <1>2, <1>4, StateFacts DEF Slots
  <2>3. self.quality = "HIGH"
    <3>1. self.quality = "LOW" => Interval(self) = 1
      BY <1>2, <2>1, IntervalFacts DEF Counted, Tallied
    <3>2. self.quality \in {"HIGH", "LOW"}
      BY <1>2, IntervalFacts DEF Quality
    <3> QED
      BY <1>3, <1>4, <3>1, <3>2
  <2>4. Tallied(Cycle', Passed', count', ss', self')
    BY <1>3, <1>4, <2>1, <2>2, <2>3 DEF Counted, Tallied
  <2>5. ss.history[2] # 3
    BY <2>1, <2>3 DEF Counted, Tallied
  <2>6. extra # "none" /\ ~cycleStopped => ss.history[1] # 3
    BY <1>7 DEF Calm, Finding
  <2>7. Finding'
    BY <1>3, <2>1, <2>4, <2>5, <2>6 DEF Finding, Counted
  <2> QED
    BY <1>3, <1>5, <1>7, <2>7 DEF Calm
<1> QED
  BY <1>6, <1>7


-----------------------------------------------------------------------------
(* And so do the agent's.                                                  *)

LEMMA SentAfter ==
  ASSUME Sent, wire \in Seq(View), NEW a \in AgentType, Announced(a, self), Become(a),
         view' = view
  PROVE  Sent'
<1>1. wire' = wire \o a.out /\ self' = a.self /\ a.out \in Seq(View)
  BY AgentFacts DEF Become
<1>2. CASE a.out = << >>
  <2>1. wire' = wire /\ self' = self
    BY <1>1, <1>2 DEF Announced
  <2> QED
    BY <2>1 DEF Sent
<1>3. CASE a.out # << >>
  <2>1. Len(a.out) > 0 /\ a.out[Len(a.out)] = self'
    BY <1>1, <1>3 DEF Announced
  <2>2. wire' # << >> /\ wire'[Len(wire')] = a.out[Len(a.out)]
    BY <1>1, <2>1
  <2> QED
    BY <2>1, <2>2 DEF Sent
<1> QED
  BY <1>2, <1>3

\* An agent that has seen in this cycle, or expects no see in it, does not take
\* one for missed.
LEMMA NothingMissed ==
  ASSUME NEW a, a.ss.seen \/ a.ss.cycles # 0 \/ ~IsSynch(a.ss)
  PROVE  Checked(a) = a
BY DEF Checked, SeeMissed

\* No see is due as late in a cycle as the agent decides.
LEMMA NotDueLate ==
  ASSUME NEW c \in 0 .. 2, NEW p \in 0 .. Slots(c), NEW n \in 0 .. 7,
         NEW s \in SeeStates, NEW v \in View, NEW done \in BOOLEAN,
         Phase(c, p, n, s, v, done), Countdown(c, p, n, s, v, done), ~s.seen,
         p >= (IF c = 2 THEN 1 ELSE 2)
  PROVE  s.cycles # 0
<1>1. /\ s.timing \in SynchTiming /\ v.width \in Width
      /\ s.timing = "22_5" => v.width # "NORMAL"
      /\ s.timing = "0_00" => v.width # "NARROW"
  BY IntervalFacts DEF Phase
<1>2. n < (IF v.width = "WIDE" THEN 8 ELSE IF v.width = "NORMAL" THEN 4 ELSE 2)
  BY <1>1, IntervalFacts DEF Phase
<1>3. /\ p \in 0 .. 3 /\ (c = 2 => p < 3)
      /\ \/ SlotOf(s.timing) = 3 * c + p - 1 - n
         \/ SlotOf(s.timing) = 3 * c + p - 1 - n + 8
  BY DEF Phase, Slots
<1>4. s.cycles = Due(s.timing, v.width) - c
                   - (IF SlotOf(s.timing) = 3 * c + p - 1 - n THEN 0 ELSE 3)
  BY DEF Countdown
<1>5. CASE s.timing = "0_00"
  BY <1>1, <1>2, <1>3, <1>4, <1>5, TimingFacts DEF Due, Width
<1>6. CASE s.timing = "50_0"
  BY <1>1, <1>2, <1>3, <1>4, <1>6, TimingFacts DEF Due, Width
<1>7. CASE s.timing = "22_5"
  BY <1>1, <1>2, <1>3, <1>4, <1>7, TimingFacts DEF Due, Width
<1> QED
  BY <1>1, <1>5, <1>6, <1>7, TimingFacts

\* A decision of an agent that is synchronised: one that has seen adjusts its
\* view mode and countdown, the others change nothing.
LEMMA DecideSynched ==
  ASSUME NEW a \in AgentType, NEW request \in Request, ~a.ss.synchSee,
         NEW c \in 0 .. 2, NEW p \in 0 .. Slots(c), NEW n \in 0 .. 7,
         Phase(c, p, n, a.ss, a.self, FALSE), a.ss.seen \/ a.ss.cycles # 0,
         a.ss.seen \/ Countdown(c, p, n, a.ss, a.self, TRUE),
         NEW b, b = Action(a, request)
  PROVE  /\ Phase(c, p, n, b.ss, b.self, TRUE) /\ Countdown(c, p, n, b.ss, b.self, TRUE)
         /\ b.ss.cycles > 0 /\ Alike(a.ss, b.ss)
<1>1. a.ss.timing \in SynchTiming /\ IsSynch(a.ss) /\ a.ss \in SeeStates
  BY AgentFacts DEF Phase, IsSynch
<1>2. Checked(a) = a
  BY NothingMissed
<1>3. AdjustSeeSynchSynchMode(a) = a
  BY <1>1 DEF AdjustSeeSynchSynchMode
<1>4. b = Finish(a, request)
  BY <1>2, <1>3, ActionIs
<1>5. CASE a.ss.seen
  BY <1>4, <1>5, FinishSeen
<1>6. CASE ~a.ss.seen
  <2>1. b.ss = a.ss /\ b.self = a.self
    BY <1>1, <1>4, <1>6, FinishUnseen
  <2>2. Phase(c, p, n, a.ss, a.self, TRUE)
    BY <1>6 DEF Phase
  <2>3. a.ss.cycles > 0
    BY <1>1, <1>6, StateFacts
  <2>4. Countdown(c, p, n, a.ss, a.self, TRUE)
    BY <1>6
  <2> QED
    BY <2>1, <2>2, <2>3, <2>4 DEF Alike
<1> QED
  BY <1>5, <1>6

\* What AnalyzeSee does before it adjusts.
Looked(isNew) == [ss |-> UpdateBySee(ss, isNew, self), self |-> self, out |-> << >>]

LEMMA LookedFacts ==
  ASSUME ss \in SeeStates, self \in View, NEW isNew \in BOOLEAN
  PROVE  /\ Looked(isNew) \in AgentType /\ Looked(isNew).ss = UpdateBySee(ss, isNew, self)
         /\ Looked(isNew).self = self
         /\ AnalyzeSee(Agent, isNew) =
              IF synchMode THEN Looked(isNew) ELSE AdjustSeeSynchNormalMode(Looked(isNew))
<1>1. UpdateBySee(ss, isNew, self) \in SeeStates
  BY SeeTypes
<1>2. Looked(isNew) \in AgentType
  BY <1>1 DEF Looked, AgentType
<1>3. Looked(isNew) = [Agent EXCEPT !.ss = UpdateBySee(@, isNew, Agent.self)]
  BY DEF Agent, Looked
<1> QED
  BY <1>2, <1>3 DEF Looked, AnalyzeSee

\* The agent's part of a see slot in which the synchronised agent receives it.
LEMMA SeeInStep ==
  ASSUME TypeOK, Calm, IsSynch(ss), NEW request \in Request, HandleSee(request),
         IsSlot(NextEvent), clock' = NextClock, synchMode' = synchMode, count' = 0,
         count + 1 >= Interval(self)
  PROVE  /\ InStep' /\ ~ss'.synchSee /\ (ss'.seen <=> ss'.seeCount > 0)
<1> DEFINE t == UpdateBySee(ss, MovesTime, self)
           x == Looked(MovesTime)
<1>1. /\ ss \in SeeStates /\ self \in View /\ decided \in BOOLEAN /\ synchMode \in BOOLEAN
      /\ ~ss.synchSee /\ MovesTime \in BOOLEAN
  BY DEF TypeOK, Calm, MovesTime
<1>2. /\ stale = FALSE /\ Phase(Cycle, Passed, count, ss, self, decided)
      /\ Countdown(Cycle, Passed, count, ss, self, decided)
      /\ synchMode => (decided <=> clock \in Thought)
      /\ ~synchMode => (ss.seen => decided) /\ (decided => ss.cycles > 0)
  BY DEF Calm, InStep, TypeOK
<1>3. /\ Cycle \in 0 .. 2 /\ Passed \in 0 .. Slots(Cycle) - 1
      /\ Cycle' = Cycle /\ Passed' = Passed + 1 /\ count \in 0 .. 7
      /\ synchMode => (clock \in Thought <=> clock' \in Thought)
      /\ synchMode /\ clock \notin Thought => Passed + (IF Cycle = 2 THEN 1 ELSE 0) < 2
      /\ synchMode /\ clock \in Thought => Passed = IF Cycle = 2 THEN 1 ELSE 2
  BY SlotClock
<1>4. ss.seen => decided
  <2>1. ASSUME synchMode, clock \notin Thought, ss.seen PROVE FALSE
    <3>1. count < Passed /\ Interval(self) >= 2 /\ Interval(self) \in {1, 2, 4, 8}
      BY <1>1, <1>2, <2>1, IntervalFacts DEF Phase
    <3>2. Passed < 2
      BY <1>3, <2>1
    <3> QED
      BY <1>3, <3>1, <3>2
  <2> QED
    BY <1>2, <2>1
<1>5. t \in SeeStates /\ x \in AgentType /\ x.ss = t /\ x.self = self
  <2>1. t \in SeeStates
    BY <1>1, SeeTypes
  <2> HIDE DEF t
  <2>2. x = [ss |-> t, self |-> self, out |-> << >>]
    BY DEF Looked, t
  <2> HIDE DEF x
  <2> QED
    BY <1>1, <2>1, <2>2 DEF AgentType
<1> HIDE DEF t, x
<1>6. /\ ~ss.seen /\ ss.cycles = 0
      /\ t.seen /\ t.seeCount = 1 /\ ~t.synchSee
      /\ Phase(Cycle, Passed + 1, 0, t, self, FALSE)
      /\ Countdown(Cycle, Passed + 1, 0, t, self, FALSE)
  <2>1. t = SeenNow(ss, MovesTime, self)
    BY DEF t, SeenNow
  <2>2. /\ Cycle \in 0 .. 2 /\ Passed \in 0 .. Slots(Cycle) - 1 /\ count \in 0 .. 7
        /\ Timely(Cycle, Passed, count, ss, self)
    <3>1. CASE decided = TRUE
      BY <1>1, <1>2, <1>3, <3>1 DEF Timely
    <3>2. CASE decided = FALSE
      BY <1>1, <1>2, <1>3, <1>4, <3>2 DEF Timely
    <3> QED
      BY <1>1, <3>1, <3>2
  <2>3. ss \in SeeStates /\ self \in View /\ t \in SeeStates
    BY <1>1, <1>5
  <2>4. JustSeen(Cycle, Passed, ss, t, self)
    BY <1>1, <2>1, <2>2, <2>3, SeeSynched
  <2> QED
    BY <2>4 DEF JustSeen
<1>7. decided = FALSE
  <2>1. CASE synchMode
    <3>1. t.timing \in SynchTiming
          /\ SlotOf(t.timing) \in {3 * Cycle + Passed, 3 * Cycle + Passed + 8}
      BY <1>3, <1>6 DEF Phase
    <3>2. SlotOf(t.timing) \in {0, 4, 6}
      BY <3>1, TimingFacts
    <3>3. clock \notin Thought
      BY <1>3, <2>1, <3>1, <3>2
    <3> QED
      BY <1>1, <1>2, <2>1, <3>3
  <2>2. CASE ~synchMode
    BY <1>1, <1>2, <1>6, <2>2
  <2> QED
    BY <2>1, <2>2
<1>8. t.timing \in SynchTiming /\ IsSynch(t)
  BY <1>6 DEF Phase, IsSynch
<1>9. AnalyzeSee(Agent, MovesTime) = x
  <2>1. AdjustSeeSynchNormalMode(x) = x
    BY <1>5, <1>8 DEF AdjustSeeSynchNormalMode
  <2> QED
    BY <1>1, <2>1, LookedFacts DEF x
<1>10. Become(IF ~synchMode THEN Action(x, request) ELSE x) /\ decided' = ~synchMode /\ ~stale'
  BY <1>1, <1>2, <1>7, <1>9 DEF HandleSee
<1>11. Passed + 1 \in 0 .. Slots(Cycle)
  BY <1>3 DEF Slots
<1>12. CASE synchMode
  <2>1. ss' = t /\ self' = self /\ decided' = FALSE
    BY <1>5, <1>10, <1>12 DEF Become
  <2>2. InStep'
    BY <1>1, <1>2, <1>3, <1>6, <1>7, <1>10, <1>12, <2>1 DEF InStep
  <2> QED
    BY <1>6, <2>1, <2>2
<1>13. CASE ~synchMode
  <2> DEFINE b == Action(x, request)
  <2>1. /\ Phase(Cycle, Passed + 1, 0, b.ss, b.self, TRUE)
        /\ Countdown(Cycle, Passed + 1, 0, b.ss, b.self, TRUE)
        /\ b.ss.cycles > 0 /\ Alike(t, b.ss)
    <3>1. Phase(Cycle, Passed + 1, 0, x.ss, x.self, FALSE) /\ x.ss.seen /\ ~x.ss.synchSee
      BY <1>5, <1>6
    <3>2. 0 \in 0 .. 7 /\ Cycle \in 0 .. 2
      BY <1>3
    <3> QED
      BY <1>5, <1>11, <3>1, <3>2, DecideSynched, Zenon
  <2>2. ss' = b.ss /\ self' = b.self /\ decided' = TRUE
    BY <1>10, <1>13 DEF Become
  <2> HIDE DEF b
  <2>3. InStep'
    BY <1>3, <1>10, <1>13, <2>1, <2>2 DEF InStep
  <2>4. ss'.seen /\ ss'.seeCount > 0 /\ ~ss'.synchSee
    <3>1. ss'.seen = t.seen /\ ss'.seeCount = t.seeCount /\ ss'.synchSee = t.synchSee
      BY <2>1, <2>2 DEF Alike
    <3> QED
      BY <1>6, <3>1
  <2> QED
    BY <2>3, <2>4
<1> QED
  BY <1>12, <1>13

\* What a step leaves in the see state of an agent that is calm.
Settled == /\ ~ss.synchSee
           /\ ss.seen <=> ss.seeCount > 0
           /\ IF IsSynch(ss) THEN InStep ELSE Finding

\* A decision of an agent of a server without synch_mode, which has just found
\* its synchronisation or counts on.
LEMMA DecideAdjusted ==
  ASSUME NEW c \in 0 .. 2, NEW p \in 1 .. Slots(c), NEW a \in AgentType, NEW y \in AgentType,
         NEW request \in Request, NEW b, ~synchMode, ~a.ss.synchSee,
         b = Action(y, request)
  PROVE  /\ Found(c, p, y) =>
              /\ Phase(c, p, 0, b.ss, b.self, TRUE) /\ Countdown(c, p, 0, b.ss, b.self, TRUE)
              /\ b.ss.cycles > 0 /\ Alike(y.ss, b.ss)
         /\ CountsOn(c, p, 0, a, y) =>
              Counted(c, p, 0, b.ss, b.self) /\ ~IsSynch(b.ss) /\ Alike(a.ss, b.ss)
<1>1. p \in 0 .. Slots(c) /\ 0 \in 0 .. 7
  BY DEF Slots
<1>2. ASSUME Found(c, p, y)
      PROVE  /\ Phase(c, p, 0, b.ss, b.self, TRUE) /\ Countdown(c, p, 0, b.ss, b.self, TRUE)
             /\ b.ss.cycles > 0 /\ Alike(y.ss, b.ss)
  <2>1. Phase(c, p, 0, y.ss, y.self, FALSE) /\ y.ss.seen /\ ~y.ss.synchSee
    BY <1>2 DEF Found
  <2> QED
    BY <1>1, <2>1, DecideSynched, Zenon
<1>3. ASSUME CountsOn(c, p, 0, a, y)
      PROVE  Counted(c, p, 0, b.ss, b.self) /\ ~IsSynch(b.ss) /\ Alike(a.ss, b.ss)
  <2>1. /\ Counted(c, p, 0, y.ss, y.self) /\ ~IsSynch(y.ss) /\ Alike(a.ss, y.ss)
        /\ ~y.ss.synchSee
    BY <1>3 DEF CountsOn, Alike
  <2>2. Checked(y) = y
    BY <2>1, NothingMissed
  <2>3. b = Finish(y, request)
    BY <2>2, ActionIs
  <2>4. Counted(c, p, 0, b.ss, b.self) /\ ~IsSynch(b.ss) /\ Alike(y.ss, b.ss)
    BY <1>1, <2>1, <2>3, FinishCounted
  <2>5. Alike(a.ss, b.ss)
    BY <2>1, <2>4, Zenon DEF Alike
  <2> QED
    BY <2>4, <2>5
<1> QED
  BY <1>2, <1>3

\* The agent's part of a see slot in which an agent without synchronisation
\* receives it.
LEMMA SeeFinding ==
  ASSUME TypeOK, Calm, ~IsSynch(ss), NEW request \in Request, HandleSee(request),
         IsSlot(NextEvent), clock' = NextClock, synchMode' = synchMode, count' = 0,
         playOn' = playOn, cycleStopped' = cycleStopped, count + 1 >= Interval(self)
  PROVE  Settled'
<1> DEFINE t == UpdateBySee(ss, MovesTime, self)
           x == Looked(MovesTime)
           p == Passed + 1
<1>1. /\ ss \in SeeStates /\ self \in View /\ decided \in BOOLEAN /\ synchMode \in BOOLEAN
      /\ ~ss.synchSee /\ MovesTime \in BOOLEAN
      /\ MovesTime => ss.history[1] # 3
      /\ ~MovesTime => (ss.seen <=> ss.seeCount > 0)
  <2>1. stale => ss.history[1] # 3
    BY DEF Calm
  <2> QED
    BY <2>1 DEF TypeOK, Calm, Finding, MovesTime
<1>2. /\ Counted(Cycle, Passed, count, ss, self)
      /\ ~synchMode /\ ss.history[1] = 2 /\ ss.history[2] = 3 => Passed = 0
  BY DEF Calm, Finding
<1>3. /\ Cycle \in 0 .. 2 /\ Passed \in 0 .. Slots(Cycle) - 1
      /\ Cycle' = Cycle /\ Passed' = p /\ count \in 0 .. 7
  BY SlotClock
<1>4. p \in 1 .. Slots(Cycle)
  BY <1>3 DEF Slots
<1>5. t \in SeeStates /\ x \in AgentType /\ x.ss = t /\ x.self = self
  <2>1. t \in SeeStates
    BY <1>1, SeeTypes
  <2> HIDE DEF t
  <2>2. x = [ss |-> t, self |-> self, out |-> << >>]
    BY DEF Looked, t
  <2> HIDE DEF x
  <2> QED
    BY <1>1, <2>1, <2>2 DEF AgentType
<1>6. /\ t.seen /\ t.seeCount > 0 /\ ~t.synchSee
      /\ Counted(Cycle, p, 0, t, self)
      /\ ~MovesTime => t.history = ss.history
      /\ MovesTime => t.history[2] # 3
  <2> HIDE DEF t
  <2>1. t = UpdateBySee(ss, MovesTime, self)
    BY DEF t
  <2> QED
    BY <1>1, <1>2, <1>3, <2>1, SeeCounted
<1> HIDE DEF t, x
<1>9. extra' # "none" => cycleStopped'
  BY DEF HandleSee, MovesTime
<1>7. CASE synchMode
  <2>1. AnalyzeSee(Agent, MovesTime) = x
    BY <1>1, <1>7, LookedFacts DEF x
  <2>2. ss' = t /\ self' = self
    BY <1>5, <1>7, <2>1 DEF HandleSee, Become
  <2>3. ~IsSynch(t)
    BY <1>6, TimingFacts DEF Counted, Tallied, IsSynch
  <2>4. Counted(Cycle', Passed', count', ss', self')
    BY <1>3, <1>6, <2>2
  <2>5. Finding'
    BY <1>6, <1>7, <1>9, <2>2, <2>4 DEF Finding, Counted
  <2> QED
    BY <1>6, <2>2, <2>3, <2>5 DEF Settled
<1>8. CASE ~synchMode
  <2> DEFINE y == AdjustSeeSynchNormalMode(x)
             ready == MovesTime \/ ~decided
             b == IF ready THEN Action(y, request) ELSE y
  <2>1. y = AnalyzeSee(Agent, MovesTime) /\ y \in AgentType
    BY <1>1, <1>8, LookedFacts, AnalyzeSeeTypes DEF x
  <2>2. Become(b) /\ decided' = TRUE /\ stale' = FALSE
    <3>1. Become(b) /\ decided' = (ready \/ (decided /\ ~MovesTime)) /\ stale' = FALSE
      BY <1>8, <2>1 DEF HandleSee
    <3> QED
      BY <1>1, <3>1
  <2>3. IsSynchedSeeCountNormalMode(x.ss) => p = 1
    BY <1>2, <1>3, <1>5, <1>6, <1>8 DEF IsSynchedSeeCountNormalMode
  <2> HIDE DEF p
  <2>4. \/ Found(Cycle, p, y) /\ y.ss.seeCount = t.seeCount /\ y.ss.history = t.history
        \/ CountsOn(Cycle, p, 0, x, y) /\ ~IsSynchedSeeCountNormalMode(y.ss)
    BY <1>3, <1>4, <1>5, <1>6, <2>3, AdjustNormal DEF y
  <2> HIDE DEF y, ready
  <2>5. /\ Found(Cycle, p, y) =>
              /\ Phase(Cycle, p, 0, b.ss, b.self, TRUE)
              /\ Countdown(Cycle, p, 0, b.ss, b.self, TRUE)
              /\ b.ss.cycles > 0 /\ Alike(y.ss, b.ss)
        /\ CountsOn(Cycle, p, 0, x, y) =>
              Counted(Cycle, p, 0, b.ss, b.self) /\ ~IsSynch(b.ss) /\ Alike(x.ss, b.ss)
    <3>1. CASE ready
      <4>1. b = Action(y, request)
        BY <3>1
      <4>2. ~x.ss.synchSee
        BY <1>5, <1>6
      <4> HIDE DEF b
      <4> QED
        BY <1>3, <1>4, <1>5, <1>8, <2>1, <4>1, <4>2, DecideAdjusted, Zenon
    <3>2. CASE ~ready
      <4>1. b = y
        BY <3>2
      <4> HIDE DEF b
      <4>2. Alike(y.ss, b.ss)
        BY <4>1 DEF Alike
      <4> QED
        BY <4>1, <4>2, Zenon DEF Found, CountsOn
    <3> QED
      BY <3>1, <3>2
  <2>6. ss' = b.ss /\ self' = b.self
    BY <2>2 DEF Become
  <2> HIDE DEF b
  <2>7. CASE Found(Cycle, p, y) /\ y.ss.seeCount = t.seeCount /\ y.ss.history = t.history
    <3>1. /\ Phase(Cycle', Passed', count', ss', self', TRUE)
          /\ Countdown(Cycle', Passed', count', ss', self', TRUE)
          /\ ss'.cycles > 0 /\ Alike(y.ss, ss')
      BY <1>3, <2>5, <2>6, <2>7
    <3>2. y.ss.seen /\ ~y.ss.synchSee /\ IsSynch(y.ss)
      BY <2>7 DEF Found
    <3>3. ss'.seen /\ ss'.seeCount > 0 /\ ~ss'.synchSee /\ IsSynch(ss')
      BY <1>6, <2>7, <3>1, <3>2 DEF Alike, IsSynch
    <3>4. InStep'
      BY <1>8, <2>2, <3>1 DEF InStep
    <3> QED
      BY <3>3, <3>4 DEF Settled
  <2>8. CASE CountsOn(Cycle, p, 0, x, y) /\ ~IsSynchedSeeCountNormalMode(y.ss)
    <3>1. /\ Counted(Cycle, p, 0, b.ss, b.self) /\ ~IsSynch(b.ss) /\ Alike(x.ss, b.ss)
          /\ Alike(x.ss, y.ss)
      BY <2>5, <2>8 DEF CountsOn
    <3>2. ss'.seen /\ ss'.seeCount > 0 /\ ~ss'.synchSee /\ ~IsSynch(ss')
      BY <1>5, <1>6, <2>6, <3>1 DEF Alike
    <3>3. ~(ss'.history[1] = 2 /\ ss'.history[2] = 3)
      BY <2>6, <2>8, <3>1 DEF Alike, IsSynchedSeeCountNormalMode
    <3>4. Counted(Cycle', Passed', count', ss', self')
      BY <1>3, <2>6, <3>1
    <3>5. Finding'
      BY <1>9, <3>3, <3>4 DEF Finding, Counted
    <3> QED
      BY <3>2, <3>5 DEF Settled
  <2> QED
    BY <2>4, <2>7, <2>8
<1> QED
  BY <1>7, <1>8

LEMMA CalmSeeSlot ==
  ASSUME TypeOK, Calm, SeeSlot, OnlyOverruns'
  PROVE  Calm' /\ (IsSynch(ss) => IsSynch(ss'))
<1>1. wire = << >>
  BY OnlyInTime DEF SeeSlot
<1>2. /\ view = self /\ ss \in SeeStates /\ self \in View /\ MovesTime \in BOOLEAN
      /\ wire \in Seq(View)
  BY <1>1 DEF Calm, Sent, MovesTime, TypeOK
<1>3. PICK request \in Request : HandleSee(request)
  BY OnlyFault DEF SeeSlot
<1>4. /\ IsSlot(NextEvent) /\ clock' = NextClock /\ synchMode' = synchMode /\ count' = 0
      /\ playOn' = playOn /\ cycleStopped' = cycleStopped /\ view' = view /\ count + 1 >= Interval(self)
  BY <1>2 DEF SeeSlot, modeVars
<1>5. ~stale'
  BY <1>3 DEF HandleSee
<1>6. Settled' /\ (IsSynch(ss) => IsSynch(ss'))
  <2>1. CASE IsSynch(ss)
    <3>1. InStep' /\ ~ss'.synchSee /\ (ss'.seen <=> ss'.seeCount > 0)
      BY <1>3, <1>4, <2>1, SeeInStep
    <3>2. IsSynch(ss')
      BY <3>1 DEF InStep, Phase, IsSynch
    <3> QED
      BY <3>1, <3>2 DEF Settled
  <2>2. CASE ~IsSynch(ss)
    BY <1>3, <1>4, <2>2, SeeFinding
  <2> QED
    BY <2>1, <2>2
<1>7. Sent'
  <2> DEFINE a == AnalyzeSee(Agent, MovesTime)
             b == IF ~synchMode /\ (MovesTime \/ ~decided) THEN Action(a, request) ELSE a
  <2>1. a \in AgentType /\ Announced(a, self)
    BY <1>2, AnalyzeSeeTypes
  <2>2. Become(b)
    BY <1>3 DEF HandleSee
  <2> HIDE DEF a
  <2>3. b \in AgentType /\ Announced(b, self)
    BY <1>2, <2>1, ActionTypes
  <2> HIDE DEF b
  <2> QED
    BY <1>2, <1>4, <2>2, <2>3, SentAfter DEF Calm
<1> QED
  BY <1>5, <1>6, <1>7 DEF Calm, Settled

-----------------------------------------------------------------------------
(* Deciding.                                                               *)

\* What stays as it was when the agent decides outside a see.
Decides(b) ==
  /\ Become(b)
  /\ decided' = TRUE
  /\ UNCHANGED <<synchMode, count, view, playOn, cycleStopped, stale, extra>>

\* A decision that finds the see state calm and changes no more of it than the
\* timing and the countdown leaves it calm.
LEMMA CalmDecision ==
  ASSUME TypeOK, Calm, NEW b \in AgentType, Announced(b, self), Decides(b),
         b.ss.seen = ss.seen, b.ss.seeCount = ss.seeCount, b.ss.history = ss.history,
         ~b.ss.synchSee, IF IsSynch(ss') THEN InStep' ELSE Finding'
  PROVE  Calm'
<1>1. ss' = b.ss /\ stale' = stale /\ view' = view
  BY DEF Decides, Become
<1>2. Sent'
  BY <1>1, SentAfter DEF Calm, Decides, TypeOK
<1> QED
  BY <1>1, <1>2 DEF Calm

LEMMA CalmHandleTimeout ==
  ASSUME TypeOK, Calm, HandleTimeout, OnlyOverruns'
  PROVE  Calm' /\ (IsSynch(ss) => IsSynch(ss'))
<1>1. PICK request \in Request : Become(Action(Agent, request))
  BY DEF HandleTimeout
<1> DEFINE b == Action(Agent, request)
<1>2. /\ ss \in SeeStates /\ self \in View /\ count \in 0 .. 7 /\ ~ss.synchSee
      /\ synchMode \in BOOLEAN /\ clock \in 1 .. Len(Schedule)
  BY DEF TypeOK, Calm
<1>3. /\ Agent \in AgentType /\ Announced(Agent, self) /\ Agent.ss = ss /\ Agent.self = self
  BY <1>2, AgentIs
<1>4. b \in AgentType /\ Announced(b, self)
  BY <1>2, <1>3, ActionTypes
<1>5. Decides(b) /\ clock' = clock /\ ~synchMode /\ decided = FALSE /\ ~stale
  BY <1>1 DEF HandleTimeout, Decides, modeVars, TypeOK
<1>6. Cycle' = Cycle /\ Passed' = Passed /\ ss' = b.ss /\ self' = b.self
  BY <1>5 DEF Decides, Become, Cycle, CycleOf, Passed, PassedOf
<1>7. Cycle \in 0 .. 2 /\ Passed \in 0 .. Slots(Cycle)
  BY <1>2, ClockFacts
<1> HIDE DEF b
<1>8. CASE IsSynch(ss)
  <2>1. /\ Phase(Cycle, Passed, count, ss, self, FALSE)
        /\ Countdown(Cycle, Passed, count, ss, self, FALSE) /\ ~ss.seen
    BY <1>5, <1>8 DEF Calm, InStep
  <2>2. ss.cycles # 0
    <3>1. CASE ss.cycles > 0
      BY <3>1
    <3>2. CASE OverWaitThreshold
      <4>1. Passed >= (IF Cycle = 0 THEN 3 ELSE 2)
        BY <1>2, <1>5, <3>2, ClockFacts
      <4>2. Passed >= (IF Cycle = 2 THEN 1 ELSE 2)
        BY <1>7, <4>1 DEF Slots
      <4> QED
        BY <1>2, <1>7, <2>1, <4>2, NotDueLate
    <3> QED
      BY <2>1, <3>1, <3>2 DEF HandleTimeout
  <2>3. Countdown(Cycle, Passed, count, ss, self, TRUE)
    BY <2>1 DEF Countdown
  <2>4. /\ Phase(Cycle, Passed, count, b.ss, b.self, TRUE)
        /\ Countdown(Cycle, Passed, count, b.ss, b.self, TRUE)
        /\ b.ss.cycles > 0 /\ Alike(ss, b.ss)
    <3>1. /\ ~Agent.ss.synchSee /\ Phase(Cycle, Passed, count, Agent.ss, Agent.self, FALSE)
          /\ Agent.ss.seen \/ Agent.ss.cycles # 0
          /\ Agent.ss.seen \/ Countdown(Cycle, Passed, count, Agent.ss, Agent.self, TRUE)
      BY <1>2, <1>3, <2>1, <2>2, <2>3
    <3> QED
      BY <1>2, <1>3, <1>7, <3>1, DecideSynched, Zenon DEF b
  <2>5. InStep'
    BY <1>5, <1>6, <2>4 DEF InStep, Decides
  <2>6. IsSynch(ss')
    BY <1>6, <2>4 DEF Phase, IsSynch
  <2>7. /\ b.ss.seen = ss.seen /\ b.ss.seeCount = ss.seeCount /\ b.ss.history = ss.history
        /\ ~b.ss.synchSee
    BY <1>2, <2>4 DEF Alike
  <2>8. Calm'
    BY <1>4, <1>5, <2>5, <2>6, <2>7, CalmDecision
  <2> QED
    BY <2>6, <2>8
<1>9. CASE ~IsSynch(ss)
  <2>1. /\ Counted(Cycle, Passed, count, ss, self)
        /\ ss.history[1] = 2 /\ ss.history[2] = 3 => Passed = 0
        /\ extra # "none" /\ ~cycleStopped => ss.history[1] # 3
    BY <1>5, <1>9 DEF Calm, Finding
  <2>2. Checked(Agent) = Agent
    BY <1>3, <1>9, NothingMissed
  <2>3. b = Finish(Agent, request)
    BY <1>5, <2>2, ActionIs DEF b
  <2>4. Counted(Cycle, Passed, count, b.ss, b.self) /\ ~IsSynch(b.ss) /\ Alike(ss, b.ss)
    BY <1>2, <1>3, <1>7, <2>1, <2>3, FinishCounted
  <2>5. /\ b.ss.seen = ss.seen /\ b.ss.seeCount = ss.seeCount /\ b.ss.history = ss.history
        /\ ~b.ss.synchSee
    BY <1>2, <2>4 DEF Alike
  <2>6. Finding'
    BY <1>5, <1>6, <2>1, <2>4, <2>5 DEF Finding, Counted, Decides
  <2>7. Calm'
    BY <1>4, <1>5, <1>6, <2>4, <2>5, <2>6, CalmDecision
  <2> QED
    BY <1>9, <2>7
<1> QED
  BY <1>8, <1>9

LEMMA CalmHandleThink ==
  ASSUME TypeOK, Calm, HandleThink, OnlyOverruns'
  PROVE  Calm' /\ (IsSynch(ss) => IsSynch(ss'))
<1>1. PICK request \in Request : Become(Action(Agent, request))
  BY DEF HandleThink
<1> DEFINE b == Action(Agent, request)
<1>2. /\ ss \in SeeStates /\ self \in View /\ count \in 0 .. 7 /\ ~ss.synchSee
      /\ synchMode \in BOOLEAN /\ clock \in 1 .. Len(Schedule) /\ decided \in BOOLEAN
  BY DEF TypeOK, Calm
<1>3. /\ Agent \in AgentType /\ Announced(Agent, self) /\ Agent.ss = ss /\ Agent.self = self
  BY <1>2, AgentIs
<1>4. b \in AgentType /\ Announced(b, self)
  BY <1>2, <1>3, ActionTypes
<1>5. Decides(b) /\ clock' = NextClock
  BY <1>1 DEF HandleThink, Decides, modeVars
<1>6. /\ synchMode /\ clock \notin Thought /\ clock' \in Thought
      /\ Cycle' = Cycle /\ Passed' = Passed /\ Passed = IF Cycle = 2 THEN 1 ELSE 2
      /\ Cycle \in 0 .. 2 /\ Passed \in 0 .. Slots(Cycle)
  <2>1. synchMode' = synchMode /\ NextEvent = "think"
    BY DEF HandleThink
  <2>2. Passed' = PassedOf[NextClock] /\ Cycle' = CycleOf[NextClock]
    BY <1>5, <2>1 DEF Passed, PassedOf, Cycle, CycleOf
  <2> QED
    BY <1>2, <1>5, <2>1, <2>2, ClockFacts
<1>7. /\ ss' = b.ss /\ self' = b.self /\ decided' = TRUE
      /\ synchMode' = synchMode /\ count' = count /\ playOn' = playOn /\ stale' = stale
      /\ extra' = extra /\ cycleStopped' = cycleStopped
  BY <1>5 DEF Decides, Become
<1> HIDE DEF b
<1>8. CASE IsSynch(ss)
  <2>1. decided = FALSE /\ ~stale
    BY <1>2, <1>6, <1>8 DEF Calm, InStep
  <2>2. /\ Phase(Cycle, Passed, count, ss, self, FALSE)
        /\ Countdown(Cycle, Passed, count, ss, self, FALSE)
    BY <1>8, <2>1 DEF Calm, InStep
  <2>3. ASSUME ~ss.seen PROVE ss.cycles # 0
    <3>1. Passed >= (IF Cycle = 2 THEN 1 ELSE 2)
      BY <1>6
    <3> QED
      BY <1>2, <1>6, <2>2, <2>3, <3>1, NotDueLate
  <2>4. ~ss.seen => Countdown(Cycle, Passed, count, ss, self, TRUE)
    BY <2>2 DEF Countdown
  <2>5. /\ Phase(Cycle, Passed, count, b.ss, b.self, TRUE)
        /\ Countdown(Cycle, Passed, count, b.ss, b.self, TRUE)
        /\ b.ss.cycles > 0 /\ Alike(ss, b.ss)
    <3>1. /\ ~Agent.ss.synchSee /\ Phase(Cycle, Passed, count, Agent.ss, Agent.self, FALSE)
          /\ Agent.ss.seen \/ Agent.ss.cycles # 0
          /\ Agent.ss.seen \/ Countdown(Cycle, Passed, count, Agent.ss, Agent.self, TRUE)
      BY <1>2, <1>3, <2>2, <2>3, <2>4
    <3> QED
      BY <1>2, <1>3, <1>6, <3>1, DecideSynched, Zenon DEF b
  <2>6. InStep'
    BY <1>6, <1>7, <2>1, <2>5 DEF InStep
  <2>7. IsSynch(ss')
    BY <1>7, <2>5 DEF Phase, IsSynch
  <2>8. /\ b.ss.seen = ss.seen /\ b.ss.seeCount = ss.seeCount /\ b.ss.history = ss.history
        /\ ~b.ss.synchSee
    BY <1>2, <2>5 DEF Alike
  <2>9. Calm'
    BY <1>4, <1>5, <2>6, <2>7, <2>8, CalmDecision
  <2> QED
    BY <2>7, <2>9
<1>9. CASE ~IsSynch(ss)
  <2> DEFINE y == AdjustSeeSynchSynchMode(Agent)
  <2>1. /\ Counted(Cycle, Passed, count, ss, self)
        /\ extra # "none" /\ ~cycleStopped => ss.history[1] # 3
    BY <1>9 DEF Calm, Finding
  <2>2. Checked(Agent) = Agent
    BY <1>3, <1>9, NothingMissed
  <2>3. b = Finish(y, request)
    BY <1>6, <2>2, ActionIs DEF b
  <2>4. y \in AgentType
    BY <1>2, <1>3, AdjustTypes
  <2>5. IsSynchedSeeCountSynchMode(ss) => ss.seen /\ ~stale
    BY <1>2 DEF IsSynchedSeeCountSynchMode, Calm
  <2>6. \/ /\ Cycle = 1 /\ Passed = 2 /\ count = 0 /\ Found(1, 2, y)
           /\ y.ss.seeCount = ss.seeCount /\ y.ss.history = ss.history
           /\ IsSynchedSeeCountSynchMode(ss)
        \/ CountsOn(Cycle, Passed, count, Agent, y)
    <3>1. /\ Counted(Cycle, Passed, count, Agent.ss, Agent.self) /\ ~Agent.ss.synchSee
          /\ IsSynchedSeeCountSynchMode(Agent.ss) => Agent.ss.seen
      BY <1>2, <1>3, <2>1, <2>5
    <3>2. y = AdjustSeeSynchSynchMode(Agent)
      OBVIOUS
    <3> HIDE DEF y
    <3> QED
      BY <1>2, <1>3, <1>6, <3>1, <3>2, AdjustSynch
  <2> HIDE DEF y
  <2>7. CASE /\ Cycle = 1 /\ Passed = 2 /\ count = 0 /\ Found(1, 2, y)
             /\ y.ss.seeCount = ss.seeCount /\ y.ss.history = ss.history
             /\ IsSynchedSeeCountSynchMode(ss)
    <3>1. /\ Phase(Cycle, Passed, count, y.ss, y.self, FALSE) /\ y.ss.seen /\ ~y.ss.synchSee
      BY <2>7 DEF Found
    <3>2. /\ Phase(Cycle, Passed, count, b.ss, b.self, TRUE)
          /\ Countdown(Cycle, Passed, count, b.ss, b.self, TRUE)
          /\ b.ss.cycles > 0 /\ Alike(y.ss, b.ss)
      BY <1>2, <1>6, <2>3, <2>4, <3>1, FinishSeen
    <3>3. InStep'
      BY <1>6, <1>7, <2>5, <2>7, <3>2 DEF InStep
    <3>4. IsSynch(ss')
      BY <1>7, <3>2 DEF Phase, IsSynch
    <3>5. /\ b.ss.seen = ss.seen /\ b.ss.seeCount = ss.seeCount /\ b.ss.history = ss.history
          /\ ~b.ss.synchSee
      <4>1. ss.seen = TRUE /\ y.ss.seen = TRUE
        BY <1>2, <2>4, <2>5, <2>7, <3>1, StateFacts, AgentFacts
      <4> QED
        BY <2>7, <3>1, <3>2, <4>1 DEF Alike
    <3> QED
      BY <1>4, <1>5, <3>3, <3>4, <3>5, CalmDecision
  <2>8. CASE CountsOn(Cycle, Passed, count, Agent, y)
    <3>1. /\ Counted(Cycle, Passed, count, y.ss, y.self) /\ Alike(ss, y.ss) /\ ~y.ss.synchSee
      BY <1>2, <1>3, <2>8 DEF CountsOn, Alike
    <3>2. Counted(Cycle, Passed, count, b.ss, b.self) /\ ~IsSynch(b.ss) /\ Alike(y.ss, b.ss)
      BY <1>2, <1>6, <2>3, <2>4, <3>1, FinishCounted
    <3>3. /\ b.ss.seen = ss.seen /\ b.ss.seeCount = ss.seeCount /\ b.ss.history = ss.history
          /\ ~b.ss.synchSee
      BY <3>1, <3>2 DEF Alike
    <3>4. Finding'
      BY <1>6, <1>7, <2>1, <3>2, <3>3 DEF Finding, Counted
    <3> QED
      BY <1>4, <1>5, <1>7, <1>9, <3>2, <3>3, <3>4, CalmDecision
  <2> QED
    BY <1>9, <2>6, <2>7, <2>8
<1> QED
  BY <1>8, <1>9

-----------------------------------------------------------------------------
(* The invariant.                                                          *)

LEMMA CalmDeliver ==
  ASSUME TypeOK, Calm, Deliver
  PROVE  Calm' /\ (IsSynch(ss) => IsSynch(ss'))
<1>1. /\ wire \in Seq(View) /\ wire # << >> /\ view' = Head(wire) /\ wire' = Tail(wire)
      /\ wire[Len(wire)] = self
  BY DEF TypeOK, Calm, Sent, Deliver
<1>2. /\ ss' = ss /\ self' = self /\ synchMode' = synchMode /\ clock' = clock /\ count' = count
      /\ playOn' = playOn /\ decided' = decided /\ stale' = stale
      /\ extra' = extra /\ cycleStopped' = cycleStopped
  BY DEF Deliver, modeVars, timeVars
<1>3. Sent'
  <2>1. CASE Len(wire) = 1
    <3>1. wire' = << >> /\ view' = wire[1]
      BY <1>1, <2>1
    <3> QED
      BY <1>1, <1>2, <2>1, <3>1 DEF Sent
  <2>2. CASE Len(wire) # 1
    <3>1. Len(wire) \in Nat /\ Len(wire) > 1
      <4>1. Len(wire) \in Nat /\ Len(wire) # 0
        BY <1>1, EmptySeq
      <4>2. \A n \in Nat : n # 0 /\ n # 1 => n > 1
        OBVIOUS
      <4> QED
        BY <2>2, <4>1, <4>2
    <3>2. wire' # << >> /\ Len(wire') = Len(wire) - 1 /\ wire'[Len(wire')] = wire[Len(wire)]
      BY <1>1, <3>1
    <3> QED
      BY <1>1, <1>2, <3>2 DEF Sent
  <2> QED
    BY <2>1, <2>2
<1>4. Cycle' = Cycle /\ Passed' = Passed
  BY <1>2 DEF Cycle, CycleOf, Passed, PassedOf
<1>5. InStep' <=> InStep
  BY <1>2, <1>4 DEF InStep
<1>6. Finding' <=> Finding
  BY <1>2, <1>4 DEF Finding, Counted
<1> QED
  BY <1>2, <1>3, <1>5, <1>6 DEF Calm

LEMMA CalmReferee ==
  ASSUME TypeOK, Calm, Referee, OnlyOverruns'
  PROVE  Calm' /\ (IsSynch(ss) => IsSynch(ss'))
<1>1. /\ ss' = ss /\ self' = self /\ synchMode' = synchMode /\ clock' = clock /\ count' = count
      /\ wire' = wire /\ view' = view /\ decided' = decided /\ stale' = stale
      /\ extra' = extra
  BY DEF Referee, timeVars
<1>2. \/ self.quality = "HIGH"
      \/ (playOn' => playOn) /\ (cycleStopped => cycleStopped')
  BY OnlyFault DEF Referee
<1>3. Cycle' = Cycle /\ Passed' = Passed
  BY <1>1 DEF Cycle, CycleOf, Passed, PassedOf
<1>4. InStep' <=> InStep
  BY <1>1, <1>3 DEF InStep
<1>5. Finding => Finding'
  BY <1>1, <1>2, <1>3 DEF Finding, Counted, Tallied
<1>6. Sent'
  BY <1>1 DEF Sent, Calm
<1> QED
  BY <1>1, <1>4, <1>5, <1>6 DEF Calm

\* Unless something was lost or late, a step keeps a calm agent calm, and
\* synchronised if it is.
LEMMA CalmNext ==
  ASSUME TypeOK, Calm, [Next]_vars, OnlyOverruns'
  PROVE  Calm' /\ (IsSynch(ss) => IsSynch(ss'))
<1>1. ~Lose
  BY OnlyFault DEF Lose
<1>2. CASE UNCHANGED vars
  <2>1. /\ ss' = ss /\ self' = self /\ synchMode' = synchMode /\ clock' = clock /\ count' = count
        /\ wire' = wire /\ view' = view /\ decided' = decided /\ stale' = stale
        /\ playOn' = playOn /\ extra' = extra /\ cycleStopped' = cycleStopped
    BY <1>2 DEF vars, modeVars, timeVars
  <2>2. Cycle' = Cycle /\ Passed' = Passed
    BY <2>1 DEF Cycle, CycleOf, Passed, PassedOf
  <2>3. (InStep' <=> InStep) /\ (Finding' <=> Finding) /\ (Sent' <=> Sent)
    BY <2>1, <2>2 DEF InStep, Finding, Counted, Sent
  <2> QED
    BY <2>1, <2>3 DEF Calm
<1> QED
  BY <1>1, <1>2, CalmCycleStart, CalmSilentSlot, CalmSeeSlot, CalmHandleTimeout,
     CalmHandleThink, CalmDeliver, CalmReferee DEF Next

LEMMA InitCalm == Init => Calm
<1> SUFFICES ASSUME Init PROVE Calm
  OBVIOUS
<1>1. /\ synchMode \in BOOLEAN /\ clock \in 1 .. Len(Schedule) /\ count \in 0 .. 3
      /\ view = self /\ self = Mode("NORMAL", "HIGH") /\ wire = << >> /\ stale = TRUE
      /\ ss = InitSeeState /\ extra = "none"
  BY InitTypeOK DEF Init, TypeOK
<1>2. /\ ss.seeCount = 0 /\ ss.history = <<0, 0, 0>> /\ ss.timing = "NOSYNCH" /\ ~ss.synchSee
  BY <1>1 DEF InitSeeState
<1>3. ~IsSynch(ss)
  BY <1>2, TimingFacts DEF IsSynch
<1>4. /\ ss.history[1] = 0 /\ ss.history[2] = 0
      /\ self.quality = "HIGH" /\ Passed \in 0 .. Slots(Cycle)
  BY <1>1, <1>2, ModesOfAdjustment, ClockFacts
<1>5. Passed \in Nat
  BY <1>4 DEF Slots
<1>6. Counted(Cycle, Passed, count, ss, self)
  BY <1>2, <1>4, <1>5 DEF Counted, Tallied
<1>7. Finding
  BY <1>1, <1>4, <1>6 DEF Finding
<1>8. Sent
  BY <1>1 DEF Sent
<1> QED
  BY <1>1, <1>2, <1>3, <1>7, <1>8 DEF Calm

LEMMA NextInv == Inv /\ [Next]_vars => Inv'
<1> SUFFICES ASSUME Inv, [Next]_vars PROVE Inv'
  OBVIOUS
<1>1. TypeOK'
  BY NextTypeOK DEF Inv
<1>2. OnlyOverruns' => Calm'
  BY OnlyBefore, CalmNext DEF Inv
<1> QED
  BY <1>1, <1>2 DEF Inv

LEMMA SpecInv == Spec => []Inv
<1>1. Init => Inv
  BY InitTypeOK, InitCalm DEF Inv
<1> QED
  BY <1>1, NextInv, PTL DEF Spec

-----------------------------------------------------------------------------
(* What the invariant says of the next see.                                *)

\* The slots and the cycles of the server's timer, from the cycle and the
\* slots of it that have passed.
LEMMA ClockSlots ==
  ASSUME synchMode \in BOOLEAN, clock \in 1 .. Len(Schedule)
  PROVE  /\ SlotAt[clock] = IF 3 * Cycle + Passed = 0 THEN 7 ELSE 3 * Cycle + Passed - 1
         /\ CycleAt[clock] = IF 3 * Cycle + Passed = 0 THEN 3 ELSE Cycle
         /\ 3 * Cycle + Passed \in 0 .. 8 /\ Cycle \in 0 .. 2
<1> USE DEF SlotAt, CycleAt, CycleOf, PassedOf, Cycle, Passed
<1>1. clock \in 1 .. 14 /\ (~synchMode => clock <= 11)
  BY ClockFacts
<1>2. CASE synchMode
  <2>1. CASE clock \in {1, 2, 3, 4, 5}
    BY <1>2, <2>1
  <2>2. CASE clock \in {6, 7, 8, 9, 10}
    BY <1>2, <2>2
  <2>3. CASE clock \in {11, 12, 13, 14}
    BY <1>2, <2>3
  <2> QED
    BY <1>1, <2>1, <2>2, <2>3
<1>3. CASE ~synchMode
  <2>1. CASE clock \in {1, 2, 3, 4}
    BY <1>3, <2>1
  <2>2. CASE clock \in {5, 6, 7, 8}
    BY <1>3, <2>2
  <2>3. CASE clock \in {9, 10, 11}
    BY <1>3, <2>3
  <2> QED
    BY <1>1, <1>3, <2>1, <2>2, <2>3
<1> QED
  BY <1>2, <1>3

\* In step with the server's timer, the agent knows the phase of the last see.
LEMMA InStepPhase ==
  ASSUME TypeOK, InStep
  PROVE  ss.timing = LastSeePhase
<1> DEFINE q == 3 * Cycle + Passed
           i == SlotAt[clock] + 8 - count
<1>0. /\ synchMode \in BOOLEAN /\ clock \in 1 .. Len(Schedule) /\ count \in 0 .. 7
      /\ decided \in BOOLEAN
  BY DEF TypeOK
<1>a. Cycle \in 0 .. 2 /\ Passed \in Nat
  BY <1>0, ClockFacts DEF Slots
<1>1. /\ SlotAt[clock] = (IF q = 0 THEN 7 ELSE q - 1) /\ q \in 0 .. 8 /\ count \in 0 .. 7
  BY <1>0, <1>a, ClockSlots
<1>2. /\ ss.timing \in SynchTiming
      /\ SlotOf(ss.timing) \in {q - 1 - count, q - 1 - count + 8}
  <2>1. Phase(Cycle, Passed, count, ss, self, decided)
    BY DEF InStep
  <2> QED
    BY <1>0, <1>a, <2>1 DEF Phase
<1> HIDE DEF q
<1>3. /\ ss.timing \in {"0_00", "50_0", "22_5"}
      /\ SlotOf("0_00") = 0 /\ SlotOf("50_0") = 4 /\ SlotOf("22_5") = 6
  BY <1>2 DEF SlotOf, SynchTiming
<1>4. /\ ss.timing = "0_00" => i \in {0, 8}
      /\ ss.timing = "50_0" => i \in {4, 12}
      /\ ss.timing = "22_5" => i \in {6, 14}
  BY <1>1, <1>2, <1>3
<1> HIDE DEF i
<1>5. /\ ss.timing = "0_00" => i % 8 = 0
      /\ ss.timing = "50_0" => i % 8 = 4
      /\ ss.timing = "22_5" => i % 8 = 6
  BY <1>4
<1>6. PhaseOfSlot[0] = "0_00" /\ PhaseOfSlot[4] = "50_0" /\ PhaseOfSlot[6] = "22_5"
  BY DEF PhaseOfSlot
<1> QED
  BY <1>3, <1>5, <1>6 DEF LastSeePhase, i

\* And it knows the cycle of the next one once it has decided.
LEMMA InStepCycles ==
  ASSUME TypeOK, InStep, decided, view = self
  PROVE  ss.cycles = NextSeeCycles
<1> DEFINE q == 3 * Cycle + Passed
           k == SlotOf(ss.timing) + Interval(self)
           T == << 0, 0, 0, 1, 1, 1, 2, 2 >>
           d == Due(ss.timing, self.width)
<1>0. /\ synchMode \in BOOLEAN /\ clock \in 1 .. Len(Schedule) /\ count \in 0 .. 7
      /\ decided = TRUE /\ self \in View
  BY DEF TypeOK
<1>a. Cycle \in 0 .. 2 /\ Passed \in Nat
  BY <1>0, ClockFacts DEF Slots
<1>b. /\ Phase(Cycle, Passed, count, ss, self, TRUE)
      /\ Countdown(Cycle, Passed, count, ss, self, TRUE)
  BY <1>0 DEF InStep
<1>1. /\ SlotAt[clock] = (IF q = 0 THEN 7 ELSE q - 1) /\ q \in 0 .. 8 /\ count \in 0 .. 7
      /\ CycleAt[clock] = (IF q = 0 THEN 3 ELSE Cycle) /\ Cycle \in 0 .. 2
      /\ q = 0 => Cycle = 0
  <2>1. q = 0 => Cycle = 0
    BY <1>a
  <2> QED
    BY <1>0, <1>a, <2>1, ClockSlots
<1>2. /\ ss.timing \in {"0_00", "50_0", "22_5"} /\ self.quality = "HIGH" /\ self \in View
      /\ SlotOf(ss.timing) \in {q - 1 - count, q - 1 - count + 8}
      /\ count < Interval(self)
      /\ ss.timing = "22_5" => self.width # "NORMAL"
      /\ ss.timing = "0_00" => self.width # "NARROW"
  BY <1>0, <1>a, <1>b DEF Phase, SynchTiming
<1>3. ss.cycles = d - Cycle - (IF SlotOf(ss.timing) = q - 1 - count THEN 0 ELSE 3)
  BY <1>0, <1>a, <1>b DEF Countdown
<1> HIDE DEF q
<1>4. /\ SlotOf("0_00") = 0 /\ SlotOf("50_0") = 4 /\ SlotOf("22_5") = 6
  BY DEF SlotOf
<1>5. /\ self.width \in {"NARROW", "NORMAL", "WIDE"}
      /\ Interval(self) = IF self.width = "WIDE" THEN 8 ELSE IF self.width = "NORMAL" THEN 4 ELSE 2
  BY <1>2, IntervalFacts DEF Width
<1>6. NextSeeSlot = SlotAt[clock] + Interval(self) - count
  BY <1>1, <1>2, <1>5 DEF NextSeeSlot
<1>7. /\ k \in {4, 6, 8, 12, 14}
      /\ k = 4 => d = 1 
      /\ k = 6 => d = 2
      /\ k = 8 => d = 3
      /\ k = 12 => d = 4
      /\ k = 14 => d = 5
  <2>1. CASE ss.timing = "0_00"
    BY <1>2, <1>4, <1>5, <2>1 DEF Due
  <2>2. CASE ss.timing = "50_0"
    BY <1>2, <1>4, <1>5, <2>2 DEF Due
  <2>3. CASE ss.timing = "22_5"
    BY <1>2, <1>4, <1>5, <2>3 DEF Due
  <2> QED
    BY <1>2, <2>1, <2>2, <2>3
<1>8. SlotOf(ss.timing) \in {0, 4, 6} /\ Interval(self) \in {2, 4, 8}
  BY <1>2, <1>4, <1>5
<1> HIDE DEF d
<1>9. \/ SlotOf(ss.timing) = q - 1 - count /\ NextSeeSlot = k /\ CycleAt[clock] = Cycle
      \/ /\ SlotOf(ss.timing) # q - 1 - count /\ q > 0
         /\ NextSeeSlot = k - 8 /\ CycleAt[clock] = Cycle /\ k >= 8
      \/ SlotOf(ss.timing) # q - 1 - count /\ NextSeeSlot = k /\ CycleAt[clock] = 3 /\ Cycle = 0
  BY <1>1, <1>2, <1>6, <1>8
<1> HIDE DEF k
<1> DEFINE C(slot) == T[(slot % 8) + 1] + 3 * (slot \div 8)
<1>10. C(k) = d
  BY <1>7
<1>11. k >= 8 => C(k - 8) = d - 3
  BY <1>7
<1>12. NextSeeCycles = C(NextSeeSlot) - CycleAt[clock]
  <2>1. NextSeeSlot \in Nat /\ CycleAt[clock] \in Nat
    BY <1>a, <1>7, <1>9
  <2>2. NextSeeSlot % 8 \in 0 .. 7 /\ NextSeeSlot \div 8 \in Nat
    BY <2>1
  <2>3. \A i \in 0 .. 7 : T[i + 1] \in Nat
    OBVIOUS
  <2>4. T[(NextSeeSlot % 8) + 1] \in Nat
    BY <2>2, <2>3
  <2> HIDE DEF T
  <2>5. NextSeeCycles = T[(NextSeeSlot % 8) + 1] + (3 * (NextSeeSlot \div 8) - CycleAt[clock])
    BY DEF NextSeeCycles, T
  <2> QED
    BY <2>1, <2>2, <2>4, <2>5
<1> HIDE DEF C
<1>13. d \in 1 .. 5
  BY <1>7
<1>14. CASE SlotOf(ss.timing) = q - 1 - count /\ NextSeeSlot = k /\ CycleAt[clock] = Cycle
  BY <1>a, <1>3, <1>10, <1>12, <1>13, <1>14
<1>15. CASE /\ SlotOf(ss.timing) # q - 1 - count /\ q > 0
            /\ NextSeeSlot = k - 8 /\ CycleAt[clock] = Cycle /\ k >= 8
  <2>1. ss.cycles = d - Cycle - 3
    BY <1>3, <1>15
  <2>2. NextSeeCycles = d - 3 - Cycle
    BY <1>11, <1>12, <1>15
  <2> QED
    BY <1>a, <1>13, <2>1, <2>2
<1>16. CASE SlotOf(ss.timing) # q - 1 - count /\ NextSeeSlot = k /\ CycleAt[clock] = 3 /\ Cycle = 0
  <2>1. ss.cycles = d - 0 - 3
    BY <1>3, <1>16
  <2>2. NextSeeCycles = d - 3
    BY <1>10, <1>12, <1>16
  <2> QED
    BY <1>13, <2>1, <2>2
<1> QED
  BY <1>9, <1>14, <1>15, <1>16

-----------------------------------------------------------------------------
(* The theorems.                                                           *)

\* SeeState::isSynch, however many cycles the agent was too slow for: an agent
\* that takes itself to be synchronised is right about the timing of the last
\* see (M_last_timing), the view modes that doViewAction asks for included.
THEOREM TimingRight == Spec => []PhaseAgreement
<1>1. Inv => PhaseAgreement
  BY InStepPhase DEF Inv, Calm, PhaseAgreement
<1> QED
  BY <1>1, SpecInv, PTL

\* SeeState::cyclesTillNextSee: once a synchronised agent has decided, its
\* countdown is the number of cycles until the server's next see.
THEOREM CountdownRight == Spec => []CyclesAgreement
<1>1. Inv => CyclesAgreement
  <2>1. ASSUME Inv, OnlyOverruns, IsSynch(ss), wire = << >>, decided
        PROVE  ss.cycles = NextSeeCycles
    <3>1. TypeOK /\ InStep /\ view = self
      BY <2>1 DEF Inv, Calm, Sent
    <3> QED
      BY <2>1, <3>1, InStepCycles
  <2> QED
    BY <2>1 DEF CyclesAgreement, CyclesRight
<1> QED
  BY <1>1, SpecInv, PTL

\* No handler of PlayerAgent, and no view action it refuses or sends, takes a
\* synchronised agent's synchronisation from it: UpdateBySee never meets a
\* second see of a cycle, nor a timing without a successor, and action() never
\* finds a see missing.
THEOREM SynchNeverLost == Spec => SynchKept
<1>1. Inv /\ [Next]_vars => [OnlyOverruns' /\ IsSynch(ss) => IsSynch(ss')]_vars
  BY OnlyBefore, CalmNext DEF Inv
<1> QED
  BY <1>1, SpecInv, PTL DEF Spec, SynchKept

=============================================================================
