# TLA+ verification of the Yunlu 2D soccer agents

The repository is a RoboCup 2D soccer simulation team. Its agents (eleven
players, an online coach, a trainer) are separate processes that talk to the
soccer server over UDP. `src/librcsc_CSU_Yunlu` is the agent library (a version
of librcsc), `src/Yunlu2020_a` the team built on it. This directory models the
parts whose correctness depends on order and time: what an agent believes of
the server, of the referee and of its teammates after messages were late, lost
or doubled, and what it does on that belief. TLC checks the models on small
instances; TLAPS proves theorems about all of them for every value of their
constants.

`src/.../` paths below are short for

- `rcsc/`: `src/librcsc_CSU_Yunlu/rcsc/`
- `team/`: `src/Yunlu2020_a/src/`

## The system

The server runs a cycle of 100 ms. At its start it sends each player a
`sense_body` (the player's own body, and the counts of the commands the server
has executed for it), and on a separate visual timer a `see`, whose frequency
depends on the view mode. The play mode comes in a referee message. In
`synch_mode` the server also sends `(think)` and waits for `(done)`. Each agent
runs one thread: a select loop (`BasicClient::runOnline`) that calls
`handleMessage` when the socket has data and `handleTimeout` every 10 ms when
it has not. There is no acknowledgement and no retransmission. Every belief
about the server has to be repaired from later messages.

| Component | State | Operations | Correct if |
|---|---|---|---|
| See timing (`rcsc/player/see_state.cpp`) | phase of the last see, countdown to the next, see counts of three cycles, synch flag | `updateBySenseBody`, `updateBySee`, `setViewMode`, `setLastSeeTiming`, `canChangeViewTo` | the phase and the countdown are the server's |
| View actions (`player_agent.cpp`, `action/view_synch.cpp`, `team/view_tactical.cpp`) | requested and current view mode | `adjustSeeSynch...Mode`, `doChangeView`, `doViewAction` | synchronisation is kept, and found again after a fault |
| Message loop (`player_agent.cpp`) | game time, play mode, stopped flag, last decision time, intention | `handleMessage`, `handleTimeout`, `isDecisionTiming`, `updateCurrentTime`, `updateServerStatus`, `analyze...`, `action` | one decision in each step, on fresh data |
| Command effects (`action_effector.cpp`, `self_object.cpp`) | last commands, their counts | `incCommandCount`, `checkCommandCount`, `makeCommand`, `reset`, `SelfObject::update` | dead reckoning applies what the server executed |
| Player's world model (`world_model.cpp` and the object classes) | objects, times of update, game mode | `update`, `updateAfterSenseBody`, `updateAfterSee`, `updateJustBeforeDecision`, `setCommandEffect` | updated once a step, in order |
| Set plays and shoot-outs (`team/bhv_set_play*.cpp`, `bhv_goalie_free_kick.cpp`, `bhv_penalty_kick.cpp`) | wait counts, wait requests, the goalie's moves | `doKickWait`, `is_kicker`, `execute` | the waits end in time, and the teammates get theirs |
| Game mode (`util/game_mode.cpp`, `player/penalty_kick_state.cpp`) | type, side, score, set-play start, shoot-out state | `GameMode::update`, `updateGameMode`, `PenaltyKickState::update` | follows the server, in any order of announcements |
| Client connection (`common/basic_client.cpp`, `net/`, `gz/`) | server alive, compression, waited time | `startClient`, `recvMessage`, `setCompressionLevel`, `runOnline` | ends once, and agrees on compression |
| Online coach library (`rcsc/coach/`) | player types of both teams, candidates for the opponents', available types, substitutions, heard recovery, freeform messages sent | `setPlayerType`, `PlayerTypeAnalyzer::update`, `updateAfterSeeGlobal`, `updateTeammateStamina`, `doSayFreeform`, `action` | its books are the server's, what it finds out is right |
| Team coach (`team/sample_coach.cpp`) | first substitution done, team graphic queue | `doFirstSubstitute`, `doSubstituteTiredPlayers`, `sayPlayerTypes`, `sendTeamGraphic` | asks for what is allowed, once, and again if it was lost |
| Audio (`common/audio_memory.cpp`, `say_message_parser.cpp`, `team/sample_communication.cpp`) | what was heard, and when | parse, `set...`, `say...` | what is heard is used at the time it holds |
| Trainer (`rcsc/trainer/`, `team/sample_trainer.cpp`) | as the coach | free moves and modes | as the coach |
| Strategy, roles, behaviours (`team/strategy.cpp`, `role_*`, `bhv_*`) | formation, home positions | `execute` of each role | geometry and thresholds |
| Action chain (`team/chain_action/`) | search queue | best-first search | respects its limits |
| Skills, geometry, formations, networks, stamina model | numerical | | real-valued computation |
| Parameters, logs, monitor, file formats | | parsing and output | |

Components interact in three ways: by calls within one agent (the loop calls
the see state, the world model and the effector in an order that matters), by
messages with the server, and between agents only by way of the server (say and
hear; the coach's `change_player_type`).

`PROJECT.json` lists for every component whether it is modelled and for every
known hazard the line where it bites and the property that would show it.
Three kinds recur. *Stale state*: the agent knows the step only through a game
time that several steps may share, and its view mode and player types through
answers that may not have come. *Ordering*: `sense_body`, `see`, referee
messages and timeouts interleave freely with decisions. *Unreliable delivery*:
any one message or command may be lost.

## Modules

The server and the network are not in the repository. Each module states what
the code assumes of them in actions of their own, which `map` marks external.

### `SeeState` and `SeeSynch`

`SeeState` has no variables: it holds the state of class `SeeState` as a record
and each member function as an operator on it. `SeeSynch` puts one agent and
the server's visual timer around it. `clock` runs through the events of 300 ms,
after which cycles and visual slots (37.5 ms apart) line up again: three cycles
and eight slots, with `(think)` in synch mode. `HandleSee`, `HandleTimeout` and
`HandleThink` are the agent's handlers, `Deliver` and `Lose` are the fate of a
`change_view`, `Tardy` and `InTime` say which deadlines are met. `MovesTime` is
what `updateCurrentTime` makes of a `see`: while the server's time stands
(`cycleStopped`) it is only `sense_body` that moves the agent's, so after a lost
one a second `see` falls on the same time, and `updateBySee` drops the
synchronisation; `extra` is the stopped part of the agent's time, as far as it
decides what a `see` does when the time runs again.

### `PlayerLoop`

The game clock of the player. The server numbers its steps; the agent sees the
cycle only, so in a stopped mode it must count `sense_body` messages. `Read`
takes one message of the socket, `EndOfDrain` and `HandleTimeout` are the two
places that may call `action()`. `step` values carried by messages, `lastStop`,
`heardStep`, `decidedStep`, `decisions` and `midStep` are not in the code: they
record what happened, so that properties can compare the agent with the server.

### `CommandEffect`

The effector counts each command that it sends; `sense_body` reports how many
of each the server has executed, and `checkCommandCount` drops those that did
not get through. `Decide`, `ReadSense` and `ReadSee` are the calls of one step,
`Deliver`, `Lose` and `NextStep` the server. `Believed` and `BelievedNeck` are
what the check leaves of the last commands, `Sendable` is what `makeCommand`
sends for them (a `turn 0` for a missing one), `Effect` is what the world model
then applies.

### `GameMode`

Operators for `rcsc/util/game_mode.cpp`: which type and side an announcement is
parsed to (`PlayModeMap`, `Parse`), and the classes of modes other code asks
for. `SetPlay` and `PenaltyKick` extend it.

### `SetPlay`

A set play of our team from the announcement to the kick. `NextCycle` is the
server with its referee, who drops the ball after `DropBallTime` cycles.
`HearReferee` is `GameMode::update` with `WorldModel::updateGameMode`: the
free kick that is announced together with a caught ball is not taken over
(`Update`), and a mode may or may not begin a set play (`Begins`). `Decide` is
one decision: `Counted` is the set-play count, which a teammate's wait request
sets to 0. A decision is one of four: the set play's `Routine`, the `ChainAction` that
most routines hand the ball to when they have waited (`FieldWaits`), a `Shoot`,
or something `Elsewhere`, which is all of `doPreprocess` that keeps the player from
its set play. `KickInWaits` and its four siblings are the `doKickWait` of each
behaviour, `Field` what follows it, `Catch` is the goalie with its static
members. `quiet` and `chances` record how many decisions the teammates had, and
how many the kicker's routine had in a row in which nothing was left to wait for.

### `PenaltyKick` and `KickOrder`

A shoot-out with every player of the team. Each has its own `PenaltyKickState`
(`pen`), its own play mode, and reads the referee's announcements at its own
pace (`inbox`). `Role` is `Bhv_PenaltyKick::execute`, `IsReverseSide` the
`is_reverse_side` of the world model. `KickOrder` is the abstract promise: one
player at a time is due, nobody else kicks, and nobody is due again before
everybody else was. `PenaltyKick` implements it under the mapping in `Order`:
who is due follows from the referee's count of kicks, who is kicking from what
the players, each on its own, believe.

### `Connection`

The life of one client, from `handleStart` to the last `handleExit`:
`BasicClient::run` with the handlers of the player, the coach and the trainer.
`config` says which client it is and what it asks for, `pc` where `run` is.
`Wake`, `Read`, `EndOfDrain` and `Timeout` are the select loop, `Settings` is
what `analyzeInit` sends, `Packing` is `setCompressionLevel`. `InitDebug` is its
other outcome: a log file that cannot be opened clears the alive flag, the
settings go out all the same, and the client leaves at the end of the drain. Every
datagram carries the format it was sent in, and `garbled` records one that was
read in the other format.

### `Substitution`

The online coach, its team's decisions and the server's change of player types.
`Decide` is `CoachAgent::action` with `SampleCoach::doSubstitute`: before
kick-off `FirstSubstitution`, in the last 500 cycles of normal time and after
it `TiredSubstitution`. `SetPlayerType` is the handling of an answer, with the
two books it writes: `available`, a list of types that only shrinks, and the
types of the players, from which the used counts are computed again each time.
`SayRecovery` and `ReadHear` carry a player's tiredness to the coach.

### `OpponentTypes`

The coach's other table. The server says which opponent was replaced, not by
what type. `SeeGlobal` and one `Analyze` for each opponent are
`PlayerTypeAnalyzer::update`: measurements rule types out, the last candidate is
taken (`Determined`), and a type that `PtMax` opponents have is ruled out for
the rest. `SayPlayerTypes` is the team's message to its players, `PlayerHears`
and `PlayerReadsChange` are what a player makes of it and of the server's own
message. `happened` records faults, and the coincidences of which the
properties except some.

### `SeeSynch_proofs`, `PlayerLoop_proofs`, `CommandEffect_proofs`, `SetPlay_proofs`, `PenaltyKick_proofs`, `Connection_proofs`, `Substitution_proofs`, `OpponentTypes_proofs`

The theorems about each module: its inductive invariant, the lemmas about the
module's operators, one lemma for each action that needs one, and the theorems
that state the properties of the module's run.

### How they fit

`SeeSynch` instantiates the see handling of the same `PlayerAgent` whose clock
is `PlayerLoop` and whose commands are `CommandEffect`. They are separate
models: each takes from the others only what it needs as a nondeterministic
choice. In `PlayerLoop` "the player is synchronised and expects no see" is such a
choice; in `SeeSynch` the game time is reduced to "decided in this cycle"; in
`CommandEffect` a step is one sense, any number of sees and at most one
decision, which is what `PlayerLoop` establishes (`DecidedOnce`). `SetPlay` has
the rule of `PlayerLoop` for stopped time in its `Sense`, and decides at most
once at a time. `Connection` starts and ends the loop in which all of them run.
`Substitution` and `OpponentTypes` are the two sides of the coach: they share
no state but the message `change_player_type`.

## Runs

| Run | Instance | What it shows |
|---|---|---|
| `SeeSynch` | both server modes, one fault of any of seven kinds, or up to 2 overruns | `PhaseAgreement`, `CyclesAgreement`: a synchronised player is right about the phase and the countdown of the sees. `SynchKept`: no view action it takes costs it the synchronisation. `Resynchronises`: if play stays stopped, it becomes synchronised for good, with the right countdown |
| `SeeSynchChance` | finding | see below |
| `SeeSynchStopped` | finding | see below |
| `PlayerLoop` | 6 steps, up to 2 faults of three kinds in the first 4 | `DecidedOnce`, `MovingStepDecided` always; `EveryStepDecided`, `DecidesOnOwnBody`, `NoIntentionAcrossStop` as long as there was no fault |
| `CommandEffect` | 2 body commands and `turn_neck`, 5 steps, up to 3 faults of four kinds | `EffectMatchesServer`, `TypeMatchesServer` |
| `SetPlay` | ball dropped after 22 cycles, caught ball kept 6, one lost announcement | `WaitsEnd`, `KnowsSetPlay`, `WaitsForTeam` |
| `PenaltyKick` | team of 3 with its goalie, on the right, up to 7 kicks and 2 goals, each player up to 2 announcements behind, one lost announcement or restart | `KnowsShootout`, `RightSide`, `FacesGoal`; `KeepsOrder`, the refinement of `KickOrder` |
| `Connection` | all three kinds of client, with and without eye, levels 0, 6 and 9, patience of 3 ticks, 2 faults | `Understands`, `ByeOnce`, `NoFalseAlarm`, `GivesUp`, `JoinsOrStops` |
| `ConnectionLevel9` | finding | see below |
| `Substitution` | 3 players, 3 types, one player of each, one substitution, one fault of three kinds | `AvailableIsSubstitutable`, `BookkeepingAgrees`, `NoneRefused`, `OnlyTiredReplaced`, `TiredReplaced` |
| `OpponentTypes` | 2 opponents, 3 types, one player of each, 2 substitutions, 2 messages allowed, up to 2 faults of five kinds | `IdentifiedRight`, `BelievesRight`, `Told` |
| `OpponentTypesCounted` | finding | see below |

Each module's type invariant is a property of its run. Every property of a
passing run has a mutant of the code's translation (a dropped guard, a wrong
row, a missing reset) under which TLC finds it violated; `PROJECT.json` lists
them, and the mutated operators stand before the originals in the modules.

### Bounds, and why they are enough

- `SeeSynch` has no bound but the number of faults: counts of sees are clamped
  as in the code and the schedule repeats, so the state space is finite and
  complete for the given faults. One fault is the limit of what is claimed:
  after a lost `see` and an overrun the counts can settle on a wrong phase
  for good.
- `PlayerLoop`: six steps contain a stop, a stopped step, a restart and two
  moving steps in each order that `Following` allows; a fault in the first four
  leaves room for its effects. Three messages in the socket are one more than
  the messages a step begins with.
- `CommandEffect`: a lost or late command shows at the next check and at most
  in the one after it; five steps leave three faults room to interact. Two body
  types are needed for one to be taken for the other.
- `SetPlay`: ages are counted up to `DropBallTime` and the count up to 15, the
  largest values the code compares with, so that set plays follow each other
  without end. 22 cycles are the least in which each of the code's thresholds
  (5, 10 and 15 cycles before the drop, counts of 3, 6, 10 and 15) has a moment
  of its own; the server's default is 100, of which the rest is more waiting.
  `GoalieHold` is 50 in the code.
- `PenaltyKick`: seven kicks are three or four of ours, so in a team of three
  the order begins again. Two announcements behind is as much as lets a player
  hear one kick's end while the next one's is announced. The team on the right
  is the one whose goal and pitch are turned.
- `Connection`: two faults against a patience of three ticks. With as many
  faults as ticks every client gives up a live server, whence
  `ConnectionAssumption`. Levels 0, 6 and 9 are none, one that works and the
  one that does not.
- `Substitution`: three tired players against a limit of one, three types of
  which one player each may have: requests exceed the limit, candidates run out,
  two requests go for one type. `allow_mult_default_type` is true, as it is in
  the servers in use.
- `OpponentTypes`: with two opponents and one player of each type one's type
  rules the other's out; two substitutions let one follow the other before the
  coach is through. Three substitutions with one fault (2.9 million states)
  were checked once.
- The models that end (`MaxStep` steps, the last kick, a client that has
  exited) turn the deadlock check off. `SeeSynch`, `SetPlay`, `Substitution` and
  `OpponentTypes` run with it.

### Fairness

- `SeeSynch!FairSpec`: the server's clock never stops. The clock in turn waits
  until the agent has met its deadlines (`OnTime`): its select loop wakes up at
  least every 10 ms (`runOnline` passes that interval to `select`), and a command
  that is not lost arrives. A deadline that is missed is a fault, and faults and the
  referee are owed nothing.
- `Connection!Fairness`: the client's loop goes on and its timer ticks, a
  running server reads what arrives and takes its turn in each tick. Neither
  the end of the match, nor the end of the server, nor a fault is owed.
- `Substitution!FairSpec`: cycles go on, the server serves what arrives, the
  coach reads its socket and decides (`handleTimeout` does so in each cycle).
  Neither tiredness nor a say message nor a stop of play is owed.
- `OpponentTypes!FairSpec`: the coach's cycles go on (`SeeGlobal`, `Analyze`,
  `SayPlayerTypes`), the server and the player read what arrives. The server's
  clock does not stay in a closed freeform window: strong fairness, because
  the window may only change between two cycles of the coach. Neither
  substitutions nor measurements are owed.
- `PlayerLoop`, `CommandEffect`, `SetPlay` and `PenaltyKick` claim safety only.
  "In time" is stated there by counting steps, decisions or chances.

### Properties with a condition, and why

Some statements hold only on one side of a line that the code itself draws.

- `EveryStepDecided` fails if a message is lost or the agent is overrun: a
  stopped step whose `sense_body` is lost cannot be told from the one before. A
  step that moves the cycle is decided in nevertheless (`MovingStepDecided`).
- `DecidedOnce` excepts steps in whose middle a stopped mode is announced.
  The stopped time then returns to zero and the "already decided" test, which
  compares times, no longer sees the decision. The exception is the
  only one. `EveryStepDecided` starts with the third step, because a player
  that joins in the first has no body information yet.
- `EffectMatchesServer` is claimed as long as nothing but commands was lost. If
  commands may be late or a `sense_body` be lost, counts of different steps are
  compared, and only the command's type is right (`TypeMatchesServer`), up to
  two faults; three can make wrong counts coincide. After a lost `sense_body`
  updates run on unchecked commands, although `action_effector.h:125` asks for
  the check before them; `TypeMatchesServer` therefore speaks of updates that
  follow a check.
- `Resynchronises` is about a server without `synch_mode` and a play that stays
  stopped. With `(think)` the view mode of an agent without synchronisation is left
  as it is if it satisfies one half of the test (finding 2).
- `WaitsEnd` counts from the cycle in which the code's own time limit is
  reached. The indirect free kick and the goalie with a caught ball have none
  that a wait request could not extend, so for them it counts only decisions
  without a recent request. It is about the waits, and not a promise that the
  ball is kicked: `Bhv_ChainAction` may turn to a receiver it has not seen, hold
  the ball or have no action, in any number of decisions and past every limit,
  and the kicker is content with each of them. More than that, the kicker then sets
  `IntentionWaitAfterSetPlayKick` whether there was a kick or not
  (`team/bhv_set_play_kick_in.cpp:124`), and that intention goes on until the
  ball is no longer kickable or an opponent can kick it
  (`team/intention_wait_after_set_play_kick.cpp:50`). A player that was turned to
  its receiver may so stand at the ball until the referee drops it.
- `WaitsForTeam` and `KnowsSetPlay` suppose that no announcement was lost: a
  player that missed one waits for a set play that is over, or counts on from
  the one before. `WaitsForTeam` excepts `doShoot`, which `doPreprocess` tries
  before the set play, and which waits for nobody.
- `RightSide` and `FacesGoal` need no more than that the player heard this
  kick's setup; `KnowsShootout` and `KeepsOrder` are about players that have
  heard everything, since counts that miss an announcement are never put right.
- `Understands` excepts an announcement of the new format that was lost or
  overtaken, which leaves the client unable to read for the rest of the match, and
  level 9. `ByeOnce` excepts a player or coach that could not open a log file: its
  alive flag is false before it leaves, so it leaves a match without a bye,
  unless the end of the match is announced in the same drain. `NoFalseAlarm` is about
  the timeout, not about that flag, and excepts a coach or trainer whose one request for
  the eye was lost, and a trainer that does not see: the server sends those
  nothing. `JoinsOrStops` excepts a lost answer to the init, after which the
  server counts in a client that knows nothing of itself.
- `TiredReplaced` is checked for lost requests and late cycles. If an *answer*
  is lost, the type stays on the coach's list although it is used up; the coach
  then may ask for it, and be refused, in every stopped cycle.
- `NoneRefused` supposes `allow_mult_default_type`. Without it
  `setPlayerParam` (`rcsc/coach/global_world_model.cpp:121`) lists the default
  type `ptMax` times as available although every player uses it.
- `IdentifiedRight` excepts two coincidences that the analyzer does not see: an
  opponent already identified is replaced ("replaced", finding 4), and the
  default type is found `PtMax` times ("default"), though there may be any
  number of default players. `BelievesRight` excepts also a message that
  crosses the change it does not know of ("crossed"). `Told` excepts a type
  found out a second time after a change ("again"): it equals what was said
  before, is no news, and the player, whose belief the change has cleared, is not
  told.

## Findings

1. `SeeSynchChance` (code bug). `isSynchedSeeCountNormalMode`
   (`rcsc/player/see_state.cpp:320`) takes the see counts (2, 3) for proof that
   the last see came at the start of a cycle; the check of a third count is
   commented out. "this condition means last see timing is TIME_0_00" is right
   only if the view mode was (narrow, low) all the time, which
   `see_state.h:198` assumes and `adjustSeeSynchNormalMode` does not check. If
   play starts during the adjustment the counts also arise at another phase.
2. `SeeSynchStopped` (comment and code differ). In `synch_mode`
   (`rcsc/player/player_agent.cpp:2608`) "view mode is changed to (Narrow,
   Low)", but the guard joins the width and the quality by `&&`; the twin for
   normal mode (line 2523) has `||`. A (narrow, high) player is left as it is.
3. `ConnectionLevel9` (comment and code differ). By
   `rcsc/trainer/trainer_command.h:1128` the server accepts levels up to 9, and
   `sendSettingCommands` asks for them. `setCompressionLevel`
   (`rcsc/common/basic_client.cpp:226`) refuses 9: the server packs what it
   sends, the client reports "set compression level 9" and does not unpack it.
   Levels 1 to 8 work, and the default is none.
4. `OpponentTypesCounted` (code bug). `PlayerTypeAnalyzer::reset`
   (`rcsc/coach/player_type_analyzer.cpp:210`) makes the type of a replaced
   opponent unknown and does not take its count back. The type then counts as
   used up by players that have left the field, is ruled out for one that has
   it, and the only candidate left is wrong. It takes a `ptMax` of at least 2.

## Proofs

Every safety property of a passing run is a theorem. In the order of the modules:

`SeeSynch_proofs`, for both kinds of server, any faults and any number of them:

- `TypeCorrect`: `Spec => []TypeOK`.
- `TimingRight`: `Spec => []PhaseAgreement`, `CountdownRight`:
  `Spec => []CyclesAgreement`, `SynchNeverLost`: `Spec => SynchKept`. The run
  allows two overruns, the theorems any number. The invariant (`Calm`) speaks
  of an agent of which nothing was lost. While it looks for its synchronisation
  (`Finding`) the see counts are those of the server (`Tallied`): three in a
  cycle only if a see came in each slot, and then ever since. That is why the
  counts (2, 3) and (3, 2, 3; 2) can arise at one point of the 300 ms only. Once it
  is synchronised (`InStep`), the last timing, the number of slots since the
  last see and the view mode fit together (`Phase`), and the countdown is a
  function of the timing, the width and the cycle (`Countdown`). A width the
  table has no successor for can only be held between a see and the decision
  that replaces it. With that, a due see is due in the cycle in which the countdown is
  zero (`DueSee`), none is missed at a decision (`NotDueLate`), and each of the
  view modes that `canChangeViewTo` allows leads to a timing of the table
  (`FinishSeen`).

`PlayerLoop_proofs`, for any number of steps and faults:

- `TypeCorrect`: `Spec => []TypeOK`.
- `ActsOnce`: `Spec => []DecidedOnce` and `DecidesInMovingSteps`:
  `Spec => MovingStepDecided`, whatever is lost or late. The invariant orders the
  messages (`Arrivals`), bounds what the player knows by what it has heard
  (`Clock`), and says that a player that may decide has a clock that agrees with
  its step (`SettledToDecide`) and that nothing of the step which is still to
  come can move it after a decision (`SettledOnceDecided`). For that an
  announcement must come with its `sense_body`, or find the step decided
  (`Accompanied`).
- `DecidesInEveryStep`: `Spec => EveryStepDecided`, `OwnBody`:
  `Spec => DecidesOnOwnBody`, `IntentionFresh`: `Spec => []NoIntentionAcrossStop`,
  while there is no fault. `Faultless` adds how the messages of one step are laid
  out and what the clock is before the announcement, before the `sense_body` and
  after both.

`CommandEffect_proofs`

- `TypeCorrect`: `Spec => []TypeOK`, for every set of body commands and every
  set of faults.
- `EffectCorrect`: `Spec => []EffectMatchesServer`, whatever faults are
  possible. The property is not inductive: it speaks of the moment after an
  update, and its reason lies in the step before. The invariant `IInv` follows
  the commands through a step. While they are on their way (`WhileSending`) the
  effector's counter is the server's plus those commands. When they have
  arrived or are lost (`AfterSending`), either counter and effect match
  (`Matched`), or the server has none of them and each counter differs from its
  count (`Dropped`). While the `sense_body` is on its way (`WhileSensing`) that
  still holds of the step before, and the check turns it into agreement
  (`AfterSense`, `BeforeDecision`).
- `TypeCorrectEffect`: `Spec => []TypeMatchesServer`, for commands late or lost
  and `sense_body` lost. `TInv` follows the counter through steps whose
  `sense_body` is missing: it can fall behind the server's count only by a late
  command, or exceed it by a lost one (`NotBehind`, `Unchecked`), and it takes
  a third fault to make the wrong counts equal.

`SetPlay_proofs`, for every `DropBallTime` and `GoalieHold`:

- `TypeCorrect`: `Spec => []TypeOK`.
- `SetPlayKnown`: `Spec => []KnowsSetPlay` and `TeamReady`: `Spec => WaitsForTeam`.
  `Informed` says which announcements are under way and what the player makes
  of them; its last two cases are the caught ball, whose free kick comes in the
  same cycle.
- `WaitsEnded`: `Spec => []WaitsEnd`, whatever was lost. `Pressed` says how
  a player spent the chances it had: it has turned to the ball, or is that far in the
  goalie's moves, and a wait request that came since then leaves too little time
  for another chance. `Ages` supplies that a set play is never younger to the
  player than it is.

`PenaltyKick_proofs`, for every team size, goalie, side, limit of kicks and any
losses and restarts:

- `TypeCorrect`: `Spec => []TypeOK`.
- `SideKnown`: `Spec => []RightSide` and `GoalFaced`: `Spec => []FacesGoal`. `Hears`
  is what a player may rely on that has missed anything: kicks come to it in
  order, the sides take turns, and while a kick goes on it knows that.
- `ShootoutKnown`: `Spec => []KnowsShootout`. For a player that has heard
  everything the unread announcements lead without a gap from what it knows to
  what the referee has said (`Follows`), and what it has counted and what it has
  yet to count add up to the referee's counts (`Counts`).
- `OrderKept`: `Spec => KeepsOrder`, the refinement of `KickOrder`, if players are at
  most three announcements behind (`MaxInbox <= 3`). Each step of the referee
  and of a player maps to a step of the abstract order or to a stutter. The bound is
  exact: with four TLC finds the order violated. The code drains its socket
  before it decides (`PlayerAgent::handleMessage`), so a player that is so far
  behind has missed several cycles.

`Connection_proofs`

- `TypeCorrect`: `Spec => []TypeOK`; the waiting never exceeds twice the
  patience and `handleExit` is called at most twice.
- `ByeCorrect`: `Spec => []ByeOnce`, with log files and without. The invariant adds
  what each place of `run` says of the flags and counters (`Place`), and of a client
  without its log files that it is on its way out (`noLog`), and that the end of the match is
  announced once (`OneOver`): a second announcement in one drain would be
  answered by a second bye.
- `FormatsAgree`: `Spec => []Understands`, for all levels and any number of
  faults. Only a client with a level asks for compression and is
  answered (`AskedOf`, `Answered`). As long as no answer was lost or overtaken
  and the level is not 9 (`Trusted`), each datagram under way has the format the
  client will expect when it has read those before it, and the server writes the
  next one in that format too (`Formats`).
- `NoClientErrs`: `Spec => NoFalseAlarm`, for any patience and any number of
  faults below it. The invariant (`Heard`) has three parts. The init and its answer
  travel alone, before anything is packed (`Greeting`), so the answer can always
  be read and makes the client ask. A client that wants its eye has it, or the
  request or the answer that brings the request is under way, unless one was
  lost (`Seeing`). And the waiting of a client the server knows exceeds the
  faults, or for a coach that does not see `ServerWait` and the faults, by one tick at
  most, and then only while something is there to be read or due in this tick
  (`Waiting`): a whole tick without a datagram has cost a fault. The lemma
  `GivesUpOnlyDeaf` draws the conclusion at the one step that gives up.

`Substitution_proofs`, for every team, number of types and limits:

- `TypeCorrect`: `Spec => []TypeOK`; in particular the coach only asks for
  types that exist, and the count of a type on its list is never negative.
- `BooksAgree`: `Spec => []AvailableIsSubstitutable`, whatever is lost or late.
  It needs `FitsPtMax`: while a
  type is on the list, its users and its places on the list add up to at most
  `PtMax`. A change to a type takes one place and adds at most one user
  (`UsedAfterChange`), a change away from it only removes a user, and a place
  never comes back. The theorem says nothing of the default type, which every
  player has at first without having taken a place.
- `CoachInformed`: `Spec => []BookkeepingAgrees`. `Told` adds the changes under
  way: the last one says which type a player has, and those that the coach will
  count, because it will know of the start by then, are the ones the server has
  counted. The inbox need not be empty for that, only free of
  changes.
- `RequestsGranted`: `Spec => []NoneRefused`, `TiredPlayersReplaced`:
  `Spec => OnlyTiredReplaced`, without a fault. A cycle begins when all that was
  asked for is answered (`InCycle`); what the coach asks for in it fits, all
  together, into the limit of substitutions and of players of a type
  (`Affordable`), and is for different players that are tired (`Truthful`). So no
  substitution the server counts goes to a rested player, though the coach may
  have heard of the tiredness in an earlier stop of play.

`OpponentTypes_proofs`

- `TypeCorrect`: `Spec => []TypeOK`.
- `TypesFoundRight`: `Spec => []IdentifiedRight`. A type other than the default
  has at most `PtMax` opponents (`ServerRule`), and as long as no coincidence
  happened no opponent is counted that is not known to have the type
  (`UsedRule`). When the count is full those opponents are all that have the type
  (`UsedUp`, by cardinality), so to rule it out for the others is right.
- `BeliefsRight`: `Spec => []BelievesRight`. `WayInv` follows the coach's table
  through the queues: each message on the way to the server, and each on the
  way to the player, is right of every opponent for which no message of a
  change stands behind it.

The assumptions are those named in the modules: the goalie is a player and the
team finite, at least one type, a positive `PtMax`, the fault kinds those
listed, `turn` among the body commands, fewer faults than ticks of patience; and
`MaxInbox <= 3` in `OrderKept`.
Every invariant was checked with TLC, on the instances of the runs or larger
ones, before it was proved.

Only model-checked: liveness (`Resynchronises`, `TiredReplaced`, `GivesUp`,
`JoinsOrStops`, `Told`), which under fairness is outside TLAPS. `SeeState` and
`GameMode` hold operators only: what the proofs need of them are lemmas in the
modules that use them.

## Abstractions

- Geometry, noise, message text and logging are left out. A decision is one
  nondeterministic command, view request, intention or choice of types.
- Time within a cycle is the order of events; the wait thresholds of
  `isDecisionTiming` are a condition that may hold at a timeout.
- `SeeSynch`: the referee is heard at any moment of the cycle, by server and agent
  at once; a `hear` does not move the time. A stop of the server's time lasts longer
  than the agent goes without a `see`. What the game time is needed for is whether
  it has moved (`stale`), whether it was decided at (`decided`) and whether it has
  a stopped part (`extra`).
- `PlayerLoop`: announcements that are not play modes (goals, cards, time) change
  nothing that the loop's properties depend on and are left out.
- `SetPlay`: the kicker is the same player from its arrival at the ball to the
  kick, and a kick puts the ball in play; the chain action may take the player off
  the ball. What the chain action does, whether the player faces the right way
  and sees its teammates, and what `doPreprocess` finds to do is a choice in every
  decision.
- `PenaltyKick`: the referee gives a foul's outcome at once, and sets the order
  of sides. A restarted client has lost its counts; the value its constructor
  leaves uninitialised (`M_current_taker_side`) is any side.
- `Connection`: the server is silent to a client it does not know, answers in
  the format it had before the command and then switches
  (`rcsc/trainer/trainer_command.h:1420`), and reads either format. A tick is a
  share of `server_wait_seconds`. An init answer that cannot be parsed and a
  reconnect are left out. So is the failure of `initTeamInfo`, which cannot happen:
  it asks for a localization and an audio memory, and the constructor of `WorldModel`
  makes both (`rcsc/player/world_model.cpp:245`).
- In `Substitution` time and play mode reach the coach with `see_global`, though
  the code takes the mode from referee messages and may take the time from a
  `hear`; messages arrive in order. `FirstSubstitution` also asks for the
  goalie's type, as the code does from protocol version 14 on
  (`team/sample_coach.cpp:376`), the one `coach.conf` sets. Extra time has no break of its own in
  which the players recover.
- A player is tired or not: recovery is compared with one threshold on both
  sides (`recover_init - 0.002`), and so is the model.
- `OpponentTypes`: a check never rules out the real type. That is the intent
  of the thresholds in `player_type_analyzer.cpp`; whether noise and collisions
  can break it is a question of numbers. The message of a change precedes the
  next `see_global`, all opponents are seen, the allowance of freeform messages
  is constant, and one teammate stands for all, since players do not tell each
  other types.

## Not modelled

Localisation, interception, skills, formations, neural networks, stamina
arithmetic and strategy compute with real numbers; what is left of them without
the numbers is a free choice, and that is what the modules have in their place.
They are also by far the largest part of the code: nearly all of `team/role_*`
and `team/bhv_*`, `rcsc/action`, `rcsc/geom` (with a vendored triangulation
program) and `rcsc/ann`. Parameters, logs, the monitor and file formats have no
state that others depend on. Audio, team graphic, the action chain search, the
trainer's moves, the offline client (which replays a log) and the `synch_see`
mode are not modelled yet.

## Plan

Done so far: the see timing, the player's loop and commands, game mode and set
plays, the shoot-out with its abstract order, the connection, both of the
coach's tables. What is left, in this order:

1. `ActionChain`: the best-first search of
   `team/chain_action/action_chain_graph.cpp` with its limits of length and of
   evaluations, and the use of its result from cycle to cycle
   (`bhv_normal_dribble.cpp`, `short_dribble_generator.cpp`,
   `action_chain_holder.cpp`): a queued dribble that `checkOpponent` has
   cancelled can be taken up again from the cached graph in the same decision.
2. `TeamGraphic`: which tiles are sent, what the answers do, what is sent again.
3. The `synch_see` mode of `SeeState`: a view mode set after `(ok synch_see)` is
   ignored if no see has come in the cycle (`rcsc/player/player_agent.cpp:2171`).
4. Further abstract specifications: one decision per step for `PlayerLoop`, a
   register of the last executed command for `CommandEffect`, a table of player
   types for `Substitution`.

New modules bring their own constants and assumptions in the same style: one
action per handler, properties as named formulas, no recursive operators, so
that they can be proved about as well.

## Running

    tlasany M.tla
    tlc -workers 2 -config SetPlay.cfg SetPlay.tla
    tlapm Connection_proofs.tla

The longest runs are `SetPlay` and `PenaltyKick`, about two minutes each with two
workers. `PROJECT.json` maps every definition to the lines it
models and lists runs, mutants, findings, hazards and theorems.
