# HITSZer / librcsc: a TLA+ model of the agent's timing, decisions, predictions and talk

This directory specifies and verifies parts of the RoboCup 2D soccer team in this repository:
the library `src/librcsc_HITsz` (agents, world model, communication) and the team `src/HITSZer`
built on it. Paths below are relative to `src/librcsc_HITsz/rcsc/` unless they begin with
`src/`; `pa` is `player/player_agent.cpp`.

`rcssserver`, the simulator the players talk to by UDP, is not in the repository. Where a
module needs it, it is modelled from what the code relies on, and marked external.

## 1. Inventory

Eleven players, a coach and sometimes a trainer are processes of one thread each. A process is
a select loop (`common/basic_client.cpp:109`) that calls back an agent when messages arrive or
when 10ms pass without one; the agent keeps a world model, decides once per simulation step
(100ms) and sends commands. The processes share nothing: they talk to the server by datagrams
and, through it, to each other by short "say" messages. What makes this hard is not parallelism
inside a process but timing between processes: messages of a step arrive one by one, on two
timers, some never; commands are accepted or not and the player learns it only from totals one
step later; the server's clock stands still in some play modes, so that game time alone does
not tell steps apart.

| Component | State it keeps | Operations | What makes it correct | Here |
|---|---|---|---|---|
| `SeeState` (`player/see_state`) | offset of the last see in the cycle, see counts of three cycles, countdown to the next see | `updateBySenseBody`, `updateBySee`, `setViewMode`, `setLastSeeTiming`, `canChangeViewTo` | offset and countdown agree with the server's see timer | `SeeState` |
| See synchronization (`pa` 2459-2631, 2879; `action/view_synch.cpp`, `src/HITSZer/src/view_tactical.cpp`) | view mode in use; reads the world model's play mode | `adjustSeeSynch*Mode`, `doChangeView`, the check at the head of `action()` | the agent reaches synchronization and never holds a wrong one | `SeeSynch` |
| Decision loop (`common/basic_client.cpp`, `pa` 400-624, 868-1025) | `current_time_`, `last_decision_time_`, `server_cycle_stopped_`, `think_received_`, timeouts | `handleMessage`, `handleTimeout`, `analyze...`, `isDecisionTiming`, `action` | one decision in each step, none missed, answer to every `(think)`, end when the server is gone | `DecisionLoop` |
| `ActionEffector` | number of commands sent of each type, the last commands and their predicted effect | `set...`, `makeCommand`, `checkCommandCount`, `reset` | a command is predicted if and only if the server executed it | `DecisionLoop` (counts and types, not the effects' numbers) |
| `WorldModel` update times | `M_time`, `M_sense_body_time`, `M_see_time` | `update`, `updateAfterSenseBody`, `updateAfterSee`, `updateJustBeforeDecision` | internal update once per game time | `DecisionLoop` |
| `GameMode`, referee (`util/game_mode.cpp`, `pa` 1703) | mode, side, score, clock flag; cards, training | `update`, `parse`, `updateServerStatus`, `updateGameMode` | agent, world model and clock flag agree with the referee; score follows | `Shootout` (not score and cards); start of a set play in `SetPlay` |
| `PenaltyKickState`, `Bhv_PenaltyKick`, `is_reverse_side` | kicking side, counts of kicks, kicker, goal | `update`, `isKickTaker` | all players agree on the kicker and the goal; the goalie defends the other team's kicks | `Shootout`, `KickOrder` |
| Audio codec (`common/audio_codec.cpp`) | none | encode, decode of numbers | what is read is the nearest code to what was said | `AudioCodec` |
| Say messages (`player/say_message_builder`, `common/say_message_parser`, `src/HITSZer/src/sample_communication.cpp`) | messages of this decision | add under a length limit, build, walk of the parsers | builder and parser agree on length, fields, order and scale; nothing that was added is crowded out | `SayMessage` |
| `AudioMemory` | what teammates said, with its time | set, time of each kind | a message is used once, in its step | `SetPlay` (the wait request) |
| Set plays of ours (`WorldModel::updateGameMode`, `src/HITSZer/src/bhv_set_play*.cpp`, `bhv_goalie_free_kick.cpp`) | start of the set play, count of decisions since it or a wait request | `execute`, `doKick`, `doMove` | taken before the drop ball, not before a wait request is heeded | `SetPlay` |
| World model objects, sensors | positions with confidence counts | parse, match, forget | counts age by one per cycle | not modelled; numeric |
| Localization, interception, geometry, formations, neural nets | floating point | | | not modelled |
| Stamina model, player types | stamina, effort, recovery, capacity | `simulateDash`, `simulateWait` | bounds | not modelled |
| Coach, trainer | global world model, substitutions, player types | own select loop, `change_player_type` | limits of substitutions | not modelled |
| gz streams | buffers around zlib | `overflow`, `underflow`, `sync` | no byte lost or doubled | not modelled |
| Logs, parameters, logger, sockets | | I/O | | not modelled |
| Action chain search (`src/HITSZer/src/chain_action`) | best chain of this cycle | depth-first and best-first search | best value found | not modelled |
| Strategy, roles, behaviours | role of each player | role assignment and exchange | a permutation | only set plays, above |

Hard behaviours, with their lines, are listed under `hazards` in `PROJECT.json`. The main ones:
the order of hear, sense_body, see and timeout in a step; a standing clock; lost messages and
commands; a countdown at zero; a play mode that changes in the middle of a measurement;
commands whose fate is known only from totals; a server that goes away; counts of decisions set
against counts of cycles, when a step passes without a decision or a teammate asks to wait; two
ends of a message format that are two classes written by hand.

## 2. Plan

The order is by how much of the rest depends on a part and how hard it is to test.

1. `SeeState`, `SeeSynch` (done): when the next see comes.
2. `DecisionLoop` (done): when to decide and what to predict.
3. `Shootout` (done): the referee's modes as several players follow them, through play and the
   penalty shootout. Left of this part: scores, cards and sent-off players, and the end of the
   game together with the decision loop.
4. `KickOrder` (done): the abstract specification of the penalty kicks, one shared turn, which
   the counts of `Shootout`'s players implement.
5. `AudioCodec`, `SayMessage` (done): what is said and what is heard.
6. `SetPlay` (done): our set plays against the drop ball, with teammates that ask to wait.
7. Theorems (done): of every system type correctness where a property rests on it; all safety
   properties of `SeeSynch`, of `DecisionLoop` in asynchronous mode, of `Shootout`, `SetPlay` and
   `SayMessage`; the refinement of `KickOrder`.

Not done, in the order in which it would add most: an abstract `StepProtocol` (each step is
decided once, its effect applied once) above `DecisionLoop`; the filter stream's buffers and
the compression handshake; the stamina model in scaled integers; the coach's loop and
substitutions; the action chain search over an abstract graph.

`Shootout` composes the referee, the network and the state of several players, each made of
`GameMode`, the world model's mode and `PenaltyKickState`, and is mapped onto `KickOrder`.
`SeeSynch` composes the server's timer with an agent that holds a `SeeState`. `SayMessage`
composes the speaker, the say command and the hearer over `AudioCodec`. `DecisionLoop` and
`SetPlay` each hold an agent and the server. The systems meet where one takes the other's
result as any value: the see state's expectation in `DecisionLoop`, a decision in each step in
`SetPlay` (with some missed), the wait request heard in `SetPlay` (said and heard in
`SayMessage`).

All modules take their parameters as CONSTANTS with named assumptions, have one action per
operation, and use no RECURSIVE operator where something is proved.

## 3. Modules

### SeeState: `player/see_state.{h,cpp}`

The object is a record; each method is an operator from record to record, with the guards and
the order of the code. Times are only compared for equality by the code, so the argument
`current` becomes the flag "this is a new time". The eight names of `SeeState::Timing` that the
code never assigns are left out; `TIME_22_5` is the offset 25ms. `CountDown`, `CyclesOf`,
`IllegalWidth` and `GetNextTiming` are parts of a method that have a name of their own because
a property depends on them.

### SeeSynch: one agent against the server's see timer

Units of 12.5ms; a cycle is 8 units; the see timer fires every 3 units (37.5ms), so that both
realign every 24 units, the range of `t`. A player with view mode (w, q) gets every
`VisInterval`-th shot. In synch_see mode there is one shot per cycle at `SynchSeeOffset` and a
see in each, every second or every third one. `Tick` is the server's time step; `SetPlayMode`,
`LoseMessage` and `AcceptSynchSee` are its other actions and the network's. The agent's actions
are `AnalyzeHearReferee`, `AnalyzeSenseBody`, `AnalyzeSee` (with the asynchronous adjustment at
its end), `AnalyzeOK`, `Decide` (by see or by timeout) and `Think`; `Action` is what `action()`
does to the view: the check of the expected see, the synchronous adjustment, the view action
and `doChangeView`, the prediction, and the sending.

Time of the agent: `current_time_` matters only by comparison with the server's cycle, with the
stopped count 0, and with `see_state_`'s time, so it is the record `clock` of these three
answers. An agent decides at the latest in unit 6 or 7 of the cycle (wait thresholds 75ms and
79ms), and `Tick` waits for it.

### DecisionLoop: messages, times, decisions, commands, predictions

The server executes steps, tells the totals of accepted commands in each sense_body, announces
a change of the clock before the sense_body of the step, sends zero or one see and, in
synchronous mode, `(think)`. It accepts the first body command and the first turn_neck of a
step. The agent parses messages (`Analyze...`, `ReceiveThink`), ends a drain of the socket
(`EndOfMessages`, which decides on a think or a current see), or gets a `Timeout` (which
detects a silent server, then asks `isDecisionTiming`). `Act` is `action()` with `makeCommand`:
predict if nothing has yet in this time, forget the last commands, choose any command, count
and send it.

Correspondence: `current`, `lastDecision`, `stopped`, `think` are the members of
`PlayerAgent::Impl`; `worldTime`, `senseTime`, `seeTime` those of `WorldModel`; `count`,
`lastBody`, `doneNeck` those of `ActionEffector`; `alive` is `BasicClient`'s. `waited` counts
timeouts since the last message (`timeout_count` and `waited_msec`), `overdue` says whether the
wait threshold since the last sense_body is known to be over (once over it stays so). The see
state's expectation, the subject of `SeeSynch`, is any Boolean. `agentStep`, `acts`, `applied`
and `log` are history variables: which step the last parsed message belongs to, how often the
agent has acted since then, what the last internal update predicted, and what each step really
executed.

Left out: the content of see and hear messages, the numeric effects of commands,
kick/dash/tackle as separate types (a constant set stands for them), fullstate, the coach's and
trainer's messages, change_view (in `SeeSynch`) and say.

### Shootout: the players of one team and the referee

No message names the kicker of a penalty kick. Each player counts the setup messages it hears,
computes the kicker from its count ("from 11 to 1"), takes its role from that and from the side
it believes is kicking, and turns its coordinates round if it is the kicker or the defending
goalie and the goal in use lies on the other half.

The referee (external) announces modes: ordinary play with fouls, free kicks and a goalie's
catch (followed by its free kick in the same cycle), then the shootout: the goal and a setup in
one cycle, ready, taken, a result (after a foul or not), the other team's setup, and so on; the
match may end between kicks. A goalie catches a ball in play, while the clock runs (a guard of
`PlayMode`), so that the game time of its catch and free kick is the cycle alone. It announces
a mode only when the last one has been heard, as a mode lasts many cycles; each player hears in
its own time, and may lose a message (`Lose`). Messages that are no play mode come at any time.

A player's two actions are the two ways through `analyzeHearReferee`. `AnalyzeHearMode` is a
known mode: `GameMode::update` (`Updated`), the clock flag, then either bye or
`WorldModel::updateGameMode`, which tells `PenaltyKickState::update` (`UpdatePenalty`).
`AnalyzeHearOther` is a card, a training message or a string the parser does not know, which it
takes for play_on, but only in `game_mode_`, which nothing but the handling of the next
announcement reads: the see adjustment and the behaviours go by the world model's mode.
`gameMode`, `stopped` and `alive` are the members of the agent, `world` and `penalty` those of
the world model. The member `M_current_taker_side` has no initial value, so `Init` allows any.
`Role` and `ReverseSide` are what a player does with its state; they change nothing.

Left out: scores and cards (no property here reads them; a card never reaches
`PenaltyKickState`), the start time of a set play (in `SetPlay`), the fullstate world model.

### KickOrder: the penalty kicks as one turn

What the rotation "from 11 to 1" (`ChangeLog:830`) promises: a turn that goes down and round,
whose player steps up once, alone, before the next kick is set up. There is no such turn in the
code. `Shootout` maps its state onto it: `Turn` is what the referee's count of kicks makes of
it, `Taken` says that the player whose turn it is has counted the kick, `Kickers` are those
whose `Role` is to kick; `KicksInOrder` is `KickOrder`'s specification of the three.

### AudioCodec, SayMessage, MCSayMessage: what is said and what is heard

`AudioCodec` is the arithmetic. A builder's field is a record (`Enc`): range that the builder
refuses to leave, bounds it clamps to, offset, scale, highest index, radix; a parser's field
(`Dec`) its offset, scale and radix. `Index` clamps, scales and rounds as `rint` does; `Encode`
packs the indices into one mixed-radix integer and writes it in base 74, `Decode` undoes it.
The code packs into 64 bits, TLC's integers have 32: the integer is kept as its digits, and
multiplied and divided as on paper. Positions are integers of mm, angles of tenths of a degree.

`SayMessage` lists builders (`say_message_builder.cpp`) and parsers (`say_message_parser.cpp`),
each translated from its own class. The actions follow one decision: `Behave` (a behaviour adds
a message), `Communicate` (`SampleCommunication::execute` adds `Recovery`, `BallAndPlayers`,
`Stamina` within the room left), `MakeSayCommand` (the builders append, refusing what they
refuse), `ParseOne` (one turn of `AudioSensor::parseTeammateMessage`; a parser that refuses a
number ends the walk, `Legal`), `NextDecision`. The players that `GoalieAndPlayer` and
`Intercept` name are those of the world model, 1 to 22 (`SamplesAssumption`): of another number
the first builder only complains, and the second's parser gives up.
`MCSayMessage` holds the samples for TLC.

### SetPlay: a set play of ours

The referee (external) announces a set play, in the cycle of a stoppage or in play, drops the
ball `dropBallTime` cycles later, and may be told by its human to give a free kick again.
`UpdateGameMode` is the part of `WorldModel::updateGameMode` that starts a set play, `CountNow`
that of `updateJustBeforeDecision` that counts decisions and starts over when `AudioMemory`
holds a wait request of this step. `Tick` is a step of the server: the command arrives or is
lost, the set play ends or goes on, a teammate may ask to wait. `KickerDecides` is a decision,
by `FreeKick`, `KickIn`, `GoalKick`, `IndirectFreeKick` or `GoalieFreeKick`, each the order of
the conditions in its behaviour with what the kicker sees as any `Inputs`; `PlayerDecides` is
one in play. The static variables of `Bhv_GoalieFreeKick` are `flags`: they outlive a catch
that ended without a kick, and `Init` starts with them clear or stale. `quiet` is a history
variable.

Left out: kick-offs, the other team's set plays, the way to the ball (it takes up to `ArriveBy`
cycles), a lost message of the referee (in `Shootout`), who the kicker is.

## 4. Runs

| Run | Question | Result |
|---|---|---|
| `think` | Offset and prediction in synchronous mode, with two play mode changes | holds |
| `play` | After play, set plays and a lost see, does an agent left in stopped play synchronize for good? | holds |
| `recover` | The synch_see handshake at any time or never: undisturbed, is a synchronized agent's offset right and its prediction of the next see exact? With a lost see, a lost change_view and a change of the clock: is the prediction right again for ever, and with only the see lost, does the agent never decide before a see that still comes? | holds |
| `loop` | Messages up to two timeouts apart, the clock stops and runs, one command, see or hear lost: one decision in each step, none missed, predictions exact? | holds |
| `synch` | Synchronous mode, a sense_body lost, the clock stops: each `(think)` answered once, the server's end noticed? | holds |
| `rotation` | Two players, three kicks of each team, one message lost that is not a setup: one kicker, a defending goalie, the referee's goal, the referee's mode, the right clock flag; do the players' counts implement the one turn of `KickOrder`? | holds |
| `said` | Every message that the library can say without a known error of scale, alone and with what is added to it: is nothing crowded out, and is what is heard what was said? | holds |
| `setplay` | Any requests to wait, anything the kicker sees, steps gone wrong: is every set play of ours taken before the drop ball, and no request forgotten? | holds |
| `false_synch` | Comment "last see timing is TIME_0_00" (`player/see_state.cpp:327`) when the play mode changes while the agent adjusts | violated |
| `think_stuck` | Comment "try adjustment. view mode is changed to (Narrow, Low)" (`pa` 2608) in synchronous mode | violated |
| `missed` | Comment "true if turn_neck is performed in previous cycle" (`player/action_effector.h:400`) when a decision is missed | violated |
| `setup_lost` | Comments "their kick phase" (`src/HITSZer/src/bhv_penalty_kick.cpp:84`, 101, 118) when the goalie loses a setup | violated |

The four violated runs are the findings in `PROJECT.json`. `false_synch`: two widths in one
counting window give the counts 3 and 2 at an offset of 37.5ms or more; the agent believes 0ms.
`think_stuck`: from (narrow, high) the synchronous adjustment changes nothing, because it needs
both the width and the quality to differ where its asynchronous twin needs one. `missed`: what
a decision stored stays stored until the next decision, and is predicted again if a step passes
without one. `setup_lost`: the side that kicks is taken over from penalty_setup only, though
ready and taken name it too; a goalie that lost the setup takes the other team's kick for its
own until the next one.

### Bounds and why they are enough

* `SeeSynch` needs no bound on time: `t`, the counts and the countdown are finite, and all 24
  phases are initial states. `MaxCount` 4 is above the 3 sees a cycle can hold.
  `MaxModeChanges` 2 gives play - stop - play and its reverse; one change is enough for the
  clock's stop in `recover`, where it may come at any point. One loss is allowed: it shifts
  every count window once.
* `DecisionLoop` has at most 3 steps (2 in `synch`): a decision depends on the current and the
  last step, a missed one shows in the next, and the stop and restart of the clock take three.
  `MaxDelay` 2 is the largest number of timeouts between two messages of a step for which the
  code's `timeout_count <= 2` suffices; with 3 `OneDecisionPerStep` fails. `ServerWait` 4 keeps
  the order of the thresholds (2 timeouts before 4). One body type and `TURN0`, the dummy turn,
  are enough to tell a stored command from one that is not.
* `Shootout` has 2 players, the least with a kicker and a goalie who is not always the same, so
  that three kicks of a team make the turn wrap round (2, 1, 2). Three modes of ordinary play
  are enough for a catch, its free kick, play_on lost and another free kick of the same side.
  `Losable` in `rotation` excludes a setup (the finding of `setup_lost`: a player that loses
  one counts wrong for the rest of the shootout, and nothing in the messages could correct it),
  the goal, announced once, and the end of the match.
* `SayMessage` has no bound but its samples: eight numbers of each kind, outside, on and next
  to the bounds of the fields and next to points where rounding changes. A message is tried
  with all its fields low, middle and high and, alone, with every sample of every field on each
  of these; that all numbers do as well is a theorem. `BehaviourTypes` are the messages that
  behaviours of the team add.
* `SetPlay`: in `dropBallTime` 57 the goalie's 50 cycles, the steps after them and a late
  request fit (the theorem takes 56 and more); the other kicks' conditions read only the
  distance to its end. Play lasts to cycle 1 at most and the set play from there to the drop
  (`MaxCycle` 61, so with `AgainBy` 2 a free kick given again is dropped as well). The kicker
  is at the ball after 3 cycles (`ArriveBy`); three steps may go wrong (`MaxLost`), which is
  tight: with a fourth a kick-in is lost. `MaxBlind` 1 is the decision without a see between
  two with one. The caps `MaxCount` 31, `MaxWait` 5 and `MaxQuiet` 7 are the least numbers that
  no behaviour or property tells from larger ones. Two stoppage steps (`MaxStopped`) are one
  for the announcement and one to decide in.
* What the passing runs assume of the environment: the agent is fast enough to decide before
  the next step (`Slow` FALSE, dropped in `missed`) and commands reach their step (`Late`
  FALSE; `OneDecision` below does without). A loss of the referee's message that stops the
  clock, or of a sense_body while it stands, leaves the asynchronous agent without a decision;
  nothing in the code could tell it. These are hazards with a note.

### Fairness

`SeeSynch`: time passes (`Tick`), the select loop handles what has arrived (`Agent`), and a
server that was asked for synch_see answers (`AcceptSynchSee`). `DecisionLoop`: the select loop
runs (`select` returns after 10ms at the latest, so `Timeout` or a message always comes), and
what the server sends and what the agent sent arrives while the server is up. Steps, losses and
the server's end get no fairness.

`Shootout`, `SayMessage` and `SetPlay` have no liveness property and no fairness.

Deadlock is checked for `SeeSynch` and `SayMessage`. `Shootout` stops when the match is over,
`SetPlay` at `MaxCycle` and `DecisionLoop` at `MaxStep` and after the server's end, so their
configurations say `CHECK_DEADLOCK FALSE`.

## 5. Proofs

`SeeSynch_proofs`, `TypeCorrect`: `Spec => []TypeOK` for all constants. Each operator of
`SeeState` has a lemma (it maps see states to see states), each action one step.

`SeeSynch_proofs`, `Synchronized`: `Spec => []SynchInv` for all constants. None of the three
properties below is inductive: whether a countdown is right depends on the sees and the cycles
the agent has counted, on what is still on the wire, and on why it took a pattern of sees for a
timing. The inductive invariant `SynchInv` says

* `Ordered`, `WireInv`: the wire holds each message once, in the order the server sends them
  (the referee's anywhere), and at which phase each can be there; the server's answer to
  synch_see is on its way exactly while server and agent differ about the mode;
* and of a `Regular` agent, one that has lost no command and either
  nothing else, or, deciding without think messages in one play mode, no sense_body:
  * `ClockInv`, `ViewInv`, `DecidedInv`: it is behind the server's clock only while sense_body
    is on its way, its view is the server's, and when in the cycle it may have decided;
  * `CountInv`, `PrepareInv`: it has counted no more sees than the timer had shots, in this cycle
    and the three before, and with the narrow low view that it takes to synchronize exactly as
    many; therefore the counts 3 and 2 are found at the first shot only;
  * `TrackInv`: the last see came at the offset of its timing (or, after losses, at one of
    several: `Good`), and `CountdownInv`: the countdown and the cycles counted since
    the last see are together the interval of the view. When the countdown is over and no see
    was counted, the see is due in this cycle or is one of those that were lost.

Every action has a lemma with its facts (`...Facts`) and one that says it keeps each part
(`...Preserves`). TLC checked `SynchInv` first. From it follow

* `NoSeeIsMissed`: `[]NoSeeMissed` if no sense_body is lost, with any loss of sees. A lost
  sense_body is a cycle the agent cannot count: TLC has a counterexample with one.
* `TimingStaysTrue`: `[]TimingIsTrue` for an agent that decides on think messages or that play_on
  does not interrupt. The run `false_synch` is what happens otherwise.
* `PredictionStaysTrue`: `[]PredictionIsTrue` under the same condition, if in synchronous mode
  with synch_see the see is sent no later than the think message (`SynchSeeOffset <= 4`). With a
  later offset the agent decides before the see of the cycle, and TLC finds a wrong countdown.

`DecisionLoop_proofs`, `TypeCorrect`: `Spec => []TypeOK`, from lemmas on queues (`ShortSeq`,
`TailType`) and one lemma per group of actions.

`DecisionLoop_proofs`, `OneDecision`: under `Asynchronous` (no synch_mode, no step before the
agent had its time, at most two timeouts between messages, no loss of sense_body or of the
referee's messages; anything else may be lost and commands may be late), `Spec =>
[]OneDecisionPerStep`, for any number of steps and losses. `acts <= 1` is not inductive: it
depends on why the agent cannot decide again. The inductive invariant `IInv` says

* `WireInv`: the wire holds the rest of the messages of the present step, each once and in the
  order hear (player), hear (referee), sense_body, see; what is heard comes with a sense_body
  behind it;
* `ClockInv`: the agent's clock flag is the server's, except while the news is in the wire;
* while the sense_body is in the wire (`BeforeSense`): the agent has decided at its current
  time or has no see of it, and if it ever got a sense_body it has decided since, so only a
  third timeout could make it decide, and that needs an empty wire;
* after it (`AfterSense`): the current time is the sense_body's, the same for the rest of the
  step, and a decision in the step was taken at this time.

`HeadTail` and `FirstOfWire` say what the first message of the wire implies for the rest;
`StepWire`, `StepInv`, `HearInv`, `SenseInv`, `SeeInv`, `DecisionInv`, `SendSeeInv` and
`LoseInv` take the actions one by one. TLC found `IInv` invariant on the constants of `loop`
and with losses and late commands before it was proved.

`DecisionLoopExact_proofs`, `StepsAreDecided`: under `Asynchronous`, `Spec =>
[]EveryStepDecided`. An agent acts only if the time of its sense_body differs from that of its
last decision. `TimesInv` says why it does, though a clock that stops and runs again comes back
to a cycle that it had: before the sense_body the world model's time is that of the last
decision, of an earlier cycle or of the cycle in which the clock stood, with a smaller count of
steps; after it, it is the current time, and the last decision's if and only if the agent has
acted. `WaitInv` adds that the third timeout after the sense_body does not pass without a
decision.

`DecisionLoopExact_proofs`, `PredictionIsRight`: under `Asynchronous` and `~Late` (a command
reaches its step or is lost), `Spec => []PredictionIsExact`. The agent compares its counts with
the totals of the sense_body. `CommandsInv` says that they are the server's, but for the
command on its way (`OnItsWay`) or lost (`Told`): what is stored was executed if the counts
agree, and was not if they differ.

`Shootout_proofs`, `TypeCorrect` and `ClockFlagAgrees`: `Spec => []TypeOK` and `Spec =>
[]ClockFlagIsTheWorlds` for any team size, losses and strings. The flag needs no more than the
types: the one action that changes it sets it from the mode it hands to the world model, or
ends.

`Shootout_proofs`, `KickersAgree` and `GoalieInPlace`: under `NoSetupLost` (a setup is not
among the messages that may get lost) `Spec => []OneKicker` and `Spec => []GoalieDefends`.
Neither is inductive: two players agree because each agrees with the referee, up to what it has
not heard yet. The inductive invariant `IInv` says of each player

* `Coherent`: the messages on their way to it announce the mode in force, and of a kick at most
  one setup, with the goal only before it;
* `Follows`: the setups it has counted and the one on its way make up the referee's count;
  until the setup of its team's kick arrives it holds the other side for the kicking one, so
  that it cannot take a kick by its old count; its kicker is the one its count says;

and `KicksInv` that no kick is set up before the shootout. `HeardOne`, `HeardTwo`,
`TailCoherent` and `AppendCoherent` say what an inbox holds after an announcement and a step,
`HearFollows` that `PenaltyKickState::update` keeps up and `SkipFollows` that other messages do
no harm.

`Shootout_proofs`, `CountsImplementTurn`: under `NoSetupLost`, `Spec => KicksInOrder`, the
refinement. `IInv` gives that only the player whose turn it is can be at the ball (`OnlyTurn`)
and that a new setup comes when all have heard the last; each action of `Shootout` is then one
of `KickOrder` or leaves its variables alone. That the rotation's remainder counts down and
round rests on `NatTheorems` (quotient and remainder exist and are unique).

`Shootout_proofs`, `ModeIsKnown`: `Spec => []WorldKnowsMode`, whatever is lost. `NewsInv`
says of a player that lost nothing of the last announcement that it knows the mode and has none
to hear (`Knows`), has one to hear (`OneToHear`), knows the catch whose free kick is to come
(`CatchHeard`), or has both modes of an announcement to hear (`TwoToHear`); `Timely`, that a
catch of this cycle is the catch in force, so that the rule for a free kick in the cycle of a
catch never takes another one for it.

`Shootout_proofs`, `GoalIsKnown`: if neither setups nor the goal are lost, `Spec =>
[]GoalIsTheReferees`: whoever steps up as the kicker attacks, and the goalie in its goal
defends, the goal the referee chose, also while others, or it itself, have still to hear of
what is announced. `GoalInv` (a player holds the goal or hears of it next, before any kick; the
kicker it holds is of the side whose kick it knows of) with `IInv`, from which the sides of
kicker and goalie follow.

`SetPlay_proofs`, `TypeCorrect` and `RequestsHeeded`: `Spec => []TypeOK` and `Spec =>
RequestIsHeeded` for all constants. `QuietInv`: the count of decisions never runs ahead of the
steps since a request.

`SetPlay_proofs`, `KicksAreTaken`: under `InTime` (at most three steps go wrong, the kicker is
at the ball ten cycles before the drop) `Spec => []TakenInTime`. `WindowInv`: in the last
cycles of a free kick or a kick-in each cycle that passed is a step gone wrong, or the one turn
to the ball. `IndirectKicksAreTaken` under `IndirectInTime`, `CatchesAreKicked` under
`CatchInTime` (a `dropBallTime` in which the goalie's 50 cycles fit, no two decisions in a row
without a see) with `IndirectInv` and `CatchInv`. The latter measures how far the goalie is
after its second move (`Progress`, which nothing sets back) against the decisions since a
request or since the time from which only a late one makes it pause (`LastCall`): if the count
is past 8 it has come to the kick.

`NatTheorems` holds quotients and remainders and what the other modules need of induction. The
library's induction theorems take the predicate as an operator, which the provers cannot
instantiate; here the predicate is a set (`UpTo`, `DownTo`, from `LeastNat`: every set of numbers
has a least element), and a function that is defined by recursion exists and has its type
(`Recursion`, `RecursionType`, and downwards). A recursive definition of the model is brought
under them by its own equation.

`AudioCodec_proofs`, `FieldSurvives`: an encoder and a decoder of one scale (`Reads`) keep every
number to half a step, or to a step at an upper end that is cut off; from `RintNearest`.
`ChunkSurvives`: if the product of the fields' radices is at most 74 to the number of characters,
the codec never refuses, and dividing the digits by the same radices gives back every index, the
last field first. The argument never leaves the digits: `DivideMulAdd` (dividing undoes
multiplying and adding, digit by digit with its carry), `EncodeAccepts` (the leading digit stays
below 74), `DecodeEncode`.

`SayMessage_proofs`, `FieldsSurvive`: each builder's field and its parser's are such a pair; the
two speeds of `BallGoalie` (two scales), `DefenseLine` and `Dribble` are left out.
`MessagesUnderstood`: for each type that is said and all numbers, builder and parser agree on the
length, the order of the chunks and every field (`Understood`): the product of the radices of
each of its chunks is computed and fits its characters, the closest being `OnePlayer` with 402,864
of 405,224 numbers.

`SayTypeOK`, `NoMessageIsCrowdedOut` and `WhatIsHeardWasSaid`: `Spec => []TypeOK`, `Spec =>
[]NothingIsCrowdedOut` and `Spec => []HeardIsSaid`, for whatever numbers are said and whichever
messages behaviours add, from two assumptions: a behaviour adds neither `DefenseLine` nor
`Dribble` (`BehavioursAssumption`), and there is a number to say in each field, of one of the
22 players where a builder does not refuse others (`SamplesAssumption`). The inductive
invariant `SayInv` says that

* what SampleCommunication and the behaviour have added is together no longer than the say
  command (`CommunicationsFit`, over everything that it may have seen), from which
  `MadeIsSent` follows: `makeSayCommand`'s own check of the room never refuses anything;
* `Walked`: what has been heard is the beginning of what was accepted, type by type and number
  by number, and the rest of the string is, character by character, the messages after it
  (`Written`, with the place at which each began). `WalkOn`: as no two types have one header
  (`HeadersDiffer`), the parser that reads is the next message's and leaves the string at the
  beginning of the one after it. `WalkStops`: where none can read, nothing is left.

That the parser of the next message takes it rests on `LegalAsSaid`: the number of a player that
is read of an `Intercept` message is exactly the one that was said.

Neither property is inductive without the sums of the lengths and the places in the string.

Only model-checked: synchronous mode of `DecisionLoop`. Liveness (`StoppedPlaySynchronizes`,
`PredictionRecovers`, `ThinkIsAnswered`, `ServerDownNoticed`) is out of the prover's reach and
stays with TLC, as do the four violated runs. `ServerDownNoticed` is checked in `synch` only,
where no timeout decides; with the steps and delays of `loop` its check takes too long. There
the server may stop at any point as well, and `OneDecisionPerStep` says that its agent does not
decide again for a server that is gone.

## 6. Not modelled

See the components with `not_modelled` in `PROJECT.json`. Most of the 205,000 lines compute
with floating point and keep no state between two cycles: localization, interception,
dribbling, geometry (with a vendored triangulation program of 20,000 lines), formations, neural
nets, the evaluation of single behaviours; others are tables of parameters, text formats
(sensors, game logs) and start-up I/O. They have no interleaving, and what they compute is out
of TLC's reach. Within reach but not done are the parts named at the end of section 2.

In the modelled parts there is left out:

* messages out of order, a reconnect, start-up and the (init) handshake, the offline replay of
  a log, what a player does after the end of the game;
* scores and cards; a player that is sent off;
* kick-offs and the other team's set plays, a lost message of the referee in `SetPlay`;
* of the messages: freeform and keepaway ones, whom a player attends to, how players worth
  saying are ranked (any ranking is tried), and three that no code in use says or that are
  known to be misread: `DefenseLine` (its parser adds 52 where the builder has added it),
  `Dribble` and the mark message. `BallGoalie` is said and heard but for the ball's speed,
  which its builder scales by another maximum than its parser.
