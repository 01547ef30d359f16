----------------------------- MODULE DecisionLoop -----------------------------
(***************************************************************************)
(* The agent's loop: receive messages, keep the game time, decide once per *)
(* simulation step, send commands, and predict from the commands what the  *)
(* server will have done to the player when the next step is over.         *)
(*                                                                         *)
(*   BasicClient::runOnline       Parse, Timeout                          *)
(*   PlayerAgent::handleMessage   Parse, Analyze..., EndOfMessages        *)
(*   PlayerAgent::handleTimeout   Timeout                                  *)
(*   PlayerAgent::action          Act                                      *)
(*   ActionEffector               count, lastBody, doneNeck                *)
(*   WorldModel, SelfObject       worldTime, senseTime, seeTime, applied   *)
(*                                                                         *)
(* The server is external: in each simulation step it executes the first   *)
(* body command and the first turn_neck it received since the last step,   *)
(* tells the counts of commands in sense_body, and may change the play     *)
(* mode, which it announces before the sense_body.  Messages and commands  *)
(* stay in order; some get lost, commands may be late for their step.      *)
(*                                                                         *)
(* Real time is abstracted: whether the wait threshold since the last      *)
(* sense_body is over, and whether SeeState expects a see in this cycle    *)
(* (module SeeSynch), are choices of each timeout.                         *)
(***************************************************************************)
EXTENDS Integers, Sequences

CONSTANTS
    SynchMode,      \* server::synch_mode: decisions are triggered by (think)
    BodyTypes,      \* types of body commands the agent uses
    PlayModes,      \* play modes the referee uses
    MaxStep,        \* bound on simulation steps
    Losable,        \* message types that may get lost, and "command"
    MaxLoss,        \* bound on lost messages and commands
    Late,           \* commands may reach the server after their step
    Slow,           \* the server may step before the agent has decided
    MaxDelay,       \* timeouts that pass while messages are on their way
    ServerWait      \* server_wait_seconds, in timeouts

MessageType == {"sense_body", "see", "hear_referee", "hear_player", "think"}

ASSUME ConstantsAssumption ==
    /\ SynchMode \in BOOLEAN /\ Late \in BOOLEAN /\ Slow \in BOOLEAN
    /\ BodyTypes # {} /\ "ILLEGAL" \notin BodyTypes /\ "TURN_NECK" \notin BodyTypes
    /\ PlayModes # {} /\ PlayModes \subseteq {"PlayOn", "BeforeKickOff"}
    /\ Losable \subseteq MessageType \cup {"command"}
    /\ MaxStep \in Nat /\ MaxLoss \in Nat /\ MaxDelay \in Nat
    /\ ServerWait \in Nat /\ ServerWait > 3

VARIABLES
    step,         \* server: simulation steps so far
    cycle,        \* server: the clock
    srvMode,      \* server: play mode
    srvUp,        \* server: running
    sent,         \* server: sees and thinks sent since the last step
    srvCount,     \* server: commands accepted so far, by type
    doing,        \* server: what the next step will execute
    log,          \* server: log[k] is what step k executed
    wire,         \* messages on their way to the agent
    cmds,         \* commands on their way to the server
    lost,         \* messages and commands lost so far
    pc,           \* agent: in select() or draining the socket
    current,      \* agent: current_time_
    lastDecision, \* agent: last_decision_time_
    stopped,      \* agent: server_cycle_stopped_
    think,        \* agent: think_received_
    waited,       \* agent: timeouts since the last message
    overdue,      \* agent: the wait threshold since the last sense_body is over
    alive,        \* agent: M_server_alive
    worldTime, senseTime, seeTime,  \* world model: M_time, M_sense_body_time, M_see_time
    count,        \* effector: M_command_counter
    lastBody,     \* effector: M_last_body_command_type
    doneNeck,     \* effector: M_done_turn_neck
    agentStep,    \* history: step of the last message the agent parsed
    acts,         \* history: decisions taken in step agentStep
    applied       \* history: the last update of the world model

server  == <<step, cycle, srvMode, srvUp, sent, srvCount, doing, log>>
net     == <<wire, cmds, lost>>
timing  == <<pc, think, waited, overdue, alive>>
times   == <<current, lastDecision, stopped>>
world   == <<worldTime, senseTime, seeTime, applied>>
effects == <<count, lastBody, doneNeck>>
history == <<agentStep, acts>>
vars    == <<server, net, timing, times, world, effects, history>>

\* "TURN0" is the dummy (turn 0) sent when there is nothing to do.
Body        == BodyTypes \cup {"TURN0", "ILLEGAL"}
CommandType == BodyTypes \cup {"TURN", "TURN_NECK"}
Command     == [body : Body, neck : BOOLEAN]
Effect      == [body : BodyTypes \cup {"ILLEGAL"}, neck : BOOLEAN]
GameTime    == [cycle : -1..MaxStep, stopped : Nat]
Message     == [type : MessageType, step : 0..MaxStep, cycle : 0..MaxStep,
                mode : PlayModes, count : [CommandType -> Nat]]

Time(c, s) == [cycle |-> c, stopped |-> s]
Nothing    == [body |-> "ILLEGAL", neck |-> FALSE]

Prediction == [step : 0..MaxStep, prev : 0..MaxStep, effect : Effect]

ServerTypeOK ==
    /\ step \in 0..MaxStep /\ cycle \in 0..step
    /\ srvMode \in PlayModes /\ srvUp \in BOOLEAN
    /\ sent \subseteq {"see", "think"}
    /\ srvCount \in [CommandType -> Nat]
    /\ doing \in Command /\ log \in Seq(Command) /\ Len(log) = step

NetTypeOK == wire \in Seq(Message) /\ cmds \in Seq(Command) /\ lost \in 0..MaxLoss

LoopTypeOK ==
    /\ pc \in {"select", "drain"} /\ think \in BOOLEAN /\ overdue \in {"none", "no", "yes"}
    /\ waited \in 0..(ServerWait + 1) /\ alive \in BOOLEAN

WorldTypeOK ==
    /\ {current, lastDecision, worldTime, senseTime, seeTime} \subseteq GameTime
    /\ stopped \in BOOLEAN
    /\ count \in [CommandType -> Nat]
    /\ lastBody \in BodyTypes \cup {"ILLEGAL"} /\ doneNeck \in BOOLEAN
    /\ agentStep \in 0..MaxStep /\ acts \in Nat
    /\ applied \in Prediction

TypeOK == ServerTypeOK /\ NetTypeOK /\ LoopTypeOK /\ WorldTypeOK

ClockStands(m) == m = "BeforeKickOff"

Init ==
    /\ step = 0 /\ cycle = 0 /\ srvMode \in PlayModes /\ srvUp = TRUE /\ sent = {"see", "think"}
    /\ srvCount = [c \in CommandType |-> 0] /\ doing = Nothing /\ log = <<>>
    /\ wire = <<>> /\ cmds = <<>> /\ lost = 0
    /\ pc = "select" /\ think = FALSE /\ waited = 0 /\ overdue = "none" /\ alive = TRUE
    /\ current = Time(0, 0) /\ lastDecision = Time(-1, 0)
    /\ stopped = ClockStands(srvMode)          \* known from the init message
    /\ worldTime = Time(-1, 0) /\ senseTime = Time(-1, 0) /\ seeTime = Time(-1, 0)
    /\ count = [c \in CommandType |-> 0] /\ lastBody = "ILLEGAL" /\ doneNeck = FALSE
    /\ agentStep = 0 /\ acts = 0
    /\ applied = [step |-> 0, prev |-> 0, effect |-> Nothing]

-----------------------------------------------------------------------------
(* The server and the network (external).                                  *)

Msg(type, k, c, m) == [type |-> type, step |-> k, cycle |-> c, mode |-> m, count |-> srvCount]

\* The agent has read everything, and decided if any message of the step arrived.
AgentInTime ==
    /\ wire = <<>>
    /\ agentStep = step => acts > 0 \/ (~SynchMode /\ overdue = "none" /\ pc = "select")

Step ==
    /\ srvUp /\ step < MaxStep /\ sent = {"see", "think"}
    /\ step = 0 \/ Slow \/ AgentInTime
    /\ Late \/ cmds = <<>>
    /\ step' = step + 1
    /\ cycle' = IF ClockStands(srvMode) THEN cycle ELSE cycle + 1
    /\ log' = Append(log, doing)
    /\ doing' = Nothing
    /\ sent' = IF SynchMode THEN {} ELSE {"think"}
    /\ srvMode' \in PlayModes
    /\ \E heard \in {<<>>, <<Msg("hear_player", step', cycle', srvMode)>>} :
         wire' = wire \o heard
                   \o (IF srvMode' = srvMode THEN <<>>
                       ELSE <<Msg("hear_referee", step', cycle', srvMode')>>)
                   \o <<Msg("sense_body", step', cycle', srvMode')>>
    /\ UNCHANGED <<srvUp, srvCount, cmds, lost, timing, times, world, effects, history>>

\* Not every cycle has a see.
SendSee ==
    /\ srvUp /\ "see" \notin sent
    /\ sent' = sent \cup {"see"}
    /\ wire' \in {wire, Append(wire, Msg("see", step, cycle, srvMode))}
    /\ UNCHANGED <<step, cycle, srvMode, srvUp, srvCount, doing, log, cmds, lost,
                   timing, times, world, effects, history>>

SendThink ==
    /\ srvUp /\ "see" \in sent /\ "think" \notin sent
    /\ sent' = sent \cup {"think"}
    /\ wire' = Append(wire, Msg("think", step, cycle, srvMode))
    /\ UNCHANGED <<step, cycle, srvMode, srvUp, srvCount, doing, log, cmds, lost,
                   timing, times, world, effects, history>>

\* Only the first body command and the first turn_neck of a step count.
ReceiveCommand ==
    /\ srvUp /\ cmds # <<>>
    /\ cmds' = Tail(cmds)
    /\ LET c == cmds[1]
           body == doing.body = "ILLEGAL" /\ c.body # "ILLEGAL"
           neck == ~doing.neck /\ c.neck
           counted == (IF body THEN {IF c.body = "TURN0" THEN "TURN" ELSE c.body} ELSE {})
                        \cup (IF neck THEN {"TURN_NECK"} ELSE {})
       IN  /\ doing' = [body |-> IF body THEN c.body ELSE doing.body, neck |-> doing.neck \/ neck]
           /\ srvCount' = [k \in CommandType |-> srvCount[k] + (IF k \in counted THEN 1 ELSE 0)]
    /\ UNCHANGED <<step, cycle, srvMode, srvUp, sent, log, wire, lost,
                   timing, times, world, effects, history>>

Lose ==
    /\ lost < MaxLoss
    /\ lost' = lost + 1
    /\ \/ /\ wire # <<>> /\ wire[1].type \in Losable
          /\ wire' = Tail(wire) /\ UNCHANGED cmds
       \/ /\ cmds # <<>> /\ "command" \in Losable
          /\ cmds' = Tail(cmds) /\ UNCHANGED wire
    /\ UNCHANGED <<server, timing, times, world, effects, history>>

ServerStop ==
    /\ srvUp
    /\ srvUp' = FALSE
    /\ UNCHANGED <<step, cycle, srvMode, sent, srvCount, doing, log, net, timing, times,
                   world, effects, history>>

-----------------------------------------------------------------------------
(* The decision.                                                           *)

\* WorldModel::update, at most once per game time, predicts from the stored
\* effects of the commands.  It runs with the first message of a cycle that
\* reaches the world model, or else just before the decision.
WorldUpdate(body, neck) ==
    /\ worldTime' = current'
    /\ applied' = IF worldTime = current' THEN applied
                  ELSE [step |-> agentStep', prev |-> applied.step,
                        effect |-> [body |-> body, neck |-> neck]]

\* Mutant: the dummy turn is stored as the body command.
LastBody_Dummy(b) == b

\* reset() forgets the last commands; the dummy is not stored as a body command.
LastBody(b) == IF b \in BodyTypes THEN b ELSE "ILLEGAL"

\* action(): predict if nothing has yet, forget the last commands (reset), choose,
\* send and count new ones (makeCommand).  isFrozen tells whether a player without a
\* body command sends the dummy.
Act ==
    /\ UNCHANGED <<server, wire, lost, current, stopped, senseTime, seeTime, agentStep>>
    /\ WorldUpdate(lastBody, doneNeck)
    /\ \E b \in Body, n \in BOOLEAN :
         LET counted == (IF b = "TURN0" THEN {"TURN"} ELSE {b}) \cup (IF n THEN {"TURN_NECK"} ELSE {})
         IN  /\ lastBody' = LastBody(b)
             /\ doneNeck' = n
             /\ count' = [k \in CommandType |-> count[k] + (IF k \in counted THEN 1 ELSE 0)]
             /\ cmds' = Append(cmds, [body |-> b, neck |-> n])
    /\ lastDecision' = current
    /\ acts' = acts + 1

-----------------------------------------------------------------------------
(* Messages.                                                               *)

\* Mutant: a sense_body does not count the steps while the clock stands.
NewTime_NoCount(c, bySenseBody) == IF stopped /\ c = current.cycle THEN current ELSE Time(c, 0)

\* updateCurrentTime
NewTime(c, bySenseBody) ==
    CASE ~stopped \/ c # current.cycle -> Time(c, 0)
      [] stopped /\ c = current.cycle ->
           IF bySenseBody THEN Time(c, current.stopped + 1) ELSE current

\* Receive a message of this type, the first one because select() returned, the next
\* ones until the socket is empty; every message but (think) tells the time.
Parse(type) ==
    /\ alive /\ wire # <<>>
    /\ wire[1].type = type
    /\ wire' = Tail(wire)
    /\ pc' = "drain" /\ waited' = 0
    /\ current' = IF type = "think" THEN current ELSE NewTime(wire[1].cycle, type = "sense_body")
    /\ agentStep' = wire[1].step
    /\ acts' = IF wire[1].step = agentStep THEN acts ELSE 0
    /\ UNCHANGED <<server, cmds, lost, alive, lastDecision>>

AnalyzeHearPlayer ==
    /\ Parse("hear_player")
    /\ UNCHANGED <<stopped, think, overdue, world, effects>>

\* The clock flag is set after the message's time is taken.
AnalyzeHearReferee ==
    /\ Parse("hear_referee")
    /\ stopped' = ClockStands(wire[1].mode)
    /\ UNCHANGED <<think, overdue, world, effects>>

\* Mutant: only the counters are corrected.
CheckCommandCount_CountOnly(sensed) == count' = sensed /\ UNCHANGED <<lastBody, doneNeck>>

\* checkCommandCount: a count that differs from the server's voids the prediction.
CheckCommandCount(sensed) ==
    /\ lastBody' = IF \E k \in CommandType \ {"TURN_NECK"} : sensed[k] # count[k]
                   THEN "ILLEGAL" ELSE lastBody
    /\ doneNeck' = (doneNeck /\ sensed["TURN_NECK"] = count["TURN_NECK"])
    /\ count' = sensed

AnalyzeSenseBody ==
    /\ Parse("sense_body")
    /\ overdue' = "no"
    /\ CheckCommandCount(wire[1].count)
    /\ IF senseTime = current'
       THEN UNCHANGED <<senseTime, worldTime, applied>>
       ELSE senseTime' = current' /\ WorldUpdate(lastBody', doneNeck')
    /\ UNCHANGED <<stopped, think, seeTime>>

AnalyzeSee ==
    /\ Parse("see")
    /\ IF seeTime = current'
       THEN UNCHANGED <<seeTime, worldTime, applied>>
       ELSE seeTime' = current' /\ WorldUpdate(lastBody, doneNeck)
    /\ UNCHANGED <<stopped, think, overdue, senseTime, effects>>

ReceiveThink ==
    /\ Parse("think")
    /\ think' = TRUE
    /\ UNCHANGED <<stopped, overdue, world, effects>>

\* Mutant: a (think) is ignored in a time that had its decision.
DecidesNow_OncePerTime == lastDecision # current /\ (think \/ (~SynchMode /\ seeTime = current))

DecidesNow == \/ think
              \/ ~SynchMode /\ lastDecision # current /\ seeTime = current

\* Mutant: think_received_ stays set.
EndOfMessages_KeepThink ==
    /\ pc = "drain"
    /\ wire = <<>> \/ MaxDelay > 0
    /\ pc' = "select"
    /\ IF DecidesNow THEN Act
       ELSE UNCHANGED <<server, net, times, world, effects, history>>
    /\ UNCHANGED <<think, waited, overdue, alive>>

\* The socket is empty (the rest has not arrived yet): decide on a (think), or on a
\* see of the current time.
EndOfMessages ==
    /\ pc = "drain"
    /\ wire = <<>> \/ MaxDelay > 0
    /\ pc' = "select"
    /\ think' = FALSE
    /\ IF DecidesNow THEN Act
       ELSE UNCHANGED <<server, net, times, world, effects, history>>
    /\ UNCHANGED <<waited, overdue, alive>>

\* Mutant: the current time may have had its decision.
IsDecisionTiming_Again(n, over, noSee) ==
    /\ ~SynchMode
    /\ overdue # "none"
    /\ \/ seeTime = current
       \/ (lastDecision = senseTime => n > 2) /\ (noSee \/ over)

\* isDecisionTiming; over: the wait threshold is over, noSee: the see state expects no
\* see in this cycle.
IsDecisionTiming(n, over, noSee) ==
    /\ ~SynchMode
    /\ overdue # "none"
    /\ lastDecision # current
    /\ \/ seeTime = current
       \/ /\ lastDecision = senseTime => n > 2
          /\ noSee \/ over

\* Mutant: the silence is looked at only when there is something to decide.
Timeout_DecisionFirst ==
    /\ alive /\ pc = "select"
    /\ wire = <<>> \/ waited < MaxDelay
    /\ waited < ServerWait \/ ~srvUp
    /\ waited' = IF waited > ServerWait THEN waited ELSE waited + 1
    /\ \E over \in IF overdue = "yes" THEN {TRUE} ELSE BOOLEAN, noSee \in BOOLEAN :
         /\ overdue' = IF overdue # "none" /\ over THEN "yes" ELSE overdue
         /\ alive' = (IsDecisionTiming(waited', over, noSee) => waited' <= ServerWait)
         /\ IF alive' /\ IsDecisionTiming(waited', over, noSee)
            THEN Act
            ELSE UNCHANGED <<server, net, times, world, effects, history>>
    /\ UNCHANGED <<pc, think>>

\* select() times out; a live server is never silent for ServerWait.
Timeout ==
    /\ alive /\ pc = "select"
    /\ wire = <<>> \/ waited < MaxDelay
    /\ waited < ServerWait \/ ~srvUp
    /\ waited' = IF waited > ServerWait THEN waited ELSE waited + 1
    /\ \E over \in IF overdue = "yes" THEN {TRUE} ELSE BOOLEAN, noSee \in BOOLEAN :
         /\ overdue' = IF overdue # "none" /\ over THEN "yes" ELSE overdue
         /\ alive' = (waited' <= ServerWait)
         /\ IF alive' /\ IsDecisionTiming(waited', over, noSee)
            THEN Act
            ELSE UNCHANGED <<server, net, times, world, effects, history>>
    /\ UNCHANGED <<pc, think>>

-----------------------------------------------------------------------------
Agent  == \/ AnalyzeHearPlayer \/ AnalyzeHearReferee \/ AnalyzeSenseBody
          \/ AnalyzeSee \/ ReceiveThink \/ EndOfMessages \/ Timeout
Server == Step \/ SendSee \/ SendThink \/ ReceiveCommand \/ Lose \/ ServerStop
Next   == Agent \/ Server

\* The select loop runs; while the server is up, what was sent arrives.
Fairness == WF_vars(Agent) /\ WF_vars(SendSee) /\ WF_vars(SendThink) /\ WF_vars(ReceiveCommand)

Spec == Init /\ [][Next]_vars /\ Fairness

-----------------------------------------------------------------------------
(* Properties.                                                             *)

\* The agent acts at most once in a simulation step.
OneDecisionPerStep == acts <= 1

\* What the agent predicts of a step is what the server executed in it: every
\* command is applied once, and a lost one not at all.
PredictionIsExact ==
    LET done == log[applied.step]
    IN  applied.step > 0 =>
          /\ applied.prev < applied.step
          /\ applied.step = applied.prev + 1
               => applied.effect = [body |-> LastBody(done.body), neck |-> done.neck]

\* "true if turn_neck is performed in previous cycle" (action_effector.h:400): a
\* turn_neck is predicted only of the step that executed one.
TurnNeckIsOfPreviousCycle ==
    applied.effect.neck /\ applied.step = applied.prev + 1 => log[applied.step].neck

\* An agent that waits with nothing more to come has decided in the last step it
\* heard of.
EveryStepDecided ==
    alive /\ ~SynchMode /\ pc = "select" /\ wire = <<>> /\ waited >= 3 /\ overdue = "yes"
        => acts > 0

\* The agent answers every (think): the server, which waits for (done), goes on.
ThinkIsAnswered ==
    SynchMode /\ step > 0 /\ "think" \in sent ~> ~srvUp \/ (agentStep = step /\ acts > 0)

\* An agent notices that its server is gone.
ServerDownNoticed == ~srvUp ~> ~alive
=============================================================================
