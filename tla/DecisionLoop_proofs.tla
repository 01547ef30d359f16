-------------------------- MODULE DecisionLoop_proofs --------------------------
(***************************************************************************)
(* Proofs about the agent's loop, for every value of the constants of      *)
(* DecisionLoop: it is type correct, and in asynchronous mode, as long as  *)
(* the clock runs, it decides at most once per step whatever is lost,      *)
(* late or missed.                                                         *)
(***************************************************************************)
EXTENDS DecisionLoop, SequenceTheorems, TLAPS

-----------------------------------------------------------------------------
(* Type correctness.                                                       *)

\* The server's messages are messages.
LEMMA MsgType ==
    ASSUME NEW type \in MessageType, NEW k \in 0..MaxStep, NEW c \in 0..MaxStep,
           NEW m \in PlayModes, srvCount \in [CommandType -> Nat]
    PROVE  Msg(type, k, c, m) \in Message
BY DEF Msg, Message

\* Short sequences over a set.
LEMMA ShortSeq ==
    ASSUME NEW S, NEW m \in S
    PROVE  <<>> \in Seq(S) /\ <<m>> \in Seq(S)
OBVIOUS

\* What is left of a queue is a queue.
LEMMA TailType ==
    ASSUME NEW S, NEW q \in Seq(S), q # <<>>
    PROVE  q[1] \in S /\ Tail(q) \in Seq(S)
OBVIOUS

\* The initial state has its types.
LEMMA InitType == Init => TypeOK
<1> SUFFICES ASSUME Init PROVE TypeOK
  OBVIOUS
<1> USE ConstantsAssumption DEF Init
<1>1. Nothing \in Command /\ Nothing \in Effect
  BY DEF Nothing, Command, Effect, Body
<1>2. ServerTypeOK
  BY <1>1 DEF ServerTypeOK
<1>3. NetTypeOK
  BY DEF NetTypeOK
<1>4. Time(0, 0) \in GameTime /\ Time(-1, 0) \in GameTime
  BY DEF Time, GameTime
<1>5. applied \in Prediction
  BY <1>1 DEF Prediction
<1>6. stopped \in BOOLEAN
  BY DEF ClockStands
<1>7. {current, lastDecision, worldTime, senseTime, seeTime} \subseteq GameTime
  BY <1>4
<1>8. count \in [CommandType -> Nat]
  OBVIOUS
<1>9. waited \in 0..(ServerWait + 1) /\ agentStep \in 0..MaxStep /\ acts \in Nat
  OBVIOUS
<1>10. think \in BOOLEAN /\ alive \in BOOLEAN /\ doneNeck \in BOOLEAN
  BY Zenon
<1>11. /\ pc \in {"select", "drain"} /\ overdue \in {"none", "no", "yes"}
       /\ lastBody \in BodyTypes \cup {"ILLEGAL"}
  BY Zenon
<1> HIDE DEF Init
<1>12. LoopTypeOK /\ WorldTypeOK
  BY <1>5, <1>6, <1>7, <1>8, <1>9, <1>10, <1>11, Zenon DEF LoopTypeOK, WorldTypeOK
<1> QED BY <1>2, <1>3, <1>12 DEF TypeOK

\* The server's steps keep the types.
LEMMA ServerType == TypeOK /\ Server => TypeOK'
<1> SUFFICES ASSUME TypeOK, Server PROVE TypeOK'
  OBVIOUS
<1> USE ConstantsAssumption
<1> USE DEF timing, times, world, effects, history
<1>1. ServerTypeOK /\ NetTypeOK /\ LoopTypeOK /\ WorldTypeOK
  BY DEF TypeOK
<1>2. CASE Step
  <2> USE <1>2 DEF Step
  <2>1. LoopTypeOK' /\ WorldTypeOK'
    BY <1>1 DEF LoopTypeOK, WorldTypeOK
  <2>2. step' \in 0..MaxStep /\ cycle' \in 0..step' /\ cycle' \in 0..MaxStep
    BY <1>1 DEF ServerTypeOK
  <2>3. log' \in Seq(Command) /\ Len(log') = step'
    BY <1>1 DEF ServerTypeOK
  <2>4. ServerTypeOK'
    <3>1. Nothing \in Command
      BY DEF Nothing, Command, Body
    <3> QED BY <1>1, <2>2, <2>3, <3>1 DEF ServerTypeOK
  <2>5. wire' \in Seq(Message)
    <3>1. /\ Msg("hear_player", step', cycle', srvMode) \in Message
          /\ Msg("hear_referee", step', cycle', srvMode') \in Message
          /\ Msg("sense_body", step', cycle', srvMode') \in Message
      BY <1>1, <2>2, MsgType DEF ServerTypeOK, MessageType
    <3> HIDE DEF Step
    <3>2. PICK heard \in {<<>>, <<Msg("hear_player", step', cycle', srvMode)>>} :
            wire' = wire \o heard
                   \o (IF srvMode' = srvMode THEN <<>>
                       ELSE <<Msg("hear_referee", step', cycle', srvMode')>>)
                   \o <<Msg("sense_body", step', cycle', srvMode')>>
      BY DEF Step
    <3>3. wire \in Seq(Message)
      BY <1>1 DEF NetTypeOK
    <3>4. /\ heard \in Seq(Message)
          /\ (IF srvMode' = srvMode THEN <<>>
              ELSE <<Msg("hear_referee", step', cycle', srvMode')>>) \in Seq(Message)
          /\ <<Msg("sense_body", step', cycle', srvMode')>> \in Seq(Message)
      BY <3>1, <3>2, ShortSeq
    <3> QED BY <3>2, <3>3, <3>4, ConcatProperties
  <2> QED BY <1>1, <2>1, <2>4, <2>5 DEF TypeOK, NetTypeOK
<1>3. CASE SendSee \/ SendThink
  <2>1. LoopTypeOK' /\ WorldTypeOK'
    BY <1>1, <1>3 DEF LoopTypeOK, WorldTypeOK, SendSee, SendThink
  <2>2. ServerTypeOK'
    BY <1>1, <1>3 DEF ServerTypeOK, SendSee, SendThink
  <2>3. step \in 0..MaxStep /\ cycle \in 0..MaxStep
    BY <1>1, ConstantsAssumption DEF ServerTypeOK
  <2>4. /\ Msg("see", step, cycle, srvMode) \in Message
        /\ Msg("think", step, cycle, srvMode) \in Message
    BY <1>1, <2>3, MsgType DEF ServerTypeOK, MessageType
  <2>5. wire' \in Seq(Message)
    <3>1. wire' \in {wire, Append(wire, Msg("see", step, cycle, srvMode)),
                     Append(wire, Msg("think", step, cycle, srvMode))}
      BY <1>3 DEF SendSee, SendThink
    <3>2. wire \in Seq(Message)
      BY <1>1 DEF NetTypeOK
    <3>3. ASSUME NEW m \in Message PROVE Append(wire, m) \in Seq(Message)
      BY <3>2
    <3> QED BY <2>4, <3>1, <3>2, <3>3
  <2>6. NetTypeOK'
    BY <1>1, <1>3, <2>5 DEF NetTypeOK, SendSee, SendThink
  <2> QED BY <2>1, <2>2, <2>6 DEF TypeOK
<1>4. CASE ReceiveCommand
  <2> USE <1>4 DEF ReceiveCommand
  <2>1. LoopTypeOK' /\ WorldTypeOK'
    BY <1>1 DEF LoopTypeOK, WorldTypeOK
  <2>2. cmds[1] \in Command /\ cmds' \in Seq(Command)
    BY <1>1 DEF NetTypeOK
  <2>3. NetTypeOK'
    BY <1>1, <2>2 DEF NetTypeOK
  <2>4. doing' \in Command
    BY <1>1, <2>2 DEF ServerTypeOK, Command
  <2>5. srvCount' \in [CommandType -> Nat]
    BY <1>1 DEF ServerTypeOK
  <2>6. ServerTypeOK'
    BY <1>1, <2>4, <2>5 DEF ServerTypeOK
  <2> QED BY <2>1, <2>3, <2>6 DEF TypeOK
<1>5. CASE Lose
  <2> USE <1>5 DEF Lose
  <2>1. LoopTypeOK' /\ WorldTypeOK'
    BY <1>1 DEF LoopTypeOK, WorldTypeOK
  <2>2. ServerTypeOK'
    BY <1>1 DEF ServerTypeOK, server
  <2>3. wire' \in Seq(Message) /\ cmds' \in Seq(Command)
    <3>1. wire \in Seq(Message) /\ cmds \in Seq(Command)
      BY <1>1 DEF NetTypeOK
    <3> QED BY <3>1, TailType
  <2>4. lost' \in 0..MaxLoss
    BY <1>1 DEF NetTypeOK
  <2> QED BY <2>1, <2>2, <2>3, <2>4 DEF TypeOK, NetTypeOK
<1>6. CASE ServerStop
  <2>1. LoopTypeOK' /\ WorldTypeOK' /\ ServerTypeOK' /\ NetTypeOK'
    BY <1>1, <1>6 DEF ServerStop, LoopTypeOK, WorldTypeOK, ServerTypeOK, NetTypeOK, net
  <2> QED BY <2>1 DEF TypeOK
<1> QED BY <1>2, <1>3, <1>4, <1>5, <1>6 DEF Server

\* A decision keeps the types.
LEMMA ActType ==
    ASSUME TypeOK, Act
    PROVE  ServerTypeOK' /\ NetTypeOK' /\ WorldTypeOK'
<1>1. ServerTypeOK /\ NetTypeOK /\ LoopTypeOK /\ WorldTypeOK
  BY DEF TypeOK
<1>2. ServerTypeOK'
  BY <1>1 DEF Act, ServerTypeOK, server
<1>3. PICK b \in Body, n \in BOOLEAN :
        LET counted == (IF b = "TURN0" THEN {"TURN"} ELSE {b}) \cup (IF n THEN {"TURN_NECK"} ELSE {})
        IN  /\ lastBody' = LastBody(b)
            /\ doneNeck' = n
            /\ count' = [k \in CommandType |-> count[k] + (IF k \in counted THEN 1 ELSE 0)]
            /\ cmds' = Append(cmds, [body |-> b, neck |-> n])
  BY DEF Act
<1>4. [body |-> b, neck |-> n] \in Command
  BY DEF Command
<1>5. cmds' \in Seq(Command)
  BY <1>1, <1>3, <1>4 DEF NetTypeOK
<1>6. NetTypeOK'
  BY <1>1, <1>5 DEF NetTypeOK, Act
<1>7. count' \in [CommandType -> Nat] /\ lastBody' \in BodyTypes \cup {"ILLEGAL"}
  BY <1>1, <1>3 DEF WorldTypeOK, LastBody
<1>8. doneNeck' \in BOOLEAN
  BY <1>3
<1>9. /\ current' = current /\ stopped' = stopped /\ agentStep' = agentStep
      /\ senseTime' = senseTime /\ seeTime' = seeTime /\ lastDecision' = current
      /\ worldTime' = current /\ acts' = acts + 1
  BY DEF Act, WorldUpdate
<1>10. {current, lastDecision, worldTime, senseTime, seeTime}' \subseteq GameTime
  BY <1>1, <1>9 DEF WorldTypeOK
<1>11. applied' \in Prediction
  <2>1. [body |-> lastBody, neck |-> doneNeck] \in Effect
    BY <1>1 DEF Effect, WorldTypeOK
  <2> QED BY <1>1, <1>9, <2>1 DEF Act, WorldUpdate, Prediction, WorldTypeOK
<1>12. agentStep' \in 0..MaxStep /\ acts' \in Nat /\ stopped' \in BOOLEAN
  BY <1>1, <1>9 DEF WorldTypeOK
<1>13. WorldTypeOK'
  BY <1>7, <1>8, <1>10, <1>11, <1>12, Zenon DEF WorldTypeOK
<1> QED BY <1>2, <1>6, <1>13

\* Nothing but the loop's own variables changes without a decision.
LEMMA IdleType ==
    ASSUME TypeOK, UNCHANGED <<server, net, times, world, effects, history>>
    PROVE  ServerTypeOK' /\ NetTypeOK' /\ WorldTypeOK'
BY DEF TypeOK, ServerTypeOK, NetTypeOK, WorldTypeOK, server, net, times, world, effects, history

\* What receiving a message keeps.
LEMMA ParseType ==
    ASSUME TypeOK, NEW type, Parse(type)
    PROVE  /\ ServerTypeOK' /\ NetTypeOK'
           /\ wire[1] \in Message
           /\ current' \in GameTime /\ lastDecision' \in GameTime
           /\ pc' \in {"select", "drain"} /\ waited' \in 0..(ServerWait + 1)
           /\ alive' \in BOOLEAN /\ agentStep' \in 0..MaxStep /\ acts' \in Nat
<1>1. ServerTypeOK /\ NetTypeOK /\ LoopTypeOK /\ WorldTypeOK
  BY DEF TypeOK
<1>2. ServerTypeOK'
  BY <1>1 DEF Parse, ServerTypeOK, server
<1>3. wire[1] \in Message /\ wire' \in Seq(Message)
  BY <1>1, TailType DEF Parse, NetTypeOK
<1>4. NetTypeOK'
  BY <1>1, <1>3 DEF Parse, NetTypeOK
<1>5. /\ current \in GameTime /\ lastDecision \in GameTime /\ stopped \in BOOLEAN
      /\ agentStep \in 0..MaxStep /\ acts \in Nat /\ alive \in BOOLEAN
  BY <1>1 DEF WorldTypeOK, LoopTypeOK
<1>6. wire[1].cycle \in 0..MaxStep /\ wire[1].step \in 0..MaxStep
  BY <1>3 DEF Message
<1>7. ASSUME NEW c \in 0..MaxStep, NEW b \in BOOLEAN
      PROVE  NewTime(c, b) \in GameTime
  BY <1>5 DEF NewTime, Time, GameTime
<1>8. current' \in GameTime
  <2>1. (type = "sense_body") \in BOOLEAN
    OBVIOUS
  <2> QED BY <1>5, <1>6, <1>7, <2>1 DEF Parse
<1>9. /\ lastDecision' = lastDecision /\ alive' = alive /\ pc' = "drain" /\ waited' = 0
      /\ agentStep' = wire[1].step /\ acts' \in Nat
  BY <1>5 DEF Parse
<1> QED BY <1>2, <1>3, <1>4, <1>5, <1>6, <1>8, <1>9, ConstantsAssumption

\* The update of the world model keeps the types.
LEMMA WorldUpdateType ==
    ASSUME TypeOK, current' \in GameTime, agentStep' \in 0..MaxStep,
           lastBody' \in BodyTypes \cup {"ILLEGAL"}, doneNeck' \in BOOLEAN,
           \/ WorldUpdate(lastBody', doneNeck')
           \/ WorldUpdate(lastBody, doneNeck)
           \/ UNCHANGED <<worldTime, applied>>
    PROVE  worldTime' \in GameTime /\ applied' \in Prediction
<1>1. /\ [body |-> lastBody', neck |-> doneNeck'] \in Effect
      /\ [body |-> lastBody, neck |-> doneNeck] \in Effect
  BY DEF Effect, TypeOK, WorldTypeOK
<1>2. worldTime \in GameTime /\ applied \in Prediction
  BY DEF TypeOK, WorldTypeOK
<1> QED BY <1>1, <1>2 DEF WorldUpdate, Prediction

\* The agent's steps keep the types.
LEMMA AgentType == TypeOK /\ Agent => TypeOK'
<1> SUFFICES ASSUME TypeOK, Agent PROVE TypeOK'
  OBVIOUS
<1>1. ServerTypeOK /\ NetTypeOK /\ LoopTypeOK /\ WorldTypeOK
  BY DEF TypeOK
<1>2. CASE AnalyzeHearPlayer
  <2>1. Parse("hear_player")
    BY <1>2 DEF AnalyzeHearPlayer
  <2>2. UNCHANGED <<stopped, think, overdue, world, effects>>
    BY <1>2 DEF AnalyzeHearPlayer
  <2>3. LoopTypeOK' /\ WorldTypeOK'
    BY <1>1, <2>1, <2>2, ParseType DEF LoopTypeOK, WorldTypeOK, world, effects
  <2> QED BY <2>1, <2>3, ParseType DEF TypeOK
<1>3. CASE AnalyzeHearReferee
  <2>1. Parse("hear_referee")
    BY <1>3 DEF AnalyzeHearReferee
  <2>2. stopped' \in BOOLEAN /\ UNCHANGED <<think, overdue, world, effects>>
    BY <1>3 DEF AnalyzeHearReferee, ClockStands
  <2>3. LoopTypeOK' /\ WorldTypeOK'
    BY <1>1, <2>1, <2>2, ParseType DEF LoopTypeOK, WorldTypeOK, world, effects
  <2> QED BY <2>1, <2>3, ParseType DEF TypeOK
<1>4. CASE AnalyzeSenseBody
  <2>1. Parse("sense_body")
    BY <1>4 DEF AnalyzeSenseBody
  <2>2. CheckCommandCount(wire[1].count) /\ overdue' = "no" /\ UNCHANGED <<stopped, think, seeTime>>
    BY <1>4 DEF AnalyzeSenseBody
  <2>3. wire[1].count \in [CommandType -> Nat]
    BY <2>1, ParseType DEF Message
  <2>4. count' \in [CommandType -> Nat]
    BY <2>2, <2>3 DEF CheckCommandCount
  <2>5. lastBody' \in BodyTypes \cup {"ILLEGAL"}
    BY <1>1, <2>2 DEF CheckCommandCount, WorldTypeOK
  <2>6. doneNeck' \in BOOLEAN
    BY <1>1, <2>2, Zenon DEF CheckCommandCount, WorldTypeOK
  <2>7. /\ senseTime' \in GameTime
        /\ WorldUpdate(lastBody', doneNeck') \/ UNCHANGED <<worldTime, applied>>
    <3>1. senseTime \in GameTime /\ current' \in GameTime
      BY <1>1, <2>1, ParseType DEF WorldTypeOK
    <3> QED BY <1>4, <3>1 DEF AnalyzeSenseBody
  <2>8. worldTime' \in GameTime /\ applied' \in Prediction
    BY <2>1, <2>5, <2>6, <2>7, ParseType, WorldUpdateType
  <2>9. LoopTypeOK'
    BY <1>1, <2>1, <2>2, ParseType DEF LoopTypeOK
  <2>10. WorldTypeOK'
    BY <1>1, <2>1, <2>2, <2>4, <2>5, <2>6, <2>7, <2>8, ParseType DEF WorldTypeOK
  <2> QED BY <2>1, <2>9, <2>10, ParseType DEF TypeOK
<1>5. CASE AnalyzeSee
  <2>1. Parse("see")
    BY <1>5 DEF AnalyzeSee
  <2>2. UNCHANGED <<stopped, think, overdue, senseTime, effects>>
    BY <1>5 DEF AnalyzeSee
  <2>3. /\ seeTime' \in GameTime
        /\ WorldUpdate(lastBody, doneNeck) \/ UNCHANGED <<worldTime, applied>>
    <3>1. seeTime \in GameTime /\ current' \in GameTime
      BY <1>1, <2>1, ParseType DEF WorldTypeOK
    <3> QED BY <1>5, <3>1 DEF AnalyzeSee
  <2>4. /\ count' \in [CommandType -> Nat] /\ lastBody' \in BodyTypes \cup {"ILLEGAL"}
        /\ doneNeck' \in BOOLEAN /\ senseTime' \in GameTime /\ stopped' \in BOOLEAN
    BY <1>1, <2>2 DEF WorldTypeOK, effects
  <2>5. worldTime' \in GameTime /\ applied' \in Prediction
    BY <2>1, <2>3, <2>4, ParseType, WorldUpdateType
  <2>6. LoopTypeOK'
    BY <1>1, <2>1, <2>2, ParseType DEF LoopTypeOK
  <2>7. WorldTypeOK'
    BY <2>1, <2>3, <2>4, <2>5, ParseType DEF WorldTypeOK
  <2> QED BY <2>1, <2>6, <2>7, ParseType DEF TypeOK
<1>6. CASE ReceiveThink
  <2>1. Parse("think")
    BY <1>6 DEF ReceiveThink
  <2>2. think' = TRUE /\ UNCHANGED <<stopped, overdue, world, effects>>
    BY <1>6 DEF ReceiveThink
  <2>3. think' \in BOOLEAN
    BY <2>2
  <2>4. LoopTypeOK' /\ WorldTypeOK'
    BY <1>1, <2>1, <2>2, <2>3, ParseType DEF LoopTypeOK, WorldTypeOK, world, effects
  <2> QED BY <2>1, <2>4, ParseType DEF TypeOK
<1>7. CASE EndOfMessages
  <2>1. Act \/ UNCHANGED <<server, net, times, world, effects, history>>
    BY <1>7 DEF EndOfMessages
  <2>2. LoopTypeOK'
    BY <1>1, <1>7 DEF EndOfMessages, LoopTypeOK
  <2> QED BY <2>1, <2>2, ActType, IdleType DEF TypeOK
<1>8. CASE Timeout
  <2>1. Act \/ UNCHANGED <<server, net, times, world, effects, history>>
    BY <1>8 DEF Timeout
  <2>2. waited' \in 0..(ServerWait + 1)
    BY <1>1, <1>8, ConstantsAssumption DEF Timeout, LoopTypeOK
  <2>3. overdue' \in {"none", "no", "yes"} /\ pc' = pc /\ think' = think
    BY <1>1, <1>8 DEF Timeout, LoopTypeOK
  <2>4. alive' \in BOOLEAN
    BY <1>8 DEF Timeout
  <2>5. LoopTypeOK'
    BY <1>1, <2>2, <2>3, <2>4 DEF LoopTypeOK
  <2> QED BY <2>1, <2>5, ActType, IdleType DEF TypeOK
<1> QED BY <1>2, <1>3, <1>4, <1>5, <1>6, <1>7, <1>8 DEF Agent

\* DecisionLoop is type correct.
THEOREM TypeCorrect == Spec => []TypeOK
<1>1. TypeOK /\ [Next]_vars => TypeOK'
  <2>1. TypeOK /\ UNCHANGED vars => TypeOK'
    BY IdleType DEF vars, TypeOK, LoopTypeOK, timing
  <2> QED BY <2>1, ServerType, AgentType DEF Next
<1> QED BY <1>1, InitType, PTL DEF Spec
-----------------------------------------------------------------------------
(* One decision per step.                                                  *)

\* The asynchronous mode, on a network and a machine fast enough for the third timeout
\* to tell a missing sense_body from a late one; sees, what players say and commands
\* may get lost, and commands may be late.
Asynchronous ==
    /\ ~SynchMode /\ ~Slow /\ MaxDelay <= 2
    /\ Losable \cap {"sense_body", "hear_referee"} = {}

\* The order of the messages of one step.
Rank(type) == CASE type = "hear_player" -> 1
                [] type = "hear_referee" -> 2
                [] type = "sense_body" -> 3
                [] OTHER -> 4

Has(queue, type) == \E i \in 1..Len(queue) : queue[i].type = type
InWire(type) == Has(wire, type)

\* The wire holds the rest of this step's messages, in order and each at most once.
WireInv ==
    /\ \A i \in 1..Len(wire) : /\ wire[i].step = step /\ wire[i].cycle = cycle
                               /\ wire[i].type # "think"
                               /\ wire[i].type = "hear_referee" => wire[i].mode = srvMode
    /\ \A i, j \in 1..Len(wire) : i < j => Rank(wire[i].type) < Rank(wire[j].type)
    /\ InWire("hear_player") \/ InWire("hear_referee") => InWire("sense_body")
    /\ InWire("see") => "see" \in sent
    /\ "think" \in sent /\ ~think
    /\ step = 0 => wire = <<>> /\ "see" \in sent

\* The agent knows whether the clock runs, except while the news is on its way.
ClockInv == stopped <=> (ClockStands(srvMode) <=> ~InWire("hear_referee"))

\* Before the sense_body of a step nothing lets the agent decide: it has decided at
\* its current time, or has seen nothing at it and has decided since the last sense_body.
BeforeSense ==
    /\ overdue = "none" \/ (step > 0 /\ lastDecision = senseTime)
    /\ current = lastDecision \/ seeTime.cycle < current.cycle
    /\ wire = <<>> \/ wire[1].type # "sense_body"
         => IF stopped THEN current.cycle = cycle ELSE seeTime.cycle < cycle \/ step = 0
    /\ acts <= 1 /\ agentStep <= step /\ (step > 0 /\ agentStep = step => acts = 0)
    /\ step = 0 => current.cycle = cycle /\ acts = 0

\* From the sense_body on the current time stands still for the rest of the step.
AfterSense ==
    /\ overdue # "none"
    /\ senseTime = current /\ agentStep = step
    /\ current.cycle = cycle /\ (stopped \/ current.stopped = 0)
    /\ acts <= 1 /\ (acts > 0 => lastDecision = current)

IInv == /\ TypeOK /\ WireInv /\ ClockInv
        /\ seeTime.cycle <= cycle
        /\ IF step = 0 \/ InWire("sense_body") THEN BeforeSense ELSE AfterSense

\* What the four parts of the invariant look at; overdue only whether it is "none".
seen == <<step, cycle, srvMode, sent, wire, think, current, lastDecision, stopped,
          senseTime, seeTime, agentStep, acts>>

\* A step that leaves all that alone keeps the invariant.
LEMMA Frame ==
    ASSUME IInv, TypeOK', UNCHANGED seen, (overdue' = "none") = (overdue = "none")
    PROVE  IInv'
<1>1. WireInv' /\ ClockInv' /\ (seeTime.cycle <= cycle)'
  BY DEF IInv, WireInv, ClockInv, InWire, Has, seen
<1>2. BeforeSense => BeforeSense'
  BY DEF BeforeSense, seen
<1>3. AfterSense => AfterSense'
  BY DEF AfterSense, seen
<1>4. (step = 0 \/ InWire("sense_body"))' = (step = 0 \/ InWire("sense_body"))
  BY DEF InWire, Has, seen
<1> QED BY <1>1, <1>2, <1>3, <1>4 DEF IInv

\* The initial state satisfies the invariant.
LEMMA InitInv == ASSUME Asynchronous, Init PROVE IInv
<1>1. TypeOK
  BY InitType
<1>2. ~InWire("hear_player") /\ ~InWire("hear_referee") /\ ~InWire("sense_body") /\ ~InWire("see")
  BY DEF Init, InWire, Has
<1>3. WireInv
  BY <1>2 DEF Init, WireInv
<1>4. ClockInv
  <2>1. stopped <=> ClockStands(srvMode)
    BY Zenon DEF Init
  <2> QED BY <1>2, <2>1 DEF ClockInv
<1>5. seeTime.cycle = -1 /\ current.cycle = 0 /\ cycle = 0
  BY DEF Init, Time
<1>6. BeforeSense
  BY <1>5 DEF Init, BeforeSense
<1> QED BY <1>1, <1>3, <1>4, <1>5, <1>6 DEF IInv, Init

\* The server's mode and the message's differ in whether the clock stands.
LEMMA TwoModes ==
    ASSUME NEW m \in PlayModes, NEW n \in PlayModes, m # n
    PROVE  ClockStands(m) <=> ~ClockStands(n)
BY ConstantsAssumption DEF ClockStands

\* The messages of a new step in the empty wire.
LEMMA ConcatShort ==
    ASSUME NEW a, NEW b, NEW c
    PROVE  /\ <<>> \o <<>> \o <<>> \o <<c>> = <<c>>
           /\ <<>> \o <<a>> \o <<>> \o <<c>> = <<a, c>>
           /\ <<>> \o <<>> \o <<b>> \o <<c>> = <<b, c>>
           /\ <<>> \o <<a>> \o <<b>> \o <<c>> = <<a, b, c>>
<1>1. ASSUME NEW x PROVE <<>> \o <<>> = <<>> /\ <<>> \o <<x>> = <<x>> /\ <<x>> \o <<>> = <<x>>
  <2>1. x \in {x}
    OBVIOUS
  <2>2. <<>> \in Seq({x}) /\ <<x>> \in Seq({x})
    BY <2>1, ShortSeq
  <2>3. <<>> \o <<>> = <<>>
    BY <2>2, ConcatEmptySeq
  <2>4. <<x>> \o <<>> = <<x>> /\ <<>> \o <<x>> = <<x>>
    BY <2>2, ConcatEmptySeq
  <2> QED BY <2>3, <2>4
<1>2. ASSUME NEW x, NEW y PROVE <<x>> \o <<y>> = <<x, y>>
  <2> DEFINE S == {x, y}
  <2>1. <<x>> \in Seq(S) /\ <<y>> \in Seq(S) /\ <<x, y>> \in Seq(S)
    OBVIOUS
  <2>2. Len(<<x>>) = 1 /\ Len(<<y>>) = 1 /\ Len(<<x, y>>) = 2
    OBVIOUS
  <2> DEFINE t == <<x>> \o <<y>>
  <2> HIDE DEF S
  <2>3. t \in Seq(S) /\ Len(t) = 2 /\ t[1] = x /\ t[2] = y
    BY <2>1, <2>2, ConcatProperties
  <2>4. \A i \in 1..Len(t) : t[i] = <<x, y>>[i]
    BY <2>3
  <2> HIDE DEF t
  <2>5. t = <<x, y>>
    BY <2>1, <2>2, <2>3, <2>4, SeqEqual
  <2> QED BY <2>5 DEF t
<1>3. <<a, b>> \o <<c>> = <<a, b, c>>
  <2> DEFINE S == {a, b, c}
  <2>1. <<a, b>> \in Seq(S) /\ <<c>> \in Seq(S) /\ <<a, b, c>> \in Seq(S)
    OBVIOUS
  <2>2. Len(<<a, b>>) = 2 /\ Len(<<c>>) = 1 /\ Len(<<a, b, c>>) = 3
    OBVIOUS
  <2> DEFINE t == <<a, b>> \o <<c>>
  <2> HIDE DEF S
  <2>3. t \in Seq(S) /\ Len(t) = 3 /\ t[1] = a /\ t[2] = b /\ t[3] = c
    BY <2>1, <2>2, ConcatProperties
  <2>4. \A i \in 1..Len(t) : t[i] = <<a, b, c>>[i]
    BY <2>3
  <2> HIDE DEF t
  <2>5. t = <<a, b, c>>
    BY <2>1, <2>2, <2>3, <2>4, SeqEqual
  <2> QED BY <2>5 DEF t
<1> QED BY <1>1, <1>2, <1>3, Zenon

\* The types of the messages in a queue of at most three.
LEMMA HasShort ==
    ASSUME NEW x, NEW y, NEW z, NEW t
    PROVE  /\ Has(<<x>>, t) <=> x.type = t
           /\ Has(<<x, y>>, t) <=> x.type = t \/ y.type = t
           /\ Has(<<x, y, z>>, t) <=> x.type = t \/ y.type = t \/ z.type = t
<1>1. Has(<<x>>, t) <=> x.type = t
  BY DEF Has
<1>2. Has(<<x, y>>, t) <=> x.type = t \/ y.type = t
  <2>1. Len(<<x, y>>) = 2 /\ <<x, y>>[1] = x /\ <<x, y>>[2] = y
    OBVIOUS
  <2>2. 1..2 = {1, 2}
    OBVIOUS
  <2> QED BY <2>1, <2>2 DEF Has
<1>3. Has(<<x, y, z>>, t) <=> x.type = t \/ y.type = t \/ z.type = t
  <2>1. Len(<<x, y, z>>) = 3 /\ <<x, y, z>>[1] = x /\ <<x, y, z>>[2] = y /\ <<x, y, z>>[3] = z
    OBVIOUS
  <2>2. 1..3 = {1, 2, 3}
    OBVIOUS
  <2> QED BY <2>1, <2>2 DEF Has
<1> QED BY <1>1, <1>2, <1>3

\* The messages of a new step: a player's if there is one, the referee's if the mode changes,
\* the sense_body.
LEMMA StepWire ==
    ASSUME wire = <<>>, Step, NEW player, NEW referee, NEW sense,
           player = Msg("hear_player", step', cycle', srvMode),
           referee = Msg("hear_referee", step', cycle', srvMode'),
           sense = Msg("sense_body", step', cycle', srvMode')
    PROVE  IF srvMode' = srvMode
           THEN wire' \in {<<sense>>, <<player, sense>>}
           ELSE wire' \in {<<referee, sense>>, <<player, referee, sense>>}
<1>1. \E heard \in {<<>>, <<player>>} :
        wire' = wire \o heard \o (IF srvMode' = srvMode THEN <<>> ELSE <<referee>>) \o <<sense>>
  BY DEF Step
<1>2. CASE srvMode' = srvMode
  <2>1. wire' = <<>> \o <<>> \o <<>> \o <<sense>> \/ wire' = <<>> \o <<player>> \o <<>> \o <<sense>>
    BY <1>1, <1>2, Zenon
  <2> QED BY <1>2, <2>1, ConcatShort, Zenon
<1>3. CASE srvMode' # srvMode
  <2>1. \/ wire' = <<>> \o <<>> \o <<referee>> \o <<sense>>
        \/ wire' = <<>> \o <<player>> \o <<referee>> \o <<sense>>
    BY <1>1, <1>3, Zenon
  <2>2. <<>> \o <<>> \o <<referee>> \o <<sense>> = <<referee, sense>>
    BY ConcatShort
  <2>3. <<>> \o <<player>> \o <<referee>> \o <<sense>> = <<player, referee, sense>>
    BY ConcatShort
  <2>4. wire' = <<referee, sense>> \/ wire' = <<player, referee, sense>>
    BY <2>1, <2>2, <2>3, Zenon
  <2> QED BY <1>3, <2>4, Zenon
<1> QED BY <1>2, <1>3

\* A simulation step begins when everything of the last one is read and decided.
LEMMA StepInv == ASSUME Asynchronous, IInv, Step, TypeOK' PROVE IInv'
<1>1. /\ step \in Nat /\ step' = step + 1 /\ cycle \in Int
      /\ cycle' = IF ClockStands(srvMode) THEN cycle ELSE cycle + 1
      /\ seeTime.cycle \in Int /\ current.cycle \in Int /\ agentStep \in Int
  BY ConstantsAssumption DEF IInv, TypeOK, ServerTypeOK, WorldTypeOK, GameTime, Step
<1>2. UNCHANGED <<think, overdue, stopped, current, lastDecision, senseTime, seeTime, agentStep, acts>>
  BY DEF Step, timing, times, world, history
<1>3. wire = <<>>
  BY DEF IInv, WireInv, Step, AgentInTime, Asynchronous
<1>4. ~InWire("sense_body") /\ ~InWire("hear_referee")
  BY <1>3 DEF InWire, Has
<1>5. stopped <=> ClockStands(srvMode)
  BY <1>4, Zenon DEF IInv, ClockInv
<1> DEFINE player  == Msg("hear_player", step', cycle', srvMode)
           referee == Msg("hear_referee", step', cycle', srvMode')
           sense   == Msg("sense_body", step', cycle', srvMode')
<1>6. /\ player.type = "hear_player" /\ player.step = step' /\ player.cycle = cycle'
      /\ referee.type = "hear_referee" /\ referee.step = step' /\ referee.cycle = cycle'
      /\ referee.mode = srvMode'
      /\ sense.type = "sense_body" /\ sense.step = step' /\ sense.cycle = cycle'
  BY DEF Msg
<1>7. IF srvMode' = srvMode
      THEN wire' \in {<<sense>>, <<player, sense>>}
      ELSE wire' \in {<<referee, sense>>, <<player, referee, sense>>}
  <2>1. /\ player = Msg("hear_player", step', cycle', srvMode)
        /\ referee = Msg("hear_referee", step', cycle', srvMode')
        /\ sense = Msg("sense_body", step', cycle', srvMode')
    OBVIOUS
  <2> HIDE DEF player, referee, sense
  <2> QED BY <1>3, <2>1, StepWire
<1> HIDE DEF player, referee, sense
<1>8. InWire("sense_body")' /\ (InWire("hear_referee")' <=> srvMode' # srvMode) /\ ~InWire("see")'
  <2>1. CASE wire' = <<sense>> /\ srvMode' = srvMode
    BY <1>6, <2>1, HasShort DEF InWire
  <2>2. CASE wire' = <<player, sense>> /\ srvMode' = srvMode
    BY <1>6, <2>2, HasShort DEF InWire
  <2>3. CASE wire' = <<referee, sense>> /\ srvMode' # srvMode
    <3>1. Has(<<referee, sense>>, "sense_body") /\ Has(<<referee, sense>>, "hear_referee")
      BY <1>6, HasShort
    <3>2. ~Has(<<referee, sense>>, "see")
      BY <1>6, HasShort, ZenonT(40)
    <3> QED BY <2>3, <3>1, <3>2, Zenon DEF InWire
  <2>4. CASE wire' = <<player, referee, sense>> /\ srvMode' # srvMode
    <3>1. \A t : Has(<<player, referee, sense>>, t)
                   <=> player.type = t \/ referee.type = t \/ sense.type = t
      BY HasShort, Zenon
    <3>2. Has(wire', "sense_body")
      BY <1>6, <2>4, <3>1
    <3>3. Has(wire', "hear_referee")
      BY <1>6, <2>4, <3>1
    <3>4. ~Has(wire', "see")
      BY <1>6, <2>4, <3>1
    <3> QED BY <2>4, <3>2, <3>3, <3>4, Zenon DEF InWire
  <2> QED BY <1>7, <2>1, <2>2, <2>3, <2>4
<1>9. WireInv'
  <2>1. "think" \in sent' /\ ~think'
    BY <1>2 DEF IInv, WireInv, Step, Asynchronous
  <2>2. \A i \in 1..Len(wire') : /\ wire'[i].step = step' /\ wire'[i].cycle = cycle'
                                 /\ wire'[i].type # "think"
                                 /\ wire'[i].type = "hear_referee" => wire'[i].mode = srvMode'
    BY <1>6, <1>7
  <2>3. \A i, j \in 1..Len(wire') : i < j => Rank(wire'[i].type) < Rank(wire'[j].type)
    BY <1>6, <1>7 DEF Rank
  <2> QED BY <1>1, <1>8, <2>1, <2>2, <2>3 DEF WireInv
<1>10. ClockInv'
  <2>1. srvMode \in PlayModes /\ srvMode' \in PlayModes
    BY DEF IInv, TypeOK, ServerTypeOK, Step
  <2> QED BY <1>2, <1>5, <1>8, <2>1, TwoModes DEF ClockInv, ClockStands
<1>11. (seeTime.cycle <= cycle)'
  BY <1>1, <1>2 DEF IInv
<1>12. BeforeSense'
  <2>1. CASE step = 0
    BY <1>1, <1>2, <1>5, <1>8, <2>1 DEF IInv, BeforeSense
  <2>2. CASE step # 0
    <3>1. AfterSense
      BY <1>4, <2>2 DEF IInv
    <3>2. acts > 0
      BY <2>2, <3>1 DEF Step, Asynchronous, AgentInTime, AfterSense
    <3> QED BY <1>1, <1>2, <1>5, <2>2, <3>1, <3>2 DEF IInv, BeforeSense, AfterSense
  <2> QED BY <2>1, <2>2
<1> QED BY <1>8, <1>9, <1>10, <1>11, <1>12 DEF IInv

\* The first message of the wire: what it tells, and what is in the wire without it.
LEMMA HeadTail ==
    ASSUME TypeOK, WireInv, wire # <<>>, wire' = Tail(wire)
    PROVE  /\ wire[1].step = step /\ wire[1].cycle = cycle
           /\ wire[1].type \in {"hear_player", "hear_referee", "sense_body", "see"}
           /\ wire[1].type = "hear_referee" => wire[1].mode = srvMode
           /\ step # 0 /\ InWire(wire[1].type)
           /\ \A t : InWire(t)' => InWire(t)
           /\ \A t : InWire(t) /\ t # wire[1].type => InWire(t)'
           /\ \A t : InWire(t)' => Rank(wire[1].type) < Rank(t)
           /\ \A i \in 1..Len(wire') : /\ wire'[i].step = step /\ wire'[i].cycle = cycle
                                       /\ wire'[i].type # "think"
                                       /\ wire'[i].type = "hear_referee" => wire'[i].mode = srvMode
           /\ \A i, j \in 1..Len(wire') : i < j => Rank(wire'[i].type) < Rank(wire'[j].type)
<1>1. /\ wire \in Seq(Message) /\ Len(wire) \in Nat /\ Len(wire) > 0
      /\ Len(wire') = Len(wire) - 1
      /\ \A i \in 1..Len(wire') : wire'[i] = wire[i+1]
  <2>1. wire \in Seq(Message)
    BY DEF TypeOK, NetTypeOK
  <2> QED BY <2>1, HeadTailProperties, EmptySeq, LenProperties
<1>2. \A i \in 1..Len(wire') : i + 1 \in 1..Len(wire) /\ i + 1 # 1
  BY <1>1
<1>3. 1 \in 1..Len(wire)
  BY <1>1
<1>4. wire[1] \in Message
  BY <1>1, <1>3, ElementOfSeq
<1>5. wire[1].type \in MessageType
  BY <1>4 DEF Message
<1>6. /\ wire[1].step = step /\ wire[1].cycle = cycle /\ wire[1].type # "think"
      /\ wire[1].type = "hear_referee" => wire[1].mode = srvMode
  BY <1>3 DEF WireInv
<1>7. wire[1].type \in {"hear_player", "hear_referee", "sense_body", "see"}
  BY <1>5, <1>6 DEF MessageType
<1>8. step # 0 /\ InWire(wire[1].type)
  BY <1>3 DEF WireInv, InWire, Has
<1>9. \A t : InWire(t)' => InWire(t) /\ Rank(wire[1].type) < Rank(t)
  <2> SUFFICES ASSUME NEW t, InWire(t)' PROVE InWire(t) /\ Rank(wire[1].type) < Rank(t)
    OBVIOUS
  <2>1. PICK i \in 1..Len(wire') : wire'[i].type = t
    BY DEF InWire, Has
  <2>2. i + 1 \in 1..Len(wire) /\ 1 < i + 1 /\ wire[i+1].type = t
    BY <1>1, <1>2, <2>1
  <2>3. Rank(wire[1].type) < Rank(wire[i+1].type)
    BY <1>3, <2>2 DEF WireInv
  <2> QED BY <2>2, <2>3 DEF InWire, Has
<1>10. \A t : InWire(t) /\ t # wire[1].type => InWire(t)'
  <2> SUFFICES ASSUME NEW t, InWire(t), t # wire[1].type PROVE InWire(t)'
    OBVIOUS
  <2>1. PICK i \in 1..Len(wire) : wire[i].type = t
    BY DEF InWire, Has
  <2>2. i - 1 \in 1..Len(wire') /\ wire'[i-1] = wire[i]
    BY <1>1, <2>1
  <2> QED BY <2>1, <2>2 DEF InWire, Has
<1>11. \A i \in 1..Len(wire') : /\ wire'[i].step = step /\ wire'[i].cycle = cycle
                                /\ wire'[i].type # "think"
                                /\ wire'[i].type = "hear_referee" => wire'[i].mode = srvMode
  BY <1>1, <1>2 DEF WireInv
<1>12. \A i, j \in 1..Len(wire') : i < j => Rank(wire'[i].type) < Rank(wire'[j].type)
  <2> SUFFICES ASSUME NEW i \in 1..Len(wire'), NEW j \in 1..Len(wire'), i < j
               PROVE  Rank(wire'[i].type) < Rank(wire'[j].type)
    OBVIOUS
  <2>1. i + 1 < j + 1 /\ wire'[i] = wire[i+1] /\ wire'[j] = wire[j+1]
    BY <1>1
  <2> QED BY <1>2, <2>1 DEF WireInv
<1> QED BY <1>6, <1>7, <1>8, <1>9, <1>10, <1>11, <1>12

\* A queue without its first message is as good, whatever the agent does with it.
LEMMA TailWire ==
    ASSUME TypeOK, WireInv, wire # <<>>, wire' = Tail(wire),
           UNCHANGED <<step, cycle, srvMode, sent, think>>
    PROVE  WireInv'
<1>1. InWire("hear_player")' \/ InWire("hear_referee")' => InWire("sense_body")'
  <2>1. SUFFICES ASSUME InWire("hear_player")' \/ InWire("hear_referee")'
                 PROVE  InWire("sense_body")'
    OBVIOUS
  <2>2. InWire("sense_body")
    BY <2>1, HeadTail DEF WireInv
  <2>3. wire[1].type # "sense_body"
    BY <2>1, HeadTail DEF Rank
  <2> QED BY <2>2, <2>3, HeadTail
<1>2. InWire("see")' => "see" \in sent'
  BY HeadTail DEF WireInv
<1>3. "think" \in sent' /\ ~think' /\ step' # 0
  BY HeadTail DEF WireInv
<1> QED BY <1>1, <1>2, <1>3, HeadTail DEF WireInv

\* What is first in the wire decides whether the sense_body is still to come.
LEMMA FirstOfWire ==
    ASSUME TypeOK, WireInv, wire # <<>>, wire' = Tail(wire)
    PROVE  /\ wire[1].type = "see" => ~InWire("sense_body")
           /\ wire[1].type = "sense_body" => ~InWire("sense_body")' /\ ~InWire("hear_referee")
           /\ wire[1].type \in {"hear_player", "hear_referee"}
                => InWire("sense_body") /\ InWire("sense_body")' /\ wire' # <<>>
           /\ wire[1].type = "hear_referee" => wire'[1].type = "sense_body"
<1>1. InWire(wire[1].type)
  BY HeadTail
<1>2. wire[1].type = "see" => ~InWire("sense_body")
  <2>1. SUFFICES ASSUME wire[1].type = "see", InWire("sense_body") PROVE FALSE
    OBVIOUS
  <2>2. InWire("sense_body")'
    BY <2>1, HeadTail
  <2> QED BY <2>1, <2>2, HeadTail DEF Rank
<1>3. wire[1].type = "sense_body" => ~InWire("sense_body")' /\ ~InWire("hear_referee")
  <2>1. SUFFICES ASSUME wire[1].type = "sense_body", InWire("sense_body")' \/ InWire("hear_referee")
                 PROVE  FALSE
    OBVIOUS
  <2>2. InWire("sense_body")' \/ InWire("hear_referee")'
    BY <2>1, HeadTail
  <2> QED BY <2>1, <2>2, HeadTail DEF Rank
<1>4. ASSUME wire[1].type \in {"hear_player", "hear_referee"}
      PROVE  /\ InWire("sense_body") /\ InWire("sense_body")' /\ wire' # <<>>
             /\ wire[1].type = "hear_referee" => wire'[1].type = "sense_body"
  <2>1. InWire("sense_body")
    BY <1>1, <1>4 DEF WireInv
  <2>2. InWire("sense_body")'
    BY <1>4, <2>1, HeadTail
  <2>3. PICK i \in 1..Len(wire') : wire'[i].type = "sense_body"
    BY <2>2 DEF InWire, Has
  <2>4. Len(wire') \in Nat /\ 1 \in 1..Len(wire') /\ wire' # <<>>
    <3>1. wire' \in Seq(Message)
      BY HeadTailProperties DEF TypeOK, NetTypeOK
    <3>2. Len(wire') \in Nat /\ i \in Int /\ 1 <= i /\ i <= Len(wire')
      BY <2>3, <3>1, LenProperties
    <3>3. Len(<<>>) = 0
      OBVIOUS
    <3>4. \A n \in Nat, k \in Int : 1 <= k /\ k <= n => 1 \in 1..n /\ n # 0
      OBVIOUS
    <3>5. 1 \in 1..Len(wire') /\ Len(wire') # 0
      BY <3>2, <3>4, Zenon
    <3> QED BY <3>2, <3>3, <3>5, Zenon
  <2>5. wire[1].type = "hear_referee" => wire'[1].type = "sense_body"
    <3>1. SUFFICES ASSUME wire[1].type = "hear_referee", i # 1 PROVE FALSE
      BY <2>3
    <3>2. Rank(wire'[1].type) < 3
      <4>1. Rank(wire'[1].type) < Rank(wire'[i].type)
        BY <2>3, <2>4, <3>1, HeadTail
      <4> QED BY <2>3, <4>1 DEF Rank
    <3>3. PICK t : t = wire'[1].type
      OBVIOUS
    <3>4. 2 < Rank(t)
      <4>1. InWire(t)'
        BY <2>4, <3>3 DEF InWire, Has
      <4>2. Rank(wire[1].type) < Rank(t)
        BY <4>1, HeadTail
      <4> QED BY <3>1, <4>2 DEF Rank
    <3>5. Rank(wire'[1].type) \in {1, 2, 3, 4}
      BY DEF Rank
    <3> QED BY <3>2, <3>3, <3>4, <3>5
  <2> QED BY <2>1, <2>2, <2>4, <2>5
<1> QED BY <1>2, <1>3, <1>4

\* What a player says and what the referee says leave the agent before the sense_body;
\* the referee's message takes the news of the clock out of the wire.
LEMMA HearInv ==
    ASSUME IInv, TypeOK', AnalyzeHearPlayer \/ AnalyzeHearReferee
    PROVE  IInv'
<1>1. /\ wire # <<>> /\ wire' = Tail(wire)
      /\ wire[1].type \in {"hear_player", "hear_referee"}
      /\ UNCHANGED <<step, cycle, srvMode, sent, think, overdue, lastDecision, senseTime, seeTime>>
      /\ current' = NewTime(wire[1].cycle, FALSE)
      /\ agentStep' = wire[1].step
      /\ acts' = IF wire[1].step = agentStep THEN acts ELSE 0
  BY DEF AnalyzeHearPlayer, AnalyzeHearReferee, Parse, server, world
<1>2. TypeOK /\ WireInv
  BY DEF IInv
<1>3. step \in Nat /\ step # 0 /\ cycle \in Int /\ current \in GameTime /\ agentStep \in Nat /\ seeTime \in GameTime
  BY <1>1, <1>2, HeadTail, ConstantsAssumption DEF TypeOK, ServerTypeOK, WorldTypeOK
<1>4. BeforeSense /\ InWire("sense_body")' /\ wire' # <<>>
  BY <1>1, <1>2, FirstOfWire DEF IInv
<1>5. WireInv'
  BY <1>1, <1>2, TailWire
<1>6. IF stopped THEN current.cycle = cycle ELSE seeTime.cycle < cycle
  BY <1>1, <1>3, <1>4 DEF BeforeSense
<1>7. wire[1].step = step /\ wire[1].cycle = cycle
  BY <1>1, <1>2, HeadTail
<1>8. /\ current'.cycle = cycle
      /\ stopped => current' = current
      /\ ~stopped => seeTime.cycle < current'.cycle
  BY <1>1, <1>6, <1>7 DEF NewTime, Time
<1>9. ClockInv'
  <2>1. CASE AnalyzeHearPlayer
    <3>1. stopped' = stopped /\ wire[1].type = "hear_player"
      BY <2>1 DEF AnalyzeHearPlayer, Parse
    <3>2. InWire("hear_referee")' <=> InWire("hear_referee")
      BY <1>1, <1>2, <3>1, HeadTail
    <3>3. stopped <=> (ClockStands(srvMode) <=> ~InWire("hear_referee"))
      BY DEF IInv, ClockInv
    <3>4. ClockStands(srvMode)' <=> ClockStands(srvMode)
      BY <1>1 DEF ClockStands
    <3> QED BY <3>1, <3>2, <3>3, <3>4, Zenon DEF ClockInv
  <2>2. CASE AnalyzeHearReferee
    <3>1. stopped' = ClockStands(wire[1].mode) /\ wire[1].type = "hear_referee"
      BY <2>2 DEF AnalyzeHearReferee, Parse
    <3>2. wire[1].mode = srvMode
      BY <1>1, <1>2, <3>1, HeadTail
    <3>3. ~InWire("hear_referee")'
      BY <1>1, <1>2, <3>1, HeadTail DEF Rank
    <3>4. stopped' <=> ClockStands(srvMode)
      BY <3>1, <3>2, Zenon
    <3>5. ClockStands(srvMode)' <=> ClockStands(srvMode)
      BY <1>1 DEF ClockStands
    <3> QED BY <3>3, <3>4, <3>5, Zenon DEF ClockInv
  <2> QED BY <2>1, <2>2
<1>10. wire'[1].type # "sense_body" => stopped' = stopped
  <2>1. CASE AnalyzeHearPlayer
    BY <2>1 DEF AnalyzeHearPlayer
  <2>2. CASE AnalyzeHearReferee
    BY <1>1, <1>2, <2>2, FirstOfWire DEF AnalyzeHearReferee, Parse
  <2> QED BY <2>1, <2>2
<1>11. BeforeSense'
  <2>1. (overdue = "none" \/ (step > 0 /\ lastDecision = senseTime))'
    BY <1>1, <1>4 DEF BeforeSense
  <2>2. (current = lastDecision \/ seeTime.cycle < current.cycle)'
    <3>1. current = lastDecision \/ seeTime.cycle < current.cycle
      BY <1>4 DEF BeforeSense
    <3> QED BY <1>1, <1>8, <3>1
  <2>3. (wire = <<>> \/ wire[1].type # "sense_body"
          => IF stopped THEN current.cycle = cycle ELSE seeTime.cycle < cycle \/ step = 0)'
    BY <1>1, <1>4, <1>6, <1>8, <1>10
  <2>4. (acts <= 1 /\ agentStep <= step /\ (step > 0 /\ agentStep = step => acts = 0))'
    <3>1. agentStep' = step /\ acts' = 0
      BY <1>1, <1>3, <1>4, <1>7 DEF BeforeSense
    <3> QED BY <1>1, <1>3, <3>1
  <2> QED BY <1>1, <1>3, <2>1, <2>2, <2>3, <2>4 DEF BeforeSense
<1> QED BY <1>1, <1>4, <1>5, <1>9, <1>11 DEF IInv

\* The sense_body begins the agent's step: a new time, no decision in it yet.
LEMMA SenseInv == ASSUME IInv, TypeOK', AnalyzeSenseBody PROVE IInv'
<1>1. /\ wire # <<>> /\ wire' = Tail(wire) /\ wire[1].type = "sense_body"
      /\ UNCHANGED <<step, cycle, srvMode, sent, think, lastDecision, seeTime, stopped>>
      /\ current' = NewTime(wire[1].cycle, TRUE)
      /\ agentStep' = wire[1].step
      /\ acts' = IF wire[1].step = agentStep THEN acts ELSE 0
      /\ overdue' = "no" /\ senseTime' = current'
  BY DEF AnalyzeSenseBody, Parse, server
<1>2. TypeOK /\ WireInv
  BY DEF IInv
<1>3. wire[1].step = step /\ wire[1].cycle = cycle /\ step # 0 /\ InWire("sense_body")
  BY <1>1, <1>2, HeadTail
<1>4. step \in Nat /\ agentStep \in Nat /\ BeforeSense
  BY <1>2, <1>3, ConstantsAssumption DEF IInv, TypeOK, ServerTypeOK, WorldTypeOK
<1>5. ~InWire("sense_body")' /\ ~InWire("hear_referee") /\ ~InWire("hear_referee")'
  BY <1>1, <1>2, FirstOfWire, HeadTail
<1>6. WireInv'
  BY <1>1, <1>2, TailWire
<1>7. ClockInv'
  <2>1. ClockStands(srvMode)' <=> ClockStands(srvMode)
    BY <1>1 DEF ClockStands
  <2>2. stopped <=> ClockStands(srvMode)
    BY <1>5, Zenon DEF IInv, ClockInv
  <2>3. stopped' = stopped
    BY <1>1
  <2> QED BY <1>5, <2>1, <2>2, <2>3, Zenon DEF ClockInv
<1>8. current'.cycle = cycle /\ (stopped \/ current'.stopped = 0)
  BY <1>1, <1>3 DEF NewTime, Time
<1>9. agentStep' = step /\ acts' = 0
  BY <1>1, <1>3, <1>4 DEF BeforeSense
<1>10. AfterSense'
  <2>1. overdue' # "none" /\ senseTime' = current' /\ agentStep' = step'
    BY <1>1, <1>9
  <2>2. current'.cycle = cycle' /\ (stopped' \/ current'.stopped = 0)
    BY <1>1, <1>8
  <2>3. acts' <= 1 /\ ~(acts' > 0)
    BY <1>9
  <2> QED BY <2>1, <2>2, <2>3 DEF AfterSense
<1> QED BY <1>1, <1>3, <1>5, <1>6, <1>7, <1>10 DEF IInv

\* The see comes after the sense_body and is of the time the agent has.
LEMMA SeeTime ==
    ASSUME IInv, AnalyzeSee
    PROVE  AfterSense /\ ~InWire("sense_body") /\ step # 0 /\ current' = current
<1>1. wire # <<>> /\ wire[1].type = "see" /\ current' = NewTime(wire[1].cycle, FALSE)
  BY DEF AnalyzeSee, Parse
<1>2. TypeOK /\ WireInv /\ wire' = Tail(wire)
  BY DEF IInv, AnalyzeSee, Parse
<1>3. wire[1].cycle = cycle /\ step # 0 /\ ~InWire("sense_body")
  BY <1>1, <1>2, HeadTail, FirstOfWire
<1>4. AfterSense /\ cycle \in Int /\ current \in GameTime
  BY <1>2, <1>3, ConstantsAssumption DEF IInv, TypeOK, ServerTypeOK, WorldTypeOK
<1>5. CASE stopped
  BY <1>1, <1>3, <1>4, <1>5 DEF NewTime, AfterSense
<1>6. CASE ~stopped
  <2>1. current' = Time(cycle, 0)
    BY <1>1, <1>3, <1>6 DEF NewTime
  <2>2. current.cycle = cycle /\ current.stopped = 0
    BY <1>4, <1>6 DEF AfterSense
  <2>3. current = [cycle |-> current.cycle, stopped |-> current.stopped]
    BY <1>4 DEF GameTime
  <2> QED BY <1>3, <1>4, <2>1, <2>2, <2>3 DEF Time
<1> QED BY <1>3, <1>4, <1>5, <1>6

\* So it leaves the agent after the sense_body.
LEMMA SeeInv == ASSUME IInv, TypeOK', AnalyzeSee PROVE IInv'
<1>1. /\ wire # <<>> /\ wire' = Tail(wire) /\ wire[1].type = "see"
      /\ UNCHANGED <<step, cycle, srvMode, sent, think, lastDecision, senseTime, stopped, overdue>>
      /\ current' = NewTime(wire[1].cycle, FALSE)
      /\ agentStep' = wire[1].step
      /\ acts' = IF wire[1].step = agentStep THEN acts ELSE 0
      /\ seeTime' = current'
  BY DEF AnalyzeSee, Parse, server
<1>2. TypeOK /\ WireInv
  BY DEF IInv
<1>3. wire[1].step = step /\ wire[1].cycle = cycle /\ step # 0 /\ ~InWire("sense_body")
  BY <1>1, <1>2, HeadTail, FirstOfWire
<1>4. AfterSense /\ cycle \in Int /\ current \in GameTime
  BY <1>2, <1>3, ConstantsAssumption DEF IInv, TypeOK, ServerTypeOK, WorldTypeOK
<1>5. ~InWire("sense_body")' /\ (InWire("hear_referee")' <=> InWire("hear_referee"))
  BY <1>1, <1>2, <1>3, HeadTail
<1>6. WireInv'
  BY <1>1, <1>2, TailWire
<1>7. ClockInv'
  <2>1. ClockStands(srvMode)' <=> ClockStands(srvMode)
    BY <1>1 DEF ClockStands
  <2>2. stopped <=> (ClockStands(srvMode) <=> ~InWire("hear_referee"))
    BY DEF IInv, ClockInv
  <2>3. stopped' = stopped
    BY <1>1
  <2> QED BY <1>5, <2>1, <2>2, <2>3, Zenon DEF ClockInv
<1>8. current' = current
  BY SeeTime
<1>9. agentStep' = agentStep /\ acts' = acts
  BY <1>1, <1>3, <1>4 DEF AfterSense
<1>10. AfterSense'
  BY <1>1, <1>4, <1>8, <1>9 DEF AfterSense
<1>11. (seeTime.cycle <= cycle)'
  <2>1. seeTime' = current /\ cycle' = cycle
    BY <1>1, <1>8
  <2>2. current.cycle = cycle
    BY <1>4 DEF AfterSense
  <2>3. cycle <= cycle
    BY <1>4
  <2> QED BY <2>1, <2>2, <2>3
<1> QED BY <1>1, <1>3, <1>5, <1>6, <1>7, <1>10, <1>11 DEF IInv

\* A decision, after the sense_body and at a time that had none.
LEMMA ActInv ==
    ASSUME IInv, TypeOK', AfterSense, step # 0, ~InWire("sense_body"),
           lastDecision # current, overdue' # "none", think' = think, Act
    PROVE  IInv'
<1>1. /\ UNCHANGED <<step, cycle, srvMode, sent, wire, think, current, stopped, senseTime,
                     seeTime, agentStep>>
      /\ lastDecision' = current /\ acts' = acts + 1
  BY DEF Act, server
<1>2. acts = 0
  BY DEF AfterSense, IInv, TypeOK, WorldTypeOK
<1>3. WireInv' /\ ClockInv' /\ (seeTime.cycle <= cycle)' /\ ~InWire("sense_body")' /\ step' # 0
  <2>1. WireInv'
    BY <1>1 DEF IInv, WireInv, InWire, Has
  <2>2. ClockInv'
    BY <1>1 DEF IInv, ClockInv, InWire, Has, ClockStands
  <2>3. ~InWire("sense_body")'
    BY <1>1 DEF InWire, Has
  <2> QED BY <1>1, <2>1, <2>2, <2>3 DEF IInv
<1>4. AfterSense'
  BY <1>1, <1>2 DEF AfterSense
<1> QED BY <1>3, <1>4 DEF IInv

\* The end of the messages or a timeout makes the agent decide only after the sense_body, at a
\* time that had no decision: the wait threshold alone does not, since a third timeout comes
\* only when the wire is empty.
LEMMA DecisionTime ==
    ASSUME Asynchronous, IInv, EndOfMessages \/ Timeout
    PROVE  \/ /\ Act /\ AfterSense /\ step # 0 /\ ~InWire("sense_body")
              /\ lastDecision # current
           \/ UNCHANGED <<server, net, times, world, effects, history>>
<1>0. current.cycle \in Int
  BY ConstantsAssumption DEF IInv, TypeOK, WorldTypeOK, GameTime
<1>1. CASE EndOfMessages
  <2>1. ~think
    BY DEF IInv, WireInv
  <2>2. CASE DecidesNow
    <3>1. ~SynchMode /\ lastDecision # current /\ seeTime = current
      BY <2>1, <2>2 DEF DecidesNow
    <3>2. ~BeforeSense
      BY <1>0, <3>1 DEF BeforeSense
    <3>3. Act
      BY <1>1, <2>2 DEF EndOfMessages
    <3> QED BY <3>1, <3>2, <3>3 DEF IInv
  <2> QED BY <1>1, <2>2 DEF EndOfMessages
<1>2. CASE Timeout
  <2>1. PICK over \in BOOLEAN, noSee \in BOOLEAN :
          IF alive' /\ IsDecisionTiming(waited', over, noSee)
          THEN Act
          ELSE UNCHANGED <<server, net, times, world, effects, history>>
    BY <1>2 DEF Timeout
  <2>2. /\ wire = <<>> \/ waited < MaxDelay
        /\ waited' = IF waited > ServerWait THEN waited ELSE waited + 1
    BY <1>2 DEF Timeout
  <2>3. CASE IsDecisionTiming(waited', over, noSee)
    <3>1. /\ overdue # "none" /\ lastDecision # current
          /\ seeTime = current \/ (lastDecision = senseTime => waited' > 2)
      BY <2>3 DEF IsDecisionTiming
    <3>2. ~(step = 0 \/ InWire("sense_body"))
      <4>1. SUFFICES ASSUME BeforeSense, step = 0 \/ InWire("sense_body") PROVE FALSE
        BY DEF IInv
      <4>2. step > 0 /\ lastDecision = senseTime /\ seeTime # current
        BY <1>0, <3>1, <4>1 DEF BeforeSense
      <4>3. wire # <<>>
        <5>1. InWire("sense_body")
          BY <4>1, <4>2
        <5> QED BY <5>1 DEF InWire, Has
      <4>4. waited \in Nat /\ waited < 2
        <5>1. waited \in Int /\ waited >= 0 /\ MaxDelay \in Int
          BY ConstantsAssumption DEF IInv, TypeOK, LoopTypeOK
        <5> QED BY <2>2, <4>3, <5>1 DEF Asynchronous
      <4>5. ServerWait \in Nat /\ ServerWait > 3
        BY ConstantsAssumption
      <4>6. waited' <= 2
        BY <2>2, <4>4, <4>5
      <4> QED BY <3>1, <4>2, <4>4, <4>5, <4>6, <2>2
    <3> QED BY <2>1, <3>1, <3>2 DEF IInv
  <2> QED BY <2>1, <2>3
<1> QED BY <1>1, <1>2

\* So both keep the invariant.
LEMMA DecisionInv ==
    ASSUME Asynchronous, IInv, TypeOK', EndOfMessages \/ Timeout PROVE IInv'
<1>1. think' = think /\ (overdue' = "none") = (overdue = "none")
  <2>1. ~think
    BY DEF IInv, WireInv
  <2>2. CASE EndOfMessages
    BY <2>1, <2>2 DEF EndOfMessages, IInv, TypeOK, LoopTypeOK
  <2>3. CASE Timeout
    BY <2>3 DEF Timeout
  <2> QED BY <2>2, <2>3
<1>2. CASE Act /\ AfterSense /\ step # 0 /\ ~InWire("sense_body") /\ lastDecision # current
  BY <1>1, <1>2, ActInv DEF AfterSense
<1>3. CASE UNCHANGED <<server, net, times, world, effects, history>>
  <2>1. UNCHANGED seen
    BY <1>1, <1>3 DEF seen, server, net, times, world, history
  <2> QED BY <1>1, <2>1, Frame
<1> QED BY <1>2, <1>3, DecisionTime

\* The see of a step goes to the end of the wire.
LEMMA SendSeeInv == ASSUME IInv, TypeOK', SendSee PROVE IInv'
<1> DEFINE m == Msg("see", step, cycle, srvMode)
<1>1. /\ UNCHANGED <<step, cycle, srvMode, think, overdue, stopped, current, lastDecision,
                     senseTime, seeTime, agentStep, acts>>
      /\ "see" \notin sent /\ sent' = sent \cup {"see"}
      /\ wire' = wire \/ wire' = Append(wire, m)
  BY DEF SendSee, timing, times, world, history
<1>2. m.type = "see" /\ m.step = step /\ m.cycle = cycle
  BY DEF Msg
<1> HIDE DEF m
<1>3. wire \in Seq(Message) /\ WireInv /\ step # 0
  BY <1>1 DEF IInv, TypeOK, NetTypeOK, WireInv
<1>4. Len(wire) \in Nat /\ (wire = <<>> <=> Len(wire) = 0)
  BY <1>3, EmptySeq
<1>5. CASE wire' = wire
  <2>1. WireInv'
    BY <1>1, <1>3, <1>5 DEF WireInv, InWire, Has
  <2>2. ClockInv'
    BY <1>1, <1>5 DEF IInv, ClockInv, InWire, Has, ClockStands
  <2>3. BeforeSense => BeforeSense'
    BY <1>1, <1>5 DEF BeforeSense
  <2>4. AfterSense => AfterSense'
    BY <1>1 DEF AfterSense
  <2>5. InWire("sense_body")' <=> InWire("sense_body")
    BY <1>5 DEF InWire, Has
  <2> QED BY <1>1, <2>1, <2>2, <2>3, <2>4, <2>5 DEF IInv
<1>6. CASE wire' = Append(wire, m)
  <2>1. /\ Len(wire') = Len(wire) + 1
        /\ \A i \in 1..Len(wire) : wire'[i] = wire[i]
        /\ wire'[Len(wire')] = m
    BY <1>3, <1>6
  <2>2. \A i \in 1..Len(wire') : i \in 1..Len(wire) \/ i = Len(wire')
    BY <1>4, <2>1
  <2>3. \A i \in 1..Len(wire) : i \in 1..Len(wire')
    BY <1>4, <2>1
  <2>4. \A t : t # "see" => (InWire(t)' <=> InWire(t))
    <3> SUFFICES ASSUME NEW t, t # "see" PROVE InWire(t)' <=> InWire(t)
      OBVIOUS
    <3>1. InWire(t)' => InWire(t)
      BY <1>2, <2>1, <2>2 DEF InWire, Has
    <3>2. InWire(t) => InWire(t)'
      BY <2>1, <2>3 DEF InWire, Has
    <3> QED BY <3>1, <3>2
  <2>5. \A i \in 1..Len(wire) : Rank(wire[i].type) < 4
    <3> SUFFICES ASSUME NEW i \in 1..Len(wire) PROVE Rank(wire[i].type) < 4
      OBVIOUS
    <3>1. wire[i].type \in MessageType
      <4>1. wire[i] \in Message
        BY <1>3, ElementOfSeq
      <4> QED BY <4>1 DEF Message
    <3>2. wire[i].type # "see" /\ wire[i].type # "think"
      <4>1. ~InWire("see")
        BY <1>1, <1>3 DEF WireInv
      <4>2. wire[i].type # "think"
        BY <1>3 DEF WireInv
      <4> QED BY <4>1, <4>2 DEF InWire, Has
    <3> QED BY <3>1, <3>2 DEF Rank, MessageType
  <2>6. \A i, j \in 1..Len(wire') : i < j => Rank(wire'[i].type) < Rank(wire'[j].type)
    <3> SUFFICES ASSUME NEW i \in 1..Len(wire'), NEW j \in 1..Len(wire'), i < j
                 PROVE  Rank(wire'[i].type) < Rank(wire'[j].type)
      OBVIOUS
    <3>1. i \in 1..Len(wire) /\ wire'[i] = wire[i]
      BY <1>4, <2>1, <2>2
    <3>2. CASE j \in 1..Len(wire)
      BY <1>3, <2>1, <3>1, <3>2 DEF WireInv
    <3>3. CASE j = Len(wire')
      <4>1. Rank(wire'[j].type) = 4
        BY <1>2, <2>1, <3>3 DEF Rank
      <4> QED BY <2>5, <3>1, <4>1
    <3> QED BY <2>2, <3>2, <3>3
  <2>7. \A i \in 1..Len(wire') : /\ wire'[i].step = step' /\ wire'[i].cycle = cycle'
                                 /\ wire'[i].type # "think"
                                 /\ wire'[i].type = "hear_referee" => wire'[i].mode = srvMode'
    <3> SUFFICES ASSUME NEW i \in 1..Len(wire')
                 PROVE  /\ wire'[i].step = step /\ wire'[i].cycle = cycle
                        /\ wire'[i].type # "think"
                        /\ wire'[i].type = "hear_referee" => wire'[i].mode = srvMode
      BY <1>1
    <3>1. CASE i \in 1..Len(wire)
      BY <1>3, <2>1, <3>1 DEF WireInv
    <3>2. CASE i = Len(wire')
      BY <1>2, <2>1, <3>2
    <3> QED BY <2>2, <3>1, <3>2
  <2>8. WireInv'
    <3>1. "see" \in sent' /\ "think" \in sent' /\ ~think' /\ step' # 0
      BY <1>1, <1>3 DEF WireInv
    <3>2. InWire("hear_player")' \/ InWire("hear_referee")' => InWire("sense_body")'
      BY <1>3, <2>4 DEF WireInv
    <3> QED BY <2>6, <2>7, <3>1, <3>2 DEF WireInv
  <2>9. ClockInv'
    <3>1. InWire("hear_referee")' <=> InWire("hear_referee")
      BY <2>4
    <3>2. ClockStands(srvMode)' <=> ClockStands(srvMode)
      BY <1>1 DEF ClockStands
    <3>3. stopped' = stopped
      BY <1>1
    <3> QED BY <3>1, <3>2, <3>3, Zenon DEF IInv, ClockInv
  <2>10. InWire("sense_body")' <=> InWire("sense_body")
    BY <2>4
  <2>11. CASE InWire("sense_body")
    <3>1. wire # <<>> /\ wire'[1] = wire[1]
      <4>1. Len(wire) # 0
        BY <1>4, <2>11 DEF InWire, Has
      <4>2. 1 \in 1..Len(wire)
        BY <1>4, <4>1
      <4> QED BY <1>4, <2>1, <4>1, <4>2
    <3>2. BeforeSense
      BY <2>11 DEF IInv
    <3>3. BeforeSense'
      <4>1. (wire = <<>> \/ wire[1].type # "sense_body"
              => IF stopped THEN current.cycle = cycle ELSE seeTime.cycle < cycle \/ step = 0)'
        <5>1. wire[1].type # "sense_body"
                => IF stopped THEN current.cycle = cycle ELSE seeTime.cycle < cycle \/ step = 0
          BY <3>2 DEF BeforeSense
        <5>2. wire' # <<>>
          BY <1>4, <2>1, <3>1
        <5> QED BY <1>1, <3>1, <5>1, <5>2
      <4> QED BY <1>1, <3>2, <4>1 DEF BeforeSense
    <3> QED BY <1>1, <2>8, <2>9, <2>10, <2>11, <3>3 DEF IInv
  <2>12. CASE ~InWire("sense_body")
    <3>1. AfterSense
      BY <1>3, <2>12 DEF IInv
    <3>2. AfterSense'
      BY <1>1, <3>1 DEF AfterSense
    <3> QED BY <1>1, <1>3, <2>8, <2>9, <2>10, <2>12, <3>2 DEF IInv
  <2> QED BY <2>11, <2>12
<1> QED BY <1>1, <1>5, <1>6

\* Only what a player says, a see or a command gets lost: the time stays where it is.
LEMMA LoseInv == ASSUME Asynchronous, IInv, TypeOK', Lose PROVE IInv'
<1>1. UNCHANGED <<step, cycle, srvMode, sent, think, overdue, stopped, current, lastDecision,
                  senseTime, seeTime, agentStep, acts>>
  BY DEF Lose, server, timing, times, world, history
<1>2. CASE wire' = wire
  BY <1>1, <1>2, Frame DEF seen
<1>3. CASE wire # <<>> /\ wire[1].type \in Losable /\ wire' = Tail(wire)
  <2>1. TypeOK /\ WireInv
    BY DEF IInv
  <2>2. wire[1].type \in {"hear_player", "see"} /\ step # 0
    BY <1>3, <2>1, HeadTail DEF Asynchronous
  <2>3. WireInv'
    BY <1>1, <1>3, <2>1, TailWire
  <2>4. /\ InWire("hear_referee")' <=> InWire("hear_referee")
        /\ InWire("sense_body")' <=> InWire("sense_body")
    BY <1>3, <2>1, <2>2, HeadTail
  <2>5. ClockInv'
    <3>1. ClockStands(srvMode)' <=> ClockStands(srvMode)
      BY <1>1 DEF ClockStands
    <3>2. stopped' = stopped
      BY <1>1
    <3> QED BY <2>4, <3>1, <3>2, Zenon DEF IInv, ClockInv
  <2>6. BeforeSense => BeforeSense'
    BY <1>1, <1>3, <2>2 DEF BeforeSense
  <2>7. AfterSense => AfterSense'
    BY <1>1 DEF AfterSense
  <2> QED BY <1>1, <2>3, <2>4, <2>5, <2>6, <2>7 DEF IInv
<1> QED BY <1>2, <1>3 DEF Lose

\* The invariant is inductive.
LEMMA NextInv == ASSUME Asynchronous, IInv, [Next]_vars, TypeOK' PROVE IInv'
<1>1. CASE UNCHANGED vars
  <2>1. UNCHANGED seen /\ (overdue' = "none") = (overdue = "none")
    BY <1>1 DEF vars, seen, server, net, timing, times, world, history
  <2> QED BY <2>1, Frame
<1>2. CASE ReceiveCommand \/ ServerStop
  <2>1. UNCHANGED seen /\ (overdue' = "none") = (overdue = "none")
    BY <1>2 DEF ReceiveCommand, ServerStop, seen, net, timing, times, world, history
  <2> QED BY <2>1, Frame
<1>3. ~SendThink
  BY DEF IInv, WireInv, SendThink
<1>4. ~ReceiveThink
  <2>1. SUFFICES ASSUME ReceiveThink PROVE FALSE
    OBVIOUS
  <2>2. wire # <<>> /\ wire' = Tail(wire) /\ wire[1].type = "think"
    BY <2>1 DEF ReceiveThink, Parse
  <2> QED BY <2>2, HeadTail DEF IInv
<1> QED BY <1>1, <1>2, <1>3, <1>4, StepInv, HearInv, SenseInv, SeeInv, DecisionInv,
           SendSeeInv, LoseInv
           DEF Next, Agent, Server

\* With at most two timeouts while messages are on their way, and with sense_body and
\* the referee always heard, the agent decides at most once in a step, though sees,
\* what players say and commands may be lost and commands late.
THEOREM OneDecision == ASSUME Asynchronous PROVE Spec => []OneDecisionPerStep
<1>1. Init => IInv
  BY InitInv
<1>2. TypeOK' /\ IInv /\ [Next]_vars => IInv'
  BY NextInv
<1>3. IInv => OneDecisionPerStep
  BY DEF IInv, BeforeSense, AfterSense, OneDecisionPerStep
<1> QED BY <1>1, <1>2, <1>3, TypeCorrect, PTL DEF Spec
================================================================================
