----------------------- MODULE DecisionLoopExact_proofs -----------------------
(***************************************************************************)
(* More theorems about the agent's loop in asynchronous mode, for every    *)
(* number of steps, losses and body commands:                              *)
(*                                                                         *)
(*   StepsAreDecided     an agent that waits has decided in the last step  *)
(*   PredictionIsRight   its predictions are exact, if commands reach      *)
(*                       their step or get lost                            *)
(*                                                                         *)
(* Both rest on the invariant of DecisionLoop_proofs and on the game time  *)
(* of a sense_body being a new one, though a clock that stands and runs    *)
(* again comes back to the cycle that it had.                              *)
(***************************************************************************)
EXTENDS DecisionLoop_proofs

-----------------------------------------------------------------------------
(* Times.                                                                  *)

\* The sense_body is still to come.
Before == step = 0 \/ InWire("sense_body")

\* The last step's time is the last decision's; the sense_body will tell a later one: of
\* another cycle, or of the cycle in which the clock stood.
BeforeTimes ==
    /\ worldTime = lastDecision /\ senseTime = lastDecision
    /\ stopped => current.cycle = cycle
    /\ step = 0 => lastDecision.cycle < cycle
    /\ \/ lastDecision.cycle < cycle
       \/ /\ lastDecision.cycle = cycle /\ current.cycle = cycle /\ lastDecision.stopped > 0
          /\ stopped => lastDecision.stopped <= current.stopped
          /\ stopped \/ ~InWire("hear_referee")

AfterTimes ==
    /\ worldTime = current
    /\ stopped => current.stopped > 0
    /\ lastDecision = current <=> acts > 0

TimesInv == IF Before THEN BeforeTimes ELSE AfterTimes

\* A third timeout after the sense_body does not come before the decision.
WaitInv ==
    /\ pc = "drain" => waited = 0
    /\ alive /\ pc = "select" /\ waited >= 3 /\ overdue = "yes" /\ ~Before => acts > 0

\* Times as pairs.
LEMMA TimePair ==
    ASSUME NEW t \in GameTime
    PROVE  /\ t = Time(t.cycle, t.stopped) /\ t.cycle \in Int /\ t.stopped \in Nat
BY ConstantsAssumption DEF GameTime, Time

LEMMA TypesOfTimes ==
    ASSUME TypeOK
    PROVE  /\ {current, lastDecision, worldTime, senseTime, seeTime} \subseteq GameTime
           /\ step \in Nat /\ cycle \in Nat /\ acts \in Nat /\ stopped \in BOOLEAN
           /\ waited \in Nat /\ wire \in Seq(Message)
BY ConstantsAssumption DEF TypeOK, ServerTypeOK, WorldTypeOK, NetTypeOK, LoopTypeOK

LEMMA InitTimes == ASSUME Init PROVE TimesInv /\ WaitInv
<1>1. Before /\ lastDecision.cycle = -1 /\ current.cycle = 0 /\ cycle = 0
  BY DEF Init, Before, Time
<1>2. BeforeTimes
  BY <1>1 DEF Init, BeforeTimes
<1> QED BY <1>1, <1>2 DEF Init, TimesInv, WaitInv

\* Before a step everything of the last one is read; and the step puts a sense_body into the
\* wire.
LEMMA StepReady ==
    ASSUME Asynchronous, IInv, Step
    PROVE  /\ wire = <<>> /\ ~InWire("sense_body") /\ ~InWire("hear_referee")
           /\ stopped <=> ClockStands(srvMode)
           /\ step # 0 => AfterSense /\ acts > 0
           /\ InWire("sense_body")'
           /\ \A i \in 1..Len(wire') : wire'[i].type = "sense_body" => wire'[i].count = srvCount
<1>1. wire = <<>>
  BY DEF IInv, WireInv, Step, AgentInTime, Asynchronous
<1>2. ~InWire("sense_body") /\ ~InWire("hear_referee")
  BY <1>1 DEF InWire, Has
<1>3. stopped <=> ClockStands(srvMode)
  BY <1>2, Zenon DEF IInv, ClockInv
<1>4. step # 0 => AfterSense
  BY <1>2 DEF IInv
<1>5. step # 0 => acts > 0
  BY <1>4 DEF Step, Asynchronous, AgentInTime, AfterSense
<1> DEFINE player  == Msg("hear_player", step', cycle', srvMode)
           referee == Msg("hear_referee", step', cycle', srvMode')
           sense   == Msg("sense_body", step', cycle', srvMode')
<1>6. /\ player.type = "hear_player" /\ referee.type = "hear_referee"
      /\ sense.type = "sense_body" /\ sense.count = srvCount
  BY DEF Msg
<1>7. IF srvMode' = srvMode
      THEN wire' \in {<<sense>>, <<player, sense>>}
      ELSE wire' \in {<<referee, sense>>, <<player, referee, sense>>}
  BY <1>1, StepWire, Zenon
<1> HIDE DEF player, referee, sense
<1>8. InWire("sense_body")'
  <2>1. CASE wire' = <<sense>>
    BY <1>6, <2>1, HasShort DEF InWire
  <2>2. CASE wire' = <<player, sense>>
    BY <1>6, <2>2, HasShort DEF InWire
  <2>3. CASE wire' = <<referee, sense>>
    BY <1>6, <2>3, HasShort DEF InWire
  <2>4. CASE wire' = <<player, referee, sense>>
    <3>1. Has(<<player, referee, sense>>, "sense_body")
            <=> player.type = "sense_body" \/ referee.type = "sense_body" \/ sense.type = "sense_body"
      BY HasShort
    <3> QED BY <1>6, <2>4, <3>1 DEF InWire
  <2> QED BY <1>7, <2>1, <2>2, <2>3, <2>4
<1>9. \A i \in 1..Len(wire') : wire'[i].type = "sense_body" => wire'[i].count = srvCount
  BY <1>6, <1>7
<1> QED BY <1>1, <1>2, <1>3, <1>4, <1>5, <1>8, <1>9

LEMMA StepTimes ==
    ASSUME Asynchronous, IInv, TimesInv, WaitInv, Step PROVE TimesInv' /\ WaitInv'
<1>1. /\ step \in Nat /\ cycle \in Nat /\ current \in GameTime /\ lastDecision \in GameTime
      /\ step' = step + 1 /\ cycle' = IF ClockStands(srvMode) THEN cycle ELSE cycle + 1
      /\ UNCHANGED <<stopped, current, lastDecision, senseTime, worldTime, pc, waited>>
  BY TypesOfTimes DEF IInv, Step, timing, times, world
<1>2. InWire("sense_body")' /\ ~InWire("sense_body") /\ stopped = ClockStands(srvMode)
  <2>1. stopped \in BOOLEAN /\ ClockStands(srvMode) \in BOOLEAN
    BY TypesOfTimes DEF IInv, ClockStands
  <2>2. stopped <=> ClockStands(srvMode)
    BY StepReady
  <2>3. InWire("sense_body")' /\ ~InWire("sense_body")
    BY StepReady
  <2> QED BY <2>1, <2>2, <2>3
<1>3. Before'
  BY <1>2 DEF Before
<1>4. BeforeTimes'
  <2>1. CASE step = 0
    <3>1. BeforeTimes /\ BeforeSense
      BY <2>1 DEF TimesInv, Before, IInv
    <3>2. current.cycle = cycle /\ lastDecision.cycle < cycle
      BY <2>1, <3>1 DEF BeforeSense, BeforeTimes
    <3>3. lastDecision.cycle \in Int
      BY <1>1, TimePair
    <3>4. (lastDecision.cycle < cycle)' /\ (stopped' => current'.cycle = cycle')
      BY <1>1, <1>2, <3>2, <3>3
    <3> QED BY <1>1, <3>1, <3>4 DEF BeforeTimes
  <2>2. CASE step # 0
    <3>1. AfterTimes /\ AfterSense /\ acts > 0
      BY <1>2, <2>2, StepReady DEF TimesInv, Before
    <3>2. /\ lastDecision = current /\ worldTime = current /\ senseTime = current
          /\ current.cycle = cycle /\ (stopped => current.stopped > 0)
      BY <3>1 DEF AfterTimes, AfterSense
    <3>3. current.stopped \in Nat
      BY <1>1, TimePair
    <3> QED BY <1>1, <1>2, <3>2, <3>3 DEF BeforeTimes
  <2> QED BY <2>1, <2>2
<1> QED BY <1>1, <1>3, <1>4 DEF TimesInv, WaitInv

\* What is heard before the sense_body tells the cycle, and keeps the count of a clock that
\* stands.
LEMMA HearTimes ==
    ASSUME Asynchronous, IInv, TimesInv, WaitInv, AnalyzeHearPlayer \/ AnalyzeHearReferee
    PROVE  TimesInv' /\ WaitInv'
<1>1. /\ wire # <<>> /\ wire' = Tail(wire)
      /\ wire[1].type \in {"hear_player", "hear_referee"}
      /\ UNCHANGED <<step, cycle, srvMode, lastDecision, senseTime, worldTime>>
      /\ current' = NewTime(wire[1].cycle, FALSE)
      /\ pc' = "drain" /\ waited' = 0
  BY DEF AnalyzeHearPlayer, AnalyzeHearReferee, Parse, server, world
<1>2. TypeOK /\ WireInv
  BY DEF IInv
<1>3. /\ wire[1].cycle = cycle /\ InWire("sense_body") /\ InWire("sense_body")'
      /\ wire[1].type = "hear_referee" => InWire("hear_referee")
      /\ InWire("hear_referee")' => InWire("hear_referee")
  BY <1>1, <1>2, HeadTail, FirstOfWire
<1>4. BeforeTimes /\ Before'
  BY <1>3 DEF TimesInv, Before
<1>5. current'.cycle = cycle /\ (stopped => current' = current)
  BY <1>1, <1>3, <1>4 DEF NewTime, Time, BeforeTimes
<1>6. BeforeTimes'
  <2>1. CASE AnalyzeHearPlayer
    <3>1. stopped' = stopped
      BY <2>1 DEF AnalyzeHearPlayer
    <3> QED BY <1>1, <1>3, <1>4, <1>5, <3>1 DEF BeforeTimes
  <2>2. CASE AnalyzeHearReferee
    <3>1. wire[1].type = "hear_referee"
      BY <2>2 DEF AnalyzeHearReferee, Parse
    <3>2. ~InWire("hear_referee")'
      BY <1>1, <1>2, <3>1, HeadTail DEF Rank
    <3> QED BY <1>1, <1>3, <1>4, <1>5, <3>1, <3>2 DEF BeforeTimes
  <2> QED BY <2>1, <2>2
<1> QED BY <1>1, <1>4, <1>6 DEF TimesInv, WaitInv

\* The sense_body is of a time that had no decision, no sense_body and no prediction.
LEMMA SenseTimes ==
    ASSUME Asynchronous, IInv, TimesInv, WaitInv, AnalyzeSenseBody
    PROVE  /\ TimesInv' /\ WaitInv' /\ ~Before'
           /\ senseTime # current' /\ worldTime # current' /\ acts' = 0
           /\ InWire("sense_body") /\ wire[1].type = "sense_body" /\ agentStep' = step
<1>1. /\ wire # <<>> /\ wire' = Tail(wire) /\ wire[1].type = "sense_body"
      /\ UNCHANGED <<step, cycle, srvMode, lastDecision, stopped>>
      /\ current' = NewTime(wire[1].cycle, TRUE)
      /\ agentStep' = wire[1].step
      /\ acts' = IF wire[1].step = agentStep THEN acts ELSE 0
      /\ pc' = "drain" /\ waited' = 0
  BY DEF AnalyzeSenseBody, Parse, server
<1>2. TypeOK /\ WireInv
  BY DEF IInv
<1>3. /\ wire[1].step = step /\ wire[1].cycle = cycle /\ step # 0
      /\ InWire("sense_body") /\ ~InWire("sense_body")' /\ ~InWire("hear_referee")
  BY <1>1, <1>2, HeadTail, FirstOfWire
<1>4. BeforeTimes /\ BeforeSense /\ ~Before'
  BY <1>1, <1>3 DEF TimesInv, Before, IInv
<1>5. current.stopped \in Nat /\ current.cycle \in Int /\ cycle \in Int /\ step \in Nat
  <2>1. current \in GameTime /\ cycle \in Nat /\ step \in Nat
    BY <1>2, TypesOfTimes
  <2> QED BY <2>1, TimePair
<1>6. /\ current'.cycle = cycle
      /\ stopped => current'.stopped = current.stopped + 1
      /\ ~stopped => current'.stopped = 0
  BY <1>1, <1>3, <1>4 DEF NewTime, Time, BeforeTimes
<1>7. lastDecision # current'
  <2>1. lastDecision.stopped \in Nat /\ lastDecision.cycle \in Int
    BY <1>2, TypesOfTimes, TimePair
  <2>2. CASE lastDecision.cycle < cycle
    BY <1>5, <1>6, <2>1, <2>2
  <2>3. CASE lastDecision.stopped > 0 /\ (stopped => lastDecision.stopped <= current.stopped)
    <3>1. lastDecision.stopped # current'.stopped
      BY <1>5, <1>6, <2>1, <2>3
    <3> QED BY <3>1
  <2> QED BY <1>4, <2>2, <2>3 DEF BeforeTimes
<1>8. senseTime # current' /\ worldTime # current'
  BY <1>4, <1>7 DEF BeforeTimes
<1>9. acts' = 0
  BY <1>1, <1>3, <1>4, <1>5 DEF BeforeSense
<1>10. worldTime' = current'
  BY <1>8 DEF AnalyzeSenseBody, WorldUpdate
<1>11. AfterTimes'
  <2>1. stopped' = stopped /\ lastDecision' = lastDecision
    BY <1>1
  <2>2. stopped => current'.stopped > 0
    BY <1>5, <1>6
  <2>3. ~(acts' > 0) /\ lastDecision' # current'
    BY <1>7, <1>9, <2>1
  <2> QED BY <1>10, <2>1, <2>2, <2>3 DEF AfterTimes
<1> QED BY <1>1, <1>3, <1>4, <1>8, <1>9, <1>11 DEF TimesInv, WaitInv

\* The see is of the same time: there is nothing left to predict.
LEMMA SeeTimes ==
    ASSUME Asynchronous, IInv, TimesInv, WaitInv, AnalyzeSee
    PROVE  TimesInv' /\ WaitInv' /\ ~Before /\ ~Before' /\ UNCHANGED <<applied, acts>>
<1>1. /\ wire # <<>> /\ wire' = Tail(wire)
      /\ UNCHANGED <<step, lastDecision, stopped>>
      /\ agentStep' = wire[1].step
      /\ acts' = IF wire[1].step = agentStep THEN acts ELSE 0
      /\ pc' = "drain" /\ waited' = 0
      /\ UNCHANGED <<worldTime, applied>> \/ WorldUpdate(lastBody, doneNeck)
  BY DEF AnalyzeSee, Parse, server
<1>2. TypeOK /\ WireInv
  BY DEF IInv
<1>3. AfterSense /\ ~InWire("sense_body") /\ step # 0 /\ current' = current
  BY SeeTime
<1>4. ~InWire("sense_body")' /\ wire[1].step = step
  BY <1>1, <1>2, <1>3, HeadTail
<1>5. ~Before /\ ~Before' /\ AfterTimes
  BY <1>1, <1>3, <1>4 DEF Before, TimesInv
<1>6. worldTime' = current /\ applied' = applied
  BY <1>1, <1>3, <1>5 DEF AfterTimes, WorldUpdate
<1>7. acts' = acts
  BY <1>1, <1>3, <1>4 DEF AfterSense
<1>8. AfterTimes'
  BY <1>1, <1>3, <1>5, <1>6, <1>7 DEF AfterTimes
<1> QED BY <1>1, <1>5, <1>6, <1>7, <1>8 DEF TimesInv, WaitInv

\* What the invariants of the times and of the waiting read of the world, but for pc, waited,
\* alive and overdue.
timed == <<step, cycle, current, lastDecision, stopped, worldTime, senseTime, acts>>

LEMMA TimedFrame ==
    ASSUME TimesInv, UNCHANGED timed, InWire("sense_body")' <=> InWire("sense_body"),
           InWire("hear_referee")' => InWire("hear_referee")
    PROVE  TimesInv' /\ (Before' <=> Before)
<1>1. Before' <=> Before
  BY DEF Before, timed
<1>2. BeforeTimes => BeforeTimes'
  BY DEF BeforeTimes, timed
<1>3. AfterTimes => AfterTimes'
  BY DEF AfterTimes, timed
<1> QED BY <1>1, <1>2, <1>3 DEF TimesInv

\* A decision, or none: a third timeout brings one in a step that had none.
LEMMA DecisionTimes ==
    ASSUME Asynchronous, IInv, TimesInv, WaitInv, EndOfMessages \/ Timeout
    PROVE  TimesInv' /\ WaitInv' /\ (Before' <=> Before) /\ applied' = applied
<1>1. ASSUME Act, AfterSense, step # 0, ~InWire("sense_body"), lastDecision # current
      PROVE  /\ TimesInv' /\ ~Before /\ ~Before' /\ acts' > 0 /\ applied' = applied
  <2>1. /\ UNCHANGED <<step, wire, current, stopped>>
        /\ lastDecision' = current /\ acts' = acts + 1
        /\ WorldUpdate(lastBody, doneNeck)
    BY <1>1 DEF Act, server
  <2>2. ~Before /\ ~Before' /\ AfterTimes
    BY <1>1, <2>1 DEF Before, TimesInv, InWire, Has
  <2>3. worldTime' = current /\ applied' = applied
    BY <2>1, <2>2 DEF AfterTimes, WorldUpdate
  <2>4. acts' > 0
    BY <2>1, TypesOfTimes DEF IInv
  <2>5. AfterTimes'
    BY <2>1, <2>2, <2>3, <2>4 DEF AfterTimes
  <2> QED BY <2>2, <2>3, <2>4, <2>5 DEF TimesInv
<1>2. ASSUME UNCHANGED <<server, net, times, world, effects, history>>
      PROVE  TimesInv' /\ (Before' <=> Before) /\ applied' = applied /\ acts' = acts
  <2>1. UNCHANGED timed /\ wire' = wire /\ applied' = applied /\ acts' = acts
    BY <1>2 DEF timed, server, net, times, world, history
  <2> QED BY <2>1, TimedFrame DEF InWire, Has
<1>3. WaitInv'
  <2>1. CASE EndOfMessages
    <3>1. pc = "drain" /\ pc' = "select" /\ waited' = waited
      BY <2>1 DEF EndOfMessages
    <3>2. waited' = 0
      BY <3>1 DEF WaitInv
    <3> QED BY <3>1, <3>2 DEF WaitInv
  <2>2. CASE Timeout
    <3>1. PICK over \in BOOLEAN, noSee \in BOOLEAN :
            /\ overdue' = IF overdue # "none" /\ over THEN "yes" ELSE overdue
            /\ overdue = "yes" => over
            /\ alive' = (waited' <= ServerWait)
            /\ IF alive' /\ IsDecisionTiming(waited', over, noSee)
               THEN Act
               ELSE UNCHANGED <<server, net, times, world, effects, history>>
      BY <2>2 DEF Timeout
    <3>2. pc = "select" /\ pc' = "select"
      BY <2>2 DEF Timeout
    <3>3. ASSUME alive', waited' >= 3, overdue' = "yes", ~Before' PROVE acts' > 0
      <4>1. CASE Act
        BY <4>1, TypesOfTimes DEF Act, IInv
      <4>2. CASE ~Act
        <5>1. ~IsDecisionTiming(waited', over, noSee)
          BY <3>1, <3>3, <4>2
        <5>2. UNCHANGED <<server, net, times, world, effects, history>>
          BY <3>1, <4>2
        <5>3. ~Before /\ acts' = acts
          BY <1>2, <3>3, <5>2
        <5>4. AfterTimes /\ AfterSense
          BY <5>3 DEF TimesInv, Before, IInv
        <5>5. over /\ overdue # "none"
          BY <3>1, <3>3
        <5>6. waited' > 2
          <6>1. waited' \in Int
            BY <2>2, TypesOfTimes DEF Timeout, IInv
          <6> QED BY <3>3, <6>1
        <5>7. lastDecision = current
          BY <5>1, <5>5, <5>6 DEF IsDecisionTiming, Asynchronous
        <5> QED BY <5>3, <5>4, <5>7 DEF AfterTimes
      <4> QED BY <4>1, <4>2
    <3> QED BY <3>2, <3>3 DEF WaitInv
  <2> QED BY <2>1, <2>2
<1> QED BY <1>1, <1>2, <1>3, DecisionTime

\* What the network and the server do within a step leaves the messages that tell the time.
WithinStep == SendSee \/ Lose \/ ReceiveCommand \/ ServerStop \/ UNCHANGED vars

LEMMA WireKept ==
    ASSUME Asynchronous, IInv, WithinStep
    PROVE  /\ \A t \in {"sense_body", "hear_referee"} : InWire(t)' <=> InWire(t)
           /\ \A i \in 1..Len(wire') :
                wire'[i].type = "sense_body" => \E j \in 1..Len(wire) : wire[j] = wire'[i]
<1>1. wire \in Seq(Message) /\ TypeOK /\ WireInv /\ Len(wire) \in Nat
  BY LenProperties DEF IInv, TypeOK, NetTypeOK
<1>2. CASE wire' = wire
  BY <1>2 DEF InWire, Has
<1>3. CASE SendSee
  <2> DEFINE m == Msg("see", step, cycle, srvMode)
  <2>1. wire' = wire \/ wire' = Append(wire, m)
    BY <1>3 DEF SendSee
  <2>2. m.type = "see"
    BY DEF Msg
  <2> HIDE DEF m
  <2>3. CASE wire' = Append(wire, m)
    <3>1. /\ Len(wire') = Len(wire) + 1
          /\ \A i \in 1..Len(wire) : wire'[i] = wire[i]
          /\ wire'[Len(wire')] = m
      BY <1>1, <2>3
    <3>2. \A i \in 1..Len(wire') : i \in 1..Len(wire) \/ i = Len(wire')
      BY <1>1, <3>1
    <3>3. \A i \in 1..Len(wire) : i \in 1..Len(wire')
      BY <1>1, <3>1
    <3>4. ASSUME NEW t, t # "see" PROVE InWire(t)' <=> InWire(t)
      <4>1. InWire(t)' => InWire(t)
        BY <2>2, <3>1, <3>2, <3>4 DEF InWire, Has
      <4>2. InWire(t) => InWire(t)'
        BY <3>1, <3>3 DEF InWire, Has
      <4> QED BY <4>1, <4>2
    <3>5. \A i \in 1..Len(wire') :
            wire'[i].type = "sense_body" => \E j \in 1..Len(wire) : wire[j] = wire'[i]
      BY <2>2, <3>1, <3>2
    <3> QED BY <3>4, <3>5
  <2> QED BY <1>2, <2>1, <2>3
<1>4. CASE wire # <<>> /\ wire[1].type \in Losable /\ wire' = Tail(wire)
  <2>1. wire[1].type \in {"hear_player", "see"}
    BY <1>1, <1>4, HeadTail DEF Asynchronous
  <2>2. \A t \in {"sense_body", "hear_referee"} : InWire(t)' <=> InWire(t)
    BY <1>1, <1>4, <2>1, HeadTail
  <2>3. Len(wire') = Len(wire) - 1 /\ \A i \in 1..Len(wire') : wire'[i] = wire[i+1]
    BY <1>1, <1>4, HeadTailProperties
  <2>4. \A i \in 1..Len(wire') : i + 1 \in 1..Len(wire)
    BY <1>1, <2>3
  <2> QED BY <2>2, <2>3, <2>4
<1> QED BY <1>2, <1>3, <1>4 DEF WithinStep, Lose, ReceiveCommand, ServerStop, net, vars

LEMMA WithinStepTimes ==
    ASSUME Asynchronous, IInv, TimesInv, WaitInv, WithinStep
    PROVE  TimesInv' /\ WaitInv' /\ (Before' <=> Before)
<1>1. UNCHANGED timed /\ UNCHANGED timing
  BY DEF WithinStep, SendSee, Lose, ReceiveCommand, ServerStop, vars, timed, timing, server, times,
         world, history
<1>2. TimesInv' /\ (Before' <=> Before)
  BY <1>1, WireKept, TimedFrame
<1>3. WaitInv'
  BY <1>1, <1>2 DEF WaitInv, timed, timing
<1> QED BY <1>2, <1>3

\* In asynchronous mode there is no (think).
LEMMA NoThink == ASSUME Asynchronous, IInv PROVE ~SendThink /\ ~ReceiveThink
<1>1. ~SendThink
  BY DEF IInv, WireInv, SendThink
<1>2. ASSUME ReceiveThink PROVE FALSE
  <2>1. wire # <<>> /\ wire[1].type = "think"
    BY <1>2 DEF ReceiveThink, Parse
  <2>2. 1 \in 1..Len(wire)
    BY <2>1, EmptySeq, LenProperties DEF IInv, TypeOK, NetTypeOK
  <2> QED BY <2>1, <2>2 DEF IInv, WireInv
<1> QED BY <1>1, <1>2

LEMMA NextTimes ==
    ASSUME Asynchronous, IInv, TimesInv, WaitInv, [Next]_vars PROVE TimesInv' /\ WaitInv'
BY NoThink, StepTimes, HearTimes, SenseTimes, SeeTimes, DecisionTimes, WithinStepTimes
   DEF WithinStep, Next, Agent, Server

\* In asynchronous mode an agent that waits, with nothing more to come and the wait threshold
\* over, has decided in the last step it heard of, whatever sees, player messages and
\* commands are lost or late.
THEOREM StepsAreDecided == ASSUME Asynchronous PROVE Spec => []EveryStepDecided
<1>1. Init => IInv /\ TimesInv /\ WaitInv
  BY InitInv, InitTimes
<1>2. TypeOK' /\ IInv /\ TimesInv /\ WaitInv /\ [Next]_vars => IInv' /\ TimesInv' /\ WaitInv'
  BY NextInv, NextTimes
<1>3. IInv /\ WaitInv => EveryStepDecided
  <2> SUFFICES ASSUME IInv, WaitInv, alive, pc = "select", wire = <<>>, waited >= 3, overdue = "yes"
               PROVE  acts > 0
    BY DEF EveryStepDecided
  <2>1. ~InWire("sense_body")
    BY DEF InWire, Has
  <2>2. step # 0
    BY DEF IInv, BeforeSense
  <2> QED BY <2>1, <2>2 DEF WaitInv, Before
<1> QED BY <1>1, <1>2, <1>3, TypeCorrect, PTL DEF Spec


-----------------------------------------------------------------------------
(* Predictions.  The agent's counts run ahead of the server's by the       *)
(* command on its way, which either arrives, and the counts agree, or is   *)
(* lost, and they differ where it counted.                                 *)

\* The counts f after command c.
Counted(c) == (IF c.body = "TURN0" THEN {"TURN"} ELSE {c.body})
                \cup (IF c.neck THEN {"TURN_NECK"} ELSE {})
Plus(f, c) == [k \in CommandType |-> f[k] + (IF k \in Counted(c) THEN 1 ELSE 0)]

\* The stored commands, corrected by the server's counts, are those of done.
Told(done) ==
    /\ LastBody(done.body) = IF \E k \in CommandType \ {"TURN_NECK"} : srvCount[k] # count[k]
                             THEN "ILLEGAL" ELSE lastBody
    /\ done.neck = (doneNeck /\ srvCount["TURN_NECK"] = count["TURN_NECK"])

OnItsWay(c) ==
    /\ cmds = <<c>> /\ doing = Nothing
    /\ count = Plus(srvCount, c) /\ lastBody = LastBody(c.body) /\ doneNeck = c.neck

\* The sense_body will tell what the last step executed.
BeforeCommands ==
    /\ cmds = <<>> /\ doing = Nothing
    /\ Told(IF step = 0 THEN Nothing ELSE log[step])
    /\ applied.step = IF step = 0 THEN 0 ELSE step - 1

\* The agent's command is on its way, or at the server, or lost.
AfterCommands ==
    /\ applied.step = step
    /\ IF acts = 0 THEN cmds = <<>> /\ doing = Nothing /\ count = srvCount
       ELSE (cmds = <<>> /\ Told(doing)) \/ \E c \in Command : OnItsWay(c)

CommandsInv ==
    /\ \A i \in 1..Len(wire) : wire[i].type = "sense_body" => wire[i].count = srvCount
    /\ IF Before THEN BeforeCommands ELSE AfterCommands
    /\ PredictionIsExact

\* No command yet.
LEMMA InitCommands == ASSUME Init PROVE CommandsInv
<1>1. Before /\ wire = <<>> /\ applied.step = 0 /\ count = srvCount
  BY DEF Init, Before
<1>2. LastBody("ILLEGAL") = "ILLEGAL"
  BY DEF LastBody
<1>3. BeforeCommands
  BY <1>2 DEF Init, BeforeCommands, Told, Nothing
<1> QED BY <1>1, <1>3 DEF CommandsInv, PredictionIsExact

\* A command that arrives is counted by the server as by the agent.
LEMMA ArrivedTold ==
    ASSUME TypeOK, ReceiveCommand, NEW c \in Command, OnItsWay(c)
    PROVE  cmds' = <<>> /\ Told(doing)'
<1>1. /\ cmds[1] = c /\ cmds' = <<>> /\ UNCHANGED <<count, lastBody, doneNeck>>
      /\ doing.body = "ILLEGAL" /\ ~doing.neck
  BY DEF ReceiveCommand, OnItsWay, Nothing, effects
<1>2. c.body \in Body /\ c.neck \in BOOLEAN /\ srvCount \in [CommandType -> Nat]
  BY DEF Command, TypeOK, ServerTypeOK
<1>3. doing' = [body |-> c.body, neck |-> c.neck]
  BY <1>1, <1>2 DEF ReceiveCommand
<1>4. "ILLEGAL" \notin CommandType
  BY ConstantsAssumption DEF CommandType
<1>5. srvCount' = [k \in CommandType |-> srvCount[k] +
        (IF k \in (IF c.body # "ILLEGAL" THEN {IF c.body = "TURN0" THEN "TURN" ELSE c.body} ELSE {})
                    \cup (IF c.neck THEN {"TURN_NECK"} ELSE {})
         THEN 1 ELSE 0)]
  BY <1>1, <1>2 DEF ReceiveCommand
<1>6. srvCount' = Plus(srvCount, c)
  BY <1>2, <1>4, <1>5 DEF Plus, Counted
<1>7. srvCount' = count'
  BY <1>1, <1>6 DEF OnItsWay
<1>8. lastBody' = LastBody(doing'.body) /\ doneNeck' = doing'.neck /\ doing'.neck \in BOOLEAN
  BY <1>1, <1>2, <1>3 DEF OnItsWay
<1> QED BY <1>1, <1>7, <1>8 DEF Told

\* A command that is lost leaves counts that differ where it counted.
LEMMA LostTold ==
    ASSUME TypeOK, UNCHANGED <<doing, srvCount, count, lastBody, doneNeck>>,
           NEW c \in Command, OnItsWay(c)
    PROVE  Told(doing)'
<1>1. c.body \in Body /\ c.neck \in BOOLEAN /\ srvCount \in [CommandType -> Nat]
  BY DEF Command, TypeOK, ServerTypeOK
<1>2. /\ doing.body = "ILLEGAL" /\ doing.neck = FALSE /\ LastBody("ILLEGAL") = "ILLEGAL"
      /\ lastBody = LastBody(c.body) /\ doneNeck = c.neck /\ count = Plus(srvCount, c)
  BY DEF OnItsWay, Nothing, LastBody
<1>3. ASSUME c.body # "ILLEGAL"
      PROVE  \E k \in CommandType \ {"TURN_NECK"} : srvCount[k] # count[k]
  <2> DEFINE k == IF c.body = "TURN0" THEN "TURN" ELSE c.body
  <2>1. k \in CommandType \ {"TURN_NECK"} /\ k \in Counted(c)
    BY <1>1, <1>3, ConstantsAssumption DEF CommandType, Body, Counted
  <2> HIDE DEF k
  <2>2. count[k] = srvCount[k] + 1 /\ srvCount[k] \in Nat
    BY <1>1, <1>2, <2>1 DEF Plus
  <2> QED BY <2>1, <2>2
<1>4. ASSUME c.neck PROVE srvCount["TURN_NECK"] # count["TURN_NECK"]
  <2>1. "TURN_NECK" \in CommandType /\ "TURN_NECK" \in Counted(c)
    BY <1>4 DEF CommandType, Counted
  <2>2. count["TURN_NECK"] = srvCount["TURN_NECK"] + 1 /\ srvCount["TURN_NECK"] \in Nat
    BY <1>1, <1>2, <2>1 DEF Plus
  <2> QED BY <2>2
<1>5. Told(doing)
  <2>1. LastBody(doing.body) = IF \E k \in CommandType \ {"TURN_NECK"} : srvCount[k] # count[k]
                               THEN "ILLEGAL" ELSE lastBody
    BY <1>2, <1>3
  <2>2. doing.neck = (doneNeck /\ srvCount["TURN_NECK"] = count["TURN_NECK"])
    BY <1>1, <1>2, <1>4
  <2> QED BY <2>1, <2>2 DEF Told
<1> QED BY <1>5 DEF Told


\* What the invariant of the commands reads, but for the wire and acts.
told == <<step, log, cmds, doing, srvCount, count, lastBody, doneNeck, applied>>

LEMMA CommandsFrame ==
    ASSUME CommandsInv, UNCHANGED told, Before' <=> Before, ~Before => acts' = acts,
           \A i \in 1..Len(wire') :
             wire'[i].type = "sense_body" => \E j \in 1..Len(wire) : wire[j] = wire'[i]
    PROVE  CommandsInv'
<1>1. \A i \in 1..Len(wire') : wire'[i].type = "sense_body" => wire'[i].count = srvCount'
  BY DEF CommandsInv, told
<1>2. BeforeCommands => BeforeCommands'
  BY DEF BeforeCommands, Told, told
<1>3. acts' = acts /\ AfterCommands => AfterCommands'
  BY DEF AfterCommands, OnItsWay, Told, told
<1>4. PredictionIsExact'
  BY DEF CommandsInv, PredictionIsExact, told
<1> QED BY <1>1, <1>2, <1>3, <1>4 DEF CommandsInv

LEMMA TailElements ==
    ASSUME TypeOK, wire # <<>>, wire' = Tail(wire)
    PROVE  /\ 1 \in 1..Len(wire)
           /\ \A i \in 1..Len(wire') : \E j \in 1..Len(wire) : wire[j] = wire'[i]
<1>1. wire \in Seq(Message) /\ Len(wire) \in Nat /\ Len(wire) > 0
  BY EmptySeq, LenProperties DEF TypeOK, NetTypeOK
<1>2. Len(wire') = Len(wire) - 1 /\ \A i \in 1..Len(wire') : wire'[i] = wire[i+1]
  BY <1>1, HeadTailProperties
<1>3. \A i \in 1..Len(wire') : i + 1 \in 1..Len(wire)
  BY <1>1, <1>2
<1> QED BY <1>1, <1>2, <1>3

LEMMA StepCommands ==
    ASSUME Asynchronous, ~Late, IInv, TimesInv, CommandsInv, Step PROVE CommandsInv'
<1>1. /\ step' = step + 1 /\ log' = Append(log, doing) /\ doing' = Nothing /\ cmds = <<>>
      /\ UNCHANGED <<cmds, srvCount, count, lastBody, doneNeck, applied>>
  BY DEF Step, world, effects
<1>2. step \in Nat /\ log \in Seq(Command) /\ Len(log) = step
  BY TypesOfTimes DEF IInv, TypeOK, ServerTypeOK
<1>3. log'[step'] = doing /\ \A k \in 1..step : log'[k] = log[k]
  BY <1>1, <1>2
<1>4. Told(doing) /\ applied.step = step
  <2>1. CASE step = 0
    <3>1. BeforeCommands
      BY <2>1 DEF CommandsInv, Before
    <3> QED BY <2>1, <3>1 DEF BeforeCommands
  <2>2. CASE step # 0
    <3>1. AfterCommands
      BY <2>2, StepReady DEF CommandsInv, Before
    <3>2. acts > 0 /\ acts # 0
      BY <2>2, StepReady
    <3>3. \A c : cmds # <<c>>
      BY <1>1
    <3> QED BY <3>1, <3>2, <3>3 DEF AfterCommands, OnItsWay
  <2> QED BY <2>1, <2>2
<1>5. Before' /\ \A i \in 1..Len(wire') : wire'[i].type = "sense_body" => wire'[i].count = srvCount'
  BY <1>1, StepReady DEF Before
<1>6. Told(log[step])'
  BY <1>1, <1>3, <1>4 DEF Told
<1>7. BeforeCommands'
  <2>1. step' # 0 /\ step' - 1 = step
    BY <1>1, <1>2
  <2> QED BY <1>1, <1>4, <1>6, <2>1 DEF BeforeCommands
<1>8. PredictionIsExact'
  <2>1. applied' = applied /\ (applied.step > 0 => log'[applied.step] = log[applied.step])
    BY <1>1, <1>2, <1>3, <1>4
  <2> QED BY <2>1 DEF CommandsInv, PredictionIsExact
<1> QED BY <1>5, <1>7, <1>8 DEF CommandsInv

\* What is heard before the sense_body.
LEMMA HearCommands ==
    ASSUME Asynchronous, IInv, TimesInv, WaitInv, CommandsInv,
           AnalyzeHearPlayer \/ AnalyzeHearReferee
    PROVE  CommandsInv'
<1>1. /\ wire # <<>> /\ wire' = Tail(wire) /\ UNCHANGED told
      /\ wire[1].type \in {"hear_player", "hear_referee"}
  BY DEF AnalyzeHearPlayer, AnalyzeHearReferee, Parse, told, server, world, effects
<1>2. Before /\ Before'
  BY <1>1, FirstOfWire DEF IInv, Before
<1> QED BY <1>1, <1>2, CommandsFrame, TailElements DEF IInv

\* The sense_body corrects the stored commands to those of the step that is over, and the
\* world model is predicted from them.
LEMMA SenseCommands ==
    ASSUME Asynchronous, IInv, TimesInv, WaitInv, CommandsInv, AnalyzeSenseBody
    PROVE  CommandsInv'
<1>1. /\ wire # <<>> /\ wire' = Tail(wire) /\ wire[1].type = "sense_body"
      /\ UNCHANGED <<step, log, cmds, doing, srvCount>>
      /\ CheckCommandCount(wire[1].count)
      /\ senseTime = current' \/ WorldUpdate(lastBody', doneNeck')
  BY DEF AnalyzeSenseBody, Parse, server
<1>2. TypeOK /\ step \in Nat /\ log \in Seq(Command) /\ Len(log) = step
  BY TypesOfTimes DEF IInv, TypeOK, ServerTypeOK
<1>3. /\ ~Before' /\ senseTime # current' /\ worldTime # current' /\ acts' = 0
      /\ agentStep' = step /\ Before
  BY SenseTimes DEF Before
<1>4. step # 0
  BY <1>1, <1>2, HeadTail DEF IInv
<1>5. wire[1].count = srvCount
  BY <1>1, <1>2, TailElements DEF CommandsInv
<1>6. cmds = <<>> /\ doing = Nothing /\ Told(log[step]) /\ applied.step = step - 1
  BY <1>3, <1>4 DEF CommandsInv, BeforeCommands
<1>7. lastBody' = LastBody(log[step].body) /\ doneNeck' = log[step].neck /\ count' = srvCount
  BY <1>1, <1>5, <1>6 DEF CheckCommandCount, Told
<1>8. applied' = [step |-> step, prev |-> step - 1,
                  effect |-> [body |-> LastBody(log[step].body), neck |-> log[step].neck]]
  BY <1>1, <1>3, <1>6, <1>7 DEF WorldUpdate
<1>9. AfterCommands'
  BY <1>1, <1>3, <1>6, <1>7, <1>8 DEF AfterCommands
<1>10. PredictionIsExact'
  BY <1>1, <1>2, <1>4, <1>8 DEF PredictionIsExact
<1>11. \A i \in 1..Len(wire') : wire'[i].type = "sense_body" => wire'[i].count = srvCount'
  BY <1>1, <1>2, TailElements DEF CommandsInv
<1> QED BY <1>3, <1>9, <1>10, <1>11 DEF CommandsInv

\* The see predicts nothing new.
LEMMA SeeCommands ==
    ASSUME Asynchronous, IInv, TimesInv, WaitInv, CommandsInv, AnalyzeSee
    PROVE  CommandsInv'
<1>1. /\ wire # <<>> /\ wire' = Tail(wire)
      /\ UNCHANGED <<step, log, cmds, doing, srvCount, count, lastBody, doneNeck>>
  BY DEF AnalyzeSee, Parse, server, effects
<1>2. ~Before /\ ~Before' /\ UNCHANGED <<applied, acts>>
  BY SeeTimes
<1>3. UNCHANGED told
  BY <1>1, <1>2 DEF told
<1> QED BY <1>1, <1>2, <1>3, CommandsFrame, TailElements DEF IInv

\* A decision is the step's first and puts its command on its way.
LEMMA DecisionCommands ==
    ASSUME Asynchronous, IInv, TimesInv, WaitInv, CommandsInv, EndOfMessages \/ Timeout
    PROVE  CommandsInv'
<1>1. CASE Act /\ AfterSense /\ step # 0 /\ ~InWire("sense_body") /\ lastDecision # current
  <2>1. /\ UNCHANGED <<step, log, wire, doing, srvCount>> /\ acts' = acts + 1
    BY <1>1 DEF Act, server
  <2>2. ~Before /\ ~Before' /\ applied' = applied
    BY <1>1, DecisionTimes DEF Before
  <2>3. acts = 0
    BY <1>1, <2>2, TypesOfTimes DEF TimesInv, AfterTimes, IInv
  <2>4. cmds = <<>> /\ doing = Nothing /\ count = srvCount /\ applied.step = step
    BY <2>2, <2>3 DEF CommandsInv, AfterCommands
  <2>5. PICK b \in Body, n \in BOOLEAN :
          /\ lastBody' = LastBody(b) /\ doneNeck' = n
          /\ count' = Plus(count, [body |-> b, neck |-> n])
          /\ cmds' = Append(cmds, [body |-> b, neck |-> n])
    BY <1>1 DEF Act, Plus, Counted
  <2> DEFINE c == [body |-> b, neck |-> n]
  <2>6. c \in Command /\ c.body = b /\ c.neck = n
    BY DEF Command
  <2>7. cmds' = <<c>>
    BY <2>4, <2>5
  <2> HIDE DEF c
  <2>8. OnItsWay(c)'
    BY <2>1, <2>4, <2>5, <2>6, <2>7 DEF OnItsWay, c
  <2>9. AfterCommands'
    BY <2>1, <2>2, <2>3, <2>4, <2>6, <2>8 DEF AfterCommands
  <2>10. PredictionIsExact' /\ \A i \in 1..Len(wire') :
                                 wire'[i].type = "sense_body" => wire'[i].count = srvCount'
    BY <2>1, <2>2 DEF CommandsInv, PredictionIsExact
  <2> QED BY <2>2, <2>9, <2>10 DEF CommandsInv
<1>2. CASE UNCHANGED <<server, net, times, world, effects, history>>
  <2>1. UNCHANGED told /\ wire' = wire /\ acts' = acts
    BY <1>2 DEF told, server, net, world, effects, history
  <2>2. Before' <=> Before
    BY DecisionTimes
  <2> QED BY <2>1, <2>2, CommandsFrame
<1> QED BY <1>1, <1>2, DecisionTime

\* The command arrives, or is lost, or nothing happens to it.
LEMMA WithinStepCommands ==
    ASSUME Asynchronous, IInv, TimesInv, WaitInv, CommandsInv, WithinStep
    PROVE  CommandsInv'
<1>1. TypeOK /\ step \in Nat /\ acts \in Nat
  BY TypesOfTimes DEF IInv
<1>2. UNCHANGED <<step, log, count, lastBody, doneNeck, applied, acts>> /\ (Before' <=> Before)
  BY WithinStepTimes DEF WithinStep, SendSee, Lose, ReceiveCommand, ServerStop, vars, server,
                         world, effects, history
<1>3. \A i \in 1..Len(wire') :
        wire'[i].type = "sense_body" => \E j \in 1..Len(wire) : wire[j] = wire'[i]
  BY WireKept
<1>4. PredictionIsExact'
  BY <1>2 DEF CommandsInv, PredictionIsExact
<1>5. CASE UNCHANGED <<cmds, doing, srvCount>>
  <2>1. UNCHANGED told
    BY <1>2, <1>5 DEF told
  <2> QED BY <1>2, <1>3, <2>1, CommandsFrame
<1>6. ASSUME cmds # <<>>
      PROVE  /\ ~Before /\ acts # 0 /\ applied.step = step
             /\ \E c \in Command : OnItsWay(c)
  <2>1. ~Before
    BY <1>6 DEF CommandsInv, BeforeCommands
  <2> QED BY <1>6, <2>1 DEF CommandsInv, AfterCommands
<1>7. CASE ReceiveCommand
  <2>1. PICK c \in Command : OnItsWay(c)
    BY <1>6, <1>7 DEF ReceiveCommand
  <2>2. ~Before /\ acts # 0 /\ applied.step = step /\ wire' = wire
    BY <1>6, <1>7 DEF ReceiveCommand
  <2>3. cmds' = <<>> /\ Told(doing)'
    BY <1>1, <1>7, <2>1, ArrivedTold
  <2>4. AfterCommands'
    BY <1>2, <2>2, <2>3 DEF AfterCommands
  <2>5. ~InWire("sense_body")
    BY <2>2 DEF Before
  <2>6. \A i \in 1..Len(wire') : wire'[i].type = "sense_body" => wire'[i].count = srvCount'
    BY <2>2, <2>5 DEF InWire, Has
  <2> QED BY <1>2, <1>4, <2>2, <2>4, <2>6 DEF CommandsInv
<1>8. CASE Lose /\ cmds # <<>> /\ cmds' = Tail(cmds) /\ wire' = wire
  <2>1. PICK c \in Command : OnItsWay(c)
    BY <1>6, <1>8
  <2>2. ~Before /\ acts # 0 /\ applied.step = step
    BY <1>6, <1>8
  <2>3. cmds' = <<>>
    BY <1>8, <2>1 DEF OnItsWay
  <2>4. UNCHANGED <<doing, srvCount>>
    BY <1>8 DEF Lose, server
  <2>5. Told(doing)'
    BY <1>1, <1>2, <2>1, <2>4, LostTold
  <2>6. AfterCommands'
    BY <1>2, <2>2, <2>3, <2>5 DEF AfterCommands
  <2>7. \A i \in 1..Len(wire') : wire'[i].type = "sense_body" => wire'[i].count = srvCount'
    BY <1>8, <2>4 DEF CommandsInv
  <2> QED BY <1>2, <1>4, <2>2, <2>6, <2>7 DEF CommandsInv
<1> QED BY <1>5, <1>7, <1>8 DEF WithinStep, SendSee, Lose, ServerStop, vars, server, net

LEMMA NextCommands ==
    ASSUME Asynchronous, ~Late, IInv, TimesInv, WaitInv, CommandsInv, [Next]_vars
    PROVE  CommandsInv'
BY NoThink, StepCommands, HearCommands, SenseCommands, SeeCommands, DecisionCommands,
   WithinStepCommands
   DEF WithinStep, Next, Agent, Server

\* In asynchronous mode, if a command reaches its step or is lost, what the agent predicts of a
\* step is what the server executed in it, for every number of losses of commands, sees and
\* what players say.
THEOREM PredictionIsRight ==
    ASSUME Asynchronous, ~Late PROVE Spec => []PredictionIsExact
<1>1. Init => IInv /\ TimesInv /\ WaitInv /\ CommandsInv
  BY InitInv, InitTimes, InitCommands
<1>2. TypeOK' /\ IInv /\ TimesInv /\ WaitInv /\ CommandsInv /\ [Next]_vars
        => IInv' /\ TimesInv' /\ WaitInv' /\ CommandsInv'
  BY NextInv, NextTimes, NextCommands
<1>3. CommandsInv => PredictionIsExact
  BY DEF CommandsInv
<1> QED BY <1>1, <1>2, <1>3, TypeCorrect, PTL DEF Spec


=============================================================================
