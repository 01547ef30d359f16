--------------------------- MODULE SeeSynch_proofs ---------------------------
(***************************************************************************)
(* Proofs about the see synchronization, for all values of its constants.  *)
(*                                                                         *)
(* TypeCorrect: every reachable state has its type.                        *)
(*                                                                         *)
(* Synchronized: the inductive invariant SynchInv.  What is on the wire is *)
(* in the order the server sends it; of an agent that has lost no command  *)
(* and no cycle, the sees it has counted are shots of the server's timer,  *)
(* a timing it has recognised is where the sees come, and the countdown    *)
(* plus the cycles it has counted since the last see is the interval.      *)
(*                                                                         *)
(* NoSeeIsMissed, TimingStaysTrue, PredictionStaysTrue: the properties of  *)
(* SeeSynch that follow, each from the assumptions on the environment that *)
(* it needs.                                                               *)
(***************************************************************************)
EXTENDS SeeSynch, NatTheorems, TLAPS

-----------------------------------------------------------------------------
(* The methods of SeeState keep its type.                                  *)

\* SeeState::setViewMode returns a SeeState.
LEMMA SetViewModeType ==
    ASSUME NEW s \in SeeStateType, NEW w \in ViewWidth
    PROVE  SetViewMode(s, w) \in SeeStateType
<1>1. CyclesOf(s, w) \in 0..InitTill
  BY DEF CyclesOf, ViewWidth, InitTill
<1> QED BY <1>1 DEF SetViewMode, SeeStateType

\* SeeState::setLastSeeTiming returns a SeeState.
LEMMA SetLastSeeTimingType ==
    ASSUME NEW s \in SeeStateType, NEW timing \in Timing
    PROVE  SetLastSeeTiming(s, timing) \in SeeStateType
BY DEF SetLastSeeTiming, SeeStateType

\* SeeState::setNewCycle returns a SeeState; the countdown stops at 0.
LEMMA SetNewCycleType ==
    ASSUME NEW s \in SeeStateType, NEW newCycle \in BOOLEAN
    PROVE  SetNewCycle(s, newCycle) \in SeeStateType
<1>1. CountDown(s.till) \in 0..InitTill
  BY DEF CountDown, SeeStateType, InitTill
<1> DEFINE shifted == [i \in 1..3 |-> IF i = 1 THEN s.count ELSE s.history[i - 1]]
<1>2. shifted \in [1..3 -> 0..MaxCount]
  BY DEF SeeStateType, MaxCount
<1>3. SetNewCycle(s, newCycle) =
        IF ~newCycle THEN s
        ELSE [s EXCEPT !.till = CountDown(s.till), !.history = shifted,
                       !.count = 0, !.seen = FALSE]
  BY DEF SetNewCycle
<1> HIDE DEF shifted
<1>4. 0 \in 0..MaxCount
  BY DEF MaxCount
<1> QED BY <1>1, <1>2, <1>3, <1>4 DEF SeeStateType

\* SeeState::getNextTiming returns a Timing.
LEMMA GetNextTimingType ==
    ASSUME NEW s \in SeeStateType, NEW w \in ViewWidth, NEW q \in ViewQuality
    PROVE  GetNextTiming(s, w, q) \in Timing
BY DEF GetNextTiming, SeeStateType, Timing, SynchTiming, ViewWidth, ViewQuality

\* The counting part of SeeState::updateBySee returns a SeeState.
LEMMA CountSeeType ==
    ASSUME NEW s \in SeeStateType, NEW newCycle \in BOOLEAN
    PROVE  CountSee(s, newCycle) \in SeeStateType
<1>1. SetNewCycle(s, newCycle) \in SeeStateType
  BY SetNewCycleType
<1>2. ASSUME NEW x \in SeeStateType
      PROVE  [x EXCEPT !.count = 1, !.seen = TRUE] \in SeeStateType
  BY 1 \in 0..MaxCount DEF SeeStateType, MaxCount
<1>3. ASSUME NEW n \in 0..MaxCount, NEW timing \in Timing
      PROVE  [s EXCEPT !.count = n, !.timing = timing] \in SeeStateType
  BY DEF SeeStateType
<1>4. (IF s.count < MaxCount THEN s.count + 1 ELSE s.count) \in 0..MaxCount
  BY DEF SeeStateType, MaxCount
<1>5. (IF IsSynch(s) THEN "TIME_NOSYNCH" ELSE s.timing) \in Timing
  BY DEF SeeStateType, Timing
<1> QED BY <1>1, <1>2, <1>3, <1>4, <1>5 DEF CountSee

\* SeeState::updateBySee returns a SeeState.
LEMMA UpdateBySeeType ==
    ASSUME NEW s \in SeeStateType, NEW newCycle \in BOOLEAN,
           NEW w \in ViewWidth, NEW q \in ViewQuality
    PROVE  UpdateBySee(s, newCycle, w, q) \in SeeStateType
<1> DEFINE c == CountSee(s, newCycle)
           e == IF c.till > 0 THEN SetViewMode([c EXCEPT !.till = 0], w) ELSE c
<1>1. c \in SeeStateType
  BY CountSeeType
<1>2. [c EXCEPT !.till = 0] \in SeeStateType
  BY <1>1 DEF SeeStateType, InitTill
<1>3. e \in SeeStateType
  BY <1>1, <1>2, SetViewModeType
<1>4. SetLastSeeTiming(e, GetNextTiming(e, w, q)) \in SeeStateType
  BY <1>3, GetNextTimingType, SetLastSeeTimingType
<1>5. SetLastSeeTiming(c, "TIME_NOSYNCH") \in SeeStateType
  BY <1>1, SetLastSeeTimingType DEF Timing
<1> QED BY <1>1, <1>4, <1>5 DEF UpdateBySee, ViewQuality

\* SeeState::setSynchSeeMode followed by setViewMode returns a SeeState.
LEMMA SetSynchSeeModeType ==
    ASSUME NEW s \in SeeStateType, NEW w \in ViewWidth
    PROVE  SetSynchSeeMode(s, w) \in SeeStateType
<1>1. [s EXCEPT !.synchSee = TRUE] \in SeeStateType
  BY DEF SeeStateType
<1> QED BY <1>1, SetViewModeType DEF SetSynchSeeMode

-----------------------------------------------------------------------------
(* The agent's steps.                                                      *)

Sent == Seq(ViewMode)

\* The adjust methods return a SeeState and the commands they send.
LEMMA AdjustType ==
    ASSUME NEW s \in SeeStateType, NEW v \in ViewMode
    PROVE  /\ AdjustSeeSynchNormalMode(s, v) \in [see : SeeStateType, sent : Sent]
           /\ AdjustSeeSynchSynchMode(s, v) \in [see : SeeStateType, sent : Sent]
<1>1. ASSUME NEW r \in BOOLEAN, NEW timing \in Timing, NEW w \in ViewWidth, NEW p \in BOOLEAN
      PROVE  Adjusted(s, v, r, timing, w, p) \in [see : SeeStateType, sent : Sent]
  <2> DEFINE to(x, new) == [see |-> SetViewMode(x, new.width), sent |-> <<new>>]
  <2>1. ASSUME NEW x \in SeeStateType, NEW u \in ViewWidth, NEW q \in ViewQuality
        PROVE  to(x, Mode(u, q)) \in [see : SeeStateType, sent : Sent]
    <3>1. Mode(u, q) \in ViewMode /\ Mode(u, q).width = u
      BY DEF Mode, ViewMode
    <3>2. SetViewMode(x, u) \in SeeStateType
      BY SetViewModeType
    <3> QED BY <3>1, <3>2 DEF Sent
  <2>2. SetLastSeeTiming(s, timing) \in SeeStateType
    BY SetLastSeeTimingType
  <2>3. [see |-> s, sent |-> <<>>] \in [see : SeeStateType, sent : Sent]
    BY DEF Sent
  <2>4. {"NARROW", "NORMAL"} \subseteq ViewWidth /\ {"LOW", "HIGH"} \subseteq ViewQuality
    BY DEF ViewWidth, ViewQuality
  <2>5. to(SetLastSeeTiming(s, timing), Mode(w, "HIGH")) \in [see : SeeStateType, sent : Sent]
    BY <2>1, <2>2, <2>4
  <2>6. /\ to(s, Mode("NARROW", "HIGH")) \in [see : SeeStateType, sent : Sent]
        /\ to(s, Mode("NARROW", "LOW")) \in [see : SeeStateType, sent : Sent]
    BY <2>1, <2>4
  <2> HIDE DEF to
  <2>7. Adjusted(s, v, r, timing, w, p) =
          CASE r -> to(SetLastSeeTiming(s, timing), Mode(w, "HIGH"))
            [] ~r /\ mode = "PlayOn" /\ v.quality = "LOW" -> to(s, Mode("NARROW", "HIGH"))
            [] ~r /\ mode # "PlayOn" /\ p -> to(s, Mode("NARROW", "LOW"))
            [] OTHER -> [see |-> s, sent |-> <<>>]
    BY DEF Adjusted, to
  <2> QED BY <2>3, <2>5, <2>6, <2>7
<1>2. /\ {"TIME_0_00", "TIME_50_0"} \subseteq Timing
      /\ {"NORMAL", "NARROW"} \subseteq ViewWidth
  BY DEF Timing, SynchTiming, ViewWidth
<1>3. /\ IsSynchedSeeCountNormalMode(s) \in BOOLEAN
      /\ IsSynchedSeeCountSynchMode(s) \in BOOLEAN
  BY DEF IsSynchedSeeCountNormalMode, IsSynchedSeeCountSynchMode
<1> QED BY <1>1, <1>2, <1>3 DEF AdjustSeeSynchNormalMode, AdjustSeeSynchSynchMode

\* The view mode after some change_view commands, at the agent and the server.
LEMMA LastViewType ==
    ASSUME NEW v \in ViewMode, NEW sent \in Sent
    PROVE  LastView(v, sent) \in ViewMode
<1>1. CASE sent = <<>>
  BY <1>1 DEF LastView
<1>2. CASE sent # <<>>
  <2>1. Len(sent) \in 1..Len(sent)
    BY <1>2 DEF Sent
  <2> QED BY <1>2, <2>1 DEF LastView, Sent
<1> QED BY <1>1, <1>2

SpentType == [message : 0..MaxMessageLoss, command : 0..MaxCommandLoss, mode : 0..MaxModeChanges]

\* Spending one of a bounded count stays within the bound.
LEMMA SpendOne ==
    ASSUME NEW n \in Nat, NEW k \in 0..n, k < n
    PROVE  k + 1 \in 0..n
OBVIOUS

LEMMA SpendType ==
    ASSUME NEW s \in SpentType
    PROVE  /\ s.message < MaxMessageLoss => [s EXCEPT !.message = @ + 1] \in SpentType
           /\ s.command < MaxCommandLoss => [s EXCEPT !.command = @ + 1] \in SpentType
           /\ s.mode < MaxModeChanges => [s EXCEPT !.mode = @ + 1] \in SpentType
<1>1. /\ s.message \in 0..MaxMessageLoss
      /\ s.command \in 0..MaxCommandLoss
      /\ s.mode \in 0..MaxModeChanges
  BY DEF SpentType
<1>2. /\ s.message < MaxMessageLoss => s.message + 1 \in 0..MaxMessageLoss
      /\ s.command < MaxCommandLoss => s.command + 1 \in 0..MaxCommandLoss
      /\ s.mode < MaxModeChanges => s.mode + 1 \in 0..MaxModeChanges
  BY <1>1, SpendOne, ConstantsAssumption
<1>3. ASSUME NEW x \in 0..MaxMessageLoss PROVE [s EXCEPT !.message = x] \in SpentType
  BY DEF SpentType
<1>4. ASSUME NEW x \in 0..MaxCommandLoss PROVE [s EXCEPT !.command = x] \in SpentType
  BY DEF SpentType
<1>5. ASSUME NEW x \in 0..MaxModeChanges PROVE [s EXCEPT !.mode = x] \in SpentType
  BY DEF SpentType
<1> QED BY <1>2, <1>3, <1>4, <1>5

LEMMA DeliverType ==
    ASSUME NEW sent \in Sent, srvView \in ViewMode, spent \in SpentType, Deliver(sent)
    PROVE  srvView' \in ViewMode /\ spent' \in SpentType
<1>1. ASSUME NEW v \in ViewMode PROVE Received(v) \in ViewMode
  BY DEF Received, ViewMode, ViewQuality
<1>2. sent # <<>> => sent[1] \in ViewMode /\ sent[Len(sent)] \in ViewMode
  <2>1. sent # <<>> => Len(sent) \in 1..Len(sent) /\ 1 \in 1..Len(sent)
    BY DEF Sent
  <2> QED BY <2>1 DEF Sent
<1>3. spent' = spent \/ (spent.command < MaxCommandLoss /\ spent' = [spent EXCEPT !.command = @ + 1])
  BY DEF Deliver
<1>4. spent' \in SpentType
  BY <1>3, SpendType
<1>5. srvView' \in ViewMode
  BY <1>1, <1>2 DEF Deliver
<1> QED BY <1>4, <1>5

\* action() leaves a SeeState and a view mode behind.
LEMMA ActionType ==
    ASSUME TypeOK, Action
    PROVE  view' \in ViewMode /\ see' \in SeeStateType
           /\ srvView' \in ViewMode /\ spent' \in SpentType
<1> DEFINE s0 == IF IsSynch(see) /\ see.till = 0 /\ ~SeeIsCurrent
                 THEN SetLastSeeTiming(see, "TIME_NOSYNCH")
                 ELSE see
           a == IF SynchMode /\ ~IsSynch(s0)
                THEN AdjustSeeSynchSynchMode(s0, view)
                ELSE [see |-> s0, sent |-> <<>>]
           v1 == LastView(view, a.sent)
<1>1. s0 \in SeeStateType
  BY SetLastSeeTimingType DEF TypeOK, Timing
<1> HIDE DEF s0
<1>2. a \in [see : SeeStateType, sent : Sent]
  <2>1. AdjustSeeSynchSynchMode(s0, view) \in [see : SeeStateType, sent : Sent]
    BY <1>1, AdjustType DEF TypeOK
  <2>2. [see |-> s0, sent |-> <<>>] \in [see : SeeStateType, sent : Sent]
    BY <1>1 DEF Sent
  <2> QED BY <2>1, <2>2
<1> HIDE DEF a
<1>3. v1 \in ViewMode
  BY <1>2, LastViewType, SMTT(30) DEF TypeOK
<1> HIDE DEF v1
<1>4. PICK w \in RequestedWidths(a.see, v1) :
        LET sent == a.sent \o DoChangeView(a.see, v1, w)
        IN  /\ view' = LastView(view, sent)
            /\ see' = SetViewMode(a.see, LastView(view, sent).width)
            /\ Deliver(sent)
  BY DEF Action, s0, a, v1
<1>5. w \in ViewWidth
  <2>1. v1.width \in ViewWidth
    BY <1>3 DEF ViewMode
  <2> QED BY <2>1 DEF RequestedWidths, ViewSynchWidths, ViewWidth
<1>6. DoChangeView(a.see, v1, w) \in Sent
  <2>1. Mode(w, "HIGH") \in ViewMode
    BY <1>5 DEF Mode, ViewMode, ViewQuality
  <2> QED BY <2>1 DEF DoChangeView, Sent
<1> DEFINE sent == a.sent \o DoChangeView(a.see, v1, w)
<1>7. sent \in Sent
  BY <1>2, <1>6 DEF Sent
<1>8. view' = LastView(view, sent) /\ see' = SetViewMode(a.see, view'.width) /\ Deliver(sent)
  BY <1>4
<1> HIDE DEF sent
<1>9. view' \in ViewMode
  BY <1>7, <1>8, LastViewType DEF TypeOK
<1>10. view'.width \in ViewWidth
  BY <1>9 DEF ViewMode
<1>11. see' \in SeeStateType
  BY <1>2, <1>8, <1>10, SetViewModeType
<1>12. srvView' \in ViewMode /\ spent' \in SpentType
  BY <1>7, <1>8, DeliverType DEF TypeOK, SpentType
<1> QED BY <1>9, <1>11, <1>12

\* The interval between two sees is at most 8 shots of the see timer.
LEMMA SeeIntervalType ==
    ASSUME srvView \in ViewMode
    PROVE  SeeInterval \in 0..8
<1>1. srvView.width \in ViewWidth
  BY DEF ViewMode
<1>2. VisInterval(srvView) \in 0..8
  BY <1>1 DEF VisInterval, ViewWidth
<1>3. SynchSeeInterval(srvView) \in 0..8
  BY <1>1 DEF SynchSeeInterval, ViewWidth
<1> QED BY <1>2, <1>3 DEF SeeInterval

\* What updateCurrentTime leaves behind.
LEMMA UpdateCurrentTimeType ==
    ASSUME clock \in Clock, decided \in BOOLEAN, NEW m, UpdateCurrentTime(m)
    PROVE  clock' \in Clock /\ decided' \in BOOLEAN
BY DEF UpdateCurrentTime, Clock

\* Handling a message leaves the rest of the messages.
LEMMA ParseType ==
    ASSUME wire \in Seq(Message), NEW m, Parse(m)
    PROVE  wire' \in Seq(Message)
BY DEF Parse

-----------------------------------------------------------------------------
\* Every variable of the agent and of the server model keeps its type, for every
\* value of the constants: no see count, countdown or offset leaves its range.
THEOREM TypeCorrect == Spec => []TypeOK
<1>1. Init => TypeOK
  <2> SUFFICES ASSUME Init PROVE TypeOK
    OBVIOUS
  <2>1. Mode("NORMAL", "HIGH") \in ViewMode
    BY DEF Mode, ViewMode, ViewWidth, ViewQuality
  <2>2. InitSeeState \in SeeStateType
    <3>1. [i \in 1..3 |-> 0] \in [1..3 -> 0..MaxCount]
      BY DEF MaxCount
    <3> QED BY <3>1 DEF InitSeeState, SeeStateType, Timing, MaxCount, InitTill
  <2>3. spent \in SpentType
    <3>1. 0 \in 0..MaxMessageLoss /\ 0 \in 0..MaxCommandLoss /\ 0 \in 0..MaxModeChanges
      BY ConstantsAssumption
    <3>2. spent = [message |-> 0, command |-> 0, mode |-> 0]
      BY DEF Init
    <3> QED BY <3>1, <3>2 DEF SpentType
  <2>4. clock \in Clock
    BY DEF Init, Clock
  <2>5. wire \in Seq(Message)
    BY DEF Init
  <2>6. srvView \in ViewMode /\ view \in ViewMode
    BY <2>1 DEF Init
  <2>7. see \in SeeStateType
    BY <2>2 DEF Init
  <2>8. t \in 0..23 /\ elapsed \in 0..8 /\ srvMode \in PlayModes /\ mode \in PlayModes
    BY DEF Init
  <2>9. srvSynchSee \in BOOLEAN /\ decided \in BOOLEAN
    BY Zenon DEF Init
  <2>10. lastSee \in 0..NoSee
    BY DEF Init, NoSee
  <2> QED BY <2>3, <2>4, <2>5, <2>6, <2>7, <2>8, <2>9, <2>10 DEF TypeOK, SpentType
<1>2. TypeOK /\ [Next]_vars => TypeOK'
  <2> SUFFICES ASSUME TypeOK, [Next]_vars PROVE TypeOK'
    OBVIOUS
  <2>0. srvView.width \in ViewWidth /\ view.width \in ViewWidth /\ view.quality \in ViewQuality
    BY DEF TypeOK, ViewMode
  <2>1. CASE AnalyzeSenseBody
    <3>1. clock' \in Clock /\ decided' \in BOOLEAN
      BY <2>1, UpdateCurrentTimeType DEF AnalyzeSenseBody, TypeOK
    <3>2. wire' \in Seq(Message)
      BY <2>1, ParseType DEF AnalyzeSenseBody, TypeOK
    <3>3. see' \in SeeStateType
      <4>1. NewCycle(TRUE) \in BOOLEAN
        BY DEF NewCycle, TypeOK, Clock, TimeChanges
      <4> QED BY <4>1, <2>1, SetNewCycleType DEF AnalyzeSenseBody, UpdateBySenseBody, TypeOK
    <3> QED BY <2>1, <3>1, <3>2, <3>3 DEF AnalyzeSenseBody, TypeOK, serverVars
  <2>2. CASE AnalyzeSee
    <3>1. clock' \in Clock /\ decided' \in BOOLEAN
      BY <2>2, UpdateCurrentTimeType DEF AnalyzeSee, TypeOK
    <3>2. wire' \in Seq(Message)
      BY <2>2, ParseType DEF AnalyzeSee, TypeOK
    <3> DEFINE s == UpdateBySee(see, NewCycle(FALSE), view.width, view.quality)
               a == IF ~SynchMode /\ ~IsSynch(s)
                    THEN AdjustSeeSynchNormalMode(s, view)
                    ELSE [see |-> s, sent |-> <<>>]
    <3>3. s \in SeeStateType
      <4>1. NewCycle(FALSE) \in BOOLEAN
        BY DEF NewCycle, TypeOK, Clock, TimeChanges
      <4> QED BY <4>1, <2>0, UpdateBySeeType DEF TypeOK
    <3> HIDE DEF s
    <3>4. a \in [see : SeeStateType, sent : Sent]
      <4>1. AdjustSeeSynchNormalMode(s, view) \in [see : SeeStateType, sent : Sent]
        BY <3>3, AdjustType DEF TypeOK
      <4>2. [see |-> s, sent |-> <<>>] \in [see : SeeStateType, sent : Sent]
        BY <3>3 DEF Sent
      <4> QED BY <4>1, <4>2
    <3>5. see' = a.see /\ view' = LastView(view, a.sent) /\ Deliver(a.sent)
      BY <2>2 DEF AnalyzeSee, s
    <3> HIDE DEF a
    <3>6. view' \in ViewMode
      BY <3>4, <3>5, LastViewType DEF TypeOK
    <3>7. srvView' \in ViewMode /\ spent' \in SpentType
      BY <3>4, <3>5, DeliverType DEF TypeOK, SpentType
    <3>8. lastSee' \in 0..NoSee
      BY <2>2 DEF AnalyzeSee, TypeOK, Phase, NoSee
    <3>9. UNCHANGED <<t, elapsed, srvSynchSee, srvMode, mode>> /\ see' \in SeeStateType
      BY <2>2, <3>4, <3>5 DEF AnalyzeSee
    <3> QED BY <3>1, <3>2, <3>6, <3>7, <3>8, <3>9 DEF TypeOK, SpentType
  <2>3. CASE AnalyzeHearReferee
    <3>1. clock' \in Clock /\ decided' \in BOOLEAN
      BY <2>3, UpdateCurrentTimeType DEF AnalyzeHearReferee, TypeOK
    <3>2. wire' \in Seq(Message)
      BY <2>3, ParseType DEF AnalyzeHearReferee, TypeOK
    <3> QED BY <2>3, <3>1, <3>2 DEF AnalyzeHearReferee, TypeOK, serverVars
  <2>4. CASE AnalyzeOK
    <3>1. wire' \in Seq(Message)
      BY <2>4, ParseType DEF AnalyzeOK, TypeOK
    <3>2. see' \in SeeStateType
      BY <2>4, <2>0, SetSynchSeeModeType DEF AnalyzeOK, TypeOK
    <3> QED BY <2>4, <3>1, <3>2 DEF AnalyzeOK, TypeOK, serverVars, NoSee
  <2>5. CASE Decide
    <3>1. view' \in ViewMode /\ see' \in SeeStateType /\ srvView' \in ViewMode /\ spent' \in SpentType
      BY <2>5, ActionType DEF Decide
    <3> QED BY <2>5, <3>1 DEF Decide, TypeOK, SpentType
  <2>6. CASE Think
    <3>1. view' \in ViewMode /\ see' \in SeeStateType /\ srvView' \in ViewMode /\ spent' \in SpentType
      BY <2>6, ActionType DEF Think
    <3>2. wire' \in Seq(Message)
      BY <2>6, ParseType DEF Think, TypeOK
    <3> QED BY <2>6, <3>1, <3>2 DEF Think, TypeOK, SpentType
  <2>7. CASE Tick
    <3> DEFINE n == (t + 1) % 24
               due == IsShot(n) /\ elapsed + 1 >= SeeInterval
    <3>1. n \in 0..23
      BY DEF TypeOK
    <3> HIDE DEF n
    <3>2. elapsed' = IF due THEN 0 ELSE IF IsShot(n) THEN elapsed + 1 ELSE elapsed
      BY <2>7 DEF Tick, n
    <3>3. elapsed' \in 0..8
      BY <3>2, SeeIntervalType DEF TypeOK
    <3>4. t' \in 0..23
      BY <2>7, <3>1 DEF Tick, n
    <3>5. clock' \in Clock
      BY <2>7 DEF Tick, TypeOK, Clock
    <3>6. wire' = If(Phase(n) = 0, "sense_body") \o If(due, "see")
                    \o If(SynchMode /\ Phase(n) = 4, "think")
      BY <2>7 DEF Tick, n
    <3>7. wire' \in Seq(Message)
      <4>1. ASSUME NEW b \in BOOLEAN, NEW m \in Message PROVE If(b, m) \in Seq(Message)
        BY DEF If
      <4>2. {"sense_body", "see", "think"} \subseteq Message
        BY DEF Message
      <4>3. due \in BOOLEAN /\ (Phase(n) = 0) \in BOOLEAN /\ (SynchMode /\ Phase(n) = 4) \in BOOLEAN
        OBVIOUS
      <4> HIDE DEF due
      <4>4. /\ If(Phase(n) = 0, "sense_body") \in Seq(Message)
            /\ If(due, "see") \in Seq(Message)
            /\ If(SynchMode /\ Phase(n) = 4, "think") \in Seq(Message)
        BY <4>1, <4>2, <4>3
      <4> QED BY <3>6, <4>4
    <3> QED BY <2>7, <3>3, <3>4, <3>5, <3>7 DEF Tick, TypeOK
  <2>8. CASE SetPlayMode
    <3>1. wire' \in Seq(Message)
      <4>1. wire' = <<"hear">> \o wire \/ wire' = Append(wire, "hear")
        BY <2>8 DEF SetPlayMode
      <4>2. "hear" \in Message /\ wire \in Seq(Message)
        BY DEF TypeOK, Message
      <4>3. <<"hear">> \o wire \in Seq(Message)
        BY <4>2
      <4>4. Append(wire, "hear") \in Seq(Message)
        BY <4>2
      <4> QED BY <4>1, <4>3, <4>4
    <3>2. spent' \in SpentType
      <4>1. spent \in SpentType
        BY DEF TypeOK, SpentType
      <4>2. spent.mode < MaxModeChanges /\ spent' = [spent EXCEPT !.mode = @ + 1]
        BY <2>8 DEF SetPlayMode
      <4> QED BY <4>1, <4>2, SpendType
    <3>3. srvMode' \in PlayModes
      BY <2>8 DEF SetPlayMode
    <3> QED BY <2>8, <3>1, <3>2, <3>3 DEF SetPlayMode, TypeOK, SpentType, agentVars
  <2>9. CASE LoseMessage
    <3>1. wire' \in Seq(Message)
      BY <2>9 DEF LoseMessage, TypeOK
    <3>2. spent' \in SpentType
      <4>1. spent \in SpentType
        BY DEF TypeOK, SpentType
      <4>2. spent.message < MaxMessageLoss /\ spent' = [spent EXCEPT !.message = @ + 1]
        BY <2>9 DEF LoseMessage
      <4> QED BY <4>1, <4>2, SpendType
    <3> QED BY <2>9, <3>1, <3>2 DEF LoseMessage, TypeOK, SpentType, serverVars, agentVars
  <2>10. CASE AcceptSynchSee
    <3>1. wire' \in Seq(Message)
      BY <2>10 DEF AcceptSynchSee, TypeOK, Message
    <3>2. srvView' \in ViewMode
      BY <2>10 DEF AcceptSynchSee, TypeOK, ViewMode, ViewQuality
    <3> QED BY <2>10, <3>1, <3>2 DEF AcceptSynchSee, TypeOK, agentVars
  <2>11. CASE UNCHANGED vars
    BY <2>11 DEF TypeOK, vars, serverVars, agentVars
  <2> QED BY <2>1, <2>2, <2>3, <2>4, <2>5, <2>6, <2>7, <2>8, <2>9, <2>10, <2>11
          DEF Next, Agent, Server
<1> QED BY <1>1, <1>2, PTL DEF Spec

-----------------------------------------------------------------------------
(* The inductive invariant: what is on the wire.                           *)

\* The messages of a datagram queue, and which are on their way to the agent.
On(w, m) == \E i \in 1..Len(w) : w[i] = m
Has(m) == On(wire, m)

Pending      == Has("sense_body")      \* the agent does not know of the cycle yet
SeeArrives   == Has("see")
ThinkArrives == Has("think")
OkArrives    == Has("ok_synch_see")
HearArrives  == Has("hear")

\* The order in which the server sends the messages of a cycle.
Rank(m) == CASE m = "sense_body" -> 1
             [] m = "see" -> 2
             [] m = "think" -> 3
             [] m = "ok_synch_see" -> 4
             [] OTHER -> 0

\* b may be behind a on the wire: only the referee's message is sent at any time.
Follows(a, b) == a # b /\ (a = "hear" \/ b = "hear" \/ Rank(a) < Rank(b))

\* The order holds between any two messages of a queue.
InOrder(w) == \A i, j \in 1..Len(w) : i < j => Follows(w[i], w[j])
Ordered == InOrder(wire)

\* When each message can be on its way, and what the answer to synch_see implies.
WireInv ==
    /\ Pending => Phase(t) = 0
    /\ ThinkArrives => SynchMode /\ Phase(t) = 4
    /\ SeeArrives => elapsed = 0
    /\ SeeArrives => IF see.synchSee THEN Phase(t) = SynchSeeOffset ELSE t % 3 = 0
    /\ SynchMode /\ SeeArrives /\ Phase(t) = 4 => ThinkArrives
    /\ OkArrives <=> srvSynchSee /\ ~see.synchSee
    /\ see.synchSee => srvSynchSee
    /\ srvSynchSee => WantSynchSee
    /\ HearArrives => spent.mode > 0

-----------------------------------------------------------------------------
(* Clock, view and decision of an agent that nothing has disturbed.        *)

\* No play_on interrupts an agent that decides without think messages.
Settled == SynchMode \/ "PlayOn" \notin PlayModes
\* The play mode did not change, or none of the modes stops the clock.
Steady == spent.mode = 0 \/ ~\E m \in PlayModes : ClockStands(m)

\* No command was lost, and either sees only, in one play mode, or nothing at all.
Regular ==
    /\ spent.command = 0
    /\ \/ ~SynchMode /\ "sense_body" \notin Losable /\ spent.mode = 0
       \/ /\ Settled /\ spent.message = 0 /\ Steady
          /\ SynchMode /\ see.synchSee => SynchSeeOffset <= 4

\* Nothing has been lost or interrupted that the agent counts.
Exact == Settled /\ spent.message = 0

\* The agent has not seen anything yet.
Fresh ==
    /\ see.count = 0
    /\ \A i \in 1..3 : see.history[i] = 0
    /\ see.timing \notin SynchTiming
    /\ see.seen
    /\ lastSee = NoSee

\* The agent is behind the server's clock only while a sense_body is on its way.
ClockInv ==
    /\ spent.mode = 0 => mode = srvMode /\ ~clock.lag
    /\ clock.inStop => ClockStands(mode)
    /\ Pending => clock.ahead \/ clock.lag \/ ClockStands(mode)
    /\ Pending => ~decided \/ clock.ahead \/ ClockStands(mode)
    /\ clock.ahead \/ clock.lag => Pending \/ Fresh
    /\ see.seen /\ see.count = 0 => Fresh

\* The view the agent believes in is the server's; low quality is for a narrow view only.
ViewInv ==
    /\ view.width = srvView.width
    /\ ~srvSynchSee => view = srvView
    /\ srvSynchSee => srvView.quality = "HIGH"
    /\ ~SynchMode /\ view.quality = "LOW" =>
         view.width = "NARROW" /\ see.till <= 1 /\ (see.seen \/ see.till = 0)

\* When in a cycle the agent may have decided, and which view it keeps before the first see.
DecidedInv ==
    /\ SynchMode /\ decided => Pending \/ clock.ahead \/ (Phase(t) >= 4 /\ ~ThinkArrives)
    /\ ~SynchMode /\ decided => Pending \/ see.seen \/ see.till > 0 \/ Phase(t) >= 6
    /\ ~SynchMode /\ Fresh /\ ~clock.lag => decided \/ Pending
    /\ ~SynchMode /\ Settled /\ Fresh => view = Mode("NORMAL", "HIGH")
    /\ see.synchSee /\ lastSee = NoSee /\ see.seen /\ ~Pending =>
         see.till = CyclesOf(see, view.width)

-----------------------------------------------------------------------------
(* What the counted sees reveal.                                           *)

\* Shots of the see timer in each cycle of its period, and so far in this one.
One(b) == IF b THEN 1 ELSE 0
Cycle == t \div 8
ShotsIn(c) == IF c = 2 \/ c = -1 THEN 2 ELSE 3
Shots == 1 + (t \div 3) - (IF Cycle = 0 THEN 0 ELSE IF Cycle = 1 THEN 3 ELSE 6)
Second == IF Cycle = 0 THEN 3 ELSE IF Cycle = 1 THEN 4 ELSE 5

\* No more sees are counted than the timer shot; the last one came at the last shot.
CountInv ==
  ~see.synchSee =>
    /\ ~Pending =>
         /\ see.count + One(SeeArrives) <= Shots
         /\ see.history[1] <= ShotsIn(Cycle - 1)
         /\ see.history[2] <= ShotsIn(Cycle - 2)
         /\ see.history[3] <= ShotsIn(Cycle - 3)
    /\ Pending =>
         /\ see.count <= ShotsIn(Cycle - 1)
         /\ see.history[1] <= ShotsIn(Cycle - 2)
         /\ see.history[2] <= ShotsIn(Cycle - 3)
    /\ ~Pending /\ see.count >= 1 =>
         /\ see.seen
         /\ lastSee <= Phase(t)
         /\ see.count >= 2 => lastSee >= Second
         /\ SynchMode /\ ~SeeArrives /\ ~srvSynchSee =>
              lastSee + 3 * elapsed + (t % 3) = Phase(t)

\* With a narrow low view every shot is a see, and the history tells the cycles apart.
PrepareInv ==
  ~SynchMode /\ Exact /\ ~see.synchSee /\ see.timing \notin SynchTiming =>
    /\ ~srvSynchSee => \/ view = Mode("NARROW", "LOW")
                       \/ see.count = 0 /\ \A i \in 1..3 : see.history[i] = 0
    /\ ~Pending =>
         /\ see.history[1] = 3 => see.count + One(SeeArrives) = Shots
         /\ see.history[2] = 3 => see.history[1] = ShotsIn(Cycle - 1)
         /\ see.history[1] = 2 /\ see.history[2] = 3 => SeeArrives /\ t = 0
    /\ Pending /\ see.history[1] = 3 =>
         /\ see.count = ShotsIn(Cycle - 1)
         /\ t = 0 => SeeArrives

-----------------------------------------------------------------------------
(* What a synchronized agent knows of the next see.                        *)

\* A timing is set and its see has come.
Tracked == IF see.synchSee THEN lastSee # NoSee ELSE see.timing \in SynchTiming

\* Shots of the see timer, or cycles in synch_see mode, from one see to the next.
V == IF see.synchSee THEN SynchSeeInterval(view) ELSE VisInterval(view)

\* The agent knows which rhythm the server sends sees in, and the units since the last one.
Valid == see.synchSee \/ ~srvSynchSee \/ SeeArrives
Age == IF SeeArrives THEN V ELSE elapsed
Since == lastSee + 3 * Age + (t % 3)

\* Cycles since the last see, as the agent counts them.
CyclesSince ==
    (IF see.synchSee THEN Age + One(Phase(t) < SynchSeeOffset) ELSE Since \div 8)
      - One(Pending)

\* The last see came at the offset its timing says, less than an interval ago.
OnGrid ==
    /\ elapsed < V
    /\ IF see.synchSee THEN lastSee = SynchSeeOffset ELSE Since % 8 = Phase(t)

\* The offsets at which the see of a timing may have come.
Good(timing, p) ==
    IF Exact THEN p = PhaseOf(timing)
    ELSE CASE timing = "TIME_0_00" -> p \in 0..7
           [] timing = "TIME_50_0" -> p \in 4..7
           [] OTHER -> p \in 2..5

\* The width does not suit the timing; the see that the countdown waits for is due.
Legal == ~IllegalWidth(see, view.width)
Waiting == ~see.seen /\ see.till = 0

\* The offset of a see that was lost in this cycle.
LastShot == Phase(t) - 3 * elapsed - (t % 3)
Lost ==
    /\ spent.message > 0
    /\ SeeArrives => see.timing = "TIME_22_5" /\ view.width = "NARROW"
    /\ ~SeeArrives => /\ LastShot >= 0
                      /\ view.width = "NARROW" /\ see.timing = "TIME_50_0" => LastShot >= 2

\* The see that was counted down to comes in this cycle.
Due == OnGrid /\ CyclesSince = CyclesOf(see, view.width)

\* The countdown and the cycles since the last see add up to the interval.
CountdownInv ==
    /\ ~Waiting => OnGrid
    /\ see.seen => CyclesSince = 0
    /\ see.till > 0 /\ (~see.seen \/ decided \/ Pending) =>
         see.till + CyclesSince = CyclesOf(see, view.width)
    /\ Waiting => IF see.synchSee THEN Exact => Due ELSE Lost \/ Due
    /\ decided \/ Pending => see.till > 0 \/ (see.synchSee /\ ~Exact /\ ~see.seen)
    /\ ~Legal =>
         /\ see.timing = "TIME_0_00" /\ see.seen /\ ~decided /\ ~Pending
         /\ IF SynchMode THEN Phase(t) <= 4 ELSE elapsed = 0 /\ ~SeeArrives

\* A timing is where the sees come, and the countdown follows it.
TrackInv ==
  Tracked =>
    /\ ~see.synchSee => Good(see.timing, lastSee) /\ view.quality = "HIGH"
    /\ SynchMode /\ Phase(t) >= 4 => decided \/ ThinkArrives
    /\ Valid => CountdownInv

\* The inductive invariant.
SynchInv ==
    /\ Ordered
    /\ WireInv
    /\ Regular => ClockInv /\ ViewInv /\ DecidedInv /\ CountInv /\ PrepareInv /\ TrackInv

-----------------------------------------------------------------------------
(* What each method of SeeState leaves of the fields, and what it sets.    *)

\* setViewMode sets the countdown only.
LEMMA SetViewModeFields ==
    ASSUME NEW s \in SeeStateType, NEW w \in ViewWidth
    PROVE  LET r == SetViewMode(s, w)
           IN  /\ r \in SeeStateType
               /\ r.timing = s.timing /\ r.seen = s.seen /\ r.count = s.count
               /\ r.history = s.history /\ r.synchSee = s.synchSee
               /\ r.till = IF s.seen /\ ~IllegalWidth(s, w) THEN CyclesOf(s, w) ELSE s.till
<1>1. CyclesOf(s, w) \in 0..InitTill
  BY DEF CyclesOf, ViewWidth, InitTill
<1> QED BY <1>1 DEF SetViewMode, SeeStateType

\* setLastSeeTiming sets the timing only.
LEMMA SetLastSeeTimingFields ==
    ASSUME NEW s \in SeeStateType, NEW x \in Timing
    PROVE  LET r == SetLastSeeTiming(s, x)
           IN  /\ r \in SeeStateType
               /\ r.timing = x /\ r.seen = s.seen /\ r.count = s.count
               /\ r.history = s.history /\ r.synchSee = s.synchSee /\ r.till = s.till
BY DEF SetLastSeeTiming, SeeStateType

\* setNewCycle counts down, and shifts the see counts.
LEMMA SetNewCycleFields ==
    ASSUME NEW s \in SeeStateType
    PROVE  LET r == SetNewCycle(s, TRUE)
           IN  /\ r \in SeeStateType
               /\ r.timing = s.timing /\ r.synchSee = s.synchSee
               /\ r.seen = FALSE /\ r.count = 0
               /\ r.till = CountDown(s.till)
               /\ r.history[1] = s.count
               /\ r.history[2] = s.history[1]
               /\ r.history[3] = s.history[2]
<1>1. CountDown(s.till) \in 0..InitTill
  BY DEF CountDown, SeeStateType, InitTill
<1> DEFINE shifted == [i \in 1..3 |-> IF i = 1 THEN s.count ELSE s.history[i - 1]]
<1>2. shifted \in [1..3 -> 0..MaxCount]
  BY DEF SeeStateType, MaxCount
<1>2a. shifted[1] = s.count /\ shifted[2] = s.history[1] /\ shifted[3] = s.history[2]
  OBVIOUS
<1>3. SetNewCycle(s, TRUE) =
        [s EXCEPT !.till = CountDown(s.till), !.history = shifted,
                       !.count = 0, !.seen = FALSE]
  BY DEF SetNewCycle
<1> HIDE DEF shifted
<1>4. 0 \in 0..MaxCount
  BY DEF MaxCount
<1> QED BY <1>1, <1>2, <1>2a, <1>3, <1>4 DEF SeeStateType

\* The counting part of updateBySee: the first see of a cycle, or one more.
LEMMA CountSeeFields ==
    ASSUME NEW s \in SeeStateType, NEW n \in BOOLEAN
    PROVE  LET r == CountSee(s, n)
           IN  /\ r \in SeeStateType
               /\ r.synchSee = s.synchSee /\ r.seen = TRUE
               /\ r.till = IF n THEN CountDown(s.till) ELSE s.till
               /\ s.seen /\ ~n =>
                    /\ r.count = IF s.count < MaxCount THEN s.count + 1 ELSE s.count
                    /\ r.history = s.history
                    /\ r.timing = IF IsSynch(s) THEN "TIME_NOSYNCH" ELSE s.timing
               /\ ~(s.seen /\ ~n) =>
                    /\ r.count = 1
                    /\ r.timing = s.timing
                    /\ ~n => r.history = s.history
                    /\ n => /\ r.history[1] = s.count
                            /\ r.history[2] = s.history[1]
                            /\ r.history[3] = s.history[2]
<1>1. CASE s.seen /\ ~n
  <2>1. (IF s.count < MaxCount THEN s.count + 1 ELSE s.count) \in 0..MaxCount
    BY DEF SeeStateType, MaxCount
  <2>2. (IF IsSynch(s) THEN "TIME_NOSYNCH" ELSE s.timing) \in Timing
    BY DEF SeeStateType, Timing
  <2> QED BY <1>1, <2>1, <2>2 DEF CountSee, SeeStateType
<1>2. CASE ~(s.seen /\ ~n)
  <2> DEFINE x == SetNewCycle(s, n)
  <2>1. CountSee(s, n) = [x EXCEPT !.count = 1, !.seen = TRUE]
    BY <1>2 DEF CountSee
  <2>2. n => /\ x \in SeeStateType /\ x.timing = s.timing /\ x.synchSee = s.synchSee
             /\ x.till = CountDown(s.till)
             /\ x.history[1] = s.count /\ x.history[2] = s.history[1] /\ x.history[3] = s.history[2]
    BY SetNewCycleFields
  <2>3. ~n => x = s
    BY DEF SetNewCycle
  <2> HIDE DEF x
  <2>4. x \in SeeStateType
    BY <2>2, <2>3
  <2>5. 1 \in 0..MaxCount
    BY DEF MaxCount
  <2>6. LET r == [x EXCEPT !.count = 1, !.seen = TRUE]
        IN /\ r \in SeeStateType /\ r.synchSee = x.synchSee /\ r.seen = TRUE /\ r.till = x.till
           /\ r.count = 1 /\ r.timing = x.timing /\ r.history = x.history
    BY <2>4, <2>5 DEF SeeStateType
  <2> QED BY <1>2, <2>1, <2>2, <2>3, <2>6
<1> QED BY <1>1, <1>2

\* updateBySee, of an agent that is not synchronized.
LEMMA UpdateBySeeUnsynched ==
    ASSUME NEW s \in SeeStateType, NEW n \in BOOLEAN, NEW w \in ViewWidth, NEW q \in ViewQuality,
           ~IsSynch(s)
    PROVE  LET r == UpdateBySee(s, n, w, q)
               c == CountSee(s, n)
           IN  /\ r \in SeeStateType /\ ~IsSynch(r)
               /\ r.synchSee = FALSE /\ r.seen = TRUE /\ r.till = c.till
               /\ r.count = c.count /\ r.history = c.history
<1> DEFINE c == CountSee(s, n)
<1>1. c \in SeeStateType /\ c.synchSee = s.synchSee /\ c.seen = TRUE /\ c.timing = s.timing
  BY CountSeeFields
<1>2. ~IsSynch(c)
  <2>1. IsSynch(c) <=> IsSynch(s)
    BY <1>1, Zenon DEF IsSynch
  <2> QED BY <2>1
<1>3. UpdateBySee(s, n, w, q) = IF q = "LOW" THEN SetLastSeeTiming(c, "TIME_NOSYNCH") ELSE c
  BY <1>2 DEF UpdateBySee
<1>4. "TIME_NOSYNCH" \in Timing /\ "TIME_NOSYNCH" \notin SynchTiming
  BY DEF Timing, SynchTiming
<1>5. s.synchSee = FALSE
  BY DEF IsSynch, SeeStateType
<1> HIDE DEF c
<1> DEFINE d == SetLastSeeTiming(c, "TIME_NOSYNCH")
<1>6. /\ d \in SeeStateType /\ d.synchSee = c.synchSee /\ d.seen = c.seen /\ d.till = c.till
      /\ d.count = c.count /\ d.history = c.history /\ d.timing = "TIME_NOSYNCH"
  BY <1>1, <1>4, SetLastSeeTimingFields
<1> HIDE DEF d
<1>7. ~IsSynch(d)
  BY <1>1, <1>4, <1>5, <1>6 DEF IsSynch
<1> DEFINE r == UpdateBySee(s, n, w, q)
<1>8. r = c \/ r = d
  BY <1>3 DEF d
<1> HIDE DEF r
<1>9. /\ r \in SeeStateType /\ ~IsSynch(r)
      /\ r.synchSee = FALSE /\ r.seen = TRUE /\ r.till = c.till
      /\ r.count = c.count /\ r.history = c.history
  <2>1. CASE r = c
    BY <2>1, <1>1, <1>2, <1>5, Zenon
  <2>2. CASE r = d
    BY <2>2, <1>1, <1>5, <1>6, <1>7, Zenon
  <2> QED BY <1>8, <2>1, <2>2
<1> QED BY <1>9, Zenon DEF r, c

\* updateBySee, of an agent that sees its first see of the cycle at a known timing.
LEMMA UpdateBySeeTracked ==
    ASSUME NEW s \in SeeStateType, NEW w \in ViewWidth,
           ~s.synchSee, s.timing \in SynchTiming, ~s.seen, s.till = 0
    PROVE  LET r == UpdateBySee(s, FALSE, w, "HIGH")
           IN  /\ r \in SeeStateType
               /\ r.synchSee = FALSE /\ r.seen = TRUE /\ r.till = 0 /\ r.count = 1
               /\ r.history = s.history
               /\ r.timing = GetNextTiming(s, w, "HIGH")
<1> DEFINE c == CountSee(s, FALSE)
<1>1. c \in SeeStateType /\ c.synchSee = s.synchSee /\ c.seen = TRUE /\ c.timing = s.timing
        /\ c.till = s.till /\ c.count = 1 /\ c.history = s.history
  BY CountSeeFields
<1>2. IsSynch(c) /\ ~(c.till > 0)
  <2>1. c.timing \in SynchTiming /\ c.till = 0
    BY <1>1, Zenon
  <2> HIDE DEF c
  <2>2. IsSynch(c)
    BY <2>1, Zenon DEF IsSynch
  <2>3. ~(c.till > 0)
    BY <2>1
  <2> QED BY <2>2, <2>3
<1>3. UpdateBySee(s, FALSE, w, "HIGH") = SetLastSeeTiming(c, GetNextTiming(c, w, "HIGH"))
  BY <1>2 DEF UpdateBySee
<1>4. GetNextTiming(c, w, "HIGH") = GetNextTiming(s, w, "HIGH")
  BY <1>1 DEF GetNextTiming
<1>5. GetNextTiming(c, w, "HIGH") \in Timing
  BY <1>1, GetNextTimingType DEF ViewQuality
<1>6. s.synchSee = FALSE
  BY DEF SeeStateType
<1> HIDE DEF c
<1> DEFINE g == GetNextTiming(c, w, "HIGH")
           r == SetLastSeeTiming(c, g)
<1>7. /\ r \in SeeStateType /\ r.synchSee = c.synchSee /\ r.seen = c.seen /\ r.till = c.till
      /\ r.count = c.count /\ r.history = c.history /\ r.timing = g
  <2>1. g \in Timing
    BY <1>5
  <2> HIDE DEF g
  <2> QED BY <2>1, <1>1, SetLastSeeTimingFields
<1> HIDE DEF r
<1>8. UpdateBySee(s, FALSE, w, "HIGH") = r
  BY <1>3 DEF r
<1> QED BY <1>1, <1>4, <1>6, <1>7, <1>8, Zenon

\* updateBySee in synch_see mode.
LEMMA UpdateBySeeSynchSee ==
    ASSUME NEW s \in SeeStateType, NEW n \in BOOLEAN, NEW w \in ViewWidth, NEW q \in ViewQuality,
           s.synchSee
    PROVE  LET r == UpdateBySee(s, n, w, q)
               c == CountSee(s, n)
           IN  /\ r \in SeeStateType
               /\ r.synchSee = TRUE /\ r.seen = TRUE
               /\ r.count = c.count
               /\ r.till = IF c.till > 0 /\ q = "HIGH" THEN CyclesOf(s, w) ELSE c.till
<1> DEFINE c == CountSee(s, n)
           e == IF c.till > 0 THEN SetViewMode([c EXCEPT !.till = 0], w) ELSE c
<1>0. s.synchSee = TRUE
  BY DEF SeeStateType
<1>1. c \in SeeStateType /\ c.synchSee = s.synchSee /\ c.seen = TRUE
  BY CountSeeFields
<1>2. IsSynch(c)
  BY <1>1 DEF IsSynch
<1>3. UpdateBySee(s, n, w, q) = IF q = "LOW" THEN SetLastSeeTiming(c, "TIME_NOSYNCH")
                                ELSE SetLastSeeTiming(e, GetNextTiming(e, w, q))
  BY <1>2 DEF UpdateBySee
<1> HIDE DEF c
<1> DEFINE z == [c EXCEPT !.till = 0]
<1>4. z \in SeeStateType /\ z.synchSee = TRUE /\ z.seen = TRUE /\ z.count = c.count /\ z.till = 0
  <2>1. 0 \in 0..InitTill
    BY DEF InitTill
  <2>2. ASSUME NEW x \in SeeStateType
        PROVE  LET y == [x EXCEPT !.till = 0]
               IN  y \in SeeStateType /\ y.synchSee = x.synchSee /\ y.seen = x.seen
                   /\ y.count = x.count /\ y.till = 0
    BY <2>1 DEF SeeStateType
  <2> QED BY <1>0, <1>1, <2>2
<1> HIDE DEF z
<1>5. ~IllegalWidth(z, w) /\ CyclesOf(z, w) = CyclesOf(s, w)
  BY <1>0, <1>4 DEF IllegalWidth, CyclesOf
<1>6. /\ e \in SeeStateType /\ e.synchSee = TRUE /\ e.seen = TRUE /\ e.count = c.count
      /\ e.till = IF c.till > 0 THEN CyclesOf(s, w) ELSE c.till
  BY <1>0, <1>1, <1>4, <1>5, SetViewModeFields DEF z
<1> HIDE DEF e
<1>7. GetNextTiming(e, w, q) \in Timing /\ "TIME_NOSYNCH" \in Timing
  BY <1>6, GetNextTimingType DEF Timing
<1>8. q # "LOW" <=> q = "HIGH"
  BY DEF ViewQuality
<1> DEFINE x == IF q = "LOW" THEN c ELSE e
           y == IF q = "LOW" THEN "TIME_NOSYNCH" ELSE GetNextTiming(e, w, q)
           r == SetLastSeeTiming(x, y)
<1>9. UpdateBySee(s, n, w, q) = r
  BY <1>3
<1>10. /\ x \in SeeStateType /\ x.synchSee = TRUE /\ x.seen = TRUE /\ x.count = c.count
       /\ x.till = IF c.till > 0 /\ q = "HIGH" THEN CyclesOf(s, w) ELSE c.till
  BY <1>0, <1>1, <1>6, <1>8
<1>11. y \in Timing
  BY <1>7
<1> HIDE DEF x, y
<1>12. /\ r \in SeeStateType
       /\ r.synchSee = TRUE /\ r.seen = TRUE /\ r.count = c.count
       /\ r.till = IF c.till > 0 /\ q = "HIGH" THEN CyclesOf(s, w) ELSE c.till
  BY <1>10, <1>11, SetLastSeeTimingFields
<1> HIDE DEF r
<1> QED BY <1>9, <1>12, Zenon DEF c

-----------------------------------------------------------------------------
(* The wire.                                                               *)

\* Taking the first message off the wire.
LEMMA TailOfWire ==
    ASSUME NEW w \in Seq(Message), w # <<>>, InOrder(w)
    PROVE  /\ InOrder(Tail(w))
           /\ On(w, w[1]) /\ ~On(Tail(w), w[1])
           /\ \A x : x # w[1] => (On(Tail(w), x) <=> On(w, x))
           /\ \A x : On(w, x) => x = w[1] \/ Follows(w[1], x)
<1>1. /\ Len(w) \in Nat /\ Len(w) >= 1
      /\ Tail(w) \in Seq(Message) /\ Len(Tail(w)) = Len(w) - 1
      /\ \A i \in 1..Len(Tail(w)) : Tail(w)[i] = w[i + 1]
  OBVIOUS
<1>2. InOrder(Tail(w))
  <2> SUFFICES ASSUME NEW i \in 1..Len(Tail(w)), NEW j \in 1..Len(Tail(w)), i < j
               PROVE  Follows(Tail(w)[i], Tail(w)[j])
    BY DEF InOrder
  <2>1. i + 1 \in 1..Len(w) /\ j + 1 \in 1..Len(w) /\ i + 1 < j + 1
    BY <1>1
  <2>2. Follows(w[i + 1], w[j + 1])
    BY <2>1 DEF InOrder
  <2> QED BY <1>1, <2>2
<1>3. 1 \in 1..Len(w)
  BY <1>1
<1>4. On(w, w[1])
  BY <1>3 DEF On
<1>5. \A i \in 1..Len(w) : i = 1 \/ Follows(w[1], w[i])
  BY <1>1, <1>3 DEF InOrder
<1>6. \A x : On(w, x) => x = w[1] \/ Follows(w[1], x)
  BY <1>5 DEF On
<1>7. ~On(Tail(w), w[1])
  <2> SUFFICES ASSUME NEW i \in 1..Len(Tail(w)), Tail(w)[i] = w[1]
               PROVE  FALSE
    BY DEF On
  <2>1. i + 1 \in 1..Len(w) /\ i + 1 # 1 /\ w[i + 1] = w[1]
    BY <1>1
  <2>2. Follows(w[1], w[1])
    BY <1>5, <2>1
  <2> QED BY <2>2 DEF Follows
<1>8. ASSUME NEW x, x # w[1]
      PROVE  On(Tail(w), x) <=> On(w, x)
  <2>1. ASSUME On(Tail(w), x) PROVE On(w, x)
    <3>1. PICK i \in 1..Len(Tail(w)) : Tail(w)[i] = x
      BY <2>1 DEF On
    <3>2. i + 1 \in 1..Len(w) /\ w[i + 1] = x
      BY <1>1, <3>1
    <3> QED BY <3>2 DEF On
  <2>2. ASSUME On(w, x) PROVE On(Tail(w), x)
    <3>1. PICK i \in 1..Len(w) : w[i] = x
      BY <2>2 DEF On
    <3>2. i # 1
      BY <1>8, <3>1
    <3>3. i - 1 \in 1..Len(Tail(w)) /\ Tail(w)[i - 1] = w[(i - 1) + 1] /\ (i - 1) + 1 = i
      BY <1>1, <3>2
    <3> QED BY <3>1, <3>3 DEF On
  <2> QED BY <2>1, <2>2
<1> QED BY <1>2, <1>4, <1>6, <1>7, <1>8

\* Adding a message behind the others.
LEMMA AppendToWire ==
    ASSUME NEW w \in Seq(Message), InOrder(w), NEW m \in Message,
           \A x : On(w, x) => Follows(x, m)
    PROVE  /\ InOrder(Append(w, m))
           /\ On(Append(w, m), m)
           /\ \A x : x # m => (On(Append(w, m), x) <=> On(w, x))
<1> DEFINE u == Append(w, m)
           n == Len(w)
<1>1. /\ n \in Nat /\ Len(u) = n + 1 /\ u[n + 1] = m
      /\ \A i \in 1..n : u[i] = w[i]
  OBVIOUS
<1> HIDE DEF u, n
<1>2. InOrder(u)
  <2> SUFFICES ASSUME NEW i \in 1..(n + 1), NEW j \in 1..(n + 1), i < j
               PROVE  Follows(u[i], u[j])
    BY <1>1 DEF InOrder
  <2>1. i \in 1..n /\ u[i] = w[i]
    BY <1>1
  <2>2. CASE j = n + 1
    <3>1. On(w, w[i])
      BY <2>1 DEF On, n
    <3> QED BY <1>1, <2>1, <2>2, <3>1
  <2>3. CASE j # n + 1
    <3>1. j \in 1..n /\ u[j] = w[j]
      BY <1>1, <2>3
    <3> QED BY <2>1, <3>1 DEF InOrder, n
  <2> QED BY <2>2, <2>3
<1>3. On(u, m)
  <2>1. n + 1 \in 1..Len(u)
    BY <1>1
  <2> QED BY <1>1, <2>1 DEF On
<1>4. ASSUME NEW x, x # m
      PROVE  On(u, x) <=> On(w, x)
  <2>1. ASSUME NEW i \in 1..(n + 1), u[i] = x PROVE On(w, x)
    <3>1. i \in 1..n /\ u[i] = w[i]
      BY <1>1, <1>4, <2>1
    <3> QED BY <2>1, <3>1 DEF On, n
  <2>2. ASSUME NEW i \in 1..n, w[i] = x PROVE On(u, x)
    <3>1. i \in 1..Len(u) /\ u[i] = x
      BY <1>1, <2>2
    <3> QED BY <3>1 DEF On
  <2> QED BY <1>1, <2>1, <2>2 DEF On, n
<1> QED BY <1>2, <1>3, <1>4 DEF u

\* Adding a message in front of the others.
LEMMA PrependToWire ==
    ASSUME NEW w \in Seq(Message), InOrder(w), NEW m \in Message,
           \A x : On(w, x) => Follows(m, x)
    PROVE  /\ InOrder(<<m>> \o w)
           /\ On(<<m>> \o w, m)
           /\ \A x : x # m => (On(<<m>> \o w, x) <=> On(w, x))
<1> DEFINE u == <<m>> \o w
           n == Len(w)
<1>1. /\ n \in Nat /\ Len(u) = n + 1 /\ u[1] = m
      /\ \A i \in 1..(n + 1) : i # 1 => u[i] = w[i - 1]
  OBVIOUS
<1> HIDE DEF u, n
<1>2. InOrder(u)
  <2> SUFFICES ASSUME NEW i \in 1..(n + 1), NEW j \in 1..(n + 1), i < j
               PROVE  Follows(u[i], u[j])
    BY <1>1 DEF InOrder
  <2>1. j - 1 \in 1..n /\ u[j] = w[j - 1]
    BY <1>1
  <2>2. CASE i = 1
    <3>1. On(w, w[j - 1])
      BY <2>1 DEF On, n
    <3> QED BY <1>1, <2>1, <2>2, <3>1
  <2>3. CASE i # 1
    <3>1. i - 1 \in 1..n /\ u[i] = w[i - 1] /\ i - 1 < j - 1
      BY <1>1, <2>3
    <3> QED BY <2>1, <3>1 DEF InOrder, n
  <2> QED BY <2>2, <2>3
<1>3. On(u, m)
  <2>1. 1 \in 1..Len(u)
    BY <1>1
  <2> QED BY <1>1, <2>1 DEF On
<1>4. ASSUME NEW x, x # m
      PROVE  On(u, x) <=> On(w, x)
  <2>1. ASSUME NEW i \in 1..(n + 1), u[i] = x PROVE On(w, x)
    <3>1. i - 1 \in 1..n /\ u[i] = w[i - 1]
      BY <1>1, <1>4, <2>1
    <3> QED BY <2>1, <3>1 DEF On, n
  <2>2. ASSUME NEW i \in 1..n, w[i] = x PROVE On(u, x)
    <3>1. i + 1 \in 1..(n + 1) /\ i + 1 # 1 /\ (i + 1) - 1 = i
      BY <1>1
    <3>2. u[i + 1] = w[i] /\ i + 1 \in 1..Len(u)
      BY <1>1, <3>1
    <3> QED BY <2>2, <3>2 DEF On
  <2> QED BY <1>1, <2>1, <2>2 DEF On, n
<1> QED BY <1>2, <1>3, <1>4 DEF u

\* Nothing is on an empty wire.
LEMMA EmptyWire == /\ InOrder(<<>>)
                   /\ \A x : ~On(<<>>, x)
BY DEF InOrder, On

\* The messages of a new unit of time.
LEMMA TickWire ==
    ASSUME NEW a \in BOOLEAN, NEW b \in BOOLEAN, NEW c \in BOOLEAN
    PROVE  LET w == If(a, "sense_body") \o If(b, "see") \o If(c, "think")
           IN  /\ InOrder(w)
               /\ On(w, "sense_body") <=> a
               /\ On(w, "see") <=> b
               /\ On(w, "think") <=> c
               /\ ~On(w, "ok_synch_see") /\ ~On(w, "hear")
<1> DEFINE w == If(a, "sense_body") \o If(b, "see") \o If(c, "think")
<1>1. /\ Follows("sense_body", "see") /\ Follows("sense_body", "think") /\ Follows("see", "think")
      /\ {"sense_body", "see", "think"} \subseteq Message
  BY DEF Follows, Rank, Message
<1>2. ASSUME NEW s \in Seq(Message), NEW d \in BOOLEAN, NEW m \in Message,
             InOrder(s), \A x : On(s, x) => Follows(x, m)
      PROVE  /\ s \o If(d, m) \in Seq(Message)
             /\ InOrder(s \o If(d, m))
             /\ \A x : On(s \o If(d, m), x) <=> On(s, x) \/ (d /\ x = m)
  <2>1. CASE d
    <3>1. s \o If(d, m) = Append(s, m) /\ Append(s, m) \in Seq(Message)
      BY <2>1 DEF If
    <3>2. /\ InOrder(Append(s, m)) /\ On(Append(s, m), m)
          /\ \A x : x # m => (On(Append(s, m), x) <=> On(s, x))
      BY <1>2, AppendToWire
    <3> QED BY <2>1, <3>1, <3>2
  <2>2. CASE ~d
    <3>1. s \o If(d, m) = s
      BY <2>2 DEF If
    <3> QED BY <1>2, <2>2, <3>1
  <2> QED BY <2>1, <2>2
<1> DEFINE w1 == If(a, "sense_body")
           w2 == w1 \o If(b, "see")
<1>3. /\ w1 \in Seq(Message) /\ InOrder(w1)
      /\ \A x : On(w1, x) <=> a /\ x = "sense_body"
  <2>1. <<>> \in Seq(Message) /\ <<>> \o w1 = w1
    BY <1>1 DEF If
  <2>2. /\ <<>> \o w1 \in Seq(Message) /\ InOrder(<<>> \o w1)
        /\ \A x : On(<<>> \o w1, x) <=> On(<<>>, x) \/ (a /\ x = "sense_body")
    <3>1. "sense_body" \in Message /\ \A x : On(<<>>, x) => Follows(x, "sense_body")
      BY <1>1, EmptyWire
    <3> QED BY <2>1, <1>2, <3>1, EmptyWire
  <2> QED BY <2>1, <2>2, EmptyWire
<1>4. /\ w2 \in Seq(Message) /\ InOrder(w2)
      /\ \A x : On(w2, x) <=> On(w1, x) \/ (b /\ x = "see")
  <2>1. "see" \in Message /\ \A x : On(w1, x) => Follows(x, "see")
    BY <1>1, <1>3
  <2> HIDE DEF w1
  <2> QED BY <1>2, <1>3, <2>1
<1>5. /\ InOrder(w2 \o If(c, "think"))
      /\ \A x : On(w2 \o If(c, "think"), x) <=> On(w2, x) \/ (c /\ x = "think")
  <2>1. "think" \in Message /\ \A x : On(w2, x) => Follows(x, "think")
    BY <1>1, <1>3, <1>4
  <2> HIDE DEF w2
  <2> QED BY <1>2, <1>4, <2>1
<1>6. w = w2 \o If(c, "think")
  <2>1. If(a, "sense_body") \in Seq(Message) /\ If(b, "see") \in Seq(Message) /\ If(c, "think") \in Seq(Message)
    BY <1>1 DEF If
  <2> QED OBVIOUS
<1> HIDE DEF w, w1, w2
<1>7. \A x : On(w, x) <=> (a /\ x = "sense_body") \/ (b /\ x = "see") \/ (c /\ x = "think")
  BY <1>3, <1>4, <1>5, <1>6
<1>8. /\ InOrder(w)
      /\ On(w, "sense_body") <=> a
      /\ On(w, "see") <=> b
      /\ On(w, "think") <=> c
      /\ ~On(w, "ok_synch_see") /\ ~On(w, "hear")
  <2>1. InOrder(w)
    BY <1>5, <1>6
  <2> QED BY <2>1, <1>7
<1> QED BY <1>8, Zenon DEF w

\* What is on the wire once its first message is taken.
LEMMA ParseWire ==
    ASSUME wire \in Seq(Message), Ordered, NEW m, wire # <<>>, wire[1] = m, wire' = Tail(wire)
    PROVE  /\ Ordered'
           /\ Has(m) /\ ~Has(m)'
           /\ m # "sense_body" => (Pending' <=> Pending)
           /\ m # "see" => (SeeArrives' <=> SeeArrives)
           /\ m # "think" => (ThinkArrives' <=> ThinkArrives)
           /\ m # "ok_synch_see" => (OkArrives' <=> OkArrives)
           /\ m # "hear" => (HearArrives' <=> HearArrives)
           /\ m \in {"see", "think", "ok_synch_see"} => ~Pending
           /\ m \in {"think", "ok_synch_see"} => ~SeeArrives
           /\ m = "ok_synch_see" => ~ThinkArrives
<1>1. /\ InOrder(Tail(wire))
      /\ On(wire, m) /\ ~On(Tail(wire), m)
      /\ \A x : x # m => (On(Tail(wire), x) <=> On(wire, x))
      /\ \A x : On(wire, x) => x = m \/ Follows(m, x)
  <2>1. InOrder(wire)
    BY DEF Ordered
  <2> QED BY <2>1, TailOfWire
<1>2. \A x : Has(x) <=> On(wire, x)
  BY DEF Has
<1>3. \A x : Has(x)' <=> On(Tail(wire), x)
  BY DEF Has
<1>4. /\ ~Follows("see", "sense_body") /\ ~Follows("think", "sense_body")
      /\ ~Follows("ok_synch_see", "sense_body")
      /\ ~Follows("think", "see") /\ ~Follows("ok_synch_see", "see")
      /\ ~Follows("ok_synch_see", "think")
  BY DEF Follows, Rank
<1>5. Ordered'
  BY <1>1 DEF Ordered
<1>6. Has(m) /\ ~Has(m)'
  BY <1>1, <1>2, <1>3
<1>7. /\ m # "sense_body" => (Pending' <=> Pending)
      /\ m # "see" => (SeeArrives' <=> SeeArrives)
      /\ m # "think" => (ThinkArrives' <=> ThinkArrives)
      /\ m # "ok_synch_see" => (OkArrives' <=> OkArrives)
      /\ m # "hear" => (HearArrives' <=> HearArrives)
  <2>1. \A x : x # m => (Has(x)' <=> Has(x))
    BY <1>1, <1>2, <1>3
  <2> QED BY <2>1, Zenon DEF Pending, SeeArrives, ThinkArrives, OkArrives, HearArrives
<1>8. /\ m \in {"see", "think", "ok_synch_see"} => ~Pending
      /\ m \in {"think", "ok_synch_see"} => ~SeeArrives
      /\ m = "ok_synch_see" => ~ThinkArrives
  BY <1>1, <1>2, <1>4 DEF Pending, SeeArrives, ThinkArrives
<1> QED BY <1>5, <1>6, <1>7, <1>8

\* On an empty wire there is nothing.
LEMMA NothingArrives ==
    ASSUME wire = <<>>
    PROVE  ~Pending /\ ~SeeArrives /\ ~ThinkArrives /\ ~OkArrives /\ ~HearArrives
BY EmptyWire DEF Pending, SeeArrives, ThinkArrives, OkArrives, HearArrives, Has

-----------------------------------------------------------------------------
(* Time.                                                                   *)

\* A game cycle is 8 units, the shots of the see timer are 3 units apart.
LEMMA TimeType ==
    ASSUME t \in 0..23
    PROVE  /\ Phase(t) \in 0..7
           /\ t % 3 \in 0..2
           /\ Cycle \in 0..2
           /\ t = 8 * Cycle + Phase(t)
BY DEF Phase, Cycle

\* One unit later.
LEMMA OneUnit ==
    ASSUME NEW x \in 0..23
    PROVE  LET n == (x + 1) % 24
           IN  /\ n \in 0..23
               /\ Phase(n) = IF Phase(x) = 7 THEN 0 ELSE Phase(x) + 1
               /\ n % 3 = IF x % 3 = 2 THEN 0 ELSE (x % 3) + 1
BY DEF Phase

\* Division by 8, both ways.
LEMMA Eights ==
    ASSUME NEW x \in Nat
    PROVE  /\ x \div 8 \in Nat /\ x % 8 \in 0..7
           /\ x = 8 * (x \div 8) + (x % 8)
           /\ \A k \in Nat, p \in 0..7 : x = 8 * k + p => x \div 8 = k /\ x % 8 = p
<1>1. x \div 8 \in Nat /\ x % 8 \in 0..7 /\ x = 8 * (x \div 8) + (x % 8)
  BY DivMod
<1>2. ASSUME NEW k \in Nat, NEW p \in 0..7, x = 8 * k + p
      PROVE  x \div 8 = k /\ x % 8 = p
  BY <1>2
<1> QED BY <1>1, <1>2

\* The intervals between sees, in shots and in cycles.
LEMMA IntervalType ==
    ASSUME view \in ViewMode
    PROVE  /\ V \in 1..8
           /\ see.synchSee => V = CyclesOf(see, view.width)
           /\ ~see.synchSee /\ view.quality = "HIGH" =>
                V = IF view.width = "NARROW" THEN 2 ELSE IF view.width = "NORMAL" THEN 4 ELSE 8
<1>1. view.width \in ViewWidth /\ view.quality \in ViewQuality
  BY DEF ViewMode
<1>2. SynchSeeInterval(view) \in 1..8
  BY <1>1 DEF SynchSeeInterval, ViewWidth
<1>3. VisInterval(view) \in 1..8
  BY <1>1 DEF VisInterval, ViewWidth
<1>4. see.synchSee => SynchSeeInterval(view) = CyclesOf(see, view.width)
  BY <1>1 DEF SynchSeeInterval, CyclesOf, ViewWidth
<1>5. view.quality = "HIGH" =>
        VisInterval(view) = IF view.width = "NARROW" THEN 2 ELSE IF view.width = "NORMAL" THEN 4 ELSE 8
  BY <1>1 DEF VisInterval, ViewWidth
<1> QED BY <1>2, <1>3, <1>4, <1>5 DEF V

\* The server's interval is the agent's, if they agree on the view mode and the see mode.
LEMMA IntervalAgrees ==
    ASSUME TypeOK, ViewInv, see.synchSee <=> srvSynchSee
    PROVE  SeeInterval = V
<1>1. CASE srvSynchSee
  <2>1. view.width \in ViewWidth /\ srvView.width = view.width
    BY DEF TypeOK, ViewMode, ViewInv
  <2>2. SynchSeeInterval(srvView) = SynchSeeInterval(view)
    BY <2>1 DEF SynchSeeInterval, ViewWidth
  <2> QED BY <1>1, <2>2 DEF SeeInterval, V
<1>2. CASE ~srvSynchSee
  BY <1>2, Zenon DEF SeeInterval, V, ViewInv
<1> QED BY <1>1, <1>2

-----------------------------------------------------------------------------
(* Disturbances stay.                                                      *)

\* Losses and interruptions only accumulate: an agent is never less disturbed afterwards.
LEMMA DisturbancesStay ==
    ASSUME TypeOK, [Next]_vars
    PROVE  /\ Regular' /\ (see.synchSee => see'.synchSee) => Regular
           /\ Exact' => Exact
           /\ Regular' => spent'.command = spent.command
           /\ spent'.mode = 0 => spent.mode = 0
           /\ spent'.message = 0 => spent.message = 0
<1>1. /\ spent'.command \in Nat /\ spent.command \in Nat /\ spent'.command >= spent.command
      /\ spent'.mode \in Nat /\ spent.mode \in Nat /\ spent'.mode >= spent.mode
      /\ spent'.message \in Nat /\ spent.message \in Nat /\ spent'.message >= spent.message
  <2>0. spent \in SpentType
    BY DEF TypeOK, SpentType
  <2>00. spent.command \in Nat /\ spent.mode \in Nat /\ spent.message \in Nat
    BY <2>0, ConstantsAssumption DEF SpentType
  <2>1. ASSUME NEW sent, Deliver(sent)
        PROVE  spent' = spent \/ spent' = [spent EXCEPT !.command = @ + 1]
    BY <2>1 DEF Deliver
  <2>2. \/ spent' = spent
        \/ spent' = [spent EXCEPT !.command = @ + 1]
        \/ spent' = [spent EXCEPT !.mode = @ + 1]
        \/ spent' = [spent EXCEPT !.message = @ + 1]
    <3>1. CASE AnalyzeSee
      BY <3>1, <2>1 DEF AnalyzeSee
    <3>2. CASE Decide \/ Think
      BY <3>2, <2>1 DEF Decide, Think, Action
    <3>3. CASE SetPlayMode
      BY <3>3 DEF SetPlayMode
    <3>4. CASE LoseMessage
      BY <3>4 DEF LoseMessage
    <3>5. CASE AnalyzeSenseBody \/ AnalyzeHearReferee \/ AnalyzeOK \/ Tick \/ AcceptSynchSee \/ UNCHANGED vars
      BY <3>5 DEF AnalyzeSenseBody, AnalyzeHearReferee, AnalyzeOK, Tick, AcceptSynchSee, vars
    <3> QED BY <3>1, <3>2, <3>3, <3>4, <3>5 DEF Next, Agent, Server
  <2> QED BY <2>0, <2>00, <2>2 DEF SpentType
<1>2. Steady' => Steady
  <2>1. spent'.mode = 0 => spent.mode = 0
    BY <1>1
  <2> QED BY <2>1 DEF Steady
<1>3. spent'.message = 0 => spent.message = 0
  BY <1>1
<1>4. spent'.command = 0 => spent.command = 0
  BY <1>1
<1>5. spent'.mode = 0 => spent.mode = 0
  BY <1>1
<1>6. Regular' /\ (see.synchSee => see'.synchSee) => Regular
  BY <1>2, <1>3, <1>4, <1>5 DEF Regular, Settled
<1>7. Exact' => Exact
  BY <1>3 DEF Exact, Settled
<1>8. Regular' => spent'.command = 0 /\ spent.command = 0
  BY <1>4 DEF Regular
<1> QED BY <1>3, <1>5, <1>6, <1>7, <1>8

-----------------------------------------------------------------------------
(* The change_view commands and what they do to the agent.                 *)

\* No command is lost: the last one sent is the server's view mode.
LEMMA DeliverView ==
    ASSUME TypeOK, NEW sent \in Sent, Deliver(sent), spent'.command = spent.command
    PROVE  spent' = spent /\ srvView' = Received(LastView(srvView, sent))
<1>1. spent.command \in Nat /\ spent \in SpentType
  BY ConstantsAssumption DEF TypeOK, SpentType
<1>2. ASSUME spent' = [spent EXCEPT !.command = @ + 1]
      PROVE  FALSE
  BY <1>1, <1>2 DEF SpentType
<1>3. spent' # [spent EXCEPT !.command = @ + 1]
  BY <1>2
<1> QED BY <1>3 DEF Deliver, LastView

\* The agent and the server go on to agree.
LEMMA ViewsAgree ==
    ASSUME TypeOK, ViewInv, NEW sent \in Sent,
           view' = LastView(view, sent), srvView' = Received(LastView(srvView, sent))
    PROVE  /\ view'.width = srvView'.width
           /\ ~srvSynchSee => view' = srvView'
           /\ srvSynchSee => srvView'.quality = "HIGH"
<1> DEFINE x == LastView(view, sent)
           y == LastView(srvView, sent)
<1>1. x \in ViewMode /\ y \in ViewMode
  BY LastViewType DEF TypeOK
<1>2. x.width = y.width /\ (~srvSynchSee => x = y)
  BY Zenon DEF ViewInv, LastView
<1> HIDE DEF x, y
<1>3. view' = x /\ srvView' = Received(y)
  BY DEF x, y
<1> QED BY <1>1, <1>2, <1>3 DEF Received, ViewMode

\* The view mode of a command.
LEMMA ModeFields ==
    ASSUME NEW w \in ViewWidth, NEW q \in ViewQuality
    PROVE  Mode(w, q) \in ViewMode /\ Mode(w, q).width = w /\ Mode(w, q).quality = q
BY DEF Mode, ViewMode

\* The widths and qualities there are.
LEMMA Views == /\ "NARROW" \in ViewWidth /\ "NORMAL" \in ViewWidth /\ "WIDE" \in ViewWidth
               /\ "LOW" \in ViewQuality /\ "HIGH" \in ViewQuality
BY DEF ViewWidth, ViewQuality

\* A single change_view command leaves its view.
LEMMA OneCommand ==
    ASSUME NEW v, NEW u \in ViewMode
    PROVE  <<u>> \in Sent /\ <<u>> # <<>> /\ LastView(v, <<u>>) = u /\ LastView(v, <<>>) = v /\ <<>> \in Sent
<1>1. <<u>> \in Sent /\ <<>> \in Sent
  BY DEF Sent
<1>2. <<u>> # <<>> /\ Len(<<u>>) = 1 /\ <<u>>[1] = u
  OBVIOUS
<1>3. LastView(v, <<u>>) = u
  BY <1>2 DEF LastView
<1> QED BY <1>1, <1>2, <1>3 DEF LastView

-----------------------------------------------------------------------------
(* The adjust methods.                                                     *)

\* What both leave behind.
AdjustResult(a, s, v, rec, x, w, p) ==
    /\ a.see \in SeeStateType /\ a.sent \in Sent
    /\ a.see.seen = s.seen /\ a.see.count = s.count /\ a.see.history = s.history
    /\ a.see.synchSee = FALSE
    /\ rec =>
         /\ a.see.timing = x /\ a.sent = <<Mode(w, "HIGH")>>
         /\ a.see.till = IF s.seen THEN CyclesOf(a.see, w) ELSE s.till
    /\ ~rec =>
         /\ a.see.timing = s.timing
         /\ \/ /\ a.sent = <<>> /\ a.see = s
               /\ mode = "PlayOn" => v.quality # "LOW"
               /\ mode # "PlayOn" => ~p
            \/ /\ mode = "PlayOn" /\ a.sent = <<Mode("NARROW", "HIGH")>>
               /\ a.see.till = IF s.seen THEN 1 ELSE s.till
            \/ /\ mode # "PlayOn" /\ a.sent = <<Mode("NARROW", "LOW")>>
               /\ a.see.till = IF s.seen THEN 1 ELSE s.till

\* No recognised timing excludes its width.
LEMMA AdjustedFields ==
    ASSUME NEW s \in SeeStateType, ~IsSynch(s), NEW v \in ViewMode, NEW rec \in BOOLEAN,
           NEW x \in SynchTiming, NEW w \in ViewWidth, NEW p \in BOOLEAN,
           ~(x = "TIME_0_00" /\ w = "NARROW"), ~(x = "TIME_22_5" /\ w = "NORMAL")
    PROVE  AdjustResult(Adjusted(s, v, rec, x, w, p), s, v, rec, x, w, p)
<1> DEFINE to(y, new) == [see |-> SetViewMode(y, new.width), sent |-> <<new>>]
           a == Adjusted(s, v, rec, x, w, p)
<1>0. s.synchSee = FALSE /\ s.timing \notin SynchTiming /\ x \in Timing
  BY DEF IsSynch, SeeStateType, Timing
<1>1. a = CASE rec -> to(SetLastSeeTiming(s, x), Mode(w, "HIGH"))
            [] ~rec /\ mode = "PlayOn" /\ v.quality = "LOW" -> to(s, Mode("NARROW", "HIGH"))
            [] ~rec /\ mode # "PlayOn" /\ p -> to(s, Mode("NARROW", "LOW"))
            [] OTHER -> [see |-> s, sent |-> <<>>]
  BY DEF Adjusted
<1>2. ASSUME NEW y \in SeeStateType, NEW u \in ViewWidth, NEW q \in ViewQuality
      PROVE  /\ to(y, Mode(u, q)).see = SetViewMode(y, u)
             /\ to(y, Mode(u, q)).sent = <<Mode(u, q)>>
             /\ to(y, Mode(u, q)).sent \in Sent
  <2>1. Mode(u, q).width = u /\ Mode(u, q) \in ViewMode
    BY ModeFields
  <2> QED BY <2>1, OneCommand
<1> DEFINE y == SetLastSeeTiming(s, x)
<1>3. /\ y \in SeeStateType /\ y.timing = x /\ y.seen = s.seen /\ y.count = s.count
      /\ y.history = s.history /\ y.synchSee = FALSE /\ y.till = s.till
  BY <1>0, SetLastSeeTimingFields
<1> HIDE DEF y
<1>4. ~IllegalWidth(y, w)
  BY <1>3 DEF IllegalWidth
<1> DEFINE z == SetViewMode(y, w)
<1>5. /\ z \in SeeStateType /\ z.timing = x /\ z.seen = s.seen /\ z.count = s.count
      /\ z.history = s.history /\ z.synchSee = FALSE
      /\ z.till = IF s.seen THEN CyclesOf(y, w) ELSE s.till
  BY <1>3, <1>4, SetViewModeFields
<1> HIDE DEF z
<1>6. CyclesOf(z, w) = CyclesOf(y, w)
  BY <1>3, <1>5 DEF CyclesOf
<1> DEFINE n == SetViewMode(s, "NARROW")
<1>7. ~IllegalWidth(s, "NARROW") /\ CyclesOf(s, "NARROW") = 1
  BY <1>0 DEF IllegalWidth, SynchTiming, CyclesOf
<1>8. /\ n \in SeeStateType /\ n.timing = s.timing /\ n.seen = s.seen /\ n.count = s.count
      /\ n.history = s.history /\ n.synchSee = FALSE
      /\ n.till = IF s.seen THEN 1 ELSE s.till
  BY <1>0, <1>7, SetViewModeFields, Views
<1> HIDE DEF n
<1>9. CASE rec
  <2>1. a = to(y, Mode(w, "HIGH"))
    BY <1>1, <1>9 DEF y
  <2>2. a.see = z /\ a.sent = <<Mode(w, "HIGH")>> /\ a.sent \in Sent
    BY <2>1, <1>2, <1>3, Views DEF z
  <2> HIDE DEF a
  <2>3. /\ a.see \in SeeStateType /\ a.sent \in Sent
        /\ a.see.seen = s.seen /\ a.see.count = s.count /\ a.see.history = s.history
        /\ a.see.synchSee = FALSE
        /\ a.see.timing = x /\ a.sent = <<Mode(w, "HIGH")>>
        /\ a.see.till = IF s.seen THEN CyclesOf(a.see, w) ELSE s.till
    BY <2>2, <1>5, <1>6
  <2> QED BY <2>3, <1>9, Zenon DEF a, AdjustResult
<1>10. CASE ~rec /\ mode = "PlayOn" /\ v.quality = "LOW"
  <2>1. a = to(s, Mode("NARROW", "HIGH"))
    BY <1>1, <1>10
  <2>2. a.see = n /\ a.sent = <<Mode("NARROW", "HIGH")>> /\ a.sent \in Sent
    BY <2>1, <1>2, Views DEF n
  <2> HIDE DEF a
  <2>3. /\ a.see \in SeeStateType /\ a.sent \in Sent
        /\ a.see.seen = s.seen /\ a.see.count = s.count /\ a.see.history = s.history
        /\ a.see.synchSee = FALSE
        /\ a.see.timing = s.timing
        /\ a.see.till = IF s.seen THEN 1 ELSE s.till
    BY <2>2, <1>8
  <2> QED BY <2>2, <2>3, <1>10, Zenon DEF a, AdjustResult
<1>11. CASE ~rec /\ mode # "PlayOn" /\ p
  <2>1. a = to(s, Mode("NARROW", "LOW"))
    BY <1>1, <1>11
  <2>2. a.see = n /\ a.sent = <<Mode("NARROW", "LOW")>> /\ a.sent \in Sent
    BY <2>1, <1>2, Views DEF n
  <2> HIDE DEF a
  <2>3. /\ a.see \in SeeStateType /\ a.sent \in Sent
        /\ a.see.seen = s.seen /\ a.see.count = s.count /\ a.see.history = s.history
        /\ a.see.synchSee = FALSE
        /\ a.see.timing = s.timing
        /\ a.see.till = IF s.seen THEN 1 ELSE s.till
    BY <2>2, <1>8
  <2> QED BY <2>2, <2>3, <1>11, Zenon DEF a, AdjustResult
<1>12. CASE ~rec /\ ~(mode = "PlayOn" /\ v.quality = "LOW") /\ ~(mode # "PlayOn" /\ p)
  <2>1. a = [see |-> s, sent |-> <<>>]
    BY <1>1, <1>12
  <2>2. a.see = s /\ a.sent = <<>> /\ <<>> \in Sent
    BY <2>1 DEF Sent
  <2> HIDE DEF a
  <2> QED BY <2>2, <1>0, <1>12, Zenon DEF a, AdjustResult
<1> QED BY <1>9, <1>10, <1>11, <1>12

\* adjustSeeSynchNormalMode, after a see.
LEMMA AdjustNormalFields ==
    ASSUME NEW s \in SeeStateType, ~IsSynch(s), s.seen, NEW v \in ViewMode
    PROVE  LET a == AdjustSeeSynchNormalMode(s, v)
           IN  /\ a.see \in SeeStateType /\ a.sent \in Sent
               /\ a.see.seen = TRUE /\ a.see.count = s.count /\ a.see.history = s.history
               /\ a.see.synchSee = FALSE
               /\ IsSynchedSeeCountNormalMode(s) =>
                    /\ a.see.timing = "TIME_0_00" /\ a.sent = <<Mode("NORMAL", "HIGH")>>
                    /\ a.see.till = 1
               /\ ~IsSynchedSeeCountNormalMode(s) =>
                    /\ a.see.timing = s.timing
                    /\ \/ /\ a.sent = <<>> /\ a.see = s
                          /\ mode = "PlayOn" => v.quality # "LOW"
                          /\ mode # "PlayOn" => v = Mode("NARROW", "LOW")
                       \/ /\ mode = "PlayOn" /\ a.sent = <<Mode("NARROW", "HIGH")>>
                          /\ a.see.till = 1
                       \/ /\ mode # "PlayOn" /\ a.sent = <<Mode("NARROW", "LOW")>>
                          /\ a.see.till = 1
<1> DEFINE rec == IsSynchedSeeCountNormalMode(s)
           p == v.width # "NARROW" \/ v.quality # "LOW"
           a == Adjusted(s, v, rec, "TIME_0_00", "NORMAL", p)
<1>1. rec \in BOOLEAN /\ p \in BOOLEAN /\ "TIME_0_00" \in SynchTiming /\ "NORMAL" \in ViewWidth
  BY Views DEF IsSynchedSeeCountNormalMode, SynchTiming
<1>2. ~p => v = Mode("NARROW", "LOW")
  BY DEF ViewMode, Mode
<1>3. a = AdjustSeeSynchNormalMode(s, v)
  BY Zenon DEF AdjustSeeSynchNormalMode
<1> HIDE DEF rec, p
<1>4a. AdjustResult(a, s, v, rec, "TIME_0_00", "NORMAL", p)
  BY <1>1, AdjustedFields
<1>4. /\ a.see \in SeeStateType /\ a.sent \in Sent
      /\ a.see.seen = s.seen /\ a.see.count = s.count /\ a.see.history = s.history
      /\ a.see.synchSee = FALSE
      /\ rec =>
           /\ a.see.timing = "TIME_0_00" /\ a.sent = <<Mode("NORMAL", "HIGH")>>
           /\ a.see.till = IF s.seen THEN CyclesOf(a.see, "NORMAL") ELSE s.till
      /\ ~rec =>
           /\ a.see.timing = s.timing
           /\ \/ /\ a.sent = <<>> /\ a.see = s
                 /\ mode = "PlayOn" => v.quality # "LOW"
                 /\ mode # "PlayOn" => ~p
              \/ /\ mode = "PlayOn" /\ a.sent = <<Mode("NARROW", "HIGH")>>
                 /\ a.see.till = IF s.seen THEN 1 ELSE s.till
              \/ /\ mode # "PlayOn" /\ a.sent = <<Mode("NARROW", "LOW")>>
                 /\ a.see.till = IF s.seen THEN 1 ELSE s.till
  BY <1>4a, Zenon DEF AdjustResult
<1>5. s.seen = TRUE
  BY DEF SeeStateType
<1> HIDE DEF a
<1>6. rec => a.see.till = 1
  <2> SUFFICES ASSUME rec PROVE a.see.till = 1
    OBVIOUS
  <2>1. a.see.till = CyclesOf(a.see, "NORMAL") /\ a.see.timing = "TIME_0_00" /\ a.see.synchSee = FALSE
    BY <1>4, <1>5
  <2> QED BY <2>1 DEF CyclesOf
<1>7. ~rec => /\ a.see.timing = s.timing
              /\ \/ /\ a.sent = <<>> /\ a.see = s
                    /\ mode = "PlayOn" => v.quality # "LOW"
                    /\ mode # "PlayOn" => v = Mode("NARROW", "LOW")
                 \/ /\ mode = "PlayOn" /\ a.sent = <<Mode("NARROW", "HIGH")>>
                    /\ a.see.till = 1
                 \/ /\ mode # "PlayOn" /\ a.sent = <<Mode("NARROW", "LOW")>>
                    /\ a.see.till = 1
  BY <1>2, <1>4, <1>5
<1> QED BY <1>3, <1>4, <1>5, <1>6, <1>7, Zenon DEF rec

\* adjustSeeSynchSynchMode, before the view action.
LEMMA AdjustSynchFields ==
    ASSUME NEW s \in SeeStateType, ~IsSynch(s), NEW v \in ViewMode
    PROVE  LET a == AdjustSeeSynchSynchMode(s, v)
           IN  /\ a.see \in SeeStateType /\ a.sent \in Sent
               /\ a.see.seen = s.seen /\ a.see.count = s.count /\ a.see.history = s.history
               /\ a.see.synchSee = FALSE
               /\ IsSynchedSeeCountSynchMode(s) =>
                    a.see.timing = "TIME_50_0" /\ a.sent = <<Mode("NARROW", "HIGH")>>
               /\ ~IsSynchedSeeCountSynchMode(s) => a.see.timing = s.timing
<1> DEFINE rec == IsSynchedSeeCountSynchMode(s)
           p == v.width # "NARROW" /\ v.quality # "LOW"
           a == Adjusted(s, v, rec, "TIME_50_0", "NARROW", p)
<1>1. rec \in BOOLEAN /\ p \in BOOLEAN /\ "TIME_50_0" \in SynchTiming /\ "NARROW" \in ViewWidth
  BY Views DEF IsSynchedSeeCountSynchMode, SynchTiming
<1>3. a = AdjustSeeSynchSynchMode(s, v)
  BY Zenon DEF AdjustSeeSynchSynchMode
<1> HIDE DEF rec, p
<1>4a. AdjustResult(a, s, v, rec, "TIME_50_0", "NARROW", p)
  BY <1>1, AdjustedFields
<1>4. /\ a.see \in SeeStateType /\ a.sent \in Sent
      /\ a.see.seen = s.seen /\ a.see.count = s.count /\ a.see.history = s.history
      /\ a.see.synchSee = FALSE
      /\ rec => a.see.timing = "TIME_50_0" /\ a.sent = <<Mode("NARROW", "HIGH")>>
      /\ ~rec => a.see.timing = s.timing
  BY <1>4a, Zenon DEF AdjustResult
<1> HIDE DEF a
<1> QED BY <1>3, <1>4, Zenon DEF rec

-----------------------------------------------------------------------------
(* What the groups of the invariant rest on.                               *)

\* The six groups of the invariant of an agent that nothing has disturbed.
Groups == ClockInv /\ ViewInv /\ DecidedInv /\ CountInv /\ PrepareInv /\ TrackInv

\* What an undisturbed agent is spared.
LEMMA RegularFacts ==
    ASSUME TypeOK, Regular
    PROVE  /\ Steady /\ spent.command = 0
           /\ SynchMode => Exact /\ (see.synchSee => SynchSeeOffset <= 4)
           /\ Exact <=> Settled /\ spent.message = 0
           /\ spent.mode = 0 \/ (~ClockStands(srvMode) /\ ~ClockStands(mode))
           /\ Settled /\ mode = "PlayOn" => SynchMode
BY DEF TypeOK, Regular, Steady, Exact, Settled

\* The scalars of a state.
ScalarType ==
    /\ t \in 0..23 /\ Phase(t) \in 0..7 /\ elapsed \in 0..8
    /\ Cycle \in 0..2 /\ t = 8 * Cycle + Phase(t)
    /\ srvSynchSee \in BOOLEAN /\ decided \in BOOLEAN /\ lastSee \in 0..8
    /\ SynchSeeOffset \in 0..5 /\ SynchMode \in BOOLEAN /\ WantSynchSee \in BOOLEAN
    /\ view \in ViewMode /\ srvView \in ViewMode
    /\ view.width \in ViewWidth /\ view.quality \in ViewQuality
    /\ see.timing \in Timing /\ see.seen \in BOOLEAN /\ see.synchSee \in BOOLEAN
    /\ see.count \in 0..4 /\ see.till \in 0..100
    /\ \A i \in 1..3 : see.history[i] \in 0..4
    /\ clock.ahead \in BOOLEAN /\ clock.inStop \in BOOLEAN /\ clock.lag \in BOOLEAN
    /\ spent.mode \in Nat /\ spent.message \in Nat /\ spent.command \in Nat

\* Type correctness gives each scalar its range,
LEMMA Scalars == TypeOK => ScalarType
<1> SUFFICES ASSUME TypeOK PROVE ScalarType
  OBVIOUS
<1>1. Phase(t) \in 0..7 /\ Cycle \in 0..2 /\ t = 8 * Cycle + Phase(t)
  BY TimeType DEF TypeOK
<1>2. see \in SeeStateType
  BY DEF TypeOK
<1>3. /\ see.timing \in Timing /\ see.seen \in BOOLEAN /\ see.synchSee \in BOOLEAN
      /\ see.count \in 0..4 /\ see.till \in 0..100 /\ see.history \in [1..3 -> 0..4]
  BY <1>2 DEF SeeStateType, MaxCount, InitTill
<1>4. spent.mode \in Nat /\ spent.message \in Nat /\ spent.command \in Nat
  <2>1. spent \in SpentType
    BY DEF TypeOK, SpentType
  <2> QED BY <2>1, ConstantsAssumption DEF SpentType
<1>5. clock.ahead \in BOOLEAN /\ clock.inStop \in BOOLEAN /\ clock.lag \in BOOLEAN
  BY DEF TypeOK, Clock
<1>6. view.width \in ViewWidth /\ view.quality \in ViewQuality
  BY DEF TypeOK, ViewMode
<1> QED BY <1>1, <1>3, <1>4, <1>5, <1>6, ConstantsAssumption DEF TypeOK, NoSee, ScalarType

\* and in the next state.
LEMMA ScalarsNext == TypeOK' => ScalarType'
BY Scalars, PTL

\* The agent's interval is the server's, when the next shot is taken.
LEMMA TickFacts ==
    ASSUME TypeOK, Ordered, WireInv, Tick
    PROVE  /\ Ordered'
           /\ ~Pending /\ ~SeeArrives /\ ~ThinkArrives /\ ~OkArrives /\ ~HearArrives
           /\ ~OkArrives' /\ ~HearArrives'
           /\ Pending' <=> Phase(t') = 0
           /\ SeeArrives' <=> IsShot(t') /\ elapsed + 1 >= SeeInterval
           /\ ThinkArrives' <=> SynchMode /\ Phase(t') = 4
           /\ t' = (t + 1) % 24
           /\ elapsed' = IF SeeArrives' THEN 0 ELSE IF IsShot(t') THEN elapsed + 1 ELSE elapsed
           /\ clock'.inStop = clock.inStop /\ clock'.lag = clock.lag
           /\ clock'.ahead <=> clock.ahead \/ (Phase(t') = 0 /\ ~ClockStands(srvMode))
           /\ srvSynchSee <=> see.synchSee
           /\ ~DecideNow /\ ~(WaitedEnough /\ Phase(t) = 7)
           /\ srvView' = srvView /\ srvSynchSee' = srvSynchSee /\ srvMode' = srvMode
           /\ spent' = spent /\ see' = see /\ view' = view /\ mode' = mode
           /\ decided' = decided /\ lastSee' = lastSee
<1> DEFINE n == (t + 1) % 24
           due == IsShot(n) /\ elapsed + 1 >= SeeInterval
           a == Phase(n) = 0
           c == SynchMode /\ Phase(n) = 4
<1>1. /\ wire = <<>> /\ t' = n
      /\ elapsed' = IF due THEN 0 ELSE IF IsShot(n) THEN elapsed + 1 ELSE elapsed
      /\ clock' = IF Phase(n) = 0 /\ ~ClockStands(srvMode)
                  THEN [clock EXCEPT !.ahead = TRUE] ELSE clock
      /\ wire' = If(a, "sense_body") \o If(due, "see") \o If(c, "think")
      /\ ~DecideNow /\ ~(WaitedEnough /\ Phase(t) = 7)
      /\ srvView' = srvView /\ srvSynchSee' = srvSynchSee /\ srvMode' = srvMode
      /\ spent' = spent /\ see' = see /\ view' = view /\ mode' = mode
      /\ decided' = decided /\ lastSee' = lastSee
  BY DEF Tick
<1>2. ~Pending /\ ~SeeArrives /\ ~ThinkArrives /\ ~OkArrives /\ ~HearArrives
  BY <1>1, NothingArrives
<1>3. /\ clock'.inStop = clock.inStop /\ clock'.lag = clock.lag
      /\ clock'.ahead <=> clock.ahead \/ (Phase(n) = 0 /\ ~ClockStands(srvMode))
  <2>1. clock \in Clock
    BY DEF TypeOK
  <2>2. ASSUME NEW x \in Clock
        PROVE  LET y == [x EXCEPT !.ahead = TRUE]
               IN  y.ahead = TRUE /\ y.inStop = x.inStop /\ y.lag = x.lag
    BY DEF Clock
  <2>3. CASE Phase(n) = 0 /\ ~ClockStands(srvMode)
    <3>1. clock' = [clock EXCEPT !.ahead = TRUE]
      BY <1>1, <2>3
    <3>2. clock'.ahead = TRUE /\ clock'.inStop = clock.inStop /\ clock'.lag = clock.lag
      BY <2>1, <2>2, <3>1
    <3> QED BY <2>3, <3>2
  <2>4. CASE ~(Phase(n) = 0 /\ ~ClockStands(srvMode))
    BY <1>1, <2>4
  <2> QED BY <2>3, <2>4
<1>4. srvSynchSee <=> see.synchSee
  BY <1>2 DEF WireInv
<1> HIDE DEF due, a, c
<1> DEFINE w == If(a, "sense_body") \o If(due, "see") \o If(c, "think")
<1>5. a \in BOOLEAN /\ due \in BOOLEAN /\ c \in BOOLEAN
  BY DEF a, due, c
<1>6. /\ InOrder(w)
      /\ On(w, "sense_body") <=> a
      /\ On(w, "see") <=> due
      /\ On(w, "think") <=> c
      /\ ~On(w, "ok_synch_see") /\ ~On(w, "hear")
  BY <1>5, TickWire
<1>7. wire' = w
  BY <1>1
<1> HIDE DEF w
<1>8. /\ Ordered' /\ (Pending' <=> a) /\ (SeeArrives' <=> due) /\ (ThinkArrives' <=> c)
      /\ ~OkArrives' /\ ~HearArrives'
  BY <1>6, <1>7, Zenon DEF Ordered, Pending, SeeArrives, ThinkArrives, OkArrives, HearArrives, Has
<1>9. (a <=> Phase(t') = 0) /\ (c <=> SynchMode /\ Phase(t') = 4)
      /\ (due <=> IsShot(t') /\ elapsed + 1 >= SeeInterval)
  <2>1. t' = n
    BY <1>1
  <2> HIDE DEF n
  <2> QED BY <2>1, Zenon DEF a, c, due
<1>10. elapsed' = IF SeeArrives' THEN 0 ELSE IF IsShot(t') THEN elapsed + 1 ELSE elapsed
  BY <1>1, <1>8
<1> QED BY <1>1, <1>2, <1>3, <1>4, <1>8, <1>9, <1>10

-----------------------------------------------------------------------------
(* Tick.                                                                   *)

\* A unit of time keeps what is on the wire,
LEMMA TickWireInv ==
    ASSUME TypeOK, TypeOK', Ordered, WireInv, Tick
    PROVE  WireInv'
<1>1. SeeArrives' => IsShot(t')
  BY TickFacts
<1>2. IsShot(t') <=> IF srvSynchSee THEN Phase(t') = SynchSeeOffset ELSE t' % 3 = 0
  BY DEF IsShot
<1> QED BY <1>1, <1>2, TickFacts DEF WireInv

\* the agent's clock,
LEMMA TickClockInv ==
    ASSUME TypeOK, TypeOK', Ordered, WireInv, Regular, ClockInv, Tick
    PROVE  ClockInv'
<1>1. Fresh' <=> Fresh
  BY TickFacts, Zenon DEF Fresh
<1> QED BY <1>1, TickFacts, RegularFacts, Scalars DEF ClockInv, ScalarType

\* its view,
LEMMA TickViewInv ==
    ASSUME TypeOK, TypeOK', Ordered, WireInv, ViewInv, Tick
    PROVE  ViewInv'
BY TickFacts DEF ViewInv

\* its decision: a cycle ends when the agent has decided or knows nothing of it,
LEMMA TickDecidedInv ==
    ASSUME TypeOK, TypeOK', Ordered, WireInv, DecidedInv, Tick
    PROVE  DecidedInv'
<1>1. Fresh' <=> Fresh
  BY TickFacts, Zenon DEF Fresh
<1>2. CyclesOf(see', view'.width) = CyclesOf(see, view.width)
  BY TickFacts
<1>3. Phase(t') = IF Phase(t) = 7 THEN 0 ELSE Phase(t) + 1
  BY OneUnit, TickFacts, Scalars DEF ScalarType
<1> QED BY <1>1, <1>2, <1>3, TickFacts, Scalars DEF DecidedInv, ScalarType

\* The shots of the see timer in this cycle and in those before, one unit later.
LEMMA OneUnitShots ==
    ASSUME TypeOK, TypeOK', t' = (t + 1) % 24
    PROVE  /\ Phase(t') = IF Phase(t) = 7 THEN 0 ELSE Phase(t) + 1
           /\ t' % 3 = IF t % 3 = 2 THEN 0 ELSE (t % 3) + 1
           /\ t % 3 \in 0..2 /\ t' % 3 \in 0..2
           /\ Phase(t) # 7 => /\ Cycle' = Cycle /\ Second' = Second
                              /\ Shots' = Shots + One(t' % 3 = 0)
           /\ Phase(t) = 7 => /\ Shots = ShotsIn(Cycle' - 1)
                              /\ ShotsIn(Cycle - 1) = ShotsIn(Cycle' - 2)
                              /\ ShotsIn(Cycle - 2) = ShotsIn(Cycle' - 3)
                              /\ t' = 0 => Cycle = 2
           /\ Shots \in 0..3 /\ Shots' \in 0..3
<1>1. t \in 0..23 /\ t' \in 0..23
  BY DEF TypeOK
<1>2. t' \div 8 = IF t % 8 = 7 THEN (IF t \div 8 = 2 THEN 0 ELSE (t \div 8) + 1) ELSE t \div 8
  BY <1>1
<1>3. t' \div 3 = IF t = 23 THEN 0 ELSE t \div 3 + (IF t' % 3 = 0 THEN 1 ELSE 0)
  BY <1>1
<1>4. Phase(t') = IF Phase(t) = 7 THEN 0 ELSE Phase(t) + 1
  BY <1>1 DEF Phase
<1>5. t' % 3 = IF t % 3 = 2 THEN 0 ELSE (t % 3) + 1
  BY <1>1
<1>6. Phase(t) # 7 => /\ Cycle' = Cycle /\ Second' = Second
                      /\ Shots' = Shots + One(t' % 3 = 0)
  BY <1>1, <1>2, <1>3 DEF Phase, Cycle, Second, Shots, One
<1>7. Phase(t) = 7 => /\ Shots = ShotsIn(Cycle' - 1)
                      /\ ShotsIn(Cycle - 1) = ShotsIn(Cycle' - 2)
                      /\ ShotsIn(Cycle - 2) = ShotsIn(Cycle' - 3)
                      /\ t' = 0 => Cycle = 2
  BY <1>1, <1>2, <1>3 DEF Phase, Cycle, Shots, ShotsIn
<1>8. Shots \in 0..3 /\ Shots' \in 0..3
  BY <1>1 DEF Cycle, Shots
<1> QED BY <1>1, <1>4, <1>5, <1>6, <1>7, <1>8

\* the counts: a see that is sent is one more shot,
LEMMA TickCountInv ==
    ASSUME TypeOK, TypeOK', Ordered, WireInv, CountInv, Tick
    PROVE  CountInv'
<1> SUFFICES ASSUME ~see.synchSee
             PROVE  CountInv'
  BY TickFacts DEF CountInv
<1>1. SeeArrives' => t' % 3 = 0
  BY TickFacts DEF IsShot
<1>2. IsShot(t') <=> t' % 3 = 0
  BY TickFacts DEF IsShot
<1>3. /\ see.count \in 0..4 /\ lastSee \in 0..8 /\ elapsed \in 0..8 /\ Phase(t) \in 0..7
      /\ see.history[1] \in 0..4 /\ see.history[2] \in 0..4 /\ see.history[3] \in 0..4
  BY Scalars DEF ScalarType
<1>4. One(TRUE) = 1 /\ One(FALSE) = 0
  BY DEF One
<1>5. CASE Phase(t) = 7
  <2>1. Pending'
    BY <1>5, OneUnitShots, TickFacts
  <2>2. see.count <= Shots /\ see.history[1] <= ShotsIn(Cycle - 1) /\ see.history[2] <= ShotsIn(Cycle - 2)
    BY <1>3, TickFacts, OneUnitShots DEF CountInv, One
  <2>3. /\ see'.count <= ShotsIn(Cycle' - 1)
        /\ see'.history[1] <= ShotsIn(Cycle' - 2)
        /\ see'.history[2] <= ShotsIn(Cycle' - 3)
    BY <1>5, <2>2, TickFacts, OneUnitShots
  <2> QED BY <2>1, <2>3 DEF CountInv
<1>6. CASE Phase(t) # 7
  <2>1. ~Pending' /\ ~Pending /\ ~SeeArrives /\ Cycle' = Cycle /\ Second' = Second
    BY <1>3, <1>6, OneUnitShots, TickFacts
  <2>2. Shots' = Shots + One(t' % 3 = 0) /\ Shots \in 0..3
    BY <1>6, TickFacts, OneUnitShots
  <2>3. see.count <= Shots
    BY <1>3, <2>1, <2>2 DEF CountInv, One
  <2>4. see.count + One(SeeArrives') <= Shots'
    BY <1>1, <1>3, <2>2, <2>3 DEF One
  <2>5. see.count >= 1 =>
          /\ see.seen
          /\ lastSee <= Phase(t')
          /\ see.count >= 2 => lastSee >= Second
    BY <1>3, <1>6, <2>1, TickFacts, OneUnitShots DEF CountInv
  <2>6. see.count >= 1 /\ SynchMode /\ ~SeeArrives' /\ ~srvSynchSee =>
          lastSee + 3 * elapsed' + (t' % 3) = Phase(t')
    <3>1. see.count >= 1 /\ SynchMode /\ ~srvSynchSee => lastSee + 3 * elapsed + (t % 3) = Phase(t)
      BY <2>1 DEF CountInv
    <3>2. ~SeeArrives' => elapsed' = IF t' % 3 = 0 THEN elapsed + 1 ELSE elapsed
      BY <1>2, TickFacts
    <3> QED BY <3>1, <3>2, <1>3, <1>6, TickFacts, OneUnitShots
  <2>7. see.history[1] <= ShotsIn(Cycle - 1) /\ see.history[2] <= ShotsIn(Cycle - 2)
        /\ see.history[3] <= ShotsIn(Cycle - 3)
    BY <2>1 DEF CountInv
  <2>8. see' = see /\ lastSee' = lastSee /\ (srvSynchSee' <=> srvSynchSee)
    BY TickFacts
  <2> QED BY <2>1, <2>4, <2>5, <2>6, <2>7, <2>8 DEF CountInv
<1> QED BY <1>5, <1>6

\* and the pattern of a narrow low view.
LEMMA TickPrepareInv ==
    ASSUME TypeOK, TypeOK', Ordered, WireInv, ViewInv, CountInv, PrepareInv, Tick
    PROVE  PrepareInv'
<1> SUFFICES ASSUME ~SynchMode, Exact, ~see.synchSee, see.timing \notin SynchTiming
             PROVE  PrepareInv'
  <2>1. Exact' <=> Exact
    BY TickFacts DEF Exact
  <2> QED BY <2>1, TickFacts DEF PrepareInv
<1>1. IsShot(t') <=> t' % 3 = 0
  BY TickFacts DEF IsShot
<1>2. /\ see.count \in 0..4 /\ elapsed \in 0..8 /\ Phase(t) \in 0..7
      /\ see.history[1] \in 0..4 /\ see.history[2] \in 0..4 /\ see.history[3] \in 0..4
  BY Scalars DEF ScalarType
<1>3. /\ view = Mode("NARROW", "LOW") \/ (see.count = 0 /\ \A i \in 1..3 : see.history[i] = 0)
      /\ see.history[1] = 3 => see.count + One(SeeArrives) = Shots
      /\ see.history[2] = 3 => see.history[1] = ShotsIn(Cycle - 1)
      /\ see.history[1] = 2 /\ see.history[2] = 3 => SeeArrives /\ t = 0
  BY TickFacts DEF PrepareInv
<1>4. see.history[1] = 3 /\ t' % 3 = 0 => SeeArrives'
  <2>1. srvView = view /\ view.width \in ViewWidth
    <3>1. srvView = view
      BY TickFacts DEF ViewInv
    <3> QED BY <3>1, Scalars DEF ScalarType
  <2>2. view = Mode("NARROW", "LOW") => VisInterval(view) = 1
    BY DEF VisInterval, Mode
  <2>3. SeeInterval = VisInterval(view)
    BY <2>1, TickFacts DEF SeeInterval
  <2> QED BY <1>1, <1>2, <1>3, <2>2, <2>3, TickFacts
<1>5. SeeArrives' => t' % 3 = 0
  BY <1>1, TickFacts
<1>6. see.history[1] = 3 => see.count = Shots
  BY <1>2, <1>3, TickFacts DEF One
<1>7. ~(see.history[1] = 2 /\ see.history[2] = 3)
  BY <1>3, TickFacts
<1>8. CASE Phase(t) = 7
  <2>1. Pending'
    BY <1>8, OneUnitShots, TickFacts
  <2>2. see.history[1] = 3 => /\ see.count = ShotsIn(Cycle' - 1)
                              /\ t' = 0 => SeeArrives'
    BY <1>4, <1>6, <1>8, OneUnitShots, TickFacts
  <2> QED BY <1>3, <2>1, <2>2, TickFacts DEF PrepareInv
<1>9. CASE Phase(t) # 7
  <2>1. ~Pending' /\ Cycle' = Cycle /\ Shots' = Shots + One(t' % 3 = 0)
    BY <1>2, <1>9, OneUnitShots, TickFacts
  <2>2. see.history[1] = 3 => see.count + One(SeeArrives') = Shots'
    BY <1>4, <1>5, <1>6, <2>1, <1>2 DEF One
  <2> QED BY <1>3, <1>7, <2>1, <2>2, TickFacts DEF PrepareInv
<1> QED BY <1>8, <1>9

\* The scalars derived from those of a state.
DerivedType ==
    /\ V \in 1..8 /\ Age \in 0..8
    /\ t % 3 \in 0..2 /\ Since \in Nat /\ Since \div 8 \in Nat /\ Since % 8 \in 0..7
    /\ Since = 8 * (Since \div 8) + (Since % 8)
    /\ see.synchSee => CyclesSince = (IF Phase(t) < SynchSeeOffset THEN Age + 1 ELSE Age)
                                       - (IF Pending THEN 1 ELSE 0)
    /\ ~see.synchSee => CyclesSince = (Since \div 8) - (IF Pending THEN 1 ELSE 0)
    /\ CyclesSince \in Int
    /\ CyclesOf(see, view.width) \in 1..3

\* Type correctness gives each derived quantity its range,
LEMMA Derived == TypeOK => DerivedType
<1> SUFFICES ASSUME TypeOK PROVE DerivedType
  OBVIOUS
<1>1. V \in 1..8
  BY IntervalType, Scalars DEF ScalarType
<1>2. Age \in 0..8
  BY <1>1, Scalars DEF Age, ScalarType
<1>3. t % 3 \in 0..2
  BY Scalars DEF ScalarType
<1>4. Since \in Nat
  BY <1>2, <1>3, Scalars DEF Since, ScalarType
<1>5. Since \div 8 \in Nat /\ Since % 8 \in 0..7 /\ Since = 8 * (Since \div 8) + (Since % 8)
  BY <1>4, Eights
<1>6. see.synchSee => CyclesSince = (IF Phase(t) < SynchSeeOffset THEN Age + 1 ELSE Age)
                                       - (IF Pending THEN 1 ELSE 0)
  BY <1>2, <1>5 DEF CyclesSince, One
<1>7. ~see.synchSee => CyclesSince = (Since \div 8) - (IF Pending THEN 1 ELSE 0)
  BY <1>2, <1>5 DEF CyclesSince, One
<1>8. CyclesOf(see, view.width) \in 1..3
  BY Scalars DEF CyclesOf, ScalarType, ViewWidth
<1> QED BY <1>1, <1>2, <1>3, <1>4, <1>5, <1>6, <1>7, <1>8 DEF DerivedType

\* and in the next state.
LEMMA DerivedNext == TypeOK' => DerivedType'
BY Derived, PTL

\* The cycles since the last see are counted from sense_body to sense_body.
LEMMA TickCyclesSince ==
    ASSUME TypeOK, TypeOK', Ordered, WireInv, ViewInv, Tick, OnGrid
    PROVE  OnGrid' /\ CyclesSince' = CyclesSince
<1>1. /\ elapsed \in 0..8 /\ elapsed' \in 0..8 /\ lastSee \in 0..8 /\ SynchSeeOffset \in 0..5
      /\ Phase(t) \in 0..7 /\ Phase(t') \in 0..7
  BY Scalars, ScalarsNext DEF ScalarType
<1>2. V \in 1..8 /\ V' = V /\ SeeInterval = V
  <2>1. V \in 1..8
    BY IntervalType, Scalars DEF ScalarType
  <2>2. V' = V
    BY TickFacts DEF V
  <2>3. SeeInterval = V
    BY IntervalAgrees, TickFacts
  <2> QED BY <2>1, <2>2, <2>3
<1>3. elapsed < V
  BY DEF OnGrid
<1>4. elapsed' < V'
  BY <1>1, <1>2, <1>3, TickFacts
<1>5. Age = elapsed
  BY TickFacts DEF Age
<1>6. Age' = IF IsShot(t') THEN elapsed + 1 ELSE elapsed
  BY <1>1, <1>2, <1>3, TickFacts DEF Age
<1>7. CASE see.synchSee
  <2>1. IsShot(t') <=> Phase(t') = SynchSeeOffset
    BY <1>7, TickFacts DEF IsShot
  <2>2. Phase(t') = IF Phase(t) = 7 THEN 0 ELSE Phase(t) + 1
    BY OneUnitShots, TickFacts
  <2>3. Pending' <=> Phase(t') = 0
    BY TickFacts
  <2>4. CyclesSince' = CyclesSince
    <3>1. CyclesSince = IF Phase(t) < SynchSeeOffset THEN elapsed + 1 ELSE elapsed
      BY <1>1, <1>5, <1>7, TickFacts, Derived DEF DerivedType
    <3>2. CyclesSince' = (IF Phase(t') < SynchSeeOffset THEN Age' + 1 ELSE Age')
                           - (IF Phase(t') = 0 THEN 1 ELSE 0)
      BY <1>7, <2>3, TickFacts, DerivedNext DEF DerivedType
    <3>3. Age' = IF Phase(t') = SynchSeeOffset THEN elapsed + 1 ELSE elapsed
      BY <1>6, <2>1
    <3> QED BY <1>1, <2>2, <3>1, <3>2, <3>3
  <2>5. see'.synchSee /\ lastSee' = SynchSeeOffset
    BY <1>7, TickFacts DEF OnGrid
  <2>6. see.synchSee /\ OnGrid'
    BY <1>4, <1>7, <2>5 DEF OnGrid
  <2> QED BY <2>4, <2>6
<1>8. CASE ~see.synchSee
  <2>1. IsShot(t') <=> t' % 3 = 0
    BY <1>8, TickFacts DEF IsShot
  <2>2. Since \in Nat /\ Since' = Since + 1
    BY <1>1, <1>5, <1>6, <2>1, OneUnitShots, TickFacts DEF Since
  <2>3. Since % 8 = Phase(t)
    BY <1>8 DEF OnGrid
  <2>4. Since \div 8 \in Nat /\ Since = 8 * (Since \div 8) + Phase(t)
    BY <2>2, <2>3, Eights
  <2>5. Phase(t') = IF Phase(t) = 7 THEN 0 ELSE Phase(t) + 1
    BY OneUnitShots, TickFacts
  <2>6. Since' \in Nat /\ \E k \in Nat : /\ Since' = 8 * k + Phase(t')
                                         /\ k = (Since \div 8) + One(Phase(t') = 0)
    <3>1. (Since \div 8) + One(Phase(t') = 0) \in Nat
      BY <2>4 DEF One
    <3>2. Since' = 8 * ((Since \div 8) + One(Phase(t') = 0)) + Phase(t')
      BY <1>1, <2>2, <2>4, <2>5 DEF One
    <3> QED BY <2>2, <3>1, <3>2
  <2>7. Since' % 8 = Phase(t') /\ Since' \div 8 = (Since \div 8) + One(Phase(t') = 0)
    BY <1>1, <2>6, Eights, ZenonT(40)
  <2>8. ~see'.synchSee
    BY <1>8, TickFacts
  <2>9. CyclesSince' = CyclesSince
    <3>1. CyclesSince = Since \div 8
      BY <1>8, TickFacts, Derived DEF DerivedType
    <3>2. CyclesSince' = (Since' \div 8) - (IF Phase(t') = 0 THEN 1 ELSE 0)
      BY <2>8, TickFacts, DerivedNext DEF DerivedType
    <3>3. Since' \div 8 = (Since \div 8) + (IF Phase(t') = 0 THEN 1 ELSE 0)
      BY <2>7 DEF One
    <3> QED BY <2>4, <3>1, <3>2, <3>3
  <2> QED BY <1>4, <2>7, <2>8, <2>9 DEF OnGrid
<1> QED BY <1>7, <1>8

\* At the end of a cycle a synchronized agent has decided.
LEMMA DecidedInTime ==
    ASSUME TypeOK, TypeOK', Ordered, WireInv, Tracked, TrackInv, Tick, Pending'
    PROVE  Phase(t) = 7 /\ decided
<1>1. Phase(t) = 7
  BY TickFacts, OneUnitShots, Scalars DEF ScalarType
<1>2. CASE SynchMode
  BY <1>1, <1>2, TickFacts DEF TrackInv
<1>3. CASE ~SynchMode
  <2>1. wire = <<>>
    BY DEF Tick
  <2> QED BY <1>1, <1>3, <2>1, TickFacts DEF WaitedEnough
<1> QED BY <1>1, <1>2, <1>3

\* A unit of time keeps the countdown: cycles that pass are counted once sense_body is read.
LEMMA TickTrackInv ==
    ASSUME TypeOK, TypeOK', Ordered, WireInv, Regular, ClockInv, ViewInv, TrackInv, Tick
    PROVE  TrackInv'
<1> SUFFICES ASSUME Tracked
             PROVE  TrackInv'
  <2>1. Tracked' <=> Tracked
    BY TickFacts, Zenon DEF Tracked
  <2> QED BY <2>1 DEF TrackInv
<1>1. /\ ~see.synchSee => Good(see.timing, lastSee) /\ view.quality = "HIGH"
      /\ SynchMode /\ Phase(t) >= 4 => decided
      /\ CountdownInv
  BY TickFacts DEF TrackInv, Valid
<1>2. Exact' <=> Exact
  BY TickFacts DEF Exact
<1>3. ~see'.synchSee => Good(see.timing, lastSee)' /\ view'.quality = "HIGH"
  <2>1. Good(see.timing, lastSee)' <=> Good(see.timing, lastSee)
    BY <1>2, TickFacts, Zenon DEF Good
  <2> QED BY <1>1, <2>1, TickFacts
<1>4. Phase(t') = IF Phase(t) = 7 THEN 0 ELSE Phase(t) + 1
  BY TickFacts, OneUnitShots
<1>5. SynchMode /\ Phase(t') >= 4 => decided' \/ ThinkArrives'
  BY <1>1, <1>4, TickFacts, Scalars DEF ScalarType
<1>6. Pending' => Phase(t) = 7 /\ decided
  BY DecidedInTime
<1>7. OnGrid => OnGrid' /\ CyclesSince' = CyclesSince
  BY TickCyclesSince
<1>8. (Waiting' <=> Waiting) /\ (Legal' <=> Legal) /\ CyclesOf(see', view'.width) = CyclesOf(see, view.width)
  BY TickFacts, Zenon DEF Waiting, Legal
<1>9. ~Waiting => OnGrid'
  BY <1>1, <1>7 DEF CountdownInv
<1>10. see.seen => CyclesSince' = 0
  BY <1>1, <1>7 DEF CountdownInv, Waiting
<1>11. see.till > 0 /\ (~see.seen \/ decided \/ Pending') =>
         see.till + CyclesSince' = CyclesOf(see, view.width)
  BY <1>1, <1>6, <1>7, Scalars DEF CountdownInv, Waiting, ScalarType
<1>12. Due => Due'
  BY <1>7, <1>8 DEF Due
<1>13. ASSUME Waiting, ~see.synchSee, Lost
       PROVE  Lost'
  <2>1. ~Pending' /\ Phase(t') = Phase(t) + 1
    <3>1. ~decided
      BY <1>1, <1>13 DEF CountdownInv, Waiting
    <3> QED BY <1>4, <1>6, <3>1, TickFacts
  <2>2. /\ spent.message > 0 /\ LastShot >= 0
        /\ view.width = "NARROW" /\ see.timing = "TIME_50_0" => LastShot >= 2
    BY <1>13, TickFacts DEF Lost
  <2>3. IsShot(t') <=> t' % 3 = 0
    BY <1>13, TickFacts DEF IsShot
  <2>4. ~SeeArrives' => LastShot' = LastShot
    <3>1. ~SeeArrives' => elapsed' = IF t' % 3 = 0 THEN elapsed + 1 ELSE elapsed
      BY <2>3, TickFacts
    <3> QED BY <2>1, <3>1, OneUnitShots, TickFacts, Scalars DEF LastShot, ScalarType
  <2>5. SeeArrives' => see.timing = "TIME_22_5" /\ view.width = "NARROW"
    <3> SUFFICES ASSUME SeeArrives'
                 PROVE  see.timing = "TIME_22_5" /\ view.width = "NARROW"
      OBVIOUS
    <3>1. elapsed + 1 >= V /\ t' % 3 = 0
      BY <2>3, TickFacts, IntervalAgrees
    <3>2. V = IF view.width = "NARROW" THEN 2 ELSE IF view.width = "NORMAL" THEN 4 ELSE 8
      BY <1>1, <1>13, IntervalType, Scalars DEF ScalarType
    <3>3. Phase(t) - 3 * elapsed - 2 >= 0 /\ t % 3 = 2
      BY <2>1, <2>2, <3>1, OneUnitShots, TickFacts DEF LastShot
    <3>4. Phase(t) <= 6
      BY <1>4, <2>1, Scalars, ScalarsNext DEF ScalarType
    <3>5. view.width = "NARROW" /\ elapsed = 1
      BY <3>1, <3>2, <3>3, <3>4, Scalars DEF ScalarType
    <3>6. see.timing # "TIME_50_0"
      BY <2>2, <3>3, <3>4, <3>5, Scalars DEF LastShot, ScalarType
    <3>7. see.timing # "TIME_0_00"
      BY <1>1, <1>13, <3>5 DEF CountdownInv, Legal, IllegalWidth, Waiting
    <3>8. see.timing \in SynchTiming
      BY <1>13 DEF Tracked
    <3> QED BY <3>5, <3>6, <3>7, <3>8 DEF SynchTiming
  <2> QED BY <2>2, <2>4, <2>5, TickFacts DEF Lost
<1>14. Waiting => IF see.synchSee THEN Exact' => Due' ELSE Lost' \/ Due'
  BY <1>1, <1>2, <1>12, <1>13 DEF CountdownInv
<1>15. decided \/ Pending' => see.till > 0 \/ (see.synchSee /\ ~Exact' /\ ~see.seen)
  BY <1>1, <1>2, <1>6 DEF CountdownInv
<1>16. ASSUME ~Legal
       PROVE  /\ see.timing = "TIME_0_00" /\ see.seen /\ ~decided /\ ~Pending'
              /\ IF SynchMode THEN Phase(t') <= 4 ELSE elapsed' = 0 /\ ~SeeArrives'
  <2>1. /\ see.timing = "TIME_0_00" /\ see.seen /\ ~decided
        /\ SynchMode => Phase(t) <= 4
    BY <1>1, <1>16 DEF CountdownInv
  <2>2. ~Pending'
    BY <1>6, <2>1
  <2>3. CASE SynchMode
    BY <1>1, <1>4, <2>1, <2>2, <2>3, Scalars DEF ScalarType
  <2>4. CASE ~SynchMode
    <3>1. ~Fresh
      BY <2>1 DEF Fresh, SynchTiming
    <3>2. ~clock.lag
      BY <3>1, TickFacts DEF ClockInv
    <3>3. DecideNow
      BY <2>1, <2>4, <3>2 DEF DecideNow, SeeIsCurrent
    <3> QED BY <3>3, TickFacts
  <2> QED BY <2>1, <2>2, <2>3, <2>4
<1>17. CountdownInv'
  BY <1>8, <1>9, <1>10, <1>11, <1>14, <1>15, <1>16, TickFacts DEF CountdownInv
<1> QED BY <1>3, <1>5, <1>17 DEF TrackInv

-----------------------------------------------------------------------------
(* Steps that the countdown does not notice.                               *)

\* A step that leaves the sees and the view alone leaves the countdown alone.
LEMMA SameCountdown ==
    ASSUME TypeOK, TypeOK',
           t' = t, elapsed' = elapsed, see' = see, view' = view, lastSee' = lastSee,
           SeeArrives' <=> SeeArrives, Pending' <=> Pending, spent'.message = spent.message,
           decided' => decided
    PROVE  /\ Exact' <=> Exact
           /\ Fresh' <=> Fresh
           /\ Tracked' <=> Tracked
           /\ Good(see.timing, lastSee)' <=> Good(see.timing, lastSee)
           /\ One(SeeArrives') = One(SeeArrives)
           /\ Cycle' = Cycle /\ Shots' = Shots /\ Second' = Second
           /\ CountdownInv => CountdownInv'
<1>1. (Exact' <=> Exact) /\ (Fresh' <=> Fresh) /\ (Tracked' <=> Tracked) /\ (Waiting' <=> Waiting) /\ (Legal' <=> Legal)
  BY Zenon DEF Exact, Fresh, Settled, Tracked, Waiting, Legal
<1>2. Good(see.timing, lastSee)' <=> Good(see.timing, lastSee)
  BY <1>1, Zenon DEF Good
<1>3. One(SeeArrives') = One(SeeArrives) /\ One(Pending') = One(Pending)
  BY DEF One
<1>4. Cycle' = Cycle /\ Shots' = Shots /\ Second' = Second
  BY DEF Cycle, Shots, Second
<1>5. V' = V
  BY DEF V
<1>6. Age' = Age
  BY <1>5 DEF Age
<1>7. Since' = Since
  BY <1>6 DEF Since
<1>8. CyclesSince' = CyclesSince
  BY <1>6, <1>7, Derived, DerivedNext DEF DerivedType
<1>9. (OnGrid' <=> OnGrid) /\ (Lost' <=> Lost)
  BY <1>5, <1>7 DEF OnGrid, Lost, LastShot
<1>10. Due' <=> Due
  BY <1>8, <1>9 DEF Due
<1>11. ASSUME CountdownInv
       PROVE  CountdownInv'
  <2> HIDE DEF Exact, Waiting, Legal, OnGrid, Due, Lost
  <2>1. CyclesOf(see', view'.width) = CyclesOf(see, view.width)
    OBVIOUS
  <2>2. ~Waiting' => OnGrid'
    BY <1>1, <1>9, <1>11 DEF CountdownInv
  <2>3. see'.seen => CyclesSince' = 0
    BY <1>8, <1>11 DEF CountdownInv
  <2>4. see'.till > 0 /\ (~see'.seen \/ decided' \/ Pending') =>
          see'.till + CyclesSince' = CyclesOf(see', view'.width)
    BY <1>8, <1>11, <2>1 DEF CountdownInv
  <2>5. Waiting' => IF see'.synchSee THEN Exact' => Due' ELSE Lost' \/ Due'
    BY <1>1, <1>9, <1>10, <1>11 DEF CountdownInv
  <2>6. decided' \/ Pending' => see'.till > 0 \/ (see'.synchSee /\ ~Exact' /\ ~see'.seen)
    BY <1>1, <1>11 DEF CountdownInv
  <2>7. ~Legal' =>
          /\ see'.timing = "TIME_0_00" /\ see'.seen /\ ~decided' /\ ~Pending'
          /\ IF SynchMode THEN Phase(t') <= 4 ELSE elapsed' = 0 /\ ~SeeArrives'
    BY <1>1, <1>11 DEF CountdownInv
  <2> QED BY <2>2, <2>3, <2>4, <2>5, <2>6, <2>7 DEF CountdownInv
<1> QED BY <1>1, <1>2, <1>3, <1>4, <1>11

-----------------------------------------------------------------------------
(* SetPlayMode, AcceptSynchSee.                                            *)

\* The referee's message may come before or after all others.
LEMMA SetPlayModeFacts ==
    ASSUME TypeOK, Ordered, WireInv, SetPlayMode
    PROVE  /\ Ordered' /\ HearArrives'
           /\ (Pending' <=> Pending) /\ (SeeArrives' <=> SeeArrives)
           /\ (ThinkArrives' <=> ThinkArrives) /\ (OkArrives' <=> OkArrives)
           /\ spent'.mode > 0 /\ spent'.message = spent.message /\ spent'.command = spent.command
           /\ t' = t /\ elapsed' = elapsed /\ srvView' = srvView /\ srvSynchSee' = srvSynchSee
           /\ see' = see /\ view' = view /\ mode' = mode /\ clock' = clock
           /\ decided' = decided /\ lastSee' = lastSee
<1>1. /\ "hear" \notin {wire[i] : i \in 1..Len(wire)}
      /\ wire' \in {<<"hear">> \o wire, Append(wire, "hear")}
      /\ spent' = [spent EXCEPT !.mode = @ + 1]
      /\ t' = t /\ elapsed' = elapsed /\ srvView' = srvView /\ srvSynchSee' = srvSynchSee
      /\ see' = see /\ view' = view /\ mode' = mode /\ clock' = clock
      /\ decided' = decided /\ lastSee' = lastSee
  BY DEF SetPlayMode, agentVars
<1>2. /\ wire \in Seq(Message) /\ "hear" \in Message /\ InOrder(wire) /\ ~On(wire, "hear")
  BY <1>1 DEF TypeOK, Message, Ordered, On
<1>3. \A x : On(wire, x) => Follows("hear", x) /\ Follows(x, "hear")
  <2> SUFFICES ASSUME NEW x, On(wire, x)
               PROVE  Follows("hear", x) /\ Follows(x, "hear")
    OBVIOUS
  <2>1. x # "hear"
    BY <1>2
  <2> QED BY <2>1 DEF Follows
<1>4. /\ InOrder(wire') /\ On(wire', "hear")
      /\ \A x : x # "hear" => (On(wire', x) <=> On(wire, x))
  <2>1. CASE wire' = <<"hear">> \o wire
    <3>1. /\ InOrder(<<"hear">> \o wire) /\ On(<<"hear">> \o wire, "hear")
          /\ \A x : x # "hear" => (On(<<"hear">> \o wire, x) <=> On(wire, x))
      BY <1>2, <1>3, PrependToWire
    <3> QED BY <2>1, <3>1
  <2>2. CASE wire' = Append(wire, "hear")
    <3>1. /\ InOrder(Append(wire, "hear")) /\ On(Append(wire, "hear"), "hear")
          /\ \A x : x # "hear" => (On(Append(wire, "hear"), x) <=> On(wire, x))
      BY <1>2, <1>3, AppendToWire
    <3> QED BY <2>2, <3>1
  <2> QED BY <1>1, <2>1, <2>2
<1>5. /\ Ordered' /\ HearArrives'
      /\ (Pending' <=> Pending) /\ (SeeArrives' <=> SeeArrives)
      /\ (ThinkArrives' <=> ThinkArrives) /\ (OkArrives' <=> OkArrives)
  BY <1>4, Zenon DEF Ordered, HearArrives, Pending, SeeArrives, ThinkArrives, OkArrives, Has
<1>6. spent'.mode > 0 /\ spent'.message = spent.message /\ spent'.command = spent.command
  <2>1. spent \in SpentType /\ spent.mode \in Nat
    BY Scalars DEF TypeOK, SpentType, ScalarType
  <2> QED BY <1>1, <2>1 DEF SpentType
<1> QED BY <1>1, <1>5, <1>6

\* A change of the play mode keeps every part of the invariant.
LEMMA SetPlayModePreserves ==
    ASSUME TypeOK, TypeOK', SynchInv, Regular', Regular, SetPlayMode
    PROVE  Groups'
<1>1. Ordered /\ WireInv /\ ClockInv /\ ViewInv /\ DecidedInv /\ CountInv /\ PrepareInv /\ TrackInv
  BY DEF SynchInv
<1>2. /\ (Exact' <=> Exact) /\ (Fresh' <=> Fresh) /\ (Tracked' <=> Tracked)
      /\ Good(see.timing, lastSee)' <=> Good(see.timing, lastSee)
      /\ One(SeeArrives') = One(SeeArrives) /\ Cycle' = Cycle /\ Shots' = Shots /\ Second' = Second
      /\ CountdownInv => CountdownInv'
  BY <1>1, SetPlayModeFacts, SameCountdown
<1>3. ClockInv'
  BY <1>1, <1>2, SetPlayModeFacts, Scalars, ScalarsNext DEF ClockInv, ScalarType
<1>4. ViewInv'
  BY <1>1, SetPlayModeFacts DEF ViewInv
<1>5. DecidedInv'
  BY <1>1, <1>2, SetPlayModeFacts DEF DecidedInv, Settled
<1>6. CountInv'
  BY <1>1, <1>2, SetPlayModeFacts DEF CountInv
<1>7. PrepareInv'
  BY <1>1, <1>2, SetPlayModeFacts DEF PrepareInv
<1>8. TrackInv'
  <2>1. Valid' <=> Valid
    BY <1>1, SetPlayModeFacts DEF Valid
  <2> QED BY <1>1, <1>2, <2>1, SetPlayModeFacts DEF TrackInv
<1> QED BY <1>3, <1>4, <1>5, <1>6, <1>7, <1>8 DEF Groups

\* The server's (ok synch_see) comes after all others.
LEMMA AcceptSynchSeeFacts ==
    ASSUME TypeOK, Ordered, WireInv, AcceptSynchSee
    PROVE  /\ Ordered' /\ OkArrives' /\ ~srvSynchSee /\ ~see.synchSee /\ WantSynchSee
           /\ (Pending' <=> Pending) /\ (SeeArrives' <=> SeeArrives)
           /\ (ThinkArrives' <=> ThinkArrives) /\ (HearArrives' <=> HearArrives)
           /\ t' = t /\ elapsed' = 0 /\ srvSynchSee' /\ srvMode' = srvMode
           /\ srvView'.width = srvView.width /\ srvView'.quality = "HIGH"
           /\ spent' = spent /\ see' = see /\ view' = view /\ mode' = mode /\ clock' = clock
           /\ decided' = decided /\ lastSee' = lastSee
<1>1. /\ WantSynchSee /\ ~srvSynchSee /\ srvSynchSee' = TRUE
      /\ srvView' = [srvView EXCEPT !.quality = "HIGH"]
      /\ elapsed' = 0 /\ wire' = Append(wire, "ok_synch_see")
      /\ t' = t /\ srvMode' = srvMode
      /\ spent' = spent /\ see' = see /\ view' = view /\ mode' = mode /\ clock' = clock
      /\ decided' = decided /\ lastSee' = lastSee
  BY DEF AcceptSynchSee, agentVars
<1>2. ~see.synchSee /\ ~OkArrives
  BY <1>1 DEF WireInv
<1>3. wire \in Seq(Message) /\ "ok_synch_see" \in Message /\ InOrder(wire) /\ ~On(wire, "ok_synch_see")
  BY <1>2 DEF TypeOK, Message, Ordered, OkArrives, Has
<1>4. \A x : On(wire, x) => Follows(x, "ok_synch_see")
  <2> SUFFICES ASSUME NEW x, On(wire, x)
               PROVE  Follows(x, "ok_synch_see")
    OBVIOUS
  <2>1. x \in Message /\ x # "ok_synch_see"
    BY <1>3 DEF On
  <2> QED BY <2>1 DEF Follows, Rank, Message
<1>5. /\ InOrder(wire') /\ On(wire', "ok_synch_see")
      /\ \A x : x # "ok_synch_see" => (On(wire', x) <=> On(wire, x))
  <2>1. /\ InOrder(Append(wire, "ok_synch_see")) /\ On(Append(wire, "ok_synch_see"), "ok_synch_see")
        /\ \A x : x # "ok_synch_see" => (On(Append(wire, "ok_synch_see"), x) <=> On(wire, x))
    BY <1>3, <1>4, AppendToWire
  <2> QED BY <1>1, <2>1
<1>6. /\ Ordered' /\ OkArrives'
      /\ (Pending' <=> Pending) /\ (SeeArrives' <=> SeeArrives)
      /\ (ThinkArrives' <=> ThinkArrives) /\ (HearArrives' <=> HearArrives)
  BY <1>5, Zenon DEF Ordered, HearArrives, Pending, SeeArrives, ThinkArrives, OkArrives, Has
<1>7. srvView'.width = srvView.width /\ srvView'.quality = "HIGH"
  <2>1. srvView \in ViewMode
    BY DEF TypeOK
  <2> QED BY <1>1, <2>1 DEF ViewMode
<1> QED BY <1>1, <1>2, <1>6, <1>7

\* The server's change to synch_see mode keeps every part of the invariant.
LEMMA AcceptSynchSeePreserves ==
    ASSUME TypeOK, TypeOK', SynchInv, Regular', Regular, AcceptSynchSee
    PROVE  Groups'
<1>1. Ordered /\ WireInv /\ ClockInv /\ ViewInv /\ DecidedInv /\ CountInv /\ PrepareInv /\ TrackInv
  BY DEF SynchInv
<1>2. /\ (Exact' <=> Exact) /\ (Fresh' <=> Fresh) /\ (Tracked' <=> Tracked)
      /\ One(SeeArrives') = One(SeeArrives) /\ Cycle' = Cycle /\ Shots' = Shots /\ Second' = Second
      /\ Good(see.timing, lastSee)' <=> Good(see.timing, lastSee)
  <2>1. (Exact' <=> Exact) /\ (Fresh' <=> Fresh) /\ (Tracked' <=> Tracked)
    BY <1>1, AcceptSynchSeeFacts, Zenon DEF Exact, Fresh, Settled, Tracked
  <2>2. One(SeeArrives') = One(SeeArrives) /\ Cycle' = Cycle /\ Shots' = Shots /\ Second' = Second
    BY <1>1, AcceptSynchSeeFacts DEF One, Cycle, Shots, Second
  <2>3. Good(see.timing, lastSee)' <=> Good(see.timing, lastSee)
    BY <1>1, <2>1, AcceptSynchSeeFacts, Zenon DEF Good
  <2> QED BY <2>1, <2>2, <2>3
<1>3. ClockInv'
  BY <1>1, <1>2, AcceptSynchSeeFacts DEF ClockInv
<1>4. ViewInv'
  BY <1>1, AcceptSynchSeeFacts DEF ViewInv
<1>5. DecidedInv'
  BY <1>1, <1>2, AcceptSynchSeeFacts DEF DecidedInv, Settled
<1>6. CountInv'
  BY <1>1, <1>2, AcceptSynchSeeFacts DEF CountInv
<1>7. PrepareInv'
  BY <1>1, <1>2, AcceptSynchSeeFacts DEF PrepareInv
<1>8. TrackInv'
  <2>1. Valid' => Valid /\ elapsed' = elapsed
    BY <1>1, AcceptSynchSeeFacts DEF Valid, WireInv
  <2>2. Valid' /\ CountdownInv => CountdownInv'
    BY <1>1, <2>1, AcceptSynchSeeFacts, SameCountdown
  <2> QED BY <1>1, <1>2, <2>1, <2>2, AcceptSynchSeeFacts DEF TrackInv
<1> QED BY <1>3, <1>4, <1>5, <1>6, <1>7, <1>8 DEF Groups

-----------------------------------------------------------------------------
(* AnalyzeHearReferee.                                                     *)

\* What the referee's message changes: the agent may lag behind the clock afterwards.
LEMMA HearFacts ==
    ASSUME TypeOK, TypeOK', Ordered, WireInv, Regular, ClockInv, AnalyzeHearReferee
    PROVE  /\ Ordered' /\ ~HearArrives'
           /\ (Pending' <=> Pending) /\ (SeeArrives' <=> SeeArrives)
           /\ (ThinkArrives' <=> ThinkArrives) /\ (OkArrives' <=> OkArrives)
           /\ spent.mode > 0 /\ ~ClockStands(mode)
           /\ ~clock'.ahead /\ ~clock'.inStop
           /\ clock'.lag <=> clock.lag \/ clock.ahead
           /\ decided' <=> decided /\ ~clock.ahead
           /\ t' = t /\ elapsed' = elapsed /\ srvView' = srvView /\ srvSynchSee' = srvSynchSee
           /\ srvMode' = srvMode /\ spent' = spent /\ see' = see /\ view' = view /\ lastSee' = lastSee
<1>1. /\ wire # <<>> /\ wire[1] = "hear" /\ wire' = Tail(wire)
      /\ t' = t /\ elapsed' = elapsed /\ srvView' = srvView /\ srvSynchSee' = srvSynchSee
      /\ srvMode' = srvMode /\ spent' = spent /\ see' = see /\ view' = view /\ lastSee' = lastSee
      /\ UpdateCurrentTime("hear")
  BY DEF AnalyzeHearReferee, Parse, serverVars
<1>2. /\ Ordered' /\ HearArrives /\ ~HearArrives'
      /\ (Pending' <=> Pending) /\ (SeeArrives' <=> SeeArrives)
      /\ (ThinkArrives' <=> ThinkArrives) /\ (OkArrives' <=> OkArrives)
  <2>1. wire \in Seq(Message)
    BY DEF TypeOK
  <2>2. /\ Ordered' /\ Has("hear") /\ ~Has("hear")'
        /\ (Pending' <=> Pending) /\ (SeeArrives' <=> SeeArrives)
        /\ (ThinkArrives' <=> ThinkArrives) /\ (OkArrives' <=> OkArrives)
    BY <1>1, <2>1, ParseWire
  <2> QED BY <2>2, Zenon DEF HearArrives
<1>3. spent.mode > 0 /\ ~ClockStands(mode)
  BY <1>2, RegularFacts, Scalars DEF WireInv, ScalarType
<1>4. TimeChanges(FALSE) <=> clock.ahead
  BY <1>3 DEF TimeChanges, ClockInv
<1>5. /\ clock' = [ahead |-> FALSE,
                   inStop |-> ClockStands(mode) /\ ~clock.ahead /\ (FALSE \/ clock.inStop),
                   lag |-> clock.lag \/ TimeChanges(FALSE)]
      /\ decided' <=> decided /\ ~TimeChanges(FALSE)
  BY <1>1, ScalarsNext DEF UpdateCurrentTime, ScalarType
<1>6. /\ ~clock'.ahead /\ ~clock'.inStop
      /\ clock'.lag <=> clock.lag \/ clock.ahead
  BY <1>3, <1>4, <1>5
<1> QED BY <1>1, <1>2, <1>3, <1>4, <1>5, <1>6

\* The referee's message keeps every part of the invariant.
LEMMA HearPreserves ==
    ASSUME TypeOK, TypeOK', SynchInv, Regular', Regular, AnalyzeHearReferee
    PROVE  Groups'
<1>1. Ordered /\ WireInv /\ ClockInv /\ ViewInv /\ DecidedInv /\ CountInv /\ PrepareInv /\ TrackInv
  BY DEF SynchInv
<1>2. /\ (Exact' <=> Exact) /\ (Fresh' <=> Fresh) /\ (Tracked' <=> Tracked)
      /\ Good(see.timing, lastSee)' <=> Good(see.timing, lastSee)
      /\ One(SeeArrives') = One(SeeArrives) /\ Cycle' = Cycle /\ Shots' = Shots /\ Second' = Second
      /\ CountdownInv => CountdownInv'
  BY <1>1, HearFacts, SameCountdown
<1>3. ClockInv'
  BY <1>1, <1>2, HearFacts, Scalars, ScalarsNext DEF ClockInv, ScalarType
<1>4. ViewInv'
  BY <1>1, HearFacts DEF ViewInv
<1>5. DecidedInv'
  BY <1>1, <1>2, HearFacts DEF DecidedInv, Settled
<1>6. CountInv'
  BY <1>1, <1>2, HearFacts DEF CountInv
<1>7. PrepareInv'
  BY <1>1, <1>2, HearFacts DEF PrepareInv
<1>8. TrackInv'
  <2>1. Valid' <=> Valid
    BY <1>1, HearFacts DEF Valid
  <2>2. Tracked /\ clock.ahead => Phase(t) = 0
    BY <1>1 DEF ClockInv, WireInv, Fresh, Tracked, SynchTiming
  <2> QED BY <1>1, <1>2, <2>1, <2>2, HearFacts, Scalars DEF TrackInv, ScalarType
<1> QED BY <1>3, <1>4, <1>5, <1>6, <1>7, <1>8 DEF Groups

-----------------------------------------------------------------------------
(* The next see.                                                           *)

\* From the last see to the next one there are at least as many cycles as the agent
\* counts, and if it knows the offset of the last one exactly, no more.
LEMMA NextSee ==
    ASSUME TypeOK, ~see.synchSee, see.timing \in SynchTiming, Good(see.timing, lastSee),
           view.quality = "HIGH", Legal
    PROVE  /\ lastSee + 3 * V >= 8 * CyclesOf(see, view.width)
           /\ Exact => lastSee + 3 * V <= 8 * CyclesOf(see, view.width) + 4
<1>1. V = IF view.width = "NARROW" THEN 2 ELSE IF view.width = "NORMAL" THEN 4 ELSE 8
  BY IntervalType, Scalars DEF ScalarType
<1>2. view.width \in ViewWidth /\ lastSee \in 0..8
  BY Scalars DEF ScalarType
<1>3. /\ ~(see.timing = "TIME_0_00" /\ view.width = "NARROW")
      /\ ~(see.timing = "TIME_22_5" /\ view.width = "NORMAL")
  BY DEF Legal, IllegalWidth
<1>4. /\ see.timing = "TIME_0_00" => lastSee >= 0 /\ (Exact => lastSee = 0)
      /\ see.timing = "TIME_50_0" => lastSee >= 4 /\ (Exact => lastSee = 4)
      /\ see.timing = "TIME_22_5" => lastSee >= 2 /\ (Exact => lastSee = 2)
  BY <1>2 DEF Good, PhaseOf
<1>5. CASE view.width = "WIDE"
  <2>1. CyclesOf(see, view.width) = 3 /\ V = 8
    BY <1>1, <1>5 DEF CyclesOf
  <2> QED BY <1>2, <1>4, <2>1 DEF SynchTiming
<1>6. CASE view.width = "NARROW"
  <2>1. CyclesOf(see, view.width) = 1 /\ V = 2
    BY <1>1, <1>6 DEF CyclesOf
  <2> QED BY <1>2, <1>3, <1>4, <1>6, <2>1 DEF SynchTiming
<1>7. CASE view.width = "NORMAL"
  <2>1. CyclesOf(see, view.width) = (IF see.timing = "TIME_0_00" THEN 1 ELSE 2) /\ V = 4
    BY <1>1, <1>7 DEF CyclesOf
  <2> QED BY <1>2, <1>3, <1>4, <1>7, <2>1 DEF SynchTiming
<1> QED BY <1>2, <1>5, <1>6, <1>7 DEF ViewWidth

\* A see that arrives is one the agent has counted down to.
LEMMA SeeFindsWaiting ==
    ASSUME TypeOK, Ordered, WireInv, Tracked, TrackInv, SeeArrives, ~Pending
    PROVE  Waiting /\ CountdownInv /\ elapsed = 0 /\ Age = V
<1>1. CountdownInv /\ Valid
  BY DEF TrackInv, Valid
<1>2. elapsed = 0 /\ Age = V
  BY DEF WireInv, Age
<1>3. ASSUME ~Waiting
      PROVE  FALSE
  <2>1. OnGrid
    BY <1>1, <1>3 DEF CountdownInv
  <2>2. see.till > 0 /\ ~see.seen => see.till + CyclesSince = CyclesOf(see, view.width)
    BY <1>1 DEF CountdownInv
  <2>3. see.seen => CyclesSince = 0
    BY <1>1 DEF CountdownInv
  <2>4. see.seen \/ see.till > 0
    BY <1>3, Scalars DEF Waiting, ScalarType
  <2>5. CASE see.synchSee
    <3>1. Phase(t) = SynchSeeOffset
      BY <2>5 DEF WireInv
    <3>2. CyclesSince = V
      BY <1>2, <2>5, <3>1, Derived, Scalars DEF DerivedType, ScalarType
    <3>3. V = CyclesOf(see, view.width)
      BY <2>5, IntervalType, Scalars DEF ScalarType
    <3> QED BY <2>2, <2>3, <2>4, <3>2, <3>3, Derived, Scalars DEF DerivedType, ScalarType
  <2>6. CASE ~see.synchSee
    <3>1. t % 3 = 0 /\ see.timing \in SynchTiming /\ Good(see.timing, lastSee) /\ view.quality = "HIGH"
      BY <2>6 DEF WireInv, TrackInv, Tracked
    <3>2. Since = lastSee + 3 * V
      BY <1>2, <3>1, Derived, Scalars DEF Since, DerivedType, ScalarType
    <3>3. CyclesSince = Since \div 8 /\ Since = 8 * (Since \div 8) + (Since % 8)
      BY <2>6, Derived DEF DerivedType
    <3>4. Since % 8 \in 0..7 /\ V \in 1..8 /\ lastSee \in 0..8 /\ CyclesSince \in Int
          /\ CyclesOf(see, view.width) \in 1..3 /\ see.till \in 0..100
      BY Derived, Scalars DEF DerivedType, ScalarType
    <3>5. CASE Legal
      <4>1. lastSee + 3 * V >= 8 * CyclesOf(see, view.width)
        BY <2>6, <3>1, <3>5, NextSee
      <4>2. CyclesSince >= CyclesOf(see, view.width)
        BY <3>2, <3>3, <3>4, <4>1
      <4> QED BY <2>2, <2>3, <2>4, <3>4, <4>2
    <3>6. CASE ~Legal
      <4>1. see.timing = "TIME_0_00" /\ see.seen /\ SynchMode /\ Phase(t) <= 4
        BY <1>1, <3>6 DEF CountdownInv
      <4>2. Since % 8 = Phase(t)
        BY <2>1, <2>6 DEF OnGrid
      <4>3. V >= 2
        BY <3>1, IntervalType, Scalars, <2>6 DEF ScalarType
      <4> QED BY <2>3, <3>2, <3>3, <3>4, <4>1, <4>2, <4>3, Scalars DEF ScalarType
    <3> QED BY <3>5, <3>6
  <2> QED BY <2>5, <2>6
<1> QED BY <1>1, <1>2, <1>3

-----------------------------------------------------------------------------
(* LoseMessage.                                                            *)

\* What a loss changes: of an undisturbed agent only a see gets lost.
LEMMA LoseMessageFacts ==
    ASSUME TypeOK, TypeOK', Ordered, WireInv, LoseMessage
    PROVE  /\ Ordered'
           /\ (ThinkArrives' <=> ThinkArrives) /\ (OkArrives' <=> OkArrives)
           /\ (HearArrives' <=> HearArrives)
           /\ Pending' => Pending
           /\ SeeArrives' => SeeArrives
           /\ spent'.message > 0 /\ spent'.mode = spent.mode /\ spent'.command = spent.command
           /\ Regular' => /\ ~SynchMode /\ ~Pending /\ ~Pending' /\ SeeArrives /\ ~SeeArrives'
           /\ t' = t /\ elapsed' = elapsed /\ srvView' = srvView /\ srvSynchSee' = srvSynchSee
           /\ srvMode' = srvMode /\ see' = see /\ view' = view /\ mode' = mode
           /\ clock' = clock /\ decided' = decided /\ lastSee' = lastSee
<1>1. /\ wire # <<>> /\ wire[1] \in Losable /\ wire' = Tail(wire)
      /\ spent' = [spent EXCEPT !.message = @ + 1]
      /\ t' = t /\ elapsed' = elapsed /\ srvView' = srvView /\ srvSynchSee' = srvSynchSee
      /\ srvMode' = srvMode /\ see' = see /\ view' = view /\ mode' = mode
      /\ clock' = clock /\ decided' = decided /\ lastSee' = lastSee
  BY DEF LoseMessage, serverVars, agentVars
<1>2. spent'.message > 0 /\ spent'.mode = spent.mode /\ spent'.command = spent.command
  <2>1. spent \in SpentType /\ spent.message \in Nat
    BY Scalars DEF TypeOK, SpentType, ScalarType
  <2> QED BY <1>1, <2>1 DEF SpentType
<1>3. wire[1] = "sense_body" \/ wire[1] = "see"
  BY <1>1, ConstantsAssumption
<1>4. wire \in Seq(Message)
  BY DEF TypeOK
<1>5. CASE wire[1] = "see"
  <2>1. /\ Ordered' /\ Has("see") /\ ~Has("see")'
        /\ (Pending' <=> Pending) /\ ~Pending
        /\ (ThinkArrives' <=> ThinkArrives) /\ (OkArrives' <=> OkArrives)
        /\ (HearArrives' <=> HearArrives)
    BY <1>1, <1>4, <1>5, ParseWire
  <2>2. SeeArrives /\ ~SeeArrives'
    BY <2>1, Zenon DEF SeeArrives
  <2>3. Regular' => ~SynchMode
    BY <1>2 DEF Regular
  <2> QED BY <1>1, <1>2, <2>1, <2>2, <2>3
<1>6. CASE wire[1] = "sense_body"
  <2>1. /\ Ordered' /\ Has("sense_body") /\ ~Has("sense_body")'
        /\ (SeeArrives' <=> SeeArrives)
        /\ (ThinkArrives' <=> ThinkArrives) /\ (OkArrives' <=> OkArrives)
        /\ (HearArrives' <=> HearArrives)
    BY <1>1, <1>4, <1>6, ParseWire
  <2>2. Pending /\ ~Pending'
    BY <2>1, Zenon DEF Pending
  <2>3. ~Regular'
    BY <1>1, <1>2, <1>6 DEF Regular
  <2> QED BY <1>1, <1>2, <2>1, <2>2, <2>3
<1> QED BY <1>3, <1>5, <1>6

\* The loss of a see keeps every part of the invariant.
LEMMA LoseMessagePreserves ==
    ASSUME TypeOK, TypeOK', SynchInv, Regular', Regular, LoseMessage
    PROVE  Groups'
<1>1. Ordered /\ WireInv /\ ClockInv /\ ViewInv /\ DecidedInv /\ CountInv /\ PrepareInv /\ TrackInv
  BY DEF SynchInv
<1>2. /\ ~SynchMode /\ ~Pending /\ ~Pending' /\ SeeArrives /\ ~SeeArrives' /\ ~Exact'
      /\ spent'.message > 0
  BY <1>1, LoseMessageFacts DEF Exact
<1>3. /\ (Fresh' <=> Fresh) /\ Cycle' = Cycle /\ Shots' = Shots /\ Second' = Second
      /\ One(SeeArrives') = 0 /\ One(SeeArrives) = 1
  <2>1. Fresh' <=> Fresh
    BY <1>1, LoseMessageFacts, Zenon DEF Fresh
  <2>2. Cycle' = Cycle /\ Shots' = Shots /\ Second' = Second
    BY <1>1, LoseMessageFacts DEF Cycle, Shots, Second
  <2> QED BY <1>2, <2>1, <2>2 DEF One
<1>4. ClockInv'
  BY <1>1, <1>2, <1>3, LoseMessageFacts DEF ClockInv
<1>5. ViewInv'
  BY <1>1, LoseMessageFacts DEF ViewInv
<1>6. DecidedInv'
  BY <1>1, <1>2, <1>3, LoseMessageFacts DEF DecidedInv, Settled
<1>7. CountInv'
  <2>1. Shots \in 0..3 /\ see.count \in 0..4
    <3>1. Shots \in 0..3
      BY Scalars DEF Shots, Cycle, ScalarType
    <3> QED BY <3>1, Scalars DEF ScalarType
  <2>2. ~see.synchSee => see.count + 0 <= Shots
    BY <1>1, <1>2, <2>1 DEF CountInv, One
  <2>3. see' = see /\ t' = t /\ lastSee' = lastSee
    BY <1>1, LoseMessageFacts
  <2> QED BY <1>1, <1>2, <1>3, <2>2, <2>3 DEF CountInv
<1>8. PrepareInv'
  BY <1>2 DEF PrepareInv
<1>9. ASSUME Tracked
      PROVE  /\ ~see.synchSee => Good(see.timing, lastSee)' /\ view.quality = "HIGH"
             /\ CountdownInv'
  <2>1. Waiting /\ CountdownInv /\ elapsed = 0 /\ Age = V
    BY <1>1, <1>2, <1>9, SeeFindsWaiting
  <2>2. see.till = 0 /\ ~see.seen /\ (~see.synchSee => ~decided) /\ Legal
    BY <1>2, <2>1 DEF CountdownInv, Waiting
  <2>3. ASSUME ~see.synchSee
        PROVE  Good(see.timing, lastSee)' /\ view.quality = "HIGH" /\ Lost'
    <3>1. /\ see.timing \in SynchTiming /\ Good(see.timing, lastSee) /\ view.quality = "HIGH"
          /\ t % 3 = 0 /\ lastSee \in 0..8 /\ Phase(t) \in 0..7
      BY <1>1, <1>2, <1>9, <2>3, Scalars DEF Tracked, TrackInv, WireInv, ScalarType
    <3>2. Good(see.timing, lastSee)'
      BY <1>1, <1>2, <3>1, LoseMessageFacts DEF Good, PhaseOf, SynchTiming
    <3>3. LastShot' = Phase(t) - 3 * 0 - 0
      BY <1>1, <2>1, <3>1, LoseMessageFacts DEF LastShot
    <3>4. ASSUME view.width = "NARROW", see.timing = "TIME_50_0"
          PROVE  Phase(t) >= 2
      <4>1. Due
        BY <1>2, <2>1, <2>3, <3>4 DEF CountdownInv, Lost
      <4>2. Since % 8 = Phase(t) /\ CyclesSince = 1
        BY <2>3, <3>4, <4>1 DEF Due, OnGrid, CyclesOf
      <4>3. lastSee >= 4
        BY <3>1, <3>4 DEF Good, PhaseOf
      <4>4. Since = lastSee + 6
        <5>1. V = 2
          BY <2>3, <3>1, <3>4, IntervalType, Scalars DEF ScalarType
        <5> QED BY <2>1, <3>1, <5>1 DEF Since
      <4>5. Since = 8 * 1 + Phase(t)
        BY <1>2, <2>3, <4>2, Derived DEF DerivedType
      <4> QED BY <3>1, <4>3, <4>4, <4>5
    <3>5. Lost'
      BY <1>1, <1>2, <3>1, <3>3, <3>4, LoseMessageFacts DEF Lost
    <3> QED BY <3>1, <3>2, <3>5
  <2>4. Waiting' /\ Legal'
    BY <1>1, <2>1, <2>2, LoseMessageFacts, Zenon DEF Waiting, Legal
  <2>5. CountdownInv'
    <3>1. see' = see /\ decided' = decided /\ view' = view
      BY <1>1, LoseMessageFacts
    <3> QED BY <1>2, <2>2, <2>3, <2>4, <3>1 DEF CountdownInv
  <2> QED BY <2>3, <2>5
<1>10. TrackInv'
  <2>1. Tracked' <=> Tracked
    BY <1>1, LoseMessageFacts, Zenon DEF Tracked
  <2> QED BY <1>1, <1>2, <1>9, <2>1, LoseMessageFacts DEF TrackInv
<1> QED BY <1>4, <1>5, <1>6, <1>7, <1>8, <1>10 DEF Groups

\* The width alone decides the interval, at high quality.
LEMMA SameInterval ==
    ASSUME TypeOK, TypeOK', view'.width = view.width, see'.synchSee = see.synchSee,
           ~see.synchSee => view'.quality = "HIGH" /\ view.quality = "HIGH"
    PROVE  V' = V
<1>1. view.width \in ViewWidth
  BY Scalars DEF ScalarType
<1>2. SynchSeeInterval(view') = SynchSeeInterval(view)
  BY <1>1 DEF SynchSeeInterval, ViewWidth
<1>3. ~see.synchSee => VisInterval(view') = VisInterval(view)
  BY <1>1 DEF VisInterval, ViewWidth
<1> QED BY <1>2, <1>3 DEF V

-----------------------------------------------------------------------------
(* AnalyzeSenseBody.                                                       *)

\* What sense_body changes: the counts move on and so does the countdown.
LEMMA SenseBodyFacts ==
    ASSUME TypeOK, TypeOK', Ordered, WireInv, ClockInv, AnalyzeSenseBody
    PROVE  /\ Ordered' /\ Pending /\ ~Pending' /\ Phase(t) = 0
           /\ (SeeArrives' <=> SeeArrives) /\ (ThinkArrives' <=> ThinkArrives)
           /\ (OkArrives' <=> OkArrives) /\ (HearArrives' <=> HearArrives)
           /\ ~clock'.ahead /\ ~clock'.lag /\ (clock'.inStop => ClockStands(mode))
           /\ ~decided' /\ view' = srvView
           /\ see'.timing = see.timing /\ see'.synchSee = see.synchSee
           /\ see'.seen = FALSE /\ see'.count = 0
           /\ see'.till = CountDown(see.till)
           /\ see'.history[1] = see.count
           /\ see'.history[2] = see.history[1]
           /\ see'.history[3] = see.history[2]
           /\ t' = t /\ elapsed' = elapsed /\ srvView' = srvView /\ srvSynchSee' = srvSynchSee
           /\ srvMode' = srvMode /\ spent' = spent /\ mode' = mode /\ lastSee' = lastSee
<1>1. /\ wire # <<>> /\ wire[1] = "sense_body" /\ wire' = Tail(wire)
      /\ t' = t /\ elapsed' = elapsed /\ srvView' = srvView /\ srvSynchSee' = srvSynchSee
      /\ srvMode' = srvMode /\ spent' = spent /\ mode' = mode /\ lastSee' = lastSee
      /\ UpdateCurrentTime("sense_body") /\ view' = srvView
      /\ see' = UpdateBySenseBody(see, NewCycle(TRUE))
  BY DEF AnalyzeSenseBody, Parse, serverVars
<1>2. /\ Ordered' /\ Pending /\ ~Pending'
      /\ (SeeArrives' <=> SeeArrives) /\ (ThinkArrives' <=> ThinkArrives)
      /\ (OkArrives' <=> OkArrives) /\ (HearArrives' <=> HearArrives)
  <2>1. wire \in Seq(Message)
    BY DEF TypeOK
  <2>2. /\ Ordered' /\ Has("sense_body") /\ ~Has("sense_body")'
        /\ (SeeArrives' <=> SeeArrives) /\ (ThinkArrives' <=> ThinkArrives)
        /\ (OkArrives' <=> OkArrives) /\ (HearArrives' <=> HearArrives)
    BY <1>1, <2>1, ParseWire
  <2> QED BY <2>2, Zenon DEF Pending
<1>3. clock.lag \/ TimeChanges(TRUE)
  BY <1>2 DEF ClockInv, TimeChanges
<1>4. see' = SetNewCycle(see, TRUE)
  <2>1. NewCycle(TRUE) = TRUE
    BY <1>3 DEF NewCycle
  <2> QED BY <1>1, <2>1 DEF UpdateBySenseBody
<1>5. /\ see'.timing = see.timing /\ see'.synchSee = see.synchSee
      /\ see'.seen = FALSE /\ see'.count = 0
      /\ see'.till = CountDown(see.till)
      /\ see'.history[1] = see.count
      /\ see'.history[2] = see.history[1]
      /\ see'.history[3] = see.history[2]
  <2>1. see \in SeeStateType
    BY DEF TypeOK
  <2> QED BY <1>4, <2>1, SetNewCycleFields
<1>6. /\ clock' = [ahead |-> FALSE,
                   inStop |-> ClockStands(mode) /\ ~clock.ahead /\ (TRUE \/ clock.inStop),
                   lag |-> FALSE]
      /\ decided' <=> decided /\ ~TimeChanges(TRUE)
  BY <1>1, ScalarsNext DEF UpdateCurrentTime, ScalarType
<1>7. /\ ~clock'.ahead /\ ~clock'.lag /\ (clock'.inStop => ClockStands(mode))
  BY <1>6
<1>8. ~decided'
  <2>1. ~decided \/ clock.ahead \/ ClockStands(mode)
    BY <1>2 DEF ClockInv
  <2> QED BY <1>6, <2>1 DEF TimeChanges
<1>9. Phase(t) = 0
  BY <1>2 DEF WireInv
<1> QED BY <1>1, <1>2, <1>5, <1>7, <1>8, <1>9

\* sense_body keeps every part of the invariant: the cycle that passed is now counted.
LEMMA SenseBodyPreserves ==
    ASSUME TypeOK, TypeOK', SynchInv, Regular', Regular, AnalyzeSenseBody
    PROVE  Groups'
<1>1. Ordered /\ WireInv /\ ClockInv /\ ViewInv /\ DecidedInv /\ CountInv /\ PrepareInv /\ TrackInv
  BY DEF SynchInv
<1>2. /\ see.count \in 0..4 /\ see.till \in 0..100 /\ see.seen \in BOOLEAN
      /\ see.history[1] \in 0..4 /\ see.history[2] \in 0..4 /\ see.history[3] \in 0..4
  BY Scalars DEF ScalarType
<1>3. (Exact' <=> Exact) /\ ~Fresh' /\ Cycle' = Cycle /\ Shots' = Shots /\ One(SeeArrives') = One(SeeArrives)
  BY <1>1, SenseBodyFacts DEF Exact, Fresh, Cycle, Shots, One
<1>4. SeeArrives /\ ~see.synchSee => t = 0
  <2>1. SeeArrives /\ ~see.synchSee => t % 3 = 0
    BY <1>1 DEF WireInv
  <2>2. t \in 0..23 /\ t % 8 = 0
    BY <1>1, SenseBodyFacts, Scalars DEF ScalarType, Phase
  <2> QED BY <2>1, <2>2
<1>5. /\ Cycle \in 0..2 /\ (t = 0 <=> Cycle = 0)
      /\ Shots = IF t = 0 THEN 1 ELSE 0
  BY <1>1, SenseBodyFacts, Scalars DEF Shots, Cycle, Phase, ScalarType
<1>6. ClockInv'
  BY <1>1, SenseBodyFacts DEF ClockInv
<1>7. ViewInv'
  BY <1>1, <1>2, SenseBodyFacts DEF ViewInv, CountDown
<1>8. DecidedInv'
  BY <1>1, <1>3, SenseBodyFacts DEF DecidedInv
<1>9. CountInv'
  <2> SUFFICES ASSUME ~see.synchSee
               PROVE  CountInv'
    BY <1>1, SenseBodyFacts DEF CountInv
  <2>1. One(SeeArrives) <= Shots
    BY <1>4, <1>5 DEF One
  <2>2. 0 + One(SeeArrives') <= Shots'
    <3>1. One(SeeArrives) \in Int
      BY DEF One
    <3> QED BY <1>3, <2>1, <3>1
  <2>3. /\ see.count <= ShotsIn(Cycle - 1)
        /\ see.history[1] <= ShotsIn(Cycle - 2)
        /\ see.history[2] <= ShotsIn(Cycle - 3)
    BY <1>1, SenseBodyFacts DEF CountInv
  <2> QED BY <1>1, <1>3, <2>2, <2>3, SenseBodyFacts DEF CountInv
<1>10. PrepareInv'
  <2> SUFFICES ASSUME ~SynchMode, Exact, ~see.synchSee, see.timing \notin SynchTiming
               PROVE  PrepareInv'
    BY <1>1, <1>3, SenseBodyFacts DEF PrepareInv
  <2>1. ~srvSynchSee => \/ view = Mode("NARROW", "LOW")
                        \/ see.count = 0 /\ \A i \in 1..3 : see.history[i] = 0
    BY <1>1 DEF PrepareInv
  <2>2. ~srvSynchSee => \/ view' = Mode("NARROW", "LOW")
                        \/ see'.count = 0 /\ \A i \in 1..3 : see'.history[i] = 0
    <3>1. ~srvSynchSee => view' = view
      BY <1>1, SenseBodyFacts DEF ViewInv
    <3>2. see.count = 0 /\ (\A i \in 1..3 : see.history[i] = 0) =>
            see'.count = 0 /\ \A i \in 1..3 : see'.history[i] = 0
      BY <1>1, SenseBodyFacts
    <3> QED BY <2>1, <3>1, <3>2
  <2>3. see.history[1] = 3 => see.count = ShotsIn(Cycle - 1) /\ (t = 0 => SeeArrives)
    BY <1>1, SenseBodyFacts DEF PrepareInv
  <2>4. see.count <= ShotsIn(Cycle - 1)
    BY <1>1, SenseBodyFacts DEF CountInv
  <2>5. see.count = 3 => 0 + One(SeeArrives') = Shots'
    <3>1. see.count = 3 => t # 0
      BY <1>5, <2>4 DEF ShotsIn
    <3> QED BY <1>3, <1>4, <1>5, <3>1 DEF One
  <2>6. see.count = 2 /\ see.history[1] = 3 => SeeArrives /\ t = 0
    BY <1>5, <2>3 DEF ShotsIn
  <2> QED BY <1>1, <1>3, <2>2, <2>3, <2>5, <2>6, SenseBodyFacts DEF PrepareInv
<1>11. TrackInv'
  <2> SUFFICES ASSUME Tracked
               PROVE  TrackInv'
    <3>1. Tracked' <=> Tracked
      BY <1>1, SenseBodyFacts DEF Tracked
    <3> QED BY <3>1 DEF TrackInv
  <2>1. ~see.synchSee => Good(see.timing, lastSee)' /\ view'.quality = "HIGH"
    <3>1. Good(see.timing, lastSee)' <=> Good(see.timing, lastSee)
      BY <1>1, <1>3, SenseBodyFacts, Zenon DEF Good
    <3>2. ~see.synchSee => Good(see.timing, lastSee) /\ view.quality = "HIGH"
      BY <1>1 DEF TrackInv
    <3> QED BY <1>1, <3>1, <3>2, SenseBodyFacts DEF ViewInv
  <2>2. ASSUME Valid', ~see.synchSee => view'.quality = "HIGH" /\ view.quality = "HIGH"
        PROVE  CountdownInv'
    <3>1. Valid
      BY <1>1, <2>2, SenseBodyFacts DEF Valid
    <3>2. CountdownInv
      BY <1>1, <3>1 DEF TrackInv
    <3>3. view'.width = view.width
      BY <1>1, SenseBodyFacts DEF ViewInv
    <3>4. V' = V
      BY <1>1, <2>2, <3>3, SameInterval, SenseBodyFacts
    <3>5. Age' = Age
      BY <1>1, <3>4, SenseBodyFacts DEF Age
    <3>6. (OnGrid' <=> OnGrid) /\ CyclesSince' = CyclesSince + 1
      <4>1. Since' = Since
        BY <1>1, <3>5, SenseBodyFacts DEF Since
      <4>2. OnGrid' <=> OnGrid
        BY <1>1, <3>4, <4>1, SenseBodyFacts DEF OnGrid
      <4>3. CyclesSince' = CyclesSince + 1
        <5>1. (see'.synchSee <=> see.synchSee) /\ t' = t /\ ~Pending' /\ Pending
          BY <1>1, SenseBodyFacts
        <5>2. /\ see.synchSee => CyclesSince = (IF Phase(t) < SynchSeeOffset THEN Age + 1 ELSE Age) - 1
              /\ ~see.synchSee => CyclesSince = (Since \div 8) - 1
              /\ Age \in 0..8 /\ Since \div 8 \in Nat
          BY <5>1, Derived DEF DerivedType
        <5>3. /\ see'.synchSee => CyclesSince' = (IF Phase(t') < SynchSeeOffset THEN Age' + 1 ELSE Age') - 0
              /\ ~see'.synchSee => CyclesSince' = (Since' \div 8) - 0
              /\ Age' \in 0..8 /\ Since' \div 8 \in Nat
          BY <5>1, DerivedNext DEF DerivedType
        <5>4. (Since' \div 8) = (Since \div 8)
          BY <4>1
        <5> QED BY <3>5, <5>1, <5>2, <5>3, <5>4
      <4> QED BY <4>2, <4>3
    <3>7. (Legal' <=> Legal) /\ CyclesOf(see', view'.width) = CyclesOf(see, view.width)
      BY <1>1, <3>3, SenseBodyFacts DEF Legal, IllegalWidth, CyclesOf
    <3>8. Legal
      BY <1>1, <3>2, SenseBodyFacts DEF CountdownInv
    <3>9. CASE see.till > 0
      <4>1. OnGrid /\ see.till + CyclesSince = CyclesOf(see, view.width)
        BY <1>1, <3>2, <3>9, SenseBodyFacts DEF CountdownInv, Waiting
      <4>2. see'.till = see.till - 1
        BY <1>1, <3>9, SenseBodyFacts DEF CountDown
      <4>3. CyclesSince \in Int /\ CyclesSince' \in Int
        BY Derived, DerivedNext DEF DerivedType
      <4>4. see'.till + CyclesSince' = CyclesOf(see', view'.width) /\ OnGrid'
        BY <1>2, <3>6, <3>7, <4>1, <4>2, <4>3
      <4>5. Waiting' => Due'
        BY <4>3, <4>4, Derived, DerivedNext DEF Waiting, Due, DerivedType
      <4> QED BY <1>1, <3>7, <3>8, <4>4, <4>5, SenseBodyFacts DEF CountdownInv
    <3>10. CASE ~(see.till > 0)
      <4>1. see.synchSee /\ ~Exact
        BY <1>1, <3>2, <3>10, SenseBodyFacts DEF CountdownInv
      <4>2. see'.till = 0
        BY <1>1, <3>10, SenseBodyFacts DEF CountDown
      <4>3. Waiting' /\ see'.synchSee /\ ~see'.seen /\ ~decided' /\ ~Pending' /\ ~Exact' /\ Legal'
        BY <1>1, <1>3, <3>7, <3>8, <4>1, <4>2, SenseBodyFacts DEF Waiting
      <4> QED BY <1>2, <4>2, <4>3 DEF CountdownInv
    <3> QED BY <3>9, <3>10
  <2>3. ~see.synchSee => view.quality = "HIGH"
    BY <1>1 DEF TrackInv
  <2> QED BY <1>1, <2>1, <2>2, <2>3, SenseBodyFacts, Scalars DEF TrackInv, ScalarType
<1> QED BY <1>6, <1>7, <1>8, <1>9, <1>10, <1>11 DEF Groups

-----------------------------------------------------------------------------
(* AnalyzeOK.                                                              *)

\* What the answer to synch_see changes: what was known of the last see is void.
LEMMA AnalyzeOKFacts ==
    ASSUME TypeOK, Ordered, WireInv, AnalyzeOK
    PROVE  /\ Ordered' /\ ~Pending /\ ~SeeArrives /\ ~ThinkArrives
           /\ ~Pending' /\ ~SeeArrives' /\ ~ThinkArrives' /\ ~OkArrives'
           /\ (HearArrives' <=> HearArrives)
           /\ srvSynchSee /\ ~see.synchSee
           /\ see'.timing = see.timing /\ see'.seen = see.seen /\ see'.count = see.count
           /\ see'.history = see.history /\ see'.synchSee = TRUE
           /\ see'.till = IF see.seen THEN CyclesOf(see', view.width) ELSE see.till
           /\ lastSee' = NoSee
           /\ t' = t /\ elapsed' = elapsed /\ srvView' = srvView /\ srvSynchSee' = srvSynchSee
           /\ srvMode' = srvMode /\ spent' = spent /\ view' = view /\ mode' = mode
           /\ clock' = clock /\ decided' = decided
<1>1. /\ wire # <<>> /\ wire[1] = "ok_synch_see" /\ wire' = Tail(wire)
      /\ see' = SetSynchSeeMode(see, view.width) /\ lastSee' = NoSee
      /\ t' = t /\ elapsed' = elapsed /\ srvView' = srvView /\ srvSynchSee' = srvSynchSee
      /\ srvMode' = srvMode /\ spent' = spent /\ view' = view /\ mode' = mode
      /\ clock' = clock /\ decided' = decided
  BY DEF AnalyzeOK, Parse, serverVars
<1>2. /\ Ordered' /\ OkArrives /\ ~OkArrives' /\ ~Pending /\ ~SeeArrives /\ ~ThinkArrives
      /\ (Pending' <=> Pending) /\ (SeeArrives' <=> SeeArrives)
      /\ (ThinkArrives' <=> ThinkArrives) /\ (HearArrives' <=> HearArrives)
  <2>1. wire \in Seq(Message)
    BY DEF TypeOK
  <2>2. /\ Ordered' /\ Has("ok_synch_see") /\ ~Has("ok_synch_see")'
        /\ ~Pending /\ ~SeeArrives /\ ~ThinkArrives
        /\ (Pending' <=> Pending) /\ (SeeArrives' <=> SeeArrives)
        /\ (ThinkArrives' <=> ThinkArrives) /\ (HearArrives' <=> HearArrives)
    BY <1>1, <2>1, ParseWire
  <2> QED BY <2>2, Zenon DEF OkArrives
<1>3. srvSynchSee /\ ~see.synchSee
  BY <1>2 DEF WireInv
<1> DEFINE s == [see EXCEPT !.synchSee = TRUE]
<1>4. /\ s \in SeeStateType /\ s.timing = see.timing /\ s.seen = see.seen /\ s.count = see.count
      /\ s.history = see.history /\ s.synchSee = TRUE /\ s.till = see.till
  BY DEF TypeOK, SeeStateType
<1>5. see' = SetViewMode(s, view.width)
  BY <1>1 DEF SetSynchSeeMode
<1> HIDE DEF s
<1>6. /\ see'.timing = s.timing /\ see'.seen = s.seen /\ see'.count = s.count
      /\ see'.history = s.history /\ see'.synchSee = s.synchSee
      /\ see'.till = IF s.seen /\ ~IllegalWidth(s, view.width) THEN CyclesOf(s, view.width) ELSE s.till
  BY <1>4, <1>5, SetViewModeFields, Scalars DEF ScalarType
<1>7. ~IllegalWidth(s, view.width) /\ CyclesOf(s, view.width) = CyclesOf(see', view.width)
  BY <1>4, <1>6 DEF IllegalWidth, CyclesOf
<1> QED BY <1>1, <1>2, <1>3, <1>4, <1>6, <1>7

\* The answer to synch_see keeps every part of the invariant.
LEMMA AnalyzeOKPreserves ==
    ASSUME TypeOK, TypeOK', SynchInv, Regular', Regular, AnalyzeOK
    PROVE  Groups'
<1>1. Ordered /\ WireInv /\ ClockInv /\ ViewInv /\ DecidedInv /\ CountInv /\ PrepareInv /\ TrackInv
  BY DEF SynchInv
<1>2. CyclesOf(see', view.width) \in 1..3 /\ (view.width = "NARROW" => CyclesOf(see', view.width) = 1)
  BY Scalars DEF CyclesOf, ViewWidth, ScalarType
<1>3. Fresh => Fresh'
  BY <1>1, AnalyzeOKFacts DEF Fresh
<1>4. see.seen /\ see.count = 0 => Fresh
  BY <1>1 DEF ClockInv
<1>5. Fresh' => Fresh
  BY <1>1, <1>4, AnalyzeOKFacts DEF Fresh
<1>6. ClockInv'
  BY <1>1, <1>3, <1>4, AnalyzeOKFacts DEF ClockInv
<1>7. ViewInv'
  BY <1>1, <1>2, AnalyzeOKFacts, Scalars DEF ViewInv, ScalarType
<1>8. DecidedInv'
  <2>1. Settled' <=> Settled
    BY DEF Settled
  <2> QED BY <1>1, <1>2, <1>5, <2>1, AnalyzeOKFacts, Scalars DEF DecidedInv, ScalarType
<1>9. CountInv' /\ PrepareInv' /\ TrackInv'
  BY <1>1, AnalyzeOKFacts DEF CountInv, PrepareInv, TrackInv, Tracked
<1> QED BY <1>6, <1>7, <1>8, <1>9 DEF Groups

-----------------------------------------------------------------------------
(* Action.                                                                 *)

\* The missing see disproves the synchronization.
Dropped == IsSynch(see) /\ see.till = 0 /\ ~SeeIsCurrent
Kept == IF Dropped THEN SetLastSeeTiming(see, "TIME_NOSYNCH") ELSE see

\* Giving the timing up touches nothing else.
LEMMA KeptFields ==
    ASSUME TypeOK
    PROVE  /\ Kept \in SeeStateType
           /\ Kept.seen = see.seen /\ Kept.count = see.count /\ Kept.history = see.history
           /\ Kept.synchSee = see.synchSee /\ Kept.till = see.till
           /\ Kept.timing = IF Dropped THEN "TIME_NOSYNCH" ELSE see.timing
           /\ IsSynch(Kept) <=> see.synchSee \/ (see.timing \in SynchTiming /\ ~Dropped)
<1>1. see \in SeeStateType /\ "TIME_NOSYNCH" \in Timing /\ "TIME_NOSYNCH" \notin SynchTiming
  BY DEF TypeOK, Timing, SynchTiming
<1>2. /\ Kept \in SeeStateType
      /\ Kept.seen = see.seen /\ Kept.count = see.count /\ Kept.history = see.history
      /\ Kept.synchSee = see.synchSee /\ Kept.till = see.till
      /\ Kept.timing = IF Dropped THEN "TIME_NOSYNCH" ELSE see.timing
  <2>1. CASE Dropped
    <3>1. Kept = SetLastSeeTiming(see, "TIME_NOSYNCH")
      BY <2>1 DEF Kept
    <3> QED BY <1>1, <2>1, <3>1, SetLastSeeTimingFields
  <2>2. CASE ~Dropped
    BY <1>1, <2>2 DEF Kept
  <2> QED BY <2>1, <2>2
<1>3. IsSynch(Kept) <=> see.synchSee \/ (see.timing \in SynchTiming /\ ~Dropped)
  <2> HIDE DEF Kept, Dropped
  <2> QED BY <1>1, <1>2 DEF IsSynch
<1> QED BY <1>2, <1>3

\* One command at most.
LEMMA DoChangeViewSent ==
    ASSUME NEW s, NEW v \in ViewMode, NEW w \in ViewWidth
    PROVE  LET sent == DoChangeView(s, v, w)
           IN  /\ sent \in Sent
               /\ \/ /\ sent = <<>>
                     /\ IsSynch(s) => w = v.width \/ ~CanChangeViewTo(s, w, SeeIsCurrent)
                  \/ /\ sent = <<Mode(w, "HIGH")>>
                     /\ IF IsSynch(s) THEN CanChangeViewTo(s, w, SeeIsCurrent) ELSE mode = "PlayOn"
<1>1. Mode(w, "HIGH") \in ViewMode
  BY ModeFields, Views
<1>2. <<Mode(w, "HIGH")>> \in Sent /\ <<>> \in Sent
  BY <1>1 DEF Sent
<1> DEFINE c == /\ IF IsSynch(s) THEN CanChangeViewTo(s, w, SeeIsCurrent) ELSE mode = "PlayOn"
                /\ w # v.width
<1>3. DoChangeView(s, v, w) = IF c THEN <<Mode(w, "HIGH")>> ELSE <<>>
  BY DEF DoChangeView
<1>4. CASE c
  BY <1>2, <1>3, <1>4, Zenon
<1>5. CASE ~c
  BY <1>2, <1>3, <1>5, Zenon
<1> QED BY <1>4, <1>5

\* The widths the view action asks for.
LEMMA Requested ==
    ASSUME NEW s, NEW v \in ViewMode, NEW w \in RequestedWidths(s, v)
    PROVE  /\ w \in ViewWidth
           /\ IsSynch(s) /\ ~s.synchSee /\ s.timing = "TIME_0_00" => w # "NARROW"
<1>1. v.width \in ViewWidth
  BY DEF ViewMode
<1> QED BY <1>1 DEF RequestedWidths, ViewSynchWidths, ViewWidth

\* action() without adjust method.
LEMMA PlainAction ==
    ASSUME TypeOK, Action, ~(SynchMode /\ ~IsSynch(Kept))
    PROVE  \E w \in RequestedWidths(Kept, view) :
             LET sent == DoChangeView(Kept, view, w)
             IN  /\ view' = LastView(view, sent)
                 /\ see' = SetViewMode(Kept, view'.width)
                 /\ Deliver(sent)
<1> DEFINE s0 == IF IsSynch(see) /\ see.till = 0 /\ ~SeeIsCurrent
                 THEN SetLastSeeTiming(see, "TIME_NOSYNCH")
                 ELSE see
           a == IF SynchMode /\ ~IsSynch(s0)
                THEN AdjustSeeSynchSynchMode(s0, view)
                ELSE [see |-> s0, sent |-> <<>>]
           v1 == LastView(view, a.sent)
<1>1. s0 = Kept
  BY ZenonT(40) DEF Kept, Dropped
<1>2. PICK w \in RequestedWidths(a.see, v1) :
        LET sent == a.sent \o DoChangeView(a.see, v1, w)
        IN  /\ view' = LastView(view, sent)
            /\ see' = SetViewMode(a.see, LastView(view, sent).width)
            /\ Deliver(sent)
  BY DEF Action
<1> HIDE DEF s0
<1>3. a.see = Kept /\ a.sent = <<>>
  BY <1>1
<1> HIDE DEF a
<1>4. v1 = view
  BY <1>3 DEF LastView
<1> HIDE DEF v1
<1>5. w \in RequestedWidths(Kept, view)
  BY <1>3, <1>4
<1> DEFINE d == DoChangeView(Kept, view, w)
<1>6. d \in Sent
  <2>1. view \in ViewMode /\ w \in ViewWidth
    BY <1>5, Requested DEF TypeOK
  <2> QED BY <2>1, DoChangeViewSent
<1>7. a.sent \o DoChangeView(a.see, v1, w) = d
  <2>1. a.sent \o DoChangeView(a.see, v1, w) = <<>> \o d
    BY <1>3, <1>4
  <2> HIDE DEF d
  <2> QED BY <1>6, <2>1 DEF Sent
<1> HIDE DEF d
<1>8. view' = LastView(view, d) /\ see' = SetViewMode(Kept, view'.width) /\ Deliver(d)
  BY <1>2, <1>3, <1>7
<1> QED BY <1>5, <1>8 DEF d

\* action() of an agent that stays synchronized: its view only changes after a see,
\* to a width that keeps it synchronized.
LEMMA ActionSynched ==
    ASSUME TypeOK, Action, IsSynch(Kept)
    PROVE  /\ \E sent \in Sent : Deliver(sent) /\ view' = LastView(view, sent)
           /\ see'.seen = see.seen /\ see'.count = see.count /\ see'.history = see.history
           /\ see'.synchSee = see.synchSee /\ see'.timing = Kept.timing
           /\ see'.till = IF see.seen /\ ~IllegalWidth(see', view'.width)
                          THEN CyclesOf(see', view'.width) ELSE see.till
           /\ \/ view' = view
              \/ SeeIsCurrent /\ view'.quality = "HIGH" /\ ~IllegalWidth(see', view'.width)
           /\ SeeIsCurrent /\ (~Legal => see.timing = "TIME_0_00") => ~IllegalWidth(see', view'.width)
<1>1. PICK w \in RequestedWidths(Kept, view) :
        LET sent == DoChangeView(Kept, view, w)
        IN  /\ view' = LastView(view, sent)
            /\ see' = SetViewMode(Kept, view'.width)
            /\ Deliver(sent)
  BY PlainAction
<1> DEFINE sent == DoChangeView(Kept, view, w)
<1>2. view' = LastView(view, sent) /\ see' = SetViewMode(Kept, view'.width) /\ Deliver(sent)
  BY <1>1
<1>3. view \in ViewMode /\ w \in ViewWidth
  BY Requested DEF TypeOK
<1>4. /\ sent \in Sent
      /\ \/ sent = <<>> /\ (w = view.width \/ ~CanChangeViewTo(Kept, w, SeeIsCurrent))
         \/ sent = <<Mode(w, "HIGH")>> /\ CanChangeViewTo(Kept, w, SeeIsCurrent)
  BY <1>3, DoChangeViewSent
<1> HIDE DEF sent
<1>5. view' \in ViewMode /\ view'.width \in ViewWidth
  <2>1. view' \in ViewMode
    BY <1>2, <1>3, <1>4, LastViewType
  <2> QED BY <2>1 DEF ViewMode
<1>6. /\ see'.seen = see.seen /\ see'.count = see.count /\ see'.history = see.history
      /\ see'.synchSee = see.synchSee /\ see'.timing = Kept.timing
      /\ see'.till = IF see.seen /\ ~IllegalWidth(Kept, view'.width)
                     THEN CyclesOf(Kept, view'.width) ELSE see.till
  BY <1>2, <1>5, KeptFields, SetViewModeFields
<1>7. /\ IllegalWidth(Kept, view'.width) <=> IllegalWidth(see', view'.width)
      /\ CyclesOf(Kept, view'.width) = CyclesOf(see', view'.width)
  BY <1>6, KeptFields DEF IllegalWidth, CyclesOf
<1>8. Kept.synchSee = see.synchSee /\ (see.synchSee \/ Kept.timing \in SynchTiming)
      /\ (~see.synchSee => Kept.timing = see.timing)
  BY KeptFields DEF IsSynch
<1>9. CASE sent = <<>>
  <2>1. view' = view
    BY <1>2, <1>9 DEF LastView
  <2>2. ASSUME SeeIsCurrent, ~Legal => see.timing = "TIME_0_00", IllegalWidth(see', view'.width)
        PROVE  FALSE
    <3>1. IllegalWidth(Kept, view.width) /\ ~see.synchSee /\ Kept.timing = see.timing
      BY <1>7, <1>8, <2>1, <2>2 DEF IllegalWidth
    <3>2. ~Legal
      BY <3>1, <1>8 DEF Legal, IllegalWidth
    <3>3. see.timing = "TIME_0_00" /\ view.width = "NARROW"
      BY <2>2, <3>1, <3>2 DEF IllegalWidth
    <3>4. w # "NARROW"
      BY <1>3, <1>8, <3>1, <3>3, Requested
    <3>5. CanChangeViewTo(Kept, w, SeeIsCurrent)
      BY <1>3, <2>2, <3>1, <3>3, <3>4 DEF CanChangeViewTo, ViewWidth
    <3> QED BY <1>4, <1>9, <3>3, <3>4, <3>5
  <2> QED BY <1>2, <1>4, <1>6, <1>7, <2>1, <2>2
<1>10. CASE sent # <<>>
  <2>1. sent = <<Mode(w, "HIGH")>> /\ CanChangeViewTo(Kept, w, SeeIsCurrent)
    BY <1>4, <1>10
  <2>2. view' = Mode(w, "HIGH") /\ view'.width = w /\ view'.quality = "HIGH"
    <3>1. Mode(w, "HIGH") \in ViewMode /\ Mode(w, "HIGH").width = w /\ Mode(w, "HIGH").quality = "HIGH"
      BY <1>3, ModeFields, Views
    <3>2. LastView(view, sent) = Mode(w, "HIGH")
      BY <2>1, <3>1, OneCommand
    <3> QED BY <1>2, <3>1, <3>2
  <2>3. SeeIsCurrent /\ ~IllegalWidth(Kept, w)
    BY <2>1, <1>8 DEF CanChangeViewTo, IllegalWidth, SynchTiming
  <2>4. ~IllegalWidth(see', view'.width)
    BY <1>7, <2>2, <2>3
  <2> QED BY <1>2, <1>4, <1>6, <1>7, <2>2, <2>3, <2>4
<1> QED BY <1>9, <1>10

\* action() of an agent that is not synchronized, or no longer, and has no adjust method
\* to run: its view changes in play_on.
LEMMA ActionUnsynched ==
    ASSUME TypeOK, Action, ~IsSynch(Kept), ~SynchMode
    PROVE  /\ \E sent \in Sent : Deliver(sent) /\ view' = LastView(view, sent)
           /\ see'.seen = see.seen /\ see'.count = see.count /\ see'.history = see.history
           /\ see'.synchSee = FALSE /\ see'.timing \notin SynchTiming
           /\ see'.till = IF see.seen THEN CyclesOf(see', view'.width) ELSE see.till
           /\ \/ view' = view
              \/ mode = "PlayOn" /\ view'.quality = "HIGH"
<1>1. PICK w \in RequestedWidths(Kept, view) :
        LET sent == DoChangeView(Kept, view, w)
        IN  /\ view' = LastView(view, sent)
            /\ see' = SetViewMode(Kept, view'.width)
            /\ Deliver(sent)
  BY PlainAction
<1> DEFINE sent == DoChangeView(Kept, view, w)
<1>2. view' = LastView(view, sent) /\ see' = SetViewMode(Kept, view'.width) /\ Deliver(sent)
  BY <1>1
<1>3. view \in ViewMode /\ w \in ViewWidth
  BY Requested DEF TypeOK
<1>4. /\ sent \in Sent
      /\ \/ sent = <<>>
         \/ sent = <<Mode(w, "HIGH")>> /\ mode = "PlayOn"
  BY <1>3, DoChangeViewSent
<1> HIDE DEF sent
<1>5. view' \in ViewMode /\ view'.width \in ViewWidth
  <2>1. view' \in ViewMode
    BY <1>2, <1>3, <1>4, LastViewType
  <2> QED BY <2>1 DEF ViewMode
<1>6. see.synchSee = FALSE /\ Kept.timing \notin SynchTiming
  BY KeptFields DEF IsSynch, TypeOK, SeeStateType
<1>7. /\ see'.seen = see.seen /\ see'.count = see.count /\ see'.history = see.history
      /\ see'.synchSee = FALSE /\ see'.timing = Kept.timing
      /\ see'.till = IF see.seen /\ ~IllegalWidth(Kept, view'.width)
                     THEN CyclesOf(Kept, view'.width) ELSE see.till
  BY <1>2, <1>5, <1>6, KeptFields, SetViewModeFields
<1>8. ~IllegalWidth(Kept, view'.width) /\ CyclesOf(Kept, view'.width) = CyclesOf(see', view'.width)
  BY <1>6, <1>7, KeptFields DEF IllegalWidth, SynchTiming, CyclesOf
<1>9. view' = view \/ (mode = "PlayOn" /\ view'.quality = "HIGH")
  <2>1. CASE sent = <<>>
    BY <1>2, <2>1 DEF LastView
  <2>2. CASE sent = <<Mode(w, "HIGH")>> /\ mode = "PlayOn"
    <3>1. Mode(w, "HIGH") \in ViewMode /\ Mode(w, "HIGH").quality = "HIGH"
      BY <1>3, ModeFields, Views
    <3>2. LastView(view, sent) = Mode(w, "HIGH")
      BY <2>2, <3>1, OneCommand
    <3> QED BY <1>2, <2>2, <3>1, <3>2
  <2> QED BY <1>4, <2>1, <2>2
<1> QED BY <1>2, <1>4, <1>6, <1>7, <1>8, <1>9

\* The last view mode of a command and those that follow.
LEMMA LastOfTwo ==
    ASSUME NEW v \in ViewMode, NEW u \in ViewMode, NEW m \in ViewMode, NEW d, d = <<>> \/ d = <<m>>
    PROVE  /\ <<u>> \o d \in Sent
           /\ LastView(v, <<u>> \o d) = IF d = <<>> THEN u ELSE m
<1>1. CASE d = <<>>
  <2>1. <<u>> \o d = <<u>>
    BY <1>1
  <2> QED BY <1>1, <2>1, OneCommand
<1>2. CASE d = <<m>>
  <2>1. /\ <<u>> \o <<m>> \in Sent /\ <<u>> \o <<m>> # <<>>
        /\ Len(<<u>> \o <<m>>) = 2 /\ (<<u>> \o <<m>>)[2] = m
    BY DEF Sent
  <2>2. LastView(v, <<u>> \o <<m>>) = m
    <3> DEFINE x == <<u>> \o <<m>>
    <3>1. x # <<>> /\ Len(x) = 2 /\ x[2] = m
      BY <2>1
    <3> HIDE DEF x
    <3>2. LastView(v, x) = m
      BY <3>1 DEF LastView
    <3> QED BY <3>2 DEF x
  <2>3. <<m>> # <<>>
    OBVIOUS
  <2> QED BY <1>2, <2>1, <2>2, <2>3
<1> QED BY <1>1, <1>2

\* action() of an agent that looks for the pattern of the think messages.
LEMMA ActionSynchMode ==
    ASSUME TypeOK, Action, ~IsSynch(Kept), SynchMode
    PROVE  /\ \E sent \in Sent : Deliver(sent) /\ view' = LastView(view, sent)
           /\ see'.seen = see.seen /\ see'.count = see.count /\ see'.history = see.history
           /\ see'.synchSee = FALSE
           /\ ~IsSynchedSeeCountSynchMode(see) => see'.timing \notin SynchTiming
           /\ IsSynchedSeeCountSynchMode(see) =>
                /\ see'.timing = "TIME_50_0" /\ view'.quality = "HIGH"
                /\ ~IllegalWidth(see', view'.width)
                /\ see.seen => see'.till = CyclesOf(see', view'.width)
<1> DEFINE s0 == IF IsSynch(see) /\ see.till = 0 /\ ~SeeIsCurrent
                 THEN SetLastSeeTiming(see, "TIME_NOSYNCH")
                 ELSE see
           a == IF SynchMode /\ ~IsSynch(s0)
                THEN AdjustSeeSynchSynchMode(s0, view)
                ELSE [see |-> s0, sent |-> <<>>]
           v1 == LastView(view, a.sent)
<1>1. s0 = Kept
  BY Zenon DEF Kept, Dropped
<1>2. PICK w \in RequestedWidths(a.see, v1) :
        LET sent == a.sent \o DoChangeView(a.see, v1, w)
        IN  /\ view' = LastView(view, sent)
            /\ see' = SetViewMode(a.see, LastView(view, sent).width)
            /\ Deliver(sent)
  BY DEF Action
<1> HIDE DEF s0
<1>3. a = AdjustSeeSynchSynchMode(Kept, view)
  BY <1>1
<1> HIDE DEF a
<1>4. Kept \in SeeStateType /\ view \in ViewMode
  BY KeptFields DEF TypeOK
<1> DEFINE rec == IsSynchedSeeCountSynchMode(Kept)
<1>5. /\ a.see \in SeeStateType /\ a.sent \in Sent
      /\ a.see.seen = Kept.seen /\ a.see.count = Kept.count /\ a.see.history = Kept.history
      /\ a.see.synchSee = FALSE
      /\ rec => a.see.timing = "TIME_50_0" /\ a.sent = <<Mode("NARROW", "HIGH")>>
      /\ ~rec => a.see.timing = Kept.timing
  BY <1>3, <1>4, AdjustSynchFields
<1>6. rec <=> IsSynchedSeeCountSynchMode(see)
  BY KeptFields, Zenon DEF IsSynchedSeeCountSynchMode
<1> HIDE DEF rec
<1>7. v1 \in ViewMode
  BY <1>4, <1>5, LastViewType
<1>8. w \in ViewWidth
  BY <1>7, Requested
<1> DEFINE d == DoChangeView(a.see, v1, w)
<1>9. /\ d \in Sent
      /\ \/ d = <<>>
         \/ /\ d = <<Mode(w, "HIGH")>>
            /\ IsSynch(a.see) => CanChangeViewTo(a.see, w, SeeIsCurrent)
  BY <1>7, <1>8, DoChangeViewSent
<1> HIDE DEF d
<1> DEFINE sent == a.sent \o d
<1>10. view' = LastView(view, sent) /\ see' = SetViewMode(a.see, view'.width) /\ Deliver(sent)
  BY <1>2 DEF d
<1>11. sent \in Sent
  BY <1>5, <1>9 DEF Sent
<1> HIDE DEF sent, v1
<1>12. view' \in ViewMode /\ view'.width \in ViewWidth
  <2>1. view' \in ViewMode
    BY <1>4, <1>10, <1>11, LastViewType
  <2> QED BY <2>1 DEF ViewMode
<1>13. /\ see'.seen = see.seen /\ see'.count = see.count /\ see'.history = see.history
       /\ see'.synchSee = FALSE /\ see'.timing = a.see.timing
       /\ see'.till = IF see.seen /\ ~IllegalWidth(a.see, view'.width)
                      THEN CyclesOf(a.see, view'.width) ELSE a.see.till
  BY <1>5, <1>10, <1>12, KeptFields, SetViewModeFields
<1>14. CASE ~rec
  <2>1. see'.timing \notin SynchTiming
    BY <1>5, <1>13, <1>14 DEF IsSynch
  <2> QED BY <1>6, <1>10, <1>11, <1>13, <1>14, <2>1
<1>15. CASE rec
  <2>1. a.see.timing = "TIME_50_0" /\ a.sent = <<Mode("NARROW", "HIGH")>> /\ a.see.synchSee = FALSE
    BY <1>5, <1>15
  <2>2. /\ Mode("NARROW", "HIGH") \in ViewMode /\ Mode("NARROW", "HIGH").width = "NARROW"
        /\ Mode("NARROW", "HIGH").quality = "HIGH"
        /\ Mode(w, "HIGH") \in ViewMode /\ Mode(w, "HIGH").width = w /\ Mode(w, "HIGH").quality = "HIGH"
    BY <1>8, ModeFields, Views
  <2>3. view' = IF d = <<>> THEN Mode("NARROW", "HIGH") ELSE Mode(w, "HIGH")
    <3>1. d = <<>> \/ d = <<Mode(w, "HIGH")>>
      BY <1>9
    <3>2. LastView(view, <<Mode("NARROW", "HIGH")>> \o d)
            = IF d = <<>> THEN Mode("NARROW", "HIGH") ELSE Mode(w, "HIGH")
      BY <1>4, <2>2, <3>1, LastOfTwo
    <3> QED BY <1>10, <2>1, <3>2 DEF sent
  <2>4. view'.quality = "HIGH"
    BY <2>2, <2>3
  <2>5. ~IllegalWidth(see', view'.width) /\ ~IllegalWidth(a.see, view'.width)
    <3>1. see'.timing = "TIME_50_0" /\ a.see.timing = "TIME_50_0"
      BY <1>13, <2>1
    <3> QED BY <3>1 DEF IllegalWidth
  <2>6. CyclesOf(a.see, view'.width) = CyclesOf(see', view'.width)
    BY <1>13, <2>1 DEF CyclesOf
  <2> QED BY <1>6, <1>10, <1>11, <1>13, <1>15, <2>1, <2>4, <2>5, <2>6
<1> QED BY <1>14, <1>15

-----------------------------------------------------------------------------
(* Decide and Think, of a synchronized agent.                              *)

\* The cycles the agent counts for its width are the server's interval,
Interval ==
    /\ see.synchSee => V = CyclesOf(see, view.width)
    /\ ~see.synchSee /\ view.quality = "HIGH" =>
         V = IF view.width = "NARROW" THEN 2 ELSE IF view.width = "NORMAL" THEN 4 ELSE 8

\* now
LEMMA IntervalNow == TypeOK => Interval
BY IntervalType, Scalars DEF Interval, ScalarType

\* and in the next state.
LEMMA IntervalNext == TypeOK' => Interval'
BY IntervalNow, PTL

\* After a see the agent may change its view: the next see will come as it counts.
LEMMA ActionAfterSee ==
    ASSUME TypeOK, TypeOK', Action, Tracked, IsSynch(Kept), ~clock.lag, CountdownInv, see.seen,
           ~see.synchSee => Good(see.timing, lastSee) /\ view.quality = "HIGH",
           ~Pending, ~SeeArrives, ~Pending', ~SeeArrives',
           t' = t, elapsed' = elapsed, lastSee' = lastSee, spent' = spent
    PROVE  /\ ~see.synchSee => Good(see.timing, lastSee)' /\ view'.quality = "HIGH"
           /\ CountdownInv'
<1>1. SeeIsCurrent
  BY DEF SeeIsCurrent
<1>2. Kept.timing = see.timing
  BY <1>1, KeptFields DEF Dropped
<1>3. ~Legal => see.timing = "TIME_0_00"
  BY DEF CountdownInv
<1>4. /\ see'.seen = see.seen /\ see'.synchSee = see.synchSee /\ see'.timing = see.timing
      /\ ~IllegalWidth(see', view'.width)
      /\ see'.till = CyclesOf(see', view'.width)
      /\ view' = view \/ view'.quality = "HIGH"
  BY <1>1, <1>2, <1>3, ActionSynched
<1>5. Legal' /\ CyclesOf(see', view'.width) \in 1..3
  BY <1>4, DerivedNext DEF Legal, DerivedType
<1>6. Good(see.timing, lastSee)' <=> Good(see.timing, lastSee)
  BY <1>4, Zenon DEF Good, Exact, Settled
<1>7. OnGrid /\ CyclesSince = 0
  BY DEF CountdownInv, Waiting
<1>8. Age = elapsed /\ Age' = elapsed
  BY DEF Age
<1>9. Since' = Since /\ Since = lastSee + 3 * elapsed + (t % 3)
  BY <1>8 DEF Since
<1>10. /\ elapsed \in 0..8 /\ lastSee \in 0..8 /\ Phase(t) \in 0..7 /\ t % 3 \in 0..2
       /\ Since \div 8 \in Nat /\ Since = 8 * (Since \div 8) + (Since % 8)
  BY Scalars, Derived DEF ScalarType, DerivedType
<1>11. CASE see.synchSee
  <2>1. elapsed = 0 /\ CyclesSince' = CyclesSince
    <3>1. CyclesSince = IF Phase(t) < SynchSeeOffset THEN Age + 1 ELSE Age
      BY <1>10, <1>11, <1>8, Derived DEF DerivedType
    <3>2. CyclesSince' = IF Phase(t') < SynchSeeOffset THEN Age' + 1 ELSE Age'
      BY <1>10, <1>11, <1>4, <1>8, DerivedNext DEF DerivedType
    <3>3. CyclesSince' = CyclesSince
      BY <3>1, <3>2, <1>8
    <3> QED BY <1>7, <1>8, <1>10, <3>1, <3>3
  <2>2. OnGrid'
    <3>1. V' \in 1..8
      BY DerivedNext DEF DerivedType
    <3>2. lastSee = SynchSeeOffset
      BY <1>7, <1>11 DEF OnGrid
    <3> QED BY <1>4, <1>11, <2>1, <3>1, <3>2 DEF OnGrid
  <2> QED BY <1>4, <1>5, <1>7, <1>11, <2>1, <2>2 DEF CountdownInv, Waiting
<1>12. CASE ~see.synchSee
  <2>1. Since = Phase(t)
    <3>1. CyclesSince = Since \div 8
      BY <1>12, Derived DEF DerivedType
    <3>2. Since % 8 = Phase(t)
      BY <1>7, <1>12 DEF OnGrid
    <3> QED BY <1>7, <1>10, <3>1, <3>2
  <2>2. view'.quality = "HIGH"
    BY <1>4, <1>12
  <2>3. CyclesSince' = CyclesSince
    <3>1. CyclesSince = Since \div 8
      BY <1>12, Derived DEF DerivedType
    <3>2. CyclesSince' = (Since' \div 8) - 0
      BY <1>4, <1>12, DerivedNext DEF DerivedType
    <3> QED BY <1>9, <1>10, <3>1, <3>2
  <2>4. elapsed < V'
    <3>1. V' = IF view'.width = "NARROW" THEN 2 ELSE IF view'.width = "NORMAL" THEN 4 ELSE 8
      BY <1>4, <1>12, <2>2, IntervalNext DEF Interval
    <3>2. elapsed <= 2 /\ (lastSee >= 2 => elapsed <= 1)
      <4>1. lastSee + 3 * elapsed + (t % 3) = Phase(t)
        BY <1>9, <2>1
      <4> DEFINE r == t % 3
      <4>2. lastSee + 3 * elapsed + r = Phase(t) /\ r \in 0..2
        BY <1>10, <4>1
      <4> HIDE DEF r
      <4>3. /\ elapsed \in 0..8 /\ lastSee \in 0..8 /\ Phase(t) \in 0..7
        BY <1>10
      <4> QED BY <4>2, <4>3
    <3>3. view'.width = "NARROW" => lastSee >= 2
      <4>1. view'.width = "NARROW" => see.timing # "TIME_0_00"
        BY <1>4, <1>12 DEF IllegalWidth
      <4>2. see.timing \in SynchTiming /\ Good(see.timing, lastSee)
        BY <1>12 DEF Tracked
      <4> QED BY <1>10, <4>1, <4>2 DEF Good, PhaseOf, SynchTiming
    <3> QED BY <1>10, <3>1, <3>2, <3>3
  <2>5. OnGrid'
    BY <1>4, <1>7, <1>9, <1>12, <2>4 DEF OnGrid
  <2> QED BY <1>4, <1>5, <1>6, <1>7, <1>12, <2>2, <2>3, <2>5 DEF CountdownInv, Waiting
<1> QED BY <1>11, <1>12

\* Before the see that the agent counts down to, nothing changes.
LEMMA ActionBeforeSee ==
    ASSUME TypeOK, TypeOK', Action, Tracked, IsSynch(Kept), ~clock.lag, CountdownInv, ~see.seen,
           see.synchSee /\ see.till = 0 => ~Exact,
           ~see.synchSee => Good(see.timing, lastSee) /\ view.quality = "HIGH",
           ~Pending, ~SeeArrives, ~Pending', ~SeeArrives',
           t' = t, elapsed' = elapsed, lastSee' = lastSee, spent' = spent
    PROVE  /\ ~see.synchSee => Good(see.timing, lastSee)' /\ view'.quality = "HIGH"
           /\ CountdownInv'
<1>1. ~SeeIsCurrent
  BY DEF SeeIsCurrent
<1>2. ~see.synchSee => Kept.timing = see.timing /\ see.till > 0
  <2>1. ~see.synchSee => ~Dropped /\ IsSynch(see)
    BY KeptFields DEF IsSynch
  <2> QED BY <1>1, <2>1, KeptFields, Scalars DEF Dropped, ScalarType
<1>3. /\ see'.seen = see.seen /\ see'.synchSee = see.synchSee
      /\ ~see.synchSee => see'.timing = see.timing
      /\ see'.till = see.till
      /\ view' = view
  BY <1>1, <1>2, ActionSynched
<1>4. (Exact' <=> Exact) /\ (~see.synchSee => (Good(see.timing, lastSee)' <=> Good(see.timing, lastSee)))
  <2>1. Exact' <=> Exact
    BY DEF Exact, Settled
  <2> QED BY <1>3, <2>1, Zenon DEF Good
<1>5. V' = V
  BY <1>3, SameInterval
<1>6. Age = elapsed /\ Age' = elapsed
  BY DEF Age
<1>7. Since' = Since
  BY <1>6 DEF Since
<1>8. OnGrid' <=> OnGrid
  BY <1>3, <1>5, <1>7 DEF OnGrid
<1>9. CyclesSince' = CyclesSince
  <2>1. CASE see.synchSee
    <3>1. CyclesSince = (IF Phase(t) < SynchSeeOffset THEN Age + 1 ELSE Age) - 0
      BY <2>1, Derived DEF DerivedType
    <3>2. CyclesSince' = (IF Phase(t') < SynchSeeOffset THEN Age' + 1 ELSE Age') - 0
      BY <1>3, <2>1, DerivedNext DEF DerivedType
    <3> QED BY <1>6, <3>1, <3>2
  <2>2. CASE ~see.synchSee
    <3>1. CyclesSince = (Since \div 8) - 0
      BY <2>2, Derived DEF DerivedType
    <3>2. CyclesSince' = (Since' \div 8) - 0
      BY <1>3, <2>2, DerivedNext DEF DerivedType
    <3> QED BY <1>7, <3>1, <3>2
  <2> QED BY <2>1, <2>2
<1>10. CyclesOf(see', view'.width) = CyclesOf(see, view.width)
  BY <1>3, Scalars DEF CyclesOf, ScalarType, ViewWidth
<1>11. (Waiting' <=> Waiting) /\ (Due' <=> Due)
  BY <1>3, <1>8, <1>9, <1>10 DEF Waiting, Due
<1>12. ~see.synchSee => (Lost' <=> Lost)
  BY <1>3 DEF Lost, LastShot
<1>13. Legal'
  <2>1. Legal
    BY DEF CountdownInv
  <2> QED BY <1>3, <2>1 DEF Legal, IllegalWidth
<1>14. see.till \in 0..100 /\ CyclesSince \in Int
  BY Scalars, Derived DEF ScalarType, DerivedType
<1>15. CountdownInv'
  <2>1. ~Waiting' => OnGrid'
    BY <1>8, <1>11 DEF CountdownInv
  <2>2. see'.till > 0 => see'.till + CyclesSince' = CyclesOf(see', view'.width)
    BY <1>3, <1>9, <1>10 DEF CountdownInv
  <2>3. Waiting' => IF see'.synchSee THEN Exact' => Due' ELSE Lost' \/ Due'
    BY <1>3, <1>4, <1>11, <1>12 DEF CountdownInv
  <2>4. see'.till > 0 \/ (see'.synchSee /\ ~Exact' /\ ~see'.seen)
    BY <1>2, <1>3, <1>4, <1>14
  <2> QED BY <1>3, <1>13, <2>1, <2>2, <2>3, <2>4 DEF CountdownInv
<1> QED BY <1>3, <1>4, <1>15

\* What action() leaves alone, and the view modes of agent and server after it.
LEMMA ActionView ==
    ASSUME TypeOK, ViewInv, Action, spent'.command = spent.command
    PROVE  /\ spent' = spent
           /\ view'.width = srvView'.width
           /\ ~srvSynchSee => view' = srvView'
           /\ srvSynchSee => srvView'.quality = "HIGH"
           /\ see'.seen = see.seen /\ see'.count = see.count /\ see'.history = see.history
           /\ see'.synchSee = see.synchSee
<1>1. /\ \E sent \in Sent : Deliver(sent) /\ view' = LastView(view, sent)
      /\ see'.seen = see.seen /\ see'.count = see.count /\ see'.history = see.history
      /\ see'.synchSee = see.synchSee
  <2>1. CASE IsSynch(Kept)
    BY <2>1, ActionSynched
  <2>2. ~IsSynch(Kept) => see.synchSee = FALSE
    BY KeptFields, Scalars DEF ScalarType
  <2>3. CASE ~IsSynch(Kept) /\ SynchMode
    BY <2>2, <2>3, ActionSynchMode
  <2>4. CASE ~IsSynch(Kept) /\ ~SynchMode
    BY <2>2, <2>4, ActionUnsynched
  <2> QED BY <2>1, <2>3, <2>4
<1>2. PICK sent \in Sent : Deliver(sent) /\ view' = LastView(view, sent)
  BY <1>1
<1>3. spent' = spent /\ srvView' = Received(LastView(srvView, sent))
  BY <1>2, DeliverView
<1> QED BY <1>1, <1>2, <1>3, ViewsAgree

\* Late in the cycle an agent that missed nothing does not wait for a see any more.
LEMMA SeeIsInTime ==
    ASSUME TypeOK, Tracked, TrackInv, Exact, Valid, ~Pending, ~SeeArrives,
           Phase(t) >= 4, see.synchSee => Phase(t) >= SynchSeeOffset
    PROVE  ~Waiting
<1> SUFFICES ASSUME Waiting
             PROVE  FALSE
  OBVIOUS
<1>1. Due
  BY DEF TrackInv, CountdownInv, Lost, Exact
<1>2. CyclesSince = CyclesOf(see, view.width) /\ elapsed < V /\ Age = elapsed
  BY <1>1 DEF Due, OnGrid, Age
<1>3. /\ elapsed \in 0..8 /\ lastSee \in 0..8 /\ Phase(t) \in 0..7 /\ SynchSeeOffset \in 0..5
      /\ V \in 1..8 /\ CyclesOf(see, view.width) \in 1..3
  BY Scalars, Derived, ConstantsAssumption DEF ScalarType, DerivedType
<1>4. CASE see.synchSee
  <2>1. CyclesSince = Age
    <3>1. CyclesSince = (IF Phase(t) < SynchSeeOffset THEN Age + 1 ELSE Age) - 0
      BY <1>4, Derived DEF DerivedType
    <3> QED BY <1>2, <1>3, <1>4, <3>1
  <2>2. V = CyclesOf(see, view.width)
    BY <1>4, IntervalNow DEF Interval
  <2>3. elapsed = V
    BY <1>2, <2>1, <2>2
  <2> QED BY <1>2, <1>3, <2>3
<1>5. CASE ~see.synchSee
  <2>1. lastSee + 3 * V <= 8 * CyclesOf(see, view.width) + 4
    <3>1. see.timing \in SynchTiming /\ Good(see.timing, lastSee) /\ view.quality = "HIGH"
      BY <1>5 DEF Tracked, TrackInv
    <3>2. Legal
      BY DEF TrackInv, CountdownInv, Waiting
    <3> QED BY <1>5, <3>1, <3>2, NextSee
  <2>2. Since = 8 * CyclesOf(see, view.width) + Phase(t)
    <3>1. CyclesSince = (Since \div 8) - 0 /\ Since \div 8 \in Nat
      BY <1>5, Derived DEF DerivedType
    <3>2. Since % 8 = Phase(t)
      BY <1>1, <1>5 DEF Due, OnGrid
    <3>3. Since = 8 * (Since \div 8) + (Since % 8)
      BY Derived DEF DerivedType
    <3> QED BY <1>2, <3>1, <3>2, <3>3
  <2>3. Since <= lastSee + 3 * elapsed + 2
    <3>1. t % 3 \in 0..2
      BY Derived DEF DerivedType
    <3> QED BY <1>2, <1>3, <3>1 DEF Since
  <2>4. Since \in Nat
    BY Derived DEF DerivedType
  <2> QED BY <1>2, <1>3, <2>1, <2>2, <2>3, <2>4
<1> QED BY <1>4, <1>5

-----------------------------------------------------------------------------
(* Decide.                                                                 *)

\* What holds when action() is reached without a think message.
LEMMA DecideFacts ==
    ASSUME TypeOK, Ordered, WireInv, ClockInv, Decide
    PROVE  /\ Ordered' /\ wire' = wire
           /\ (Pending' <=> Pending) /\ (SeeArrives' <=> SeeArrives)
           /\ (ThinkArrives' <=> ThinkArrives) /\ (OkArrives' <=> OkArrives)
           /\ (HearArrives' <=> HearArrives)
           /\ ~SynchMode /\ ~decided /\ decided' /\ ~Pending
           /\ IsSynch(see) => ~SeeArrives /\ Valid
           /\ SeeIsCurrent \/ (IsSynch(see) /\ see.till > 0) \/ Fresh \/ Phase(t) >= 6
           /\ Action
           /\ t' = t /\ elapsed' = elapsed /\ srvSynchSee' = srvSynchSee /\ srvMode' = srvMode
           /\ mode' = mode /\ clock' = clock /\ lastSee' = lastSee
<1>1. /\ (DecideNow /\ wire = <<>>) \/ WaitedEnough
      /\ Action /\ decided' = TRUE /\ wire' = wire
      /\ t' = t /\ elapsed' = elapsed /\ srvSynchSee' = srvSynchSee /\ srvMode' = srvMode
      /\ mode' = mode /\ clock' = clock /\ lastSee' = lastSee
  BY DEF Decide
<1>2. ~SynchMode /\ ~decided
  BY <1>1 DEF DecideNow, WaitedEnough
<1>3. ~Pending
  BY <1>1, NothingArrives DEF WaitedEnough, WireInv
<1>4. IsSynch(see) => ~SeeArrives /\ Valid
  <2>1. wire = <<>> => ~SeeArrives /\ Valid
    BY NothingArrives DEF WireInv, Valid
  <2> QED BY <1>1, <2>1 DEF WaitedEnough
<1>5. SeeIsCurrent \/ (IsSynch(see) /\ see.till > 0) \/ Fresh \/ Phase(t) >= 6
  <2>1. clock.lag => Fresh
    BY <1>3 DEF ClockInv
  <2> QED BY <1>1, <2>1 DEF DecideNow, WaitedEnough
<1>6. /\ Ordered'
      /\ (Pending' <=> Pending) /\ (SeeArrives' <=> SeeArrives)
      /\ (ThinkArrives' <=> ThinkArrives) /\ (OkArrives' <=> OkArrives)
      /\ (HearArrives' <=> HearArrives)
  BY <1>1, Zenon DEF Ordered, Pending, SeeArrives, ThinkArrives, OkArrives, HearArrives, Has
<1> QED BY <1>1, <1>2, <1>3, <1>4, <1>5, <1>6

\* A decision without a think message keeps the countdown.
LEMMA DecideTracks ==
    ASSUME TypeOK, TypeOK', Ordered, WireInv, ClockInv, TrackInv, Decide, Tracked',
           spent' = spent
    PROVE  TrackInv'
<1>1. /\ ~SynchMode /\ ~Pending /\ ~Pending' /\ (SeeArrives' <=> SeeArrives) /\ Action
      /\ IsSynch(see) => ~SeeArrives /\ Valid
      /\ SeeIsCurrent \/ (IsSynch(see) /\ see.till > 0) \/ Fresh \/ Phase(t) >= 6
      /\ t' = t /\ elapsed' = elapsed /\ lastSee' = lastSee
  BY DecideFacts
<1>2. IsSynch(Kept)
  BY <1>1, ActionUnsynched DEF Tracked
<1>3. Tracked /\ ~SeeArrives /\ Valid
  <2>1. see'.synchSee = see.synchSee /\ see'.timing = Kept.timing
    BY <1>1, <1>2, ActionSynched
  <2>2. Tracked
    BY <1>1, <1>2, <2>1, KeptFields DEF Tracked
  <2> QED BY <1>1, <1>2, <2>2, KeptFields DEF IsSynch
<1>4. ~Fresh /\ ~clock.lag
  <2>1. ~Fresh
    BY <1>3 DEF Fresh, Tracked
  <2> QED BY <1>1, <2>1 DEF ClockInv
<1>5. CountdownInv /\ (~see.synchSee => Good(see.timing, lastSee) /\ view.quality = "HIGH")
  BY <1>3 DEF TrackInv
<1>6. ~see.seen /\ see.synchSee /\ see.till = 0 => ~Exact
  <2> SUFFICES ASSUME ~see.seen, see.synchSee, see.till = 0, Exact
               PROVE  FALSE
    OBVIOUS
  <2>1. Phase(t) >= 6
    BY <1>1, <1>4 DEF SeeIsCurrent
  <2>2. Phase(t) \in 0..7 /\ SynchSeeOffset \in 0..5
    BY Scalars, ConstantsAssumption DEF ScalarType
  <2> QED BY <1>1, <1>3, <2>1, <2>2, SeeIsInTime DEF Waiting
<1>7. /\ ~see.synchSee => Good(see.timing, lastSee)' /\ view'.quality = "HIGH"
      /\ CountdownInv'
  <2>1. CASE see.seen
    BY <1>1, <1>2, <1>3, <1>4, <1>5, <2>1, ActionAfterSee
  <2>2. CASE ~see.seen
    BY <1>1, <1>2, <1>3, <1>4, <1>5, <1>6, <2>2, ActionBeforeSee
  <2> QED BY <2>1, <2>2
<1>8. see'.synchSee = see.synchSee
  BY <1>1, <1>2, ActionSynched
<1> QED BY <1>1, <1>7, <1>8 DEF TrackInv

\* What the agent's view and see state are after a decision.
LEMMA DecideResult ==
    ASSUME TypeOK, TypeOK', Ordered, WireInv, ClockInv, ViewInv, Decide,
           spent'.command = spent.command
    PROVE  /\ Fresh' <=> Fresh
           /\ ~SeeIsCurrent /\ mode # "PlayOn" => view' = view
           /\ view' = view \/ view'.quality = "HIGH"
           /\ ~see.synchSee /\ mode # "PlayOn" /\ see.timing \notin SynchTiming => view' = view
           /\ see.till \in 0..100 /\ see'.till \in 0..100
           /\ \/ see'.till = see.till
              \/ see.seen /\ see'.till = CyclesOf(see', view'.width)
           /\ see.synchSee /\ see.seen => see'.till = CyclesOf(see', view'.width)
           /\ see'.timing \in SynchTiming => see.timing \in SynchTiming
           /\ see'.timing = see.timing \/ Dropped \/ see'.timing \notin SynchTiming
<1>1. ~SynchMode /\ ~Pending /\ Action /\ lastSee' = lastSee
  BY DecideFacts
<1>2. /\ see'.seen = see.seen /\ see'.count = see.count /\ see'.history = see.history
      /\ see'.synchSee = see.synchSee
  BY <1>1, ActionView
<1>3. see.till \in 0..100 /\ see'.till \in 0..100 /\ see.seen \in BOOLEAN /\ see.timing \in Timing
  BY Scalars, ScalarsNext DEF ScalarType
<1>4. CASE IsSynch(Kept)
  <2>1. /\ see'.timing = Kept.timing
        /\ see'.till = IF see.seen /\ ~IllegalWidth(see', view'.width)
                       THEN CyclesOf(see', view'.width) ELSE see.till
        /\ view' = view \/ (SeeIsCurrent /\ view'.quality = "HIGH")
    BY <1>1, <1>4, ActionSynched
  <2>2. Kept.timing = IF Dropped THEN "TIME_NOSYNCH" ELSE see.timing
    BY KeptFields
  <2>3. see'.timing \in SynchTiming => see.timing \in SynchTiming
    BY <2>1, <2>2 DEF SynchTiming
  <2>4. see.synchSee => ~IllegalWidth(see', view'.width)
    BY <1>2 DEF IllegalWidth
  <2>5. ~see.synchSee => see.timing \in SynchTiming
    BY <1>4, KeptFields
  <2> QED BY <1>1, <1>2, <1>3, <2>1, <2>2, <2>3, <2>4, <2>5, Scalars, ScalarsNext
          DEF Fresh, ScalarType, ClockInv
<1>5. CASE ~IsSynch(Kept)
  <2>1. /\ see'.synchSee = FALSE /\ see'.timing \notin SynchTiming
        /\ see'.till = IF see.seen THEN CyclesOf(see', view'.width) ELSE see.till
        /\ \/ view' = view
           \/ mode = "PlayOn" /\ view'.quality = "HIGH"
    BY <1>1, <1>5, ActionUnsynched
  <2>2. ~see.synchSee
    BY <1>5, KeptFields
  <2>3. Fresh' <=> Fresh
    BY <1>1, <1>2, <2>1 DEF Fresh, ClockInv
  <2> QED BY <1>2, <1>3, <2>1, <2>2, <2>3
<1> QED BY <1>4, <1>5

\* A decision without a think message keeps every part of the invariant.
LEMMA DecidePreserves ==
    ASSUME TypeOK, TypeOK', SynchInv, Regular', Regular, Decide, spent'.command = spent.command
    PROVE  Groups'
<1>1. Ordered /\ WireInv /\ ClockInv /\ ViewInv /\ DecidedInv /\ CountInv /\ PrepareInv /\ TrackInv
  BY DEF SynchInv
<1>2. /\ (Pending' <=> Pending) /\ (SeeArrives' <=> SeeArrives)
      /\ (ThinkArrives' <=> ThinkArrives) /\ (OkArrives' <=> OkArrives)
      /\ (HearArrives' <=> HearArrives)
      /\ ~SynchMode /\ ~decided /\ decided' /\ ~Pending /\ ~Pending'
      /\ IsSynch(see) => ~SeeArrives /\ Valid
      /\ SeeIsCurrent \/ (IsSynch(see) /\ see.till > 0) \/ Fresh \/ Phase(t) >= 6
      /\ Action
      /\ t' = t /\ elapsed' = elapsed /\ srvSynchSee' = srvSynchSee /\ srvMode' = srvMode
      /\ mode' = mode /\ clock' = clock /\ lastSee' = lastSee
  BY <1>1, DecideFacts
<1>3. /\ spent' = spent
      /\ view'.width = srvView'.width
      /\ ~srvSynchSee => view' = srvView'
      /\ srvSynchSee => srvView'.quality = "HIGH"
      /\ see'.seen = see.seen /\ see'.count = see.count /\ see'.history = see.history
      /\ see'.synchSee = see.synchSee
  BY <1>1, <1>2, ActionView
<1>4. /\ Fresh' <=> Fresh
      /\ ~SeeIsCurrent /\ mode # "PlayOn" => view' = view
      /\ view' = view \/ view'.quality = "HIGH"
      /\ ~see.synchSee /\ mode # "PlayOn" /\ see.timing \notin SynchTiming => view' = view
      /\ see.till \in 0..100 /\ see'.till \in 0..100
      /\ \/ see'.till = see.till
         \/ see.seen /\ see'.till = CyclesOf(see', view'.width)
      /\ see.synchSee /\ see.seen => see'.till = CyclesOf(see', view'.width)
      /\ see'.timing = see.timing \/ Dropped \/ see'.timing \notin SynchTiming
  BY <1>1, DecideResult
<1>5. CyclesOf(see', view'.width) \in 1..3 /\ view'.width \in ViewWidth
  BY DerivedNext, ScalarsNext DEF DerivedType, ScalarType
<1>6. Settled => mode # "PlayOn"
  BY <1>2, RegularFacts
<1>7. (Exact' <=> Exact) /\ Cycle' = Cycle /\ Shots' = Shots /\ Second' = Second
      /\ One(SeeArrives') = One(SeeArrives)
  BY <1>2, <1>3 DEF Exact, Settled, Cycle, Shots, Second, One
<1>8. ClockInv'
  BY <1>1, <1>2, <1>3, <1>4 DEF ClockInv
<1>9. ViewInv'
  <2>1. ASSUME view'.quality = "LOW"
        PROVE  view'.width = "NARROW" /\ see'.till <= 1 /\ (see'.seen \/ see'.till = 0)
    <3>1. view' = view
      BY <1>4, <2>1
    <3>2. view.width = "NARROW" /\ see.till <= 1 /\ (see.seen \/ see.till = 0)
      BY <1>1, <1>2, <2>1, <3>1 DEF ViewInv
    <3>3. CyclesOf(see', view'.width) = 1
      BY <3>1, <3>2 DEF CyclesOf
    <3> QED BY <1>3, <1>4, <3>1, <3>2, <3>3
  <2> QED BY <1>2, <1>3, <2>1 DEF ViewInv
<1>10. DecidedInv'
  <2>1. see'.seen \/ see'.till > 0 \/ Phase(t) >= 6
    BY <1>2, <1>3, <1>4, <1>5 DEF SeeIsCurrent, Fresh
  <2>2. Settled /\ Fresh => view' = Mode("NORMAL", "HIGH")
    <3> SUFFICES ASSUME Settled, Fresh
                 PROVE  view' = Mode("NORMAL", "HIGH")
      OBVIOUS
    <3>1. view = Mode("NORMAL", "HIGH") /\ clock.lag
      BY <1>1, <1>2 DEF DecidedInv
    <3> QED BY <1>4, <1>6, <3>1 DEF SeeIsCurrent
  <2> QED BY <1>2, <1>3, <1>4, <2>1, <2>2 DEF DecidedInv, Settled
<1>11. CountInv'
  BY <1>1, <1>2, <1>3, <1>7 DEF CountInv
<1>12. PrepareInv'
  <2> SUFFICES ASSUME Exact, ~see.synchSee, see'.timing \notin SynchTiming
               PROVE  PrepareInv'
    BY <1>2, <1>3, <1>7 DEF PrepareInv
  <2>1. see.timing \notin SynchTiming
    <3> SUFFICES ASSUME see.timing \in SynchTiming
                 PROVE  FALSE
      OBVIOUS
    <3>1. Tracked /\ IsSynch(see) /\ ~Fresh
      BY DEF Tracked, IsSynch, Fresh
    <3>2. see.till = 0 /\ ~SeeIsCurrent
      <4>1. ~IsSynch(Kept)
        BY <1>2, ActionSynched, KeptFields
      <4> QED BY <3>1, <4>1, KeptFields DEF Dropped, IsSynch
    <3>3. Phase(t) >= 6 /\ ~clock.lag /\ ~see.seen
      BY <1>1, <1>2, <3>1, <3>2 DEF ClockInv, SeeIsCurrent
    <3>4. Waiting /\ Valid /\ ~SeeArrives /\ Phase(t) \in 0..7
      BY <1>2, <3>1, <3>2, <3>3, Scalars DEF Waiting, ScalarType
    <3> QED BY <1>1, <1>2, <3>1, <3>3, <3>4, SeeIsInTime
  <2>2. view' = view
    BY <1>4, <1>6, <2>1 DEF Exact
  <2>3. see'.count = see.count /\ see'.history = see.history /\ t' = t
    BY <1>2, <1>3
  <2> QED BY <1>1, <1>2, <1>7, <2>1, <2>2, <2>3 DEF PrepareInv
<1>13. TrackInv'
  <2>1. CASE Tracked'
    BY <1>1, <1>3, <2>1, DecideTracks
  <2>2. CASE ~Tracked'
    BY <2>2 DEF TrackInv
  <2> QED BY <2>1, <2>2
<1> QED BY <1>8, <1>9, <1>10, <1>11, <1>12, <1>13 DEF Groups

-----------------------------------------------------------------------------
(* Think.                                                                  *)

\* What holds when action() is reached by a think message.
LEMMA ThinkFacts ==
    ASSUME TypeOK, Ordered, WireInv, Think
    PROVE  /\ Ordered' /\ ThinkArrives /\ ~ThinkArrives' /\ SynchMode /\ Phase(t) = 4
           /\ ~Pending /\ ~Pending' /\ ~SeeArrives /\ ~SeeArrives'
           /\ (OkArrives' <=> OkArrives) /\ (HearArrives' <=> HearArrives)
           /\ decided' /\ Action
           /\ t' = t /\ elapsed' = elapsed /\ srvSynchSee' = srvSynchSee /\ srvMode' = srvMode
           /\ mode' = mode /\ clock' = clock /\ lastSee' = lastSee
<1>1. /\ wire # <<>> /\ wire[1] = "think" /\ wire' = Tail(wire)
      /\ Action /\ decided' = TRUE
      /\ t' = t /\ elapsed' = elapsed /\ srvSynchSee' = srvSynchSee /\ srvMode' = srvMode
      /\ mode' = mode /\ clock' = clock /\ lastSee' = lastSee
  BY DEF Think, Parse
<1>2. wire \in Seq(Message)
  BY DEF TypeOK
<1>3. /\ Ordered' /\ Has("think") /\ ~Has("think")'
      /\ (Pending' <=> Pending) /\ (SeeArrives' <=> SeeArrives)
      /\ (OkArrives' <=> OkArrives) /\ (HearArrives' <=> HearArrives)
      /\ ~Pending /\ ~SeeArrives
  BY <1>1, <1>2, ParseWire
<1>4. ThinkArrives /\ ~ThinkArrives'
  BY <1>3, Zenon DEF ThinkArrives
<1>5. SynchMode /\ Phase(t) = 4
  BY <1>4 DEF WireInv
<1> QED BY <1>1, <1>3, <1>4, <1>5

\* The counts 3, 2, 3 and 2 so far reveal that a see came with this think.
LEMMA ThinkRecognises ==
    ASSUME TypeOK, CountInv, SynchMode, Phase(t) = 4, ~Pending, ~SeeArrives, ~see.synchSee,
           IsSynchedSeeCountSynchMode(see)
    PROVE  /\ see.seen /\ lastSee = 4
           /\ ~srvSynchSee => elapsed = 0 /\ t % 3 = 0
<1>1. see.count = 2 /\ see.history[1] = 3 /\ see.history[2] = 2 /\ see.history[3] = 3
  BY DEF IsSynchedSeeCountSynchMode
<1>2. /\ see.history[1] <= ShotsIn(Cycle - 1)
      /\ see.history[3] <= ShotsIn(Cycle - 3)
      /\ see.count >= 1 =>
           /\ see.seen
           /\ lastSee <= Phase(t)
           /\ see.count >= 2 => lastSee >= Second
           /\ ~srvSynchSee => lastSee + 3 * elapsed + (t % 3) = Phase(t)
  BY DEF CountInv
<1>3. t \in 0..23 /\ elapsed \in 0..8 /\ lastSee \in 0..8 /\ t % 3 \in 0..2
  BY Scalars, Derived DEF ScalarType, DerivedType
<1>4. Cycle = 1
  <2>1. Cycle \in 0..2
    BY <1>3 DEF Cycle
  <2> QED BY <1>1, <1>2, <2>1 DEF ShotsIn
<1>5. see.seen /\ lastSee = 4
  BY <1>1, <1>2, <1>3, <1>4 DEF Second
<1>6. ~srvSynchSee => elapsed = 0 /\ t % 3 = 0
  <2> SUFFICES ASSUME ~srvSynchSee
               PROVE  elapsed = 0 /\ t % 3 = 0
    OBVIOUS
  <2> DEFINE r == t % 3
  <2>1. lastSee + 3 * elapsed + r = 4 /\ r \in 0..2
    BY <1>1, <1>2, <1>3
  <2> HIDE DEF r
  <2>2. elapsed = 0 /\ r = 0
    BY <1>3, <1>5, <2>1
  <2> QED BY <2>2 DEF r
<1> QED BY <1>5, <1>6

\* A timing that is recognised at a think message is the offset of the last see.
LEMMA ThinkSynchronizes ==
    ASSUME TypeOK, TypeOK', CountInv, Think, Ordered, WireInv, ~IsSynch(Kept), Tracked'
    PROVE  /\ ~see'.synchSee /\ Good(see.timing, lastSee)' /\ view'.quality = "HIGH"
           /\ Valid' => CountdownInv'
<1>1. /\ SynchMode /\ Phase(t) = 4
      /\ ~Pending /\ ~Pending' /\ ~SeeArrives /\ ~SeeArrives' /\ Action
      /\ t' = t /\ elapsed' = elapsed /\ srvSynchSee' = srvSynchSee /\ lastSee' = lastSee
  BY ThinkFacts
<1>2. ~see.synchSee
  BY KeptFields
<1>3. see'.seen = see.seen /\ see'.synchSee = FALSE /\ see'.timing \in SynchTiming
  BY <1>1, ActionSynchMode DEF Tracked
<1>4. IsSynchedSeeCountSynchMode(see)
  BY <1>1, <1>3, ActionSynchMode
<1>5. see.seen /\ lastSee = 4 /\ (~srvSynchSee => elapsed = 0 /\ t % 3 = 0)
  BY <1>1, <1>2, <1>4, ThinkRecognises
<1>6. /\ see'.timing = "TIME_50_0" /\ view'.quality = "HIGH"
      /\ Legal' /\ see'.till = CyclesOf(see', view'.width)
  BY <1>1, <1>4, <1>5, ActionSynchMode DEF Legal
<1>7. Good(see.timing, lastSee)'
  BY <1>1, <1>5, <1>6 DEF Good, PhaseOf
<1>8. ASSUME Valid'
      PROVE  CountdownInv'
  <2>1. elapsed = 0 /\ t % 3 = 0
    BY <1>1, <1>3, <1>5, <1>8 DEF Valid
  <2>2. Age' = 0
    BY <1>1, <2>1 DEF Age
  <2>3. Since' = 4
    BY <1>1, <1>5, <2>1, <2>2 DEF Since
  <2>4. OnGrid'
    <3>1. V' \in 1..8
      BY DerivedNext DEF DerivedType
    <3> QED BY <1>1, <1>3, <2>1, <2>3, <3>1 DEF OnGrid
  <2>5. CyclesSince' = 0
    <3>1. CyclesSince' = (Since' \div 8) - 0
      BY <1>1, <1>3, DerivedNext DEF DerivedType
    <3> QED BY <2>3, <3>1
  <2>6. see'.till \in 0..100 /\ CyclesOf(see', view'.width) \in 1..3
    BY ScalarsNext, DerivedNext DEF ScalarType, DerivedType
  <2> QED BY <1>1, <1>3, <1>5, <1>6, <2>4, <2>5, <2>6 DEF CountdownInv, Waiting
<1> QED BY <1>3, <1>6, <1>7, <1>8

\* A decision by a think message keeps the countdown.
LEMMA ThinkTracks ==
    ASSUME TypeOK, TypeOK', Ordered, WireInv, Regular, ClockInv, CountInv, TrackInv, Think, Tracked',
           spent' = spent
    PROVE  TrackInv'
<1>1. /\ SynchMode /\ Phase(t) = 4 /\ decided'
      /\ ~Pending /\ ~Pending' /\ ~SeeArrives /\ ~SeeArrives' /\ Action
      /\ t' = t /\ elapsed' = elapsed /\ srvSynchSee' = srvSynchSee /\ lastSee' = lastSee
  BY ThinkFacts
<1>2. CASE ~IsSynch(Kept)
  BY <1>1, <1>2, ThinkSynchronizes DEF TrackInv
<1>3. CASE IsSynch(Kept)
  <2>1. /\ see'.synchSee = see.synchSee /\ see'.timing = Kept.timing
        /\ view' = view \/ view'.quality = "HIGH"
    BY <1>1, <1>3, ActionSynched
  <2>2. Tracked /\ (~see.synchSee => see'.timing = see.timing)
    BY <1>1, <1>3, <2>1, KeptFields DEF Tracked
  <2>3. ~clock.lag
    BY <1>1, <2>2 DEF ClockInv, Fresh, Tracked
  <2>4. ~see.synchSee => Good(see.timing, lastSee) /\ view.quality = "HIGH"
    BY <2>2 DEF TrackInv
  <2>5. Exact' <=> Exact
    BY DEF Exact, Settled
  <2>6. ~see.synchSee => Good(see.timing, lastSee)' /\ view'.quality = "HIGH"
    <3>1. ~see.synchSee => (Good(see.timing, lastSee)' <=> Good(see.timing, lastSee))
      BY <1>1, <2>2, <2>5, Zenon DEF Good
    <3> QED BY <2>1, <2>4, <3>1
  <2>7. ASSUME Valid'
        PROVE  CountdownInv'
    <3>1. Valid /\ CountdownInv
      BY <1>1, <2>1, <2>2, <2>7 DEF Valid, TrackInv
    <3>2. CASE see.seen
      BY <1>1, <1>3, <2>2, <2>3, <2>4, <3>1, <3>2, ActionAfterSee
    <3>3. CASE ~see.seen
      <4>1. see.synchSee => SynchSeeOffset <= 4
        BY <1>1, RegularFacts
      <4>2. Exact
        BY <1>1, RegularFacts
      <4>3. SynchSeeOffset \in 0..5
        BY ConstantsAssumption
      <4>4. see.till # 0
        BY <1>1, <2>2, <3>1, <3>3, <4>1, <4>2, <4>3, SeeIsInTime DEF Waiting
      <4> QED BY <1>1, <1>3, <2>2, <2>3, <2>4, <3>1, <3>3, <4>4, ActionBeforeSee
    <3> QED BY <3>2, <3>3
  <2> QED BY <1>1, <2>1, <2>6, <2>7 DEF TrackInv
<1> QED BY <1>2, <1>3

\* A decision by a think message keeps every part of the invariant.
LEMMA ThinkPreserves ==
    ASSUME TypeOK, TypeOK', SynchInv, Regular', Regular, Think, spent'.command = spent.command
    PROVE  Groups'
<1>1. Ordered /\ WireInv /\ ClockInv /\ ViewInv /\ DecidedInv /\ CountInv /\ PrepareInv /\ TrackInv
  BY DEF SynchInv
<1>2. /\ ~ThinkArrives' /\ SynchMode /\ Phase(t) = 4
      /\ ~Pending /\ ~Pending' /\ ~SeeArrives /\ ~SeeArrives'
      /\ decided' /\ Action
      /\ t' = t /\ elapsed' = elapsed /\ srvSynchSee' = srvSynchSee /\ srvMode' = srvMode
      /\ mode' = mode /\ clock' = clock /\ lastSee' = lastSee
  BY <1>1, ThinkFacts
<1>3. /\ spent' = spent
      /\ view'.width = srvView'.width
      /\ ~srvSynchSee => view' = srvView'
      /\ srvSynchSee => srvView'.quality = "HIGH"
      /\ see'.seen = see.seen /\ see'.count = see.count /\ see'.history = see.history
      /\ see'.synchSee = see.synchSee
  BY <1>1, <1>2, ActionView
<1>4. Cycle' = Cycle /\ Shots' = Shots /\ Second' = Second /\ One(SeeArrives') = One(SeeArrives)
  BY <1>2 DEF Cycle, Shots, Second, One
<1>5. Fresh' <=> Fresh
  <2>1. Fresh => see'.timing \notin SynchTiming
    <3>1. CASE IsSynch(Kept)
      BY <1>2, <3>1, ActionSynched, KeptFields DEF Fresh, SynchTiming
    <3>2. CASE ~IsSynch(Kept)
      BY <1>2, <3>2, ActionSynchMode DEF Fresh, IsSynchedSeeCountSynchMode
    <3> QED BY <3>1, <3>2
  <2> QED BY <1>1, <1>2, <1>3, <2>1 DEF Fresh, ClockInv
<1>6. ClockInv'
  BY <1>1, <1>2, <1>3, <1>5 DEF ClockInv
<1>7. ViewInv'
  BY <1>2, <1>3 DEF ViewInv
<1>8. DecidedInv'
  <2>1. see.synchSee /\ see.seen => see'.till = CyclesOf(see', view'.width)
    <3> SUFFICES ASSUME see.synchSee, see.seen
                 PROVE  see'.till = CyclesOf(see', view'.width)
      OBVIOUS
    <3>1. IsSynch(Kept)
      BY KeptFields
    <3>2. ~IllegalWidth(see', view'.width)
      BY <1>3 DEF IllegalWidth
    <3> QED BY <1>2, <3>1, <3>2, ActionSynched
  <2> QED BY <1>2, <1>3, <2>1 DEF DecidedInv
<1>9. CountInv'
  BY <1>1, <1>2, <1>3, <1>4 DEF CountInv
<1>10. PrepareInv'
  BY <1>2 DEF PrepareInv
<1>11. TrackInv'
  <2>1. CASE Tracked'
    BY <1>1, <1>3, <2>1, ThinkTracks
  <2>2. CASE ~Tracked'
    BY <2>2 DEF TrackInv
  <2> QED BY <2>1, <2>2
<1> QED BY <1>6, <1>7, <1>8, <1>9, <1>10, <1>11 DEF Groups

-----------------------------------------------------------------------------
(* AnalyzeSee.                                                             *)

\* What a see changes, whatever its timing.
LEMMA SeeFacts ==
    ASSUME TypeOK, TypeOK', Ordered, WireInv, ClockInv, AnalyzeSee
    PROVE  /\ Ordered' /\ SeeArrives /\ ~SeeArrives' /\ ~Pending /\ ~Pending'
           /\ (ThinkArrives' <=> ThinkArrives) /\ (OkArrives' <=> OkArrives)
           /\ (HearArrives' <=> HearArrives)
           /\ ~clock'.ahead /\ ~clock'.lag /\ (clock'.inStop => ClockStands(mode))
           /\ decided' <=> decided /\ ~clock.ahead
           /\ clock.lag \/ clock.ahead => Fresh
           /\ NewCycle(FALSE) = (clock.lag \/ clock.ahead)
           /\ elapsed = 0 /\ lastSee' = Phase(t)
           /\ IF see.synchSee THEN Phase(t) = SynchSeeOffset ELSE t % 3 = 0
           /\ SynchMode /\ Phase(t) = 4 => ThinkArrives
           /\ t' = t /\ elapsed' = elapsed /\ srvSynchSee' = srvSynchSee /\ srvMode' = srvMode
           /\ mode' = mode
<1>1. /\ wire # <<>> /\ wire[1] = "see" /\ wire' = Tail(wire)
      /\ UpdateCurrentTime("see") /\ lastSee' = Phase(t)
      /\ t' = t /\ elapsed' = elapsed /\ srvSynchSee' = srvSynchSee /\ srvMode' = srvMode
      /\ mode' = mode
  BY DEF AnalyzeSee, Parse
<1>2. wire \in Seq(Message)
  BY DEF TypeOK
<1>3. /\ Ordered' /\ Has("see") /\ ~Has("see")'
      /\ ~Pending /\ (Pending' <=> Pending)
      /\ (ThinkArrives' <=> ThinkArrives) /\ (OkArrives' <=> OkArrives)
      /\ (HearArrives' <=> HearArrives)
  BY <1>1, <1>2, ParseWire
<1>4. SeeArrives /\ ~SeeArrives'
  BY <1>3, Zenon DEF SeeArrives
<1>5. /\ TimeChanges(FALSE) <=> clock.ahead
      /\ NewCycle(FALSE) = (clock.lag \/ clock.ahead)
  <2>1. clock.inStop => ClockStands(mode)
    BY DEF ClockInv
  <2>2. TimeChanges(FALSE) <=> clock.ahead
    BY <2>1 DEF TimeChanges
  <2>3. NewCycle(FALSE) <=> (clock.lag \/ clock.ahead)
    BY <2>2 DEF NewCycle
  <2>4. NewCycle(FALSE) \in BOOLEAN
    BY DEF NewCycle
  <2> QED BY <2>2, <2>3, <2>4
<1>6. /\ clock' = [ahead |-> FALSE,
                   inStop |-> ClockStands(mode) /\ ~clock.ahead /\ (FALSE \/ clock.inStop),
                   lag |-> FALSE]
      /\ decided' <=> decided /\ ~TimeChanges(FALSE)
  BY <1>1, ScalarsNext DEF UpdateCurrentTime, ScalarType
<1>7. ~clock'.ahead /\ ~clock'.lag /\ (clock'.inStop => ClockStands(mode))
  BY <1>6
<1>8. clock.lag \/ clock.ahead => Fresh
  BY <1>3 DEF ClockInv
<1>9. /\ elapsed = 0
      /\ IF see.synchSee THEN Phase(t) = SynchSeeOffset ELSE t % 3 = 0
      /\ SynchMode /\ Phase(t) = 4 => ThinkArrives
  BY <1>4 DEF WireInv
<1> QED BY <1>1, <1>3, <1>4, <1>5, <1>6, <1>7, <1>8, <1>9

\* The see state before the adjustment of the view mode, if any.
SeenState == UpdateBySee(see, clock.lag \/ clock.ahead, view.width, view.quality)

\* The see is counted, and an agent without think messages may adjust its view at once.
LEMMA SeeResult ==
    ASSUME TypeOK, TypeOK', Ordered, WireInv, ClockInv, AnalyzeSee
    PROVE  IF ~SynchMode /\ ~IsSynch(SeenState)
           THEN LET a == AdjustSeeSynchNormalMode(SeenState, view)
                IN  see' = a.see /\ view' = LastView(view, a.sent) /\ Deliver(a.sent)
           ELSE see' = SeenState /\ view' = view /\ Deliver(<<>>)
<1>1. NewCycle(FALSE) = (clock.lag \/ clock.ahead)
  BY SeeFacts
<1>2. LET s == UpdateBySee(see, NewCycle(FALSE), view.width, view.quality)
          a == IF ~SynchMode /\ ~IsSynch(s)
               THEN AdjustSeeSynchNormalMode(s, view)
               ELSE [see |-> s, sent |-> <<>>]
      IN  /\ see' = a.see
          /\ view' = LastView(view, a.sent)
          /\ Deliver(a.sent)
  BY DEF AnalyzeSee
<1>3. LET s == SeenState
          a == IF ~SynchMode /\ ~IsSynch(s)
               THEN AdjustSeeSynchNormalMode(s, view)
               ELSE [see |-> s, sent |-> <<>>]
      IN  /\ see' = a.see
          /\ view' = LastView(view, a.sent)
          /\ Deliver(a.sent)
  BY <1>1, <1>2 DEF SeenState
<1> DEFINE b == [see |-> SeenState, sent |-> <<>>]
<1>4. b.see = SeenState /\ b.sent = <<>> /\ LastView(view, <<>>) = view
  BY DEF LastView
<1>5. CASE ~SynchMode /\ ~IsSynch(SeenState)
  BY <1>3, <1>5
<1>6. CASE ~(~SynchMode /\ ~IsSynch(SeenState))
  <2>1. see' = b.see /\ view' = LastView(view, b.sent) /\ Deliver(b.sent)
    BY <1>3, <1>6
  <2> QED BY <1>4, <1>6, <2>1
<1> QED BY <1>5, <1>6

\* The agent sends at most one change_view command and believes in its view.
Sends == \E sent \in Sent : Deliver(sent) /\ view' = LastView(view, sent)

\* Sending nothing is such a step.
LEMMA SendsNothing == ASSUME view' = view, Deliver(<<>>) PROVE Sends
<1>1. <<>> \in Sent
  BY OneCommand DEF Sent
<1>2. LastView(view, <<>>) = view
  BY DEF LastView
<1> QED BY <1>1, <1>2 DEF Sends

\* A see in synch_see mode starts the countdown anew.
LEMMA SeeInSynchSeeMode ==
    ASSUME TypeOK, TypeOK', Ordered, WireInv, ClockInv, AnalyzeSee, see.synchSee
    PROVE  /\ Sends /\ view' = view
           /\ see'.seen = TRUE /\ see'.synchSee = TRUE /\ see'.count >= 1
           /\ LET k == IF clock.lag \/ clock.ahead THEN CountDown(see.till) ELSE see.till
              IN  see'.till = IF k > 0 /\ view.quality = "HIGH" THEN CyclesOf(see, view.width) ELSE k
<1> DEFINE n == clock.lag \/ clock.ahead
           c == CountSee(see, n)
<1>1. see \in SeeStateType /\ n \in BOOLEAN /\ view.width \in ViewWidth /\ view.quality \in ViewQuality
  BY Scalars DEF TypeOK, ScalarType
<1>2. /\ SeenState.seen = TRUE /\ SeenState.synchSee = TRUE /\ SeenState.count = c.count
      /\ SeenState.till = IF c.till > 0 /\ view.quality = "HIGH"
                          THEN CyclesOf(see, view.width) ELSE c.till
  <2> HIDE DEF n
  <2>1. LET r == UpdateBySee(see, n, view.width, view.quality)
        IN  /\ r.synchSee = TRUE /\ r.seen = TRUE
            /\ r.count = c.count
            /\ r.till = IF c.till > 0 /\ view.quality = "HIGH" THEN CyclesOf(see, view.width) ELSE c.till
    BY <1>1, UpdateBySeeSynchSee
  <2> HIDE DEF c
  <2> QED BY <2>1 DEF SeenState, n
<1>3. c.count >= 1 /\ c.till = IF n THEN CountDown(see.till) ELSE see.till
  <2> HIDE DEF n
  <2>1. /\ c.till = IF n THEN CountDown(see.till) ELSE see.till
        /\ see.seen /\ ~n => c.count = IF see.count < MaxCount THEN see.count + 1 ELSE see.count
        /\ ~(see.seen /\ ~n) => c.count = 1
    BY <1>1, CountSeeFields
  <2>2. see.count \in 0..4
    BY Scalars DEF ScalarType
  <2> HIDE DEF c
  <2> QED BY <2>1, <2>2 DEF MaxCount
<1> HIDE DEF c
<1>4. see' = SeenState /\ view' = view /\ Deliver(<<>>)
  BY <1>2, SeeResult DEF IsSynch
<1> QED BY <1>2, <1>3, <1>4, SendsNothing

\* A see that was expected moves the timing on as the width says.
LEMMA SeeOfTracked ==
    ASSUME TypeOK, TypeOK', Ordered, WireInv, ClockInv, TrackInv, AnalyzeSee, Tracked, ~see.synchSee
    PROVE  /\ Sends /\ view' = view /\ view.quality = "HIGH"
           /\ Waiting /\ CountdownInv /\ Age = V /\ ~clock.lag /\ ~clock.ahead
           /\ see'.seen = TRUE /\ see'.synchSee = FALSE /\ see'.count = 1 /\ see'.till = 0
           /\ see'.history = see.history
           /\ see'.timing = CASE view.width = "WIDE" -> see.timing
                              [] view.width = "NORMAL" /\ see.timing = "TIME_0_00" -> "TIME_50_0"
                              [] view.width = "NORMAL" /\ see.timing = "TIME_50_0" -> "TIME_0_00"
                              [] view.width = "NARROW" /\ see.timing = "TIME_50_0" -> "TIME_22_5"
                              [] view.width = "NARROW" /\ see.timing = "TIME_22_5" -> "TIME_0_00"
           /\ see'.timing \in SynchTiming
<1>1. see \in SeeStateType /\ view.width \in ViewWidth /\ see.timing \in SynchTiming
  BY Scalars DEF TypeOK, ScalarType, Tracked
<1>2. Waiting /\ CountdownInv /\ Age = V /\ ~see.seen /\ see.till = 0 /\ view.quality = "HIGH"
  BY SeeFacts, SeeFindsWaiting DEF Waiting, TrackInv
<1>3. ~clock.lag /\ ~clock.ahead
  BY <1>2, SeeFacts DEF Fresh
<1>4. Legal
  BY <1>2 DEF CountdownInv
<1>5. (clock.lag \/ clock.ahead) = FALSE
  BY <1>3
<1>6. SeenState = UpdateBySee(see, FALSE, view.width, "HIGH")
  BY <1>2, <1>5 DEF SeenState
<1>7. /\ SeenState.synchSee = FALSE /\ SeenState.seen = TRUE /\ SeenState.till = 0
      /\ SeenState.count = 1 /\ SeenState.history = see.history
      /\ SeenState.timing = GetNextTiming(see, view.width, "HIGH")
  BY <1>1, <1>2, <1>6, UpdateBySeeTracked
<1>8. GetNextTiming(see, view.width, "HIGH")
        = CASE view.width = "WIDE" -> see.timing
            [] view.width = "NORMAL" /\ see.timing = "TIME_0_00" -> "TIME_50_0"
            [] view.width = "NORMAL" /\ see.timing = "TIME_50_0" -> "TIME_0_00"
            [] view.width = "NARROW" /\ see.timing = "TIME_50_0" -> "TIME_22_5"
            [] view.width = "NARROW" /\ see.timing = "TIME_22_5" -> "TIME_0_00"
  BY <1>1, <1>4 DEF GetNextTiming, Legal, IllegalWidth, ViewWidth, SynchTiming
<1>9. GetNextTiming(see, view.width, "HIGH") \in SynchTiming
  BY <1>1, <1>4 DEF GetNextTiming, Legal, IllegalWidth, ViewWidth, SynchTiming
<1>10. see' = SeenState /\ view' = view /\ Deliver(<<>>)
  BY <1>7, <1>9, SeeResult DEF IsSynch
<1> QED BY <1>2, <1>3, <1>7, <1>8, <1>9, <1>10, SendsNothing

\* A see of the timer is counted, whatever the agent knows of the cycle.
LEMMA SeeIsCounted ==
    ASSUME TypeOK, TypeOK', Ordered, WireInv, ClockInv, CountInv, AnalyzeSee, ~IsSynch(see)
    PROVE  /\ SeenState \in SeeStateType /\ ~IsSynch(SeenState)
           /\ SeenState.seen = TRUE /\ SeenState.synchSee = FALSE
           /\ SeenState.count = see.count + 1
           /\ SeenState.history[1] = see.history[1]
           /\ SeenState.history[2] = see.history[2]
           /\ SeenState.history[3] = see.history[3]
           /\ SeenState.till = IF clock.lag \/ clock.ahead THEN CountDown(see.till) ELSE see.till
           /\ see.count + 1 <= Shots
<1> DEFINE n == clock.lag \/ clock.ahead
           c == CountSee(see, n)
<1>1. /\ see \in SeeStateType /\ n \in BOOLEAN /\ view.width \in ViewWidth /\ view.quality \in ViewQuality
      /\ see.count \in 0..4 /\ see.synchSee = FALSE
  BY Scalars DEF TypeOK, ScalarType, IsSynch
<1>2. /\ SeenState \in SeeStateType /\ ~IsSynch(SeenState)
      /\ SeenState.seen = TRUE /\ SeenState.synchSee = FALSE /\ SeenState.till = c.till
      /\ SeenState.count = c.count /\ SeenState.history = c.history
  <2> HIDE DEF n
  <2>1. LET r == UpdateBySee(see, n, view.width, view.quality)
        IN  /\ r \in SeeStateType /\ ~IsSynch(r)
            /\ r.synchSee = FALSE /\ r.seen = TRUE /\ r.till = c.till
            /\ r.count = c.count /\ r.history = c.history
    BY <1>1, UpdateBySeeUnsynched, ZenonT(40)
  <2> HIDE DEF c
  <2> QED BY <2>1 DEF SeenState, n
<1>3. /\ c.till = IF n THEN CountDown(see.till) ELSE see.till
      /\ see.seen /\ ~n =>
           /\ c.count = IF see.count < MaxCount THEN see.count + 1 ELSE see.count
           /\ c.history = see.history
      /\ ~(see.seen /\ ~n) =>
           /\ c.count = 1
           /\ ~n => c.history = see.history
           /\ n => /\ c.history[1] = see.count
                   /\ c.history[2] = see.history[1]
                   /\ c.history[3] = see.history[2]
  <2> HIDE DEF n
  <2> QED BY <1>1, CountSeeFields
<1>4. n => Fresh
  BY SeeFacts
<1>5. SeeArrives /\ ~Pending
  BY SeeFacts
<1>6. see.count + 1 <= Shots /\ (see.count >= 1 => see.seen)
  <2>1. see.count + One(SeeArrives) <= Shots /\ (see.count >= 1 => see.seen)
    BY <1>1, <1>5 DEF CountInv
  <2>2. One(SeeArrives) = 1
    BY <1>5 DEF One
  <2> QED BY <2>1, <2>2
<1>7. Shots \in 0..3
  BY Scalars DEF Shots, Cycle, ScalarType
<1> HIDE DEF c, n
<1>8. c.count = see.count + 1
  BY <1>1, <1>3, <1>4, <1>6, <1>7 DEF Fresh, MaxCount
<1>9. c.history[1] = see.history[1] /\ c.history[2] = see.history[2] /\ c.history[3] = see.history[3]
  BY <1>3, <1>4 DEF Fresh
<1> QED BY <1>2, <1>3, <1>6, <1>8, <1>9 DEF n

\* The agent that looks for the pattern of sees, with and without think messages.
LEMMA SeeOfUnsynched ==
    ASSUME TypeOK, TypeOK', Ordered, WireInv, ClockInv, CountInv, AnalyzeSee, ~IsSynch(see)
    PROVE  /\ Sends
           /\ see'.seen = TRUE /\ see'.synchSee = FALSE /\ see'.count = see.count + 1
           /\ see'.history[1] = see.history[1]
           /\ see'.history[2] = see.history[2]
           /\ see'.history[3] = see.history[3]
           /\ SynchMode => see'.timing \notin SynchTiming
           /\ ~SynchMode /\ see.history[1] = 2 /\ see.history[2] = 3 =>
                see'.timing = "TIME_0_00" /\ view' = Mode("NORMAL", "HIGH") /\ see'.till = 1
           /\ ~SynchMode /\ ~(see.history[1] = 2 /\ see.history[2] = 3) =>
                /\ see'.timing \notin SynchTiming
                /\ \/ /\ view' = view /\ see'.till <= see.till
                      /\ mode = "PlayOn" => view.quality # "LOW"
                      /\ mode # "PlayOn" => view = Mode("NARROW", "LOW")
                   \/ mode = "PlayOn" /\ view'.quality = "HIGH"
                   \/ mode # "PlayOn" /\ view' = Mode("NARROW", "LOW") /\ see'.till = 1
<1>1. /\ SeenState \in SeeStateType /\ ~IsSynch(SeenState)
      /\ SeenState.seen = TRUE /\ SeenState.synchSee = FALSE
      /\ SeenState.count = see.count + 1
      /\ SeenState.history[1] = see.history[1]
      /\ SeenState.history[2] = see.history[2]
      /\ SeenState.history[3] = see.history[3]
      /\ SeenState.till = IF clock.lag \/ clock.ahead THEN CountDown(see.till) ELSE see.till
  BY SeeIsCounted
<1>2. SeenState.till <= see.till
  BY <1>1, Scalars DEF CountDown, ScalarType
<1>3. CASE SynchMode
  <2>1. see' = SeenState /\ view' = view /\ Deliver(<<>>)
    BY <1>3, SeeResult
  <2> QED BY <1>1, <1>3, <2>1, SendsNothing DEF IsSynch
<1>4. CASE ~SynchMode
  <2> DEFINE a == AdjustSeeSynchNormalMode(SeenState, view)
  <2>1. see' = a.see /\ view' = LastView(view, a.sent) /\ Deliver(a.sent)
    BY <1>1, <1>4, SeeResult
  <2>2. view \in ViewMode
    BY DEF TypeOK
  <2>3. /\ a.see \in SeeStateType /\ a.sent \in Sent
        /\ a.see.seen = TRUE /\ a.see.count = SeenState.count /\ a.see.history = SeenState.history
        /\ a.see.synchSee = FALSE
        /\ IsSynchedSeeCountNormalMode(SeenState) =>
             /\ a.see.timing = "TIME_0_00" /\ a.sent = <<Mode("NORMAL", "HIGH")>>
             /\ a.see.till = 1
        /\ ~IsSynchedSeeCountNormalMode(SeenState) =>
             /\ a.see.timing = SeenState.timing
             /\ \/ /\ a.sent = <<>> /\ a.see = SeenState
                   /\ mode = "PlayOn" => view.quality # "LOW"
                   /\ mode # "PlayOn" => view = Mode("NARROW", "LOW")
                \/ /\ mode = "PlayOn" /\ a.sent = <<Mode("NARROW", "HIGH")>>
                   /\ a.see.till = 1
                \/ /\ mode # "PlayOn" /\ a.sent = <<Mode("NARROW", "LOW")>>
                   /\ a.see.till = 1
    BY <1>1, <2>2, AdjustNormalFields
  <2> HIDE DEF a
  <2>4. Sends
    BY <2>1, <2>3 DEF Sends
  <2>5. IsSynchedSeeCountNormalMode(SeenState) <=> see.history[1] = 2 /\ see.history[2] = 3
    BY <1>1 DEF IsSynchedSeeCountNormalMode
  <2>6. \A w \in ViewWidth, q \in ViewQuality :
          LastView(view, <<Mode(w, q)>>) = Mode(w, q) /\ Mode(w, q).quality = q
    BY ModeFields, OneCommand
  <2>7. /\ LastView(view, <<>>) = view
        /\ LastView(view, <<Mode("NORMAL", "HIGH")>>) = Mode("NORMAL", "HIGH")
        /\ LastView(view, <<Mode("NARROW", "HIGH")>>) = Mode("NARROW", "HIGH")
        /\ LastView(view, <<Mode("NARROW", "LOW")>>) = Mode("NARROW", "LOW")
        /\ Mode("NARROW", "HIGH").quality = "HIGH"
    BY <2>6, Views DEF LastView
  <2>8. SeenState.timing \notin SynchTiming
    BY <1>1 DEF IsSynch
  <2>9. see.history[1] = 2 /\ see.history[2] = 3 =>
          see'.timing = "TIME_0_00" /\ view' = Mode("NORMAL", "HIGH") /\ see'.till = 1
    BY <2>1, <2>3, <2>5, <2>7
  <2>10. ~(see.history[1] = 2 /\ see.history[2] = 3) =>
           /\ see'.timing \notin SynchTiming
           /\ \/ /\ view' = view /\ see'.till <= see.till
                 /\ mode = "PlayOn" => view.quality # "LOW"
                 /\ mode # "PlayOn" => view = Mode("NARROW", "LOW")
              \/ mode = "PlayOn" /\ view'.quality = "HIGH"
              \/ mode # "PlayOn" /\ view' = Mode("NARROW", "LOW") /\ see'.till = 1
    BY <1>2, <2>1, <2>3, <2>5, <2>7, <2>8
  <2> QED BY <1>1, <1>4, <2>1, <2>3, <2>4, <2>9, <2>10
<1> QED BY <1>3, <1>4

\* The server has the view the agent believes in, unless a command gets lost.
LEMMA SendsViews ==
    ASSUME TypeOK, ViewInv, Sends, spent'.command = spent.command
    PROVE  /\ spent' = spent
           /\ view'.width = srvView'.width
           /\ ~srvSynchSee => view' = srvView'
           /\ srvSynchSee => srvView'.quality = "HIGH"
<1>1. PICK sent \in Sent : Deliver(sent) /\ view' = LastView(view, sent)
  BY DEF Sends
<1>2. spent' = spent /\ srvView' = Received(LastView(srvView, sent))
  BY <1>1, DeliverView
<1> QED BY <1>1, <1>2, ViewsAgree

\* Right after a see no cycle has passed since.
LEMMA JustSeen ==
    ASSUME TypeOK, TypeOK', t' = t, elapsed' = 0, lastSee' = Phase(t), see'.synchSee = see.synchSee,
           ~SeeArrives', ~Pending',
           IF see.synchSee THEN Phase(t) = SynchSeeOffset ELSE t % 3 = 0
    PROVE  OnGrid' /\ CyclesSince' = 0
<1>1. Age' = 0
  BY DEF Age
<1>2. V' \in 1..8 /\ Phase(t) \in 0..7
  BY DerivedNext, Scalars DEF DerivedType, ScalarType
<1>3. CASE see.synchSee
  <2>1. CyclesSince' = (IF Phase(t') < SynchSeeOffset THEN Age' + 1 ELSE Age') - 0
    BY <1>3, DerivedNext DEF DerivedType
  <2>2. SynchSeeOffset \in 0..5
    BY ConstantsAssumption
  <2> QED BY <1>1, <1>2, <1>3, <2>1, <2>2 DEF OnGrid
<1>4. CASE ~see.synchSee
  <2>1. Since' = Phase(t)
    BY <1>1, <1>2, <1>4 DEF Since
  <2>2. CyclesSince' = (Since' \div 8) - 0
    BY <1>4, DerivedNext DEF DerivedType
  <2>3. Since' % 8 = Phase(t) /\ Since' \div 8 = 0
    BY <1>2, <2>1
  <2> QED BY <1>2, <1>4, <2>2, <2>3 DEF OnGrid
<1> QED BY <1>3, <1>4

\* In synch_see mode every see tells the agent when the next one comes.
LEMMA SeeTracksSynchSee ==
    ASSUME TypeOK, TypeOK', SynchInv, Regular, Regular', AnalyzeSee, see.synchSee, spent' = spent
    PROVE  TrackInv'
<1>1. Ordered /\ WireInv /\ ClockInv /\ ViewInv /\ DecidedInv /\ TrackInv
  BY DEF SynchInv
<1>2. /\ ~SeeArrives' /\ ~Pending /\ ~Pending' /\ SeeArrives
      /\ (ThinkArrives' <=> ThinkArrives)
      /\ decided' <=> decided /\ ~clock.ahead
      /\ clock.lag => Fresh
      /\ elapsed' = 0 /\ lastSee' = Phase(t) /\ Phase(t) = SynchSeeOffset
      /\ SynchMode /\ Phase(t) = 4 => ThinkArrives
      /\ t' = t
  BY <1>1, SeeFacts
<1>3. /\ view' = view /\ see'.seen = TRUE /\ see'.synchSee = TRUE
      /\ LET k == IF clock.lag \/ clock.ahead THEN CountDown(see.till) ELSE see.till
         IN  see'.till = IF k > 0 /\ view.quality = "HIGH" THEN CyclesOf(see, view.width) ELSE k
  BY <1>1, SeeInSynchSeeMode
<1>4. OnGrid' /\ CyclesSince' = 0
  BY <1>2, <1>3, JustSeen
<1>5. SynchMode => (Phase(t) >= 4 => ThinkArrives) /\ ~decided'
  <2> SUFFICES ASSUME SynchMode
               PROVE  (Phase(t) >= 4 => ThinkArrives) /\ ~decided'
    OBVIOUS
  <2>1. SynchSeeOffset <= 4
    BY RegularFacts
  <2>2. SynchSeeOffset \in 0..5
    BY ConstantsAssumption
  <2>3. Phase(t) >= 4 => ThinkArrives
    BY <1>2, <2>1, <2>2
  <2> QED BY <1>1, <1>2, <2>3 DEF DecidedInv
<1>6. /\ see.till \in 0..100 /\ see'.till \in 0..100 /\ CyclesOf(see, view.width) \in 1..3
      /\ CyclesOf(see', view'.width) = CyclesOf(see, view.width)
      /\ see.seen \in BOOLEAN
  BY <1>3, Scalars, ScalarsNext, Derived DEF ScalarType, DerivedType, CyclesOf, ViewWidth
<1>7. ASSUME ~SynchMode, decided'
      PROVE  see'.till = CyclesOf(see, view.width)
  <2>1. see.seen \/ see.till > 0
    <3>1. SynchSeeOffset \in 0..5
      BY ConstantsAssumption
    <3> QED BY <1>1, <1>2, <1>7, <3>1 DEF DecidedInv
  <2>2. CASE clock.lag
    <3>1. Settled
      BY <1>1, <2>2 DEF Regular, ClockInv
    <3>2. view = Mode("NORMAL", "HIGH") /\ see.till = CyclesOf(see, view.width)
      BY <1>1, <1>2, <1>7, <2>2, <3>1 DEF DecidedInv, Fresh
    <3>3. view.width = "NORMAL" /\ view.quality = "HIGH"
      BY <3>2, ModeFields, Views
    <3>4. see.till = 2
      BY <3>2, <3>3 DEF CyclesOf
    <3>5. see'.till = IF CountDown(see.till) > 0 THEN CyclesOf(see, view.width) ELSE CountDown(see.till)
      BY <1>3, <2>2, <3>3
    <3> QED BY <3>4, <3>5 DEF CountDown
  <2>3. CASE ~clock.lag
    <3>1. see'.till = IF see.till > 0 /\ view.quality = "HIGH" THEN CyclesOf(see, view.width) ELSE see.till
      BY <1>2, <1>3, <1>7, <2>3
    <3>2. see.till > 0
      <4>1. CASE lastSee = NoSee
        BY <1>1, <1>2, <1>6, <2>1, <4>1 DEF DecidedInv
      <4>2. CASE lastSee # NoSee
        <5>1. CountdownInv
          BY <1>1, <4>2 DEF TrackInv, Tracked, Valid
        <5> QED BY <1>2, <1>6, <1>7, <2>1, <5>1 DEF CountdownInv
      <4> QED BY <4>1, <4>2
    <3>3. view.quality = "HIGH" \/ (view.quality = "LOW" /\ CyclesOf(see, view.width) = 1 /\ see.till <= 1)
      <4>1. view.quality \in ViewQuality
        BY Scalars DEF ScalarType
      <4>2. view.quality = "LOW" => view.width = "NARROW" /\ see.till <= 1
        BY <1>1, <1>7 DEF ViewInv
      <4> QED BY <4>1, <4>2 DEF ViewQuality, CyclesOf
    <3> QED BY <1>6, <3>1, <3>2, <3>3
  <2> QED BY <2>2, <2>3
<1>8. see'.till > 0 /\ decided' => see'.till = CyclesOf(see, view.width)
  BY <1>5, <1>7
<1>9. Legal'
  BY <1>3 DEF Legal, IllegalWidth
<1>10. CountdownInv'
  <2>1. decided' => see'.till > 0
    BY <1>5, <1>6, <1>7
  <2>2. see'.till > 0 /\ (~see'.seen \/ decided' \/ Pending') =>
          see'.till + CyclesSince' = CyclesOf(see', view'.width)
    BY <1>2, <1>3, <1>4, <1>6, <1>8
  <2> QED BY <1>2, <1>3, <1>4, <1>9, <2>1, <2>2 DEF CountdownInv, Waiting
<1> QED BY <1>2, <1>3, <1>5, <1>10 DEF TrackInv

\* The next timing is the offset of the see that has come.
LEMMA NextTimingIsGood ==
    ASSUME TypeOK, TypeOK', Ordered, WireInv, ClockInv, TrackInv, AnalyzeSee, Tracked,
           ~see.synchSee, spent' = spent
    PROVE  Good(see.timing, lastSee)'
<1>1. /\ t % 3 = 0 /\ lastSee' = Phase(t) /\ SeeArrives
  BY SeeFacts
<1>2. /\ Waiting /\ CountdownInv /\ Age = V /\ view.quality = "HIGH"
      /\ see'.timing = CASE view.width = "WIDE" -> see.timing
                         [] view.width = "NORMAL" /\ see.timing = "TIME_0_00" -> "TIME_50_0"
                         [] view.width = "NORMAL" /\ see.timing = "TIME_50_0" -> "TIME_0_00"
                         [] view.width = "NARROW" /\ see.timing = "TIME_50_0" -> "TIME_22_5"
                         [] view.width = "NARROW" /\ see.timing = "TIME_22_5" -> "TIME_0_00"
  BY SeeOfTracked
<1>3. Legal /\ (Lost \/ Due)
  BY <1>2 DEF CountdownInv, Waiting
<1>4. /\ see.timing \in SynchTiming /\ Good(see.timing, lastSee) /\ view.width \in ViewWidth
      /\ lastSee \in 0..8 /\ Phase(t) \in 0..7
  BY Scalars DEF Tracked, TrackInv, ScalarType
<1>5. V = IF view.width = "NARROW" THEN 2 ELSE IF view.width = "NORMAL" THEN 4 ELSE 8
  BY <1>2, IntervalNow DEF Interval
<1>6. Since = lastSee + 3 * V
  BY <1>1, <1>2, <1>4, <1>5 DEF Since
<1>7. Due => lastSee + 3 * V = 8 * CyclesOf(see, view.width) + Phase(t)
  <2> SUFFICES ASSUME Due
               PROVE  lastSee + 3 * V = 8 * CyclesOf(see, view.width) + Phase(t)
    OBVIOUS
  <2>1. CyclesSince = (Since \div 8) - 0 /\ Since \div 8 \in Nat
    BY SeeFacts, Derived DEF DerivedType
  <2>2. Since % 8 = Phase(t) /\ CyclesSince = CyclesOf(see, view.width)
    BY DEF Due, OnGrid
  <2>3. Since = 8 * (Since \div 8) + (Since % 8)
    BY Derived DEF DerivedType
  <2> QED BY <1>6, <2>1, <2>2, <2>3
<1>8. CyclesOf(see, view.width)
        = IF view.width = "WIDE" THEN 3
          ELSE IF view.width = "NARROW" \/ see.timing = "TIME_0_00" THEN 1 ELSE 2
  BY <1>4 DEF CyclesOf, ViewWidth
<1>9. Exact' <=> Exact
  BY DEF Exact, Settled
<1>10. CASE Exact
  <2>1. lastSee = PhaseOf(see.timing) /\ Due
    BY <1>3, <1>4, <1>10 DEF Good, Lost, Exact
  <2>2. lastSee = IF see.timing = "TIME_0_00" THEN 0 ELSE IF see.timing = "TIME_22_5" THEN 2 ELSE 4
    BY <1>4, <2>1 DEF PhaseOf, SynchTiming
  <2>3. Phase(t) = PhaseOf(see'.timing)
    BY <1>2, <1>3, <1>4, <1>5, <1>7, <1>8, <2>1, <2>2
       DEF PhaseOf, SynchTiming, ViewWidth, Legal, IllegalWidth
  <2> QED BY <1>1, <1>9, <1>10, <2>3 DEF Good
<1>11. CASE ~Exact
  <2>1. CASE see.timing = "TIME_22_5" /\ view.width = "NARROW"
    <3>1. see'.timing = "TIME_0_00"
      BY <1>2, <2>1
    <3> QED BY <1>1, <1>4, <1>9, <1>11, <3>1 DEF Good
  <2>2. CASE ~(see.timing = "TIME_22_5" /\ view.width = "NARROW")
    <3>1. lastSee + 3 * V = 8 * CyclesOf(see, view.width) + Phase(t)
      BY <1>1, <1>3, <1>7, <2>2 DEF Lost
    <3>2. /\ see.timing = "TIME_50_0" => lastSee \in 4..7
          /\ see.timing = "TIME_22_5" => lastSee \in 2..5
      BY <1>4, <1>11 DEF Good
    <3>3. /\ see'.timing \in SynchTiming
          /\ see'.timing = "TIME_50_0" => Phase(t) \in 4..7
          /\ see'.timing = "TIME_22_5" => Phase(t) \in 2..5
      BY <1>2, <1>3, <1>4, <1>5, <1>8, <2>2, <3>1, <3>2
         DEF SynchTiming, ViewWidth, Legal, IllegalWidth
    <3> QED BY <1>1, <1>4, <1>9, <1>11, <3>3 DEF Good, SynchTiming
  <2> QED BY <2>1, <2>2
<1> QED BY <1>10, <1>11

\* An expected see of the timer keeps the countdown.
LEMMA SeeTracksTimer ==
    ASSUME TypeOK, TypeOK', SynchInv, Regular, Regular', AnalyzeSee, Tracked, ~see.synchSee,
           spent' = spent
    PROVE  TrackInv'
<1>1. Ordered /\ WireInv /\ ClockInv /\ TrackInv
  BY DEF SynchInv
<1>2. /\ ~SeeArrives' /\ ~Pending /\ ~Pending' /\ t % 3 = 0
      /\ (ThinkArrives' <=> ThinkArrives)
      /\ decided' <=> decided /\ ~clock.ahead
      /\ elapsed' = 0 /\ lastSee' = Phase(t) /\ t' = t
  BY <1>1, SeeFacts
<1>3. /\ view' = view /\ view.quality = "HIGH" /\ Waiting /\ CountdownInv /\ ~clock.ahead
      /\ see'.seen = TRUE /\ see'.synchSee = FALSE /\ see'.till = 0
      /\ see'.timing \in SynchTiming
      /\ see'.timing = CASE view.width = "WIDE" -> see.timing
                         [] view.width = "NORMAL" /\ see.timing = "TIME_0_00" -> "TIME_50_0"
                         [] view.width = "NORMAL" /\ see.timing = "TIME_50_0" -> "TIME_0_00"
                         [] view.width = "NARROW" /\ see.timing = "TIME_50_0" -> "TIME_22_5"
                         [] view.width = "NARROW" /\ see.timing = "TIME_22_5" -> "TIME_0_00"
  BY <1>1, SeeOfTracked
<1>4. OnGrid' /\ CyclesSince' = 0
  <2>1. see.synchSee = FALSE
    BY Scalars DEF ScalarType
  <2> QED BY <1>2, <1>3, <2>1, JustSeen
<1>5. Good(see.timing, lastSee)'
  BY <1>1, NextTimingIsGood
<1>6. ~decided' /\ Legal
  BY <1>2, <1>3 DEF CountdownInv, Waiting
<1>7. ~Legal' => see'.timing = "TIME_0_00"
  <2>1. view.width \in ViewWidth /\ see.timing \in SynchTiming
    BY Scalars DEF ScalarType, Tracked
  <2> QED BY <1>3, <1>6, <2>1 DEF Legal, IllegalWidth, ViewWidth, SynchTiming
<1>8. SynchMode /\ ~Legal' => Phase(t) <= 4
  <2> SUFFICES ASSUME SynchMode, ~Legal'
               PROVE  Phase(t) <= 4
    OBVIOUS
  <2>1. Exact
    BY RegularFacts
  <2>2. Exact'
    BY <2>1 DEF Exact, Settled
  <2> QED BY <1>2, <1>5, <1>7, <2>2 DEF Good, PhaseOf
<1>9. CountdownInv'
  BY <1>2, <1>3, <1>4, <1>6, <1>7, <1>8 DEF CountdownInv, Waiting
<1>10. SynchMode /\ Phase(t) >= 4 => decided' \/ ThinkArrives'
  BY <1>1, <1>2, <1>3 DEF TrackInv
<1> QED BY <1>2, <1>3, <1>5, <1>9, <1>10 DEF TrackInv

\* The counts 2 and 3 reveal that this see came with the sense_body.
LEMMA SeeSynchronizes ==
    ASSUME TypeOK, TypeOK', SynchInv, Regular, Regular', AnalyzeSee, ~IsSynch(see), Tracked',
           spent' = spent
    PROVE  TrackInv'
<1>1. Ordered /\ WireInv /\ ClockInv /\ CountInv /\ PrepareInv
  BY DEF SynchInv
<1>2. /\ ~SeeArrives' /\ ~Pending /\ ~Pending' /\ t % 3 = 0
      /\ elapsed' = 0 /\ lastSee' = Phase(t) /\ t' = t
  BY <1>1, SeeFacts DEF IsSynch
<1>3. see'.seen = TRUE /\ see'.synchSee = FALSE
  BY <1>1, SeeOfUnsynched
<1>4. ~SynchMode /\ see.history[1] = 2 /\ see.history[2] = 3
  BY <1>1, <1>3, SeeOfUnsynched DEF Tracked
<1>5. see'.timing = "TIME_0_00" /\ view' = Mode("NORMAL", "HIGH") /\ see'.till = 1
  BY <1>1, <1>4, SeeOfUnsynched
<1>6. view'.width = "NORMAL" /\ view'.quality = "HIGH"
  BY <1>5, ModeFields, Views
<1>7. Good(see.timing, lastSee)'
  <2>1. Exact' <=> Exact
    BY DEF Exact, Settled
  <2>2. Exact => t = 0
    BY <1>1, <1>2, <1>4 DEF PrepareInv, IsSynch
  <2>3. Phase(t) \in 0..7
    BY Scalars DEF ScalarType
  <2> QED BY <1>2, <1>5, <2>1, <2>2, <2>3 DEF Good, PhaseOf, Phase
<1>8. OnGrid' /\ CyclesSince' = 0
  <2>1. see.synchSee = FALSE
    BY Scalars DEF ScalarType, IsSynch
  <2> QED BY <1>2, <1>3, <2>1, JustSeen
<1>9. CyclesOf(see', view'.width) = 1 /\ Legal'
  BY <1>3, <1>5, <1>6 DEF CyclesOf, Legal, IllegalWidth
<1>10. CountdownInv'
  BY <1>2, <1>3, <1>5, <1>8, <1>9 DEF CountdownInv, Waiting
<1> QED BY <1>3, <1>4, <1>6, <1>7, <1>10 DEF TrackInv

\* What every see does to the agent, however it is synchronized.
LEMMA SeeCases ==
    ASSUME TypeOK, TypeOK', Ordered, WireInv, ClockInv, ViewInv, CountInv, TrackInv, AnalyzeSee,
           spent'.command = spent.command
    PROVE  /\ spent' = spent
           /\ view'.width = srvView'.width
           /\ ~srvSynchSee => view' = srvView'
           /\ srvSynchSee => srvView'.quality = "HIGH"
           /\ see'.seen = TRUE /\ see'.count >= 1 /\ see'.synchSee = see.synchSee
<1>1. see.count \in 0..4 /\ see.synchSee \in BOOLEAN
  BY Scalars DEF ScalarType
<1>2. Sends /\ see'.seen = TRUE /\ see'.count >= 1 /\ see'.synchSee = see.synchSee
  <2>1. CASE see.synchSee
    BY <1>1, <2>1, SeeInSynchSeeMode
  <2>2. CASE ~see.synchSee /\ see.timing \in SynchTiming
    <3>1. Tracked
      BY <2>2 DEF Tracked
    <3>2. Sends /\ see'.seen = TRUE /\ see'.count = 1 /\ see'.synchSee = FALSE
      BY <2>2, <3>1, SeeOfTracked
    <3>3. see'.synchSee = see.synchSee
      BY <1>1, <2>2, <3>2
    <3>4. see'.count >= 1
      BY <3>2
    <3> QED BY <3>2, <3>3, <3>4
  <2>3. CASE ~IsSynch(see)
    <3>1. Sends /\ see'.seen = TRUE /\ see'.count = see.count + 1 /\ see'.synchSee = FALSE
      BY <2>3, SeeOfUnsynched
    <3>2. ~see.synchSee
      BY <2>3 DEF IsSynch
    <3>3. see'.synchSee = see.synchSee
      BY <1>1, <3>1, <3>2
    <3>4. see'.count >= 1
      BY <1>1, <3>1
    <3> QED BY <3>1, <3>3, <3>4
  <2> QED BY <2>1, <2>2, <2>3 DEF IsSynch
<1> QED BY <1>2, SendsViews

\* A see keeps the agent's view the server's,
LEMMA SeeKeepsView ==
    ASSUME TypeOK, TypeOK', Ordered, WireInv, ClockInv, ViewInv, CountInv, TrackInv, AnalyzeSee,
           spent'.command = spent.command
    PROVE  ViewInv'
<1>1. /\ view'.width = srvView'.width
      /\ ~srvSynchSee => view' = srvView'
      /\ srvSynchSee => srvView'.quality = "HIGH"
      /\ see'.seen = TRUE
  BY SeeCases
<1>2. srvSynchSee' = srvSynchSee
  BY SeeFacts
<1>3. ASSUME ~SynchMode, view'.quality = "LOW"
      PROVE  view'.width = "NARROW" /\ see'.till <= 1
  <2>1. see.till \in 0..100 /\ CyclesOf(see, view.width) \in 1..3
    BY Scalars, Derived DEF ScalarType, DerivedType
  <2>2. view.quality = "LOW" => view.width = "NARROW" /\ see.till <= 1
    BY <1>3 DEF ViewInv
  <2>3. CASE see.synchSee
    BY <1>3, <2>1, <2>2, <2>3, SeeInSynchSeeMode DEF CountDown
  <2>4. CASE ~see.synchSee /\ see.timing \in SynchTiming
    BY <1>3, <2>4, SeeOfTracked DEF Tracked
  <2>5. CASE ~IsSynch(see)
    <3>1. Mode("NARROW", "LOW").width = "NARROW" /\ Mode("NORMAL", "HIGH").quality = "HIGH"
      BY ModeFields, Views
    <3>2. CASE see.history[1] = 2 /\ see.history[2] = 3
      BY <1>3, <2>5, <3>1, <3>2, SeeOfUnsynched
    <3>3. CASE ~(see.history[1] = 2 /\ see.history[2] = 3)
      <4>1. see'.till \in 0..100
        BY ScalarsNext DEF ScalarType
      <4>2. \/ /\ view' = view /\ see'.till <= see.till
               /\ mode # "PlayOn" => view = Mode("NARROW", "LOW")
            \/ mode # "PlayOn" /\ view' = Mode("NARROW", "LOW") /\ see'.till = 1
        BY <1>3, <2>5, <3>3, SeeOfUnsynched
      <4> QED BY <1>3, <2>1, <2>2, <3>1, <4>1, <4>2
    <3> QED BY <3>2, <3>3
  <2> QED BY <2>3, <2>4, <2>5 DEF IsSynch
<1> QED BY <1>1, <1>2, <1>3 DEF ViewInv

\* the counts no greater than the shots,
LEMMA SeeKeepsCounts ==
    ASSUME TypeOK, TypeOK', Ordered, WireInv, ClockInv, CountInv, TrackInv, AnalyzeSee
    PROVE  CountInv'
<1>1. /\ SeeArrives /\ ~SeeArrives' /\ ~Pending /\ ~Pending' /\ elapsed' = 0 /\ lastSee' = Phase(t)
      /\ t' = t /\ srvSynchSee' = srvSynchSee
      /\ ~see.synchSee => t % 3 = 0
  BY SeeFacts
<1>2. CASE see.synchSee
  BY <1>2, SeeInSynchSeeMode DEF CountInv
<1>3. CASE ~see.synchSee
  <2>1. /\ see'.seen = TRUE /\ see'.synchSee = FALSE
        /\ see'.count = see.count + 1 \/ see'.count = 1
        /\ see'.history[1] = see.history[1]
        /\ see'.history[2] = see.history[2]
        /\ see'.history[3] = see.history[3]
    <3>1. CASE see.timing \in SynchTiming
      BY <1>3, <3>1, SeeOfTracked DEF Tracked
    <3>2. CASE see.timing \notin SynchTiming
      BY <1>3, <3>2, SeeOfUnsynched DEF IsSynch
    <3> QED BY <3>1, <3>2
  <2>2. t \in 0..23 /\ see.count \in 0..4 /\ Phase(t) \in 0..7
    BY Scalars DEF ScalarType
  <2>3. see.count + 1 <= Shots
    <3>1. see.count + One(SeeArrives) <= Shots
      BY <1>1, <1>3 DEF CountInv
    <3>2. One(SeeArrives) = 1
      BY <1>1 DEF One
    <3> QED BY <3>1, <3>2
  <2>4. Shots \in 0..3 /\ (Shots >= 2 => Phase(t) >= Second)
    BY <1>1, <1>3, <2>2 DEF Shots, Second, Cycle, Phase
  <2>5. /\ see.history[1] <= ShotsIn(Cycle - 1)
        /\ see.history[2] <= ShotsIn(Cycle - 2)
        /\ see.history[3] <= ShotsIn(Cycle - 3)
    BY <1>1, <1>3 DEF CountInv
  <2>6. Shots' = Shots /\ Cycle' = Cycle /\ Second' = Second /\ One(SeeArrives') = 0 /\ Phase(t') = Phase(t)
    BY <1>1 DEF Shots, Cycle, Second, One
  <2>7. see'.count <= Shots /\ (see'.count >= 2 => Phase(t) >= Second) /\ see'.count \in 0..4
    BY <2>1, <2>2, <2>3, <2>4
  <2>8. Phase(t) + 3 * 0 + 0 = Phase(t)
    BY <2>2
  <2>9. Shots \in Int /\ see'.count + 0 <= Shots
    BY <2>4, <2>7
  <2> QED BY <1>1, <1>3, <2>1, <2>2, <2>5, <2>6, <2>7, <2>8, <2>9 DEF CountInv
<1> QED BY <1>2, <1>3

\* and the pattern of a narrow low view.
LEMMA SeePrepares ==
    ASSUME TypeOK, TypeOK', SynchInv, Regular, AnalyzeSee, spent' = spent
    PROVE  PrepareInv'
<1>1. Ordered /\ WireInv /\ ClockInv /\ CountInv /\ PrepareInv /\ TrackInv
  BY DEF SynchInv
<1>2. Exact' <=> Exact
  BY DEF Exact, Settled
<1> SUFFICES ASSUME ~SynchMode, Exact, ~see'.synchSee, see'.timing \notin SynchTiming
             PROVE  PrepareInv'
  BY <1>2 DEF PrepareInv
<1>3. ~IsSynch(see)
  <2>1. CASE see.synchSee
    BY <1>1, <2>1, SeeInSynchSeeMode
  <2>2. CASE ~see.synchSee /\ see.timing \in SynchTiming
    <3>1. see'.timing \in SynchTiming
      BY <1>1, <2>2, SeeOfTracked DEF Tracked
    <3> QED BY <3>1
  <2> QED BY <2>1, <2>2 DEF IsSynch
<1>4. /\ SeeArrives /\ ~SeeArrives' /\ ~Pending /\ ~Pending' /\ t' = t /\ srvSynchSee' = srvSynchSee
  BY <1>1, SeeFacts
<1>5. /\ see'.count = see.count + 1
      /\ see'.history[1] = see.history[1]
      /\ see'.history[2] = see.history[2]
      /\ ~(see.history[1] = 2 /\ see.history[2] = 3)
      /\ mode # "PlayOn" => view' = Mode("NARROW", "LOW")
  <2>1. ~(see.history[1] = 2 /\ see.history[2] = 3)
    BY <1>1, <1>3, SeeOfUnsynched DEF SynchTiming
  <2>2. \/ /\ view' = view
           /\ mode # "PlayOn" => view = Mode("NARROW", "LOW")
        \/ mode = "PlayOn" /\ view'.quality = "HIGH"
        \/ mode # "PlayOn" /\ view' = Mode("NARROW", "LOW") /\ see'.till = 1
    BY <1>1, <1>3, <2>1, SeeOfUnsynched
  <2> QED BY <1>1, <1>3, <2>1, <2>2, SeeOfUnsynched
<1>6. mode # "PlayOn"
  BY RegularFacts DEF Exact
<1>7. /\ see.history[1] = 3 => see.count + 1 = Shots
      /\ see.history[2] = 3 => see.history[1] = ShotsIn(Cycle - 1)
  <2>1. One(SeeArrives) = 1
    BY <1>4 DEF One
  <2> QED BY <1>1, <1>3, <1>4, <2>1 DEF PrepareInv, IsSynch
<1>8. /\ Shots' = Shots /\ Cycle' = Cycle /\ One(SeeArrives') = 0
  BY <1>4 DEF Shots, Cycle, One
<1>9. see'.count \in 0..4 /\ see'.count + 0 = see'.count
  <2>1. see'.count \in 0..4
    BY ScalarsNext DEF ScalarType
  <2> QED BY <2>1
<1> QED BY <1>4, <1>5, <1>6, <1>7, <1>8, <1>9 DEF PrepareInv

\* A see keeps every part of the invariant.
LEMMA SeePreserves ==
    ASSUME TypeOK, TypeOK', SynchInv, Regular', Regular, AnalyzeSee, spent'.command = spent.command
    PROVE  Groups'
<1>1. Ordered /\ WireInv /\ ClockInv /\ ViewInv /\ DecidedInv /\ CountInv /\ PrepareInv /\ TrackInv
  BY DEF SynchInv
<1>2. /\ spent' = spent /\ see'.seen = TRUE /\ see'.count >= 1 /\ see'.synchSee = see.synchSee
  BY <1>1, SeeCases
<1>3. /\ ~Pending /\ ~Pending' /\ (ThinkArrives' <=> ThinkArrives)
      /\ ~clock'.ahead /\ ~clock'.lag /\ (clock'.inStop => ClockStands(mode))
      /\ decided' <=> decided /\ ~clock.ahead
      /\ lastSee' = Phase(t) /\ t' = t /\ srvMode' = srvMode /\ mode' = mode
  BY <1>1, SeeFacts
<1>4. ~Fresh' /\ Phase(t) \in 0..7
  BY <1>2, Scalars DEF Fresh, ScalarType
<1>5. ClockInv'
  BY <1>1, <1>2, <1>3, <1>4 DEF ClockInv
<1>6. ViewInv'
  BY <1>1, SeeKeepsView
<1>7. DecidedInv'
  BY <1>1, <1>2, <1>3, <1>4 DEF DecidedInv, NoSee
<1>8. CountInv'
  BY <1>1, SeeKeepsCounts
<1>9. PrepareInv'
  BY <1>2, SeePrepares
<1>10. TrackInv'
  <2>1. CASE see.synchSee
    BY <1>2, <2>1, SeeTracksSynchSee
  <2>2. CASE ~see.synchSee /\ see.timing \in SynchTiming
    BY <1>2, <2>2, SeeTracksTimer DEF Tracked
  <2>3. CASE ~IsSynch(see) /\ Tracked'
    BY <1>2, <2>3, SeeSynchronizes
  <2>4. CASE ~Tracked'
    BY <2>4 DEF TrackInv
  <2> QED BY <2>1, <2>2, <2>3, <2>4 DEF IsSynch
<1> QED BY <1>5, <1>6, <1>7, <1>8, <1>9, <1>10 DEF Groups

-----------------------------------------------------------------------------
(* The wire, after every step, whatever has been lost.                     *)

\* A see, and the adjustment that may follow, leave the see mode alone.
LEMMA UpdateBySeeKeepsMode ==
    ASSUME NEW s \in SeeStateType, NEW n \in BOOLEAN, NEW w \in ViewWidth, NEW q \in ViewQuality
    PROVE  UpdateBySee(s, n, w, q).synchSee = s.synchSee
<1> DEFINE c == CountSee(s, n)
<1>1. c \in SeeStateType /\ c.synchSee = s.synchSee
  BY CountSeeFields
<1> HIDE DEF c
<1> DEFINE z == [c EXCEPT !.till = 0]
<1>2. z \in SeeStateType /\ z.synchSee = s.synchSee
  BY <1>1 DEF SeeStateType, InitTill
<1> HIDE DEF z
<1> DEFINE e == IF c.till > 0 THEN SetViewMode(z, w) ELSE c
<1>3. e \in SeeStateType /\ e.synchSee = s.synchSee
  <2>1. SetViewMode(z, w) \in SeeStateType /\ SetViewMode(z, w).synchSee = z.synchSee
    BY <1>2, SetViewModeFields
  <2> QED BY <1>1, <1>2, <2>1
<1> HIDE DEF e
<1>4. \A y \in SeeStateType, x \in Timing : SetLastSeeTiming(y, x).synchSee = y.synchSee
  BY SetLastSeeTimingFields
<1>5. GetNextTiming(e, w, q) \in Timing /\ "TIME_NOSYNCH" \in Timing
  BY <1>3, GetNextTimingType DEF Timing
<1>6. UpdateBySee(s, n, w, q) =
        CASE q = "LOW" -> SetLastSeeTiming(c, "TIME_NOSYNCH")
          [] q # "LOW" /\ ~IsSynch(c) -> c
          [] OTHER -> SetLastSeeTiming(e, GetNextTiming(e, w, q))
  BY DEF UpdateBySee, e, z, c
<1> QED BY <1>1, <1>3, <1>4, <1>5, <1>6

\* Sending commands changes no play mode.
LEMMA DeliverKeepsMode ==
    ASSUME NEW sent, Deliver(sent), TypeOK
    PROVE  spent'.mode = spent.mode
<1>1. spent' = spent \/ spent' = [spent EXCEPT !.command = @ + 1]
  BY DEF Deliver
<1>2. spent \in SpentType
  BY DEF TypeOK, SpentType
<1> QED BY <1>1, <1>2 DEF SpentType

\* The modes of the see messages that the agent knows change by (ok synch_see) only.
LEMMA ModesStay ==
    ASSUME TypeOK, AnalyzeSenseBody \/ AnalyzeSee \/ AnalyzeHearReferee \/ Decide \/ Think
    PROVE  see'.synchSee = see.synchSee /\ spent'.mode = spent.mode
<1>1. /\ see \in SeeStateType /\ view \in ViewMode /\ view.width \in ViewWidth /\ view.quality \in ViewQuality
      /\ see.synchSee \in BOOLEAN
  BY Scalars DEF TypeOK, ScalarType
<1>2. CASE AnalyzeSenseBody
  <2>1. spent' = spent /\ see' = SetNewCycle(see, NewCycle(TRUE))
    BY <1>2 DEF AnalyzeSenseBody, UpdateBySenseBody
  <2>2. CASE NewCycle(TRUE) = TRUE
    <3>1. see' = SetNewCycle(see, TRUE)
      BY <2>1, <2>2
    <3>2. SetNewCycle(see, TRUE).synchSee = see.synchSee
      BY <1>1, SetNewCycleFields
    <3> QED BY <2>1, <3>1, <3>2
  <2>3. CASE NewCycle(TRUE) = FALSE
    BY <2>1, <2>3 DEF SetNewCycle
  <2> QED BY <2>2, <2>3 DEF NewCycle
<1>3. CASE AnalyzeHearReferee
  BY <1>3 DEF AnalyzeHearReferee
<1>4. CASE Decide \/ Think
  <2>1. Action
    BY <1>4 DEF Decide, Think
  <2>2. /\ \E sent \in Sent : Deliver(sent)
        /\ see'.synchSee = see.synchSee
    <3>1. CASE IsSynch(Kept)
      BY <2>1, <3>1, ActionSynched
    <3>2. ~IsSynch(Kept) => see.synchSee = FALSE
      BY <1>1, KeptFields
    <3>3. CASE ~IsSynch(Kept) /\ SynchMode
      BY <2>1, <3>2, <3>3, ActionSynchMode
    <3>4. CASE ~IsSynch(Kept) /\ ~SynchMode
      BY <2>1, <3>2, <3>4, ActionUnsynched
    <3> QED BY <3>1, <3>3, <3>4
  <2>3. PICK sent \in Sent : Deliver(sent)
    BY <2>2
  <2> QED BY <2>2, <2>3, DeliverKeepsMode
<1>5. CASE AnalyzeSee
  <2> DEFINE s == UpdateBySee(see, NewCycle(FALSE), view.width, view.quality)
             a == IF ~SynchMode /\ ~IsSynch(s)
                  THEN AdjustSeeSynchNormalMode(s, view)
                  ELSE [see |-> s, sent |-> <<>>]
  <2>1. see' = a.see /\ Deliver(a.sent)
    BY <1>5 DEF AnalyzeSee
  <2>2. NewCycle(FALSE) \in BOOLEAN
    BY DEF NewCycle
  <2>3. s \in SeeStateType /\ s.synchSee = see.synchSee
    BY <1>1, <2>2, UpdateBySeeKeepsMode, UpdateBySeeType
  <2> HIDE DEF s
  <2>4. a.see.synchSee = s.synchSee
    <3>1. CASE ~SynchMode /\ ~IsSynch(s)
      <4>1. a = AdjustSeeSynchNormalMode(s, view)
        BY <3>1
      <4>2. /\ AdjustResult(AdjustSeeSynchNormalMode(s, view), s, view, IsSynchedSeeCountNormalMode(s),
                            "TIME_0_00", "NORMAL", view.width # "NARROW" \/ view.quality # "LOW")
        BY <1>1, <2>3, <3>1, AdjustedFields DEF AdjustSeeSynchNormalMode, SynchTiming, ViewWidth,
                                              IsSynchedSeeCountNormalMode
      <4>3. s.synchSee = FALSE
        BY <1>1, <2>3, <3>1 DEF IsSynch
      <4> HIDE DEF a
      <4> QED BY <4>1, <4>2, <4>3 DEF AdjustResult
    <3>2. CASE ~(~SynchMode /\ ~IsSynch(s))
      BY <3>2
    <3> QED BY <3>1, <3>2
  <2> HIDE DEF a
  <2>5. spent'.mode = spent.mode
    BY <2>1, DeliverKeepsMode
  <2> QED BY <2>1, <2>3, <2>4, <2>5
<1> QED BY <1>2, <1>3, <1>4, <1>5

\* A message parsed by one of the agent's handlers but (ok synch_see)'s.
LEMMA ParseKeepsWire ==
    ASSUME TypeOK, Ordered, WireInv, NEW m \in {"hear", "sense_body", "see", "think"}, Parse(m),
           t' = t, elapsed' = elapsed, srvSynchSee' = srvSynchSee, see'.synchSee = see.synchSee,
           spent'.mode = spent.mode
    PROVE  Ordered' /\ WireInv'
<1>1. /\ wire # <<>> /\ wire[1] = m /\ wire' = Tail(wire) /\ wire \in Seq(Message)
  BY DEF Parse, TypeOK
<1>2. /\ Ordered' /\ Has(m) /\ ~Has(m)'
      /\ m # "sense_body" => (Pending' <=> Pending)
      /\ m # "see" => (SeeArrives' <=> SeeArrives)
      /\ m # "think" => (ThinkArrives' <=> ThinkArrives)
      /\ m # "ok_synch_see" => (OkArrives' <=> OkArrives)
      /\ m # "hear" => (HearArrives' <=> HearArrives)
      /\ m = "think" => ~SeeArrives
  BY <1>1, ParseWire
<1>3. /\ Pending' => Pending
      /\ SeeArrives' => SeeArrives
      /\ HearArrives' => HearArrives
      /\ ThinkArrives' => ThinkArrives
      /\ SeeArrives' => (ThinkArrives' <=> ThinkArrives)
      /\ OkArrives' <=> OkArrives
  <2>1. CASE m = "hear"
    <3>1. ~HearArrives'
      BY <1>2, <2>1, Zenon DEF HearArrives
    <3> QED BY <1>2, <2>1, <3>1
  <2>2. CASE m = "sense_body"
    <3>1. ~Pending'
      BY <1>2, <2>2, Zenon DEF Pending
    <3> QED BY <1>2, <2>2, <3>1
  <2>3. CASE m = "see"
    <3>1. ~SeeArrives'
      BY <1>2, <2>3, Zenon DEF SeeArrives
    <3> QED BY <1>2, <2>3, <3>1
  <2>4. CASE m = "think"
    <3>1. ~ThinkArrives'
      BY <1>2, <2>4, Zenon DEF ThinkArrives
    <3> QED BY <1>2, <2>4, <3>1
  <2> QED BY <2>1, <2>2, <2>3, <2>4
<1> QED BY <1>2, <1>3 DEF WireInv

\* Every step keeps the order and the contents of the wire.
LEMMA WireStays ==
    ASSUME TypeOK, TypeOK', Ordered, WireInv, [Next]_vars
    PROVE  Ordered' /\ WireInv'
<1>1. CASE Tick
  BY <1>1, TickFacts, TickWireInv
<1>2. CASE SetPlayMode
  BY <1>2, SetPlayModeFacts DEF WireInv
<1>3. CASE LoseMessage
  BY <1>3, LoseMessageFacts DEF WireInv
<1>4. CASE AcceptSynchSee
  BY <1>4, AcceptSynchSeeFacts DEF WireInv
<1>5. CASE AnalyzeOK
  BY <1>5, AnalyzeOKFacts DEF WireInv
<1>6. CASE AnalyzeSenseBody \/ AnalyzeSee \/ AnalyzeHearReferee \/ Think
  <2>1. see'.synchSee = see.synchSee /\ spent'.mode = spent.mode
    BY <1>6, ModesStay
  <2>2. t' = t /\ elapsed' = elapsed /\ srvSynchSee' = srvSynchSee
    BY <1>6 DEF AnalyzeSenseBody, AnalyzeSee, AnalyzeHearReferee, Think, serverVars
  <2>3. \E m \in {"hear", "sense_body", "see", "think"} : Parse(m)
    BY <1>6 DEF AnalyzeSenseBody, AnalyzeSee, AnalyzeHearReferee, Think
  <2> QED BY <2>1, <2>2, <2>3, ParseKeepsWire
<1>7. CASE Decide
  <2>1. see'.synchSee = see.synchSee /\ spent'.mode = spent.mode
    BY <1>7, ModesStay
  <2>2. wire' = wire /\ t' = t /\ elapsed' = elapsed /\ srvSynchSee' = srvSynchSee
    BY <1>7 DEF Decide
  <2>3. /\ (Ordered' <=> Ordered)
        /\ (Pending' <=> Pending) /\ (SeeArrives' <=> SeeArrives)
        /\ (ThinkArrives' <=> ThinkArrives) /\ (OkArrives' <=> OkArrives)
        /\ (HearArrives' <=> HearArrives)
    BY <2>2, Zenon DEF Ordered, Pending, SeeArrives, ThinkArrives, OkArrives, HearArrives, Has
  <2> QED BY <2>1, <2>2, <2>3 DEF WireInv
<1>8. CASE UNCHANGED vars
  <2>1. /\ wire' = wire /\ t' = t /\ elapsed' = elapsed /\ srvSynchSee' = srvSynchSee
        /\ see' = see /\ spent' = spent
    BY <1>8 DEF vars, serverVars, agentVars
  <2>2. /\ (Ordered' <=> Ordered)
        /\ (Pending' <=> Pending) /\ (SeeArrives' <=> SeeArrives)
        /\ (ThinkArrives' <=> ThinkArrives) /\ (OkArrives' <=> OkArrives)
        /\ (HearArrives' <=> HearArrives)
    BY <2>1, Zenon DEF Ordered, Pending, SeeArrives, ThinkArrives, OkArrives, HearArrives, Has
  <2> QED BY <2>1, <2>2 DEF WireInv
<1> QED BY <1>1, <1>2, <1>3, <1>4, <1>5, <1>6, <1>7, <1>8 DEF Next, Agent, Server

-----------------------------------------------------------------------------
(* The inductive invariant.                                                *)

\* What has disturbed an agent once has disturbed it for ever.
LEMMA RegularStays ==
    ASSUME TypeOK, TypeOK', Ordered, WireInv, [Next]_vars, Regular'
    PROVE  Regular /\ spent'.command = spent.command
<1>1. see.synchSee => see'.synchSee
  <2>1. CASE AnalyzeSenseBody \/ AnalyzeSee \/ AnalyzeHearReferee \/ Decide \/ Think
    BY <2>1, ModesStay
  <2>2. CASE AnalyzeOK
    BY <2>2, AnalyzeOKFacts
  <2>3. CASE Tick \/ SetPlayMode \/ LoseMessage \/ AcceptSynchSee \/ UNCHANGED vars
    BY <2>3 DEF Tick, SetPlayMode, LoseMessage, AcceptSynchSee, vars, agentVars
  <2> QED BY <2>1, <2>2, <2>3 DEF Next, Agent, Server
<1> QED BY <1>1, DisturbancesStay

\* A unit of time keeps every part of the invariant.
LEMMA TickPreserves ==
    ASSUME TypeOK, TypeOK', SynchInv, Regular', Regular, Tick
    PROVE  Groups'
<1>1. Ordered /\ WireInv /\ ClockInv /\ ViewInv /\ DecidedInv /\ CountInv /\ PrepareInv /\ TrackInv
  BY DEF SynchInv
<1> QED BY <1>1, TickClockInv, TickViewInv, TickDecidedInv, TickCountInv, TickPrepareInv,
           TickTrackInv DEF Groups

\* A stuttering step keeps every part of the invariant.
LEMMA StutterPreserves ==
    ASSUME TypeOK, TypeOK', SynchInv, Regular', Regular, UNCHANGED vars
    PROVE  Groups'
<1>1. Groups
  BY DEF SynchInv, Groups
<1>2. /\ wire' = wire /\ t' = t /\ elapsed' = elapsed /\ srvSynchSee' = srvSynchSee
      /\ srvView' = srvView /\ srvMode' = srvMode /\ mode' = mode /\ clock' = clock
      /\ see' = see /\ spent' = spent /\ view' = view /\ decided' = decided /\ lastSee' = lastSee
  BY DEF vars, serverVars, agentVars
<1>3. /\ (Pending' <=> Pending) /\ (SeeArrives' <=> SeeArrives) /\ (ThinkArrives' <=> ThinkArrives)
      /\ (OkArrives' <=> OkArrives)
  BY <1>2, Zenon DEF Pending, SeeArrives, ThinkArrives, OkArrives, Has
<1>4. /\ (Exact' <=> Exact) /\ (Fresh' <=> Fresh) /\ (Tracked' <=> Tracked)
      /\ Good(see.timing, lastSee)' <=> Good(see.timing, lastSee)
      /\ One(SeeArrives') = One(SeeArrives) /\ Cycle' = Cycle /\ Shots' = Shots /\ Second' = Second
      /\ CountdownInv => CountdownInv'
  BY <1>2, <1>3, SameCountdown
<1>5. ClockInv' /\ ViewInv'
  BY <1>1, <1>2, <1>3, <1>4 DEF Groups, ClockInv, ViewInv
<1>6. DecidedInv'
  BY <1>1, <1>2, <1>3, <1>4 DEF Groups, DecidedInv, Settled
<1>7. CountInv'
  BY <1>1, <1>2, <1>3, <1>4 DEF Groups, CountInv
<1>8. PrepareInv'
  BY <1>1, <1>2, <1>3, <1>4 DEF Groups, PrepareInv
<1>9. TrackInv'
  <2>1. Valid' <=> Valid
    BY <1>2, <1>3 DEF Valid
  <2> QED BY <1>1, <1>2, <1>3, <1>4, <2>1 DEF Groups, TrackInv
<1> QED BY <1>5, <1>6, <1>7, <1>8, <1>9 DEF Groups

\* Every step keeps the inductive invariant.
LEMMA SynchInvStays ==
    ASSUME TypeOK, TypeOK', SynchInv, [Next]_vars
    PROVE  SynchInv'
<1>1. Ordered' /\ WireInv'
  BY WireStays DEF SynchInv
<1>2. ASSUME Regular'
      PROVE  Groups'
  <2>1. Regular /\ spent'.command = spent.command
    BY <1>2, RegularStays DEF SynchInv
  <2>2. CASE AnalyzeSenseBody
    BY <1>2, <2>1, <2>2, SenseBodyPreserves
  <2>3. CASE AnalyzeSee
    BY <1>2, <2>1, <2>3, SeePreserves
  <2>4. CASE AnalyzeHearReferee
    BY <1>2, <2>1, <2>4, HearPreserves
  <2>5. CASE AnalyzeOK
    BY <1>2, <2>1, <2>5, AnalyzeOKPreserves
  <2>6. CASE Decide
    BY <1>2, <2>1, <2>6, DecidePreserves
  <2>7. CASE Think
    BY <1>2, <2>1, <2>7, ThinkPreserves
  <2>8. CASE Tick
    BY <1>2, <2>1, <2>8, TickPreserves
  <2>9. CASE SetPlayMode
    BY <1>2, <2>1, <2>9, SetPlayModePreserves
  <2>10. CASE LoseMessage
    BY <1>2, <2>1, <2>10, LoseMessagePreserves
  <2>11. CASE AcceptSynchSee
    BY <1>2, <2>1, <2>11, AcceptSynchSeePreserves
  <2>12. CASE UNCHANGED vars
    BY <1>2, <2>1, <2>12, StutterPreserves
  <2> QED BY <2>2, <2>3, <2>4, <2>5, <2>6, <2>7, <2>8, <2>9, <2>10, <2>11, <2>12
          DEF Next, Agent, Server
<1> QED BY <1>1, <1>2 DEF SynchInv, Groups

\* The inductive invariant holds initially.
LEMMA InitSynchInv == TypeOK /\ Init => SynchInv
<1> SUFFICES ASSUME TypeOK, Init
             PROVE  SynchInv
  OBVIOUS
<1>1. /\ ~Pending /\ ~SeeArrives /\ ~ThinkArrives /\ ~OkArrives /\ ~HearArrives /\ Ordered
  BY NothingArrives, EmptyWire DEF Init, Ordered
<1>2. /\ see.timing = "TIME_NOSYNCH" /\ see.seen = TRUE /\ see.count = 0 /\ see.synchSee = FALSE
      /\ see.history[1] = 0 /\ see.history[2] = 0 /\ see.history[3] = 0
  BY DEF Init, InitSeeState
<1>3. /\ clock.ahead = TRUE /\ clock.inStop = FALSE /\ clock.lag = FALSE
      /\ srvSynchSee = FALSE /\ view = srvView /\ view = Mode("NORMAL", "HIGH") /\ decided = TRUE
      /\ mode = srvMode /\ lastSee = NoSee /\ spent.mode = 0
  BY DEF Init
<1>4. WireInv
  BY <1>1, <1>2, <1>3 DEF WireInv
<1>5. Fresh /\ ~Tracked
  BY <1>2, <1>3 DEF Fresh, Tracked, SynchTiming
<1>6. ClockInv
  BY <1>1, <1>2, <1>3, <1>5 DEF ClockInv
<1>7. ViewInv
  BY <1>3, ModeFields, Views DEF ViewInv
<1>8. DecidedInv
  BY <1>1, <1>2, <1>3 DEF DecidedInv
<1>9. CountInv
  <2>1. Shots \in 0..3
    BY Scalars DEF Shots, Cycle, ScalarType
  <2>2. One(SeeArrives) = 0
    BY <1>1 DEF One
  <2> QED BY <1>1, <1>2, <2>1, <2>2 DEF CountInv, ShotsIn
<1>10. PrepareInv
  BY <1>1, <1>2, <1>5 DEF PrepareInv, Fresh
<1>11. TrackInv
  BY <1>5 DEF TrackInv
<1> QED BY <1>1, <1>4, <1>6, <1>7, <1>8, <1>9, <1>10, <1>11 DEF SynchInv

\* The inductive invariant of the synchronization holds for all values of the constants.
THEOREM Synchronized == Spec => []SynchInv
<1>1. TypeOK /\ TypeOK' /\ SynchInv /\ [Next]_vars => SynchInv'
  BY SynchInvStays
<1> QED BY <1>1, InitSynchInv, TypeCorrect, PTL DEF Spec

-----------------------------------------------------------------------------
(* What the invariant says of the next see.                                *)

\* The cycle boundaries in x units.
LEMMA Boundaries ==
    ASSUME NEW n \in Int, NEW x \in Int
    PROVE  /\ x >= 8 * n => x \div 8 >= n
           /\ x >= 8 * n /\ x <= 8 * n + 7 => x \div 8 = n
           /\ x \div 8 \in Int
OBVIOUS

\* The server's next see, from what the agent knows: its last see, its view and the
\* cycles that it has counted since.
LEMMA ComesAfter ==
    ASSUME TypeOK, WireInv, ViewInv, ~Pending, ~SeeArrives, ~OkArrives, OnGrid
    PROVE  /\ see.synchSee => CyclesTillNextSee = V - CyclesSince
           /\ ~see.synchSee => CyclesTillNextSee = (lastSee + 3 * V - 8 * CyclesSince) \div 8
<1>1. ~Pending /\ ~SeeArrives /\ (srvSynchSee <=> see.synchSee)
  BY DEF WireInv
<1>2. SeeInterval = V /\ elapsed < V /\ Age = elapsed
  BY <1>1, IntervalAgrees DEF OnGrid, Age
<1>3. /\ elapsed \in 0..8 /\ lastSee \in 0..8 /\ Phase(t) \in 0..7 /\ t \in 0..23
      /\ V \in 1..8 /\ t % 3 \in 0..2 /\ SynchSeeOffset \in 0..5
  BY Scalars, Derived, ConstantsAssumption DEF ScalarType, DerivedType
<1> DEFINE shots == IF SeeInterval > elapsed THEN SeeInterval - elapsed ELSE 1
<1>4. shots = V - elapsed /\ shots \in 1..8
  BY <1>2, <1>3
<1> HIDE DEF shots
<1>5. CyclesTillNextSee =
        (Phase(t) + (IF srvSynchSee THEN 8 * shots - ((t - SynchSeeOffset) % 8)
                     ELSE 3 * shots - (t % 3))) \div 8
  BY DEF CyclesTillNextSee, shots
<1>6. ASSUME see.synchSee
      PROVE  CyclesTillNextSee = V - CyclesSince
  <2>1. CyclesSince = (IF Phase(t) < SynchSeeOffset THEN Age + 1 ELSE Age) - 0
    BY <1>1, <1>6, Derived DEF DerivedType
  <2>2. (t - SynchSeeOffset) % 8 = IF Phase(t) < SynchSeeOffset THEN Phase(t) - SynchSeeOffset + 8
                                    ELSE Phase(t) - SynchSeeOffset
    BY <1>3 DEF Phase
  <2>3. Phase(t) + (8 * shots - ((t - SynchSeeOffset) % 8))
          = IF Phase(t) < SynchSeeOffset THEN 8 * (shots - 1) + SynchSeeOffset
            ELSE 8 * shots + SynchSeeOffset
    <3> DEFINE r == (t - SynchSeeOffset) % 8
    <3>1. r = IF Phase(t) < SynchSeeOffset THEN Phase(t) - SynchSeeOffset + 8 ELSE Phase(t) - SynchSeeOffset
      BY <2>2
    <3>2. Phase(t) \in 0..7 /\ SynchSeeOffset \in 0..5
      BY <1>3
    <3> HIDE DEF r
    <3>3. Phase(t) + (8 * shots - r)
            = IF Phase(t) < SynchSeeOffset THEN 8 * (shots - 1) + SynchSeeOffset
              ELSE 8 * shots + SynchSeeOffset
      BY <1>4, <3>1, <3>2
    <3> QED BY <3>3 DEF r
  <2>4. (Phase(t) + (8 * shots - ((t - SynchSeeOffset) % 8))) \div 8
          = IF Phase(t) < SynchSeeOffset THEN shots - 1 ELSE shots
    <3> DEFINE n == IF Phase(t) < SynchSeeOffset THEN shots - 1 ELSE shots
               x == Phase(t) + (8 * shots - ((t - SynchSeeOffset) % 8))
    <3>1. Phase(t) \in 0..7 /\ SynchSeeOffset \in 0..5
      BY <1>3
    <3>2. n \in Int /\ x = 8 * n + SynchSeeOffset
      BY <1>4, <2>3, <3>1
    <3> HIDE DEF n, x
    <3>3. x \in Int /\ x >= 8 * n /\ x <= 8 * n + 7
      BY <3>1, <3>2
    <3>4. x \div 8 = n
      BY <3>2, <3>3, Boundaries
    <3> QED BY <3>4 DEF n, x
  <2> QED BY <1>1, <1>2, <1>3, <1>4, <1>5, <1>6, <2>1, <2>4
<1>7. ASSUME ~see.synchSee
      PROVE  CyclesTillNextSee = (lastSee + 3 * V - 8 * CyclesSince) \div 8
  <2>1. CyclesSince = (Since \div 8) - 0 /\ Since \div 8 \in Nat
    BY <1>1, <1>7, Derived DEF DerivedType
  <2>2. Since % 8 = Phase(t) /\ Since = lastSee + 3 * elapsed + (t % 3)
    BY <1>2, <1>7 DEF OnGrid, Since
  <2>3. Since = 8 * (Since \div 8) + (Since % 8) /\ Since \in Nat
    BY Derived DEF DerivedType
  <2>4. 8 * CyclesSince = lastSee + 3 * elapsed + (t % 3) - Phase(t)
    BY <1>3, <2>1, <2>2, <2>3
  <2>5. Phase(t) + (3 * shots - (t % 3)) = lastSee + 3 * V - 8 * CyclesSince
    <3> DEFINE r == t % 3
               k == CyclesSince
    <3>1. 8 * k = lastSee + 3 * elapsed + r - Phase(t) /\ r \in 0..2 /\ k \in Int
      BY <1>3, <2>1, <2>4
    <3> HIDE DEF r, k
    <3>2. Phase(t) + (3 * shots - r) = lastSee + 3 * V - 8 * k
      <4>1. elapsed \in 0..8 /\ lastSee \in 0..8 /\ Phase(t) \in 0..7 /\ V \in 1..8
        BY <1>3
      <4> QED BY <1>4, <3>1, <4>1
    <3> QED BY <3>2 DEF r, k
  <2> QED BY <1>1, <1>5, <1>7, <2>5
<1> QED BY <1>6, <1>7

\* An agent that counts down to a see, of the timer or of synch_see mode.
LEMMA CountsDown ==
    ASSUME TypeOK, SynchInv, Regular, ~Pending, ~SeeArrives, ~OkArrives,
           IsSynch(see), lastSee # NoSee, ~see.seen \/ decided, see.till > 0
    PROVE  /\ CyclesTillNextSee >= see.till /\ CyclesTillNextSee \in Int
           /\ Exact => CyclesTillNextSee = see.till
<1>1. WireInv /\ ViewInv /\ TrackInv
  BY DEF SynchInv
<1>2. ~Pending /\ ~SeeArrives /\ (srvSynchSee <=> see.synchSee)
  BY <1>1 DEF WireInv
<1>3. Tracked /\ Valid
  BY <1>2 DEF Tracked, Valid, IsSynch
<1>4. CountdownInv
  BY <1>1, <1>3 DEF TrackInv
<1>5. OnGrid /\ see.till + CyclesSince = CyclesOf(see, view.width) /\ Legal
  BY <1>4, Scalars DEF CountdownInv, Waiting, ScalarType
<1>6. /\ see.till \in 0..100 /\ CyclesSince \in Int /\ CyclesOf(see, view.width) \in 1..3
      /\ V \in 1..8 /\ lastSee \in 0..8
  BY Scalars, Derived DEF ScalarType, DerivedType
<1>7. CASE see.synchSee
  <2>1. V = CyclesOf(see, view.width)
    BY <1>7, IntervalNow DEF Interval
  <2>2. CyclesTillNextSee = V - CyclesSince
    BY <1>1, <1>5, <1>7, ComesAfter
  <2>3. CyclesTillNextSee = CyclesOf(see, view.width) - CyclesSince
    BY <2>1, <2>2
  <2> QED BY <1>5, <1>6, <2>3
<1>8. CASE ~see.synchSee
  <2>1. /\ lastSee + 3 * V >= 8 * CyclesOf(see, view.width)
        /\ Exact => lastSee + 3 * V <= 8 * CyclesOf(see, view.width) + 4
    <3>1. see.timing \in SynchTiming /\ Good(see.timing, lastSee) /\ view.quality = "HIGH"
      BY <1>1, <1>3, <1>8 DEF Tracked, TrackInv
    <3> QED BY <1>5, <1>8, <3>1, NextSee
  <2>2. CyclesTillNextSee = (lastSee + 3 * V - 8 * CyclesSince) \div 8
    BY <1>1, <1>5, <1>8, ComesAfter
  <2> DEFINE c == CyclesOf(see, view.width)
             k == CyclesSince
             x == lastSee + 3 * V - 8 * k
  <2>3. /\ c \in 1..3 /\ k \in Int /\ see.till = c - k
        /\ V \in 1..8 /\ lastSee \in 0..8
    BY <1>5, <1>6
  <2>4. /\ lastSee + 3 * V >= 8 * c
        /\ Exact => lastSee + 3 * V <= 8 * c + 4
        /\ CyclesTillNextSee = x \div 8
    BY <2>1, <2>2
  <2> HIDE DEF c, k
  <2>5. c - k \in Int /\ x \in Int /\ x >= 8 * (c - k) /\ (Exact => x <= 8 * (c - k) + 7)
    BY <2>3, <2>4
  <2> HIDE DEF x
  <2>6. x \div 8 >= c - k /\ (Exact => x \div 8 = c - k)
    BY <2>5, Boundaries
  <2>7. x \div 8 \in Int
    BY <2>5, Boundaries
  <2> QED BY <2>3, <2>4, <2>6, <2>7
<1> QED BY <1>7, <1>8

\* If no sense_body gets lost (a new cycle whose number the agent does not learn is one
\* it cannot count), an agent that decides because it expects no see in this cycle is
\* right: whatever sees it has lost, none comes in this cycle.
THEOREM NoSeeIsMissed ==
    ASSUME "sense_body" \notin Losable
    PROVE  Spec => []NoSeeMissed
<1>1. TypeOK /\ SynchInv => NoSeeMissed
  <2> SUFFICES ASSUME TypeOK, SynchInv, DecideNow, ~SeeIsCurrent, lastSee # NoSee,
                      ~Pending, ~SeeArrives, ~OkArrives, spent.command = 0, spent.mode = 0
               PROVE  CyclesTillNextSee > 0
    BY NothingArrives DEF NoSeeMissed
  <2>1. ~SynchMode
    BY DEF DecideNow
  <2>2. Regular
    BY <2>1 DEF Regular
  <2>3. ~clock.lag
    BY <2>2 DEF SynchInv, ClockInv
  <2>4. IsSynch(see) /\ see.till > 0 /\ ~see.seen
    BY <2>3 DEF DecideNow, SeeIsCurrent
  <2>5. CyclesTillNextSee >= see.till /\ CyclesTillNextSee \in Int /\ see.till \in 0..100
    BY <2>2, <2>4, CountsDown, Scalars DEF ScalarType
  <2> QED BY <2>4, <2>5
<1> QED BY <1>1, TypeCorrect, Synchronized, PTL

\* Where the agent decides on think messages, or no play_on interrupts the recognition
\* of the pattern of sees: the timing of an undisturbed agent is the offset of its last see.
THEOREM TimingStaysTrue ==
    ASSUME SynchMode \/ "PlayOn" \notin PlayModes
    PROVE  Spec => []TimingIsTrue
<1>1. TypeOK /\ SynchInv => TimingIsTrue
  <2> SUFFICES ASSUME TypeOK, SynchInv, Undisturbed, see.timing \in SynchTiming, ~see.synchSee
               PROVE  PhaseOf(see.timing) = lastSee
    BY DEF TimingIsTrue
  <2>1. Regular /\ Exact
    BY DEF Regular, Exact, Settled, Steady, Undisturbed
  <2>2. Tracked /\ TrackInv
    BY <2>1 DEF Tracked, SynchInv
  <2> QED BY <2>1, <2>2 DEF TrackInv, Good
<1> QED BY <1>1, TypeCorrect, Synchronized, PTL

\* Then what it predicts at the end of action() comes true; in synch_see mode if the see
\* is sent before the think message.
THEOREM PredictionStaysTrue ==
    ASSUME SynchMode \/ "PlayOn" \notin PlayModes,
           SynchMode /\ WantSynchSee => SynchSeeOffset <= 4
    PROVE  Spec => []PredictionIsTrue
<1>1. TypeOK /\ SynchInv => PredictionIsTrue
  <2> SUFFICES ASSUME TypeOK, SynchInv, Undisturbed, IsSynch(see), lastSee # NoSee, decided,
                      ~Pending, ~SeeArrives, ~OkArrives
               PROVE  see.till = CyclesTillNextSee
    BY NothingArrives DEF PredictionIsTrue, NextSeeIsPredicted
  <2>1. WireInv
    BY DEF SynchInv
  <2>2. Regular /\ Exact
    BY <2>1 DEF Regular, Exact, Settled, Steady, Undisturbed, WireInv
  <2>3. Tracked /\ Valid
    BY <2>1 DEF Tracked, Valid, IsSynch, WireInv
  <2>4. see.till > 0
    BY <2>2, <2>3 DEF SynchInv, TrackInv, CountdownInv
  <2> QED BY <2>2, <2>4, CountsDown
<1> QED BY <1>1, TypeCorrect, Synchronized, PTL

=============================================================================
