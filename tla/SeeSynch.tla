------------------------------ MODULE SeeSynch ------------------------------
(***************************************************************************)
(* One player agent synchronizing with the see messages of the server.     *)
(*                                                                         *)
(* The agent (rcsc/player/player_agent.cpp) receives sense_body and see,   *)
(* updates its SeeState, adjusts its view mode until the pattern of sees   *)
(* reveals their timing, decides once per cycle and asks for a view width. *)
(* The server is external, modelled from what the agent relies on: a cycle *)
(* takes 100ms = 8 units of 12.5ms, the see timer fires every 3 units, the *)
(* two realign every 24 units, and view mode (w, q) makes every            *)
(* VisInterval-th shot a see.  Those numbers are the offsets of the enum   *)
(* SeeState::Timing and the counts of the isSynchedSeeCount methods.       *)
(*                                                                         *)
(* Messages and commands take less than one unit; up to MaxMessageLoss and *)
(* MaxCommandLoss of them get lost.                                        *)
(***************************************************************************)
EXTENDS SeeState, Sequences

\* Play modes the agent tells apart here: play_on, the others, and among these
\* the ones in which the server's clock stands (isServerCycleStoppedMode).
PlayMode == {"PlayOn", "FreeKick_", "BeforeKickOff"}

CONSTANTS
    SynchMode,       \* server::synch_mode: decisions are triggered by (think)
    WantSynchSee,    \* player config synch_see
    SynchSeeOffset,  \* server::synch_see_offset, in units
    PlayModes,       \* the play modes the referee uses, and ...
    MaxModeChanges,  \* ... the bound on changes between them
    Losable,         \* the messages that may get lost, and ...
    MaxMessageLoss,  \* ... how many of them
    MaxCommandLoss   \* bound on lost change_view commands

ASSUME ConstantsAssumption ==
    /\ SynchMode \in BOOLEAN
    /\ WantSynchSee \in BOOLEAN
    /\ PlayModes \subseteq PlayMode /\ PlayModes # {}
    /\ SynchSeeOffset \in 0..5      \* before the decision deadline
    /\ Losable \subseteq {"sense_body", "see"}
    /\ MaxMessageLoss \in Nat
    /\ MaxCommandLoss \in Nat
    /\ MaxModeChanges \in Nat

VARIABLES
    t,           \* server: time in units, modulo the 24 of the hyperperiod
    elapsed,     \* server: shots of the see timer since the last see
    srvView,     \* server: the player's view mode
    srvSynchSee, \* server: the player is in synch_see mode
    srvMode,     \* server: play mode
    wire,        \* messages on their way to the agent
    spent,       \* messages and commands lost, play modes changed so far
    see,         \* agent: see_state_
    view,        \* agent: world().self().viewWidth()/viewQuality()
    mode,        \* agent: play mode of world().gameMode(), as of the last referee message
    clock,       \* agent: current_time_, compared with the server's and the rest
    decided,     \* agent: last_decision_time_ = current_time_
    lastSee      \* offset at which the last see of this see mode arrived

serverVars == <<t, elapsed, srvView, srvSynchSee, srvMode>>
agentVars  == <<see, view, mode, clock, decided, lastSee>>
vars       == <<serverVars, wire, spent, agentVars>>

NoSee == 8                          \* lastSee before the first see
Phase(time) == time % 8             \* offset in the cycle
Message == {"sense_body", "see", "hear", "think", "ok_synch_see"}

\* current_time_ only matters by these comparisons:
\*   ahead    the server's cycle number is not current_time_.cycle()
\*   inStop   current_time_.stopped() > 0
\*   lag      current_time_ is not see_state_.M_current_time
Clock == [ahead : BOOLEAN, inStop : BOOLEAN, lag : BOOLEAN]

TypeOK ==
    /\ t \in 0..23
    /\ elapsed \in 0..8
    /\ srvView \in ViewMode
    /\ srvSynchSee \in BOOLEAN
    /\ srvMode \in PlayModes
    /\ wire \in Seq(Message)
    /\ spent \in [message : 0..MaxMessageLoss, command : 0..MaxCommandLoss,
                  mode : 0..MaxModeChanges]
    /\ see \in SeeStateType
    /\ view \in ViewMode
    /\ mode \in PlayModes
    /\ clock \in Clock
    /\ decided \in BOOLEAN
    /\ lastSee \in 0..NoSee

Init ==
    /\ t \in 0..23
    /\ elapsed \in 0..3
    /\ srvView = Mode("NORMAL", "HIGH")
    /\ srvSynchSee = FALSE
    /\ srvMode \in PlayModes
    /\ lastSee = NoSee
    /\ wire = <<>>
    /\ spent = [message |-> 0, command |-> 0, mode |-> 0]
    /\ see = InitSeeState
    /\ view = Mode("NORMAL", "HIGH")
    /\ mode = srvMode               \* known before the first sense_body
    /\ clock = [ahead |-> TRUE, inStop |-> FALSE, lag |-> FALSE]
    /\ decided = TRUE               \* nothing to decide before the first message

-----------------------------------------------------------------------------
(* The server (external).                                                  *)

VisInterval(v) ==
    (CASE v.width = "NARROW" -> 2 [] v.width = "NORMAL" -> 4 [] v.width = "WIDE" -> 8)
      \div (IF v.quality = "LOW" THEN 2 ELSE 1)
SynchSeeInterval(v) ==
    CASE v.width = "NARROW" -> 1 [] v.width = "NORMAL" -> 2 [] v.width = "WIDE" -> 3
SeeInterval == IF srvSynchSee THEN SynchSeeInterval(srvView) ELSE VisInterval(srvView)

\* The see timer: every 3 units, or once per cycle in synch_see mode.
IsShot(time) == IF srvSynchSee THEN Phase(time) = SynchSeeOffset ELSE time % 3 = 0

If(cond, m) == IF cond THEN <<m>> ELSE <<>>

Received(v) == IF srvSynchSee THEN [v EXCEPT !.quality = "HIGH"] ELSE v

\* The commands `sent' reach the server in order, or one of them gets lost.
Deliver(sent) ==
    \/ /\ srvView' = Received(IF sent = <<>> THEN srvView ELSE sent[Len(sent)])
       /\ UNCHANGED spent
    \/ /\ sent # <<>>
       /\ spent.command < MaxCommandLoss
       /\ spent' = [spent EXCEPT !.command = @ + 1]
       /\ srvView' = Received(IF Len(sent) = 1 THEN srvView ELSE sent[1])

ClockStands(m) == m = "BeforeKickOff"

\* The referee changes the play mode and all players hear so: before or after
\* the sense_body of a new cycle, or in mid-cycle.
SetPlayMode ==
    /\ \E m \in PlayModes \ {srvMode} : srvMode' = m
    /\ "hear" \notin {wire[i] : i \in 1..Len(wire)}
    /\ wire' \in {<<"hear">> \o wire, Append(wire, "hear")}
    /\ spent.mode < MaxModeChanges
    /\ spent' = [spent EXCEPT !.mode = @ + 1]
    /\ UNCHANGED <<t, elapsed, srvView, srvSynchSee, agentVars>>

LoseMessage ==
    /\ wire # <<>>
    /\ wire[1] \in Losable
    /\ spent.message < MaxMessageLoss
    /\ spent' = [spent EXCEPT !.message = @ + 1]
    /\ wire' = Tail(wire)
    /\ UNCHANGED <<serverVars, agentVars>>

\* The agent asked for (synch_see) after init (sendSettingCommands); at some time
\* the server switches and says so.  There is no quality in this mode: the
\* change_view command leaves it out (PlayerChangeViewCommand::toStr).
AcceptSynchSee ==
    /\ WantSynchSee
    /\ ~srvSynchSee
    /\ srvSynchSee' = TRUE
    /\ srvView' = [srvView EXCEPT !.quality = "HIGH"]
    /\ elapsed' = 0
    /\ wire' = Append(wire, "ok_synch_see")
    /\ UNCHANGED <<t, srvMode, spent, agentVars>>

-----------------------------------------------------------------------------
(* The agent.                                                              *)

\* world().seeTime() = current_time_
SeeIsCurrent == see.seen /\ ~clock.lag

\* isDecisionTiming.  At once: the see is here, or none is expected in this
\* cycle.  If the new cycle is known from a hear only, the last sense_body is old
\* and the third timeout (30ms) decides.
DecideNow ==
    /\ ~SynchMode
    /\ ~decided
    /\ \/ SeeIsCurrent
       \/ ~clock.lag /\ IsSynch(see) /\ see.till > 0
       \/ clock.lag /\ Phase(t) >= 3

\* waitTimeThrSynchView 79ms, waitTimeThrNoSynchView 75ms: a see due at 75ms
\* is in before the first, and may lose the race against the second.
WaitedEnough ==
    /\ ~SynchMode
    /\ ~decided
    /\ Phase(t) >= 6
    /\ IsSynch(see) => wire = <<>>

Tick ==
    /\ wire = <<>>
    /\ ~DecideNow
    /\ ~(WaitedEnough /\ Phase(t) = 7)
    /\ LET n == (t + 1) % 24
           due == IsShot(n) /\ elapsed + 1 >= SeeInterval
       IN  /\ t' = n
           /\ elapsed' = IF due THEN 0 ELSE IF IsShot(n) THEN elapsed + 1 ELSE elapsed
           /\ clock' = IF Phase(n) = 0 /\ ~ClockStands(srvMode)
                       THEN [clock EXCEPT !.ahead = TRUE]
                       ELSE clock
           /\ wire' = If(Phase(n) = 0, "sense_body") \o If(due, "see")
                        \o If(SynchMode /\ Phase(n) = 4, "think")
    /\ UNCHANGED <<srvView, srvSynchSee, srvMode, spent, see, view, mode, decided, lastSee>>

\* updateCurrentTime: does current_time_ change?
TimeChanges(bySenseBody) ==
    IF ClockStands(mode)
    THEN clock.ahead \/ bySenseBody
    ELSE clock.ahead \/ clock.inStop

\* current_time_ after a message of kind m; sense_body and see bring see_state_
\* up to it.
UpdateCurrentTime(m) ==
    LET bySenseBody == m = "sense_body"
        changes == TimeChanges(bySenseBody)
    IN  /\ clock' = [ahead  |-> FALSE,
                     inStop |-> /\ ClockStands(mode)
                                /\ ~clock.ahead
                                /\ bySenseBody \/ clock.inStop,
                     lag    |-> m = "hear" /\ (clock.lag \/ changes)]
        /\ decided' = (decided /\ ~changes)

NewCycle(bySenseBody) == clock.lag \/ TimeChanges(bySenseBody)

\* The server's message m is the next to be parsed.
Parse(m) ==
    /\ wire # <<>>
    /\ wire[1] = m
    /\ wire' = Tail(wire)

AnalyzeHearReferee ==
    /\ Parse("hear")
    /\ UpdateCurrentTime("hear")
    /\ mode' = srvMode
    /\ UNCHANGED <<serverVars, spent, see, view, lastSee>>

\* Mutant: the view mode that sense_body reports is not taken over.
AnalyzeSenseBody_KeepView ==
    /\ Parse("sense_body")
    /\ UpdateCurrentTime("sense_body")
    /\ see' = UpdateBySenseBody(see, NewCycle(TRUE))
    /\ UNCHANGED <<serverVars, spent, view, mode, lastSee>>

\* analyzeSenseBody: new cycle, and the view mode the server reports.
AnalyzeSenseBody ==
    /\ Parse("sense_body")
    /\ UpdateCurrentTime("sense_body")
    /\ see' = UpdateBySenseBody(see, NewCycle(TRUE))
    /\ view' = srvView
    /\ UNCHANGED <<serverVars, spent, mode, lastSee>>

AnalyzeOK ==
    /\ Parse("ok_synch_see")
    /\ see' = SetSynchSeeMode(see, view.width)
    /\ lastSee' = NoSee
    /\ UNCHANGED <<serverVars, spent, view, mode, clock, decided>>

\* What both adjust methods do once the timing `timing' has been recognised:
\* change to (w, HIGH), or else change the quality as the play mode asks.
\* The results: the new see state and the view mode sent, if any.
Adjusted(s, v, recognised, timing, w, mustPrepare) ==
    LET to(x, new) == [see |-> SetViewMode(x, new.width), sent |-> <<new>>]
    IN  CASE recognised ->
               to(SetLastSeeTiming(s, timing), Mode(w, "HIGH"))
          [] ~recognised /\ mode = "PlayOn" /\ v.quality = "LOW" ->
               to(s, Mode("NARROW", "HIGH"))
          [] ~recognised /\ mode # "PlayOn" /\ mustPrepare ->
               to(s, Mode("NARROW", "LOW"))
          [] OTHER -> [see |-> s, sent |-> <<>>]

\* Mutant: adjusts as adjustSeeSynchSynchMode does, only if both differ.
AdjustSeeSynchNormalMode_Both(s, v) ==
    Adjusted(s, v, IsSynchedSeeCountNormalMode(s), "TIME_0_00", "NORMAL",
             v.width # "NARROW" /\ v.quality # "LOW")

AdjustSeeSynchNormalMode(s, v) ==
    Adjusted(s, v, IsSynchedSeeCountNormalMode(s), "TIME_0_00", "NORMAL",
             v.width # "NARROW" \/ v.quality # "LOW")

AdjustSeeSynchSynchMode(s, v) ==
    Adjusted(s, v, IsSynchedSeeCountSynchMode(s), "TIME_50_0", "NARROW",
             v.width # "NARROW" /\ v.quality # "LOW")

LastView(v, sent) == IF sent = <<>> THEN v ELSE sent[Len(sent)]

AnalyzeSee ==
    /\ Parse("see")
    /\ UpdateCurrentTime("see")
    /\ LET s == UpdateBySee(see, NewCycle(FALSE), view.width, view.quality)
           a == IF ~SynchMode /\ ~IsSynch(s)
                THEN AdjustSeeSynchNormalMode(s, view)
                ELSE [see |-> s, sent |-> <<>>]
       IN  /\ see' = a.see
           /\ view' = LastView(view, a.sent)
           /\ Deliver(a.sent)
    /\ lastSee' = Phase(t)
    /\ UNCHANGED <<t, elapsed, srvSynchSee, srvMode, mode>>

\* The widths View_Synch can ask for; without see synchronization it goes by
\* the measured delay of the see, any of the three outcomes here.
ViewSynchWidths(s, v) ==
    CASE s.synchSee -> {"NARROW"}
      [] ~IsSynch(s) -> {"NARROW", "NORMAL", v.width}
      [] OTHER -> {IF s.timing = "TIME_0_00" THEN "NORMAL" ELSE "NARROW"}

\* View_Tactical, View_Wide, View_Normal and View_Synch together.
RequestedWidths(s, v) == {"WIDE", "NORMAL"} \cup ViewSynchWidths(s, v)

\* doViewAction and doChangeView: the change_view command added, if any.
DoChangeView(s, v, w) ==
    IF /\ IF IsSynch(s) THEN CanChangeViewTo(s, w, SeeIsCurrent) ELSE mode = "PlayOn"
       /\ w # v.width
    THEN <<Mode(w, "HIGH")>>
    ELSE <<>>

\* action(): drop a synchronization the missing see disproves, adjust, run the
\* view action, predict the next see and send the commands.
Action ==
    LET s0 == IF IsSynch(see) /\ see.till = 0 /\ ~SeeIsCurrent
              THEN SetLastSeeTiming(see, "TIME_NOSYNCH")
              ELSE see
        a == IF SynchMode /\ ~IsSynch(s0)
             THEN AdjustSeeSynchSynchMode(s0, view)
             ELSE [see |-> s0, sent |-> <<>>]
        v1 == LastView(view, a.sent)
    IN  \E w \in RequestedWidths(a.see, v1) :
          LET sent == a.sent \o DoChangeView(a.see, v1, w)
          IN  /\ view' = LastView(view, sent)
              /\ see' = SetViewMode(a.see, LastView(view, sent).width)
              /\ Deliver(sent)

Decide ==
    /\ (DecideNow /\ wire = <<>>) \/ WaitedEnough
    /\ Action
    /\ decided' = TRUE
    /\ UNCHANGED <<t, elapsed, srvSynchSee, srvMode, wire, mode, clock, lastSee>>

Think ==
    /\ Parse("think")
    /\ Action
    /\ decided' = TRUE
    /\ UNCHANGED <<t, elapsed, srvSynchSee, srvMode, mode, clock, lastSee>>

-----------------------------------------------------------------------------
Agent  == AnalyzeSenseBody \/ AnalyzeSee \/ AnalyzeHearReferee \/ AnalyzeOK \/ Decide \/ Think
Server == Tick \/ SetPlayMode \/ LoseMessage \/ AcceptSynchSee
Next   == Agent \/ Server

\* Time passes, and the agent's select loop handles what arrives.
Fairness == WF_vars(Tick) /\ WF_vars(Agent) /\ WF_vars(AcceptSynchSee)

Spec == Init /\ [][Next]_vars /\ Fairness

-----------------------------------------------------------------------------
(* Properties.                                                             *)

\* Offset of the see that a synchronized timing stands for, in units; the
\* name TIME_22_5 stands for 25ms.
PhaseOf(timing) ==
    CASE timing = "TIME_0_00" -> 0
      [] timing = "TIME_22_5" -> 2
      [] timing = "TIME_50_0" -> 4
      [] OTHER -> NoSee

\* Nothing was lost, and no change of the play mode stopped or started the clock.
Undisturbed ==
    /\ spent.message = 0 /\ spent.command = 0
    /\ spent.mode = 0 \/ ~\E m \in PlayModes : ClockStands(m)

\* A synchronized agent (isSynch by M_last_timing), undisturbed, knows the offset at
\* which its last see came.  Everything it does with its view rests on this: a wrong
\* offset makes canChangeViewTo allow changes that lead the sees astray.
TimingIsTrue ==
    Undisturbed /\ see.timing \in SynchTiming /\ ~see.synchSee => PhaseOf(see.timing) = lastSee

\* Cycle boundaries between now and the server's next see.
CyclesTillNextSee ==
    LET shots == IF SeeInterval > elapsed THEN SeeInterval - elapsed ELSE 1
        units == IF srvSynchSee
                 THEN 8 * shots - ((t - SynchSeeOffset) % 8)
                 ELSE 3 * shots - (t % 3)
    IN  (Phase(t) + units) \div 8

NextSeeIsPredicted ==
    IsSynch(see) /\ lastSee # NoSee /\ decided /\ wire = <<>>
        => see.till = CyclesTillNextSee

\* The prediction setViewMode makes at the end of action() is exact: the next see
\* comes in M_cycles_till_next_see cycles, neither earlier nor later, while the agent
\* is undisturbed.
PredictionIsTrue == Undisturbed => NextSeeIsPredicted

\* isDecisionTiming does not wait for a see when none is expected: an agent that
\* decides this way never finds a see arriving later in the same cycle, whatever
\* sees it lost; a lost change_view, a lost sense_body and a change of the clock are
\* another matter.
NoSeeMissed ==
    DecideNow /\ ~SeeIsCurrent /\ lastSee # NoSee /\ wire = <<>>
    /\ spent.command = 0 /\ spent.mode = 0
        => CyclesTillNextSee > 0

\* Outside play_on the agent works its way into synchronization, whatever state
\* play and lost messages left it in, and never leaves it again.
StoppedPlaySynchronizes == <>[](srvMode # "PlayOn") => <>[]IsSynch(see)

\* In synch_see mode the prediction mends itself after the last loss and the last
\* change of the play mode (which may stop or start the clock in mid-cycle).
PredictionRecovers == <>[]NextSeeIsPredicted
=============================================================================
