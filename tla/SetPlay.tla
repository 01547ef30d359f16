------------------------------- MODULE SetPlay -------------------------------
(***************************************************************************)
(* A set play of our team: the referee and its drop ball, the player that  *)
(* takes the kick, and teammates that ask it to wait.                      *)
(*                                                                         *)
(* The kicker relates two counts: the cycles since the set play began,     *)
(* which the referee counts too, and the decisions since it began or since *)
(* a teammate's wait request was last heard (M_setplay_count).  Requests   *)
(* put the kick off; if they put it off until dropBallTime, the referee    *)
(* drops the ball and the set play is lost.  Each behaviour has an answer  *)
(* of its own to that: HITSZer/src/bhv_set_play_*.cpp and                  *)
(* bhv_goalie_free_kick.cpp.                                               *)
(*                                                                         *)
(* The kicker stands at the ball (Bhv_GoToStaticBall is done) or goes      *)
(* there for a while; what it sees and can do (a pass, its stamina, a see  *)
(* in this cycle) changes freely.  The referee's messages all arrive.      *)
(***************************************************************************)
EXTENDS Integers

CONSTANTS
    dropBallTime,   \* ServerParam::dropBallTime()
    ArriveBy,       \* bound: cycles of a set play after which the kicker is at the ball
    MaxBlind,       \* bound: decisions in a row without a see of their cycle
    MaxLost,        \* bound: commands lost and decisions missed by the kicker
    AgainBy,        \* bound: the last cycle in which the human referee gives a free kick again
    MaxStopped,     \* bound: steps of a stoppage
    MaxPlay,        \* bound: the last cycle that play reaches
    MaxCycle        \* bound: the last cycle that a set play reaches

ASSUME SetPlayAssumption ==
    /\ dropBallTime \in Nat \ {0} /\ ArriveBy \in Nat /\ MaxBlind \in Nat
    /\ MaxLost \in Nat /\ AgainBy \in Nat /\ MaxStopped \in Nat \ {0}
    /\ MaxCycle \in Nat /\ MaxPlay \in 0 .. MaxCycle

\* isServerCycleStoppedMode, of the modes that lead to a kick of ours.
Stoppages == {"OffSide_", "FoulCharge_", "BackPass_"}
Kicks     == {"FreeKick_", "KickIn_", "GoalKick_", "IndFreeKick_", "GoalieCatch_"}
Types     == {"PlayOn"} \cup Stoppages \cup Kicks

Commands == {"none", "go", "turn_point", "turn_ball", "move", "kick"}

VARIABLES
    \* the server
    cycle, stopped,  \* its time
    type,            \* the play mode; every player hears of it at once
    since,           \* the cycle in which it began: what the drop ball counts from
    dropped,         \* the set play that ended with a drop ball in this step, or "none"
    lost,            \* counter of the bound
    \* the kicker
    decided,         \* its decision for this step is made
    command,         \* and this is the body command sent
    facing,          \* what its body is turned to
    start,           \* M_last_set_play_start_time
    setplayCount,    \* M_setplay_count
    heard,           \* AudioMemory::waitRequestTime() is the time of this step, whose
                     \* decision has still to read it
    blind,           \* decisions since the last that had a see of its cycle
    flags,           \* the static variables of Bhv_GoalieFreeKick
    quiet            \* history: steps since a decision that had heard a request

vars == <<cycle, stopped, type, since, dropped, lost,
          decided, command, facing, start, setplayCount, heard, blind, flags, quiet>>

\* No behaviour tells larger counts apart: setplayCount, wait and quiet stay there.
MaxCount == 31
MaxWait  == 5
MaxQuiet == 7
Counted(n, max) == IF n < max THEN n + 1 ELSE n

NoFlags == [first |-> FALSE, second |-> FALSE, wait |-> 0]

\* Play goes on; the count is that of a long or a short time, and an earlier catch that ended
\* without a kick has left the flags as they were.
Init ==
    /\ cycle = 0 /\ stopped = 0 /\ type = "PlayOn" /\ since = 0
    /\ dropped = "none" /\ lost = 0
    /\ decided = FALSE /\ command = "none" /\ facing = "other"
    /\ start = 0 /\ setplayCount \in {0, MaxCount} /\ heard = FALSE /\ blind = 0
    /\ flags \in {NoFlags, [first |-> TRUE, second |-> TRUE, wait |-> MaxWait]} /\ quiet = MaxQuiet

-----------------------------------------------------------------------------
(* The referee and the network.                                            *)

\* The modes the referee may announce after a step of the mode.  What flags an earlier catch
\* left matters in the next catch only.
Announced(t) ==
    CASE t = "PlayOn"      -> IF flags = NoFlags THEN Types \ {"FreeKick_", "IndFreeKick_"}
                                                 ELSE {"PlayOn", "GoalieCatch_"}
      [] t = "OffSide_"    -> {"OffSide_", "FreeKick_"}
      [] t = "FoulCharge_" -> {"FoulCharge_", "FreeKick_", "IndFreeKick_"}
      [] t = "BackPass_"   -> {"BackPass_", "IndFreeKick_"}
      [] OTHER             -> {t}

\* The human referee gives a free kick while one is to be taken.
Again == cycle' <= AgainBy /\ type \in {"FreeKick_", "IndFreeKick_"}

\* updateGameMode at the referee's message `new`: does the set play start now?
StartsNow(old, new) ==
    /\ new # "PlayOn"
    /\ \/ old # new /\ ~(new = "FreeKick_" /\ old \in Stoppages \cup {"IndFreeKick_"})
       \/ old = new /\ new = "FreeKick_"

\* Mutant: the start is the step after the message.
UpdateGameMode_NextStep(old, new) ==
    IF StartsNow(old, new) THEN start' = cycle' + 1 /\ setplayCount' = 0
                           ELSE UNCHANGED <<start, setplayCount>>

\* What the kicker does at the message.
UpdateGameMode(old, new) ==
    IF StartsNow(old, new) THEN start' = cycle' /\ setplayCount' = 0
                           ELSE UNCHANGED <<start, setplayCount>>

\* The referee says a new mode, or the same free kick again.
Announce(new) ==
    /\ type' = new /\ since' = cycle'
    /\ UpdateGameMode(type, new)

NoNews == UNCHANGED <<type, since, start, setplayCount>>

\* The mode after a step in which the server executed the command.
Referee(done) ==
    LET over == type \in Kicks /\ done # "kick" /\ cycle' - since >= dropBallTime
    IN  /\ dropped' = IF over THEN type ELSE "none"
        /\ IF over \/ (type \in Kicks /\ done = "kick")
           THEN Announce("PlayOn")
           ELSE \/ type \in Announced(type) /\ stopped' < MaxStopped /\ NoNews
                \/ \E new \in Announced(type) \ {type} : Announce(new)
                \/ Again /\ Announce("FreeKick_")

NextTime == IF type \in Stoppages THEN cycle' = cycle /\ stopped' = stopped + 1
                                  ELSE cycle' = cycle + 1 /\ stopped' = 0

\* A teammate too far from its place or too tired asks for time in doMove of the set plays.  Of
\* what teammates said in a step one message reaches the kicker, or none.  The hear carries
\* the time the kicker knows: while the clock stands that is the time of the step before,
\* since only the sense_body behind it tells of the new step.
Hear == heard' \in IF type \in Kicks THEN BOOLEAN ELSE {FALSE}

Faced(done) ==
    CASE done = "turn_point"     -> "point"
      [] done = "turn_ball"      -> "ball"
      [] done \in {"go", "move"} -> "other"
      [] OTHER                   -> facing

\* The command arrives, or is lost.
Executed(done) ==
    /\ \/ decided /\ done = command /\ UNCHANGED lost
       \/ (decided => command # "none") /\ lost < MaxLost /\ done = "none" /\ lost' = lost + 1
    /\ facing' = Faced(done)

\* A new step of the server: the command takes effect, a set play ends with the kick or the
\* drop ball, the referee announces a mode, and the kicker hears one of the requests or none.
Tick ==
    /\ cycle < IF type = "PlayOn" THEN MaxPlay ELSE MaxCycle
    /\ NextTime
    /\ \E done \in Commands : Executed(done) /\ Referee(done)
    /\ Hear
    /\ decided' = FALSE /\ command' = "none"
    /\ quiet' = Counted(quiet, MaxQuiet)
    /\ UNCHANGED <<blind, flags>>

-----------------------------------------------------------------------------
(* The kicker's behaviours.  `in` is what it knows: see (of this cycle),   *)
(* rested and fresh (stamina above 0.9 and 0.6), alone (no teammate is     *)
(* known), far (none in reach of an indirect kick), pass (a pass or a shot *)
(* is found), leading (it plays for time) and arrived.                     *)

Inputs == { in \in [see : BOOLEAN, rested : BOOLEAN, fresh : BOOLEAN, alone : BOOLEAN,
                    far : BOOLEAN, pass : BOOLEAN, leading : BOOLEAN, arrived : BOOLEAN] :
              /\ in.rested => in.fresh
              /\ in.alone => in.far /\ ~in.pass
              /\ ~in.arrived => ~in.fresh /\ ~in.far /\ ~in.pass /\ ~in.leading }

real == cycle - start   \* real_set_play_count

\* is_delaying_tactics_situation
Delaying(in) == in.leading /\ real < dropBallTime - (IF type = "GoalKick_" THEN 15 ELSE 2)

\* The three waits' way out: requests and weariness are over.
Forced(in, n) == n >= 15 /\ in.see /\ in.fresh
NotReady(in)  == ~in.see \/ ~in.rested

Clear == IF facing = "ball" THEN "kick" ELSE "turn_ball"

\* Bhv_SetPlayFreeKick::doKick with setplayCount() = n.
FreeKick(in, n) ==
    CASE real < dropBallTime - 5
           /\ \/ stopped # 0 \/ Delaying(in) \/ in.alone \/ n <= 3
              \/ ~Forced(in, n) /\ facing # "point"        -> "turn_point"
      [] /\ real < dropBallTime - 5
         /\ stopped = 0 /\ ~Delaying(in) /\ ~in.alone /\ n > 3
         /\ ~Forced(in, n) /\ facing = "point" /\ NotReady(in) -> "turn_ball"
      [] OTHER -> IF in.pass THEN "kick" ELSE Clear

\* Mutant: a margin of one cycle for the turn and the kick.
KickIn_NoMargin(in, n) ==
    CASE real < dropBallTime - 1 /\ (Delaying(in) \/ in.alone) -> "turn_point"
      [] /\ real < dropBallTime - 1 /\ ~Delaying(in) /\ ~in.alone
         /\ n <= 3 \/ (~Forced(in, n) /\ NotReady(in))         -> "turn_ball"
      [] OTHER -> IF in.pass THEN "kick" ELSE Clear

\* Bhv_SetPlayKickIn::doKick
KickIn(in, n) ==
    CASE real < dropBallTime - 5 /\ (Delaying(in) \/ in.alone) -> "turn_point"
      [] /\ real < dropBallTime - 5 /\ ~Delaying(in) /\ ~in.alone
         /\ n <= 3 \/ (~Forced(in, n) /\ NotReady(in))         -> "turn_ball"
      [] OTHER -> IF in.pass THEN "kick" ELSE Clear

\* Bhv_SetPlayGoalKick::doKick: its last resort, doKickToFarSide, always kicks.
GoalKick(in, n) ==
    IF /\ real < dropBallTime - 10
       /\ \/ Delaying(in) \/ facing # "ball" \/ n <= 6 \/ (n <= 30 /\ in.alone)
          \/ ~Forced(in, n) /\ NotReady(in)
    THEN "turn_ball" ELSE "kick"

\* Mutant: the last cycle is kept for the shot.
IndirectFreeKick_NoMargin(in, n) ==
    IF \/ stopped > 0 \/ facing # "point" \/ (n <= 10 /\ in.alone)
       \/ ~in.pass /\ (n <= 3 \/ (in.far /\ real <= dropBallTime - 2))
    THEN "turn_point" ELSE "kick"

\* Bhv_SetPlayIndirectFreeKick::doKicker
IndirectFreeKick(in, n) ==
    IF \/ stopped > 0 \/ facing # "point" \/ (n <= 10 /\ in.alone)
       \/ ~in.pass /\ (n <= 3 \/ (in.far /\ real <= dropBallTime - 3))
    THEN "turn_point" ELSE "kick"

\* Bhv_GoalieFreeKick::execute: the command and the flags that it leaves.  The catch is a
\* cycle older than the mode; `far` stands for no teammate in the penalty area.
timeDiff == real + 1

\* Mutant: the wait after the second move is not counted on.
GoalieFreeKick_NoCount(in, n) ==
    CASE timeDiff <= 2   -> [command |-> "none", flags |-> NoFlags]
      [] timeDiff > 2 /\ ~flags.first
                         -> [command |-> "move", flags |-> [NoFlags EXCEPT !.first = TRUE]]
      [] OTHER ->
           IF timeDiff < 50 \/ n < 3 \/ flags.second
           THEN [command |-> "none", flags |-> flags]
           ELSE [command |-> "move", flags |-> [flags EXCEPT !.second = TRUE, !.wait = 0]]

GoalieFreeKick(in, n) ==
    CASE timeDiff <= 2   -> [command |-> "none", flags |-> NoFlags]
      [] timeDiff > 2 /\ ~flags.first
                         -> [command |-> "move", flags |-> [NoFlags EXCEPT !.first = TRUE]]
      [] /\ timeDiff > 2 /\ flags.first
         /\ \/ timeDiff < 50 \/ n < 3
            \/ timeDiff < dropBallTime - 15 /\ (~in.rested \/ ~in.far)
                         -> [command |-> "none", flags |-> flags]
      [] OTHER ->
           IF ~flags.second
           THEN [command |-> "move", flags |-> [flags EXCEPT !.second = TRUE, !.wait = 0]]
           ELSE IF Counted(flags.wait, MaxWait) < MaxWait \/ ~in.see
           THEN [command |-> "none", flags |-> [flags EXCEPT !.wait = Counted(@, MaxWait)]]
           ELSE [command |-> "kick", flags |-> NoFlags]

\* Bhv_SetPlay::execute for a field player: the commands its behaviour may send.  Where a
\* foul was decides which free kick is prepared during the stoppage.
FieldPlayer(in, n) ==
    IF ~in.arrived THEN {"go"}
    ELSE CASE type \in {"FreeKick_", "OffSide_"}     -> {FreeKick(in, n)}
           [] type = "KickIn_"                       -> {KickIn(in, n)}
           [] type = "GoalKick_"                     -> {GoalKick(in, n)}
           [] type \in {"IndFreeKick_", "BackPass_"} -> {IndirectFreeKick(in, n)}
           [] type = "FoulCharge_"       -> {FreeKick(in, n), IndirectFreeKick(in, n)}

\* Mutant: a request does not start the count over.
CountNow_NoReset == Counted(setplayCount, MaxCount)

\* updateJustBeforeDecision
CountNow == IF heard THEN 0 ELSE Counted(setplayCount, MaxCount)

\* A decision in a set play.
KickerDecides ==
    /\ ~decided /\ type # "PlayOn"
    /\ \E in \in Inputs :
         /\ blind >= MaxBlind => in.see
         /\ cycle - since >= ArriveBy => in.arrived
         /\ blind' = IF in.see THEN 0 ELSE blind + 1
         /\ IF type = "GoalieCatch_"
            THEN LET free == GoalieFreeKick(in, CountNow)
                 IN  command' = free.command /\ flags' = free.flags
            ELSE command' \in FieldPlayer(in, CountNow) /\ UNCHANGED flags
    /\ setplayCount' = CountNow
    /\ quiet' = IF heard THEN 0 ELSE quiet
    /\ decided' = TRUE /\ heard' = FALSE
    /\ UNCHANGED <<cycle, stopped, type, since, dropped, lost, facing, start>>

\* And one in play, which only counts.
PlayerDecides ==
    /\ ~decided /\ type = "PlayOn"
    /\ setplayCount' = CountNow
    /\ quiet' = IF heard THEN 0 ELSE quiet
    /\ decided' = TRUE /\ heard' = FALSE
    /\ UNCHANGED <<cycle, stopped, type, since, dropped, lost, command, facing, start,
                   blind, flags>>

Next == Tick \/ KickerDecides \/ PlayerDecides

Spec == Init /\ [][Next]_vars

-----------------------------------------------------------------------------
(* Properties.                                                             *)

\* Every variable has its type.
TypeOK ==
    /\ cycle \in 0 .. MaxCycle /\ stopped \in 0 .. MaxStopped
    /\ type \in Types /\ since \in 0 .. cycle
    /\ dropped \in Kicks \cup {"none"}
    /\ lost \in 0 .. MaxLost
    /\ decided \in BOOLEAN /\ command \in Commands /\ facing \in {"other", "point", "ball"}
    /\ start \in 0 .. cycle /\ setplayCount \in 0 .. MaxCount /\ heard \in BOOLEAN
    /\ blind \in 0 .. MaxBlind
    /\ flags \in [first : BOOLEAN, second : BOOLEAN, wait : 0 .. MaxWait]
    /\ quiet \in 0 .. MaxQuiet

Dropped(t) == dropped = t /\ ~decided

\* However teammates ask, a free kick, a kick-in and a goal kick of ours are taken before the
\* referee drops the ball, even if MaxLost steps of the kicker go wrong: the margins of 5 and
\* 10 cycles in bhv_set_play_free_kick.cpp, bhv_set_play_kick_in.cpp and
\* bhv_set_play_goal_kick.cpp suffice for the last turns and the kick.
TakenInTime == \A t \in {"FreeKick_", "KickIn_", "GoalKick_"} : ~Dropped(t)

\* bhv_set_play_indirect_free_kick.cpp has no such margin against requests: but an indirect
\* free kick is lost to the drop ball only if one was heard within the last 11 decisions, or if
\* two steps of the kicker went wrong.
IndirectTakenInTime == Dropped("IndFreeKick_") => setplayCount <= 11 \/ lost >= 2

\* Nor has bhv_goalie_free_kick.cpp: a catch is lost only if a request was heard within the last
\* 8 decisions, or if a step of the goalie went wrong.
CatchTakenInTime == Dropped("GoalieCatch_") => setplayCount <= 8 \/ lost >= 1

\* The steps without a request that a kick waits for.
Patience == [FreeKick_ |-> 4, KickIn_ |-> 4, GoalKick_ |-> 7, IndFreeKick_ |-> 0,
             GoalieCatch_ |-> 3]

\* Until time runs out for them, the behaviours kick only when the steps since a decision that
\* heard a request are as many, whatever steps the kicker missed in between and whatever the
\* referee announced: a request is not forgotten by a count that started over or by a turn.
RequestIsHeeded ==
    [][ /\ type \in Kicks /\ command' = "kick"
        /\ real < dropBallTime - (IF type = "GoalKick_" THEN 10 ELSE 5) \/ type = "GoalieCatch_"
        => quiet >= Patience[type] ]_vars
==============================================================================
