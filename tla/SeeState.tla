------------------------------ MODULE SeeState ------------------------------
(***************************************************************************)
(* rcsc/player/see_state.{h,cpp}: the player's estimate of when the next   *)
(* see message arrives.  The server sends sense_body at the start of each  *)
(* 100ms cycle and see on a 37.5ms timer of its own, so a player that      *)
(* wants to act after the see and before the end of the cycle must know on *)
(* which of the eight possible offsets the sees fall.  SeeState counts the *)
(* sees of the last cycles, is told when a count pattern reveals the       *)
(* offset (setLastSeeTiming), and from then on predicts offset and cycle   *)
(* of every see from the view mode in use.                                 *)
(*                                                                         *)
(* The object is a record s, each method an operator on it:                *)
(*   timing     M_last_timing                                              *)
(*   seen       M_last_see_time = M_current_time                           *)
(*   count      M_current_see_count                                        *)
(*   history    M_see_count_history (1-based)                              *)
(*   till       M_cycles_till_next_see                                     *)
(*   synchSee   S_synch_see_mode                                           *)
(* Game times are only compared for equality, so a method's time argument  *)
(* is the flag `newCycle': it differs from M_current_time.  M_synch_type   *)
(* is left out: its one reader compares it with SYNCH_SYNC, which no line  *)
(* assigns.  M_view_width/M_view_quality are only read for log lines.      *)
(***************************************************************************)
EXTENDS Integers

ViewWidth   == {"NARROW", "NORMAL", "WIDE"}
ViewQuality == {"LOW", "HIGH"}
ViewMode    == [width : ViewWidth, quality : ViewQuality]

Mode(w, q) == [width |-> w, quality |-> q]

\* The timings that count as synchronized; the enum's other offsets are never
\* assigned.
SynchTiming == {"TIME_0_00", "TIME_50_0", "TIME_22_5"}
Timing      == SynchTiming \cup {"TIME_SYNC", "TIME_NOSYNCH"}

InitTill == 100                    \* M_cycles_till_next_see( 100 )
MaxCount == 4                      \* bound of a see count in one cycle

SeeStateType ==
    [timing   : Timing,
     seen     : BOOLEAN,
     count    : 0..MaxCount,
     history  : [1..3 -> 0..MaxCount],
     till     : 0..InitTill,
     synchSee : BOOLEAN]

InitSeeState ==
    [timing   |-> "TIME_NOSYNCH",
     seen     |-> TRUE,            \* both times are (-1, 0)
     count    |-> 0,
     history  |-> [i \in 1..3 |-> 0],
     till     |-> InitTill,
     synchSee |-> FALSE]

-----------------------------------------------------------------------------
IsSynch(s) == s.synchSee \/ s.timing \in SynchTiming

\* Previous cycle 2 sees, 3 in the one before.
IsSynchedSeeCountNormalMode(s) == s.history[1] = 2 /\ s.history[2] = 3

\* Mutant: the pattern is looked for one cycle too early.
IsSynchedSeeCountSynchMode_Early(s) ==
    /\ s.count = 2
    /\ s.history[1] = 2
    /\ s.history[2] = 3
    /\ s.history[3] = 3

\* 2 sees so far in this cycle, and 3, 2, 3 in the previous ones.
IsSynchedSeeCountSynchMode(s) ==
    /\ s.count = 2
    /\ s.history[1] = 3
    /\ s.history[2] = 2
    /\ s.history[3] = 3

\* Mutant: the three offsets of the narrow view are passed in the wrong order.
GetNextTiming_Swapped(s, w, q) ==
    CASE s.synchSee -> "TIME_SYNC"
      [] ~s.synchSee /\ (q = "LOW" \/ s.timing \notin SynchTiming) -> "TIME_NOSYNCH"
      [] OTHER ->
           CASE w = "WIDE" -> s.timing
             [] w # "WIDE" /\ s.timing = "TIME_0_00" -> "TIME_50_0"
             [] w # "WIDE" /\ s.timing = "TIME_50_0" -> "TIME_0_00"
             [] OTHER -> "TIME_NOSYNCH"

\* The offset of the next see, if the view mode is (w, q) until then.
GetNextTiming(s, w, q) ==
    CASE s.synchSee -> "TIME_SYNC"
      [] ~s.synchSee /\ (q = "LOW" \/ s.timing \notin SynchTiming) -> "TIME_NOSYNCH"
      [] OTHER ->
           CASE w = "WIDE" -> s.timing
             [] w = "NORMAL" /\ s.timing = "TIME_0_00" -> "TIME_50_0"
             [] w = "NORMAL" /\ s.timing = "TIME_50_0" -> "TIME_0_00"
             [] w = "NARROW" /\ s.timing = "TIME_50_0" -> "TIME_22_5"
             [] w = "NARROW" /\ s.timing = "TIME_22_5" -> "TIME_0_00"
             [] OTHER -> "TIME_NOSYNCH"

\* A change that would lead to an offset outside SynchTiming is illegal.
IllegalWidth(s, w) ==
    /\ ~s.synchSee
    /\ \/ w = "NARROW" /\ s.timing = "TIME_0_00"
       \/ w = "NORMAL" /\ s.timing = "TIME_22_5"

\* seeIsCurrent: the argument `current' is M_last_see_time.
CanChangeViewTo(s, w, seeIsCurrent) ==
    /\ seeIsCurrent
    /\ \/ s.synchSee
       \/ w = "WIDE"
       \/ w = "NARROW" /\ s.timing # "TIME_0_00"
       \/ w = "NORMAL" /\ s.timing \in {"TIME_0_00", "TIME_50_0"}

\* Mutants: an offset of the last see, or a width, gets the wrong cycle.
CyclesOf_NoEvery(s, w) == CASE w = "WIDE" -> 3 [] w = "NARROW" -> 1 [] w = "NORMAL" -> 2
CyclesOf_NormalEvery(s, w) == CASE w = "WIDE" -> 3 [] w = "NARROW" -> 1 [] w = "NORMAL" -> 1

CyclesOf(s, w) ==
    CASE w = "WIDE"   -> 3
      [] w = "NARROW" -> 1
      [] w = "NORMAL" -> IF ~s.synchSee /\ s.timing = "TIME_0_00" THEN 1 ELSE 2

-----------------------------------------------------------------------------
SetLastSeeTiming(s, timing) == [s EXCEPT !.timing = timing]

SetViewMode(s, w) ==
    IF s.seen /\ ~IllegalWidth(s, w)
    THEN [s EXCEPT !.till = CyclesOf(s, w)]
    ELSE s

\* Mutants: M_cycles_till_next_see is not clamped at 0; it stops at 1.
CountDown_NoClamp(till)   == till - 1
CountDown_StopAtOne(till) == IF till > 1 THEN till - 1 ELSE till

CountDown(till) == IF till > 0 THEN till - 1 ELSE 0

\* Called with the first message of a new cycle.
SetNewCycle(s, newCycle) ==
    IF ~newCycle THEN s
    ELSE [s EXCEPT !.till    = CountDown(s.till),
                   !.history = [i \in 1..3 |-> IF i = 1 THEN s.count ELSE s.history[i - 1]],
                   !.count   = 0,
                   !.seen    = FALSE]

UpdateBySenseBody(s, newCycle) == SetNewCycle(s, newCycle)

\* The see counter's part of updateBySee.
CountSee(s, newCycle) ==
    IF s.seen /\ ~newCycle
    THEN [s EXCEPT !.count  = IF @ < MaxCount THEN @ + 1 ELSE @,
                   !.timing = IF IsSynch(s) THEN "TIME_NOSYNCH" ELSE @]
    ELSE [SetNewCycle(s, newCycle) EXCEPT !.count = 1, !.seen = TRUE]

UpdateBySee(s, newCycle, w, q) ==
    LET c == CountSee(s, newCycle)
        e == IF c.till > 0 THEN SetViewMode([c EXCEPT !.till = 0], w) ELSE c
    IN  CASE q = "LOW"                  -> SetLastSeeTiming(c, "TIME_NOSYNCH")
          [] q # "LOW" /\ ~IsSynch(c)   -> c
          [] OTHER -> SetLastSeeTiming(e, GetNextTiming(e, w, q))

\* (ok synch_see): switch to the synchronous see mode of rcssserver.
SetSynchSeeMode(s, w) == SetViewMode([s EXCEPT !.synchSee = TRUE], w)

=============================================================================
