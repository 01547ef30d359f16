------------------------------- MODULE KickOrder -------------------------------
(***************************************************************************)
(* What the players of a team promise of the penalty kicks, without saying *)
(* how: the turn goes "from 11 to 1" (ChangeLog:830) and round again; the  *)
(* player whose turn it is steps up once, alone, and leaves; the next kick *)
(* waits for it.  Shootout has no shared turn: every player derives it     *)
(* from the messages it has counted.                                       *)
(***************************************************************************)
EXTENDS Naturals

CONSTANT TeamSize    \* 11 in the code

VARIABLES
    turn,      \* whose kick it is
    taken,     \* its player has stepped up for the last kick that was set up
    kickers    \* the players that take a kick now

vars == <<turn, taken, kickers>>

\* Before the first kick the turn is as after the last of a round.
Init == turn = 1 /\ taken = TRUE /\ kickers = {}

SetUp ==
    /\ taken /\ kickers = {}
    /\ turn' = IF turn = 1 THEN TeamSize ELSE turn - 1
    /\ taken' = FALSE
    /\ UNCHANGED kickers

StepUp ==
    /\ ~taken
    /\ kickers' = {turn} /\ taken' = TRUE
    /\ UNCHANGED turn

Leave ==
    /\ kickers # {}
    /\ kickers' = {}
    /\ UNCHANGED <<turn, taken>>

Next == SetUp \/ StepUp \/ Leave

Spec == Init /\ [][Next]_vars
=============================================================================
