------------------------------- MODULE Shootout -------------------------------
(***************************************************************************)
(* The referee's play modes as the players of one team follow them, through *)
(* ordinary play and the penalty shootout.                                 *)
(*                                                                         *)
(*   GameMode::update                    Updated                           *)
(*   PlayerAgent::Impl::analyzeHearReferee  AnalyzeHearReferee             *)
(*   WorldModel::updateGameMode          UpdateGameMode                    *)
(*   PenaltyKickState::update            UpdatePenalty                     *)
(*   Bhv_PenaltyKick::execute            Role                              *)
(*   is_reverse_side                     ReverseSide                       *)
(*                                                                         *)
(* No message tells who takes a penalty kick: each player counts the setup *)
(* messages it hears and derives the kicker from its own count.  The       *)
(* referee and the network are external: the referee announces each mode   *)
(* to every player, the players hear it in any order, some may not.        *)
(*                                                                         *)
(* Left out: scores and cards (kept and not used here), the start time of  *)
(* the set play, the fullstate world model, the intention queue.  A time   *)
(* is the cycle of a message, without the count of a standing clock: the   *)
(* one comparison of times, in Updated, is between a catch and the free    *)
(* kick of the same step.  A ball is caught while the clock runs, the      *)
(* clock advances in that step, and both messages come before its          *)
(* sense_body: the count is 0 at both.                                     *)
(***************************************************************************)
EXTENDS Integers, Sequences

CONSTANTS
    TeamSize,     \* 11 in the code
    Goalie,       \* uniform number of the goalie
    OurSide,
    OtherKinds,   \* messages of the referee that are no play mode
    Losable,      \* types of the messages that may get lost
    MaxLoss,      \* bound on lost messages
    MaxPlay,      \* bound on announcements before the shootout
    MaxOther,     \* bound on messages that are no play mode
    MaxKicks      \* bound on the kicks of each team

Unum  == 1..TeamSize
Team  == {"LEFT", "RIGHT"}
Side  == Team \cup {"NEUTRAL"}

KickType    == {"PenaltySetup_", "PenaltyReady_", "PenaltyTaken_"}
ResultType  == {"PenaltyMiss_", "PenaltyScore_"}
PenaltyType == KickType \cup ResultType \cup {"PenaltyOnfield_", "PenaltyFoul_"}
PlayType    == {"BeforeKickOff", "PlayOn", "FreeKick_", "GoalieCatch_", "OffSide_"}
ModeType    == PlayType \cup PenaltyType \cup {"TimeOver"}

ASSUME ConstantsAssumption ==
    /\ TeamSize \in Nat \ {0} /\ Goalie \in Unum /\ OurSide \in Team
    /\ OtherKinds \subseteq {"card", "training", "unknown"}
    /\ Losable \subseteq ModeType \cup OtherKinds
    /\ MaxLoss \in Nat /\ MaxPlay \in Nat /\ MaxOther \in Nat /\ MaxKicks \in Nat

VARIABLES
    mode,      \* referee: the mode in force
    onfield,   \* referee: side of the goal used for the kicks
    kicks,     \* referee: kicks set up so far, by side
    cycle,     \* referee: the clock
    spent,     \* announcements before the shootout, other messages, losses so far
    inbox,     \* messages on their way to each player
    missed,    \* players that did not hear the whole of the last announcement
    gameMode,  \* game_mode_ of each player
    stopped,   \* server_cycle_stopped_
    alive,     \* the player has not said bye
    world,     \* WorldModel::M_game_mode of each player
    penalty    \* WorldModel::M_penalty_kick_state of each player

referee == <<mode, onfield, kicks, cycle>>
players == <<gameMode, stopped, alive, world, penalty>>
vars    == <<referee, spent, inbox, missed, players>>

Play(type, side) == [type |-> type, side |-> side]
Mode     == [type : ModeType, side : Side]
GameMode == [type : ModeType, side : Side, time : Int]
Message  == [type : ModeType \cup OtherKinds, side : Side, cycle : Nat]

Unum_Unknown == -1

PenaltyState ==
    [onfield : Side, taker : Side, ours : Nat, theirs : Nat,
     kickerSide : Side, kicker : Unum \cup {Unum_Unknown}]

Init ==
    /\ mode = Play("BeforeKickOff", "NEUTRAL")
    /\ onfield = "NEUTRAL" /\ kicks = [s \in Team |-> 0] /\ cycle = 0
    /\ spent = [play |-> 0, other |-> 0, loss |-> 0]
    /\ inbox = [p \in Unum |-> <<>>] /\ missed = {}
    /\ gameMode = [p \in Unum |-> [type |-> "BeforeKickOff", side |-> "NEUTRAL", time |-> -1]]
    /\ stopped = [p \in Unum |-> TRUE] /\ alive = [p \in Unum |-> TRUE]
    /\ world = [p \in Unum |-> Play("BeforeKickOff", "NEUTRAL")]
    \* M_current_taker_side has no initial value.
    /\ penalty \in [Unum -> [onfield : {"NEUTRAL"}, taker : Side, ours : {0}, theirs : {0},
                             kickerSide : {"NEUTRAL"}, kicker : {Unum_Unknown}]]

-----------------------------------------------------------------------------
(* The referee (rcssserver).                                               *)

Opponent(s) == IF s = "LEFT" THEN "RIGHT" ELSE "LEFT"

\* Of the modes in PlayType; OffSide_ stands for the other fouls too.
IsServerCycleStoppedMode(m) == m.type \in {"BeforeKickOff", "OffSide_"}

\* A mode lasts many cycles, so all have heard the last one; modes announced
\* together come in one cycle.
Announce(modes) ==
    /\ \A p \in Unum : inbox[p] = <<>>
    /\ cycle' = IF IsServerCycleStoppedMode(mode) THEN cycle ELSE cycle + 1
    /\ LET heard == [i \in DOMAIN modes |->
                       [type |-> modes[i].type, side |-> modes[i].side, cycle |-> cycle']]
       IN  inbox' = [p \in Unum |-> heard]
    /\ missed' = {}

\* Ordinary play.  A goalie's catch, of a ball in play, is a free kick of its side,
\* announced in the same cycle.
PlayMode ==
    /\ mode.type \in PlayType
    /\ spent.play < MaxPlay
    /\ spent' = [spent EXCEPT !.play = @ + 1]
    /\ \E type \in PlayType, side \in Team :
         /\ type = "GoalieCatch_" => ~IsServerCycleStoppedMode(mode)
         /\ mode' = Play(type, IF type \in {"BeforeKickOff", "PlayOn"} THEN "NEUTRAL" ELSE side)
         /\ Announce(IF type = "GoalieCatch_" THEN <<mode', Play("FreeKick_", side)>> ELSE <<mode'>>)
    /\ UNCHANGED <<onfield, kicks, players>>

\* Set up a kick of side s, after the announcements of `first'.
Setup(s, first) ==
    /\ kicks[s] < MaxKicks
    /\ kicks' = [kicks EXCEPT ![s] = @ + 1]
    /\ mode' = Play("PenaltySetup_", s)
    /\ Announce(first \o <<mode'>>)
    /\ UNCHANGED <<spent, players>>

StartShootout ==
    /\ mode.type \in PlayType
    /\ onfield' \in Team
    /\ \E s \in Team : Setup(s, <<Play("PenaltyOnfield_", onfield')>>)

NextKick ==
    /\ mode.type \in ResultType
    /\ Setup(Opponent(mode.side), <<>>)
    /\ UNCHANGED onfield

KickGoesOn ==
    /\ mode.type \in {"PenaltySetup_", "PenaltyReady_"}
    /\ mode' = Play(IF mode.type = "PenaltySetup_" THEN "PenaltyReady_" ELSE "PenaltyTaken_", mode.side)
    /\ Announce(<<mode'>>)
    /\ UNCHANGED <<onfield, kicks, spent, players>>

\* A foul, of either side, ends a kick at any time.
KickEnds ==
    /\ mode.type \in KickType
    /\ \E type \in ResultType :
         /\ mode' = Play(type, mode.side)
         /\ \/ mode.type = "PenaltyTaken_" /\ Announce(<<mode'>>)
            \/ \E s \in Team : Announce(<<Play("PenaltyFoul_", s), mode'>>)
    /\ UNCHANGED <<onfield, kicks, spent, players>>

TimeOver ==
    /\ mode.type \in PlayType \cup ResultType
    /\ mode' = Play("TimeOver", "NEUTRAL")
    /\ Announce(<<mode'>>)
    /\ UNCHANGED <<onfield, kicks, spent, players>>

\* Cards, training messages, and strings the parser does not know.
OtherMessage ==
    /\ mode.type # "TimeOver" /\ spent.other < MaxOther
    /\ spent' = [spent EXCEPT !.other = @ + 1]
    /\ \E kind \in OtherKinds :
         inbox' = [p \in Unum |-> Append(inbox[p], [type |-> kind, side |-> "NEUTRAL", cycle |-> cycle])]
    /\ UNCHANGED <<referee, missed, players>>

Lose(p) ==
    /\ inbox[p] # <<>> /\ inbox[p][1].type \in Losable
    /\ spent.loss < MaxLoss
    /\ spent' = [spent EXCEPT !.loss = @ + 1]
    /\ inbox' = [inbox EXCEPT ![p] = Tail(@)]
    /\ missed' = missed \cup {p}
    /\ UNCHANGED <<referee, players>>

-----------------------------------------------------------------------------
(* A player.                                                               *)

\* Mutant: any free kick of the side that caught the ball is kept as a catch.
Updated_AnyFreeKick(g, type, side, now) ==
    IF g.type = "GoalieCatch_" /\ type = "FreeKick_" /\ g.side = side
    THEN [g EXCEPT !.time = now]
    ELSE [type |-> type, side |-> side, time |-> now]

\* GameMode::update of a known mode: the free kick of a goalie's catch, in the
\* same cycle, leaves the mode GoalieCatch_.
Updated(g, type, side, now) ==
    IF g.type = "GoalieCatch_" /\ type = "FreeKick_" /\ g.side = side /\ g.time = now
    THEN [g EXCEPT !.time = now]
    ELSE [type |-> type, side |-> side, time |-> now]

\* Mutant: every mode of a kick counts one.
OurCount_EveryMode(k, m) == IF m.type \in KickType /\ m.side = OurSide THEN k.ours + 1 ELSE k.ours

OurCount(k, m) == IF m.type = "PenaltySetup_" /\ m.side = OurSide THEN k.ours + 1 ELSE k.ours

\* Mutant: the side is taken over one mode late.
TakerSide_Late(k, m) == IF m.type = "PenaltyReady_" THEN m.side ELSE k.taker

TakerSide(k, m) == IF m.type = "PenaltySetup_" THEN m.side ELSE k.taker

\* Mutant: one too high.
TakerUnum_OffByOne(n) == TeamSize + 1 - ((n - 1) % TeamSize)

\* Mutant: from 1 to 11.
TakerUnum_Ascending(n) == 1 + ((n - 1) % TeamSize)

TakerUnum(n) == TeamSize - ((n - 1) % TeamSize)

\* PenaltyKickState::update: the members the mode changes, then the default
\* assignment of the kicker from the count of our kicks.
UpdatePenalty(k, m) ==
    LET n == OurCount(k, m)
        assigned == n > 0 /\ m.type \in KickType
    IN  [onfield    |-> IF m.type = "PenaltyOnfield_" THEN m.side ELSE k.onfield,
         taker      |-> TakerSide(k, m),
         ours       |-> n,
         theirs     |-> IF m.type = "PenaltySetup_" /\ m.side # OurSide THEN k.theirs + 1 ELSE k.theirs,
         kickerSide |-> IF assigned THEN m.side ELSE "NEUTRAL",
         kicker     |-> IF assigned THEN TakerUnum(n) ELSE Unum_Unknown]

UpdateGameMode(p, m) ==
    /\ world' = [world EXCEPT ![p] = m]
    /\ penalty' = IF m.type \in PenaltyType
                  THEN [penalty EXCEPT ![p] = UpdatePenalty(@, m)] ELSE penalty

Receive(p) ==
    /\ inbox[p] # <<>>
    /\ inbox' = [inbox EXCEPT ![p] = Tail(@)]
    /\ UNCHANGED <<referee, spent, missed>>

\* Mutant: an unknown string is handled like the play_on it is taken for.
AnalyzeHearOther_Status(p) ==
    /\ Receive(p)
    /\ LET m == inbox[p][1]
       IN  /\ m.type \in OtherKinds
           /\ gameMode' = IF m.type = "unknown"
                          THEN [gameMode EXCEPT ![p] = Updated(@, "PlayOn", "NEUTRAL", m.cycle)]
                          ELSE gameMode
           /\ stopped' = IF m.type = "unknown" THEN [stopped EXCEPT ![p] = FALSE] ELSE stopped
    /\ UNCHANGED <<alive, world, penalty>>

\* analyzeHearReferee, a string that is no play mode: an unknown one is taken for
\* play_on (in a protocol from version 7 on), but only by game_mode_.
AnalyzeHearOther(p) ==
    /\ Receive(p)
    /\ LET m == inbox[p][1]
       IN  /\ m.type \in OtherKinds
           /\ gameMode' = IF m.type = "unknown"
                          THEN [gameMode EXCEPT ![p] = Updated(@, "PlayOn", "NEUTRAL", m.cycle)]
                          ELSE gameMode
    /\ UNCHANGED <<stopped, alive, world, penalty>>

\* analyzeHearReferee, a play mode: updateServerStatus, then bye or the world model.
AnalyzeHearMode(p) ==
    /\ Receive(p)
    /\ inbox[p][1].type \in ModeType
    /\ LET m == inbox[p][1]
           g == Updated(gameMode[p], m.type, m.side, m.cycle)
       IN  /\ gameMode' = [gameMode EXCEPT ![p] = g]
           /\ stopped' = [stopped EXCEPT ![p] = IsServerCycleStoppedMode(g)]
           /\ IF g.type = "TimeOver"
              THEN /\ alive' = [alive EXCEPT ![p] = FALSE]
                   /\ UNCHANGED <<world, penalty>>
              ELSE /\ UpdateGameMode(p, Play(g.type, g.side))
                   /\ UNCHANGED alive

-----------------------------------------------------------------------------
(* What a player does with it.                                             *)

IsKickTaker(p) == penalty[p].kickerSide = OurSide /\ penalty[p].kicker = p

\* Bhv_PenaltyKick::execute, with the moves of the kicker (doKickerSetup,
\* doKickerReady, doKicker) and of the defending goalie (doGoalieSetup, doGoalie)
\* each taken together; after the team's own kick the goalie goes to its goal.
Role(p) ==
    LET ourKick == penalty[p].taker = OurSide
    IN  CASE world[p].type \in KickType /\ ourKick /\ IsKickTaker(p)      -> "Kicker"
          [] world[p].type \in KickType /\ ~ourKick /\ p = Goalie         -> "Goalie"
          [] world[p].type \in ResultType /\ ourKick /\ p = Goalie        -> "Goalie"
          [] OTHER                                                        -> "Wait"

\* Mutant: the kicker and the goalie are not told apart.
ReverseSide_Same(p) ==
    IF penalty[p].onfield # "NEUTRAL" /\ (IsKickTaker(p) \/ p = Goalie)
    THEN penalty[p].onfield = "LEFT"
    ELSE OurSide = "RIGHT"

\* is_reverse_side: the player turns the field round, to attack the left goal and
\* defend the right one.
ReverseSide(p) ==
    CASE penalty[p].onfield # "NEUTRAL" /\ IsKickTaker(p)                 -> penalty[p].onfield = "LEFT"
      [] penalty[p].onfield # "NEUTRAL" /\ ~IsKickTaker(p) /\ p = Goalie  -> penalty[p].onfield = "RIGHT"
      [] OTHER                                                            -> OurSide = "RIGHT"

-----------------------------------------------------------------------------
Referee == \/ PlayMode \/ StartShootout \/ NextKick \/ KickGoesOn \/ KickEnds
           \/ TimeOver \/ OtherMessage
Player(p) == AnalyzeHearMode(p) \/ AnalyzeHearOther(p)
Next == Referee \/ \E p \in Unum : Player(p) \/ Lose(p)

Spec == Init /\ [][Next]_vars

-----------------------------------------------------------------------------
(* Properties.                                                             *)

TypeOK ==
    /\ mode \in Mode /\ onfield \in Side /\ kicks \in [Team -> Nat] /\ cycle \in Nat
    /\ spent \in [play : Nat, other : Nat, loss : Nat]
    /\ inbox \in [Unum -> Seq(Message)] /\ missed \subseteq Unum
    /\ gameMode \in [Unum -> GameMode]
    /\ stopped \in [Unum -> BOOLEAN] /\ alive \in [Unum -> BOOLEAN]
    /\ world \in [Unum -> Mode]
    /\ penalty \in [Unum -> PenaltyState]

AllHeard == \A p \in Unum : inbox[p] = <<>>
Kickers  == {p \in Unum : Role(p) = "Kicker"}

\* No two players ever take the kick, and when all have heard of a kick of the team
\* the kicker is the one whose turn it is, "from 11 to 1" (ChangeLog:830).
OneKicker ==
    /\ \A p, q \in Kickers : p = q
    /\ AllHeard /\ mode.type \in KickType /\ mode.side = OurSide
         => Kickers = {TakerUnum(kicks[OurSide])}

\* "their kick phase" (bhv_penalty_kick.cpp:84, 101, 118): in a kick of the other
\* team, as far as the goalie knows, it defends.
GoalieDefends ==
    world[Goalie].type \in KickType /\ world[Goalie].side # OurSide => Role(Goalie) = "Goalie"

\* Whoever steps up as the kicker attacks, and the goalie in its goal defends, the goal
\* the referee chose, whichever half of the field it belongs to and however much of what
\* was announced the player has still to hear.
GoalIsTheReferees ==
    /\ \A p \in Kickers : ReverseSide(p) = (onfield = "LEFT")
    /\ Role(Goalie) = "Goalie" => ReverseSide(Goalie) = (onfield = "RIGHT")

\* A player that heard the last announcement knows the mode, whatever it missed
\* before; the free kick of a catch it knows as a catch, any other as a free kick.
WorldKnowsMode ==
    \A p \in Unum : alive[p] /\ inbox[p] = <<>> /\ p \notin missed => world[p] = mode

\* A player counts time by sense_body if and only if its world model holds a mode
\* with a standing clock, also after strings it does not know.
ClockFlagIsTheWorlds ==
    \A p \in Unum : alive[p] => stopped[p] = IsServerCycleStoppedMode(world[p])

-----------------------------------------------------------------------------
(* The kicks in order.                                                     *)

Turn == IF kicks[OurSide] = 0 THEN 1 ELSE TakerUnum(kicks[OurSide])

\* The player whose turn it is has counted the kick.
Taken == kicks[OurSide] = 0 \/ penalty[Turn].ours = kicks[OurSide]

Order == INSTANCE KickOrder WITH turn <- Turn, taken <- Taken, kickers <- Kickers

\* The players, each with a count of its own, behave as if the team shared one turn
\* that goes "from 11 to 1" (ChangeLog:830): each kick is taken by the next player,
\* who steps up once, with nobody else there, before another kick is set up.
KicksInOrder == Order!Spec
=============================================================================
