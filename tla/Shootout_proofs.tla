---------------------------- MODULE Shootout_proofs ----------------------------
(***************************************************************************)
(* Theorems about Shootout, for every team size, any number of kicks and   *)
(* announcements, and any losses unless a theorem says otherwise:          *)
(*                                                                         *)
(*   TypeCorrect       Spec => []TypeOK                                    *)
(*   ClockFlagAgrees   Spec => []ClockFlagIsTheWorlds                      *)
(*   KickersAgree      no setup lost: Spec => []OneKicker                  *)
(*   GoalieInPlace     no setup lost: Spec => []GoalieDefends              *)
(*   CountsImplementTurn   no setup lost: Spec => KicksInOrder             *)
(*   ModeIsKnown       Spec => []WorldKnowsMode                            *)
(*   GoalIsKnown   no setup and no goal lost: Spec => []GoalIsTheReferees  *)
(*                                                                         *)
(* All that need that no setup is lost rest on the invariant IInv: what    *)
(* each player has counted, and what is still on its way to it, make up    *)
(* the referee's count.  ModeIsKnown has an invariant of its own.          *)
(***************************************************************************)
EXTENDS Shootout, SequenceTheorems, NatTheorems, TLAPS

-----------------------------------------------------------------------------
(* Types.                                                                  *)

LEMMA TakerUnumType ==
    ASSUME NEW n \in Nat, n > 0
    PROVE  TakerUnum(n) \in Unum
<1>1. n - 1 \in Nat
  OBVIOUS
<1>2. ASSUME NEW k \in Nat PROVE k % TeamSize \in 0..(TeamSize - 1)
  BY ConstantsAssumption
<1>3. (n - 1) % TeamSize \in 0..(TeamSize - 1)
  BY <1>1, <1>2
<1> QED BY <1>3, ConstantsAssumption DEF TakerUnum, Unum

LEMMA UpdatePenaltyType ==
    ASSUME NEW k \in PenaltyState, NEW m \in Mode
    PROVE  UpdatePenalty(k, m) \in PenaltyState
<1> DEFINE n == OurCount(k, m)
<1>1. k.onfield \in Side /\ k.taker \in Side /\ k.ours \in Nat /\ k.theirs \in Nat
  BY DEF PenaltyState
<1>2. n \in Nat /\ TakerSide(k, m) \in Side
  BY <1>1 DEF OurCount, TakerSide, Mode
<1>3. n > 0 => TakerUnum(n) \in Unum
  BY <1>2, TakerUnumType
<1>4. m.side \in Side /\ "NEUTRAL" \in Side
  BY DEF Mode, Side
<1> HIDE DEF n
<1>5. UpdatePenalty(k, m) =
        [onfield    |-> IF m.type = "PenaltyOnfield_" THEN m.side ELSE k.onfield,
         taker      |-> TakerSide(k, m),
         ours       |-> n,
         theirs     |-> IF m.type = "PenaltySetup_" /\ m.side # OurSide THEN k.theirs + 1 ELSE k.theirs,
         kickerSide |-> IF n > 0 /\ m.type \in KickType THEN m.side ELSE "NEUTRAL",
         kicker     |-> IF n > 0 /\ m.type \in KickType THEN TakerUnum(n) ELSE Unum_Unknown]
  BY DEF UpdatePenalty, n
<1> QED BY <1>1, <1>2, <1>3, <1>4, <1>5 DEF PenaltyState

\* The messages of an announcement.
Heard(modes, c) ==
    [i \in DOMAIN modes |-> [type |-> modes[i].type, side |-> modes[i].side, cycle |-> c]]

LEMMA HeardType ==
    ASSUME NEW modes \in Seq(Mode), NEW c \in Nat
    PROVE  Heard(modes, c) \in Seq(Message)
<1>1. ASSUME NEW i \in DOMAIN modes
      PROVE  [type |-> modes[i].type, side |-> modes[i].side, cycle |-> c] \in Message
  <2>1. modes[i] \in Mode
    OBVIOUS
  <2> QED BY <2>1 DEF Mode, Message
<1>2. PICK n \in Nat : DOMAIN modes = 1..n
  OBVIOUS
<1>3. Heard(modes, c) \in [1..n -> Message]
  BY <1>1, <1>2 DEF Heard
<1> QED BY <1>3

LEMMA AnnounceType ==
    ASSUME TypeOK, NEW modes \in Seq(Mode), Announce(modes)
    PROVE  /\ cycle' \in Nat /\ inbox' \in [Unum -> Seq(Message)] /\ missed' \subseteq Unum
           /\ inbox' = [p \in Unum |-> Heard(modes, cycle')]
           /\ \A p \in Unum : inbox[p] = <<>>
<1>1. cycle' \in Nat
  BY DEF Announce, TypeOK
<1>2. inbox' = [p \in Unum |-> Heard(modes, cycle')]
  BY DEF Announce, Heard
<1>3. Heard(modes, cycle') \in Seq(Message)
  BY <1>1, HeardType
<1> QED BY <1>1, <1>2, <1>3 DEF Announce

LEMMA SetupType ==
    ASSUME TypeOK, NEW s \in Team, NEW first \in Seq(Mode), Setup(s, first), onfield' \in Side
    PROVE  TypeOK'
<1>1. mode' \in Mode /\ <<mode'>> \in Seq(Mode)
  BY DEF Setup, Play, Mode, ModeType, PenaltyType, KickType, Side
<1>2. first \o <<mode'>> \in Seq(Mode)
  BY <1>1
<1>3. kicks' \in [Team -> Nat]
  BY DEF Setup, TypeOK
<1>4. Announce(first \o <<mode'>>)
  BY DEF Setup
<1>5. cycle' \in Nat /\ inbox' \in [Unum -> Seq(Message)] /\ missed' \subseteq Unum
  BY <1>2, <1>4, AnnounceType
<1> QED BY <1>1, <1>3, <1>5 DEF Setup, TypeOK, players

LEMMA TailType ==
    ASSUME TypeOK, NEW p \in Unum, inbox[p] # <<>>, inbox' = [inbox EXCEPT ![p] = Tail(@)]
    PROVE  inbox[p][1] \in Message /\ inbox' \in [Unum -> Seq(Message)]
<1>1. inbox \in [Unum -> Seq(Message)] /\ inbox[p] \in Seq(Message)
  BY DEF TypeOK
<1>2. Tail(inbox[p]) \in Seq(Message) /\ inbox[p][1] \in Message
  BY <1>1
<1> QED BY <1>1, <1>2

LEMMA UpdatedType ==
    ASSUME NEW g \in GameMode, NEW m \in Mode, NEW now \in Int
    PROVE  Updated(g, m.type, m.side, now) \in GameMode
BY DEF Updated, GameMode, Mode

\* A play mode changes a player's mode, flag and life, and unless it ends the game
\* the mode and the penalty state of the world model.
LEMMA HearModeType ==
    ASSUME TypeOK, NEW p \in Unum, AnalyzeHearMode(p)
    PROVE  TypeOK'
<1> DEFINE m == inbox[p][1]
           g == Updated(gameMode[p], m.type, m.side, m.cycle)
<1>1. m \in Message /\ inbox' \in [Unum -> Seq(Message)]
  BY TailType DEF AnalyzeHearMode, Receive
<1>2. m.type \in ModeType /\ m.side \in Side /\ m.cycle \in Int
  BY <1>1 DEF AnalyzeHearMode, Message
<1> HIDE DEF m
<1>3. g \in GameMode
  <2>1. gameMode[p] \in GameMode
    BY DEF TypeOK
  <2>2. Play(m.type, m.side) \in Mode
    BY <1>2 DEF Play, Mode
  <2>3. g = Updated(gameMode[p], Play(m.type, m.side).type, Play(m.type, m.side).side, m.cycle)
    BY DEF Play
  <2> QED BY <1>2, <2>1, <2>2, <2>3, UpdatedType
<1>4. /\ gameMode' = [gameMode EXCEPT ![p] = g]
      /\ stopped' = [stopped EXCEPT ![p] = IsServerCycleStoppedMode(g)]
      /\ IF g.type = "TimeOver"
         THEN alive' = [alive EXCEPT ![p] = FALSE] /\ UNCHANGED <<world, penalty>>
         ELSE UpdateGameMode(p, Play(g.type, g.side)) /\ UNCHANGED alive
  BY DEF AnalyzeHearMode, m
<1>5. Play(g.type, g.side) \in Mode
  BY <1>3 DEF GameMode, Play, Mode
<1> HIDE DEF g
<1>6. gameMode' \in [Unum -> GameMode]
  BY <1>3, <1>4 DEF TypeOK
<1>7. stopped' \in [Unum -> BOOLEAN] /\ alive' \in [Unum -> BOOLEAN]
  <2>1. IsServerCycleStoppedMode(g) \in BOOLEAN
    BY DEF IsServerCycleStoppedMode
  <2>2. stopped \in [Unum -> BOOLEAN] /\ alive \in [Unum -> BOOLEAN]
    BY DEF TypeOK
  <2>3. stopped' \in [Unum -> BOOLEAN]
    BY <1>4, <2>1, <2>2
  <2>4. alive' \in [Unum -> BOOLEAN]
    BY <1>4, <2>2
  <2> QED BY <2>3, <2>4
<1>8. world' \in [Unum -> Mode]
  BY <1>4, <1>5 DEF TypeOK, UpdateGameMode
<1>9. penalty' \in [Unum -> PenaltyState]
  <2>1. UpdatePenalty(penalty[p], Play(g.type, g.side)) \in PenaltyState
    BY <1>5, UpdatePenaltyType DEF TypeOK
  <2> QED BY <1>4, <2>1 DEF TypeOK, UpdateGameMode
<1>10. UNCHANGED <<mode, onfield, kicks, cycle, spent, missed>>
  BY DEF AnalyzeHearMode, Receive, referee
<1> QED BY <1>1, <1>6, <1>7, <1>8, <1>9, <1>10 DEF TypeOK

LEMMA HearOtherType ==
    ASSUME TypeOK, NEW p \in Unum, AnalyzeHearOther(p)
    PROVE  TypeOK'
<1>1. inbox[p][1] \in Message /\ inbox' \in [Unum -> Seq(Message)]
  BY TailType DEF AnalyzeHearOther, Receive
<1>2. gameMode' \in [Unum -> GameMode]
  <2>1. gameMode[p] \in GameMode /\ inbox[p][1].cycle \in Int
    BY <1>1 DEF TypeOK, Message
  <2>2. Updated(gameMode[p], "PlayOn", "NEUTRAL", inbox[p][1].cycle) \in GameMode
    BY <2>1 DEF Updated, GameMode, ModeType, PlayType, Side
  <2> QED BY <2>2 DEF AnalyzeHearOther, TypeOK
<1> QED BY <1>1, <1>2 DEF AnalyzeHearOther, Receive, referee, TypeOK

LEMMA SpendType ==
    ASSUME TypeOK
    PROVE  /\ [spent EXCEPT !.play = @ + 1] \in [play : Nat, other : Nat, loss : Nat]
           /\ [spent EXCEPT !.other = @ + 1] \in [play : Nat, other : Nat, loss : Nat]
           /\ [spent EXCEPT !.loss = @ + 1] \in [play : Nat, other : Nat, loss : Nat]
<1>1. spent \in [play : Nat, other : Nat, loss : Nat]
  BY DEF TypeOK
<1>2. spent.play + 1 \in Nat /\ spent.other + 1 \in Nat /\ spent.loss + 1 \in Nat
  BY <1>1
<1> QED BY <1>1, <1>2

\* Every variable keeps its type, for every size of team and every bound: a message
\* never takes a kicker outside the team (PenaltyKickState::update).
THEOREM TypeCorrect == Spec => []TypeOK
<1>1. Init => TypeOK
  <2> SUFFICES ASSUME Init PROVE TypeOK
    OBVIOUS
  <2>1. mode \in Mode /\ Play("BeforeKickOff", "NEUTRAL") \in Mode
    BY DEF Init, Play, Mode, ModeType, PlayType, Side
  <2>2. gameMode \in [Unum -> GameMode]
    BY DEF Init, GameMode, ModeType, PlayType, Side
  <2>3. inbox \in [Unum -> Seq(Message)]
    BY DEF Init
  <2>4. penalty \in [Unum -> PenaltyState]
    <3>1. [onfield : {"NEUTRAL"}, taker : Side, ours : {0}, theirs : {0},
           kickerSide : {"NEUTRAL"}, kicker : {Unum_Unknown}] \subseteq PenaltyState
      BY DEF PenaltyState, Side
    <3> QED BY <3>1 DEF Init
  <2>5. stopped \in [Unum -> BOOLEAN] /\ alive \in [Unum -> BOOLEAN] /\ world \in [Unum -> Mode]
    BY <2>1 DEF Init
  <2> QED BY <2>1, <2>2, <2>3, <2>4, <2>5 DEF Init, TypeOK, Side
<1>2. TypeOK /\ [Next]_vars => TypeOK'
  <2> SUFFICES ASSUME TypeOK, [Next]_vars PROVE TypeOK'
    OBVIOUS
  <2>1. CASE PlayMode
    <3>1. PICK type \in PlayType, side \in Team :
             /\ mode' = Play(type, IF type \in {"BeforeKickOff", "PlayOn"} THEN "NEUTRAL" ELSE side)
             /\ Announce(IF type = "GoalieCatch_" THEN <<mode', Play("FreeKick_", side)>> ELSE <<mode'>>)
      BY <2>1 DEF PlayMode
    <3>2. mode' \in Mode /\ Play("FreeKick_", side) \in Mode
      BY <3>1 DEF Play, Mode, ModeType, PlayType, Side
    <3>3. <<mode', Play("FreeKick_", side)>> \in Seq(Mode) /\ <<mode'>> \in Seq(Mode)
      BY <3>2
    <3>4. cycle' \in Nat /\ inbox' \in [Unum -> Seq(Message)] /\ missed' \subseteq Unum
      BY <3>1, <3>3, AnnounceType
    <3>5. spent' \in [play : Nat, other : Nat, loss : Nat]
      BY <2>1, SpendType DEF PlayMode
    <3> QED BY <2>1, <3>2, <3>4, <3>5 DEF PlayMode, TypeOK, players
  <2>2. CASE StartShootout
    <3>1. PICK s \in Team : Setup(s, <<Play("PenaltyOnfield_", onfield')>>)
      BY <2>2 DEF StartShootout
    <3>2. onfield' \in Side /\ Play("PenaltyOnfield_", onfield') \in Mode
      BY <2>2 DEF StartShootout, Play, Mode, ModeType, PenaltyType, Side
    <3>3. <<Play("PenaltyOnfield_", onfield')>> \in Seq(Mode)
      BY <3>2
    <3> QED BY <3>1, <3>2, <3>3, SetupType
  <2>3. CASE NextKick
    <3>1. Setup(Opponent(mode.side), <<>>) /\ onfield' \in Side
      BY <2>3 DEF NextKick, TypeOK
    <3>2. Opponent(mode.side) \in Team
      BY DEF Opponent, Team
    <3>3. <<>> \in Seq(Mode)
      OBVIOUS
    <3> QED BY <3>1, <3>2, <3>3, SetupType
  <2>4. CASE KickGoesOn
    <3>1. mode' \in Mode
      BY <2>4 DEF KickGoesOn, TypeOK, Play, Mode, ModeType, PenaltyType, KickType
    <3>2. <<mode'>> \in Seq(Mode) /\ Announce(<<mode'>>)
      BY <2>4, <3>1 DEF KickGoesOn
    <3>3. cycle' \in Nat /\ inbox' \in [Unum -> Seq(Message)] /\ missed' \subseteq Unum
      BY <3>2, AnnounceType
    <3> QED BY <2>4, <3>1, <3>3 DEF KickGoesOn, TypeOK, players
  <2>5. CASE KickEnds
    <3>1. mode' \in Mode
      BY <2>5 DEF KickEnds, TypeOK, Play, Mode, ModeType, PenaltyType
    <3>2. ASSUME NEW s \in Team PROVE Play("PenaltyFoul_", s) \in Mode
      BY DEF Play, Mode, ModeType, PenaltyType, Side
    <3>3. \E modes \in Seq(Mode) : Announce(modes)
      <4>1. CASE Announce(<<mode'>>)
        <5>1. <<mode'>> \in Seq(Mode)
          BY <3>1
        <5> QED BY <4>1, <5>1
      <4>2. CASE \E s \in Team : Announce(<<Play("PenaltyFoul_", s), mode'>>)
        <5>1. PICK s \in Team : Announce(<<Play("PenaltyFoul_", s), mode'>>)
          BY <4>2
        <5>2. <<Play("PenaltyFoul_", s), mode'>> \in Seq(Mode)
          BY <3>1, <3>2
        <5> QED BY <5>1, <5>2
      <4> QED BY <2>5, <4>1, <4>2 DEF KickEnds
    <3>4. cycle' \in Nat /\ inbox' \in [Unum -> Seq(Message)] /\ missed' \subseteq Unum
      BY <3>3, AnnounceType
    <3> QED BY <2>5, <3>1, <3>4 DEF KickEnds, TypeOK, players
  <2>6. CASE TimeOver
    <3>1. mode' \in Mode
      BY <2>6 DEF TimeOver, Play, Mode, ModeType, Side
    <3>2. <<mode'>> \in Seq(Mode) /\ Announce(<<mode'>>)
      BY <2>6, <3>1 DEF TimeOver
    <3>3. cycle' \in Nat /\ inbox' \in [Unum -> Seq(Message)] /\ missed' \subseteq Unum
      BY <3>2, AnnounceType
    <3> QED BY <2>6, <3>1, <3>3 DEF TimeOver, TypeOK, players
  <2>7. CASE OtherMessage
    <3>1. PICK kind \in OtherKinds :
             inbox' = [p \in Unum |->
                         Append(inbox[p], [type |-> kind, side |-> "NEUTRAL", cycle |-> cycle])]
      BY <2>7 DEF OtherMessage
    <3>2. [type |-> kind, side |-> "NEUTRAL", cycle |-> cycle] \in Message
      BY DEF TypeOK, Message, Side
    <3>3. ASSUME NEW p \in Unum
          PROVE  Append(inbox[p], [type |-> kind, side |-> "NEUTRAL", cycle |-> cycle]) \in Seq(Message)
      <4>1. inbox[p] \in Seq(Message)
        BY DEF TypeOK
      <4> QED BY <3>2, <4>1
    <3>4. inbox' \in [Unum -> Seq(Message)]
      BY <3>1, <3>3
    <3>5. spent' \in [play : Nat, other : Nat, loss : Nat]
      BY <2>7, SpendType DEF OtherMessage
    <3> QED BY <2>7, <3>4, <3>5 DEF OtherMessage, TypeOK, referee, players
  <2>8. ASSUME NEW p \in Unum, Lose(p) PROVE TypeOK'
    <3>1. inbox' \in [Unum -> Seq(Message)]
      BY <2>8, TailType DEF Lose
    <3>2. spent' \in [play : Nat, other : Nat, loss : Nat]
      BY <2>8, SpendType DEF Lose
    <3> QED BY <2>8, <3>1, <3>2 DEF Lose, TypeOK, referee, players
  <2>9. ASSUME NEW p \in Unum, Player(p) PROVE TypeOK'
    BY <2>9, HearModeType, HearOtherType DEF Player
  <2>10. CASE UNCHANGED vars
    BY <2>10 DEF TypeOK, vars, referee, players
  <2> QED BY <2>1, <2>2, <2>3, <2>4, <2>5, <2>6, <2>7, <2>8, <2>9, <2>10 DEF Next, Referee
<1> QED BY <1>1, <1>2, PTL DEF Spec

-----------------------------------------------------------------------------
(* The clock flag.                                                         *)

LEMMA HearModeFlag ==
    ASSUME TypeOK, ClockFlagIsTheWorlds, NEW p \in Unum, AnalyzeHearMode(p)
    PROVE  ClockFlagIsTheWorlds'
<1> DEFINE m == inbox[p][1]
           g == Updated(gameMode[p], m.type, m.side, m.cycle)
<1>1. /\ stopped' = [stopped EXCEPT ![p] = IsServerCycleStoppedMode(g)]
      /\ IF g.type = "TimeOver"
         THEN alive' = [alive EXCEPT ![p] = FALSE] /\ UNCHANGED world
         ELSE world' = [world EXCEPT ![p] = Play(g.type, g.side)] /\ UNCHANGED alive
  BY DEF AnalyzeHearMode, UpdateGameMode
<1> HIDE DEF g
<1>2. IsServerCycleStoppedMode(Play(g.type, g.side)) = IsServerCycleStoppedMode(g)
  BY DEF IsServerCycleStoppedMode, Play
<1>3. /\ stopped \in [Unum -> BOOLEAN] /\ alive \in [Unum -> BOOLEAN]
      /\ world \in [Unum -> Mode]
  BY DEF TypeOK
<1> SUFFICES ASSUME NEW q \in Unum, alive'[q]
             PROVE  stopped'[q] = IsServerCycleStoppedMode(world'[q])
  BY DEF ClockFlagIsTheWorlds
<1>4. CASE q # p
  <2>1. stopped'[q] = stopped[q] /\ alive'[q] = alive[q] /\ world'[q] = world[q]
    BY <1>1, <1>3, <1>4
  <2> QED BY <2>1 DEF ClockFlagIsTheWorlds
<1>5. CASE q = p
  <2>1. g.type # "TimeOver"
    BY <1>1, <1>3, <1>5
  <2>2. stopped'[p] = IsServerCycleStoppedMode(g) /\ world'[p] = Play(g.type, g.side)
    BY <1>1, <1>3, <2>1
  <2> QED BY <1>2, <1>5, <2>2
<1> QED BY <1>4, <1>5

\* The flag by which a player counts time is that of its world model's mode, whatever
\* it heard, did not hear, or could not parse (analyzeHearReferee).
THEOREM ClockFlagAgrees == Spec => []ClockFlagIsTheWorlds
<1>1. Init => ClockFlagIsTheWorlds
  <2> SUFFICES ASSUME Init, NEW p \in Unum
               PROVE  stopped[p] = IsServerCycleStoppedMode(world[p])
    BY DEF ClockFlagIsTheWorlds
  <2>1. stopped[p] = TRUE /\ world[p].type = "BeforeKickOff"
    BY DEF Init, Play
  <2>2. IsServerCycleStoppedMode(world[p]) = TRUE
    BY <2>1 DEF IsServerCycleStoppedMode
  <2> QED BY <2>1, <2>2
<1>2. TypeOK /\ ClockFlagIsTheWorlds /\ [Next]_vars => ClockFlagIsTheWorlds'
  <2> SUFFICES ASSUME TypeOK, ClockFlagIsTheWorlds, [Next]_vars PROVE ClockFlagIsTheWorlds'
    OBVIOUS
  <2>1. CASE Referee \/ \E p \in Unum : Lose(p)
    <3>1. UNCHANGED players
      BY <2>1 DEF Referee, PlayMode, StartShootout, NextKick, Setup, KickGoesOn, KickEnds,
                  TimeOver, OtherMessage, Lose
    <3> QED BY <3>1 DEF players, ClockFlagIsTheWorlds
  <2>2. ASSUME NEW p \in Unum, AnalyzeHearMode(p) PROVE ClockFlagIsTheWorlds'
    BY <2>2, HearModeFlag
  <2>3. ASSUME NEW p \in Unum, AnalyzeHearOther(p) PROVE ClockFlagIsTheWorlds'
    BY <2>3 DEF AnalyzeHearOther, ClockFlagIsTheWorlds
  <2>4. CASE UNCHANGED vars
    BY <2>4 DEF vars, players, ClockFlagIsTheWorlds
  <2> QED BY <2>1, <2>2, <2>3, <2>4 DEF Next, Player
<1> QED BY <1>1, <1>2, TypeCorrect, PTL DEF Spec

-----------------------------------------------------------------------------
(* The count of the kicks.                                                 *)

\* The messages s on their way to a player hold a setup.
Pending(s) == \E i \in DOMAIN s : s[i].type = "PenaltySetup_"

\* They go with the mode m in force: of a kick they announce its present mode or the
\* goal before it is set up, and they set up at most one.
Coherent(s, m) ==
    \A i \in DOMAIN s :
      /\ s[i].type \in KickType => Play(s[i].type, s[i].side) = m
      /\ m.type \in KickType /\ s[i].type \in ModeType => s[i].type \in {m.type, "PenaltyOnfield_"}
      /\ s[i].type = "PenaltyOnfield_" => \E j \in DOMAIN s : j > i /\ s[j].type = "PenaltySetup_"
      /\ s[i].type = "PenaltySetup_" => \A j \in DOMAIN s : s[j].type = "PenaltySetup_" => j = i

\* What a player with the messages s on their way, the world model's mode w and the
\* penalty kick state k has of the mode m in force and the n kicks of its team:
Follows(s, w, k, m, n) ==
    \* every setup of its team has been counted or is on its way;
    /\ n = IF Pending(s) /\ m.side = OurSide THEN k.ours + 1 ELSE k.ours
    \* until the setup of its team's kick arrives, it holds the other side for the
    \* kicking one, if it has counted a kick; afterwards the right one;
    /\ Pending(s) /\ m.side = OurSide /\ k.ours > 0 => k.taker # OurSide
    /\ ~Pending(s) /\ m.type \in KickType \cup ResultType => k.taker = m.side
    /\ w.type \in KickType => k.taker = w.side
    \* the kicker it holds is the one its count says, and during a kick it holds one.
    /\ k.kickerSide # "NEUTRAL" => k.ours > 0 /\ k.kicker = TakerUnum(k.ours)
    /\ ~Pending(s) /\ m.type \in KickType
         => w.type \in KickType /\ (k.ours > 0 => k.kickerSide = m.side)

\* No kick has been set up before the shootout.
KicksInv ==
    /\ mode.type \in PlayType => kicks[OurSide] = 0
    /\ mode.type \in KickType /\ mode.side = OurSide => kicks[OurSide] > 0

PlayersInv ==
    \A p \in Unum : /\ Coherent(inbox[p], mode)
                    /\ Follows(inbox[p], world[p], penalty[p], mode, kicks[OurSide])

IInv == TypeOK /\ KicksInv /\ PlayersInv

LEMMA TailCoherent ==
    ASSUME NEW s \in Seq(Message), NEW m, s # <<>>, Coherent(s, m)
    PROVE  /\ Coherent(Tail(s), m)
           /\ s[1].type # "PenaltySetup_" => (Pending(Tail(s)) <=> Pending(s))
           /\ s[1].type = "PenaltySetup_" => Pending(s) /\ ~Pending(Tail(s))
<1> DEFINE t == Tail(s)
<1>1. /\ Len(s) \in Nat \ {0} /\ DOMAIN s = 1..Len(s) /\ DOMAIN t = 1..(Len(s) - 1)
      /\ \A i \in DOMAIN t : i + 1 \in DOMAIN s /\ t[i] = s[i + 1]
      /\ \A i \in DOMAIN s : i = 1 \/ (i - 1 \in DOMAIN t /\ t[i - 1] = s[i])
      /\ 1 \in DOMAIN s
  OBVIOUS
<1> HIDE DEF t
<1>2. Coherent(t, m)
  <2> SUFFICES ASSUME NEW i \in DOMAIN t
               PROVE  /\ t[i].type \in KickType => Play(t[i].type, t[i].side) = m
                      /\ m.type \in KickType /\ t[i].type \in ModeType
                           => t[i].type \in {m.type, "PenaltyOnfield_"}
                      /\ t[i].type = "PenaltyOnfield_"
                           => \E j \in DOMAIN t : j > i /\ t[j].type = "PenaltySetup_"
                      /\ t[i].type = "PenaltySetup_"
                           => \A j \in DOMAIN t : t[j].type = "PenaltySetup_" => j = i
    BY DEF Coherent
  <2>1. i + 1 \in DOMAIN s /\ t[i] = s[i + 1] /\ i \in Nat
    BY <1>1
  <2>2. /\ t[i].type \in KickType => Play(t[i].type, t[i].side) = m
        /\ m.type \in KickType /\ t[i].type \in ModeType => t[i].type \in {m.type, "PenaltyOnfield_"}
    BY <2>1 DEF Coherent
  <2>3. ASSUME t[i].type = "PenaltyOnfield_"
        PROVE  \E j \in DOMAIN t : j > i /\ t[j].type = "PenaltySetup_"
    <3>1. PICK k \in DOMAIN s : k > i + 1 /\ s[k].type = "PenaltySetup_"
      BY <2>1, <2>3 DEF Coherent
    <3>2. k - 1 \in DOMAIN t /\ t[k - 1] = s[k] /\ k - 1 > i
      BY <1>1, <2>1, <3>1
    <3> QED BY <3>1, <3>2
  <2>4. ASSUME t[i].type = "PenaltySetup_", NEW j \in DOMAIN t, t[j].type = "PenaltySetup_"
        PROVE  j = i
    <3>1. j + 1 \in DOMAIN s /\ s[j + 1].type = "PenaltySetup_" /\ j \in Nat
      BY <1>1, <2>4
    <3>2. j + 1 = i + 1
      BY <2>1, <2>4, <3>1 DEF Coherent
    <3> QED BY <2>1, <3>1, <3>2
  <2> QED BY <2>2, <2>3, <2>4
<1>3. s[1].type # "PenaltySetup_" => (Pending(t) <=> Pending(s))
  BY <1>1 DEF Pending
<1>4. s[1].type = "PenaltySetup_" => Pending(s) /\ ~Pending(t)
  <2> SUFFICES ASSUME s[1].type = "PenaltySetup_" PROVE Pending(s) /\ ~Pending(t)
    OBVIOUS
  <2>1. ASSUME NEW i \in DOMAIN t, t[i].type = "PenaltySetup_" PROVE FALSE
    <3>1. i + 1 \in DOMAIN s /\ s[i + 1].type = "PenaltySetup_" /\ i \in Nat /\ i > 0
      BY <1>1, <2>1
    <3>2. i + 1 = 1
      BY <1>1, <3>1 DEF Coherent
    <3> QED BY <3>1, <3>2
  <2> QED BY <1>1, <2>1 DEF Pending
<1> QED BY <1>2, <1>3, <1>4 DEF t

LEMMA AppendCoherent ==
    ASSUME NEW s \in Seq(Message), NEW m, NEW x \in Message, x.type \notin ModeType, Coherent(s, m)
    PROVE  Coherent(Append(s, x), m) /\ (Pending(Append(s, x)) <=> Pending(s))
<1> DEFINE t == Append(s, x)
<1>1. /\ Len(s) \in Nat /\ DOMAIN s = 1..Len(s) /\ DOMAIN t = 1..(Len(s) + 1)
      /\ \A i \in DOMAIN s : t[i] = s[i]
      /\ t[Len(s) + 1] = x
  OBVIOUS
<1>2. x.type \notin KickType /\ x.type # "PenaltyOnfield_" /\ x.type # "PenaltySetup_"
  BY DEF ModeType, PenaltyType, KickType
<1>3. ASSUME NEW i \in DOMAIN t, t[i].type \in ModeType PROVE i \in DOMAIN s /\ t[i] = s[i]
  BY <1>1, <1>3
<1>4. KickType \subseteq ModeType /\ "PenaltyOnfield_" \in ModeType /\ "PenaltySetup_" \in ModeType
  BY DEF ModeType, PenaltyType, KickType
<1> HIDE DEF t
<1>5. \A i \in DOMAIN s : i \in DOMAIN t /\ t[i] = s[i]
  BY <1>1
<1>6. Coherent(t, m)
  <2> SUFFICES ASSUME NEW i \in DOMAIN t
               PROVE  /\ t[i].type \in KickType => Play(t[i].type, t[i].side) = m
                      /\ m.type \in KickType /\ t[i].type \in ModeType
                           => t[i].type \in {m.type, "PenaltyOnfield_"}
                      /\ t[i].type = "PenaltyOnfield_"
                           => \E j \in DOMAIN t : j > i /\ t[j].type = "PenaltySetup_"
                      /\ t[i].type = "PenaltySetup_"
                           => \A j \in DOMAIN t : t[j].type = "PenaltySetup_" => j = i
    BY DEF Coherent
  <2>1. CASE t[i].type \notin ModeType
    BY <1>4, <2>1
  <2>2. CASE t[i].type \in ModeType
    <3>1. i \in DOMAIN s /\ t[i] = s[i]
      BY <1>3, <2>2
    <3> QED BY <1>3, <1>4, <1>5, <3>1 DEF Coherent
  <2> QED BY <2>1, <2>2
<1>7. Pending(t) <=> Pending(s)
  BY <1>3, <1>4, <1>5 DEF Pending
<1> QED BY <1>6, <1>7 DEF t

\* An announcement of one mode.
LEMMA HeardOne ==
    ASSUME NEW x \in Mode, NEW c, x.type # "PenaltyOnfield_"
    PROVE  /\ Coherent(Heard(<<x>>, c), x)
           /\ Pending(Heard(<<x>>, c)) <=> x.type = "PenaltySetup_"
<1> DEFINE h == Heard(<<x>>, c)
<1>1. DOMAIN h = {1} /\ h[1].type = x.type /\ h[1].side = x.side
  <2>1. DOMAIN <<x>> = {1} /\ <<x>>[1] = x
    OBVIOUS
  <2> HIDE DEF h
  <2>2. h = [i \in {1} |-> [type |-> x.type, side |-> x.side, cycle |-> c]]
    BY <2>1 DEF h, Heard
  <2> QED BY <2>2
<1>2. Play(x.type, x.side) = x
  BY DEF Play, Mode
<1> HIDE DEF h
<1>3. Coherent(h, x) /\ (Pending(h) <=> x.type = "PenaltySetup_")
  BY <1>1, <1>2 DEF Coherent, Pending
<1> QED BY <1>3 DEF h

\* An announcement of two modes, m the one in force after it.
LEMMA HeardTwo ==
    ASSUME NEW x \in Mode, NEW y \in Mode, NEW m, NEW c,
           x.type \notin KickType, y.type # "PenaltyOnfield_",
           x.type = "PenaltyOnfield_" => y.type = "PenaltySetup_",
           y.type \in KickType => x.type = "PenaltyOnfield_",
           y.type \in KickType \/ m.type \in KickType => m = y
    PROVE  /\ Coherent(Heard(<<x, y>>, c), m)
           /\ Pending(Heard(<<x, y>>, c)) <=> y.type = "PenaltySetup_"
<1> DEFINE h == Heard(<<x, y>>, c)
<1>1. /\ DOMAIN h = {1, 2} /\ h[1].type = x.type /\ h[2].type = y.type /\ h[2].side = y.side
  <2>1. DOMAIN <<x, y>> = {1, 2} /\ <<x, y>>[1] = x /\ <<x, y>>[2] = y
    OBVIOUS
  <2> DEFINE z == <<x, y>>
  <2> HIDE DEF h, z
  <2>2. h = [i \in {1, 2} |-> [type |-> z[i].type, side |-> z[i].side, cycle |-> c]]
    BY <2>1 DEF h, Heard, z
  <2> QED BY <2>1, <2>2 DEF z
<1>2. Play(y.type, y.side) = y
  BY DEF Play, Mode
<1>3. "PenaltySetup_" \in KickType
  BY DEF KickType
<1> HIDE DEF h
<1>4. Pending(h) <=> y.type = "PenaltySetup_"
  BY <1>1, <1>3 DEF Pending
<1>5. Coherent(h, m)
  <2>1. y.type \in KickType => Play(y.type, y.side) = m
    BY <1>2
  <2>2. m.type \in KickType => y.type = m.type /\ x.type = "PenaltyOnfield_"
    OBVIOUS
  <2>3. x.type = "PenaltyOnfield_" => 2 > 1 /\ h[2].type = "PenaltySetup_"
    BY <1>1
  <2> QED BY <1>1, <1>3, <2>1, <2>2, <2>3 DEF Coherent
<1> QED BY <1>4, <1>5 DEF h

\* A player goes on following when a message that is no setup is lost or leaves the
\* penalty kick state alone.
LEMMA SkipFollows ==
    ASSUME NEW s \in Seq(Message), s # <<>>, NEW m, NEW n, NEW k, NEW w, NEW w2,
           Coherent(s, m), Follows(s, w, k, m, n),
           s[1].type # "PenaltySetup_",
           w2 = w \/ (s[1].type \in ModeType \ PenaltyType /\ w2.type \notin KickType)
    PROVE  Coherent(Tail(s), m) /\ Follows(Tail(s), w2, k, m, n)
<1>1. Coherent(Tail(s), m) /\ (Pending(Tail(s)) <=> Pending(s))
  BY TailCoherent
<1>2. CASE w2 = w
  BY <1>1, <1>2 DEF Follows
<1>3. CASE s[1].type \in ModeType \ PenaltyType /\ w2.type \notin KickType
  <2>1. 1 \in DOMAIN s
    OBVIOUS
  <2>2. m.type \notin KickType
    BY <1>3, <2>1 DEF Coherent, PenaltyType
  <2> QED BY <1>1, <1>3, <2>2 DEF Follows
<1> QED BY <1>2, <1>3

\* PenaltyKickState::update keeps up with the referee.
LEMMA HearFollows ==
    ASSUME NEW s \in Seq(Message), s # <<>>, NEW m, NEW n \in Nat, NEW k \in PenaltyState, NEW w,
           Coherent(s, m), Follows(s, w, k, m, n), s[1].type \in PenaltyType
    PROVE  LET x == Play(s[1].type, s[1].side)
           IN  Coherent(Tail(s), m) /\ Follows(Tail(s), x, UpdatePenalty(k, x), m, n)
<1> DEFINE x == Play(s[1].type, s[1].side)
           k2 == UpdatePenalty(k, x)
<1> SUFFICES Coherent(Tail(s), m) /\ Follows(Tail(s), x, k2, m, n)
  OBVIOUS
<1>1. /\ 1 \in DOMAIN s /\ s[1] \in Message /\ x.type = s[1].type /\ x.side = s[1].side
      /\ s[1].type \in ModeType
  BY DEF Play, ModeType
<1>2. /\ Coherent(Tail(s), m)
      /\ x.type # "PenaltySetup_" => (Pending(Tail(s)) <=> Pending(s))
      /\ x.type = "PenaltySetup_" => Pending(s) /\ ~Pending(Tail(s))
  BY <1>1, TailCoherent
<1>3. x.type \in KickType => x = m
  BY <1>1 DEF Coherent
<1>4. k.ours \in Nat
  BY DEF PenaltyState
<1>5. /\ k2.taker = IF x.type = "PenaltySetup_" THEN x.side ELSE k.taker
      /\ k2.ours = IF x.type = "PenaltySetup_" /\ x.side = OurSide THEN k.ours + 1 ELSE k.ours
      /\ k2.kickerSide = IF k2.ours > 0 /\ x.type \in KickType THEN x.side ELSE "NEUTRAL"
      /\ k2.ours > 0 /\ x.type \in KickType => k2.kicker = TakerUnum(k2.ours)
  <2> HIDE DEF x
  <2> QED BY DEF k2, UpdatePenalty, TakerSide, OurCount
<1>6. "PenaltySetup_" \in KickType
  BY DEF KickType
<1> HIDE DEF x, k2
<1>7. CASE x.type = "PenaltySetup_"
  <2>1. x = m /\ k2.taker = m.side /\ n = k2.ours
    BY <1>2, <1>3, <1>4, <1>5, <1>6, <1>7 DEF Follows
  <2>2. k2.kickerSide = IF k2.ours > 0 THEN m.side ELSE "NEUTRAL"
    BY <1>5, <1>6, <1>7, <2>1
  <2>3. k2.ours > 0 => k2.kicker = TakerUnum(k2.ours)
    BY <1>5, <1>6, <1>7
  <2>4. k2.kickerSide # "NEUTRAL" => k2.ours > 0
    BY <2>2
  <2> QED BY <1>2, <1>6, <1>7, <2>1, <2>2, <2>3, <2>4 DEF Follows
<1>8. CASE x.type \in KickType \ {"PenaltySetup_"}
  <2>1. ~Pending(s)
    <3>1. ASSUME NEW i \in DOMAIN s, s[i].type = "PenaltySetup_" PROVE FALSE
      <4>1. Play(s[i].type, s[i].side) = m
        BY <1>6, <3>1 DEF Coherent
      <4> QED BY <1>3, <1>8, <3>1, <4>1 DEF Play
    <3> QED BY <3>1 DEF Pending
  <2>2. k2.taker = k.taker /\ k2.ours = k.ours
    BY <1>5, <1>8
  <2>3. k2.kickerSide = IF k2.ours > 0 THEN m.side ELSE "NEUTRAL"
    BY <1>3, <1>5, <1>8
  <2> QED BY <1>2, <1>3, <1>5, <1>8, <2>1, <2>2, <2>3 DEF Follows
<1>9. CASE x.type \notin KickType
  <2>1. k2.taker = k.taker /\ k2.ours = k.ours /\ k2.kickerSide = "NEUTRAL"
    BY <1>5, <1>6, <1>9
  <2>2. m.type \in KickType => Pending(s)
    <3> SUFFICES ASSUME m.type \in KickType PROVE Pending(s)
      OBVIOUS
    <3>1. s[1].type = "PenaltyOnfield_"
      BY <1>1, <1>9 DEF Coherent
    <3> QED BY <1>1, <3>1 DEF Coherent, Pending
  <2> QED BY <1>2, <1>6, <1>9, <2>1, <2>2 DEF Follows
<1> QED BY <1>2, <1>7, <1>8, <1>9

\* Players that have heard everything go on following when modes other than a setup
\* are announced,
LEMMA AnnounceInv ==
    ASSUME IInv, \A p \in Unum : inbox[p] = <<>>, UNCHANGED <<kicks, world, penalty>>,
           \A p \in Unum : Coherent(inbox'[p], mode') /\ ~Pending(inbox'[p]),
           mode'.type \in PlayType => mode.type \in PlayType,
           mode'.type \in KickType => mode.type \in KickType,
           mode'.type \in KickType \cup ResultType
             => mode.type \in KickType \cup ResultType /\ mode'.side = mode.side
    PROVE  KicksInv' /\ PlayersInv'
<1>1. KicksInv'
  BY DEF IInv, KicksInv
<1>2. ASSUME NEW p \in Unum
      PROVE  Follows(inbox'[p], world[p], penalty[p], mode', kicks[OurSide])
  <2>1. Follows(inbox[p], world[p], penalty[p], mode, kicks[OurSide]) /\ ~Pending(inbox[p])
    BY DEF IInv, PlayersInv, Pending
  <2>2. ~Pending(inbox'[p])
    OBVIOUS
  <2> QED BY <2>1, <2>2 DEF Follows
<1> QED BY <1>1, <1>2 DEF PlayersInv

\* and when the next kick is set up.
LEMMA SetupInv ==
    ASSUME IInv, NEW s \in Team, NEW first, Setup(s, first),
           \A p \in Unum : Coherent(inbox'[p], mode') /\ Pending(inbox'[p]),
           s = OurSide => \A p \in Unum : penalty[p].ours > 0 => penalty[p].taker # OurSide
    PROVE  KicksInv' /\ PlayersInv'
<1>1. /\ mode'.type = "PenaltySetup_" /\ mode'.side = s
      /\ kicks'[OurSide] = IF s = OurSide THEN kicks[OurSide] + 1 ELSE kicks[OurSide]
      /\ kicks[OurSide] \in Nat
      /\ world' = world /\ penalty' = penalty
  <2>1. kicks \in [Team -> Nat] /\ OurSide \in Team
    BY ConstantsAssumption DEF IInv, TypeOK
  <2> QED BY <2>1 DEF Setup, Play, players
<1>2. KicksInv'
  <2>1. mode'.type \notin PlayType
    BY <1>1 DEF PlayType
  <2>2. mode'.side = OurSide => kicks'[OurSide] > 0
    BY <1>1
  <2> QED BY <2>1, <2>2 DEF KicksInv
<1>3. ASSUME NEW p \in Unum
      PROVE  Follows(inbox'[p], world[p], penalty[p], mode', kicks'[OurSide])
  <2>1. Follows(inbox[p], world[p], penalty[p], mode, kicks[OurSide]) /\ ~Pending(inbox[p])
    BY DEF IInv, PlayersInv, Pending, Setup, Announce
  <2>2. Pending(inbox'[p])
    OBVIOUS
  <2> QED BY <1>1, <2>1, <2>2 DEF Follows
<1> QED BY <1>1, <1>2, <1>3 DEF PlayersInv

LEMMA TwoModes ==
    ASSUME NEW x \in Mode, NEW y \in Mode
    PROVE  <<x>> \o <<y>> = <<x, y>> /\ <<x, y>> \in Seq(Mode)
<1>1. /\ <<x>> \in Seq(Mode) /\ Len(<<x>>) = 1 /\ <<x>>[1] = x
      /\ <<y>> \in Seq(Mode) /\ Len(<<y>>) = 1 /\ <<y>>[1] = y
  OBVIOUS
<1>2. <<x, y>> \in Seq(Mode) /\ Len(<<x, y>>) = 2 /\ <<x, y>>[1] = x /\ <<x, y>>[2] = y
  OBVIOUS
<1> DEFINE a == <<x>>
           b == <<y>>
           c == <<x, y>>
<1> HIDE DEF a, b, c
<1>3. /\ a \o b \in Seq(Mode) /\ Len(a \o b) = 2
      /\ (a \o b)[1] = a[1] /\ (a \o b)[2] = b[1]
  BY <1>1, ConcatProperties DEF a, b
<1>4. \A i \in 1..2 : (a \o b)[i] = c[i]
  BY <1>1, <1>2, <1>3 DEF a, b, c
<1>5. a \o b = c
  BY <1>2, <1>3, <1>4, SeqEqual DEF c
<1> QED BY <1>2, <1>5 DEF a, b, c

LEMMA StartShootoutInv == ASSUME IInv, StartShootout PROVE KicksInv' /\ PlayersInv'
<1>1. PICK s \in Team : Setup(s, <<Play("PenaltyOnfield_", onfield')>>)
  BY DEF StartShootout
<1> DEFINE x == Play("PenaltyOnfield_", onfield')
<1>2. /\ x \in Mode /\ x.type = "PenaltyOnfield_" /\ onfield' \in Side
      /\ mode' \in Mode /\ mode'.type = "PenaltySetup_"
  BY <1>1 DEF Setup, StartShootout, Play, Mode, ModeType, PenaltyType, KickType, Side
<1> HIDE DEF x
<1>3. <<x>> \o <<mode'>> = <<x, mode'>> /\ <<x, mode'>> \in Seq(Mode)
  BY <1>2, TwoModes
<1>4. Announce(<<x, mode'>>)
  BY <1>1, <1>3 DEF Setup, x
<1>5. inbox' = [p \in Unum |-> Heard(<<x, mode'>>, cycle')] /\ \A p \in Unum : inbox[p] = <<>>
  BY <1>3, <1>4, AnnounceType DEF IInv
<1>6. Coherent(Heard(<<x, mode'>>, cycle'), mode') /\ Pending(Heard(<<x, mode'>>, cycle'))
  BY <1>2, HeardTwo DEF KickType
<1>7. ASSUME NEW p \in Unum PROVE ~(penalty[p].ours > 0)
  <2>1. Follows(inbox[p], world[p], penalty[p], mode, kicks[OurSide]) /\ ~Pending(inbox[p])
    BY <1>5 DEF IInv, PlayersInv, Pending
  <2>2. kicks[OurSide] = 0
    BY DEF StartShootout, IInv, KicksInv
  <2> QED BY <2>1, <2>2 DEF Follows
<1> QED BY <1>1, <1>5, <1>6, <1>7, SetupInv

LEMMA NextKickInv == ASSUME IInv, NextKick PROVE KicksInv' /\ PlayersInv'
<1> DEFINE s == Opponent(mode.side)
<1>1. Setup(s, <<>>) /\ s \in Team /\ mode.type \in ResultType
  BY DEF NextKick, Opponent, Team
<1>2. mode' \in Mode /\ mode'.type = "PenaltySetup_" /\ mode'.type # "PenaltyOnfield_"
  BY <1>1 DEF Setup, Play, Mode, ModeType, PenaltyType, KickType, Side
<1>3. <<>> \o <<mode'>> = <<mode'>> /\ <<mode'>> \in Seq(Mode)
  BY <1>2
<1>4. Announce(<<mode'>>)
  BY <1>1, <1>3 DEF Setup
<1>5. inbox' = [p \in Unum |-> Heard(<<mode'>>, cycle')] /\ \A p \in Unum : inbox[p] = <<>>
  BY <1>3, <1>4, AnnounceType DEF IInv
<1>6. Coherent(Heard(<<mode'>>, cycle'), mode') /\ Pending(Heard(<<mode'>>, cycle'))
  BY <1>2, HeardOne
<1>7. ASSUME NEW p \in Unum, s = OurSide PROVE penalty[p].taker # OurSide
  <2>1. Follows(inbox[p], world[p], penalty[p], mode, kicks[OurSide]) /\ ~Pending(inbox[p])
    BY <1>5 DEF IInv, PlayersInv, Pending
  <2>2. penalty[p].taker = mode.side
    BY <1>1, <2>1 DEF Follows
  <2>3. mode.side # Opponent(mode.side)
    BY DEF Opponent
  <2> QED BY <1>7, <2>2, <2>3
<1> HIDE DEF s
<1> QED BY <1>1, <1>5, <1>6, <1>7, SetupInv

\* The other announcements: of the mode in force, or of two modes that set up no kick.
LEMMA PlainInv ==
    ASSUME IInv, UNCHANGED <<kicks, players>>, mode' \in Mode,
           \/ Announce(<<mode'>>) /\ mode'.type \notin {"PenaltySetup_", "PenaltyOnfield_"}
           \/ \E x, y \in Mode : /\ Announce(<<x, y>>)
                                /\ x.type \notin KickType \cup {"PenaltyOnfield_"}
                                /\ y.type \notin KickType \cup {"PenaltyOnfield_"}
                                /\ mode'.type \notin KickType,
           mode'.type \in PlayType => mode.type \in PlayType,
           mode'.type \in KickType => mode.type \in KickType,
           mode'.type \in KickType \cup ResultType
             => mode.type \in KickType \cup ResultType /\ mode'.side = mode.side
    PROVE  KicksInv' /\ PlayersInv'
<1>1. /\ \A p \in Unum : inbox[p] = <<>>
      /\ \A p \in Unum : Coherent(inbox'[p], mode') /\ ~Pending(inbox'[p])
  <2>1. CASE Announce(<<mode'>>) /\ mode'.type \notin {"PenaltySetup_", "PenaltyOnfield_"}
    <3>1. <<mode'>> \in Seq(Mode)
      OBVIOUS
    <3>2. inbox' = [p \in Unum |-> Heard(<<mode'>>, cycle')] /\ \A p \in Unum : inbox[p] = <<>>
      BY <2>1, <3>1, AnnounceType DEF IInv
    <3> QED BY <2>1, <3>2, HeardOne
  <2>2. CASE \E x, y \in Mode : /\ Announce(<<x, y>>)
                               /\ x.type \notin KickType \cup {"PenaltyOnfield_"}
                               /\ y.type \notin KickType \cup {"PenaltyOnfield_"}
                               /\ mode'.type \notin KickType
    <3>1. PICK x, y \in Mode : /\ Announce(<<x, y>>)
                              /\ x.type \notin KickType \cup {"PenaltyOnfield_"}
                              /\ y.type \notin KickType \cup {"PenaltyOnfield_"}
                              /\ mode'.type \notin KickType
      BY <2>2
    <3>2. <<x, y>> \in Seq(Mode) /\ y.type # "PenaltySetup_"
      BY <3>1 DEF KickType
    <3>3. inbox' = [p \in Unum |-> Heard(<<x, y>>, cycle')] /\ \A p \in Unum : inbox[p] = <<>>
      BY <3>1, <3>2, AnnounceType DEF IInv
    <3>4. Coherent(Heard(<<x, y>>, cycle'), mode') /\ ~Pending(Heard(<<x, y>>, cycle'))
      BY <3>1, <3>2, HeardTwo
    <3> QED BY <3>3, <3>4
  <2> QED BY <2>1, <2>2
<1> QED BY <1>1, AnnounceInv DEF players

LEMMA RefereeInv ==
    ASSUME IInv, TypeOK', PlayMode \/ KickGoesOn \/ KickEnds \/ TimeOver
    PROVE  KicksInv' /\ PlayersInv'
<1>1. mode' \in Mode
  BY DEF TypeOK
<1>2. CASE PlayMode
  <2>1. PICK type \in PlayType, side \in Team :
           /\ mode' = Play(type, IF type \in {"BeforeKickOff", "PlayOn"} THEN "NEUTRAL" ELSE side)
           /\ Announce(IF type = "GoalieCatch_" THEN <<mode', Play("FreeKick_", side)>> ELSE <<mode'>>)
    BY <1>2 DEF PlayMode
  <2>2. /\ mode'.type = type /\ mode.type \in PlayType
        /\ type \notin KickType \cup ResultType \cup {"PenaltyOnfield_", "PenaltySetup_"}
    BY <1>2, <2>1 DEF PlayMode, Play, PlayType, KickType, ResultType
  <2>3. Play("FreeKick_", side) \in Mode /\ Play("FreeKick_", side).type \notin KickType \cup {"PenaltyOnfield_"}
    BY DEF Play, Mode, ModeType, PlayType, Side, KickType
  <2>4. UNCHANGED <<kicks, players>>
    BY <1>2 DEF PlayMode
  <2>5. CASE type = "GoalieCatch_"
    <3>1. Announce(<<mode', Play("FreeKick_", side)>>)
      BY <2>1, <2>5
    <3> QED BY <1>1, <2>2, <2>3, <2>4, <3>1, PlainInv
  <2>6. CASE type # "GoalieCatch_"
    <3>1. Announce(<<mode'>>)
      BY <2>1, <2>6
    <3> QED BY <1>1, <2>2, <2>4, <3>1, PlainInv
  <2> QED BY <2>5, <2>6
<1>3. CASE KickGoesOn
  <2>1. /\ mode'.type \in {"PenaltyReady_", "PenaltyTaken_"} /\ mode'.side = mode.side
        /\ mode.type \in KickType /\ Announce(<<mode'>>) /\ UNCHANGED <<kicks, players>>
    BY <1>3 DEF KickGoesOn, Play, KickType
  <2>2. mode'.type \notin {"PenaltySetup_", "PenaltyOnfield_"} \cup PlayType
    BY <2>1 DEF PlayType
  <2> QED BY <1>1, <2>1, <2>2, PlainInv
<1>4. CASE KickEnds
  <2>1. /\ mode'.type \in ResultType /\ mode'.side = mode.side /\ mode.type \in KickType
        /\ UNCHANGED <<kicks, players>>
        /\ Announce(<<mode'>>) \/ \E s \in Team : Announce(<<Play("PenaltyFoul_", s), mode'>>)
    <3>1. PICK type \in ResultType :
             /\ mode' = Play(type, mode.side)
             /\ Announce(<<mode'>>) \/ \E s \in Team : Announce(<<Play("PenaltyFoul_", s), mode'>>)
      BY <1>4 DEF KickEnds
    <3>2. mode'.type = type /\ mode'.side = mode.side
      BY <3>1 DEF Play
    <3>3. mode.type \in KickType /\ UNCHANGED <<kicks, players>>
      BY <1>4 DEF KickEnds
    <3> QED BY <3>1, <3>2, <3>3
  <2>2. mode'.type \notin KickType \cup PlayType \cup {"PenaltySetup_", "PenaltyOnfield_"}
    BY <2>1 DEF KickType, PlayType, ResultType
  <2>3. CASE Announce(<<mode'>>)
    BY <1>1, <2>1, <2>2, <2>3, PlainInv
  <2>4. ASSUME NEW s \in Team, Announce(<<Play("PenaltyFoul_", s), mode'>>)
        PROVE  KicksInv' /\ PlayersInv'
    <3>1. /\ Play("PenaltyFoul_", s) \in Mode
          /\ Play("PenaltyFoul_", s).type \notin KickType \cup {"PenaltyOnfield_"}
      BY DEF Play, Mode, ModeType, PenaltyType, Side, KickType
    <3> QED BY <1>1, <2>1, <2>2, <2>4, <3>1, PlainInv
  <2> QED BY <2>1, <2>3, <2>4
<1>5. CASE TimeOver
  <2>1. mode'.type = "TimeOver" /\ Announce(<<mode'>>) /\ UNCHANGED <<kicks, players>>
    BY <1>5 DEF TimeOver, Play
  <2>2. mode'.type \notin KickType \cup PlayType \cup ResultType \cup {"PenaltySetup_", "PenaltyOnfield_"}
    BY <2>1 DEF KickType, PlayType, ResultType
  <2> QED BY <1>1, <2>1, <2>2, PlainInv
<1> QED BY <1>2, <1>3, <1>4, <1>5

LEMMA OtherMessageInv == ASSUME IInv, OtherMessage PROVE KicksInv' /\ PlayersInv'
<1>1. PICK kind \in OtherKinds :
         inbox' = [p \in Unum |->
                     Append(inbox[p], [type |-> kind, side |-> "NEUTRAL", cycle |-> cycle])]
  BY DEF OtherMessage
<1> DEFINE x == [type |-> kind, side |-> "NEUTRAL", cycle |-> cycle]
<1>2. x \in Message /\ x.type = kind
  BY DEF IInv, TypeOK, Message, Side
<1>3. kind \notin ModeType
  BY ConstantsAssumption DEF ModeType, PlayType, PenaltyType, KickType, ResultType
<1> HIDE DEF x
<1>4. mode' = mode /\ kicks' = kicks /\ world' = world /\ penalty' = penalty
  BY DEF OtherMessage, referee, players
<1>5. ASSUME NEW p \in Unum
      PROVE  /\ Coherent(inbox'[p], mode)
             /\ Follows(inbox'[p], world[p], penalty[p], mode, kicks[OurSide])
  <2>1. inbox[p] \in Seq(Message) /\ inbox'[p] = Append(inbox[p], x)
    BY <1>1 DEF IInv, TypeOK, x
  <2>2. /\ Coherent(inbox[p], mode)
        /\ Follows(inbox[p], world[p], penalty[p], mode, kicks[OurSide])
    BY DEF IInv, PlayersInv
  <2>3. Coherent(inbox'[p], mode) /\ (Pending(inbox'[p]) <=> Pending(inbox[p]))
    BY <1>2, <1>3, <2>1, <2>2, AppendCoherent
  <2> QED BY <2>2, <2>3 DEF Follows
<1>6. KicksInv'
  BY <1>4 DEF IInv, KicksInv
<1> QED BY <1>4, <1>5, <1>6 DEF PlayersInv

\* A step of one player that takes a message off its inbox.
LEMMA TakeInv ==
    ASSUME IInv, NEW p \in Unum, inbox[p] # <<>>, inbox' = [inbox EXCEPT ![p] = Tail(@)],
           UNCHANGED referee,
           \A q \in Unum \ {p} : world'[q] = world[q] /\ penalty'[q] = penalty[q],
           /\ Coherent(Tail(inbox[p]), mode)
           /\ Follows(Tail(inbox[p]), world'[p], penalty'[p], mode, kicks[OurSide])
    PROVE  KicksInv' /\ PlayersInv'
<1>1. mode' = mode /\ kicks' = kicks /\ inbox \in [Unum -> Seq(Message)]
  BY DEF referee, IInv, TypeOK
<1>2. KicksInv'
  BY <1>1 DEF IInv, KicksInv
<1>3. ASSUME NEW q \in Unum
      PROVE  /\ Coherent(inbox'[q], mode)
             /\ Follows(inbox'[q], world'[q], penalty'[q], mode, kicks[OurSide])
  <2>1. CASE q = p
    <3>1. inbox'[p] = Tail(inbox[p])
      BY <1>1
    <3> QED BY <2>1, <3>1
  <2>2. CASE q # p
    <3>1. inbox'[q] = inbox[q] /\ world'[q] = world[q] /\ penalty'[q] = penalty[q]
      BY <1>1, <2>2
    <3> QED BY <3>1 DEF IInv, PlayersInv
  <2> QED BY <2>1, <2>2
<1> QED BY <1>1, <1>2, <1>3 DEF PlayersInv

\* No setup of a kick gets lost.
NoSetupLost == "PenaltySetup_" \notin Losable

LEMMA SkipInv ==
    ASSUME IInv, NEW p \in Unum, (Lose(p) /\ NoSetupLost) \/ AnalyzeHearOther(p)
    PROVE  KicksInv' /\ PlayersInv'
<1> DEFINE s == inbox[p]
<1>1. /\ s # <<>> /\ inbox' = [inbox EXCEPT ![p] = Tail(@)]
      /\ UNCHANGED referee /\ world' = world /\ penalty' = penalty
  BY DEF Lose, AnalyzeHearOther, Receive, players
<1>2. s[1].type # "PenaltySetup_"
  <2>1. "PenaltySetup_" \notin OtherKinds
    BY ConstantsAssumption
  <2> QED BY <2>1 DEF Lose, NoSetupLost, AnalyzeHearOther
<1>3. /\ s \in Seq(Message) /\ Coherent(s, mode)
      /\ Follows(s, world[p], penalty[p], mode, kicks[OurSide])
  BY DEF IInv, TypeOK, PlayersInv
<1> HIDE DEF s
<1>4. /\ Coherent(Tail(s), mode)
      /\ Follows(Tail(s), world[p], penalty[p], mode, kicks[OurSide])
  BY <1>1, <1>2, <1>3, SkipFollows
<1> QED BY <1>1, <1>4, TakeInv DEF s

LEMMA HearModeInv == ASSUME IInv, NEW p \in Unum, AnalyzeHearMode(p) PROVE KicksInv' /\ PlayersInv'
<1> DEFINE s == inbox[p]
           g == Updated(gameMode[p], s[1].type, s[1].side, s[1].cycle)
           x == Play(g.type, g.side)
<1>1. /\ s # <<>> /\ inbox' = [inbox EXCEPT ![p] = Tail(@)] /\ UNCHANGED referee
      /\ s[1].type \in ModeType
      /\ IF g.type = "TimeOver"
         THEN UNCHANGED <<world, penalty>>
         ELSE /\ world' = [world EXCEPT ![p] = x]
              /\ penalty' = IF x.type \in PenaltyType
                            THEN [penalty EXCEPT ![p] = UpdatePenalty(@, x)] ELSE penalty
  BY DEF AnalyzeHearMode, Receive, UpdateGameMode
<1>2. /\ s \in Seq(Message) /\ Coherent(s, mode)
      /\ Follows(s, world[p], penalty[p], mode, kicks[OurSide])
      /\ kicks[OurSide] \in Nat /\ world \in [Unum -> Mode]
      /\ penalty \in [Unum -> PenaltyState] /\ penalty[p] \in PenaltyState
  BY ConstantsAssumption DEF IInv, TypeOK, PlayersInv
<1>3. \/ g.type = s[1].type /\ g.side = s[1].side
      \/ g.type = "GoalieCatch_" /\ s[1].type = "FreeKick_"
  <2>1. gameMode[p] \in GameMode
    BY DEF IInv, TypeOK
  <2> QED BY <2>1 DEF Updated, GameMode
<1>4. x.type = g.type /\ x.side = g.side
  BY DEF Play
<1>5. /\ {"GoalieCatch_", "FreeKick_", "TimeOver"} \cap PenaltyType = {}
      /\ KickType \subseteq PenaltyType /\ "PenaltySetup_" \in PenaltyType
  BY DEF PenaltyType, KickType, ResultType
<1> HIDE DEF s, g, x
<1>6. CASE g.type = "TimeOver"
  <2>1. s[1].type # "PenaltySetup_"
    BY <1>3, <1>6
  <2>2. /\ Coherent(Tail(s), mode)
        /\ Follows(Tail(s), world[p], penalty[p], mode, kicks[OurSide])
    BY <1>1, <1>2, <2>1, SkipFollows
  <2> QED BY <1>1, <1>6, <2>2, TakeInv DEF s
<1>7. CASE g.type # "TimeOver" /\ x.type \notin PenaltyType
  <2>1. s[1].type \notin PenaltyType /\ x.type \notin KickType /\ s[1].type # "PenaltySetup_"
    BY <1>3, <1>4, <1>5, <1>7
  <2>2. /\ Coherent(Tail(s), mode)
        /\ Follows(Tail(s), x, penalty[p], mode, kicks[OurSide])
    BY <1>1, <1>2, <2>1, SkipFollows
  <2>3. /\ world'[p] = x /\ penalty' = penalty
        /\ \A q \in Unum \ {p} : world'[q] = world[q]
    BY <1>1, <1>2, <1>7
  <2> QED BY <1>1, <2>2, <2>3, TakeInv DEF s
<1>8. CASE x.type \in PenaltyType
  <2>1. g.type # "TimeOver" /\ s[1].type \in PenaltyType /\ x = Play(s[1].type, s[1].side)
    BY <1>3, <1>4, <1>5, <1>8 DEF x
  <2>2. /\ Coherent(Tail(s), mode)
        /\ Follows(Tail(s), x, UpdatePenalty(penalty[p], x), mode, kicks[OurSide])
    BY <1>1, <1>2, <2>1, HearFollows
  <2>3. /\ world'[p] = x /\ penalty'[p] = UpdatePenalty(penalty[p], x)
        /\ \A q \in Unum \ {p} : world'[q] = world[q] /\ penalty'[q] = penalty[q]
    BY <1>1, <1>2, <1>8, <2>1
  <2> QED BY <1>1, <2>2, <2>3, TakeInv DEF s
<1> QED BY <1>6, <1>7, <1>8

LEMMA InitInv == ASSUME Init PROVE KicksInv /\ PlayersInv
<1>1. /\ mode.type = "BeforeKickOff" /\ \A p \in Unum : world[p].type = "BeforeKickOff"
      /\ kicks[OurSide] = 0
  BY ConstantsAssumption DEF Init, Play
<1>2. "BeforeKickOff" \notin KickType \cup ResultType
  BY DEF KickType, ResultType
<1>3. ASSUME NEW p \in Unum
      PROVE  /\ inbox[p] = <<>> /\ penalty[p].ours = 0 /\ penalty[p].kickerSide = "NEUTRAL"
  BY DEF Init
<1>4. KicksInv
  BY <1>1, <1>2 DEF KicksInv
<1>5. ASSUME NEW p \in Unum
      PROVE  /\ Coherent(inbox[p], mode)
             /\ Follows(inbox[p], world[p], penalty[p], mode, kicks[OurSide])
  <2>1. Coherent(inbox[p], mode) /\ ~Pending(inbox[p])
    BY <1>3 DEF Coherent, Pending
  <2> QED BY <1>1, <1>2, <1>3, <2>1 DEF Follows
<1> QED BY <1>4, <1>5 DEF PlayersInv

\* The invariant is inductive.
LEMMA NextInv == ASSUME NoSetupLost, IInv, [Next]_vars, TypeOK' PROVE IInv'
<1> SUFFICES KicksInv' /\ PlayersInv'
  BY DEF IInv
<1>1. CASE UNCHANGED vars
  BY <1>1 DEF vars, referee, players, IInv, KicksInv, PlayersInv
<1>2. ASSUME NEW p \in Unum, Player(p) \/ Lose(p) PROVE KicksInv' /\ PlayersInv'
  BY <1>2, HearModeInv, SkipInv DEF Player
<1> QED BY <1>1, <1>2, RefereeInv, StartShootoutInv, NextKickInv, OtherMessageInv DEF Next, Referee

LEMMA InvCorrect == ASSUME NoSetupLost PROVE Spec => []IInv
<1>1. Init /\ TypeOK => IInv
  BY InitInv DEF IInv
<1>2. TypeOK' /\ IInv /\ [Next]_vars => IInv'
  BY NextInv
<1> QED BY <1>1, <1>2, TypeCorrect, PTL DEF Spec

LEMMA KickerIs ==
    ASSUME IInv, NEW p \in Kickers
    PROVE  p = TakerUnum(kicks[OurSide])
<1>1. /\ p \in Unum /\ world[p].type \in KickType /\ penalty[p].taker = OurSide
      /\ penalty[p].kickerSide = OurSide /\ penalty[p].kicker = p
  BY DEF Kickers, Role, IsKickTaker
<1>2. Follows(inbox[p], world[p], penalty[p], mode, kicks[OurSide])
  BY <1>1 DEF IInv, PlayersInv
<1>3. OurSide # "NEUTRAL"
  BY ConstantsAssumption DEF Team
<1> QED BY <1>1, <1>2, <1>3 DEF Follows

\* If every player hears every setup, whatever else it misses and in whatever order the
\* players hear, two of them never take the same kick, and the one whose turn it is takes
\* it (PenaltyKickState::update, Bhv_PenaltyKick::execute).
THEOREM KickersAgree == ASSUME NoSetupLost PROVE Spec => []OneKicker
<1>1. IInv => OneKicker
  <2> SUFFICES ASSUME IInv PROVE OneKicker
    OBVIOUS
  <2>1. \A p, q \in Kickers : p = q
    BY KickerIs
  <2>2. ASSUME AllHeard, mode.type \in KickType, mode.side = OurSide
        PROVE  Kickers = {TakerUnum(kicks[OurSide])}
    <3> DEFINE p == TakerUnum(kicks[OurSide])
    <3>1. kicks[OurSide] \in Nat /\ kicks[OurSide] > 0
      BY <2>2, ConstantsAssumption DEF IInv, TypeOK, KicksInv
    <3>2. p \in Unum
      BY <3>1, TakerUnumType
    <3> HIDE DEF p
    <3>3. Follows(inbox[p], world[p], penalty[p], mode, kicks[OurSide]) /\ ~Pending(inbox[p])
      BY <2>2, <3>2 DEF IInv, PlayersInv, AllHeard, Pending
    <3>4. /\ world[p].type \in KickType /\ penalty[p].taker = OurSide
          /\ penalty[p].kickerSide = OurSide /\ kicks[OurSide] = penalty[p].ours
      BY <2>2, <3>1, <3>3 DEF Follows
    <3>5. penalty[p].kicker = p
      <4>1. penalty[p].kickerSide # "NEUTRAL"
        BY <3>4, ConstantsAssumption DEF Team
      <4>2. penalty[p].kicker = TakerUnum(penalty[p].ours)
        BY <3>3, <4>1 DEF Follows
      <4> QED BY <3>4, <4>2 DEF p
    <3>6. p \in Kickers
      BY <3>2, <3>4, <3>5 DEF Kickers, Role, IsKickTaker, KickType, ResultType
    <3>7. \A q \in Kickers : q = p
      BY KickerIs DEF p
    <3> QED BY <3>6, <3>7 DEF p
  <2> QED BY <2>1, <2>2 DEF OneKicker
<1> QED BY <1>1, InvCorrect, PTL

\* Under the same assumption the goalie always takes its place when the other team kicks.
THEOREM GoalieInPlace == ASSUME NoSetupLost PROVE Spec => []GoalieDefends
<1>1. IInv => GoalieDefends
  <2> SUFFICES ASSUME IInv, world[Goalie].type \in KickType, world[Goalie].side # OurSide
               PROVE  Role(Goalie) = "Goalie"
    BY DEF GoalieDefends
  <2>1. Follows(inbox[Goalie], world[Goalie], penalty[Goalie], mode, kicks[OurSide])
    BY ConstantsAssumption DEF IInv, PlayersInv
  <2>2. penalty[Goalie].taker # OurSide
    BY <2>1 DEF Follows
  <2> QED BY <2>2 DEF Role
<1> QED BY <1>1, InvCorrect, PTL

-----------------------------------------------------------------------------
(* The kicks in order.                                                     *)

LEMMA TurnGoesDown ==
    ASSUME NEW n \in Nat
    PROVE  /\ TakerUnum(1) = TeamSize
           /\ n > 0 => TakerUnum(n + 1) = IF TakerUnum(n) = 1 THEN TeamSize ELSE TakerUnum(n) - 1
<1> DEFINE T == TeamSize
           q == (n - 1) \div T
           r == (n - 1) % T
<1>1. T \in Nat \ {0}
  BY ConstantsAssumption
<1> HIDE DEF T
<1>2. 0 % T = 0
  BY <1>1
<1>3. ASSUME n > 0 PROVE r \in 0..(T - 1) /\ n % T = IF r = T - 1 THEN 0 ELSE r + 1
  <2>1. n - 1 = T * q + r /\ r \in 0..(T - 1) /\ q \in Nat
    <3>1. n - 1 \in Nat
      BY <1>3
    <3> QED BY <1>1, <3>1, DivMod
  <2> HIDE DEF q, r
  <2>2. CASE r = T - 1
    <3>1. n = T * (q + 1) + 0
      BY <1>1, <2>1, <2>2, Z3
    <3> QED BY <1>1, <2>1, <2>2, <3>1, DivModUnique
  <2>3. CASE r # T - 1
    <3>1. n = T * q + (r + 1) /\ r + 1 \in 0..(T - 1)
      BY <1>1, <2>1, <2>3
    <3> QED BY <1>1, <2>1, <2>3, <3>1, DivModUnique
  <2> QED BY <2>1, <2>2, <2>3
<1> HIDE DEF q
<1> QED BY <1>1, <1>2, <1>3 DEF TakerUnum, T

\* Only the player whose turn it is can be at the ball.
OnlyTurn ==
    /\ kicks[OurSide] > 0 => Turn \in Unum
    /\ Kickers \subseteq {Turn}
    /\ Kickers # {} => kicks[OurSide] > 0

LEMMA KickersAre == IInv => OnlyTurn
<1> SUFFICES ASSUME IInv PROVE OnlyTurn
  OBVIOUS
<1>1. kicks[OurSide] \in Nat
  BY ConstantsAssumption DEF IInv, TypeOK
<1>2. ASSUME NEW p \in Kickers PROVE kicks[OurSide] > 0
  <2>1. p \in Unum /\ penalty[p].kickerSide = OurSide
    BY DEF Kickers, Role, IsKickTaker
  <2>2. /\ Follows(inbox[p], world[p], penalty[p], mode, kicks[OurSide])
        /\ penalty[p].ours \in Nat /\ OurSide # "NEUTRAL"
    BY <2>1, ConstantsAssumption DEF IInv, TypeOK, PlayersInv, PenaltyState, Team
  <2> QED BY <2>1, <2>2 DEF Follows
<1>3. \A p \in Kickers : p = TakerUnum(kicks[OurSide])
  BY KickerIs
<1>4. kicks[OurSide] > 0 => TakerUnum(kicks[OurSide]) \in Unum
  BY <1>1, TakerUnumType
<1> QED BY <1>1, <1>2, <1>3, <1>4 DEF Turn, OnlyTurn

\* What leaves the counts and the world models alone changes nothing.
LEMMA OrderStutters ==
    ASSUME UNCHANGED <<kicks, world, penalty>>
    PROVE  UNCHANGED Order!vars
<1>1. Kickers' = Kickers
  BY DEF Kickers, Role, IsKickTaker
<1> QED BY <1>1 DEF Order!vars, Turn, Taken

\* A kick of the team is set up when the last one has been taken and nobody is there.
LEMMA OrderSetUp ==
    ASSUME IInv, OnlyTurn, StartShootout \/ NextKick
    PROVE  [Order!Next]_(Order!vars)
<1> DEFINE n == kicks[OurSide]
<1>1. PICK s \in Team : \E first : Setup(s, first)
  BY DEF StartShootout, NextKick, Opponent, Team
<1>2. /\ kicks' = [kicks EXCEPT ![s] = @ + 1] /\ world' = world /\ penalty' = penalty
      /\ \A p \in Unum : inbox[p] = <<>>
      /\ kicks \in [Team -> Nat] /\ OurSide \in Team /\ mode'.side = s
  BY <1>1, ConstantsAssumption DEF Setup, Play, Announce, players, IInv, TypeOK
<1>3. Kickers' = Kickers
  BY <1>2 DEF Kickers, Role, IsKickTaker
<1>4. CASE s # OurSide
  <2>1. kicks'[OurSide] = kicks[OurSide]
    BY <1>2, <1>4
  <2> QED BY <1>2, <1>3, <2>1 DEF Order!vars, Turn, Taken
<1>5. CASE s = OurSide
  <2>1. n \in Nat /\ kicks'[OurSide] = n + 1
    BY <1>2, <1>5
  <2>2. ASSUME NEW p \in Unum
        PROVE  Follows(inbox[p], world[p], penalty[p], mode, n) /\ ~Pending(inbox[p])
    BY <1>2 DEF IInv, PlayersInv, Pending
  <2>3. \A p \in Unum : penalty[p].ours = n
    BY <2>2 DEF Follows
  <2>4. n > 0 => Turn \in Unum
    BY DEF OnlyTurn
  <2>5. Taken
    BY <2>1, <2>3, <2>4 DEF Taken
  <2>6. Kickers = {}
    <3>1. CASE StartShootout
      <4>1. n = 0
        BY <3>1 DEF StartShootout, IInv, KicksInv
      <4> QED BY <4>1 DEF OnlyTurn
    <3>2. CASE NextKick
      <4>1. mode.type \in ResultType /\ mode'.side = Opponent(mode.side)
        BY <3>2 DEF NextKick, Setup, Play
      <4>2. mode.side # OurSide
        BY <1>2, <1>5, <4>1 DEF Opponent
      <4>3. ASSUME NEW p \in Kickers PROVE FALSE
        <5>1. p \in Unum /\ penalty[p].taker = OurSide
          BY <4>3 DEF Kickers, Role
        <5> QED BY <2>2, <4>1, <4>2, <5>1 DEF Follows
      <4> QED BY <4>3
    <3> QED BY <3>1, <3>2
  <2>7. Turn' = IF Turn = 1 THEN TeamSize ELSE Turn - 1
    <3>1. Turn' = TakerUnum(n + 1)
      BY <2>1 DEF Turn
    <3> QED BY <2>1, <3>1, TurnGoesDown DEF Turn
  <2>8. ~Taken'
    <3>1. Turn' \in Unum /\ Turn' = TakerUnum(n + 1)
      BY <2>1, TakerUnumType DEF Turn
    <3>2. penalty'[Turn'].ours = n
      BY <1>2, <2>3, <3>1
    <3> QED BY <2>1, <3>2 DEF Taken
  <2> QED BY <1>3, <2>5, <2>6, <2>7, <2>8 DEF Order!Next, Order!SetUp
<1> QED BY <1>4, <1>5

\* The player whose turn it is steps up when it hears of the setup, and leaves when it
\* hears of another mode; no other player's count matters.
LEMMA OrderHear ==
    ASSUME IInv, IInv', OnlyTurn, OnlyTurn', NEW p \in Unum, AnalyzeHearMode(p)
    PROVE  [Order!Next]_(Order!vars)
<1> DEFINE n == kicks[OurSide]
           s == inbox[p]
           g == Updated(gameMode[p], s[1].type, s[1].side, s[1].cycle)
           x == Play(g.type, g.side)
<1>1. /\ kicks' = kicks /\ mode' = mode /\ s # <<>> /\ s[1].type \in ModeType
      /\ \/ UNCHANGED <<world, penalty>>
         \/ /\ world' = [world EXCEPT ![p] = x]
            /\ penalty' = IF x.type \in PenaltyType
                          THEN [penalty EXCEPT ![p] = UpdatePenalty(@, x)] ELSE penalty
  BY DEF AnalyzeHearMode, Receive, UpdateGameMode, referee
<1>2. /\ n \in Nat /\ world \in [Unum -> Mode] /\ penalty \in [Unum -> PenaltyState]
      /\ penalty[p].ours \in Nat /\ s \in Seq(Message) /\ OurSide # "NEUTRAL"
  BY ConstantsAssumption DEF IInv, TypeOK, PenaltyState, Team
<1>3. Turn' = Turn
  BY <1>1 DEF Turn
<1>4. CASE UNCHANGED <<world, penalty>>
  BY <1>1, <1>4, OrderStutters
<1>5. CASE p # Turn \/ n = 0
  <2>1. Kickers \subseteq {Turn} /\ (n = 0 => Kickers = {})
    BY <1>2 DEF OnlyTurn
  <2>2. Kickers' \subseteq {Turn} /\ (n = 0 => Kickers' = {})
    BY <1>1, <1>2, <1>3 DEF OnlyTurn
  <2>3. \A q \in Unum \ {p} : world'[q] = world[q] /\ penalty'[q] = penalty[q]
    BY <1>1, <1>2
  <2>4. \A q \in Unum \ {p} : q \in Kickers' <=> q \in Kickers
    BY <2>3 DEF Kickers, Role, IsKickTaker
  <2>5. Kickers' = Kickers
    BY <1>5, <2>1, <2>2, <2>4 DEF Kickers
  <2>6. Taken' = Taken
    <3>1. CASE n = 0
      BY <1>1, <3>1 DEF Taken
    <3>2. CASE n > 0 /\ p # Turn
      <4>1. Turn \in Unum
        BY <3>2 DEF OnlyTurn
      <4>2. penalty'[Turn] = penalty[Turn]
        BY <2>3, <3>2, <4>1
      <4> QED BY <1>1, <1>3, <4>2 DEF Taken
    <3> QED BY <1>2, <1>5, <3>1, <3>2
  <2> QED BY <1>3, <2>5, <2>6 DEF Order!vars
<1>6. CASE p = Turn /\ n > 0 /\ ~UNCHANGED <<world, penalty>>
  <2>1. /\ Coherent(s, mode) /\ Follows(s, world[p], penalty[p], mode, n)
        /\ 1 \in DOMAIN s /\ s[1] \in Message
    BY <1>1, <1>2 DEF IInv, PlayersInv
  <2>2. world'[p] = x /\ (x.type \notin KickType => p \notin Kickers')
    <3>1. world'[p] = x
      BY <1>1, <1>2, <1>6
    <3> QED BY <3>1 DEF Kickers, Role, KickType, ResultType
  <2>3. x.type \in KickType => x = Play(s[1].type, s[1].side) /\ x = mode
    <3>1. gameMode[p] \in GameMode
      BY DEF IInv, TypeOK
    <3>2. \/ g.type = s[1].type /\ g.side = s[1].side
          \/ g.type = "GoalieCatch_"
      BY <3>1 DEF Updated, GameMode
    <3> HIDE DEF g
    <3> QED BY <2>1, <3>2 DEF Coherent, Play, KickType
  <2>4. Kickers \subseteq {p} /\ Kickers' \subseteq {p}
    BY <1>3, <1>6, SMTT(30) DEF OnlyTurn
  <2> HIDE DEF x, g, s
  <2>5. (Taken <=> penalty[p].ours = n) /\ (Taken' <=> penalty'[p].ours = n) /\ p = TakerUnum(n)
    <3>1. /\ kicks[OurSide] = n /\ kicks'[OurSide] = n /\ n # 0
          /\ Turn = p /\ Turn' = p
      BY <1>1, <1>2, <1>3, <1>6
    <3> HIDE DEF n
    <3>2. Taken <=> penalty[p].ours = n
      BY <3>1 DEF Taken
    <3>3. Taken' <=> penalty'[p].ours = n
      BY <3>1 DEF Taken
    <3>4. p = TakerUnum(n)
      BY <3>1 DEF Turn
    <3> QED BY <3>2, <3>3, <3>4
  <2>6. CASE x.type = "PenaltySetup_" /\ x.side = OurSide
    <3>1. x = mode /\ s[1].type = "PenaltySetup_" /\ "PenaltySetup_" \in KickType \cap PenaltyType
      BY <2>3, <2>6 DEF KickType, PenaltyType, Play
    <3>2. Pending(s) /\ penalty[p].ours = n - 1
      BY <1>2, <2>1, <2>6, <3>1 DEF Pending, Follows
    <3>3. penalty'[p] = UpdatePenalty(penalty[p], x)
      BY <1>1, <1>2, <1>6, <3>1, <2>6 DEF s, x, g
    <3>4. /\ penalty'[p].ours = n /\ penalty'[p].taker = OurSide
          /\ penalty'[p].kickerSide = OurSide /\ penalty'[p].kicker = TakerUnum(n)
      BY <1>2, <1>6, <2>6, <3>1, <3>2, <3>3 DEF UpdatePenalty, OurCount, TakerSide
    <3>5. p \in Kickers'
      <4>1. world'[p].type \in KickType /\ penalty'[p].kicker = p
        BY <2>2, <2>5, <2>6, <3>1, <3>4
      <4> QED BY <3>4, <4>1 DEF Kickers, Role, IsKickTaker, KickType, ResultType
    <3>6. p \notin Kickers
      <4>1. penalty[p].ours > 0 => penalty[p].taker # OurSide
        BY <2>1, <2>6, <3>1, <3>2 DEF Follows
      <4>2. penalty[p].ours = 0 => penalty[p].kickerSide = "NEUTRAL"
        BY <2>1 DEF Follows
      <4> QED BY <1>2, <4>1, <4>2 DEF Kickers, Role, IsKickTaker
    <3>7. ~Taken /\ Taken' /\ Kickers' = {Turn}
      BY <1>2, <1>6, <2>4, <2>5, <3>2, <3>4, <3>5
    <3> QED BY <1>3, <3>7 DEF Order!Next, Order!StepUp
  <2>7. CASE ~(x.type = "PenaltySetup_" /\ x.side = OurSide)
    <3>1. Taken' = Taken
      <4>1. penalty'[p].ours = penalty[p].ours
        <5>1. UpdatePenalty(penalty[p], x).ours = penalty[p].ours
          BY <2>7 DEF UpdatePenalty, OurCount
        <5> QED BY <1>1, <1>2, <5>1 DEF s, x, g
      <4> QED BY <1>1, <1>3, <1>6, <4>1 DEF Taken
    <3>2. ASSUME p \in Kickers' PROVE p \in Kickers
      <4>1. /\ x.type \in KickType /\ x = mode /\ mode.type \in KickType /\ x.type # "PenaltySetup_"
            /\ penalty'[p].taker = OurSide
        <5>1. x.type \in KickType /\ penalty'[p].taker = OurSide
          BY <2>2, <3>2 DEF Kickers, Role
        <5>2. Follows(inbox'[p], world'[p], penalty'[p], mode', kicks'[OurSide])
          BY DEF IInv, PlayersInv
        <5>3. x.side = OurSide
          BY <2>2, <5>1, <5>2 DEF Follows
        <5> QED BY <2>3, <2>7, <5>1, <5>3
      <4>2. ~Pending(s) /\ mode.side = OurSide
        <5>1. ASSUME NEW i \in DOMAIN s, s[i].type = "PenaltySetup_" PROVE FALSE
          <6>1. Play(s[i].type, s[i].side) = mode
            BY <2>1, <5>1 DEF Coherent, KickType
          <6> QED BY <4>1, <5>1, <6>1 DEF Play
        <5>2. x.side = OurSide
          <6>1. Follows(inbox'[p], world'[p], penalty'[p], mode', kicks'[OurSide])
            BY DEF IInv, PlayersInv
          <6> QED BY <2>2, <4>1, <6>1 DEF Follows
        <5> QED BY <4>1, <5>1, <5>2 DEF Pending
      <4>3. /\ world[p].type \in KickType /\ penalty[p].taker = OurSide /\ penalty[p].ours = n
            /\ penalty[p].kickerSide = OurSide
        BY <1>6, <2>1, <4>1, <4>2 DEF Follows
      <4>4. penalty[p].kicker = p
        BY <1>2, <2>1, <2>5, <4>3 DEF Follows
      <4> QED BY <4>3, <4>4 DEF Kickers, Role, IsKickTaker, KickType, ResultType
    <3>3. \/ Kickers' = Kickers
          \/ Kickers # {} /\ Kickers' = {}
      BY <2>4, <3>2
    <3> QED BY <1>3, <3>1, <3>3 DEF Order!Next, Order!Leave, Order!vars
  <2> QED BY <2>6, <2>7
<1> QED BY <1>2, <1>4, <1>5, <1>6

\* If every player hears every setup, the players' private counts implement one shared
\* turn: the kicks go from TeamSize down to 1 and round again, each is taken by the next
\* player, who steps up once and alone, before the next one is set up
\* (PenaltyKickState::update, Bhv_PenaltyKick::execute).
THEOREM CountsImplementTurn == ASSUME NoSetupLost PROVE Spec => KicksInOrder
<1>1. Init => Order!Init
  <2> SUFFICES ASSUME Init PROVE Turn = 1 /\ Taken = TRUE /\ Kickers = {}
    BY DEF Order!Init
  <2>1. kicks[OurSide] = 0
    BY ConstantsAssumption DEF Init
  <2>2. ASSUME NEW p \in Unum PROVE p \notin Kickers
    <3>1. world[p].type = "BeforeKickOff"
      BY DEF Init, Play
    <3> QED BY <3>1 DEF Kickers, Role, KickType, ResultType
  <2> QED BY <2>1, <2>2 DEF Turn, Taken, Kickers
<1>2. IInv /\ OnlyTurn /\ IInv' /\ OnlyTurn' /\ [Next]_vars
        => [Order!Next]_(Order!vars)
  <2> SUFFICES ASSUME IInv, OnlyTurn, IInv', OnlyTurn', [Next]_vars
               PROVE  [Order!Next]_(Order!vars)
    OBVIOUS
  <2>1. CASE \/ PlayMode \/ KickGoesOn \/ KickEnds \/ TimeOver \/ OtherMessage \/ UNCHANGED vars
             \/ \E p \in Unum : Lose(p) \/ AnalyzeHearOther(p)
    <3>1. UNCHANGED <<kicks, world, penalty>>
      BY <2>1 DEF PlayMode, KickGoesOn, KickEnds, TimeOver, OtherMessage, Lose, AnalyzeHearOther,
                  Receive, referee, players, vars
    <3> QED BY <3>1, OrderStutters
  <2>2. CASE StartShootout \/ NextKick
    BY <2>2, OrderSetUp
  <2>3. ASSUME NEW p \in Unum, AnalyzeHearMode(p) PROVE [Order!Next]_(Order!vars)
    BY <2>3, OrderHear
  <2> QED BY <2>1, <2>2, <2>3 DEF Next, Referee, Player
<1> QED BY <1>1, <1>2, InvCorrect, KickersAre, PTL DEF Spec, KicksInOrder, Order!Spec

-----------------------------------------------------------------------------
(* The mode.  A player that lost nothing of the last announcement has the  *)
(* modes still on their way to it ahead, and then knows the mode.          *)

NoModes(s) == \A i \in DOMAIN s : s[i].type \notin ModeType

\* The times of the messages s and of the mode g: a catch of this cycle is the catch in force.
Timely(s, g, m, c) ==
    /\ g.time <= c
    /\ g.type = "GoalieCatch_" /\ g.time = c => m.type = "GoalieCatch_"
    /\ \A i \in DOMAIN s : s[i].cycle = c /\ (s[i].type = "GoalieCatch_" => m.type = "GoalieCatch_")

\* It has heard all modes;
Knows(s, w, m) == NoModes(s) /\ w = m

\* the last one is on its way,
OneToHear(s, m) ==
    s # <<>> /\ NoModes(Tail(s)) /\ Play(s[1].type, s[1].side) = m

\* or the free kick of the catch that it knows;
CatchHeard(s, g, w, m, c) ==
    /\ s # <<>> /\ NoModes(Tail(s)) /\ w = m /\ m.type = "GoalieCatch_"
    /\ s[1].type = "FreeKick_" /\ s[1].side = m.side
    /\ g.type = "GoalieCatch_" /\ g.side = m.side /\ g.time = c

\* or both modes of an announcement are.
TwoToHear(s, m) ==
    /\ s # <<>> /\ Tail(s) # <<>> /\ NoModes(Tail(Tail(s))) /\ s[1].type \in ModeType
    /\ \/ Play(Tail(s)[1].type, Tail(s)[1].side) = m
       \/ /\ m.type = "GoalieCatch_" /\ Play(s[1].type, s[1].side) = m
          /\ Tail(s)[1].type = "FreeKick_" /\ Tail(s)[1].side = m.side

Learns(s, g, w, m, c) ==
    \/ Knows(s, w, m) \/ OneToHear(s, m) \/ CatchHeard(s, g, w, m, c) \/ TwoToHear(s, m)

NewsInv ==
    \A p \in Unum :
      /\ Timely(inbox[p], gameMode[p], mode, cycle)
      /\ alive[p] /\ p \notin missed => Learns(inbox[p], gameMode[p], world[p], mode, cycle)

LEMMA HeadTail ==
    ASSUME NEW s \in Seq(Message), s # <<>>
    PROVE  /\ 1 \in DOMAIN s /\ s[1] \in Message /\ Tail(s) \in Seq(Message)
           /\ \A i \in DOMAIN Tail(s) : i + 1 \in DOMAIN s /\ Tail(s)[i] = s[i + 1]
OBVIOUS

LEMMA AppendTail ==
    ASSUME NEW s \in Seq(Message), NEW x \in Message
    PROVE  /\ Append(s, x) # <<>>
           /\ \A i \in DOMAIN Append(s, x) : (i \in DOMAIN s /\ Append(s, x)[i] = s[i])
                                             \/ Append(s, x)[i] = x
           /\ s # <<>> => Append(s, x)[1] = s[1] /\ Tail(Append(s, x)) = Append(Tail(s), x)
<1>1. /\ Append(s, x) # <<>>
      /\ \A i \in DOMAIN Append(s, x) : (i \in DOMAIN s /\ Append(s, x)[i] = s[i])
                                        \/ Append(s, x)[i] = x
  OBVIOUS
<1>2. ASSUME s # <<>>
      PROVE  Append(s, x)[1] = s[1] /\ Tail(Append(s, x)) = Append(Tail(s), x)
  <2>1. /\ Tail(Append(s, x)) \in Seq(Message) /\ Append(Tail(s), x) \in Seq(Message)
        /\ Len(Tail(Append(s, x))) = Len(s) /\ Len(Append(Tail(s), x)) = Len(s)
    BY <1>2
  <2>2. \A i \in 1 .. Len(s) : Tail(Append(s, x))[i] = Append(Tail(s), x)[i]
    BY <1>2, SMTT(30)
  <2>3. Tail(Append(s, x)) = Append(Tail(s), x)
    BY <2>1, <2>2, SeqEqual
  <2> QED BY <1>2, <2>3
<1> QED BY <1>1, <1>2

LEMMA NoModesAppend ==
    ASSUME NEW s \in Seq(Message), NEW x \in Message, x.type \notin ModeType, NoModes(s)
    PROVE  NoModes(Append(s, x))
BY AppendTail DEF NoModes

LEMMA NoModesTail ==
    ASSUME NEW s \in Seq(Message), s # <<>>, NoModes(s)
    PROVE  s[1].type \notin ModeType /\ NoModes(Tail(s))
BY HeadTail DEF NoModes

\* A message that is no mode leaves what is to be learnt as it is: behind the others,
LEMMA AppendLearns ==
    ASSUME NEW s \in Seq(Message), NEW x \in Message, x.type \notin ModeType,
           NEW g, NEW w, NEW m, NEW c, Learns(s, g, w, m, c)
    PROVE  Learns(Append(s, x), g, w, m, c)
<1> DEFINE t == Append(s, x)
<1>1. s # <<>> => t # <<>> /\ t[1] = s[1] /\ Tail(t) = Append(Tail(s), x) /\ Tail(s) \in Seq(Message)
  BY AppendTail
<1>2. NoModes(s) => NoModes(t)
  BY NoModesAppend
<1>3. s # <<>> /\ NoModes(Tail(s)) => NoModes(Append(Tail(s), x))
  BY <1>1, NoModesAppend
<1>4. s # <<>> /\ Tail(s) # <<>> =>
        /\ Tail(t) # <<>> /\ Tail(t)[1] = Tail(s)[1]
        /\ NoModes(Tail(Tail(s))) => NoModes(Tail(Tail(t)))
  <2> SUFFICES ASSUME s # <<>>, Tail(s) # <<>>
               PROVE  /\ Tail(t) # <<>> /\ Tail(t)[1] = Tail(s)[1]
                      /\ NoModes(Tail(Tail(s))) => NoModes(Tail(Tail(t)))
    OBVIOUS
  <2> DEFINE r == Tail(s)
  <2>1. r \in Seq(Message) /\ r # <<>> /\ Tail(t) = Append(r, x)
    BY <1>1
  <2> HIDE DEF r, t
  <2>2. Append(r, x) # <<>> /\ Append(r, x)[1] = r[1] /\ Tail(Append(r, x)) = Append(Tail(r), x)
    BY <2>1, AppendTail
  <2>3. Tail(r) \in Seq(Message)
    BY <2>1, HeadTail
  <2>4. NoModes(Tail(r)) => NoModes(Append(Tail(r), x))
    BY <2>3, NoModesAppend
  <2> QED BY <2>1, <2>2, <2>4 DEF r
<1> HIDE DEF t
<1>5. Knows(s, w, m) => Knows(t, w, m)
  BY <1>2 DEF Knows
<1>6. OneToHear(s, m) => OneToHear(t, m)
  BY <1>1, <1>3 DEF OneToHear
<1>7. CatchHeard(s, g, w, m, c) => CatchHeard(t, g, w, m, c)
  BY <1>1, <1>3 DEF CatchHeard
<1>8. TwoToHear(s, m) => TwoToHear(t, m)
  BY <1>1, <1>4 DEF TwoToHear
<1> QED BY <1>5, <1>6, <1>7, <1>8 DEF Learns, t

\* and heard before them.
LEMMA OtherLearns ==
    ASSUME NEW s \in Seq(Message), s # <<>>, s[1].type \notin ModeType, NEW m \in Mode,
           NEW g, NEW g2, NEW w, NEW c, Learns(s, g, w, m, c)
    PROVE  Learns(Tail(s), g2, w, m, c)
<1>1. ~OneToHear(s, m) /\ ~CatchHeard(s, g, w, m, c) /\ ~TwoToHear(s, m)
  BY DEF OneToHear, CatchHeard, TwoToHear, Play, Mode, ModeType, PlayType
<1> QED BY <1>1, NoModesTail DEF Learns, Knows

\* GameMode::update of the next mode: the player knows the mode or has less to hear.
LEMMA HearLearns ==
    ASSUME NEW s \in Seq(Message), s # <<>>, s[1].type \in ModeType, NEW m \in Mode,
           NEW g \in GameMode, NEW w \in Mode, NEW c \in Nat,
           Timely(s, g, m, c), Learns(s, g, w, m, c)
    PROVE  LET h == Updated(g, s[1].type, s[1].side, s[1].cycle)
           IN  Learns(Tail(s), h, Play(h.type, h.side), m, c)
<1> DEFINE h == Updated(g, s[1].type, s[1].side, s[1].cycle)
           w2 == Play(h.type, h.side)
<1> SUFFICES Learns(Tail(s), h, w2, m, c)
  OBVIOUS
<1>1. s[1].cycle = c /\ Play(m.type, m.side) = m
  BY HeadTail DEF Timely, Play, Mode
<1>2. \/ g.type = "GoalieCatch_" /\ s[1].type = "FreeKick_" /\ g.side = s[1].side /\ g.time = c
           /\ h.type = "GoalieCatch_" /\ h.side = g.side /\ h.time = c
      \/ ~(g.type = "GoalieCatch_" /\ s[1].type = "FreeKick_" /\ g.side = s[1].side /\ g.time = c)
           /\ h.type = s[1].type /\ h.side = s[1].side /\ h.time = c
  BY <1>1 DEF Updated, GameMode
<1> HIDE DEF h
<1>3. ~Knows(s, w, m)
  BY NoModesTail DEF Knows
<1>4. CASE OneToHear(s, m)
  <2>1. m.type = s[1].type /\ m.side = s[1].side
    BY <1>4 DEF OneToHear, Play
  <2>2. h.type = s[1].type /\ h.side = s[1].side
    BY <1>2, <2>1 DEF Timely
  <2> QED BY <1>1, <1>4, <2>1, <2>2 DEF OneToHear, Learns, Knows
<1>5. CASE CatchHeard(s, g, w, m, c)
  <2>1. h.type = m.type /\ h.side = m.side
    BY <1>2, <1>5 DEF CatchHeard
  <2> QED BY <1>1, <1>5, <2>1 DEF CatchHeard, Learns, Knows
<1>6. CASE TwoToHear(s, m)
  <2>1. CASE Play(Tail(s)[1].type, Tail(s)[1].side) = m
    BY <1>6, <2>1 DEF TwoToHear, OneToHear, Learns
  <2>2. CASE /\ m.type = "GoalieCatch_" /\ Play(s[1].type, s[1].side) = m
             /\ Tail(s)[1].type = "FreeKick_" /\ Tail(s)[1].side = m.side
    <3>1. s[1].type = "GoalieCatch_" /\ s[1].side = m.side
      BY <2>2 DEF Play
    <3>2. h.type = "GoalieCatch_" /\ h.side = m.side /\ h.time = c
      BY <1>2, <3>1
    <3>3. w2 = m
      BY <1>1, <2>2, <3>2
    <3> QED BY <1>6, <2>2, <3>2, <3>3 DEF TwoToHear, CatchHeard, Learns
  <2> QED BY <1>6, <2>1, <2>2 DEF TwoToHear
<1> QED BY <1>3, <1>4, <1>5, <1>6 DEF Learns

\* Times: of the messages that are left, and of the mode that was heard.
LEMMA TailTimely ==
    ASSUME NEW s \in Seq(Message), s # <<>>, NEW m, NEW c \in Nat, NEW g \in GameMode,
           NEW g2 \in GameMode, Timely(s, g, m, c),
           \/ g2 = g
           \/ g2 = Updated(g, s[1].type, s[1].side, s[1].cycle)
           \/ g2 = Updated(g, "PlayOn", "NEUTRAL", s[1].cycle)
    PROVE  Timely(Tail(s), g2, m, c)
<1>1. s[1].cycle = c /\ (s[1].type = "GoalieCatch_" => m.type = "GoalieCatch_")
  BY HeadTail DEF Timely
<1>2. g2 = g \/ (/\ g2.time = c
                 /\ g2.type = "GoalieCatch_" =>
                      s[1].type = "GoalieCatch_" \/ (g.type = "GoalieCatch_" /\ g.time = c))
  BY <1>1 DEF Updated, GameMode
<1>3. g2.time <= c /\ (g2.type = "GoalieCatch_" /\ g2.time = c => m.type = "GoalieCatch_")
  BY <1>1, <1>2 DEF Timely
<1> QED BY <1>3, HeadTail DEF Timely
-----------------------------------------------------------------------------
(* The actions.                                                            *)

LEMMA InitNews == ASSUME Init PROVE NewsInv
<1>1. ASSUME NEW p \in Unum
      PROVE  /\ inbox[p] = <<>> /\ world[p] = mode /\ cycle = 0
             /\ gameMode[p].type = "BeforeKickOff" /\ gameMode[p].time = -1
  BY DEF Init
<1>2. ASSUME NEW p \in Unum
      PROVE  /\ Timely(inbox[p], gameMode[p], mode, cycle)
             /\ Knows(inbox[p], world[p], mode)
  BY <1>1 DEF Timely, Knows, NoModes
<1> QED BY <1>2 DEF NewsInv, Learns

\* What is announced can be learnt: one mode,
LEMMA HeardOneLearns ==
    ASSUME NEW m \in Mode, NEW c
    PROVE  /\ OneToHear(Heard(<<m>>, c), m)
           /\ \A i \in DOMAIN Heard(<<m>>, c) : /\ Heard(<<m>>, c)[i].cycle = c
                                               /\ Heard(<<m>>, c)[i].type = m.type
<1> DEFINE x == [type |-> m.type, side |-> m.side, cycle |-> c]
<1>1. Heard(<<m>>, c) = <<x>>
  <2>1. DOMAIN <<m>> = 1 .. 1 /\ <<m>>[1] = m
    OBVIOUS
  <2>2. Heard(<<m>>, c) = [i \in 1 .. 1 |-> x]
    BY <2>1 DEF Heard
  <2> QED BY <2>2
<1>2. <<x>> # <<>> /\ Tail(<<x>>) = <<>> /\ <<x>>[1] = x /\ DOMAIN <<x>> = {1}
  OBVIOUS
<1>3. x.type = m.type /\ x.side = m.side /\ x.cycle = c /\ Play(m.type, m.side) = m
  BY DEF Play, Mode
<1> HIDE DEF x
<1>4. NoModes(<<>>)
  BY DEF NoModes
<1> QED BY <1>1, <1>2, <1>3, <1>4 DEF OneToHear

\* or two.
LEMMA HeardTwoLearns ==
    ASSUME NEW a \in Mode, NEW b \in Mode, NEW m \in Mode, NEW c,
           \/ m = b
           \/ m = a /\ a.type = "GoalieCatch_" /\ b.type = "FreeKick_" /\ b.side = a.side
    PROVE  /\ TwoToHear(Heard(<<a, b>>, c), m)
           /\ \A i \in DOMAIN Heard(<<a, b>>, c) :
                /\ Heard(<<a, b>>, c)[i].cycle = c
                /\ Heard(<<a, b>>, c)[i].type \in {a.type, b.type}
<1> DEFINE x == [type |-> a.type, side |-> a.side, cycle |-> c]
           y == [type |-> b.type, side |-> b.side, cycle |-> c]
<1>1. Heard(<<a, b>>, c) = <<x, y>>
  <2> DEFINE z == <<a, b>>
  <2>1. DOMAIN z = 1 .. 2 /\ z[1] = a /\ z[2] = b
    OBVIOUS
  <2> HIDE DEF z
  <2>2. Heard(z, c) = [i \in 1 .. 2 |-> [type |-> z[i].type, side |-> z[i].side, cycle |-> c]]
    BY <2>1 DEF Heard
  <2>3. Heard(z, c) = <<x, y>>
    BY <2>1, <2>2
  <2> QED BY <2>3 DEF z
<1>2. /\ <<x, y>> # <<>> /\ Tail(<<x, y>>) = <<y>> /\ <<y>> # <<>> /\ Tail(<<y>>) = <<>>
      /\ <<x, y>>[1] = x /\ <<x, y>>[2] = y /\ <<y>>[1] = y /\ DOMAIN <<x, y>> = {1, 2}
  OBVIOUS
<1>3. /\ x.type = a.type /\ x.side = a.side /\ x.cycle = c /\ Play(a.type, a.side) = a
      /\ y.type = b.type /\ y.side = b.side /\ y.cycle = c /\ Play(b.type, b.side) = b
      /\ a.type \in ModeType
  BY DEF Play, Mode
<1> HIDE DEF x, y
<1>4. NoModes(<<>>)
  BY DEF NoModes
<1>5. TwoToHear(<<x, y>>, m)
  BY <1>2, <1>3, <1>4 DEF TwoToHear
<1> QED BY <1>1, <1>2, <1>3, <1>5

LEMMA AnnounceNews ==
    ASSUME TypeOK, NewsInv, UNCHANGED players, mode' \in Mode,
           \/ Announce(<<mode'>>)
           \/ \E a, b \in Mode :
                /\ Announce(<<a, b>>)
                /\ \/ mode' = b /\ a.type # "GoalieCatch_"
                   \/ /\ mode' = a /\ a.type = "GoalieCatch_"
                      /\ b.type = "FreeKick_" /\ b.side = a.side
    PROVE  NewsInv'
<1>1. PICK modes \in Seq(Mode) :
        /\ Announce(modes)
        /\ \A w, g : Learns(Heard(modes, cycle'), g, w, mode', cycle')
        /\ \A i \in DOMAIN Heard(modes, cycle') :
             /\ Heard(modes, cycle')[i].cycle = cycle'
             /\ Heard(modes, cycle')[i].type = "GoalieCatch_" => mode'.type = "GoalieCatch_"
  <2>1. CASE Announce(<<mode'>>)
    <3>1. <<mode'>> \in Seq(Mode)
      OBVIOUS
    <3>2. /\ OneToHear(Heard(<<mode'>>, cycle'), mode')
          /\ \A i \in DOMAIN Heard(<<mode'>>, cycle') :
               /\ Heard(<<mode'>>, cycle')[i].cycle = cycle'
               /\ Heard(<<mode'>>, cycle')[i].type = mode'.type
      BY HeardOneLearns
    <3> QED BY <2>1, <3>1, <3>2 DEF Learns
  <2>2. ASSUME NEW a \in Mode, NEW b \in Mode, Announce(<<a, b>>),
               \/ mode' = b /\ a.type # "GoalieCatch_"
               \/ /\ mode' = a /\ a.type = "GoalieCatch_"
                  /\ b.type = "FreeKick_" /\ b.side = a.side
        PROVE  \E modes \in Seq(Mode) :
                 /\ Announce(modes)
                 /\ \A w, g : Learns(Heard(modes, cycle'), g, w, mode', cycle')
                 /\ \A i \in DOMAIN Heard(modes, cycle') :
                      /\ Heard(modes, cycle')[i].cycle = cycle'
                      /\ Heard(modes, cycle')[i].type = "GoalieCatch_"
                           => mode'.type = "GoalieCatch_"
    <3>1. <<a, b>> \in Seq(Mode)
      OBVIOUS
    <3>2. /\ TwoToHear(Heard(<<a, b>>, cycle'), mode')
          /\ \A i \in DOMAIN Heard(<<a, b>>, cycle') :
               /\ Heard(<<a, b>>, cycle')[i].cycle = cycle'
               /\ Heard(<<a, b>>, cycle')[i].type \in {a.type, b.type}
      BY <2>2, HeardTwoLearns
    <3> QED BY <2>2, <3>1, <3>2 DEF Learns
  <2> QED BY <2>1, <2>2
<1>2. inbox' = [p \in Unum |-> Heard(modes, cycle')]
  BY <1>1, AnnounceType
<1>3. /\ cycle \in Nat /\ cycle' \in Nat /\ cycle' >= cycle
      /\ cycle' = cycle => IsServerCycleStoppedMode(mode)
  BY <1>1 DEF Announce, TypeOK
<1>4. ASSUME NEW p \in Unum
      PROVE  Timely(inbox'[p], gameMode[p], mode', cycle')
  <2>1. /\ gameMode[p].time \in Int /\ gameMode[p].time <= cycle
        /\ gameMode[p].type = "GoalieCatch_" /\ gameMode[p].time = cycle
             => mode.type = "GoalieCatch_"
    BY DEF NewsInv, Timely, TypeOK, GameMode
  <2>2. ~(gameMode[p].type = "GoalieCatch_" /\ gameMode[p].time = cycle')
    BY <1>3, <2>1 DEF IsServerCycleStoppedMode
  <2> QED BY <1>1, <1>2, <1>3, <2>1, <2>2 DEF Timely
<1>5. ASSUME NEW p \in Unum
      PROVE  Learns(inbox'[p], gameMode[p], world[p], mode', cycle')
  BY <1>1, <1>2
<1> QED BY <1>4, <1>5 DEF NewsInv, players

LEMMA RefereeNews ==
    ASSUME TypeOK, TypeOK', NewsInv, Referee, ~OtherMessage
    PROVE  NewsInv'
<1>1. mode' \in Mode /\ UNCHANGED players
  BY DEF TypeOK, Referee, PlayMode, StartShootout, NextKick, Setup, KickGoesOn, KickEnds, TimeOver
<1>2. CASE PlayMode
  <2>1. PICK type \in PlayType, side \in Team :
           /\ mode' = Play(type, IF type \in {"BeforeKickOff", "PlayOn"} THEN "NEUTRAL" ELSE side)
           /\ Announce(IF type = "GoalieCatch_" THEN <<mode', Play("FreeKick_", side)>> ELSE <<mode'>>)
    BY <1>2 DEF PlayMode
  <2>2. CASE type = "GoalieCatch_"
    <3>1. /\ Announce(<<mode', Play("FreeKick_", side)>>)
          /\ mode'.type = "GoalieCatch_" /\ mode'.side = side
      BY <2>1, <2>2 DEF Play
    <3>2. /\ Play("FreeKick_", side) \in Mode /\ Play("FreeKick_", side).type = "FreeKick_"
          /\ Play("FreeKick_", side).side = side
      BY DEF Play, Mode, ModeType, PlayType, Side
    <3> QED BY <1>1, <3>1, <3>2, AnnounceNews
  <2>3. CASE type # "GoalieCatch_"
    <3>1. Announce(<<mode'>>)
      BY <2>1, <2>3
    <3> QED BY <1>1, <3>1, AnnounceNews
  <2> QED BY <2>2, <2>3
<1>3. CASE StartShootout
  <2>1. PICK s \in Team : Setup(s, <<Play("PenaltyOnfield_", onfield')>>)
    BY <1>3 DEF StartShootout
  <2> DEFINE x == Play("PenaltyOnfield_", onfield')
  <2>2. x \in Mode /\ x.type # "GoalieCatch_"
    BY <1>3 DEF StartShootout, Play, Mode, ModeType, PenaltyType, Side
  <2> HIDE DEF x
  <2>3. <<x>> \o <<mode'>> = <<x, mode'>>
    BY <1>1, <2>2, TwoModes
  <2>4. Announce(<<x, mode'>>)
    BY <2>1, <2>3 DEF Setup, x
  <2> QED BY <1>1, <2>2, <2>4, AnnounceNews
<1>4. CASE NextKick
  <2>1. Setup(Opponent(mode.side), <<>>)
    BY <1>4 DEF NextKick
  <2>2. <<>> \o <<mode'>> = <<mode'>>
    BY <1>1
  <2>3. Announce(<<mode'>>)
    BY <2>1, <2>2 DEF Setup
  <2> QED BY <1>1, <2>3, AnnounceNews
<1>5. CASE KickGoesOn \/ TimeOver
  <2>1. Announce(<<mode'>>)
    BY <1>5 DEF KickGoesOn, TimeOver
  <2> QED BY <1>1, <2>1, AnnounceNews
<1>6. CASE KickEnds
  <2>1. CASE Announce(<<mode'>>)
    BY <1>1, <2>1, AnnounceNews
  <2>2. ASSUME NEW s \in Team, Announce(<<Play("PenaltyFoul_", s), mode'>>)
        PROVE  NewsInv'
    <3>1. Play("PenaltyFoul_", s) \in Mode /\ Play("PenaltyFoul_", s).type # "GoalieCatch_"
      BY DEF Play, Mode, ModeType, PenaltyType, Side
    <3> QED BY <1>1, <2>2, <3>1, AnnounceNews
  <2> QED BY <1>6, <2>1, <2>2 DEF KickEnds
<1> QED BY <1>2, <1>3, <1>4, <1>5, <1>6 DEF Referee

LEMMA OtherMessageNews ==
    ASSUME TypeOK, NewsInv, OtherMessage
    PROVE  NewsInv'
<1>1. PICK kind \in OtherKinds :
         inbox' = [p \in Unum |->
                     Append(inbox[p], [type |-> kind, side |-> "NEUTRAL", cycle |-> cycle])]
  BY DEF OtherMessage
<1> DEFINE x == [type |-> kind, side |-> "NEUTRAL", cycle |-> cycle]
<1>2. x \in Message /\ x.type = kind /\ x.cycle = cycle
  BY DEF TypeOK, Message, Side
<1>3. kind \notin ModeType /\ kind # "GoalieCatch_"
  BY ConstantsAssumption DEF ModeType, PlayType, PenaltyType, KickType, ResultType
<1> HIDE DEF x
<1>4. UNCHANGED <<mode, cycle, missed, gameMode, alive, world>>
  BY DEF OtherMessage, referee, players
<1>5. ASSUME NEW p \in Unum
      PROVE  /\ Timely(inbox'[p], gameMode[p], mode, cycle)
             /\ alive[p] /\ p \notin missed
                  => Learns(inbox'[p], gameMode[p], world[p], mode, cycle)
  <2>1. inbox[p] \in Seq(Message) /\ inbox'[p] = Append(inbox[p], x)
    BY <1>1 DEF TypeOK, x
  <2>2. \A i \in DOMAIN inbox'[p] : (i \in DOMAIN inbox[p] /\ inbox'[p][i] = inbox[p][i])
                                    \/ inbox'[p][i] = x
    BY <1>2, <2>1, AppendTail
  <2>3. Timely(inbox'[p], gameMode[p], mode, cycle)
    BY <1>2, <1>3, <2>2 DEF NewsInv, Timely
  <2>4. alive[p] /\ p \notin missed
          => Learns(inbox'[p], gameMode[p], world[p], mode, cycle)
    BY <1>2, <1>3, <2>1, AppendLearns DEF NewsInv
  <2> QED BY <2>3, <2>4
<1> QED BY <1>4, <1>5 DEF NewsInv

\* A step of one player, or a loss.
LEMMA TakeNews ==
    ASSUME TypeOK, NewsInv, NEW p \in Unum,
           inbox' = [inbox EXCEPT ![p] = Tail(@)], UNCHANGED referee,
           missed \subseteq missed',
           \A q \in Unum \ {p} : /\ gameMode'[q] = gameMode[q] /\ world'[q] = world[q]
                                /\ alive'[q] = alive[q],
           Timely(Tail(inbox[p]), gameMode'[p], mode, cycle),
           alive'[p] /\ p \notin missed'
             => Learns(Tail(inbox[p]), gameMode'[p], world'[p], mode, cycle)
    PROVE  NewsInv'
<1>1. mode' = mode /\ cycle' = cycle /\ inbox \in [Unum -> Seq(Message)]
  BY DEF referee, TypeOK
<1>2. ASSUME NEW q \in Unum
      PROVE  /\ Timely(inbox'[q], gameMode'[q], mode, cycle)
             /\ alive'[q] /\ q \notin missed'
                  => Learns(inbox'[q], gameMode'[q], world'[q], mode, cycle)
  <2>1. CASE q = p
    <3>1. inbox'[p] = Tail(inbox[p])
      BY <1>1
    <3> QED BY <2>1, <3>1
  <2>2. CASE q # p
    <3>1. inbox'[q] = inbox[q]
      BY <1>1, <2>2
    <3> QED BY <2>2, <3>1 DEF NewsInv
  <2> QED BY <2>1, <2>2
<1> QED BY <1>1, <1>2 DEF NewsInv

LEMMA PlayerNews ==
    ASSUME TypeOK, TypeOK', NewsInv, NEW p \in Unum, Player(p) \/ Lose(p)
    PROVE  NewsInv'
<1> DEFINE s == inbox[p]
           g == gameMode[p]
<1>1. /\ s # <<>> /\ inbox' = [inbox EXCEPT ![p] = Tail(@)] /\ UNCHANGED referee
      /\ missed \subseteq missed'
  BY DEF Player, AnalyzeHearMode, AnalyzeHearOther, Receive, Lose
<1>2. /\ s \in Seq(Message) /\ mode \in Mode /\ cycle \in Nat /\ g \in GameMode
      /\ gameMode'[p] \in GameMode /\ world[p] \in Mode
      /\ gameMode \in [Unum -> GameMode] /\ world \in [Unum -> Mode] /\ alive \in [Unum -> BOOLEAN]
  BY DEF TypeOK
<1>3. /\ Timely(s, g, mode, cycle)
      /\ alive[p] /\ p \notin missed => Learns(s, g, world[p], mode, cycle)
  BY DEF NewsInv
<1>4. CASE Lose(p)
  <2>1. p \in missed' /\ UNCHANGED players
    BY <1>4 DEF Lose
  <2>2. Timely(Tail(s), gameMode'[p], mode, cycle)
    BY <1>1, <1>2, <1>3, <2>1, TailTimely DEF players
  <2> QED BY <1>1, <2>1, <2>2, TakeNews DEF players
<1>5. CASE AnalyzeHearOther(p)
  <2>1. /\ s[1].type \in OtherKinds /\ missed' = missed
        /\ gameMode' = IF s[1].type = "unknown"
                       THEN [gameMode EXCEPT ![p] = Updated(@, "PlayOn", "NEUTRAL", s[1].cycle)]
                       ELSE gameMode
        /\ UNCHANGED <<alive, world>>
    BY <1>5 DEF AnalyzeHearOther, Receive
  <2>2. s[1].type \notin ModeType
    BY <2>1, ConstantsAssumption DEF ModeType, PlayType, PenaltyType, KickType, ResultType
  <2>3. /\ gameMode'[p] = g \/ gameMode'[p] = Updated(g, "PlayOn", "NEUTRAL", s[1].cycle)
        /\ \A q \in Unum \ {p} : gameMode'[q] = gameMode[q]
    BY <1>2, <2>1
  <2> HIDE DEF s, g
  <2>4. Timely(Tail(s), gameMode'[p], mode, cycle)
    BY <1>1, <1>2, <1>3, <2>3, TailTimely
  <2>5. alive'[p] /\ p \notin missed'
          => Learns(Tail(s), gameMode'[p], world'[p], mode, cycle)
    BY <1>1, <1>2, <1>3, <2>1, <2>2, OtherLearns
  <2> QED BY <1>1, <2>1, <2>3, <2>4, <2>5, TakeNews DEF s
<1>6. CASE AnalyzeHearMode(p)
  <2> DEFINE h == Updated(g, s[1].type, s[1].side, s[1].cycle)
  <2>1. /\ s[1].type \in ModeType /\ missed' = missed
        /\ gameMode' = [gameMode EXCEPT ![p] = h]
        /\ IF h.type = "TimeOver"
           THEN alive' = [alive EXCEPT ![p] = FALSE] /\ UNCHANGED world
           ELSE world' = [world EXCEPT ![p] = Play(h.type, h.side)] /\ UNCHANGED alive
    BY <1>6 DEF AnalyzeHearMode, Receive, UpdateGameMode
  <2> HIDE DEF s, g, h
  <2>2. /\ gameMode'[p] = h
        /\ \A q \in Unum \ {p} : /\ gameMode'[q] = gameMode[q] /\ world'[q] = world[q]
                                /\ alive'[q] = alive[q]
        /\ alive'[p] => alive[p] /\ world'[p] = Play(h.type, h.side)
    BY <1>2, <2>1
  <2>3. Timely(Tail(s), h, mode, cycle)
    BY <1>1, <1>2, <1>3, <2>2, TailTimely DEF h
  <2>4. alive'[p] /\ p \notin missed' => Learns(Tail(s), h, world'[p], mode, cycle)
    BY <1>1, <1>2, <1>3, <2>1, <2>2, HearLearns DEF h
  <2> QED BY <1>1, <2>1, <2>2, <2>3, <2>4, TakeNews DEF s
<1> QED BY <1>4, <1>5, <1>6 DEF Player

\* Whatever got lost before and whatever strings come between, a player that lost nothing of the
\* last announcement has its mode once it has heard it, and the free kick of a catch it keeps as a
\* catch (GameMode::update): for any team, and any number of announcements and losses.
THEOREM ModeIsKnown == Spec => []WorldKnowsMode
<1>1. TypeOK /\ TypeOK' /\ NewsInv /\ [Next]_vars => NewsInv'
  <2>1. NewsInv /\ UNCHANGED vars => NewsInv'
    BY DEF NewsInv, vars, referee, players
  <2> QED BY <2>1, RefereeNews, OtherMessageNews, PlayerNews DEF Next, Referee
<1>2. NewsInv => WorldKnowsMode
  <2> SUFFICES ASSUME NewsInv, NEW p \in Unum, alive[p], inbox[p] = <<>>, p \notin missed
               PROVE  world[p] = mode
    BY DEF WorldKnowsMode
  <2>1. Learns(inbox[p], gameMode[p], world[p], mode, cycle)
    BY DEF NewsInv
  <2> QED BY <2>1 DEF Learns, Knows, OneToHear, CatchHeard, TwoToHear
<1> QED BY <1>1, <1>2, InitNews, TypeCorrect, PTL DEF Spec

-----------------------------------------------------------------------------
(* The goal.  It is announced before the first kick, so a player that      *)
(* knows of a kick holds the goal in use.                                  *)

NoGoalLost == "PenaltyOnfield_" \notin Losable

ShootoutType == KickType \cup ResultType

NoGoal(s) == \A i \in DOMAIN s : s[i].type # "PenaltyOnfield_"

\* What a player with the messages s on their way, the world model's mode w and the penalty
\* kick state k has of the goal o: it holds it or will hear of it next, and knows of no kick
\* before.
HoldsGoal(s, w, k, o) ==
    /\ NoGoal(s) => k.onfield = o
    /\ \A i \in DOMAIN s : s[i].type = "PenaltyOnfield_" => i = 1 /\ s[i].side = o
    /\ w.type \in ShootoutType => NoGoal(s)

\* The kicker it holds is of the side whose kick it knows of.
KicksForSide(w, k) ==
    /\ w.type \in KickType => k.kickerSide \in {"NEUTRAL", w.side}
    /\ w.type \in ResultType => k.kickerSide = "NEUTRAL"

\* It does not know of a kick, nor is one on its way.
Quiet(s, w) == w.type \notin ShootoutType /\ \A i \in DOMAIN s : s[i].type \notin ShootoutType

GoalInv ==
    /\ mode.type \in PlayType \/ onfield \notin Team
         => mode.type \notin ShootoutType /\ \A p \in Unum : Quiet(inbox[p], world[p])
    /\ \A p \in Unum : /\ HoldsGoal(inbox[p], world[p], penalty[p], onfield)
                       /\ KicksForSide(world[p], penalty[p])

LEMMA ShootoutTypes ==
    /\ ShootoutType \cap PlayType = {} /\ KickType \cap ResultType = {}
    /\ ShootoutType \subseteq PenaltyType /\ ShootoutType \subseteq ModeType
    /\ "PenaltyOnfield_" \notin ShootoutType /\ "TimeOver" \notin ShootoutType
    /\ "PenaltyOnfield_" \notin PlayType /\ "TimeOver" \notin PlayType
    /\ "PenaltyFoul_" \notin ShootoutType /\ "GoalieCatch_" \notin ShootoutType
    /\ "GoalieCatch_" \notin PenaltyType /\ "PenaltyOnfield_" \in PenaltyType
    /\ OtherKinds \cap ModeType = {}
BY ConstantsAssumption DEF ShootoutType, KickType, ResultType, PlayType, PenaltyType, ModeType

LEMMA InitGoal == ASSUME Init PROVE GoalInv
<1>1. mode.type = "BeforeKickOff" /\ onfield = "NEUTRAL"
  BY DEF Init, Play
<1>2. ASSUME NEW p \in Unum
      PROVE  inbox[p] = <<>> /\ penalty[p].onfield = "NEUTRAL" /\ world[p].type = "BeforeKickOff"
  BY DEF Init, Play
<1>3. "BeforeKickOff" \notin ShootoutType /\ "BeforeKickOff" \notin KickType \cup ResultType
  BY DEF ShootoutType, KickType, ResultType
<1> QED BY <1>1, <1>2, <1>3 DEF GoalInv, HoldsGoal, KicksForSide, Quiet, NoGoal

\* A player that has heard everything holds the goal, also while modes without one are
\* announced: a kick only if one is on.
LEMMA AnnounceGoal ==
    ASSUME GoalInv, UNCHANGED <<onfield, world, penalty>>,
           \A p \in Unum : inbox[p] = <<>> /\ NoGoal(inbox'[p]),
           mode'.type \in PlayType => mode.type \in PlayType /\ mode'.type \notin ShootoutType,
           \/ mode.type \in ShootoutType
           \/ /\ mode'.type \notin ShootoutType
              /\ \A p \in Unum : \A i \in DOMAIN inbox'[p] : inbox'[p][i].type \notin ShootoutType,
           mode'.type \in PlayType => mode.type \notin ShootoutType
    PROVE  GoalInv'
<1>1. ASSUME NEW p \in Unum
      PROVE  HoldsGoal(inbox'[p], world'[p], penalty'[p], onfield') /\ KicksForSide(world'[p], penalty'[p])
  <2>1. NoGoal(inbox[p]) /\ HoldsGoal(inbox[p], world[p], penalty[p], onfield)
        /\ KicksForSide(world[p], penalty[p])
    BY DEF GoalInv, NoGoal
  <2> QED BY <2>1 DEF HoldsGoal, NoGoal
<1>2. mode'.type \in PlayType \/ onfield \notin Team
        => mode'.type \notin ShootoutType /\ \A p \in Unum : Quiet(inbox'[p], world[p])
  BY DEF GoalInv, Quiet
<1> QED BY <1>1, <1>2 DEF GoalInv

\* What is on its way after an announcement of one mode or two.
LEMMA AnnouncedTypes ==
    ASSUME TypeOK, NEW x \in Mode, NEW y \in Mode,
           \/ Announce(<<x>>)
           \/ Announce(<<x, y>>)
    PROVE  \A p \in Unum : /\ inbox[p] = <<>>
                           /\ \A i \in DOMAIN inbox'[p] : inbox'[p][i].type \in {x.type, y.type}
<1>1. CASE Announce(<<x>>)
  <2>1. <<x>> \in Seq(Mode) /\ \A i \in DOMAIN Heard(<<x>>, cycle') : Heard(<<x>>, cycle')[i].type = x.type
    BY HeardOneLearns
  <2>2. \A p \in Unum : inbox[p] = <<>> /\ inbox'[p] = Heard(<<x>>, cycle')
    BY <1>1, <2>1, AnnounceType
  <2> QED BY <2>1, <2>2
<1>2. CASE Announce(<<x, y>>)
  <2>1. /\ <<x, y>> \in Seq(Mode)
        /\ \A i \in DOMAIN Heard(<<x, y>>, cycle') : Heard(<<x, y>>, cycle')[i].type \in {x.type, y.type}
    BY HeardTwoLearns
  <2>2. \A p \in Unum : inbox[p] = <<>> /\ inbox'[p] = Heard(<<x, y>>, cycle')
    BY <1>2, <2>1, AnnounceType
  <2> QED BY <2>1, <2>2
<1> QED BY <1>1, <1>2

LEMMA RefereeGoal ==
    ASSUME TypeOK, TypeOK', GoalInv, Referee, ~OtherMessage
    PROVE  GoalInv'
<1>1. mode' \in Mode /\ UNCHANGED <<world, penalty>>
  BY DEF TypeOK, Referee, PlayMode, StartShootout, NextKick, Setup, KickGoesOn, KickEnds, TimeOver,
         players
<1>2. CASE PlayMode
  <2>1. PICK type \in PlayType, side \in Team :
           /\ mode' = Play(type, IF type \in {"BeforeKickOff", "PlayOn"} THEN "NEUTRAL" ELSE side)
           /\ Announce(IF type = "GoalieCatch_" THEN <<mode', Play("FreeKick_", side)>> ELSE <<mode'>>)
    BY <1>2 DEF PlayMode
  <2> DEFINE y == Play("FreeKick_", side)
  <2>2. mode'.type \in PlayType /\ mode.type \in PlayType /\ UNCHANGED onfield
    BY <1>2, <2>1 DEF Play, PlayMode
  <2>3. y \in Mode /\ y.type \in PlayType
    BY DEF Play, Mode, ModeType, PlayType, Side
  <2>4. Announce(<<mode'>>) \/ Announce(<<mode', y>>)
    BY <2>1
  <2> HIDE DEF y
  <2>5. \A p \in Unum : /\ inbox[p] = <<>>
                        /\ \A i \in DOMAIN inbox'[p] : inbox'[p][i].type \in PlayType
    BY <1>1, <2>2, <2>3, <2>4, AnnouncedTypes
  <2> QED BY <1>1, <2>2, <2>5, ShootoutTypes, AnnounceGoal DEF NoGoal
<1>3. CASE StartShootout
  <2>1. PICK s \in Team : Setup(s, <<Play("PenaltyOnfield_", onfield')>>)
    BY <1>3 DEF StartShootout
  <2> DEFINE x == Play("PenaltyOnfield_", onfield')
  <2>2. /\ x \in Mode /\ x.type = "PenaltyOnfield_" /\ x.side = onfield' /\ onfield' \in Team
        /\ mode.type \in PlayType
    BY <1>3 DEF StartShootout, Play, Mode, ModeType, PenaltyType, Side
  <2> HIDE DEF x
  <2>3. <<x>> \o <<mode'>> = <<x, mode'>> /\ <<x, mode'>> \in Seq(Mode)
    BY <1>1, <2>2, TwoModes
  <2>4. Announce(<<x, mode'>>) /\ mode'.type = "PenaltySetup_"
    BY <2>1, <2>3 DEF Setup, x, Play
  <2>5. inbox' = [p \in Unum |-> Heard(<<x, mode'>>, cycle')]
    BY <2>3, <2>4, AnnounceType
  <2> DEFINE h == Heard(<<x, mode'>>, cycle')
  <2>6. /\ DOMAIN h = {1, 2} /\ h[1].type = "PenaltyOnfield_" /\ h[1].side = onfield'
        /\ h[2].type = "PenaltySetup_"
    <3> DEFINE z == <<x, mode'>>
    <3>1. DOMAIN z = {1, 2} /\ z[1] = x /\ z[2] = mode'
      OBVIOUS
    <3> HIDE DEF z
    <3>2. Heard(z, cycle')
            = [i \in {1, 2} |-> [type |-> z[i].type, side |-> z[i].side, cycle |-> cycle']]
      BY <3>1 DEF Heard
    <3>3. h = Heard(z, cycle')
      BY DEF z
    <3> HIDE DEF h
    <3> QED BY <2>2, <2>4, <3>1, <3>2, <3>3
  <2> HIDE DEF h
  <2>7. \A w, k : w.type \notin ShootoutType => HoldsGoal(h, w, k, onfield')
    BY <2>6 DEF HoldsGoal, NoGoal
  <2>8. \A p \in Unum : world[p].type \notin ShootoutType /\ KicksForSide(world[p], penalty[p])
    BY <2>2 DEF GoalInv, Quiet
  <2>9. mode'.type \notin PlayType
    BY <2>4 DEF PlayType
  <2>10. \A p \in Unum : inbox'[p] = h
    BY <2>5 DEF h
  <2> QED BY <1>1, <2>2, <2>7, <2>8, <2>9, <2>10 DEF GoalInv
<1>4. CASE NextKick
  <2>1. Setup(Opponent(mode.side), <<>>) /\ mode.type \in ResultType /\ UNCHANGED onfield
    BY <1>4 DEF NextKick
  <2>2. <<>> \o <<mode'>> = <<mode'>>
    BY <1>1
  <2>3. Announce(<<mode'>>) /\ mode'.type = "PenaltySetup_"
    BY <2>1, <2>2 DEF Setup, Play
  <2>4. mode'.type \notin PlayType /\ mode.type \in ShootoutType
    BY <2>1, <2>3 DEF PlayType, ShootoutType
  <2>5. \A p \in Unum : inbox[p] = <<>> /\ NoGoal(inbox'[p])
    BY <1>1, <2>3, AnnouncedTypes DEF NoGoal
  <2> QED BY <1>1, <2>1, <2>4, <2>5, AnnounceGoal
<1>5. CASE KickGoesOn \/ TimeOver
  <2>1. /\ Announce(<<mode'>>) /\ UNCHANGED onfield
        /\ mode'.type \in {"PenaltyReady_", "PenaltyTaken_", "TimeOver"}
        /\ mode'.type # "TimeOver" => mode.type \in KickType
    BY <1>5 DEF KickGoesOn, TimeOver, Play, KickType
  <2>2. mode'.type \notin PlayType
    BY <2>1 DEF PlayType
  <2>3. \A p \in Unum : /\ inbox[p] = <<>> /\ NoGoal(inbox'[p])
                        /\ \A i \in DOMAIN inbox'[p] : inbox'[p][i].type = mode'.type
    BY <1>1, <2>1, AnnouncedTypes DEF NoGoal
  <2>4. mode.type \in ShootoutType \/ mode'.type \notin ShootoutType
    BY <2>1, ShootoutTypes DEF ShootoutType
  <2> QED BY <1>1, <2>1, <2>2, <2>3, <2>4, AnnounceGoal
<1>6. CASE KickEnds
  <2>1. /\ mode'.type \in ResultType /\ mode.type \in KickType /\ UNCHANGED onfield
        /\ Announce(<<mode'>>) \/ \E s \in Team : Announce(<<Play("PenaltyFoul_", s), mode'>>)
    BY <1>6 DEF KickEnds, Play
  <2>2. mode'.type # "PenaltyOnfield_" /\ mode'.type \notin PlayType /\ mode.type \in ShootoutType
    BY <2>1 DEF ResultType, PlayType, ShootoutType
  <2>3. PICK x \in Mode : /\ x.type # "PenaltyOnfield_"
                          /\ Announce(<<x>>) \/ Announce(<<x, mode'>>)
    <3>1. \A s \in Team : Play("PenaltyFoul_", s) \in Mode /\ Play("PenaltyFoul_", s).type # "PenaltyOnfield_"
      BY DEF Play, Mode, ModeType, PenaltyType, Side
    <3> QED BY <1>1, <2>1, <2>2, <3>1
  <2>4. \A p \in Unum : inbox[p] = <<>> /\ NoGoal(inbox'[p])
    <3>1. \A p \in Unum : /\ inbox[p] = <<>>
                          /\ \A i \in DOMAIN inbox'[p] : inbox'[p][i].type \in {x.type, mode'.type}
      BY <1>1, <2>3, AnnouncedTypes
    <3> QED BY <2>2, <2>3, <3>1 DEF NoGoal
  <2> QED BY <1>1, <2>1, <2>2, <2>4, AnnounceGoal
<1> QED BY <1>2, <1>3, <1>4, <1>5, <1>6 DEF Referee

LEMMA OtherMessageGoal ==
    ASSUME TypeOK, GoalInv, OtherMessage
    PROVE  GoalInv'
<1>1. PICK kind \in OtherKinds :
         inbox' = [p \in Unum |->
                     Append(inbox[p], [type |-> kind, side |-> "NEUTRAL", cycle |-> cycle])]
  BY DEF OtherMessage
<1> DEFINE x == [type |-> kind, side |-> "NEUTRAL", cycle |-> cycle]
<1>2. x \in Message /\ x.type # "PenaltyOnfield_" /\ x.type \notin ShootoutType
  BY ConstantsAssumption, ShootoutTypes DEF TypeOK, Message, Side
<1> HIDE DEF x
<1>3. UNCHANGED <<mode, onfield, world, penalty>>
  BY DEF OtherMessage, referee, players
<1>4. ASSUME NEW p \in Unum
      PROVE  /\ HoldsGoal(inbox'[p], world[p], penalty[p], onfield)
             /\ Quiet(inbox[p], world[p]) => Quiet(inbox'[p], world[p])
  <2>1. inbox[p] \in Seq(Message) /\ inbox'[p] = Append(inbox[p], x)
    BY <1>1 DEF TypeOK, x
  <2>2. \A i \in DOMAIN inbox[p] : i \in DOMAIN inbox'[p] /\ inbox'[p][i] = inbox[p][i]
    BY <2>1
  <2>3. \A i \in DOMAIN inbox'[p] : (i \in DOMAIN inbox[p] /\ inbox'[p][i] = inbox[p][i])
                                    \/ inbox'[p][i] = x
    BY <1>2, <2>1, AppendTail
  <2>4. HoldsGoal(inbox[p], world[p], penalty[p], onfield)
    BY DEF GoalInv
  <2>5. HoldsGoal(inbox'[p], world[p], penalty[p], onfield)
    BY <1>2, <2>2, <2>3, <2>4 DEF HoldsGoal, NoGoal
  <2> QED BY <1>2, <2>3, <2>5 DEF Quiet
<1> QED BY <1>3, <1>4 DEF GoalInv

\* PenaltyKickState::update takes the goal over when its message arrives; no other follows.
LEMMA TailGoal ==
    ASSUME NEW s \in Seq(Message), s # <<>>, NEW w, NEW k, NEW w2, NEW k2, NEW o, HoldsGoal(s, w, k, o),
           IF s[1].type = "PenaltyOnfield_" THEN k2.onfield = s[1].side
                                           ELSE k2.onfield = k.onfield
    PROVE  HoldsGoal(Tail(s), w2, k2, o)
<1>1. /\ 1 \in DOMAIN s /\ \A i \in DOMAIN s : i = 1 \/ (i - 1 \in DOMAIN Tail(s) /\ Tail(s)[i - 1] = s[i])
      /\ \A i \in DOMAIN Tail(s) : i + 1 \in DOMAIN s /\ Tail(s)[i] = s[i + 1] /\ i + 1 # 1
  OBVIOUS
<1>2. NoGoal(Tail(s))
  BY <1>1 DEF HoldsGoal, NoGoal
<1>3. k2.onfield = o
  <2>1. CASE s[1].type = "PenaltyOnfield_"
    BY <1>1, <2>1 DEF HoldsGoal
  <2>2. CASE s[1].type # "PenaltyOnfield_"
    <3>1. NoGoal(s)
      BY <1>1, <2>2 DEF HoldsGoal, NoGoal
    <3> QED BY <2>2, <3>1 DEF HoldsGoal
  <2> QED BY <2>1, <2>2
<1> QED BY <1>2, <1>3 DEF HoldsGoal, NoGoal

\* What a message changes of the penalty kick state and the world model's mode.
LEMMA HearGoal ==
    ASSUME NoGoalLost, TypeOK, NEW p \in Unum, Player(p) \/ Lose(p), KicksForSide(world[p], penalty[p])
    PROVE  /\ \A q \in Unum \ {p} : penalty'[q] = penalty[q] /\ world'[q] = world[q]
           /\ IF inbox[p][1].type = "PenaltyOnfield_" THEN penalty'[p].onfield = inbox[p][1].side
                                                     ELSE penalty'[p].onfield = penalty[p].onfield
           /\ KicksForSide(world'[p], penalty'[p])
           /\ world'[p].type \in ShootoutType => world'[p].type \in {world[p].type, inbox[p][1].type}
<1> DEFINE s == inbox[p]
<1>1. penalty \in [Unum -> PenaltyState] /\ world \in [Unum -> Mode]
  BY DEF TypeOK
<1>2. CASE Lose(p) \/ AnalyzeHearOther(p)
  <2>1. s[1].type # "PenaltyOnfield_" /\ UNCHANGED <<world, penalty>>
    BY <1>2, ConstantsAssumption DEF Lose, NoGoalLost, AnalyzeHearOther, players
  <2> QED BY <2>1
<1>3. CASE AnalyzeHearMode(p)
  <2> DEFINE g == Updated(gameMode[p], s[1].type, s[1].side, s[1].cycle)
             x == Play(g.type, g.side)
  <2>1. IF g.type = "TimeOver"
        THEN UNCHANGED <<world, penalty>>
        ELSE /\ world' = [world EXCEPT ![p] = x]
             /\ penalty' = IF x.type \in PenaltyType
                           THEN [penalty EXCEPT ![p] = UpdatePenalty(@, x)] ELSE penalty
    BY <1>3 DEF AnalyzeHearMode, UpdateGameMode
  <2>2. \/ g.type = s[1].type /\ g.side = s[1].side
        \/ g.type = "GoalieCatch_" /\ s[1].type = "FreeKick_"
    <3>1. gameMode[p] \in GameMode
      BY DEF TypeOK
    <3> QED BY <3>1 DEF Updated, GameMode
  <2>3. x.type = g.type /\ x.side = g.side
    BY SMTT(30) DEF Play
  <2>4. /\ UpdatePenalty(penalty[p], x).onfield
             = IF x.type = "PenaltyOnfield_" THEN x.side ELSE penalty[p].onfield
        /\ UpdatePenalty(penalty[p], x).kickerSide \in {"NEUTRAL", x.side}
        /\ x.type \notin KickType => UpdatePenalty(penalty[p], x).kickerSide = "NEUTRAL"
    BY SMTT(30) DEF UpdatePenalty
  <2>5. KicksForSide(x, UpdatePenalty(penalty[p], x))
    BY <2>4, ShootoutTypes, ZenonT(40) DEF KicksForSide
  <2>6. x.type \notin PenaltyType => \A k : KicksForSide(x, k)
    BY ShootoutTypes DEF KicksForSide, ShootoutType
  <2> HIDE DEF g, x, s
  <2>7. CASE g.type = "TimeOver"
    BY <2>1, <2>2, <2>7, ShootoutTypes DEF s
  <2>8. CASE g.type # "TimeOver"
    <3>1. world'[p] = x /\ \A q \in Unum \ {p} : world'[q] = world[q] /\ penalty'[q] = penalty[q]
      BY <1>1, <2>1, <2>8
    <3>2. penalty'[p] = IF x.type \in PenaltyType THEN UpdatePenalty(penalty[p], x) ELSE penalty[p]
      BY <1>1, <2>1, <2>8
    <3>3. KicksForSide(world'[p], penalty'[p])
      BY <2>5, <2>6, <3>1, <3>2
    <3>4. /\ IF s[1].type = "PenaltyOnfield_" THEN penalty'[p].onfield = s[1].side
                                             ELSE penalty'[p].onfield = penalty[p].onfield
          /\ world'[p].type \in ShootoutType => world'[p].type = s[1].type
      BY <2>2, <2>3, <2>4, <3>1, <3>2, ShootoutTypes
    <3> QED BY <3>1, <3>3, <3>4 DEF s
  <2> QED BY <2>7, <2>8
<1> QED BY <1>2, <1>3 DEF Player

LEMMA PlayerGoal ==
    ASSUME NoGoalLost, TypeOK, GoalInv, NEW p \in Unum, Player(p) \/ Lose(p)
    PROVE  GoalInv'
<1> DEFINE s == inbox[p]
<1>1. /\ s # <<>> /\ inbox' = [inbox EXCEPT ![p] = Tail(@)] /\ UNCHANGED <<mode, onfield>>
      /\ s \in Seq(Message) /\ inbox \in [Unum -> Seq(Message)]
      /\ HoldsGoal(s, world[p], penalty[p], onfield) /\ KicksForSide(world[p], penalty[p])
  BY DEF Player, AnalyzeHearMode, AnalyzeHearOther, Receive, Lose, TypeOK, GoalInv, referee
<1>2. inbox'[p] = Tail(s) /\ \A q \in Unum \ {p} : inbox'[q] = inbox[q]
  BY <1>1 DEF s
<1>3. /\ \A q \in Unum \ {p} : penalty'[q] = penalty[q] /\ world'[q] = world[q]
      /\ IF s[1].type = "PenaltyOnfield_" THEN penalty'[p].onfield = s[1].side
                                         ELSE penalty'[p].onfield = penalty[p].onfield
      /\ KicksForSide(world'[p], penalty'[p])
      /\ world'[p].type \in ShootoutType => world'[p].type \in {world[p].type, s[1].type}
  BY <1>1, HearGoal
<1> HIDE DEF s
<1>4. HoldsGoal(Tail(s), world'[p], penalty'[p], onfield)
  BY <1>1, <1>3, TailGoal
<1>5. Quiet(s, world[p]) => Quiet(Tail(s), world'[p])
  BY <1>1, <1>3, HeadTail DEF Quiet
<1>6. ASSUME NEW q \in Unum
      PROVE  /\ HoldsGoal(inbox'[q], world'[q], penalty'[q], onfield)
             /\ KicksForSide(world'[q], penalty'[q])
             /\ Quiet(inbox[q], world[q]) => Quiet(inbox'[q], world'[q])
  <2>1. CASE q = p
    BY <1>2, <1>3, <1>4, <1>5, <2>1 DEF s
  <2>2. CASE q # p
    BY <1>2, <1>3, <2>2 DEF GoalInv
  <2> QED BY <2>1, <2>2
<1> QED BY <1>1, <1>6 DEF GoalInv

\* If every player hears of the goal and of every setup, the kicker always attacks and the goalie
\* always defends the goal that the referee chose (is_reverse_side), in every order in which
\* the players hear.
THEOREM GoalIsKnown ==
    ASSUME NoSetupLost, NoGoalLost
    PROVE  Spec => []GoalIsTheReferees
<1>1. TypeOK /\ TypeOK' /\ GoalInv /\ [Next]_vars => GoalInv'
  <2>1. GoalInv /\ UNCHANGED vars => GoalInv'
    BY DEF GoalInv, vars, referee, players
  <2> QED BY <2>1, RefereeGoal, OtherMessageGoal, PlayerGoal DEF Next, Referee
<1>2. IInv /\ GoalInv => GoalIsTheReferees
  <2> SUFFICES ASSUME IInv, GoalInv
               PROVE  /\ \A p \in Kickers : ReverseSide(p) = (onfield = "LEFT")
                      /\ Role(Goalie) = "Goalie" => ReverseSide(Goalie) = (onfield = "RIGHT")
    BY DEF GoalIsTheReferees
  <2>1. OurSide # "NEUTRAL" /\ Goalie \in Unum
    BY ConstantsAssumption DEF Team
  <2>2. \A p \in Unum : world[p].type \in ShootoutType => penalty[p].onfield = onfield /\ onfield # "NEUTRAL"
    BY DEF GoalInv, HoldsGoal, Quiet, Team
  <2>3. ASSUME NEW p \in Kickers PROVE ReverseSide(p) = (onfield = "LEFT")
    <3>1. p \in Unum /\ IsKickTaker(p) /\ world[p].type \in ShootoutType
      BY <2>3 DEF Kickers, Role, ShootoutType
    <3> QED BY <2>2, <3>1 DEF ReverseSide
  <2>4. ASSUME Role(Goalie) = "Goalie" PROVE ReverseSide(Goalie) = (onfield = "RIGHT")
    <3> DEFINE w == world[Goalie]
               k == penalty[Goalie]
    <3>1. (w.type \in KickType /\ k.taker # OurSide) \/ w.type \in ResultType
      BY <2>4 DEF Role
    <3>2. (w.type \in KickType => k.taker = w.side) /\ KicksForSide(w, k)
      BY <2>1 DEF IInv, PlayersInv, Follows, GoalInv
    <3>3. k.kickerSide # OurSide
      BY <2>1, <3>1, <3>2 DEF KicksForSide
    <3> QED BY <2>1, <2>2, <3>1, <3>3 DEF ReverseSide, IsKickTaker, ShootoutType
  <2> QED BY <2>3, <2>4
<1>3. Spec => []IInv
  BY InvCorrect
<1>4. Spec => []TypeOK
  BY TypeCorrect
<1> QED BY <1>1, <1>2, <1>3, <1>4, InitGoal, PTL DEF Spec
================================================================================
