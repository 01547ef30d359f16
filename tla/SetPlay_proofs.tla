---------------------------- MODULE SetPlay_proofs ----------------------------
(***************************************************************************)
(* Proofs about SetPlay, for every dropBallTime and every bound:           *)
(*                                                                         *)
(*   TypeCorrect           every variable has its type;                    *)
(*   RequestsHeeded        a kick lets the steps after a request pass;     *)
(*   KicksAreTaken         free kicks, kick-ins and goal kicks of ours are *)
(*                         never lost to the drop ball, if at most three   *)
(*                         steps go wrong and the kicker arrives in time;  *)
(*   IndirectKicksAreTaken what an indirect free kick takes to be lost,    *)
(*   CatchesAreKicked      and what a goalie's catch takes.                *)
(***************************************************************************)
EXTENDS SetPlay, TLAPS

Age == cycle - since     \* of the set play, as the referee counts it

-----------------------------------------------------------------------------
(* What each behaviour sends.                                              *)

LEMMA CountedRange ==
    ASSUME NEW max \in Nat, NEW n \in 0 .. max
    PROVE  Counted(n, max) \in 0 .. max /\ Counted(n, max) <= n + 1
                /\ (n < max => Counted(n, max) = n + 1) /\ (n >= max => Counted(n, max) = n)
BY DEF Counted

\* A free kick before the last five cycles waits for a count over 3; in them the kicker turns to
\* the ball or kicks.
LEMMA FreeKickCommand ==
    ASSUME NEW in \in Inputs, NEW n \in Nat, cycle \in Int, start \in Int, dropBallTime \in Int
    PROVE  /\ FreeKick(in, n) \in {"turn_point", "turn_ball", "kick"}
           /\ real < dropBallTime - 5 /\ FreeKick(in, n) = "kick" => n >= 4
           /\ real >= dropBallTime - 5 =>
                FreeKick(in, n) = "kick" \/ (FreeKick(in, n) = "turn_ball" /\ facing # "ball")
<1> DEFINE early == real < dropBallTime - 5
           point == \/ stopped # 0 \/ Delaying(in) \/ in.alone \/ n <= 3
                    \/ ~Forced(in, n) /\ facing # "point"
           ball  == /\ stopped = 0 /\ ~Delaying(in) /\ ~in.alone /\ n > 3
                    /\ ~Forced(in, n) /\ facing = "point" /\ NotReady(in)
<1>1. FreeKick(in, n) = CASE early /\ point -> "turn_point"
                          [] early /\ ball  -> "turn_ball"
                          [] OTHER -> IF in.pass THEN "kick" ELSE Clear
  BY DEF FreeKick
<1>2. Clear = IF facing = "ball" THEN "kick" ELSE "turn_ball"
  BY DEF Clear
<1>3. early <=> real < dropBallTime - 5
  OBVIOUS
<1>4. ~point => n >= 4
  OBVIOUS
<1>5. real \in Int
  BY DEF real
<1> HIDE DEF early, point, ball
<1> QED BY <1>1, <1>2, <1>3, <1>4, <1>5

LEMMA KickInCommand ==
    ASSUME NEW in \in Inputs, NEW n \in Nat, cycle \in Int, start \in Int, dropBallTime \in Int
    PROVE  /\ KickIn(in, n) \in {"turn_point", "turn_ball", "kick"}
           /\ real < dropBallTime - 5 /\ KickIn(in, n) = "kick" => n >= 4
           /\ real >= dropBallTime - 5 =>
                KickIn(in, n) = "kick" \/ (KickIn(in, n) = "turn_ball" /\ facing # "ball")
<1> DEFINE early == real < dropBallTime - 5
           point == Delaying(in) \/ in.alone
           ball  == n <= 3 \/ (~Forced(in, n) /\ NotReady(in))
<1>1. KickIn(in, n) = CASE early /\ point -> "turn_point"
                        [] early /\ ~point /\ ball  -> "turn_ball"
                        [] OTHER -> IF in.pass THEN "kick" ELSE Clear
  BY DEF KickIn
<1>2. Clear = IF facing = "ball" THEN "kick" ELSE "turn_ball"
  BY DEF Clear
<1>3. early <=> real < dropBallTime - 5
  OBVIOUS
<1>4. ~ball => n >= 4
  OBVIOUS
<1>5. real \in Int
  BY DEF real
<1> HIDE DEF early, point, ball
<1> QED BY <1>1, <1>2, <1>3, <1>4, <1>5

LEMMA GoalKickCommand ==
    ASSUME NEW in \in Inputs, NEW n \in Nat, cycle \in Int, start \in Int, dropBallTime \in Int
    PROVE  /\ GoalKick(in, n) \in {"turn_ball", "kick"}
           /\ real < dropBallTime - 10 /\ GoalKick(in, n) = "kick" => n >= 7
           /\ real >= dropBallTime - 10 => GoalKick(in, n) = "kick"
BY DEF GoalKick, real

\* Once the kicker looks at the goal only the count and the lack of a receiver hold it.
LEMMA IndirectCommand ==
    ASSUME NEW in \in Inputs, NEW n \in Nat, cycle \in Int, start \in Int, dropBallTime \in Int,
           stopped \in Nat
    PROVE  /\ IndirectFreeKick(in, n) \in {"turn_point", "kick"}
           /\ stopped = 0 /\ facing = "point" /\ n > 10 /\ real > dropBallTime - 3
                => IndirectFreeKick(in, n) = "kick"
BY DEF IndirectFreeKick, real

Flags == [first : BOOLEAN, second : BOOLEAN, wait : 0 .. MaxWait]

\* Updates of the flags are flags.
LEMMA FlagsUpdates ==
    /\ NoFlags \in Flags
    /\ \A f \in Flags : [f EXCEPT !.first = TRUE] \in Flags
    /\ \A f \in Flags, w \in 0 .. MaxWait :
         [f EXCEPT !.wait = w] \in Flags /\ [f EXCEPT !.second = TRUE, !.wait = w] \in Flags
<1>1. NoFlags \in Flags
  BY SMT DEF NoFlags, Flags, MaxWait
<1>2. ASSUME NEW f \in Flags
      PROVE  [f EXCEPT !.first = TRUE] \in Flags /\ [f EXCEPT !.second = TRUE] \in Flags
  BY Zenon DEF Flags
<1>3. ASSUME NEW f \in Flags, NEW w \in 0 .. MaxWait
      PROVE  [f EXCEPT !.wait = w] \in Flags
  BY Zenon DEF Flags
<1>4. ASSUME NEW f \in Flags, NEW w \in 0 .. MaxWait
      PROVE  [f EXCEPT !.second = TRUE, !.wait = w] = [[f EXCEPT !.second = TRUE] EXCEPT !.wait = w]
  BY SMT DEF Flags
<1> QED BY <1>1, <1>2, <1>3, <1>4

\* The goalie's commands, the flags they leave, and the requests it waits for.
LEMMA GoalieCommand ==
    ASSUME NEW in \in Inputs, NEW n \in Nat, cycle \in Int, start \in Int, dropBallTime \in Int,
           flags \in Flags
    PROVE  /\ GoalieFreeKick(in, n).command \in {"none", "move", "kick"}
           /\ GoalieFreeKick(in, n).flags \in Flags
           /\ GoalieFreeKick(in, n).command = "kick" => n >= 3
<1> DEFINE g1 == timeDiff <= 2
           g2 == timeDiff > 2 /\ ~flags.first
           g3 == /\ timeDiff > 2 /\ flags.first
                 /\ \/ timeDiff < 50 \/ n < 3
                    \/ timeDiff < dropBallTime - 15 /\ (~in.rested \/ ~in.far)
           r1 == [command |-> "none", flags |-> NoFlags]
           r2 == [command |-> "move", flags |-> [NoFlags EXCEPT !.first = TRUE]]
           r3 == [command |-> "none", flags |-> flags]
           r4 == IF ~flags.second
                 THEN [command |-> "move", flags |-> [flags EXCEPT !.second = TRUE, !.wait = 0]]
                 ELSE IF Counted(flags.wait, MaxWait) < MaxWait \/ ~in.see
                 THEN [command |-> "none",
                       flags |-> [flags EXCEPT !.wait = Counted(@, MaxWait)]]
                 ELSE [command |-> "kick", flags |-> NoFlags]
<1>1. GoalieFreeKick(in, n) = CASE g1 -> r1 [] g2 -> r2 [] g3 -> r3 [] OTHER -> r4
  BY DEF GoalieFreeKick
<1>2. timeDiff \in Int /\ MaxWait \in Nat
  BY DEF timeDiff, real, MaxWait
<1>3. NoFlags \in Flags /\ [NoFlags EXCEPT !.first = TRUE] \in Flags
  BY FlagsUpdates
<1>4. [flags EXCEPT !.second = TRUE, !.wait = 0] \in Flags
  <2>1. 0 \in 0 .. MaxWait
    BY <1>2
  <2> QED BY <2>1, FlagsUpdates, Zenon
<1>5. [flags EXCEPT !.wait = Counted(@, MaxWait)] \in Flags
  <2>1. Counted(flags.wait, MaxWait) \in 0 .. MaxWait
    BY <1>2, CountedRange DEF Flags
  <2> QED BY <2>1, FlagsUpdates
<1>6. r1.command = "none" /\ r1.flags \in Flags /\ r2.command = "move" /\ r2.flags \in Flags
        /\ r3.command = "none" /\ r3.flags \in Flags
  BY <1>3
<1>7. r4.command \in {"none", "move", "kick"} /\ r4.flags \in Flags
  BY <1>3, <1>4, <1>5
<1>8. ~g1 /\ ~g2 /\ ~g3 => n >= 3
  BY <1>2
<1> HIDE DEF g1, g2, g3, r1, r2, r3, r4
<1> QED BY <1>1, <1>6, <1>7, <1>8

-----------------------------------------------------------------------------
(* A step of the server, by what becomes of the set play.                  *)

\* The set play goes on: the kick was not executed, and there is time.
GoesOn ==
    /\ type' = type /\ since' = since /\ start' = start /\ setplayCount' = setplayCount
    /\ dropped' = "none"
    /\ type \in Kicks => /\ ~(lost' = lost /\ command = "kick")
                         /\ cycle + 1 - since < dropBallTime
    /\ type \in Stoppages => stopped' < MaxStopped

\* It ends with a drop ball.
IsDropped ==
    /\ type \in Kicks /\ dropped' = type /\ cycle + 1 - since >= dropBallTime
    /\ ~(lost' = lost /\ command = "kick")
    /\ type' = "PlayOn" /\ since' = cycle' /\ start' = start /\ setplayCount' = setplayCount

\* Or the referee says a mode.
IsAnnounced ==
    /\ dropped' = "none" /\ type' \in Types /\ since' = cycle'
    /\ start' \in {start, cycle'} /\ setplayCount' \in {setplayCount, 0}
    /\ type \in Stoppages => type' \notin Stoppages

LEMMA UpdateGameModeFacts ==
    ASSUME NEW old, NEW new, UpdateGameMode(old, new)
    PROVE  /\ start' \in {start, cycle'} /\ setplayCount' \in {setplayCount, 0}
           /\ new = "PlayOn" => start' = start /\ setplayCount' = setplayCount
BY DEF UpdateGameMode, StartsNow

LEMMA TickFacts ==
    ASSUME TypeOK, Tick
    PROVE  /\ GoesOn \/ IsDropped \/ IsAnnounced
           /\ IF type \in Stoppages THEN cycle' = cycle /\ stopped' = stopped + 1
                                   ELSE cycle' = cycle + 1 /\ stopped' = 0
           /\ cycle' \in 0 .. MaxCycle
           /\ decided' = FALSE /\ command' = "none"
           /\ \/ lost' = lost /\ decided /\ facing' = Faced(command)
              \/ lost' = lost + 1 /\ lost < MaxLost /\ facing' = facing
           /\ heard' \in BOOLEAN /\ blind' = blind /\ flags' = flags
           /\ quiet' = Counted(quiet, MaxQuiet)
<1>1. PICK done \in Commands : Executed(done) /\ Referee(done)
  BY DEF Tick
<1>2. /\ IF type \in Stoppages THEN cycle' = cycle /\ stopped' = stopped + 1
                               ELSE cycle' = cycle + 1 /\ stopped' = 0
      /\ decided' = FALSE /\ command' = "none" /\ blind' = blind /\ flags' = flags
      /\ quiet' = Counted(quiet, MaxQuiet) /\ heard' \in BOOLEAN
  BY DEF Tick, NextTime, Hear
<1>3. cycle' \in 0 .. MaxCycle
  BY <1>2, SetPlayAssumption DEF Tick, TypeOK
<1>4. \/ lost' = lost /\ decided /\ done = command /\ facing' = Faced(command)
      \/ lost' = lost + 1 /\ lost < MaxLost /\ done = "none" /\ facing' = Faced("none")
  BY <1>1 DEF Executed
<1>5. Faced("none") = facing
  BY DEF Faced
<1>6. lost \in Nat /\ since \in Int /\ cycle \in Int /\ dropBallTime \in Int
  BY SetPlayAssumption DEF TypeOK
<1>7. lost' = lost => done = command
  BY <1>4, <1>6
<1>8. GoesOn \/ IsDropped \/ IsAnnounced
  <2> DEFINE over == type \in Kicks /\ done # "kick" /\ cycle' - since >= dropBallTime
             free == type \in Kicks /\ done = "kick"
  <2>1. /\ dropped' = IF over THEN type ELSE "none"
        /\ IF over \/ free
           THEN Announce("PlayOn")
           ELSE \/ type \in Announced(type) /\ stopped' < MaxStopped /\ NoNews
                \/ \E new \in Announced(type) \ {type} : Announce(new)
                \/ Again /\ Announce("FreeKick_")
    BY <1>1 DEF Referee
  <2>2. over => /\ ~free /\ ~(lost' = lost /\ command = "kick")
                /\ cycle + 1 - since >= dropBallTime
    BY <1>2, <1>6, <1>7 DEF Kicks, Stoppages
  <2>3. ~over /\ ~free /\ type \in Kicks => /\ ~(lost' = lost /\ command = "kick")
                                             /\ cycle + 1 - since < dropBallTime
    <3> SUFFICES ASSUME ~over, ~free, type \in Kicks
                 PROVE  /\ ~(lost' = lost /\ command = "kick")
                        /\ cycle + 1 - since < dropBallTime
      OBVIOUS
    <3>1. done # "kick"
      OBVIOUS
    <3>2. ~(cycle' - since >= dropBallTime)
      BY <3>1
    <3>3. ~(lost' = lost /\ command = "kick")
      BY <1>7, <3>1
    <3>4. cycle + 1 - since < dropBallTime
      <4>1. cycle' = cycle + 1
        BY <1>2 DEF Kicks, Stoppages
      <4> QED BY <1>6, <3>2, <4>1
    <3> QED BY <3>3, <3>4
  <2>4. CASE over
    <3>1. type' = "PlayOn" /\ since' = cycle' /\ start' = start /\ setplayCount' = setplayCount
      BY <2>1, <2>4, UpdateGameModeFacts DEF Announce
    <3> QED BY <2>1, <2>2, <2>4, <3>1 DEF IsDropped
  <2>5. CASE ~over /\ free
    BY <2>1, <2>5, UpdateGameModeFacts DEF Announce, IsAnnounced, Types, Kicks, Stoppages
  <2>6. CASE ~over /\ ~free /\ type \in Announced(type) /\ stopped' < MaxStopped /\ NoNews
    BY <2>1, <2>3, <2>6 DEF NoNews, GoesOn
  <2>7. CASE ~over /\ ~free /\ \E new \in Announced(type) \ {type} : Announce(new)
    <3>1. PICK new \in Announced(type) \ {type} : Announce(new)
      BY <2>7
    <3>2. new \in Types /\ (type \in Stoppages => new \notin Stoppages)
      BY <3>1 DEF Announced, Types, Kicks, Stoppages, TypeOK
    <3> QED BY <2>1, <2>7, <3>1, <3>2, UpdateGameModeFacts DEF Announce, IsAnnounced
  <2>8. CASE ~over /\ ~free /\ Again /\ Announce("FreeKick_")
    BY <2>1, <2>8, UpdateGameModeFacts DEF Announce, IsAnnounced, Types, Kicks, Stoppages
  <2> HIDE DEF over, free
  <2> QED BY <2>1, <2>4, <2>5, <2>6, <2>7, <2>8
<1> QED BY <1>2, <1>3, <1>4, <1>5, <1>8

-----------------------------------------------------------------------------
(* A decision, by what it sends.                                           *)

\* A kick waits for the count that its behaviour asks for.
WaitsForCount ==
    /\ type \in Kicks /\ command' = "kick"
    /\ real < dropBallTime - (IF type = "GoalKick_" THEN 10 ELSE 5) \/ type = "GoalieCatch_"
    => setplayCount' >= Patience[type]

\* At the ball, at the end of the time: nothing but the last turn and the kick.
HurriesUp ==
    Age >= ArriveBy =>
      /\ type \in {"FreeKick_", "KickIn_"} /\ real >= dropBallTime - 5
           => command' = "kick" \/ (command' = "turn_ball" /\ facing # "ball")
      /\ type = "GoalKick_" /\ real >= dropBallTime - 10 => command' = "kick"
      /\ type = "IndFreeKick_" =>
           /\ command' \in {"turn_point", "kick"}
           /\ stopped = 0 /\ facing = "point" /\ setplayCount' > 10 /\ real > dropBallTime - 3
                => command' = "kick"

LEMMA CountNowRange ==
    ASSUME TypeOK
    PROVE  /\ CountNow \in 0 .. MaxCount
           /\ CountNow <= setplayCount + 1
           /\ heard => CountNow = 0
           /\ setplayCount < MaxCount /\ ~heard => CountNow = setplayCount + 1
<1>1. setplayCount \in 0 .. MaxCount /\ MaxCount \in Nat
  BY DEF TypeOK, MaxCount
<1> QED BY <1>1, CountedRange DEF CountNow

LEMMA DecideFacts ==
    ASSUME TypeOK, KickerDecides
    PROVE  /\ type # "PlayOn" /\ decided' = TRUE /\ heard' = FALSE /\ ~decided
           /\ UNCHANGED <<cycle, stopped, type, since, dropped, lost, facing, start>>
           /\ setplayCount' = CountNow /\ quiet' = IF heard THEN 0 ELSE quiet
           /\ command' \in Commands /\ flags' \in Flags /\ blind' \in 0 .. MaxBlind
           /\ WaitsForCount /\ HurriesUp
<1>1. PICK in \in Inputs :
        /\ blind >= MaxBlind => in.see
        /\ Age >= ArriveBy => in.arrived
        /\ blind' = IF in.see THEN 0 ELSE blind + 1
        /\ IF type = "GoalieCatch_"
           THEN /\ command' = GoalieFreeKick(in, CountNow).command
                /\ flags' = GoalieFreeKick(in, CountNow).flags
           ELSE command' \in FieldPlayer(in, CountNow) /\ UNCHANGED flags
  BY DEF KickerDecides, Age
<1>2. /\ type # "PlayOn" /\ decided' = TRUE /\ heard' = FALSE /\ ~decided
      /\ UNCHANGED <<cycle, stopped, type, since, dropped, lost, facing, start>>
      /\ setplayCount' = CountNow /\ quiet' = IF heard THEN 0 ELSE quiet
  BY DEF KickerDecides
<1>3. /\ cycle \in Int /\ start \in Int /\ dropBallTime \in Int /\ stopped \in Nat
      /\ type \in Types /\ flags \in Flags /\ blind \in 0 .. MaxBlind /\ MaxBlind \in Nat
  BY SetPlayAssumption DEF TypeOK, Flags
<1>4. CountNow \in Nat
  BY CountNowRange DEF MaxCount
<1>5. blind' \in 0 .. MaxBlind
  BY <1>1, <1>3
<1>6. CASE type = "GoalieCatch_"
  <2>1. /\ command' \in {"none", "move", "kick"} /\ flags' \in Flags
        /\ command' = "kick" => CountNow >= 3
    BY <1>1, <1>3, <1>4, <1>6, GoalieCommand
  <2>2. WaitsForCount
    BY <1>2, <1>6, <2>1 DEF WaitsForCount, Patience
  <2>3. HurriesUp
    BY <1>6 DEF HurriesUp
  <2> QED BY <1>2, <1>5, <2>1, <2>2, <2>3 DEF Commands
<1>7. CASE type # "GoalieCatch_"
  <2>1. command' \in FieldPlayer(in, CountNow) /\ flags' \in Flags
    BY <1>1, <1>3, <1>7
  <2>2. CASE ~in.arrived
    BY <1>1, <1>2, <1>5, <2>1, <2>2 DEF FieldPlayer, WaitsForCount, HurriesUp, Commands
  <2>3. CASE in.arrived
    <3> DEFINE n == CountNow
    <3> HIDE DEF n
    <3>0. n = CountNow /\ n \in Nat /\ setplayCount' = n /\ real \in Int
      BY <1>2, <1>3, <1>4 DEF n, real
    <3>1. CASE type = "FreeKick_"
      <4>1. command' = FreeKick(in, n)
        BY <2>1, <2>3, <3>0, <3>1 DEF FieldPlayer
      <4> QED BY <1>2, <1>3, <1>5, <2>1, <3>0, <3>1, <4>1, FreeKickCommand
              DEF WaitsForCount, HurriesUp, Commands, Patience
    <3>2. CASE type = "KickIn_"
      <4>1. command' = KickIn(in, n)
        BY <2>1, <2>3, <3>0, <3>2 DEF FieldPlayer
      <4> QED BY <1>2, <1>3, <1>5, <2>1, <3>0, <3>2, <4>1, KickInCommand
              DEF WaitsForCount, HurriesUp, Commands, Patience
    <3>3. CASE type = "GoalKick_"
      <4>1. command' = GoalKick(in, n)
        BY <2>1, <2>3, <3>0, <3>3 DEF FieldPlayer
      <4> QED BY <1>2, <1>3, <1>5, <2>1, <3>0, <3>3, <4>1, GoalKickCommand
              DEF WaitsForCount, HurriesUp, Commands, Patience
    <3>4. CASE type = "IndFreeKick_"
      <4>1. command' = IndirectFreeKick(in, n)
        BY <2>1, <2>3, <3>0, <3>4 DEF FieldPlayer
      <4> QED BY <1>2, <1>3, <1>5, <2>1, <3>0, <3>4, <4>1, IndirectCommand
              DEF WaitsForCount, HurriesUp, Commands, Patience
    <3>5. CASE type \in Stoppages
      <4>1. command' \in {FreeKick(in, n), IndirectFreeKick(in, n)}
        BY <2>1, <2>3, <3>0, <3>5 DEF FieldPlayer, Stoppages
      <4>2. command' \in Commands
        BY <1>3, <3>0, <4>1, FreeKickCommand, IndirectCommand DEF Commands
      <4> QED BY <1>2, <1>5, <2>1, <3>5, <4>2 DEF WaitsForCount, HurriesUp, Kicks, Stoppages
    <3> QED BY <1>2, <1>3, <1>7, <3>1, <3>2, <3>3, <3>4, <3>5 DEF Types, Kicks, Stoppages
  <2> QED BY <2>2, <2>3
<1> QED BY <1>6, <1>7

-----------------------------------------------------------------------------
(* The types, and what the cycles and modes have to do with each other.    *)

TypeInv ==
    /\ TypeOK
    /\ start <= since
    /\ type \in Stoppages => stopped < MaxStopped
    /\ type \in Kicks => Age < dropBallTime /\ (stopped # 0 => Age = 0)

LEMMA TypesDiffer == /\ Types = {"PlayOn"} \cup Stoppages \cup Kicks
                     /\ Stoppages \cap Kicks = {} /\ "PlayOn" \notin Stoppages \cup Kicks
BY DEF Types, Stoppages, Kicks

LEMMA InitTypeInv == Init => TypeInv
<1> SUFFICES ASSUME Init PROVE TypeInv
  OBVIOUS
<1>1. cycle = 0 /\ stopped = 0 /\ type = "PlayOn" /\ since = 0 /\ start = 0
  BY DEF Init
<1>2. flags \in Flags
  <2>1. [first |-> TRUE, second |-> TRUE, wait |-> MaxWait] \in Flags
    BY SMT DEF Flags, MaxWait
  <2> QED BY <2>1, FlagsUpdates DEF Init
<1>3. TypeOK
  <2>1. /\ setplayCount \in 0 .. MaxCount /\ quiet \in 0 .. MaxQuiet /\ blind \in 0 .. MaxBlind
        /\ lost \in 0 .. MaxLost /\ cycle \in 0 .. MaxCycle /\ stopped \in 0 .. MaxStopped
        /\ since \in 0 .. cycle /\ start \in 0 .. cycle
    BY <1>1, SetPlayAssumption DEF Init, MaxCount, MaxQuiet
  <2>2. /\ type \in Types /\ dropped \in Kicks \cup {"none"} /\ decided \in BOOLEAN
        /\ command \in Commands /\ facing \in {"other", "point", "ball"} /\ heard \in BOOLEAN
    BY DEF Init, Types, Commands
  <2> QED BY <1>2, <2>1, <2>2 DEF TypeOK, Flags
<1> QED BY <1>1, <1>3, TypesDiffer DEF TypeInv

LEMMA TickTypeInv ==
    ASSUME TypeInv, Tick
    PROVE  TypeInv'
<1>1. /\ cycle \in Nat /\ stopped \in Nat /\ since \in 0 .. cycle /\ start \in 0 .. cycle
      /\ start <= since /\ dropBallTime \in Nat \ {0} /\ MaxStopped \in Nat
      /\ type \in Types /\ stopped <= MaxStopped
  BY SetPlayAssumption DEF TypeInv, TypeOK
<1>2. IF type \in Stoppages THEN cycle' = cycle /\ stopped' = stopped + 1
                             ELSE cycle' = cycle + 1 /\ stopped' = 0
  BY TickFacts DEF TypeInv
<1>3. type \in Stoppages => stopped < MaxStopped
  BY DEF TypeInv
<1>4. /\ stopped' \in 0 .. MaxStopped /\ cycle <= cycle' /\ cycle' \in Nat
  <2>1. CASE type \in Stoppages
    BY <1>1, <1>2, <1>3, <2>1
  <2>2. CASE type \notin Stoppages
    BY <1>1, <1>2, <2>2
  <2> QED BY <2>1, <2>2
<1>5. GoesOn \/ IsDropped \/ IsAnnounced
  BY TickFacts DEF TypeInv
<1>6. /\ type' \in Types /\ since' \in 0 .. cycle' /\ start' \in 0 .. cycle' /\ start' <= since'
      /\ dropped' \in Kicks \cup {"none"}
      /\ setplayCount' \in {0, setplayCount}
  <2>1. CASE GoesOn
    BY <1>1, <1>4, <2>1 DEF GoesOn
  <2>2. CASE IsDropped
    BY <1>1, <1>4, <2>2, TypesDiffer DEF IsDropped
  <2>3. CASE IsAnnounced
    BY <1>1, <1>4, <2>3 DEF IsAnnounced
  <2> QED BY <1>5, <2>1, <2>2, <2>3
<1>7. TypeOK'
  <2>1. cycle' \in 0 .. MaxCycle /\ decided' = FALSE /\ command' = "none"
          /\ heard' \in BOOLEAN /\ blind' = blind /\ flags' = flags
    BY TickFacts DEF TypeInv
  <2>2. lost' \in 0 .. MaxLost /\ facing' \in {"other", "point", "ball"}
    <3>1. /\ lost \in 0 .. MaxLost /\ MaxLost \in Nat /\ facing \in {"other", "point", "ball"}
          /\ \/ lost' = lost /\ facing' = Faced(command)
             \/ lost' = lost + 1 /\ lost < MaxLost /\ facing' = facing
      BY TickFacts, SetPlayAssumption DEF TypeInv, TypeOK
    <3> QED BY <3>1 DEF Faced
  <2>3. quiet' \in 0 .. MaxQuiet
    <3>1. quiet \in 0 .. MaxQuiet /\ quiet' = Counted(quiet, MaxQuiet) /\ MaxQuiet \in Nat
      BY TickFacts DEF TypeInv, TypeOK, MaxQuiet
    <3> QED BY <3>1, CountedRange
  <2>4. setplayCount' \in 0 .. MaxCount
    BY <1>6 DEF TypeInv, TypeOK, MaxCount
  <2>5. blind \in 0 .. MaxBlind /\ flags \in [first : BOOLEAN, second : BOOLEAN, wait : 0 .. MaxWait]
    BY DEF TypeInv, TypeOK
  <2> QED BY <1>4, <1>6, <2>1, <2>2, <2>3, <2>4, <2>5 DEF TypeOK, Commands
<1>8. type' \in Stoppages => stopped' < MaxStopped
  <2>1. CASE GoesOn
    BY <2>1 DEF GoesOn
  <2>2. CASE IsDropped
    BY <2>2, TypesDiffer DEF IsDropped
  <2>3. CASE IsAnnounced
    <3>1. type' \in Stoppages => stopped' = 0
      BY <1>2, <2>3 DEF IsAnnounced
    <3> QED BY <3>1, SetPlayAssumption
  <2> QED BY <1>5, <2>1, <2>2, <2>3
<1>9. type' \in Kicks => Age' < dropBallTime /\ (stopped' # 0 => Age' = 0)
  <2>1. CASE GoesOn
    BY <1>1, <1>2, <2>1, TypesDiffer DEF GoesOn, Age
  <2>2. CASE ~GoesOn
    <3>1. type' \in Kicks => since' = cycle'
      BY <1>5, <2>2 DEF IsDropped, IsAnnounced
    <3>2. cycle' = cycle \/ cycle' = cycle + 1
      BY <1>2
    <3>3. cycle' - cycle' = 0
      BY <1>1, <3>2
    <3> QED BY <1>1, <3>1, <3>3 DEF Age
  <2> QED BY <2>1, <2>2
<1> QED BY <1>6, <1>7, <1>8, <1>9 DEF TypeInv

LEMMA DecidesTypeInv ==
    ASSUME TypeInv, KickerDecides \/ PlayerDecides
    PROVE  TypeInv'
<1>1. /\ UNCHANGED <<cycle, stopped, type, since, dropped, lost, facing, start>>
      /\ setplayCount' = CountNow /\ quiet' = IF heard THEN 0 ELSE quiet
      /\ decided' \in BOOLEAN /\ heard' \in BOOLEAN
      /\ command' \in Commands /\ flags' \in Flags /\ blind' \in 0 .. MaxBlind
  <2>1. CASE KickerDecides
    BY <2>1, DecideFacts DEF TypeInv
  <2>2. CASE PlayerDecides
    BY <2>2 DEF PlayerDecides, TypeInv, TypeOK, Flags
  <2> QED BY <2>1, <2>2
<1>2. CountNow \in 0 .. MaxCount /\ quiet' \in 0 .. MaxQuiet
  BY <1>1, CountNowRange DEF TypeInv, TypeOK, MaxQuiet
<1>3. TypeOK'
  BY <1>1, <1>2 DEF TypeInv, TypeOK, Flags
<1> QED BY <1>1, <1>3 DEF TypeInv, Age

LEMMA StutterTypeInv ==
    ASSUME TypeInv, UNCHANGED vars
    PROVE  TypeInv'
<1>1. TypeOK'
  BY DEF TypeInv, TypeOK, vars
<1> QED BY <1>1 DEF TypeInv, vars, Age

LEMMA TypeInvAlways == Spec => []TypeInv
<1>1. TypeInv /\ [Next]_vars => TypeInv'
  BY TickTypeInv, DecidesTypeInv, StutterTypeInv DEF Next
<1> QED BY <1>1, InitTypeInv, PTL DEF Spec

\* Every variable keeps its type, for every bound: the counts stay in their ranges and the set
\* play never began after the cycle that it is.
THEOREM TypeCorrect == Spec => []TypeOK
<1>1. TypeInv => TypeOK
  BY DEF TypeInv
<1> QED BY <1>1, TypeInvAlways, PTL

-----------------------------------------------------------------------------
(* Requests: the count of decisions never runs ahead of the steps.         *)

QuietInv ==
    quiet < MaxQuiet => setplayCount + (IF decided THEN 0 ELSE 1) <= quiet

LEMMA InitQuietInv == Init => QuietInv
BY DEF Init, QuietInv, MaxQuiet

LEMMA NextQuietInv ==
    ASSUME TypeInv, QuietInv, [Next]_vars
    PROVE  QuietInv'
<1>1. /\ setplayCount \in Nat /\ quiet \in 0 .. 7 /\ MaxQuiet = 7 /\ MaxCount = 31
      /\ decided \in BOOLEAN
  BY DEF TypeInv, TypeOK, MaxQuiet, MaxCount
<1>2. CASE Tick
  <2>1. /\ setplayCount' = setplayCount \/ setplayCount' = 0
        /\ decided' = FALSE /\ quiet' = Counted(quiet, 7)
    BY <1>1, <1>2, TickFacts DEF TypeInv, GoesOn, IsDropped, IsAnnounced
  <2>2. quiet' < 7 => quiet' = quiet + 1 /\ quiet < 7
    BY <1>1, <2>1 DEF Counted
  <2>3. quiet < 7 => setplayCount <= quiet
    BY <1>1 DEF QuietInv
  <2> QED BY <1>1, <2>1, <2>2, <2>3 DEF QuietInv
<1>3. CASE KickerDecides \/ PlayerDecides
  <2>1. /\ setplayCount' = CountNow /\ quiet' = (IF heard THEN 0 ELSE quiet)
        /\ decided' = TRUE /\ ~decided
    BY <1>3, DecideFacts DEF TypeInv, PlayerDecides
  <2>2. CountNow \in Nat /\ CountNow <= setplayCount + 1 /\ (heard => CountNow = 0)
    BY CountNowRange DEF TypeInv, MaxCount
  <2>3. quiet < 7 => setplayCount + 1 <= quiet
    BY <1>1, <2>1 DEF QuietInv
  <2> QED BY <1>1, <2>1, <2>2, <2>3 DEF QuietInv
<1>4. CASE UNCHANGED vars
  BY <1>4 DEF vars, QuietInv
<1> QED BY <1>2, <1>3, <1>4 DEF Next

LEMMA StepHeedsRequests ==
    ASSUME TypeInv, QuietInv, [Next]_vars
    PROVE  [ /\ type \in Kicks /\ command' = "kick"
             /\ real < dropBallTime - (IF type = "GoalKick_" THEN 10 ELSE 5)
                  \/ type = "GoalieCatch_"
             => quiet >= Patience[type] ]_vars
<1> SUFFICES ASSUME Next, type \in Kicks, command' = "kick",
                    real < dropBallTime - (IF type = "GoalKick_" THEN 10 ELSE 5)
                      \/ type = "GoalieCatch_"
             PROVE  quiet >= Patience[type]
  BY DEF vars
<1>1. KickerDecides
  <2>1. ~Tick
    BY TickFacts DEF TypeInv
  <2>2. ~PlayerDecides
    BY TypesDiffer DEF PlayerDecides
  <2> QED BY <2>1, <2>2 DEF Next
<1>2. setplayCount' >= Patience[type] /\ setplayCount' = CountNow /\ ~decided
  BY <1>1, DecideFacts DEF WaitsForCount, TypeInv
<1>3. Patience[type] \in 0 .. 7
  BY DEF Patience, Kicks
<1>4. /\ setplayCount \in Nat /\ quiet \in 0 .. 7 /\ MaxQuiet = 7
      /\ CountNow \in Nat /\ CountNow <= setplayCount + 1 /\ (heard => CountNow = 0)
  BY CountNowRange DEF TypeInv, TypeOK, MaxQuiet, MaxCount
<1>5. quiet < 7 => setplayCount + 1 <= quiet
  BY <1>2, <1>4 DEF QuietInv
<1>6. CountNow >= Patience[type]
  BY <1>2
<1> QED BY <1>3, <1>4, <1>5, <1>6

\* For any bounds: whatever the kicker misses and the referee announces, it kicks before its last
\* cycles only as many steps after a decision that heard a request as its behaviour waits for.
THEOREM RequestsHeeded == Spec => RequestIsHeeded
<1>1. Init => QuietInv
  BY InitQuietInv
<1>2. TypeInv /\ QuietInv /\ [Next]_vars => QuietInv'
  BY NextQuietInv
<1>3. TypeInv /\ QuietInv /\ [Next]_vars
        => [ /\ type \in Kicks /\ command' = "kick"
             /\ real < dropBallTime - (IF type = "GoalKick_" THEN 10 ELSE 5)
                  \/ type = "GoalieCatch_"
             => quiet >= Patience[type] ]_vars
  BY StepHeedsRequests
<1> QED BY <1>1, <1>2, <1>3, TypeInvAlways, PTL DEF Spec, RequestIsHeeded

-----------------------------------------------------------------------------
(* The last cycles of a free kick, a kick-in and a goal kick: each cycle   *)
(* of them that passed is a step gone wrong, but for one turn to the ball. *)

InTime == MaxLost <= 3 /\ ArriveBy + 10 <= dropBallTime

Turned == IF facing = "ball" THEN 1 ELSE 0

WindowInv ==
    /\ dropped \notin {"FreeKick_", "KickIn_", "GoalKick_"}
    /\ type \in {"FreeKick_", "KickIn_"} => Age <= dropBallTime - 5 + lost + Turned
    /\ type = "GoalKick_" => Age <= dropBallTime - 10 + lost
    /\ decided /\ type \in {"FreeKick_", "KickIn_"} /\ Age >= dropBallTime - 5
         => command = "kick" \/ (command = "turn_ball" /\ facing # "ball")
    /\ decided /\ type = "GoalKick_" /\ Age >= dropBallTime - 10 => command = "kick"

LEMMA NumberTypes ==
    ASSUME TypeInv
    PROVE  /\ Age \in Nat /\ lost \in Nat /\ lost <= MaxLost /\ MaxLost \in Nat
           /\ dropBallTime \in Nat /\ ArriveBy \in Nat /\ stopped \in Nat
           /\ setplayCount \in 0 .. MaxCount /\ decided \in BOOLEAN
           /\ Age <= real /\ real \in Nat
BY SetPlayAssumption DEF TypeInv, TypeOK, Age, real

LEMMA TickAge ==
    ASSUME TypeInv, Tick
    PROVE  /\ GoesOn /\ type \in Kicks => Age' = Age + 1 /\ Age + 1 < dropBallTime
           /\ IsDropped => Age' = 0 /\ Age + 1 >= dropBallTime
           /\ IsAnnounced => Age' = 0
<1>1. /\ cycle \in Int /\ since \in Int /\ dropBallTime \in Int
      /\ cycle' = cycle \/ cycle' = cycle + 1
      /\ type \in Kicks => cycle' = cycle + 1
  <2>1. TypeOK
    BY DEF TypeInv
  <2>2. cycle \in Int /\ since \in Int /\ dropBallTime \in Int
    BY <2>1, SetPlayAssumption DEF TypeOK
  <2>3. IF type \in Stoppages THEN cycle' = cycle ELSE cycle' = cycle + 1
    BY <2>1, TickFacts
  <2>4. type \in Kicks => type \notin Stoppages
    BY DEF Kicks, Stoppages
  <2> QED BY <2>2, <2>3, <2>4
<1>2. cycle' - cycle' = 0
  BY <1>1
<1>3. GoesOn /\ type \in Kicks => Age' = Age + 1 /\ Age + 1 < dropBallTime
  BY <1>1 DEF GoesOn, Age
<1>4. IsDropped => Age' = 0 /\ Age + 1 >= dropBallTime
  BY <1>1, <1>2 DEF IsDropped, Age
<1>5. IsAnnounced => Age' = 0
  BY <1>2 DEF IsAnnounced, Age
<1> QED BY <1>3, <1>4, <1>5

LEMMA InitWindowInv == Init => WindowInv
BY DEF Init, WindowInv

LEMMA TickWindowInv ==
    ASSUME InTime, TypeInv, WindowInv, Tick
    PROVE  WindowInv'
<1>1. /\ Age \in Nat /\ lost \in Nat /\ lost <= 3 /\ dropBallTime \in Nat /\ dropBallTime >= 10
      /\ Turned \in {0, 1}
  BY NumberTypes DEF InTime, Turned
<1>2. /\ \/ lost' = lost /\ decided /\ facing' = Faced(command)
         \/ lost' = lost + 1 /\ lost < MaxLost /\ facing' = facing
      /\ decided' = FALSE
  BY TickFacts DEF TypeInv
<1>3. Turned' \in {0, 1} /\ (facing' = facing => Turned' = Turned)
  BY DEF Turned
<1>4. CASE GoesOn
  <2>1. type' = type /\ dropped' = "none"
          /\ (type \in Kicks => ~(lost' = lost /\ command = "kick"))
    BY <1>4 DEF GoesOn
  <2>2. ASSUME type \in {"FreeKick_", "KickIn_"}
        PROVE  Age' <= dropBallTime - 5 + lost' + Turned'
    <3>1. Age' = Age + 1 /\ ~(lost' = lost /\ command = "kick")
      BY <1>4, <2>1, <2>2, TickAge DEF Kicks
    <3>2. Age <= dropBallTime - 5 + lost + Turned
      BY <2>2 DEF WindowInv
    <3>3. CASE Age < dropBallTime - 5
      BY <1>1, <1>2, <1>3, <3>1, <3>3
    <3>4. CASE Age >= dropBallTime - 5 /\ lost' = lost + 1 /\ facing' = facing
      BY <1>1, <1>3, <3>1, <3>2, <3>4
    <3>5. CASE Age >= dropBallTime - 5 /\ lost' = lost /\ decided /\ facing' = Faced(command)
      <4>1. command = "turn_ball" /\ facing # "ball"
        BY <2>2, <3>1, <3>5 DEF WindowInv
      <4>2. Turned = 0 /\ Turned' = 1
        BY <3>5, <4>1 DEF Turned, Faced
      <4> QED BY <1>1, <3>1, <3>2, <3>5, <4>2
    <3> QED BY <1>1, <1>2, <3>3, <3>4, <3>5
  <2>3. ASSUME type = "GoalKick_"
        PROVE  Age' <= dropBallTime - 10 + lost'
    <3>1. Age' = Age + 1 /\ ~(lost' = lost /\ command = "kick")
      BY <1>4, <2>1, <2>3, TickAge DEF Kicks
    <3>2. Age <= dropBallTime - 10 + lost
      BY <2>3 DEF WindowInv
    <3>3. Age >= dropBallTime - 10 => lost' = lost + 1
      BY <1>2, <2>3, <3>1 DEF WindowInv
    <3> QED BY <1>1, <1>2, <3>1, <3>2, <3>3
  <2> QED BY <1>2, <2>1, <2>2, <2>3 DEF WindowInv
<1>5. CASE IsDropped
  <2>1. type \notin {"FreeKick_", "KickIn_"}
    <3> SUFFICES ASSUME type \in {"FreeKick_", "KickIn_"} PROVE FALSE
      OBVIOUS
    <3>1. Age + 1 >= dropBallTime /\ ~(lost' = lost /\ command = "kick")
      BY <1>5, TickAge DEF IsDropped
    <3>2. Age <= dropBallTime - 5 + lost + Turned
      BY DEF WindowInv
    <3>3. lost = 3 /\ Turned = 1
      BY <1>1, <3>1, <3>2
    <3>4. lost' = lost /\ decided
      BY <1>2, <3>3, NumberTypes DEF InTime
    <3>5. facing = "ball" /\ Age >= dropBallTime - 5
      BY <1>1, <3>1, <3>3 DEF Turned
    <3> QED BY <3>1, <3>4, <3>5 DEF WindowInv
  <2>2. type # "GoalKick_"
    <3>1. Age + 1 >= dropBallTime
      BY <1>5, TickAge
    <3> QED BY <1>1, <3>1 DEF WindowInv
  <2> QED BY <1>2, <1>5, <2>1, <2>2 DEF WindowInv, IsDropped
<1>6. CASE IsAnnounced
  <2>1. Age' = 0 /\ dropped' = "none"
    BY <1>6, TickAge DEF IsAnnounced
  <2>2. lost' \in Nat
    BY <1>1, <1>2
  <2>3. 0 <= dropBallTime - 5 + lost' + Turned' /\ 0 <= dropBallTime - 10 + lost'
    BY <1>1, <1>2, <1>3
  <2> QED BY <1>2, <2>1, <2>3 DEF WindowInv
<1> QED BY <1>4, <1>5, <1>6, TickFacts DEF TypeInv

LEMMA DecidesWindowInv ==
    ASSUME InTime, TypeInv, WindowInv, KickerDecides \/ PlayerDecides
    PROVE  WindowInv'
<1>1. /\ Age \in Nat /\ real \in Nat /\ Age <= real /\ dropBallTime \in Nat /\ ArriveBy \in Nat
      /\ ArriveBy + 10 <= dropBallTime
  BY NumberTypes DEF InTime
<1>2. CASE KickerDecides
  <2>1. /\ UNCHANGED <<cycle, stopped, type, since, dropped, lost, facing, start>>
        /\ HurriesUp
    BY <1>2, DecideFacts DEF TypeInv
  <2>2. Age' = Age /\ Turned' = Turned
    BY <2>1 DEF Age, Turned
  <2>3. type \in {"FreeKick_", "KickIn_"} /\ Age >= dropBallTime - 5
          => command' = "kick" \/ (command' = "turn_ball" /\ facing # "ball")
    BY <1>1, <2>1 DEF HurriesUp
  <2>4. type = "GoalKick_" /\ Age >= dropBallTime - 10 => command' = "kick"
    BY <1>1, <2>1 DEF HurriesUp
  <2> QED BY <2>1, <2>2, <2>3, <2>4 DEF WindowInv
<1>3. CASE PlayerDecides
  BY <1>3 DEF PlayerDecides, WindowInv
<1> QED BY <1>2, <1>3

\* Whatever teammates ask, at most three steps of the kicker gone wrong and the kicker at the ball
\* ten cycles before the drop: the margins in bhv_set_play_free_kick.cpp, _kick_in.cpp and
\* _goal_kick.cpp suffice, for every dropBallTime and any number of cycles and free kicks.
THEOREM KicksAreTaken ==
    ASSUME InTime
    PROVE  Spec => []TakenInTime
<1>1. TypeInv /\ WindowInv /\ UNCHANGED vars => WindowInv'
  BY DEF vars, WindowInv, Age, Turned
<1>2. TypeInv /\ WindowInv /\ [Next]_vars => WindowInv'
  BY <1>1, TickWindowInv, DecidesWindowInv DEF Next
<1>3. WindowInv => TakenInTime
  BY DEF WindowInv, TakenInTime, Dropped
<1> QED BY <1>2, <1>3, InitWindowInv, TypeInvAlways, PTL DEF Spec

-----------------------------------------------------------------------------
(* The last cycles of an indirect free kick: after the first turn only the *)
(* count of a late request and two steps gone wrong stop the kick.         *)

IndirectInTime == ArriveBy + 4 <= dropBallTime

IndirectInv ==
    /\ dropped = "IndFreeKick_" /\ ~decided => setplayCount <= 11 \/ lost >= 2
    /\ type = "IndFreeKick_" =>
         /\ Age >= ArriveBy + 1 => facing = "point" \/ lost >= 1
         /\ Age >= ArriveBy + 2 => facing = "point" \/ lost >= 2
         /\ decided /\ Age >= ArriveBy => command \in {"turn_point", "kick"}
         /\ decided /\ Age >= dropBallTime - 2 /\ lost <= 1 /\ setplayCount >= 11
              => command = "kick"
         /\ Age >= dropBallTime - 1 /\ lost = 0
              => setplayCount <= 10 + (IF decided THEN 1 ELSE 0)

LEMMA InitIndirectInv == Init => IndirectInv
BY DEF Init, IndirectInv

LEMMA TickIndirectInv ==
    ASSUME IndirectInTime, TypeInv, IndirectInv, Tick
    PROVE  IndirectInv'
<1>1. /\ Age \in Nat /\ lost \in Nat /\ dropBallTime \in Nat /\ ArriveBy \in Nat
      /\ setplayCount \in Nat /\ decided \in BOOLEAN /\ ArriveBy + 4 <= dropBallTime
  BY NumberTypes DEF IndirectInTime, MaxCount
<1>2. TypeOK
  BY DEF TypeInv
<1>3. /\ \/ lost' = lost /\ decided /\ facing' = Faced(command)
         \/ lost' = lost + 1 /\ lost < MaxLost /\ facing' = facing
      /\ decided' = FALSE
      /\ GoesOn \/ IsDropped \/ IsAnnounced
  BY <1>2, TickFacts
<1>4. CASE GoesOn
  <2>1. type' = type /\ dropped' = "none" /\ setplayCount' = setplayCount
    BY <1>4 DEF GoesOn
  <2> SUFFICES ASSUME type = "IndFreeKick_"
               PROVE  /\ Age' >= ArriveBy + 1 => facing' = "point" \/ lost' >= 1
                      /\ Age' >= ArriveBy + 2 => facing' = "point" \/ lost' >= 2
                      /\ Age' >= dropBallTime - 1 /\ lost' = 0 => setplayCount' <= 10
    BY <1>3, <2>1 DEF IndirectInv
  <2>2. Age' = Age + 1 /\ ~(lost' = lost /\ command = "kick")
    BY <1>4, TickAge DEF GoesOn, Kicks
  <2>3. lost' = lost /\ Age >= ArriveBy => facing' = "point"
    <3> SUFFICES ASSUME lost' = lost, Age >= ArriveBy PROVE facing' = "point"
      OBVIOUS
    <3>1. decided /\ facing' = Faced(command)
      BY <1>1, <1>3
    <3>2. command = "turn_point"
      BY <2>2, <3>1 DEF IndirectInv
    <3> QED BY <3>1, <3>2 DEF Faced
  <2>4. Age' >= ArriveBy + 1 => facing' = "point" \/ lost' >= 1
    BY <1>1, <1>3, <2>2, <2>3
  <2>5. Age' >= ArriveBy + 2 => facing' = "point" \/ lost' >= 2
    <3>1. Age >= ArriveBy + 1 => facing = "point" \/ lost >= 1
      BY DEF IndirectInv
    <3> QED BY <1>1, <1>3, <2>2, <2>3, <3>1
  <2>6. Age' >= dropBallTime - 1 /\ lost' = 0 => setplayCount' <= 10
    <3> SUFFICES ASSUME Age' >= dropBallTime - 1, lost' = 0 PROVE setplayCount <= 10
      BY <2>1
    <3>1. lost = 0 /\ lost' = lost /\ decided /\ Age >= dropBallTime - 2
      BY <1>1, <1>3, <2>2
    <3>2. ~(setplayCount >= 11)
      BY <1>1, <2>2, <3>1 DEF IndirectInv
    <3> QED BY <1>1, <3>2
  <2> QED BY <2>4, <2>5, <2>6
<1>5. CASE IsDropped
  <2>1. type' = "PlayOn" /\ dropped' = type /\ setplayCount' = setplayCount
    BY <1>5 DEF IsDropped
  <2>2. ASSUME type = "IndFreeKick_"
        PROVE  setplayCount <= 11 \/ lost' >= 2
    <3> SUFFICES ASSUME setplayCount >= 12, lost' <= 1 PROVE FALSE
      BY <1>1, <1>3
    <3>1. Age >= dropBallTime - 1 /\ ~(lost' = lost /\ command = "kick") /\ lost <= 1
      BY <1>1, <1>3, <1>5, TickAge DEF IsDropped
    <3>2. decided => command = "kick"
      BY <1>1, <2>2, <3>1 DEF IndirectInv
    <3>3. lost = 0
      BY <1>1, <1>3, <3>1, <3>2
    <3>4. setplayCount <= 10 + (IF decided THEN 1 ELSE 0)
      BY <2>2, <3>1, <3>3 DEF IndirectInv
    <3> QED BY <1>1, <3>4
  <2> QED BY <2>1, <2>2 DEF IndirectInv
<1>6. CASE IsAnnounced
  <2>1. Age' = 0 /\ dropped' = "none"
    BY <1>6, TickAge DEF IsAnnounced
  <2> QED BY <1>1, <1>3, <2>1 DEF IndirectInv
<1> QED BY <1>3, <1>4, <1>5, <1>6

LEMMA DecidesIndirectInv ==
    ASSUME IndirectInTime, TypeInv, IndirectInv, KickerDecides \/ PlayerDecides
    PROVE  IndirectInv'
<1>1. /\ Age \in Nat /\ real \in Nat /\ Age <= real /\ lost \in Nat /\ stopped \in Nat
      /\ dropBallTime \in Nat /\ ArriveBy \in Nat /\ setplayCount \in Nat
      /\ ArriveBy + 4 <= dropBallTime
  BY NumberTypes DEF IndirectInTime, MaxCount
<1>2. CASE KickerDecides
  <2>1. /\ UNCHANGED <<cycle, stopped, type, since, dropped, lost, facing, start>>
        /\ HurriesUp /\ setplayCount' = CountNow /\ decided' = TRUE /\ ~decided
    BY <1>2, DecideFacts DEF TypeInv
  <2>2. Age' = Age
    BY <2>1 DEF Age
  <2>3. CountNow \in Nat /\ CountNow <= setplayCount + 1
    BY CountNowRange DEF TypeInv, MaxCount
  <2> SUFFICES ASSUME type = "IndFreeKick_"
               PROVE  /\ Age >= ArriveBy => command' \in {"turn_point", "kick"}
                      /\ Age >= dropBallTime - 2 /\ lost <= 1 /\ setplayCount' >= 11
                           => command' = "kick"
                      /\ Age >= dropBallTime - 1 /\ lost = 0 => setplayCount' <= 11
    BY <2>1, <2>2 DEF IndirectInv
  <2>4. Age >= ArriveBy => command' \in {"turn_point", "kick"}
    BY <2>1 DEF HurriesUp
  <2>5. ASSUME Age >= dropBallTime - 2, lost <= 1, setplayCount' >= 11
        PROVE  command' = "kick"
    <3>1. facing = "point"
      BY <1>1, <2>5 DEF IndirectInv
    <3>2. stopped = 0
      BY <1>1, <2>5 DEF TypeInv, Kicks
    <3>3. Age >= ArriveBy /\ real > dropBallTime - 3 /\ setplayCount' > 10
      BY <1>1, <2>1, <2>3, <2>5
    <3> QED BY <2>1, <3>1, <3>2, <3>3 DEF HurriesUp
  <2>6. ASSUME Age >= dropBallTime - 1, lost = 0
        PROVE  setplayCount' <= 11
    <3>1. setplayCount <= 10
      BY <1>1, <2>1, <2>6 DEF IndirectInv
    <3> QED BY <1>1, <2>1, <2>3, <3>1
  <2> QED BY <2>4, <2>5, <2>6
<1>3. CASE PlayerDecides
  BY <1>3 DEF PlayerDecides, IndirectInv
<1> QED BY <1>2, <1>3

\* An indirect free kick is lost to the drop ball only by a request within the last 11 decisions
\* or two steps gone wrong, for every dropBallTime and however many more steps may go wrong.
THEOREM IndirectKicksAreTaken ==
    ASSUME IndirectInTime
    PROVE  Spec => []IndirectTakenInTime
<1>1. TypeInv /\ IndirectInv /\ UNCHANGED vars => IndirectInv'
  BY DEF vars, IndirectInv, Age
<1>2. TypeInv /\ IndirectInv /\ [Next]_vars => IndirectInv'
  BY <1>1, TickIndirectInv, DecidesIndirectInv DEF Next
<1>3. IndirectInv => IndirectTakenInTime
  BY DEF IndirectInv, IndirectTakenInTime, Dropped
<1> QED BY <1>2, <1>3, InitIndirectInv, TypeInvAlways, PTL DEF Spec

-----------------------------------------------------------------------------
(* The goalie's catch.  Of the wait after the second move nothing is lost: *)
(* seven decisions with the time over and no late request bring the kick,  *)
(* whatever decisions between them heard one.                              *)

CatchInTime == MaxBlind <= 1 /\ dropBallTime >= 56

\* From this age on only a late request makes the goalie pause.
LastCall == IF dropBallTime - 16 > 49 THEN dropBallTime - 16 ELSE 49

\* The decisions of the set play so far, and how far they have brought the goalie.
Decisions   == IF decided THEN Age + 1 ELSE Age
Progress(f) == IF f.second THEN 1 + f.wait ELSE 0

CatchInv ==
    /\ dropped = "GoalieCatch_" /\ ~decided => setplayCount <= 8 \/ lost >= 1
    /\ type = "GoalieCatch_" /\ lost = 0 =>
         /\ start = since
         /\ Decisions \in {1, 2} => flags = NoFlags
         /\ Decisions > 2 /\ ~(decided /\ command = "kick") => flags.first
         /\ ~(decided /\ command = "kick") =>
              /\ setplayCount - 2 <= Progress(flags) \/ Decisions - LastCall <= Progress(flags)
              /\ Progress(flags) = 6 /\ blind = 0 => setplayCount <= 2 \/ Decisions <= LastCall

\* The fields of updated flags.
LEMMA FlagsFields ==
    ASSUME NEW f \in Flags, NEW w
    PROVE  /\ [f EXCEPT !.first = TRUE].first /\ [f EXCEPT !.first = TRUE].second = f.second
           /\ [f EXCEPT !.wait = w].first = f.first /\ [f EXCEPT !.wait = w].second = f.second
           /\ [f EXCEPT !.wait = w].wait = w
           /\ [f EXCEPT !.second = TRUE, !.wait = w].first = f.first
           /\ [f EXCEPT !.second = TRUE, !.wait = w].second
           /\ [f EXCEPT !.second = TRUE, !.wait = w].wait = w
BY DEF Flags

\* What a decision at a catch does: it clears the flags, makes the first move, and after that
\* pauses, kicks, or makes a step towards the kick, the last of which is repeated until a see.
LEMMA GoalieProgress ==
    ASSUME NEW in \in Inputs, NEW n \in Nat, real \in Int, dropBallTime \in Int,
           flags \in Flags, NEW g, g = GoalieFreeKick(in, n)
    PROVE  /\ real <= 1 => g.flags = NoFlags
           /\ real > 1 /\ ~flags.first => g.flags.first /\ Progress(g.flags) = 0
           /\ real > 1 /\ flags.first =>
                \/ /\ g.flags = flags
                   /\ n < 3 \/ real + 1 <= LastCall
                \/ g.command = "kick"
                \/ /\ g.flags.first
                   /\ \/ Progress(g.flags) = Progress(flags) + 1
                      \/ Progress(flags) = 6 /\ Progress(g.flags) = 6
                   /\ Progress(g.flags) = 6 => ~in.see
<1> DEFINE g1 == timeDiff <= 2
           g2 == timeDiff > 2 /\ ~flags.first
           g3 == /\ timeDiff > 2 /\ flags.first
                 /\ \/ timeDiff < 50 \/ n < 3
                    \/ timeDiff < dropBallTime - 15 /\ (~in.rested \/ ~in.far)
           r1 == [command |-> "none", flags |-> NoFlags]
           r2 == [command |-> "move", flags |-> [NoFlags EXCEPT !.first = TRUE]]
           r3 == [command |-> "none", flags |-> flags]
           r4 == IF ~flags.second
                 THEN [command |-> "move", flags |-> [flags EXCEPT !.second = TRUE, !.wait = 0]]
                 ELSE IF Counted(flags.wait, MaxWait) < MaxWait \/ ~in.see
                 THEN [command |-> "none",
                       flags |-> [flags EXCEPT !.wait = Counted(@, MaxWait)]]
                 ELSE [command |-> "kick", flags |-> NoFlags]
<1>1. g = CASE g1 -> r1 [] g2 -> r2 [] g3 -> r3 [] OTHER -> r4
  BY DEF GoalieFreeKick
<1>2. /\ g1 <=> real <= 1
      /\ g2 <=> real > 1 /\ ~flags.first
      /\ real <= 1 <=> ~(real > 1)
      /\ g3 => ~g1 /\ ~g2
  BY DEF timeDiff
<1>3. g3 => n < 3 \/ real + 1 <= LastCall
  BY DEF timeDiff, LastCall
<1>4. r1.flags = NoFlags /\ r2.flags.first /\ Progress(r2.flags) = 0 /\ r3.flags = flags
  <2>1. NoFlags \in Flags /\ NoFlags.second = FALSE
    BY FlagsUpdates DEF NoFlags
  <2> QED BY <2>1, FlagsFields DEF Progress
<1>5. ASSUME flags.first
      PROVE  \/ r4.command = "kick"
             \/ /\ r4.flags.first
                /\ \/ Progress(r4.flags) = Progress(flags) + 1
                   \/ Progress(flags) = 6 /\ Progress(r4.flags) = 6
                /\ Progress(r4.flags) = 6 => ~in.see
  <2>1. flags.wait \in 0 .. 5 /\ flags.second \in BOOLEAN
    BY SMT DEF Flags, MaxWait
  <2>2. CASE ~flags.second
    <3>1. r4.flags = [flags EXCEPT !.second = TRUE, !.wait = 0]
      BY <2>2
    <3> HIDE DEF r4
    <3>2. r4.flags.first /\ r4.flags.second /\ r4.flags.wait = 0
      BY <1>5, <3>1, FlagsFields
    <3> QED BY <2>2, <3>2 DEF Progress
  <2>3. CASE flags.second /\ (Counted(flags.wait, MaxWait) < MaxWait \/ ~in.see)
    <3>1. r4.flags = [flags EXCEPT !.wait = Counted(flags.wait, MaxWait)]
      BY <2>3, SMT
    <3> HIDE DEF r4
    <3>2. r4.flags.first /\ r4.flags.second /\ r4.flags.wait = Counted(flags.wait, MaxWait)
      BY <1>5, <2>3, <3>1, FlagsFields
    <3> QED BY <2>1, <2>3, <3>2 DEF Progress, Counted, MaxWait
  <2>4. CASE flags.second /\ ~(Counted(flags.wait, MaxWait) < MaxWait \/ ~in.see)
    BY <2>4
  <2> HIDE DEF r4
  <2> QED BY <2>1, <2>2, <2>3, <2>4
<1> HIDE DEF g1, g2, g3, r1, r2, r3, r4
<1>6. CASE g1
  <2>1. g = r1
    BY <1>1, <1>2, <1>6
  <2> QED BY <1>2, <1>4, <1>6, <2>1, Zenon
<1>7. CASE ~g1 /\ g2
  <2>1. g = r2
    BY <1>1, <1>2, <1>7
  <2> QED BY <1>2, <1>4, <1>7, <2>1, Zenon
<1>8. CASE ~g1 /\ ~g2 /\ g3
  BY <1>1, <1>2, <1>3, <1>4, <1>8
<1>9. CASE ~g1 /\ ~g2 /\ ~g3
  <2>1. g = r4
    BY <1>1, <1>9
  <2> QED BY <1>2, <1>5, <1>9, <2>1
<1> QED BY <1>6, <1>7, <1>8, <1>9

LEMMA InitCatchInv == Init => CatchInv
BY DEF Init, CatchInv

\* A catch is announced in play, and goes on without news.
LEMMA CatchAnnounced ==
    ASSUME TypeOK, Tick, type' = "GoalieCatch_"
    PROVE  \/ type = "GoalieCatch_" /\ NoNews
           \/ since' = cycle' /\ start' = cycle' /\ setplayCount' = 0
<1>1. PICK done \in Commands : Referee(done)
  BY DEF Tick
<1>2. \/ type \in Announced(type) /\ NoNews
      \/ \E new \in Announced(type) \ {type} : Announce(new)
  BY <1>1 DEF Referee, Announce
<1>3. CASE type \in Announced(type) /\ NoNews
  BY <1>3 DEF NoNews
<1>4. CASE \E new \in Announced(type) \ {type} : Announce(new)
  <2>1. /\ "GoalieCatch_" \in Announced(type) /\ type # "GoalieCatch_"
        /\ Announce("GoalieCatch_")
    BY <1>4 DEF Announce
  <2>2. StartsNow(type, "GoalieCatch_")
    BY <2>1 DEF StartsNow
  <2> QED BY <2>1, <2>2 DEF Announce, UpdateGameMode
<1> QED BY <1>2, <1>3, <1>4

LEMMA TickCatchInv ==
    ASSUME CatchInTime, TypeInv, CatchInv, Tick
    PROVE  CatchInv'
<1>1. /\ Age \in Nat /\ lost \in Nat /\ dropBallTime \in Nat /\ setplayCount \in Nat
      /\ decided \in BOOLEAN /\ LastCall \in Nat /\ dropBallTime - LastCall >= 7
      /\ dropBallTime >= 56
  BY NumberTypes DEF CatchInTime, LastCall, MaxCount
<1>2. TypeOK /\ flags \in Flags /\ cycle \in Nat /\ since \in Nat
  BY SetPlayAssumption DEF TypeInv, TypeOK, Flags
<1>3. Progress(flags) \in 0 .. 6
  BY <1>2, SMT DEF Progress, Flags, MaxWait
<1>4. /\ \/ lost' = lost /\ decided
         \/ lost' = lost + 1
      /\ decided' = FALSE /\ flags' = flags /\ blind' = blind
      /\ GoesOn \/ IsDropped \/ IsAnnounced
  BY <1>2, TickFacts
<1>5. Progress(flags)' = Progress(flags) /\ LastCall' = LastCall /\ Decisions' = Age'
  BY <1>4 DEF Progress, LastCall, Decisions
<1>6. dropped' = "GoalieCatch_" => setplayCount' <= 8 \/ lost' >= 1
  <2> SUFFICES ASSUME dropped' = "GoalieCatch_", ~(lost' >= 1) PROVE setplayCount' <= 8
    OBVIOUS
  <2>1. IsDropped
    BY <1>4 DEF GoesOn, IsAnnounced
  <2>2. /\ type = "GoalieCatch_" /\ setplayCount' = setplayCount /\ Age + 1 >= dropBallTime
        /\ ~(lost' = lost /\ command = "kick")
    BY <2>1, TickAge DEF IsDropped
  <2>3. lost' = lost /\ lost = 0 /\ decided
    BY <1>1, <1>4
  <2>4. Decisions = Age + 1 /\ ~(decided /\ command = "kick")
    BY <2>2, <2>3 DEF Decisions
  <2>5. setplayCount - 2 <= Progress(flags) \/ Decisions - LastCall <= Progress(flags)
    BY <2>2, <2>3, <2>4 DEF CatchInv
  <2>6. setplayCount - 2 <= 6
    BY <1>1, <1>3, <2>2, <2>4, <2>5
  <2> QED BY <1>1, <2>2, <2>6
<1>7. ASSUME type' = "GoalieCatch_", lost' = 0
      PROVE  /\ start' = since'
             /\ Age' \in {1, 2} => flags' = NoFlags
             /\ Age' > 2 => flags'.first
             /\ setplayCount' - 2 <= Progress(flags) \/ Age' - LastCall <= Progress(flags)
             /\ Progress(flags) = 6 /\ blind = 0 => setplayCount' <= 2 \/ Age' <= LastCall
  <2>1. lost = 0 /\ lost' = lost /\ decided
    BY <1>1, <1>4, <1>7
  <2>2. CASE type = "GoalieCatch_" /\ NoNews
    <3>1. start' = start /\ since' = since /\ setplayCount' = setplayCount
      BY <2>2 DEF NoNews
    <3>2. cycle' = cycle + 1
      BY <1>2, <2>2, TickFacts DEF Stoppages
    <3>3. Age' = Decisions
      BY <1>2, <2>1, <3>1, <3>2 DEF Age, Decisions
    <3>4. ~(decided /\ command = "kick")
      <4>1. ~IsAnnounced \/ ~IsDropped
        BY <1>7, <2>2 DEF IsDropped, IsAnnounced
      <4>2. PICK done \in Commands : Executed(done) /\ Referee(done)
        BY DEF Tick
      <4>3. done = command
        BY <1>1, <2>1, <4>2 DEF Executed
      <4>4. done # "kick"
        BY <1>7, <2>2, <4>2 DEF Referee, Announce, Kicks
      <4> QED BY <4>3, <4>4
    <3> QED BY <1>4, <2>1, <2>2, <3>1, <3>3, <3>4 DEF CatchInv
  <2>3. CASE since' = cycle' /\ start' = cycle' /\ setplayCount' = 0
    <3>1. Age' = 0
      <4>1. cycle' - cycle' = 0
        BY <1>2, TickFacts
      <4> QED BY <2>3, <4>1 DEF Age
    <3> QED BY <1>1, <1>3, <2>3, <3>1
  <2> QED BY <1>2, <1>7, <2>2, <2>3, CatchAnnounced
<1> QED BY <1>4, <1>5, <1>6, <1>7 DEF CatchInv

LEMMA DecidesCatchInv ==
    ASSUME CatchInTime, TypeInv, CatchInv, KickerDecides \/ PlayerDecides
    PROVE  CatchInv'
<1>1. CASE PlayerDecides
  BY <1>1 DEF PlayerDecides, CatchInv
<1>2. CASE KickerDecides
  <2>1. /\ UNCHANGED <<cycle, stopped, type, since, dropped, lost, facing, start>>
        /\ setplayCount' = CountNow /\ decided' = TRUE /\ ~decided
    BY <1>2, DecideFacts DEF TypeInv
  <2>2. /\ Age \in Nat /\ real \in Int /\ dropBallTime \in Nat /\ setplayCount \in Nat
        /\ LastCall \in Nat /\ LastCall >= 49 /\ MaxBlind \in Nat /\ MaxBlind <= 1
        /\ flags \in Flags /\ blind \in Nat /\ CountNow \in Nat /\ CountNow <= setplayCount + 1
    BY NumberTypes, CountNowRange, SetPlayAssumption
       DEF TypeInv, TypeOK, Flags, CatchInTime, LastCall, MaxCount
  <2>3. Progress(flags) \in 0 .. 6 /\ LastCall' = LastCall
    BY <2>2, SMT DEF Progress, Flags, MaxWait, LastCall
  <2>4. Age' = Age /\ Decisions' = Age + 1 /\ Decisions = Age
    BY <2>1 DEF Age, Decisions
  <2>5. ASSUME type = "GoalieCatch_", lost = 0
        PROVE  /\ Age + 1 \in {1, 2} => flags' = NoFlags
               /\ Age + 1 > 2 /\ command' # "kick" => flags'.first
               /\ command' # "kick" =>
                    /\ \/ setplayCount' - 2 <= Progress(flags')
                       \/ Age + 1 - LastCall <= Progress(flags')
                    /\ Progress(flags') = 6 /\ blind' = 0
                         => setplayCount' <= 2 \/ Age + 1 <= LastCall
    <3>1. /\ start = since /\ real = Age
          /\ Age > 2 => flags.first
          /\ setplayCount - 2 <= Progress(flags) \/ Age - LastCall <= Progress(flags)
          /\ Progress(flags) = 6 /\ blind = 0 => setplayCount <= 2 \/ Age <= LastCall
      BY <2>1, <2>4, <2>5 DEF CatchInv, Age, real
    <3>2. PICK in \in Inputs :
            /\ blind >= MaxBlind => in.see
            /\ blind' = IF in.see THEN 0 ELSE blind + 1
            /\ command' = GoalieFreeKick(in, CountNow).command
            /\ flags' = GoalieFreeKick(in, CountNow).flags
      BY <1>2, <2>5 DEF KickerDecides
    <3> DEFINE g == GoalieFreeKick(in, CountNow)
    <3>3. /\ Age <= 1 => g.flags = NoFlags
          /\ Age > 1 /\ ~flags.first => g.flags.first /\ Progress(g.flags) = 0
          /\ Age > 1 /\ flags.first =>
               \/ /\ g.flags = flags
                  /\ CountNow < 3 \/ Age + 1 <= LastCall
               \/ g.command = "kick"
               \/ /\ g.flags.first
                  /\ \/ Progress(g.flags) = Progress(flags) + 1
                     \/ Progress(flags) = 6 /\ Progress(g.flags) = 6
                  /\ Progress(g.flags) = 6 => ~in.see
      <4>1. dropBallTime \in Int /\ real \in Int /\ flags \in Flags /\ CountNow \in Nat
        BY <2>2
      <4> HIDE DEF g
      <4>2. g = GoalieFreeKick(in, CountNow)
        BY DEF g
      <4> QED BY <3>1, <4>1, <4>2, GoalieProgress
    <3>4. flags' = g.flags /\ command' = g.command
      BY <3>2
    <3> HIDE DEF g
    <3>5. CASE Age <= 1
      <4>1. flags' = NoFlags
        BY <3>5, <3>3, <3>4
      <4>2. Progress(flags') = 0
        BY <4>1 DEF Progress, NoFlags
      <4> QED BY <2>2, <3>5, <4>1, <4>2
    <3>6. CASE Age = 2 /\ ~flags.first
      <4>1. flags'.first /\ Progress(flags') = 0
        BY <3>6, <3>3, <3>4
      <4> QED BY <2>2, <3>6, <4>1
    <3>7. CASE Age >= 2 /\ flags.first
      <4>3. CASE flags' = flags /\ (CountNow < 3 \/ Age + 1 <= LastCall)
        BY <2>1, <2>2, <2>3, <3>7, <4>3
      <4>4. CASE command' = "kick"
        BY <2>2, <3>7, <4>4
      <4>5. CASE /\ flags'.first
                 /\ Progress(flags') = Progress(flags) + 1
                      \/ (Progress(flags) = 6 /\ Progress(flags') = 6)
                 /\ Progress(flags') = 6 => ~in.see
        <5>1. Progress(flags') = 6 => blind' = blind + 1 /\ blind = 0
          BY <2>2, <3>2, <4>5
        <5>2. Progress(flags') = 6 => blind' # 0
          BY <2>2, <5>1
        <5>3. \/ setplayCount' - 2 <= Progress(flags')
              \/ Age + 1 - LastCall <= Progress(flags')
          <6>1. CASE Progress(flags') = Progress(flags) + 1
            BY <2>1, <2>2, <2>3, <3>1, <6>1
          <6>2. CASE Progress(flags) = 6 /\ Progress(flags') = 6
            <7>1. setplayCount <= 2 \/ Age <= LastCall
              BY <3>1, <5>1, <6>2
            <7> QED BY <2>1, <2>2, <6>2, <7>1
          <6> QED BY <4>5, <6>1, <6>2
        <5> QED BY <2>2, <3>7, <4>5, <5>2, <5>3
      <4> QED BY <2>2, <3>7, <3>3, <3>4, <4>3, <4>4, <4>5
    <3> QED BY <2>2, <3>1, <3>5, <3>6, <3>7
  <2>6. (dropped = "GoalieCatch_" /\ ~decided => setplayCount <= 8 \/ lost >= 1)'
    BY <2>1
  <2>7. ASSUME type' = "GoalieCatch_", lost' = 0
        PROVE  /\ start' = since'
               /\ Decisions' \in {1, 2} => flags' = NoFlags
               /\ Decisions' > 2 /\ command' # "kick" => flags'.first
               /\ command' # "kick" =>
                    /\ \/ setplayCount' - 2 <= Progress(flags')
                       \/ Decisions' - LastCall' <= Progress(flags')
                    /\ Progress(flags') = 6 /\ blind' = 0
                         => setplayCount' <= 2 \/ Decisions' <= LastCall'
    <3>1. type = "GoalieCatch_" /\ lost = 0
      BY <2>1, <2>7
    <3>2. start' = since'
      BY <2>1, <3>1 DEF CatchInv
    <3>3. Decisions' = Age + 1 /\ LastCall' = LastCall
      BY <2>3, <2>4
    <3>4. /\ Age + 1 \in {1, 2} => flags' = NoFlags
          /\ Age + 1 > 2 /\ command' # "kick" => flags'.first
      BY <2>5, <3>1
    <3>5. command' # "kick" =>
            /\ \/ setplayCount' - 2 <= Progress(flags')
               \/ Age + 1 - LastCall <= Progress(flags')
            /\ Progress(flags') = 6 /\ blind' = 0 => setplayCount' <= 2 \/ Age + 1 <= LastCall
      BY <2>5, <3>1
    <3>6. Decisions' \in {1, 2} => flags' = NoFlags
      BY <3>3, <3>4
    <3>7. Decisions' > 2 /\ command' # "kick" => flags'.first
      BY <3>3, <3>4, Zenon
    <3>8. command' # "kick" =>
            /\ \/ setplayCount' - 2 <= Progress(flags')
               \/ Decisions' - LastCall' <= Progress(flags')
            /\ Progress(flags') = 6 /\ blind' = 0
                 => setplayCount' <= 2 \/ Decisions' <= LastCall'
      <4>1. Age + 1 - LastCall <= Progress(flags') => Decisions' - LastCall' <= Progress(flags')
        BY <2>2, <3>3, SMT
      <4>2. Age + 1 <= LastCall => Decisions' <= LastCall'
        BY <2>2, <3>3, SMT
      <4> QED BY <3>5, <4>1, <4>2, Zenon
    <3> QED BY <3>2, <3>6, <3>7, <3>8
  <2>8. Progress(flags)' = Progress(flags') /\ decided'
    BY <2>1 DEF Progress
  <2> QED BY <2>6, <2>7, <2>8 DEF CatchInv
<1> QED BY <1>1, <1>2

\* A catch is lost to the drop ball only by a request within the last 8 decisions or a step of the
\* goalie gone wrong, for every dropBallTime in which its 50 cycles fit, if no two decisions
\* in a row lack a see.
THEOREM CatchesAreKicked ==
    ASSUME CatchInTime
    PROVE  Spec => []CatchTakenInTime
<1>1. TypeInv /\ CatchInv /\ UNCHANGED vars => CatchInv'
  BY DEF vars, CatchInv, Age, Decisions, LastCall, Progress
<1>2. TypeInv /\ CatchInv /\ [Next]_vars => CatchInv'
  BY <1>1, TickCatchInv, DecidesCatchInv DEF Next
<1>3. CatchInv => CatchTakenInTime
  BY DEF CatchInv, CatchTakenInTime, Dropped
<1> QED BY <1>2, <1>3, InitCatchInv, TypeInvAlways, PTL DEF Spec

==============================================================================
