------------------------------ MODULE SayMessage ------------------------------
(***************************************************************************)
(* What a player says in a cycle and what a teammate understands of it.    *)
(*                                                                         *)
(* The player's behaviour may add a message, SampleCommunication::execute  *)
(* adds others as far as the say command has room, ActionEffector::        *)
(* makeSayCommand turns them into one string, and the hearer's AudioSensor *)
(* walks through the string, each parser telling how far it has read.      *)
(* Nothing in the string says how many messages it holds or where one      *)
(* ends: builder and parser of a type must agree on its length, its        *)
(* fields, their order, their radix and their scale.                       *)
(***************************************************************************)
EXTENDS AudioCodec, FiniteSets

CONSTANTS
    BehaviourTypes,  \* messages that behaviours add, before SampleCommunication
    Samples          \* Samples[kind]: the numbers of that kind that are tried

playerSayMsgSize == 10
MAX_PLAYER == 11

-----------------------------------------------------------------------------
(* The builders, rcsc/player/say_message_builder.cpp.  A message is its    *)
(* header, the index of a character, and chunks of characters, each with   *)
(* the fields packed into it; the values are those of all chunks in a row. *)

Chunk(len, fields) == [len |-> len, fields |-> fields]
Message(header, chunks) == [header |-> header, chunks |-> chunks]

BodyDegrees    == Enc("body", -1800, 1800, -1800, 1, 10, 359, 360)
BodyTwoDegrees == Enc("body", -1800, 1789, -1800, 1, 20, 179, 180)

\* bound(-52.49, x, 52.49) + 52.5 and bound(-33.99, y, 33.99) + 34.0, in steps.
PlayerX(step, top, radix) == Enc("x", -52490, 52490, -52500, 1, step, top, radix)
PlayerY(step, top, radix) == Enc("y", -33990, 33990, -34000, 1, step, top, radix)

GoalieFields == <<Within(37000, 52900, Enc("goalieX", 37000, 52900, 37000, 1, 100, 159, 160)),
                  Within(-19900, 19900, Enc("goalieY", -19900, 19900, -20000, 1, 100, 399, 400)),
                  BodyDegrees>>
PlayerFields == <<EncInt("number", 1, 22, 22), PlayerX(630, 167, 168), PlayerY(630, 108, 109)>>

BallMessage   == Message(11, <<Chunk(5, PosVelToBit31)>>)                           \* b
PassMessage   == Message(25, <<Chunk(4, UnumPos), Chunk(5, PosVelToBit31)>>)        \* p
GoalieMessage == Message(16, <<Chunk(4, GoalieFields)>>)                            \* g
\* Its player's number is only reported if it is illegal, never refused; it is that of a
\* player the sender knows (SamplesAssumption).
GoalieAndPlayerMessage ==                                                           \* e
    Message(14, <<Chunk(7, GoalieFields \o <<Enc("player", 1, 22, 1, 1, 1, Unbounded, 22),
                                             PlayerX(555, 190, 191), PlayerY(555, 123, 124)>>)>>)
OffsideLineMessage ==                                                               \* o
    Message(24, <<Chunk(1, <<Within(10000, Unbounded, Percentage("line", 10000, 10000, 42000))>>)>>)
DefenseLineMessage ==                                                               \* d
    Message(13, <<Chunk(1, <<Within(-Unbounded, -10000, Percentage("line", -52000, -52000, 42000))>>)>>)
WaitRequestMessage == Message(32, <<>>)                                             \* w
\* unum, or unum + 11 of an opponent, and a cycle, each as one character: intToCharMap
\* throws where it has none, and the message is refused.
InterceptMessage ==                                                                 \* i
    Message(18, <<Chunk(1, <<Within(0, 73, Enc("player", 0, 73, 0, 1, 1, Unbounded, CHAR_SIZE))>>),
                  Chunk(1, <<Within(0, 73, Enc("cycle", 0, 73, 0, 1, 1, Unbounded, CHAR_SIZE))>>)>>)
PassRequestMessage == Message(17, <<Chunk(3, PosToBit18)>>)                         \* h
StaminaMessage     == Message(28, <<Chunk(1, <<Percentage("rate", 0, 0, 1000)>>)>>) \* s
RecoveryMessage    == Message(27, <<Chunk(1, <<Percentage("rate", 0, 0, 1000)>>)>>) \* r
DribbleMessage ==                                                                   \* D
    Message(39, <<Chunk(3, <<Enc("x", -52500, 52500, -52500, 1, 500, Unbounded, 1),
                             Enc("y", -34000, 34000, -34000, 1, 500, Unbounded, 136),
                             Enc("count", 1, 10, 1, 1, 1, Unbounded, 10)>>)>>)
\* BallMessage's speed up to ballSpeedMax() * ballDecay(), 3.0 * 0.94, in 1/63 of its
\* range.  An invalid velocity is packed as two indices 0, those of two speeds at or
\* below the lower end, which are among the numbers tried.
DecayedSpeed == Enc("speed", -2820, 2820, -2820, 63, 5640, 62, 63)
BallGoalieMessage ==                                                                \* G
    Message(42, <<Chunk(9, <<Enc("x", -52500, 52500, -52500, 1, 100, 1049, 1050),
                             Enc("y", -34000, 34000, -34000, 1, 100, 679, 680),
                             DecayedSpeed, DecayedSpeed,
                             Within(36500, Unbounded, Enc("goalieX", 36500, 52500, 36500, 1, 100, 159, 160)),
                             Within(-20000, 20000, Enc("goalieY", -20000, 20000, -20000, 1, 100, 399, 400)),
                             BodyDegrees>>)>>)
OnePlayerMessage   == Message(51, <<Chunk(3, PlayerFields)>>)                       \* P
TwoPlayerMessage   == Message(52, <<Chunk(6, PlayerFields \o PlayerFields)>>)       \* Q
ThreePlayerMessage == Message(53, <<Chunk(9, PlayerFields \o PlayerFields \o PlayerFields)>>)  \* R
SelfMessage ==                                                                      \* S
    Message(54, <<Chunk(4, <<Enc("x", -52500, 52500, -52500, 1, 400, 263, 264),
                             Enc("y", -34000, 34000, -34000, 1, 400, 170, 171),
                             Enc("body", -1800, 1800, -1800, 1, 60, 59, 60),
                             Enc("rate", 0, 1000, 0, 10, 1000, 10, 11)>>)>>)
TeammateMessage ==                                                                  \* T
    Message(55, <<Chunk(4, <<EncInt("unum", 1, 11, 11), PlayerX(700, Unbounded, 151),
                             PlayerY(700, Unbounded, 98), BodyTwoDegrees>>)>>)
OpponentMessage ==                                                                  \* O
    Message(50, <<Chunk(4, <<EncInt("unum", 1, 11, 11), PlayerX(700, 150, 151),
                             PlayerY(700, 99, 98), BodyTwoDegrees>>)>>)
BallPlayerMessage ==                                                                \* B
    Message(37, <<Chunk(5, PosVelToBit31),
                  Chunk(4, <<EncInt("number", 1, 22, 22), PlayerX(1000, 105, 106),
                             PlayerY(1000, 68, 69),
                             Enc("body", -1800, 1790, -1800, 1, 20, 179, 180)>>)>>)

Builder ==
    [Ball |-> BallMessage, Pass |-> PassMessage, Goalie |-> GoalieMessage,
     GoalieAndPlayer |-> GoalieAndPlayerMessage, OffsideLine |-> OffsideLineMessage,
     DefenseLine |-> DefenseLineMessage, WaitRequest |-> WaitRequestMessage,
     Intercept |-> InterceptMessage, PassRequest |-> PassRequestMessage,
     Stamina |-> StaminaMessage, Recovery |-> RecoveryMessage, Dribble |-> DribbleMessage,
     BallGoalie |-> BallGoalieMessage, OnePlayer |-> OnePlayerMessage,
     TwoPlayer |-> TwoPlayerMessage, ThreePlayer |-> ThreePlayerMessage, Self |-> SelfMessage,
     Teammate |-> TeammateMessage, Opponent |-> OpponentMessage, BallPlayer |-> BallPlayerMessage]

\* Characters of the header and the chunks; slength() of builder and parser.
LengthOf(chunks) ==
    LET len[k \in 0..Len(chunks)] == IF k = 0 THEN 1 ELSE len[k - 1] + chunks[k].len
    IN  len[Len(chunks)]

Length == [type \in DOMAIN Builder |-> LengthOf(Builder[type].chunks)]

FieldsOf(chunks) ==
    LET fields[k \in 0..Len(chunks)] == IF k = 0 THEN <<>> ELSE fields[k - 1] \o chunks[k].fields
    IN  fields[Len(chunks)]

Fields == [type \in DOMAIN Builder |-> FieldsOf(Builder[type].chunks)]

\* No behaviour says a defense line (sayDefenseLine has no caller) or a dribble (Body_Dribble2008
\* and IntentionDribble2008 leave that call out).
ASSUME BehavioursAssumption ==
    BehaviourTypes \subseteq DOMAIN Builder \ {"DefenseLine", "Dribble"}

\* sayBallAndPlayers and sayIntercept name players of the world model, by unum or unum + 11.
ASSUME SamplesAssumption ==
    /\ \A type \in DOMAIN Builder : \A i \in 1..Len(Fields[type]) :
         Samples[Fields[type][i].kind] \in Seq(Int) \ {<<>>}
    /\ Samples["player"] \in Seq(1..(2 * MAX_PLAYER))

\* The values of chunk k, of all values of a message.
Part(chunks, k, values) ==
    LET before == Len(FieldsOf(SubSeq(chunks, 1, k - 1)))
    IN  SubSeq(values, before + 1, before + Len(chunks[k].fields))

\* toStr, without its look at the room: the characters, or nothing if the message
\* refuses a value or the codec the number.
ToStr(m) ==
    LET chunks == Builder[m.type].chunks
        fields == Fields[m.type]
        code(k) == Encode(chunks[k].len, chunks[k].fields, Part(chunks, k, m.values))
        str[k \in 0..Len(chunks)] ==
          IF k = 0 THEN <<Builder[m.type].header>>
          ELSE LET before == str[k - 1]
                   now == code(k)
               IN  IF before = <<>> \/ now = <<>> THEN <<>> ELSE before \o now
    IN  IF \A i \in 1..Len(fields) : m.values[i] \in fields[i].from..fields[i].to
        THEN str[Len(chunks)]
        ELSE <<>>

-----------------------------------------------------------------------------
(* The parsers, rcsc/common/say_message_parser.cpp; each is registered     *)
(* under the header of its builder.                                        *)

DBody         == Dec(-1800, 1, 10, 360)
DBodyTwo      == Dec(-1800, 1, 20, 180)
DGoalieFields == <<Dec(37000, 1, 100, 160), Dec(-20000, 1, 100, 400), DBody>>
DPlayer(step, xRadix, yRadix) ==
    <<DecInt(1, 22), Dec(-52500, 1, step, xRadix), Dec(-34000, 1, step, yRadix)>>
DPlayerFields_Swapped == DPlayer(630, 109, 168)   \* mutant: the radices of x and y swapped
DPlayerFields == DPlayer(630, 168, 109)

BallMessageParser   == <<Chunk(5, Bit31ToPosVel)>>
PassMessageParser   == <<Chunk(4, ToUnumPos), Chunk(5, Bit31ToPosVel)>>
GoalieMessageParser == <<Chunk(4, DGoalieFields)>>
GoalieAndPlayerMessageParser == <<Chunk(7, DGoalieFields \o DPlayer(555, 191, 124))>>
OffsideLineMessageParser     == <<Chunk(1, <<ToPercentage(10000, 42000)>>)>>
DefenseLineMessageParser     == <<Chunk(1, <<ToPercentage(52000, 42000)>>)>>
WaitRequestMessageParser     == <<>>
InterceptMessageParser   == <<Chunk(1, <<DecInt(0, CHAR_SIZE)>>), Chunk(1, <<DecInt(0, CHAR_SIZE)>>)>>
PassRequestMessageParser == <<Chunk(3, Bit18ToPos)>>
StaminaMessageParser     == <<Chunk(1, <<ToPercentage(0, 1000)>>)>>
RecoveryMessageParser    == <<Chunk(1, <<ToPercentage(0, 1000)>>)>>
DribbleMessageParser     == <<Chunk(3, <<Dec(-52500, 1, 500, Unbounded), Dec(-34000, 1, 500, 136), DecInt(1, 10)>>)>>
BallGoalieMessageParser ==
    LET speed == Dec(-3000, 63, 6000, 63)
    IN  <<Chunk(9, <<Dec(-52500, 1, 100, 1050), Dec(-34000, 1, 100, 680), speed, speed,
                     Dec(36500, 1, 100, 160), Dec(-20000, 1, 100, 400), DBody>>)>>
OnePlayerMessageParser   == <<Chunk(3, DPlayerFields)>>
TwoPlayerMessageParser   == <<Chunk(6, DPlayerFields \o DPlayerFields)>>
ThreePlayerMessageParser == <<Chunk(9, DPlayerFields \o DPlayerFields \o DPlayerFields)>>
SelfMessageParser ==
    <<Chunk(4, <<Dec(-52500, 1, 400, 264), Dec(-34000, 1, 400, 171), Dec(-1800, 1, 60, 60), Dec(0, 10, 1000, 11)>>)>>
TeammateMessageParser == <<Chunk(4, <<DecInt(1, 11), Dec(-52500, 1, 700, 151), Dec(-34000, 1, 700, 98), DBodyTwo>>)>>
OpponentMessageParser == <<Chunk(4, <<DecInt(1, 11), Dec(-52500, 1, 700, 151), Dec(-34000, 1, 700, 98), DBodyTwo>>)>>
BallPlayerMessageParser == <<Chunk(5, Bit31ToPosVel), Chunk(4, DPlayer(1000, 106, 69) \o <<DBodyTwo>>)>>

Parser ==
    [Ball |-> BallMessageParser, Pass |-> PassMessageParser, Goalie |-> GoalieMessageParser,
     GoalieAndPlayer |-> GoalieAndPlayerMessageParser, OffsideLine |-> OffsideLineMessageParser,
     DefenseLine |-> DefenseLineMessageParser, WaitRequest |-> WaitRequestMessageParser,
     Intercept |-> InterceptMessageParser, PassRequest |-> PassRequestMessageParser,
     Stamina |-> StaminaMessageParser, Recovery |-> RecoveryMessageParser,
     Dribble |-> DribbleMessageParser, BallGoalie |-> BallGoalieMessageParser,
     OnePlayer |-> OnePlayerMessageParser, TwoPlayer |-> TwoPlayerMessageParser,
     ThreePlayer |-> ThreePlayerMessageParser, Self |-> SelfMessageParser,
     Teammate |-> TeammateMessageParser, Opponent |-> OpponentMessageParser,
     BallPlayer |-> BallPlayerMessageParser]

\* Mutant: the length without the header.
ReadLength_NoHeader == [type \in DOMAIN Parser |-> LengthOf(Parser[type]) - 1]
ReadLength == [type \in DOMAIN Parser |-> LengthOf(Parser[type])]

\* The numbers that parse makes of the characters of its message.
Read(type, from) ==
    LET chunks == Parser[type]
        code(k) == LET start == LengthOf(SubSeq(chunks, 1, k - 1))
                   IN  SubSeq(from, start + 1, start + chunks[k].len)
        read[k \in 0..Len(chunks)] ==
          IF k = 0 THEN <<>> ELSE read[k - 1] \o Decode(chunks[k].fields, code(k))
    IN  read[Len(chunks)]

\* InterceptMessageParser gives up at the number of no player; the other parsers take
\* every character for a number they can use.
Legal(type, numbers) == type = "Intercept" => numbers[1].val \in 1..(2 * MAX_PLAYER)

-----------------------------------------------------------------------------
VARIABLES
    pc,        \* the phase of the decision: "behave", "communicate", "make" or "parse"
    said,      \* M_say_messages of the player
    str,       \* M_say_message, and then what the hearer's walk has still to read
    accepted,  \* history: the messages that are in the string
    heard      \* what the hearer's parsers have handed to its AudioMemory

vars == <<pc, said, str, accepted, heard>>

\* The values tried for a message: low, middle and high ones of all fields and, if
\* thorough, with each of these every sample of one field.
Values(type, thorough) ==
    LET fields  == Fields[type]
        samples(i) == Samples[fields[i].kind]
        low     == [i \in 1..Len(fields) |-> samples(i)[1]]
        middle  == [i \in 1..Len(fields) |-> samples(i)[(Len(samples(i)) + 1) \div 2]]
        high    == [i \in 1..Len(fields) |-> samples(i)[Len(samples(i))]]
        varied(base, i) == {[base EXCEPT ![i] = samples(i)[j]] : j \in 1..Len(samples(i))}
    IN  {low, middle, high}
          \cup IF thorough
               THEN UNION {varied(base, i) : base \in {low, middle, high}, i \in 1..Len(fields)}
               ELSE {}

\* getSayMessageLength: of what was added, before any of it is built.
SayLength(messages) ==
    LET sum[k \in 0..Len(messages)] == IF k = 0 THEN 0 ELSE sum[k - 1] + Length[messages[k].type]
    IN  sum[Len(messages)]

\* A message of the type is added, the first one with all the values tried; nothing, if
\* the type is "none".
Added(messages, type) ==
    IF type = "none" THEN {messages}
    ELSE {Append(messages, [type |-> type, values |-> vs]) : vs \in Values(type, messages = <<>>)}

Fits_NoHeader(type, length) == length + Length[type] - 1 <= playerSayMsgSize   \* mutant
Fits(type, length) == length + Length[type] <= playerSayMsgSize

-----------------------------------------------------------------------------
(* SampleCommunication, HITSZer/src/sample_communication.cpp.              *)

Phases == {"play", "set_play", "before_kick_off", "penalty"}

\* sayRecovery, as execute calls it.
Recovery(phase, sender, weak, length) ==
    IF phase \notin {"play", "penalty"} /\ sender /\ weak /\ Fits("Recovery", length)
    THEN "Recovery" ELSE "none"

\* The ranking of what was seen: n players, and the ball behind `before' of them or, if
\* before = NoBall, not at all.  It stops at three players, or once it has both the ball
\* and a player: `send' players, and whether the ball came first or after them.
NoBall == 9
Ranking(n, before) ==
    IF before = 0 /\ n >= 1 THEN [send |-> 1, ball |-> TRUE, both |-> TRUE]
    ELSE IF before = 1 /\ n >= 1 THEN [send |-> 1, ball |-> TRUE, both |-> TRUE]
    ELSE IF before = 2 /\ n >= 3 THEN [send |-> 3, ball |-> TRUE, both |-> TRUE]
    ELSE IF before <= 2 /\ before <= n THEN [send |-> n, ball |-> TRUE, both |-> FALSE]
    ELSE [send |-> IF n < 3 THEN n ELSE 3, ball |-> FALSE, both |-> FALSE]

\* sayBallAndPlayers: what it adds for a ranking r; near says that the opponent's goalie
\* was just seen in its area with the ball close, other that one of the players sent is
\* of the other side, first that the first of them is that goalie.
BallAndPlayers(r, shouldSayBall, shouldSayGoalie, near, other, first, length) ==
    LET ball == r.ball \/ shouldSayBall
        fits(type) == Fits(type, length)
    IN  IF ball /\ ~r.both /\ fits("Ball")
        THEN IF fits("BallPlayer") THEN "BallPlayer" ELSE "Ball"
        ELSE IF r.both /\ shouldSayGoalie /\ fits("BallGoalie") THEN "BallGoalie"
        ELSE IF r.both /\ fits("BallPlayer") THEN "BallPlayer"
        ELSE IF near /\ other /\ r.send >= 1 /\ fits("GoalieAndPlayer") THEN "GoalieAndPlayer"
        ELSE IF near /\ fits("Goalie") THEN "Goalie"
        ELSE IF r.send >= 3 /\ fits("ThreePlayer") THEN "ThreePlayer"
        ELSE IF r.send >= 2 /\ fits("TwoPlayer") THEN "TwoPlayer"
        ELSE IF r.send >= 1 /\ first /\ fits("Goalie") THEN "Goalie"
        ELSE IF r.send >= 1 /\ fits("OnePlayer") THEN "OnePlayer"
        ELSE "none"

\* sayStamina, only behind another message.
Stamina(length) ==
    IF length > 0 /\ Fits("Stamina", length) THEN "Stamina" ELSE "none"

-----------------------------------------------------------------------------
Init ==
    /\ pc = "behave"
    /\ said = <<>> /\ str = <<>> /\ accepted = <<>> /\ heard = <<>>

\* The behaviour of this decision adds a message, or none, without a look at the room.
Behave ==
    /\ pc = "behave"
    /\ \E type \in BehaviourTypes \cup {"none"} : said' \in Added(<<>>, type)
    /\ pc' = "communicate"
    /\ UNCHANGED <<str, accepted, heard>>

\* The types that SampleCommunication::execute adds, one after the other, to messages of
\* that length; "none" where it adds nothing.  It is the player's turn to speak when it
\* has something to say already (updateCurrentSender).
Plus(length, type) == IF type = "none" THEN length ELSE length + Length[type]
Communications ==
    [length \in 0..playerSayMsgSize |->
      {LET recovery  == Recovery(phase, sender, weak, length)
           talkative == phase \in {"play", "set_play"}
           one       == Plus(length, recovery)
           objects   == IF talkative /\ (mustBall \/ mustGoalie \/ sender \/ one > 0)
                        THEN BallAndPlayers(Ranking(n, before), mustBall, mustGoalie, near, other, first, one)
                        ELSE "none"
       IN  <<recovery, objects, IF talkative THEN Stamina(Plus(one, objects)) ELSE "none">> :
          phase \in Phases, sender \in IF length = 0 THEN BOOLEAN ELSE {TRUE}, weak \in BOOLEAN,
          mustBall \in BOOLEAN, mustGoalie \in BOOLEAN, near \in BOOLEAN, other \in BOOLEAN,
          first \in BOOLEAN, n \in 0..3, before \in {0, 1, 2, NoBall}}]

Communicate ==
    /\ pc = "communicate"
    /\ \E types \in Communications[SayLength(said)] :
         \E one \in Added(said, types[1]) :
           \E two \in Added(one, types[2]) :
             said' \in Added(two, types[3])
    /\ pc' = "make"
    /\ UNCHANGED <<str, accepted, heard>>

\* makeSayCommand: the messages that their builder puts at the end of the string; one that
\* it refuses is only reported.  Without any there is no say command.
MakeSayCommand ==
    LET toStr(m, to) == IF Len(to) + Length[m.type] > playerSayMsgSize THEN <<>> ELSE ToStr(m)
        made[k \in 0..Len(said)] ==
          IF k = 0 THEN [str |-> <<>>, accepted |-> <<>>]
          ELSE LET before == made[k - 1]
                   s == toStr(said[k], before.str)
               IN  IF s = <<>> THEN before
                   ELSE [str |-> before.str \o s, accepted |-> Append(before.accepted, said[k])]
        result == made[Len(said)]
    IN  /\ pc = "make"
        /\ str' = result.str
        /\ accepted' = result.accepted
        /\ pc' = "parse"
        /\ UNCHANGED <<said, heard>>

Readable(type) == /\ str # <<>>
                  /\ Builder[type].header = str[1]
                  /\ ReadLength[type] <= Len(str)
                  /\ Legal(type, Read(type, str))

\* One turn of parseTeammateMessage's loop: the parser registered for the first character
\* reads its fields and tells how far it read.
ParseOne ==
    /\ pc = "parse"
    /\ \E type \in DOMAIN Parser :
         /\ Readable(type)
         /\ heard' = Append(heard, [type |-> type, numbers |-> Read(type, str)])
         /\ str' = SubSeq(str, ReadLength[type] + 1, Len(str))
    /\ UNCHANGED <<pc, said, accepted>>

\* The walk stops: at the end, at a character that heads no message, or where a parser
\* misses characters or refuses a number.  The next decision begins: the sent messages are cleared.
NextDecision ==
    /\ pc = "parse"
    /\ ~\E type \in DOMAIN Parser : Readable(type)
    /\ pc' = "behave"
    /\ said' = <<>> /\ str' = <<>> /\ accepted' = <<>> /\ heard' = <<>>

Next == Behave \/ Communicate \/ MakeSayCommand \/ ParseOne \/ NextDecision

Spec == Init /\ [][Next]_vars

-----------------------------------------------------------------------------
(* Properties.                                                             *)

\* The string is made of the codec's characters and fits the say command.
TypeOK ==
    /\ pc \in {"behave", "communicate", "make", "parse"}
    /\ \A k \in 1..Len(said) :
         Len(said[k].values) = Len(Fields[said[k].type])
    /\ Len(str) <= playerSayMsgSize
    /\ \A k \in 1..Len(str) : str[k] \in Char
    /\ Len(heard) <= Len(accepted) /\ Len(accepted) <= Len(said)

Sendable(m) == \A k \in 1..Len(m.values) :
                 LET f == Fields[m.type][k] IN m.values[k] \in f.from..f.to

\* Those of the messages that no builder refuses.
Sent(messages) ==
    LET sent[k \in 0..Len(messages)] ==
          IF k = 0 THEN <<>>
          ELSE IF Sendable(messages[k]) THEN Append(sent[k - 1], messages[k]) ELSE sent[k - 1]
    IN  sent[Len(messages)]

\* Whatever the behaviour and SampleCommunication add finds its room in the say command:
\* only a message whose builder refuses the position or the number is left out.
NothingIsCrowdedOut ==
    pc = "parse" => accepted = Sent(said)

\* BallGoalieMessage scales the ball's speed by ballSpeedMax() * ballDecay(), its parser by
\* ballSpeedMax().
MisscaledFields == {"BallGoalie"} \X {3, 4}

\* The hearer reads the messages of the string, each as the type it was said as and with
\* its numbers, in their order, and nothing else; it stops only at the string's end.
HeardIsSaid ==
    pc = "parse" =>
      /\ \A k \in 1..Len(heard) :
           LET fields == Fields[accepted[k].type]
           IN  /\ heard[k].type = accepted[k].type
               /\ Len(heard[k].numbers) = Len(fields)
               /\ \A i \in 1..Len(fields) :
                    \/ <<heard[k].type, i>> \in MisscaledFields
                    \/ Faithful(fields[i], accepted[k].values[i], heard[k].numbers[i])
      /\ (~\E type \in DOMAIN Parser : Readable(type)) => str = <<>> /\ Len(heard) = Len(accepted)
=============================================================================
