CONSTANTS
  TeamSize = 2
  Goalie = 1
  OurSide = "RIGHT"
  OtherKinds = {"card", "unknown"}
  Losable = {"BeforeKickOff", "PlayOn", "FreeKick_", "GoalieCatch_", "OffSide_", "PenaltyReady_",
    "PenaltyTaken_", "PenaltyMiss_", "PenaltyScore_", "PenaltyFoul_", "card", "unknown"}
  MaxLoss = 1
  MaxPlay = 3
  MaxOther = 1
  MaxKicks = 3
SPECIFICATION Spec
INVARIANTS TypeOK OneKicker GoalieDefends GoalIsTheReferees WorldKnowsMode ClockFlagIsTheWorlds
PROPERTY KicksInOrder
\* The match ends.
CHECK_DEADLOCK FALSE
