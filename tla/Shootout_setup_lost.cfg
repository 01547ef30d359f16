CONSTANTS
  TeamSize = 2
  Goalie = 1
  OurSide = "LEFT"
  OtherKinds = {}
  Losable = {"PenaltySetup_"}
  MaxLoss = 1
  MaxPlay = 0
  MaxOther = 0
  MaxKicks = 2
SPECIFICATION Spec
INVARIANT GoalieDefends
\* The match ends.
CHECK_DEADLOCK FALSE
