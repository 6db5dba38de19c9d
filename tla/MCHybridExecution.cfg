SPECIFICATION Spec
CONSTANTS
  Last = 2
  Lookahead = 1
  Window = 3
  BlockedAt = 2
  InfeasibleSteps = 1
  StallSteps = 1
  MaxFaults = 1
  MaxPlans = 2
  MaxChanges = 1
  NotFinite = NotFinite
  FullTurn = 24
INVARIANTS CommandsReachTheirJoints SessionsAgree CommandsAreWatched PreemptedHasEnded
PROPERTIES HoldEnds
CHECK_DEADLOCK FALSE
