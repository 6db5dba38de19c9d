\* two runs, with a call that is given up and an invalidation of another cause
SPECIFICATION Spec
CONSTANTS
  MaxRuns = 2
  MaxLost = 1
  MaxForeign = 1
INVARIANTS RunsDoNotMix PassMeansReaction
PROPERTIES RunsAreReported
CHECK_DEADLOCK FALSE
