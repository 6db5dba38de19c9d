SPECIFICATION Spec
CONSTANTS
  Phases <- MCPhases
  Places <- MCPlaces
  Recorded <- MCPlaces
  Away = Away
  NoGoal = NoGoal
  None = None
  GraspRetries = 2
  MaxPoseRetries = 3
  HomeCandidates = 2
  PositionOnly = TRUE
  PrecisionDescent = TRUE
  MaxHybridRetries = 1
  MaxLag = 2
CHECK_DEADLOCK FALSE
INVARIANTS TypeOK RowNeverFlatters RecordersTellTheRun StandsWhereItThinks
PROPERTY RunsEnd
