\* every backend and planner, queries that fail: safety, and the verdict that must come
CONSTANTS
  Target = target
  Pose = pose
  Absent = Absent
  Configs <- AllConfigs
  GraspTries = 2
  MaxControl = 4
  MaxTopic = 2
  DiameterFloor = 1
SPECIFICATION FairSpec
INVARIANT TypeOK
INVARIANT SceneOwnership
INVARIANT NeverCarriedTwice
INVARIANT SuccessMeansReleased
INVARIANT CarriedIsTheTarget
PROPERTY EndsAndRestores
CHECK_DEADLOCK FALSE
