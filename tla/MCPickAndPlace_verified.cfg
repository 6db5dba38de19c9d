\* a failed query counts as the absence of the object
CONSTANTS
  Target = target
  Pose = pose
  Absent = Absent
  Configs <- CumotionWithFailures
  GraspTries = 2
  MaxControl = 4
  MaxTopic = 2
  DiameterFloor = 1
SPECIFICATION Spec
INVARIANT VerifiedMeansAbsent
CHECK_DEADLOCK FALSE
