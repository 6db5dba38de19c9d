\* nothing was suppressed before the sequence: a suppression of its own that is not
\* verified in time is never taken back
CONSTANTS
  Target = target
  Pose = pose
  Absent = Absent
  Configs <- CumotionConfig
  GraspTries = 2
  MaxControl = 4
  MaxTopic = 2
  DiameterFloor = 1
SPECIFICATION FreshSpec
INVARIANT AbortReenablesCollisions
CHECK_DEADLOCK FALSE
