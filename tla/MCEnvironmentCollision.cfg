\* two objects that move, with restarts and an overwritten diff
CONSTANTS
  o1 = o1
  o2 = o2
  p1 = p1
  p2 = p2
  Absent = Absent
  Objects = {o1, o2}
  Poses = {p1, p2}
  MaxControl = 1
  MaxTopic = 2
  MaxRestarts = 1
  MaxLost = 1
SPECIFICATION FairSpec
INVARIANT TypeOK
INVARIANT SuppressionTakesHold
PROPERTY GoneStaysGone
PROPERTY SceneCatchesUp
PROPERTY ImplementsVisibility
