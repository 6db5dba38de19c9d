\* the ground and one change by a service: MotionGen starts a version behind
CONSTANT PlanThreads = {"plan"}
CONSTANT Ground = 1
CONSTANT MaxContent = 3
SPECIFICATION FairSpec
INVARIANT TypeOK
INVARIANT VersionsInOrder
INVARIANT SyncedMeansLoaded
INVARIANT SolvesKnowTheWorld
INVARIANT MeshesKeepTheirCuboids
PROPERTY SolversCatchUp
