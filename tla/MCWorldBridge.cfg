\* two objects, one of two geometries, with a restart of the bridge
CONSTANTS
  f1 = f1
  f2 = f2
  n1 = n1
  n2 = n2
  n3 = n3
  s1 = s1
  p1 = p1
  p2 = p2
  Nothing = Nothing
  Unknown = Unknown
  Frames = {f1, f2}
  Names = {n1, n2, n3}
  FrameOf <- TwoObjects
  Specs = {s1}
  Poses = {p1, p2}
  MaxAdds = 2
  MaxBatch = 1
  MaxRestarts = 1
SPECIFICATION FairSpec
INVARIANT BeliefIsTrue
PROPERTY ImplementsStore
PROPERTY CatchesUp
