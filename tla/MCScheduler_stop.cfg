SPECIFICATION FairSpec
CONSTANTS
  w1 = w1
  w2 = w2
  None = None
  ANY = ANY
  Workers = {w1, w2}
  Root = w1
  Fibers = {f1, f2}
  Pins = {ANY}
  Acts = {"ready", "throw", "schedule"}
  MaxYields = 1
INVARIANTS FibersSound ActiveExact StopDrains
PROPERTIES StopReturns EveryTaskEnds
CHECK_DEADLOCK FALSE
