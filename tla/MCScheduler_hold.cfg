SPECIFICATION FairSpec
CONSTANTS
  w1 = w1
  w2 = w2
  None = None
  ANY = ANY
  Workers = {w1}
  Root = None
  Fibers = {f1, f2}
  Pins = {ANY}
  Acts = {"hold", "ready", "throw", "schedule"}
  MaxYields = 2
INVARIANTS FibersSound PendingCovers StopDrains
PROPERTIES StopReturns
CHECK_DEADLOCK FALSE
