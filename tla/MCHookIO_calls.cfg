SPECIFICATION Spec
CONSTANTS
  f1 = f1
  f2 = f2
  None = None
  Fibers = {f1, f2}
  Numbers = {1, 2}
  Programs <- MCPrograms
  WorkerCounts = {1, 2}
  MaxSockets = 3
  MaxUnits = 2
INVARIANTS WaitsSound
PROPERTIES  TimedCallReturns
CHECK_DEADLOCK FALSE
