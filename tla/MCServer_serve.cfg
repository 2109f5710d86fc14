SPECIFICATION Spec
CONSTANTS
  Threads <- MCThreads
  MaxCalls = 4
  MaxSocks = 2
  MaxLoops = 2
  MaxConns <- MCConns
  MaxFds = 1
  None = None
  Workloads <- MCWorkloads
  RequestBuffer = 10
  MaxSegment = 9
  ResponseUnits = 2
CHECK_DEADLOCK FALSE
INVARIANTS AcceptSound SessionSound
PROPERTY ServerServes
