SPECIFICATION FairSpec
CONSTANTS
  Workers = {w1, w2}
  Outside = {}
  Timers = {1}
  Ms = {1}
  Ops = {}
  MaxClock = 3
  MaxBehind = 0
  ROLLOVER = 2
  MAX_TIMEOUT = 2
PROPERTIES TimerFires
CHECK_DEADLOCK FALSE
