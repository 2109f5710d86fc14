SPECIFICATION FairSpec
CONSTANTS
  Workers = {w1}
  Outside = {}
  Timers = {1, 2}
  Ms = {1, 2}
  Ops = {}
  MaxClock = 2
  MaxBehind = 1
  ROLLOVER = 0
  MAX_TIMEOUT = 2
 
PROPERTIES TimerFires
CHECK_DEADLOCK FALSE
