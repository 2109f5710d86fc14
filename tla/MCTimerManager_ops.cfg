SPECIFICATION Spec
CONSTANTS
  Workers = {w1}
  Outside = {o}
  Timers = {1, 2}
  Ms = {1, 2}
  Ops = {"cancel", "refresh", "reset"}
  MaxClock = 1
  MaxBehind = 0
  ROLLOVER = 0
  MAX_TIMEOUT = 1
INVARIANTS TimersConsistent SleepSound
PROPERTIES NotEarly DeadStaysDead
CHECK_DEADLOCK FALSE
