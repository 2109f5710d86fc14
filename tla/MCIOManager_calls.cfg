SPECIFICATION FairSpec
CONSTANTS
  a = a
  b = b
  ra = ra
  wa = wa
  wb = wb
  None = None
  Threads = {t1, t2}
  Fds = {a, b}
  Tasks = {ra, wb}
  Use <- UseHalfDuplex
  Calls <- CallsHalfDuplex
INVARIANTS Consistent WokenOncePerWait PendingCountExact NoLostEdge AssertionsHold
PROPERTIES NoWaiterDropped ReadyWaiterWoken
