SPECIFICATION Spec
CONSTANTS
  a = a
  b = b
  ra = ra
  wa = wa
  wb = wb
  None = None
  Threads = {t1, t2}
  Fds = {a}
  Tasks = {ra, wa}
  Use <- UseDuplex
  Calls <- NoCalls
INVARIANTS TriggerAssertion
