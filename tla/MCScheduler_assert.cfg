SPECIFICATION Spec
CONSTANTS
  w1 = w1
  w2 = w2
  None = None
  ANY = ANY
  Workers = {w1, w2}
  Root = None
  Fibers = {f1}
  Pins = {ANY}
  Acts = {"hold"}
  MaxYields = 2
INVARIANTS AddEventAssertion
CHECK_DEADLOCK FALSE
