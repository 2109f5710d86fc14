SPECIFICATION Spec
CONSTANTS
  m_baseSize = 2
  Junk = 0
  MaxBytes = 5
  MaxOps = 5
  Numbers <- MCNumbers
  Halves = {1, 4}
  Users = {u1, u2}
  Values = {0, 1, 2}
  Default = 0
  Types = {"int", "string"}
  MaxConfigCalls = 4
  Nobody = Nobody
  Producers = {p1}
  Appenders = {"a", "b"}
  Watched = "a"
  NoAppender = "none"
  Lengths = {1, 3}
  MaxEntries = 3
  MaxChanges = 2
CHECK_DEADLOCK FALSE
 
PROPERTIES LogImplementsFlat StoreEnds
