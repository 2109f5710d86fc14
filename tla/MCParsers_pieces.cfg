SPECIFICATION Spec
CONSTANTS
  MaxReads = 2
  MaxRespReads = 2
CHECK_DEADLOCK FALSE
INVARIANTS RequestTokens CutEffects   DoneIsFinished UriPieces PartsSaved
PROPERTIES EmptyLineEnds ImplementsProtocol
