CONSTANTS
  func = func
  file = file
  empty = empty
  None = None
  Call <- MCCall
  Chunks <- MCChunks
  IsStream <- MCStreams
  Garbage <- MCGarbage
SPECIFICATION Spec
INVARIANTS OwnData WholeOrError KeepsItsPlace
PROPERTIES AnsweredUnlessRaised
