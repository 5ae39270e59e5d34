SPECIFICATION Spec
CONSTANTS
  Object <- MCObject
  Type <- MCType
  Target <- MCTarget
  Heir <- MCHeir
  Stdin <- ClosedStdin
  WorldPlaces = {}
INVARIANTS
  ReadsArgFile
