SPECIFICATION Spec
CONSTANTS
  Object <- MCObject
  Type <- MCType
  Target <- MCTarget
  Heir <- MCHeir
  Stdin <- OpenStdin
  WorldPlaces <- Everywhere
INVARIANTS
  TypeOK
  Isolated
  RemovesOnlyArgFile
  KeepsStdin
  Removes
