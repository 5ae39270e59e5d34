SPECIFICATION Spec
CONSTANTS
  WORD = 4
  BLOCK = 16
  Lens <- MCLens
  InitMax = 2
  ArgcMax = 5
  SizeArgs = 80
  MayFail = TRUE
INVARIANTS
  TypeOK
  Layout
  InBlock
  ListExact
