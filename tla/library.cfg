SPECIFICATION MCSpec
CONSTANTS
  Dyn = {d1, d2}
  Inp = {p}
  Value <- MCValue
  Addr = {a1, a2, a3}
  ITEM = 3
  BLOCK = 8
  GROWTH = 8
  IdxBits = 3
  FENCE = 1
  MaxItems <- MCMaxItems
  Amounts <- MCAmounts
  MayFail = TRUE
  PATH_MAX = 20
  Plain = 105
  Lengths <- MCLengths
  Width <- MCWidth
INVARIANTS
  TypeOK
  Sound
  RangeExact
  BitFunctions
  SizeFunctions
  MessagesFit
PROPERTY
  Implements
SYMMETRY Symmetry
