SPECIFICATION FairSpec
CONSTANTS
  Letter <- MCLetter
  MaxLen = 4
  ReadSize = 5
  Files <- MCFiles
INVARIANTS
  TypeOK
  ExactArguments
  ExactPart
  InBufArg
PROPERTIES
  Implements
  ReadsAll
