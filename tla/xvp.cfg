SPECIFICATION Spec
CONSTANTS
  MaxPid = 4
  Arg <- FitArg
  ArgLen <- MCArgLen
  ArgFiles <- FitFiles
  Cuts <- MCCuts
  Torn = {}
  InitCount = 2
  InitUsed = 16
  ArgcMax = 6
  SizeArgs = 70
  Options <- EveryOption
  Codes = {0, 3}
  ExecErrors = {2}
  Faults = {"alloc", "open", "append", "fork", "read"}
  Signals = {"kill", "stop"}
INVARIANTS
  TypeOK
  WholeInv
  Conservation
  AtMostOnce
  Unlinked
  SuccessIsExact
  ForceSingle
PROPERTIES
  StrictStops
  Implements
