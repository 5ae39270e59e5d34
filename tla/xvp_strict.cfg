SPECIFICATION Spec
CONSTANTS
  MaxPid = 4
  Arg <- FitArg
  ArgLen <- MCArgLen
  ArgFiles <- OnlyFit
  Cuts <- MCCuts
  Torn = {}
  InitCount = 2
  InitUsed = 16
  ArgcMax = 6
  SizeArgs = 70
  Options <- OnlyStrict
  Codes = {0, 3}
  ExecErrors = {}
  Faults = {}
  Signals = {}
PROPERTIES
  StrictAlwaysStops
