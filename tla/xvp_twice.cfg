SPECIFICATION Spec
CONSTANTS
  MaxPid = 6
  Arg <- OverArg
  ArgLen <- MCArgLen
  ArgFiles <- OnlyOver
  Cuts <- MCCuts
  Torn <- TornArg
  InitCount = 2
  InitUsed = 16
  ArgcMax = 6
  SizeArgs = 70
  Options <- OnlyPlain
  Codes = {0, 3}
  ExecErrors = {}
  Faults = {}
  Signals = {}
INVARIANTS
  AtMostOnce
