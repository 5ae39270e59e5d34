SPECIFICATION FairSpec
CONSTANTS
  MaxPid = 6
  Arg <- OverArg
  ArgLen <- MCArgLen
  ArgFiles <- AllFiles
  Cuts <- LiveCuts
  Torn <- TornArg
  InitCount = 2
  InitUsed = 16
  ArgcMax = 6
  SizeArgs = 70
  Options <- NoUnlink
  Codes = {0, 3}
  ExecErrors = {2}
  Faults = {}
  Signals = {"stop"}
INVARIANTS
  WithinLimit
  Serial
  ExactUnlessLost
  SuccessDelivers
PROPERTIES
  Terminates
  EverythingRuns
