SPECIFICATION Spec
CONSTANTS
  Lines <- MCLines
  Operands = {0, 1, 2, 4}
  Envs <- MCEnvs
  Paths = {8, 2048}
  Stacks <- MCStacks
  InitUseds = {0, 8, 24, 200000}
  Page = 4096
  SizeMax = 1073741824
  LegacyMax = 131072
  KernelCap = 6291456
INVARIANTS
  TypeOK
  ParsesExact
  LimitsFit
