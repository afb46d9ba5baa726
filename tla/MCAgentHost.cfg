SPECIFICATION Spec
CONSTANTS
  v1 = v1
  v2 = v2
  eth = eth
  Versions = {v1, v2}
  None = None
  Installed <- MCInstalled
  Policy <- MCPolicy
  Interfaces = {eth}
  Keep = 1
  MaxNow = 3
  MaxBytes = 1
  MaxRuns = 2
  MaxFaults = 2

INVARIANTS
  TypeOK
  DeploymentRecoverable
  TotalsAreTrue
  TotalsOnlyGrow
CHECK_DEADLOCK FALSE
