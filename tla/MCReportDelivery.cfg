SPECIFICATION LiveDeliverySpec
CONSTANTS
  a = a
  v = v
  key = key
  h1 = h1
  h2 = h2
  None = None
  Nodes = {a}
  Services = {}
  Probes = {}
  Values = {v}
  Scopes = {}
  Sources = {}
  Secrets = {key}
  Nonces = {1, 2, 3, 4, 5}
  Requests <- MCRequests
  Inventories <- MCInventories
  Handlers = {h1, h2}
  MaxAge = 1
  Day = 1
  RateWindow = 1
  NonceLimit = 2
  MaxNow = 3
  MaxSafe = 5
  Self = a
  Secret = key
  Collected <- MCCollected
  MaxSends = 5

INVARIANTS
  NewestSurvives
  RetryIsNoReplay
PROPERTIES
  RecoversFromTrouble
CHECK_DEADLOCK FALSE
