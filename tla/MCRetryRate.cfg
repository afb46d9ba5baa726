SPECIFICATION HistorySpec
CONSTANTS
  a = a
  b = b
  svc = svc
  link = link
  plain = plain
  v1 = v1
  v2 = v2
  up = up
  down = down
  scope = scope
  key = key
  n1 = n1
  n2 = n2
  n3 = n3
  n4 = n4
  n5 = n5
  h1 = h1
  None = None
  Nodes = {a, b}
  Services = {svc}
  Probes = {link, plain}
  Values = {v1, v2, up, down}
  Scopes = {scope}
  Sources <- MCSources
  Secrets = {key}
  Nonces = {n1, n2, n3, n4, n5}
  Requests <- MCRetryRequests
  Inventories <- MCInventories
  Handlers = {h1}
  MaxAge = 1
  Day = 4
  RateWindow = 3
  NonceLimit = 2
  MaxNow = 3
  MaxSafe = 8
  MaxAccepted = 4

INVARIANTS
  BlankRateHasCause
CHECK_DEADLOCK FALSE
