SPECIFICATION DeletionSpec
CONSTANTS
  a = a
  b = b
  c = c
  link = link
  plain = plain
  v = v
  key = key
  k1 = k1
  k2 = k2
  k3 = k3
  h1 = h1
  h2 = h2
  None = None
  Nodes = {a, b, c}
  Services = {}
  Probes = {link, plain}
  Values = {v}
  Scopes = {}
  Sources = {}
  Secrets = {key}
  Nonces = {k1, k2, k3}
  Requests <- MCReuseRequests
  Inventories <- MCReuseInventories
  Handlers = {h1}
  MaxAge = 1
  Day = 2
  RateWindow = 1
  NonceLimit = 1
  MaxNow = 1
  MaxSafe = 4

PROPERTIES
  PeersKeepTheRest
CHECK_DEADLOCK FALSE
