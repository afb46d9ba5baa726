SPECIFICATION Spec
CONSTANTS
  x = x
  y = y
  a = a
  b = b
  c = c
  ka = ka
  kb = kb
  kc = kc
  None = None
  Hosts = {x, y}
  Deployers = {x}
  Nodes = {a, b, c}
  Secrets = {ka, kb, kc}
  FirstKeys <- MCFirstKeys
  FirstTargets <- MCFirstTargets
  MaxCommands = 2
  MaxFaults = 0
PROPERTIES
  NeverOverwritten
CHECK_DEADLOCK FALSE
