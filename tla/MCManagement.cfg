SPECIFICATION LiveSpec
CONSTANTS
  x = x
  y = y
  a = a
  b = b
  c = c
  ka = ka
  kb = kb
  kc = kc
  None = None
  Hosts = {x, y}
  Deployers = {x}
  Nodes = {a, b}
  Secrets = {ka, kb, kc}
  FirstKeys <- MCFirstKeys
  FirstTargets <- MCFirstTargets
  MaxCommands = 2
  MaxFaults = 1
INVARIANTS
  TypeOK
  DoneMeansGone
  CutLinksAreDeployed
PROPERTIES
  DeletionEnds
  ComparedNotOverwritten
CHECK_DEADLOCK FALSE
