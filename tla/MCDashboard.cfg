SPECIFICATION LiveSpec
CONSTANTS
  node = node
  own = own
  other = other
  link = link
  None = None
  Tokens = {link}
  Browsers = {own, other}
  LoginTtl = 0
  SessionTtl = 1
  Day = 0
  MaxNow = 1
  Self = own
  Nodes = {node}
  Leaving = {node}
  Ranges = {24, 720}
  Short = {24}
  MaxCached = 1
  MaxFaults = 1
  MaxAsked = 2
  MaxClicks = 2
INVARIANTS
  TypeOK
  OneSessionPerLink
  DetailMatchesSelection
  DeletedNotKept
PROPERTIES
  SignedOutForGood
  NewerSnapshotStays
  LoadingEnds
  DeletionReachesPage
CHECK_DEADLOCK FALSE
