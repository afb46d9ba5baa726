SPECIFICATION LiveSpec
CONSTANTS
  alice = alice
  bob = bob
  bindA = bindA
  bindB = bindB
  panel = panel
  None = None
  Users = {alice, bob}
  Updates = {bindA, bindB, panel}
  Message <- MCMessage
  Invocations = {i1, i2}
  Day = 1
  MaxNow = 3
  MaxFaults = 1
INVARIANTS
  TypeOK
  OnlyOwnerServed
  AnsweredOnce
PROPERTIES
  CommandAnswered
CHECK_DEADLOCK FALSE
