\* A lifetime above TRANSMIT_WAIT, and an exchange that fits into it.
SPECIFICATION FairSpec
CONSTANTS
  r1 = r1
  r2 = r2
  r3 = r3
  lifetime = 12
  TRANSMIT_WAIT = 9
  OpenFor = 4
  Delay = 2
  Lag = 2
  Requests = {r1, r2, r3}
  MaxCommands = 2
INVARIANTS RegisteredIsKnown PendingIsKnown
PROPERTY DroppedIsNoticed
CHECK_DEADLOCK FALSE
