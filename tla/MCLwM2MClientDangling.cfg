\* A bootstrap whose first acknowledgement is lost.
SPECIFICATION Spec
CONSTANTS
  BS = {0}
  LS = {1}
  MaxOutstanding <- Two
  Failures = {}
  MaxStray = 1
INVARIANT NoTransactionWithoutPeer
