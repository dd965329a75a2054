\* One bootstrap server, two LwM2M servers, two requests for the first of them, failing
\* mallocs, fairness.
SPECIFICATION FairSpec
CONSTANTS
  BS = {0}
  LS = {1, 2}
  MaxOutstanding <- OneOrTwo
  Failures = {"nonew", "nosend"}
  MaxStray = 1
INVARIANTS PendingHasRequest RegisteredHasSession ServersCurrent
PROPERTIES
  FallsBackWhenAllFailed RegistersAfresh BootstrapFinished
  RegisteringEnds FailureNoticed BootstrapRequestSettles
