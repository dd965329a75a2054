\* Two servers and two resources with values around the threshold, two watchers.
SPECIFICATION Spec
CONSTANTS
  Servers = {s1, s2}
  Nobody = Nobody
  Uris = {u1, u2}
  Values = {0, 2}
  Flags = {"min", "max", "less"}
  Attributes <- MCAttributes
  Clears = {"min"}
  minPeriod = 1
  maxPeriod = 2
  lessThan = 1
  Sleep = 3
  LWM2M_MAX_ID = 2
  MaxWatchers = 2
INVARIANTS ListsSound ToldInTime MaxPeriodKept
PROPERTY OthersKept
SYMMETRY Symmetric
CHECK_DEADLOCK FALSE
