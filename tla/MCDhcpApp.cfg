\* The constants of app_ethernet.c and lwIP, three offers or renewals.
SPECIFICATION FairSpec
CONSTANTS
  MAX_DHCP_TRIES = 4
  RETRIES = 5
  TriesCap = 7
  MaxOffers = 3
INVARIANTS FallbackHolds
PROPERTIES StartsWithLease WaitEnds
