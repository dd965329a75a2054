\* A lease runs out while no server answers.
SPECIFICATION Spec
CONSTANTS
  MAX_DHCP_TRIES = 4
  RETRIES = 5
  TriesCap = 7
  MaxOffers = 2
INVARIANT NoExpiredAddress
