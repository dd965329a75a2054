\* One request with the constants of er-coap-13.h, to the end of its life.
SPECIFICATION FairSpec
CONSTANTS
  s1 = s1
  s2 = s2
  Mids = {1}
  Session = {s1}
  PeerOf <- OnePeer
  Tokenless = {}
  Unserializable = {}
  RESPONSE_TIMEOUT = 2
  MAX_RETRANSMIT = 4
  TRANSMIT_WAIT = 93
  MaxLag = 2
  StartBy = 0
  MaxTime = 100
  MaxUnauth = 1
  MaxAllocFail = 1
INVARIANT OverInTime
PROPERTY ImplementsFairExchange
