\* Two concurrent requests, one without token, and one that cannot be serialized; short
\* timeouts.
SPECIFICATION Spec
CONSTANTS
  s1 = s1
  s2 = s2
  Mids = {1, 2, 3}
  Session = {s1, s2}
  PeerOf <- TwoPeers
  Tokenless = {3}
  Unserializable = {1}
  RESPONSE_TIMEOUT = 1
  MAX_RETRANSMIT = 2
  TRANSMIT_WAIT = 20
  MaxLag = 1
  StartBy = 1
  MaxTime = 14
  MaxUnauth = 1
  MaxAllocFail = 1
INVARIANTS AnsweredOnce SendsBounded BackoffRespected TimeoutEarned
PROPERTY ImplementsExchange
