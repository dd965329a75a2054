\* Three servers, four connections, over UDP and over DTLS.
SPECIFICATION Spec
CONSTANTS
  Servers = {a, b, c}
  Handles = {h1, h2, h3, h4}
  Null = Null
INVARIANTS ListIsLive  LoopReadsLive
SYMMETRY Symmetric
CHECK_DEADLOCK FALSE
