\* Three receive and two transmit descriptors, one sender; three frames each way.
SPECIFICATION FairStackSpec
CONSTANTS
  ETH_RXBUFNB = 3
  ETH_TXBUFNB = 2
  Senders = {2}
  Pbufs = 1
  MaxFrames = 3
  MaxSent = 3
  MaxAllocFail = 1
INVARIANTS NoLostWakeup NeverBusy WholeFrame WireInOrder
PROPERTIES InOrder FramesMove GoesOut ImplementsReceive
CHECK_DEADLOCK FALSE
