\* The tcpip thread and, of lower priority, DHCP_thread.
SPECIFICATION Spec
CONSTANTS
  ETH_TXBUFNB = 2
  Senders = {1, 2}
  Pbufs = 2
  MaxFrames = 2
INVARIANT ReportsTrue
CHECK_DEADLOCK FALSE
