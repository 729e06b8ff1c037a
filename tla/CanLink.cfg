SPECIFICATION FairSpec
CONSTANTS
  Devices = {0, 1}
  Drivers = {"ctrl", "zlg", "udp", "socket"}
  Channels = {1, 2}
  QueueMax = 2
  SendMax = 1
  RecvMax = 1
  FrameMax = 1
  NoData = {}
  Node <- TwoNodes
  Pgn <- Mixed
  MaxOffered = 3
  MaxArrived = 2
  MaxFaults = 2
  FewFaults = 1
  MaxClicks = 2
  UdpSendMax = 2
  OfferedTo <- TwoForCtrl
INVARIANTS
  TypeOK
  ButtonMatchesDriver
  
  HandedOnce
  DispatchedInOrder

  
CHECK_DEADLOCK FALSE
