SPECIFICATION Spec
CONSTANTS
  ClientQueue = 2
  ServerQueue = 3
  TcpQueueSize <- QueueSizes
  TcpRecvBufMaxSize = 4
  SockSize = 4
  MaxNum = 6
INVARIANTS TypeOK NeverBlocked
