CONSTANTS
  c1 = c1
  c2 = c2
  Clients <- MCClients
  TcpClients <- MCTcpClients
  MaxBytes <- MCMaxBytes
SPECIFICATION FairSpec
CHECK_DEADLOCK FALSE
INVARIANTS
  MemoryInv
  EchoIsPrefix
PROPERTIES
  ClosedInTheEnd
  EchoedInTheEnd
