SPECIFICATION FairSpec
CONSTANTS
  c1 = c1
  c2 = c2
  b1 = b1
  b2 = b2
  Conns <- MCOneConn
  Boards <- MCBoards
  QueueSize = 1
  SendSize = 1
  MaxBroadcasts = 3
PROPERTIES
  QueueDrains
  ReleasedConnectionsEnd
  SilentPeersAreReaped
  ImplementsRoom
CHECK_DEADLOCK FALSE
