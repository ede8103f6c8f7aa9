SPECIFICATION Spec
CONSTANTS
  c1 = c1
  c2 = c2
  b1 = b1
  b2 = b2
  Conns <- MCConns
  Boards <- MCBoards
  QueueSize = 1
  SendSize = 1
  MaxBroadcasts = 2
SYMMETRY Symmetry
INVARIANTS
  TypeOK
  NeverPanics
  MembersAreAlive
  MembersMissNothing
CHECK_DEADLOCK FALSE
