SPECIFICATION Spec
CONSTANTS
  r1 = r1
  r2 = r2
  Requests <- MCRequests
  Grace = 1
  Lifetime = 2
  MaxTokens = 3
  MaxTime = 3
SYMMETRY Symmetry
INVARIANTS
  TypeOK
  DeadFamiliesStayDead
PROPERTIES
  RevokedOnce
  SessionsEndForAReason
CHECK_DEADLOCK FALSE
