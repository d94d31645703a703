SPECIFICATION Spec
CONSTANTS
  Workers = {w1, w2}
  Keymgr = k
  None = none
  MaxConns = 2
  Threshold = 1
  MaxClients = 2
  MaxTrouble = 2
  Troubles = {"kill", "admin"}
INVARIANT LockIsRight
PROPERTIES WaitingServed StopsWhenHeard
CHECK_DEADLOCK FALSE
