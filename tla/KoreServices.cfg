SPECIFICATION ServicesSpec
CONSTANTS
  None = none
  u1 = u1
  u2 = u2
  u3 = u3
  d1 = d1
  d2 = d2
  Users = {u1, u2, u3}
  Dbs = {d1, d2}
  DbOf <- MCDbOf
  Conns = {c1, c2}
  ConnMax = 1
  QueueLimit = 2
  MaxTrouble = 1
  Answers <- MCAnswers
  OneThreadTasks = {t1, t2}
  TwoThreadTasks = {t1, t2}
  Clients = {c1, c2}
  Refs = {r1, r2, r3, r4, r5}
  Paths = {p, q}
  Canonical = p
INVARIANTS ConnectionsAreRight
PROPERTIES
  QueriesEnd TasksEnd FilesAreShared
CHECK_DEADLOCK FALSE
