SPECIFICATION WaitingSpec
CONSTANTS
  c1 = c1
  c2 = c2
  c3 = c3
  None = None
  Client = {c1, c2, c3}
  seconds <- MCSeconds
  Says = {c1, c2}
  QueueLimit = 2
  Coros = {r1, f1, f2}
  Requests = {r1}
  Procs = {p1, p2}
  Timers = {t1, t2}
INVARIANTS TypeOK OwnOrAbandoned
PROPERTIES ClientsEnd CoroutinesGoOn ProcessesEnd TimersRun
CHECK_DEADLOCK FALSE
