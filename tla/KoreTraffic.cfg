SPECIFICATION TrafficSpec
CONSTANTS
  None = none
  Conns = {c1, c2}
  Reqs = {r1, r2}
  Kinds = {"post_long", "too_long", "upgrade"}
  MaxAsked = 2
  Workers = {w1, w2}
  Keymgr = k
  MaxRenewals = 1
  MaxDeaths = 1
  MaxSigned = 2
INVARIANTS RequestsAreRight MessagesAreRight
PROPERTIES RequestsEnd CertificatesArrive
CHECK_DEADLOCK FALSE
