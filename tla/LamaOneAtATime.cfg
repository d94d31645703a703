SPECIFICATION Spec
CONSTANTS
  Conn = {c1, c2, c3}
  MaxOpen = 1
  HangUp = FALSE
  Polite = {}
  MaxProcs = 2
  MaxStarts = 2
  Day = {1, 2, 3}
  Today = 3
  Request <- AllRequests
  Cdr <- MCCdr
  Billable <- MCBillable
  FirstSeq = 8
  MaxSeq = 9
  CallWidth <- MCCallWidth
  RowWidth <- MCRowWidth
  HdrText = 0
  FinText = 1
  OddWidths = {1}
  Buffer = 2
  Gets = 2
  r1 = r1
  r2 = r2
  r3 = r3
  r4 = r4
  r5 = r5
  c1 = c1
  c2 = c2
  c3 = c3
SYMMETRY MCSymmetry
INVARIANTS
  TypeOK
  ReplyExact
PROPERTIES
  SequenceSpec
CHECK_DEADLOCK FALSE
