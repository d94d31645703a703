SPECIFICATION FairSpec
CONSTANTS
  Conn = {c1, c2}
  MaxOpen = 2
  HangUp = TRUE
  Polite = {c1}
  MaxProcs = 1
  MaxStarts = 2
  Day = {1, 2, 3}
  Today = 3
  Request <- OneRequest
  Cdr <- MCCdr
  Billable <- MCBillable
  FirstSeq = 8
  MaxSeq = 9
  CallWidth <- MCCallWidth
  RowWidth <- MCRowWidth
  HdrText = 0
  FinText = 1
  OddWidths = {1}
  Buffer = 2
  Gets = 2
  r1 = r1
  r2 = r2
  r3 = r3
  r4 = r4
  r5 = r5
  c1 = c1
  c2 = c2
PROPERTIES
  Served
CHECK_DEADLOCK FALSE
