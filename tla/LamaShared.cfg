SPECIFICATION Spec
CONSTANTS
  Conn = {c1, c2}
  MaxOpen = 2
  HangUp = FALSE
  Polite = {}
  MaxProcs = 3
  MaxStarts = 1
  Day = {1, 2, 3}
  Today = 3
  Request <- TwoRequests
  Cdr <- MCCdr
  Billable <- MCBillable
  FirstSeq = 8
  MaxSeq = 99
  CallWidth <- MCCallWidth
  RowWidth <- MCRowWidth
  HdrText = 0
  FinText = 1
  OddWidths = {1}
  Buffer = 3
  Gets = 2
  r1 = r1
  r2 = r2
  r3 = r3
  r4 = r4
  r5 = r5
  c1 = c1
  c2 = c2
SYMMETRY MCSymmetry
INVARIANTS
  SeqFileWhole
  
CHECK_DEADLOCK FALSE
