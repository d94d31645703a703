CONSTANTS
  TicksOn = 1
  TicksOff = 1
  SizeofPassword = 1
  MaxDigit = 2
  DefaultPassword <- Ones
  MinTime = 1
  MaxTime = 1
  Opened <- Session
SPECIFICATION FairSpec
PROPERTY MainReturns
