CONSTANTS
  TicksOn = 1
  TicksOff = 1
  SizeofPassword = 1
  MaxDigit = 1
  DefaultPassword <- Ones
  MinTime = 1
  MaxTime = 1
  Opened <- Widgets
SPECIFICATION FairSpec
PROPERTY ComesToRest
 
