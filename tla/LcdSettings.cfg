CONSTANTS
  TicksOn = 1
  TicksOff = 1
  SizeofPassword = 2
  MaxDigit = 1
  DefaultPassword <- Ones
  MinTime = 1
  MaxTime = 2
  Opened <- SettingsAndPasswords
SPECIFICATION Spec
INVARIANTS TypeOK AcceptsWhatIsShown NoneHalfway CursorOnDigits
PROPERTY SavesWhatWasTyped
