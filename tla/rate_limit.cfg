SPECIFICATION Spec
CONSTANTS
  Senders = {s1, s2}
  MinuteLimit = 2
  DailyLimit = 2
  Window = 4
  Day = 11
  MinDelay = 1
  MaxDelay = 2
  MinTyping = 1
  MaxTyping = 1
SYMMETRY PermitSymmetry
INVARIANT TypeOK
INVARIANT WindowBound
INVARIANT DayBound
PROPERTY OwnPause
