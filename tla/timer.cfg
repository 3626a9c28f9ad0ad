\* A clock of 32 ticks, a timer looked at for more than a whole round of it.
SPECIFICATION Spec
CONSTANTS
  Half = 16
  Timeouts = {0, 1, 5, 15}
  Horizon = 40
INVARIANTS
  TimerTypeOK
  NeverEarly
  ExpiredIsSeen
  RemainingIsTrue
  WaitsExactly
