CONSTANTS
  Files <- AllFiles
  Buffer = 4
  Silence = 2
  MinSleep = 2
  MaxSleep = 5
  TsJumped = 5
  MaxTime = 16
  MaxToggles = 2
SPECIFICATION Spec
INVARIANTS SamplesInOrder DatedByFirst ClockIsWritten
PROPERTY NotAhead
CHECK_DEADLOCK FALSE
