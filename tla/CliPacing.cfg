\* A tick is 40 ms: a gap of 3 ticks and a pace of 2 are the 120 ms and 80 ms of
\* the code; the 250 ms before a shell is written to are cut to 4 ticks. The minute
\* and its quota are scaled down so that a run sees several windows.
SPECIFICATION ThrottleSpec
CONSTANTS
  MinGap = 3
  Minute = 10
  MaxPerMinute = 2
  Pace = 2
  Settle = 4
  Jitter = 1
  SeqLengths = {2}
  Horizon = 21
CHECK_DEADLOCK FALSE
INVARIANTS
  ThrottleTypeOK
  SpacedCommands
  NeverFasterThanPace
  TwoWindowsPerMinute
