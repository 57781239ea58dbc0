CONSTANTS
  Layout <- TwoPictures
  Capacity = 2
  QueueLimit = 4
  MinFrames = 1
  CodecDelay = 1
  Loop = 2
  AutoExit = FALSE
  SeekTargets = {2}
  SeekMayFail = TRUE
  FrameDrop = TRUE
  MaxSeeks = 1
  MaxToggles = 1
  MaxSteps = 0
SPECIFICATION Spec
INVARIANT EofTruth
PROPERTY ImplementsLines
CHECK_DEADLOCK FALSE
