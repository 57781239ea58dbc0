CONSTANTS
  Layout <- AudioOnly
  Capacity = 2
  QueueLimit = 4
  MinFrames = 1
  CodecDelay = 0
  Loop = 1
  AutoExit = FALSE
  SeekTargets = {0}
  SeekMayFail = FALSE
  FrameDrop = FALSE
  MaxSeeks = 1
  MaxToggles = 1
  MaxSteps = 0
SPECIFICATION FairSpec
PROPERTY StepEnds
CHECK_DEADLOCK FALSE
