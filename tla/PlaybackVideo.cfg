CONSTANTS
  Layout <- TwoPictures
  Capacity = 2
  QueueLimit = 1
  MinFrames = 1
  CodecDelay = 0
  Loop = 2
  AutoExit = TRUE
  SeekTargets = {1}
  SeekMayFail = TRUE
  FrameDrop = FALSE
  MaxSeeks = 1
  MaxToggles = 1
  MaxSteps = 0
SPECIFICATION FairSpec
PROPERTIES PlayReachesEnd StopTerminates SeekServed
CHECK_DEADLOCK FALSE
