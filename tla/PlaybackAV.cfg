CONSTANTS
  Layout <- Interleaved
  Capacity = 2
  QueueLimit = 2
  MinFrames = 1
  CodecDelay = 0
  Loop = 1
  AutoExit = FALSE
  SeekTargets = {0}
  SeekMayFail = FALSE
  FrameDrop = FALSE
  MaxSeeks = 1
  MaxToggles = 0
  MaxSteps = 0
SPECIFICATION Spec
INVARIANTS IInv StretchIsGeneration EofTruth BufferBounded
PROPERTY PresentsInOrder
CHECK_DEADLOCK FALSE
