CONSTANTS
  FilePackets = 2
  MaxSwitches = 0
  MaxFrames = 1
SPECIFICATION FairSpec
PROPERTY EndAlwaysTold
CHECK_DEADLOCK FALSE
