CONSTANTS
  FilePackets = 2
  MaxSwitches = 1
  MaxFrames = 1
SPECIFICATION FairSpec
INVARIANT FinishedIsOwn
PROPERTIES SwitchReturns EndIsTold
CHECK_DEADLOCK FALSE
