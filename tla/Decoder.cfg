CONSTANTS
  MaxPackets = 4
  MaxSerial = 4
  CodecDelay = 1
SPECIFICATION FairSpec
INVARIANTS QueueOneSerial Accounting CodecOneSerial NoLostWakeup IInv
PROPERTIES ImplementsLine ReturnedInOrder AbortEndsThread QueueDrains
CHECK_DEADLOCK FALSE
