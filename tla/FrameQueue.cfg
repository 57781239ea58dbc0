CONSTANTS
  MaxSize = 3
  MaxFrames = 5
  MaxOpens = 2
  Kinds <- AllQueues
SPECIFICATION FairSpec
INVARIANTS NoSlotClash HeldAreFrames NoLostWakeup AudioNeverWaits IInv
PROPERTIES ImplementsChannel AbortJoins
CHECK_DEADLOCK FALSE
