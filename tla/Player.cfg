CONSTANTS
  Setups <- OnceOrTwice
  MaxTasks = 2
SPECIFICATION FairSpec
INVARIANTS IInv ToldOfOutcome
PROPERTIES ImplementsSession TasksInOrder TasksRun StopReturns
CHECK_DEADLOCK FALSE
