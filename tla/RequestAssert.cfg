CONSTANTS
  Setups <- OnceOrTwice
  MaxTasks = 2
SPECIFICATION Spec
INVARIANT RequestsAreServed
CHECK_DEADLOCK FALSE
