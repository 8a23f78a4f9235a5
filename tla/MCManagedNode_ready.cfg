SPECIFICATION Spec
CONSTANTS
  MaxGeneration = 2
  MaxAttempts = 3
  Possible = {}
  MaxHazards = 0
CHECK_DEADLOCK FALSE
INVARIANT ReadyIsCurrent
