SPECIFICATION Spec
CONSTANTS
  MaxGeneration = 3
  MaxAttempts = 9
  Possible = {"crash", "lost", "busy", "nospawn", "exit", "hang"}
  MaxHazards = 1
CHECK_DEADLOCK FALSE
INVARIANTS TypeOK OneProcess StoppedIsStopped
PROPERTY Converges
