SPECIFICATION Spec
CONSTANTS
  MaxEvents = 3
  Possible = {"drop", "down", "error", "rollback", "leave"}
  MaxHazards = 1
CHECK_DEADLOCK FALSE
INVARIANTS TypeOK InOrder NoGap
PROPERTIES TranscriptCompletes StatusConverges
