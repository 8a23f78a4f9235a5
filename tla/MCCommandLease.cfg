SPECIFICATION Spec
CONSTANTS
  Handler = {h1, h2}
  Possible = {"lost", "retry", "late", "slow", "restart", "die", "stop", "timeout"}
  MaxHazards = 2
INVARIANTS TypeOK CancelOutlivesRun OutcomeKept
PROPERTIES EndedNotRestarted Delivered StopEndsRun
