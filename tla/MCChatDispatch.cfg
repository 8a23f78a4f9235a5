SPECIFICATION Spec
CONSTANTS
  Handler = {h1, h2}
  Nobody = Nobody
  Possible = {"fails", "unheard", "unbound", "mute", "unsaved", "again", "lost", "slow", "crash"}
  MaxHazards = 4
CHECK_DEADLOCK FALSE
INVARIANTS TypeOK OneRun CompletedWasRun
PROPERTIES CompletedIsFinal Dispatched
