SPECIFICATION Spec
CONSTANTS
  Handler = {h1, h2}
  Possible = {"timeout"}
  MaxHazards = 1
PROPERTY CancelReachesRun
