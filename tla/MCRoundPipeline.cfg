SPECIFICATION Spec
CONSTANTS
  MaxSize = 3
  MaxRepairs = 2
  Rounds <- MCRounds
INVARIANTS TypeOK RunsBounded NobodySkipped DoneIsReported
