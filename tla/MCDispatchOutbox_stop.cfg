SPECIFICATION Spec
CONSTANTS
  Handler = {h1, h2}
  Command = {1, 2}
  Claim = {1, 2, 3, 4}
  Turns = 1
  MaxCrashes = 0
  MaxSlow = 0
  MaxStops = 1
  NoCommand = NoCommand
  NoClaim = NoClaim
SYMMETRY HandlerSymmetry
INVARIANT StoppedNeverDelivered
CHECK_DEADLOCK FALSE
