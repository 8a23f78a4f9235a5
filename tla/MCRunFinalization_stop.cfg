SPECIFICATION Spec
CONSTANTS
  Handler = {h1, h2}
  Claim = {1, 2, 3, 4, 5, 6}
  NoClaim = NoClaim
  Turns = 1
  Possible = {"stop"}
  MaxHazards = 1
SYMMETRY HandlerSymmetry
INVARIANT StopEndsThread
CHECK_DEADLOCK FALSE
