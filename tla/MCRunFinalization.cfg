SPECIFICATION Spec
CONSTANTS
  Handler = {h1, h2}
  Claim = {1, 2, 3, 4, 5, 6}
  NoClaim = NoClaim
  Turns = 2
  Possible = {"retry", "note", "timeout", "stop", "crash", "slow"}
  MaxHazards = 2
INVARIANTS TypeOK AppliedOnce LoggedFirst LoggedOnce 
PROPERTIES TerminalIsFinal RoundEnds
CHECK_DEADLOCK FALSE
