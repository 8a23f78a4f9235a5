SPECIFICATION FairSpec
CONSTANTS
  Handler = {h1, h2}
  Command = {1, 2, 3}
  Claim = {1, 2, 3, 4, 5, 6}
  Turns = 2
  MaxCrashes = 1
  MaxSlow = 1
  MaxStops = 1
  NoCommand = NoCommand
  NoClaim = NoClaim
INVARIANTS TypeOK RecordedBeforeDelivery OneRunInFlight FencedNeverDelivered
PROPERTY RequestTerminates
CHECK_DEADLOCK FALSE
