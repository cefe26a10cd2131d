CONSTANTS
  Runners = {r1}
  MaxDisputes = 1
  MaxTroubles = 2
SPECIFICATION FairSpec
PROPERTY Settles
CHECK_DEADLOCK FALSE
