CONSTANTS
  Runners = {r1}
  MaxDisputes = 2
  MaxTroubles = 0
SPECIFICATION Spec
PROPERTY RefundIsFinal
CHECK_DEADLOCK FALSE
