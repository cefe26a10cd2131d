CONSTANTS
  Runners = {r1, r2}
  MaxDisputes = 2
  MaxTroubles = 2
SPECIFICATION Spec
SYMMETRY Symmetry
INVARIANTS TypeOK DisputeFreezes PaidOrRefunded PaidOnce
CHECK_DEADLOCK FALSE
