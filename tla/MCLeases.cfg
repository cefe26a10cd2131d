CONSTANTS
  Jobs = {j1, j2}
  Workers = {w1, w2}
  Keys = {NoKey}
  NoKey = NoKey
  Nobody = Nobody
  Requests = {r1}
  Verifiers = {}
  Admins = {a1}
  MaxAttempt = 1
  MaxLeases = 3
  MaxSubs = 1
  MaxFailures = 1
  MaxRedeliveries = 0
  MaxOverrides = 1
SYMMETRY Symmetry
SPECIFICATION Spec
INVARIANTS TypeOK LeaseExclusive OneLiveClaim
CHECK_DEADLOCK FALSE
