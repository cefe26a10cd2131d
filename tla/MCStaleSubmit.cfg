CONSTANTS
  Jobs = {j1, j2}
  Workers = {w1}
  Keys = {NoKey}
  NoKey = NoKey
  Nobody = Nobody
  Requests = {r1}
  Verifiers = {}
  Admins = {}
  MaxAttempt = 1
  MaxLeases = 2
  MaxSubs = 1
  MaxFailures = 0
  MaxRedeliveries = 0
  MaxOverrides = 0
SPECIFICATION Spec
INVARIANTS OneActiveJob
CHECK_DEADLOCK FALSE
