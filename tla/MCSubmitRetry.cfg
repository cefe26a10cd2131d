CONSTANTS
  Jobs = {j1}
  Workers = {w1}
  Keys = {k}
  NoKey = NoKey
  Nobody = Nobody
  Requests = {r1, r2}
  Verifiers = {v1}
  Admins = {}
  MaxAttempt = 1
  MaxLeases = 1
  MaxSubs = 1
  MaxFailures = 1
  MaxRedeliveries = 0
  MaxOverrides = 0
SPECIFICATION Spec
PROPERTIES RetryIsSafe
CHECK_DEADLOCK FALSE
