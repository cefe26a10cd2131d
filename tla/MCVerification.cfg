CONSTANTS
  Jobs = {j1}
  Workers = {w1}
  Keys = {NoKey}
  NoKey = NoKey
  Nobody = Nobody
  Requests = {r1}
  Verifiers = {v1, v2}
  Admins = {a1}
  MaxAttempt = 2
  MaxLeases = 1
  MaxSubs = 1
  MaxFailures = 0
  MaxRedeliveries = 1
  MaxOverrides = 1
SYMMETRY Symmetry
SPECIFICATION Spec
INVARIANTS PayoutNeedsPass VerifyingIsAwaited
CHECK_DEADLOCK FALSE
