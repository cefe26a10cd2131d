CONSTANTS
  Jobs = {j1}
  Workers = {w1}
  Keys = {k}
  NoKey = NoKey
  Nobody = Nobody
  Requests = {r1, r2}
  Verifiers = {v1}
  Admins = {}
  MaxAttempt = 1
  MaxLeases = 1
  MaxSubs = 2
  MaxFailures = 1
  MaxRedeliveries = 0
  MaxOverrides = 0
SPECIFICATION FairSpec
INVARIANTS OneSubmissionPerKey
PROPERTIES AcceptedIsPaid
CHECK_DEADLOCK FALSE
