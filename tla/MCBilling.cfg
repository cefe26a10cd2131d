CONSTANTS
  b1 = b1
  b2 = b2
  Bounties = {b1, b2}
  Requests = {r1, r2}
  Jobs <- MCJobs
  Payout = 199
  Rate <- MCRate
  Quotas <- MCQuotas
  StripeTopup = 500
  AdminTopup = 600
  MaxTurns = 1
  MaxTopups = 1
  MaxTwins = 1
  MaxRefunds = 1
  Checkers = {c1}
  Orgs = {o1}
  Browsers = {w1, w2}
  CacheTtl = 1
  MaxChanges = 1
  MaxClock = 2
SPECIFICATION OrganisationSpec
INVARIANTS TypeOK Conserved BalanceIsLedger NoOverdraft PublishedIsFunded
PROPERTIES SpendWithinLimit RevokedIsFinal AnswersAreFresh
SYMMETRY MCSymmetry
CHECK_DEADLOCK FALSE
