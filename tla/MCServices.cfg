CONSTANTS
  MaxAttempts = 2
  MaxCompletes = 2
  MaxPuts = 2
  MaxOrders = 1
  MaxFailures = 1
  MaxHappenings = 4
  Transfers = {t1, t2, t3}
  Nodes = {n1, n2}
  MaxNonce = 2
  NoTransfer = NoTransfer
  old = old
  new1 = new1
  new2 = new2
  Services = {old, new1, new2}
  Files <- MCFiles
  MaxStarts = 2
  Callers = {c1, c2}
  PerMinute = 2
  Minute = 2
  Skew = 2
  MaxTicks = 4
  MaxAdmitted = 5
  Ingesters = {i1, i2}
  Parts = 2
  LastHour = 2
  Pids = {p1, p2, p3, p4, p5}
  Stops = {k1, k2}
  NoPid = NoPid
  MaxCommands = 4
  MaxExits = 2
  NumJobs = 4
  Window = 2
  MaxExclude = 2
  MaxRefusals = 3
  RefusalTurns = 2
  ClaimTurns = 1
  FailingTurns = 2
  MaxTakes = 1
  MaxTroubles = 1
SPECIFICATION ServicesSpec
INVARIANTS ServicesTypeOK ServedIsGood QuarantineHolds  OnlyChildRuns WorkerIsNotLost RecordedKeepsNonce MigratedOnceInOrder RateIsLimited BackfillHasNoGap
PROPERTIES  ExpiredIsDeleted SuitableIsTaken
CHECK_DEADLOCK FALSE
