CONSTANTS
  w1 = w1
  w2 = w2
  payout = payout
  confirm = confirm
  NoWorker = NoWorker
  NumEvents = 2
  Workers = {w1, w2}
  Topics = {payout, confirm}
  TopicOf <- MCTopicOf
  Subscribed <- MCSubscribed
  Limit = 1
  MaxAttempts <- MCMaxAttempts
  MaxCrashes = 3
  MaxOverruns = 0
  MaxOverwrites = 0
  SteeredTopics = {payout}
SPECIFICATION MCSpec
PROPERTY OverLimitEntersDeadletter
CHECK_DEADLOCK FALSE
