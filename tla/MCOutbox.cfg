CONSTANTS
  w1 = w1
  w2 = w2
  payout = payout
  confirm = confirm
  NoWorker = NoWorker
  NumEvents = 2
  Workers = {w1, w2}
  Topics = {payout, confirm}
  TopicOf <- MCTopicOf
  Subscribed <- MCSubscribed
  Limit = 2
  MaxAttempts <- MCMaxAttempts
  MaxCrashes = 1
  MaxOverruns = 1
  MaxOverwrites = 2
  SteeredTopics = {payout}
SPECIFICATION MCSpec
INVARIANTS TypeOK SingleHolder SentMeansHandled
PROPERTIES SettledIsFinal Progress ImplementsLeaseQueue
CHECK_DEADLOCK FALSE
