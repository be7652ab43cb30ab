CONSTANTS
  Aggregates = {g1}
  MaxSequence = 2
  Workers = {w1, w2}
  Admins = {d1}
  Tokens = {t1, t2}
  NoToken = NoToken
  SubscriberCount = 1
  MaxAttempts = 2
  MaxReplays = 1
  BatchSize = 2
  Stalls = FALSE
SPECIFICATION FairSpec
INVARIANTS
  ExclusiveDelivery
PROPERTIES
  EventuallySettled
