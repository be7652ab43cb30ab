CONSTANTS
  Aggregates = {g1}
  MaxSequence = 2
  Workers = {w1, w2}
  Admins = {d1}
  Tokens = {t1, t2, t3}
  NoToken = NoToken
  SubscriberCount = 2
  MaxAttempts = 2
  MaxReplays = 1
  BatchSize = 2
  Stalls = TRUE
SPECIFICATION Spec
SYMMETRY MCSymmetry
INVARIANTS
  AggregateOrder
  ClaimBudget
  PublishedWasHandled
PROPERTIES
  SettledIsFinal
