SPECIFICATION FairSpec
CONSTANTS
  Shared = {r1}
  Source = {r2}
  Workers = {w1, w2}
  NoToken = NoToken
INVARIANTS
  OneProviderCall
  FailedWasNotCalled
  CardAgrees
PROPERTIES
  ImplementsRunOutcome
  EventuallyEnds
