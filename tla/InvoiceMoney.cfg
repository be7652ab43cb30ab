SPECIFICATION FairSpec
CONSTANTS
  Totals = {0, 1, 2}
  InitStatus = "DRAFT"
  Payers = {}
  Senders = {x1}
  Voiders = {v1}
  Cashiers = {c1}
  MaxSessions = 1
  MaxLinks = 2
  StoreRounds = 1
INVARIANTS
  SettledExactly
  RecordedOnce
PROPERTIES
  ImplementsLedger
  ChargesAnswered
