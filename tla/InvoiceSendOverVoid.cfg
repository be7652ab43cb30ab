SPECIFICATION Spec
CONSTANTS
  Totals = {2}
  InitStatus = "DRAFT"
  Payers = {}
  Senders = {x1}
  Voiders = {v1}
  Cashiers = {}
  MaxSessions = 1
  MaxLinks = 1
  StoreRounds = 2
INVARIANT VoidHasNoSession
