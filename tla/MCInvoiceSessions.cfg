SPECIFICATION Spec
CONSTANTS
  Totals = {2}
  InitStatus = "SENT"
  Payers = {p1, p2}
  Senders = {}
  Voiders = {v1}
  Cashiers = {c1}
  MaxSessions = 1
  MaxLinks = 1
  StoreRounds = 2
SYMMETRY MCSymmetry
INVARIANTS
  StoredAtBalance
  StoredIsLive
  ChargesAccounted
