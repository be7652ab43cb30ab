SPECIFICATION FairSpec
CONSTANTS
  Local = {k1}
  External = {k2}
  Inputs = {i1, i2}
  Callers = {c1, c2}
  People = {p1, p2}
  OAuth = {p2}
INVARIANTS
  ExecutedOnce
  ReceiptTrue
  OwnAction
PROPERTIES
  ClaimedSettles
CHECK_DEADLOCK FALSE
