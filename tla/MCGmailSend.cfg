SPECIFICATION Spec
CONSTANTS
  Keys = {k1, k2}
  Bodies = {b1, b2}
  Envelopes = {e1, e2}
  Senders = {s1, s2}
  Clerks = {c1, c2}
  NoBody = NoBody
SYMMETRY MCSymmetry
INVARIANTS
  DeliveredOnce
  ReceiptTrue
  OneHubMessage
  SentWasApproved
