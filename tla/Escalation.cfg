SPECIFICATION FairSpec
CONSTANTS
  Sweeps = {c1}
  Delayed = {c2}
  Priorities = {"NORMAL", "HIGH"}
  Hours = {0, 4, 8, 24}
  MaxPeriods = 1
  Stalls = FALSE
INVARIANTS
  RepeatNeedsReply
  NeverSilenced
PROPERTY QuietIsEscalated
