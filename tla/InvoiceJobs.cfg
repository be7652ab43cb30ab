SPECIFICATION FairSpec
CONSTANTS
  Chasers = {r1, r2}
  Billers = {b1, b2}
  MaxTime = 4
  DueDate = 2
  EscalationDays = 2
  Interval = 2
  MaxFaults = 1
INVARIANTS
  OneMessagePerStage
  RefusedIsRetried
  BilledOnce
PROPERTY DueIsBilled
CHECK_DEADLOCK FALSE
