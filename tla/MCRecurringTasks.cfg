SPECIFICATION FairSpec
CONSTANTS
  Sweeps = {w1, w2}
  CalendarRules <- MCCalendarRules
  MaxDay = 3
  MaxRevision = 3
  MaxTasks = 2
INVARIANTS
  DateOnce
  ScheduleFollowsRule
  RepeatedOnce
PROPERTIES
  NoReplayOfThePast
  OwedIsGenerated
