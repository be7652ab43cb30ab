--------------------------- MODULE MCRecurringTasks ---------------------------
(* The instance of RecurringTasks: a daily rule, and one every other day in a *)
(* time zone a day behind.                                                    *)
EXTENDS RecurringTasks

MCCalendarRules ==
  {[trigger |-> "CALENDAR", start |-> 1, interval |-> 1, zone |-> 0],
   [trigger |-> "CALENDAR", start |-> 1, interval |-> 2, zone |-> 1]}

=============================================================================
