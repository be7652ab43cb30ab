--------------------------- MODULE RecurringTasks ----------------------------
(***************************************************************************)
(* Recurring tasks: one original with its schedule, its occurrences, the   *)
(* hourly sweep that generates calendar occurrences, the minute sweep that *)
(* repeats a task after its first completion, and the people who change    *)
(* the schedule, complete and reopen tasks, and put the project on hold.   *)
(*                                                                         *)
(* A day is a number; a rule's zone is the number of days its calendar is  *)
(* behind the clock's.  Weeks and months are intervals of days: what a     *)
(* copy carries of its task is left out.  The unique keys the database     *)
(* keeps as a backstop are left out too: one that fires fails the sweep of *)
(* that task for ever, so the model shows that none ever would.            *)
(***************************************************************************)
EXTENDS Integers

CONSTANTS
  Sweeps,         \* workers of the hourly sweep
  CalendarRules,  \* calendar rules a person may choose
  MaxDay,         \* bound: the clock
  MaxRevision,    \* bound: changes of the schedule
  MaxTasks        \* bound: occurrences of the original, which is task 0

NoDate == 0
Stopped == [trigger |-> "NONE", start |-> 0, interval |-> 1, zone |-> 0]
AfterCompletion == [trigger |-> "AFTER_COMPLETION", start |-> 0, interval |-> 1, zone |-> 0]
Rules == CalendarRules \cup {Stopped, AfterCompletion}
Tasks == 0..MaxTasks
Days == 1..(2 * MaxDay + 1)

ASSUME RulesAssumption ==
  /\ CalendarRules \subseteq [trigger : {"CALENDAR"}, start : 1..MaxDay,
                              interval : 1..MaxDay, zone : {0, 1}]
  /\ MaxDay \in Nat \ {0} /\ MaxRevision \in Nat /\ MaxTasks \in Nat

VARIABLES
  day,
  \* the project and the board take new work (not held, cancelled or archived)
  active,
  \* the original's schedule: recurrenceRule, NextDate, LastDate and Revision
  rule, nextDate, lastDate, revision,
  \* per task its status, recurrenceFirstCompletedAt and CompletionProcessedAt
  task,
  \* what a sweep read
  sweep,
  \* history: occurrences per scheduled date, copies per completed task, and
  \* the tasks completed before after-completion repeats were last switched on
  generated, repeats, past

schedule == <<rule, nextDate, lastDate, revision>>
history == <<generated, repeats, past>>
vars == <<day, active, schedule, task, sweep, history>>

Absent == [status |-> "ABSENT", first |-> FALSE, processed |-> FALSE]
Pending == [status |-> "PENDING", first |-> FALSE, processed |-> FALSE]
Waiting == [pc |-> "idle", today |-> 0, rule |-> Stopped, date |-> NoDate, revision |-> 0]

\* dateInZone.
Today(r) == day - r.zone

DatesOf(r) == {r.start + k * r.interval : k \in 0..MaxDay}

\* recurrenceAfter: the first date of the rule, counted from its start, that
\* is after the one given.
RecurrenceAfter(r, after) ==
  CHOOSE d \in DatesOf(r) : d > after /\ \A e \in DatesOf(r) : e > after => d <= e

Init ==
  /\ day = 1 /\ active = TRUE
  /\ rule = Stopped /\ nextDate = NoDate /\ lastDate = NoDate /\ revision = 0
  /\ task = [t \in Tasks |-> IF t = 0 THEN Pending ELSE Absent]
  /\ sweep = [w \in Sweeps |-> Waiting]
  /\ generated = [d \in Days |-> 0]
  /\ repeats = [t \in Tasks |-> 0]
  /\ past = {}

-----------------------------------------------------------------------------
\* saveTaskRecurrence.

\* Mutant: the date generated last is not looked at.
FirstDateAgain(r) ==
  IF r.trigger = "CALENDAR" THEN RecurrenceAfter(r, Today(r) - 1) ELSE NoDate

\* The first date from today on, unless it has been generated already.
FirstDate(r) ==
  LET first == RecurrenceAfter(r, Today(r) - 1) IN
  IF r.trigger # "CALENDAR" THEN NoDate
  ELSE IF first <= lastDate THEN RecurrenceAfter(r, lastDate) ELSE first

\* Mutant: only the original's history is consumed.
ConsumedOriginal == {t \in {0} : task[t].first}

Consumed == {t \in Tasks : task[t].first}

\* One serializable transaction; a save with an older revision answers 409.
SaveTaskRecurrence(r) ==
  /\ revision < MaxRevision
  /\ rule' = r /\ nextDate' = FirstDate(r) /\ revision' = revision + 1
  /\ IF r.trigger = "AFTER_COMPLETION" /\ rule.trigger # "AFTER_COMPLETION"
       THEN /\ task' = [t \in Tasks |-> IF t \in Consumed
                                          THEN [task[t] EXCEPT !.processed = TRUE] ELSE task[t]]
            /\ past' = {t \in Tasks : task[t].first}
       ELSE UNCHANGED <<task, past>>
  /\ UNCHANGED <<day, active, lastDate, sweep, generated, repeats>>

-----------------------------------------------------------------------------
\* copyRecurringTask: a new pending task.

NewTask == CHOOSE t \in Tasks : task[t] = Absent /\ \A u \in 0..(t - 1) : task[u] # Absent
Room == \E t \in Tasks : task[t] = Absent

-----------------------------------------------------------------------------
\* processRecurringTasks.

\* A page of originals with a next date is read, and a due one is taken up.
ReadSources(w) ==
  /\ sweep[w].pc = "idle"
  /\ active /\ nextDate # NoDate /\ nextDate <= Today(rule)
  /\ sweep' = [sweep EXCEPT ![w] = [pc |-> "generate", today |-> Today(rule), rule |-> rule,
                                    date |-> nextDate, revision |-> revision]]
  /\ UNCHANGED <<day, active, schedule, task, history>>

\* Mutant: the claim does not compare the revision.
MayGenerateAnyRevision(w) == active /\ nextDate = sweep[w].date

MayGenerate(w) ==
  active /\ nextDate = sweep[w].date /\ revision = sweep[w].revision

NextDate(w) == RecurrenceAfter(sweep[w].rule, sweep[w].today)

\* Claim, copy and advance in one serializable transaction, or none of it.
GenerateOccurrence(w) ==
  /\ sweep[w].pc = "generate"
  /\ \/ /\ MayGenerate(w) /\ Room
        /\ nextDate' = NextDate(w) /\ lastDate' = sweep[w].date
        /\ task' = [task EXCEPT ![NewTask] = Pending]
        /\ generated' = [generated EXCEPT ![sweep[w].date] = @ + 1]
     \/ /\ ~MayGenerate(w)
        /\ UNCHANGED <<nextDate, lastDate, task, generated>>
  /\ sweep' = [sweep EXCEPT ![w] = Waiting]
  /\ UNCHANGED <<day, active, rule, revision, repeats, past>>

\* The worker dies or its transaction conflicts: nothing is committed.
SweepFails(w) ==
  /\ sweep[w].pc = "generate"
  /\ sweep' = [sweep EXCEPT ![w] = Waiting]
  /\ UNCHANGED <<day, active, schedule, task, history>>

-----------------------------------------------------------------------------
\* processCompletionRepeats: every condition is read again in the transaction
\* that claims the task and copies it, so one step.

\* Mutant: a processed completion is not left out.
UnprocessedAlways(t) == TRUE

Unprocessed(t) == ~task[t].processed

\* Mutant: only the original's completion repeats.
RepeatableOriginal(t) ==
  /\ t = 0
  /\ active /\ rule.trigger = "AFTER_COMPLETION"
  /\ task[t].status = "COMPLETED" /\ task[t].first /\ Unprocessed(t)

Repeatable(t) ==
  /\ active /\ rule.trigger = "AFTER_COMPLETION"
  /\ task[t].status = "COMPLETED" /\ task[t].first /\ Unprocessed(t)

RepeatCompleted(t) ==
  /\ Repeatable(t) /\ Room
  /\ task' = [task EXCEPT ![t].processed = TRUE, ![NewTask] = Pending]
  /\ repeats' = [repeats EXCEPT ![t] = @ + 1]
  /\ UNCHANGED <<day, active, schedule, sweep, generated, past>>

-----------------------------------------------------------------------------
\* People, and time.

\* The trigger task_first_completion_stamp keeps the first completion.
CompleteTask(t) ==
  /\ task[t].status = "PENDING"
  /\ task' = [task EXCEPT ![t].status = "COMPLETED", ![t].first = TRUE]
  /\ UNCHANGED <<day, active, schedule, sweep, history>>

ReopenTask(t) ==
  /\ task[t].status = "COMPLETED"
  /\ task' = [task EXCEPT ![t].status = "PENDING"]
  /\ UNCHANGED <<day, active, schedule, sweep, history>>

HoldOrResume ==
  /\ active' = ~active
  /\ UNCHANGED <<day, schedule, task, sweep, history>>

DayPasses ==
  /\ day < MaxDay
  /\ day' = day + 1
  /\ UNCHANGED <<active, schedule, task, sweep, history>>

-----------------------------------------------------------------------------
Next ==
  \/ \E r \in Rules : SaveTaskRecurrence(r)
  \/ \E w \in Sweeps : ReadSources(w) \/ GenerateOccurrence(w) \/ SweepFails(w)
  \/ \E t \in Tasks : RepeatCompleted(t) \/ CompleteTask(t) \/ ReopenTask(t)
  \/ HoldOrResume \/ DayPasses

Spec == Init /\ [][Next]_vars

\* The scheduler starts both sweeps again and again.  A sweep fails now and
\* then, but not always: strong fairness of the hourly sweep's transaction.
FairSpec ==
  /\ Spec
  /\ WF_vars(\E w \in Sweeps : ReadSources(w))
  /\ SF_vars(\E w \in Sweeps : GenerateOccurrence(w))
  /\ WF_vars(\E t \in Tasks : RepeatCompleted(t))

-----------------------------------------------------------------------------
\* Every variable has its type.
TypeOK ==
  /\ day \in 1..MaxDay /\ active \in BOOLEAN
  /\ rule \in Rules /\ revision \in 0..MaxRevision
  /\ nextDate \in Days \cup {NoDate} /\ lastDate \in Days \cup {NoDate}
  /\ task \in [Tasks -> [status : {"ABSENT", "PENDING", "COMPLETED"},
                         first : BOOLEAN, processed : BOOLEAN]]
  /\ sweep \in [Sweeps -> [pc : {"idle", "generate"}, today : 0..MaxDay, rule : Rules,
                           date : Days \cup {NoDate}, revision : 0..MaxRevision]]
  /\ generated \in [Days -> Nat] /\ repeats \in [Tasks -> Nat] /\ past \subseteq Tasks

\* "Editing, stopping or re-enabling a schedule cannot replay" a date: no date
\* is generated twice, whatever changes of rule or time zone and which sweeps
\* come between; the unique key on source and date never has to refuse one.
DateOnce == \A d \in Days : generated[d] <= 1

\* The next date is always one of the rule in force: a sweep that read an
\* older rule does not advance the schedule by it, a stopped or completion
\* schedule has no next date, and no date that was generated comes again.
ScheduleFollowsRule ==
  nextDate # NoDate =>
    /\ rule.trigger = "CALENDAR"
    /\ nextDate \in DatesOf(rule)
    /\ lastDate < nextDate

\* "Reopening or completing the same task again never creates another copy".
RepeatedOnce == \A t \in Tasks : repeats[t] <= 1

\* "Enabling completion repeats consumes existing completed history, including
\* reopened historical work": no task completed before the switch is repeated
\* after it.
NoReplayOfThePast ==
  [][\A t \in past : repeats'[t] = repeats[t]]_vars

\* What the schedule in force owes the project: a due occurrence, or the copy
\* of a task of the series completed since.
Owed ==
  /\ active /\ Room
  /\ \/ nextDate # NoDate /\ nextDate <= Today(rule)
     \/ /\ rule.trigger = "AFTER_COMPLETION"
        /\ \E t \in Tasks : task[t].status = "COMPLETED" /\ ~task[t].processed

\* What is owed is generated, whichever sweeps fail or overlap, unless the
\* schedule changes, the task is reopened or the project is held.
OwedIsGenerated == Owed ~> ~Owed

=============================================================================
