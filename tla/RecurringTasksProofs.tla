------------------------ MODULE RecurringTasksProofs ------------------------
(***************************************************************************)
(* Proofs about recurring tasks, for any number of sweeps, calendar rules, *)
(* days, changes of the schedule and occurrences.                          *)
(***************************************************************************)
EXTENDS RecurringTasks, WellFoundedInduction, TLAPS

-----------------------------------------------------------------------------
\* A sweep read a date of a calendar rule that had come; the revision it read
\* names the rule.
SweepInv ==
  /\ \A w \in Sweeps : sweep[w].pc = "generate" =>
       /\ sweep[w].rule \in CalendarRules /\ sweep[w].date \in Days
       /\ sweep[w].date <= sweep[w].today
       /\ sweep[w].revision <= revision
       /\ sweep[w].revision = revision => sweep[w].rule = rule
  /\ lastDate <= MaxDay

\* Dates are generated in order, the last one last.
DatesInv ==
  \A d \in Days : generated[d] \in {0, 1} /\ (generated[d] = 1 => d <= lastDate)

\* The mark that a completion was processed is never taken back.
RepeatInv ==
  /\ \A t \in Tasks : repeats[t] \in {0, 1} /\ (repeats[t] = 1 => task[t].processed)
  /\ \A t \in past : task[t].processed

IInv == TypeOK /\ SweepInv /\ DatesInv /\ ScheduleFollowsRule /\ RepeatInv

-----------------------------------------------------------------------------
\* The dates of a rule and the number of a new task.

LEMMA LeastOf ==
  ASSUME NEW S, S \subseteq Nat, S # {}
  PROVE  \E m \in S : \A n \in S : m <= n
<1> DEFINE R == OpToRel(<, Nat)
<1>1. IsWellFoundedOn(R, Nat)
  BY NatLessThanWellFounded
<1>2. \A x, y \in Nat : x < y => <<x, y>> \in R
  BY DEF OpToRel
<1> HIDE DEF R
<1>3. PICK m \in S : \A n \in S : ~ (<<n, m>> \in R)
  BY <1>1, WFMin
<1>4. \A n \in S : ~(n < m)
  BY <1>2, <1>3
<1> QED
  BY <1>4

LEMMA NewTaskIsAbsent ==
  ASSUME Room
  PROVE  NewTask \in Tasks /\ task[NewTask] = Absent
<1> DEFINE S == {t \in Tasks : task[t] = Absent}
<1>1. S # {} /\ S \subseteq Nat
  BY RulesAssumption DEF Room, Tasks
<1>2. PICK m \in S : \A n \in S : m <= n
  BY <1>1, LeastOf
<1>3. \A u \in 0..(m - 1) : task[u] # Absent
  <2> SUFFICES ASSUME NEW u \in 0..(m - 1), task[u] = Absent PROVE FALSE
    OBVIOUS
  <2>1. m \in 0..MaxTasks
    BY DEF Tasks
  <2>2. u \in 0..MaxTasks /\ u < m
    BY <2>1, RulesAssumption
  <2> QED
    BY <1>2, <2>1, <2>2 DEF Tasks
<1> QED
  BY <1>3 DEF NewTask

LEMMA DatesOfRule ==
  ASSUME NEW r \in CalendarRules
  PROVE  /\ r.start \in 1..MaxDay /\ r.interval \in 1..MaxDay /\ r.zone \in {0, 1}
         /\ r.trigger = "CALENDAR"
         /\ \A k \in 0..MaxDay : r.start + k * r.interval \in Nat
         /\ DatesOf(r) \subseteq Nat
<1>1. /\ r.start \in 1..MaxDay /\ r.interval \in 1..MaxDay /\ r.zone \in {0, 1}
      /\ r.trigger = "CALENDAR"
  BY RulesAssumption
<1>2. \A k \in 0..MaxDay : r.start + k * r.interval \in Nat
  <2> SUFFICES ASSUME NEW k \in 0..MaxDay PROVE r.start + k * r.interval \in Nat
    OBVIOUS
  <2>1. k * r.interval \in Nat
    BY <1>1
  <2> QED
    BY <1>1, <2>1
<1> QED
  BY <1>1, <1>2 DEF DatesOf

\* recurrenceAfter finds a date of the rule, later than the one given and within
\* the model's days.
LEMMA RecurrenceAfterIsLater ==
  ASSUME NEW r \in CalendarRules, NEW after \in (-1)..MaxDay
  PROVE  /\ RecurrenceAfter(r, after) \in DatesOf(r)
         /\ RecurrenceAfter(r, after) > after
         /\ RecurrenceAfter(r, after) \in Days
<1> DEFINE S == {d \in DatesOf(r) : d > after}
<1>0. /\ r.start \in 1..MaxDay /\ r.interval \in 1..MaxDay /\ MaxDay \in Nat \ {0}
      /\ DatesOf(r) \subseteq Nat
  BY DatesOfRule, RulesAssumption
<1>1. S # {}
  <2> DEFINE d == r.start + MaxDay * r.interval
  <2>1. MaxDay * r.interval >= MaxDay /\ MaxDay * r.interval \in Nat
    BY <1>0
  <2>2. d > after
    BY <1>0, <2>1
  <2>3. d \in DatesOf(r)
    BY <1>0 DEF DatesOf
  <2> QED
    BY <2>2, <2>3
<1>2. PICK m \in S : \A n \in S : m <= n
  BY <1>0, <1>1, LeastOf
<1>3. \E d \in DatesOf(r) : d > after /\ \A e \in DatesOf(r) : e > after => d <= e
  BY <1>2
<1> DEFINE d == RecurrenceAfter(r, after)
<1>4. d \in DatesOf(r) /\ d > after /\ \A e \in DatesOf(r) : e > after => d <= e
  BY <1>3 DEF RecurrenceAfter
<1>5. d \in Days
  <2> HIDE DEF d
  <2>1. PICK k \in 0..MaxDay : d = r.start + k * r.interval
    BY <1>4 DEF DatesOf
  <2>2. d \in Nat /\ d >= 1
    <3>1. k * r.interval \in Nat
      BY <1>0
    <3> QED
      BY <1>0, <2>1, <3>1
  <2>3. CASE k = 0
    BY <1>0, <2>1, <2>3 DEF Days
  <2>4. CASE k # 0
    <3> DEFINE e == r.start + (k - 1) * r.interval
    <3>1. k - 1 \in 0..MaxDay /\ e = d - r.interval
      BY <1>0, <2>1, <2>4
    <3>2. e \in DatesOf(r)
      BY <3>1 DEF DatesOf
    <3> HIDE DEF e
    <3>3. e <= after
      BY <1>0, <1>4, <2>2, <3>1, <3>2
    <3> QED
      BY <1>0, <2>2, <3>1, <3>3 DEF Days
  <2> QED
    BY <2>3, <2>4
<1> QED
  BY <1>4, <1>5

\* The first date of a schedule comes after the last one generated.
LEMMA FirstDateIsNew ==
  ASSUME IInv, NEW r \in Rules
  PROVE  \/ FirstDate(r) = NoDate
         \/ /\ r.trigger = "CALENDAR" /\ FirstDate(r) \in DatesOf(r)
            /\ FirstDate(r) \in Days /\ lastDate < FirstDate(r)
<1>1. CASE r \in CalendarRules
  <2>0. /\ r.trigger = "CALENDAR" /\ Today(r) - 1 \in (-1)..MaxDay /\ lastDate \in (-1)..MaxDay
        /\ lastDate \in Nat
    <3>1. r.trigger = "CALENDAR" /\ r.zone \in {0, 1}
      BY <1>1, DatesOfRule
    <3>2. day \in 1..MaxDay /\ MaxDay \in Nat
      BY RulesAssumption DEF IInv, TypeOK
    <3>3. Today(r) - 1 \in (-1)..MaxDay
      BY <3>1, <3>2 DEF Today
    <3>4. lastDate \in Nat /\ lastDate <= MaxDay
      BY RulesAssumption DEF IInv, TypeOK, SweepInv, Days, NoDate
    <3> QED
      BY <3>1, <3>2, <3>3, <3>4
  <2> DEFINE first == RecurrenceAfter(r, Today(r) - 1)
             second == RecurrenceAfter(r, lastDate)
  <2>1. first \in DatesOf(r) /\ first \in Days
    BY <1>1, <2>0, RecurrenceAfterIsLater
  <2>2. second \in DatesOf(r) /\ second \in Days /\ second > lastDate
    BY <1>1, <2>0, RecurrenceAfterIsLater
  <2>3. FirstDate(r) = IF first <= lastDate THEN second ELSE first
    BY <2>0 DEF FirstDate
  <2> HIDE DEF first, second
  <2>4. first \in Int /\ second \in Int
    BY <2>1, <2>2 DEF Days
  <2> QED
    BY <2>0, <2>1, <2>2, <2>3, <2>4
<1>2. CASE r \in {Stopped, AfterCompletion}
  BY <1>2 DEF FirstDate, Stopped, AfterCompletion
<1> QED
  BY <1>1, <1>2 DEF Rules

LEMMA IInvInit == Init => IInv
<1> SUFFICES ASSUME Init PROVE IInv
  OBVIOUS
<1> USE RulesAssumption DEF Init
<1>1. TypeOK
  BY DEF TypeOK, Rules, Waiting, Pending, Absent, NoDate
<1>2. SweepInv /\ DatesInv /\ ScheduleFollowsRule /\ RepeatInv
  BY DEF SweepInv, DatesInv, ScheduleFollowsRule, RepeatInv, Waiting, NoDate
<1> QED
  BY <1>1, <1>2 DEF IInv

LEMMA SaveStep ==
  ASSUME IInv, NEW r \in Rules, SaveTaskRecurrence(r)
  PROVE  IInv'
<1>0. /\ rule' = r /\ nextDate' = FirstDate(r) /\ revision' = revision + 1
      /\ revision \in Nat /\ revision' \in 0..MaxRevision
  BY RulesAssumption DEF SaveTaskRecurrence, IInv, TypeOK
<1>1. /\ task' \in [Tasks -> [status : {"ABSENT", "PENDING", "COMPLETED"},
                            first : BOOLEAN, processed : BOOLEAN]]
      /\ \A t \in Tasks : task[t].processed => task'[t].processed
      /\ past' \subseteq Tasks
      /\ past' # past => \A t \in past' : task'[t].processed
  <2>0. task \in [Tasks -> [status : {"ABSENT", "PENDING", "COMPLETED"},
                          first : BOOLEAN, processed : BOOLEAN]] /\ past \subseteq Tasks
    BY DEF IInv, TypeOK
  <2>1. CASE /\ task' = [t \in Tasks |-> IF t \in Consumed
                                        THEN [task[t] EXCEPT !.processed = TRUE] ELSE task[t]]
             /\ past' = {t \in Tasks : task[t].first}
    <3>1. \A t \in Tasks : [task[t] EXCEPT !.processed = TRUE] \in
            [status : {"ABSENT", "PENDING", "COMPLETED"}, first : BOOLEAN, processed : BOOLEAN]
      BY <2>0
    <3>2. \A t \in Tasks : [task[t] EXCEPT !.processed = TRUE].processed = TRUE
      BY <2>0
    <3>3. \A t \in Tasks : task'[t] = IF t \in Consumed
                               THEN [task[t] EXCEPT !.processed = TRUE] ELSE task[t]
      BY <2>1
    <3>4. \A t \in Tasks : task'[t] \in
            [status : {"ABSENT", "PENDING", "COMPLETED"}, first : BOOLEAN, processed : BOOLEAN]
      BY <2>0, <3>1, <3>3
    <3>5. \A t \in Tasks : (task[t].processed => task'[t].processed)
                         /\ (t \in Consumed => task'[t].processed)
      BY <3>2, <3>3
    <3> QED
      BY <2>1, <3>4, <3>5 DEF Consumed
  <2>2. CASE UNCHANGED <<task, past>>
    BY <2>0, <2>2
  <2> QED
    BY <2>1, <2>2 DEF SaveTaskRecurrence
<1>2. nextDate' \in Days \cup {NoDate}
  BY <1>0, FirstDateIsNew
<1>3. TypeOK'
  BY <1>0, <1>1, <1>2 DEF SaveTaskRecurrence, IInv, TypeOK
<1>4. SweepInv'
  <2>1. ASSUME NEW w \in Sweeps, sweep[w].pc = "generate"
        PROVE  sweep[w].revision <= revision' /\ sweep[w].revision # revision'
    <3>1. sweep[w].revision <= revision /\ sweep[w].revision \in Nat
      BY <2>1 DEF IInv, SweepInv, TypeOK
    <3> QED
      BY <1>0, <3>1
  <2> QED
    BY <2>1 DEF SaveTaskRecurrence, IInv, SweepInv
<1>5. DatesInv'
  BY DEF SaveTaskRecurrence, IInv, DatesInv
<1>6. ScheduleFollowsRule'
  BY <1>0, FirstDateIsNew DEF SaveTaskRecurrence, ScheduleFollowsRule, DatesOf
<1>7. RepeatInv'
  <2>1. past \subseteq Tasks
    BY DEF IInv, TypeOK
  <2> QED
    BY <1>1, <2>1 DEF SaveTaskRecurrence, IInv, RepeatInv
<1> QED
  BY <1>3, <1>4, <1>5, <1>6, <1>7 DEF IInv

LEMMA ReadStep ==
  ASSUME IInv, NEW w \in Sweeps, ReadSources(w) \/ SweepFails(w)
  PROVE  IInv'
<1>1. DatesInv' /\ ScheduleFollowsRule' /\ RepeatInv'
  BY DEF ReadSources, SweepFails, schedule, history, IInv, DatesInv, ScheduleFollowsRule,
         RepeatInv, DatesOf
<1>2. CASE ReadSources(w)
  <2>1. rule \in CalendarRules /\ nextDate \in Days /\ nextDate <= Today(rule)
    BY <1>2 DEF ReadSources, IInv, TypeOK, ScheduleFollowsRule, Rules, Stopped, AfterCompletion
  <2>2. Today(rule) \in 0..MaxDay
    BY <2>1, DatesOfRule, RulesAssumption DEF Today, IInv, TypeOK
  <2>3. \A v \in Sweeps : sweep'[v] = IF v = w
          THEN [pc |-> "generate", today |-> Today(rule), rule |-> rule, date |-> nextDate,
                revision |-> revision]
          ELSE sweep[v]
    BY <1>2 DEF ReadSources, IInv, TypeOK
  <2>4. TypeOK'
    BY <1>2, <2>2 DEF ReadSources, schedule, history, IInv, TypeOK
  <2>5. SweepInv'
    BY <1>2, <2>1, <2>3 DEF ReadSources, schedule, IInv, SweepInv, TypeOK
  <2> QED
    BY <1>1, <2>4, <2>5 DEF IInv
<1>3. CASE SweepFails(w)
  <2>1. TypeOK'
    BY <1>3, RulesAssumption DEF SweepFails, Waiting, schedule, history, IInv, TypeOK, Rules
  <2>2. SweepInv'
    BY <1>3 DEF SweepFails, Waiting, schedule, IInv, SweepInv, TypeOK
  <2> QED
    BY <1>1, <2>1, <2>2 DEF IInv
<1> QED
  BY <1>2, <1>3

LEMMA GenerateStep ==
  ASSUME IInv, NEW w \in Sweeps, GenerateOccurrence(w)
  PROVE  IInv'
<1> DEFINE d == sweep[w].date
<1>0. /\ sweep[w].rule \in CalendarRules /\ d \in Days /\ d <= sweep[w].today
      /\ sweep[w].today \in 0..MaxDay
  BY DEF GenerateOccurrence, IInv, SweepInv, TypeOK
<1>1. /\ sweep' \in [Sweeps -> [pc : {"idle", "generate"}, today : 0..MaxDay, rule : Rules,
                               date : Days \cup {NoDate}, revision : 0..MaxRevision]]
      /\ \A v \in Sweeps : sweep'[v].pc = "generate" => sweep'[v] = sweep[v]
  BY RulesAssumption DEF GenerateOccurrence, Waiting, IInv, TypeOK, Rules
<1>2. CASE /\ MayGenerate(w) /\ Room
           /\ nextDate' = NextDate(w) /\ lastDate' = d
           /\ task' = [task EXCEPT ![NewTask] = Pending]
           /\ generated' = [generated EXCEPT ![d] = @ + 1]
  <2>1. rule = sweep[w].rule /\ nextDate = d /\ rule.trigger = "CALENDAR"
    BY <1>0, <1>2, DatesOfRule DEF MayGenerate, GenerateOccurrence, IInv, SweepInv
  <2>2. /\ nextDate' \in DatesOf(rule) /\ nextDate' \in Days
        /\ nextDate' > sweep[w].today
    BY <1>0, <1>2, <2>1, RecurrenceAfterIsLater, RulesAssumption DEF NextDate
  <2>3. d \in Nat /\ d # NoDate /\ lastDate \in Nat /\ lastDate < d /\ d <= MaxDay /\ d < nextDate'
    BY <1>0, <2>1, <2>2, RulesAssumption DEF IInv, TypeOK, ScheduleFollowsRule, Days, NoDate
  <2>4. generated[d] = 0
    BY <1>0, <2>3 DEF IInv, DatesInv
  <2>5. \A e \in Days : generated'[e] = IF e = d THEN 1 ELSE generated[e]
    BY <1>0, <1>2, <2>4 DEF IInv, TypeOK
  <2>6. NewTask \in Tasks /\ task[NewTask] = Absent
    BY <1>2, NewTaskIsAbsent
  <2>7. \A t \in Tasks : task[t].processed => task'[t].processed
    BY <1>2, <2>6 DEF Absent, IInv, TypeOK
  <2>8. TypeOK'
    <3>1. task' \in [Tasks -> [status : {"ABSENT", "PENDING", "COMPLETED"},
                              first : BOOLEAN, processed : BOOLEAN]]
      <4> DEFINE T == [status : {"ABSENT", "PENDING", "COMPLETED"},
                       first : BOOLEAN, processed : BOOLEAN]
      <4>1. Pending \in T /\ task \in [Tasks -> T]
        BY DEF Pending, IInv, TypeOK
      <4> HIDE DEF T
      <4>2. [task EXCEPT ![NewTask] = Pending] \in [Tasks -> T]
        BY <4>1
      <4>3. task' \in [Tasks -> T]
        BY <1>2, <4>2
      <4> QED
        BY <4>3 DEF T
    <3>2. generated' \in [Days -> Nat]
      <4>1. generated \in [Days -> Nat]
        BY DEF IInv, TypeOK
      <4>2. generated[d] + 1 \in Nat
        BY <1>0, <4>1
      <4> QED
        BY <1>2, <4>1, <4>2
    <3> QED
      BY <1>0, <1>1, <1>2, <2>2, <3>1, <3>2 DEF GenerateOccurrence, IInv, TypeOK
  <2>9. SweepInv'
    BY <1>1, <1>2, <2>3 DEF GenerateOccurrence, IInv, SweepInv
  <2>10. DatesInv'
    <3>1. ASSUME NEW e \in Days, generated'[e] = 1 PROVE e <= d
      <4>1. CASE e # d
        <5>1. e <= lastDate /\ e \in Nat
          BY <2>5, <3>1, <4>1 DEF IInv, DatesInv, Days
        <5> QED
          BY <2>3, <5>1
      <4> QED
        BY <2>3, <4>1
    <3> QED
      BY <1>2, <2>5, <3>1 DEF IInv, DatesInv
  <2>11. ScheduleFollowsRule'
    BY <1>2, <2>1, <2>2, <2>3 DEF GenerateOccurrence, ScheduleFollowsRule, DatesOf
  <2>12. RepeatInv'
    <3>1. past \subseteq Tasks
      BY DEF IInv, TypeOK
    <3> QED
      BY <2>7, <3>1 DEF GenerateOccurrence, IInv, RepeatInv
  <2> QED
    BY <2>8, <2>9, <2>10, <2>11, <2>12 DEF IInv
<1>3. CASE UNCHANGED <<nextDate, lastDate, task, generated>>
  <2>1. TypeOK' /\ SweepInv'
    BY <1>1, <1>3 DEF GenerateOccurrence, IInv, TypeOK, SweepInv
  <2>2. DatesInv' /\ ScheduleFollowsRule' /\ RepeatInv'
    BY <1>3 DEF GenerateOccurrence, IInv, DatesInv, ScheduleFollowsRule, RepeatInv, DatesOf
  <2> QED
    BY <2>1, <2>2 DEF IInv
<1> QED
  BY <1>2, <1>3 DEF GenerateOccurrence

LEMMA RepeatStep ==
  ASSUME IInv, NEW t \in Tasks, RepeatCompleted(t)
  PROVE  IInv' /\ \A u \in past : repeats'[u] = repeats[u]
<1> DEFINE T == [status : {"ABSENT", "PENDING", "COMPLETED"}, first : BOOLEAN, processed : BOOLEAN]
<1>0. task \in [Tasks -> T] /\ past \subseteq Tasks /\ repeats \in [Tasks -> Nat]
  BY DEF IInv, TypeOK
<1>1. NewTask \in Tasks /\ task[NewTask] = Absent
  BY NewTaskIsAbsent DEF RepeatCompleted
<1>2. ~task[t].processed /\ t # NewTask
  BY <1>1 DEF RepeatCompleted, Repeatable, Unprocessed, Absent
<1>3. /\ task' \in [Tasks -> T]
      /\ task'[t].processed
      /\ \A u \in Tasks : task[u].processed => task'[u].processed
  <2>1. Pending \in T /\ [task[t] EXCEPT !.processed = TRUE] \in T
        /\ [task[t] EXCEPT !.processed = TRUE].processed = TRUE
    BY <1>0 DEF Pending
  <2>2. \A u \in Tasks : task'[u] = IF u = NewTask THEN Pending
                                 ELSE IF u = t THEN [task[t] EXCEPT !.processed = TRUE]
                                 ELSE task[u]
    BY <1>0, <1>1, <1>2 DEF RepeatCompleted
  <2>3. task' = [u \in Tasks |-> task'[u]]
    BY <1>0 DEF RepeatCompleted
  <2>4. \A u \in Tasks : task'[u] \in T
    BY <1>0, <2>1, <2>2
  <2>5. ~task[NewTask].processed
    BY <1>1 DEF Absent
  <2> HIDE DEF T
  <2>6. task' \in [Tasks -> T]
    BY <2>3, <2>4
  <2> QED
    BY <1>2, <2>1, <2>2, <2>5, <2>6
<1>4. repeats[t] = 0 /\ t \notin past
  BY <1>2 DEF IInv, RepeatInv
<1>5. \A u \in Tasks : repeats'[u] = IF u = t THEN 1 ELSE repeats[u]
  BY <1>0, <1>4 DEF RepeatCompleted
<1>6. TypeOK'
  <2>1. repeats' \in [Tasks -> Nat]
    BY <1>0 DEF RepeatCompleted
  <2> QED
    BY <1>3, <2>1 DEF RepeatCompleted, schedule, IInv, TypeOK
<1>7. SweepInv' /\ DatesInv' /\ ScheduleFollowsRule'
  BY DEF RepeatCompleted, schedule, IInv, SweepInv, DatesInv, ScheduleFollowsRule, DatesOf
<1>8. RepeatInv'
  BY <1>0, <1>3, <1>5 DEF RepeatCompleted, IInv, RepeatInv
<1> QED
  BY <1>0, <1>4, <1>5, <1>6, <1>7, <1>8 DEF IInv

LEMMA PeopleStep ==
  ASSUME IInv, \/ \E t \in Tasks : CompleteTask(t) \/ ReopenTask(t)
               \/ HoldOrResume \/ DayPasses
  PROVE  IInv'
<1>1. SweepInv' /\ DatesInv' /\ ScheduleFollowsRule'
  BY DEF CompleteTask, ReopenTask, HoldOrResume, DayPasses, schedule, history, IInv, SweepInv,
         DatesInv, ScheduleFollowsRule, DatesOf
<1>2. /\ task' \in [Tasks -> [status : {"ABSENT", "PENDING", "COMPLETED"},
                            first : BOOLEAN, processed : BOOLEAN]]
      /\ \A u \in Tasks : task'[u].processed = task[u].processed
  <2> DEFINE T == [status : {"ABSENT", "PENDING", "COMPLETED"}, first : BOOLEAN, processed : BOOLEAN]
  <2>0. task \in [Tasks -> T]
    BY DEF IInv, TypeOK
  <2>1. ASSUME NEW t \in Tasks, NEW x \in T, x.processed = task[t].processed,
               task' = [task EXCEPT ![t] = x]
        PROVE  task' \in [Tasks -> T] /\ \A u \in Tasks : task'[u].processed = task[u].processed
    <3>1. \A u \in Tasks : task'[u] = IF u = t THEN x ELSE task[u]
      BY <2>0, <2>1
    <3> HIDE DEF T
    <3>2. task' \in [Tasks -> T]
      BY <2>0, <2>1
    <3> QED
      BY <2>1, <3>1, <3>2
  <2>2. ASSUME NEW t \in Tasks, CompleteTask(t)
        PROVE  \E x \in T : x.processed = task[t].processed /\ task' = [task EXCEPT ![t] = x]
    <3> DEFINE x == [task[t] EXCEPT !.status = "COMPLETED", !.first = TRUE]
    <3>1. x \in T /\ x.processed = task[t].processed
      BY <2>0
    <3>2. task' = [task EXCEPT ![t] = x]
      BY <2>0, <2>2 DEF CompleteTask
    <3> QED
      BY <3>1, <3>2
  <2>3. ASSUME NEW t \in Tasks, ReopenTask(t)
        PROVE  \E x \in T : x.processed = task[t].processed /\ task' = [task EXCEPT ![t] = x]
    <3> DEFINE x == [task[t] EXCEPT !.status = "PENDING"]
    <3>1. x \in T /\ x.processed = task[t].processed
      BY <2>0
    <3>2. task' = [task EXCEPT ![t] = x]
      BY <2>0, <2>3 DEF ReopenTask
    <3> QED
      BY <3>1, <3>2
  <2>4. CASE HoldOrResume \/ DayPasses
    BY <2>0, <2>4 DEF HoldOrResume, DayPasses
  <2> HIDE DEF T
  <2>5. CASE \E t \in Tasks : CompleteTask(t) \/ ReopenTask(t)
    <3>1. PICK t \in Tasks, x \in T : x.processed = task[t].processed /\ task' = [task EXCEPT ![t] = x]
      BY <2>2, <2>3, <2>5
    <3>2. task' \in [Tasks -> T] /\ \A u \in Tasks : task'[u].processed = task[u].processed
      BY <2>1, <3>1
    <3> QED
      BY <3>2 DEF T
  <2> QED
    BY <2>4, <2>5 DEF T
<1>3. day' \in 1..MaxDay /\ active' \in BOOLEAN
  <2>0. day \in 1..MaxDay /\ active \in BOOLEAN
    BY DEF IInv, TypeOK
  <2>1. CASE DayPasses
    BY <2>0, <2>1, RulesAssumption DEF DayPasses
  <2>2. CASE HoldOrResume
    BY <2>0, <2>2 DEF HoldOrResume
  <2>3. CASE \E t \in Tasks : CompleteTask(t) \/ ReopenTask(t)
    BY <2>0, <2>3 DEF CompleteTask, ReopenTask
  <2> QED
    BY <2>1, <2>2, <2>3
<1>4. TypeOK'
  BY <1>2, <1>3 DEF CompleteTask, ReopenTask, HoldOrResume, DayPasses, schedule, history, IInv, TypeOK
<1>5. RepeatInv'
  <2>1. past \subseteq Tasks /\ UNCHANGED <<repeats, past>>
    BY DEF CompleteTask, ReopenTask, HoldOrResume, DayPasses, history, IInv, TypeOK
  <2> QED
    BY <1>2, <2>1 DEF IInv, RepeatInv
<1> QED
  BY <1>1, <1>4, <1>5 DEF IInv

LEMMA IInvNext == IInv /\ [Next]_vars => IInv'
<1> SUFFICES ASSUME IInv, [Next]_vars PROVE IInv'
  OBVIOUS
<1>1. CASE UNCHANGED vars
  BY <1>1 DEF vars, schedule, history, IInv, TypeOK, SweepInv, DatesInv, ScheduleFollowsRule,
              RepeatInv, DatesOf
<1> QED
  BY <1>1, SaveStep, ReadStep, GenerateStep, RepeatStep, PeopleStep DEF Next

LEMMA IInvHolds == Spec => []IInv
  BY IInvInit, IInvNext, PTL DEF Spec

-----------------------------------------------------------------------------
\* The schedule, the tasks, the sweeps' locals and the history have their types;
\* in particular the next date is one of the model's days.
THEOREM TypeCorrect == Spec => []TypeOK
  BY IInvHolds, PTL DEF IInv

\* No date is generated twice, for any rules, time zones, changes of the schedule
\* and overlapping sweeps: dates are generated in order, and a schedule that is
\* saved starts after the last of them.
THEOREM DateOnceHolds == Spec => []DateOnce
<1>1. IInv => DateOnce
  BY DEF IInv, DatesInv, DateOnce
<1> QED
  BY <1>1, IInvHolds, PTL

\* The next date is one of the rule in force and after the last one generated: a
\* sweep that read an older rule loses its claim to the revision.
THEOREM ScheduleFollowsRuleHolds == Spec => []ScheduleFollowsRule
  BY IInvHolds, PTL DEF IInv

\* A completion is repeated at most once, however often the task is reopened and
\* completed, and however often completion repeats are switched off and on.
THEOREM RepeatedOnceHolds == Spec => []RepeatedOnce
<1>1. IInv => RepeatedOnce
  BY DEF IInv, RepeatInv, RepeatedOnce
<1> QED
  BY <1>1, IInvHolds, PTL

\* What was completed before completion repeats were switched on is not repeated.
THEOREM NoReplayOfThePastHolds == Spec => NoReplayOfThePast
<1>1. IInv /\ [Next]_vars => [\A t \in past : repeats'[t] = repeats[t]]_vars
  <2> SUFFICES ASSUME IInv, Next PROVE \A t \in past : repeats'[t] = repeats[t]
    OBVIOUS
  <2>1. ASSUME NEW t \in Tasks, RepeatCompleted(t) PROVE \A u \in past : repeats'[u] = repeats[u]
    BY <2>1, RepeatStep
  <2>2. CASE \/ \E r \in Rules : SaveTaskRecurrence(r)
             \/ \E w \in Sweeps : ReadSources(w) \/ GenerateOccurrence(w) \/ SweepFails(w)
             \/ \E t \in Tasks : CompleteTask(t) \/ ReopenTask(t)
             \/ HoldOrResume \/ DayPasses
    BY <2>2 DEF SaveTaskRecurrence, ReadSources, GenerateOccurrence, SweepFails, CompleteTask,
                ReopenTask, HoldOrResume, DayPasses, history
  <2> QED
    BY <2>1, <2>2 DEF Next
<1> QED
  BY <1>1, IInvHolds, PTL DEF Spec, NoReplayOfThePast

=============================================================================
