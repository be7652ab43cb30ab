-------------------------- MODULE EscalationProofs --------------------------
(***************************************************************************)
(* An escalation level is notified at most once per quiet period and never *)
(* silenced: proofs for any number of checks, periods and priorities.      *)
(***************************************************************************)
EXTENDS Escalation, FiniteSetTheorems, TLAPS

Periods == 0..MaxPeriods

LevelAlert(n, p, r) == [type |-> Level[n], period |-> p, resets |-> r]

\* A marker on the row has an alert behind it, about a period that has begun.
MarkInv ==
  /\ thread.mark <= claims /\ resets <= thread.period
  /\ thread.mark # NoMark =>
       /\ thread.level > 0 /\ thread.markPeriod <= thread.period
       /\ alerts[LevelAlert(thread.level, thread.markPeriod, resets)] > 0

\* Since the last reply that reset it, the marker has only moved on: to a later
\* period, or to a higher level of its period.
SentInv ==
  \A n \in 1..2, p \in Periods, r \in Periods :
    alerts[LevelAlert(n, p, r)] > 0 =>
      /\ r <= resets
      /\ r = resets =>
           /\ thread.mark # NoMark
           /\ p < thread.markPeriod \/ (p = thread.markPeriod /\ n <= thread.level)

\* What a check read is what the marker says for as long as the row still
\* carries the marker it read.
CheckInv ==
  \A c \in Checks : check[c] # Idle =>
    /\ check[c].period <= thread.period /\ check[c].mark <= claims
    /\ check[c].mark = thread.mark /\ thread.mark # NoMark =>
         /\ thread.markPeriod <= check[c].period
         /\ check[c].current = IF check[c].period > thread.markPeriod THEN 0 ELSE thread.level

\* One alert of a kind, and one breach.
OnceInv ==
  /\ \A a \in Alerts : alerts[a] <= 1
  /\ \A a \in Alerts : a.type = "SLA_BREACH" /\ alerts[a] > 0 =>
       /\ thread.breached
       /\ \A b \in Alerts : b.type = "SLA_BREACH" /\ alerts[b] > 0 => a = b

IInv == TypeOK /\ MarkInv /\ SentInv /\ CheckInv /\ OnceInv

-----------------------------------------------------------------------------
\* Operators.

LEMMA LevelIsType == \A n \in 1..2 : Level[n] \in Types /\ Level[n] # "SLA_BREACH"
BY DEF Level, Types

LEMMA LevelsDiffer == \A m, n \in 1..2 : Level[m] = Level[n] => m = n
BY DEF Level

LEMMA LevelAlertIsAlert ==
  \A n \in 1..2, p \in Periods, r \in Periods : LevelAlert(n, p, r) \in Alerts
BY LevelIsType DEF LevelAlert, Alerts, Periods

\* What activity and a reply make of a thread is a thread.
LEMMA ActivityType ==
  ASSUME NEW t \in Threads, t.period < MaxPeriods, NEW s \in ThreadStatuses, NEW p \in Priorities
  PROVE  /\ [t EXCEPT !.status = s, !.period = @ + 1, !.age = 0] \in Threads
         /\ [t EXCEPT !.priority = p, !.period = @ + 1, !.age = 0] \in Threads
         /\ [t EXCEPT !.status = s, !.period = @ + 1, !.age = 0,
                      !.level = 0, !.mark = NoMark] \in Threads
<1>1. t.period + 1 \in 0..MaxPeriods /\ 0 \in Hours /\ 0 \in 0..2 /\ NoMark \in Nat
  BY EscalationAssumption DEF Threads, NoMark
<1>2. ASSUME NEW n \in 0..MaxPeriods
      PROVE  /\ [t EXCEPT !.status = s, !.period = n, !.age = 0] \in Threads
             /\ [t EXCEPT !.priority = p, !.period = n, !.age = 0] \in Threads
             /\ [t EXCEPT !.status = s, !.period = n, !.age = 0,
                          !.level = 0, !.mark = NoMark] \in Threads
  BY <1>1 DEF Threads
<1> QED
  BY <1>1, <1>2

\* A check wants a level above the one that was notified.
LEMMA WantsMore ==
  ASSUME TypeOK
  PROVE  /\ CurrentLevel(thread) \in 0..2 /\ Wants \in 0..2
         /\ Wants > 0 => CurrentLevel(thread) < Wants
BY DEF TypeOK, Threads, CurrentLevel, Wants

\* A thread whose clock restarts or whose other columns change.
MarkerKept ==
  /\ thread' \in Threads /\ thread'.period >= thread.period
  /\ thread'.level = thread.level /\ thread'.mark = thread.mark
  /\ thread'.markPeriod = thread.markPeriod /\ thread'.breached = thread.breached

LEMMA ThreadFrame ==
  ASSUME IInv, MarkerKept, assigned' \in BOOLEAN, admins' \in BOOLEAN,
         UNCHANGED <<check, history, resets>>
  PROVE  IInv'
<1>0. TypeOK /\ thread \in Threads
  BY DEF IInv, TypeOK
<1> USE DEF MarkerKept
<1>1. TypeOK'
  BY <1>0 DEF TypeOK, history
<1>2. MarkInv'
  BY <1>0 DEF IInv, MarkInv, history, TypeOK, Threads, LevelAlert, NoMark
<1>3. SentInv'
  BY DEF IInv, SentInv, history
<1>4. CheckInv'
  <2> SUFFICES ASSUME NEW c \in Checks, check[c] # Idle
               PROVE  check[c].period <= thread'.period
    BY DEF IInv, CheckInv, history
  <2>1. check[c].period \in Nat
    BY <1>0 DEF TypeOK, Locals
  <2> QED
    BY <1>0, <2>1 DEF IInv, CheckInv, Threads
<1>5. OnceInv'
  BY DEF IInv, OnceInv, history
<1> QED
  BY <1>1, <1>2, <1>3, <1>4, <1>5 DEF IInv

\* A check that reads, or ends without having claimed.
LEMMA CheckFrame ==
  ASSUME IInv, UNCHANGED <<thread, assigned, admins, history, resets>>,
         check' \in [Checks -> Locals], CheckInv'
  PROVE  IInv'
BY DEF IInv, TypeOK, MarkInv, SentInv, OnceInv, history

LEMMA InitHolds == Init => IInv
<1> SUFFICES ASSUME Init PROVE IInv
  OBVIOUS
<1>1. PICK p \in Priorities : thread = NewThread(p)
  BY DEF Init
<1>2. TypeOK
  <2>1. thread \in Threads
    BY <1>1, EscalationAssumption DEF NewThread, Threads, ThreadStatuses, NoMark
  <2>2. check \in [Checks -> Locals] /\ alerts \in [Alerts -> Nat]
    BY DEF Init, Locals
  <2> QED
    BY <2>1, <2>2, EscalationAssumption DEF Init, TypeOK
<1>3. MarkInv /\ SentInv
  BY <1>1, LevelAlertIsAlert DEF Init, NewThread, MarkInv, SentInv, NoMark
<1>4. CheckInv /\ OnceInv
  BY DEF Init, CheckInv, OnceInv
<1> QED
  BY <1>2, <1>3, <1>4 DEF IInv

-----------------------------------------------------------------------------
\* The thread's other writers.

LEMMA WritersStep ==
  ASSUME IInv,
         \/ AddMessage \/ IngestMail
         \/ \E s \in ThreadStatuses, p \in Priorities : UpdateThread(s, p)
         \/ SnoozeThread \/ ResolveThread \/ AssignThread \/ AdminsChange \/ TimePasses
  PROVE  IInv'
<1>0. TypeOK /\ thread \in Threads /\ MaxPeriods \in Nat /\ Hours \subseteq Nat /\ 0 \in Hours
  BY EscalationAssumption DEF IInv, TypeOK
<1>4. thread.priority \in Priorities /\ {"AWAITING_RESPONSE", "OPEN", "RESOLVED"} = ThreadStatuses
  BY <1>0 DEF Threads, ThreadStatuses
<1>1. ASSUME NEW s \in ThreadStatuses, Activity(s)
      PROVE  IInv'
  <2>1. MarkerKept
    <3>1. thread' \in Threads
      BY <1>0, <1>1, <1>4, ActivityType DEF Activity
    <3> QED
      BY <1>0, <1>1, <3>1 DEF Activity, Threads, MarkerKept
  <2> QED
    BY <1>0, <1>1, <2>1, ThreadFrame DEF Activity, TypeOK
<1>2. CASE IngestMail
  <2>1. PICK p \in Priorities : thread' = [thread EXCEPT !.priority = p, !.period = @ + 1, !.age = 0]
    BY <1>0, <1>2 DEF IngestMail, Threads
  <2>2. MarkerKept
    <3>1. thread' \in Threads
      BY <1>0, <1>2, <1>4, <2>1, ActivityType DEF IngestMail, ThreadStatuses
    <3> QED
      BY <1>0, <2>1, <3>1 DEF Threads, MarkerKept
  <2> QED
    BY <1>0, <1>2, <2>2, ThreadFrame DEF IngestMail, TypeOK
<1>3. ASSUME NEW s \in ThreadStatuses, NEW p \in Priorities, UpdateThread(s, p)
      PROVE  IInv'
  <2>1. MarkerKept
    <3>1. thread' = [thread EXCEPT !.status = s, !.priority = p]
      BY <1>3 DEF UpdateThread
    <3>2. thread' \in Threads
      BY <1>0, <3>1 DEF Threads
    <3> QED
      BY <1>0, <3>1, <3>2 DEF Threads, MarkerKept
  <2> QED
    BY <1>0, <1>3, <2>1, ThreadFrame DEF UpdateThread, TypeOK
<1>5. CASE AddMessage
  BY <1>1, <1>4, <1>5 DEF AddMessage
<1>6. CASE SnoozeThread \/ ResolveThread
  BY <1>3, <1>4, <1>6 DEF SnoozeThread, ResolveThread
<1>7. CASE AssignThread \/ AdminsChange
  <2>1. MarkerKept
    BY <1>0, <1>7 DEF AssignThread, AdminsChange, Threads, MarkerKept
  <2>2. assigned' \in BOOLEAN /\ admins' \in BOOLEAN /\ UNCHANGED <<check, history, resets>>
    BY <1>0, <1>7, Zenon DEF AssignThread, AdminsChange, TypeOK
  <2> QED
    BY <2>1, <2>2, ThreadFrame
<1>8. CASE TimePasses
  <2>1. MarkerKept
    BY <1>0, <1>8 DEF TimePasses, Threads, MarkerKept
  <2> QED
    BY <1>0, <1>8, <2>1, ThreadFrame DEF TimePasses, TypeOK
<1> QED
  BY <1>2, <1>3, <1>5, <1>6, <1>7, <1>8

\* A reply clears the marker and begins a new count of alerts.
LEMMA ReplyStep ==
  ASSUME IInv, NEW s \in ThreadStatuses, Reply(s)
  PROVE  IInv'
<1>0. /\ TypeOK /\ thread \in Threads /\ MaxPeriods \in Nat /\ resets \in Nat /\ claims \in Nat
      /\ 0 \in Hours
  BY EscalationAssumption DEF IInv, TypeOK
<1>1. /\ thread' \in Threads /\ thread'.period = thread.period + 1 /\ thread'.mark = NoMark
      /\ thread'.breached = thread.breached /\ thread'.period \in Periods
      /\ resets' = resets + 1 /\ UNCHANGED <<assigned, admins, check, alerts, claims>>
  <2>1. thread' \in Threads
    BY <1>0, ActivityType DEF Reply, Threads
  <2>2. /\ thread'.period = thread.period + 1 /\ thread'.mark = NoMark
        /\ thread'.breached = thread.breached
    BY <1>0 DEF Reply, Threads
  <2> QED
    BY <1>0, <2>1, <2>2 DEF Reply, Threads, history, Periods
<1>2. MarkInv'
  BY <1>0, <1>1 DEF IInv, MarkInv, Threads, NoMark
<1>3. TypeOK'
  BY <1>0, <1>1, <1>2 DEF TypeOK, MarkInv, Periods
<1>4. SentInv'
  BY <1>0, <1>1 DEF IInv, SentInv, Periods
<1>5. CheckInv'
  <2> SUFFICES ASSUME NEW c \in Checks, check[c] # Idle
               PROVE  check[c].period <= thread'.period
    BY <1>1 DEF IInv, CheckInv, NoMark
  <2>1. check[c].period \in Nat
    BY <1>0 DEF TypeOK, Locals
  <2> QED
    BY <1>0, <1>1, <2>1 DEF IInv, CheckInv, Threads
<1>6. OnceInv'
  BY <1>1 DEF IInv, OnceInv
<1> QED
  BY <1>2, <1>3, <1>4, <1>5, <1>6 DEF IInv

-----------------------------------------------------------------------------
\* The checks.

LEMMA ReadStep ==
  ASSUME IInv, NEW c \in Checks, CheckRead(c)
  PROVE  IInv'
<1> DEFINE l == [pc |-> IF Wants = 2 \/ WantsBreach THEN "admins" ELSE "claim",
                 wants |-> Wants, breach |-> WantsBreach, period |-> thread.period,
                 current |-> CurrentLevel(thread), mark |-> thread.mark, told |-> FALSE]
<1>0. TypeOK /\ thread \in Threads /\ check \in [Checks -> Locals]
  BY DEF IInv, TypeOK
<1>1. check' = [check EXCEPT ![c] = l] /\ UNCHANGED <<thread, assigned, admins, history, resets>>
  BY DEF CheckRead
<1>2. l \in Locals
  <2>1. WantsBreach \in BOOLEAN
    BY DEF WantsBreach
  <2> QED
    BY <1>0, <2>1, WantsMore DEF Locals, Threads
<1>3. CheckInv'
  <2> SUFFICES ASSUME NEW d \in Checks, check'[d] # Idle
               PROVE  /\ check'[d].period <= thread.period /\ check'[d].mark <= claims
                      /\ check'[d].mark = thread.mark /\ thread.mark # NoMark =>
                           /\ thread.markPeriod <= check'[d].period
                           /\ check'[d].current =
                                IF check'[d].period > thread.markPeriod THEN 0 ELSE thread.level
    BY <1>1 DEF CheckInv, history
  <2>1. CASE d = c
    <3>1. check'[d] = l
      BY <1>0, <1>1, <2>1
    <3>2. thread.mark <= claims /\ (thread.mark # NoMark => thread.markPeriod <= thread.period)
      BY DEF IInv, MarkInv
    <3> QED
      BY <1>0, <3>1, <3>2 DEF CurrentLevel, Threads
  <2>2. CASE d # c
    BY <1>0, <1>1, <2>2 DEF IInv, CheckInv
  <2> QED
    BY <2>1, <2>2
<1> QED
  <2>1. check' \in [Checks -> Locals]
    BY <1>0, <1>1, <1>2
  <2> QED
    BY <1>1, <1>3, <2>1, CheckFrame

LEMMA ReadAdminsStep ==
  ASSUME IInv, NEW c \in Checks, ReadAdmins(c)
  PROVE  IInv'
<1>0. /\ TypeOK /\ check \in [Checks -> Locals] /\ admins \in BOOLEAN
      /\ check[c] # Idle /\ check[c] \in Locals
  BY DEF IInv, TypeOK, ReadAdmins, Idle
<1>1. check' \in [Checks -> Locals]
  <2>1. [check[c] EXCEPT !.pc = "claim", !.told = admins] \in Locals
    BY <1>0 DEF Locals
  <2> QED
    BY <1>0, <2>1 DEF ReadAdmins
<1>2. \A d \in Checks : check'[d] # Idle =>
        /\ check[d] # Idle /\ check'[d].period = check[d].period
        /\ check'[d].mark = check[d].mark /\ check'[d].current = check[d].current
  BY <1>0 DEF ReadAdmins, Locals
<1>3. CheckInv'
  BY <1>2 DEF IInv, CheckInv, ReadAdmins, history
<1> QED
  BY <1>1, <1>3, CheckFrame DEF ReadAdmins

LEMMA FailsStep ==
  ASSUME IInv, NEW c \in Checks, CheckFails(c)
  PROVE  IInv'
<1>1. check' \in [Checks -> Locals] /\ \A d \in Checks : check'[d] # Idle => check'[d] = check[d]
  BY DEF IInv, TypeOK, CheckFails, Locals
<1>2. CheckInv'
  BY <1>1 DEF IInv, CheckInv, CheckFails, history
<1> QED
  BY <1>1, <1>2, CheckFrame DEF CheckFails

\* A claim that takes place is not yet notified: the marker is the one that the
\* check read, so that its period is later or its level higher than every alert
\* since the last reply.
LEMMA ClaimIsNew ==
  ASSUME IInv, NEW c \in Checks, check[c].pc = "claim", check[c].wants > 0, Unmoved(check[c])
  PROVE  LET t == check[c] IN
         /\ alerts[LevelAlert(t.wants, t.period, resets)] = 0
         /\ thread.mark # NoMark =>
              \/ thread.markPeriod < t.period
              \/ thread.markPeriod = t.period /\ thread.level < t.wants
<1> DEFINE t == check[c]
<1>0. /\ t # Idle /\ t.wants \in 1..2 /\ t.period \in Periods /\ resets \in Periods
      /\ t.period \in Nat /\ thread.markPeriod \in Nat /\ thread.level \in 0..2
      /\ thread.mark = t.mark /\ (t.current > 0 => thread.level < t.wants)
  BY DEF IInv, TypeOK, Locals, Idle, Periods, Unmoved, Threads
<1>1. thread.mark # NoMark =>
        \/ thread.markPeriod < t.period
        \/ thread.markPeriod = t.period /\ thread.level < t.wants
  <2> SUFFICES ASSUME thread.mark # NoMark
               PROVE  \/ thread.markPeriod < t.period
                      \/ thread.markPeriod = t.period /\ thread.level < t.wants
    OBVIOUS
  <2>1. /\ thread.level > 0 /\ thread.markPeriod <= t.period
        /\ t.current = IF t.period > thread.markPeriod THEN 0 ELSE thread.level
    BY <1>0 DEF IInv, CheckInv, MarkInv
  <2> QED
    BY <1>0, <2>1
<1>2. ~(alerts[LevelAlert(t.wants, t.period, resets)] > 0)
  <2> SUFFICES ASSUME alerts[LevelAlert(t.wants, t.period, resets)] > 0
               PROVE  FALSE
    OBVIOUS
  <2>1. /\ thread.mark # NoMark
        /\ t.period < thread.markPeriod \/ (t.period = thread.markPeriod /\ t.wants <= thread.level)
    BY <1>0 DEF IInv, SentInv
  <2> QED
    BY <1>0, <1>1, <2>1
<1>3. alerts[LevelAlert(t.wants, t.period, resets)] \in Nat
  BY <1>0, LevelAlertIsAlert DEF IInv, TypeOK
<1> QED
  BY <1>1, <1>2, <1>3

LEMMA ClaimStep ==
  ASSUME IInv, NEW c \in Checks, Claim(c)
  PROVE  IInv'
<1> DEFINE t == check[c]
           claimed == t.wants > 0 /\ (t.wants = 2 => t.told) /\ Unmoved(t)
           breached == t.breach /\ t.told /\ Breachable
           level == LevelAlert(t.wants, t.period, resets)
           breach == Alert("SLA_BREACH", t)
<1>0. /\ TypeOK /\ thread \in Threads /\ t # Idle /\ t \in Locals /\ t.pc = "claim"
      /\ t.wants \in 0..2 /\ t.period \in Periods /\ resets \in Periods /\ claims \in Nat
      /\ t.period \in Nat /\ thread.period \in Nat /\ t.period <= thread.period
      /\ alerts \in [Alerts -> Nat] /\ thread.mark <= claims /\ thread.mark \in Nat
  BY DEF IInv, TypeOK, Locals, Idle, Periods, Claim, CheckInv, MarkInv, Threads
<1>1. /\ claims' = IF claimed THEN claims + 1 ELSE claims
      /\ UNCHANGED <<assigned, admins, resets>>
      /\ check' = [check EXCEPT ![c] = Idle]
  BY DEF Claim
<1>2. \A a \in Alerts : alerts'[a] = IF (claimed /\ a = level) \/ (breached /\ a = breach)
                                     THEN alerts[a] + 1 ELSE alerts[a]
  BY DEF Claim, Alert, LevelAlert
<1>3. /\ thread'.period = thread.period /\ thread' \in Threads
      /\ thread'.breached = (thread.breached \/ breached)
      /\ claimed => /\ thread'.level = t.wants /\ thread'.mark = claims + 1
                    /\ thread'.markPeriod = t.period
      /\ ~claimed => /\ thread'.level = thread.level /\ thread'.mark = thread.mark
                     /\ thread'.markPeriod = thread.markPeriod
  <2>1. CASE claimed
    <3>1. thread' = [[thread EXCEPT !.level = t.wants, !.mark = claims + 1, !.markPeriod = t.period]
                       EXCEPT !.breached = @ \/ breached]
      BY <2>1 DEF Claim, MarkedAt
    <3>2. (thread.breached \/ breached) \in BOOLEAN /\ claims + 1 \in Nat
      BY <1>0
    <3>3. thread' \in Threads
      BY <1>0, <3>1, <3>2 DEF Threads, Periods
    <3>4. thread'.breached = (thread.breached \/ breached)
      BY <1>0, <3>1 DEF Threads
    <3> QED
      BY <1>0, <2>1, <3>1, <3>3, <3>4 DEF Threads
  <2>2. CASE ~claimed
    <3>1. thread' = [thread EXCEPT !.breached = @ \/ breached]
      BY <2>2 DEF Claim
    <3> QED
      BY <1>0, <2>2, <3>1 DEF Threads
  <2> QED
    BY <2>1, <2>2
<1>4. TypeOK'
  <2>1. alerts' \in [Alerts -> Nat]
    <3>1. alerts' = [a \in Alerts |-> alerts'[a]]
      BY DEF Claim
    <3> QED
      BY <1>0, <1>2, <3>1
  <2>2. claims' \in Nat /\ check' \in [Checks -> Locals]
    BY <1>0, <1>1 DEF TypeOK, Locals
  <2> QED
    BY <1>0, <1>1, <1>3, <2>1, <2>2 DEF TypeOK
<1>5. \A n \in 1..2, p \in Periods, r \in Periods :
        alerts'[LevelAlert(n, p, r)] =
          IF claimed /\ n = t.wants /\ p = t.period /\ r = resets
          THEN alerts[LevelAlert(n, p, r)] + 1 ELSE alerts[LevelAlert(n, p, r)]
  <2> SUFFICES ASSUME NEW n \in 1..2, NEW p \in Periods, NEW r \in Periods
               PROVE  alerts'[LevelAlert(n, p, r)] =
                        IF claimed /\ n = t.wants /\ p = t.period /\ r = resets
                        THEN alerts[LevelAlert(n, p, r)] + 1 ELSE alerts[LevelAlert(n, p, r)]
    OBVIOUS
  <2>1. LevelAlert(n, p, r) \in Alerts /\ LevelAlert(n, p, r) # breach
    BY LevelAlertIsAlert, LevelIsType DEF LevelAlert, Alert
  <2>2. claimed => (LevelAlert(n, p, r) = level <=> n = t.wants /\ p = t.period /\ r = resets)
    BY <1>0, LevelsDiffer DEF LevelAlert
  <2> QED
    BY <1>2, <2>1, <2>2
<1>6. claimed => /\ t.wants \in 1..2 /\ alerts[level] = 0 /\ level \in Alerts
                 /\ thread.mark # NoMark =>
                      \/ thread.markPeriod < t.period
                      \/ thread.markPeriod = t.period /\ thread.level < t.wants
  BY <1>0, ClaimIsNew, LevelAlertIsAlert
<1>7. MarkInv'
  <2>1. CASE claimed
    BY <1>0, <1>1, <1>3, <1>5, <1>6, <2>1 DEF IInv, MarkInv
  <2>2. CASE ~claimed
    <3>1. thread.mark # NoMark =>
            thread.level \in 1..2 /\ thread.markPeriod \in Periods
      BY <1>0 DEF IInv, MarkInv, Threads, Periods
    <3> QED
      BY <1>0, <1>1, <1>3, <1>5, <2>2, <3>1 DEF IInv, MarkInv
  <2> QED
    BY <2>1, <2>2
<1>8. SentInv'
  <2> SUFFICES ASSUME NEW n \in 1..2, NEW p \in Periods, NEW r \in Periods,
                      alerts'[LevelAlert(n, p, r)] > 0
               PROVE  /\ r <= resets
                      /\ r = resets =>
                           /\ thread'.mark # NoMark
                           /\ \/ p < thread'.markPeriod
                              \/ p = thread'.markPeriod /\ n <= thread'.level
    BY <1>1 DEF SentInv
  <2>0. p \in Nat /\ r \in Nat /\ resets \in Nat /\ thread.markPeriod \in Nat /\ thread.level \in 0..2
    BY <1>0 DEF Periods, Threads
  <2>1. CASE claimed /\ n = t.wants /\ p = t.period /\ r = resets
    BY <1>0, <1>3, <2>0, <2>1 DEF NoMark
  <2>2. CASE ~(claimed /\ n = t.wants /\ p = t.period /\ r = resets)
    <3>1. /\ r <= resets
          /\ r = resets => /\ thread.mark # NoMark
                           /\ p < thread.markPeriod \/ (p = thread.markPeriod /\ n <= thread.level)
      BY <1>5, <2>2 DEF IInv, SentInv
    <3>2. CASE claimed
      BY <1>0, <1>3, <1>6, <2>0, <3>1, <3>2 DEF NoMark
    <3>3. CASE ~claimed
      BY <1>3, <3>1, <3>3
    <3> QED
      BY <3>2, <3>3
  <2> QED
    BY <2>1, <2>2
<1>9. CheckInv'
  <2> SUFFICES ASSUME NEW d \in Checks, check'[d] # Idle
               PROVE  /\ check'[d].period <= thread'.period /\ check'[d].mark <= claims'
                      /\ check'[d].mark = thread'.mark /\ thread'.mark # NoMark =>
                           /\ thread'.markPeriod <= check'[d].period
                           /\ check'[d].current =
                                IF check'[d].period > thread'.markPeriod THEN 0 ELSE thread'.level
    BY DEF CheckInv
  <2>1. check'[d] = check[d] /\ check[d].mark \in Nat
    BY <1>0, <1>1 DEF TypeOK, Locals
  <2>2. check[d].period <= thread.period /\ check[d].mark <= claims
    BY <2>1 DEF IInv, CheckInv
  <2>3. CASE claimed
    BY <1>0, <1>1, <1>3, <2>1, <2>2, <2>3
  <2>4. CASE ~claimed
    BY <1>1, <1>3, <2>1, <2>4 DEF IInv, CheckInv
  <2> QED
    BY <2>3, <2>4
<1>10. OnceInv'
  <2>1. breach \in Alerts /\ breach.type = "SLA_BREACH"
    BY <1>0 DEF Alert, Alerts, Types, Periods
  <2>2. claimed => level.type # "SLA_BREACH"
    BY <1>6, LevelIsType DEF LevelAlert
  <2>3. breached => ~thread.breached
    BY DEF Breachable
  <2>4. breached => \A a \in Alerts : a.type = "SLA_BREACH" => ~(alerts[a] > 0)
    BY <2>3 DEF IInv, OnceInv
  <2>5. \A a \in Alerts : alerts'[a] <= 1
    <3> SUFFICES ASSUME NEW a \in Alerts PROVE alerts'[a] <= 1
      OBVIOUS
    <3>1. alerts[a] \in Nat /\ alerts[a] <= 1
      BY <1>0 DEF IInv, OnceInv
    <3> QED
      BY <1>2, <1>6, <2>1, <2>4, <3>1
  <2>6. \A a \in Alerts : a.type = "SLA_BREACH" /\ alerts'[a] > 0 =>
          (breached /\ a = breach) \/ (~breached /\ alerts[a] > 0)
    BY <1>0, <1>2, <2>2, <2>4
  <2>7. \A a \in Alerts : a.type = "SLA_BREACH" /\ alerts'[a] > 0 =>
          /\ thread'.breached
          /\ \A b \in Alerts : b.type = "SLA_BREACH" /\ alerts'[b] > 0 => a = b
    BY <1>3, <2>6 DEF IInv, OnceInv
  <2> QED
    BY <2>5, <2>7 DEF OnceInv
<1> QED
  BY <1>4, <1>7, <1>8, <1>9, <1>10 DEF IInv

-----------------------------------------------------------------------------
\* Whoever writes the thread, and whichever checks overlap, IInv is kept.
LEMMA NextStep == IInv /\ [Next]_vars => IInv'
<1> SUFFICES ASSUME IInv, [Next]_vars PROVE IInv'
  OBVIOUS
<1>1. CASE UNCHANGED vars
  BY <1>1 DEF vars, history, IInv, TypeOK, MarkInv, SentInv, CheckInv, OnceInv
<1>2. CASE \E c \in Checks : CheckRead(c) \/ ReadAdmins(c) \/ Claim(c) \/ CheckFails(c)
  BY <1>2, ReadStep, ReadAdminsStep, ClaimStep, FailsStep
<1>3. CASE RecordSend \/ MarkSent
  BY <1>3, ReplyStep DEF RecordSend, MarkSent, ThreadStatuses
<1> QED
  BY <1>1, <1>2, <1>3, WritersStep DEF Next

LEMMA Inductive == Spec => []IInv
BY InitHolds, NextStep, PTL DEF Spec

\* Every variable has its type: a check holds what it read of a thread, and the
\* levels, markers and counts stay in range.
THEOREM TypeCorrect == Spec => []TypeOK
<1>1. IInv => TypeOK
  BY DEF IInv
<1> QED
  BY <1>1, Inductive, PTL

\* claimEscalationLevel and the breach's conditional update: whichever sweeps,
\* delayed checks and other writers overlap, no level is notified twice about a
\* quiet period without a reply in between, and the breach once.
THEOREM RepeatNeedsReplyHolds == Spec => []RepeatNeedsReply
<1>1. ASSUME IInv PROVE RepeatNeedsReply
  <2> DEFINE B == {a \in Alerts : a.type = "SLA_BREACH" /\ alerts[a] > 0}
  <2>1. Cardinality(B) <= 1
    <3>1. CASE B = {}
      BY <3>1, FS_EmptySet
    <3>2. CASE B # {}
      <4>1. PICK b \in B : TRUE
        BY <3>2
      <4>2. B = {b}
        BY <1>1, <4>1 DEF IInv, OnceInv
      <4>3. Cardinality({b}) = 1
        BY FS_Singleton
      <4> QED
        BY <4>2, <4>3
    <3> QED
      BY <3>1, <3>2
  <2> QED
    BY <1>1, <2>1 DEF IInv, OnceInv, RepeatNeedsReply
<1> QED
  BY <1>1, Inductive, PTL

\* The marker is set to the time at which the check read the thread: a claim
\* that comes after a reply or a message leaves the new period's levels open.
THEOREM NeverSilencedHolds == Spec => []NeverSilenced
<1>1. ASSUME IInv PROVE NeverSilenced
  <2> SUFFICES ASSUME CurrentLevel(thread) > 0
               PROVE  \E a \in Alerts : /\ a.period = thread.period
                                        /\ a.type = Level[CurrentLevel(thread)]
                                        /\ alerts[a] > 0
    BY DEF NeverSilenced
  <2> DEFINE a == LevelAlert(thread.level, thread.markPeriod, resets)
  <2>1. thread \in Threads /\ resets \in Periods
    BY <1>1 DEF IInv, TypeOK, Periods
  <2>2. thread.mark # NoMark /\ ~(thread.period > thread.markPeriod) /\ CurrentLevel(thread) = thread.level
    BY DEF CurrentLevel
  <2>3. thread.level > 0 /\ thread.markPeriod <= thread.period /\ alerts[a] > 0
    BY <1>1, <2>2 DEF IInv, MarkInv
  <2>4. thread.markPeriod = thread.period /\ thread.level \in 1..2 /\ thread.markPeriod \in Periods
    BY <2>1, <2>2, <2>3 DEF Threads, Periods
  <2>5. a \in Alerts /\ a.period = thread.period /\ a.type = Level[CurrentLevel(thread)]
    BY <2>1, <2>2, <2>4, LevelAlertIsAlert DEF LevelAlert
  <2> QED
    BY <2>3, <2>5
<1> QED
  BY <1>1, Inductive, PTL


-----------------------------------------------------------------------------
\* The marker of the row is later, or of a higher level, or it is the same.
Onward ==
  \/ UNCHANGED <<thread.mark, thread.markPeriod, thread.level>>
  \/ thread.markPeriod < thread'.markPeriod
  \/ thread.markPeriod = thread'.markPeriod /\ thread.level < thread'.level

\* Only a reply takes the marker back, although a check writes the time of a
\* read that may be older than the claims of other checks; and nothing takes
\* back that the SLA was breached.
MarkerAdvances ==
  [][/\ thread.mark # NoMark /\ resets' = resets => thread'.mark # NoMark /\ Onward
     /\ thread.breached => thread'.breached]_vars

\* Of two checks that overlap, the one that read earlier never overwrites the
\* claim of the other.
THEOREM MarkerAdvancesHolds == Spec => MarkerAdvances
<1> DEFINE Kept == UNCHANGED <<thread.mark, thread.markPeriod, thread.level, thread.breached>>
           Advance == /\ thread.mark # NoMark /\ resets' = resets => thread'.mark # NoMark /\ Onward
                      /\ thread.breached => thread'.breached
<1>1. IInv /\ [Next]_vars => [Advance]_vars
  <2> SUFFICES ASSUME IInv, Next PROVE Advance
    OBVIOUS
  <2>0. thread \in Threads /\ resets \in Nat
    BY DEF IInv, TypeOK
  <2>1. CASE Kept
    BY <2>1 DEF Onward
  <2>2. CASE \/ AddMessage \/ IngestMail
             \/ \E s \in ThreadStatuses, p \in Priorities : UpdateThread(s, p)
             \/ SnoozeThread \/ ResolveThread \/ AssignThread \/ AdminsChange \/ TimePasses
    <3>1. Kept
      BY <2>0, <2>2 DEF AddMessage, Activity, IngestMail, UpdateThread, SnoozeThread,
                        ResolveThread, AssignThread, AdminsChange, TimePasses, Threads
    <3> QED
      BY <2>1, <3>1
  <2>3. CASE RecordSend \/ MarkSent
    <3>1. resets' # resets
      BY <2>0, <2>3 DEF RecordSend, MarkSent, Reply
    <3>2. thread'.breached = thread.breached
      BY <2>0, <2>3 DEF RecordSend, MarkSent, Reply, Threads
    <3> QED
      BY <3>1, <3>2
  <2>4. ASSUME NEW c \in Checks, CheckRead(c) \/ ReadAdmins(c) \/ CheckFails(c)
        PROVE  Advance
    BY <2>1, <2>4 DEF CheckRead, ReadAdmins, CheckFails
  <2>5. ASSUME NEW c \in Checks, Claim(c)
        PROVE  Advance
    <3> DEFINE t == check[c]
               claimed == t.wants > 0 /\ (t.wants = 2 => t.told) /\ Unmoved(t)
    <3>1. thread.breached => thread'.breached
      BY <2>0, <2>5 DEF Claim, Threads
    <3>2. CASE claimed
      <4>1. t.pc = "claim" /\ t.wants > 0 /\ Unmoved(t) /\ claims \in Nat
        BY <2>5, <3>2 DEF Claim, IInv, TypeOK
      <4>2. thread'.level = t.wants /\ thread'.mark = claims + 1 /\ thread'.markPeriod = t.period
        BY <2>0, <2>5, <3>2 DEF Claim, MarkedAt, Threads
      <4>3. thread.mark # NoMark =>
              \/ thread.markPeriod < t.period
              \/ thread.markPeriod = t.period /\ thread.level < t.wants
        BY <4>1, ClaimIsNew
      <4> QED
        BY <3>1, <4>1, <4>2, <4>3 DEF Onward, NoMark
    <3>3. CASE ~claimed
      <4>1. UNCHANGED <<thread.mark, thread.markPeriod, thread.level>>
        BY <2>0, <2>5, <3>3 DEF Claim, Threads
      <4> QED
        BY <3>1, <4>1 DEF Onward
    <3> QED
      BY <3>2, <3>3
  <2> QED
    BY <2>2, <2>3, <2>4, <2>5 DEF Next
<1> QED
  BY <1>1, Inductive, PTL DEF Spec, MarkerAdvances
=============================================================================
