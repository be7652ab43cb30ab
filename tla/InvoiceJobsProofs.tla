-------------------------- MODULE InvoiceJobsProofs --------------------------
(***************************************************************************)
(* Proofs about the overdue and recurring jobs, for any number of runs of  *)
(* each, any length of the clock, due date, escalation delay and interval. *)
(***************************************************************************)
EXTENDS InvoiceJobs, TLAPS

-----------------------------------------------------------------------------
\* The locals of a run that wrote its claim and is not over.
Active(l) == l.pc \in {"send", "release"}
Reminds(l) == Active(l) /\ OverdueReminderStage(l) = "REMINDER"
Escalates(l) == Active(l) /\ OverdueReminderStage(l) = "ESCALATION"

\* An escalation owns both columns until it is released, so that no other run
\* claims or releases meanwhile.
EscalationInv ==
  /\ overdueEscalatedAt # None =>
       /\ reminderSentAt = overdueEscalatedAt
       /\ chase[overdueEscalatedAt].pc \in {"send", "release", "done", "dead"}
       /\ ~Reminds(chase[overdueEscalatedAt])
  /\ \A r \in Chasers : Escalates(chase[r]) => overdueEscalatedAt = r
  /\ accepted["ESCALATION"] \in {0, 1}
  /\ accepted["ESCALATION"] = 1 =>
       overdueEscalatedAt # None /\ ~Active(chase[overdueEscalatedAt])

\* One run reminds at a time.  Its claim is on the row, or an escalation that
\* claimed over it will put it back.
ReminderInv ==
  /\ \A r \in Chasers :
       chase[r].pc \in {"claim", "send", "release"} => OverdueReminderStage(chase[r]) \in Stages
  /\ \A r, s \in Chasers : Reminds(chase[r]) /\ Reminds(chase[s]) => r = s
  /\ \A r \in Chasers : Reminds(chase[r]) =>
       /\ accepted["REMINDER"] = 0
       /\ \/ reminderSentAt = r
          \/ /\ overdueEscalatedAt # None
             /\ Active(chase[overdueEscalatedAt]) => chase[overdueEscalatedAt].reminder = r
  /\ accepted["REMINDER"] \in {0, 1}
  /\ accepted["REMINDER"] = 1 =>
       /\ reminderSentAt # None
       /\ overdueEscalatedAt # None /\ Active(chase[overdueEscalatedAt]) =>
            chase[overdueEscalatedAt].reminder # None

\* The dates billed lie in the past and before the next one; a run that is about
\* to bill has read a date that has come.
BillingInv ==
  /\ \A d \in Dates : copies[d] \in {0, 1}
  /\ \A d \in Dates : copies[d] = 1 => d <= clock /\ (nextDate = 0 \/ d < nextDate)
  /\ \A b \in Billers : bill[b].pc = "bill" =>
       bill[b].date \in Dates /\ bill[b].date <= bill[b].now /\ bill[b].now <= clock

\* A void remembers a status an undo may put back.
VoidInv == status = "VOID" => voidedFrom \in Voidable

IInv == TypeOK /\ VoidInv /\ EscalationInv /\ ReminderInv /\ BillingInv

-----------------------------------------------------------------------------
\* The billing dates.

LEMMA DatesPositive == Dates \subseteq Nat \ {0}
<1> SUFFICES ASSUME NEW k \in 1..(MaxTime + 1) PROVE k * Interval \in Nat \ {0}
  BY DEF Dates
<1> QED
  BY JobsAssumption

\* firstRecurringDate finds a date within the clock's bound, and after now.
LEMMA FirstRecurringDateIsLater ==
  ASSUME NEW now \in 0..MaxTime
  PROVE  FirstRecurringDate(now) \in Dates /\ FirstRecurringDate(now) > now
<1> DEFINE k == now \div Interval
<1>1. k \in Nat /\ k * Interval <= now /\ now < k * Interval + Interval
  BY JobsAssumption
<1>2. k <= now
  BY <1>1, JobsAssumption
<1> HIDE DEF k
<1>3. (k + 1) * Interval = k * Interval + Interval
  BY <1>1, JobsAssumption
<1>4. k + 1 \in 1..(MaxTime + 1)
  BY <1>1, <1>2, JobsAssumption
<1>5. \E d \in Dates : d > now /\ d - Interval <= now
  <2>1. (k + 1) * Interval \in Dates
    BY <1>4 DEF Dates
  <2>2. k * Interval \in Nat
    BY <1>1, JobsAssumption
  <2>3. (k + 1) * Interval > now /\ (k + 1) * Interval - Interval <= now
    BY <1>1, <1>3, <2>2, JobsAssumption
  <2> QED
    BY <2>1, <2>3
<1> QED
  BY <1>5 DEF FirstRecurringDate

-----------------------------------------------------------------------------
\* How a step changes the locals of its run.

Locals == [pc : {"idle", "mark", "claim", "send", "release", "done", "released", "dead"},
           now : 0..MaxTime, status : Open \cup {None}, reminder : Chasers \cup {None}]

\* Run r is now at p and the others are where they were.
At(r, p) ==
  /\ chase' \in [Chasers -> Locals]
  /\ chase'[r].pc = p
  /\ \A s \in Chasers : s # r => chase'[s] = chase[s]

\* The same, with what it read of the row.
Moves(r, p) ==
  /\ At(r, p)
  /\ chase'[r].reminder = chase[r].reminder
  /\ OverdueReminderStage(chase'[r]) = OverdueReminderStage(chase[r])

LEMMA GoesMoves ==
  ASSUME TypeOK, NEW r \in Chasers, NEW p \in {"claim", "send", "release"},
         chase' = [chase EXCEPT ![r].pc = p]
  PROVE  Moves(r, p)
  BY DEF TypeOK, Moves, At, Locals, OverdueReminderStage

LEMMA EndsAt ==
  ASSUME TypeOK, NEW r \in Chasers, NEW p \in {"done", "released", "dead"}, Ends(r, p)
  PROVE  At(r, p)
  BY JobsAssumption DEF TypeOK, Ends, At, Locals, NotStarted

LEMMA StageValues ==
  ASSUME TypeOK, NEW r \in Chasers
  PROVE  /\ OverdueReminderStage(chase[r]) \in Stages \cup {None}
         /\ OverdueReminderStage(chase[r]) = "REMINDER" => chase[r].reminder = None
  BY DEF OverdueReminderStage, Stages, None

LEMMA ChaserFrame ==
  ASSUME EscalationInv, ReminderInv,
         UNCHANGED <<reminderSentAt, overdueEscalatedAt, chase, accepted>>
  PROVE  EscalationInv' /\ ReminderInv'
  BY DEF EscalationInv, ReminderInv

LEMMA BillerFrame ==
  ASSUME BillingInv, UNCHANGED <<clock, nextDate, bill, copies>>
  PROVE  BillingInv'
  BY DEF BillingInv

\* A run that moves without a claim, or ends with the claim it wrote.
LEMMA QuietChaser ==
  ASSUME IInv, NEW r \in Chasers, NEW p \in {"mark", "claim", "done", "dead"}, At(r, p),
         p = "claim" => OverdueReminderStage(chase'[r]) \in Stages,
         overdueEscalatedAt = r => p \in {"done", "dead"},
         UNCHANGED <<reminderSentAt, overdueEscalatedAt, accepted>>
  PROVE  EscalationInv' /\ ReminderInv'
<1>1. ~Active(chase'[r]) /\ ~Reminds(chase'[r]) /\ ~Escalates(chase'[r])
  BY DEF At, Active, Reminds, Escalates
<1>2. overdueEscalatedAt \in Chasers \cup {None}
  BY DEF IInv, TypeOK
<1>3. EscalationInv'
  BY <1>1, <1>2 DEF IInv, EscalationInv, At
<1>4. ReminderInv'
  BY <1>1, <1>2 DEF IInv, ReminderInv, At
<1> QED
  BY <1>3, <1>4

\* The claim: whoever else is sending a reminder has its claim on the row, so
\* only an escalation that read that claim can follow it.
LEMMA ClaimChaser ==
  ASSUME IInv, NEW r \in Chasers, chase[r].pc = "claim", MayClaim(r), Moves(r, "send"),
         reminderSentAt' = r,
         overdueEscalatedAt' = IF Stage(r) = "ESCALATION" THEN r ELSE overdueEscalatedAt,
         UNCHANGED accepted
  PROVE  EscalationInv' /\ ReminderInv'
<1>0. /\ Active(chase'[r]) /\ ~Active(chase[r])
      /\ \A s \in Chasers : s # r => chase'[s] = chase[s]
      /\ OverdueReminderStage(chase'[r]) = OverdueReminderStage(chase[r])
      /\ chase'[r].reminder = chase[r].reminder /\ chase'[r].pc = "send"
      /\ chase[r].reminder = reminderSentAt
      /\ r # None /\ overdueEscalatedAt \in Chasers \cup {None}
  BY JobsAssumption DEF Moves, At, Active, MayClaim, IInv, TypeOK
<1>1. CASE OverdueReminderStage(chase[r]) = "ESCALATION"
  <2>1. overdueEscalatedAt = None /\ overdueEscalatedAt' = r
    BY <1>1 DEF MayClaim, Stage
  <2>2. Escalates(chase'[r]) /\ ~Reminds(chase'[r])
    BY <1>0, <1>1 DEF Escalates, Reminds
  <2>3. EscalationInv'
    BY <1>0, <2>1, <2>2, JobsAssumption DEF IInv, EscalationInv
  <2>4. ReminderInv'
    BY <1>0, <1>1, <2>1, <2>2 DEF IInv, ReminderInv, Stages
  <2> QED
    BY <2>3, <2>4
<1>2. CASE OverdueReminderStage(chase[r]) = "REMINDER"
  <2>1. reminderSentAt = None
    BY <1>0, <1>2, StageValues DEF IInv
  <2>2. overdueEscalatedAt = None /\ overdueEscalatedAt' = None
    BY <1>2, <2>1 DEF Stage, IInv, EscalationInv
  <2>3. \A s \in Chasers : ~Reminds(chase[s])
    BY <2>1, <2>2, JobsAssumption DEF IInv, ReminderInv
  <2>4. Reminds(chase'[r]) /\ ~Escalates(chase'[r])
    BY <1>0, <1>2 DEF Escalates, Reminds
  <2>5. accepted["REMINDER"] = 0
    BY <2>1 DEF IInv, ReminderInv
  <2>6. EscalationInv'
    BY <1>0, <2>2, <2>4 DEF IInv, EscalationInv
  <2>7. ReminderInv'
    BY <1>0, <1>2, <2>2, <2>3, <2>4, <2>5 DEF IInv, ReminderInv, Stages
  <2> QED
    BY <2>6, <2>7
<1> QED
  BY <1>1, <1>2 DEF IInv, ReminderInv, Stages

LEMMA SendChaser ==
  ASSUME IInv, NEW r \in Chasers, chase[r].pc = "send", At(r, "done"),
         accepted' = [accepted EXCEPT ![Stage(r)] = @ + 1],
         UNCHANGED <<reminderSentAt, overdueEscalatedAt>>
  PROVE  EscalationInv' /\ ReminderInv'
<1>0. /\ ~Active(chase'[r]) /\ ~Reminds(chase'[r]) /\ ~Escalates(chase'[r])
      /\ \A s \in Chasers : s # r => chase'[s] = chase[s]
      /\ chase'[r].pc = "done" /\ Active(chase[r])
      /\ r # None /\ overdueEscalatedAt \in Chasers \cup {None}
      /\ accepted \in [Stages -> Nat]
  BY JobsAssumption DEF At, Active, Reminds, Escalates, IInv, TypeOK
<1>1. CASE OverdueReminderStage(chase[r]) = "ESCALATION"
  <2>1. Escalates(chase[r]) /\ overdueEscalatedAt = r
    BY <1>0, <1>1 DEF Escalates, IInv, EscalationInv
  <2>2. accepted["ESCALATION"] = 0
    BY <1>0, <2>1 DEF IInv, EscalationInv
  <2>3. accepted'["ESCALATION"] = 1 /\ accepted'["REMINDER"] = accepted["REMINDER"]
    BY <1>0, <1>1, <2>2 DEF Stage, Stages
  <2>4. EscalationInv'
    BY <1>0, <2>1, <2>3 DEF IInv, EscalationInv
  <2>5. ReminderInv'
    BY <1>0, <2>1, <2>3 DEF IInv, ReminderInv
  <2> QED
    BY <2>4, <2>5
<1>2. CASE OverdueReminderStage(chase[r]) = "REMINDER"
  <2>1. Reminds(chase[r])
    BY <1>0, <1>2 DEF Reminds
  <2>2. accepted["REMINDER"] = 0 /\ \A s \in Chasers \ {r} : ~Reminds(chase[s])
    BY <2>1 DEF IInv, ReminderInv
  <2>3. accepted'["REMINDER"] = 1 /\ accepted'["ESCALATION"] = accepted["ESCALATION"]
    BY <1>0, <1>2, <2>2 DEF Stage, Stages
  <2>4. overdueEscalatedAt # r
    BY <1>0, <2>1 DEF IInv, EscalationInv
  <2>5. \/ reminderSentAt = r /\ overdueEscalatedAt = None
        \/ /\ overdueEscalatedAt # None /\ reminderSentAt = overdueEscalatedAt
           /\ Active(chase[overdueEscalatedAt]) => chase[overdueEscalatedAt].reminder = r
    BY <1>0, <2>1, <2>4 DEF IInv, ReminderInv, EscalationInv
  <2>6. EscalationInv'
    BY <1>0, <2>3, <2>4 DEF IInv, EscalationInv
  <2>7. ReminderInv'
    BY <1>0, <2>2, <2>3, <2>4, <2>5 DEF IInv, ReminderInv
  <2> QED
    BY <2>6, <2>7
<1> QED
  BY <1>1, <1>2 DEF IInv, ReminderInv, Stages

LEMMA NotAcceptedChaser ==
  ASSUME IInv, NEW r \in Chasers, chase[r].pc = "send", Moves(r, "release"),
         UNCHANGED <<reminderSentAt, overdueEscalatedAt, accepted>>
  PROVE  EscalationInv' /\ ReminderInv'
<1>0. /\ \A s \in Chasers : /\ Active(chase'[s]) <=> Active(chase[s])
                            /\ Reminds(chase'[s]) <=> Reminds(chase[s])
                            /\ Escalates(chase'[s]) <=> Escalates(chase[s])
                            /\ chase'[s].reminder = chase[s].reminder
                            /\ s # r => chase'[s] = chase[s]
      /\ chase'[r].pc = "release"
      /\ OverdueReminderStage(chase'[r]) = OverdueReminderStage(chase[r])
      /\ overdueEscalatedAt \in Chasers \cup {None}
  BY DEF Moves, At, Active, Reminds, Escalates, IInv, TypeOK
<1>1. EscalationInv'
  BY <1>0 DEF IInv, EscalationInv
<1>2. ReminderInv'
  BY <1>0 DEF IInv, ReminderInv
<1> QED
  BY <1>1, <1>2

LEMMA ReleaseChaser ==
  ASSUME IInv, NEW r \in Chasers, chase[r].pc = "release", At(r, "released"),
         \/ /\ OwnClaim(r)
            /\ reminderSentAt' = chase[r].reminder
            /\ overdueEscalatedAt' = ReleasedEscalation(r)
         \/ ~OwnClaim(r) /\ UNCHANGED <<reminderSentAt, overdueEscalatedAt>>,
         UNCHANGED accepted
  PROVE  EscalationInv' /\ ReminderInv'
<1>0. /\ ~Active(chase'[r]) /\ ~Reminds(chase'[r]) /\ ~Escalates(chase'[r])
      /\ \A s \in Chasers : s # r => chase'[s] = chase[s]
      /\ chase'[r].pc = "released" /\ Active(chase[r])
      /\ r # None /\ overdueEscalatedAt \in Chasers \cup {None}
  BY JobsAssumption DEF At, Active, Reminds, Escalates, IInv, TypeOK
<1>1. CASE OverdueReminderStage(chase[r]) = "ESCALATION"
  <2>1. Escalates(chase[r]) /\ overdueEscalatedAt = r /\ reminderSentAt = r
    BY <1>0, <1>1 DEF Escalates, IInv, EscalationInv
  <2>2. reminderSentAt' = chase[r].reminder /\ overdueEscalatedAt' = None
    BY <1>1, <2>1 DEF OwnClaim, ReleasedEscalation, Stage
  <2>3. \A s \in Chasers : ~Escalates(chase'[s])
    BY <1>0, <2>1 DEF IInv, EscalationInv
  <2>4. EscalationInv'
    BY <1>0, <2>1, <2>2, <2>3 DEF IInv, EscalationInv
  <2>5. ReminderInv'
    BY <1>0, <2>1, <2>2 DEF IInv, ReminderInv, EscalationInv
  <2> QED
    BY <2>4, <2>5
<1>2. CASE OverdueReminderStage(chase[r]) = "REMINDER"
  <2>1. Reminds(chase[r]) /\ overdueEscalatedAt # r /\ overdueEscalatedAt' = overdueEscalatedAt
    BY <1>0, <1>2 DEF Reminds, IInv, EscalationInv, ReleasedEscalation, Stage
  <2>2. accepted["REMINDER"] = 0 /\ \A s \in Chasers : ~Reminds(chase'[s])
    BY <1>0, <2>1 DEF IInv, ReminderInv
  <2>3. overdueEscalatedAt # None => UNCHANGED reminderSentAt
    BY <2>1 DEF OwnClaim, IInv, EscalationInv
  <2>4. EscalationInv'
    BY <1>0, <2>1, <2>3 DEF IInv, EscalationInv
  <2>5. ReminderInv'
    BY <1>0, <2>2 DEF IInv, ReminderInv
  <2> QED
    BY <2>4, <2>5
<1> QED
  BY <1>1, <1>2 DEF IInv, ReminderInv, Stages

LEMMA ChaserSteps ==
  ASSUME IInv, NEW r \in Chasers, ChaserStep(r)
  PROVE  IInv'
<1>0. TypeOK /\ r # None
  BY JobsAssumption DEF IInv
<1> DEFINE Chased == EscalationInv' /\ ReminderInv' /\ chase' \in [Chasers -> Locals]
<1>1. CASE ReadPage(r)
  <2>1. At(r, "mark")
    BY <1>0, <1>1 DEF ReadPage, TypeOK, At, Locals
  <2> QED
    <3>1. Chased
      BY <1>0, <1>1, <2>1, QuietChaser DEF ReadPage, row, history, At
    <3> QED
      BY <1>1, <3>1, BillerFrame DEF ReadPage, row, history, IInv, TypeOK, VoidInv, Locals
<1>2. CASE MarkOverdue(r)
  <2>1. (At(r, "claim") /\ OverdueReminderStage(chase'[r]) \in Stages) \/ At(r, "done")
    <3>1. CASE chase' = [chase EXCEPT ![r].pc = "claim"] /\ Stage(r) # None
      BY <1>0, <3>1, GoesMoves, StageValues DEF Moves, Stage
    <3>2. CASE Ends(r, "done")
      BY <1>0, <3>2, EndsAt
    <3> QED
      BY <1>2, <3>1, <3>2 DEF MarkOverdue
  <2>2. overdueEscalatedAt # r
    BY <1>0, <1>2 DEF MarkOverdue, IInv, EscalationInv
  <2>3. Chased
    BY <1>0, <1>2, <2>1, <2>2, QuietChaser DEF MarkOverdue, history, At
  <2>4. status' \in Voidable \cup {"PAID", "VOID"} /\ VoidInv'
    BY <1>2 DEF MarkOverdue, IInv, TypeOK, VoidInv, Voidable, Open
  <2> QED
    BY <1>2, <2>3, <2>4, BillerFrame DEF MarkOverdue, history, IInv, TypeOK, Locals
<1>3. CASE ClaimOverdueStage(r)
  <2>1. Chased /\ reminderSentAt' \in Chasers \cup {None} /\ overdueEscalatedAt' \in Chasers \cup {None}
    <3>1. CASE /\ MayClaim(r)
               /\ reminderSentAt' = r
               /\ overdueEscalatedAt' = IF Stage(r) = "ESCALATION" THEN r ELSE overdueEscalatedAt
               /\ chase' = [chase EXCEPT ![r].pc = "send"]
      <4>1. Moves(r, "send")
        BY <1>0, <3>1, GoesMoves
      <4> QED
        BY <1>0, <1>3, <3>1, <4>1, ClaimChaser DEF ClaimOverdueStage, history, Moves, At, TypeOK
    <3>2. CASE Ends(r, "done") /\ UNCHANGED <<reminderSentAt, overdueEscalatedAt>>
      <4>1. At(r, "done")
        BY <1>0, <3>2, EndsAt
      <4> QED
        BY <1>0, <1>3, <3>2, <4>1, QuietChaser DEF ClaimOverdueStage, history, At, TypeOK
    <3> QED
      BY <1>3, <3>1, <3>2 DEF ClaimOverdueStage
  <2> QED
    BY <1>3, <2>1, BillerFrame DEF ClaimOverdueStage, history, IInv, TypeOK, VoidInv, Locals
<1>4. CASE SendOverdueEmail(r)
  <2>1. At(r, "done")
    BY <1>0, <1>4, EndsAt DEF SendOverdueEmail
  <2>2. Chased
    BY <1>4, <2>1, SendChaser DEF SendOverdueEmail, row, At
  <2>3. Stage(r) \in Stages
    BY <1>4 DEF SendOverdueEmail, Stage, IInv, ReminderInv
  <2>4. accepted' \in [Stages -> Nat]
    BY <1>0, <1>4, <2>3 DEF SendOverdueEmail, TypeOK
  <2> QED
    BY <1>4, <2>2, <2>4, BillerFrame DEF SendOverdueEmail, row, IInv, TypeOK, VoidInv, Locals
<1>5. CASE NobodyToTell(r)
  <2>1. At(r, "done")
    BY <1>0, <1>5, EndsAt DEF NobodyToTell
  <2>2. Chased
    BY <1>5, <2>1, QuietChaser DEF NobodyToTell, row, history, At
  <2> QED
    BY <1>5, <2>2, BillerFrame DEF NobodyToTell, row, history, IInv, TypeOK, VoidInv, Locals
<1>6. CASE NotAccepted(r)
  <2>1. Moves(r, "release")
    BY <1>0, <1>6, GoesMoves DEF NotAccepted
  <2>2. Chased
    BY <1>6, <2>1, NotAcceptedChaser DEF NotAccepted, row, history, At, Moves
  <2> QED
    BY <1>6, <2>2, BillerFrame DEF NotAccepted, row, history, IInv, TypeOK, VoidInv, Locals
<1>7. CASE ReleaseClaim(r)
  <2>1. At(r, "released")
    BY <1>0, <1>7, EndsAt DEF ReleaseClaim
  <2>2. Chased
    BY <1>7, <2>1, ReleaseChaser DEF ReleaseClaim, history, At
  <2>3. reminderSentAt' \in Chasers \cup {None} /\ overdueEscalatedAt' \in Chasers \cup {None}
    BY <1>0, <1>7 DEF ReleaseClaim, ReleasedEscalation, TypeOK
  <2> QED
    BY <1>7, <2>2, <2>3, BillerFrame DEF ReleaseClaim, history, IInv, TypeOK, VoidInv, Locals
<1>8. CASE ChaserFails(r)
  <2>1. At(r, "dead")
    BY <1>0, <1>8, EndsAt DEF ChaserFails
  <2>2. Chased
    BY <1>8, <2>1, QuietChaser DEF ChaserFails, row, history, At
  <2>3. faults' \in 0..MaxFaults
    BY <1>0, <1>8, JobsAssumption DEF ChaserFails, TypeOK
  <2> QED
    BY <1>8, <2>2, <2>3, BillerFrame DEF ChaserFails, row, history, IInv, TypeOK, VoidInv, Locals
<1> QED
  BY <1>1, <1>2, <1>3, <1>4, <1>5, <1>6, <1>7, <1>8 DEF ChaserStep

LEMMA GenerateStep ==
  ASSUME IInv, NEW b \in Billers, GenerateInvoice(b)
  PROVE  IInv'
<1> DEFINE d == bill[b].date
           now == bill[b].now
<1>0. /\ TypeOK /\ d \in Dates /\ d <= now /\ now <= clock /\ now \in 0..MaxTime
      /\ clock \in Nat
  BY DEF GenerateInvoice, IInv, TypeOK, BillingInv
<1>1. bill' \in [Billers -> [pc : {"idle", "bill"}, now : 0..MaxTime, date : Dates \cup {0}]]
      /\ \A c \in Billers : bill'[c].pc = "bill" => bill'[c] = bill[c]
  BY JobsAssumption DEF GenerateInvoice, NotBilling, IInv, TypeOK
<1>2. EscalationInv' /\ ReminderInv'
  BY ChaserFrame DEF GenerateInvoice, IInv
<1>3. nextDate' \in Dates \cup {0} /\ copies' \in [Dates -> Nat] /\ BillingInv'
  <2>1. CASE /\ MayBill(b)
             /\ nextDate' = NextBilling(b)
             /\ copies' = [copies EXCEPT ![d] = @ + 1]
    <3>1. nextDate' \in Dates /\ nextDate' > now
      BY <1>0, <2>1, FirstRecurringDateIsLater DEF NextBilling
    <3>2. nextDate = d /\ d # 0 /\ d \in Nat /\ now \in Nat /\ nextDate' \in Nat
          /\ \A e \in Dates : e \in Nat
      <4>1. nextDate = d
        BY <2>1 DEF MayBill
      <4>2. \A e \in Dates : e \in Nat /\ e # 0
        BY DatesPositive
      <4>3. now \in Nat
        BY <1>0, JobsAssumption
      <4> QED
        BY <1>0, <3>1, <4>1, <4>2, <4>3
    <3>3. copies[d] = 0
      <4>1. copies[d] = 1 => d < d
        BY <1>0, <3>2 DEF IInv, BillingInv
      <4>2. ~(d < d)
        BY <3>2
      <4> QED
        BY <1>0, <4>1, <4>2 DEF IInv, BillingInv
    <3>4. \A e \in Dates : copies'[e] = IF e = d THEN 1 ELSE copies[e]
      BY <1>0, <2>1, <3>3 DEF TypeOK
    <3>5. ASSUME NEW e \in Dates, copies'[e] = 1 PROVE e <= clock /\ e < nextDate'
      <4>1. CASE e = d
        BY <1>0, <3>1, <3>2, <4>1
      <4>2. CASE e # d
        <5>1. copies[e] = 1 /\ e \in Nat
          BY <3>2, <3>4, <3>5, <4>2
        <5>2. e <= clock /\ e < d
          BY <3>2, <5>1 DEF IInv, BillingInv
        <5> QED
          BY <1>0, <3>1, <3>2, <5>1, <5>2
      <4> QED
        BY <4>1, <4>2
    <3>7. copies' \in [Dates -> Nat]
      BY <1>0, <2>1 DEF TypeOK
    <3> QED
      BY <1>1, <3>1, <3>4, <3>5, <3>7 DEF GenerateInvoice, IInv, BillingInv
  <2>2. CASE UNCHANGED <<nextDate, copies>>
    BY <1>0, <1>1, <2>2 DEF GenerateInvoice, IInv, BillingInv, TypeOK
  <2> QED
    BY <2>1, <2>2 DEF GenerateInvoice
<1> QED
  BY <1>1, <1>2, <1>3 DEF GenerateInvoice, IInv, TypeOK, VoidInv

LEMMA ReadDueStep ==
  ASSUME IInv, NEW b \in Billers, ReadDue(b) \/ BillerFails(b)
  PROVE  IInv'
<1>0. TypeOK /\ clock \in 0..MaxTime /\ nextDate \in Dates \cup {0}
  BY DEF IInv, TypeOK
<1>1. EscalationInv' /\ ReminderInv'
  BY ChaserFrame DEF ReadDue, BillerFails, row, history, IInv
<1>2. faults' \in 0..MaxFaults
  BY JobsAssumption DEF ReadDue, BillerFails, IInv, TypeOK
<1>3. bill' \in [Billers -> [pc : {"idle", "bill"}, now : 0..MaxTime, date : Dates \cup {0}]]
  BY <1>0, JobsAssumption DEF ReadDue, Selected, BillerFails, NotBilling, TypeOK
<1>4. BillingInv'
  <2>1. CASE ReadDue(b)
    <3>1. nextDate \in Dates /\ nextDate <= clock
      BY <1>0, <2>1 DEF ReadDue, Selected, Due
    <3>2. \A c \in Billers : bill'[c] = IF c = b
             THEN [pc |-> "bill", now |-> clock, date |-> nextDate] ELSE bill[c]
      BY <1>0, <2>1 DEF ReadDue, TypeOK
    <3> QED
      BY <1>0, <2>1, <3>1, <3>2 DEF ReadDue, row, history, IInv, BillingInv
  <2>2. CASE BillerFails(b)
    BY <1>0, <2>2 DEF BillerFails, NotBilling, row, history, IInv, BillingInv, TypeOK
  <2> QED
    BY <2>1, <2>2
<1> QED
  BY <1>1, <1>2, <1>3, <1>4 DEF ReadDue, BillerFails, row, history, IInv, TypeOK, VoidInv

\* A schedule written by a request starts after the present, so after every date
\* that was billed.
LEMMA ScheduleStep ==
  ASSUME IInv, \/ \E on \in BOOLEAN : EditDraft(on)
               \/ SendDraft
  PROVE  IInv'
<1>0. clock \in 0..MaxTime /\ nextDate \in Dates \cup {0}
  BY DEF IInv, TypeOK
<1>1. EscalationInv' /\ ReminderInv'
  BY ChaserFrame DEF EditDraft, SendDraft, history, IInv
<1>2. FirstRecurringDate(clock) \in Dates /\ FirstRecurringDate(clock) > clock
  BY <1>0, FirstRecurringDateIsLater
<1>3. \/ nextDate' \in {nextDate, 0}
      \/ nextDate' \in Dates /\ nextDate' > clock
  <2>1. ASSUME NEW on \in BOOLEAN, EditDraft(on)
        PROVE  nextDate' = 0 \/ nextDate' = FirstRecurringDate(clock)
    BY <2>1 DEF EditDraft, Schedule
  <2>2. CASE SendDraft
    BY <1>2, <2>2 DEF SendDraft, Schedule
  <2> QED
    BY <1>2, <2>1, <2>2
<1>4. UNCHANGED <<clock, bill, copies>>
  BY DEF EditDraft, SendDraft, history
<1>5. BillingInv'
  <2>1. ASSUME NEW d \in Dates, copies[d] = 1 PROVE d <= clock /\ (nextDate' = 0 \/ d < nextDate')
    <3>1. d <= clock /\ (nextDate = 0 \/ d < nextDate)
      BY <2>1 DEF IInv, BillingInv
    <3>2. CASE nextDate' \in Dates /\ nextDate' > clock
      <4>1. d \in Nat /\ nextDate' \in Nat /\ clock \in Nat
        BY <1>0, <3>2, DatesPositive
      <4> QED
        BY <3>1, <3>2, <4>1
    <3> QED
      BY <1>3, <3>1, <3>2
  <2> QED
    BY <1>4, <2>1 DEF IInv, BillingInv
<1>6. TypeOK' /\ VoidInv'
  BY <1>0, <1>3 DEF EditDraft, SendDraft, history, IInv, TypeOK, VoidInv, Voidable, Open
<1> QED
  BY <1>1, <1>5, <1>6 DEF IInv

LEMMA StatusStep ==
  ASSUME IInv, \/ SettleInvoice \/ UndoVoid
               \/ \E read \in Voidable : VoidInvoice(read)
  PROVE  IInv'
<1>1. EscalationInv' /\ ReminderInv'
  BY ChaserFrame DEF SettleInvoice, UndoVoid, VoidInvoice, history, IInv
<1>2. BillingInv'
  BY BillerFrame DEF SettleInvoice, UndoVoid, VoidInvoice, history, IInv
<1>3. TypeOK' /\ VoidInv'
  BY DEF SettleInvoice, UndoVoid, VoidInvoice, history, IInv, TypeOK, VoidInv, Voidable, Open
<1> QED
  BY <1>1, <1>2, <1>3 DEF IInv

LEMMA TimeStep ==
  ASSUME IInv, TimePasses
  PROVE  IInv'
<1>1. EscalationInv' /\ ReminderInv'
  BY ChaserFrame DEF TimePasses, row, history, IInv
<1>2. clock \in Nat /\ clock' = clock + 1 /\ clock' \in 0..MaxTime
  BY JobsAssumption DEF TimePasses, IInv, TypeOK
<1>3. BillingInv'
  <2>1. ASSUME NEW d \in Dates, copies[d] = 1 PROVE d <= clock'
    <3>1. d <= clock /\ d \in Nat
      BY <2>1, DatesPositive DEF IInv, BillingInv
    <3> QED
      BY <1>2, <3>1
  <2>2. ASSUME NEW b \in Billers, bill[b].pc = "bill" PROVE bill[b].now <= clock'
    <3>1. bill[b].now <= clock /\ bill[b].now \in Nat
      BY <2>2 DEF IInv, BillingInv, TypeOK
    <3> QED
      BY <1>2, <3>1
  <2> QED
    BY <2>1, <2>2 DEF TimePasses, row, history, IInv, BillingInv
<1> QED
  BY <1>1, <1>2, <1>3 DEF TimePasses, row, history, IInv, TypeOK, VoidInv

LEMMA IInvInit == Init => IInv
<1> SUFFICES ASSUME Init PROVE IInv
  OBVIOUS
<1>1. FirstRecurringDate(0) \in Dates
  BY FirstRecurringDateIsLater, JobsAssumption
<1>2. TypeOK
  BY <1>1, JobsAssumption DEF Init, TypeOK, NotStarted, NotBilling, Voidable, Stages
<1>3. VoidInv /\ BillingInv
  BY DEF Init, VoidInv, BillingInv, NotBilling
<1>4. EscalationInv /\ ReminderInv
  BY DEF Init, EscalationInv, ReminderInv, Active, Reminds, Escalates, NotStarted, Stages
<1> QED
  BY <1>2, <1>3, <1>4 DEF IInv

LEMMA IInvNext == IInv /\ [Next]_vars => IInv'
<1> SUFFICES ASSUME IInv, [Next]_vars PROVE IInv'
  OBVIOUS
<1>1. CASE UNCHANGED vars
  BY <1>1, ChaserFrame, BillerFrame DEF vars, row, history, IInv, TypeOK, VoidInv
<1> QED
  BY <1>1, ChaserSteps, GenerateStep, ReadDueStep, ScheduleStep, StatusStep, TimeStep
  DEF Next, BillerStep

LEMMA IInvHolds == Spec => []IInv
  BY IInvInit, IInvNext, PTL DEF Spec

-----------------------------------------------------------------------------
\* The row, the clock, the runs' locals and the history have their types: a claim
\* is nobody's or a run's, and a schedule is empty or a billing date.
THEOREM TypeCorrect == Spec => []TypeOK
  BY IInvHolds, PTL DEF IInv

\* One reminder and one escalation, for any number of overlapping runs of the
\* overdue job: the claim compares what the run read, and a release puts back
\* only a claim that is still its own.
THEOREM OneMessagePerStageHolds == Spec => []OneMessagePerStage
<1>1. IInv => OneMessagePerStage
  <2> SUFFICES ASSUME IInv PROVE OneMessagePerStage
    OBVIOUS
  <2>1. overdueEscalatedAt # None => reminderSentAt # None
    BY DEF IInv, EscalationInv
  <2> QED
    BY <2>1 DEF IInv, EscalationInv, ReminderInv, OneMessagePerStage, Stages
<1> QED
  BY <1>1, IInvHolds, PTL

\* A released escalation is not left on the row, so the next run retries it.
THEOREM RefusedIsRetriedHolds == Spec => []RefusedIsRetried
<1>1. IInv => RefusedIsRetried
  BY DEF IInv, EscalationInv, RefusedIsRetried
<1> QED
  BY <1>1, IInvHolds, PTL

\* A billing date is billed at most once, for any number of recurring workers
\* and whatever voids, undos, edits and sends come between read and claim.
THEOREM BilledOnceHolds == Spec => []BilledOnce
<1>1. IInv => BilledOnce
  BY DEF IInv, BillingInv, BilledOnce
<1> QED
  BY <1>1, IInvHolds, PTL

=============================================================================
