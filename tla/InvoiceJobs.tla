----------------------------- MODULE InvoiceJobs -----------------------------
(***************************************************************************)
(* The two hourly jobs that work on an issued invoice: the overdue job     *)
(* (checkOverdueInvoices), which reminds the client once and escalates     *)
(* once, and the recurring job (processRecurringInvoices), which bills a   *)
(* copy on every billing date.  Runs of a job overlap: a replica, a        *)
(* BullMQ retry and a stalled job that goes on all read the row, and act   *)
(* on what they read.  Sending, editing, paying and voiding happen         *)
(* between their steps.                                                    *)
(*                                                                         *)
(* The clock counts days after the issue date, in coarse steps; a run      *)
(* takes its "now" from it once, when it starts.  The overdue job also     *)
(* writes that instant as its claim; two runs never start in the same      *)
(* millisecond, so the claim is the name of the run.  Amounts, contacts    *)
(* and invoice numbers are left out: no property tells them apart.         *)
(***************************************************************************)
EXTENDS Integers

CONSTANTS
  Chasers,         \* runs of the overdue job
  Billers,         \* workers of the recurring job, which runs again and again
  MaxTime,         \* bound: the clock
  DueDate,         \* the invoice's due date
  EscalationDays,  \* OVERDUE_ESCALATION_DAYS, in steps of the clock
  Interval,        \* INTERVAL_MONTHS, in steps of the clock
  MaxFaults        \* bound: runs that die, or whose transaction fails

None == "none"

ASSUME JobsAssumption ==
  /\ None \notin Chasers
  /\ MaxTime \in Nat /\ DueDate \in Nat /\ MaxFaults \in Nat
  /\ EscalationDays \in Nat \ {0} /\ Interval \in Nat \ {0}

Stages == {"REMINDER", "ESCALATION"}
Open == {"SENT", "OVERDUE"}
Voidable == {"DRAFT"} \cup Open
RecurringSource == {"SENT", "OVERDUE", "PAID"}
Dates == {k * Interval : k \in 1..(MaxTime + 1)}

VARIABLES
  clock, faults,
  \* the invoice row
  status, voidedFrom, reminderSentAt, overdueEscalatedAt, isRecurring, nextDate,
  \* locals of the runs
  chase, bill,
  \* history: messages the provider accepted per stage, copies billed per date
  accepted, copies

row == <<status, voidedFrom, reminderSentAt, overdueEscalatedAt, isRecurring, nextDate>>
history == <<accepted, copies>>
vars == <<clock, faults, row, chase, bill, history>>

NotStarted == [pc |-> "idle", now |-> 0, status |-> None, reminder |-> None]
NotBilling == [pc |-> "idle", now |-> 0, date |-> 0]

\* firstRecurringDate: every date counts from the issue date, which is 0.
FirstRecurringDate(now) == CHOOSE d \in Dates : d > now /\ d - Interval <= now

Init ==
  /\ clock = 0 /\ faults = 0
  /\ status = "DRAFT" /\ voidedFrom = None
  /\ reminderSentAt = None /\ overdueEscalatedAt = None
  \* 0: a draft from before the date was maintained
  /\ isRecurring = TRUE /\ nextDate \in {0, FirstRecurringDate(0)}
  /\ chase = [r \in Chasers |-> NotStarted]
  /\ bill = [b \in Billers |-> NotBilling]
  /\ accepted = [stage \in Stages |-> 0]
  /\ copies = [d \in Dates |-> 0]

-----------------------------------------------------------------------------
\* The overdue job.

\* checkOverdueInvoices reads the page the invoice is on.
ReadPage(r) ==
  /\ chase[r].pc = "idle"
  /\ status \in Open /\ DueDate < clock /\ overdueEscalatedAt = None
  /\ chase' = [chase EXCEPT ![r] = [pc |-> "mark", now |-> clock, status |-> status,
                                    reminder |-> reminderSentAt]]
  /\ UNCHANGED <<clock, faults, row, bill, history>>

\* On the row as read: the page holds no escalated one.
OverdueReminderStage(read) ==
  IF read.now - DueDate >= EscalationDays THEN "ESCALATION"
  ELSE IF read.reminder = None THEN "REMINDER" ELSE None

Stage(r) == OverdueReminderStage(chase[r])

\* A run that is over keeps nothing but how it ended.
Ends(r, pc) == chase' = [chase EXCEPT ![r] = [NotStarted EXCEPT !.pc = pc]]

\* processOverdueInvoice: SENT becomes OVERDUE if it still is what was read,
\* and an invoice that has had its message is left.
MarkOverdue(r) ==
  /\ chase[r].pc = "mark"
  /\ LET stays == chase[r].status = "OVERDUE"
         moves == chase[r].status = "SENT" /\ status = "SENT"
     IN /\ status' = IF moves THEN "OVERDUE" ELSE status
        /\ IF (stays \/ moves) /\ Stage(r) # None
             THEN chase' = [chase EXCEPT ![r].pc = "claim"]
             ELSE Ends(r, "done")
  /\ UNCHANGED <<clock, faults, voidedFrom, reminderSentAt, overdueEscalatedAt,
                 isRecurring, nextDate, bill, history>>

\* Mutant: the claim compares the status only.
MayClaimOpen(r) == status \in Open

\* The claim compares with the reminder read and, for an escalation, with none.
MayClaim(r) ==
  /\ status \in Open /\ reminderSentAt = chase[r].reminder
  /\ Stage(r) = "ESCALATION" => overdueEscalatedAt = None

ClaimOverdueStage(r) ==
  /\ chase[r].pc = "claim"
  /\ \/ /\ MayClaim(r)
        /\ reminderSentAt' = r
        /\ overdueEscalatedAt' = IF Stage(r) = "ESCALATION" THEN r ELSE overdueEscalatedAt
        /\ chase' = [chase EXCEPT ![r].pc = "send"]
     \/ /\ ~MayClaim(r)
        /\ Ends(r, "done")
        /\ UNCHANGED <<reminderSentAt, overdueEscalatedAt>>
  /\ UNCHANGED <<clock, faults, status, voidedFrom, isRecurring, nextDate, bill, history>>

\* Flagging the client AT_RISK, the notification and the activity log follow,
\* best-effort; nothing here reads them.
SendOverdueEmail(r) ==
  /\ chase[r].pc = "send"
  /\ accepted' = [accepted EXCEPT ![Stage(r)] = @ + 1]
  /\ Ends(r, "done")
  /\ UNCHANGED <<clock, faults, row, bill, copies>>

\* Without a contact or a usable link the stage stays claimed.
NobodyToTell(r) ==
  /\ chase[r].pc = "send"
  /\ Ends(r, "done")
  /\ UNCHANGED <<clock, faults, row, bill, history>>

\* The provider refused, or did not answer in ten seconds.
NotAccepted(r) ==
  /\ chase[r].pc = "send"
  /\ chase' = [chase EXCEPT ![r].pc = "release"]
  /\ UNCHANGED <<clock, faults, row, bill, history>>

OwnClaim(r) == reminderSentAt = r

\* Mutant: the release of an escalation restores the reminder only.
ReleasedKept(r) == overdueEscalatedAt

ReleasedEscalation(r) == IF Stage(r) = "ESCALATION" THEN None ELSE overdueEscalatedAt

\* The release puts back what this run read.
ReleaseClaim(r) ==
  /\ chase[r].pc = "release"
  /\ \/ /\ OwnClaim(r)
        /\ reminderSentAt' = chase[r].reminder
        /\ overdueEscalatedAt' = ReleasedEscalation(r)
     \/ /\ ~OwnClaim(r)
        /\ UNCHANGED <<reminderSentAt, overdueEscalatedAt>>
  /\ Ends(r, "released")
  /\ UNCHANGED <<clock, faults, status, voidedFrom, isRecurring, nextDate, bill, history>>

\* The run dies or its statement fails; a claim it holds stays.
ChaserFails(r) ==
  /\ chase[r].pc \in {"mark", "claim", "send", "release"}
  /\ faults < MaxFaults /\ faults' = faults + 1
  /\ Ends(r, "dead")
  /\ UNCHANGED <<clock, row, bill, history>>

-----------------------------------------------------------------------------
\* The recurring job.

Due == isRecurring /\ nextDate # 0 /\ nextDate <= clock /\ status \in RecurringSource

\* Mutant: an invoice is not selected on the very date.
SelectedLate == Due /\ nextDate < clock

Selected == Due

ReadDue(b) ==
  /\ bill[b].pc = "idle"
  /\ Selected
  /\ bill' = [bill EXCEPT ![b] = [pc |-> "bill", now |-> clock, date |-> nextDate]]
  /\ UNCHANGED <<clock, faults, row, chase, history>>

\* Mutant: the claim does not compare the date.
MayBillAnyDate(b) == isRecurring /\ status \in RecurringSource

MayBill(b) ==
  isRecurring /\ nextDate = bill[b].date /\ status \in RecurringSource

NextBilling(b) == FirstRecurringDate(bill[b].now)

\* Claim and copy in one serializable transaction; a lost claim copies nothing.
GenerateInvoice(b) ==
  /\ bill[b].pc = "bill"
  /\ \/ /\ MayBill(b)
        /\ nextDate' = NextBilling(b)
        /\ copies' = [copies EXCEPT ![bill[b].date] = @ + 1]
     \/ /\ ~MayBill(b)
        /\ UNCHANGED <<nextDate, copies>>
  /\ bill' = [bill EXCEPT ![b] = NotBilling]
  /\ UNCHANGED <<clock, faults, status, voidedFrom, reminderSentAt, overdueEscalatedAt,
                 isRecurring, chase, accepted>>

\* A serialization conflict, another error or a crash: nothing is committed.
BillerFails(b) ==
  /\ bill[b].pc = "bill"
  /\ faults < MaxFaults /\ faults' = faults + 1
  /\ bill' = [bill EXCEPT ![b] = NotBilling]
  /\ UNCHANGED <<clock, row, chase, history>>

-----------------------------------------------------------------------------
\* The requests.

Schedule(on) == IF on THEN FirstRecurringDate(clock) ELSE 0

EditDraft(on) ==
  /\ status = "DRAFT"
  /\ isRecurring' = on /\ nextDate' = Schedule(on)
  /\ UNCHANGED <<clock, faults, status, voidedFrom, reminderSentAt, overdueEscalatedAt, chase, bill, history>>

SendDraft ==
  /\ status = "DRAFT"
  /\ status' = "SENT"
  /\ nextDate' = IF isRecurring /\ nextDate = 0 THEN Schedule(TRUE) ELSE nextDate
  /\ UNCHANGED <<clock, faults, voidedFrom, reminderSentAt, overdueEscalatedAt,
                 isRecurring, chase, bill, history>>

SettleInvoice ==
  /\ status \in Open
  /\ status' = "PAID"
  /\ UNCHANGED <<clock, faults, voidedFrom, reminderSentAt, overdueEscalatedAt,
                 isRecurring, nextDate, chase, bill, history>>

\* The void remembers the status it read, which may be one the invoice has
\* since left (InvoiceCheckout has the two steps).
VoidInvoice(read) ==
  /\ status \in Voidable
  /\ read \in {status, "DRAFT"} \cup (IF status = "OVERDUE" THEN {"SENT"} ELSE {})
  /\ status' = "VOID" /\ voidedFrom' = read
  /\ UNCHANGED <<clock, faults, reminderSentAt, overdueEscalatedAt, isRecurring,
                 nextDate, chase, bill, history>>

UndoVoid ==
  /\ status = "VOID"
  /\ status' = voidedFrom /\ voidedFrom' = None
  /\ UNCHANGED <<clock, faults, reminderSentAt, overdueEscalatedAt, isRecurring,
                 nextDate, chase, bill, history>>

TimePasses ==
  /\ clock < MaxTime
  /\ clock' = clock + 1
  /\ UNCHANGED <<faults, row, chase, bill, history>>

-----------------------------------------------------------------------------
ChaserStep(r) ==
  \/ ReadPage(r) \/ MarkOverdue(r) \/ ClaimOverdueStage(r) \/ SendOverdueEmail(r)
  \/ NobodyToTell(r) \/ NotAccepted(r) \/ ReleaseClaim(r) \/ ChaserFails(r)

BillerStep(b) == ReadDue(b) \/ GenerateInvoice(b)

Next ==
  \/ \E r \in Chasers : ChaserStep(r)
  \/ \E b \in Billers : BillerStep(b) \/ BillerFails(b)
  \/ \E on \in BOOLEAN : EditDraft(on)
  \/ \E read \in Voidable : VoidInvoice(read)
  \/ SendDraft \/ SettleInvoice \/ UndoVoid \/ TimePasses

Spec == Init /\ [][Next]_vars

\* The scheduler starts the recurring job every hour and BullMQ runs it.
FairSpec == Spec /\ \A b \in Billers : WF_vars(BillerStep(b))

-----------------------------------------------------------------------------
\* Every variable has its type; in particular a claim is nobody's or a run's,
\* and a schedule is empty or one of the billing dates.
TypeOK ==
  /\ clock \in 0..MaxTime /\ faults \in 0..MaxFaults
  /\ status \in Voidable \cup {"PAID", "VOID"}
  /\ voidedFrom \in Voidable \cup {None}
  /\ reminderSentAt \in Chasers \cup {None}
  /\ overdueEscalatedAt \in Chasers \cup {None}
  /\ isRecurring \in BOOLEAN /\ nextDate \in Dates \cup {0}
  /\ chase \in [Chasers -> [pc : {"idle", "mark", "claim", "send", "release",
                                  "done", "released", "dead"},
                            now : 0..MaxTime, status : Open \cup {None},
                            reminder : Chasers \cup {None}]]
  /\ bill \in [Billers -> [pc : {"idle", "bill"}, now : 0..MaxTime, date : Dates \cup {0}]]
  /\ accepted \in [Stages -> Nat]
  /\ copies \in [Dates -> Nat]

\* "One reminder, then one escalation": of each stage at most one message is
\* answered as accepted, however the runs overlap, fail and are retried; and it
\* stays on the row, where no other run's release erases its stamp.
OneMessagePerStage ==
  /\ \A stage \in Stages :
       accepted[stage] <= 1 /\ (accepted[stage] > 0 => reminderSentAt # None)
  /\ accepted["ESCALATION"] > 0 => overdueEscalatedAt # None

\* "A failed delivery releases the claim, so the next run retries it": an
\* escalation that was refused and released does not keep the invoice out of
\* the job, even when the reminder's run fails around it.
RefusedIsRetried ==
  overdueEscalatedAt # None => chase[overdueEscalatedAt].pc # "released"

\* "A retry or a second worker never creates a second copy": a billing date is
\* billed at most once, also when the invoice is voided, restored, edited and
\* sent again between the job's read and its claim.
BilledOnce == \A d \in Dates : copies[d] <= 1

\* A recurring invoice that is due, and stays issued, is billed, and a source
\* that missed periods catches up: its next date moves past the present.
DueIsBilled == Due ~> ~Due

=============================================================================
