# Verification of the Ashbi Hub core

TLA+ specifications of the parts of the Hub (`src/`) where correctness depends
on concurrent requests, background workers, crashes and external services that
retry. Each module is translated from the JavaScript and the SQL it issues;
`PROJECT.json` maps every definition to its source lines. Paths below are
relative to the Hub's `src/` unless they start with `docs/` or `prisma/`.

## 1. Inventory

The Hub is a Fastify API over PostgreSQL (Prisma), BullMQ workers in one or
more replicas, and integrations (Stripe, Gmail, Mailgun, Slack, AI providers).
Requests and jobs share nothing but database rows, so the interesting steps are
single statements or short transactions, and everything a handler read earlier
may be stale.

| Component | State | Operations | What is hard | Correct when |
|---|---|---|---|---|
| Event outbox, dispatcher (`services/domain-event-dispatcher.service.js`) | status, attempts, lease, claim token, replay count of each event | sweep, claim, renew, deliver, publish, retry, dead-letter, replay, discard | several replicas, crashes, lapsed leases, timeouts whose work goes on, administrators | per-aggregate order, bounded deliveries, at least once, settled is final, nothing is stuck |
| Event outbox, recording (`services/domain-event.service.js`) | rows, advisory locks | `recordDomainEvent` in a business transaction | concurrent transactions under READ COMMITTED, rollback | contiguous sequences, one event per key (the unique index) |
| Invoice payments and Checkout (`routes/invoice.routes.js`, `services/stripe.service.js`, `services/invoice-settlement.js`, ...) | invoice row, payments, Stripe sessions, webhook deliveries | edit, send, pay link, mark paid, void, undo, revoke, rotate, overdue, webhooks | stale reads across calls to Stripe, at-least-once webhooks, idempotency keys | money recorded once and never above the total, no payable session on a closed invoice, no charge lost |
| Recurring invoices, numbering (`jobs/recurring-invoices.js`, `utils/invoice.js`) | next billing date, counter | claim and copy | overlapping runs, missed periods, void and restore between read and claim | one copy per billing date, a due invoice is billed |
| Overdue reminders (`services/automation.service.js`) | reminder and escalation stamps | claim, send, release | overlapping runs, failed e-mail | each stage sent at most once, retried when it was refused |
| Client agent runs (`jobs/client-agent-run*.js`, `services/client-agent-run.service.js`, `services/workspace-account-manager.service.js`) | run status, claim token, deadline, channel card | start, claim, prepare, call, settle, cancel, expire, review | late provider answers, cancellation, lost authority, jobs delivered twice | one provider call, one final outcome, the card agrees with it |
| AI tool actions (`ai/tools/executor.js`) | the action's receipt | invoke, approve, execute or deliver, complete, fail, reject, expire | two approvers, timeouts whose delivery goes on, lost commit answers | one effect per action, a receipt that is true and final |
| Replies and Gmail receipts (`routes/response.routes.js`, `services/gmail-send.service.js`) | reply status and body, receipt status and snapshot | edit, submit, approve, return, mark sent; claim, send, record, repair | a crash around the provider call, edits between checks | delivered at most once, only what was approved, one message in the thread |
| Recurring tasks (`services/task-recurrence.service.js`) | rule, next and last date, revision | save, generate, repeat | edits during a sweep, reopened tasks, time zones | one occurrence per date, by the rule in force |
| Thread escalation (`jobs/escalation.js`) | level, marker, breach flag | check, claim and notify | overlapping checks, activity between read and claim | no alert repeated within a quiet period, none suppressed |
| Calendar sync (`routes/google-calendar.routes.js`) | sync status, Google id | claim, insert or patch, store | stale claim taken over, event read before the claim | one Google event per Hub event |
| Key rotation (`services/credential-key-rotation.service.js`) | ciphertexts | plan, apply | a secret changed meanwhile | no old secret comes back |
| The rest: AI providers and budgets, media review, Slack, mail ingestion, tenancy, sign-in and audit, trash and export, documents and chat, importers, web apps | | | | listed in `PROJECT.json` with the reason each is left out |

Interactions: a payment that covers an invoice calls `recordInvoicePaid` in
its own transaction (InvoiceCheckout counts it as `paidEvents`), that call is
`recordDomainEvent` (EventRecording), and the committed row is what the
dispatcher delivers (`RecordDomainEvents` in EventDispatcher; Outbox composes
the two modules). The overdue job
writes the invoice's status next to the requests (`MarkOverdue` in
InvoiceCheckout; InvoiceJobs has its stamps and the recurring job). Sending a
reply through Gmail (`Finalize` in GmailSend) and marking it sent write the
thread and reset its escalation marker: these are `RecordSend` and `MarkSent`
in Escalation.

The hazards, each at the line where it bites, are listed in `PROJECT.json`.

## 2. Plan

| Order | Module | State |
|---|---|---|
| 1 | EventDispatcher | done |
| 2 | EventRecording | done |
| 3 | InvoiceLedger (abstract), InvoiceCheckout (implements it), InvoiceCheckoutProofs | done |
| 4 | RunOutcome (abstract), ClientAgentRun (implements it), ClientAgentRunProofs | done |
| 5 | ToolActions, ToolActionsProofs, GmailSend, GmailSendProofs | done |
| 6 | InvoiceJobs: overdue reminders and recurring invoices, InvoiceJobsProofs | done |
| 7 | Escalation, EscalationProofs; RecurringTasks, RecurringTasksProofs | done |
| 8 | Outbox: the composition of EventRecording and EventDispatcher; OutboxProofs, about both and the whole | done |
| 9 | CalendarSync, KeyRotation | candidates |

No module that is proved about uses a RECURSIVE operator. Each
component has one run that checks its safety and, where the code justifies
fairness, its liveness.

## 3. Modules

**EventDispatcher.** Columns of `domain_events` are functions of the event
(`status`, `attempts`, `replayCount`, `claimToken`); `due` says that
`nextAttemptAt` has passed, `lapsed` that `lockedUntil` has. A replica's run of
`dispatchDomainEvents` is the program counter `pc` (idle, claim, renew,
deliver, publish, fail) with its claim token and the batch that the claim
returned. One action is one statement: `DeadLetterAbandonedClaims`,
`ClaimDomainEvents`, `RenewLease`, `Publish`, `Retry`, `DeadLetter`. The
subscribers run one by one; `SubscribersFail` is an exception or a timeout, and
a timeout leaves a *zombie* delivery that may run on at any later time. `Crash`
loses the locals of a replica. Administrators read, then update conditionally
(`ReadDead`, `ReplayDeadDomainEvent`, `DiscardDeadDomainEvent`). `Stalls` says
whether a live replica may overrun the lease it just renewed; the code only
checks `subscriberTimeoutMs < leaseMs`, so a paused process can.
The claim picks any non-empty set of candidates up to the batch size, because
SKIP LOCKED and ORDER BY with concurrent updates promise no more.
`RecordDomainEvents` is a business transaction's commit: its rows, the next of
their aggregates, appear all at once.

**EventRecording.** One step per statement of `recordDomainEvent` in each of
several transactions: advisory lock, lookup by key, MAX(sequence), insert. A
statement sees committed rows and the transaction's own. An insert waits for
an uncommitted colliding row and fails on a visible one. Rollback is possible
at every point and stands for PostgreSQL's choice of a deadlock victim too.

**Outbox** extends both, over one table; the aggregates, which they share, are
declared in **EventAggregates**, and the recording's definitions are named for it
(`RecordingInit`, `RecordingNext`, `RecordingSpec`). The statements of an
uncommitted transaction are invisible to the replicas (`Unfinished`); a commit
(`CommitEvents`) shows its rows to them under whatever numbers the transaction
computed, and what `RecordDomainEvents` assumes of the numbers is proved;
dispatching leaves the transactions alone (`DispatchEvents`).

**InvoiceLedger** is the abstract promise about one invoice's money: a phase, a
total and the sum paid.

**InvoiceCheckout.** The invoice row, Stripe's sessions with the idempotency
key each was created with, the webhook inbox, and the locals of every request.
The key is what `checkoutIdempotencyKey` distinguishes: attempt, amount and
public link. `young` are the sessions with more than `CHECKOUT_REUSE_MARGIN_MS`
left; Stripe returns the session of a key it has seen while the session is
young, and may or may not do so afterwards. A transaction that locks the row
(payment, void) is one step; a request that reads, calls Stripe and writes is
several. A webhook whose claim misses makes two more unlocked reads
(`CheckReplay`, `ClassifyRefusal`). A refused charge then goes to the audit log,
best-effort: `recordAuditEvent` never throws, so `RecordRefusedCheckout` answers
200 whether or not it wrote the row. `DeliveryFails` is a 500 or a crash in
between, after which Stripe delivers again. `Abandon` ends a request at any point
(an error of Stripe or of the database, or a crash). History variables record what
no column does: the URLs handed out, payments per session, the charges refused,
audited and dropped, `invoice.paid` events, and whether a void was undone
(`restored`).
Amounts are whole cents, so the tolerance of half a cent in the code is exact
comparison here; VIEWED is merged with SENT, as in the code.

**RunOutcome** is the abstract promise about an account manager run: asked for
once, at most one provider call, one outcome that is never revised.

**ClientAgentRun** implements it. `status`, `token`, `observed` and `late`
are columns of `client_agent_runs` (`late`: past the deadline, or past the
queue's age limit); `card` is the delivery state in the workspace channel. A
worker's locals hold its program counter: claim, preflight reads, reread,
prepare, authorize, send, settle or expire. `Receive` delivers the job of any
run to any idle worker, any number of times. The recovery job is one statement
for the shared runs (`RecoverShared`), and a read followed by one conditional
transaction per row for channel runs (`RecoverRead`, `RecoverRow`). A provider
error may conceal a call that was served, so it settles as UNKNOWN. One active
run per conversation is checked by the code and also a partial unique index.

**ToolActions.** The row of `ai_bridge_actions` is a receipt. A local tool runs
inside the transaction that claims it; an external one is claimed, delivered
outside, and then completed or failed. A delivery may be refused, answered,
time out and take effect later (`LateDelivery`), or find its target gone, which
the code reports as failed and not as unknown; the tool must then have delivered
nothing. The answer to any commit may be lost. `abandoned` remembers the actions
whose approver died or never learnt of its claim: the code has no recovery for
those and leaves them EXECUTING.

**GmailSend.** One reply, its routes (each reads the row and then updates it by
id) and `sendGmailWithReceipt`, one step per statement. The two unique indexes
and the trigger of the migrations are part of `Insert`. A receipt keeps the
content it was claimed with; `Finalize` is the transaction that locks the
receipt, writes the message and marks the reply. A request's mail has a content
(subject and body), which the approval compares with the reply's, and an envelope
(recipient and threading headers), which only the fingerprint covers: the code
lets an approved text go to any recipient the caller names, and so does the
model.

**Escalation.** One thread, sweeps and delayed checks, and the thread's other
writers. A period is the time between two activities; the marker
(`lastEscalatedAt`) is the number of the claim with the period in which the
check read the thread. The code stores the time of the check, and does not tell
apart two claims in the same millisecond; they do not occur in the model. Mail
is ingested when it arrives. `Stalls` says whether hours may pass while a check
is between its read and its claim; the proofs allow it.

**InvoiceJobs.** The two hourly jobs on one invoice: `reminderSentAt` and
`overdueEscalatedAt` hold the run that stamped them (the code stores that run's
start time; two runs that start in the same millisecond are not told apart by
the code, and do not occur in the model), `nextDate` the next billing date.
Months are equal intervals of the clock.

**RecurringTasks.** One original with its schedule and occurrences. A rule has
a start, an interval and a zone (days its calendar is behind the server's);
monthly rules and their end-of-month clamping are left out. The unique keys on
the occurrence are left out as well, so that `DateOnce` and `RepeatedOnce` show
that they never have to refuse a sweep.

The theorems about a module *M* and their proofs are in ***M*Proofs**, those
about EventDispatcher and EventRecording in **OutboxProofs** with their
composition;
**MCEventDispatcher**, **MCInvoiceCheckout**, **MCGmailSend** and
**MCRecurringTasks** add symmetry
sets and constant values for TLC. The other modules are checked as they stand,
with the constants of their cfgs.

## 4. Runs

| Run | Instance | Shows |
|---|---|---|
| dispatcher_order | two replicas that stall and crash, an administrator, two events of one aggregate, two subscribers | deliveries begin in sequence order (`AggregateOrder`), at most maxAttempts claims per life (`ClaimBudget`), published implies handled by every subscriber (`PublishedWasHandled`), published and discarded are final (`SettledIsFinal`) |
| dispatcher_liveness | two replicas that crash but do not stall, an administrator | no two replicas deliver an event at once (`ExclusiveDelivery`); every event settles, dies or waits behind a dead letter (`EventuallySettled`) |
| recording | two transactions, two aggregates, three keys | contiguous sequences (`ContiguousSequences`), no transaction aborted by a sequence collision (`NoSequenceCollision`) |
| invoice_money | from a draft: one sender, voider and cashier, totals 0 to 2, two links | exact settlement (`SettledExactly`), a charge is recorded once (`RecordedOnce`), the ledger is implemented (`ImplementsLedger`), and with it: PAID is final and a closed invoice holds no money; every charge is eventually recorded or refused, or dropped after an undone void (`ChargesAnswered`) |
| invoice_sessions | from a sent invoice: two payers, one voider, one cashier, two store rounds | the stored session is priced at the balance, voids and undos included (`StoredAtBalance`); until a void is undone it is no session the Hub expired (`StoredIsLive`); an acknowledged charge was recorded, refused or dropped, and only an undone void lets a charge be dropped, or recorded after it was refused (`ChargesAccounted`) |
| agent_run | a shared and a channel run, two workers, the recovery job | one provider call (`OneProviderCall`); FAILED only if none was made (`FailedWasNotCalled`); the channel card agrees with the run (`CardAgrees`); RunOutcome is implemented, so that an outcome, reviewed or not, stands (`ImplementsRunOutcome`); every run ends (`EventuallyEnds`) |
| tool_actions | a local and an external action, two callers, two approvers, one through OAuth | one effect (`ExecutedOnce`); the receipt says what happened and what people were told stays true (`ReceiptTrue`); a caller is answered with the action of its own input (`OwnAction`); a claimed action of a living process settles (`ClaimedSettles`) |
| gmail | two keys, two contents, two envelopes, two senders, two clerks | the reply is delivered at most once (`DeliveredOnce`), the receipt is true (`ReceiptTrue`), one message in the thread (`OneHubMessage`), no unapproved content is sent (`SentWasApproved`) |
| escalation | a sweep and a delayed check, two periods, NORMAL and HIGH priority | an alert about a period is not repeated unless a reply came in between, and one breach (`RepeatNeedsReply`); a stale claim does not silence the next period (`NeverSilenced`); after 8 quiet hours a thread that was not breached before is escalated (`QuietIsEscalated`) |
| invoice_jobs | two overdue runs, two recurring workers, one fault | one accepted message per stage, kept on the row (`OneMessagePerStage`); a refused escalation can be retried (`RefusedIsRetried`); one copy per date (`BilledOnce`); a due invoice is billed (`DueIsBilled`) |
| recurring_tasks | two sweeps, two calendar rules, stop, repeat after completion | one occurrence per date (`DateOnce`), by the rule in force (`ScheduleFollowsRule`), one repeat per completed task (`RepeatedOnce`), none for the past (`NoReplayOfThePast`), what is owed is generated (`OwedIsGenerated`) |

Every module states its types as `TypeOK`, which is proved for every instance
(`RecordingTypeOK` in EventRecording); the runs spend their time on the
properties above. Outbox has no run of its
own: its parts have, and its two invariants and both refinements were checked by
TLC on one aggregate, two events, two transactions and one replica (720,000
states) before they were proved.

One run is expected to violate its property and shows a disagreement between a
comment of the repository and the code: **send_over_void**. Send stores its
session by id after a void, while the code says "A voided invoice must not stay
payable through a stored Checkout session".

The comments and docs promise more than the code gives at these places too. The
properties of the passing runs are stated so that they hold, and say where:

- `StoredAtBalance` with a sender and a draft (`Senders = {x1}`, `InitStatus =
  "DRAFT"`) is violated: send prices from a total read before its claim, and
  stores unconditionally. The property and its theorem are about invoices that
  were sent before.
- A session that a void expired can be stored again after the undo: the void does
  not count the attempt up, so that the next pay request uses the same
  idempotency key and Stripe returns the dead session. `StoredIsLive` therefore
  ends where a void is undone; without `~restored` it is violated.
- An undo between the two reads that follow a missed claim makes a paid charge a
  CHECKOUT_MISMATCH, acknowledged with a warning and neither audited nor alerted;
  and a redelivery after an undo may record a charge that was refused.
  `ChargesAccounted` allows both after an undone void, and neither before.
- `docs/invoicing.md:186` says that a refused charge is alerted and recorded as a
  `payment.refused` event, and `services/stripe.service.js:417` that each one is
  kept in the audit log. Both writes are best-effort: a charge can be refused and
  acknowledged with only a line in the log. `refused` means no more than that
  line, and no property is about `audited`.
- The void compares with all voidable statuses, not with the status it read;
  undo then restores that stale status. No property states this.
- `jobs/escalation.js:3` says that each level notifies at most once per thread and
  quiet period. Two checks that read the marker as null in one period, a claim by
  the first, a reply that clears the marker and a claim by the second alert about
  the same period twice. `RepeatNeedsReply` excepts this: its alerts are counted
  between replies (`resets`).
- `jobs/escalation.js:7` says that any activity starts a new cycle. A breach is
  never reset, and the sweep leaves breached threads out (line 157), so that later
  quiet periods of such a thread are not escalated; nor is a HIGH or CRITICAL one
  whose breach was recorded before the 8 hours. `QuietIsEscalated` is about
  threads that are not breached when the 8 hours are over; a breach that the
  escalating check records itself is no excuse.

Other behaviours of the code that the models have, and that no property
forbids:

- Approve writes by id after its read (`routes/response.routes.js:188`), so an
  edit in between is approved unseen; `SentWasApproved` speaks of the contents
  that were APPROVED, not of those a person looked at. The recipient is not
  compared with anything that was approved.
- A receipt whose reply was changed after the send stays
  ACCEPTED_PENDING_RECORD for ever.
- A payment between a reminder's claim and its e-mail does not stop the e-mail,
  and a mail timeout may hide an acceptance: `OneMessagePerStage` counts the
  messages whose acceptance was seen.

### Bounds

- Dispatcher: two replicas are enough for every race (claim, lost lease, late
  settle); two events of one aggregate for ordering, two subscribers for a
  partial delivery; `MaxAttempts = 2` has a retry and a final attempt,
  `MaxReplays = 1` two lives. A claim needs a token that no row and no replica
  holds, so there are as many tokens as the run can use at once. A batch of
  several events needs several aggregates: two of them with one event each were
  checked for both properties of dispatcher_liveness without an administrator,
  and `ExclusiveDeliveryHolds` covers every batch.
- Recording: two transactions of up to two events over two aggregates and three
  keys reach lock waits in both orders, key clashes across aggregates (which
  the unique index refuses) and the deadlock of opposite lock orders (resolved by Rollback).
- Invoice: a total of 2 has a partial and a covering payment, 0 is the invoice
  that owes nothing, and an edit between 1 and 2 moves the balance under a stale
  read. One session is enough for a key that returns the same session to two
  requests, for a session that is expired, stored again or paid late, and for a
  charge that meets every status; with two sessions, a voider and a cashier the
  state space is beyond TLC (more than 8 million states for one payer). A second
  session matters where one request replaces another's: the properties of
  invoice_sessions were also checked with two sessions, two payers and a cashier
  (4.9 million states), and their theorems are for any number. The code has three store rounds
  (`CHECKOUT_STORE_ATTEMPTS`); two show both the retry and giving up.
  invoice_money has no pay request: what it checks concerns the money and the
  answer to a charge, and its session is the one that send stores.
- Manual amounts range over `0..total + 1`, so that refusals happen.

- Agent runs: two workers race for one claim and one of them is late; the
  shared and the channel run take the two paths of the recovery job.
- Tool actions: two inputs under one key are a conflict, two people are two
  approvals or an approval and a rejection. Once every action is decided
  nothing is left to do, so deadlock is not checked.
- Gmail: two keys tell the two unique indexes apart; two clerks put an edit
  between the read and the write of an approval.
- Escalation: `Hours` are 0 and the thresholds of the warning, the escalation
  and the breach of a NORMAL and of a HIGH thread, which comes after and before
  the escalation; `MaxPeriods = 1` has an activity between a read and its claim.
  `Stalls = FALSE`: checks are not held up for hours, which `QuietIsEscalated`
  needs and the safety properties do not, by their theorems.
- InvoiceJobs: the clock reaches the due date, the escalation and two billing
  dates. With one biller, three overdue runs were checked as well. Runs and
  faults are finite, so deadlock is not checked.
- Recurring tasks: a daily rule and one of every other day in a zone that is a
  day behind; three changes of the schedule allow switching it off and on
  again or there and back.

dispatcher_order, invoice_sessions and gmail use the symmetry of their workers,
people, tokens, keys and contents, which the modules only compare for equality.
The runs with a liveness property and the other invoice and recording runs use
none.

### Fairness

`dispatcher_liveness`: time passes (weak fairness of `NextAttemptArrives` and
`LeaseLapses`), a running replica goes on and the scheduler starts it every 15
seconds (weak fairness of `WorkerStep`; `jobs/queue.js`), and a replica is not
killed every single time it is about to claim (strong fairness of
`ClaimDomainEvents`). Administrators are under no fairness.
`invoice_money`: Stripe retries an unacknowledged delivery (weak fairness of its
first step), and not every delivery fails at the same read (strong fairness of
`CheckReplay` and `ClassifyRefusal`); nothing is assumed of the audit write, of
customers or of staff.
`agent_run`: time passes, and the recovery job runs every minute and is not
killed for ever (weak fairness of `Recovery`); nothing is assumed of workers.
`tool_actions`: weak fairness of a person's steps; a living request runs to its
end, because deliveries time out.
`escalation`: time passes, the sweep runs every quarter of an hour (weak
fairness of its read), and not every one of its attempts fails, since BullMQ
retries it (strong fairness of `ReadAdmins` and `Claim`). Delayed checks are
under no fairness, but neither they nor the sweep are held up for hours between
their read and their claim.
`invoice_jobs`: weak fairness of the recurring workers, an hourly job whose
faults are finite; nothing is assumed of the overdue job.
`recurring_tasks`: the hourly sweep reads (weak), does not fail every time it
could generate (strong), and the minute sweep repeats (weak).
`gmail` states no liveness: after a crash nothing but a person's request goes on.

## 5. Proofs

The theorems hold for every value of the constants under the named assumption
of their module: bounds are natural numbers, sets that stand for different
things are disjoint, and a null (no token, no claim, no content) is none of the
values. `RecordingAssumption` also says that there is an
aggregate, a key and a fact; `RulesAssumption` that calendar rules start within
the model's days and have a positive interval. Each `IInv` below was checked by
TLC on the instance of the component's run before it was proved. Every proof
has a lemma per action or family of actions and a last one that combines them.

OutboxProofs, the dispatcher
- `TypeCorrect`: TypeOK is not inductive because the locals index the rows; it
  is strengthened by `LocalsOK` (a delivering replica has a current event of
  its batch, a token exactly while it holds a batch).
- `ClaimBudgetHolds`: `BudgetInv` adds that live tokens are distinct, that the
  attempts a replica remembers are the row's while it holds the claim, and that
  `claims <= MaxAttempts * replayCount + attempts`, which is what a claim spends
  and a replay pays for.
- `SettledStaysSettled`: every step's effect on a status is classified once
  (`StatusStep`); none leaves a settled status.
- `AggregateOrderHolds`: `OrderInv` says that rows are recorded contiguously,
  that a row which was ever claimed has settled predecessors, and that only a
  claimed row is handled; the settled-is-final lemma keeps it.
- `AtLeastOnce`: a replica's progress through the subscribers is covered by the
  handled history (`RanWasHandled`).
- `ExclusiveDeliveryHolds`: when leases do not lapse under a delivering replica,
  a delivering replica holds the row's token, and tokens are distinct.

OutboxProofs, the recording
- `RecordingTypeCorrect`, `ContiguousSequencesHolds`, `NoSequenceCollisionHolds`:
  contiguity of the committed rows is not inductive, as a commit adds rows
  numbered earlier.
  `LockInv` says that a transaction holds the advisory lock of each aggregate it
  is numbering or has a row of; `NumberInv` that what a transaction sees of an
  aggregate is numbered 1..n and that the number it computed is still n + 1. The
  step to `1..Cardinality(...)` is a bijection with the rows.

OutboxProofs, the composition
- `OutboxComposes`: OutboxSpec implies the specification of either part. The
  hard step is the commit: that its rows are new to the dispatcher and the next
  of their aggregates follows from the recording's `LockInv` and `NumberInv`,
  from `Uncommitted` (no row of an open transaction is in the table) and from
  `DispatchedIsCommitted`: the aggregate's lock is held from the first number to
  the commit.
- `DispatchedIsCommittedHolds`, `CommitOrderHolds`: with the composition, order
  and at-least-once reach from the business transaction to the subscriber.

InvoiceCheckoutProofs
- `TypeCorrect`, in one lemma per family of requests.
- `SettlementIsExact`, `NoMoneyOnClosed`, `PaidStaysPaid`: the step lemma
  `NextMoney` shows that every step is one of a few changes of
  (status, total, paid, paidEvents); the conjunction of the two invariants is
  inductive over those.
- `ChargeRecordedOnce`: a session's count grows only where it is zero.
- `LedgerImplemented`: the refinement, from the same classification.
- `StoredAtBalanceHolds`, `VoidKeepsNoSession`: for an invoice that was sent and
  no send in flight (`Senders = {}`, `InitStatus = "SENT"`), any voids included.
  `PriceInv` says that a request whose attempt is still the invoice's has priced
  its session at the balance, since every payment counts the attempt up, and
  that sessions keep their key. With a send in flight neither holds:
  send_over_void shows it.
- `StoredIsLiveHolds`: under the same hypotheses, any number of voids included,
  until one is undone. `LiveInv`: while no void was undone, a session that is
  expired or about to be has an older attempt than the open invoice and is not
  stored, and only the current attempt is ever stored. A void keeps the attempt,
  but it also closes the invoice, and only the undo opens it again.
- `ChargesAccountedHolds`: for every value of the constants, sends and voids
  included. `ChargeInv`: as long as no void was undone, a delivery that missed its
  claim met a PAID or VOID invoice, which stays so, and payments only lower the
  balance, so that a refused charge never becomes acceptable. The audit write is
  not part of the argument: it may fail.

ClientAgentRunProofs
- `OneProviderCallHolds`, `FailedWasNotCalledHolds`, `CardAgreesHolds`:
  `ClaimInv` ties a worker's position to its run: one worker per claimed run,
  the context observed only by it, a call only for an observed run without one.
  `OneOpen` keeps the conversation's second run from being admitted.
- `RunOutcomeImplemented`: each action is a step of RunOutcome or a stutter, by
  the same invariant.

ToolActionsProofs
- `ExecutedOnceHolds`, `ReceiptTrueHolds`, `OwnActionHolds`: `ClaimInv` (one
  request knows that it owns an EXECUTING action, or one that it executed without
  getting the answer, and what it knows of the delivery is so), `EffectInv` (what
  each status implies of effects and of late deliveries, whose sum is at most one)
  and `ToldInv` (answers given).
- `ReceiptFinalHolds` is an action property: no step leaves a terminal status.

GmailSendProofs
- `DeliveredOnceHolds`: `AttemptInv` says that a reply has one open receipt over
  all keys and one request that may call Gmail for it. The theorem counts over
  keys, by cardinality.
- `ReceiptTrueHolds`, `OneHubMessageHolds` and, with `ApprovalInv` (APPROVED
  holds only an approved content, and so does a request about to insert),
  `SentWasApprovedHolds`.
- `ReceiptFinalHolds` is an action property: after an outcome nothing is
  delivered or recorded under a key, since whoever may call Gmail holds a
  DISPATCHING receipt.

InvoiceJobsProofs
- `OneMessagePerStageHolds`, `RefusedIsRetriedHolds`: a reminder may be claimed
  over by an escalation while its e-mail is under way, so its claim need not be
  on the row. `ReminderInv` says it is, or the escalation will put it back;
  `EscalationInv` that an escalation owns both columns until it is released.
- `BilledOnceHolds`: `BillingInv` says that billed dates are past and before the
  next one; the date that follows is later by `FirstRecurringDateIsLater`.

RecurringTasksProofs
- `DateOnceHolds`, `ScheduleFollowsRuleHolds`: `DatesInv` says that dates are
  generated in order, `SweepInv` that the revision a sweep read names the rule
  it read. That a first later date of a rule exists is proved from the least
  element of a set of naturals (`LeastOf`).
- `RepeatedOnceHolds`, `NoReplayOfThePastHolds`: `RepeatInv`, the mark on a
  processed completion is never taken back.

EscalationProofs
- `RepeatNeedsReplyHolds`: counting alerts is not inductive. `MarkInv` says that a
  marker has an alert behind it; `SentInv` that since the last reply the marker
  is at or after every alert in the order of (period, level); `CheckInv` that a
  check whose marker is still the row's knows that order. A claim is then
  strictly later than every alert sent (`ClaimIsNew`), and `OnceInv` is kept. A
  marker is the number of its claim and never comes back, which is what makes
  the comparison of `lastEscalatedAt` in the update enough.
- `NeverSilencedHolds`: from `MarkInv`, because the marker carries the period
  that the check read.
- `MarkerAdvancesHolds`, an action property, from `ClaimIsNew`.

Only model-checked: the liveness properties (fairness and ENABLED are outside
the prover).

## 6. Not modelled

Within the modelled components: payload normalisation and the event catalogue;
alerts and audit rows beyond the best-effort one of a refused charge; e-mail and
delivery status; invoice creation, number allocation, listing, statistics and PDF;
several currencies (a mismatch is refused); rounding of floating-point
amounts; deletion of rows (the scoped client of `services/soft-delete.service.js`
adds `deletedAt: null` to every read of a task or an invoice, so that a deleted one
drops out of the sweeps although their queries do not mention it); a task moved to
another project. `SENT` to `VIEWED` is merged. The bulk routes run
the modelled single operations one invoice at a time. The webhook route in
`routes/invoice.routes.js` ignores `checkout.session.expired`; in the model
that is an event that stays unprocessed.

The prompt, the answer and the memory of an agent run, the tools'
own effects, the wording and the recipients of alerts, and the fields a copied
invoice or task carries are data that no property tells apart.

Components without a module are listed in `PROJECT.json` with the reason. Most
of the repository by size is of three kinds in which there is little to check:
the web frontend and the hosted workspace app, which render what the API
returns; routes that read and write one record after a permission check; and
validators, importers and formatters without state. The map therefore covers a
small share of the lines: the ones where requests, jobs and external services
race. Calendar sync and key rotation are the next ones with such a race; their
hazards are listed.
