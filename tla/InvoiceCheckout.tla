--------------------------- MODULE InvoiceCheckout ---------------------------
(***************************************************************************)
(* One invoice, its payments and its Stripe Checkout sessions: sending,    *)
(* editing, voiding and undoing the void, manual payments, pay links       *)
(* (ensureCheckoutSession) and the Stripe webhooks, as concurrent requests *)
(* that share only the invoice row.  One step is one database transaction  *)
(* or statement, or one call to Stripe; what a request read before it is   *)
(* kept in its locals and may be stale.                                    *)
(*                                                                         *)
(* Money is in cents.  VIEWED is treated as SENT, as the code does.  One   *)
(* currency: the code refuses a session in another one.  Stripe itself     *)
(* (sessions, idempotency keys, at-least-once webhooks) is modelled from   *)
(* the calls the code makes.                                               *)
(***************************************************************************)
EXTENDS Integers

CONSTANTS
  Totals,        \* bound: the totals a draft may be given
  InitStatus,    \* "DRAFT", or "SENT" for an invoice sent without a session
  Payers,        \* requests for a pay link (portal, staff)
  Senders,       \* requests to send the draft
  Voiders,       \* requests to void the invoice
  Cashiers,      \* requests to record a manual payment
  MaxSessions,   \* bound: Checkout sessions created at Stripe
  MaxLinks,      \* bound: public links issued
  StoreRounds    \* CHECKOUT_STORE_ATTEMPTS

Requests == Payers \cup Senders \cup Voiders \cup Cashiers
Sessions == 1..MaxSessions
NoSession == 0

ASSUME ConstantsAssumption ==
  /\ Totals \subseteq Nat
  /\ InitStatus \in {"DRAFT", "SENT"}
  /\ MaxSessions \in Nat /\ MaxLinks \in Nat \ {0} /\ StoreRounds \in Nat \ {0}

VARIABLES
  \* the invoice row, and the sum of its invoice_payments
  status, total, paid, voidedFrom, undoable, attempt, stored, link, revoked,
  \* Stripe: a session's state, the idempotency key it was created with, the
  \* sessions more than CHECKOUT_REUSE_MARGIN_MS from their expiry, and the
  \* webhook events not yet acknowledged
  sState, sKey, young, inbox,
  \* locals of the requests, and of a webhook delivery that was not recorded
  req, hook,
  \* history: sessions whose URL a request was given, STRIPE payment rows per
  \* session, charges refused (logged as an error with their code), charges with
  \* a payment.refused audit row, charges dropped as a CHECKOUT_MISMATCH,
  \* invoice.paid events, and whether a void was ever undone
  handed, recorded, refused, audited, dropped, paidEvents, restored

row == <<status, total, paid, voidedFrom, undoable, attempt, stored, link, revoked>>
stripe == <<sState, sKey, young>>
charges == <<handed, recorded, refused, audited, dropped, paidEvents, restored>>
vars == <<row, stripe, inbox, req, hook, charges>>

Payable == {"SENT", "OVERDUE"}
Voidable == {"DRAFT"} \cup Payable

Balance == IF total > paid THEN total - paid ELSE 0
Keys == [attempt : Nat, amount : Nat, link : 0..MaxLinks]
NoKey == [attempt |-> 0, amount |-> 0, link |-> 0]
Amount(s) == sKey[s].amount

LocalRecords ==
  [pc : {"idle", "claim", "owed", "link", "attach", "balance", "create",
         "store", "reread", "expire", "void", "retire"},
   round : Nat, status : Voidable \cup {"PAID", "VOID", "none"}, owed : Nat,
   attempt : Nat, seen : Sessions \cup {NoSession}, link : 0..MaxLinks,
   session : Sessions \cup {NoSession}]

\* A request past the creation of its session has one in hand, a void
\* request has read a status that may be voided.
Locals ==
  {l \in LocalRecords :
     /\ l.pc \in {"attach", "store", "reread", "expire"} => l.session # NoSession
     /\ l.pc = "void" => l.status \in Voidable}

Idle == [pc |-> "idle", round |-> 0, status |-> "none", owed |-> 0,
         attempt |-> 0, seen |-> NoSession, link |-> 0, session |-> NoSession]

\* What a pay request uses of the row it read; owed is the total until the
\* payments are subtracted.
Snapshot(pc, round) ==
  [pc |-> pc, round |-> round, status |-> status, owed |-> total,
   attempt |-> attempt, seen |-> stored, link |-> link, session |-> NoSession]

Ends(r) == req' = [req EXCEPT ![r] = Idle]

Init ==
  /\ status = InitStatus
  /\ total \in Totals
  /\ paid = 0
  /\ voidedFrom = "none" /\ undoable = FALSE
  /\ attempt = 0 /\ stored = NoSession
  /\ link = IF InitStatus = "SENT" THEN 1 ELSE 0
  /\ revoked = FALSE
  /\ sState = [s \in Sessions |-> "unused"]
  /\ sKey = [s \in Sessions |-> NoKey]
  /\ young = {} /\ inbox = {}
  /\ req = [r \in Requests |-> Idle]
  /\ hook = [s \in Sessions |-> "idle"]
  /\ handed = {} /\ refused = {} /\ audited = {} /\ dropped = {}
  /\ recorded = [s \in Sessions |-> 0]
  /\ paidEvents = 0 /\ restored = FALSE

-----------------------------------------------------------------------------
\* Stripe.

\* checkout.sessions.create: a cached key returns the session it made (for
\* about as long as the session lives), a new one makes a session.
StripeCreates(key, s) ==
  \/ /\ sState[s] # "unused" /\ sKey[s] = key
     /\ UNCHANGED stripe
  \/ /\ \A t \in Sessions : sState[t] # "unused" /\ sKey[t] = key => t \notin young
     /\ sState[s] = "unused" /\ \A t \in 1..(s - 1) : sState[t] # "unused"
     /\ sState' = [sState EXCEPT ![s] = "open"]
     /\ sKey' = [sKey EXCEPT ![s] = key]
     /\ young' = young \cup {s}

\* checkout.sessions.expire, best-effort: the call may fail, and Stripe
\* rejects a session that is not open.
ExpireCheckoutSession(s) ==
  \/ /\ s # NoSession /\ sState[s] = "open"
     /\ sState' = [sState EXCEPT ![s] = "expired"]
     /\ inbox' = inbox \cup {<<"expired", s>>}
     /\ UNCHANGED <<sKey, young>>
  \/ UNCHANGED <<stripe, inbox>>

CustomerPays(s) ==
  /\ sState[s] = "open" /\ s \in handed
  /\ sState' = [sState EXCEPT ![s] = "paid"]
  /\ inbox' = inbox \cup {<<"completed", s>>}
  /\ UNCHANGED <<row, sKey, young, req, hook, charges>>

ReuseMarginPasses(s) ==
  /\ s \in young
  /\ young' = young \ {s}
  /\ UNCHANGED <<row, sState, sKey, inbox, req, hook, charges>>

SessionLapses(s) ==
  /\ sState[s] = "open" /\ s \notin young
  /\ sState' = [sState EXCEPT ![s] = "expired"]
  /\ inbox' = inbox \cup {<<"expired", s>>}
  /\ UNCHANGED <<row, sKey, young, req, hook, charges>>

-----------------------------------------------------------------------------
\* Drafts: updateDraftInvoice and sendDraftInvoice.

EditDraft(t) ==
  /\ status = "DRAFT"
  /\ total' = t
  /\ UNCHANGED <<status, paid, voidedFrom, undoable, attempt, stored, link,
                 revoked, stripe, inbox, req, hook, charges>>

SendRead(r) ==
  /\ req[r].pc = "idle"
  /\ status = "DRAFT"
  /\ req' = [req EXCEPT ![r] = [Idle EXCEPT !.pc = "claim", !.owed = total,
                                            !.attempt = attempt]]
  /\ UNCHANGED <<row, stripe, inbox, hook, charges>>

\* The compare-and-set DRAFT -> SENT with a new public link; the loser
\* answers 409.
SendClaim(r) ==
  /\ req[r].pc = "claim"
  /\ \/ /\ status = "DRAFT" /\ link < MaxLinks
        /\ status' = "SENT" /\ link' = link + 1 /\ revoked' = FALSE
        /\ req' = [req EXCEPT ![r] = [@ EXCEPT !.pc = "owed", !.link = link + 1]]
     \/ /\ status # "DRAFT"
        /\ Ends(r)
        /\ UNCHANGED <<status, link, revoked>>
  /\ UNCHANGED <<total, paid, voidedFrom, undoable, attempt, stored, stripe,
                 inbox, hook, charges>>

\* withInvoiceBalance: the total of the row read earlier, the payments now.
OwedNow(r) == IF req[r].owed > paid THEN req[r].owed - paid ELSE 0

SendBalance(r) ==
  /\ req[r].pc = "owed"
  /\ req' = [req EXCEPT ![r] = [@ EXCEPT !.pc = "link", !.owed = OwedNow(r)]]
  /\ UNCHANGED <<row, stripe, inbox, hook, charges>>

CheckoutKey(r) == [attempt |-> req[r].attempt, amount |-> req[r].owed, link |-> req[r].link]

\* createPaymentLink; on a failure (an amount of zero is one) the invoice is
\* sent without a session, which is Abandon.
SendCreate(r, s) ==
  /\ req[r].pc = "link" /\ req[r].owed > 0
  /\ StripeCreates(CheckoutKey(r), s)
  /\ req' = [req EXCEPT ![r] = [@ EXCEPT !.pc = "attach", !.session = s]]
  /\ UNCHANGED <<row, inbox, hook, charges>>

\* The final update is unconditional: it stores the session and the attempt
\* counted from the row read first.  The answer carries the row, with the URL.
SendStore(r) ==
  /\ req[r].pc = "attach"
  /\ stored' = req[r].session
  /\ attempt' = req[r].attempt + 1
  /\ handed' = handed \cup {req[r].session}
  /\ Ends(r)
  /\ UNCHANGED <<status, total, paid, voidedFrom, undoable, link, revoked,
                 stripe, inbox, hook, recorded, refused, audited, dropped,
                 paidEvents, restored>>

-----------------------------------------------------------------------------
\* Pay links: the payment-link and pay routes, ensureCheckoutSession.

PayRead(r) ==
  /\ req[r].pc = "idle"
  /\ status \in Payable /\ link > 0 /\ ~revoked
  /\ req' = [req EXCEPT ![r] = Snapshot("balance", 1)]
  /\ UNCHANGED <<row, stripe, inbox, hook, charges>>

Reusable(r, owed) ==
  /\ req[r].seen # NoSession
  /\ Amount(req[r].seen) = owed
  /\ req[r].seen \in young

\* The balance is read after the row; then the round refuses, reuses the
\* session of the row it read, or goes on to create one.
PayBalance(r) ==
  /\ req[r].pc = "balance"
  /\ LET owed == OwedNow(r) IN
     \/ /\ req[r].status \notin Payable \/ owed = 0
        /\ Ends(r)
        /\ UNCHANGED handed
     \/ /\ req[r].status \in Payable /\ owed > 0 /\ Reusable(r, owed)
        /\ handed' = handed \cup {req[r].seen}
        /\ Ends(r)
     \/ /\ req[r].status \in Payable /\ owed > 0 /\ ~Reusable(r, owed)
        /\ req' = [req EXCEPT ![r] = [@ EXCEPT !.pc = "create", !.owed = owed,
                                            !.status = "none", !.seen = NoSession]]
        /\ UNCHANGED handed
  /\ UNCHANGED <<row, stripe, inbox, hook, recorded, refused, audited, dropped,
                 paidEvents, restored>>

PayCreate(r, s) ==
  /\ req[r].pc = "create"
  /\ StripeCreates(CheckoutKey(r), s)
  /\ req' = [req EXCEPT ![r] = [@ EXCEPT !.pc = "store", !.session = s]]
  /\ UNCHANGED <<row, inbox, hook, charges>>

\* Mutant: the store is conditional on the status alone.
MayStoreAnyAttempt(r) == status \in Payable

MayStore(r) == status \in Payable /\ attempt = req[r].attempt

PayStore(r) ==
  /\ req[r].pc = "store"
  /\ \/ /\ MayStore(r)
        /\ stored' = req[r].session
        /\ attempt' = req[r].attempt + 1
        /\ handed' = handed \cup {req[r].session}
        /\ Ends(r)
     \/ /\ ~MayStore(r)
        /\ req' = [req EXCEPT ![r] = [@ EXCEPT !.pc = "reread"]]
        /\ UNCHANGED <<stored, attempt, handed>>
  /\ UNCHANGED <<status, total, paid, voidedFrom, undoable, link, revoked,
                 stripe, inbox, hook, recorded, refused, audited, dropped,
                 paidEvents, restored>>

\* Mutant: a lost store always expires the session.
NeverStoredByOther(r) == FALSE

\* Another request may have stored this very session (same key).
StoredByOther(r) == stored = req[r].session

\* Otherwise it is expired and the row just read opens the next round.
PayReread(r) ==
  /\ req[r].pc = "reread"
  /\ \/ /\ StoredByOther(r)
        /\ handed' = handed \cup {stored}
        /\ Ends(r)
     \/ /\ ~StoredByOther(r)
        /\ req' = [req EXCEPT ![r] = [Snapshot("expire", req[r].round)
                                      EXCEPT !.session = req[r].session]]
        /\ UNCHANGED handed
  /\ UNCHANGED <<row, stripe, inbox, hook, recorded, refused, audited, dropped,
                 paidEvents, restored>>

PayExpire(r) ==
  /\ req[r].pc = "expire"
  /\ ExpireCheckoutSession(req[r].session)
  /\ \/ /\ req[r].round < StoreRounds
        /\ req' = [req EXCEPT ![r] = [@ EXCEPT !.pc = "balance", !.round = req[r].round + 1,
                                            !.session = NoSession]]
     \/ /\ req[r].round >= StoreRounds
        /\ Ends(r)
  /\ UNCHANGED <<row, hook, charges>>

-----------------------------------------------------------------------------
\* Payments: claimPayableInvoice and applyInvoicePayment, one transaction
\* under the row lock.

\* Mutant: an amount above the balance is not refused.
AcceptsPositive(amount) == IF Balance = 0 THEN amount = 0 ELSE amount > 0

\* Nothing owed is closed by a payment of 0; otherwise 0 < amount <= balance.
Accepts(amount) ==
  IF Balance = 0 THEN amount = 0 ELSE amount > 0 /\ amount <= Balance

Covers(amount) == paid + amount >= total

ApplyInvoicePayment(amount) ==
  /\ paid' = paid + amount
  /\ attempt' = attempt + 1
  /\ status' = IF Covers(amount) THEN "PAID" ELSE status
  /\ paidEvents' = IF Covers(amount) THEN paidEvents + 1 ELSE paidEvents
  /\ UNCHANGED <<total, voidedFrom, undoable, link, revoked>>

\* Mutant: the claim is conditional on the invoice not being PAID only.
ClaimableUnlessPaid == status # "PAID"

Claimable == status \in Payable

\* mark-paid, single or bulk: the payment forgets the stored session, which
\* the request then expires (Retire).
RecordManualPayment(r, amount) ==
  /\ req[r].pc = "idle"
  /\ Claimable /\ Accepts(amount)
  /\ ApplyInvoicePayment(amount)
  /\ stored' = NoSession
  /\ req' = [req EXCEPT ![r] = [Idle EXCEPT !.pc = "retire", !.session = stored]]
  /\ UNCHANGED <<stripe, inbox, hook, handed, recorded, refused, audited, dropped,
                 restored>>

-----------------------------------------------------------------------------
\* Void and undo.

VoidRead(r) ==
  /\ req[r].pc = "idle"
  /\ status \in Voidable
  /\ req' = [req EXCEPT ![r] = [Idle EXCEPT !.pc = "void", !.status = status,
                                            !.seen = stored]]
  /\ UNCHANGED <<row, stripe, inbox, hook, charges>>

MayVoid == status \in Voidable /\ paid = 0

\* The UPDATE is conditional on a voidable status, not on the status read, and
\* remembers the status read.  The session it goes on to expire is the one it
\* read, which need not be the one the UPDATE cleared.
VoidInvoice(r) ==
  /\ req[r].pc = "void"
  /\ \/ /\ MayVoid
        /\ status' = "VOID" /\ voidedFrom' = req[r].status /\ undoable' = TRUE
        /\ stored' = NoSession
        /\ req' = [req EXCEPT ![r] = [Idle EXCEPT !.pc = "retire", !.session = req[r].seen]]
     \/ /\ ~MayVoid
        /\ Ends(r)
        /\ UNCHANGED <<status, voidedFrom, undoable, stored>>
  /\ UNCHANGED <<total, paid, attempt, link, revoked, stripe, inbox, hook, charges>>

RetireCheckoutSession(r) ==
  /\ req[r].pc = "retire"
  /\ ExpireCheckoutSession(req[r].session)
  /\ Ends(r)
  /\ UNCHANGED <<row, hook, charges>>

UndoVoid ==
  /\ status = "VOID" /\ voidedFrom \in Voidable /\ undoable
  /\ status' = voidedFrom
  /\ voidedFrom' = "none" /\ undoable' = FALSE
  /\ restored' = TRUE
  /\ UNCHANGED <<total, paid, attempt, stored, link, revoked, stripe, inbox,
                 req, hook, handed, recorded, refused, audited, dropped, paidEvents>>

UndoWindowCloses ==
  /\ undoable
  /\ undoable' = FALSE
  /\ UNCHANGED <<status, total, paid, voidedFrom, attempt, stored, link,
                 revoked, stripe, inbox, req, hook, charges>>

-----------------------------------------------------------------------------
\* The other writers of the row.

\* processOverdueInvoice: a compare-and-set, so one step.
MarkOverdue ==
  /\ status = "SENT"
  /\ status' = "OVERDUE"
  /\ UNCHANGED <<total, paid, voidedFrom, undoable, attempt, stored, link,
                 revoked, stripe, inbox, req, hook, charges>>

RevokePublicLink ==
  /\ revoked' = TRUE /\ stored' = NoSession
  /\ UNCHANGED <<status, total, paid, voidedFrom, undoable, attempt, link,
                 stripe, inbox, req, hook, charges>>

\* The route reads that the invoice is open or PAID, then updates it
\* unconditionally: by then it may have any status, but it has been sent.
RotatePublicLink ==
  /\ link > 0 /\ link < MaxLinks
  /\ link' = link + 1 /\ revoked' = FALSE /\ stored' = NoSession
  /\ UNCHANGED <<status, total, paid, voidedFrom, undoable, attempt, stripe,
                 inbox, req, hook, charges>>

\* A request fails (Stripe or the database) or its process dies.
Abandon(r) ==
  /\ req[r].pc # "idle"
  /\ Ends(r)
  /\ UNCHANGED <<row, stripe, inbox, hook, charges>>

-----------------------------------------------------------------------------
\* Webhooks.  An event stays in the inbox until Stripe gets a 2xx answer, which
\* may be lost; a handler that fails answers 500 and has committed nothing.

Answered(m) == inbox' \in {inbox, inbox \ {m}}

\* Mutant: a replayed delivery is not recognised.
NeverRecorded(s) == FALSE

AlreadyRecorded(s) == recorded[s] > 0

\* recordCompletedCheckout when it claims the row, or sees a replay first.  A
\* charge above the balance (CHECKOUT_BALANCE_CHANGED) is refused.
RecordCompletedCheckout(s) ==
  /\ <<"completed", s>> \in inbox
  /\ \/ /\ AlreadyRecorded(s)
        /\ Answered(<<"completed", s>>)
        /\ UNCHANGED <<row, hook, charges>>
     \/ /\ ~AlreadyRecorded(s) /\ Claimable /\ Accepts(Amount(s))
        /\ ApplyInvoicePayment(Amount(s))
        /\ stored' = IF Covers(Amount(s)) THEN s ELSE NoSession
        /\ recorded' = [recorded EXCEPT ![s] = @ + 1]
        /\ Answered(<<"completed", s>>)
        /\ UNCHANGED <<hook, handed, refused, audited, dropped, restored>>
     \/ /\ ~AlreadyRecorded(s) /\ Claimable /\ ~Accepts(Amount(s))
        /\ hook[s] = "idle"
        /\ hook' = [hook EXCEPT ![s] = "audit"]
        /\ refused' = refused \cup {s}
        /\ UNCHANGED <<row, inbox, handed, recorded, audited, dropped, paidEvents,
                       restored>>
  /\ UNCHANGED <<stripe, req>>

\* The claim matched no row.  Without a lock, the replay check and the status
\* that classifies the refusal are two later reads.
ClaimMisses(s) ==
  /\ <<"completed", s>> \in inbox /\ hook[s] = "idle"
  /\ ~AlreadyRecorded(s) /\ ~Claimable
  /\ hook' = [hook EXCEPT ![s] = "replay"]
  /\ UNCHANGED <<row, stripe, inbox, req, charges>>

CheckReplay(s) ==
  /\ hook[s] = "replay"
  /\ \/ /\ AlreadyRecorded(s)
        /\ hook' = [hook EXCEPT ![s] = "idle"]
        /\ Answered(<<"completed", s>>)
     \/ /\ ~AlreadyRecorded(s)
        /\ hook' = [hook EXCEPT ![s] = "classify"]
        /\ UNCHANGED inbox
  /\ UNCHANGED <<row, stripe, req, charges>>

\* Mutant: a charge on a PAID invoice is taken for a mismatch.
RefusedIfVoid == {"VOID"}

RefusedCharge == {"VOID", "PAID"}

\* INVOICE_VOID and INVOICE_ALREADY_PAID are refused and go on to the audit; any
\* other status is CHECKOUT_MISMATCH, a warning in the log and acknowledged.
ClassifyRefusal(s) ==
  /\ hook[s] = "classify"
  /\ \/ /\ status \in RefusedCharge
        /\ refused' = refused \cup {s}
        /\ hook' = [hook EXCEPT ![s] = "audit"]
        /\ UNCHANGED <<dropped, inbox>>
     \/ /\ status \notin RefusedCharge
        /\ dropped' = dropped \cup {s}
        /\ hook' = [hook EXCEPT ![s] = "idle"]
        /\ Answered(<<"completed", s>>)
        /\ UNCHANGED refused
  /\ UNCHANGED <<row, stripe, req, handed, recorded, audited, paidEvents, restored>>

\* recordAuditEvent never throws: whether or not the row was written, the
\* delivery is answered with 200.
RecordRefusedCheckout(s) ==
  /\ hook[s] = "audit"
  /\ audited' \in {audited, audited \cup {s}}
  /\ hook' = [hook EXCEPT ![s] = "idle"]
  /\ Answered(<<"completed", s>>)
  /\ UNCHANGED <<row, stripe, req, handed, recorded, refused, dropped, paidEvents,
                 restored>>

\* A read fails (500) or the process dies: the event is delivered again.
DeliveryFails(s) ==
  /\ hook[s] # "idle"
  /\ hook' = [hook EXCEPT ![s] = "idle"]
  /\ UNCHANGED <<row, stripe, inbox, req, charges>>

ClearExpiredCheckout(s) ==
  /\ <<"expired", s>> \in inbox
  /\ stored' = IF stored = s /\ status # "PAID" THEN NoSession ELSE stored
  /\ Answered(<<"expired", s>>)
  /\ UNCHANGED <<status, total, paid, voidedFrom, undoable, attempt, link,
                 revoked, stripe, req, hook, charges>>

-----------------------------------------------------------------------------
SendStep(r) ==
  \/ SendRead(r) \/ SendClaim(r) \/ SendBalance(r) \/ SendStore(r)
  \/ \E s \in Sessions : SendCreate(r, s)

PayStep(r) ==
  \/ PayRead(r) \/ PayBalance(r) \/ PayStore(r) \/ PayReread(r) \/ PayExpire(r)
  \/ \E s \in Sessions : PayCreate(r, s)

CompletedStep(s) ==
  \/ RecordCompletedCheckout(s) \/ ClaimMisses(s) \/ CheckReplay(s) \/ ClassifyRefusal(s)
  \/ RecordRefusedCheckout(s) \/ DeliveryFails(s)

StripeStep(s) ==
  \/ CustomerPays(s) \/ ReuseMarginPasses(s) \/ SessionLapses(s) \/ ClearExpiredCheckout(s)

Next ==
  \/ \E t \in Totals : EditDraft(t)
  \/ \E r \in Senders : SendStep(r)
  \/ \E r \in Payers : PayStep(r)
  \/ \E r \in Cashiers : \E amount \in 0..(total + 1) : RecordManualPayment(r, amount)
  \/ \E r \in Voiders : VoidRead(r) \/ VoidInvoice(r)
  \/ \E r \in Voiders \cup Cashiers : RetireCheckoutSession(r)
  \/ UndoVoid \/ UndoWindowCloses
  \/ MarkOverdue \/ RevokePublicLink \/ RotatePublicLink
  \/ \E r \in Requests : Abandon(r)
  \/ \E s \in Sessions : CompletedStep(s) \/ StripeStep(s)

Spec == Init /\ [][Next]_vars

\* Stripe retries an unacknowledged event, and the Hub does not fail at the
\* same point of every delivery.
FairSpec ==
  Spec /\ \A s \in Sessions : /\ WF_vars(RecordCompletedCheckout(s) \/ ClaimMisses(s))
                              /\ SF_vars(CheckReplay(s)) /\ SF_vars(ClassifyRefusal(s))

-----------------------------------------------------------------------------
\* The types of the row, of Stripe's state, of the locals and of the history.
RowOK ==
  /\ status \in Voidable \cup {"PAID", "VOID"}
  /\ total \in Nat /\ paid \in Nat
  /\ voidedFrom \in Voidable \cup {"none"} /\ undoable \in BOOLEAN
  /\ attempt \in Nat /\ stored \in Sessions \cup {NoSession}
  /\ link \in 0..MaxLinks /\ revoked \in BOOLEAN

StripeOK ==
  /\ sState \in [Sessions -> {"unused", "open", "paid", "expired"}]
  /\ sKey \in [Sessions -> Keys]
  /\ young \subseteq Sessions

InboxOK == inbox \subseteq {"completed", "expired"} \X Sessions
ReqOK == req \in [Requests -> Locals]
HookOK == hook \in [Sessions -> {"idle", "replay", "classify", "audit"}]

ChargesOK ==
  /\ handed \subseteq Sessions /\ refused \subseteq Sessions
  /\ audited \subseteq Sessions /\ dropped \subseteq Sessions
  /\ recorded \in [Sessions -> Nat]
  /\ paidEvents \in Nat /\ restored \in BOOLEAN

\* Every variable has its type.
TypeOK == RowOK /\ StripeOK /\ InboxOK /\ ReqOK /\ HookOK /\ ChargesOK

\* "There is never a double settlement or an unnoticed overpayment": the
\* recorded payments never exceed the total, they cover it exactly when the
\* invoice is PAID (an open $0 invoice is closed by a $0 record), and exactly
\* one invoice.paid event went out with it.
SettledExactly ==
  /\ paid <= total
  /\ status = "PAID" => paid = total
  /\ status \in Payable /\ total > 0 => paid < total
  /\ paidEvents = IF status = "PAID" THEN 1 ELSE 0

\* An invoice with recorded payments is never voided, and a draft has none:
\* no interleaving leaves money on an invoice that takes no payments.
ClosedWithoutMoney == status \in {"DRAFT", "VOID"} => paid = 0

\* A Stripe charge is recorded at most once, however often it is delivered.
RecordedOnce == \A s \in Sessions : recorded[s] <= 1

\* A PAID invoice is final: nothing edits, voids or reopens it.
PaidIsFinal ==
  [][status = "PAID" => status' = "PAID" /\ total' = total /\ paid' = paid]_vars

\* The refinement mapping to InvoiceLedger.
Phase ==
  CASE status = "DRAFT" -> "draft"
    [] status \in Payable -> "open"
    [] status = "PAID" -> "paid"
    [] status = "VOID" -> "void"

Ledger == INSTANCE InvoiceLedger WITH phase <- Phase

\* The requests, sessions and webhooks implement the ledger: no interleaving
\* moves money, or the invoice from one phase to another, in a way the ledger
\* does not allow.
ImplementsLedger == Ledger!Spec

\* The stored session of an open invoice is priced at the balance: a pay
\* request that priced its session before a payment, or before a void that was
\* undone, does not store it.  (It holds of invoices that were sent before: send
\* stores its session unconditionally.)
StoredAtBalance ==
  status \in Payable /\ stored # NoSession => Amount(stored) = Balance

\* A voided invoice does not stay payable through a stored session.
VoidHasNoSession == status = "VOID" => stored = NoSession

\* Until a void is undone, a session the Hub itself expired is never the stored
\* one that the next pay request would reuse.  (Undoing a void keeps the attempt,
\* and with it the idempotency key of a session that the void expired.)
StoredIsLive ==
  ~restored /\ status \in Payable /\ stored \in young => sState[stored] # "expired"

Acknowledged(s) == sState[s] = "paid" /\ <<"completed", s>> \notin inbox

\* A charge acknowledged to Stripe was recorded, or refused, or dropped as a
\* mismatch; the last, and recording a charge that was refused and that staff may
\* have refunded, both need a void that was undone.  (The audit row and the alert
\* of a refusal are best-effort, and nothing is promised of them.)
ChargesAccounted ==
  /\ \A s \in Sessions :
       Acknowledged(s) => recorded[s] > 0 \/ s \in refused \cup dropped
  /\ ~restored => dropped = {} /\ \A s \in refused : recorded[s] = 0

\* Every charge is eventually recorded or refused, or dropped as a mismatch after
\* a void was undone.
ChargesAnswered ==
  \A s \in Sessions :
    sState[s] = "paid" ~> recorded[s] > 0 \/ s \in refused \/ (restored /\ s \in dropped)

=============================================================================
