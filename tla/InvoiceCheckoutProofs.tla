------------------------ MODULE InvoiceCheckoutProofs ------------------------
(***************************************************************************)
(* The money of an invoice is safe for every number of requests, sessions, *)
(* links and totals: type correctness, exact settlement, no money on a     *)
(* closed invoice, one record per charge, finality of PAID, and the        *)
(* refinement of InvoiceLedger.                                            *)
(***************************************************************************)
EXTENDS InvoiceCheckout, TLAPS

\* A request's locals may be replaced by any other locals.
LEMMA ReplaceLocals ==
  ASSUME NEW r \in Requests, NEW v \in Locals, req \in [Requests -> Locals],
         req' = [req EXCEPT ![r] = v]
  PROVE  req' \in [Requests -> Locals]
  OBVIOUS

LEMMA SessionsAreSome == NoSession \notin Sessions
  BY ConstantsAssumption DEF Sessions, NoSession

LEMMA IdleType == Idle \in Locals
  BY ConstantsAssumption DEF Idle, Locals, LocalRecords, NoSession

LEMMA EndsType ==
  ASSUME NEW r \in Requests, req \in [Requests -> Locals], Ends(r)
  PROVE  req' \in [Requests -> Locals]
  BY IdleType, ReplaceLocals DEF Ends

LEMMA SnapshotType ==
  ASSUME TypeOK, NEW n \in Nat
  PROVE  Snapshot("balance", n) \in Locals
  BY DEF TypeOK, RowOK, Snapshot, Locals, LocalRecords, NoSession

\* What checkout.sessions.create and expire leave of Stripe's types.
LEMMA StripeCreatesType ==
  ASSUME StripeOK, NEW key \in Keys, NEW s \in Sessions, StripeCreates(key, s)
  PROVE  StripeOK'
  BY DEF StripeOK, StripeCreates, stripe

LEMMA ExpireType ==
  ASSUME StripeOK, InboxOK, NEW s \in Sessions \cup {NoSession}, ExpireCheckoutSession(s)
  PROVE  StripeOK' /\ InboxOK'
  BY DEF StripeOK, InboxOK, ExpireCheckoutSession, stripe, NoSession

LEMMA KeyType ==
  ASSUME ReqOK, NEW r \in Requests
  PROVE  CheckoutKey(r) \in Keys
  BY DEF ReqOK, Locals, LocalRecords, CheckoutKey, Keys

LEMMA OwedType ==
  ASSUME ReqOK, RowOK, NEW r \in Requests
  PROVE  OwedNow(r) \in Nat
  BY DEF ReqOK, RowOK, Locals, LocalRecords, OwedNow

LEMMA PaymentType ==
  ASSUME RowOK, ChargesOK, NEW amount \in Nat, ApplyInvoicePayment(amount)
  PROVE  /\ paid' \in Nat /\ attempt' \in Nat /\ paidEvents' \in Nat
         /\ status' \in Voidable \cup {"PAID", "VOID"}
         /\ total' \in Nat /\ voidedFrom' \in Voidable \cup {"none"}
         /\ undoable' \in BOOLEAN /\ link' \in 0..MaxLinks /\ revoked' \in BOOLEAN
  BY DEF RowOK, ChargesOK, ApplyInvoicePayment

LEMMA AnsweredType ==
  ASSUME InboxOK, NEW m, Answered(m)
  PROVE  InboxOK'
  BY DEF InboxOK, Answered

LEMMA InitType == Init => TypeOK
  <1> SUFFICES ASSUME Init PROVE TypeOK
    OBVIOUS
  <1>1. RowOK
    <2>1. link \in 0..MaxLinks /\ total \in Nat
      BY ConstantsAssumption DEF Init
    <2>2. status \in Voidable
      BY ConstantsAssumption DEF Init, Voidable, Payable
    <2> QED
      BY <2>1, <2>2 DEF Init, RowOK, NoSession
  <1>2. StripeOK
    BY ConstantsAssumption DEF Init, StripeOK, NoKey, Keys
  <1>3. ReqOK
    BY IdleType DEF Init, ReqOK
  <1>4. InboxOK /\ HookOK /\ ChargesOK
    BY DEF Init, InboxOK, HookOK, ChargesOK
  <1> QED
    BY <1>1, <1>2, <1>3, <1>4 DEF TypeOK

\* The groups of variables a step does not touch keep their types.
LEMMA Untouched ==
  /\ RowOK /\ UNCHANGED row => RowOK'
  /\ StripeOK /\ UNCHANGED stripe => StripeOK'
  /\ InboxOK /\ UNCHANGED inbox => InboxOK'
  /\ ReqOK /\ UNCHANGED req => ReqOK'
  /\ HookOK /\ UNCHANGED hook => HookOK'
  /\ ChargesOK /\ UNCHANGED charges => ChargesOK'
  BY DEF RowOK, StripeOK, InboxOK, ReqOK, HookOK, ChargesOK, row, stripe, charges

LEMMA SendType ==
  ASSUME TypeOK, NEW r \in Requests, SendStep(r)
  PROVE  TypeOK'
  <1> USE Untouched DEF TypeOK
  <1>1. CASE SendRead(r)
    <2>1. [Idle EXCEPT !.pc = "claim", !.owed = total, !.attempt = attempt] \in Locals
      BY IdleType DEF RowOK, Locals, LocalRecords
    <2>2. ReqOK'
      BY <1>1, <2>1, ReplaceLocals DEF SendRead, ReqOK
    <2> QED
      BY <1>1, <2>2 DEF SendRead
  <1>2. CASE SendClaim(r)
    <2>1. ReqOK'
      <3>1. CASE status = "DRAFT"
        <4>1. link + 1 \in 0..MaxLinks
          BY <1>2, <3>1, ConstantsAssumption DEF SendClaim, RowOK
        <4>2. [req[r] EXCEPT !.pc = "owed", !.link = link + 1] \in Locals
          BY <4>1 DEF ReqOK, Locals, LocalRecords
        <4> QED
          BY <1>2, <3>1, <4>2, ReplaceLocals DEF SendClaim, ReqOK
      <3>2. CASE status # "DRAFT"
        BY <1>2, <3>2, EndsType DEF SendClaim, ReqOK
      <3> QED
        BY <3>1, <3>2
    <2>2. RowOK'
      <3>1. status' \in Voidable \cup {"PAID", "VOID"}
        BY <1>2 DEF SendClaim, RowOK, Voidable, Payable
      <3>2. link' \in 0..MaxLinks
        BY <1>2, ConstantsAssumption DEF SendClaim, RowOK
      <3>3. revoked' \in BOOLEAN
        BY <1>2 DEF SendClaim, RowOK
      <3> QED
        BY <1>2, <3>1, <3>2, <3>3 DEF SendClaim, RowOK
    <2> QED
      BY <1>2, <2>1, <2>2 DEF SendClaim
  <1>3. CASE SendBalance(r)
    <2>1. [req[r] EXCEPT !.pc = "link", !.owed = OwedNow(r)] \in Locals
      BY OwedType DEF ReqOK, Locals, LocalRecords
    <2>2. ReqOK'
      BY <1>3, <2>1, ReplaceLocals DEF SendBalance, ReqOK
    <2> QED
      BY <1>3, <2>2 DEF SendBalance
  <1>4. CASE SendStore(r)
    <2>1. ReqOK'
      BY <1>4, EndsType DEF SendStore, ReqOK
    <2>2. RowOK'
      BY <1>4 DEF SendStore, RowOK, ReqOK, Locals, LocalRecords
    <2>3. req[r].session \in Sessions
      BY <1>4 DEF SendStore, ReqOK, Locals, LocalRecords
    <2>4. ChargesOK'
      BY <1>4, <2>3 DEF SendStore, ChargesOK
    <2> QED
      BY <1>4, <2>1, <2>2, <2>4 DEF SendStore
  <1>5. ASSUME NEW s \in Sessions, SendCreate(r, s) PROVE TypeOK'
    <2>0. [req[r] EXCEPT !.pc = "attach", !.session = s] \in Locals
      BY SessionsAreSome DEF ReqOK, Locals, LocalRecords
    <2>1. ReqOK'
      BY <1>5, <2>0, ReplaceLocals DEF SendCreate, ReqOK
    <2>2. StripeOK'
      BY <1>5, KeyType, StripeCreatesType DEF SendCreate
    <2> QED
      BY <1>5, <2>1, <2>2 DEF SendCreate
  <1> QED
    BY <1>1, <1>2, <1>3, <1>4, <1>5 DEF SendStep

LEMMA PayType ==
  ASSUME TypeOK, NEW r \in Requests, PayStep(r)
  PROVE  TypeOK'
  <1> USE Untouched DEF TypeOK
  <1>0. req[r] \in Locals
    BY DEF ReqOK
  <1>1. CASE PayRead(r)
    <2>1. ReqOK'
      BY <1>1, SnapshotType, ReplaceLocals DEF PayRead, ReqOK
    <2> QED
      BY <1>1, <2>1 DEF PayRead
  <1>2. CASE PayBalance(r)
    <2>1. [req[r] EXCEPT !.pc = "create", !.owed = OwedNow(r), !.status = "none",
                         !.seen = NoSession] \in Locals
      BY <1>0, OwedType DEF Locals, LocalRecords, NoSession
    <2>2. ReqOK'
      BY <1>2, <2>1, EndsType, ReplaceLocals DEF PayBalance, ReqOK
    <2>3. req[r].seen \in Sessions \cup {NoSession}
      BY <1>0 DEF Locals, LocalRecords
    <2>4. ChargesOK'
      BY <1>2, <2>3 DEF PayBalance, Reusable, ChargesOK
    <2> QED
      BY <1>2, <2>2, <2>4 DEF PayBalance
  <1>3. ASSUME NEW s \in Sessions, PayCreate(r, s) PROVE TypeOK'
    <2>0. [req[r] EXCEPT !.pc = "store", !.session = s] \in Locals
      BY <1>0, SessionsAreSome DEF Locals, LocalRecords
    <2>1. ReqOK'
      BY <1>3, <2>0, ReplaceLocals DEF PayCreate, ReqOK
    <2>2. StripeOK'
      BY <1>3, KeyType, StripeCreatesType DEF PayCreate
    <2> QED
      BY <1>3, <2>1, <2>2 DEF PayCreate
  <1>4. CASE PayStore(r)
    <2>1. [req[r] EXCEPT !.pc = "reread"] \in Locals /\ req[r].session \in Sessions
      BY <1>0, <1>4 DEF PayStore, Locals, LocalRecords, NoSession
    <2>2. ReqOK'
      BY <1>4, <2>1, EndsType, ReplaceLocals DEF PayStore, ReqOK
    <2>3. req[r].attempt \in Nat
      BY <1>0 DEF Locals, LocalRecords
    <2>4. RowOK'
      BY <1>4, <2>1, <2>3 DEF PayStore, RowOK
    <2>5. ChargesOK'
      BY <1>4, <2>1 DEF PayStore, ChargesOK
    <2> QED
      BY <1>4, <2>2, <2>4, <2>5 DEF PayStore
  <1>5. CASE PayReread(r)
    <2>1. req[r].session \in Sessions /\ req[r].round \in Nat
      BY <1>0, <1>5 DEF PayReread, Locals, LocalRecords, NoSession
    <2>2. [Snapshot("expire", req[r].round) EXCEPT !.session = req[r].session] \in Locals
      BY <2>1, SessionsAreSome DEF Snapshot, Locals, LocalRecords, RowOK
    <2>3. ReqOK'
      BY <1>5, <2>2, EndsType, ReplaceLocals DEF PayReread, ReqOK
    <2>4. ChargesOK'
      BY <1>5, <2>1 DEF PayReread, StoredByOther, ChargesOK
    <2> QED
      BY <1>5, <2>3, <2>4 DEF PayReread
  <1>6. CASE PayExpire(r)
    <2>0. req[r].round + 1 \in Nat
      BY <1>0 DEF Locals, LocalRecords
    <2>1. [req[r] EXCEPT !.pc = "balance", !.round = req[r].round + 1,
                         !.session = NoSession] \in Locals
      BY <1>0, <2>0 DEF Locals, LocalRecords
    <2>2. ReqOK'
      BY <1>6, <2>1, EndsType, ReplaceLocals DEF PayExpire, ReqOK
    <2>3. StripeOK' /\ InboxOK'
      BY <1>0, <1>6, ExpireType DEF PayExpire, Locals, LocalRecords
    <2> QED
      BY <1>6, <2>2, <2>3 DEF PayExpire
  <1> QED
    BY <1>1, <1>2, <1>3, <1>4, <1>5, <1>6 DEF PayStep

LEMMA StaffType ==
  ASSUME TypeOK, NEW r \in Requests,
         \/ \E amount \in 0..(total + 1) : RecordManualPayment(r, amount)
         \/ VoidRead(r) \/ VoidInvoice(r) \/ RetireCheckoutSession(r) \/ Abandon(r)
  PROVE  TypeOK'
  <1> USE Untouched DEF TypeOK
  <1>0. req[r] \in Locals
    BY DEF ReqOK
  <1>1. ASSUME NEW amount \in 0..(total + 1), RecordManualPayment(r, amount) PROVE TypeOK'
    <2>1. amount \in Nat
      BY DEF RowOK
    <2>2. ApplyInvoicePayment(amount)
      BY <1>1 DEF RecordManualPayment
    <2>3. RowOK' /\ paidEvents' \in Nat
      BY <1>1, <2>1, <2>2, PaymentType DEF RecordManualPayment, RowOK
    <2>4. ChargesOK'
      BY <1>1, <2>3 DEF RecordManualPayment, ChargesOK
    <2>5. [Idle EXCEPT !.pc = "retire", !.session = stored] \in Locals
      BY IdleType DEF RowOK, Locals, LocalRecords
    <2>6. ReqOK'
      BY <1>1, <2>5, ReplaceLocals DEF RecordManualPayment, ReqOK
    <2> QED
      BY <1>1, <2>3, <2>4, <2>6 DEF RecordManualPayment
  <1>2. CASE VoidRead(r)
    <2>1. [Idle EXCEPT !.pc = "void", !.status = status, !.seen = stored] \in Locals
      BY <1>2, IdleType DEF VoidRead, RowOK, Locals, LocalRecords
    <2>2. ReqOK'
      BY <1>2, <2>1, ReplaceLocals DEF VoidRead, ReqOK
    <2> QED
      BY <1>2, <2>2 DEF VoidRead
  <1>3. CASE VoidInvoice(r)
    <2>1. [Idle EXCEPT !.pc = "retire", !.session = req[r].seen] \in Locals
      BY <1>0, IdleType DEF RowOK, Locals, LocalRecords
    <2>2. ReqOK'
      BY <1>3, <2>1, EndsType, ReplaceLocals DEF VoidInvoice, ReqOK
    <2>3. CASE MayVoid
      <3>1. voidedFrom' \in Voidable \cup {"none"}
        BY <1>0, <1>3, <2>3 DEF VoidInvoice, MayVoid, Locals, LocalRecords
      <3>2. RowOK'
        BY <1>3, <2>3, <3>1 DEF VoidInvoice, MayVoid, RowOK
      <3>3. ChargesOK'
        BY <1>3, <2>3 DEF VoidInvoice, MayVoid, ChargesOK, RowOK
      <3> QED
        BY <1>3, <2>2, <3>2, <3>3 DEF VoidInvoice
    <2>4. CASE ~MayVoid
      <3>1. RowOK' /\ ChargesOK'
        BY <1>3, <2>4 DEF VoidInvoice, RowOK, ChargesOK
      <3> QED
        BY <1>3, <2>2, <3>1 DEF VoidInvoice
    <2> QED
      BY <2>3, <2>4
  <1>4. CASE RetireCheckoutSession(r)
    <2>1. StripeOK' /\ InboxOK'
      BY <1>0, <1>4, ExpireType DEF RetireCheckoutSession, Locals, LocalRecords
    <2>2. ReqOK'
      BY <1>4, EndsType DEF RetireCheckoutSession, ReqOK
    <2> QED
      BY <1>4, <2>1, <2>2 DEF RetireCheckoutSession
  <1>5. CASE Abandon(r)
    <2>1. ReqOK'
      BY <1>5, EndsType DEF Abandon, ReqOK
    <2> QED
      BY <1>5, <2>1 DEF Abandon
  <1> QED
    BY <1>1, <1>2, <1>3, <1>4, <1>5

LEMMA RowType ==
  ASSUME TypeOK,
         \/ \E t \in Totals : EditDraft(t)
         \/ UndoVoid \/ UndoWindowCloses
         \/ MarkOverdue \/ RevokePublicLink \/ RotatePublicLink
  PROVE  TypeOK'
  <1> USE Untouched DEF TypeOK
  <1>1. ASSUME NEW t \in Totals, EditDraft(t) PROVE TypeOK'
    <2>1. RowOK'
      BY <1>1, ConstantsAssumption DEF EditDraft, RowOK
    <2> QED
      BY <1>1, <2>1 DEF EditDraft
  <1>2. CASE UndoVoid
    <2>1. RowOK'
      BY <1>2 DEF UndoVoid, RowOK
    <2>2. ChargesOK'
      BY <1>2 DEF UndoVoid, ChargesOK
    <2> QED
      BY <1>2, <2>1, <2>2 DEF UndoVoid
  <1>3. CASE UndoWindowCloses
    <2>1. RowOK'
      BY <1>3 DEF UndoWindowCloses, RowOK
    <2> QED
      BY <1>3, <2>1 DEF UndoWindowCloses
  <1>4. CASE MarkOverdue
    <2>1. RowOK'
      BY <1>4 DEF MarkOverdue, RowOK, Voidable, Payable
    <2> QED
      BY <1>4, <2>1 DEF MarkOverdue
  <1>5. CASE RevokePublicLink
    <2>1. RowOK'
      BY <1>5 DEF RevokePublicLink, RowOK
    <2> QED
      BY <1>5, <2>1 DEF RevokePublicLink
  <1>6. CASE RotatePublicLink
    <2>1. link' \in 0..MaxLinks
      BY <1>6, ConstantsAssumption DEF RotatePublicLink, RowOK
    <2>2. RowOK'
      BY <1>6, <2>1 DEF RotatePublicLink, RowOK
    <2> QED
      BY <1>6, <2>2 DEF RotatePublicLink
  <1> QED
    BY <1>1, <1>2, <1>3, <1>4, <1>5, <1>6

LEMMA WebhookType ==
  ASSUME TypeOK, NEW s \in Sessions, CompletedStep(s)
  PROVE  TypeOK'
  <1> USE Untouched DEF TypeOK
  <1>1. CASE RecordCompletedCheckout(s)
    <2>1. InboxOK'
      BY <1>1, AnsweredType DEF RecordCompletedCheckout
    <2>2. HookOK'
      BY <1>1 DEF RecordCompletedCheckout, HookOK
    <2>3. RowOK' /\ ChargesOK'
      <3>1. CASE UNCHANGED <<row, charges>>
        BY <3>1
      <3>2. CASE /\ ApplyInvoicePayment(Amount(s))
                 /\ stored' = IF Covers(Amount(s)) THEN s ELSE NoSession
                 /\ recorded' = [recorded EXCEPT ![s] = @ + 1]
                 /\ UNCHANGED <<handed, refused, audited, dropped, restored>>
        <4>1. Amount(s) \in Nat
          BY DEF StripeOK, Keys, Amount
        <4>2. RowOK'
          BY <3>2, <4>1, PaymentType DEF RowOK
        <4>3. recorded' \in [Sessions -> Nat]
          BY <3>2 DEF ChargesOK
        <4>4. paidEvents' \in Nat
          BY <3>2, <4>1, PaymentType
        <4>5. ChargesOK'
          BY <3>2, <4>3, <4>4 DEF ChargesOK
        <4> QED
          BY <4>2, <4>5
      <3>3. CASE /\ refused' = refused \cup {s}
                 /\ UNCHANGED <<row, handed, recorded, audited, dropped, paidEvents, restored>>
        BY <3>3 DEF ChargesOK
      <3> QED
        BY <1>1, <3>1, <3>2, <3>3 DEF RecordCompletedCheckout
    <2> QED
      BY <1>1, <2>1, <2>2, <2>3 DEF RecordCompletedCheckout
  <1>2. CASE ClaimMisses(s)
    <2>1. HookOK'
      BY <1>2 DEF ClaimMisses, HookOK
    <2> QED
      BY <1>2, <2>1 DEF ClaimMisses
  <1>3. CASE CheckReplay(s)
    <2>1. HookOK'
      BY <1>3 DEF CheckReplay, HookOK
    <2>2. InboxOK'
      BY <1>3, AnsweredType DEF CheckReplay
    <2> QED
      BY <1>3, <2>1, <2>2 DEF CheckReplay
  <1>4. CASE ClassifyRefusal(s)
    <2>1. HookOK'
      BY <1>4 DEF ClassifyRefusal, HookOK
    <2>2. InboxOK'
      BY <1>4, AnsweredType DEF ClassifyRefusal
    <2>3. ChargesOK'
      BY <1>4 DEF ClassifyRefusal, ChargesOK
    <2> QED
      BY <1>4, <2>1, <2>2, <2>3 DEF ClassifyRefusal
  <1>5. CASE RecordRefusedCheckout(s)
    <2>1. HookOK'
      BY <1>5 DEF RecordRefusedCheckout, HookOK
    <2>2. InboxOK'
      BY <1>5, AnsweredType DEF RecordRefusedCheckout
    <2>3. ChargesOK'
      BY <1>5 DEF RecordRefusedCheckout, ChargesOK
    <2> QED
      BY <1>5, <2>1, <2>2, <2>3 DEF RecordRefusedCheckout
  <1>6. CASE DeliveryFails(s)
    <2>1. HookOK'
      BY <1>6 DEF DeliveryFails, HookOK
    <2> QED
      BY <1>6, <2>1 DEF DeliveryFails
  <1> QED
    BY <1>1, <1>2, <1>3, <1>4, <1>5, <1>6 DEF CompletedStep

LEMMA StripeType ==
  ASSUME TypeOK, NEW s \in Sessions, StripeStep(s)
  PROVE  TypeOK'
  <1> USE Untouched DEF TypeOK
  <1>1. CASE CustomerPays(s)
    <2>1. StripeOK' /\ InboxOK'
      BY <1>1 DEF CustomerPays, StripeOK, InboxOK
    <2> QED
      BY <1>1, <2>1 DEF CustomerPays
  <1>2. CASE ReuseMarginPasses(s)
    <2>1. StripeOK'
      BY <1>2 DEF ReuseMarginPasses, StripeOK
    <2> QED
      BY <1>2, <2>1 DEF ReuseMarginPasses
  <1>3. CASE SessionLapses(s)
    <2>1. StripeOK' /\ InboxOK'
      BY <1>3 DEF SessionLapses, StripeOK, InboxOK
    <2> QED
      BY <1>3, <2>1 DEF SessionLapses
  <1>4. CASE ClearExpiredCheckout(s)
    <2>1. RowOK'
      BY <1>4 DEF ClearExpiredCheckout, RowOK
    <2>2. InboxOK'
      BY <1>4, AnsweredType DEF ClearExpiredCheckout
    <2> QED
      BY <1>4, <2>1, <2>2 DEF ClearExpiredCheckout
  <1> QED
    BY <1>1, <1>2, <1>3, <1>4 DEF StripeStep

LEMMA NextType ==
  ASSUME TypeOK, [Next]_vars
  PROVE  TypeOK'
  <1>1. CASE Next
    BY <1>1, SendType, PayType, StaffType, RowType, WebhookType, StripeType
    DEF Next, Requests
  <1>2. CASE UNCHANGED vars
    BY <1>2, Untouched DEF vars, TypeOK
  <1> QED
    BY <1>1, <1>2

\* Type correctness: every reachable state has well-typed columns, sessions,
\* locals and history, a pay request about to store a session has one, and a
\* void request only ever remembers a status that undo-void accepts.
THEOREM TypeCorrect == Spec => []TypeOK
  BY InitType, NextType, PTL DEF Spec

-----------------------------------------------------------------------------
\* What a step may do to the money: of the twenty-odd actions only these seven
\* kinds touch the status, the total, the payments or the invoice.paid events.
\* The theorems below follow from this classification.
SameMoney == UNCHANGED <<total, paid, paidEvents>>

MoneyStep ==
  \/ UNCHANGED status /\ SameMoney
  \/ status = "DRAFT" /\ total' \in Totals /\ UNCHANGED <<status, paid, paidEvents>>
  \/ status = "DRAFT" /\ status' = "SENT" /\ SameMoney
  \/ Claimable /\ \E amount \in Nat : Accepts(amount) /\ ApplyInvoicePayment(amount)
  \/ MayVoid /\ status' = "VOID" /\ SameMoney
  \/ status = "VOID" /\ status' \in Voidable /\ SameMoney
  \/ status = "SENT" /\ status' = "OVERDUE" /\ SameMoney

LEMMA NextMoney ==
  ASSUME TypeOK, [Next]_vars
  PROVE  MoneyStep
  <1> USE DEF SameMoney, row, charges
  <1>1. ASSUME NEW t \in Totals, EditDraft(t) PROVE MoneyStep
    BY <1>1 DEF EditDraft, MoneyStep
  <1>2. ASSUME NEW r \in Senders, SendStep(r) PROVE MoneyStep
    BY <1>2 DEF SendStep, SendRead, SendClaim, SendBalance, SendCreate, SendStore, MoneyStep
  <1>3. ASSUME NEW r \in Payers, PayStep(r) PROVE MoneyStep
    BY <1>3 DEF PayStep, PayRead, PayBalance, PayCreate, PayStore, PayReread, PayExpire,
                MoneyStep
  <1>4. ASSUME NEW r \in Cashiers, NEW amount \in 0..(total + 1),
               RecordManualPayment(r, amount)
        PROVE  MoneyStep
    <2>1. amount \in Nat
      BY DEF TypeOK, RowOK
    <2> QED
      BY <1>4, <2>1 DEF RecordManualPayment, MoneyStep
  <1>5. ASSUME NEW r \in Voiders, VoidRead(r) \/ VoidInvoice(r) PROVE MoneyStep
    BY <1>5 DEF VoidRead, VoidInvoice, MoneyStep
  <1>6. ASSUME NEW r \in Voiders \cup Cashiers, RetireCheckoutSession(r) PROVE MoneyStep
    BY <1>6 DEF RetireCheckoutSession, MoneyStep
  <1>7. CASE UndoVoid \/ UndoWindowCloses
    BY <1>7 DEF UndoVoid, UndoWindowCloses, MoneyStep
  <1>8. CASE MarkOverdue \/ RevokePublicLink \/ RotatePublicLink
    BY <1>8 DEF MarkOverdue, RevokePublicLink, RotatePublicLink, MoneyStep
  <1>9. ASSUME NEW r \in Requests, Abandon(r) PROVE MoneyStep
    BY <1>9 DEF Abandon, MoneyStep
  <1>10. ASSUME NEW s \in Sessions, CompletedStep(s) PROVE MoneyStep
    <2>1. Amount(s) \in Nat
      BY DEF TypeOK, StripeOK, Keys, Amount
    <2>2. CASE RecordCompletedCheckout(s)
      BY <2>1, <2>2 DEF RecordCompletedCheckout, MoneyStep
    <2>3. CASE ClaimMisses(s) \/ CheckReplay(s) \/ ClassifyRefusal(s)
             \/ RecordRefusedCheckout(s) \/ DeliveryFails(s)
      BY <2>3 DEF ClaimMisses, CheckReplay, ClassifyRefusal, RecordRefusedCheckout,
                  DeliveryFails, MoneyStep
    <2> QED
      BY <1>10, <2>2, <2>3 DEF CompletedStep
  <1>11. ASSUME NEW s \in Sessions, StripeStep(s) PROVE MoneyStep
    BY <1>11 DEF StripeStep, CustomerPays, ReuseMarginPasses, SessionLapses,
                 ClearExpiredCheckout, MoneyStep
  <1>12. CASE UNCHANGED vars
    BY <1>12 DEF vars, MoneyStep
  <1> QED
    BY <1>1, <1>2, <1>3, <1>4, <1>5, <1>6, <1>7, <1>8, <1>9, <1>10, <1>11, <1>12
    DEF Next

\* The inductive invariant of the money is the conjunction of the two
\* invariants: an undone void reopens an invoice as unpaid only because the
\* void found no payments, and a payment keeps paid <= total only because the
\* open invoice it claims was not yet covered.
MoneyInv == SettledExactly /\ ClosedWithoutMoney

LEMMA InitMoney == Init => MoneyInv
  BY ConstantsAssumption
  DEF Init, MoneyInv, SettledExactly, ClosedWithoutMoney, Payable

LEMMA PaymentMoney ==
  ASSUME TypeOK, MoneyInv, Claimable, NEW amount \in Nat,
         Accepts(amount), ApplyInvoicePayment(amount)
  PROVE  MoneyInv'
  <1>1. paid + amount <= total /\ paid' = paid + amount /\ total' = total
    BY DEF TypeOK, RowOK, MoneyInv, SettledExactly, Accepts, Balance, ApplyInvoicePayment
  <1>2. CASE Covers(amount)
    BY <1>1, <1>2 DEF TypeOK, RowOK, ChargesOK, MoneyInv, SettledExactly, ClosedWithoutMoney,
       Covers, Claimable, Payable, ApplyInvoicePayment
  <1>3. CASE ~Covers(amount)
    BY <1>1, <1>3 DEF TypeOK, RowOK, ChargesOK, MoneyInv, SettledExactly, ClosedWithoutMoney,
       Covers, Claimable, Payable, ApplyInvoicePayment
  <1> QED
    BY <1>2, <1>3

LEMMA NextMoneyInv ==
  ASSUME TypeOK, MoneyInv, [Next]_vars
  PROVE  MoneyInv'
  <1> USE DEF SameMoney, MoneyInv, SettledExactly, ClosedWithoutMoney, TypeOK, RowOK
  <1>1. CASE UNCHANGED status /\ SameMoney
    BY <1>1
  <1>2. CASE status = "DRAFT" /\ total' \in Totals /\ UNCHANGED <<status, paid, paidEvents>>
    BY <1>2, ConstantsAssumption DEF Payable
  <1>3. CASE status = "DRAFT" /\ status' = "SENT" /\ SameMoney
    BY <1>3
  <1>4. ASSUME Claimable, NEW amount \in Nat, Accepts(amount), ApplyInvoicePayment(amount)
        PROVE  MoneyInv'
    BY <1>4, PaymentMoney
  <1>5. CASE MayVoid /\ status' = "VOID" /\ SameMoney
    BY <1>5 DEF MayVoid, Voidable, Payable
  <1>6. CASE status = "VOID" /\ status' \in Voidable /\ SameMoney
    BY <1>6 DEF Voidable, Payable
  <1>7. CASE status = "SENT" /\ status' = "OVERDUE" /\ SameMoney
    BY <1>7 DEF Payable
  <1> QED
    BY <1>1, <1>2, <1>3, <1>4, <1>5, <1>6, <1>7, NextMoney DEF MoneyStep

LEMMA MoneyInvariant == Spec => []MoneyInv
  <1>1. Init => MoneyInv
    BY InitMoney
  <1>2. TypeOK /\ MoneyInv /\ [Next]_vars => MoneyInv'
    BY NextMoneyInv
  <1> QED
    BY <1>1, <1>2, TypeCorrect, PTL DEF Spec

\* Exact settlement: for any number of concurrent pay, send, void and mark-paid
\* requests and any redelivery of webhooks, the payments never exceed the
\* total, cover it exactly when the invoice is PAID, and one invoice.paid event
\* accompanies it.
THEOREM SettlementIsExact == Spec => []SettledExactly
  BY MoneyInvariant, PTL DEF MoneyInv

\* No recorded money is ever left on a VOID or DRAFT invoice.
THEOREM NoMoneyOnClosed == Spec => []ClosedWithoutMoney
  BY MoneyInvariant, PTL DEF MoneyInv

\* A PAID invoice stays PAID with the same total and payments.
THEOREM PaidStaysPaid == Spec => PaidIsFinal
  <1>1. TypeOK /\ [Next]_vars =>
          [status = "PAID" => status' = "PAID" /\ total' = total /\ paid' = paid]_vars
    <2> SUFFICES ASSUME TypeOK, [Next]_vars, status = "PAID"
                 PROVE  status' = "PAID" /\ total' = total /\ paid' = paid
      OBVIOUS
    <2> QED
      BY NextMoney DEF MoneyStep, SameMoney, Claimable, MayVoid, Voidable, Payable
  <1> QED
    BY <1>1, TypeCorrect, PTL DEF Spec, PaidIsFinal

-----------------------------------------------------------------------------
\* What a step may do to the STRIPE payment rows.
RecordedStep ==
  \/ UNCHANGED recorded
  \/ \E s \in Sessions :
       ~AlreadyRecorded(s) /\ recorded' = [recorded EXCEPT ![s] = @ + 1]

LEMMA RecordedChange ==
  ASSUME [Next]_vars
  PROVE  RecordedStep
  <1> USE DEF charges, RecordedStep
  <1>1. ASSUME NEW r \in Senders, SendStep(r) PROVE RecordedStep
    BY <1>1 DEF SendStep, SendRead, SendClaim, SendBalance, SendCreate, SendStore
  <1>2. ASSUME NEW r \in Payers, PayStep(r) PROVE RecordedStep
    BY <1>2 DEF PayStep, PayRead, PayBalance, PayCreate, PayStore, PayReread, PayExpire
  <1>3. ASSUME NEW s \in Sessions, CompletedStep(s) PROVE RecordedStep
    BY <1>3 DEF CompletedStep, RecordCompletedCheckout, ClaimMisses, CheckReplay,
                ClassifyRefusal, RecordRefusedCheckout, DeliveryFails
  <1>4. ASSUME NEW s \in Sessions, StripeStep(s) PROVE RecordedStep
    BY <1>4 DEF StripeStep, CustomerPays, ReuseMarginPasses, SessionLapses, ClearExpiredCheckout
  <1>5. ASSUME NEW r \in Requests,
               \/ \E amount \in 0..(total + 1) : RecordManualPayment(r, amount)
               \/ VoidRead(r) \/ VoidInvoice(r) \/ RetireCheckoutSession(r) \/ Abandon(r)
        PROVE  RecordedStep
    BY <1>5 DEF RecordManualPayment, VoidRead, VoidInvoice, RetireCheckoutSession, Abandon
  <1>6. CASE \/ \E t \in Totals : EditDraft(t)
             \/ UndoVoid \/ UndoWindowCloses
             \/ MarkOverdue \/ RevokePublicLink \/ RotatePublicLink
    BY <1>6 DEF EditDraft, UndoVoid, UndoWindowCloses, MarkOverdue, RevokePublicLink,
                RotatePublicLink
  <1>7. CASE UNCHANGED vars
    BY <1>7 DEF vars
  <1> QED
    <2> HIDE DEF RecordedStep
    <2> QED
      BY <1>1, <1>2, <1>3, <1>4, <1>5, <1>6, <1>7 DEF Next, Requests

\* A Stripe charge is recorded at most once, for any number of deliveries and
\* sessions: the replay check under the row lock is what makes it so.
THEOREM ChargeRecordedOnce == Spec => []RecordedOnce
  <1>1. Init => RecordedOnce
    BY DEF Init, RecordedOnce
  <1>2. TypeOK /\ RecordedOnce /\ [Next]_vars => RecordedOnce'
    <2> SUFFICES ASSUME TypeOK, RecordedOnce, [Next]_vars PROVE RecordedOnce'
      OBVIOUS
    <2>1. CASE UNCHANGED recorded
      BY <2>1 DEF RecordedOnce
    <2>2. ASSUME NEW s \in Sessions, ~AlreadyRecorded(s),
                 recorded' = [recorded EXCEPT ![s] = @ + 1]
          PROVE  RecordedOnce'
      BY <2>2 DEF RecordedOnce, AlreadyRecorded, TypeOK, ChargesOK
    <2> QED
      BY <2>1, <2>2, RecordedChange DEF RecordedStep
  <1> QED
    BY <1>1, <1>2, TypeCorrect, PTL DEF Spec

-----------------------------------------------------------------------------
LEMMA InitLedger == Init => Ledger!Init
  BY ConstantsAssumption DEF Init, Ledger!Init, Phase, Payable

LEMMA PaymentLedger ==
  ASSUME TypeOK, MoneyInv, Claimable, NEW amount \in Nat,
         Accepts(amount), ApplyInvoicePayment(amount)
  PROVE  Ledger!Next
  <1>1. paid + amount <= total /\ paid' = paid + amount /\ total' = total
    BY DEF TypeOK, RowOK, MoneyInv, SettledExactly, Accepts, Balance, ApplyInvoicePayment
  <1>2. amount = 0 => paid = total
    BY DEF TypeOK, RowOK, MoneyInv, SettledExactly, Accepts, Balance
  <1>3. Phase = "open"
    BY DEF Phase, Claimable, Payable
  <1>4. Phase' = IF paid' = total THEN "paid" ELSE "open"
    <2>1. CASE Covers(amount)
      BY <1>1, <2>1 DEF TypeOK, RowOK, Covers, ApplyInvoicePayment, Phase, Payable
    <2>2. CASE ~Covers(amount)
      BY <1>1, <2>2 DEF TypeOK, RowOK, Covers, ApplyInvoicePayment, Phase, Claimable, Payable
    <2> QED
      BY <2>1, <2>2
  <1>5. amount \in 0..total
    BY <1>1 DEF TypeOK, RowOK
  <1>6. Ledger!Pay(amount)
    BY <1>1, <1>2, <1>3, <1>4 DEF Ledger!Pay
  <1> QED
    BY <1>5, <1>6 DEF Ledger!Next

LEMMA NextLedger ==
  ASSUME TypeOK, MoneyInv, [Next]_vars
  PROVE  [Ledger!Next]_(Ledger!vars)
  <1> USE DEF SameMoney, Phase, Payable
  <1>1. CASE UNCHANGED status /\ SameMoney
    BY <1>1 DEF Ledger!vars
  <1>2. CASE status = "DRAFT" /\ total' \in Totals /\ UNCHANGED <<status, paid, paidEvents>>
    BY <1>2 DEF Ledger!Next, Ledger!Edit
  <1>3. CASE status = "DRAFT" /\ status' = "SENT" /\ SameMoney
    BY <1>3 DEF Ledger!Next, Ledger!Issue
  <1>4. ASSUME Claimable, NEW amount \in Nat, Accepts(amount), ApplyInvoicePayment(amount)
        PROVE  Ledger!Next
    BY <1>4, PaymentLedger
  <1>5. CASE MayVoid /\ status' = "VOID" /\ SameMoney
    BY <1>5 DEF MayVoid, Voidable, Ledger!Next, Ledger!Void
  <1>6. CASE status = "VOID" /\ status' \in Voidable /\ SameMoney
    BY <1>6 DEF Voidable, Ledger!Next, Ledger!Restore
  <1>7. CASE status = "SENT" /\ status' = "OVERDUE" /\ SameMoney
    BY <1>7 DEF Ledger!vars
  <1> QED
    BY <1>1, <1>2, <1>3, <1>4, <1>5, <1>6, <1>7, NextMoney DEF MoneyStep

\* Refinement: the requests, sessions and webhooks implement the ledger of one
\* invoice, for every number of each.
THEOREM LedgerImplemented == Spec => ImplementsLedger
  <1>1. Init => Ledger!Init
    BY InitLedger
  <1>2. TypeOK /\ MoneyInv /\ [Next]_vars => [Ledger!Next]_(Ledger!vars)
    BY NextLedger
  <1> QED
    BY <1>1, <1>2, TypeCorrect, MoneyInvariant, PTL DEF Spec, ImplementsLedger, Ledger!Spec

-----------------------------------------------------------------------------
\* Stored sessions of an invoice that has been sent, while no send
\* is in flight: a send stores its session unconditionally, and so over a void
\* or a payment.

\* What a request holds of an invoice that has been sent: the status it read was
\* no draft, and its sessions are ones that Stripe created.
Named(l) ==
  /\ l.pc = "void" => l.status # "DRAFT"
  /\ l.session # NoSession => sState[l.session] # "unused"
  /\ l.seen # NoSession => sState[l.seen] # "unused"

\* A request whose attempt is still the invoice's has priced its session at the
\* balance: every payment counts the attempt up.
Priced(l) ==
  /\ l.pc \in {"balance", "expire"} => l.owed = total
  /\ l.pc \in {"balance", "create", "store", "expire"} => l.attempt <= attempt
  /\ l.pc \in {"create", "store"} /\ l.attempt = attempt => l.owed = Balance
  /\ l.pc = "store" => Amount(l.session) = l.owed

SentInv ==
  /\ status # "DRAFT" /\ voidedFrom # "DRAFT"
  /\ stored # NoSession => sState[stored] # "unused"
  /\ \A m \in inbox : sState[m[2]] # "unused"

PriceInv ==
  /\ SentInv
  /\ \A r \in Requests : Named(req[r]) /\ Priced(req[r])
  /\ StoredAtBalance /\ VoidHasNoSession

\* What every step leaves of an invoice that has been sent.
Frame ==
  /\ total' = total
  /\ attempt' \in Nat /\ attempt <= attempt' /\ (attempt' = attempt => paid' = paid)
  /\ \A s \in Sessions : sState[s] # "unused" => sState'[s] # "unused" /\ sKey'[s] = sKey[s]

\* What a step does to the stored session.
StoredStep ==
  \/ stored' = NoSession
  \/ /\ UNCHANGED <<stored, paid>>
     /\ status' = status \/ {status, status'} \subseteq Payable \/ status = "VOID"
  \/ status' = "PAID" /\ \E s \in Sessions : <<"completed", s>> \in inbox /\ stored' = s
  \/ \E r \in Requests : /\ req[r].pc = "store" /\ MayStore(r) /\ stored' = req[r].session
                         /\ UNCHANGED <<status, paid>> /\ attempt' = attempt + 1

LEMMA CreatesFrame ==
  ASSUME StripeOK, NEW key, NEW s \in Sessions, StripeCreates(key, s)
  PROVE  /\ \A t \in Sessions : sState[t] # "unused" => sState'[t] # "unused" /\ sKey'[t] = sKey[t]
         /\ sState'[s] # "unused" /\ sKey'[s] = key
         /\ \A t \in Sessions : sState'[t] = "expired" /\ t \in young' => sState[t] = "expired" /\ t \in young
  BY DEF StripeOK, StripeCreates, stripe

LEMMA ExpireFrame ==
  ASSUME StripeOK, NEW s \in Sessions \cup {NoSession}, ExpireCheckoutSession(s)
  PROVE  /\ \A t \in Sessions : sState[t] # "unused" => sState'[t] # "unused"
         /\ UNCHANGED <<sKey, young>>
         /\ \A t \in Sessions : sState'[t] = "expired" => sState[t] = "expired" \/ t = s
         /\ \A m \in inbox' : m \in inbox \/ (m[2] = s /\ s # NoSession /\ sState[s] = "open")
  BY SessionsAreSome DEF StripeOK, ExpireCheckoutSession, stripe

LEMMA PayFrame ==
  ASSUME TypeOK, NEW r \in Requests, PayStep(r)
  PROVE  Frame /\ StoredStep
<1> USE DEF TypeOK, Frame, StoredStep, row, stripe
<1>1. attempt \in Nat /\ req[r] \in Locals
  BY DEF RowOK, ReqOK
<1>2. CASE PayRead(r) \/ PayBalance(r) \/ PayReread(r)
  BY <1>1, <1>2 DEF PayRead, PayBalance, PayReread
<1>3. ASSUME NEW s \in Sessions, PayCreate(r, s) PROVE Frame /\ StoredStep
  BY <1>1, <1>3, CreatesFrame DEF PayCreate
<1>4. CASE PayStore(r)
  BY <1>1, <1>4 DEF PayStore, MayStore
<1>5. CASE PayExpire(r)
  <2>1. req[r].session \in Sessions \cup {NoSession}
    BY <1>1 DEF Locals, LocalRecords
  <2> QED
    BY <1>1, <1>5, <2>1, ExpireFrame DEF PayExpire
<1> QED
  BY <1>2, <1>3, <1>4, <1>5 DEF PayStep

LEMMA StaffFrame ==
  ASSUME TypeOK, NEW r \in Requests,
         \/ \E amount \in 0..(total + 1) : RecordManualPayment(r, amount)
         \/ VoidRead(r) \/ VoidInvoice(r) \/ RetireCheckoutSession(r) \/ Abandon(r)
  PROVE  Frame /\ StoredStep
<1> USE DEF TypeOK, Frame, StoredStep, row, stripe
<1>1. attempt \in Nat /\ req[r] \in Locals
  BY DEF RowOK, ReqOK
<1>2. CASE \E amount \in 0..(total + 1) : RecordManualPayment(r, amount)
  BY <1>1, <1>2 DEF RecordManualPayment, ApplyInvoicePayment
<1>3. CASE VoidRead(r) \/ VoidInvoice(r) \/ Abandon(r)
  BY <1>1, <1>3 DEF VoidRead, VoidInvoice, Abandon
<1>4. CASE RetireCheckoutSession(r)
  <2>1. req[r].session \in Sessions \cup {NoSession}
    BY <1>1 DEF Locals, LocalRecords
  <2> QED
    BY <1>1, <1>4, <2>1, ExpireFrame DEF RetireCheckoutSession
<1> QED
  BY <1>2, <1>3, <1>4

LEMMA OtherFrame ==
  ASSUME TypeOK, SentInv,
         \/ \E t \in Totals : EditDraft(t)
         \/ UndoVoid \/ UndoWindowCloses
         \/ MarkOverdue \/ RevokePublicLink \/ RotatePublicLink
         \/ \E s \in Sessions : CompletedStep(s) \/ StripeStep(s)
         \/ UNCHANGED vars
  PROVE  Frame /\ StoredStep /\ UNCHANGED req
<1> USE DEF TypeOK, Frame, StoredStep, row, stripe
<1>1. attempt \in Nat
  BY DEF RowOK
<1>2. ~ \E t \in Totals : EditDraft(t)
  BY DEF SentInv, EditDraft
<1>3. CASE UndoVoid \/ UndoWindowCloses \/ MarkOverdue \/ RevokePublicLink \/ RotatePublicLink
  BY <1>1, <1>3 DEF UndoVoid, UndoWindowCloses, MarkOverdue, RevokePublicLink, RotatePublicLink,
                    Payable
<1>4. ASSUME NEW s \in Sessions, CompletedStep(s) PROVE Frame /\ StoredStep /\ UNCHANGED req
  <2>1. CASE RecordCompletedCheckout(s)
    BY <1>1, <2>1 DEF RecordCompletedCheckout, ApplyInvoicePayment
  <2>2. CASE ClaimMisses(s) \/ CheckReplay(s) \/ ClassifyRefusal(s)
             \/ RecordRefusedCheckout(s) \/ DeliveryFails(s)
    BY <1>1, <2>2 DEF ClaimMisses, CheckReplay, ClassifyRefusal, RecordRefusedCheckout,
                      DeliveryFails
  <2> QED
    BY <1>4, <2>1, <2>2 DEF CompletedStep
<1>5. ASSUME NEW s \in Sessions, StripeStep(s) PROVE Frame /\ StoredStep /\ UNCHANGED req
  BY <1>1, <1>5 DEF StripeStep, CustomerPays, ReuseMarginPasses, SessionLapses,
                    ClearExpiredCheckout, StripeOK
<1>6. CASE UNCHANGED vars
  BY <1>1, <1>6 DEF vars
<1> QED
  BY <1>2, <1>3, <1>4, <1>5, <1>6

LEMMA NextFrame ==
  ASSUME Senders = {}, TypeOK, SentInv, [Next]_vars
  PROVE  Frame /\ StoredStep
  BY PayFrame, StaffFrame, OtherFrame DEF Next, Requests

\* The webhook events that a step adds are about open sessions.
LEMMA NextInbox ==
  ASSUME TypeOK, [Next]_vars
  PROVE  \A m \in inbox' : m \in inbox \/ (m[2] \in Sessions /\ sState[m[2]] = "open")
<1> DEFINE New == \A m \in inbox' : m \in inbox \/ (m[2] \in Sessions /\ sState[m[2]] = "open")
<1>0. ASSUME NEW r \in Requests PROVE req[r].session \in Sessions \cup {NoSession}
  BY DEF TypeOK, ReqOK, Locals, LocalRecords
<1>1. ASSUME NEW r \in Requests, PayStep(r) PROVE New
  <2>1. CASE PayExpire(r)
    BY <1>0, <2>1, ExpireFrame DEF PayExpire, TypeOK
  <2> QED
    BY <1>1, <2>1 DEF PayStep, PayRead, PayBalance, PayCreate, PayStore, PayReread
<1>2. ASSUME NEW r \in Requests,
             \/ \E amount \in 0..(total + 1) : RecordManualPayment(r, amount)
             \/ VoidRead(r) \/ VoidInvoice(r) \/ RetireCheckoutSession(r) \/ Abandon(r)
      PROVE  New
  <2>1. CASE RetireCheckoutSession(r)
    BY <1>0, <2>1, ExpireFrame DEF RetireCheckoutSession, TypeOK
  <2> QED
    BY <1>2, <2>1 DEF RecordManualPayment, VoidRead, VoidInvoice, Abandon
<1>3. ASSUME \/ \E t \in Totals : EditDraft(t)
             \/ UndoVoid \/ UndoWindowCloses
             \/ MarkOverdue \/ RevokePublicLink \/ RotatePublicLink \/ UNCHANGED vars
      PROVE  New
  BY <1>3 DEF EditDraft, UndoVoid, UndoWindowCloses, MarkOverdue, RevokePublicLink,
              RotatePublicLink, vars
<1>4. ASSUME NEW s \in Sessions, CompletedStep(s) PROVE New
  BY <1>4 DEF CompletedStep, RecordCompletedCheckout, ClaimMisses, CheckReplay,
              ClassifyRefusal, RecordRefusedCheckout, DeliveryFails,
              Answered
<1>5. ASSUME NEW s \in Sessions, StripeStep(s) PROVE New
  BY <1>5 DEF StripeStep, CustomerPays, ReuseMarginPasses, SessionLapses, ClearExpiredCheckout,
              Answered
<1>6. ASSUME NEW r \in Senders, SendStep(r) PROVE New
  BY <1>6 DEF SendStep, SendRead, SendClaim, SendBalance, SendCreate, SendStore
<1> QED
  <2> HIDE DEF New
  <2>1. New
    BY <1>1, <1>2, <1>3, <1>4, <1>5, <1>6 DEF Next, Requests
  <2> QED
    BY <2>1 DEF New

\* The invoice is no draft again.
LEMMA NextSent ==
  ASSUME Senders = {}, TypeOK, PriceInv, [Next]_vars
  PROVE  SentInv'
<1>0. Frame /\ StoredStep
  BY NextFrame DEF PriceInv
<1>1. status' # "DRAFT" /\ voidedFrom' # "DRAFT"
  <2> USE DEF PriceInv, SentInv, row
  <2>1. ASSUME NEW r \in Requests, VoidInvoice(r) PROVE status' # "DRAFT" /\ voidedFrom' # "DRAFT"
    BY <2>1 DEF VoidInvoice, Named
  <2>2. CASE \E s \in Sessions : CompletedStep(s) \/ StripeStep(s)
    BY <2>2 DEF CompletedStep, RecordCompletedCheckout, ApplyInvoicePayment, ClaimMisses,
                CheckReplay, ClassifyRefusal, RecordRefusedCheckout, DeliveryFails, StripeStep,
                CustomerPays, ReuseMarginPasses,
                SessionLapses, ClearExpiredCheckout
  <2>3. CASE \E r \in Requests :
               \/ \E amount \in 0..(total + 1) : RecordManualPayment(r, amount)
               \/ VoidRead(r) \/ RetireCheckoutSession(r) \/ Abandon(r) \/ PayStep(r)
    BY <2>3 DEF RecordManualPayment, ApplyInvoicePayment, VoidRead, RetireCheckoutSession, Abandon,
                PayStep, PayRead, PayBalance, PayCreate, PayStore, PayReread, PayExpire
  <2>4. CASE \/ \E t \in Totals : EditDraft(t)
             \/ UndoVoid \/ UndoWindowCloses
             \/ MarkOverdue \/ RevokePublicLink \/ RotatePublicLink \/ UNCHANGED vars
    BY <2>4 DEF EditDraft, UndoVoid, UndoWindowCloses, MarkOverdue, RevokePublicLink,
                RotatePublicLink, vars
  <2> QED
    BY <2>1, <2>2, <2>3, <2>4 DEF Next, Requests
<1>2. stored' # NoSession => sState'[stored'] # "unused"
  <2>1. stored \in Sessions \cup {NoSession}
    BY DEF TypeOK, RowOK
  <2>2. \A r \in Requests : req[r].session \in Sessions \cup {NoSession}
    BY DEF TypeOK, ReqOK, Locals, LocalRecords
  <2>3. \A s \in Sessions : <<"completed", s>> \in inbox => sState[s] # "unused"
    BY DEF PriceInv, SentInv
  <2>4. \/ stored' \in {NoSession, stored}
        \/ \E s \in Sessions : <<"completed", s>> \in inbox /\ stored' = s
        \/ \E r \in Requests : stored' = req[r].session
    BY <1>0 DEF StoredStep
  <2>5. /\ stored # NoSession => sState[stored] # "unused"
        /\ \A r \in Requests : req[r].session # NoSession => sState[req[r].session] # "unused"
    BY DEF PriceInv, SentInv, Named
  <2>6. stored' # NoSession => stored' \in Sessions /\ sState[stored'] # "unused"
    <3>1. CASE stored' \in {NoSession, stored}
      BY <2>1, <2>5, <3>1
    <3>2. CASE \E s \in Sessions : <<"completed", s>> \in inbox /\ stored' = s
      BY <2>3, <3>2
    <3>3. CASE \E r \in Requests : stored' = req[r].session
      BY <2>2, <2>5, <3>3
    <3> QED
      BY <2>4, <3>1, <3>2, <3>3
  <2> QED
    BY <1>0, <2>6 DEF Frame
<1>3. \A m \in inbox' : sState'[m[2]] # "unused"
  <2>1. \A m \in inbox : m[2] \in Sessions
    BY DEF TypeOK, InboxOK
  <2> QED
    BY <1>0, <2>1, NextInbox DEF Frame, PriceInv, SentInv
<1> QED
  BY <1>1, <1>2, <1>3 DEF SentInv

\* The price of the stored session.
LEMMA NextStored ==
  ASSUME Senders = {}, TypeOK, PriceInv, [Next]_vars
  PROVE  StoredAtBalance' /\ VoidHasNoSession'
<1>0. Frame /\ StoredStep
  BY NextFrame DEF PriceInv
<1>1. stored \in Sessions \cup {NoSession} /\ attempt \in Nat
  BY DEF TypeOK, RowOK
<1>2. paid' = paid => Balance' = Balance
  BY <1>0 DEF Frame, Balance
<1>3. CASE stored' = NoSession
  BY <1>3 DEF StoredAtBalance, VoidHasNoSession
<1>4. CASE UNCHANGED stored /\ stored # NoSession /\ paid' = paid
           /\ (status' = status \/ {status, status'} \subseteq Payable \/ status = "VOID")
  <2>1. sKey'[stored] = sKey[stored]
    BY <1>0, <1>1, <1>4 DEF Frame, PriceInv, SentInv
  <2>2. status' # "VOID" /\ (status' \in Payable => status \in Payable)
    BY <1>4 DEF PriceInv, VoidHasNoSession, Payable
  <2> QED
    BY <1>2, <1>4, <2>1, <2>2 DEF PriceInv, StoredAtBalance, VoidHasNoSession, Amount
<1>5. CASE status' = "PAID"
  BY <1>5 DEF StoredAtBalance, VoidHasNoSession, Payable
<1>6. ASSUME NEW r \in Requests, req[r].pc = "store", MayStore(r), stored' = req[r].session,
             UNCHANGED <<status, paid>>
      PROVE  StoredAtBalance' /\ VoidHasNoSession'
  <2>1. req[r].session \in Sessions
    BY <1>6 DEF TypeOK, ReqOK, Locals, LocalRecords
  <2>2. Named(req[r]) /\ Priced(req[r])
    BY DEF PriceInv
  <2>3. Amount(req[r].session) = Balance
    BY <1>6, <2>2 DEF Priced, MayStore
  <2>4. sKey'[req[r].session] = sKey[req[r].session]
    BY <1>0, <2>1, <2>2, SessionsAreSome DEF Frame, Named
  <2>5. Amount(stored)' = Balance'
    BY <1>2, <1>6, <2>3, <2>4 DEF Amount
  <2>6. status' \in Payable
    BY <1>6 DEF MayStore
  <2> QED
    BY <2>5, <2>6 DEF StoredAtBalance, VoidHasNoSession, Payable
<1> QED
  BY <1>0, <1>3, <1>4, <1>5, <1>6 DEF StoredStep

LEMMA LocalsStay ==
  ASSUME TypeOK, Frame, NEW q \in Requests, Named(req[q]), Priced(req[q]), req'[q] = req[q]
  PROVE  Named(req[q])' /\ Priced(req[q])'
<1>0. /\ req[q].session \in Sessions \cup {NoSession} /\ req[q].attempt \in Nat /\ attempt \in Nat
      /\ req[q].seen \in Sessions \cup {NoSession}
      /\ req[q].pc = "store" => req[q].session # NoSession
  BY DEF TypeOK, RowOK, ReqOK, Locals, LocalRecords
<1>1. Named(req[q])'
  BY <1>0 DEF Frame, Named
<1>2. attempt' = attempt => Balance' = Balance
  BY DEF Frame, Balance
<1>3. req[q].attempt <= attempt /\ req[q].attempt = attempt' => attempt' = attempt
  BY <1>0 DEF Frame
<1>4. req[q].attempt <= attempt => req[q].attempt <= attempt'
  BY <1>0 DEF Frame
<1>5. req[q].pc = "store" => sKey'[req[q].session] = sKey[req[q].session]
  BY <1>0 DEF Frame, Named
<1>6. Priced(req[q])'
  BY <1>2, <1>3, <1>4, <1>5 DEF Frame, Priced, Amount
<1> QED
  BY <1>1, <1>6

\* What a request holds after a step of its own.
LEMMA PayLocals ==
  ASSUME TypeOK, PriceInv, NEW r \in Requests, PayStep(r), Frame
  PROVE  /\ Named(req[r])' /\ Priced(req[r])'
         /\ \A q \in Requests : q # r => req'[q] = req[q]
<1>0. /\ req \in [Requests -> Locals] /\ req[r] \in LocalRecords
      /\ Named(req[r]) /\ Priced(req[r]) /\ attempt \in Nat /\ total \in Nat /\ paid \in Nat
  BY DEF TypeOK, RowOK, ReqOK, Locals, PriceInv
<1>1. Named(Idle)' /\ Priced(Idle)'
  BY DEF Idle, Named, Priced, NoSession
<1>2. CASE Ends(r)
  BY <1>0, <1>1, <1>2 DEF Ends, Named, Priced
<1>3. CASE PayRead(r)
  BY <1>0, <1>3 DEF PayRead, Snapshot, row, stripe, Named, Priced, NoSession, PriceInv, SentInv
<1>4. CASE PayBalance(r) /\ ~Ends(r)
  <2>1. req' = [req EXCEPT ![r] = [@ EXCEPT !.pc = "create", !.owed = OwedNow(r),
                                          !.status = "none", !.seen = NoSession]]
    BY <1>4 DEF PayBalance
  <2>2. /\ req'[r].pc = "create" /\ req'[r].owed = OwedNow(r) /\ req'[r].attempt = req[r].attempt
        /\ req'[r].session = req[r].session /\ req'[r].seen = NoSession
        /\ \A q \in Requests : q # r => req'[q] = req[q]
    BY <1>0, <2>1 DEF LocalRecords
  <2>3. OwedNow(r) = Balance /\ req[r].attempt <= attempt
    BY <1>0, <1>4 DEF PayBalance, Priced, OwedNow, Balance
  <2>4. UNCHANGED <<attempt, total, paid, sState>>
    BY <1>4 DEF PayBalance, row, stripe
  <2> QED
    BY <1>0, <2>2, <2>3, <2>4 DEF Named, Priced, Balance
<1>5. ASSUME NEW s \in Sessions, PayCreate(r, s)
      PROVE  /\ Named(req[r])' /\ Priced(req[r])'
             /\ \A q \in Requests : q # r => req'[q] = req[q]
  <2>1. /\ req'[r].pc = "store" /\ req'[r].owed = req[r].owed /\ req'[r].attempt = req[r].attempt
        /\ req'[r].session = s /\ req'[r].seen = req[r].seen
        /\ \A q \in Requests : q # r => req'[q] = req[q]
    BY <1>0, <1>5 DEF PayCreate, LocalRecords
  <2>2. sState'[s] # "unused" /\ sKey'[s].amount = req[r].owed
    BY <1>5, CreatesFrame DEF PayCreate, CheckoutKey, TypeOK
  <2>3. UNCHANGED <<attempt, total, paid>> /\ req[r].pc = "create"
    BY <1>5 DEF PayCreate, row
  <2>4. req[r].seen # NoSession => sState'[req[r].seen] # "unused"
    BY <1>0 DEF Frame, Named, LocalRecords
  <2> QED
    BY <1>0, <2>1, <2>2, <2>3, <2>4 DEF Named, Priced, Balance, Amount
<1>6. CASE PayStore(r) /\ ~Ends(r)
  <2>1. /\ req'[r].pc = "reread" /\ req'[r].session = req[r].session
        /\ req'[r].seen = req[r].seen
        /\ \A q \in Requests : q # r => req'[q] = req[q]
    BY <1>0, <1>6 DEF PayStore, LocalRecords
  <2>2. sState' = sState
    BY <1>6 DEF PayStore, stripe
  <2> QED
    BY <1>0, <2>1, <2>2 DEF Named, Priced
<1>7. CASE PayReread(r) /\ ~Ends(r)
  <2>1. /\ req'[r].pc = "expire" /\ req'[r].session = req[r].session
        /\ req'[r].owed = total /\ req'[r].attempt = attempt /\ req'[r].seen = stored
        /\ \A q \in Requests : q # r => req'[q] = req[q]
    BY <1>0, <1>7 DEF PayReread, Snapshot
  <2>2. UNCHANGED <<attempt, total, sState>>
    BY <1>7 DEF PayReread, stripe, row
  <2> QED
    BY <1>0, <2>1, <2>2 DEF Named, Priced, PriceInv, SentInv
<1>8. CASE PayExpire(r) /\ ~Ends(r)
  <2>1. /\ req'[r].pc = "balance" /\ req'[r].session = NoSession
        /\ req'[r].owed = req[r].owed /\ req'[r].attempt = req[r].attempt
        /\ req'[r].seen = req[r].seen
        /\ \A q \in Requests : q # r => req'[q] = req[q]
    BY <1>0, <1>8 DEF PayExpire, LocalRecords
  <2>2. UNCHANGED <<attempt, total>> /\ req[r].pc = "expire"
    BY <1>8 DEF PayExpire, row
  <2>3. req[r].seen # NoSession => sState'[req[r].seen] # "unused"
    BY <1>0 DEF Frame, Named, LocalRecords
  <2> QED
    BY <1>0, <2>1, <2>2, <2>3 DEF Named, Priced
<1> QED
  BY <1>2, <1>3, <1>4, <1>5, <1>6, <1>7, <1>8 DEF PayStep

LEMMA StaffLocals ==
  ASSUME TypeOK, PriceInv, NEW r \in Requests, Frame,
         \/ \E amount \in 0..(total + 1) : RecordManualPayment(r, amount)
         \/ VoidRead(r) \/ VoidInvoice(r) \/ RetireCheckoutSession(r) \/ Abandon(r)
  PROVE  /\ Named(req[r])' /\ Priced(req[r])'
         /\ \A q \in Requests : q # r => req'[q] = req[q]
<1>0. /\ req \in [Requests -> Locals] /\ Named(req[r])
      /\ stored # NoSession => sState[stored] # "unused"
  BY DEF TypeOK, ReqOK, PriceInv, SentInv
<1>1. CASE Ends(r)
  <2>1. Named(Idle)' /\ Priced(Idle)'
    BY DEF Idle, Named, Priced, NoSession
  <2> QED
    BY <1>0, <1>1, <2>1 DEF Ends, Named, Priced
<1>2. CASE \E amount \in 0..(total + 1) : RecordManualPayment(r, amount)
  <2>1. req'[r].pc = "retire" /\ req'[r].session = stored /\ req'[r].seen = NoSession
        /\ \A q \in Requests : q # r => req'[q] = req[q]
    BY <1>0, <1>2 DEF RecordManualPayment, Idle
  <2>2. sState' = sState
    BY <1>2 DEF RecordManualPayment, stripe
  <2> QED
    BY <1>0, <2>1, <2>2 DEF Named, Priced
<1>3. CASE VoidRead(r)
  <2>1. req'[r].pc = "void" /\ req'[r].session = NoSession /\ req'[r].status = status
        /\ req'[r].seen = stored
        /\ \A q \in Requests : q # r => req'[q] = req[q]
    BY <1>0, <1>3 DEF VoidRead, Idle
  <2>2. sState' = sState
    BY <1>3 DEF VoidRead, stripe
  <2> QED
    BY <2>1, <2>2 DEF Named, Priced, PriceInv, SentInv
<1>4. CASE VoidInvoice(r) /\ ~Ends(r)
  <2>1. req'[r].pc = "retire" /\ req'[r].session = req[r].seen /\ req'[r].seen = NoSession
        /\ \A q \in Requests : q # r => req'[q] = req[q]
    BY <1>0, <1>4 DEF VoidInvoice, Idle
  <2>2. sState' = sState
    BY <1>4 DEF VoidInvoice, stripe
  <2> QED
    BY <1>0, <2>1, <2>2 DEF Named, Priced
<1> QED
  BY <1>1, <1>2, <1>3, <1>4 DEF RetireCheckoutSession, Abandon

LEMMA NextPrice ==
  ASSUME Senders = {}, TypeOK, PriceInv, [Next]_vars
  PROVE  PriceInv'
<1>0. Frame
  BY NextFrame DEF PriceInv
<1>1. ASSUME NEW q \in Requests PROVE Named(req[q])' /\ Priced(req[q])'
  <2>0. Named(req[q]) /\ Priced(req[q])
    BY DEF PriceInv
  <2>1. CASE req'[q] = req[q]
    BY <1>0, <2>0, <2>1, LocalsStay
  <2>2. ASSUME NEW r \in Requests, PayStep(r) PROVE Named(req[q])' /\ Priced(req[q])'
    BY <1>0, <2>1, <2>2, PayLocals
  <2>3. ASSUME NEW r \in Requests,
               \/ \E amount \in 0..(total + 1) : RecordManualPayment(r, amount)
               \/ VoidRead(r) \/ VoidInvoice(r) \/ RetireCheckoutSession(r) \/ Abandon(r)
        PROVE  Named(req[q])' /\ Priced(req[q])'
    BY <1>0, <2>1, <2>3, StaffLocals
  <2>4. CASE UNCHANGED req
    BY <2>1, <2>4
  <2> QED
    BY <2>2, <2>3, <2>4, OtherFrame DEF Next, Requests, PriceInv
<1>2. \A q \in Requests : Named(req[q])' /\ Priced(req[q])'
  BY <1>1
<1> QED
  BY <1>2, NextSent, NextStored DEF PriceInv

LEMMA PriceInvariant ==
  ASSUME Senders = {}, InitStatus = "SENT"
  PROVE  Spec => []PriceInv
<1>1. Init => PriceInv
  <2> SUFFICES ASSUME Init PROVE PriceInv
    OBVIOUS
  <2>1. SentInv /\ StoredAtBalance /\ VoidHasNoSession
    BY DEF Init, SentInv, StoredAtBalance, VoidHasNoSession
  <2>2. \A r \in Requests : Named(req[r]) /\ Priced(req[r])
    BY DEF Init, Idle, Named, Priced
  <2> QED
    BY <2>1, <2>2 DEF PriceInv
<1>2. TypeOK /\ PriceInv /\ [Next]_vars => PriceInv'
  BY NextPrice
<1> QED
  BY <1>1, <1>2, TypeCorrect, PTL DEF Spec

\* For an invoice that has been sent, while no send is in flight: the stored
\* session of an open invoice is priced at its balance, for any number of pay,
\* void and mark-paid requests and any webhooks.
THEOREM StoredAtBalanceHolds ==
  ASSUME Senders = {}, InitStatus = "SENT"
  PROVE  Spec => []StoredAtBalance
  BY PriceInvariant, PTL DEF PriceInv

\* Under the same condition a voided invoice has no stored session: a send in
\* flight is all that can store one over a void.
THEOREM VoidKeepsNoSession ==
  ASSUME Senders = {}, InitStatus = "SENT"
  PROVE  Spec => []VoidHasNoSession
  BY PriceInvariant, PTL DEF PriceInv

-----------------------------------------------------------------------------
\* A void does not count the attempt up, so that after an undo the session it is
\* about to expire can be stored again: what follows holds until then.
Live == ~restored /\ status \in Payable
Closed == status \in {"PAID", "VOID"}

\* An invoice that is closed stays so until a void is undone, and only then
\* is an issued one a draft again.
LEMMA NextOpen ==
  ASSUME TypeOK, [Next]_vars, ~restored'
  PROVE  /\ ~restored /\ (Closed => Closed')
         /\ status' = "DRAFT" => status = "DRAFT"
         /\ status' \in Payable => status \in Payable \cup {"DRAFT"}
<1> DEFINE Opens == /\ ~restored /\ (Closed => Closed')
                    /\ status' = "DRAFT" => status = "DRAFT"
                    /\ status' \in Payable => status \in Payable \cup {"DRAFT"}
<1> SUFFICES Opens
  OBVIOUS
<1> USE DEF Closed, Payable, row, charges
<1>0. status \in {"DRAFT", "SENT", "OVERDUE", "PAID", "VOID"}
  BY DEF TypeOK, RowOK, Voidable
<1>1. CASE \E s \in Sessions : CompletedStep(s) \/ StripeStep(s)
  BY <1>0, <1>1 DEF CompletedStep, RecordCompletedCheckout, ApplyInvoicePayment, Claimable,
              ClaimMisses, CheckReplay, ClassifyRefusal, RecordRefusedCheckout, DeliveryFails,
              StripeStep, CustomerPays, ReuseMarginPasses, SessionLapses, ClearExpiredCheckout
<1>2. CASE \E r \in Requests :
             \/ \E amount \in 0..(total + 1) : RecordManualPayment(r, amount)
             \/ VoidRead(r) \/ VoidInvoice(r) \/ RetireCheckoutSession(r) \/ Abandon(r)
  BY <1>0, <1>2 DEF RecordManualPayment, ApplyInvoicePayment, Claimable, VoidRead, VoidInvoice,
              RetireCheckoutSession, Abandon
<1>3. ASSUME NEW r \in Requests, PayStep(r) PROVE Opens
  <2>1. UNCHANGED <<status, restored>>
    BY <1>3 DEF PayStep, PayRead, PayBalance, PayCreate, PayStore, PayReread, PayExpire
  <2> QED
    BY <2>1
<1>4. ASSUME NEW r \in Requests, SendStep(r) PROVE Opens
  <2>1. UNCHANGED restored /\ (UNCHANGED status \/ (status = "DRAFT" /\ status' = "SENT"))
    BY <1>4 DEF SendStep, SendRead, SendClaim, SendBalance, SendCreate, SendStore
  <2> QED
    BY <2>1
<1>5. CASE \/ \E t \in Totals : EditDraft(t)
           \/ UndoVoid \/ UndoWindowCloses
           \/ MarkOverdue \/ RevokePublicLink \/ RotatePublicLink \/ UNCHANGED vars
  BY <1>0, <1>5 DEF EditDraft, UndoVoid, UndoWindowCloses, MarkOverdue, RevokePublicLink,
              RotatePublicLink, vars
<1> QED
  <2> HIDE DEF Opens
  <2> QED
    BY <1>1, <1>2, <1>3, <1>4, <1>5 DEF Next, Requests

\* The steps that change Stripe's sessions.
LEMMA StripeChange ==
  ASSUME [Next]_vars, ~UNCHANGED stripe
  PROVE  \/ \E r \in Requests : \/ \E s \in Sessions : PayCreate(r, s) \/ SendCreate(r, s)
                                \/ PayExpire(r) \/ RetireCheckoutSession(r)
         \/ \E s \in Sessions : CustomerPays(s) \/ ReuseMarginPasses(s) \/ SessionLapses(s)
  BY DEF Next, Requests, EditDraft, SendStep, SendRead, SendClaim, SendBalance, SendStore,
         PayStep, PayRead, PayBalance, PayStore, PayReread, RecordManualPayment, VoidRead,
         VoidInvoice, UndoVoid, UndoWindowCloses, MarkOverdue, RevokePublicLink,
         RotatePublicLink, Abandon, CompletedStep, RecordCompletedCheckout, ClaimMisses,
         CheckReplay, ClassifyRefusal, RecordRefusedCheckout, DeliveryFails, StripeStep,
         ClearExpiredCheckout, vars, stripe

\* A young session is expired by a request that holds it, or not at all.
LEMMA NextExpired ==
  ASSUME TypeOK, [Next]_vars
  PROVE  \A s \in young' : sState'[s] = "expired" =>
           \/ s \in young /\ sState[s] = "expired"
           \/ \E r \in Requests : req[r].pc \in {"expire", "retire"} /\ s = req[r].session
<1> DEFINE Expired == \A s \in young' : sState'[s] = "expired" =>
             \/ s \in young /\ sState[s] = "expired"
             \/ \E r \in Requests : req[r].pc \in {"expire", "retire"} /\ s = req[r].session
<1> SUFFICES Expired
  OBVIOUS
<1>0. /\ young \subseteq Sessions /\ sState \in [Sessions -> {"unused", "open", "paid", "expired"}]
      /\ \A r \in Requests : req[r].session \in Sessions \cup {NoSession}
  BY DEF TypeOK, StripeOK, ReqOK, Locals, LocalRecords
<1>1. CASE UNCHANGED stripe
  BY <1>1 DEF stripe
<1>2. ASSUME NEW r \in Requests, NEW s \in Sessions, PayCreate(r, s) \/ SendCreate(r, s)
      PROVE  Expired
  <2>1. young' \subseteq Sessions
    BY <1>0, <1>2 DEF PayCreate, SendCreate, StripeCreates, stripe
  <2> QED
    BY <1>2, <2>1, CreatesFrame DEF PayCreate, SendCreate, TypeOK
<1>3. ASSUME NEW r \in Requests, PayExpire(r) \/ RetireCheckoutSession(r) PROVE Expired
  BY <1>0, <1>3, ExpireFrame DEF PayExpire, RetireCheckoutSession, TypeOK
<1>4. ASSUME NEW s \in Sessions, CustomerPays(s) \/ ReuseMarginPasses(s) \/ SessionLapses(s)
      PROVE  Expired
  BY <1>0, <1>4 DEF CustomerPays, ReuseMarginPasses, SessionLapses
<1> QED
  <2> HIDE DEF Expired
  <2> QED
    BY <1>1, <1>2, <1>3, <1>4, StripeChange

-----------------------------------------------------------------------------
\* The stored session of an invoice that has been sent.

\* A request that is about to expire a session knows that it cannot be stored
\* again: its key has an older attempt than the invoice.
Keyed(l) == l.pc = "store" => sKey[l.session].attempt = l.attempt

Retired(l) ==
  l.pc \in {"reread", "expire", "retire"} /\ l.session # NoSession =>
    /\ sKey[l.session].attempt < attempt
    /\ l.pc # "reread" => l.session # stored

LiveInv ==
  /\ \A r \in Requests : Keyed(req[r])
  /\ Live =>
       /\ stored # NoSession => sKey[stored].attempt < attempt
       /\ \A r \in Requests : Retired(req[r])
       /\ \A s \in young : sState[s] = "expired" => s # stored /\ sKey[s].attempt < attempt

\* No session with an older attempt than the invoice becomes the stored one.
LEMMA NeverStoredAgain ==
  ASSUME Senders = {}, TypeOK, PriceInv, LiveInv, [Next]_vars, Live',
         NEW s \in Sessions, sState[s] # "unused", sKey[s].attempt < attempt
  PROVE  /\ sKey'[s].attempt < attempt'
         /\ s # stored => s # stored'
<1>0. Frame /\ StoredStep
  BY NextFrame DEF PriceInv
<1>1. attempt \in Nat /\ sKey[s].attempt \in Nat
  BY DEF TypeOK, RowOK, StripeOK, Keys
<1>2. sKey'[s].attempt < attempt'
  BY <1>0, <1>1 DEF Frame
<1>3. ASSUME NEW r \in Requests, req[r].pc = "store", MayStore(r) PROVE s # req[r].session
  BY <1>1, <1>3 DEF LiveInv, Keyed, MayStore
<1>4. s # NoSession /\ status' # "PAID"
  BY SessionsAreSome DEF Live, Payable
<1> QED
  BY <1>0, <1>2, <1>3, <1>4 DEF StoredStep

\* The invoice was open before, and no void was undone.
LEMMA WasLive ==
  ASSUME TypeOK, SentInv, [Next]_vars, Live'
  PROVE  Live
  BY NextOpen DEF Live, SentInv

\* A request that a step leaves alone.
LEMMA LiveLocalsStay ==
  ASSUME Senders = {}, TypeOK, PriceInv, LiveInv, [Next]_vars,
         NEW q \in Requests, req'[q] = req[q]
  PROVE  Keyed(req[q])' /\ (Live' => Retired(req[q])')
<1>0. Frame /\ (Live' => Live)
  BY NextFrame, WasLive DEF PriceInv
<1>1. /\ req[q].session \in Sessions \cup {NoSession}
      /\ req[q].session # NoSession => sState[req[q].session] # "unused"
      /\ req[q].pc = "store" => req[q].session # NoSession
  BY DEF TypeOK, ReqOK, Locals, LocalRecords, PriceInv, Named
<1>2. Keyed(req[q])'
  BY <1>0, <1>1 DEF LiveInv, Keyed, Frame
<1>3. ASSUME Live' PROVE Retired(req[q])'
  <2>1. Retired(req[q])
    BY <1>0, <1>3 DEF LiveInv
  <2> QED
    BY <1>1, <1>3, <2>1, NeverStoredAgain DEF Retired
<1> QED
  BY <1>2, <1>3

\* A request after a step of its own.
LEMMA PayLive ==
  ASSUME TypeOK, PriceInv, LiveInv, NEW r \in Requests, PayStep(r)
  PROVE  Keyed(req[r])' /\ (Live' => Retired(req[r])')
<1>0. /\ req \in [Requests -> Locals] /\ req[r] \in LocalRecords /\ attempt \in Nat
      /\ Named(req[r]) /\ Priced(req[r]) /\ Keyed(req[r])
      /\ Live => Retired(req[r])
  BY DEF TypeOK, RowOK, ReqOK, Locals, PriceInv, LiveInv
<1>1. CASE Ends(r)
  BY <1>0, <1>1 DEF Ends, Idle, Keyed, Retired
<1>2. CASE PayRead(r)
  BY <1>0, <1>2 DEF PayRead, Snapshot, Keyed, Retired
<1>3. CASE PayBalance(r) /\ ~Ends(r)
  <2>1. req'[r].pc = "create"
    BY <1>0, <1>3 DEF PayBalance, LocalRecords
  <2> QED
    BY <2>1 DEF Keyed, Retired
<1>4. ASSUME NEW s \in Sessions, PayCreate(r, s)
      PROVE  Keyed(req[r])' /\ Retired(req[r])'
  <2>1. req'[r].pc = "store" /\ req'[r].attempt = req[r].attempt /\ req'[r].session = s
    BY <1>0, <1>4 DEF PayCreate, LocalRecords
  <2>2. sKey'[s].attempt = req[r].attempt
    BY <1>4, CreatesFrame DEF PayCreate, CheckoutKey, TypeOK
  <2> QED
    BY <2>1, <2>2 DEF Keyed, Retired
<1>5. CASE PayStore(r) /\ ~Ends(r)
  <2>1. /\ req'[r].pc = "reread" /\ req'[r].session = req[r].session
        /\ UNCHANGED <<status, attempt, sKey>>
    BY <1>0, <1>5 DEF PayStore, LocalRecords, stripe
  <2>2. status \in Payable => req[r].attempt < attempt
    BY <1>0, <1>5 DEF PayStore, MayStore, Priced, LocalRecords
  <2> QED
    BY <1>0, <1>5, <2>1, <2>2 DEF PayStore, Keyed, Retired, Live
<1>6. CASE PayReread(r) /\ ~Ends(r)
  <2>1. /\ req'[r].pc = "expire" /\ req'[r].session = req[r].session
        /\ UNCHANGED <<status, restored, attempt, sKey, stored>> /\ stored # req[r].session
    BY <1>0, <1>6 DEF PayReread, StoredByOther, Snapshot, stripe, row
  <2> QED
    BY <1>0, <1>6, <2>1 DEF PayReread, Keyed, Retired, Live
<1>7. CASE PayExpire(r) /\ ~Ends(r)
  <2>1. req'[r].pc = "balance"
    BY <1>0, <1>7 DEF PayExpire, LocalRecords
  <2> QED
    BY <2>1 DEF Keyed, Retired
<1> QED
  BY <1>1, <1>2, <1>3, <1>4, <1>5, <1>6, <1>7 DEF PayStep

LEMMA StaffLive ==
  ASSUME TypeOK, PriceInv, LiveInv, NEW r \in Requests,
         \/ \E amount \in 0..(total + 1) : RecordManualPayment(r, amount)
         \/ VoidRead(r) \/ VoidInvoice(r) \/ RetireCheckoutSession(r) \/ Abandon(r)
  PROVE  Keyed(req[r])' /\ (Live' => Retired(req[r])')
<1>0. req \in [Requests -> Locals] /\ attempt \in Nat /\ stored \in Sessions \cup {NoSession}
  BY DEF TypeOK, RowOK, ReqOK
<1>1. ASSUME NEW amount \in 0..(total + 1), RecordManualPayment(r, amount), Live'
      PROVE  Retired(req[r])'
  <2>1. /\ req'[r].session = stored /\ stored' = NoSession
        /\ attempt' = attempt + 1 /\ sKey' = sKey /\ Live
    BY <1>0, <1>1 DEF RecordManualPayment, ApplyInvoicePayment, Claimable, Idle, stripe, Live
  <2>2. stored # NoSession => sKey[stored].attempt < attempt /\ sKey[stored].attempt \in Nat
    BY <1>0, <2>1 DEF LiveInv, TypeOK, StripeOK, Keys
  <2> QED
    BY <1>0, <2>1, <2>2 DEF Retired
<1>2. ASSUME NEW amount \in 0..(total + 1), RecordManualPayment(r, amount)
      PROVE  req'[r].pc = "retire"
  BY <1>0, <1>2 DEF RecordManualPayment, Idle
<1>3. CASE VoidInvoice(r) /\ MayVoid
  <2>1. req'[r].pc = "retire" /\ status' = "VOID"
    BY <1>0, <1>3 DEF VoidInvoice, Idle
  <2> QED
    BY <2>1 DEF Keyed, Live, Payable
<1>4. CASE \/ VoidInvoice(r) /\ ~MayVoid
           \/ VoidRead(r) \/ RetireCheckoutSession(r) \/ Abandon(r)
  <2>1. Ends(r) \/ VoidRead(r)
    BY <1>4 DEF VoidInvoice, RetireCheckoutSession, Abandon
  <2>2. CASE Ends(r)
    <3>1. req'[r] = Idle
      BY <1>0, <2>2 DEF Ends
    <3> QED
      BY <3>1 DEF Idle, Keyed, Retired
  <2>3. CASE VoidRead(r)
    <3>1. req'[r].pc = "void"
      BY <1>0, <2>3 DEF VoidRead, Idle
    <3> QED
      BY <3>1 DEF Keyed, Retired
  <2> QED
    BY <2>1, <2>2, <2>3
<1> QED
  BY <1>1, <1>2, <1>3, <1>4 DEF Keyed

LEMMA NextLive ==
  ASSUME Senders = {}, TypeOK, PriceInv, LiveInv, [Next]_vars
  PROVE  LiveInv'
<1>0. Frame /\ StoredStep /\ (Live' => Live)
  BY NextFrame, WasLive DEF PriceInv
<1>1. ASSUME NEW q \in Requests
      PROVE  Keyed(req[q])' /\ (Live' => Retired(req[q])')
  <2>1. CASE req'[q] = req[q]
    BY <2>1, LiveLocalsStay
  <2>2. ASSUME NEW r \in Requests, PayStep(r)
        PROVE  Keyed(req[q])' /\ (Live' => Retired(req[q])')
    BY <1>0, <2>1, <2>2, PayLive, PayLocals
  <2>3. ASSUME NEW r \in Requests,
               \/ \E amount \in 0..(total + 1) : RecordManualPayment(r, amount)
               \/ VoidRead(r) \/ VoidInvoice(r) \/ RetireCheckoutSession(r) \/ Abandon(r)
        PROVE  Keyed(req[q])' /\ (Live' => Retired(req[q])')
    BY <1>0, <2>1, <2>3, StaffLive, StaffLocals
  <2>4. CASE UNCHANGED req
    BY <2>1, <2>4
  <2> QED
    BY <2>2, <2>3, <2>4, OtherFrame DEF Next, Requests, PriceInv
<1>2. ASSUME Live', stored' # NoSession PROVE sKey'[stored'].attempt < attempt'
  <2>1. CASE stored' = stored
    <3>1. stored \in Sessions /\ sState[stored] # "unused" /\ sKey[stored].attempt < attempt
      BY <1>0, <1>2, <2>1 DEF TypeOK, RowOK, PriceInv, SentInv, LiveInv
    <3> QED
      BY <1>2, <2>1, <3>1, NeverStoredAgain
  <2>2. ASSUME NEW r \in Requests, req[r].pc = "store", MayStore(r), stored' = req[r].session,
               attempt' = attempt + 1
        PROVE  sKey'[stored'].attempt < attempt'
    <3>1. req[r].session \in Sessions /\ sState[req[r].session] # "unused"
      BY <2>2, <1>2 DEF TypeOK, ReqOK, Locals, LocalRecords, PriceInv, Named
    <3>2. sKey[req[r].session].attempt = attempt /\ attempt \in Nat
      BY <2>2 DEF LiveInv, Keyed, MayStore, TypeOK, RowOK
    <3> QED
      BY <1>0, <2>2, <3>1, <3>2 DEF Frame
  <2>3. status' # "PAID"
    BY <1>2 DEF Live, Payable
  <2> QED
    BY <1>0, <1>2, <2>1, <2>2, <2>3 DEF StoredStep
<1>3. ASSUME Live', NEW s \in young', sState'[s] = "expired"
      PROVE  s # stored' /\ sKey'[s].attempt < attempt'
  <2>1. Live
    BY <1>0, <1>3
  <2>2. CASE s \in young /\ sState[s] = "expired"
    <3>1. s \in Sessions /\ s # stored /\ sKey[s].attempt < attempt
      BY <2>1, <2>2 DEF LiveInv, TypeOK, StripeOK
    <3> QED
      BY <1>3, <2>2, <3>1, NeverStoredAgain
  <2>3. ASSUME NEW r \in Requests, req[r].pc \in {"expire", "retire"}, s = req[r].session
        PROVE  s # stored' /\ sKey'[s].attempt < attempt'
    <3>1. s \in Sessions
      <4>1. young' \subseteq Sessions
        BY NextType DEF TypeOK, StripeOK
      <4> QED
        BY <4>1
    <3>2. Retired(req[r]) /\ Named(req[r])
      BY <2>1 DEF LiveInv, PriceInv
    <3>3. sState[s] # "unused" /\ s # stored /\ sKey[s].attempt < attempt
      BY <2>3, <3>1, <3>2, SessionsAreSome DEF Retired, Named
    <3> QED
      BY <1>3, <3>1, <3>3, NeverStoredAgain
  <2> QED
    BY <1>3, <2>2, <2>3, NextExpired
<1>4. \A q \in Requests : Keyed(req[q])' /\ (Live' => Retired(req[q])')
  BY <1>1
<1> QED
  BY <1>2, <1>3, <1>4 DEF LiveInv

\* For an invoice that has been sent, while no send is in flight and until a void
\* is undone: a session that the Hub expired is never the stored one that a pay
\* request would reuse, for any number of pay, void and mark-paid requests,
\* sessions and webhooks.
THEOREM StoredIsLiveHolds ==
  ASSUME Senders = {}, InitStatus = "SENT"
  PROVE  Spec => []StoredIsLive
<1>1. Init => LiveInv
  BY DEF Init, LiveInv, Keyed, Retired, Idle
<1>2. TypeOK /\ PriceInv /\ LiveInv /\ [Next]_vars => LiveInv'
  BY NextLive
<1>3. LiveInv => StoredIsLive
  BY DEF LiveInv, Live, StoredIsLive
<1> QED
  BY <1>1, <1>2, <1>3, TypeCorrect, PriceInvariant, PTL DEF Spec

-----------------------------------------------------------------------------
\* The charges, of any invoice.

\* A draft that was never sent has no session yet.
Fresh ==
  ~restored /\ status = "DRAFT" =>
    /\ \A s \in Sessions : sState[s] = "unused"
    /\ \A r \in Requests : req[r].pc \in {"idle", "claim", "void"}

Decided(s) == recorded[s] > 0 \/ s \in refused \cup dropped

\* A delivery goes on to the audit when its charge is refused.  Until a void is
\* undone, one that missed its claim met an invoice that stays closed, and a
\* refused charge stays unacceptable.
ChargeInv ==
  /\ Fresh
  /\ \A m \in inbox : sState[m[2]] # "unused"
  /\ \A s \in Sessions : hook[s] = "audit" => s \in refused
  /\ \A s \in Sessions : hook[s] # "idle" => sState[s] # "unused"
  /\ \A s \in refused : sState[s] # "unused"
  /\ ~restored =>
       /\ \A s \in Sessions : hook[s] \in {"replay", "classify"} => Closed
       /\ \A s \in Sessions : hook[s] = "classify" => recorded[s] = 0
       /\ \A s \in refused : Closed \/ ~Accepts(Amount(s))
  /\ ChargesAccounted

\* Stripe's sessions keep their key, and a charge comes with its event.
LEMMA SessionsStay ==
  ASSUME TypeOK, [Next]_vars, NEW s \in Sessions
  PROVE  /\ sState[s] # "unused" => sState'[s] # "unused" /\ sKey'[s] = sKey[s]
         /\ sState'[s] = "paid" => sState[s] = "paid" \/ <<"completed", s>> \in inbox'
<1> DEFINE Stays == /\ sState[s] # "unused" => sState'[s] # "unused" /\ sKey'[s] = sKey[s]
                    /\ sState'[s] = "paid" => sState[s] = "paid" \/ <<"completed", s>> \in inbox'
<1> SUFFICES Stays
  OBVIOUS
<1>0. /\ sState \in [Sessions -> {"unused", "open", "paid", "expired"}]
      /\ sKey \in [Sessions -> Keys]
      /\ \A r \in Requests : req[r].session \in Sessions \cup {NoSession}
  BY DEF TypeOK, StripeOK, ReqOK, Locals, LocalRecords
<1>1. CASE UNCHANGED stripe
  BY <1>1 DEF stripe
<1>2. ASSUME NEW key, NEW t \in Sessions, StripeCreates(key, t) PROVE Stays
  BY <1>0, <1>2 DEF StripeCreates, stripe
<1>3. ASSUME NEW t \in Sessions \cup {NoSession}, ExpireCheckoutSession(t) PROVE Stays
  BY <1>0, <1>3 DEF ExpireCheckoutSession, stripe
<1>4. ASSUME NEW t \in Sessions, CustomerPays(t) \/ ReuseMarginPasses(t) \/ SessionLapses(t)
      PROVE  Stays
  BY <1>0, <1>4 DEF CustomerPays, ReuseMarginPasses, SessionLapses
<1>5. ASSUME NEW r \in Requests, NEW t \in Sessions, PayCreate(r, t) \/ SendCreate(r, t)
      PROVE  StripeCreates(CheckoutKey(r), t)
  BY <1>5 DEF PayCreate, SendCreate
<1>6. ASSUME NEW r \in Requests, PayExpire(r) \/ RetireCheckoutSession(r)
      PROVE  ExpireCheckoutSession(req[r].session)
  BY <1>6 DEF PayExpire, RetireCheckoutSession
<1> QED
  <2> HIDE DEF Stays
  <2> QED
    BY <1>0, <1>1, <1>2, <1>3, <1>4, <1>5, <1>6, StripeChange

\* In a draft that was never sent only drafts' requests run.
LEMMA NextFresh ==
  ASSUME TypeOK, ChargeInv, [Next]_vars
  PROVE  Fresh'
<1> SUFFICES ASSUME ~restored', status' = "DRAFT"
             PROVE  /\ \A s \in Sessions : sState'[s] = "unused"
                    /\ \A r \in Requests : req'[r].pc \in {"idle", "claim", "void"}
  BY DEF Fresh
<1>0. /\ status = "DRAFT" /\ req \in [Requests -> Locals]
      /\ \A s \in Sessions : sState[s] = "unused"
      /\ \A r \in Requests : req[r].pc \in {"idle", "claim", "void"}
  BY NextOpen DEF ChargeInv, Fresh, TypeOK, ReqOK
<1>1. \A s \in Sessions : sState'[s] = "unused"
  <2>1. ASSUME NEW r \in Requests, NEW s \in Sessions, PayCreate(r, s) \/ SendCreate(r, s)
        PROVE  FALSE
    BY <1>0, <2>1 DEF PayCreate, SendCreate
  <2>2. ASSUME NEW r \in Requests, PayExpire(r) \/ RetireCheckoutSession(r) PROVE FALSE
    BY <1>0, <2>2 DEF PayExpire, RetireCheckoutSession
  <2>3. ASSUME NEW s \in Sessions, CustomerPays(s) \/ SessionLapses(s) PROVE FALSE
    BY <1>0, <2>3 DEF CustomerPays, SessionLapses
  <2>4. ASSUME NEW s \in Sessions, ReuseMarginPasses(s) PROVE UNCHANGED sState
    BY <2>4 DEF ReuseMarginPasses
  <2>5. UNCHANGED sState
    BY <2>1, <2>2, <2>3, <2>4, StripeChange DEF stripe
  <2> QED
    BY <1>0, <2>5
<1>2. ASSUME NEW r \in Requests, NEW q \in Requests,
             \/ SendStep(r) \/ PayStep(r) \/ VoidRead(r) \/ VoidInvoice(r)
             \/ RetireCheckoutSession(r) \/ Abandon(r)
             \/ \E amount \in 0..(total + 1) : RecordManualPayment(r, amount)
      PROVE  req'[q].pc \in {"idle", "claim", "void"}
  <2>1. req[r].pc \in {"idle", "claim", "void"}
    BY <1>0
  <2>2. SendRead(r) \/ VoidRead(r) \/ Ends(r)
    BY <1>0, <1>2, <2>1 DEF SendStep, SendClaim, SendBalance, SendCreate, SendStore, PayStep,
       PayRead, PayBalance, PayCreate, PayStore, PayReread, PayExpire, VoidInvoice,
       RetireCheckoutSession, Abandon, RecordManualPayment, Claimable, Payable
  <2>3. CASE q # r
    <3>1. req'[q] = req[q]
      BY <1>0, <2>2, <2>3 DEF SendRead, VoidRead, Ends
    <3> QED
      BY <1>0, <3>1
  <2>4. CASE q = r
    <3>1. CASE SendRead(r) \/ VoidRead(r)
      BY <1>0, <2>4, <3>1 DEF SendRead, VoidRead, Idle
    <3>2. CASE Ends(r)
      BY <1>0, <2>4, <3>2 DEF Ends, Idle
    <3> QED
      BY <2>2, <3>1, <3>2
  <2> QED
    BY <2>3, <2>4
<1>3. ASSUME NEW s \in Sessions, CompletedStep(s) \/ StripeStep(s) PROVE UNCHANGED req
  BY <1>3 DEF CompletedStep, RecordCompletedCheckout, ClaimMisses, CheckReplay, ClassifyRefusal,
     RecordRefusedCheckout, DeliveryFails, StripeStep, CustomerPays, ReuseMarginPasses,
     SessionLapses, ClearExpiredCheckout
<1>4. ASSUME \/ \E t \in Totals : EditDraft(t)
             \/ UndoVoid \/ UndoWindowCloses
             \/ MarkOverdue \/ RevokePublicLink \/ RotatePublicLink \/ UNCHANGED vars
      PROVE  UNCHANGED req
  BY <1>4 DEF EditDraft, UndoVoid, UndoWindowCloses, MarkOverdue, RevokePublicLink,
     RotatePublicLink, vars
<1>5. \A q \in Requests : req'[q].pc \in {"idle", "claim", "void"}
  BY <1>0, <1>2, <1>3, <1>4 DEF Next, Requests
<1> QED
  BY <1>1, <1>5

\* A refused charge stays unacceptable: a payment only lowers the balance.
LEMMA RefusalStays ==
  ASSUME TypeOK, [Next]_vars, ~restored', status # "DRAFT",
         NEW s \in Sessions, sKey'[s] = sKey[s],
         Closed \/ ~Accepts(Amount(s))
  PROVE  Closed' \/ ~Accepts(Amount(s))'
<1>0. total \in Nat /\ paid \in Nat /\ Amount(s) \in Nat /\ Amount(s)' = Amount(s)
  BY DEF TypeOK, RowOK, StripeOK, Keys, Amount
<1>1. MoneyStep /\ (Closed => Closed')
  BY NextMoney, NextOpen
<1>2. CASE Closed
  BY <1>1, <1>2
<1>3. CASE UNCHANGED <<total, paid>> /\ ~Accepts(Amount(s))
  BY <1>0, <1>3 DEF Accepts, Balance
<1>4. ASSUME Claimable, NEW amount \in Nat, Accepts(amount), ApplyInvoicePayment(amount),
             ~Accepts(Amount(s))
      PROVE  Closed' \/ ~Accepts(Amount(s))'
  <2>1. paid' = paid + amount /\ total' = total /\ (paid + amount >= total => status' = "PAID")
    BY <1>4 DEF ApplyInvoicePayment, Covers
  <2>2. CASE paid + amount >= total
    BY <2>1, <2>2 DEF Closed
  <2>3. CASE paid + amount < total
    <3>1. Balance > 0 /\ amount > 0 /\ Balance = total - paid
      BY <1>0, <1>4, <2>3 DEF Accepts, Balance
    <3>2. Amount(s) = 0 \/ Amount(s) > Balance
      BY <1>0, <1>4, <3>1 DEF Accepts
    <3>3. Balance' = Balance - amount /\ Balance' > 0
      BY <1>0, <2>1, <2>3, <3>1 DEF Balance
    <3>4. Balance \in Nat
      BY <1>0 DEF Balance
    <3> QED
      BY <1>0, <3>1, <3>2, <3>3, <3>4 DEF Accepts
  <2> QED
    BY <1>0, <2>2, <2>3
<1> QED
  BY <1>1, <1>2, <1>3, <1>4 DEF MoneyStep, SameMoney

\* Only the handler of completed sessions touches what is known of the charges.
LEMMA ChargesChange ==
  ASSUME [Next]_vars
  PROVE  \/ UNCHANGED <<hook, recorded, refused, dropped>>
         \/ \E s \in Sessions : CompletedStep(s)
<1> USE DEF charges
<1>1. ASSUME NEW r \in Requests, PayStep(r) PROVE UNCHANGED <<hook, recorded, refused, dropped>>
  BY <1>1 DEF PayStep, PayRead, PayBalance, PayCreate, PayStore, PayReread, PayExpire
<1>2. ASSUME NEW r \in Requests,
             \/ \E amount \in 0..(total + 1) : RecordManualPayment(r, amount)
             \/ VoidRead(r) \/ VoidInvoice(r) \/ RetireCheckoutSession(r) \/ Abandon(r)
      PROVE  UNCHANGED <<hook, recorded, refused, dropped>>
  BY <1>2 DEF RecordManualPayment, VoidRead, VoidInvoice, RetireCheckoutSession, Abandon
<1>3. ASSUME NEW s \in Sessions, StripeStep(s) PROVE UNCHANGED <<hook, recorded, refused, dropped>>
  BY <1>3 DEF StripeStep, CustomerPays, ReuseMarginPasses, SessionLapses, ClearExpiredCheckout
<1>4. ASSUME \/ \E t \in Totals : EditDraft(t)
             \/ UndoVoid \/ UndoWindowCloses
             \/ MarkOverdue \/ RevokePublicLink \/ RotatePublicLink \/ UNCHANGED vars
      PROVE  UNCHANGED <<hook, recorded, refused, dropped>>
  BY <1>4 DEF EditDraft, UndoVoid, UndoWindowCloses, MarkOverdue, RevokePublicLink,
              RotatePublicLink, vars
<1>5. ASSUME NEW r \in Requests, SendStep(r) PROVE UNCHANGED <<hook, recorded, refused, dropped>>
  BY <1>5 DEF SendStep, SendRead, SendClaim, SendBalance, SendCreate, SendStore
<1> QED
  BY <1>1, <1>2, <1>3, <1>4, <1>5 DEF Next, Requests

\* An event that leaves the inbox was acknowledged by its handler.
LEMMA CompletedKept ==
  ASSUME [Next]_vars, NEW t \in Sessions, <<"completed", t>> \in inbox
  PROVE  <<"completed", t>> \in inbox' \/ CompletedStep(t)
<1> DEFINE Kept == <<"completed", t>> \in inbox' \/ CompletedStep(t)
<1> SUFFICES Kept
  OBVIOUS
<1>1. ASSUME NEW r \in Requests, PayStep(r) PROVE Kept
  BY <1>1 DEF PayStep, PayRead, PayBalance, PayCreate, PayStore, PayReread, PayExpire,
              ExpireCheckoutSession
<1>2. ASSUME NEW r \in Requests,
             \/ \E amount \in 0..(total + 1) : RecordManualPayment(r, amount)
             \/ VoidRead(r) \/ VoidInvoice(r) \/ RetireCheckoutSession(r) \/ Abandon(r)
      PROVE  Kept
  BY <1>2 DEF RecordManualPayment, VoidRead, VoidInvoice, RetireCheckoutSession, Abandon,
              ExpireCheckoutSession
<1>3. ASSUME NEW s \in Sessions, StripeStep(s) PROVE Kept
  BY <1>3 DEF StripeStep, CustomerPays, ReuseMarginPasses, SessionLapses, ClearExpiredCheckout,
              Answered
<1>4. ASSUME \/ \E x \in Totals : EditDraft(x)
             \/ UndoVoid \/ UndoWindowCloses
             \/ MarkOverdue \/ RevokePublicLink \/ RotatePublicLink \/ UNCHANGED vars
      PROVE  Kept
  BY <1>4 DEF EditDraft, UndoVoid, UndoWindowCloses, MarkOverdue, RevokePublicLink,
              RotatePublicLink, vars
<1>5. ASSUME NEW r \in Requests, SendStep(r) PROVE Kept
  BY <1>5 DEF SendStep, SendRead, SendClaim, SendBalance, SendCreate, SendStore
<1>6. ASSUME NEW s \in Sessions, s # t, CompletedStep(s) PROVE Kept
  BY <1>6 DEF CompletedStep, RecordCompletedCheckout, ClaimMisses, CheckReplay, ClassifyRefusal,
              RecordRefusedCheckout, DeliveryFails, Answered
<1>7. ASSUME CompletedStep(t) PROVE Kept
  BY <1>7
<1> QED
  <2> HIDE DEF Kept
  <2> QED
    BY <1>1, <1>2, <1>3, <1>4, <1>5, <1>6, <1>7 DEF Next, Requests

\* What a delivery decides, it does not take back, and it is acknowledged only
\* with a decision.
LEMMA DecisionStays ==
  ASSUME TypeOK, [Next]_vars, \A t \in Sessions : hook[t] = "audit" => t \in refused,
         NEW s \in Sessions
  PROVE  /\ Decided(s) => Decided(s)'
         /\ <<"completed", s>> \in inbox => <<"completed", s>> \in inbox' \/ Decided(s)'
<1>0. recorded \in [Sessions -> Nat]
  BY DEF TypeOK, ChargesOK
<1>1. ASSUME NEW t \in Sessions, CompletedStep(t) PROVE Decided(s) => Decided(s)'
  <2>1. CASE \/ RecordCompletedCheckout(t) \/ ClassifyRefusal(t)
    BY <1>0, <2>1 DEF Decided, RecordCompletedCheckout, ClassifyRefusal, charges
  <2>2. CASE \/ ClaimMisses(t) \/ CheckReplay(t) \/ RecordRefusedCheckout(t) \/ DeliveryFails(t)
    BY <2>2 DEF Decided, ClaimMisses, CheckReplay, RecordRefusedCheckout, DeliveryFails, charges
  <2> QED
    BY <1>1, <2>1, <2>2 DEF CompletedStep
<1>2. Decided(s) => Decided(s)'
  <2>1. CASE UNCHANGED <<hook, recorded, refused, dropped>>
    BY <2>1 DEF Decided
  <2> QED
    BY <1>1, <2>1, ChargesChange
<1>3. ASSUME CompletedStep(s), <<"completed", s>> \in inbox, <<"completed", s>> \notin inbox'
      PROVE  Decided(s)'
  <2>1. CASE RecordCompletedCheckout(s)
    BY <1>0, <1>3, <2>1 DEF Decided, RecordCompletedCheckout, AlreadyRecorded, charges
  <2>2. CASE CheckReplay(s)
    BY <1>0, <1>3, <2>2 DEF Decided, CheckReplay, AlreadyRecorded, charges
  <2>3. CASE ClassifyRefusal(s)
    BY <1>3, <2>3 DEF Decided, ClassifyRefusal
  <2>4. CASE RecordRefusedCheckout(s)
    BY <1>3, <2>4 DEF Decided, RecordRefusedCheckout
  <2> QED
    BY <1>3, <2>1, <2>2, <2>3, <2>4 DEF CompletedStep, ClaimMisses, DeliveryFails
<1> QED
  BY <1>2, <1>3, CompletedKept

LEMMA NextCharge ==
  ASSUME TypeOK, ChargeInv, [Next]_vars
  PROVE  ChargeInv'
<1> DEFINE HookGoal ==
             \A t \in Sessions :
               /\ hook'[t] = "audit" => t \in refused'
               /\ hook'[t] # "idle" => sState'[t] # "unused"
               /\ ~restored' /\ hook'[t] \in {"replay", "classify"} => Closed'
               /\ ~restored' /\ hook'[t] = "classify" => recorded'[t] = 0
           RefusedGoal ==
             \A t \in refused' :
               /\ sState'[t] # "unused"
               /\ ~restored' => (Closed' \/ ~Accepts(Amount(t))') /\ recorded'[t] = 0
           Goal == HookGoal /\ RefusedGoal /\ (~restored' => dropped' = {})
<1>0. /\ recorded \in [Sessions -> Nat] /\ refused \subseteq Sessions
      /\ hook \in [Sessions -> {"idle", "replay", "classify", "audit"}]
      /\ ~restored' => ~restored /\ (Closed => Closed')
      /\ \A t \in Sessions : sState[t] # "unused" => sState'[t] # "unused" /\ sKey'[t] = sKey[t]
  BY NextOpen, SessionsStay DEF TypeOK, ChargesOK, HookOK
<1>1. ASSUME NEW t \in refused
      PROVE  /\ sState'[t] # "unused"
             /\ ~restored' => (Closed' \/ ~Accepts(Amount(t))') /\ recorded[t] = 0
  <2>1. t \in Sessions /\ sState[t] # "unused"
    BY <1>0 DEF ChargeInv
  <2>2. ~restored' => /\ status # "DRAFT" /\ recorded[t] = 0
                      /\ Closed \/ ~Accepts(Amount(t))
    BY <1>0, <2>1 DEF ChargeInv, ChargesAccounted, Fresh
  <2> QED
    BY <1>0, <2>1, <2>2, RefusalStays
<1>2. \A t \in Sessions :
        /\ hook[t] = "audit" => t \in refused
        /\ hook[t] # "idle" => sState'[t] # "unused"
        /\ ~restored' /\ hook[t] \in {"replay", "classify"} => Closed /\ Closed'
        /\ ~restored' /\ hook[t] = "classify" => recorded[t] = 0
  BY <1>0 DEF ChargeInv
<1>3. ~restored' => dropped = {}
  BY <1>0 DEF ChargeInv, ChargesAccounted
<1>4. ASSUME NEW s \in Sessions, RecordCompletedCheckout(s) PROVE Goal
  <2>0. sState[s] # "unused" /\ sState'[s] # "unused"
    BY <1>0, <1>4 DEF RecordCompletedCheckout, ChargeInv
  <2>1. CASE UNCHANGED <<row, hook, charges>>
    BY <1>1, <1>2, <1>3, <2>1 DEF charges
  <2>2. CASE /\ ~AlreadyRecorded(s) /\ Claimable /\ Accepts(Amount(s))
             /\ recorded' = [recorded EXCEPT ![s] = @ + 1]
             /\ UNCHANGED <<hook, handed, refused, audited, dropped, restored>>
    <3>1. ~restored' => ~Closed /\ s \notin refused
      BY <1>0, <2>2 DEF Claimable, Payable, Closed, ChargeInv
    <3>2. HookGoal
      BY <1>0, <1>2, <2>2, <3>1
    <3>3. RefusedGoal
      BY <1>0, <1>1, <2>2, <3>1
    <3> QED
      BY <1>3, <2>2, <3>2, <3>3
  <2>3. CASE /\ ~AlreadyRecorded(s) /\ Claimable /\ ~Accepts(Amount(s))
             /\ hook' = [hook EXCEPT ![s] = "audit"]
             /\ refused' = refused \cup {s}
             /\ UNCHANGED <<row, inbox, handed, recorded, audited, dropped, paidEvents, restored>>
    <3>1. recorded[s] = 0
      BY <1>0, <2>3 DEF AlreadyRecorded
    <3>2. ~Accepts(Amount(s))'
      BY <1>0, <2>0, <2>3 DEF row, Accepts, Balance, Amount
    <3>3. HookGoal
      BY <1>0, <1>2, <2>0, <2>3
    <3>4. RefusedGoal
      BY <1>1, <2>0, <2>3, <3>1, <3>2
    <3> QED
      BY <1>3, <2>3, <3>3, <3>4
  <2> QED
    BY <1>4, <2>1, <2>2, <2>3 DEF RecordCompletedCheckout
<1>5. ASSUME NEW s \in Sessions, ClaimMisses(s) PROVE Goal
  <2>1. sState[s] # "unused" /\ (~restored' => Closed)
    <3>1. sState[s] # "unused"
      BY <1>5 DEF ClaimMisses, ChargeInv
    <3>2. ~restored' => status # "DRAFT"
      BY <1>0, <3>1 DEF ChargeInv, Fresh
    <3> QED
      BY <1>5, <3>1, <3>2 DEF ClaimMisses, Claimable, Closed, TypeOK, RowOK, Voidable
  <2>2. /\ \A t \in Sessions : hook'[t] = IF t = s THEN "replay" ELSE hook[t]
        /\ UNCHANGED <<recorded, refused, dropped>>
    BY <1>0, <1>5 DEF ClaimMisses, charges
  <2>3. HookGoal
    BY <1>0, <1>2, <2>1, <2>2
  <2> QED
    BY <1>1, <1>3, <2>2, <2>3
<1>6. ASSUME NEW s \in Sessions, CheckReplay(s) \/ RecordRefusedCheckout(s) \/ DeliveryFails(s)
      PROVE  Goal
  <2>1. /\ UNCHANGED <<recorded, refused, dropped>>
        /\ \A t \in Sessions : t # s => hook'[t] = hook[t]
        /\ \/ hook'[s] = "idle"
           \/ hook[s] = "replay" /\ hook'[s] = "classify" /\ recorded[s] = 0
    BY <1>0, <1>6 DEF CheckReplay, RecordRefusedCheckout, DeliveryFails, AlreadyRecorded, charges
  <2>2. HookGoal
    BY <1>2, <2>1
  <2> QED
    BY <1>1, <1>3, <2>1, <2>2
<1>7. ASSUME NEW s \in Sessions, ClassifyRefusal(s) PROVE Goal
  <2>1. /\ sState'[s] # "unused" /\ UNCHANGED <<status, recorded, restored>>
        /\ ~restored' => Closed /\ Closed' /\ recorded[s] = 0
    BY <1>0, <1>2, <1>7 DEF ClassifyRefusal, row
  <2>2. CASE /\ refused' = refused \cup {s} /\ dropped' = dropped
             /\ hook' = [hook EXCEPT ![s] = "audit"]
    <3>1. HookGoal
      BY <1>0, <1>2, <2>1, <2>2
    <3>2. RefusedGoal
      BY <1>1, <2>1, <2>2
    <3> QED
      BY <1>3, <2>2, <3>1, <3>2
  <2>3. CASE /\ status \notin RefusedCharge /\ refused' = refused
             /\ hook' = [hook EXCEPT ![s] = "idle"]
    <3>1. restored'
      BY <2>1, <2>3 DEF RefusedCharge, Closed
    <3>2. HookGoal
      BY <1>0, <1>2, <2>1, <2>3
    <3> QED
      BY <1>1, <2>1, <2>3, <3>1, <3>2
  <2> QED
    BY <1>7, <2>2, <2>3 DEF ClassifyRefusal
<1>8. Goal
  <2> HIDE DEF Goal
  <2>1. UNCHANGED <<hook, recorded, refused, dropped>> => Goal
    BY <1>1, <1>2, <1>3 DEF Goal
  <2> QED
    BY <2>1, <1>4, <1>5, <1>6, <1>7, ChargesChange DEF CompletedStep
<1>9. \A t \in Sessions : Acknowledged(t)' => Decided(t)'
  <2>1. \A t \in Sessions : Acknowledged(t) => Decided(t)
    BY DEF ChargeInv, ChargesAccounted, Decided
  <2>2. \A t \in Sessions : hook[t] = "audit" => t \in refused
    BY <1>2
  <2> QED
    BY <2>1, <2>2, DecisionStays, SessionsStay DEF Acknowledged
<1>10. \A m \in inbox' : sState'[m[2]] # "unused"
  <2>1. \A m \in inbox : m[2] \in Sessions /\ sState[m[2]] # "unused"
    BY DEF TypeOK, InboxOK, ChargeInv
  <2> QED
    BY <1>0, <2>1, NextInbox
<1>11. ChargesAccounted'
  BY <1>8, <1>9 DEF ChargesAccounted, Decided
<1> QED
  BY <1>8, <1>10, <1>11, NextFresh DEF ChargeInv

\* For any number of send, pay, void and mark-paid requests, and however often
\* and late Stripe delivers it: a charge is acknowledged only when it was recorded,
\* refused or dropped; and until a void is undone none is dropped, and none is
\* both recorded and refused.
THEOREM ChargesAccountedHolds == Spec => []ChargesAccounted
<1>1. Init => ChargeInv
  BY DEF Init, ChargeInv, Fresh, Idle, ChargesAccounted, Acknowledged
<1>2. TypeOK /\ ChargeInv /\ [Next]_vars => ChargeInv'
  BY NextCharge
<1>3. ChargeInv => ChargesAccounted
  BY DEF ChargeInv
<1> QED
  BY <1>1, <1>2, <1>3, TypeCorrect, PTL DEF Spec

=============================================================================
