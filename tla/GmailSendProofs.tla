--------------------------- MODULE GmailSendProofs ---------------------------
(***************************************************************************)
(* Proofs about the Gmail send receipts and the approval of a reply, for   *)
(* any number of idempotency keys, contents and concurrent requests.       *)
(***************************************************************************)
EXTENDS GmailSend, FiniteSetTheorems, TLAPS

-----------------------------------------------------------------------------
Pcs == {"idle", "authorize", "fresh", "claim", "insert", "reread",
        "send", "accept", "reject", "lose", "repair"}

\* A request that claimed the receipt and has not recorded the outcome.
Dispatching == {"send", "accept", "reject", "lose"}

\* A receipt in one of these keeps its reply from being claimed again.
Closed == {"none", "REJECTED"}

\* Requests in progress have a key, and an edit has a content.
LocalsInv ==
  /\ \A s \in Senders : sender[s].pc # "idle" => Key(s) \in Keys
  /\ \A c \in Clerks : clerk[c].op = "edit" => clerk[c].body \in Bodies

\* The reply has one open attempt, and the attempt one request that may call
\* Gmail; what that request knows of the delivery is so.
AttemptInv ==
  /\ \A k, l \in Keys : receipt[k] \notin Closed /\ receipt[l] \notin Closed => k = l
  /\ \A s, t \in Senders :
       /\ sender[s].pc \in Dispatching /\ sender[t].pc \in Dispatching
       /\ Key(s) = Key(t)
       => s = t
  /\ \A s \in Senders :
       /\ sender[s].pc \in Dispatching => receipt[Key(s)] = "DISPATCHING"
       /\ sender[s].pc \in {"send", "reject"} => delivered[Key(s)] = 0
       /\ sender[s].pc = "accept" => delivered[Key(s)] = 1
  /\ \A k \in Keys : delivered[k] \in {0, 1}

\* A content is approved before it can be claimed for delivery.
ApprovalInv ==
  /\ reply.status = "APPROVED" => reply.body \in approved
  /\ \A s \in Senders : sender[s].pc = "insert" => Mail(s).body \in approved

IInv ==
  TypeOK /\ LocalsInv /\ AttemptInv /\ ReceiptTrue /\ OneHubMessage /\ ApprovalInv
  /\ SentWasApproved

-----------------------------------------------------------------------------
\* How a step changes the locals of its request.

Locals == [pc : Pcs, key : Keys \cup {NoKey}, mail : Mails]

\* Request s is now at p and the others are where they were.
At(s, p) ==
  /\ sender' \in [Senders -> Locals]
  /\ sender'[s].pc = p
  /\ \A t \in Senders : t # s => sender'[t] = sender[t]

\* The same, with the key and content it had.
Moves(s, p) == At(s, p) /\ sender'[s].key = sender[s].key /\ sender'[s].mail = sender[s].mail

LEMMA GoesMoves ==
  ASSUME TypeOK, NEW s \in Senders, NEW p \in Pcs, Goes(s, p)
  PROVE  Moves(s, p)
  BY DEF TypeOK, Goes, Moves, At, Locals, Pcs

LEMMA EndsAt ==
  ASSUME TypeOK, NEW s \in Senders, Ends(s)
  PROVE  At(s, "idle")
  BY DEF TypeOK, Ends, At, Locals, Pcs, Idle, NoMail, Mails

LEMMA StartsAt ==
  ASSUME TypeOK, NEW s \in Senders, NEW p \in Pcs, NEW k \in Keys,
         NEW m \in Mails,
         sender' = [sender EXCEPT ![s] = [pc |-> p, key |-> k, mail |-> m]]
  PROVE  At(s, p) /\ sender'[s].key = k /\ sender'[s].mail = m
  BY DEF TypeOK, At, Locals, Pcs

LEMMA AnswersAt ==
  ASSUME TypeOK, NEW s \in Senders, NEW k \in Keys, NEW m \in Mails,
         AnswersWith(s, k, m)
  PROVE  At(s, "idle") \/ (At(s, "repair") /\ sender'[s].key = k)
<1>1. CASE receipt[k] = "ACCEPTED_PENDING_RECORD"
  <2>1. sender' = [sender EXCEPT ![s] = [pc |-> "repair", key |-> k, mail |-> m]]
    BY <1>1 DEF AnswersWith
  <2> QED
    BY <2>1, StartsAt DEF Pcs
<1>2. CASE receipt[k] # "ACCEPTED_PENDING_RECORD"
  BY <1>2, EndsAt DEF AnswersWith, Ends
<1> QED
  BY <1>1, <1>2

\* A step that leaves receipts and effects alone, and moves a request to a place
\* where it may not call Gmail, disturbs nothing.
LEMMA QuietStep ==
  ASSUME IInv, NEW s \in Senders, NEW p \in Pcs \ Dispatching, At(s, p),
         p # "idle" => sender'[s].key \in Keys,
         p = "insert" => sender'[s].mail.body \in approved,
         UNCHANGED <<reply, receipts, effects, clerk, approved>>
  PROVE  IInv'
<1> USE DEF IInv, At, Key, Mail, receipts, effects
<1>1. TypeOK'
  BY DEF TypeOK, Locals, Pcs
<1>2. LocalsInv'
  BY DEF LocalsInv
<1>3. AttemptInv'
  <2>1. \A t \in Senders : sender'[t].pc \in Dispatching => sender'[t] = sender[t]
    OBVIOUS
  <2> QED
    BY <2>1 DEF AttemptInv, Dispatching
<1>4. ApprovalInv'
  BY DEF ApprovalInv
<1>5. (ReceiptTrue /\ OneHubMessage /\ SentWasApproved)'
  BY DEF ReceiptTrue, OneHubMessage, SentWasApproved
<1> QED
  BY <1>1, <1>2, <1>3, <1>4, <1>5

LEMMA IInvInit == Init => IInv
  BY DEF Init, IInv, TypeOK, LocalsInv, AttemptInv, ReceiptTrue, OneHubMessage, ApprovalInv,
         SentWasApproved, Idle, NoMail, Mails, AtDesk, ReplyStatuses, ReceiptStatuses,
         Dispatching, Closed, Key, Mail

LEMMA RouteReadStep ==
  ASSUME IInv, NEW c \in Clerks, NEW op \in DOMAIN Expects, NEW b \in Bodies, RouteRead(c, op, b)
  PROVE  IInv'
  BY DEF RouteRead, Expects, receipts, effects, IInv, TypeOK, LocalsInv, AttemptInv, ReceiptTrue,
         OneHubMessage, ApprovalInv, SentWasApproved, Key, Mail

LEMMA RouteWriteStep ==
  ASSUME IInv, NEW c \in Clerks, RouteWrite(c)
  PROVE  IInv'
<1> DEFINE op == clerk[c].op
<1>1. /\ op \in {"edit", "submit", "approve", "return", "sent"}
      /\ reply \in [status : ReplyStatuses, body : Bodies]
  BY DEF RouteWrite, IInv, TypeOK
<1>2. /\ reply' \in [status : ReplyStatuses, body : Bodies]
      /\ approved \subseteq approved' /\ approved' \subseteq Bodies
      /\ reply'.status = "APPROVED" => reply'.body \in approved'
  <2>1. /\ reply'.status = Becomes[op] /\ reply'.body \in Bodies
        /\ reply' = [status |-> Becomes[op], body |-> reply'.body]
    BY <1>1 DEF RouteWrite, IInv, LocalsInv
  <2>2. Becomes[op] \in ReplyStatuses /\ (Becomes[op] = "APPROVED" => op = "approve")
    BY <1>1 DEF Becomes, ReplyStatuses
  <2>3. op = "approve" => reply'.body = reply.body
    BY DEF RouteWrite
  <2> QED
    BY <1>1, <2>1, <2>2, <2>3 DEF RouteWrite, IInv, TypeOK
<1>3. clerk' \in [Clerks -> [op : {"idle", "edit", "submit", "approve", "return", "sent"},
                             body : Bodies \cup {NoBody}]]
      /\ \A d \in Clerks : clerk'[d] = clerk[d] \/ clerk'[d].op = "idle"
  BY DEF RouteWrite, AtDesk, IInv, TypeOK
<1> QED
  BY <1>2, <1>3 DEF RouteWrite, receipts, effects, IInv, TypeOK, LocalsInv, AttemptInv, ReceiptTrue,
         OneHubMessage, ApprovalInv, SentWasApproved, Key, Mail

LEMMA QuietSteps ==
  ASSUME IInv, NEW s \in Senders,
         \/ Authorize(s) \/ FreshLookup(s) \/ ClaimRead(s) \/ Reread(s)
         \/ \E k \in Keys : Reconcile(s, k) \/ \E m \in Requests : Lookup(s, k, m)
  PROVE  IInv'
<1>0. /\ TypeOK
      /\ sender[s].pc # "idle" => Key(s) \in Keys
      /\ Mail(s) \in Mails /\ Requests \subseteq Mails
      /\ \A k \in Keys : snapshot[k] \in Mails
  BY DEF IInv, TypeOK, LocalsInv, Mail, Mails, Requests
<1>1. CASE \/ Authorize(s) \/ FreshLookup(s) \/ ClaimRead(s) \/ Reread(s)
  <2>0. Key(s) \in Keys
    BY <1>0, <1>1 DEF Authorize, FreshLookup, ClaimRead, Reread
  <2>1. CASE Goes(s, "claim") \/ Goes(s, "fresh")
    <3>1. Moves(s, "claim") \/ Moves(s, "fresh")
      BY <1>0, <2>1, GoesMoves DEF Pcs
    <3> QED
      BY <1>1, <2>0, <3>1, QuietStep
      DEF Moves, Pcs, Dispatching, Key, Authorize, FreshLookup, ClaimRead, Reread
  <2>2. CASE Goes(s, "insert") /\ Approved(Mail(s))
    <3>1. Moves(s, "insert")
      BY <1>0, <2>2, GoesMoves DEF Pcs
    <3>2. sender'[s].mail.body \in approved
      BY <2>2, <3>1 DEF Moves, Approved, Mail, IInv, ApprovalInv
    <3> QED
      BY <1>1, <2>0, <3>1, <3>2, QuietStep
      DEF Moves, Pcs, Dispatching, Key, Authorize, FreshLookup, ClaimRead, Reread
  <2>3. CASE Ends(s)
    <3>1. At(s, "idle")
      BY <1>0, <2>3, EndsAt
    <3> QED
      BY <1>1, <3>1, QuietStep
      DEF Pcs, Dispatching, Authorize, FreshLookup, ClaimRead, Reread
  <2>4. CASE AnswersWith(s, Key(s), Mail(s))
    <3>1. At(s, "idle") \/ (At(s, "repair") /\ sender'[s].key = Key(s))
      BY <1>0, <2>0, <2>4, AnswersAt
    <3> QED
      BY <1>1, <2>0, <3>1, QuietStep
      DEF Pcs, Dispatching, Authorize, FreshLookup, ClaimRead, Reread
  <2> QED
    BY <1>1, <2>1, <2>2, <2>3, <2>4 DEF Authorize, FreshLookup, ClaimRead, Reread
<1>2. ASSUME NEW k \in Keys, Reconcile(s, k) PROVE IInv'
  <2>1. At(s, "repair") /\ sender'[s].key = k
    BY <1>0, <1>2, StartsAt DEF Reconcile, Pcs
  <2> QED
    BY <1>2, <2>1, QuietStep DEF Reconcile, Pcs, Dispatching
<1>3. ASSUME NEW k \in Keys, NEW m \in Requests, Lookup(s, k, m) PROVE IInv'
  <2>1. CASE sender' = [sender EXCEPT ![s] = [pc |-> "authorize", key |-> k, mail |-> m]]
    <3>1. At(s, "authorize") /\ sender'[s].key = k
      BY <1>0, <2>1, StartsAt DEF Pcs
    <3> QED
      BY <1>3, <3>1, QuietStep DEF Lookup, Pcs, Dispatching
  <2>2. CASE AnswersWith(s, k, m)
    <3>1. At(s, "idle") \/ (At(s, "repair") /\ sender'[s].key = k)
      BY <1>0, <2>2, AnswersAt
    <3> QED
      BY <1>3, <3>1, QuietStep DEF Lookup, Pcs, Dispatching
  <2> QED
    BY <1>3, <2>1, <2>2 DEF Lookup
<1> QED
  BY <1>1, <1>2, <1>3

LEMMA InsertStep ==
  ASSUME IInv, NEW s \in Senders, Insert(s)
  PROVE  IInv'
<1> DEFINE k == Key(s)
<1>0. /\ TypeOK /\ sender[s].pc = "insert" /\ k \in Keys
      /\ Mail(s) \in Mails /\ Mail(s).body \in approved /\ approved \subseteq Bodies
  BY DEF Insert, IInv, TypeOK, LocalsInv, ApprovalInv, Mail
<1>1. CASE /\ ~Taken(k)
           /\ receipt' = [receipt EXCEPT ![k] = "DISPATCHING"]
           /\ snapshot' = [snapshot EXCEPT ![k] = Mail(s)]
           /\ Goes(s, "send")
  <2>1. Moves(s, "send")
    BY <1>0, <1>1, GoesMoves DEF Pcs
  <2>2. \A l \in Keys : receipt[l] \in Closed
    BY <1>1 DEF Taken, Closed
  <2>3. \A t \in Senders : sender[t].pc \notin Dispatching
    BY <2>2 DEF IInv, AttemptInv, LocalsInv, Dispatching, Closed
  <2>4. delivered[k] = 0 /\ receipt[k] = "none"
    BY <1>0, <1>1 DEF IInv, ReceiptTrue, Taken
  <2> USE <1>0, <1>1, <2>1 DEF Insert, effects, IInv, Moves, At
  <2>5. TypeOK'
    BY DEF TypeOK, Locals, Pcs, ReceiptStatuses
  <2>6. LocalsInv'
    BY DEF LocalsInv, Key
  <2>7. AttemptInv'
    BY <2>2, <2>3, <2>4 DEF AttemptInv, Key, Closed, Dispatching, TypeOK
  <2>8. ReceiptTrue' /\ OneHubMessage' /\ SentWasApproved'
    BY <2>4 DEF ReceiptTrue, OneHubMessage, SentWasApproved, TypeOK
  <2>9. ApprovalInv'
    BY DEF ApprovalInv, Mail
  <2> QED
    BY <2>5, <2>6, <2>7, <2>8, <2>9
<1>2. CASE Goes(s, "reread") /\ UNCHANGED receipts
  <2>1. Moves(s, "reread")
    BY <1>0, <1>2, GoesMoves DEF Pcs
  <2> QED
    BY <1>0, <1>2, <2>1, QuietStep DEF Insert, Moves, Key, Pcs, Dispatching
<1>3. CASE Ends(s) /\ UNCHANGED receipts
  <2>1. At(s, "idle")
    BY <1>0, <1>3, EndsAt
  <2> QED
    BY <1>3, <2>1, QuietStep DEF Insert, Pcs, Dispatching
<1> QED
  BY <1>1, <1>2, <1>3 DEF Insert

\* The call to Gmail: the request leaves "send" knowing what it may know.
LEMMA CallStep ==
  ASSUME IInv, NEW s \in Senders, sender[s].pc = "send",
         NEW d \in {0, 1}, delivered' = [delivered EXCEPT ![Key(s)] = d],
         NEW p \in {"accept", "reject", "lose", "idle"}, At(s, p),
         p # "idle" => sender'[s].key = sender[s].key,
         p = "accept" => d = 1, p = "reject" => d = 0,
         UNCHANGED <<reply, receipts, messages, clerk, approved>>
  PROVE  IInv'
<1> DEFINE k == Key(s)
<1>0. k \in Keys /\ receipt[k] = "DISPATCHING" /\ delivered[k] = 0
  BY DEF IInv, LocalsInv, AttemptInv, Dispatching
<1> USE <1>0 DEF IInv, At, receipts
<1>1. TypeOK'
  BY DEF TypeOK, Locals, Pcs
<1>2. LocalsInv'
  BY DEF LocalsInv, Key
<1>3. AttemptInv'
  <2>1. \A t \in Senders : t # s /\ sender'[t].pc \in Dispatching => Key(t) # k
    BY DEF AttemptInv, Dispatching
  <2>2. \A l \in Keys : delivered'[l] = IF l = k THEN d ELSE delivered[l]
    BY DEF TypeOK
  <2> QED
    BY <2>1, <2>2 DEF AttemptInv, LocalsInv, Key, Dispatching
<1>4. ReceiptTrue' /\ OneHubMessage' /\ SentWasApproved'
  BY DEF ReceiptTrue, OneHubMessage, SentWasApproved, TypeOK
<1>5. ApprovalInv'
  BY DEF ApprovalInv, Mail
<1> QED
  BY <1>1, <1>2, <1>3, <1>4, <1>5

LEMMA SendStep ==
  ASSUME IInv, NEW s \in Senders, Send(s)
  PROVE  IInv'
<1>0. /\ TypeOK /\ sender[s].pc = "send" /\ Key(s) \in Keys
      /\ delivered[Key(s)] = 0 /\ delivered \in [Keys -> Nat]
  BY DEF Send, IInv, TypeOK, LocalsInv, AttemptInv
<1>1. /\ Goes(s, "accept") => Moves(s, "accept")
      /\ Goes(s, "lose") => Moves(s, "lose")
      /\ Goes(s, "reject") => Moves(s, "reject")
  BY <1>0, GoesMoves DEF Pcs
<1>2. CASE /\ delivered' = [delivered EXCEPT ![Key(s)] = @ + 1]
           /\ Goes(s, "accept") \/ Goes(s, "lose")
  <2>1. delivered' = [delivered EXCEPT ![Key(s)] = 1]
    BY <1>0, <1>2
  <2> QED
    BY <1>0, <1>1, <1>2, <2>1, CallStep DEF Send, Moves
<1>3. CASE (Goes(s, "reject") \/ Goes(s, "lose")) /\ UNCHANGED delivered
  <2>1. delivered' = [delivered EXCEPT ![Key(s)] = 0]
    BY <1>0, <1>3
  <2> QED
    BY <1>0, <1>1, <1>3, <2>1, CallStep DEF Send, Moves
<1> QED
  BY <1>2, <1>3 DEF Send, Verdict

LEMMA DiesStep ==
  ASSUME IInv, NEW s \in Senders, Dies(s)
  PROVE  IInv'
<1>0. TypeOK /\ At(s, "idle")
  BY EndsAt DEF IInv, Dies
<1>1. CASE sender[s].pc = "send" /\ delivered' = [delivered EXCEPT ![Key(s)] = @ + 1]
  <2>1. Key(s) \in Keys /\ delivered[Key(s)] = 0 /\ delivered \in [Keys -> Nat]
    BY <1>1 DEF IInv, TypeOK, AttemptInv, LocalsInv
  <2>2. delivered' = [delivered EXCEPT ![Key(s)] = 1]
    BY <1>1, <2>1
  <2> QED
    BY <1>0, <1>1, <2>2, CallStep DEF Dies
<1>2. CASE UNCHANGED delivered
  BY <1>0, <1>2, QuietStep DEF Dies, Pcs, Dispatching, effects
<1> QED
  BY <1>1, <1>2 DEF Dies

LEMMA RecordStep ==
  ASSUME IInv, NEW s \in Senders, Record(s)
  PROVE  IInv'
<1> DEFINE k == Key(s)
<1>0. /\ TypeOK /\ sender[s].pc \in {"accept", "reject", "lose"} /\ k \in Keys
      /\ receipt[k] = "DISPATCHING"
  BY DEF Record, IInv, LocalsInv, AttemptInv, Dispatching
<1>1. /\ receipt' = [receipt EXCEPT ![k] = Outcome[sender[s].pc]]
      /\ \/ Goes(s, "repair") \/ Ends(s)
  BY <1>0 DEF Record
<1>2. PICK p \in {"repair", "idle"} : At(s, p) /\ (p = "repair" => sender'[s].key = k)
  BY <1>0, <1>1, GoesMoves, EndsAt DEF Pcs, Moves, Key
<1>3. /\ receipt'[k] \in ReceiptStatuses \ {"none", "COMPLETED"}
      /\ receipt'[k] = "ACCEPTED_PENDING_RECORD" => delivered[k] = 1
      /\ receipt'[k] = "REJECTED" => delivered[k] = 0
      /\ \A l \in Keys : l # k => receipt'[l] = receipt[l]
  <2>1. receipt'[k] = Outcome[sender[s].pc] /\ \A l \in Keys : l # k => receipt'[l] = receipt[l]
    BY <1>0, <1>1 DEF TypeOK
  <2>2. sender[s].pc = "accept" => delivered[k] = 1
    BY DEF IInv, AttemptInv
  <2>3. sender[s].pc = "reject" => delivered[k] = 0
    BY DEF IInv, AttemptInv
  <2> QED
    BY <1>0, <2>1, <2>2, <2>3 DEF Outcome, ReceiptStatuses
<1> USE <1>0, <1>2, <1>3 DEF Record, effects, IInv, At
<1>4. TypeOK'
  BY <1>1 DEF TypeOK, Locals, Pcs
<1>5. LocalsInv'
  BY DEF LocalsInv, Key
<1>6. AttemptInv'
  <2>1. \A t \in Senders : t # s /\ sender'[t].pc \in Dispatching => Key(t) # k
    BY DEF AttemptInv, Dispatching
  <2> QED
    BY <2>1 DEF AttemptInv, LocalsInv, Key, Dispatching, Closed
<1>7. ReceiptTrue' /\ OneHubMessage' /\ SentWasApproved'
  BY DEF ReceiptTrue, OneHubMessage, SentWasApproved
<1>8. ApprovalInv'
  BY DEF ApprovalInv, Mail
<1> QED
  BY <1>4, <1>5, <1>6, <1>7, <1>8

LEMMA FinalizeStep ==
  ASSUME IInv, NEW s \in Senders, Finalize(s)
  PROVE  IInv'
<1> DEFINE k == Key(s)
<1>0. TypeOK /\ sender[s].pc = "repair" /\ k \in Keys /\ At(s, "idle")
  BY EndsAt DEF Finalize, IInv, LocalsInv
<1>1. CASE /\ LockedReceipt(k)
           /\ reply' = [reply EXCEPT !.status = "SENT"]
           /\ messages' = [messages EXCEPT ![k] = @ + 1]
           /\ receipt' = [receipt EXCEPT ![k] = "COMPLETED"]
  <2>1. receipt[k] = "ACCEPTED_PENDING_RECORD" /\ messages[k] = 0 /\ delivered[k] = 1
    BY <1>0, <1>1 DEF LockedReceipt, IInv, OneHubMessage, ReceiptTrue
  <2> USE <1>0, <1>1, <2>1 DEF Finalize, IInv, At
  <2>2. TypeOK'
    BY DEF TypeOK, Locals, Pcs, ReceiptStatuses, ReplyStatuses
  <2>3. LocalsInv'
    BY DEF LocalsInv, Key
  <2>4. AttemptInv'
    <3>1. \A t \in Senders : sender'[t].pc \in Dispatching => sender'[t] = sender[t] /\ Key(t) # k
      BY DEF AttemptInv, Dispatching
    <3>2. \A l \in Keys : l # k => receipt'[l] = receipt[l]
      BY DEF TypeOK
    <3> QED
      BY <3>1, <3>2 DEF AttemptInv, LocalsInv, Key, Dispatching, Closed, TypeOK
  <2>5. ReceiptTrue' /\ OneHubMessage' /\ SentWasApproved'
    BY DEF ReceiptTrue, OneHubMessage, SentWasApproved, TypeOK
  <2>6. ApprovalInv'
    BY DEF ApprovalInv, Mail, TypeOK
  <2> QED
    BY <2>2, <2>3, <2>4, <2>5, <2>6
<1>2. CASE UNCHANGED <<reply, messages, receipt>>
  BY <1>0, <1>2, QuietStep DEF Finalize, Pcs, Dispatching, receipts, effects
<1> QED
  BY <1>1, <1>2 DEF Finalize

LEMMA IInvNext == IInv /\ [Next]_vars => IInv'
<1> SUFFICES ASSUME IInv, [Next]_vars PROVE IInv'
  OBVIOUS
<1>1. CASE UNCHANGED vars
  BY <1>1 DEF vars, receipts, effects, IInv, TypeOK, LocalsInv, AttemptInv, ReceiptTrue,
         OneHubMessage, ApprovalInv, SentWasApproved, Key, Mail
<1> QED
  BY <1>1, RouteReadStep, RouteWriteStep, QuietSteps, InsertStep, SendStep, RecordStep,
     FinalizeStep, DiesStep
  DEF Next, Proceeds

LEMMA IInvHolds == Spec => []IInv
  BY IInvInit, IInvNext, PTL DEF Spec

-----------------------------------------------------------------------------
\* The reply, its receipts, the effects and the requests' locals have their types.
THEOREM TypeCorrect == Spec => []TypeOK
  BY IInvHolds, PTL DEF IInv

\* The client gets the reply at most once, for any number of idempotency keys,
\* concurrent requests, retries and crashes: the partial unique index on the reply
\* leaves one open attempt, and only a definite rejection closes it.
THEOREM DeliveredOnceHolds == Spec => []DeliveredOnce
<1>1. IInv => DeliveredOnce
  <2> SUFFICES ASSUME IInv PROVE DeliveredOnce
    OBVIOUS
  <2> DEFINE Sent == {k \in Keys : \/ delivered[k] > 0
                                  \/ \E s \in Senders : Key(s) = k /\ sender[s].pc = "send"}
  <2>1. \A k \in Keys : delivered[k] <= 1
    BY DEF IInv, AttemptInv
  <2>2. \A k \in Sent : receipt[k] \notin Closed
    BY DEF IInv, AttemptInv, ReceiptTrue, Dispatching, Closed
  <2>3. \A k, l \in Sent : k = l
    BY <2>2 DEF IInv, AttemptInv
  <2>4. Sent = {} \/ \E k \in Keys : Sent = {k}
    BY <2>3
  <2>5. Cardinality(Sent) <= 1
    BY <2>4, FS_EmptySet, FS_Singleton
  <2> QED
    BY <2>1, <2>5 DEF DeliveredOnce
<1> QED
  BY <1>1, IInvHolds, PTL

\* Accepted and completed receipts were delivered, rejected ones were not.
THEOREM ReceiptTrueHolds == Spec => []ReceiptTrue
  BY IInvHolds, PTL DEF IInv

\* Concurrent repairs of an accepted receipt write one message to the thread.
THEOREM OneHubMessageHolds == Spec => []OneHubMessage
  BY IInvHolds, PTL DEF IInv

\* What is claimed for delivery was approved, although the routes of the reply
\* read its row and then write it by id alone.
THEOREM SentWasApprovedHolds == Spec => []SentWasApproved
  BY IInvHolds, PTL DEF IInv


-----------------------------------------------------------------------------
\* Nothing happens under a receipt that has an outcome, neither a delivery nor a
\* message, and what a receipt was claimed for never changes: a request that was
\* overtaken, repeated or left behind finds the key closed.  An accepted receipt
\* can only be completed.
ReceiptFinal ==
  [][\A k \in Keys :
       /\ receipt[k] # "none" => snapshot'[k] = snapshot[k]
       /\ receipt[k] \in {"COMPLETED", "REJECTED", "UNKNOWN"} =>
            /\ receipt'[k] = receipt[k] /\ delivered'[k] = delivered[k]
            /\ messages'[k] = messages[k]
       /\ receipt[k] = "ACCEPTED_PENDING_RECORD" =>
            /\ receipt'[k] \in {"ACCEPTED_PENDING_RECORD", "COMPLETED"}
            /\ delivered'[k] = delivered[k]]_vars

\* receiptTransition and finalize move a receipt only out of the status they
\* expect, and Gmail is called only by the request that holds the claim.
THEOREM ReceiptFinalHolds == Spec => ReceiptFinal
<1> DEFINE Final ==
      \A k \in Keys :
        /\ receipt[k] # "none" => snapshot'[k] = snapshot[k]
        /\ receipt[k] \in {"COMPLETED", "REJECTED", "UNKNOWN"} =>
             /\ receipt'[k] = receipt[k] /\ delivered'[k] = delivered[k]
             /\ messages'[k] = messages[k]
        /\ receipt[k] = "ACCEPTED_PENDING_RECORD" =>
             /\ receipt'[k] \in {"ACCEPTED_PENDING_RECORD", "COMPLETED"}
             /\ delivered'[k] = delivered[k]
<1>1. IInv /\ [Next]_vars => [Final]_vars
  <2> SUFFICES ASSUME IInv, Next PROVE Final
    OBVIOUS
  <2>0. /\ receipt \in [Keys -> ReceiptStatuses] /\ snapshot \in [Keys -> Mails]
        /\ delivered \in [Keys -> Nat] /\ messages \in [Keys -> Nat]
        /\ \A s \in Senders : sender[s].pc = "send" => receipt[Key(s)] = "DISPATCHING"
    BY DEF IInv, TypeOK, AttemptInv, Dispatching
  <2>1. CASE UNCHANGED <<receipts, effects>>
    BY <2>1 DEF receipts, effects
  <2>2. ASSUME NEW c \in Clerks,
               RouteWrite(c) \/ \E op \in DOMAIN Expects, b \in Bodies : RouteRead(c, op, b)
        PROVE  Final
    BY <2>1, <2>2 DEF RouteWrite, RouteRead
  <2>3. ASSUME NEW s \in Senders,
               \/ Authorize(s) \/ FreshLookup(s) \/ ClaimRead(s) \/ Reread(s)
               \/ \E k \in Keys : Reconcile(s, k) \/ \E m \in Requests : Lookup(s, k, m)
        PROVE  Final
    BY <2>1, <2>3 DEF Authorize, FreshLookup, ClaimRead, Reread, Reconcile, Lookup
  <2>4. ASSUME NEW s \in Senders, Insert(s) PROVE Final
    BY <2>0, <2>4 DEF Insert, Taken, receipts, effects
  <2>5. ASSUME NEW s \in Senders, Send(s) \/ Dies(s) PROVE Final
    <3>1. /\ UNCHANGED <<receipt, snapshot, messages>>
          /\ \/ UNCHANGED delivered
             \/ /\ sender[s].pc = "send"
                /\ delivered' = [delivered EXCEPT ![Key(s)] = @ + 1]
      BY <2>5 DEF Send, Dies, receipts
    <3> QED
      BY <2>0, <3>1
  <2>6. ASSUME NEW s \in Senders, Record(s) PROVE Final
    BY <2>0, <2>6 DEF Record, effects
  <2>7. ASSUME NEW s \in Senders, Finalize(s) PROVE Final
    BY <2>0, <2>7 DEF Finalize, LockedReceipt
  <2> QED
    BY <2>2, <2>3, <2>4, <2>5, <2>6, <2>7 DEF Next, Proceeds
<1> QED
  BY <1>1, IInvHolds, PTL DEF Spec, ReceiptFinal
=============================================================================
