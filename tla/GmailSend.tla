------------------------------ MODULE GmailSend ------------------------------
(***************************************************************************)
(* One reply to a client: the routes that draft, submit, approve, reject   *)
(* and mark it sent, and sendGmailWithReceipt, which delivers an approved  *)
(* reply under an idempotency key.  The reply's routes read the row and    *)
(* then update it by id alone.  A send claims a receipt in a transaction,  *)
(* calls Gmail outside any, and records the outcome; its process may die,  *)
(* or the database fail, before any statement.                             *)
(*                                                                         *)
(* One actor, mailbox and thread: the scope and mailbox checks refuse      *)
(* anything else.  A request carries a mail: the subject and body, which   *)
(* the reply has too and the approval compares, and an envelope (recipient *)
(* and threading headers), which only the fingerprint covers.              *)
(***************************************************************************)
EXTENDS Naturals, FiniteSets

CONSTANTS
  Keys,      \* idempotency keys, all used for this reply
  Bodies,    \* contents of the reply: subject and body
  Envelopes, \* the rest of a request that its fingerprint covers
  Senders,   \* requests to send or to reconcile
  Clerks,    \* requests to the reply's routes
  NoBody

ASSUME SendAssumption == NoBody \notin Bodies

VARIABLES
  reply,      \* the responses row: [status, body]
  receipt,    \* gmail_send_receipts.status, by key
  snapshot,   \* the mail the receipt was claimed with
  delivered,  \* e-mails that left the mailbox, by key
  messages,   \* OUTBOUND messages written to the Hub's thread, by key
  sender,     \* locals of sendGmailWithReceipt
  clerk,      \* locals of the reply's routes
  approved    \* history: contents the row had while APPROVED

receipts == <<receipt, snapshot>>
effects == <<delivered, messages>>
vars == <<reply, receipts, effects, sender, clerk, approved>>

ReplyStatuses == {"DRAFT", "PENDING_APPROVAL", "APPROVED", "REJECTED", "SENT"}
ReceiptStatuses == {"none", "DISPATCHING", "ACCEPTED_PENDING_RECORD", "COMPLETED",
                    "REJECTED", "UNKNOWN"}
NoKey == "no key"
Mails == [body : Bodies \cup {NoBody}, to : Envelopes \cup {NoBody}]
Requests == [body : Bodies, to : Envelopes]
NoMail == [body |-> NoBody, to |-> NoBody]
Idle == [pc |-> "idle", key |-> NoKey, mail |-> NoMail]
AtDesk == [op |-> "idle", body |-> NoBody]

TypeOK ==
  /\ reply \in [status : ReplyStatuses, body : Bodies]
  /\ receipt \in [Keys -> ReceiptStatuses]
  /\ snapshot \in [Keys -> Mails]
  /\ delivered \in [Keys -> Nat] /\ messages \in [Keys -> Nat]
  /\ sender \in [Senders -> [pc : {"idle", "authorize", "fresh", "claim", "insert", "reread",
                                   "send", "accept", "reject", "lose", "repair"},
                             key : Keys \cup {NoKey}, mail : Mails]]
  /\ clerk \in [Clerks -> [op : {"idle", "edit", "submit", "approve", "return", "sent"},
                           body : Bodies \cup {NoBody}]]
  /\ approved \subseteq Bodies

Init ==
  /\ reply \in [status : {"DRAFT"}, body : Bodies]
  /\ receipt = [k \in Keys |-> "none"]
  /\ snapshot = [k \in Keys |-> NoMail]
  /\ delivered = [k \in Keys |-> 0]
  /\ messages = [k \in Keys |-> 0]
  /\ sender = [s \in Senders |-> Idle]
  /\ clerk = [c \in Clerks |-> AtDesk]
  /\ approved = {}

-----------------------------------------------------------------------------
\* The reply's routes.

\* The status each route insists on when it reads the row ...
Expects == [edit |-> {"DRAFT", "REJECTED"}, submit |-> {"DRAFT", "REJECTED"},
            approve |-> {"PENDING_APPROVAL"}, return |-> {"PENDING_APPROVAL"},
            sent |-> {"APPROVED"}]

\* ... and the one it writes, by id alone.
Becomes == [edit |-> "DRAFT", submit |-> "PENDING_APPROVAL", approve |-> "APPROVED",
            return |-> "REJECTED", sent |-> "SENT"]

RouteRead(c, op, b) ==
  /\ clerk[c].op = "idle"
  /\ reply.status \in Expects[op]
  /\ op # "edit" => b = reply.body
  /\ clerk' = [clerk EXCEPT ![c] = [op |-> op, body |-> IF op = "edit" THEN b ELSE NoBody]]
  /\ UNCHANGED <<reply, receipts, effects, sender, approved>>

RouteWrite(c) ==
  /\ clerk[c].op # "idle"
  /\ LET op == clerk[c].op IN
     /\ reply' = [status |-> Becomes[op],
                  body |-> IF op = "edit" THEN clerk[c].body ELSE reply.body]
     /\ approved' = IF op = "approve" THEN approved \cup {reply.body} ELSE approved
  /\ clerk' = [clerk EXCEPT ![c] = AtDesk]
  /\ UNCHANGED <<receipts, effects, sender>>

-----------------------------------------------------------------------------
\* sendGmailWithReceipt and reconcileGmailSendReceipt.

Goes(s, pc) == sender' = [sender EXCEPT ![s].pc = pc]
Ends(s) == sender' = [sender EXCEPT ![s] = Idle]
Key(s) == sender[s].key
Mail(s) == sender[s].mail

\* The fingerprint of the request is the receipt's.
Matches(k, m) == snapshot[k] = m

\* Mutant: a send approves of whatever is approved.
ApprovedAnything(m) == reply.status = "APPROVED"

\* authorizeSnapshot with requireApproved: the envelope is the caller's own.
Approved(m) == reply.status = "APPROVED" /\ reply.body = m.body

\* repair: an accepted receipt goes on to finalize, any other is answered as read.
AnswersWith(s, k, m) ==
  sender' = [sender EXCEPT ![s] = IF receipt[k] = "ACCEPTED_PENDING_RECORD"
                                  THEN [pc |-> "repair", key |-> k, mail |-> m] ELSE Idle]

\* The outer lookup: a used key with other content is a conflict.
Lookup(s, k, m) ==
  /\ sender[s].pc = "idle"
  /\ \/ /\ receipt[k] = "none"
        /\ sender' = [sender EXCEPT ![s] = [pc |-> "authorize", key |-> k, mail |-> m]]
     \/ /\ receipt[k] # "none" /\ Matches(k, m)
        /\ AnswersWith(s, k, m)
  /\ UNCHANGED <<reply, receipts, effects, clerk, approved>>

Reconcile(s, k) ==
  /\ sender[s].pc = "idle" /\ receipt[k] = "ACCEPTED_PENDING_RECORD"
  /\ sender' = [sender EXCEPT ![s] = [pc |-> "repair", key |-> k, mail |-> snapshot[k]]]
  /\ UNCHANGED <<reply, receipts, effects, clerk, approved>>

Authorize(s) ==
  /\ sender[s].pc = "authorize"
  /\ Goes(s, IF Approved(Mail(s)) THEN "claim" ELSE "fresh")
  /\ UNCHANGED <<reply, receipts, effects, clerk, approved>>

\* "A same-key winner can complete between the outer lookup and this approval
\* read."
FreshLookup(s) ==
  /\ sender[s].pc = "fresh"
  /\ \/ /\ receipt[Key(s)] # "none" /\ Matches(Key(s), Mail(s))
        /\ AnswersWith(s, Key(s), Mail(s))
     \/ /\ receipt[Key(s)] = "none" \/ ~Matches(Key(s), Mail(s))
        /\ Ends(s)
  /\ UNCHANGED <<reply, receipts, effects, clerk, approved>>

\* The claim's transaction, up to its insert.
ClaimRead(s) ==
  /\ sender[s].pc = "claim"
  /\ LET k == Key(s) IN
     \/ /\ receipt[k] # "none" /\ Matches(k, Mail(s))
        /\ AnswersWith(s, k, Mail(s))
     \/ /\ receipt[k] = "none" /\ Approved(Mail(s))
        /\ Goes(s, "insert")
     \/ /\ IF receipt[k] = "none" THEN ~Approved(Mail(s)) ELSE ~Matches(k, Mail(s))
        /\ Ends(s)
  /\ UNCHANGED <<reply, receipts, effects, clerk, approved>>

\* Mutant: keys are unique, but not the live attempts of a reply.
KeyTakenOnly(k) == receipt[k] # "none"

\* The two unique indexes: the key, and the reply unless the attempt was rejected.
Taken(k) == receipt[k] # "none" \/ \E l \in Keys : receipt[l] \notin {"none", "REJECTED"}

\* The trigger insists that the reply is still APPROVED; its content is not
\* compared again.
Insert(s) ==
  /\ sender[s].pc = "insert"
  /\ LET k == Key(s) IN
     \/ /\ reply.status = "APPROVED" /\ ~Taken(k)
        /\ receipt' = [receipt EXCEPT ![k] = "DISPATCHING"]
        /\ snapshot' = [snapshot EXCEPT ![k] = Mail(s)]
        /\ Goes(s, "send")
     \/ /\ reply.status = "APPROVED" /\ Taken(k)
        /\ Goes(s, "reread")
        /\ UNCHANGED receipts
     \/ /\ reply.status # "APPROVED"
        /\ Ends(s)
        /\ UNCHANGED receipts
  /\ UNCHANGED <<reply, effects, clerk, approved>>

MatchesWinner(s) == receipt[Key(s)] # "none" /\ Matches(Key(s), Mail(s))

\* P2002: "never reacquire this claim".
Reread(s) ==
  /\ sender[s].pc = "reread"
  /\ \/ MatchesWinner(s) /\ AnswersWith(s, Key(s), Mail(s))
     \/ ~MatchesWinner(s) /\ Ends(s)
  /\ UNCHANGED <<reply, receipts, effects, clerk, approved>>

\* Mutant: an error without a verdict is taken for a rejection.
VerdictOf(definite) == "reject"

\* Only an HTTP status that refuses the message is a rejection.
Verdict(definite) == IF definite THEN "reject" ELSE "lose"

\* Gmail accepts, rejects, or fails before or after it delivered.
Send(s) ==
  /\ sender[s].pc = "send"
  /\ \/ /\ delivered' = [delivered EXCEPT ![Key(s)] = @ + 1]
        /\ Goes(s, "accept") \/ Goes(s, Verdict(FALSE))
     \/ /\ Goes(s, Verdict(TRUE)) \/ Goes(s, Verdict(FALSE))
        /\ UNCHANGED delivered
  /\ UNCHANGED <<reply, receipts, messages, clerk, approved>>

\* receiptTransition from DISPATCHING.
Outcome == [accept |-> "ACCEPTED_PENDING_RECORD", reject |-> "REJECTED", lose |-> "UNKNOWN"]

Record(s) ==
  /\ sender[s].pc \in {"accept", "reject", "lose"}
  /\ \/ /\ receipt[Key(s)] = "DISPATCHING"
        /\ receipt' = [receipt EXCEPT ![Key(s)] = Outcome[sender[s].pc]]
        /\ IF sender[s].pc = "accept" THEN Goes(s, "repair") ELSE Ends(s)
     \/ /\ receipt[Key(s)] # "DISPATCHING"
        /\ Ends(s)
        /\ UNCHANGED receipt
  /\ UNCHANGED <<reply, snapshot, effects, clerk, approved>>

\* Mutant: the receipt is not locked in its status, so that every repair that
\* read it as accepted writes a message.
UnlockedReceipt(k) == receipt[k] \in {"ACCEPTED_PENDING_RECORD", "COMPLETED"}

LockedReceipt(k) == receipt[k] = "ACCEPTED_PENDING_RECORD"

ReplyMatches(k) == reply = [status |-> "APPROVED", body |-> snapshot[k].body]

\* finalize, one transaction; repair swallows its refusal.
Finalize(s) ==
  /\ sender[s].pc = "repair"
  /\ LET k == Key(s) IN
     \/ /\ LockedReceipt(k) /\ ReplyMatches(k)
        /\ reply' = [reply EXCEPT !.status = "SENT"]
        /\ messages' = [messages EXCEPT ![k] = @ + 1]
        /\ receipt' = [receipt EXCEPT ![k] = "COMPLETED"]
     \/ /\ ~LockedReceipt(k) \/ ~ReplyMatches(k)
        /\ UNCHANGED <<reply, messages, receipt>>
  /\ Ends(s)
  /\ UNCHANGED <<snapshot, delivered, clerk, approved>>

\* The process dies or a statement fails.  A death during the call to Gmail may
\* leave a delivered message.
Dies(s) ==
  /\ sender[s].pc # "idle"
  /\ \/ /\ sender[s].pc = "send"
        /\ delivered' = [delivered EXCEPT ![Key(s)] = @ + 1]
     \/ UNCHANGED delivered
  /\ Ends(s)
  /\ UNCHANGED <<reply, receipts, messages, clerk, approved>>

-----------------------------------------------------------------------------
Proceeds(s) ==
  \/ Authorize(s) \/ FreshLookup(s) \/ ClaimRead(s) \/ Insert(s) \/ Reread(s)
  \/ Send(s) \/ Record(s) \/ Finalize(s)

Next ==
  \/ \E c \in Clerks :
       RouteWrite(c) \/ \E op \in DOMAIN Expects, b \in Bodies : RouteRead(c, op, b)
  \/ \E s \in Senders :
       \/ Proceeds(s) \/ Dies(s)
       \/ \E k \in Keys : Reconcile(s, k) \/ \E m \in Requests : Lookup(s, k, m)

Spec == Init /\ [][Next]_vars

-----------------------------------------------------------------------------
\* "One approved draft can have only one potentially delivered attempt, even if
\* concurrent callers supply different intent keys": the client gets the reply
\* at most once, over every key, retry and crash, and even when a late edit
\* takes a sent reply back to a draft that is approved again.
DeliveredOnce ==
  /\ \A k \in Keys : delivered[k] <= 1
  /\ Cardinality({k \in Keys : \/ delivered[k] > 0
                               \/ \E s \in Senders : Key(s) = k /\ sender[s].pc = "send"}) <= 1

\* A receipt says what happened: accepted and completed ones were delivered,
\* rejected ones were not and free the reply for another attempt.
ReceiptTrue ==
  \A k \in Keys :
    /\ receipt[k] \in {"ACCEPTED_PENDING_RECORD", "COMPLETED"} => delivered[k] = 1
    /\ receipt[k] \in {"none", "REJECTED"} => delivered[k] = 0

\* "Concurrent local repairs lock the receipt and create at most one Hub
\* message", and a completed receipt has exactly one.
OneHubMessage == \A k \in Keys : messages[k] = IF receipt[k] = "COMPLETED" THEN 1 ELSE 0

\* "An approved reply must leave byte-for-byte as approved": what was claimed
\* for delivery has a content the row had while it was APPROVED.
SentWasApproved == \A k \in Keys : receipt[k] # "none" => snapshot[k].body \in approved

=============================================================================
