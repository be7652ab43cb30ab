----------------------------- MODULE ToolActions -----------------------------
(***************************************************************************)
(* Governed AI tool calls (createToolExecutor): invoke records a pending   *)
(* action, approve executes it once, reject withdraws it.  The row of      *)
(* ai_bridge_actions is the receipt.  A local action runs inside the       *)
(* transaction that claims it; an external one is claimed, delivered       *)
(* outside any transaction, and then completed or failed.  A person is one *)
(* request to approve or reject; each of its statements is a step, its     *)
(* process may die before any of them, and the answer to a commit may be   *)
(* lost on the way back.                                                   *)
(***************************************************************************)
EXTENDS Naturals

CONSTANTS
  Local,     \* idempotency keys of calls to transaction-mode tools
  External,  \* idempotency keys of calls to external tools
  Inputs,    \* normalized inputs, as hashed with the tool
  Callers,   \* tool calls
  People,    \* requests to approve or reject
  OAuth      \* the people who act through an OAuth grant

ASSUME ToolsAssumption == Local \cap External = {} /\ OAuth \subseteq People

Keys == Local \cup External
Terminal == {"EXECUTED", "FAILED", "REJECTED", "EXPIRED"}
Statuses == {"absent", "PENDING_CONFIRMATION", "EXECUTING"} \cup Terminal
Answers == {"executed", "failed", "expired", "rejected"}

VARIABLES
  status, outcome, input,  \* the rows of ai_bridge_actions
  old,        \* actions past their expiresAt
  revoked,    \* people whose OAuth grant was revoked
  call,       \* locals of invoke
  person,     \* locals of approve and reject
  effects,    \* the tool's effect: rows written, or messages delivered
  inflight,   \* deliveries that timed out and may still take effect
  given,      \* history: actions answered to callers, with the caller's input
  told,       \* history: receipts people were told of
  abandoned   \* history: actions whose approver died or never learnt of its claim

receipts == <<status, outcome, input>>
world == <<old, revoked, effects, inflight>>
history == <<given, told, abandoned>>
vars == <<receipts, world, call, person, history>>

NoKey == "no key"
NoCall == [pc |-> "idle", key |-> NoKey, input |-> NoKey]
NoOne == [pc |-> "idle", key |-> NoKey, expects |-> "none", outcome |-> "none"]

TypeOK ==
  /\ status \in [Keys -> Statuses]
  /\ outcome \in [Keys -> {"none", "succeeded", "failed", "unknown"}]
  /\ input \in [Keys -> Inputs \cup {NoKey}]
  /\ old \subseteq Keys /\ revoked \subseteq OAuth
  /\ call \in [Callers -> [pc : {"idle", "create", "done"}, key : Keys \cup {NoKey},
                           input : Inputs \cup {NoKey}]]
  /\ person \in [People -> [pc : {"idle", "expire", "claim", "deliver", "complete", "fail", "reject"},
                            key : Keys \cup {NoKey},
                            expects : {"none", "PENDING_CONFIRMATION", "EXECUTING"},
                            outcome : {"none", "failed", "unknown"}]]
  /\ effects \in [Keys -> Nat] /\ inflight \in [Keys -> Nat]
  /\ given \subseteq Keys \X Inputs /\ told \subseteq Keys \X Answers
  /\ abandoned \subseteq Keys

Init ==
  /\ status = [k \in Keys |-> "absent"]
  /\ outcome = [k \in Keys |-> "none"]
  /\ input = [k \in Keys |-> NoKey]
  /\ old = {} /\ revoked = {} /\ given = {} /\ told = {} /\ abandoned = {}
  /\ call = [c \in Callers |-> NoCall]
  /\ person = [p \in People |-> NoOne]
  /\ effects = [k \in Keys |-> 0]
  /\ inflight = [k \in Keys |-> 0]

-----------------------------------------------------------------------------
\* invoke: validation, role, kill switch and scope may refuse (no state); a
\* key that is found answers with its action, or with a conflict.

\* Mutant: the loser of a race is answered without comparing the input.
AnswersAnyone(c) == given' = given \cup {<<call[c].key, call[c].input>>}

\* The stored action, if it is the same tool and input.
AnswersOwn(c) ==
  given' = IF input[call[c].key] = call[c].input
           THEN given \cup {<<call[c].key, call[c].input>>} ELSE given

CallRead(c, k, i) ==
  /\ call[c].pc = "idle"
  /\ \/ /\ status[k] = "absent"
        /\ call' = [call EXCEPT ![c] = [pc |-> "create", key |-> k, input |-> i]]
        /\ UNCHANGED given
     \/ /\ status[k] # "absent"
        /\ given' = IF input[k] = i THEN given \cup {<<k, i>>} ELSE given
        /\ call' = [call EXCEPT ![c] = [NoCall EXCEPT !.pc = "done"]]
  /\ UNCHANGED <<receipts, world, person, told, abandoned>>

\* The create, after the scope and the preview were read; the unique key
\* makes the loser of a race answer like a replay.
CallCreate(c) ==
  /\ call[c].pc = "create"
  /\ LET k == call[c].key IN
     \/ /\ status[k] = "absent"
        /\ status' = [status EXCEPT ![k] = "PENDING_CONFIRMATION"]
        /\ input' = [input EXCEPT ![k] = call[c].input]
        /\ given' = given \cup {<<k, call[c].input>>}
     \/ /\ status[k] # "absent"
        /\ AnswersOwn(c)
        /\ UNCHANGED <<status, input>>
  /\ call' = [call EXCEPT ![c] = [NoCall EXCEPT !.pc = "done"]]
  /\ UNCHANGED <<outcome, world, person, told, abandoned>>

-----------------------------------------------------------------------------
\* approve.

Ends(p) == person' = [person EXCEPT ![p] = NoOne]
Goes(p, pc, k, expects, out) ==
  person' = [person EXCEPT ![p] = [pc |-> pc, key |-> k, expects |-> expects, outcome |-> out]]
Tells(k, answer) == told' = told \cup {<<k, answer>>}
Authority(p) == p \notin revoked

\* One conditional transition; the loser is answered 409.
Transition(k, expected, s, out) ==
  /\ status[k] = expected
  /\ status' = [status EXCEPT ![k] = s]
  /\ outcome' = [outcome EXCEPT ![k] = out]
  /\ UNCHANGED input

\* load and the checks that follow it: an executed action is answered as such,
\* any other that is not pending is refused, the approver may not be allowed.
ApproveLoad(p, k) ==
  /\ person[p].pc = "idle" /\ Authority(p)
  /\ \/ /\ status[k] = "EXECUTED"
        /\ Tells(k, "executed")
        /\ UNCHANGED person
     \/ /\ status[k] = "PENDING_CONFIRMATION"
        /\ Goes(p, IF k \in old THEN "expire" ELSE "claim", k, "none", "none")
        /\ UNCHANGED told
  /\ UNCHANGED <<receipts, world, call, given, abandoned>>

ApproveExpire(p) ==
  /\ person[p].pc = "expire"
  /\ LET k == person[p].key IN
     \/ /\ Transition(k, "PENDING_CONFIRMATION", "EXPIRED", "none")
        /\ Tells(k, "expired")
     \/ /\ status[k] # "PENDING_CONFIRMATION"
        /\ UNCHANGED <<receipts, told>>
  /\ Ends(p)
  /\ UNCHANGED <<world, call, given, abandoned>>

\* Mutant: the claim does not compare the status.
ClaimableUnlessClosed(k) == status[k] \in {"PENDING_CONFIRMATION", "EXECUTING"}

\* The expiry it compares is with the time read before the transaction, when
\* ApproveLoad found the action unexpired.
Claimable(k) == status[k] = "PENDING_CONFIRMATION"

\* Claim lost, or the grant is gone: nothing is written.
ApproveRefused(p) ==
  /\ person[p].pc = "claim"
  /\ ~Authority(p) \/ ~Claimable(person[p].key)
  /\ Ends(p)
  /\ UNCHANGED <<receipts, world, call, history>>

\* The claim's transaction is rolled back: the tool threw or timed out, or its
\* target is gone.
ApproveRollback(p) ==
  /\ person[p].pc = "claim" /\ Authority(p) /\ Claimable(person[p].key)
  /\ Goes(p, "fail", person[p].key, "PENDING_CONFIRMATION", "failed")
  /\ UNCHANGED <<receipts, world, call, history>>

\* Claim, effect and EXECUTED commit together.  When the answer to the commit
\* is lost the approver takes it for a failure.
ApproveLocal(p) ==
  /\ person[p].pc = "claim" /\ person[p].key \in Local
  /\ Authority(p) /\ Claimable(person[p].key)
  /\ LET k == person[p].key IN
     /\ status' = [status EXCEPT ![k] = "EXECUTED"]
     /\ outcome' = [outcome EXCEPT ![k] = "succeeded"]
     /\ effects' = [effects EXCEPT ![k] = @ + 1]
     /\ \/ Tells(k, "executed") /\ Ends(p)
        \/ Goes(p, "fail", k, "PENDING_CONFIRMATION", "failed") /\ UNCHANGED told
  /\ UNCHANGED <<input, old, revoked, inflight, call, given, abandoned>>

\* The claim of an external action, committed before the delivery.
ApproveExternal(p) ==
  /\ person[p].pc = "claim" /\ person[p].key \in External
  /\ Authority(p) /\ Claimable(person[p].key)
  /\ LET k == person[p].key IN
     /\ status' = [status EXCEPT ![k] = "EXECUTING"]
     /\ \/ Goes(p, "deliver", k, "none", "none") /\ UNCHANGED abandoned
        \/ Goes(p, "fail", k, "PENDING_CONFIRMATION", "failed") /\ abandoned' = abandoned \cup {k}
  /\ UNCHANGED <<outcome, input, world, call, given, told>>

\* Mutant: a delivery that threw is taken for one that did not happen.
AttemptedFailed == "failed"

\* "Once an external delivery was attempted nobody knows whether it happened."
Attempted == "unknown"

\* Delivered and answered; delivered, or not, and an error; a timeout with the
\* delivery still under way; or a target the tool finds gone, which it says
\* before it delivers anything.
Deliver(p) ==
  /\ person[p].pc = "deliver"
  /\ LET k == person[p].key
         took == effects' = [effects EXCEPT ![k] = @ + 1]
         fails == Goes(p, "fail", k, "EXECUTING", Attempted)
     IN \/ took /\ Goes(p, "complete", k, "none", "none") /\ UNCHANGED inflight
        \/ took /\ fails /\ UNCHANGED inflight
        \/ fails /\ UNCHANGED <<effects, inflight>>
        \/ fails /\ inflight' = [inflight EXCEPT ![k] = @ + 1] /\ UNCHANGED effects
        \/ Goes(p, "fail", k, "EXECUTING", "failed") /\ UNCHANGED <<effects, inflight>>
  /\ UNCHANGED <<receipts, old, revoked, call, history>>

\* The write may fail, or be committed and its answer lost.
Complete(p) ==
  /\ person[p].pc = "complete"
  /\ LET k == person[p].key IN
     \/ /\ Transition(k, "EXECUTING", "EXECUTED", "succeeded")
        /\ \/ Tells(k, "executed") /\ Ends(p)
           \/ Goes(p, "fail", k, "EXECUTING", Attempted) /\ UNCHANGED told
     \/ /\ Goes(p, "fail", k, "EXECUTING", Attempted)
        /\ UNCHANGED <<receipts, told>>
  /\ UNCHANGED <<world, call, given, abandoned>>

\* Mutant: a failure is written only over a pending action.
MayFailPending(p) == status[person[p].key] = "PENDING_CONFIRMATION"

MayFail(p) == status[person[p].key] = person[p].expects

Fail(p) ==
  /\ person[p].pc = "fail"
  /\ LET k == person[p].key IN
     \/ /\ MayFail(p)
        /\ Transition(k, status[k], "FAILED", person[p].outcome)
        /\ Tells(k, "failed")
     \/ /\ ~MayFail(p)
        /\ UNCHANGED <<receipts, told>>
  /\ Ends(p)
  /\ UNCHANGED <<world, call, given, abandoned>>

-----------------------------------------------------------------------------
\* reject.

RejectLoad(p, k) ==
  /\ person[p].pc = "idle" /\ Authority(p)
  /\ status[k] = "PENDING_CONFIRMATION"
  /\ Goes(p, "reject", k, "none", "none")
  /\ UNCHANGED <<receipts, world, call, history>>

MayReject(k) == status[k] = "PENDING_CONFIRMATION"

Reject(p) ==
  /\ person[p].pc = "reject"
  /\ LET k == person[p].key IN
     \/ /\ Authority(p) /\ MayReject(k)
        /\ Transition(k, status[k], "REJECTED", "none")
        /\ Tells(k, "rejected")
     \/ /\ ~Authority(p) \/ ~MayReject(k)
        /\ UNCHANGED <<receipts, told>>
  /\ Ends(p)
  /\ UNCHANGED <<world, call, given, abandoned>>

-----------------------------------------------------------------------------
\* The environment.

TimePasses(k) ==
  /\ status[k] = "PENDING_CONFIRMATION" /\ k \notin old
  /\ old' = old \cup {k}
  /\ UNCHANGED <<receipts, revoked, effects, inflight, call, person, history>>

Revoke(p) ==
  /\ p \notin revoked
  /\ revoked' = revoked \cup {p}
  /\ UNCHANGED <<receipts, old, effects, inflight, call, person, history>>

LateDelivery(k) ==
  /\ inflight[k] > 0
  /\ inflight' = [inflight EXCEPT ![k] = @ - 1]
  /\ effects' = [effects EXCEPT ![k] = @ + 1]
  /\ UNCHANGED <<receipts, old, revoked, call, person, history>>

\* A death in the middle of a delivery may leave it under way.
Dies(p) ==
  /\ person[p].pc # "idle"
  /\ Ends(p)
  /\ \/ /\ person[p].pc = "deliver"
        /\ inflight' = [inflight EXCEPT ![person[p].key] = @ + 1]
     \/ UNCHANGED inflight
  /\ abandoned' = abandoned \cup {person[p].key}
  /\ UNCHANGED <<receipts, old, revoked, effects, call, given, told>>

-----------------------------------------------------------------------------
Proceeds(p) ==
  \/ ApproveExpire(p) \/ ApproveRefused(p) \/ ApproveRollback(p)
  \/ ApproveLocal(p) \/ ApproveExternal(p) \/ Deliver(p) \/ Complete(p)
  \/ Fail(p) \/ Reject(p)

Next ==
  \/ \E c \in Callers :
       CallCreate(c) \/ (\E k \in Keys, i \in Inputs : CallRead(c, k, i))
  \/ \E p \in People :
       Proceeds(p) \/ Dies(p) \/ (\E k \in Keys : ApproveLoad(p, k) \/ RejectLoad(p, k))
  \/ \E p \in OAuth : Revoke(p)
  \/ \E k \in Keys : TimePasses(k) \/ LateDelivery(k)

Spec == Init /\ [][Next]_vars

\* A request that is not killed runs to its end: deliveries have a timeout.
FairSpec == Spec /\ \A p \in People : WF_vars(Proceeds(p))

-----------------------------------------------------------------------------
\* "Approve a pending action and execute it once": two approvers, a double
\* click, a retry after an error or a lost answer have one effect at most,
\* counting the deliveries that may still arrive.
ExecutedOnce == \A k \in Keys : effects[k] + inflight[k] <= 1

AnswerOf == [executed |-> "EXECUTED", failed |-> "FAILED", expired |-> "EXPIRED",
             rejected |-> "REJECTED"]

\* "never a 500 or a receipt that did not happen": EXECUTED has its effect;
\* FAILED with outcome "failed", REJECTED, EXPIRED and pending actions have none
\* and none under way; and what a person was told of an action is what its
\* receipt says from then on.
ReceiptTrue ==
  /\ \A k \in Keys :
       /\ status[k] = "EXECUTED" => effects[k] = 1
       /\ \/ status[k] \in {"absent", "PENDING_CONFIRMATION", "REJECTED", "EXPIRED"}
          \/ status[k] = "FAILED" /\ outcome[k] = "failed"
          => effects[k] = 0 /\ inflight[k] = 0
  /\ \A t \in told : status[t[1]] = AnswerOf[t[2]]

\* A caller is never answered with an action prepared for another input.
OwnAction == \A g \in given : input[g[1]] = g[2]

\* A claimed action gets its receipt, unless its process died or never learnt
\* that its claim was committed ("treat that like unknown").
ClaimedSettles ==
  \A k \in External : status[k] = "EXECUTING" ~> status[k] \in Terminal \/ k \in abandoned

=============================================================================
