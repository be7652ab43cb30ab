-------------------------- MODULE ToolActionsProofs --------------------------
(***************************************************************************)
(* Proofs about governed AI tool calls, for any number of actions, callers *)
(* and people who approve or reject them.                                  *)
(***************************************************************************)
EXTENDS ToolActions, TLAPS

-----------------------------------------------------------------------------
\* Requests in progress have an action, and a caller's has an input.
LocalsInv ==
  /\ \A p \in People : person[p].pc # "idle" => person[p].key \in Keys
  /\ \A c \in Callers : call[c].pc = "create" => call[c].key \in Keys /\ call[c].input \in Inputs

\* The request that knows it has claimed an external action.
Owns(p) ==
  \/ person[p].pc \in {"deliver", "complete"}
  \/ person[p].pc = "fail" /\ person[p].expects = "EXECUTING"

\* An action has one such request, which finds it EXECUTING until it is done,
\* or EXECUTED when the answer to its own write was lost; what the request
\* knows of the delivery is so, and a failure it is about to record is no
\* stronger than that.
ClaimInv ==
  /\ \A p, q \in People : Owns(p) /\ Owns(q) /\ person[p].key = person[q].key => p = q
  /\ \A p \in People :
       LET k == person[p].key IN
       /\ Owns(p) => status[k] = "EXECUTING" \/ (status[k] = "EXECUTED" /\ person[p].pc = "fail")
       /\ person[p].pc = "deliver" => effects[k] = 0 /\ inflight[k] = 0
       /\ person[p].pc = "complete" => effects[k] = 1 /\ inflight[k] = 0
       /\ person[p].pc = "fail" =>
            \/ person[p].expects = "PENDING_CONFIRMATION" /\ person[p].outcome = "failed"
            \/ person[p].expects = "EXECUTING" /\ person[p].outcome = "unknown"
            \/ /\ person[p].expects = "EXECUTING" /\ person[p].outcome = "failed"
               /\ effects[k] = 0 /\ inflight[k] = 0

\* What the receipt of an action says of its effect and of deliveries under way.
EffectInv ==
  \A k \in Keys :
    /\ status[k] \in {"absent", "PENDING_CONFIRMATION", "REJECTED", "EXPIRED"} =>
         effects[k] = 0 /\ inflight[k] = 0
    /\ status[k] = "FAILED" /\ outcome[k] = "failed" => effects[k] = 0 /\ inflight[k] = 0
    /\ status[k] = "EXECUTED" => effects[k] = 1 /\ inflight[k] = 0
    /\ effects[k] + inflight[k] <= 1

\* What people and callers were told stays true.
ToldInv ==
  /\ \A t \in told : status[t[1]] = AnswerOf[t[2]]
  /\ \A g \in given : status[g[1]] # "absent" /\ input[g[1]] = g[2]

IInv == TypeOK /\ LocalsInv /\ ClaimInv /\ EffectInv /\ ToldInv

-----------------------------------------------------------------------------
\* How a step changes the locals of its request.

Locals == [pc : {"idle", "expire", "claim", "deliver", "complete", "fail", "reject"},
           key : Keys \cup {NoKey},
           expects : {"none", "PENDING_CONFIRMATION", "EXECUTING"},
           outcome : {"none", "failed", "unknown"}]

Becomes(p, l) ==
  /\ person' \in [People -> Locals]
  /\ person'[p] = l
  /\ \A q \in People : q # p => person'[q] = person[q]

LEMMA GoesBecomes ==
  ASSUME TypeOK, NEW p \in People, NEW k \in Keys,
         NEW pc \in {"expire", "claim", "deliver", "complete", "fail", "reject"},
         NEW expects \in {"none", "PENDING_CONFIRMATION", "EXECUTING"},
         NEW out \in {"none", "failed", "unknown"}, Goes(p, pc, k, expects, out)
  PROVE  Becomes(p, [pc |-> pc, key |-> k, expects |-> expects, outcome |-> out])
  BY DEF TypeOK, Goes, Becomes, Locals

LEMMA EndsBecomes ==
  ASSUME TypeOK, NEW p \in People, Ends(p)
  PROVE  Becomes(p, NoOne)
  BY DEF TypeOK, Ends, Becomes, Locals, NoOne

\* Receipts are final, an action keeps its input, and a person is only told what
\* the receipt then says.
LEMMA ToldStep ==
  ASSUME IInv,
         \A k \in Keys :
           /\ status[k] \in Terminal => status'[k] = status[k]
           /\ status[k] # "absent" => status'[k] # "absent" /\ input'[k] = input[k],
         \A t \in told' \ told : status'[t[1]] = AnswerOf[t[2]],
         UNCHANGED given
  PROVE  ToldInv'
<1>1. \A t \in told : t[1] \in Keys /\ AnswerOf[t[2]] \in Terminal
  BY DEF IInv, TypeOK, Answers, AnswerOf, Terminal
<1>2. \A g \in given : g[1] \in Keys
  BY DEF IInv, TypeOK
<1> QED
  BY <1>1, <1>2 DEF IInv, ToldInv

LEMMA IInvInit == Init => IInv
  BY DEF Init, IInv, TypeOK, LocalsInv, ClaimInv, EffectInv, ToldInv, Owns, NoCall, NoOne,
         Statuses, Terminal

LEMMA CallStep ==
  ASSUME IInv, NEW c \in Callers,
         CallCreate(c) \/ \E k \in Keys, i \in Inputs : CallRead(c, k, i)
  PROVE  IInv'
<1> USE DEF IInv
<1>1. ASSUME NEW k \in Keys, NEW i \in Inputs, CallRead(c, k, i) PROVE IInv'
  <2> USE <1>1 DEF CallRead, receipts, world, NoCall
  <2>1. TypeOK'
    BY DEF TypeOK
  <2>2. LocalsInv'
    BY DEF LocalsInv, TypeOK
  <2>3. ClaimInv' /\ EffectInv'
    BY DEF ClaimInv, EffectInv, Owns
  <2>4. ToldInv'
    BY DEF ToldInv
  <2> QED
    BY <2>1, <2>2, <2>3, <2>4
<1>2. ASSUME CallCreate(c) PROVE IInv'
  <2>0. call[c].key \in Keys /\ call[c].input \in Inputs
    BY <1>2 DEF CallCreate, LocalsInv
  <2> USE <1>2, <2>0 DEF CallCreate, AnswersOwn, world, NoCall
  <2>1. TypeOK'
    BY DEF TypeOK, Statuses
  <2>2. LocalsInv'
    BY DEF LocalsInv, TypeOK
  <2>3. ClaimInv'
    BY DEF ClaimInv, Owns, LocalsInv, TypeOK
  <2>4. EffectInv'
    BY DEF EffectInv, TypeOK
  <2>5. ToldInv'
    <3>1. \A t \in told : t[1] \in Keys /\ AnswerOf[t[2]] # "absent"
      BY DEF TypeOK, Answers, AnswerOf
    <3>2. \A g \in given : g[1] \in Keys
      BY DEF TypeOK
    <3> QED
      BY <3>1, <3>2 DEF ToldInv, TypeOK
  <2> QED
    BY <2>1, <2>2, <2>3, <2>4, <2>5
<1> QED
  BY <1>1, <1>2

\* A request that moves on without having claimed an action, and without writing
\* to a row.
LEMMA QuietStep ==
  ASSUME IInv, NEW p \in People, NEW l \in Locals, Becomes(p, l),
         l.pc \in {"idle", "expire", "claim", "reject", "fail"},
         l.pc # "idle" => l.key \in Keys,
         l.pc = "fail" => l.expects = "PENDING_CONFIRMATION" /\ l.outcome = "failed",
         \A t \in told' \ told : status[t[1]] = AnswerOf[t[2]],
         told' \subseteq Keys \X Answers, abandoned' \subseteq Keys,
         UNCHANGED <<receipts, world, call, given>>
  PROVE  IInv'
<1> USE DEF IInv, Becomes, receipts, world
<1>1. TypeOK'
  BY DEF TypeOK, Locals
<1>2. LocalsInv'
  BY DEF LocalsInv
<1>3. ClaimInv'
  <2>1. \A q \in People : Owns(q)' => Owns(q) /\ person'[q] = person[q]
    BY DEF Owns
  <2> QED
    BY <2>1 DEF ClaimInv
<1>4. EffectInv'
  BY DEF EffectInv
<1>5. ToldInv'
  BY ToldStep
<1> QED
  BY <1>1, <1>2, <1>3, <1>4, <1>5

\* A request that ends by writing the receipt of an action that is pending, or
\* that it has claimed.
LEMMA CloseStep ==
  ASSUME IInv, NEW p \in People, NEW k \in Keys, person[p].key = k, Becomes(p, NoOne),
         status[k] = "PENDING_CONFIRMATION" \/ (status[k] = "EXECUTING" /\ Owns(p)),
         NEW s \in Terminal, NEW out \in {"none", "succeeded", "failed", "unknown"},
         Transition(k, status[k], s, out),
         s = "EXECUTED" => effects[k] = 1 /\ inflight[k] = 0,
         s \in {"REJECTED", "EXPIRED"} \/ (s = "FAILED" /\ out = "failed") =>
           effects[k] = 0 /\ inflight[k] = 0,
         NEW a \in Answers, AnswerOf[a] = s, Tells(k, a),
         UNCHANGED <<world, call, given, abandoned>>
  PROVE  IInv'
<1>0. \A j \in Keys :
        /\ status'[j] = IF j = k THEN s ELSE status[j]
        /\ outcome'[j] = IF j = k THEN out ELSE outcome[j]
  BY DEF IInv, TypeOK, Transition
<1> USE DEF IInv, Becomes, world
<1>1. TypeOK'
  BY DEF TypeOK, Locals, Statuses, Transition, Tells
<1>2. LocalsInv'
  BY DEF LocalsInv, NoOne
<1>3. ClaimInv'
  <2>1. \A q \in People : q # p /\ Owns(q) => person[q].key # k
    BY DEF ClaimInv
  <2>2. \A q \in People : Owns(q)' => q # p /\ Owns(q) /\ person'[q] = person[q]
    BY DEF Owns, NoOne
  <2>3. \A q \in People : Owns(q) => person[q].key \in Keys
    BY DEF LocalsInv, Owns
  <2> QED
    BY <1>0, <2>1, <2>2, <2>3 DEF ClaimInv, NoOne
<1>4. EffectInv'
  BY <1>0 DEF EffectInv, Terminal
<1>5. ToldInv'
  <2>1. \A t \in told' \ told : t = <<k, a>>
    BY DEF Tells
  <2>2. \A j \in Keys :
          /\ status[j] \in Terminal => status'[j] = status[j]
          /\ status[j] # "absent" => status'[j] # "absent" /\ input'[j] = input[j]
    BY <1>0 DEF Terminal, Transition
  <2> QED
    BY <1>0, <2>1, <2>2, ToldStep
<1> QED
  BY <1>1, <1>2, <1>3, <1>4, <1>5

\* Loads, refusals and rollbacks.
LEMMA QuietSteps ==
  ASSUME IInv, NEW p \in People,
         \/ ApproveRefused(p) \/ ApproveRollback(p)
         \/ \E k \in Keys : ApproveLoad(p, k) \/ RejectLoad(p, k)
  PROVE  IInv'
<1>0. /\ TypeOK /\ (person[p].pc # "idle" => person[p].key \in Keys) /\ NoOne \in Locals
      /\ told \subseteq Keys \X Answers /\ abandoned \subseteq Keys
      /\ \A k \in Keys : \A pc \in {"expire", "claim", "reject"} :
           [pc |-> pc, key |-> k, expects |-> "none", outcome |-> "none"] \in Locals
      /\ \A k \in Keys :
           [pc |-> "fail", key |-> k, expects |-> "PENDING_CONFIRMATION", outcome |-> "failed"] \in Locals
  BY DEF IInv, TypeOK, LocalsInv, Locals, NoOne
<1>1. CASE ApproveRefused(p)
  <2>1. Becomes(p, NoOne)
    BY <1>0, <1>1, EndsBecomes DEF ApproveRefused
  <2> QED
    BY <1>0, <1>1, <2>1, QuietStep DEF ApproveRefused, history, NoOne
<1>2. CASE ApproveRollback(p)
  <2> DEFINE l == [pc |-> "fail", key |-> person[p].key, expects |-> "PENDING_CONFIRMATION",
                   outcome |-> "failed"]
  <2>1. Becomes(p, l) /\ l \in Locals /\ l.key \in Keys
    BY <1>0, <1>2, GoesBecomes DEF ApproveRollback
  <2>2. l.pc = "fail" /\ l.expects = "PENDING_CONFIRMATION" /\ l.outcome = "failed"
    OBVIOUS
  <2> HIDE DEF l
  <2> QED
    BY <1>0, <1>2, <2>1, <2>2, QuietStep DEF ApproveRollback, history
<1>3. ASSUME NEW k \in Keys, RejectLoad(p, k) PROVE IInv'
  <2> DEFINE l == [pc |-> "reject", key |-> k, expects |-> "none", outcome |-> "none"]
  <2>1. Becomes(p, l) /\ l \in Locals /\ l.key \in Keys /\ l.pc = "reject"
    BY <1>0, <1>3, GoesBecomes DEF RejectLoad
  <2> HIDE DEF l
  <2> QED
    BY <1>0, <1>3, <2>1, QuietStep DEF RejectLoad, history
<1>4. ASSUME NEW k \in Keys, ApproveLoad(p, k) PROVE IInv'
  <2>1. CASE status[k] = "EXECUTED" /\ Tells(k, "executed") /\ UNCHANGED person
    <3> USE <1>4, <2>1 DEF ApproveLoad, receipts, world, IInv
    <3>1. TypeOK'
      BY DEF TypeOK, Tells, Answers
    <3>2. LocalsInv' /\ ClaimInv' /\ EffectInv'
      BY DEF LocalsInv, ClaimInv, EffectInv, Owns
    <3>3. ToldInv'
      <4>1. \A t \in told' \ told : t = <<k, "executed">>
        BY DEF Tells
      <4>2. \A t \in told' \ told : status[t[1]] = AnswerOf[t[2]]
        BY <4>1 DEF AnswerOf
      <4> QED
        BY <4>2, ToldStep
    <3> QED
      BY <3>1, <3>2, <3>3
  <2>2. CASE /\ Goes(p, IF k \in old THEN "expire" ELSE "claim", k, "none", "none")
             /\ UNCHANGED told
    <3>1. PICK pc \in {"expire", "claim"} : Goes(p, pc, k, "none", "none")
      BY <2>2
    <3> DEFINE l == [pc |-> pc, key |-> k, expects |-> "none", outcome |-> "none"]
    <3>2. Becomes(p, l) /\ l \in Locals /\ l.key \in Keys /\ l.pc \in {"expire", "claim"}
      BY <1>0, <3>1, GoesBecomes
    <3> HIDE DEF l
    <3> QED
      BY <1>0, <1>4, <2>2, <3>2, QuietStep DEF ApproveLoad
  <2> QED
    BY <1>4, <2>1, <2>2 DEF ApproveLoad
<1> QED
  BY <1>1, <1>2, <1>3, <1>4

\* Expiry, rejection and failure.
LEMMA CloseSteps ==
  ASSUME IInv, NEW p \in People,
         ApproveExpire(p) \/ Reject(p) \/ Fail(p)
  PROVE  IInv'
<1> DEFINE k == person[p].key
<1>0. TypeOK /\ k \in Keys /\ Becomes(p, NoOne)
  BY EndsBecomes DEF IInv, LocalsInv, ApproveExpire, Reject, Fail
<1>1. status[k] = "PENDING_CONFIRMATION" => effects[k] = 0 /\ inflight[k] = 0
  BY <1>0 DEF IInv, EffectInv
<1>2. CASE UNCHANGED <<receipts, told, abandoned>>
  <2>1. told \subseteq Keys \X Answers /\ abandoned \subseteq Keys /\ NoOne \in Locals
    BY DEF IInv, TypeOK, NoOne, Locals
  <2> QED
    BY <1>0, <1>2, <2>1, QuietStep DEF ApproveExpire, Reject, Fail, NoOne
<1>3. CASE ApproveExpire(p) /\ Transition(k, "PENDING_CONFIRMATION", "EXPIRED", "none")
           /\ Tells(k, "expired")
  BY <1>0, <1>1, <1>3, CloseStep DEF ApproveExpire, Transition, Terminal, Answers, AnswerOf
<1>4. CASE Reject(p) /\ MayReject(k) /\ Transition(k, status[k], "REJECTED", "none")
           /\ Tells(k, "rejected")
  BY <1>0, <1>1, <1>4, CloseStep DEF Reject, MayReject, Terminal, Answers, AnswerOf
<1>5. CASE Fail(p) /\ MayFail(p) /\ Transition(k, status[k], "FAILED", person[p].outcome)
           /\ Tells(k, "failed")
  <2>1. \/ status[k] = "PENDING_CONFIRMATION" /\ person[p].outcome = "failed"
        \/ status[k] = "EXECUTING" /\ Owns(p) /\ person[p].outcome = "unknown"
        \/ /\ status[k] = "EXECUTING" /\ Owns(p) /\ person[p].outcome = "failed"
           /\ effects[k] = 0 /\ inflight[k] = 0
    BY <1>5 DEF Fail, MayFail, IInv, ClaimInv, Owns
  <2> QED
    BY <1>0, <1>1, <1>5, <2>1, CloseStep DEF Fail, Terminal, Answers, AnswerOf
<1> QED
  BY <1>2, <1>3, <1>4, <1>5 DEF ApproveExpire, Reject, Fail

\* One effect at most of action k, had or under way; the others are as they were.
Attempts(k) ==
  /\ effects' \in [Keys -> Nat] /\ inflight' \in [Keys -> Nat]
  /\ effects'[k] + inflight'[k] <= 1
  /\ \A j \in Keys : j # k => effects'[j] = effects[j] /\ inflight'[j] = inflight[j]

\* The request that claimed an external action attempts it, or dies.
LEMMA OwnedStep ==
  ASSUME IInv, NEW p \in People, NEW k \in Keys, person[p].key = k, Owns(p),
         status[k] = "EXECUTING", Attempts(k),
         NEW l \in Locals, Becomes(p, l),
         \/ l.pc = "idle"
         \/ l.pc = "complete" /\ l.key = k /\ effects'[k] = 1 /\ inflight'[k] = 0
         \/ l.pc = "fail" /\ l.key = k /\ l.expects = "EXECUTING" /\ l.outcome = "unknown"
         \/ /\ l.pc = "fail" /\ l.key = k /\ l.expects = "EXECUTING" /\ l.outcome = "failed"
            /\ effects'[k] = 0 /\ inflight'[k] = 0,
         abandoned' \subseteq Keys,
         UNCHANGED <<receipts, old, revoked, call, given, told>>
  PROVE  IInv'
<1> USE DEF IInv, Becomes, receipts, Attempts
<1>1. TypeOK'
  BY DEF TypeOK, Locals
<1>2. LocalsInv'
  BY DEF LocalsInv
<1>3. ClaimInv'
  <2>1. \A q \in People : q # p /\ Owns(q) => person[q].key \in Keys \ {k}
    BY DEF ClaimInv, LocalsInv, Owns
  <2>2. \A q \in People : q # p => (Owns(q)' <=> Owns(q)) /\ person'[q] = person[q]
    BY DEF Owns
  <2>3. Owns(p)' => person'[p].key = k
    BY DEF Owns
  <2>4. \A q, r \in People : Owns(q)' /\ Owns(r)' /\ person'[q].key = person'[r].key => q = r
    BY <2>1, <2>2, <2>3 DEF ClaimInv
  <2>5. ASSUME NEW q \in People, q # p
        PROVE  LET j == person'[q].key IN
               /\ Owns(q)' => \/ status'[j] = "EXECUTING"
                              \/ status'[j] = "EXECUTED" /\ person'[q].pc = "fail"
               /\ person'[q].pc = "deliver" => effects'[j] = 0 /\ inflight'[j] = 0
               /\ person'[q].pc = "complete" => effects'[j] = 1 /\ inflight'[j] = 0
               /\ person'[q].pc = "fail" =>
                    \/ person'[q].expects = "PENDING_CONFIRMATION" /\ person'[q].outcome = "failed"
                    \/ person'[q].expects = "EXECUTING" /\ person'[q].outcome = "unknown"
                    \/ /\ person'[q].expects = "EXECUTING" /\ person'[q].outcome = "failed"
                       /\ effects'[j] = 0 /\ inflight'[j] = 0
    BY <2>1, <2>2, <2>5 DEF ClaimInv, Owns
  <2> QED
    BY <2>3, <2>4, <2>5 DEF ClaimInv
<1>4. EffectInv'
  BY DEF EffectInv
<1>5. ToldInv'
  BY ToldStep
<1> QED
  BY <1>1, <1>2, <1>3, <1>4, <1>5

LEMMA DeliverStep ==
  ASSUME IInv, NEW p \in People, Deliver(p)
  PROVE  IInv'
<1> DEFINE k == person[p].key
           done == [pc |-> "complete", key |-> k, expects |-> "none", outcome |-> "none"]
           lost == [pc |-> "fail", key |-> k, expects |-> "EXECUTING", outcome |-> "unknown"]
           gone == [pc |-> "fail", key |-> k, expects |-> "EXECUTING", outcome |-> "failed"]
<1>0. /\ TypeOK /\ k \in Keys /\ Owns(p) /\ status[k] = "EXECUTING"
      /\ effects[k] = 0 /\ inflight[k] = 0 /\ gone \in Locals
      /\ effects \in [Keys -> Nat] /\ inflight \in [Keys -> Nat]
      /\ abandoned \subseteq Keys /\ done \in Locals /\ lost \in Locals
  BY DEF Deliver, IInv, TypeOK, LocalsInv, ClaimInv, Owns, Locals
<1>1. /\ Goes(p, "complete", k, "none", "none") => Becomes(p, done)
      /\ Goes(p, "fail", k, "EXECUTING", Attempted) => Becomes(p, lost)
      /\ Goes(p, "fail", k, "EXECUTING", "failed") => Becomes(p, gone)
  BY <1>0, GoesBecomes DEF Attempted
<1>2. /\ Attempts(k)
      /\ \/ Becomes(p, done) /\ effects'[k] = 1 /\ inflight'[k] = 0
         \/ Becomes(p, lost)
         \/ Becomes(p, gone) /\ effects'[k] = 0 /\ inflight'[k] = 0
  BY <1>0, <1>1 DEF Deliver, Attempts
<1>3. /\ done.pc = "complete" /\ done.key = k
      /\ lost.pc = "fail" /\ lost.key = k /\ lost.expects = "EXECUTING" /\ lost.outcome = "unknown"
      /\ gone.pc = "fail" /\ gone.key = k /\ gone.expects = "EXECUTING" /\ gone.outcome = "failed"
  OBVIOUS
<1>4. UNCHANGED <<receipts, old, revoked, call, given, told, abandoned>>
  BY DEF Deliver, history
<1> HIDE DEF done, lost, gone
<1> QED
  BY <1>0, <1>2, <1>3, <1>4, OwnedStep

LEMMA CompleteStep ==
  ASSUME IInv, NEW p \in People, Complete(p)
  PROVE  IInv'
<1> DEFINE k == person[p].key
           lost == [pc |-> "fail", key |-> k, expects |-> "EXECUTING", outcome |-> "unknown"]
<1>0. /\ TypeOK /\ k \in Keys /\ Owns(p) /\ status[k] = "EXECUTING"
      /\ effects[k] = 1 /\ inflight[k] = 0
      /\ effects \in [Keys -> Nat] /\ inflight \in [Keys -> Nat]
      /\ abandoned \subseteq Keys /\ lost \in Locals
  BY DEF Complete, IInv, TypeOK, LocalsInv, ClaimInv, Owns, Locals
<1>1. CASE /\ Transition(k, "EXECUTING", "EXECUTED", "succeeded")
           /\ Tells(k, "executed")
           /\ Ends(p)
  <2>1. Becomes(p, NoOne)
    BY <1>0, <1>1, EndsBecomes
  <2> QED
    BY <1>0, <1>1, <2>1, CloseStep DEF Complete, Terminal, Answers, AnswerOf
<1>2. CASE Goes(p, "fail", k, "EXECUTING", Attempted) /\ UNCHANGED <<receipts, told>>
  <2>1. Becomes(p, lost)
    BY <1>0, <1>2, GoesBecomes DEF Attempted
  <2>2. Attempts(k)
    BY <1>0 DEF Complete, world, Attempts
  <2>3. lost.pc = "fail" /\ lost.key = k /\ lost.expects = "EXECUTING" /\ lost.outcome = "unknown"
    OBVIOUS
  <2> HIDE DEF lost
  <2> QED
    BY <1>0, <1>2, <2>1, <2>2, <2>3, OwnedStep DEF Complete, world
<1>3. CASE /\ Transition(k, "EXECUTING", "EXECUTED", "succeeded")
           /\ Goes(p, "fail", k, "EXECUTING", Attempted)
           /\ UNCHANGED told
  <2>1. Becomes(p, lost)
    BY <1>0, <1>3, GoesBecomes DEF Attempted
  <2>2. \A j \in Keys : /\ status'[j] = IF j = k THEN "EXECUTED" ELSE status[j]
                        /\ outcome'[j] = IF j = k THEN "succeeded" ELSE outcome[j]
    BY <1>0, <1>3 DEF Transition, TypeOK
  <2>3. lost.pc = "fail" /\ lost.key = k /\ lost.expects = "EXECUTING" /\ lost.outcome = "unknown"
    OBVIOUS
  <2> HIDE DEF lost
  <2> USE <1>0, <1>3, <2>1, <2>2, <2>3 DEF IInv, Becomes, Complete, world
  <2>4. TypeOK'
    BY DEF TypeOK, Locals, Statuses, Terminal, Transition
  <2>5. LocalsInv'
    BY DEF LocalsInv
  <2>6. ClaimInv'
    <3>1. \A q \in People : q # p /\ Owns(q) => person[q].key \in Keys \ {k}
      BY DEF ClaimInv, LocalsInv, Owns
    <3>2. \A q \in People : q # p => (Owns(q)' <=> Owns(q)) /\ person'[q] = person[q]
      BY DEF Owns
    <3>3. Owns(p)' => person'[p].key = k
      BY DEF Owns
    <3>4. \A q, r \in People : Owns(q)' /\ Owns(r)' /\ person'[q].key = person'[r].key => q = r
      BY <3>1, <3>2, <3>3 DEF ClaimInv
    <3> QED
      BY <3>1, <3>2, <3>4 DEF ClaimInv
  <2>7. EffectInv'
    BY DEF EffectInv
  <2>8. ToldInv'
    BY ToldStep DEF Terminal, Transition
  <2> QED
    BY <2>4, <2>5, <2>6, <2>7, <2>8
<1> QED
  BY <1>1, <1>2, <1>3 DEF Complete

LEMMA DiesStep ==
  ASSUME IInv, NEW p \in People, Dies(p)
  PROVE  IInv'
<1> DEFINE k == person[p].key
<1>0. /\ TypeOK /\ k \in Keys /\ Becomes(p, NoOne) /\ abandoned' \subseteq Keys
      /\ told \subseteq Keys \X Answers /\ NoOne \in Locals /\ NoOne.pc = "idle"
      /\ effects \in [Keys -> Nat] /\ inflight \in [Keys -> Nat]
  BY EndsBecomes DEF Dies, IInv, LocalsInv, TypeOK, NoOne, Locals
<1>1. CASE person[p].pc = "deliver" /\ inflight' = [inflight EXCEPT ![k] = @ + 1]
  <2>1. Owns(p) /\ status[k] = "EXECUTING" /\ effects[k] = 0 /\ inflight[k] = 0
    BY <1>1 DEF IInv, ClaimInv, Owns
  <2>2. Attempts(k)
    BY <1>0, <1>1, <2>1 DEF Dies, Attempts
  <2> QED
    BY <1>0, <2>1, <2>2, OwnedStep DEF Dies
<1>2. CASE UNCHANGED inflight
  BY <1>0, <1>2, QuietStep DEF Dies, world
<1> QED
  BY <1>1, <1>2 DEF Dies

LEMMA ApproveLocalStep ==
  ASSUME IInv, NEW p \in People, ApproveLocal(p)
  PROVE  IInv'
<1> DEFINE k == person[p].key
<1>0. /\ TypeOK /\ k \in Keys /\ status[k] = "PENDING_CONFIRMATION"
      /\ effects[k] = 0 /\ inflight[k] = 0
  BY DEF ApproveLocal, Claimable, IInv, LocalsInv, EffectInv
<1>1. /\ \A j \in Keys : /\ status'[j] = IF j = k THEN "EXECUTED" ELSE status[j]
                         /\ effects'[j] = IF j = k THEN 1 ELSE effects[j]
      /\ \A j \in Keys : j # k => outcome'[j] = outcome[j]
  BY <1>0 DEF ApproveLocal, TypeOK
<1>2. PICK l \in Locals :
        /\ Becomes(p, l) /\ l.pc \in {"idle", "fail"}
        /\ l.pc = "fail" => l.key = k /\ l.expects = "PENDING_CONFIRMATION" /\ l.outcome = "failed"
  <2>1. CASE Ends(p)
    <3>1. Becomes(p, NoOne) /\ NoOne \in Locals
      BY <1>0, <2>1, EndsBecomes DEF NoOne, Locals
    <3> QED
      BY <3>1 DEF NoOne
  <2>2. CASE Goes(p, "fail", k, "PENDING_CONFIRMATION", "failed")
    <3> DEFINE l == [pc |-> "fail", key |-> k, expects |-> "PENDING_CONFIRMATION", outcome |-> "failed"]
    <3>1. Becomes(p, l) /\ l \in Locals
      BY <1>0, <2>2, GoesBecomes DEF Locals
    <3> QED
      BY <3>1
  <2> QED
    BY <2>1, <2>2 DEF ApproveLocal
<1> USE <1>0, <1>1, <1>2 DEF IInv, Becomes
<1>3. TypeOK'
  BY DEF TypeOK, Locals, Statuses, Terminal, ApproveLocal, Tells, Answers
<1>4. LocalsInv'
  BY DEF LocalsInv, ApproveLocal
<1>5. ClaimInv'
  <2>1. \A q \in People : Owns(q)' => q # p /\ Owns(q) /\ person'[q] = person[q]
    BY DEF Owns
  <2>2. \A q \in People : Owns(q) => person[q].key \in Keys \ {k}
    BY DEF LocalsInv, ClaimInv, Owns
  <2> QED
    BY <2>1, <2>2 DEF ClaimInv, ApproveLocal, Owns
<1>6. EffectInv'
  BY DEF EffectInv, ApproveLocal
<1>7. ToldInv'
  <2>1. \A t \in told' \ told : t = <<k, "executed">>
    BY DEF ApproveLocal, Tells
  <2>2. \A t \in told' \ told : status'[t[1]] = AnswerOf[t[2]]
    BY <2>1 DEF AnswerOf
  <2>3. \A j \in Keys :
          /\ status[j] \in Terminal => status'[j] = status[j]
          /\ status[j] # "absent" => status'[j] # "absent" /\ input'[j] = input[j]
    BY DEF Terminal, ApproveLocal
  <2> QED
    BY <2>2, <2>3, ToldStep DEF ApproveLocal
<1> QED
  BY <1>3, <1>4, <1>5, <1>6, <1>7

LEMMA ApproveExternalStep ==
  ASSUME IInv, NEW p \in People, ApproveExternal(p)
  PROVE  IInv'
<1> DEFINE k == person[p].key
<1>0. /\ TypeOK /\ k \in Keys /\ status[k] = "PENDING_CONFIRMATION"
      /\ effects[k] = 0 /\ inflight[k] = 0
  BY DEF ApproveExternal, Claimable, IInv, LocalsInv, EffectInv
<1>1. \A j \in Keys : status'[j] = IF j = k THEN "EXECUTING" ELSE status[j]
  BY <1>0 DEF ApproveExternal, TypeOK
<1>2. PICK l \in Locals :
        /\ Becomes(p, l) /\ l.key = k
        /\ \/ l.pc = "deliver"
           \/ l.pc = "fail" /\ l.expects = "PENDING_CONFIRMATION" /\ l.outcome = "failed"
  <2>1. CASE Goes(p, "deliver", k, "none", "none")
    <3> DEFINE l == [pc |-> "deliver", key |-> k, expects |-> "none", outcome |-> "none"]
    <3>1. Becomes(p, l) /\ l \in Locals
      BY <1>0, <2>1, GoesBecomes DEF Locals
    <3> QED
      BY <3>1
  <2>2. CASE Goes(p, "fail", k, "PENDING_CONFIRMATION", "failed")
    <3> DEFINE l == [pc |-> "fail", key |-> k, expects |-> "PENDING_CONFIRMATION", outcome |-> "failed"]
    <3>1. Becomes(p, l) /\ l \in Locals
      BY <1>0, <2>2, GoesBecomes DEF Locals
    <3> QED
      BY <3>1
  <2> QED
    BY <2>1, <2>2 DEF ApproveExternal
<1> USE <1>0, <1>1, <1>2 DEF IInv, Becomes
<1>3. TypeOK'
  BY DEF TypeOK, Locals, Statuses, ApproveExternal, world
<1>4. LocalsInv'
  BY DEF LocalsInv, ApproveExternal
<1>5. ClaimInv'
  <2>1. \A q \in People : q # p => (Owns(q)' <=> Owns(q)) /\ person'[q] = person[q]
    BY DEF Owns
  <2>2. \A q \in People : Owns(q) => person[q].key \in Keys \ {k}
    BY DEF LocalsInv, ClaimInv, Owns
  <2>3. person'[p].key = k
    OBVIOUS
  <2> QED
    BY <2>1, <2>2, <2>3 DEF ClaimInv, ApproveExternal, world, Owns
<1>6. EffectInv'
  BY DEF EffectInv, ApproveExternal, world
<1>7. ToldInv'
  <2>1. \A j \in Keys :
          /\ status[j] \in Terminal => status'[j] = status[j]
          /\ status[j] # "absent" => status'[j] # "absent" /\ input'[j] = input[j]
    BY DEF Terminal, ApproveExternal
  <2> QED
    BY <2>1, ToldStep DEF ApproveExternal
<1> QED
  BY <1>3, <1>4, <1>5, <1>6, <1>7

LEMMA LateDeliveryStep ==
  ASSUME IInv, NEW k \in Keys, LateDelivery(k)
  PROVE  IInv'
<1>0. inflight[k] = 1 /\ effects[k] = 0
  <2>1. inflight[k] \in Nat /\ effects[k] \in Nat /\ inflight[k] > 0
    BY DEF LateDelivery, IInv, TypeOK
  <2>2. effects[k] + inflight[k] <= 1
    BY DEF IInv, EffectInv
  <2> QED
    BY <2>1, <2>2
<1>1. \A j \in Keys : /\ effects'[j] = IF j = k THEN 1 ELSE effects[j]
                     /\ inflight'[j] = IF j = k THEN 0 ELSE inflight[j]
  BY <1>0 DEF LateDelivery, IInv, TypeOK
<1> USE <1>0, <1>1 DEF LateDelivery, receipts, history, IInv
<1>2. TypeOK'
  BY DEF TypeOK
<1>3. LocalsInv'
  BY DEF LocalsInv
<1>4. ClaimInv'
  BY DEF ClaimInv, LocalsInv, Owns
<1>5. EffectInv'
  BY DEF EffectInv
<1>6. ToldInv'
  BY DEF ToldInv
<1> QED
  BY <1>2, <1>3, <1>4, <1>5, <1>6

LEMMA IInvNext == IInv /\ [Next]_vars => IInv'
<1> SUFFICES ASSUME IInv, [Next]_vars PROVE IInv'
  OBVIOUS
<1>1. ASSUME NEW p \in OAuth, Revoke(p) PROVE IInv'
  BY <1>1 DEF Revoke, receipts, history, IInv, TypeOK, LocalsInv, ClaimInv, EffectInv, ToldInv, Owns
<1>2. ASSUME NEW k \in Keys, TimePasses(k) PROVE IInv'
  BY <1>2 DEF TimePasses, receipts, history, IInv, TypeOK, LocalsInv, ClaimInv, EffectInv, ToldInv, Owns
<1>3. CASE UNCHANGED vars
  BY <1>3 DEF vars, receipts, world, history, IInv, TypeOK, LocalsInv, ClaimInv, EffectInv,
              ToldInv, Owns
<1> QED
  BY <1>1, <1>2, <1>3, CallStep, QuietSteps, CloseSteps, DeliverStep, CompleteStep, DiesStep,
     ApproveLocalStep, ApproveExternalStep, LateDeliveryStep
  DEF Next, Proceeds

LEMMA IInvHolds == Spec => []IInv
  BY IInvInit, IInvNext, PTL DEF Spec

-----------------------------------------------------------------------------
\* The rows, the requests' locals, the effects and the history have their types.
THEOREM TypeCorrect == Spec => []TypeOK
  BY IInvHolds, PTL DEF IInv

\* An action has one effect at most, counting deliveries under way, for any
\* number of approvers, retries, crashes and lost answers: one conditional
\* transition claims it, and a claimed action is never pending again.
THEOREM ExecutedOnceHolds == Spec => []ExecutedOnce
<1>1. IInv => ExecutedOnce
  BY DEF IInv, EffectInv, ExecutedOnce
<1> QED
  BY <1>1, IInvHolds, PTL

\* Receipts tell the truth, and what a person was told of one stays true.
THEOREM ReceiptTrueHolds == Spec => []ReceiptTrue
<1>1. IInv => ReceiptTrue
  BY DEF IInv, EffectInv, ToldInv, ReceiptTrue
<1> QED
  BY <1>1, IInvHolds, PTL

\* A caller that loses the race for its idempotency key is never answered with
\* the action of another input.
THEOREM OwnActionHolds == Spec => []OwnAction
<1>1. IInv => OwnAction
  BY DEF IInv, ToldInv, OwnAction
<1> QED
  BY <1>1, IInvHolds, PTL

\* A receipt that was written is final: nothing takes an action out of EXECUTED,
\* FAILED, REJECTED or EXPIRED, nor changes the input it was prepared for.
ReceiptFinal ==
  [][\A k \in Keys : status[k] \in Terminal =>
       status'[k] = status[k] /\ outcome'[k] = outcome[k] /\ input'[k] = input[k]]_vars

\* Receipts are final under every request, retry and crash.
THEOREM ReceiptFinalHolds == Spec => ReceiptFinal
<1> DEFINE Final == \A k \in Keys : status[k] \in Terminal =>
             status'[k] = status[k] /\ outcome'[k] = outcome[k] /\ input'[k] = input[k]
<1>1. IInv /\ [Next]_vars => [Final]_vars
  <2> SUFFICES ASSUME IInv, Next PROVE Final
    OBVIOUS
  <2>0. /\ status \in [Keys -> Statuses] /\ input \in [Keys -> Inputs \cup {NoKey}]
        /\ outcome \in [Keys -> {"none", "succeeded", "failed", "unknown"}]
    BY DEF IInv, TypeOK
  <2>1. CASE UNCHANGED receipts
    BY <2>1 DEF receipts
  <2>2. ASSUME NEW c \in Callers, CallCreate(c) PROVE Final
    BY <2>0, <2>2 DEF CallCreate, Terminal
  <2>3. ASSUME NEW p \in People,
               \/ ApproveExpire(p) \/ Reject(p) \/ Complete(p)
               \/ ApproveLocal(p) \/ ApproveExternal(p)
        PROVE  Final
    BY <2>0, <2>3
    DEF ApproveExpire, Reject, MayReject, Complete, ApproveLocal, ApproveExternal, Claimable,
        Transition, Terminal, receipts
  <2>4. ASSUME NEW p \in People, Fail(p) PROVE Final
    <3>1. person[p].expects \in {"PENDING_CONFIRMATION", "EXECUTING"}
      BY <2>4 DEF Fail, IInv, ClaimInv
    <3> QED
      BY <2>0, <2>4, <3>1 DEF Fail, MayFail, Transition, Terminal, receipts
  <2>5. CASE \/ \E c \in Callers : \E k \in Keys, i \in Inputs : CallRead(c, k, i)
             \/ \E p \in People :
                  \/ ApproveRefused(p) \/ ApproveRollback(p) \/ Deliver(p) \/ Dies(p)
                  \/ \E k \in Keys : ApproveLoad(p, k) \/ RejectLoad(p, k)
             \/ \E p \in OAuth : Revoke(p)
             \/ \E k \in Keys : TimePasses(k) \/ LateDelivery(k)
    <3>1. UNCHANGED receipts
      BY <2>5 DEF CallRead, ApproveRefused, ApproveRollback, Deliver, Dies, ApproveLoad, RejectLoad,
                  Revoke, TimePasses, LateDelivery
    <3> QED
      BY <2>1, <3>1
  <2> HIDE DEF Final
  <2> QED
    BY <2>2, <2>3, <2>4, <2>5 DEF Next, Proceeds
<1> QED
  BY <1>1, IInvHolds, PTL DEF Spec, ReceiptFinal

=============================================================================
