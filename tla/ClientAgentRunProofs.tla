------------------------- MODULE ClientAgentRunProofs -------------------------
(***************************************************************************)
(* Proofs about account manager runs, for any number of runs and workers.  *)
(***************************************************************************)
EXTENDS ClientAgentRun, TLAPS

-----------------------------------------------------------------------------
\* A worker that claimed its run and has not returned.
Claimed == {"preflight", "reread", "prepare", "authorize", "send", "wait", "settle"}

\* What the claim is worth: a run is claimed once in its life, only its claimant
\* observes the context, and only an observed run is sent to the provider.
ClaimInv ==
  /\ \A r \in Runs :
       /\ r \in observed => status[r] \notin {"none", "QUEUED"}
       /\ calls[r] \in {0, 1}
       /\ calls[r] = 1 => r \in observed
       /\ r \in answered => calls[r] = 1
  /\ \A w \in Workers :
       LET r == worker[w].run IN
       /\ worker[w].pc \in Claimed => status[r] \notin {"none", "QUEUED", "FAILED"}
       /\ worker[w].pc \in {"preflight", "reread", "prepare"} => r \notin observed
       /\ worker[w].pc \in {"authorize", "send"} => r \in observed /\ calls[r] = 0
       /\ worker[w].pc = "wait" => calls[r] = 1
       /\ worker[w].pc = "settle" =>
            /\ worker[w].result \in {"SUCCEEDED", "FAILED", "UNKNOWN"}
            /\ worker[w].result = "SUCCEEDED" => r \in answered
            /\ worker[w].result = "FAILED" => calls[r] = 0
  /\ \A v, w \in Workers :
       /\ worker[v].pc \in Claimed /\ worker[w].pc \in Claimed
       /\ worker[v].run = worker[w].run
       => v = w

\* The conversation the shared runs belong to has one open run.
OneOpen == \A r, s \in Shared : status[r] \in Active /\ status[s] \in Active => r = s

IInv == TypeOK /\ ClaimInv /\ OneOpen /\ CardAgrees /\ FailedWasNotCalled

-----------------------------------------------------------------------------
\* How a step changes the locals of its worker.

Locals == [pc : Pcs, run : Runs \cup {NoRun}, seen : Tokens,
           result : Terminal \cup {"none"}, inTime : BOOLEAN]

\* Worker w is now at p, with the run it had, and the others are where they were.
Moves(w, p) ==
  /\ worker' \in [Workers -> Locals]
  /\ worker'[w].pc = p
  /\ p # "idle" => worker'[w].run = worker[w].run
  /\ \A v \in Workers : v # w => worker'[v] = worker[v]

LEMMA GoesMoves ==
  ASSUME TypeOK, NEW w \in Workers, NEW p \in Pcs, Goes(w, p)
  PROVE  Moves(w, p)
  BY DEF TypeOK, Goes, Moves, Locals

LEMMA ReturnsMoves ==
  ASSUME TypeOK, NEW w \in Workers, Returns(w)
  PROVE  Moves(w, "idle")
  BY DEF TypeOK, Returns, Moves, Locals, Idle, Pcs, Tokens

LEMMA SettlesMoves ==
  ASSUME TypeOK, NEW w \in Workers, NEW o \in Terminal, Settles(w, o)
  PROVE  Moves(w, "settle") /\ worker'[w].result = o
  BY DEF TypeOK, Settles, Moves, Locals, Pcs

LEMMA ExpiresMoves ==
  ASSUME TypeOK, NEW w \in Workers, Expires(w)
  PROVE  Moves(w, "expire")
  BY DEF TypeOK, Expires, Moves, Locals, Pcs, Tokens

LEMMA ReceiveMoves ==
  ASSUME TypeOK, NEW w \in Workers, NEW r \in Runs, Receive(w, r)
  PROVE  /\ worker' \in [Workers -> Locals]
         /\ worker'[w].pc \in {"expire", "claim"} /\ worker'[w].run = r
         /\ \A v \in Workers : v # w => worker'[v] = worker[v]
<1>1. \E rec \in Locals :
        /\ worker' = [worker EXCEPT ![w] = rec]
        /\ rec.pc \in {"expire", "claim"} /\ rec.run = r
  <2>1. [Idle EXCEPT !.pc = "expire", !.run = r, !.seen = token[r]] \in Locals
    BY DEF TypeOK, Locals, Idle, Pcs, Tokens
  <2>2. [Idle EXCEPT !.pc = "claim", !.run = r] \in Locals
    BY DEF Locals, Idle, Pcs, Tokens
  <2> QED
    BY <2>1, <2>2 DEF Receive, Idle
<1> QED
  BY <1>1 DEF TypeOK, Locals

LEMMA IInvInit == Init => IInv
  BY RunsAssumption
  DEF Init, IInv, TypeOK, ClaimInv, OneOpen, CardAgrees, FailedWasNotCalled, Claimed, Idle,
      Runs, Active, Terminal, Tokens, Pcs

LEMMA IInvNext == IInv /\ [Next]_vars => IInv'
<1> SUFFICES ASSUME IInv, [Next]_vars PROVE IInv'
  OBVIOUS
<1> USE RunsAssumption DEF IInv, TypeOK, ClaimInv, OneOpen, CardAgrees, FailedWasNotCalled,
      Claimed, Runs, Active, Terminal, Tokens, Pcs, Locals
<1>1. ASSUME NEW r \in Shared, Start(r) PROVE IInv'
  BY <1>1 DEF Start
<1>2. ASSUME NEW r \in Source, Request(r) PROVE IInv'
  BY <1>2 DEF Request
<1>3. ASSUME NEW r \in Source, AuthorityChanges(r) PROVE IInv'
  BY <1>3 DEF AuthorityChanges, rows
<1>4. ASSUME NEW r \in Runs, Cancel(r) PROVE IInv'
  BY <1>4 DEF Cancel, MayCancel, Closes
<1>5. ASSUME NEW r \in Runs, Review(r) PROVE IInv'
  BY <1>5 DEF Review, rows
<1>6. ASSUME NEW r \in Runs, TimePasses(r) PROVE IInv'
  BY <1>6 DEF TimePasses
<1>7. ASSUME NEW w \in Workers, Crash(w) PROVE IInv'
  BY <1>7 DEF Crash, rows, Idle
<1>8. ASSUME NEW w \in Workers, NEW r \in Runs, Receive(w, r) PROVE IInv'
  <2>1. /\ worker' \in [Workers -> Locals]
        /\ worker'[w].pc \in {"expire", "claim"} /\ worker'[w].run = r
        /\ \A v \in Workers : v # w => worker'[v] = worker[v]
    BY <1>8, ReceiveMoves
  <2> QED
    BY <1>8, <2>1 DEF Receive, rows
<1>9. ASSUME NEW w \in Workers, Claim(w) PROVE IInv'
  <2> DEFINE r == worker[w].run
  <2>0. worker[w].pc = "claim" /\ r \in Runs
    BY <1>9 DEF Claim
  <2>1. CASE /\ status[r] = "QUEUED"
             /\ status' = [status EXCEPT ![r] = "RUNNING"]
             /\ token' = [token EXCEPT ![r] = w]
             /\ late' = late \ {r}
             /\ Goes(w, "preflight")
             /\ UNCHANGED card
    <3>1. Moves(w, "preflight")
      BY <2>1, GoesMoves
    <3> QED
      BY <1>9, <2>0, <2>1, <3>1 DEF Claim, Moves
  <2>2. CASE /\ status[r] = "QUEUED"
             /\ status' = [status EXCEPT ![r] = "FAILED"]
             /\ Closes(r, "SUPPRESSED")
             /\ Returns(w)
             /\ UNCHANGED <<token, late>>
    <3>1. Moves(w, "idle")
      BY <2>2, ReturnsMoves
    <3> QED
      BY <1>9, <2>0, <2>2, <3>1 DEF Claim, Moves, Closes
  <2>3. CASE Returns(w) /\ UNCHANGED <<status, token, late, card>>
    <3>1. Moves(w, "idle")
      BY <2>3, ReturnsMoves
    <3> QED
      BY <1>9, <2>3, <3>1 DEF Claim, Moves
  <2> QED
    BY <1>9, <2>1, <2>2, <2>3 DEF Claim, Claimable
<1>10. ASSUME NEW w \in Workers, Preflight(w) PROVE IInv'
  <2>1. CASE Goes(w, "reread")
    <3>1. Moves(w, "reread")
      BY <2>1, GoesMoves
    <3> QED
      BY <1>10, <3>1 DEF Preflight, Moves, rows
  <2>2. CASE Settles(w, "FAILED")
    <3>1. Moves(w, "settle") /\ worker'[w].result = "FAILED"
      BY <2>2, SettlesMoves
    <3> QED
      BY <1>10, <3>1 DEF Preflight, Moves, rows
  <2> QED
    BY <1>10, <2>1, <2>2 DEF Preflight
<1>11. ASSUME NEW w \in Workers, Reread(w) PROVE IInv'
  <2>1. \E p \in {"idle", "expire", "prepare"} : Moves(w, p)
    BY <1>11, ReturnsMoves, ExpiresMoves, GoesMoves DEF Reread
  <2> QED
    BY <1>11, <2>1 DEF Reread, Moves, rows
<1>12. ASSUME NEW w \in Workers, Prepare(w) PROVE IInv'
  <2> DEFINE r == worker[w].run
  <2>0. worker[w].pc = "prepare" /\ r \in Runs
    BY <1>12 DEF Prepare
  <2>1. CASE Settles(w, "FAILED") /\ UNCHANGED observed
    <3>1. Moves(w, "settle") /\ worker'[w].result = "FAILED"
      BY <2>1, SettlesMoves
    <3> QED
      BY <1>12, <2>1, <3>1 DEF Prepare, Moves
  <2>2. CASE Holds(w) /\ observed' = observed \cup {r} /\ Goes(w, "authorize")
    <3>1. Moves(w, "authorize")
      BY <2>2, GoesMoves
    <3> QED
      BY <1>12, <2>0, <2>2, <3>1 DEF Prepare, Moves, Holds
  <2>3. CASE Returns(w) /\ UNCHANGED observed
    <3>1. Moves(w, "idle")
      BY <2>3, ReturnsMoves
    <3> QED
      BY <1>12, <2>3, <3>1 DEF Prepare, Moves
  <2> QED
    BY <1>12, <2>1, <2>2, <2>3 DEF Prepare
<1>13. ASSUME NEW w \in Workers, Authorize(w) PROVE IInv'
  <2>1. CASE Goes(w, "send")
    <3>1. Moves(w, "send")
      BY <2>1, GoesMoves
    <3> QED
      BY <1>13, <3>1 DEF Authorize, Moves, rows
  <2>2. CASE Settles(w, "FAILED")
    <3>1. Moves(w, "settle") /\ worker'[w].result = "FAILED"
      BY <2>2, SettlesMoves
    <3> QED
      BY <1>13, <3>1 DEF Authorize, Moves, rows
  <2> QED
    BY <1>13, <2>1, <2>2 DEF Authorize
<1>14. ASSUME NEW w \in Workers, Send(w) PROVE IInv'
  <2> DEFINE r == worker[w].run
  <2>0. worker[w].pc = "send" /\ r \in Runs
    BY <1>14 DEF Send
  <2>1. CASE Expires(w) /\ UNCHANGED calls
    <3>1. Moves(w, "expire")
      BY <2>1, ExpiresMoves
    <3> QED
      BY <1>14, <2>1, <3>1 DEF Send, Moves, rows
  <2>2. CASE calls' = [calls EXCEPT ![r] = @ + 1] /\ Goes(w, "wait")
    <3>1. Moves(w, "wait")
      BY <2>2, GoesMoves
    <3> QED
      BY <1>14, <2>0, <2>2, <3>1 DEF Send, Moves, rows
  <2>3. CASE Settles(w, "FAILED") /\ UNCHANGED calls
    <3>1. Moves(w, "settle") /\ worker'[w].result = "FAILED"
      BY <2>3, SettlesMoves
    <3> QED
      BY <1>14, <2>3, <3>1 DEF Send, Moves, rows
  <2> QED
    BY <1>14, <2>1, <2>2, <2>3 DEF Send
<1>15. ASSUME NEW w \in Workers, Answer(w) PROVE IInv'
  <2>1. CASE Settles(w, "SUCCEEDED") /\ answered' = answered \cup {worker[w].run}
    <3>1. Moves(w, "settle") /\ worker'[w].result = "SUCCEEDED"
      BY <2>1, SettlesMoves
    <3> QED
      BY <1>15, <2>1, <3>1 DEF Answer, Moves, rows
  <2>2. CASE Settles(w, "UNKNOWN") /\ UNCHANGED answered
    <3>1. Moves(w, "settle") /\ worker'[w].result = "UNKNOWN"
      BY <2>2, SettlesMoves
    <3> QED
      BY <1>15, <2>2, <3>1 DEF Answer, Moves, rows
  <2> QED
    BY <1>15, <2>1, <2>2 DEF Answer, ProviderError
<1>16. ASSUME NEW w \in Workers, Settle(w) PROVE IInv'
  BY <1>16 DEF Settle, Returns, Settled, MaySettle, Holds, Closes, Authorized, Idle
<1>17. ASSUME NEW w \in Workers, Expire(w) PROVE IInv'
  BY <1>17 DEF Expire, Returns, Closes, Idle
<1>18. ASSUME NEW s \in Active, RecoverShared(s) PROVE IInv'
  BY <1>18 DEF RecoverShared, ExpiredStatus
<1>19. ASSUME RecoverRead PROVE IInv'
  BY <1>19 DEF RecoverRead, rows, Overdue
<1>20. ASSUME NEW e \in sweep, RecoverRow(e) PROVE IInv'
  BY <1>20 DEF RecoverRow, ExpiredStatus, StillAsRead, Closes
<1>21. CASE UNCHANGED vars
  BY <1>21 DEF vars, rows
<1> QED
  BY <1>1, <1>2, <1>3, <1>4, <1>5, <1>6, <1>7, <1>8, <1>9, <1>10, <1>11, <1>12, <1>13, <1>14,
      <1>15, <1>16, <1>17, <1>18, <1>19, <1>20, <1>21 DEF Next, Recovery, Step

LEMMA IInvHolds == Spec => []IInv
  BY IInvInit, IInvNext, PTL DEF Spec

\* The rows, cards, history and workers' locals have their types, and a worker
\* that is busy has a run.
THEOREM TypeCorrect == Spec => []TypeOK
  BY IInvHolds, PTL DEF IInv

\* One provider call in the life of a run, for any number of workers, crashes,
\* redelivered jobs and recoveries: the claim gives the run one worker for ever,
\* and that worker authorises a call only while none was made.
THEOREM OneProviderCallHolds == Spec => []OneProviderCall
<1>1. IInv => OneProviderCall
  BY DEF IInv, TypeOK, ClaimInv, OneProviderCall
<1> QED
  BY <1>1, IInvHolds, PTL

\* A run reported FAILED was not sent to the provider, unless its answer came
\* and was suppressed because the channel had lost its authority.
THEOREM FailedWasNotCalledHolds == Spec => []FailedWasNotCalled
  BY IInvHolds, PTL DEF IInv

\* The invocation card of a source run is pending, delivered or suppressed with
\* the run, whichever of the worker, the cancellation and the recovery ended it.
THEOREM CardAgreesHolds == Spec => []CardAgrees
  BY IInvHolds, PTL DEF IInv

-----------------------------------------------------------------------------
\* What a step may do to the outcome of a run and to the calls made for it.

Begins(r) == status[r] = "none" /\ status' = [status EXCEPT ![r] = "QUEUED"]

Proceeds(r) == status[r] = "QUEUED" /\ status' = [status EXCEPT ![r] = "RUNNING"]

Ends(r, o) ==
  /\ status[r] \in Active /\ o \in Terminal
  /\ o = "SUCCEEDED" => calls[r] = 1
  /\ status' = [status EXCEPT ![r] = o]

Calls(r) ==
  /\ status[r] # "none" /\ calls[r] = 0
  /\ calls' = [calls EXCEPT ![r] = 1]

OutcomeStep ==
  \/ UNCHANGED <<status, calls>>
  \/ UNCHANGED status /\ \E r \in Runs : Calls(r)
  \/ UNCHANGED calls /\ \E r \in Runs : Begins(r)
  \/ UNCHANGED calls /\ \E r \in Runs : Proceeds(r)
  \/ UNCHANGED calls /\ \E r \in Runs : \E o \in Terminal : Ends(r, o)

\* One conversation has one open run, so the two statements of the recovery job
\* over the shared runs end one run each.
LEMMA RecoverSharedEnds ==
  ASSUME IInv, NEW s \in Active, RecoverShared(s)
  PROVE  UNCHANGED calls /\ \E r \in Runs : Ends(r, ExpiredStatus(s))
<1>1. PICK r \in Shared : status[r] = s /\ r \in late
  BY DEF RecoverShared
<1>2. \A q \in Shared : status[q] = s => q = r
  BY <1>1 DEF IInv, OneOpen
<1>3. status' = [status EXCEPT ![r] = ExpiredStatus(s)]
  BY <1>1, <1>2 DEF RecoverShared, IInv, TypeOK, Runs
<1>4. ExpiredStatus(s) \in Terminal /\ ExpiredStatus(s) # "SUCCEEDED"
  BY DEF ExpiredStatus, Active, Terminal
<1> QED
  BY <1>1, <1>3, <1>4 DEF RecoverShared, Ends, Runs

LEMMA SettleEnds ==
  ASSUME IInv, NEW w \in Workers, Settle(w)
  PROVE  OutcomeStep
<1> DEFINE r == worker[w].run
<1>0. worker[w].pc = "settle" /\ r \in Runs
  BY DEF Settle, IInv, TypeOK
<1>1. CASE MaySettle(w) /\ status' = [status EXCEPT ![r] = Settled(w)]
  <2>1. status[r] = "RUNNING"
    BY <1>1 DEF MaySettle, Holds
  <2>2. worker[w].result \in {"SUCCEEDED", "FAILED", "UNKNOWN"}
    BY <1>0 DEF IInv, ClaimInv
  <2>3. worker[w].result = "SUCCEEDED" => calls[r] = 1
    BY <1>0 DEF IInv, ClaimInv
  <2>4. Settled(w) \in {"UNKNOWN", "FAILED", worker[w].result}
    BY DEF Settled
  <2>5. Ends(r, Settled(w)) /\ Settled(w) \in Terminal
    BY <1>1, <2>1, <2>2, <2>3, <2>4 DEF Ends, Active, Terminal
  <2> QED
    BY <1>0, <2>5 DEF Settle, OutcomeStep
<1>2. CASE UNCHANGED status
  BY <1>2 DEF Settle, OutcomeStep
<1> QED
  BY <1>1, <1>2 DEF Settle

LEMMA OutcomeChange ==
  ASSUME IInv, [Next]_vars
  PROVE  OutcomeStep
<1>1. ASSUME NEW r \in Shared, Start(r) PROVE OutcomeStep
  BY <1>1 DEF Start, OutcomeStep, Begins, Runs
<1>2. ASSUME NEW r \in Source, Request(r) PROVE OutcomeStep
  BY <1>2 DEF Request, OutcomeStep, Begins, Runs
<1>3. ASSUME NEW r \in Runs, Cancel(r) PROVE OutcomeStep
  BY <1>3 DEF Cancel, MayCancel, OutcomeStep, Ends, Terminal
<1>4. ASSUME NEW w \in Workers, Claim(w) PROVE OutcomeStep
  <2>1. worker[w].run \in Runs
    BY <1>4 DEF Claim, IInv, TypeOK
  <2> QED
    BY <1>4, <2>1 DEF Claim, Claimable, OutcomeStep, Proceeds, Ends, Active, Terminal
<1>5. ASSUME NEW w \in Workers, Send(w) PROVE OutcomeStep
  <2> DEFINE r == worker[w].run
  <2>1. worker[w].pc = "send" /\ r \in Runs
    BY <1>5 DEF Send, IInv, TypeOK
  <2>2. status[r] # "none" /\ calls[r] = 0
    BY <2>1 DEF IInv, ClaimInv, Claimed
  <2>3. CASE UNCHANGED calls
    BY <1>5, <2>3 DEF Send, rows, OutcomeStep
  <2>4. CASE calls' = [calls EXCEPT ![r] = @ + 1]
    <3>1. calls' = [calls EXCEPT ![r] = 1]
      BY <2>1, <2>2, <2>4 DEF IInv, TypeOK
    <3> QED
      BY <1>5, <2>1, <2>2, <3>1 DEF Send, rows, OutcomeStep, Calls
  <2> QED
    BY <1>5, <2>3, <2>4 DEF Send
<1>6. ASSUME NEW w \in Workers, Settle(w) PROVE OutcomeStep
  BY <1>6, SettleEnds
<1>7. ASSUME NEW w \in Workers, Expire(w) PROVE OutcomeStep
  <2>1. worker[w].run \in Runs
    BY <1>7 DEF Expire, IInv, TypeOK
  <2> QED
    BY <1>7, <2>1 DEF Expire, OutcomeStep, Ends, Active, Terminal
<1>8. ASSUME NEW s \in Active, RecoverShared(s) PROVE OutcomeStep
  <2>1. ExpiredStatus(s) \in Terminal
    BY DEF ExpiredStatus, Terminal
  <2> QED
    BY <1>8, <2>1, RecoverSharedEnds DEF OutcomeStep
<1>9. ASSUME NEW e \in sweep, RecoverRow(e) PROVE OutcomeStep
  <2>1. e.run \in Runs /\ e.status \in Active
    BY DEF IInv, TypeOK, Runs
  <2> QED
    BY <1>9, <2>1 DEF RecoverRow, StillAsRead, ExpiredStatus, OutcomeStep, Ends, Active, Terminal
<1>10. CASE \/ \E r \in Source : AuthorityChanges(r)
            \/ \E r \in Runs : Review(r) \/ TimePasses(r)
            \/ \E w \in Workers : \/ Crash(w) \/ Preflight(w) \/ Reread(w) \/ Prepare(w)
                                  \/ Authorize(w) \/ Answer(w)
                                  \/ \E r \in Runs : Receive(w, r)
            \/ RecoverRead
  BY <1>10 DEF AuthorityChanges, Review, TimePasses, Crash, Preflight, Reread, Prepare,
              Authorize, Answer, Receive, RecoverRead, rows, OutcomeStep
<1>11. CASE UNCHANGED vars
  BY <1>11 DEF vars, rows, OutcomeStep
<1> QED
  BY <1>1, <1>2, <1>3, <1>4, <1>5, <1>6, <1>7, <1>8, <1>9, <1>10, <1>11
  DEF Next, Recovery, Step

LEMMA InitOutcome == Init => Abstract!Init
  BY DEF Init, Abstract!Init

LEMMA NextOutcome ==
  ASSUME IInv, [Next]_vars
  PROVE  [Abstract!Next]_(Abstract!vars)
<1> DEFINE Shown(s) == IF s = "none" THEN "unasked" ELSE IF s \in Active THEN "open" ELSE s
           outcome == [r \in Runs |-> Shown(status[r])]
           called == {r \in Runs : calls[r] > 0}
<1>0. status \in [Runs -> {"none"} \cup Active \cup Terminal] /\ calls \in [Runs -> Nat]
  BY DEF IInv, TypeOK
<1>1. CASE UNCHANGED <<status, calls>>
  BY <1>1 DEF Abstract!vars
<1>2. ASSUME UNCHANGED status, NEW r \in Runs, Calls(r) PROVE Abstract!Next
  <2>1. UNCHANGED outcome
    BY <1>2
  <2>2. called' = called \cup {r}
    BY <1>0, <1>2 DEF Calls
  <2>3. outcome[r] # "unasked" /\ r \notin called
    BY <1>0, <1>2 DEF Calls, Active, Terminal
  <2> QED
    BY <2>1, <2>2, <2>3 DEF Abstract!Next, Abstract!Call
<1>3. ASSUME UNCHANGED calls, NEW r \in Runs, Begins(r) PROVE Abstract!Next
  <2>1. outcome[r] = "unasked" /\ outcome' = [outcome EXCEPT ![r] = "open"]
    BY <1>0, <1>3 DEF Begins, Active
  <2>2. UNCHANGED called
    BY <1>3
  <2> QED
    BY <2>1, <2>2 DEF Abstract!Next, Abstract!Ask
<1>4. ASSUME UNCHANGED calls, NEW r \in Runs, Proceeds(r) PROVE UNCHANGED Abstract!vars
  <2>1. UNCHANGED outcome
    BY <1>0, <1>4 DEF Proceeds, Active
  <2>2. UNCHANGED called
    BY <1>4
  <2> QED
    BY <2>1, <2>2 DEF Abstract!vars
<1>5. ASSUME UNCHANGED calls, NEW r \in Runs, NEW o \in Terminal, Ends(r, o)
      PROVE  Abstract!Next
  <2>1. outcome[r] = "open" /\ outcome' = [outcome EXCEPT ![r] = o]
    BY <1>0, <1>5 DEF Ends, Active, Terminal
  <2>2. UNCHANGED called
    BY <1>5
  <2>3. o = "SUCCEEDED" => r \in called
    BY <1>0, <1>5 DEF Ends
  <2>4. o \in Abstract!Outcomes
    BY DEF Abstract!Outcomes, Terminal
  <2> QED
    BY <2>1, <2>2, <2>3, <2>4 DEF Abstract!Next, Abstract!Decide
<1> QED
  BY <1>1, <1>2, <1>3, <1>4, <1>5, OutcomeChange DEF OutcomeStep

\* Refinement: whatever producers, workers, crashes and the recovery job do, for
\* any number of each, a run is asked for once, calls the provider at most once
\* and gets one outcome that nothing revises.
THEOREM RunOutcomeImplemented == Spec => ImplementsRunOutcome
<1>1. Init => Abstract!Init
  BY InitOutcome
<1>2. IInv /\ [Next]_vars => [Abstract!Next]_(Abstract!vars)
  BY NextOutcome
<1> QED
  BY <1>1, <1>2, IInvHolds, PTL DEF Spec, ImplementsRunOutcome, Abstract!Spec

=============================================================================
