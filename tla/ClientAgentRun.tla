--------------------------- MODULE ClientAgentRun ---------------------------
(***************************************************************************)
(* Account manager runs: the producer (start, cancel, review), the worker  *)
(* (processClientAgentRun), and the recovery job that runs every minute.   *)
(* A worker's database statements, authorisation transactions and provider *)
(* call are separate steps; it may crash before any of them, and the queue *)
(* may deliver the job of a run to any worker, at any time, more than once.*)
(*                                                                         *)
(* Shared runs belong to one conversation.  A source run is asked for in a *)
(* workspace channel: it has a conversation and an invocation card of its  *)
(* own, and needs the channel's authority to run and to be delivered.      *)
(***************************************************************************)
EXTENDS Naturals

CONSTANTS
  Shared,    \* runs of the staff conversation
  Source,    \* runs asked for in a workspace channel
  Workers,   \* concurrent processors of the client-agent queue
  NoToken

ASSUME RunsAssumption ==
  /\ Shared \cap Source = {}
  /\ NoToken \notin Workers

Runs == Shared \cup Source

VARIABLES
  status,    \* client_agent_runs.status
  token,     \* claimToken: the claimant
  observed,  \* runs with a contextObservedAt
  late,      \* runs past deadlineAt (RUNNING) or the queue's age limit (QUEUED)
  granted,   \* source runs whose channel, binding and profile still authorise
  card,      \* workspace invocation deliveryState
  reviewed,  \* runs with a client_agent_run_reviews record
  sweep,     \* source rows the recovery job read and has not yet visited
  worker,    \* locals of processClientAgentRun
  calls,     \* history: provider calls made
  answered   \* history: runs whose claimant received a valid answer

rows == <<status, token, observed, late>>
vars == <<rows, granted, card, reviewed, sweep, worker, calls, answered>>

Active == {"QUEUED", "RUNNING"}
Terminal == {"SUCCEEDED", "FAILED", "UNKNOWN", "CANCELLED"}
Tokens == Workers \cup {NoToken}
NoRun == "no run"

Pcs == {"idle", "claim", "preflight", "reread", "prepare", "authorize", "send",
        "wait", "settle", "expire"}

\* seen: the claim token an expiry compares; result: the outcome to settle;
\* inTime: the deadline had not passed when settle read the clock.
Idle == [pc |-> "idle", run |-> NoRun, seen |-> NoToken, result |-> "none", inTime |-> FALSE]

TypeOK ==
  /\ status \in [Runs -> {"none"} \cup Active \cup Terminal]
  /\ token \in [Runs -> Tokens]
  /\ observed \subseteq Runs /\ late \subseteq Runs
  /\ granted \subseteq Source
  /\ card \in [Source -> {"none", "PENDING", "DELIVERED", "SUPPRESSED"}]
  /\ reviewed \subseteq Runs
  /\ sweep \subseteq [run : Source, status : Active, token : Tokens]
  /\ worker \in [Workers -> [pc : Pcs, run : Runs \cup {NoRun}, seen : Tokens,
                             result : Terminal \cup {"none"}, inTime : BOOLEAN]]
  /\ \A w \in Workers : worker[w].pc # "idle" => worker[w].run \in Runs
  /\ calls \in [Runs -> Nat]
  /\ answered \subseteq Runs

Init ==
  /\ status = [r \in Runs |-> "none"]
  /\ token = [r \in Runs |-> NoToken]
  /\ observed = {} /\ late = {} /\ reviewed = {} /\ sweep = {} /\ answered = {}
  /\ granted = Source
  /\ card = [r \in Source |-> "none"]
  /\ worker = [w \in Workers |-> Idle]
  /\ calls = [r \in Runs |-> 0]

-----------------------------------------------------------------------------
\* The producer.

\* start: a key that was used answers with its run; one active run per
\* conversation (also a partial unique index).
Start(r) ==
  /\ status[r] = "none"
  /\ \A s \in Shared : status[s] \notin Active
  /\ status' = [status EXCEPT ![r] = "QUEUED"]
  /\ UNCHANGED <<token, observed, late, granted, card, reviewed, sweep, worker, calls, answered>>

\* requestWorkspaceAccountManager: conversation, run and card in one transaction.
Request(r) ==
  /\ status[r] = "none" /\ r \in granted
  /\ status' = [status EXCEPT ![r] = "QUEUED"]
  /\ card' = [card EXCEPT ![r] = "PENDING"]
  /\ UNCHANGED <<token, observed, late, granted, reviewed, sweep, worker, calls, answered>>

\* The card of a source run leaves PENDING with the run.
Closes(r, delivery) ==
  card' = IF r \in Source /\ card[r] = "PENDING" THEN [card EXCEPT ![r] = delivery] ELSE card

\* Mutant: the cancellation does not look at the status.
MayCancelEver(r) == status[r] # "none"

MayCancel(r) == status[r] \in Active

Cancel(r) ==
  /\ MayCancel(r)
  /\ status' = [status EXCEPT ![r] = "CANCELLED"]
  /\ token' = [token EXCEPT ![r] = NoToken]
  /\ Closes(r, "SUPPRESSED")
  /\ UNCHANGED <<observed, late, granted, reviewed, sweep, worker, calls, answered>>

Review(r) ==
  /\ status[r] \in {"FAILED", "UNKNOWN"} /\ r \notin reviewed
  /\ reviewed' = reviewed \cup {r}
  /\ UNCHANGED <<rows, granted, card, sweep, worker, calls, answered>>

-----------------------------------------------------------------------------
\* The environment: time, membership and installation changes, crashes.

TimePasses(r) ==
  /\ status[r] \in Active /\ r \notin late
  /\ late' = late \cup {r}
  /\ UNCHANGED <<status, token, observed, granted, card, reviewed, sweep, worker, calls, answered>>

AuthorityChanges(r) ==
  /\ granted' = IF r \in granted THEN granted \ {r} ELSE granted \cup {r}
  /\ UNCHANGED <<rows, card, reviewed, sweep, worker, calls, answered>>

\* Also a database error: the job fails, and its retry finds a claimed run.
Crash(w) ==
  /\ worker[w].pc # "idle"
  /\ worker' = [worker EXCEPT ![w] = Idle]
  /\ UNCHANGED <<rows, granted, card, reviewed, sweep, calls, answered>>

-----------------------------------------------------------------------------
\* The worker.

Goes(w, pc) == worker' = [worker EXCEPT ![w].pc = pc]
Returns(w) == worker' = [worker EXCEPT ![w] = Idle]
Holds(w) == status[worker[w].run] = "RUNNING" /\ token[worker[w].run] = w

\* settle and expire read the clock first, then write.
Settles(w, result) ==
  worker' = [worker EXCEPT ![w] = [@ EXCEPT !.pc = "settle", !.result = result,
                                          !.inTime = worker[w].run \notin late]]
Expires(w) == worker' = [worker EXCEPT ![w] = [@ EXCEPT !.pc = "expire", !.seen = w]]

\* authorizeWorkspaceAgentRun, under the channel lock.
Authorized(r) == r \in Source => r \in granted /\ card[r] = "PENDING"

Receive(w, r) ==
  /\ worker[w].pc = "idle"
  /\ \/ /\ status[r] = "RUNNING" /\ r \in late
        /\ worker' = [worker EXCEPT ![w] = [Idle EXCEPT !.pc = "expire", !.run = r,
                                                       !.seen = token[r]]]
     \/ /\ status[r] = "QUEUED"
        /\ worker' = [worker EXCEPT ![w] = [Idle EXCEPT !.pc = "claim", !.run = r]]
  /\ UNCHANGED <<rows, granted, card, reviewed, sweep, calls, answered>>

Claimable(r) == status[r] = "QUEUED"

\* claimWorkspaceAgentRun fails an unauthorised source run instead.
Claim(w) ==
  /\ worker[w].pc = "claim"
  /\ LET r == worker[w].run IN
     \/ /\ Authorized(r) /\ Claimable(r)
        /\ status' = [status EXCEPT ![r] = "RUNNING"]
        /\ token' = [token EXCEPT ![r] = w]
        /\ late' = late \ {r}
        /\ Goes(w, "preflight")
        /\ UNCHANGED card
     \/ /\ ~Authorized(r) /\ status[r] = "QUEUED"
        /\ status' = [status EXCEPT ![r] = "FAILED"]
        /\ Closes(r, "SUPPRESSED")
        /\ Returns(w)
        /\ UNCHANGED <<token, late>>
     \/ /\ ~Claimable(r)
        /\ Returns(w)
        /\ UNCHANGED <<status, token, late, card>>
  /\ UNCHANGED <<observed, granted, reviewed, sweep, calls, answered>>

\* Conversation, requester, profile, context and memory reads; any may refuse.
Preflight(w) ==
  /\ worker[w].pc = "preflight"
  /\ \/ Authorized(worker[w].run) /\ Goes(w, "reread")
     \/ Settles(w, "FAILED")
  /\ UNCHANGED <<rows, granted, card, reviewed, sweep, calls, answered>>

\* "Respect cancellation/expiry that committed during context reads."
Reread(w) ==
  /\ worker[w].pc = "reread"
  /\ \/ ~Holds(w) /\ Returns(w)
     \/ Holds(w) /\ worker[w].run \in late /\ Expires(w)
     \/ Holds(w) /\ worker[w].run \notin late /\ Goes(w, "prepare")
  /\ UNCHANGED <<rows, granted, card, reviewed, sweep, calls, answered>>

Prepare(w) ==
  /\ worker[w].pc = "prepare"
  /\ LET r == worker[w].run
         may == Holds(w) /\ r \notin observed /\ r \notin late
     IN \/ Settles(w, "FAILED") /\ UNCHANGED observed   \* refused, or the write failed
        \/ /\ Authorized(r) /\ may
           /\ observed' = observed \cup {r}
           /\ Goes(w, "authorize")
        \/ /\ Authorized(r) /\ ~may
           /\ Returns(w)
           /\ UNCHANGED observed
  /\ UNCHANGED <<status, token, late, granted, card, reviewed, sweep, calls, answered>>

Authorize(w) ==
  /\ worker[w].pc = "authorize"
  /\ \/ Authorized(worker[w].run) /\ Goes(w, "send")
     \/ worker[w].run \in Source /\ Settles(w, "FAILED")
  /\ UNCHANGED <<rows, granted, card, reviewed, sweep, calls, answered>>

\* AI_DISABLED and AI_BUDGET_EXCEEDED are raised before the provider is called.
Send(w) ==
  /\ worker[w].pc = "send"
  /\ \/ worker[w].run \in late /\ Expires(w) /\ UNCHANGED calls
     \/ /\ worker[w].run \notin late
        /\ calls' = [calls EXCEPT ![worker[w].run] = @ + 1]
        /\ Goes(w, "wait")
     \/ /\ worker[w].run \notin late
        /\ Settles(w, "FAILED")
        /\ UNCHANGED calls
  /\ UNCHANGED <<rows, granted, card, reviewed, sweep, answered>>

\* Mutant: a provider error is recorded as a failure.
ErrorFailed == "FAILED"

\* An error or a timeout may conceal a call that reached the provider.
ProviderError == "UNKNOWN"

\* Mutant: the worker tries the provider again after an error.
AnswerOrRetry(w) ==
  /\ worker[w].pc = "wait"
  /\ \/ Settles(w, "SUCCEEDED") /\ answered' = answered \cup {worker[w].run}
     \/ Goes(w, "send") /\ UNCHANGED answered
  /\ UNCHANGED <<rows, granted, card, reviewed, sweep, calls>>

\* A valid answer; an invalid one, an error or the deadline timer, which
\* releases the worker (a late answer is dropped).
Answer(w) ==
  /\ worker[w].pc = "wait"
  /\ \/ Settles(w, "SUCCEEDED") /\ answered' = answered \cup {worker[w].run}
     \/ Settles(w, ProviderError) /\ UNCHANGED answered
  /\ UNCHANGED <<rows, granted, card, reviewed, sweep, calls>>

MaySettle(w) == Holds(w)

\* Past the deadline the outcome is UNKNOWN; a source answer is delivered only
\* with the authority of that moment, in the transaction that settles the run.
Settled(w) ==
  CASE ~worker[w].inTime -> "UNKNOWN"
    [] worker[w].inTime /\ worker[w].result = "SUCCEEDED" /\ ~Authorized(worker[w].run) -> "FAILED"
    [] OTHER -> worker[w].result

Settle(w) ==
  /\ worker[w].pc = "settle"
  /\ LET r == worker[w].run IN
     \/ /\ MaySettle(w)
        /\ status' = [status EXCEPT ![r] = Settled(w)]
        /\ Closes(r, IF Settled(w) = "SUCCEEDED" THEN "DELIVERED" ELSE "SUPPRESSED")
     \/ /\ ~MaySettle(w)
        /\ UNCHANGED <<status, card>>
  /\ Returns(w)
  /\ UNCHANGED <<token, observed, late, granted, reviewed, sweep, calls, answered>>

Expire(w) ==
  /\ worker[w].pc = "expire"
  /\ LET r == worker[w].run
         may == status[r] = "RUNNING" /\ token[r] = worker[w].seen
     IN \/ /\ may
           /\ status' = [status EXCEPT ![r] = "UNKNOWN"]
           /\ Closes(r, "SUPPRESSED")
        \/ /\ ~may
           /\ UNCHANGED <<status, card>>
  /\ Returns(w)
  /\ UNCHANGED <<token, observed, late, granted, reviewed, sweep, calls, answered>>

-----------------------------------------------------------------------------
\* expireClientAgentRuns.

ExpiredStatus(s) == IF s = "RUNNING" THEN "UNKNOWN" ELSE "FAILED"

\* Two updateMany statements over the shared runs.
RecoverShared(s) ==
  /\ \E r \in Shared : status[r] = s /\ r \in late
  /\ status' = [r \in Runs |-> IF r \in Shared /\ status[r] = s /\ r \in late
                               THEN ExpiredStatus(s) ELSE status[r]]
  /\ UNCHANGED <<token, observed, late, granted, card, reviewed, sweep, worker, calls, answered>>

\* Mutant: a run nobody claimed is not looked for.
OverdueRunning == {r \in Source : status[r] = "RUNNING" /\ r \in late}

Overdue == {r \in Source : status[r] \in Active /\ r \in late}

\* expireWorkspaceAgentRuns reads its rows, then visits each in a transaction.
RecoverRead ==
  /\ sweep = {} /\ Overdue # {}
  /\ sweep' = {[run |-> r, status |-> status[r], token |-> token[r]] : r \in Overdue}
  /\ UNCHANGED <<rows, granted, card, reviewed, worker, calls, answered>>

\* Mutant: the visit trusts the row it read.
StillAsReadAlways(e) == TRUE

StillAsRead(e) ==
  /\ status[e.run] = e.status
  /\ e.status = "RUNNING" => token[e.run] = e.token

RecoverRow(e) ==
  /\ e \in sweep
  /\ sweep' = sweep \ {e}
  /\ \/ /\ StillAsRead(e)
        /\ status' = [status EXCEPT ![e.run] = ExpiredStatus(e.status)]
        /\ Closes(e.run, "SUPPRESSED")
     \/ /\ ~StillAsRead(e)
        /\ UNCHANGED <<status, card>>
  /\ UNCHANGED <<token, observed, late, granted, reviewed, worker, calls, answered>>

-----------------------------------------------------------------------------
Recovery ==
  \/ \E s \in Active : RecoverShared(s)
  \/ RecoverRead
  \/ \E e \in sweep : RecoverRow(e)

Step(w) ==
  \/ Claim(w) \/ Preflight(w) \/ Reread(w) \/ Prepare(w) \/ Authorize(w)
  \/ Send(w) \/ Answer(w) \/ Settle(w) \/ Expire(w)

Next ==
  \/ \E r \in Shared : Start(r)
  \/ \E r \in Source : Request(r) \/ AuthorityChanges(r)
  \/ \E r \in Runs : Cancel(r) \/ Review(r) \/ TimePasses(r)
  \/ \E w \in Workers : Crash(w) \/ Step(w) \/ (\E r \in Runs : Receive(w, r))
  \/ Recovery

Spec == Init /\ [][Next]_vars

\* The clock runs and the repeatable job runs every minute.  Nothing is
\* assumed of the workers or of the delivery of jobs.
FairSpec ==
  Spec /\ WF_vars(Recovery) /\ \A r \in Runs : WF_vars(TimePasses(r))

-----------------------------------------------------------------------------
\* "One permanent claimant, one read-only provider call": redelivered jobs,
\* crashes and recovery never make a second call, and only the call of a run
\* that had not yet been called can still leave.
OneProviderCall ==
  \A r \in Runs : calls[r] + (IF \E w \in Workers : worker[w].run = r /\ worker[w].pc \in {"authorize", "send"}
                              THEN 1 ELSE 0) <= 1

\* FAILED means that the provider was not called, except for a source answer
\* that was received and then suppressed: an attempt that may have reached the
\* provider is never reported as a failure that can be asked again freely.
FailedWasNotCalled ==
  \A r \in Runs : status[r] = "FAILED" /\ calls[r] > 0 => r \in Source /\ r \in answered

\* The card of a source run and the run tell the same story: pending while the
\* run is open, delivered exactly when it succeeded, suppressed otherwise.
CardAgrees ==
  \A r \in Source :
    /\ card[r] = "PENDING" <=> status[r] \in Active
    /\ card[r] = "DELIVERED" <=> status[r] = "SUCCEEDED"

\* Whatever workers and recovery do, a run has one outcome, decided once, and
\* at most one call.
Abstract ==
  INSTANCE RunOutcome WITH
    outcome <- [r \in Runs |-> IF status[r] = "none" THEN "unasked"
                               ELSE IF status[r] \in Active THEN "open" ELSE status[r]],
    called <- {r \in Runs : calls[r] > 0}

ImplementsRunOutcome == Abstract!Spec

\* A run that was asked for ends, even when every worker crashes or its job is
\* never delivered: otherwise its conversation could never start another.
EventuallyEnds == \A r \in Runs : status[r] = "QUEUED" ~> status[r] \in Terminal

=============================================================================
