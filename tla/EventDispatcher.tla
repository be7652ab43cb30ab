--------------------------- MODULE EventDispatcher ---------------------------
(***************************************************************************)
(* The outbox dispatcher: dispatchDomainEvents and the two administrator   *)
(* operations on dead letters, replay and discard, over the rows of        *)
(* domain_events.  Every database statement of the code is one step; what  *)
(* a replica read or claimed before it is local state that may be stale    *)
(* by the time it is used.                                                 *)
(*                                                                         *)
(* Time is abstracted to what the queries ask of it: whether a pending     *)
(* row's nextAttemptAt has passed (due) and whether a dispatching row's    *)
(* lockedUntil has passed (lapsed).                                        *)
(***************************************************************************)
EXTENDS EventAggregates, Naturals, FiniteSets

CONSTANTS
  MaxSequence,      \* bound: events recorded for one aggregate
  Workers,          \* dispatcher replicas
  Admins,           \* administrators' requests to replay or discard
  Tokens,           \* claim tokens (randomUUID)
  NoToken,          \* a null claimToken
  SubscriberCount,  \* subscribers of an event, run in registration order
  MaxAttempts,      \* maxAttempts
  MaxReplays,       \* MAX_REPLAYS_PER_EVENT
  BatchSize,        \* batchSize
  Stalls            \* whether a live replica may overrun its lease while it
                    \* delivers, although subscriberTimeoutMs < leaseMs

Events == Aggregates \X (1..MaxSequence)
NoEvent == <<>>

ASSUME ConstantsAssumption ==
  /\ MaxSequence \in Nat
  /\ SubscriberCount \in Nat
  /\ MaxAttempts \in Nat \ {0}
  /\ MaxReplays \in Nat
  /\ BatchSize \in Nat
  /\ Stalls \in BOOLEAN
  /\ NoToken \notin Tokens

VARIABLES
  \* columns of domain_events
  status, attempts, replayCount, claimToken, due, lapsed,
  \* locals of a dispatchDomainEvents run, per replica: batch[w][e] is the
  \* attempts column of the claimed row e, 0 when e is not left to process
  pc, token, batch, current, ran,
  \* deliveries that outlived their timeout: the subscribers already run
  zombies,
  \* locals of an administrator's request
  request,
  \* history: subscribers that have handled e at least once, claims made of e
  handled, claims

row    == <<status, attempts, replayCount, claimToken, due, lapsed>>
local  == <<pc, token, batch, current, ran>>
vars   == <<row, local, zombies, request, handled, claims>>

Settled == {"published", "discarded"}
Statuses == {"none", "pending", "dispatching", "published", "dead", "discarded"}

Earlier(f, e) == f[1] = e[1] /\ f[2] < e[2]
EmptyBatch == [e \in Events |-> 0]
NoRequest == [op |-> "none", event |-> NoEvent, seen |-> 0]

-----------------------------------------------------------------------------
Init ==
  /\ status = [e \in Events |-> "none"]
  /\ attempts = [e \in Events |-> 0]
  /\ replayCount = [e \in Events |-> 0]
  /\ claimToken = [e \in Events |-> NoToken]
  /\ due = [e \in Events |-> FALSE]
  /\ lapsed = [e \in Events |-> FALSE]
  /\ pc = [w \in Workers |-> "idle"]
  /\ token = [w \in Workers |-> NoToken]
  /\ batch = [w \in Workers |-> EmptyBatch]
  /\ current = [w \in Workers |-> NoEvent]
  /\ ran = [w \in Workers |-> 0]
  /\ zombies = {}
  /\ request = [a \in Admins |-> NoRequest]
  /\ handled = [e \in Events |-> 0]
  /\ claims = [e \in Events |-> 0]

\* A business transaction that called recordDomainEvent commits, and its rows
\* appear, due at once.
RowsAppear(new) ==
  /\ status' = [e \in Events |-> IF e \in new THEN "pending" ELSE status[e]]
  /\ due' = [e \in Events |-> IF e \in new THEN TRUE ELSE due[e]]
  /\ UNCHANGED <<attempts, replayCount, claimToken, lapsed, local, zombies,
                 request, handled, claims>>

\* They are the next events of their aggregates (EventRecording has the detail,
\* Outbox the composition).
RecordDomainEvents(new) ==
  /\ new # {}
  /\ \A e \in new : status[e] = "none"
  /\ \A e \in new, f \in Events : Earlier(f, e) => status[f] # "none" \/ f \in new
  /\ RowsAppear(new)

-----------------------------------------------------------------------------
\* Time.

NextAttemptArrives(e) ==
  /\ status[e] = "pending" /\ ~due[e]
  /\ due' = [due EXCEPT ![e] = TRUE]
  /\ UNCHANGED <<status, attempts, replayCount, claimToken, lapsed, local,
                 zombies, request, handled, claims>>

\* A replica that holds e's claim and has renewed the lease for it.
Delivering(w, e) == pc[w] \in {"deliver", "publish", "fail"} /\ current[w] = e

LeaseLapses(e) ==
  /\ status[e] = "dispatching" /\ ~lapsed[e]
  /\ \/ Stalls
     \/ \A w \in Workers : ~(Delivering(w, e) /\ token[w] = claimToken[e])
  /\ lapsed' = [lapsed EXCEPT ![e] = TRUE]
  /\ UNCHANGED <<status, attempts, replayCount, claimToken, due, local,
                 zombies, request, handled, claims>>

-----------------------------------------------------------------------------
\* dispatchDomainEvents

\* Mutant: no sweep, an abandoned final attempt stays dispatching.
AbandonedNever == {}

Abandoned == {e \in Events :
                status[e] = "dispatching" /\ lapsed[e] /\ attempts[e] >= MaxAttempts}

\* A tick starts a run, which first dead-letters abandoned final attempts.
DeadLetterAbandonedClaims(w) ==
  /\ pc[w] = "idle"
  /\ pc' = [pc EXCEPT ![w] = "claim"]
  /\ status' = [e \in Events |-> IF e \in Abandoned THEN "dead" ELSE status[e]]
  /\ claimToken' = [e \in Events |-> IF e \in Abandoned THEN NoToken ELSE claimToken[e]]
  /\ lapsed' = [e \in Events |-> lapsed[e] /\ e \notin Abandoned]
  /\ UNCHANGED <<attempts, replayCount, due, token, batch, current, ran,
                 zombies, request, handled, claims>>

\* Mutant: a dead predecessor no longer blocks its successors.
PredecessorsNotInFlight(e) ==
  \A p \in Events : Earlier(p, e) => status[p] \notin {"pending", "dispatching"}

PredecessorsSettled(e) ==
  \A p \in Events : Earlier(p, e) => status[p] \in Settled \cup {"none"}

Due(e) ==
  \/ status[e] = "pending" /\ due[e]
  \/ status[e] = "dispatching" /\ lapsed[e] /\ attempts[e] < MaxAttempts

Candidates == {e \in Events : Due(e) /\ PredecessorsSettled(e)}

\* A fresh UUID is held by no row and by no replica.
FreshTokens ==
  {t \in Tokens : (\A e \in Events : claimToken[e] # t) /\ (\A w \in Workers : token[w] # t)}

\* The UPDATE of the claimed rows, and what it returns to the replica.
ClaimRows(w, claimed, t) ==
  /\ status' = [e \in Events |-> IF e \in claimed THEN "dispatching" ELSE status[e]]
  /\ attempts' = [e \in Events |-> IF e \in claimed THEN attempts[e] + 1 ELSE attempts[e]]
  /\ claimToken' = [e \in Events |-> IF e \in claimed THEN t ELSE claimToken[e]]
  /\ lapsed' = [e \in Events |-> lapsed[e] /\ e \notin claimed]
  /\ due' = [e \in Events |-> due[e] /\ e \notin claimed]
  /\ batch' = [batch EXCEPT ![w] =
                 [e \in Events |-> IF e \in claimed THEN attempts[e] + 1 ELSE 0]]
  /\ token' = [token EXCEPT ![w] = t]
  /\ claims' = [e \in Events |-> IF e \in claimed THEN claims[e] + 1 ELSE claims[e]]

\* SKIP LOCKED and ORDER BY decide which of the candidates fill the batch:
\* any of them may.
ClaimDomainEvents(w) ==
  /\ pc[w] = "claim"
  /\ \E claimed \in SUBSET Candidates, t \in FreshTokens :
       /\ claimed # {} /\ Cardinality(claimed) <= BatchSize
       /\ ClaimRows(w, claimed, t)
  /\ pc' = [pc EXCEPT ![w] = "renew"]
  /\ UNCHANGED <<replayCount, current, ran, zombies, request, handled>>

ClaimNothing(w) ==
  /\ pc[w] = "claim"
  /\ Candidates = {}
  /\ pc' = [pc EXCEPT ![w] = "idle"]
  /\ UNCHANGED <<row, token, batch, current, ran, zombies, request, handled, claims>>

\* Mutant: the update is conditional on the row's id alone.
HoldsRow(w, e) == TRUE

\* Mutant: the update does not check the claim token.
HoldsDispatching(w, e) == status[e] = "dispatching"

\* The where clause of settle and of renewLease.
HoldsClaim(w, e) == status[e] = "dispatching" /\ claimToken[e] = token[w]

RenewLease(w, e) ==
  /\ pc[w] = "renew" /\ batch[w][e] # 0
  /\ \/ /\ HoldsClaim(w, e)
        /\ lapsed' = [lapsed EXCEPT ![e] = FALSE]
        /\ pc' = [pc EXCEPT ![w] = "deliver"]
        /\ current' = [current EXCEPT ![w] = e]
        /\ UNCHANGED batch
     \/ /\ ~HoldsClaim(w, e)
        /\ batch' = [batch EXCEPT ![w][e] = 0]
        /\ UNCHANGED <<lapsed, pc, current>>
  /\ UNCHANGED <<status, attempts, replayCount, claimToken, due, token, ran,
                 zombies, request, handled, claims>>

\* The batch is done: the next round, or the end of the run at maxRounds.
NextRound(w) ==
  /\ pc[w] = "renew" /\ batch[w] = EmptyBatch
  /\ token' = [token EXCEPT ![w] = NoToken]
  /\ \E next \in {"claim", "idle"} : pc' = [pc EXCEPT ![w] = next]
  /\ UNCHANGED <<row, batch, current, ran, zombies, request, handled, claims>>

\* Subscriber number n has handled e.
Handle(e, n) == handled' = [handled EXCEPT ![e] = IF @ < n THEN n ELSE @]

SubscriberHandles(w) ==
  /\ pc[w] = "deliver" /\ ran[w] < SubscriberCount
  /\ ran' = [ran EXCEPT ![w] = @ + 1]
  /\ Handle(current[w], ran[w] + 1)
  /\ UNCHANGED <<row, pc, token, batch, current, zombies, request, claims>>

SubscribersDone(w) ==
  /\ pc[w] = "deliver" /\ ran[w] = SubscriberCount
  /\ pc' = [pc EXCEPT ![w] = "publish"]
  /\ UNCHANGED <<row, token, batch, current, ran, zombies, request, handled, claims>>

\* Mutant: a timeout is taken for a success.
SubscribersTimeOutDone(w) ==
  /\ pc[w] = "deliver"
  /\ pc' = [pc EXCEPT ![w] = "publish"]
  /\ zombies' \in {zombies, zombies \cup {<<current[w], ran[w]>>}}
  /\ UNCHANGED <<row, token, batch, current, ran, request, handled, claims>>

\* A subscriber throws, or the timeout wins the race against the subscribers,
\* which then go on running in the background.
SubscribersFail(w) ==
  /\ pc[w] = "deliver"
  /\ pc' = [pc EXCEPT ![w] = "fail"]
  /\ zombies' \in {zombies, zombies \cup {<<current[w], ran[w]>>}}
  /\ UNCHANGED <<row, token, batch, current, ran, request, handled, claims>>

ZombieHandles(z) ==
  /\ z[2] < SubscriberCount
  /\ Handle(z[1], z[2] + 1)
  /\ zombies' = (zombies \ {z}) \cup {<<z[1], z[2] + 1>>}
  /\ UNCHANGED <<row, local, request, claims>>

ZombieEnds(z) ==
  /\ zombies' = zombies \ {z}
  /\ UNCHANGED <<row, local, request, handled, claims>>

\* The run is done with its current event.
Finish(w) ==
  /\ pc' = [pc EXCEPT ![w] = "renew"]
  /\ batch' = [batch EXCEPT ![w][current[w]] = 0]
  /\ current' = [current EXCEPT ![w] = NoEvent]
  /\ ran' = [ran EXCEPT ![w] = 0]
  /\ UNCHANGED <<token, zombies, request, handled, claims>>

\* settle: a conditional update that leaves the row alone when the claim was
\* lost.  A retry is never due at once: its delay is at least half of baseDelayMs.
Settle(w, e, outcome) ==
  IF HoldsClaim(w, e)
  THEN /\ status' = [status EXCEPT ![e] = outcome]
       /\ claimToken' = [claimToken EXCEPT ![e] = NoToken]
       /\ lapsed' = [lapsed EXCEPT ![e] = FALSE]
       /\ due' = [due EXCEPT ![e] = FALSE]
       /\ UNCHANGED <<attempts, replayCount>>
  ELSE UNCHANGED row

Publish(w) ==
  /\ pc[w] = "publish"
  /\ Settle(w, current[w], "published")
  /\ Finish(w)

DeadLetter(w) ==
  /\ pc[w] = "fail" /\ batch[w][current[w]] >= MaxAttempts
  /\ Settle(w, current[w], "dead")
  /\ Finish(w)

Retry(w) ==
  /\ pc[w] = "fail" /\ batch[w][current[w]] < MaxAttempts
  /\ Settle(w, current[w], "pending")
  /\ Finish(w)

\* The process dies, or a database error ends its run: locals are lost.
Crash(w) ==
  /\ pc[w] # "idle"
  /\ pc' = [pc EXCEPT ![w] = "idle"]
  /\ token' = [token EXCEPT ![w] = NoToken]
  /\ batch' = [batch EXCEPT ![w] = EmptyBatch]
  /\ current' = [current EXCEPT ![w] = NoEvent]
  /\ ran' = [ran EXCEPT ![w] = 0]
  /\ UNCHANGED <<row, zombies, request, handled, claims>>

-----------------------------------------------------------------------------
\* replayDeadDomainEvents and discardDeadDomainEvents: one read, then one
\* conditional update per event on what was read.

ReadDead(a, op, e) ==
  /\ request[a] = NoRequest
  /\ status[e] = "dead"
  /\ op = "replay" => replayCount[e] < MaxReplays
  /\ request' = [request EXCEPT ![a] = [op |-> op, event |-> e, seen |-> replayCount[e]]]
  /\ UNCHANGED <<row, local, zombies, handled, claims>>

\* The where clause of both updates.
StillDead(a, e) == status[e] = "dead" /\ replayCount[e] = request[a].seen

ReplayDeadDomainEvent(a) ==
  /\ request[a].op = "replay"
  /\ LET e == request[a].event IN
     IF StillDead(a, e)
     THEN /\ status' = [status EXCEPT ![e] = "pending"]
          /\ attempts' = [attempts EXCEPT ![e] = 0]
          /\ due' = [due EXCEPT ![e] = TRUE]
          /\ replayCount' = [replayCount EXCEPT ![e] = @ + 1]
          /\ UNCHANGED <<claimToken, lapsed>>
     ELSE UNCHANGED row
  /\ request' = [request EXCEPT ![a] = NoRequest]
  /\ UNCHANGED <<local, zombies, handled, claims>>

DiscardDeadDomainEvent(a) ==
  /\ request[a].op = "discard"
  /\ LET e == request[a].event IN
     IF StillDead(a, e)
     THEN /\ status' = [status EXCEPT ![e] = "discarded"]
          /\ UNCHANGED <<attempts, replayCount, claimToken, due, lapsed>>
     ELSE UNCHANGED row
  /\ request' = [request EXCEPT ![a] = NoRequest]
  /\ UNCHANGED <<local, zombies, handled, claims>>

-----------------------------------------------------------------------------
WorkerStep(w) ==
  \/ DeadLetterAbandonedClaims(w) \/ ClaimDomainEvents(w) \/ ClaimNothing(w)
  \/ \E e \in Events : RenewLease(w, e)
  \/ NextRound(w)
  \/ SubscriberHandles(w) \/ SubscribersDone(w) \/ SubscribersFail(w)
  \/ Publish(w) \/ DeadLetter(w) \/ Retry(w)

AdminStep(a) ==
  \/ \E op \in {"replay", "discard"}, e \in Events : ReadDead(a, op, e)
  \/ ReplayDeadDomainEvent(a) \/ DiscardDeadDomainEvent(a)

Dispatch ==
  \/ \E e \in Events : NextAttemptArrives(e) \/ LeaseLapses(e)
  \/ \E w \in Workers : WorkerStep(w) \/ Crash(w)
  \/ \E z \in zombies : ZombieHandles(z) \/ ZombieEnds(z)
  \/ \E a \in Admins : AdminStep(a)

Next == (\E new \in SUBSET Events : RecordDomainEvents(new)) \/ Dispatch

Spec == Init /\ [][Next]_vars

\* The scheduler ticks every 15 seconds and time passes.  A replica is not
\* killed every single time it is about to claim (strong fairness of the
\* claim); it may be killed at every other point, any number of times.
Fairness ==
  /\ \A e \in Events : WF_vars(NextAttemptArrives(e)) /\ WF_vars(LeaseLapses(e))
  /\ \A w \in Workers : WF_vars(WorkerStep(w)) /\ SF_vars(ClaimDomainEvents(w))

FairSpec == Spec /\ Fairness

-----------------------------------------------------------------------------
\* Every variable has its type, and a row's lease columns agree with its
\* status as the CHECK constraints of the migration demand.
TypeOK ==
  /\ status \in [Events -> Statuses]
  /\ attempts \in [Events -> Nat]
  /\ replayCount \in [Events -> Nat]
  /\ claimToken \in [Events -> Tokens \cup {NoToken}]
  /\ due \in [Events -> BOOLEAN]
  /\ lapsed \in [Events -> BOOLEAN]
  /\ pc \in [Workers -> {"idle", "claim", "renew", "deliver", "publish", "fail"}]
  /\ token \in [Workers -> Tokens \cup {NoToken}]
  /\ batch \in [Workers -> [Events -> Nat]]
  /\ current \in [Workers -> Events \cup {NoEvent}]
  /\ ran \in [Workers -> 0..SubscriberCount]
  /\ zombies \subseteq Events \X (0..SubscriberCount)
  /\ request \in [Admins -> [op : {"none", "replay", "discard"},
                              event : Events \cup {NoEvent}, seen : Nat]]
  /\ handled \in [Events -> 0..SubscriberCount]
  /\ claims \in [Events -> Nat]
  /\ \A e \in Events : claimToken[e] # NoToken <=> status[e] = "dispatching"

\* However replicas crash, overrun their leases and race for a row, and
\* however administrators race to replay it, an event is claimed (and so
\* delivered) at most MaxAttempts times for each of its MaxReplays + 1 lives.
ClaimBudget == \A e \in Events : claims[e] <= MaxAttempts * (MaxReplays + 1)

\* Consumers see the events of an aggregate begin in sequence order: once any
\* subscriber has handled an event, every earlier event of the aggregate is
\* settled, and was therefore handed to every subscriber or discarded.
AggregateOrder ==
  \A e, f \in Events : handled[e] > 0 /\ Earlier(f, e) => status[f] \in Settled

\* At least once: an event is marked published only when every subscriber has
\* handled it, whichever replica delivered and whichever one settled it.
PublishedWasHandled ==
  \A e \in Events : status[e] = "published" => handled[e] = SubscriberCount

\* What renewLease and subscriberTimeoutMs < leaseMs are for: unless a replica
\* stalls past its lease, two replicas never run an event's subscribers at
\* the same time.
ExclusiveDelivery ==
  ~Stalls => \A e \in Events, v, w \in Workers :
               Delivering(v, e) /\ Delivering(w, e) => v = w

\* A replica that lost its lease, or an administrator who read the row before
\* it changed, never takes a published or discarded event back.
SettledIsFinal ==
  [][\A e \in Events : status[e] \in Settled => status'[e] = status[e]]_vars

\* Every recorded event is published, dead-lettered or discarded in the end,
\* or waits behind a dead letter of its aggregate; crashes do not lose it.
EventuallySettled ==
  \A e \in Events :
    status[e] # "none" ~>
      \/ status[e] \in Settled \cup {"dead"}
      \/ \E f \in Events : Earlier(f, e) /\ status[f] = "dead"

=============================================================================
