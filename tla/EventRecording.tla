---------------------------- MODULE EventRecording ----------------------------
(***************************************************************************)
(* recordDomainEvent: concurrent business transactions append events to    *)
(* the outbox.  Each statement of the function is a step; a transaction    *)
(* may record several events, and its rows become visible to the others    *)
(* and to the dispatcher when it commits, with the business change.        *)
(* Transactions run under READ COMMITTED: a statement sees the rows        *)
(* committed before it and the transaction's own.                          *)
(***************************************************************************)
EXTENDS EventAggregates, Naturals, FiniteSets, FiniteSetsExt

CONSTANTS
  Keys,           \* idempotency keys
  Facts,          \* (type, schema version, payload) of an event
  Producers,      \* business transactions that run at the same time
  MaxPerTx,       \* bound: events one transaction records
  NoProducer      \* a free advisory lock

ASSUME RecordingAssumption ==
  /\ MaxPerTx \in Nat
  /\ NoProducer \notin Producers
  /\ Aggregates # {} /\ Keys # {} /\ Facts # {}

VARIABLES
  events,   \* committed rows of domain_events
  lock,     \* pg_advisory_xact_lock of each aggregate: its holder
  tx, input, sequence, written  \* locals and uncommitted rows of a transaction

transactions == <<events, lock, tx, input, sequence, written>>

Rows == [aggregate : Aggregates, sequence : Nat \ {0}, key : Keys, fact : Facts]
Inputs == [aggregate : Aggregates, key : Keys, fact : Facts]

RecordingInit ==
  /\ events = {}
  /\ lock = [g \in Aggregates |-> NoProducer]
  /\ tx = [p \in Producers |-> "open"]
  /\ input \in [Producers -> {CHOOSE i \in Inputs : TRUE}]
  /\ sequence = [p \in Producers |-> 0]
  /\ written = [p \in Producers |-> {}]

Go(p, next) == tx' = [tx EXCEPT ![p] = next]

-----------------------------------------------------------------------------
\* The transaction makes its business write and calls recordDomainEvent.
Call(p, i) ==
  /\ tx[p] = "open"
  /\ Cardinality(written[p]) < MaxPerTx
  /\ input' = [input EXCEPT ![p] = i]
  /\ Go(p, "lock")
  /\ UNCHANGED <<events, lock, sequence, written>>

\* Mutant: the advisory lock is never taken.
SkipAggregateLock(p) ==
  /\ tx[p] = "lock"
  /\ Go(p, "find")
  /\ UNCHANGED <<events, lock, input, sequence, written>>

AggregateLock(p) ==
  LET g == input[p].aggregate IN
  /\ tx[p] = "lock"
  /\ lock[g] \in {NoProducer, p}
  /\ lock' = [lock EXCEPT ![g] = p]
  /\ Go(p, "find")
  /\ UNCHANGED <<events, input, sequence, written>>

Visible(p) == events \cup written[p]

\* The transaction ends and its locks are released.
EndTransaction(p, committed) ==
  /\ events' = events \cup committed
  /\ lock' = [g \in Aggregates |-> IF lock[g] = p THEN NoProducer ELSE lock[g]]
  /\ written' = [written EXCEPT ![p] = {}]
  /\ sequence' = [sequence EXCEPT ![p] = 0]
  /\ Go(p, "open")
  /\ UNCHANGED input

SameFact(e, i) == e.aggregate = i.aggregate /\ e.fact = i.fact

\* findFirst on the idempotency key: the event exists (a duplicate call), or
\* the key names another fact and the error aborts the transaction, or the
\* event is new.
FindExisting(p) ==
  /\ tx[p] = "find"
  /\ LET existing == {e \in Visible(p) : e.key = input[p].key} IN
     \/ /\ \E e \in existing : SameFact(e, input[p])
        /\ Go(p, "open")
        /\ UNCHANGED <<events, lock, input, sequence, written>>
     \/ /\ \E e \in existing : ~SameFact(e, input[p])
        /\ EndTransaction(p, {})
     \/ /\ existing = {}
        /\ Go(p, "max")
        /\ UNCHANGED <<events, lock, input, sequence, written>>

\* Mutant: the maximum is taken over every aggregate.
LastSequenceOfAll(p) == Max({0} \cup {e.sequence : e \in Visible(p)})

LastSequence(p) ==
  Max({0} \cup {e.sequence : e \in {x \in Visible(p) : x.aggregate = input[p].aggregate}})

ReadLastSequence(p) ==
  /\ tx[p] = "max"
  /\ sequence' = [sequence EXCEPT ![p] = LastSequence(p) + 1]
  /\ Go(p, "create")
  /\ UNCHANGED <<events, lock, input, written>>

\* A row that violates a unique index together with the row p inserts.
Collides(e, p) ==
  \/ e.key = input[p].key
  \/ e.aggregate = input[p].aggregate /\ e.sequence = sequence[p]

\* The insert waits for another transaction's uncommitted colliding row, and
\* fails (P2002, which aborts the transaction) on a visible one.
Create(p) ==
  /\ tx[p] = "create"
  /\ \A q \in Producers \ {p} : \A e \in written[q] : ~Collides(e, p)
  /\ \/ /\ \E e \in Visible(p) : Collides(e, p)
        /\ EndTransaction(p, {})
     \/ /\ \A e \in Visible(p) : ~Collides(e, p)
        /\ written' = [written EXCEPT ![p] = @ \cup
             {[aggregate |-> input[p].aggregate, sequence |-> sequence[p],
               key |-> input[p].key, fact |-> input[p].fact]}]
        /\ sequence' = [sequence EXCEPT ![p] = 0]
        /\ Go(p, "open")
        /\ UNCHANGED <<events, lock, input>>

Commit(p) ==
  /\ tx[p] = "open" /\ written[p] # {}
  /\ EndTransaction(p, written[p])

\* The business transaction fails, its process dies, or PostgreSQL picks it as
\* the victim of a lock-order deadlock.
Rollback(p) ==
  /\ tx[p] # "open" \/ written[p] # {}
  /\ EndTransaction(p, {})

Statement(p) ==
  \/ \E i \in Inputs : Call(p, i)
  \/ AggregateLock(p) \/ FindExisting(p) \/ ReadLastSequence(p) \/ Create(p)
  \/ Rollback(p)

RecordingNext == \E p \in Producers : Statement(p) \/ Commit(p)

RecordingSpec == RecordingInit /\ [][RecordingNext]_transactions

-----------------------------------------------------------------------------
\* Every variable has its type.
RecordingTypeOK ==
  /\ events \subseteq Rows
  /\ lock \in [Aggregates -> Producers \cup {NoProducer}]
  /\ tx \in [Producers -> {"open", "lock", "find", "max", "create"}]
  /\ input \in [Producers -> Inputs]
  /\ sequence \in [Producers -> Nat]
  /\ written \in [Producers -> SUBSET Rows]

\* The committed events of an aggregate are numbered 1, 2, 3... without a gap
\* or a repetition, whichever transactions commit, fail or roll back: the
\* dispatcher's ordering query never waits for a number that will not come.
ContiguousSequences ==
  \A g \in Aggregates :
    LET ofG == {e \in events : e.aggregate = g} IN
    {e.sequence : e \in ofG} = 1..Cardinality(ofG)

\* What the advisory lock adds to the unique index: a business transaction is
\* never aborted because another one took its sequence number.
NoSequenceCollision ==
  \A p \in Producers : tx[p] = "create" =>
    \A e \in events \cup UNION {written[q] : q \in Producers} :
      ~(e.aggregate = input[p].aggregate /\ e.sequence = sequence[p])

=============================================================================
