---------------------------- MODULE OutboxProofs ----------------------------
(***************************************************************************)
(* Proofs about the outbox, for any number of aggregates, transactions,    *)
(* events, replicas, administrators and subscribers: first the recording   *)
(* of events, then their dispatch, and then the two together.              *)
(***************************************************************************)
EXTENDS Outbox, FunctionTheorems, FiniteSetTheorems, TLAPS

-----------------------------------------------------------------------------
\* The rows of aggregate g among S, and that a set of rows is numbered 1..n
\* without a gap or a repetition.
Of(g, S) == {e \in S : e.aggregate = g}

Numbered(S, n) ==
  /\ {e.sequence : e \in S} = 1..n
  /\ \A e, f \in S : e.sequence = f.sequence => e = f

\* A transaction holds the lock of the aggregate it is numbering, and of every
\* aggregate it has inserted a row of, until it ends.
LockInv ==
  /\ \A p \in Producers : tx[p] \in {"find", "max", "create"} => lock[input[p].aggregate] = p
  /\ \A p \in Producers : \A e \in written[p] : lock[e.aggregate] = p

\* What a transaction sees of an aggregate is numbered without a gap, and so is
\* what is committed; the number a transaction computed is still the next one.
NumberInv ==
  /\ \A g \in Aggregates : \E n \in Nat : Numbered(Of(g, events), n)
  /\ \A p \in Producers, g \in Aggregates : \E n \in Nat : Numbered(Of(g, Visible(p)), n)
  /\ \A p \in Producers : tx[p] = "create" =>
       \E n \in Nat : Numbered(Of(input[p].aggregate, Visible(p)), n) /\ sequence[p] = n + 1

RecordingInv == RecordingTypeOK /\ LockInv /\ NumberInv

-----------------------------------------------------------------------------
\* Sets of numbered rows.

LEMMA NumberedCardinality ==
  ASSUME NEW S, NEW n \in Nat, Numbered(S, n)
  PROVE  {e.sequence : e \in S} = 1..Cardinality(S)
<1> DEFINE f == [e \in S |-> e.sequence]
<1>1. f \in [S -> 1..n]
  BY DEF Numbered
<1>2. \A a, b \in S : f[a] = f[b] => a = b
  BY DEF Numbered
<1>3. \A t \in 1..n : \E e \in S : f[e] = t
  BY DEF Numbered
<1> HIDE DEF f
<1>4. f \in Bijection(S, 1..n)
  BY <1>1, <1>2, <1>3, Fun_IsBij
<1>5. ExistsBijection(1..n, S)
  BY <1>4, Fun_ExistsBij, Fun_ExistsBijSymmetric
<1>6. Cardinality(S) = n
  BY <1>5, FS_CountingElements
<1> QED
  BY <1>6 DEF Numbered

LEMMA NumberedMax ==
  ASSUME NEW S, NEW n \in Nat, Numbered(S, n)
  PROVE  Max({0} \cup {e.sequence : e \in S}) = n
<1> DEFINE N == {0} \cup {e.sequence : e \in S}
<1>1. N = 0..n
  BY DEF Numbered
<1> HIDE DEF N
<1>2. n \in N /\ \A m \in N : n >= m
  BY <1>1
<1>3. \A x \in N : (\A m \in N : x >= m) => x = n
  BY <1>1
<1>4. Max(N) = n
  BY <1>2, <1>3 DEF Max
<1> QED
  BY <1>4 DEF N

LEMMA NumberedNext ==
  ASSUME NEW S, NEW n \in Nat, Numbered(S, n), NEW r, r.sequence = n + 1
  PROVE  Numbered(S \cup {r}, n + 1)
<1>1. {e.sequence : e \in S \cup {r}} = {e.sequence : e \in S} \cup {n + 1}
  OBVIOUS
<1>2. 1..(n + 1) = (1..n) \cup {n + 1}
  OBVIOUS
<1>3. \A e \in S : e.sequence \in 1..n
  BY DEF Numbered
<1>4. \A e \in S : e.sequence # r.sequence
  BY <1>3
<1> QED
  BY <1>1, <1>2, <1>4 DEF Numbered

LEMMA RecordingInvInit ==
  ASSUME RecordingInit
  PROVE  RecordingInv
<1>1. RecordingTypeOK
  <2>1. (CHOOSE i \in Inputs : TRUE) \in Inputs
    <3>1. PICK g \in Aggregates, k \in Keys, f \in Facts : TRUE
      BY RecordingAssumption
    <3>2. [aggregate |-> g, key |-> k, fact |-> f] \in Inputs
      BY DEF Inputs
    <3> QED
      BY <3>2
  <2>2. input \in [Producers -> Inputs]
    BY <2>1 DEF RecordingInit
  <2> QED
    BY <2>2 DEF RecordingInit, RecordingTypeOK
<1>2. LockInv
  BY DEF RecordingInit, LockInv
<1>3. NumberInv
  <2>1. \A g : Of(g, {}) = {}
    BY DEF Of
  <2>2. Numbered({}, 0)
    BY DEF Numbered
  <2>3. \A p \in Producers : Visible(p) = {}
    BY DEF RecordingInit, Visible
  <2> QED
    BY <2>1, <2>2, <2>3 DEF RecordingInit, NumberInv
<1> QED
  BY <1>1, <1>2, <1>3 DEF RecordingInv

-----------------------------------------------------------------------------
\* The inductive step.

\* A transaction has no row of an aggregate whose lock another one holds.
LEMMA NoRowWithoutLock ==
  ASSUME RecordingInv, NEW p \in Producers, NEW g \in Aggregates, lock[g] # p
  PROVE  Of(g, written[p]) = {}
  BY DEF RecordingInv, LockInv, Of

LEMMA EndStep ==
  ASSUME RecordingInv, NEW p \in Producers, NEW C, C = {} \/ C = written[p], EndTransaction(p, C)
  PROVE  RecordingInv'
<1> USE DEF EndTransaction, Go
<1>0. /\ written \in [Producers -> SUBSET Rows] /\ tx \in [Producers -> {"open", "lock", "find", "max", "create"}]
      /\ lock \in [Aggregates -> Producers \cup {NoProducer}] /\ input \in [Producers -> Inputs]
      /\ \A q \in Producers : input[q].aggregate \in Aggregates
  BY DEF RecordingInv, RecordingTypeOK, Inputs
<1>1. /\ written'[p] = {} /\ tx'[p] = "open"
      /\ \A q \in Producers \ {p} :
           written'[q] = written[q] /\ tx'[q] = tx[q] /\ sequence'[q] = sequence[q]
  BY <1>0 DEF RecordingInv, RecordingTypeOK
<1>2. \A q \in Producers \ {p}, g \in Aggregates : lock[g] = q => lock'[g] = q
  BY <1>0
<1>3. RecordingTypeOK'
  <2>1. events' \subseteq Rows /\ written' \in [Producers -> SUBSET Rows]
    BY <1>0 DEF RecordingInv, RecordingTypeOK
  <2>2. lock' \in [Aggregates -> Producers \cup {NoProducer}]
    BY <1>0
  <2>3. /\ tx' \in [Producers -> {"open", "lock", "find", "max", "create"}]
        /\ sequence' \in [Producers -> Nat]
    BY <1>0 DEF RecordingInv, RecordingTypeOK
  <2> QED
    BY <1>0, <2>1, <2>2, <2>3 DEF RecordingTypeOK
<1>4. LockInv'
  <2>1. \A q \in Producers : \A e \in written[q] : e.aggregate \in Aggregates
    BY <1>0 DEF Rows
  <2> QED
    BY <1>0, <1>1, <1>2, <2>1 DEF RecordingInv, LockInv
<1>5. ASSUME NEW g \in Aggregates
      PROVE  Of(g, events') = Of(g, events) \/ Of(g, events') = Of(g, Visible(p))
  BY DEF Of, Visible
<1>6. ASSUME NEW q \in Producers \ {p}, NEW g \in Aggregates
      PROVE  /\ \/ Of(g, Visible(q)') = Of(g, Visible(q))
                \/ Of(g, Visible(q)') = Of(g, Visible(p))
             /\ lock[g] = q => Of(g, Visible(q)') = Of(g, Visible(q))
  <2>0. Visible(q)' = events \cup C \cup written[q]
    BY <1>1 DEF Visible
  <2>1. CASE lock[g] = q
    BY <2>0, <2>1, NoRowWithoutLock DEF Of, Visible
  <2>2. CASE lock[g] # q
    BY <2>0, <2>2, NoRowWithoutLock DEF Of, Visible
  <2> QED
    BY <2>1, <2>2
<1>7. NumberInv'
  <2>1. ASSUME NEW g \in Aggregates PROVE \E n \in Nat : Numbered(Of(g, events'), n)
    BY <1>5 DEF RecordingInv, NumberInv
  <2>2. ASSUME NEW q \in Producers, NEW g \in Aggregates
        PROVE  \E n \in Nat : Numbered(Of(g, Visible(q)'), n)
    <3>1. CASE q = p
      <4>1. Visible(q)' = events'
        BY <1>1, <3>1 DEF Visible
      <4> QED
        BY <2>1, <4>1
    <3>2. CASE q # p
      BY <1>6, <3>2 DEF RecordingInv, NumberInv
    <3> QED
      BY <3>1, <3>2
  <2>3. ASSUME NEW q \in Producers, tx'[q] = "create"
        PROVE  \E n \in Nat : /\ Numbered(Of(input'[q].aggregate, Visible(q)'), n)
                              /\ sequence'[q] = n + 1
    <3>1. q # p /\ tx[q] = "create" /\ sequence'[q] = sequence[q] /\ input'[q] = input[q]
      BY <1>1, <2>3
    <3>2. Of(input[q].aggregate, Visible(q)') = Of(input[q].aggregate, Visible(q))
      BY <1>0, <1>6, <3>1 DEF RecordingInv, LockInv
    <3> QED
      BY <3>1, <3>2 DEF RecordingInv, NumberInv
  <2> QED
    BY <2>1, <2>2, <2>3 DEF NumberInv, Of, Numbered
<1> QED
  BY <1>3, <1>4, <1>7 DEF RecordingInv

\* A step that writes no row and computes no number.
LEMMA LocalStep ==
  ASSUME RecordingInv, NEW p \in Producers, UNCHANGED <<events, sequence, written>>,
         RecordingTypeOK', LockInv', tx'[p] # "create",
         \A q \in Producers \ {p} : tx'[q] = tx[q] /\ input'[q] = input[q]
  PROVE  RecordingInv'
<1>1. \A q \in Producers : Visible(q)' = Visible(q)
  BY DEF Visible
<1>2. ASSUME NEW q \in Producers, tx'[q] = "create"
      PROVE  \E n \in Nat : /\ Numbered(Of(input'[q].aggregate, Visible(q)'), n)
                            /\ sequence'[q] = n + 1
  BY <1>1, <1>2 DEF RecordingInv, NumberInv
<1>3. NumberInv'
  BY <1>1, <1>2 DEF RecordingInv, NumberInv, Of, Numbered
<1> QED
  BY <1>3 DEF RecordingInv

LEMMA CallStep ==
  ASSUME RecordingInv, NEW p \in Producers, NEW i \in Inputs, Call(p, i)
  PROVE  RecordingInv'
<1> USE DEF Call, Go
<1>1. /\ tx'[p] = "lock" /\ RecordingTypeOK'
      /\ \A q \in Producers \ {p} : tx'[q] = tx[q] /\ input'[q] = input[q]
  BY DEF RecordingInv, RecordingTypeOK
<1>2. LockInv'
  BY <1>1 DEF RecordingInv, LockInv
<1> QED
  BY <1>1, <1>2, LocalStep

LEMMA AggregateLockStep ==
  ASSUME RecordingInv, NEW p \in Producers, AggregateLock(p)
  PROVE  RecordingInv'
<1> USE DEF AggregateLock, Go
<1>0. /\ lock \in [Aggregates -> Producers \cup {NoProducer}] /\ input[p].aggregate \in Aggregates
      /\ \A q \in Producers : input[q].aggregate \in Aggregates
      /\ \A q \in Producers : \A e \in written[q] : e.aggregate \in Aggregates
  BY DEF RecordingInv, RecordingTypeOK, Inputs, Rows
<1>1. /\ tx'[p] = "find" /\ tx' \in [Producers -> {"open", "lock", "find", "max", "create"}]
      /\ \A q \in Producers \ {p} : tx'[q] = tx[q]
  BY DEF RecordingInv, RecordingTypeOK
<1>2. /\ lock' \in [Aggregates -> Producers \cup {NoProducer}]
      /\ lock'[input[p].aggregate] = p
      /\ \A q \in Producers, g \in Aggregates : lock[g] = q => lock'[g] = q
  BY <1>0, RecordingAssumption
<1>3. RecordingTypeOK'
  BY <1>1, <1>2 DEF RecordingInv, RecordingTypeOK
<1>4. LockInv'
  BY <1>0, <1>1, <1>2 DEF RecordingInv, LockInv
<1> QED
  BY <1>1, <1>3, <1>4, LocalStep

LEMMA FindExistingStep ==
  ASSUME RecordingInv, NEW p \in Producers, FindExisting(p)
  PROVE  RecordingInv'
<1>1. CASE EndTransaction(p, {})
  BY <1>1, EndStep
<1>2. ASSUME NEW next \in {"open", "max"}, Go(p, next),
             UNCHANGED <<events, lock, input, sequence, written>>
      PROVE  RecordingInv'
  <2>1. /\ tx'[p] = next /\ RecordingTypeOK'
        /\ \A q \in Producers \ {p} : tx'[q] = tx[q]
    BY <1>2 DEF Go, RecordingInv, RecordingTypeOK
  <2>2. LockInv'
    BY <1>2, <2>1 DEF FindExisting, RecordingInv, LockInv
  <2> QED
    BY <1>2, <2>1, <2>2, LocalStep
<1> QED
  BY <1>1, <1>2 DEF FindExisting

LEMMA ReadLastSequenceStep ==
  ASSUME RecordingInv, NEW p \in Producers, ReadLastSequence(p)
  PROVE  RecordingInv'
<1> USE DEF ReadLastSequence, Go
<1>0. input[p].aggregate \in Aggregates
  BY DEF RecordingInv, RecordingTypeOK, Inputs
<1>1. PICK n \in Nat : Numbered(Of(input[p].aggregate, Visible(p)), n)
  BY <1>0 DEF RecordingInv, NumberInv
<1>2. LastSequence(p) = n
  BY <1>1, NumberedMax DEF LastSequence, Of
<1>3. /\ sequence'[p] = n + 1 /\ tx'[p] = "create"
      /\ \A q \in Producers \ {p} : tx'[q] = tx[q] /\ sequence'[q] = sequence[q]
  BY <1>2 DEF RecordingInv, RecordingTypeOK
<1>4. RecordingTypeOK'
  BY <1>2 DEF RecordingInv, RecordingTypeOK
<1>5. LockInv'
  BY <1>3 DEF RecordingInv, LockInv
<1>6. \A q \in Producers : Visible(q)' = Visible(q)
  BY DEF Visible
<1>7. ASSUME NEW q \in Producers, tx'[q] = "create"
      PROVE  \E m \in Nat : /\ Numbered(Of(input[q].aggregate, Visible(q)), m)
                            /\ sequence'[q] = m + 1
  BY <1>1, <1>3, <1>7 DEF RecordingInv, NumberInv
<1>8. NumberInv'
  BY <1>6, <1>7 DEF RecordingInv, NumberInv, Of, Numbered
<1> QED
  BY <1>4, <1>5, <1>8 DEF RecordingInv

\* No row of another transaction has the number that this one computed.
LEMMA NumberIsFree ==
  ASSUME RecordingInv, NEW p \in Producers, tx[p] = "create", NEW q \in Producers,
         NEW e \in events \cup written[q], e.aggregate = input[p].aggregate
  PROVE  e.sequence # sequence[p]
<1>0. input[p].aggregate \in Aggregates
  BY DEF RecordingInv, RecordingTypeOK, Inputs
<1>1. e \in Of(input[p].aggregate, Visible(p))
  BY <1>0, NoRowWithoutLock DEF RecordingInv, LockInv, Of, Visible
<1>2. PICK n \in Nat : Numbered(Of(input[p].aggregate, Visible(p)), n) /\ sequence[p] = n + 1
  BY DEF RecordingInv, NumberInv
<1>3. e.sequence \in 1..n
  BY <1>1, <1>2 DEF Numbered
<1> QED
  BY <1>2, <1>3

LEMMA CreateStep ==
  ASSUME RecordingInv, NEW p \in Producers, Create(p)
  PROVE  RecordingInv'
<1> DEFINE g == input[p].aggregate
           r == [aggregate |-> g, sequence |-> sequence[p], key |-> input[p].key,
                 fact |-> input[p].fact]
<1>1. CASE EndTransaction(p, {})
  BY <1>1, EndStep
<1>2. CASE /\ written' = [written EXCEPT ![p] = @ \cup {r}]
           /\ sequence' = [sequence EXCEPT ![p] = 0]
           /\ Go(p, "open") /\ UNCHANGED <<events, lock, input>>
  <2>0. tx[p] = "create" /\ lock[g] = p /\ g \in Aggregates
    BY DEF Create, RecordingInv, LockInv, RecordingTypeOK, Inputs
  <2>1. PICK n \in Nat : Numbered(Of(g, Visible(p)), n) /\ sequence[p] = n + 1
    BY <2>0 DEF RecordingInv, NumberInv
  <2>2. r \in Rows /\ r.aggregate = g /\ r.sequence = n + 1
    BY <2>0, <2>1 DEF Rows, RecordingInv, RecordingTypeOK, Inputs
  <2>3. /\ written'[p] = written[p] \cup {r} /\ tx'[p] = "open"
        /\ \A q \in Producers \ {p} :
             written'[q] = written[q] /\ tx'[q] = tx[q] /\ sequence'[q] = sequence[q]
    BY <1>2 DEF Go, RecordingInv, RecordingTypeOK
  <2>4. RecordingTypeOK'
    <3>1. written' \in [Producers -> SUBSET Rows]
      BY <1>2, <2>2 DEF RecordingInv, RecordingTypeOK
    <3>2. /\ tx' \in [Producers -> {"open", "lock", "find", "max", "create"}]
          /\ sequence' \in [Producers -> Nat]
      BY <1>2 DEF Go, RecordingInv, RecordingTypeOK
    <3> QED
      BY <1>2, <3>1, <3>2 DEF RecordingInv, RecordingTypeOK
  <2> HIDE DEF r
  <2>5. LockInv'
    BY <1>2, <2>0, <2>2, <2>3 DEF RecordingInv, LockInv
  <2>6. \A q \in Producers \ {p} : Visible(q)' = Visible(q)
    BY <1>2, <2>3 DEF Visible
  <2>7. ASSUME NEW h \in Aggregates PROVE \E m \in Nat : Numbered(Of(h, Visible(p)'), m)
    <3>1. Visible(p)' = Visible(p) \cup {r}
      BY <1>2, <2>3 DEF Visible
    <3>2. CASE h = g
      <4>1. Of(h, Visible(p)') = Of(g, Visible(p)) \cup {r}
        BY <2>2, <3>1, <3>2 DEF Of
      <4> QED
        BY <2>1, <2>2, <4>1, NumberedNext
    <3>3. CASE h # g
      <4>1. Of(h, Visible(p)') = Of(h, Visible(p))
        BY <2>2, <3>1, <3>3 DEF Of
      <4> QED
        BY <4>1 DEF RecordingInv, NumberInv
    <3> QED
      BY <3>2, <3>3
  <2>8. ASSUME NEW q \in Producers, tx'[q] = "create"
        PROVE  \E m \in Nat : /\ Numbered(Of(input[q].aggregate, Visible(q)'), m)
                              /\ sequence'[q] = m + 1
    <3>1. q # p /\ tx[q] = "create" /\ sequence'[q] = sequence[q]
      BY <2>3, <2>8
    <3> QED
      BY <2>6, <3>1 DEF RecordingInv, NumberInv
  <2>9. NumberInv'
    <3>1. ASSUME NEW q \in Producers, NEW h \in Aggregates
          PROVE  \E m \in Nat : Numbered(Of(h, Visible(q)'), m)
      BY <2>6, <2>7 DEF RecordingInv, NumberInv
    <3> QED
      BY <1>2, <2>8, <3>1 DEF RecordingInv, NumberInv, Of, Numbered
  <2> QED
    BY <2>4, <2>5, <2>9 DEF RecordingInv
<1> QED
  BY <1>1, <1>2 DEF Create

LEMMA RecordingInvNext ==
  ASSUME RecordingInv, [RecordingNext]_transactions
  PROVE  RecordingInv'
<1>1. CASE UNCHANGED transactions
  <2>1. UNCHANGED <<events, lock, tx, input, sequence, written>>
    BY <1>1 DEF transactions
  <2>2. RecordingTypeOK' /\ LockInv'
    BY <2>1 DEF RecordingInv, RecordingTypeOK, LockInv
  <2>3. \A p \in Producers : Visible(p)' = Visible(p)
    BY <2>1 DEF Visible
  <2>4. NumberInv'
    BY <2>1, <2>3 DEF RecordingInv, NumberInv, Of, Numbered
  <2> QED
    BY <2>2, <2>4 DEF RecordingInv
<1>2. ASSUME NEW p \in Producers, Commit(p) \/ Rollback(p)
      PROVE  RecordingInv'
  BY <1>2, EndStep DEF Commit, Rollback
<1> QED
  BY <1>1, <1>2, CallStep, AggregateLockStep, FindExistingStep, ReadLastSequenceStep, CreateStep
     DEF RecordingNext, Statement

LEMMA RecordingHolds == RecordingSpec => []RecordingInv
<1>1. RecordingInit => RecordingInv
  BY RecordingInvInit
<1>2. RecordingInv /\ [RecordingNext]_transactions => RecordingInv'
  BY RecordingInvNext
<1> QED
  BY <1>1, <1>2, PTL DEF RecordingSpec

-----------------------------------------------------------------------------
\* The rows, the locks and the transactions' locals have their types; in
\* particular every sequence number that recordDomainEvent computes is positive.
THEOREM RecordingTypeCorrect == RecordingSpec => []RecordingTypeOK
<1>1. RecordingInv => RecordingTypeOK
  BY DEF RecordingInv
<1> QED
  BY <1>1, RecordingHolds, PTL

\* The committed events of every aggregate are numbered 1, 2, 3... without a gap
\* or a repetition, for any number of transactions that lock, read the maximum,
\* insert, commit and roll back in any order.
THEOREM ContiguousSequencesHolds == RecordingSpec => []ContiguousSequences
<1>1. RecordingInv => ContiguousSequences
  <2> SUFFICES ASSUME RecordingInv, NEW g \in Aggregates
               PROVE  {e.sequence : e \in Of(g, events)} = 1..Cardinality(Of(g, events))
    BY DEF ContiguousSequences, Of
  <2> QED
    BY NumberedCardinality DEF RecordingInv, NumberInv
<1> QED
  BY <1>1, RecordingHolds, PTL

\* The advisory lock is enough: no insert ever meets its own sequence number in a
\* row of its aggregate, committed or not, so that the unique index aborts no
\* business transaction because of it.
THEOREM NoSequenceCollisionHolds == RecordingSpec => []NoSequenceCollision
<1>1. RecordingInv => NoSequenceCollision
  BY NumberIsFree DEF NoSequenceCollision
<1> QED
  BY <1>1, RecordingHolds, PTL

-----------------------------------------------------------------------------
(* The locals of a run and of a request are consistent with its progress.  *)

InDelivery == {"deliver", "publish", "fail"}

LocalsOK ==
  /\ \A w \in Workers :
       /\ pc[w] \in InDelivery => current[w] \in Events /\ batch[w][current[w]] # 0
       /\ pc[w] \notin InDelivery => ran[w] = 0
       /\ pc[w] \in {"idle", "claim"} <=> token[w] = NoToken
       /\ pc[w] \in {"idle", "claim"} => batch[w] = EmptyBatch
  /\ \A a \in Admins : request[a].op # "none" => request[a].event \in Events

Typed == TypeOK /\ LocalsOK

LEMMA TypedInit == Init => Typed
  BY ConstantsAssumption
  DEF Init, Typed, TypeOK, LocalsOK, Statuses, EmptyBatch, NoRequest, InDelivery

\* Striking one event off a replica's batch.
LEMMA ForgetEvent ==
  ASSUME NEW b \in [Workers -> [Events -> Nat]], NEW w \in Workers, NEW e \in Events,
         NEW v \in Workers, NEW f \in Events
  PROVE  [b EXCEPT ![w][e] = 0][v][f] \in {0, b[v][f]}
  OBVIOUS

\* Settling the current event, whatever the outcome, keeps the types.
LEMMA SettleTyped ==
  ASSUME Typed, NEW w \in Workers, pc[w] \in InDelivery,
         NEW outcome \in {"published", "dead", "pending"},
         Settle(w, current[w], outcome), Finish(w)
  PROVE  Typed'
<1> USE ConstantsAssumption DEF Typed, TypeOK, LocalsOK, Statuses, InDelivery
<1> DEFINE e == current[w]
<1>1. e \in Events
  OBVIOUS
<1>2. /\ status' \in [Events -> Statuses]
      /\ claimToken' \in [Events -> Tokens \cup {NoToken}]
      /\ due' \in [Events -> BOOLEAN]
      /\ lapsed' \in [Events -> BOOLEAN]
      /\ UNCHANGED <<attempts, replayCount>>
      /\ \A f \in Events : claimToken'[f] # NoToken <=> status'[f] = "dispatching"
  <2>1. CASE HoldsClaim(w, e)
    <3>1. /\ status' = [status EXCEPT ![e] = outcome]
          /\ claimToken' = [claimToken EXCEPT ![e] = NoToken]
          /\ lapsed' = [lapsed EXCEPT ![e] = FALSE]
          /\ due' = [due EXCEPT ![e] = FALSE]
          /\ UNCHANGED <<attempts, replayCount>>
      BY <2>1 DEF Settle
    <3>2. lapsed' \in [Events -> BOOLEAN] /\ due' \in [Events -> BOOLEAN]
      BY <3>1, Zenon
    <3> HIDE DEF e
    <3> QED
      BY <1>1, <3>1, <3>2
  <2>2. CASE ~HoldsClaim(w, e)
    BY <2>2 DEF Settle, row
  <2> QED
    BY <2>1, <2>2
<1>3. /\ pc' = [pc EXCEPT ![w] = "renew"]
      /\ batch' = [batch EXCEPT ![w][e] = 0]
      /\ current' = [current EXCEPT ![w] = NoEvent]
      /\ ran' = [ran EXCEPT ![w] = 0]
      /\ UNCHANGED <<token, zombies, request, handled, claims>>
  BY DEF Finish
<1> HIDE DEF e
<1>4. /\ batch' \in [Workers -> [Events -> Nat]]
      /\ \A v \in Workers : v # w => batch'[v] = batch[v]
  BY <1>1, <1>3
<1>5. TypeOK'
  BY <1>2, <1>3, <1>4
<1>6. LocalsOK'
  BY <1>3, <1>4
<1> QED
  BY <1>5, <1>6

LEMMA TypedNext == Typed /\ [Next]_vars => Typed'
<1> SUFFICES ASSUME Typed, [Next]_vars PROVE Typed'
  OBVIOUS
<1> USE ConstantsAssumption DEF Typed, TypeOK, LocalsOK, Statuses, InDelivery
<1>1. ASSUME NEW new \in SUBSET Events, RecordDomainEvents(new) PROVE Typed'
  BY <1>1 DEF RecordDomainEvents, RowsAppear, local
<1>2. ASSUME NEW e \in Events, NextAttemptArrives(e) PROVE Typed'
  BY <1>2 DEF NextAttemptArrives, local
<1>3. ASSUME NEW e \in Events, LeaseLapses(e) PROVE Typed'
  BY <1>3 DEF LeaseLapses, local
<1>4. ASSUME NEW w \in Workers, DeadLetterAbandonedClaims(w) PROVE Typed'
  BY <1>4 DEF DeadLetterAbandonedClaims
<1>5. ASSUME NEW w \in Workers, ClaimDomainEvents(w) PROVE Typed'
  BY <1>5 DEF ClaimDomainEvents, ClaimRows, FreshTokens
<1>6. ASSUME NEW w \in Workers, ClaimNothing(w) PROVE Typed'
  BY <1>6 DEF ClaimNothing, row
<1>7. ASSUME NEW w \in Workers, NEW e \in Events, RenewLease(w, e) PROVE Typed'
  <2>1. CASE HoldsClaim(w, e)
    <3>1. lapsed' = [lapsed EXCEPT ![e] = FALSE] /\ pc[w] = "renew" /\ batch[w][e] # 0
      BY <1>7, <2>1 DEF RenewLease
    <3>2. lapsed' \in [Events -> BOOLEAN]
      BY <3>1, Zenon
    <3>3. /\ pc' = [pc EXCEPT ![w] = "deliver"]
          /\ current' = [current EXCEPT ![w] = e]
          /\ UNCHANGED <<status, attempts, replayCount, claimToken, due, token, batch,
                         ran, zombies, request, handled, claims>>
      BY <1>7, <2>1 DEF RenewLease
    <3>4. TypeOK'
      BY <3>2, <3>3
    <3>5. LocalsOK'
      BY <3>1, <3>3
    <3> QED
      BY <3>4, <3>5
  <2>2. CASE ~HoldsClaim(w, e)
    <3>1. pc[w] = "renew" /\ batch' = [batch EXCEPT ![w][e] = 0]
      BY <1>7, <2>2 DEF RenewLease
    <3>2. batch' \in [Workers -> [Events -> Nat]]
      BY <3>1
    <3>3. \A v \in Workers : v # w => batch'[v] = batch[v]
      BY <3>1
    <3> QED
      BY <1>7, <2>2, <3>1, <3>2, <3>3 DEF RenewLease
  <2> QED
    BY <2>1, <2>2
<1>8. ASSUME NEW w \in Workers, NextRound(w) PROVE Typed'
  BY <1>8 DEF NextRound, row
<1>9. ASSUME NEW w \in Workers, SubscriberHandles(w) PROVE Typed'
  BY <1>9 DEF SubscriberHandles, Handle, row
<1>10. ASSUME NEW w \in Workers, SubscribersDone(w) PROVE Typed'
  BY <1>10 DEF SubscribersDone, row
<1>11. ASSUME NEW w \in Workers, SubscribersFail(w) PROVE Typed'
  BY <1>11 DEF SubscribersFail, row
<1>12. ASSUME NEW w \in Workers, Publish(w) PROVE Typed'
  BY <1>12, SettleTyped DEF Publish
<1>13. ASSUME NEW w \in Workers, DeadLetter(w) PROVE Typed'
  BY <1>13, SettleTyped DEF DeadLetter
<1>14. ASSUME NEW w \in Workers, Retry(w) PROVE Typed'
  BY <1>14, SettleTyped DEF Retry
<1>15. ASSUME NEW w \in Workers, Crash(w) PROVE Typed'
  BY <1>15 DEF Crash, EmptyBatch, row
<1>16. ASSUME NEW z \in zombies, ZombieHandles(z) PROVE Typed'
  BY <1>16 DEF ZombieHandles, Handle, row, local
<1>17. ASSUME NEW z \in zombies, ZombieEnds(z) PROVE Typed'
  BY <1>17 DEF ZombieEnds, row, local
<1>18. ASSUME NEW a \in Admins, NEW op \in {"replay", "discard"}, NEW e \in Events,
              ReadDead(a, op, e)
       PROVE Typed'
  BY <1>18 DEF ReadDead, row, local
<1>19. ASSUME NEW a \in Admins, ReplayDeadDomainEvent(a) PROVE Typed'
  <2> DEFINE e == request[a].event
  <2>1. e \in Events /\ request' = [request EXCEPT ![a] = NoRequest]
    BY <1>19 DEF ReplayDeadDomainEvent
  <2>2. CASE StillDead(a, e)
    <3>1. /\ status' = [status EXCEPT ![e] = "pending"]
          /\ attempts' = [attempts EXCEPT ![e] = 0]
          /\ due' = [due EXCEPT ![e] = TRUE]
          /\ replayCount' = [replayCount EXCEPT ![e] = @ + 1]
          /\ UNCHANGED <<claimToken, lapsed, local, zombies, handled, claims>>
      BY <1>19, <2>2 DEF ReplayDeadDomainEvent
    <3>2. due' \in [Events -> BOOLEAN]
      BY <3>1, Zenon
    <3>3. status[e] = "dead"
      BY <2>2 DEF StillDead
    <3> HIDE DEF e
    <3> QED
      BY <2>1, <3>1, <3>2, <3>3 DEF NoRequest, local
  <2>3. CASE ~StillDead(a, e)
    BY <1>19, <2>1, <2>3 DEF ReplayDeadDomainEvent, NoRequest, row, local
  <2> QED
    BY <2>2, <2>3
<1>20. ASSUME NEW a \in Admins, DiscardDeadDomainEvent(a) PROVE Typed'
  BY <1>20 DEF DiscardDeadDomainEvent, StillDead, NoRequest, row, local
<1>21. CASE UNCHANGED vars
  BY <1>21 DEF vars, row, local
<1> QED
  BY <1>1, <1>2, <1>3, <1>4, <1>5, <1>6, <1>7, <1>8, <1>9, <1>10, <1>11, <1>12,
     <1>13, <1>14, <1>15, <1>16, <1>17, <1>18, <1>19, <1>20, <1>21
  DEF Next, Dispatch, WorkerStep, AdminStep

\* Every variable keeps its type, and a row holds a claim token exactly while
\* it is dispatching, in every behaviour of the dispatcher.
THEOREM TypeCorrect == Spec => []TypeOK
<1>1. Spec => []Typed
  BY TypedInit, TypedNext, PTL DEF Spec
<1> QED
  BY <1>1, PTL DEF Typed

-----------------------------------------------------------------------------
(* A claim token belongs to one replica, and the replica that still holds  *)
(* a row's token knows the row's attempts: the copy it decides by          *)
(* (event.attempts) is stale only when settle refuses it anyway.           *)

TokensDistinct ==
  \A v, w \in Workers : token[v] # NoToken /\ token[v] = token[w] => v = w

SnapshotCurrent ==
  \A w \in Workers, e \in Events :
    HoldsClaim(w, e) /\ batch[w][e] # 0 => batch[w][e] = attempts[e]

AttemptsBounded ==
  \A e \in Events :
    /\ attempts[e] <= MaxAttempts
    /\ status[e] \in {"none", "pending"} => attempts[e] < MaxAttempts

\* What an administrator read and may still act on.
ReplaysBounded ==
  /\ \A e \in Events : replayCount[e] <= MaxReplays
  /\ \A a \in Admins : request[a].op = "replay" => request[a].seen < MaxReplays

\* Claims are paid for out of the lives already used and the current one.
ClaimsPaid ==
  \A e \in Events : claims[e] <= MaxAttempts * replayCount[e] + attempts[e]

BudgetInv ==
  /\ TokensDistinct /\ SnapshotCurrent /\ AttemptsBounded /\ ReplaysBounded /\ ClaimsPaid

LEMMA BudgetInit == Init => BudgetInv
  BY ConstantsAssumption
  DEF Init, BudgetInv, TokensDistinct, SnapshotCurrent, AttemptsBounded, ReplaysBounded,
      ClaimsPaid, HoldsClaim, EmptyBatch, NoRequest

\* Settling the current event keeps the budget, if it is retried only while
\* the replica's copy of attempts is below the limit.
LEMMA SettleBudget ==
  ASSUME Typed, BudgetInv, NEW w \in Workers, pc[w] \in InDelivery,
         NEW outcome \in {"published", "dead", "pending"},
         outcome = "pending" => batch[w][current[w]] < MaxAttempts,
         Settle(w, current[w], outcome), Finish(w)
  PROVE  BudgetInv'
<1> USE ConstantsAssumption DEF Typed, TypeOK, LocalsOK
<1> DEFINE e == current[w]
<1>1. e \in Events /\ batch[w][e] # 0 /\ batch[w][e] \in Nat
  OBVIOUS
<1>2. /\ batch' = [batch EXCEPT ![w][e] = 0]
      /\ UNCHANGED <<token, request, claims, attempts, replayCount>>
  BY DEF Finish, Settle, row
<1>3. \A f \in Events :
        \/ status'[f] = status[f] /\ claimToken'[f] = claimToken[f]
        \/ f = e /\ HoldsClaim(w, e) /\ status'[f] = outcome
  <2>1. CASE HoldsClaim(w, e)
    <3>1. /\ status' = [status EXCEPT ![e] = outcome]
          /\ claimToken' = [claimToken EXCEPT ![e] = NoToken]
      BY <2>1 DEF Settle
    <3> HIDE DEF e
    <3> QED
      BY <1>1, <2>1, <3>1
  <2>2. CASE ~HoldsClaim(w, e)
    BY <2>2 DEF Settle, row
  <2> QED
    BY <2>1, <2>2
<1>4. \A v \in Workers, f \in Events : batch'[v][f] \in {0, batch[v][f]}
  <2> HIDE DEF e
  <2> QED BY <1>1, <1>2
<1>5. outcome = "pending" => batch[w][e] < MaxAttempts
  OBVIOUS
<1> HIDE DEF e
<1>6. TokensDistinct' /\ ReplaysBounded' /\ ClaimsPaid'
  BY <1>2 DEF BudgetInv, TokensDistinct, ReplaysBounded, ClaimsPaid
<1>7. SnapshotCurrent'
  BY <1>2, <1>3, <1>4 DEF BudgetInv, SnapshotCurrent, HoldsClaim
<1>8. AttemptsBounded'
  BY <1>1, <1>2, <1>3, <1>5 DEF BudgetInv, SnapshotCurrent, AttemptsBounded
<1> QED
  BY <1>6, <1>7, <1>8 DEF BudgetInv

LEMMA BudgetNext == Typed /\ BudgetInv /\ [Next]_vars => BudgetInv'
<1> SUFFICES ASSUME Typed, BudgetInv, [Next]_vars PROVE BudgetInv'
  OBVIOUS
<1> USE ConstantsAssumption DEF Typed, TypeOK, LocalsOK, BudgetInv
<1>1. ASSUME NEW new \in SUBSET Events, RecordDomainEvents(new) PROVE BudgetInv'
  BY <1>1 DEF RecordDomainEvents, RowsAppear, local, TokensDistinct, SnapshotCurrent, AttemptsBounded,
              ReplaysBounded, ClaimsPaid, HoldsClaim
<1>2. ASSUME NEW w \in Workers, DeadLetterAbandonedClaims(w) PROVE BudgetInv'
  BY <1>2 DEF DeadLetterAbandonedClaims, TokensDistinct, SnapshotCurrent, AttemptsBounded,
              ReplaysBounded, ClaimsPaid, HoldsClaim
<1>3. ASSUME NEW w \in Workers, ClaimDomainEvents(w) PROVE BudgetInv'
  <2>1. PICK claimed \in SUBSET Candidates, t \in FreshTokens : ClaimRows(w, claimed, t)
    BY <1>3 DEF ClaimDomainEvents
  <2>2. UNCHANGED <<replayCount, request>> /\ t \in Tokens /\ t # NoToken
    BY <1>3 DEF ClaimDomainEvents, FreshTokens
  <2>3. TokensDistinct' /\ ReplaysBounded'
    BY <2>1, <2>2 DEF ClaimRows, FreshTokens, TokensDistinct, ReplaysBounded
  <2>4. AttemptsBounded'
    BY <2>1 DEF ClaimRows, Candidates, Due, AttemptsBounded
  <2>5. ClaimsPaid'
    BY <2>1, <2>2 DEF ClaimRows, ClaimsPaid
  <2>6. SnapshotCurrent'
    <3> SUFFICES ASSUME NEW v \in Workers, NEW e \in Events,
                        HoldsClaim(v, e)', batch'[v][e] # 0
                 PROVE  batch'[v][e] = attempts'[e]
      BY DEF SnapshotCurrent
    <3>1. CASE v = w
      BY <2>1, <2>2, <3>1 DEF ClaimRows
    <3>2. CASE v # w
      <4>1. e \notin claimed
        BY <2>1, <3>2 DEF ClaimRows, HoldsClaim, FreshTokens
      <4>2. HoldsClaim(v, e) /\ batch[v][e] # 0
        BY <2>1, <3>2, <4>1 DEF ClaimRows, HoldsClaim
      <4> QED
        BY <2>1, <3>2, <4>1, <4>2 DEF ClaimRows, SnapshotCurrent
    <3> QED
      BY <3>1, <3>2
  <2> QED
    BY <2>3, <2>4, <2>5, <2>6
<1>4. ASSUME NEW w \in Workers, NEW e \in Events, RenewLease(w, e) PROVE BudgetInv'
  <2>1. \A v \in Workers, f \in Events : batch'[v][f] \in {0, batch[v][f]}
    <3>1. batch' = batch \/ batch' = [batch EXCEPT ![w][e] = 0]
      BY <1>4 DEF RenewLease
    <3> QED
      BY <3>1
  <2> QED
    BY <1>4, <2>1 DEF RenewLease, TokensDistinct, SnapshotCurrent, AttemptsBounded,
                      ReplaysBounded, ClaimsPaid, HoldsClaim
<1>5. ASSUME NEW w \in Workers, NextRound(w) PROVE BudgetInv'
  BY <1>5 DEF NextRound, row, TokensDistinct, SnapshotCurrent, AttemptsBounded,
              ReplaysBounded, ClaimsPaid, HoldsClaim
<1>6. ASSUME NEW w \in Workers, Publish(w) PROVE BudgetInv'
  BY <1>6, SettleBudget DEF Publish, InDelivery
<1>7. ASSUME NEW w \in Workers, DeadLetter(w) PROVE BudgetInv'
  BY <1>7, SettleBudget DEF DeadLetter, InDelivery
<1>8. ASSUME NEW w \in Workers, Retry(w) PROVE BudgetInv'
  BY <1>8, SettleBudget DEF Retry, InDelivery
<1>9. ASSUME NEW w \in Workers, Crash(w) PROVE BudgetInv'
  BY <1>9 DEF Crash, EmptyBatch, row, TokensDistinct, SnapshotCurrent, AttemptsBounded,
              ReplaysBounded, ClaimsPaid, HoldsClaim
<1>10. ASSUME NEW a \in Admins, NEW op \in {"replay", "discard"}, NEW e \in Events,
              ReadDead(a, op, e)
       PROVE BudgetInv'
  BY <1>10 DEF ReadDead, row, local, TokensDistinct, SnapshotCurrent, AttemptsBounded,
               ReplaysBounded, ClaimsPaid, HoldsClaim
<1>11. ASSUME NEW a \in Admins, ReplayDeadDomainEvent(a) PROVE BudgetInv'
  <2> DEFINE e == request[a].event
  <2>1. e \in Events /\ request[a].seen < MaxReplays
    BY <1>11 DEF ReplayDeadDomainEvent, ReplaysBounded
  <2>2. /\ request' = [request EXCEPT ![a] = NoRequest]
        /\ UNCHANGED <<token, batch, claims, claimToken>>
    BY <1>11 DEF ReplayDeadDomainEvent, local, row
  <2>3. CASE StillDead(a, e)
    <3>1. /\ status' = [status EXCEPT ![e] = "pending"]
          /\ attempts' = [attempts EXCEPT ![e] = 0]
          /\ replayCount' = [replayCount EXCEPT ![e] = @ + 1]
      BY <1>11, <2>3 DEF ReplayDeadDomainEvent
    <3>2. status[e] = "dead" /\ replayCount[e] < MaxReplays
      BY <2>1, <2>3 DEF StillDead
    <3> HIDE DEF e
    <3>3. ReplaysBounded'
      BY <2>1, <2>2, <3>1, <3>2 DEF ReplaysBounded, NoRequest
    <3>4. ClaimsPaid'
      <4> SUFFICES ASSUME NEW f \in Events
                   PROVE  claims'[f] <= MaxAttempts * replayCount'[f] + attempts'[f]
        BY DEF ClaimsPaid
      <4>1. CASE f # e
        BY <2>2, <3>1, <4>1 DEF ClaimsPaid
      <4>2. CASE f = e
        <5>1. claims[e] <= MaxAttempts * replayCount[e] + attempts[e] /\ attempts[e] <= MaxAttempts
          BY <2>1 DEF ClaimsPaid, AttemptsBounded
        <5>2. MaxAttempts * (replayCount[e] + 1) = MaxAttempts * replayCount[e] + MaxAttempts
          BY <2>1
        <5>3. MaxAttempts * replayCount[e] \in Nat
          BY <2>1
        <5> QED
          BY <2>1, <2>2, <3>1, <4>2, <5>1, <5>2, <5>3
      <4> QED
        BY <4>1, <4>2
    <3>5. TokensDistinct' /\ SnapshotCurrent' /\ AttemptsBounded'
      BY <2>1, <2>2, <3>1, <3>2 DEF TokensDistinct, SnapshotCurrent, AttemptsBounded, HoldsClaim
    <3> QED
      BY <3>3, <3>4, <3>5
  <2>4. CASE ~StillDead(a, e)
    BY <1>11, <2>2, <2>4 DEF ReplayDeadDomainEvent, NoRequest, row, TokensDistinct,
         SnapshotCurrent, AttemptsBounded, ReplaysBounded, ClaimsPaid, HoldsClaim
  <2> QED
    BY <2>3, <2>4
<1>12. ASSUME NEW a \in Admins, DiscardDeadDomainEvent(a) PROVE BudgetInv'
  BY <1>12 DEF DiscardDeadDomainEvent, StillDead, NoRequest, row, local, TokensDistinct,
       SnapshotCurrent, AttemptsBounded, ReplaysBounded, ClaimsPaid, HoldsClaim
<1>13. CASE UNCHANGED <<status, attempts, replayCount, claimToken, token, batch, request, claims>>
  BY <1>13 DEF TokensDistinct, SnapshotCurrent, AttemptsBounded, ReplaysBounded, ClaimsPaid,
       HoldsClaim
<1> QED
  BY <1>1, <1>2, <1>3, <1>4, <1>5, <1>6, <1>7, <1>8, <1>9, <1>10, <1>11, <1>12, <1>13
  DEF Next, Dispatch, WorkerStep, AdminStep, NextAttemptArrives, LeaseLapses, ClaimNothing,
      SubscriberHandles, SubscribersDone, SubscribersFail, ZombieHandles, ZombieEnds,
      vars, row, local

\* An event is claimed at most MaxAttempts times for each of its
\* MaxReplays + 1 lives, however many replicas and administrators race.
THEOREM ClaimBudgetHolds == Spec => []ClaimBudget
<1>1. Spec => [](Typed /\ BudgetInv)
  BY TypedInit, TypedNext, BudgetInit, BudgetNext, PTL DEF Spec
<1>2. Typed /\ BudgetInv => ClaimBudget
  <2> SUFFICES ASSUME Typed, BudgetInv, NEW e \in Events
               PROVE  claims[e] <= MaxAttempts * (MaxReplays + 1)
    BY DEF ClaimBudget
  <2>1. /\ claims[e] \in Nat /\ replayCount[e] \in Nat /\ attempts[e] \in Nat
        /\ MaxAttempts \in Nat /\ MaxReplays \in Nat
    BY ConstantsAssumption DEF Typed, TypeOK
  <2>2. /\ claims[e] <= MaxAttempts * replayCount[e] + attempts[e]
        /\ attempts[e] <= MaxAttempts /\ replayCount[e] <= MaxReplays
    BY DEF BudgetInv, ClaimsPaid, AttemptsBounded, ReplaysBounded
  <2>3. MaxAttempts * replayCount[e] <= MaxAttempts * MaxReplays
    BY <2>1, <2>2
  <2>4. MaxAttempts * (MaxReplays + 1) = MaxAttempts * MaxReplays + MaxAttempts
    BY <2>1
  <2>5. MaxAttempts * replayCount[e] \in Nat /\ MaxAttempts * MaxReplays \in Nat
    BY <2>1
  <2> QED
    BY <2>1, <2>2, <2>3, <2>4, <2>5
<1> QED
  BY <1>1, <1>2, PTL

-----------------------------------------------------------------------------
(* How a step may change the status of rows.                               *)

LEMMA DispatchStatus ==
  ASSUME Typed, Dispatch, NEW e \in Events
  PROVE  /\ status[e] \in Settled => status'[e] = status[e]
         /\ status[e] # "none" <=> status'[e] # "none"
<1> USE DEF Typed, TypeOK, LocalsOK, Statuses, Settled
<1>1. ASSUME NEW w \in Workers, DeadLetterAbandonedClaims(w)
      PROVE  status'[e] = IF e \in Abandoned THEN "dead" ELSE status[e]
  BY <1>1 DEF DeadLetterAbandonedClaims
<1>2. ASSUME NEW w \in Workers, ClaimDomainEvents(w)
      PROVE  status'[e] = status[e] \/ (status'[e] = "dispatching" /\ Due(e))
  <2>1. PICK claimed \in SUBSET Candidates, t \in FreshTokens : ClaimRows(w, claimed, t)
    BY <1>2 DEF ClaimDomainEvents
  <2> QED
    BY <2>1 DEF ClaimRows, Candidates
<1>3. ASSUME NEW w \in Workers, pc[w] \in InDelivery,
             NEW outcome \in {"published", "dead", "pending"}, Settle(w, current[w], outcome)
      PROVE  status'[e] = status[e] \/ (status[e] = "dispatching" /\ status'[e] = outcome)
  <2> DEFINE f == current[w]
  <2>1. f \in Events
    BY <1>3
  <2>2. CASE HoldsClaim(w, f)
    <3>1. status' = [status EXCEPT ![f] = outcome] /\ status[f] = "dispatching"
      BY <1>3, <2>2 DEF Settle, HoldsClaim
    <3> HIDE DEF f
    <3> QED
      BY <2>1, <3>1
  <2>3. CASE ~HoldsClaim(w, f)
    BY <1>3, <2>3 DEF Settle, row
  <2> QED
    BY <2>2, <2>3
<1>4. ASSUME NEW a \in Admins, ReplayDeadDomainEvent(a) \/ DiscardDeadDomainEvent(a)
      PROVE  status'[e] = status[e] \/ (status[e] = "dead" /\ status'[e] # "none")
  <2> DEFINE f == request[a].event
  <2>1. f \in Events
    BY <1>4 DEF ReplayDeadDomainEvent, DiscardDeadDomainEvent
  <2>2. CASE StillDead(a, f)
    <3>1. /\ status[f] = "dead"
          /\ \/ status' = [status EXCEPT ![f] = "pending"]
             \/ status' = [status EXCEPT ![f] = "discarded"]
      BY <1>4, <2>2 DEF ReplayDeadDomainEvent, DiscardDeadDomainEvent, StillDead
    <3> HIDE DEF f
    <3> QED
      BY <2>1, <3>1
  <2>3. CASE ~StillDead(a, f)
    BY <1>4, <2>3 DEF ReplayDeadDomainEvent, DiscardDeadDomainEvent, row
  <2> QED
    BY <2>2, <2>3
<1>5. \/ status' = status
      \/ \E w \in Workers : DeadLetterAbandonedClaims(w) \/ ClaimDomainEvents(w)
      \/ \E w \in Workers : Publish(w) \/ DeadLetter(w) \/ Retry(w)
      \/ \E a \in Admins : ReplayDeadDomainEvent(a) \/ DiscardDeadDomainEvent(a)
  BY DEF Dispatch, WorkerStep, AdminStep, NextAttemptArrives, LeaseLapses, ClaimNothing, RenewLease,
      NextRound, SubscriberHandles, SubscribersDone, SubscribersFail, ZombieHandles, ZombieEnds,
      ReadDead, Crash, vars, row, local
<1>6. ASSUME NEW w \in Workers, Publish(w) \/ DeadLetter(w) \/ Retry(w)
      PROVE  /\ pc[w] \in InDelivery
             /\ \E outcome \in {"published", "dead", "pending"} : Settle(w, current[w], outcome)
  BY <1>6 DEF Publish, DeadLetter, Retry, InDelivery
<1>7. CASE \E w \in Workers : Publish(w) \/ DeadLetter(w) \/ Retry(w)
  BY <1>3, <1>6, <1>7
<1>8. CASE \E w \in Workers : DeadLetterAbandonedClaims(w) \/ ClaimDomainEvents(w)
  BY <1>1, <1>2, <1>8 DEF Abandoned, Due
<1> QED
  BY <1>4, <1>5, <1>7, <1>8

LEMMA StatusStep ==
  ASSUME Typed, [Next]_vars, NEW e \in Events
  PROVE  /\ status[e] \in Settled => status'[e] = status[e]
         /\ status[e] # "none" => status'[e] # "none"
<1>1. ASSUME NEW new \in SUBSET Events, RecordDomainEvents(new)
      PROVE  status'[e] = status[e] \/ status[e] = "none"
  BY <1>1 DEF RecordDomainEvents, RowsAppear
<1> QED
  BY <1>1, DispatchStatus DEF Next, vars, row, Settled

\* No step of a stale replica or administrator takes back a published or
\* discarded event.
THEOREM SettledStaysSettled == Spec => SettledIsFinal
<1> DEFINE Final == \A e \in Events : status[e] \in Settled => status'[e] = status[e]
<1>1. Typed /\ [Next]_vars => [Final]_vars
  BY StatusStep
<1>2. Spec => []Typed /\ [][Next]_vars
  BY TypedInit, TypedNext, PTL DEF Spec
<1>3. Spec => [][Final]_vars
  BY <1>1, <1>2, PTL
<1> QED
  BY <1>3 DEF SettledIsFinal

-----------------------------------------------------------------------------
(* Order: the first claim of an event comes after its predecessors settle, *)
(* and whatever handles it later (a stale replica, a timed-out delivery)   *)
(* follows such a claim.                                                   *)

Contiguous ==
  \A e, f \in Events : status[e] # "none" /\ Earlier(f, e) => status[f] # "none"

ClaimedInOrder ==
  \A e, f \in Events : claims[e] > 0 /\ Earlier(f, e) => status[f] \in Settled

ClaimedFirst ==
  /\ \A e \in Events : handled[e] > 0 => claims[e] > 0
  /\ \A w \in Workers, e \in Events : batch[w][e] # 0 => claims[e] > 0
  /\ \A z \in zombies : claims[z[1]] > 0

OrderInv == Contiguous /\ ClaimedInOrder /\ ClaimedFirst

LEMMA OrderInit == Init => OrderInv
  BY DEF Init, OrderInv, Contiguous, ClaimedInOrder, ClaimedFirst, EmptyBatch

LEMMA OrderNext == Typed /\ OrderInv /\ [Next]_vars => OrderInv'
<1> SUFFICES ASSUME Typed, OrderInv, [Next]_vars PROVE OrderInv'
  OBVIOUS
<1> USE DEF Typed, TypeOK, LocalsOK, OrderInv
<1>1. \A e \in Events : /\ status[e] \in Settled => status'[e] \in Settled
                        /\ status[e] # "none" => status'[e] # "none"
  BY StatusStep
<1>2. ASSUME NEW new \in SUBSET Events, RecordDomainEvents(new) PROVE OrderInv'
  <2>1. Contiguous'
    BY <1>1, <1>2 DEF RecordDomainEvents, RowsAppear, Contiguous
  <2> QED
    BY <1>1, <1>2, <2>1 DEF RecordDomainEvents, RowsAppear, local, ClaimedInOrder, ClaimedFirst
<1>3. ASSUME UNCHANGED claims, ClaimedFirst', \A e \in Events : status[e] = "none" => status'[e] = "none"
      PROVE  OrderInv'
  BY <1>1, <1>3 DEF Contiguous, ClaimedInOrder
<1>4. ASSUME NEW w \in Workers, DeadLetterAbandonedClaims(w) PROVE OrderInv'
  BY <1>3, <1>4 DEF DeadLetterAbandonedClaims, Abandoned, ClaimedFirst
<1>5. ASSUME NEW w \in Workers, ClaimDomainEvents(w) PROVE OrderInv'
  <2>1. PICK claimed \in SUBSET Candidates, t \in FreshTokens : ClaimRows(w, claimed, t)
    BY <1>5 DEF ClaimDomainEvents
  <2>2. UNCHANGED <<zombies, handled>>
    BY <1>5 DEF ClaimDomainEvents
  <2>3. \A e \in claimed : status[e] # "none" /\ PredecessorsSettled(e)
    BY DEF Candidates, Due
  <2>4. Contiguous'
    BY <1>1, <2>1, <2>3 DEF ClaimRows, Contiguous
  <2>5. ClaimedInOrder'
    <3> SUFFICES ASSUME NEW e \in Events, NEW f \in Events, claims'[e] > 0, Earlier(f, e)
                 PROVE  status'[f] \in Settled
      BY DEF ClaimedInOrder
    <3>1. CASE e \in claimed
      <4>1. status[f] # "none"
        BY <2>3, <3>1 DEF Contiguous
      <4>2. status[f] \in Settled
        BY <2>3, <3>1, <4>1 DEF PredecessorsSettled
      <4> QED
        BY <1>1, <4>2
    <3>2. CASE e \notin claimed
      <4>1. claims[e] > 0
        BY <2>1, <3>2 DEF ClaimRows
      <4> QED
        BY <1>1, <4>1 DEF ClaimedInOrder
    <3> QED
      BY <3>1, <3>2
  <2>6. \A e \in Events : claims[e] > 0 \/ e \in claimed => claims'[e] > 0
    BY <2>1 DEF ClaimRows, Candidates
  <2>7. \A v \in Workers, e \in Events : batch'[v][e] = batch[v][e] \/ batch'[v][e] = 0 \/ e \in claimed
    BY <2>1 DEF ClaimRows
  <2>8. ClaimedFirst'
    BY <2>2, <2>6, <2>7 DEF ClaimedFirst
  <2> QED
    BY <2>4, <2>5, <2>8
<1>6. ASSUME NEW w \in Workers, NEW e \in Events, RenewLease(w, e) PROVE OrderInv'
  <2>1. batch' = batch \/ batch' = [batch EXCEPT ![w][e] = 0]
    BY <1>6 DEF RenewLease
  <2>2. \A v \in Workers, f \in Events : batch'[v][f] \in {0, batch[v][f]}
    <3>1. batch \in [Workers -> [Events -> Nat]]
      OBVIOUS
    <3>2. CASE batch' = batch
      BY <3>2
    <3>3. CASE batch' = [batch EXCEPT ![w][e] = 0]
      BY <3>1, <3>3, ForgetEvent
    <3> QED
      BY <2>1, <3>2, <3>3
  <2> QED
    BY <1>3, <1>6, <2>2 DEF RenewLease, ClaimedFirst
<1>7. ASSUME NEW w \in Workers, SubscriberHandles(w) PROVE OrderInv'
  BY <1>3, <1>7, ConstantsAssumption DEF SubscriberHandles, Handle, row, ClaimedFirst, InDelivery
<1>8. ASSUME NEW w \in Workers, SubscribersFail(w) PROVE OrderInv'
  BY <1>3, <1>8 DEF SubscribersFail, row, ClaimedFirst, InDelivery
<1>9. ASSUME NEW z \in zombies, ZombieHandles(z) PROVE OrderInv'
  BY <1>3, <1>9, ConstantsAssumption DEF ZombieHandles, Handle, row, local, ClaimedFirst
<1>10. ASSUME NEW z \in zombies, ZombieEnds(z) PROVE OrderInv'
  BY <1>3, <1>10 DEF ZombieEnds, row, local, ClaimedFirst
<1>11. ASSUME NEW w \in Workers, Publish(w) \/ DeadLetter(w) \/ Retry(w) PROVE OrderInv'
  <2> DEFINE e == current[w]
  <2>1. /\ e \in Events
        /\ batch' = [batch EXCEPT ![w][e] = 0]
        /\ UNCHANGED <<claims, handled, zombies>>
    BY <1>11 DEF Publish, DeadLetter, Retry, Finish, InDelivery
  <2>2. HoldsClaim(w, e) => status[e] = "dispatching" /\ \E o \in Statuses : status' = [status EXCEPT ![e] = o]
    BY <1>11 DEF Publish, DeadLetter, Retry, Settle, HoldsClaim, Statuses
  <2>3. ~HoldsClaim(w, e) => status' = status
    BY <1>11 DEF Publish, DeadLetter, Retry, Settle, row
  <2> HIDE DEF e
  <2>4. \A v \in Workers, f \in Events : batch'[v][f] \in {0, batch[v][f]}
    BY <2>1
  <2>5. \A f \in Events : status[f] = "none" => status'[f] = "none"
    BY <2>1, <2>2, <2>3
  <2>6. ClaimedFirst'
    BY <2>1, <2>4 DEF ClaimedFirst
  <2> QED
    BY <1>3, <2>1, <2>5, <2>6
<1>12. ASSUME NEW w \in Workers, Crash(w) PROVE OrderInv'
  BY <1>3, <1>12 DEF Crash, EmptyBatch, row, ClaimedFirst
<1>13. ASSUME NEW a \in Admins, ReplayDeadDomainEvent(a) \/ DiscardDeadDomainEvent(a) PROVE OrderInv'
  <2> DEFINE e == request[a].event
  <2>1. e \in Events /\ UNCHANGED <<local, zombies, handled, claims>>
    BY <1>13 DEF ReplayDeadDomainEvent, DiscardDeadDomainEvent
  <2>2. StillDead(a, e) => status[e] = "dead" /\ \E o \in Statuses : status' = [status EXCEPT ![e] = o]
    BY <1>13 DEF ReplayDeadDomainEvent, DiscardDeadDomainEvent, StillDead, Statuses
  <2>3. ~StillDead(a, e) => status' = status
    BY <1>13 DEF ReplayDeadDomainEvent, DiscardDeadDomainEvent, row
  <2> HIDE DEF e
  <2>4. \A f \in Events : status[f] = "none" => status'[f] = "none"
    BY <2>1, <2>2, <2>3
  <2> QED
    BY <1>3, <2>1, <2>4 DEF local, ClaimedFirst
<1>14. CASE UNCHANGED <<status, batch, zombies, handled, claims>>
  BY <1>3, <1>14 DEF ClaimedFirst
<1> QED
  BY <1>2, <1>4, <1>5, <1>6, <1>7, <1>8, <1>9, <1>10, <1>11, <1>12, <1>13, <1>14
  DEF Next, Dispatch, WorkerStep, AdminStep, NextAttemptArrives, LeaseLapses, ClaimNothing, NextRound,
      SubscribersDone, ReadDead, vars, row, local

\* Once a subscriber has handled an event, all earlier events of its
\* aggregate are settled.
THEOREM AggregateOrderHolds == Spec => []AggregateOrder
<1>1. Spec => [](Typed /\ OrderInv)
  BY TypedInit, TypedNext, OrderInit, OrderNext, PTL DEF Spec
<1>2. OrderInv => AggregateOrder
  BY DEF OrderInv, ClaimedInOrder, ClaimedFirst, AggregateOrder
<1> QED
  BY <1>1, <1>2, PTL

-----------------------------------------------------------------------------
(* At least once.                                                          *)

RanWasHandled ==
  \A w \in Workers :
    /\ pc[w] \in InDelivery => ran[w] <= handled[current[w]]
    /\ pc[w] = "publish" => ran[w] = SubscriberCount

HandledInv == RanWasHandled /\ PublishedWasHandled

LEMMA HandledInit == Init => HandledInv
  BY DEF Init, HandledInv, RanWasHandled, PublishedWasHandled, InDelivery

\* When a replica is about to publish, all subscribers have handled its event.
LEMMA PublishingHandled ==
  ASSUME Typed, RanWasHandled, NEW w \in Workers, pc[w] = "publish"
  PROVE  handled[current[w]] = SubscriberCount
<1>1. current[w] \in Events
  BY DEF Typed, LocalsOK, InDelivery
<1>2. handled[current[w]] \in 0..SubscriberCount
  BY <1>1 DEF Typed, TypeOK
<1>3. SubscriberCount <= handled[current[w]]
  BY DEF RanWasHandled, InDelivery
<1> QED
  BY <1>2, <1>3, ConstantsAssumption

LEMMA HandledNext == Typed /\ HandledInv /\ [Next]_vars => HandledInv'
<1> SUFFICES ASSUME Typed, HandledInv, [Next]_vars PROVE HandledInv'
  OBVIOUS
<1> USE ConstantsAssumption DEF Typed, TypeOK, LocalsOK, HandledInv, InDelivery
<1>1. ASSUME UNCHANGED <<pc, current, ran, handled>>,
             \A e \in Events : status'[e] = "published" => status[e] = "published"
      PROVE  HandledInv'
  BY <1>1 DEF RanWasHandled, PublishedWasHandled
<1>2. ASSUME NEW w \in Workers, DeadLetterAbandonedClaims(w) PROVE HandledInv'
  BY <1>2 DEF DeadLetterAbandonedClaims, RanWasHandled, PublishedWasHandled
<1>3. ASSUME NEW w \in Workers, ClaimDomainEvents(w) PROVE HandledInv'
  <2>1. PICK claimed \in SUBSET Candidates, t \in FreshTokens : ClaimRows(w, claimed, t)
    BY <1>3 DEF ClaimDomainEvents
  <2>2. \A e \in Events : status'[e] = "published" => status[e] = "published"
    BY <2>1 DEF ClaimRows
  <2> QED
    BY <1>3, <2>2 DEF ClaimDomainEvents, RanWasHandled, PublishedWasHandled
<1>4. ASSUME NEW w \in Workers, NEW e \in Events, RenewLease(w, e) PROVE HandledInv'
  <2>1. UNCHANGED <<status, ran, handled>> /\ ran[w] = 0
    BY <1>4 DEF RenewLease
  <2>2. \/ UNCHANGED <<pc, current>>
        \/ pc' = [pc EXCEPT ![w] = "deliver"] /\ current' = [current EXCEPT ![w] = e]
    BY <1>4 DEF RenewLease
  <2>3. handled[e] >= 0
    OBVIOUS
  <2> QED
    <3>1. PublishedWasHandled'
      BY <2>1 DEF PublishedWasHandled
    <3>2. CASE UNCHANGED <<pc, current>>
      BY <2>1, <3>1, <3>2 DEF RanWasHandled
    <3>3. CASE pc' = [pc EXCEPT ![w] = "deliver"] /\ current' = [current EXCEPT ![w] = e]
      BY <2>1, <2>3, <3>1, <3>3 DEF RanWasHandled
    <3> QED
      BY <2>2, <3>2, <3>3
<1>5. ASSUME NEW w \in Workers, ClaimNothing(w) \/ NextRound(w) PROVE HandledInv'
  BY <1>5 DEF ClaimNothing, NextRound, row, RanWasHandled, PublishedWasHandled
<1>6. ASSUME NEW w \in Workers, SubscriberHandles(w) PROVE HandledInv'
  BY <1>6 DEF SubscriberHandles, Handle, row, RanWasHandled, PublishedWasHandled
<1>7. ASSUME NEW w \in Workers, SubscribersDone(w) \/ SubscribersFail(w) PROVE HandledInv'
  BY <1>7 DEF SubscribersDone, SubscribersFail, row, RanWasHandled, PublishedWasHandled
<1>8. ASSUME NEW z \in zombies, ZombieHandles(z) PROVE HandledInv'
  BY <1>8 DEF ZombieHandles, Handle, row, local, RanWasHandled, PublishedWasHandled
<1>9. ASSUME NEW w \in Workers, Publish(w) \/ DeadLetter(w) \/ Retry(w) PROVE HandledInv'
  <2> DEFINE e == current[w]
  <2>1. /\ e \in Events
        /\ pc' = [pc EXCEPT ![w] = "renew"]
        /\ current' = [current EXCEPT ![w] = NoEvent]
        /\ ran' = [ran EXCEPT ![w] = 0]
        /\ UNCHANGED handled
    BY <1>9 DEF Publish, DeadLetter, Retry, Finish
  <2>2. RanWasHandled'
    BY <2>1 DEF RanWasHandled
  <2>3. CASE pc[w] = "publish"
    <3>1. handled[e] = SubscriberCount
      BY <2>3, PublishingHandled
    <3>2. status' = status \/ status' = [status EXCEPT ![e] = "published"]
      BY <1>9, <2>3 DEF Publish, DeadLetter, Retry, Settle, row
    <3> HIDE DEF e
    <3> QED
      BY <2>1, <2>2, <3>1, <3>2 DEF PublishedWasHandled
  <2>4. CASE pc[w] = "fail"
    <3>1. status' = status \/ \E o \in {"dead", "pending"} : status' = [status EXCEPT ![e] = o]
      BY <1>9, <2>4 DEF Publish, DeadLetter, Retry, Settle, row
    <3> HIDE DEF e
    <3> QED
      BY <2>1, <2>2, <3>1 DEF PublishedWasHandled
  <2> QED
    BY <1>9, <2>3, <2>4 DEF Publish, DeadLetter, Retry
<1>10. ASSUME NEW w \in Workers, Crash(w) PROVE HandledInv'
  BY <1>10 DEF Crash, row, RanWasHandled, PublishedWasHandled
<1>11. ASSUME NEW a \in Admins, ReplayDeadDomainEvent(a) \/ DiscardDeadDomainEvent(a) PROVE HandledInv'
  <2> DEFINE e == request[a].event
  <2>1. e \in Events /\ UNCHANGED <<local, handled>>
    BY <1>11 DEF ReplayDeadDomainEvent, DiscardDeadDomainEvent
  <2>2. status' = status \/ \E o \in {"pending", "discarded"} : status' = [status EXCEPT ![e] = o]
    BY <1>11 DEF ReplayDeadDomainEvent, DiscardDeadDomainEvent, row
  <2> HIDE DEF e
  <2>3. \A f \in Events : status'[f] = "published" => status[f] = "published"
    BY <2>1, <2>2
  <2> QED
    BY <1>1, <2>1, <2>3 DEF local
<1>12. ASSUME NEW new \in SUBSET Events, RecordDomainEvents(new) PROVE HandledInv'
  BY <1>1, <1>12 DEF RecordDomainEvents, RowsAppear, local
<1>13. CASE UNCHANGED <<status, pc, current, ran, handled>>
  BY <1>1, <1>13
<1> QED
  BY <1>2, <1>3, <1>4, <1>5, <1>6, <1>7, <1>8, <1>9, <1>10, <1>11, <1>12, <1>13
  DEF Next, Dispatch, WorkerStep, AdminStep, NextAttemptArrives, LeaseLapses, ZombieEnds, ReadDead,
      vars, row, local

\* An event is published only after every subscriber has handled it.
THEOREM AtLeastOnce == Spec => []PublishedWasHandled
<1>1. Spec => [](Typed /\ HandledInv)
  BY TypedInit, TypedNext, HandledInit, HandledNext, PTL DEF Spec
<1> QED
  BY <1>1, PTL DEF HandledInv

-----------------------------------------------------------------------------
(* Exclusive delivery: without stalls, a replica that is delivering still  *)
(* holds the claim, under a lease that has not lapsed.                     *)

HolderDelivers ==
  ~Stalls => \A w \in Workers, e \in Events :
               Delivering(w, e) => HoldsClaim(w, e) /\ ~lapsed[e]

LEMMA HolderNext ==
  Typed /\ BudgetInv /\ HolderDelivers /\ [Next]_vars => HolderDelivers'
<1> SUFFICES ASSUME Typed, BudgetInv, HolderDelivers, [Next]_vars, ~Stalls,
                    NEW v \in Workers, NEW f \in Events, Delivering(v, f)'
             PROVE  HoldsClaim(v, f)' /\ ~lapsed'[f]
  BY DEF HolderDelivers
<1> USE ConstantsAssumption DEF Typed, TypeOK, LocalsOK, InDelivery, Delivering
<1>1. ASSUME UNCHANGED <<pc, current, token, status, claimToken, lapsed>>
      PROVE  HoldsClaim(v, f)' /\ ~lapsed'[f]
  BY <1>1 DEF HolderDelivers, HoldsClaim
<1>2. ASSUME NEW new \in SUBSET Events, RecordDomainEvents(new) PROVE HoldsClaim(v, f)' /\ ~lapsed'[f]
  BY <1>2 DEF RecordDomainEvents, RowsAppear, local, HolderDelivers, HoldsClaim
<1>3. ASSUME NEW e \in Events, LeaseLapses(e) PROVE HoldsClaim(v, f)' /\ ~lapsed'[f]
  BY <1>3 DEF LeaseLapses, local, HolderDelivers, HoldsClaim
<1>4. ASSUME NEW w \in Workers, DeadLetterAbandonedClaims(w) PROVE HoldsClaim(v, f)' /\ ~lapsed'[f]
  <2>1. v # w /\ Delivering(v, f)
    BY <1>4 DEF DeadLetterAbandonedClaims
  <2>2. HoldsClaim(v, f) /\ ~lapsed[f]
    BY <2>1 DEF HolderDelivers
  <2> QED
    BY <1>4, <2>2 DEF DeadLetterAbandonedClaims, Abandoned, HoldsClaim
<1>5. ASSUME NEW w \in Workers, ClaimDomainEvents(w) PROVE HoldsClaim(v, f)' /\ ~lapsed'[f]
  <2>1. PICK claimed \in SUBSET Candidates, t \in FreshTokens : ClaimRows(w, claimed, t)
    BY <1>5 DEF ClaimDomainEvents
  <2>2. v # w /\ Delivering(v, f)
    BY <1>5 DEF ClaimDomainEvents
  <2>3. HoldsClaim(v, f) /\ ~lapsed[f]
    BY <2>2 DEF HolderDelivers
  <2>4. f \notin claimed
    BY <2>3 DEF Candidates, Due, HoldsClaim
  <2> QED
    BY <2>1, <2>2, <2>3, <2>4 DEF ClaimRows, HoldsClaim
<1>6. ASSUME NEW w \in Workers, NEW e \in Events, RenewLease(w, e)
      PROVE  HoldsClaim(v, f)' /\ ~lapsed'[f]
  <2>1. UNCHANGED <<status, claimToken, token>>
    BY <1>6 DEF RenewLease
  <2>2. CASE HoldsClaim(w, e)
    <3>1. /\ lapsed' = [lapsed EXCEPT ![e] = FALSE]
          /\ pc' = [pc EXCEPT ![w] = "deliver"]
          /\ current' = [current EXCEPT ![w] = e]
      BY <1>6, <2>2 DEF RenewLease
    <3>2. CASE v = w
      BY <2>1, <2>2, <3>1, <3>2 DEF HoldsClaim
    <3>3. CASE v # w
      <4>1. HoldsClaim(v, f) /\ ~lapsed[f]
        BY <3>1, <3>3 DEF HolderDelivers
      <4> QED
        BY <2>1, <3>1, <4>1 DEF HoldsClaim
    <3> QED
      BY <3>2, <3>3
  <2>3. CASE ~HoldsClaim(w, e)
    BY <1>1, <1>6, <2>3 DEF RenewLease
  <2> QED
    BY <2>2, <2>3
<1>7. ASSUME NEW w \in Workers,
             ClaimNothing(w) \/ NextRound(w) \/ SubscribersDone(w) \/ SubscribersFail(w) \/ Crash(w)
      PROVE  HoldsClaim(v, f)' /\ ~lapsed'[f]
  <2>1. UNCHANGED <<status, claimToken, lapsed>>
    BY <1>7 DEF ClaimNothing, NextRound, SubscribersDone, SubscribersFail, Crash, row
  <2>2. Delivering(v, f) /\ token'[v] = token[v]
    BY <1>7 DEF ClaimNothing, NextRound, SubscribersDone, SubscribersFail, Crash
  <2> QED
    BY <2>1, <2>2 DEF HolderDelivers, HoldsClaim
<1>8. ASSUME NEW w \in Workers, Publish(w) \/ DeadLetter(w) \/ Retry(w)
      PROVE  HoldsClaim(v, f)' /\ ~lapsed'[f]
  <2> DEFINE e == current[w]
  <2>1. /\ e \in Events
        /\ pc' = [pc EXCEPT ![w] = "renew"]
        /\ current' = [current EXCEPT ![w] = NoEvent]
        /\ UNCHANGED token
    BY <1>8 DEF Publish, DeadLetter, Retry, Finish
  <2>2. v # w /\ Delivering(v, f)
    BY <2>1
  <2>3. HoldsClaim(v, f) /\ ~lapsed[f]
    BY <2>2 DEF HolderDelivers
  <2>4. HoldsClaim(w, e) => f # e
    BY <2>2, <2>3 DEF BudgetInv, TokensDistinct, HoldsClaim
  <2>5. \/ UNCHANGED <<status, claimToken, lapsed>>
        \/ /\ HoldsClaim(w, e)
           /\ claimToken' = [claimToken EXCEPT ![e] = NoToken]
           /\ lapsed' = [lapsed EXCEPT ![e] = FALSE]
           /\ \E o \in Statuses : status' = [status EXCEPT ![e] = o]
    BY <1>8 DEF Publish, DeadLetter, Retry, Settle, row, Statuses
  <2> HIDE DEF e
  <2> QED
    BY <2>1, <2>2, <2>3, <2>4, <2>5 DEF HoldsClaim
<1>9. ASSUME NEW a \in Admins, ReplayDeadDomainEvent(a) \/ DiscardDeadDomainEvent(a)
      PROVE  HoldsClaim(v, f)' /\ ~lapsed'[f]
  <2> DEFINE e == request[a].event
  <2>1. e \in Events /\ UNCHANGED <<pc, current, token, claimToken, lapsed>>
    BY <1>9 DEF ReplayDeadDomainEvent, DiscardDeadDomainEvent, row, local
  <2>2. \/ UNCHANGED status
        \/ status[e] = "dead" /\ \E o \in Statuses : status' = [status EXCEPT ![e] = o]
    BY <1>9 DEF ReplayDeadDomainEvent, DiscardDeadDomainEvent, StillDead, row, Statuses
  <2>3. HoldsClaim(v, f) /\ ~lapsed[f]
    BY <2>1 DEF HolderDelivers
  <2> HIDE DEF e
  <2> QED
    BY <2>1, <2>2, <2>3 DEF HoldsClaim
<1>10. ASSUME NEW w \in Workers, SubscriberHandles(w) PROVE HoldsClaim(v, f)' /\ ~lapsed'[f]
  BY <1>1, <1>10 DEF SubscriberHandles, row
<1> QED
  BY <1>1, <1>2, <1>3, <1>4, <1>5, <1>6, <1>7, <1>8, <1>9, <1>10
  DEF Next, Dispatch, WorkerStep, AdminStep, NextAttemptArrives, ZombieHandles, ZombieEnds, ReadDead,
      vars, row, local

\* Two replicas never deliver an event at the same time, provided no replica
\* stalls past the lease it renewed for the delivery.
THEOREM ExclusiveDeliveryHolds == Spec => []ExclusiveDelivery
<1>1. Init => HolderDelivers
  BY DEF Init, HolderDelivers, Delivering
<1>2. Spec => [](Typed /\ BudgetInv /\ HolderDelivers)
  BY <1>1, TypedInit, TypedNext, BudgetInit, BudgetNext, HolderNext, PTL DEF Spec
<1>3. Typed /\ BudgetInv /\ HolderDelivers => ExclusiveDelivery
  <2> SUFFICES ASSUME Typed, BudgetInv, HolderDelivers, ~Stalls, NEW e \in Events,
                      NEW v \in Workers, NEW w \in Workers, Delivering(v, e), Delivering(w, e)
               PROVE  v = w
    BY DEF ExclusiveDelivery
  <2>1. HoldsClaim(v, e) /\ HoldsClaim(w, e)
    BY DEF HolderDelivers
  <2> QED
    BY <2>1 DEF BudgetInv, TokensDistinct, HoldsClaim, Typed, TypeOK
<1> QED
  BY <1>2, <1>3, PTL

-----------------------------------------------------------------------------
(* The composition: a commit is the recording step that the dispatcher     *)
(* expects, because the numbers of the committed rows are the next ones.   *)

\* A row is committed once.
Uncommitted == \A p \in Producers : written[p] \cap events = {}

LEMMA UncommittedNext ==
  ASSUME RecordingInv, Uncommitted, [RecordingNext]_transactions
  PROVE  Uncommitted'
<1>0. written \in [Producers -> SUBSET Rows]
  BY DEF RecordingInv, RecordingTypeOK
<1>1. CASE UNCHANGED <<events, written>>
  BY <1>1 DEF Uncommitted
<1>2. ASSUME NEW p \in Producers, NEW C, C = {} \/ C = written[p], EndTransaction(p, C)
      PROVE  Uncommitted'
  <2>1. /\ events' = events \cup C /\ written'[p] = {}
        /\ \A q \in Producers \ {p} : written'[q] = written[q]
    BY <1>0, <1>2 DEF EndTransaction
  <2>2. \A q \in Producers \ {p} : written[q] \cap written[p] = {}
    BY DEF RecordingInv, LockInv
  <2> QED
    BY <1>2, <2>1, <2>2 DEF Uncommitted
<1>3. ASSUME NEW p \in Producers, Create(p) PROVE Uncommitted'
  <2> DEFINE r == [aggregate |-> input[p].aggregate, sequence |-> sequence[p],
                   key |-> input[p].key, fact |-> input[p].fact]
  <2>1. CASE EndTransaction(p, {})
    BY <1>2, <2>1
  <2>2. CASE events' = events /\ written' = [written EXCEPT ![p] = @ \cup {r}]
    <3>1. tx[p] = "create"
      BY <1>3 DEF Create
    <3>2. r \notin events
      BY <3>1, NumberIsFree
    <3> HIDE DEF r
    <3>3. /\ written'[p] = written[p] \cup {r}
          /\ \A q \in Producers \ {p} : written'[q] = written[q]
      BY <1>0, <2>2
    <3> QED
      BY <2>2, <3>2, <3>3 DEF Uncommitted
  <2> QED
    BY <1>3, <2>1, <2>2 DEF Create
<1>4. ASSUME NEW p \in Producers, Statement(p) \/ Commit(p)
      PROVE  Uncommitted'
  BY <1>1, <1>2, <1>3, <1>4
     DEF Statement, Call, AggregateLock, FindExisting,
         ReadLastSequence, Rollback, Commit
<1> QED
  BY <1>1, <1>4 DEF RecordingNext, transactions

\* What is known of both components at once.
OutboxInv == Typed /\ RecordingInv /\ Uncommitted /\ DispatchedIsCommitted

LEMMA NumbersOfUnion == \A S, T : Numbers(S \cup T) = Numbers(S) \cup Numbers(T)
BY DEF Numbers

LEMMA StatementCommitsNothing ==
  ASSUME NEW p \in Producers, Statement(p)
  PROVE  events' = events
BY DEF Statement, Call, AggregateLock, FindExisting,
       ReadLastSequence, Create, Rollback, EndTransaction

\* The rows of a transaction are the next ones of their aggregates.
LEMMA CommitIsRecording ==
  ASSUME OutboxInv, NEW p \in Producers, CommitEvents(p)
  PROVE  RecordDomainEvents(Numbers(written[p]))
<1> DEFINE new == Numbers(written[p])
<1>0. /\ written[p] \subseteq Rows /\ events \subseteq Rows
      /\ new \subseteq Events /\ written[p] # {} /\ RowsAppear(new)
  BY DEF OutboxInv, RecordingInv, RecordingTypeOK, CommitEvents, Commit
<1>1. new # {}
  BY <1>0 DEF Numbers
<1>2. ASSUME NEW r \in written[p]
      PROVE  \E n \in Nat : /\ Numbered(Of(r.aggregate, Visible(p)), n)
                            /\ r \in Of(r.aggregate, Visible(p))
                            /\ r.sequence \in 1..n
  <2>1. r.aggregate \in Aggregates /\ r \in Of(r.aggregate, Visible(p))
    BY <1>0 DEF Rows, Of, Visible
  <2> QED
    BY <2>1 DEF OutboxInv, RecordingInv, NumberInv, Numbered
<1>3. ASSUME NEW e \in new PROVE status[e] = "none"
  <2>1. PICK r \in written[p] : e = <<r.aggregate, r.sequence>>
    BY DEF Numbers
  <2> SUFFICES ASSUME status[e] # "none" PROVE FALSE
    OBVIOUS
  <2>2. PICK s \in events : e = <<s.aggregate, s.sequence>>
    BY <1>0 DEF OutboxInv, DispatchedIsCommitted, Numbers
  <2>3. s.aggregate = r.aggregate /\ s.sequence = r.sequence
    BY <2>1, <2>2
  <2>4. s \in Of(r.aggregate, Visible(p))
    BY <2>3 DEF Of, Visible
  <2>5. r = s
    BY <1>2, <2>3, <2>4 DEF Numbered
  <2> QED
    BY <2>5 DEF OutboxInv, Uncommitted
<1>4. ASSUME NEW e \in new, NEW f \in Events, Earlier(f, e)
      PROVE  status[f] # "none" \/ f \in new
  <2>1. PICK r \in written[p] : e = <<r.aggregate, r.sequence>>
    BY DEF Numbers
  <2>2. PICK n \in Nat : /\ Numbered(Of(r.aggregate, Visible(p)), n)
                         /\ r.sequence \in 1..n
    BY <1>2
  <2>3. f[1] = r.aggregate /\ f[2] \in 1..n /\ f = <<f[1], f[2]>>
    BY <1>4, <2>1, <2>2, ConstantsAssumption DEF Earlier, Events
  <2>4. PICK s \in Of(r.aggregate, Visible(p)) : s.sequence = f[2]
    BY <2>2, <2>3 DEF Numbered
  <2>5. f = <<s.aggregate, s.sequence>> /\ s \in events \cup written[p]
    BY <2>3, <2>4 DEF Of, Visible
  <2>6. CASE s \in written[p]
    BY <2>5, <2>6 DEF Numbers
  <2>7. CASE s \in events
    <3>1. f \in Numbers(events)
      BY <2>5, <2>7 DEF Numbers
    <3> QED
      BY <3>1 DEF OutboxInv, DispatchedIsCommitted
  <2> QED
    BY <2>5, <2>6, <2>7
<1> HIDE DEF new
<1>5. RecordDomainEvents(new)
  BY <1>0, <1>1, <1>3, <1>4 DEF RecordDomainEvents
<1> QED
  BY <1>5 DEF new

\* A step of the outbox is a step, or none, of each component.
LEMMA OutboxSteps ==
  ASSUME OutboxInv, [OutboxNext]_outbox
  PROVE  [RecordingNext]_transactions /\ [Next]_vars
<1>1. ASSUME NEW p \in Producers, Unfinished(p)
      PROVE  RecordingNext /\ UNCHANGED vars
  BY <1>1 DEF Unfinished, RecordingNext
<1>2. ASSUME NEW p \in Producers, CommitEvents(p) PROVE RecordingNext /\ Next
  <2>1. Numbers(written[p]) \in SUBSET Events
    BY <1>2 DEF CommitEvents
  <2> QED
    BY <1>2, <2>1, CommitIsRecording DEF CommitEvents, RecordingNext, Next
<1>3. CASE DispatchEvents
  BY <1>3 DEF DispatchEvents, transactions, transactions, Next
<1>4. CASE UNCHANGED outbox
  BY <1>4 DEF outbox, transactions, transactions
<1> QED
  BY <1>1, <1>2, <1>3, <1>4 DEF OutboxNext

LEMMA CommittedNext ==
  ASSUME OutboxInv, [OutboxNext]_outbox
  PROVE  DispatchedIsCommitted'
<1>0. Typed /\ status \in [Events -> Statuses] /\ DispatchedIsCommitted
  BY DEF OutboxInv, Typed, TypeOK
<1>1. CASE events' = events /\ \A e \in Events : status'[e] # "none" <=> status[e] # "none"
  BY <1>0, <1>1 DEF DispatchedIsCommitted, Numbers
<1>2. ASSUME NEW p \in Producers, CommitEvents(p) PROVE DispatchedIsCommitted'
  <2> DEFINE new == Numbers(written[p])
  <2>1. events' = events \cup written[p] /\ new \subseteq Events /\ RowsAppear(new)
    BY <1>2 DEF CommitEvents, Commit, EndTransaction
  <2>2. Numbers(events') = Numbers(events) \cup new
    BY <2>1, NumbersOfUnion
  <2> HIDE DEF new
  <2>3. {e \in Events : status'[e] # "none"} = {e \in Events : status[e] # "none"} \cup new
    BY <2>1 DEF RowsAppear
  <2>4. {e \in Events : status'[e] # "none"} = Numbers(events')
    BY <1>0, <2>2, <2>3 DEF DispatchedIsCommitted
  <2> QED
    BY <2>4 DEF DispatchedIsCommitted, Numbers
<1>3. ASSUME NEW p \in Producers, Unfinished(p) PROVE DispatchedIsCommitted'
  BY <1>1, <1>3, StatementCommitsNothing DEF Unfinished, vars, row
<1>4. CASE DispatchEvents
  BY <1>0, <1>1, <1>4, DispatchStatus DEF DispatchEvents, transactions
<1>5. CASE UNCHANGED outbox
  BY <1>1, <1>5 DEF outbox, transactions, vars, row
<1> QED
  BY <1>2, <1>3, <1>4, <1>5 DEF OutboxNext

LEMMA OutboxInvHolds == OutboxSpec => []OutboxInv
<1>1. OutboxInit => OutboxInv
  <2>1. Init => {e \in Events : status[e] # "none"} = {}
    BY DEF Init
  <2>2. RecordingInit => Uncommitted /\ Numbers(events) = {}
    BY DEF RecordingInit, Uncommitted, Numbers
  <2> QED
    BY <2>1, <2>2, TypedInit, RecordingInvInit DEF OutboxInit, OutboxInv, DispatchedIsCommitted
<1>2. OutboxInv /\ [OutboxNext]_outbox => OutboxInv'
  <2> SUFFICES ASSUME OutboxInv, [OutboxNext]_outbox PROVE OutboxInv'
    OBVIOUS
  <2>1. [RecordingNext]_transactions /\ [Next]_vars
    BY OutboxSteps
  <2> QED
    BY <2>1, TypedNext, RecordingInvNext, UncommittedNext, CommittedNext DEF OutboxInv
<1> QED
  BY <1>1, <1>2, PTL DEF OutboxSpec

-----------------------------------------------------------------------------
\* The recording transactions and the dispatcher, run together on one table,
\* behave as each was specified alone: a commit of recordDomainEvent's rows is
\* what the dispatcher takes for granted, so everything that is proved about
\* either holds of the outbox.
THEOREM OutboxComposes == OutboxSpec => RecordingSpec /\ Spec
<1>1. OutboxInit => RecordingInit /\ Init
  BY DEF OutboxInit
<1>2. OutboxInv /\ [OutboxNext]_outbox => [RecordingNext]_transactions /\ [Next]_vars
  BY OutboxSteps
<1> QED
  BY <1>1, <1>2, OutboxInvHolds, PTL DEF OutboxSpec, RecordingSpec, Spec

\* The replicas see exactly what has committed, whatever else rolls back.
THEOREM DispatchedIsCommittedHolds == OutboxSpec => []DispatchedIsCommitted
<1>1. OutboxInv => DispatchedIsCommitted
  BY DEF OutboxInv
<1> QED
  BY <1>1, OutboxInvHolds, PTL

\* From the advisory lock to the subscriber: consumers see the events of an
\* aggregate begin in the order in which the transactions numbered them.
THEOREM CommitOrderHolds == OutboxSpec => []CommitOrder
<1>1. ASSUME OutboxInv, AggregateOrder PROVE CommitOrder
  <2> SUFFICES ASSUME NEW r \in events, NEW s \in events, r.aggregate = s.aggregate
               PROVE  /\ r.sequence = s.sequence => r = s
                      /\ r.sequence < s.sequence /\ handled[<<s.aggregate, s.sequence>>] > 0 =>
                           status[<<r.aggregate, r.sequence>>] \in Settled
    BY DEF CommitOrder
  <2>1. r.aggregate \in Aggregates
    BY <1>1 DEF OutboxInv, RecordingInv, RecordingTypeOK, Rows
  <2>2. r.sequence = s.sequence => r = s
    <3>1. r \in Of(r.aggregate, events) /\ s \in Of(r.aggregate, events)
      BY DEF Of
    <3> QED
      BY <1>1, <2>1, <3>1 DEF OutboxInv, RecordingInv, NumberInv, Numbered
  <2>3. <<r.aggregate, r.sequence>> \in Events /\ <<s.aggregate, s.sequence>> \in Events
    BY <1>1 DEF OutboxInv, DispatchedIsCommitted, Numbers
  <2>4. r.sequence < s.sequence =>
          Earlier(<<r.aggregate, r.sequence>>, <<s.aggregate, s.sequence>>)
    BY DEF Earlier
  <2> QED
    BY <1>1, <2>2, <2>3, <2>4 DEF AggregateOrder
<1>2. OutboxSpec => []AggregateOrder
  BY OutboxComposes, AggregateOrderHolds, PTL
<1> QED
  BY <1>1, <1>2, OutboxInvHolds, PTL

=============================================================================
