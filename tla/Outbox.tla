------------------------------- MODULE Outbox -------------------------------
(***************************************************************************)
(* The whole outbox: business transactions that record events next to the  *)
(* replicas that dispatch them, over one table.  The two components meet   *)
(* in the commit: the rows of the transaction become visible to the        *)
(* dispatcher, whatever numbers they carry.                                *)
(***************************************************************************)
EXTENDS EventDispatcher, EventRecording

outbox == <<vars, transactions>>

\* The dispatcher knows a row by its aggregate and its number.
Numbers(rows) == {<<r.aggregate, r.sequence>> : r \in rows}

-----------------------------------------------------------------------------
OutboxInit == Init /\ RecordingInit

\* What a transaction does before its commit is invisible to the replicas.
Unfinished(p) ==
  /\ Statement(p)
  /\ UNCHANGED vars

\* Bound: MaxSequence events of an aggregate.
CommitEvents(p) ==
  /\ Numbers(written[p]) \subseteq Events
  /\ Commit(p)
  /\ RowsAppear(Numbers(written[p]))

DispatchEvents ==
  /\ Dispatch
  /\ UNCHANGED transactions

OutboxNext ==
  \/ \E p \in Producers : Unfinished(p) \/ CommitEvents(p)
  \/ DispatchEvents

OutboxSpec == OutboxInit /\ [][OutboxNext]_outbox

-----------------------------------------------------------------------------
\* The dispatcher sees the committed rows, all of them and nothing else: no
\* subscriber learns of a transaction that rolled back.
DispatchedIsCommitted == {e \in Events : status[e] # "none"} = Numbers(events)

\* The order in which business transactions recorded the events of an aggregate
\* is the order in which consumers see them begin, and no two committed events
\* are one to the dispatcher.
CommitOrder ==
  \A r, s \in events : r.aggregate = s.aggregate =>
    /\ r.sequence = s.sequence => r = s
    /\ r.sequence < s.sequence /\ handled[<<s.aggregate, s.sequence>>] > 0 =>
         status[<<r.aggregate, r.sequence>>] \in Settled

=============================================================================
