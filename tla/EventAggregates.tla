--------------------------- MODULE EventAggregates ---------------------------
(***************************************************************************)
(* What recording and dispatching share: both order the rows of            *)
(* domain_events within an aggregate.                                      *)
(***************************************************************************)
CONSTANT
  Aggregates  \* (organization, aggregateType, aggregateId) triples

=============================================================================
