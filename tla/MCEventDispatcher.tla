-------------------------- MODULE MCEventDispatcher --------------------------
\* EventDispatcher with the symmetry of its identities: replicas, administrators,
\* claim tokens and aggregates are only ever compared for equality.
EXTENDS EventDispatcher, TLC

MCSymmetry == Permutations(Workers) \cup Permutations(Admins)
                \cup Permutations(Tokens) \cup Permutations(Aggregates)

=============================================================================
