------------------------- MODULE MCOutboxForwarder -------------------------
(* Small instances of OutboxForwarder: two replicas.                        *)
EXTENDS OutboxForwarder, TLC

\* Two entries, in order; or a single one, for the retry path.
MCEntries == 1 .. 2
MCCreatedAt == [e \in MCEntries |-> e]
MCOneEntry == {1}
MCOneCreatedAt == [e \in MCOneEntry |-> e]

Symmetry == Permutations(Forwarders)
=============================================================================
