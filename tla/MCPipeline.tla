----------------------------- MODULE MCPipeline -----------------------------
(* Small instances of Pipeline.                                              *)
EXTENDS Pipeline, TLC

MCEntries == {1}
MCCreatedAt == [e \in MCEntries |-> e]
MCHandlers == [e \in MCEntries |-> 1]
=============================================================================
