------------------------------ MODULE MCService ------------------------------
(* Model values for Service: two participants, then the pool and the logger. *)
EXTENDS Service

CONSTANTS runner, server, pool, logs

MCPartsOf == <<{runner, server}, {pool, logs}>>
\* Signals and uncaught exceptions are heard as unhandled rejections are.
MCCauses == {"unhandled-rejection", "programmatic"}
MCUsageSets == {{}, {"direct"}}
MCFaultSets == {{}, {"overlap", "lateRegister"}}
=============================================================================
