---------------------------- MODULE MCUnitOfWork ----------------------------
(* Model values for UnitOfWork: two calls, one of which records an event.    *)
EXTENDS UnitOfWork, TLC

CONSTANTS u1, u2, k1, k2

MCRecording == {u1}
MCSafetyFaults ==
    {{}, {"swallow"}, {"straggler"}, {"queryTimeout"}, {"reuse"}, {"disconnect"}}
Symmetry == Permutations({k1, k2})
MCStraggler == {{"straggler"}}
=============================================================================
