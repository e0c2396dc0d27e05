-------------------------- MODULE MCOptimisticLock --------------------------
(* Model values for OptimisticLock.                                          *)
EXTENDS OptimisticLock, TLC

CONSTANTS s1, s2

MCFaultSets == {{}, {"sameMs"}, {"foreign"}, {"resave"}, {"touch"}}
Symmetry == Permutations({s1, s2})
=============================================================================
