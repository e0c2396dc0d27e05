------------------------------- MODULE Process -------------------------------
(***************************************************************************)
(* A process: the runtime and its shutdown manager with the job runner as  *)
(* a participant of an early phase and the connection pool, which the jobs *)
(* use, as a participant of a later one.  dispose() of the job runner is   *)
(* called when its phase begins and settles when its drain is over.        *)
(***************************************************************************)
EXTENDS Shutdown

CONSTANTS Runner, Pool, Jobs, NoTick, MaxTicks, FaultSets

ASSUME RunnerBeforePool ==
    \E i, j \in 1 .. Phases : i < j /\ Runner \in PartsOf[i] /\ Pool \in PartsOf[j]

ASSUME JobsAssumption == IsFiniteSet(Jobs) /\ NoTick \notin Jobs \X Nat
ASSUME TicksAssumption == MaxTicks \in Nat
ASSUME JobFaultsAssumption == FaultSets \subseteq SUBSET {"overlap", "lateRegister"}

VARIABLES timers, ticks, running, active, stage, awaited, faults

JR == INSTANCE JobRunner

jobVars == <<timers, ticks, running, active, stage, awaited, faults>>
processVars == <<shutdownVars, jobVars>>

ProcessInit == Init /\ JR!Init

Alive == runtime # "exited"

\* The job runner is disposed exactly when its phase begins.
DisposalOfRunner ==
    IF disposal[Runner] = "idle" /\ disposal'[Runner] = "disposing"
    THEN JR!Dispose
    ELSE UNCHANGED jobVars

\* A step of the manager or the runtime other than an end of dispose().
ControlStep ==
    /\ AddPhase \/ DirectShutdown \/ PhaseEnds \/ TimesOut \/ RuntimeStep
    /\ DisposalOfRunner

ParticipantStep(p, outcome) ==
    /\ Disposes(p, outcome)
    /\ IF p = Runner THEN outcome = "ok" /\ JR!Drained ELSE UNCHANGED jobVars

JobStep ==
    /\ Alive
    /\ \/ \E j \in Jobs : JR!Register(j) \/ JR!Fires(j)
       \/ \E t \in running : JR!Settles(t)
    /\ UNCHANGED shutdownVars

ProcessNext ==
    \/ ControlStep
    \/ \E p \in Participants, outcome \in {"ok", "failed"} : ParticipantStep(p, outcome)
    \/ JobStep

ProcessSpec == ProcessInit /\ [][ProcessNext]_processVars

(* Fairness: as in Shutdown.  Jobs may run for ever.                         *)
FairProcess ==
    /\ ProcessSpec
    /\ WF_processVars(PhaseEnds /\ DisposalOfRunner)
    /\ WF_processVars(TimesOut /\ DisposalOfRunner)
    /\ WF_processVars((Wakes \/ Exit) /\ DisposalOfRunner)

-----------------------------------------------------------------------------
(* Properties.                                                              *)

\* The job runner's own type invariant and the invariant of its map.
JobsTypeOK == JR!TypeOK
ActiveIsNewest == JR!ActiveIsNewest

\* A job never runs on a pool that is being closed, whatever throws, hangs or
\* times out -- if its ticks do not overlap and it was registered before the
\* shutdown.
NoTickOnClosedPool ==
    faults = {} /\ disposal[Pool] # "idle" => running = {}
=============================================================================
