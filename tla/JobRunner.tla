------------------------------ MODULE JobRunner ------------------------------
(***************************************************************************)
(* InProcessJobRunner: one interval timer per job name, and one map entry  *)
(* per job name for the promise of a tick that is running.  A tick may     *)
(* outlast the interval, so that ticks of one job overlap.                 *)
(***************************************************************************)
EXTENDS Integers, FiniteSets

CONSTANTS           \* with the assumptions that Process states
    Jobs,           \* job names
    NoTick,
    MaxTicks,       \* bound: ticks of each job
    FaultSets       \* what an application may do

VARIABLES
    timers,     \* jobs with an interval timer
    ticks,      \* job -> how many ticks have started
    running,    \* ticks whose execute() has not settled
    active,     \* activeExecutions: job -> tick or NoTick
    stage,      \* dispose(): on, draining or disposed
    awaited,    \* ticks whose promises drain() awaits
    faults      \* constant: "overlap": a tick may outlast its interval;
                \* "lateRegister": register() may be called after dispose()

jobVars == <<timers, ticks, running, active, stage, awaited, faults>>

Ticks == Jobs \X Nat

\* The latest tick of j.
Newest(j) == <<j, ticks[j]>>

Init ==
    /\ timers = {}
    /\ ticks = [j \in Jobs |-> 0]
    /\ running = {}
    /\ active = [j \in Jobs |-> NoTick]
    /\ stage = "on"
    /\ awaited = {}
    /\ faults \in FaultSets

\* A second job of the same name is ignored; nothing looks at `stage`.
Register(j) ==
    /\ j \notin timers
    /\ stage = "on" \/ "lateRegister" \in faults
    /\ timers' = timers \cup {j}
    /\ UNCHANGED <<ticks, running, active, stage, awaited, faults>>

\* The interval callback: it starts the tick and stores its promise.
Fires(j) ==
    /\ j \in timers
    /\ ticks[j] < MaxTicks
    /\ "overlap" \in faults \/ \A t \in running : t[1] # j
    /\ ticks' = [ticks EXCEPT ![j] = @ + 1]
    /\ running' = running \cup {Newest(j)'}
    /\ active' = [active EXCEPT ![j] = Newest(j)']
    /\ UNCHANGED <<timers, stage, awaited, faults>>

\* execute() returns or throws; the error is logged.  The entry is deleted if
\* it is still that of this tick.
Settles(t) ==
    /\ t \in running
    /\ running' = running \ {t}
    /\ active' = IF active[t[1]] = t THEN [active EXCEPT ![t[1]] = NoTick] ELSE active
    /\ UNCHANGED <<timers, ticks, stage, awaited, faults>>

\* Mutation: the timers go on.
MutDispose ==
    /\ stage = "on"
    /\ stage' = "draining"
    /\ awaited' = {active[j] : j \in Jobs} \ {NoTick}
    /\ UNCHANGED <<timers, ticks, running, active, faults>>

\* stop(), then drain() takes the promises that are in the map.
Dispose ==
    /\ stage = "on"
    /\ stage' = "draining"
    /\ timers' = {}
    /\ awaited' = {active[j] : j \in Jobs} \ {NoTick}
    /\ UNCHANGED <<ticks, running, active, faults>>

Drained ==
    /\ stage = "draining"
    /\ awaited \cap running = {}
    /\ stage' = "disposed"
    /\ UNCHANGED <<timers, ticks, running, active, awaited, faults>>

Next ==
    \/ \E j \in Jobs : Register(j) \/ Fires(j)
    \/ \E t \in running : Settles(t)
    \/ Dispose \/ Drained

Spec == Init /\ [][Next]_jobVars

-----------------------------------------------------------------------------
(* Properties.                                                              *)

\* Type invariant.
TypeOK ==
    /\ timers \subseteq Jobs
    /\ timers = {} \/ stage = "on" \/ "lateRegister" \in faults
    /\ ticks \in [Jobs -> 0 .. MaxTicks]
    /\ running \subseteq Ticks
    /\ active \in [Jobs -> Ticks \cup {NoTick}]
    /\ stage \in {"on", "draining", "disposed"}
    /\ awaited \subseteq Ticks
    /\ faults \in FaultSets

\* The map holds the latest tick of a job exactly while it is running, however
\* the ends of overlapping ticks are ordered.
ActiveIsNewest ==
    \A j \in Jobs : active[j] = IF Newest(j) \in running THEN Newest(j) ELSE NoTick
=============================================================================
