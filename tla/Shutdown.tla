------------------------------ MODULE Shutdown ------------------------------
(***************************************************************************)
(* ShutdownManager and the Runtime that owns the process around it.        *)
(*                                                                         *)
(* What happens between two macrotasks of the event loop is one step: the  *)
(* end of a phase starts the next one, and the end of the last phase or    *)
(* the timer, whichever comes first, makes the result.  The phases go on   *)
(* after a timeout until the process exits.                                *)
(***************************************************************************)
EXTENDS Integers, FiniteSets

CONSTANTS
    Phases,         \* bound: phases the application may add
    PartsOf,        \* phase -> its participants
    None,
    Causes,         \* what triggers a shutdown: signals, uncaught errors, calls
    UsageSets       \* how an application may use the manager

Participants == UNION {PartsOf[i] : i \in 1 .. Phases}

ASSUME PhasesAssumption ==
    /\ Phases \in Nat
    /\ IsFiniteSet(Participants)
    /\ \A i, j \in 1 .. Phases : i # j => PartsOf[i] \cap PartsOf[j] = {}
ASSUME NoneAssumption ==
    None \notin [timedOut : BOOLEAN, errors : Nat] \cup {0, 1}
ASSUME CausesAssumption ==
    {"unhandled-rejection", "programmatic"} \subseteq Causes /\ Causes \cap {"startup-error", None} = {}
ASSUME UsageAssumption == UsageSets \subseteq SUBSET {"direct"}

VARIABLES
    runtime,    \* Runtime.run: new, startup, waiting, draining or exited
    cause,      \* what triggered the shutdown, or None
    added,      \* phases added so far
    phase,      \* 0: shutdown() not called; Phases + 1: all phases are over
    disposal,   \* participant -> idle, disposing, ok or failed
    calls,      \* history: participant -> how often dispose() was called
    timer,      \* the timeout: off, on or fired
    result,     \* ShutdownResult, or None
    exitCode,
    usage       \* constant: "direct": somebody besides the runtime calls
                \* shutdownManager.shutdown()

managerVars == <<added, phase, disposal, calls, timer, result>>
runtimeVars == <<runtime, cause, exitCode>>
shutdownVars == <<managerVars, runtimeVars, usage>>

Over == Phases + 1

Init ==
    /\ runtime = "new" /\ cause = None
    /\ added = 0 /\ phase = 0
    /\ disposal = [p \in Participants |-> "idle"]
    /\ calls = [p \in Participants |-> 0]
    /\ timer = "off" /\ result = None /\ exitCode = None
    /\ usage \in UsageSets

-----------------------------------------------------------------------------
(* The manager.                                                             *)

AddPhase ==
    /\ runtime \in {"new", "startup"}
    /\ added < Phases
    /\ added' = added + 1
    /\ UNCHANGED <<phase, disposal, calls, timer, result, runtimeVars, usage>>

\* Participants of phases before i whose dispose() threw.
ErrorsBefore(i) ==
    Cardinality({p \in Participants : disposal[p] = "failed"
                    /\ \E j \in 1 .. i - 1 : p \in PartsOf[j]})

\* Phase i starts: all its participants are disposed concurrently.
Begin(i) ==
    /\ phase' = i
    /\ disposal' = [p \in Participants |->
                        IF p \in PartsOf[i] THEN "disposing" ELSE disposal[p]]
    /\ calls' = [p \in Participants |->
                        IF p \in PartsOf[i] THEN calls[p] + 1 ELSE calls[p]]

\* Mutation: the timer is not cleared.
MutFinish ==
    /\ phase' = Over
    /\ result' = IF result # None THEN result
                 ELSE [timedOut |-> FALSE, errors |-> ErrorsBefore(Over)]
    /\ UNCHANGED <<disposal, calls, timer>>

\* The loop over the phases is over.
Finish ==
    /\ phase' = Over
    /\ result' = IF result # None THEN result
                 ELSE [timedOut |-> FALSE, errors |-> ErrorsBefore(Over)]
    /\ timer' = IF timer = "fired" THEN timer ELSE "off"
    /\ UNCHANGED <<disposal, calls>>

\* shutdown(): the first call starts the phases and the timer, later ones get
\* the promise of the first.
CallShutdown ==
    IF phase = 0
    THEN /\ IF added > 0 THEN Begin(1) /\ timer' = "on" /\ UNCHANGED result
                         ELSE Finish
         /\ UNCHANGED added
    ELSE UNCHANGED managerVars

DirectShutdown ==
    /\ "direct" \in usage
    /\ phase = 0
    /\ runtime # "exited"
    /\ CallShutdown
    /\ UNCHANGED <<runtimeVars, usage>>

\* dispose() of p settles; an error is collected.
Disposes(p, outcome) ==
    /\ runtime # "exited"
    /\ disposal[p] = "disposing"
    /\ disposal' = [disposal EXCEPT ![p] = outcome]
    /\ UNCHANGED <<added, phase, calls, timer, result, runtimeVars, usage>>

\* Mutation: an error ends the phase at once.
MutPhaseSettled(i) ==
    \/ \A p \in PartsOf[i] : disposal[p] \in {"ok", "failed"}
    \/ \E p \in PartsOf[i] : disposal[p] = "failed"

PhaseSettled(i) == \A p \in PartsOf[i] : disposal[p] \in {"ok", "failed"}

PhaseEnds ==
    /\ runtime # "exited"
    /\ phase \in 1 .. Phases
    /\ PhaseSettled(phase)
    /\ IF phase < added THEN Begin(phase + 1) /\ UNCHANGED <<timer, result>>
                        ELSE Finish
    /\ UNCHANGED <<added, runtimeVars, usage>>

\* Mutation: the result waits for the phases.
MutTimesOut ==
    /\ runtime # "exited"
    /\ timer = "on"
    /\ timer' = "fired"
    /\ UNCHANGED <<added, phase, disposal, calls, result, runtimeVars, usage>>

\* The errors of the phase that is under way are not counted.
TimesOut ==
    /\ runtime # "exited"
    /\ timer = "on"
    /\ timer' = "fired"
    /\ result' = [timedOut |-> TRUE, errors |-> ErrorsBefore(phase)]
    /\ UNCHANGED <<added, phase, disposal, calls, runtimeVars, usage>>

-----------------------------------------------------------------------------
(* The runtime.                                                             *)

FirstCause(k) == IF cause = None THEN k ELSE cause

Run ==
    /\ runtime = "new"
    /\ runtime' = "startup"
    /\ UNCHANGED <<cause, exitCode, managerVars, usage>>

\* Signals, uncaught errors and unhandled rejections are heard after arm().
Trigger(k) ==
    /\ cause = None
    /\ runtime \in {"startup", "waiting"} \/ (runtime = "new" /\ k = "programmatic")
    /\ cause' = k
    /\ UNCHANGED <<runtime, exitCode, managerVars, usage>>

StartupCompletes ==
    /\ runtime = "startup"
    /\ runtime' = "waiting"
    /\ UNCHANGED <<cause, exitCode, managerVars, usage>>

StartupFails ==
    /\ runtime = "startup"
    /\ runtime' = "waiting"
    /\ cause' = FirstCause("startup-error")
    /\ UNCHANGED <<exitCode, managerVars, usage>>

\* A trigger is acted upon when the startup is over.
Wakes ==
    /\ runtime = "waiting" /\ cause # None
    /\ runtime' = "draining"
    /\ CallShutdown
    /\ UNCHANGED <<cause, exitCode, usage>>

\* Mutation: a timeout alone is no failure.
MutExitCodeFor(r) == IF cause = "startup-error" \/ r.errors > 0 THEN 1 ELSE 0

ExitCodeFor(r) ==
    IF cause = "startup-error" \/ r.timedOut \/ r.errors > 0 THEN 1 ELSE 0

\* exit(): the process is gone, whatever is still being disposed.
Exit ==
    /\ runtime = "draining" /\ result # None
    /\ runtime' = "exited"
    /\ exitCode' = ExitCodeFor(result)
    /\ UNCHANGED <<cause, managerVars, usage>>

Manager ==
    \/ AddPhase \/ DirectShutdown \/ PhaseEnds \/ TimesOut
    \/ \E p \in Participants, outcome \in {"ok", "failed"} : Disposes(p, outcome)

RuntimeStep ==
    \/ Run \/ StartupCompletes \/ StartupFails \/ Wakes \/ Exit
    \/ \E k \in Causes : Trigger(k)

Next == Manager \/ RuntimeStep

Spec == Init /\ [][Next]_shutdownVars

(* Fairness: continuations run and the timer fires.  The startup function    *)
(* and participants may hang.                                                *)
Fairness ==
    /\ WF_shutdownVars(PhaseEnds)
    /\ WF_shutdownVars(TimesOut)
    /\ WF_shutdownVars(Wakes \/ Exit)

FairSpec == Spec /\ Fairness

-----------------------------------------------------------------------------
(* Properties.                                                              *)

\* Type invariant: the timer runs exactly while phases are under way without
\* a result.
TypeOK ==
    /\ runtime \in {"new", "startup", "waiting", "draining", "exited"}
    /\ cause \in Causes \cup {"startup-error", None}
    /\ added \in 0 .. Phases
    /\ phase \in 0 .. Over
    /\ disposal \in [Participants -> {"idle", "disposing", "ok", "failed"}]
    /\ calls \in [Participants -> Nat]
    /\ timer \in {"off", "on", "fired"}
    /\ result \in {None} \cup [timedOut : BOOLEAN, errors : Nat]
    /\ exitCode \in {None, 0, 1}
    /\ usage \in UsageSets
    /\ timer = "on" <=> phase \in 1 .. Phases /\ result = None
    /\ runtime \in {"draining", "exited"} => phase > 0
    /\ phase = 0 => result = None

\* "Phases run sequentially in insertion order": whatever throws, hangs or
\* times out, nobody is disposed before everybody of the earlier phases has
\* settled.
PhaseOrder ==
    \A i, j \in 1 .. Phases : i < j =>
        \A p \in PartsOf[i], q \in PartsOf[j] :
            disposal[q] # "idle" => disposal[p] \in {"ok", "failed"}

\* "shutdown() is idempotent -- concurrent callers share the same in-flight
\* promise": nobody is disposed twice, however often it is called.
DisposedOnce == \A p \in Participants : calls[p] <= 1

\* "0 if everything drained cleanly, 1 otherwise" (README 86): with exit code
\* 0 all participants of all phases were disposed without an error -- unless
\* somebody called shutdown() while phases were still being added.
ExitZeroIsClean ==
    exitCode = 0 /\ "direct" \notin usage =>
        \A i \in 1 .. added : \A p \in PartsOf[i] : disposal[p] = "ok"

\* A triggered runtime exits once its startup function has settled, even if
\* participants hang.
TriggerLeadsToExit == cause # None /\ runtime = "waiting" ~> runtime = "exited"
=============================================================================
