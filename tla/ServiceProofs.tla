---------------------------- MODULE ServiceProofs ----------------------------
(***************************************************************************)
(* Proofs about Process and Service for any phases, participants and jobs: *)
(* types, the order in which participants are disposed, and that no tick   *)
(* runs on a pool that is being closed; then, for any loggers and entries, *)
(* that a Service is a Process, so that all this holds of it, and that     *)
(* what is logged before the logger is flushed is printed.                 *)
(***************************************************************************)
EXTENDS Service, TLAPS, FiniteSetTheorems

\* Every step is one of these.
LEMMA Steps ==
    ASSUME ProcessNext
    PROVE  \/ (AddPhase \/ DirectShutdown \/ PhaseEnds \/ TimesOut \/ RuntimeStep) /\ DisposalOfRunner
           \/ \E p \in Participants, outcome \in {"ok", "failed"} : ParticipantStep(p, outcome)
           \/ JobStep
BY DEF ProcessNext, ControlStep

\* The errors of a result are a natural number.
LEMMA ErrorsNat ==
    ASSUME NEW i PROVE ErrorsBefore(i) \in Nat
<1> DEFINE E == {p \in Participants : disposal[p] = "failed"
                    /\ \E j \in 1 .. i - 1 : p \in PartsOf[j]}
<1>1. IsFiniteSet(Participants) BY PhasesAssumption
<1>2. IsFiniteSet(E) BY <1>1, FS_Subset
<1>3. Cardinality(E) \in Nat BY <1>2, FS_CardinalityType
<1> QED BY <1>3 DEF ErrorsBefore

\* What a phase beginning or the loop ending does to the types.
LEMMA BeginTypes ==
    ASSUME TypeOK, NEW i \in 1 .. Phases, Begin(i)
    PROVE  /\ phase' = i
           /\ disposal' \in [Participants -> {"idle", "disposing", "ok", "failed"}]
           /\ calls' \in [Participants -> Nat]
BY DEF TypeOK, Begin

LEMMA FinishTypes ==
    ASSUME TypeOK, Finish
    PROVE  /\ phase' = Over /\ disposal' = disposal /\ calls' = calls
           /\ timer' \in {"off", "fired"}
           /\ result' \in [timedOut : BOOLEAN, errors : Nat]
BY ErrorsNat DEF TypeOK, Finish

\* The types after one step of the manager or the runtime.
ManagerTypes ==
    /\ phase \in 0 .. Over /\ added \in 0 .. Phases
    /\ disposal \in [Participants -> {"idle", "disposing", "ok", "failed"}]
    /\ calls \in [Participants -> Nat]
    /\ timer \in {"off", "on", "fired"}
    /\ result \in {None} \cup [timedOut : BOOLEAN, errors : Nat]
    /\ timer = "on" <=> phase \in 1 .. Phases /\ result = None
    /\ phase = 0 => result = None

LEMMA CallTypes ==
    ASSUME TypeOK, CallShutdown
    PROVE  ManagerTypes' /\ phase' > 0 /\ added' = added
<1> USE PhasesAssumption, NoneAssumption
<1>1. CASE phase = 0 /\ added > 0
  <2>1. Begin(1) /\ timer' = "on" /\ result' = result /\ added' = added
        BY <1>1 DEF CallShutdown
  <2>2. 1 \in 1 .. Phases BY <1>1 DEF TypeOK
  <2> QED BY <1>1, <2>1, <2>2, BeginTypes DEF TypeOK, ManagerTypes, Over
<1>2. CASE phase = 0 /\ ~(added > 0)
  <2>1. Finish /\ added' = added BY <1>2 DEF CallShutdown
  <2> QED BY <2>1, FinishTypes DEF TypeOK, ManagerTypes, Over
<1>3. CASE phase # 0
  <2>1. UNCHANGED managerVars BY <1>3 DEF CallShutdown
  <2> QED BY <1>3, <2>1 DEF TypeOK, ManagerTypes, managerVars, Over
<1> QED BY <1>1, <1>2, <1>3

LEMMA ShutdownTypes ==
    ASSUME TypeOK, [Next]_shutdownVars
    PROVE  TypeOK'
<1> USE PhasesAssumption, NoneAssumption
<1>1. CASE AddPhase
      BY <1>1 DEF AddPhase, TypeOK, runtimeVars, Over
<1>2. CASE DirectShutdown
  <2>1. ManagerTypes' /\ phase' > 0 BY <1>2, CallTypes DEF DirectShutdown
  <2> QED BY <1>2, <2>1 DEF DirectShutdown, TypeOK, ManagerTypes, runtimeVars
<1>3. CASE PhaseEnds
  <2>1. CASE phase < added
    <3>1. Begin(phase + 1) /\ UNCHANGED <<timer, result, added>>
          BY <1>3, <2>1 DEF PhaseEnds
    <3>2. phase + 1 \in 1 .. Phases BY <1>3, <2>1 DEF PhaseEnds, TypeOK
    <3> QED BY <1>3, <3>1, <3>2, BeginTypes DEF PhaseEnds, TypeOK, runtimeVars, Over
  <2>2. CASE ~(phase < added)
    <3>1. Finish /\ added' = added BY <1>3, <2>2 DEF PhaseEnds
    <3> QED BY <1>3, <3>1, FinishTypes DEF PhaseEnds, TypeOK, runtimeVars, Over
  <2> QED BY <2>1, <2>2
<1>4. CASE TimesOut
  <2>1. result' \in [timedOut : BOOLEAN, errors : Nat]
        BY <1>4, ErrorsNat DEF TimesOut
  <2>2. result' # None BY <2>1
  <2>3. timer' = "fired" /\ phase' = phase /\ phase # 0
        BY <1>4 DEF TimesOut, TypeOK, Over
  <2>4. UNCHANGED <<added, disposal, calls, runtimeVars, usage>>
        BY <1>4 DEF TimesOut
  <2> QED BY <2>1, <2>2, <2>3, <2>4 DEF TypeOK, runtimeVars, Over
<1>5. CASE \E p \in Participants, outcome \in {"ok", "failed"} : Disposes(p, outcome)
      BY <1>5 DEF Disposes, TypeOK, runtimeVars
<1>6. CASE Wakes
  <2>1. ManagerTypes' /\ phase' > 0 BY <1>6, CallTypes DEF Wakes
  <2> QED BY <1>6, <2>1 DEF Wakes, TypeOK, ManagerTypes
<1>7. CASE Exit
      BY <1>7 DEF Exit, TypeOK, managerVars, ExitCodeFor
<1>8. CASE Run \/ StartupCompletes \/ StartupFails \/ \E k \in Causes : Trigger(k)
      BY <1>8 DEF Run, StartupCompletes, StartupFails, Trigger, TypeOK, managerVars,
                  FirstCause
<1>9. CASE UNCHANGED shutdownVars
      BY <1>9 DEF TypeOK, shutdownVars, managerVars, runtimeVars
<1> QED BY <1>1, <1>2, <1>3, <1>4, <1>5, <1>6, <1>7, <1>8, <1>9
        DEF Next, Manager, RuntimeStep

\* A step of the process is a step of the shutdown or leaves it alone.
LEMMA ProcessSteps ==
    ASSUME [ProcessNext]_processVars
    PROVE  [Next]_shutdownVars
BY Steps DEF ParticipantStep, JobStep, Next, Manager, RuntimeStep, processVars, shutdownVars

-----------------------------------------------------------------------------
(* The order of disposal.                                                   *)

\* Where a participant of phase i is, as the phases go by.
PhaseInv ==
    /\ \A i \in 1 .. Phases : \A p \in PartsOf[i] :
        /\ calls[p] = IF disposal[p] = "idle" THEN 0 ELSE 1
        /\ phase < i => disposal[p] = "idle"
        /\ phase = i => disposal[p] # "idle"
        /\ phase \in i + 1 .. Phases => disposal[p] \in {"ok", "failed"}
        /\ phase = Over => disposal[p] # "disposing"
    /\ PhaseOrder

LEMMA BeginOrder ==
    ASSUME TypeOK, PhaseInv, NEW k \in 1 .. Phases, Begin(k), phase = k - 1,
           \A p \in Participants : phase # 0 /\ p \in PartsOf[phase] => disposal[p] \in {"ok", "failed"}
    PROVE  PhaseInv'
<1> USE PhasesAssumption
<1>1. \A i \in 1 .. Phases : PartsOf[i] \subseteq Participants BY DEF Participants
<1>2. phase' = k BY DEF Begin
<1>3. ASSUME NEW i \in 1 .. Phases, NEW p \in PartsOf[i]
      PROVE  /\ calls'[p] = IF disposal'[p] = "idle" THEN 0 ELSE 1
             /\ k < i => disposal'[p] = "idle"
             /\ k = i => disposal'[p] # "idle"
             /\ i < k => disposal'[p] = disposal[p]
             /\ k \in i + 1 .. Phases => disposal'[p] \in {"ok", "failed"}
  <2>1. CASE i = k
        BY <1>1, <1>3, <2>1 DEF Begin, TypeOK, PhaseInv
  <2>2. CASE i # k
    <3>1. p \notin PartsOf[k] /\ p \in Participants BY <1>1, <1>3, <2>2
    <3>2. disposal'[p] = disposal[p] /\ calls'[p] = calls[p]
          BY <3>1 DEF Begin, TypeOK
    <3> QED BY <1>3, <2>2, <3>1, <3>2 DEF PhaseInv, TypeOK
  <2> QED BY <2>1, <2>2
<1>4. PhaseOrder'
  <2> SUFFICES ASSUME NEW i \in 1 .. Phases, NEW j \in 1 .. Phases, i < j,
                      NEW p \in PartsOf[i], NEW q \in PartsOf[j],
                      disposal'[q] # "idle"
               PROVE  disposal'[p] \in {"ok", "failed"}
      BY DEF PhaseOrder
  <2>1. j <= k BY <1>3
  <2>2. k \in i + 1 .. Phases BY <2>1
  <2> QED BY <1>3, <2>2
<1> QED BY <1>2, <1>3, <1>4 DEF PhaseInv, Over

LEMMA SameOrder ==
    ASSUME PhaseInv, UNCHANGED <<phase, disposal, calls>>
    PROVE  PhaseInv'
BY DEF PhaseInv, PhaseOrder, Over

LEMMA FinishOrder ==
    ASSUME TypeOK, PhaseInv, Finish,
           \A p \in Participants : disposal[p] # "disposing"
    PROVE  PhaseInv'
<1> USE PhasesAssumption
<1>1. phase' = Over /\ disposal' = disposal /\ calls' = calls BY DEF Finish
<1>2. \A i \in 1 .. Phases : PartsOf[i] \subseteq Participants BY DEF Participants
<1>3. PhaseOrder' BY <1>1 DEF PhaseInv, PhaseOrder
<1> QED BY <1>1, <1>2, <1>3 DEF PhaseInv, Over

\* While phase k is under way nobody of another phase is being disposed.
LEMMA OnlyCurrent ==
    ASSUME TypeOK, PhaseInv, NEW p \in Participants, disposal[p] = "disposing"
    PROVE  phase \in 1 .. Phases /\ p \in PartsOf[phase]
<1>1. PICK i \in 1 .. Phases : p \in PartsOf[i] BY DEF Participants
<1> QED BY <1>1, PhasesAssumption DEF PhaseInv, TypeOK, Over

LEMMA CallOrder ==
    ASSUME TypeOK, PhaseInv, CallShutdown
    PROVE  PhaseInv'
<1> USE PhasesAssumption
<1>1. CASE phase = 0 /\ added > 0
  <2>1. Begin(1) /\ 1 \in 1 .. Phases BY <1>1 DEF CallShutdown, TypeOK
  <2> QED BY <1>1, <2>1, BeginOrder
<1>2. CASE phase = 0 /\ ~(added > 0)
  <2>1. Finish BY <1>2 DEF CallShutdown
  <2>2. \A p \in Participants : disposal[p] # "disposing" BY <1>2, OnlyCurrent
  <2> QED BY <2>1, <2>2, FinishOrder
<1>3. CASE phase # 0
      BY <1>3, SameOrder DEF CallShutdown, managerVars
<1> QED BY <1>1, <1>2, <1>3

LEMMA OrderStep ==
    ASSUME TypeOK, PhaseInv, [Next]_shutdownVars
    PROVE  PhaseInv'
<1> USE PhasesAssumption
<1>1. CASE DirectShutdown \/ Wakes
      BY <1>1, CallOrder DEF DirectShutdown, Wakes
<1>2. CASE PhaseEnds
  <2>1. \A p \in Participants : disposal[p] # "disposing"
        BY <1>2, OnlyCurrent DEF PhaseEnds, PhaseSettled
  <2>2. CASE phase < added
    <3>1. Begin(phase + 1) /\ phase + 1 \in 1 .. Phases
          BY <1>2, <2>2 DEF PhaseEnds, TypeOK
    <3> QED BY <1>2, <3>1, BeginOrder DEF PhaseEnds, PhaseSettled, TypeOK
  <2>3. CASE ~(phase < added)
    <3>1. Finish BY <1>2, <2>3 DEF PhaseEnds
    <3> QED BY <2>1, <3>1, FinishOrder
  <2> QED BY <2>2, <2>3
<1>3. ASSUME NEW p \in Participants, NEW outcome \in {"ok", "failed"}, Disposes(p, outcome)
      PROVE  PhaseInv'
  <2>1. phase \in 1 .. Phases /\ p \in PartsOf[phase]
        BY <1>3, OnlyCurrent DEF Disposes
  <2>2. /\ disposal[p] = "disposing" /\ disposal' = [disposal EXCEPT ![p] = outcome]
        /\ phase' = phase /\ calls' = calls
        BY <1>3 DEF Disposes
  <2>3. \A q \in Participants :
            /\ disposal'[q] = "idle" <=> disposal[q] = "idle"
            /\ disposal[q] \in {"ok", "failed"} => disposal'[q] \in {"ok", "failed"}
            /\ disposal'[q] = "disposing" => disposal[q] = "disposing"
        BY <2>2 DEF TypeOK
  <2>4. \A i \in 1 .. Phases : PartsOf[i] \subseteq Participants BY DEF Participants
  <2>5. PhaseOrder' BY <2>3, <2>4 DEF PhaseInv, PhaseOrder
  <2> QED BY <2>1, <2>2, <2>3, <2>4, <2>5 DEF PhaseInv, Over
<1>4. CASE \/ AddPhase \/ TimesOut \/ Exit \/ Run \/ StartupCompletes \/ StartupFails
           \/ (\E k \in Causes : Trigger(k)) \/ UNCHANGED shutdownVars
  <2>1. UNCHANGED <<phase, disposal, calls>>
        BY <1>4 DEF AddPhase, TimesOut, Exit, Run, StartupCompletes, StartupFails, Trigger,
                    shutdownVars, managerVars
  <2> QED BY <2>1, SameOrder
<1> QED BY <1>1, <1>2, <1>3, <1>4 DEF Next, Manager, RuntimeStep

LEMMA ShutdownInit ==
    ASSUME Init PROVE TypeOK /\ PhaseInv
<1>1. TypeOK BY PhasesAssumption, NoneAssumption DEF Init, TypeOK, Over
<1>2. \A i \in 1 .. Phases : PartsOf[i] \subseteq Participants BY DEF Participants
<1> QED BY <1>1, <1>2, PhasesAssumption DEF Init, PhaseInv, PhaseOrder, Over

\* The shutdown keeps its types in every process: in particular the timer runs
\* exactly while phases are under way without a result.
THEOREM TypeCorrect == ProcessSpec => []TypeOK
<1>1. ProcessInit => TypeOK BY ShutdownInit DEF ProcessInit
<1>2. TypeOK /\ [ProcessNext]_processVars => TypeOK'
      BY ShutdownTypes, ProcessSteps
<1> QED BY <1>1, <1>2, PTL DEF ProcessSpec

LEMMA OrderKept == ProcessSpec => [](TypeOK /\ PhaseInv)
<1>1. ProcessInit => TypeOK /\ PhaseInv BY ShutdownInit DEF ProcessInit
<1>2. TypeOK /\ PhaseInv /\ [ProcessNext]_processVars => (TypeOK /\ PhaseInv)'
      BY ShutdownTypes, OrderStep, ProcessSteps
<1> QED BY <1>1, <1>2, PTL DEF ProcessSpec

\* "Phases run sequentially in insertion order", for any phases and
\* participants, whatever throws, hangs or times out.
THEOREM PhasesInOrder == ProcessSpec => []PhaseOrder
<1>1. PhaseInv => PhaseOrder BY DEF PhaseInv
<1> QED BY <1>1, OrderKept, PTL

\* "shutdown() is idempotent": nobody is disposed twice.
THEOREM DisposedAtMostOnce == ProcessSpec => []DisposedOnce
<1>1. PhaseInv => DisposedOnce
      BY DEF PhaseInv, DisposedOnce, Participants
<1> QED BY <1>1, OrderKept, PTL

-----------------------------------------------------------------------------
(* The job runner.                                                          *)

\* What can happen to the job runner in one step.
LEMMA JobSteps ==
    ASSUME [ProcessNext]_processVars
    PROVE  \/ JR!Dispose /\ disposal[Runner] = "idle" /\ disposal'[Runner] = "disposing"
           \/ /\ UNCHANGED jobVars
              /\ disposal[Runner] = "idle" => disposal'[Runner] # "disposing"
           \/ JR!Drained
           \/ \E j \in Jobs : JR!Register(j) \/ JR!Fires(j)
           \/ \E t \in running : JR!Settles(t)
<1>1. CASE DisposalOfRunner BY <1>1 DEF DisposalOfRunner
<1>2. ASSUME NEW p \in Participants, NEW outcome \in {"ok", "failed"},
             ParticipantStep(p, outcome)
      PROVE  \/ /\ UNCHANGED jobVars
                /\ disposal[Runner] = "idle" => disposal'[Runner] # "disposing"
             \/ JR!Drained
  BY <1>2 DEF ParticipantStep, Disposes
<1>3. CASE JobStep BY <1>3 DEF JobStep
<1>4. CASE UNCHANGED processVars
      BY <1>4 DEF processVars, shutdownVars, managerVars
<1> QED BY <1>1, <1>2, <1>3, <1>4, Steps

LEMMA JobTypes ==
    ASSUME JobsTypeOK, [ProcessNext]_processVars
    PROVE  JobsTypeOK'
<1> USE TicksAssumption DEF JobsTypeOK, JR!TypeOK, JR!Ticks
<1>1. CASE JR!Dispose BY <1>1 DEF JR!Dispose
<1>2. CASE JR!Drained BY <1>2 DEF JR!Drained
<1>3. ASSUME NEW j \in Jobs, JR!Register(j) PROVE JobsTypeOK'
      BY <1>3 DEF JR!Register
<1>4. ASSUME NEW j \in Jobs, JR!Fires(j) PROVE JobsTypeOK'
  <2>1. /\ ticks' = [ticks EXCEPT ![j] = @ + 1] /\ ticks'[j] \in 0 .. MaxTicks
        /\ JR!Newest(j)' \in Jobs \X Nat
        BY <1>4 DEF JR!Fires, JR!Newest
  <2> QED BY <1>4, <2>1 DEF JR!Fires
<1>5. ASSUME NEW t \in running, JR!Settles(t) PROVE JobsTypeOK'
      BY <1>5 DEF JR!Settles
<1>6. CASE UNCHANGED jobVars BY <1>6 DEF jobVars
<1> QED BY <1>1, <1>2, <1>3, <1>4, <1>5, <1>6, JobSteps

\* The map, whatever the ticks do.
LEMMA ActiveStep ==
    ASSUME JobsTypeOK, ActiveIsNewest, [ProcessNext]_processVars
    PROVE  ActiveIsNewest'
<1> USE TicksAssumption, JobsAssumption
        DEF JobsTypeOK, JR!TypeOK, JR!Ticks, ActiveIsNewest, JR!ActiveIsNewest, JR!Newest
<1>1. CASE UNCHANGED <<ticks, running, active>> BY <1>1
<1>2. CASE JR!Dispose \/ JR!Drained \/ \E j \in Jobs : JR!Register(j)
      BY <1>1, <1>2 DEF JR!Dispose, JR!Drained, JR!Register
<1>3. ASSUME NEW j \in Jobs, JR!Fires(j) PROVE ActiveIsNewest'
  <2>1. /\ ticks' = [ticks EXCEPT ![j] = @ + 1]
        /\ active' = [active EXCEPT ![j] = <<j, ticks'[j]>>]
        /\ running' = running \cup {<<j, ticks'[j]>>}
        BY <1>3 DEF JR!Fires
  <2>2. ASSUME NEW k \in Jobs
        PROVE  active'[k] = IF <<k, ticks'[k]>> \in running' THEN <<k, ticks'[k]>> ELSE NoTick
    <3>1. CASE k = j BY <2>1, <3>1
    <3>2. CASE k # j BY <2>1, <3>2
    <3> QED BY <3>1, <3>2
  <2> QED BY <2>2
<1>4. ASSUME NEW t \in running, JR!Settles(t) PROVE ActiveIsNewest'
  <2>1. /\ running' = running \ {t} /\ ticks' = ticks /\ t[1] \in Jobs /\ t # NoTick
        /\ active' = IF active[t[1]] = t THEN [active EXCEPT ![t[1]] = NoTick] ELSE active
        BY <1>4 DEF JR!Settles
  <2>2. ASSUME NEW k \in Jobs
        PROVE  active'[k] = IF <<k, ticks'[k]>> \in running' THEN <<k, ticks'[k]>> ELSE NoTick
    <3>1. CASE k = t[1] /\ active[k] = t BY <2>1, <3>1
    <3>2. CASE k = t[1] /\ active[k] # t BY <2>1, <3>2
    <3>3. CASE k # t[1] BY <2>1, <3>3
    <3> QED BY <3>1, <3>2, <3>3
  <2> QED BY <2>2
<1> QED BY <1>1, <1>2, <1>3, <1>4, JobSteps DEF jobVars

LEMMA JobsInit ==
    ASSUME ProcessInit PROVE JobsTypeOK /\ ActiveIsNewest
BY TicksAssumption DEF ProcessInit, JR!Init, JobsTypeOK, JR!TypeOK, ActiveIsNewest, JR!ActiveIsNewest,
       JR!Newest

\* The map of the job runner holds the latest tick of each job exactly while it
\* runs, for any jobs, however their ticks overlap.
THEOREM MapHoldsNewest == ProcessSpec => []ActiveIsNewest
<1>1. ProcessInit => JobsTypeOK /\ ActiveIsNewest BY JobsInit
<1>2. JobsTypeOK /\ ActiveIsNewest /\ [ProcessNext]_processVars
        => (JobsTypeOK /\ ActiveIsNewest)'
      BY JobTypes, ActiveStep
<1> QED BY <1>1, <1>2, PTL DEF ProcessSpec

-----------------------------------------------------------------------------
(* No tick on a closed pool.                                                *)

\* The manager only ever begins a disposal.
LEMMA ControlDisposal ==
    ASSUME TypeOK, PhaseInv, AddPhase \/ DirectShutdown \/ PhaseEnds \/ TimesOut \/ RuntimeStep,
           NEW p \in Participants
    PROVE  \/ disposal'[p] = disposal[p]
           \/ disposal[p] = "idle" /\ disposal'[p] = "disposing"
<1> USE PhasesAssumption
<1>1. ASSUME NEW k \in 1 .. Phases, Begin(k), phase < k
      PROVE  \/ disposal'[p] = disposal[p]
             \/ disposal[p] = "idle" /\ disposal'[p] = "disposing"
      BY <1>1 DEF Begin, PhaseInv
<1>2. CASE CallShutdown
  <2>1. CASE phase = 0 /\ added > 0
    <3>1. Begin(1) /\ 1 \in 1 .. Phases BY <1>2, <2>1 DEF CallShutdown, TypeOK
    <3> QED BY <1>1, <2>1, <3>1
  <2>2. CASE ~(phase = 0 /\ added > 0)
        BY <1>2, <2>2 DEF CallShutdown, Finish, managerVars
  <2> QED BY <2>1, <2>2
<1>3. CASE PhaseEnds
  <2>1. CASE phase < added
    <3>1. Begin(phase + 1) /\ phase + 1 \in 1 .. Phases /\ phase < phase + 1
          BY <1>3, <2>1 DEF PhaseEnds, TypeOK
    <3> QED BY <1>1, <3>1
  <2>2. CASE ~(phase < added) BY <1>3, <2>2 DEF PhaseEnds, Finish
  <2> QED BY <2>1, <2>2
<1>4. CASE AddPhase \/ TimesOut \/ Exit \/ Run \/ StartupCompletes \/ StartupFails
           \/ \E k \in Causes : Trigger(k)
      BY <1>4 DEF AddPhase, TimesOut, Exit, Run, StartupCompletes, StartupFails, Trigger,
                  managerVars
<1> QED BY <1>2, <1>3, <1>4 DEF DirectShutdown, Wakes, RuntimeStep

LEMMA RunnerIsParticipant == Runner \in Participants
BY RunnerBeforePool DEF Participants

\* The disposal of the job runner goes with its stage.
LEMMA RunnerSteps ==
    ASSUME TypeOK, PhaseInv, [ProcessNext]_processVars
    PROVE  \/ JR!Dispose /\ disposal[Runner] = "idle" /\ disposal'[Runner] = "disposing"
           \/ UNCHANGED jobVars /\ disposal'[Runner] = disposal[Runner]
           \/ JR!Drained /\ disposal[Runner] = "disposing" /\ disposal'[Runner] = "ok"
           \/ JobStep /\ disposal' = disposal
<1>1. CASE /\ AddPhase \/ DirectShutdown \/ PhaseEnds \/ TimesOut \/ RuntimeStep
           /\ DisposalOfRunner
  <2>1. \/ disposal'[Runner] = disposal[Runner]
        \/ disposal[Runner] = "idle" /\ disposal'[Runner] = "disposing"
        BY <1>1, ControlDisposal, RunnerIsParticipant
  <2> QED BY <1>1, <2>1 DEF DisposalOfRunner
<1>2. ASSUME NEW p \in Participants, NEW outcome \in {"ok", "failed"},
             ParticipantStep(p, outcome)
      PROVE  \/ UNCHANGED jobVars /\ disposal'[Runner] = disposal[Runner]
             \/ JR!Drained /\ disposal[Runner] = "disposing" /\ disposal'[Runner] = "ok"
  <2>1. disposal[p] = "disposing" /\ disposal' = [disposal EXCEPT ![p] = outcome]
        BY <1>2 DEF ParticipantStep, Disposes
  <2>2. CASE p = Runner
        BY <1>2, <2>1, <2>2, RunnerIsParticipant DEF ParticipantStep, TypeOK
  <2>3. CASE p # Runner
        BY <1>2, <2>1, <2>3, RunnerIsParticipant DEF ParticipantStep, TypeOK
  <2> QED BY <2>2, <2>3
<1>3. CASE JobStep BY <1>3 DEF JobStep, shutdownVars, managerVars
<1>4. CASE UNCHANGED processVars
      BY <1>4 DEF processVars, shutdownVars, managerVars
<1> QED BY <1>1, <1>2, <1>3, <1>4, Steps

\* The stage of the job runner is that of its disposal, and without overlap or
\* late registrations nothing runs but what dispose() awaits.
DrainInv ==
    /\ disposal[Runner] = "idle" <=> stage = "on"
    /\ disposal[Runner] = "disposing" <=> stage = "draining"
    /\ faults = {} =>
        /\ \A t \in running : t = JR!Newest(t[1])
        /\ stage = "draining" => running \subseteq awaited
        /\ stage = "disposed" => running = {}

LEMMA DrainStep ==
    ASSUME TypeOK, PhaseInv, JobsTypeOK, ActiveIsNewest, DrainInv, [ProcessNext]_processVars
    PROVE  DrainInv'
<1> USE TicksAssumption, JobsAssumption DEF JobsTypeOK, JR!TypeOK, JR!Ticks, JR!Newest, DrainInv
<1>1. CASE JR!Dispose /\ disposal[Runner] = "idle" /\ disposal'[Runner] = "disposing"
  <2>1. /\ stage' = "draining" /\ running' = running /\ ticks' = ticks /\ faults' = faults
        /\ awaited' = {active[j] : j \in Jobs} \ {NoTick}
        BY <1>1 DEF JR!Dispose
  <2>2. ASSUME faults = {}, NEW t \in running PROVE t \in awaited'
    <3>1. t[1] \in Jobs /\ t = <<t[1], ticks[t[1]]>> /\ t # NoTick BY <2>2
    <3>2. active[t[1]] = t BY <2>2, <3>1 DEF ActiveIsNewest, JR!ActiveIsNewest
    <3> QED BY <2>1, <3>1, <3>2
  <2> QED BY <1>1, <2>1, <2>2
<1>2. CASE UNCHANGED jobVars /\ disposal'[Runner] = disposal[Runner]
      BY <1>2 DEF jobVars
<1>3. CASE JR!Drained /\ disposal[Runner] = "disposing" /\ disposal'[Runner] = "ok"
      BY <1>3 DEF JR!Drained
<1>4. CASE JobStep /\ disposal' = disposal
  <2>1. ASSUME NEW j \in Jobs, JR!Register(j) PROVE DrainInv'
        BY <1>4, <2>1 DEF JR!Register
  <2>2. ASSUME NEW j \in Jobs, JR!Fires(j) PROVE DrainInv'
    <3>1. /\ j \in timers /\ stage' = stage /\ faults' = faults /\ awaited' = awaited
          /\ ticks' = [ticks EXCEPT ![j] = @ + 1]
          /\ running' = running \cup {<<j, ticks'[j]>>}
          /\ "overlap" \in faults \/ \A t \in running : t[1] # j
          BY <2>2 DEF JR!Fires
    <3>2. faults = {} => stage = "on" BY <3>1
    <3>3. ASSUME faults = {}, NEW t \in running' PROVE t = <<t[1], ticks'[t[1]]>>
      <4>1. CASE t \in running
        <5>1. t[1] # j /\ t[1] \in Jobs /\ t = <<t[1], ticks[t[1]]>> BY <3>1, <3>3, <4>1
        <5> QED BY <3>1, <5>1
      <4>2. CASE t = <<j, ticks'[j]>> BY <4>2
      <4> QED BY <3>1, <3>3, <4>1, <4>2
    <3> QED BY <1>4, <3>1, <3>2, <3>3
  <2>3. ASSUME NEW t \in running, JR!Settles(t) PROVE DrainInv'
        BY <1>4, <2>3 DEF JR!Settles
  <2> QED BY <1>4, <2>1, <2>2, <2>3 DEF JobStep
<1> QED BY <1>1, <1>2, <1>3, <1>4, RunnerSteps

\* All of it together.
LEMMA DrainKept ==
    ProcessSpec => [](TypeOK /\ PhaseInv /\ JobsTypeOK /\ ActiveIsNewest /\ DrainInv)
<1> DEFINE I == TypeOK /\ PhaseInv /\ JobsTypeOK /\ ActiveIsNewest /\ DrainInv
<1>1. ProcessInit => I
  <2> SUFFICES ASSUME ProcessInit PROVE DrainInv BY ShutdownInit, JobsInit DEF ProcessInit
  <2> QED BY RunnerIsParticipant DEF ProcessInit, Init, JR!Init, DrainInv
<1>2. I /\ [ProcessNext]_processVars => I'
      BY ShutdownTypes, OrderStep, ProcessSteps, JobTypes, ActiveStep, DrainStep
<1> QED BY <1>1, <1>2, PTL DEF ProcessSpec

\* When a participant of a later phase than the job runner is disposed, no tick runs any more.
LEMMA NoTickAfterRunner ==
    ASSUME PhaseInv, JobsTypeOK, DrainInv, faults = {},
           NEW i \in 1 .. Phases, NEW j \in 1 .. Phases, i < j, Runner \in PartsOf[i],
           NEW p \in PartsOf[j], disposal[p] # "idle"
    PROVE  running = {}
<1>1. disposal[Runner] \in {"ok", "failed"} BY DEF PhaseInv, PhaseOrder
<1>2. stage = "disposed" BY <1>1 DEF DrainInv, JobsTypeOK, JR!TypeOK
<1> QED BY <1>2 DEF DrainInv

\* A job never runs on a pool that is being closed, for any phases, jobs and
\* participants: the promise of "drained as part of normal shutdown".
THEOREM PoolOutlivesJobs == ProcessSpec => []NoTickOnClosedPool
<1>1. PhaseInv /\ JobsTypeOK /\ DrainInv => NoTickOnClosedPool
      BY NoTickAfterRunner, RunnerBeforePool DEF NoTickOnClosedPool
<1> QED BY <1>1, DrainKept, PTL

-----------------------------------------------------------------------------
(* The exit code.                                                           *)

\* Where a result without timeout and errors, and exit code 0, come from.
ExitInv ==
    /\ phase \in 1 .. Phases => phase <= added
    /\ "direct" \notin usage =>
        /\ phase > 0 => runtime \in {"draining", "exited"}
        /\ phase = Over =>
            \A i \in 1 .. added : \A p \in PartsOf[i] : disposal[p] \in {"ok", "failed"}
    /\ result # None /\ ~result.timedOut /\ result.errors = 0 =>
        phase = Over /\ \A p \in Participants : disposal[p] # "failed"
    /\ exitCode # None => runtime = "exited"
    /\ exitCode = 0 => result # None /\ ~result.timedOut /\ result.errors = 0

LEMMA NoErrors ==
    ASSUME ErrorsBefore(Over) = 0, NEW p \in Participants
    PROVE  disposal[p] # "failed"
<1> DEFINE E == {q \in Participants : disposal[q] = "failed"
                    /\ \E j \in 1 .. Over - 1 : q \in PartsOf[j]}
<1>1. IsFiniteSet(E) BY PhasesAssumption, FS_Subset
<1>2. Cardinality(E) = 0 BY DEF ErrorsBefore
<1>3. E = {} BY <1>1, <1>2, FS_EmptySet
<1>4. \E j \in 1 .. Over - 1 : p \in PartsOf[j]
      BY PhasesAssumption DEF Participants, Over
<1> QED BY <1>3, <1>4

\* The loop ends when every phase that was added has settled.
LEMMA FinishExit ==
    ASSUME TypeOK, ExitInv, Finish, phase # Over, UNCHANGED <<added, usage, exitCode>>,
           runtime' \in {"draining", "exited"} \/ "direct" \in usage,
           exitCode = None,
           \A i \in 1 .. added : \A p \in PartsOf[i] : disposal[p] \in {"ok", "failed"}
    PROVE  ExitInv'
<1> USE PhasesAssumption, NoneAssumption
<1>1. phase' = Over /\ disposal' = disposal BY DEF Finish
<1>2. ASSUME result' # None, ~result'.timedOut, result'.errors = 0
      PROVE  \A p \in Participants : disposal[p] # "failed"
  <2>1. result = None BY <1>2 DEF Finish, ExitInv
  <2>2. result' = [timedOut |-> FALSE, errors |-> ErrorsBefore(Over)] BY <2>1 DEF Finish
  <2> QED BY <1>2, <2>2, NoErrors
<1> QED BY <1>1, <1>2 DEF ExitInv, TypeOK, Over

LEMMA BeginExit ==
    ASSUME TypeOK, ExitInv, NEW k \in 1 .. Phases, Begin(k), phase # Over, k <= added,
           UNCHANGED <<added, usage, exitCode, result>>, exitCode = None,
           runtime' \in {"draining", "exited"} \/ "direct" \in usage
    PROVE  ExitInv'
<1>1. phase' = k BY DEF Begin
<1> QED BY <1>1, PhasesAssumption DEF ExitInv, Over

LEMMA CallExit ==
    ASSUME TypeOK, PhaseInv, ExitInv, CallShutdown, UNCHANGED <<usage, exitCode>>,
           exitCode = None, exitCode' = None \/ runtime' = "exited",
           runtime' = "draining" \/ ("direct" \in usage /\ runtime' = runtime)
    PROVE  ExitInv'
<1> USE PhasesAssumption
<1>1. CASE phase = 0 /\ added > 0
  <2>1. /\ Begin(1) /\ 1 \in 1 .. Phases /\ 1 <= added
        /\ UNCHANGED <<added, result>>
        BY <1>1 DEF CallShutdown, TypeOK
  <2> QED BY <1>1, <2>1, BeginExit DEF Over
<1>2. CASE phase = 0 /\ ~(added > 0)
  <2>1. Finish /\ added' = added /\ 1 .. added = {} BY <1>2 DEF CallShutdown, TypeOK
  <2> QED BY <1>2, <2>1, FinishExit DEF Over
<1>3. CASE phase # 0
  <2>1. UNCHANGED managerVars BY <1>3 DEF CallShutdown
  <2> QED BY <2>1 DEF managerVars, ExitInv, Over
<1> QED BY <1>1, <1>2, <1>3

LEMMA ExitStep ==
    ASSUME TypeOK, PhaseInv, ExitInv, [Next]_shutdownVars
    PROVE  ExitInv'
<1> USE PhasesAssumption, NoneAssumption
<1>1. CASE DirectShutdown
  <2>1. exitCode = None BY <1>1 DEF DirectShutdown, ExitInv
  <2> QED BY <1>1, <2>1, CallExit DEF DirectShutdown, runtimeVars
<1>2. CASE Wakes
  <2>1. exitCode = None BY <1>2 DEF Wakes, ExitInv
  <2> QED BY <1>2, <2>1, CallExit DEF Wakes
<1>3. CASE PhaseEnds
  <2>1. /\ phase \in 1 .. Phases /\ phase <= added /\ exitCode = None /\ phase # Over
        /\ UNCHANGED <<added, usage, exitCode, runtime>>
        /\ runtime' \in {"draining", "exited"} \/ "direct" \in usage
        BY <1>3 DEF PhaseEnds, ExitInv, runtimeVars, TypeOK, Over
  <2>2. CASE phase < added
    <3>1. /\ Begin(phase + 1) /\ phase + 1 \in 1 .. Phases /\ phase + 1 <= added
          /\ result' = result
          BY <1>3, <2>2 DEF PhaseEnds, TypeOK
    <3> QED BY <2>1, <3>1, BeginExit
  <2>3. CASE ~(phase < added)
    <3>1. Finish BY <1>3, <2>3 DEF PhaseEnds
    <3>2. phase = added BY <2>1, <2>3 DEF TypeOK
    <3>3. \A i \in 1 .. added : \A p \in PartsOf[i] : disposal[p] \in {"ok", "failed"}
          BY <1>3, <2>1, <3>2 DEF PhaseEnds, PhaseSettled, PhaseInv, TypeOK
    <3> QED BY <2>1, <3>1, <3>3, FinishExit
  <2> QED BY <2>2, <2>3
<1>4. ASSUME NEW p \in Participants, NEW outcome \in {"ok", "failed"}, Disposes(p, outcome)
      PROVE  ExitInv'
  <2>1. phase # Over
        BY <1>4, OnlyCurrent DEF Disposes, Over
  <2> QED BY <1>4, <2>1 DEF Disposes, ExitInv, Over, runtimeVars
<1>5. CASE TimesOut
  <2>1. /\ result'.timedOut /\ phase' = phase /\ phase # Over /\ exitCode' = exitCode
        /\ exitCode = None /\ UNCHANGED <<added, usage, runtime, disposal>>
        BY <1>5 DEF TimesOut, runtimeVars, ExitInv, TypeOK, Over
  <2> QED BY <2>1 DEF ExitInv, Over
<1>6. CASE AddPhase
  <2>1. /\ added' = added + 1 /\ runtime \in {"new", "startup"}
        /\ UNCHANGED <<phase, disposal, result, runtime, exitCode, usage>>
        BY <1>6 DEF AddPhase, runtimeVars
  <2> QED BY <2>1 DEF ExitInv, TypeOK, Over
<1>7. CASE Exit
  <2>1. UNCHANGED <<added, phase, disposal, result, usage>> /\ runtime' = "exited"
        BY <1>7 DEF Exit, managerVars
  <2>2. exitCode' = 0 => result # None /\ ~result.timedOut /\ result.errors = 0
    <3>1. result \in [timedOut : BOOLEAN, errors : Nat] BY <1>7 DEF Exit, TypeOK
    <3> QED BY <1>7, <3>1 DEF Exit, ExitCodeFor
  <2> QED BY <2>1, <2>2 DEF ExitInv, Over
<1>8. CASE Run \/ StartupCompletes \/ StartupFails \/ \E k \in Causes : Trigger(k)
  <2>1. UNCHANGED <<added, phase, disposal, result, exitCode, usage>>
        BY <1>8 DEF Run, StartupCompletes, StartupFails, Trigger, managerVars
  <2>2. /\ runtime \in {"draining", "exited"} => runtime' = runtime
        /\ runtime = "exited" => runtime' = "exited"
        BY <1>8 DEF Run, StartupCompletes, StartupFails, Trigger
  <2> QED BY <2>1, <2>2 DEF ExitInv, Over
<1>9. CASE UNCHANGED shutdownVars
      BY <1>9 DEF shutdownVars, managerVars, runtimeVars, ExitInv, Over
<1> QED BY <1>1, <1>2, <1>3, <1>4, <1>5, <1>6, <1>7, <1>8, <1>9
        DEF Next, Manager, RuntimeStep

\* Exit code 0 means that every participant of every phase was disposed without
\* an error, for any phases and participants, if nobody but the runtime calls
\* shutdown().
THEOREM CleanExit == ProcessSpec => []ExitZeroIsClean
<1> DEFINE I == TypeOK /\ PhaseInv /\ ExitInv
<1>1. ProcessInit => I
      BY ShutdownInit, PhasesAssumption, NoneAssumption
      DEF ProcessInit, Init, ExitInv, Over
<1>2. I /\ [ProcessNext]_processVars => I'
      BY ShutdownTypes, OrderStep, ExitStep, ProcessSteps
<1>3. I => ExitZeroIsClean
  <2> SUFFICES ASSUME I, exitCode = 0, "direct" \notin usage,
                      NEW i \in 1 .. added, NEW p \in PartsOf[i]
               PROVE  disposal[p] = "ok"
      BY DEF ExitZeroIsClean
  <2>1. i \in 1 .. Phases BY PhasesAssumption DEF TypeOK
  <2>2. p \in Participants BY <2>1 DEF Participants
  <2>3. phase = Over /\ disposal[p] # "failed" BY <2>2 DEF ExitInv
  <2> QED BY <2>3 DEF ExitInv
<1> QED BY <1>1, <1>2, <1>3, PTL DEF ProcessSpec

-----------------------------------------------------------------------------
(* Service.                                                                 *)

\* A rejection changes the process by a trigger at most.
LEMMA UnhandledSteps ==
    ASSUME Unhandled
    PROVE  [ProcessNext]_processVars /\ disposal' = disposal /\ UNCHANGED jobVars
<1>1. CASE cause = None
  <2>1. Trigger("unhandled-rejection") /\ UNCHANGED jobVars BY <1>1 DEF Unhandled
  <2>2. disposal' = disposal BY <2>1 DEF Trigger, managerVars
  <2>3. RuntimeStep BY <2>1, CausesAssumption DEF RuntimeStep
  <2>4. DisposalOfRunner BY <2>1, <2>2 DEF DisposalOfRunner
  <2> QED BY <2>1, <2>2, <2>3, <2>4 DEF ControlStep, ProcessNext
<1>2. CASE cause # None
      BY <1>2 DEF Unhandled, processVars, shutdownVars, managerVars
<1> QED BY <1>1, <1>2

\* Every step is one of these.
LEMMA ServiceSteps ==
    ASSUME [ServiceNext]_serviceVars
    PROVE  /\ [ProcessNext]_processVars
           /\ \/ ProcessNext /\ FlushOfLogger
              \/ LogStep /\ disposal' = disposal /\ UNCHANGED jobVars
              \/ EmissionStep /\ disposal' = disposal /\ UNCHANGED jobVars
              \/ UNCHANGED serviceVars
<1>1. UNCHANGED processVars => disposal' = disposal /\ UNCHANGED jobVars
      BY DEF processVars, shutdownVars, managerVars
<1>2. CASE LogStep
  <2>1. UNCHANGED processVars \/ Unhandled BY <1>2 DEF LogStep
  <2> QED BY <1>1, <1>2, <2>1, UnhandledSteps
<1>3. CASE EmissionStep
  <2>1. UNCHANGED processVars \/ Unhandled BY <1>3 DEF EmissionStep
  <2> QED BY <1>1, <1>3, <2>1, UnhandledSteps
<1>4. CASE UNCHANGED serviceVars BY <1>4 DEF serviceVars
<1> QED BY <1>2, <1>3, <1>4 DEF ServiceNext

\* Logging changes nothing of what was shown of a process: the phases, the drain of the jobs
\* and the exit code are those of Process, an emission that rejects being one more trigger.
THEOREM ServiceIsProcess == ServiceSpec => ProcessSpec
<1>1. ServiceInit => ProcessInit BY DEF ServiceInit
<1>2. [ServiceNext]_serviceVars => [ProcessNext]_processVars BY ServiceSteps
<1> QED BY <1>1, <1>2, PTL DEF ServiceSpec, ProcessSpec

-----------------------------------------------------------------------------
(* The flush.                                                               *)

\* Entries are numbered, so that a new one is not among those that flush() awaits.
Numbered ==
    /\ IsFiniteSet(logged)
    /\ \A d \in logged : d[1] \in Nat /\ d[1] <= Cardinality(logged)

\* Once flush() was called, what is in flight of earlier authors is what it awaits.
FlushInv ==
    /\ Numbered
    /\ logged \subseteq inflight \cup printed \cup rejected
    /\ inflight \subseteq logged /\ flushing \subseteq logged
    /\ disposal[Logs] = "ok" => flushing \cap inflight = {}
    /\ faults = {} /\ disposal[Logs] # "idle" =>
        \A e \in inflight : e[2] = Flushed /\ Earlier(e[3]) => e \in flushing

\* How the disposal of a participant may change.
LEMMA DisposalSteps ==
    ASSUME TypeOK, PhaseInv, [ProcessNext]_processVars, NEW p \in Participants
    PROVE  \/ disposal'[p] = disposal[p]
           \/ disposal[p] = "idle" /\ disposal'[p] = "disposing"
           \/ disposal[p] = "disposing" /\ disposal'[p] \in {"ok", "failed"}
<1>1. CASE /\ AddPhase \/ DirectShutdown \/ PhaseEnds \/ TimesOut \/ RuntimeStep
           /\ DisposalOfRunner
      BY <1>1, ControlDisposal
<1>2. ASSUME NEW q \in Participants, NEW outcome \in {"ok", "failed"},
             ParticipantStep(q, outcome)
      PROVE  \/ disposal'[p] = disposal[p]
             \/ disposal[p] = "disposing" /\ disposal'[p] \in {"ok", "failed"}
      BY <1>2 DEF ParticipantStep, Disposes, TypeOK
<1>3. CASE JobStep \/ UNCHANGED processVars
      BY <1>3 DEF JobStep, processVars, shutdownVars, managerVars
<1> QED BY <1>1, <1>2, <1>3, Steps

\* The faults of an application do not change.
LEMMA FaultsStay ==
    ASSUME [ProcessNext]_processVars PROVE faults' = faults
BY JobSteps DEF JR!Dispose, JR!Drained, JR!Register, JR!Fires, JR!Settles, jobVars

LEMMA LogsIsParticipant == Logs \in Participants
BY LogsAfterRunner DEF Participants

\* Earlier authors have stopped when flush() is called.
LEMMA AuthorsStop ==
    ASSUME PhaseInv, JobsTypeOK, DrainInv, faults = {}, disposal[Logs] # "idle",
           NEW a \in Authors, MayLog(a)
    PROVE  ~Earlier(a)
<1>1. CASE a = Tick
  <2>1. running # {} BY <1>1 DEF MayLog
  <2> QED BY <2>1, LogsAfterRunner, NoTickAfterRunner
<1>2. CASE a # Tick
  <2>1. disposal[a] = "disposing" BY <1>2 DEF MayLog
  <2>2. ASSUME NEW i \in 1 .. Phases, NEW j \in 1 .. Phases, i < j, a \in PartsOf[i],
               Logs \in PartsOf[j]
        PROVE  FALSE
        BY <2>1, <2>2 DEF PhaseInv, PhaseOrder
  <2> QED BY <1>2, <2>2 DEF Earlier
<1> QED BY <1>1, <1>2

\* A new entry is new, and numbered after the others.
LEMMA NewEntries ==
    ASSUME Numbered, NEW l, NEW a
    PROVE  /\ Log!NewEntry(l, a) \notin logged
           /\ logged' = logged \cup {Log!NewEntry(l, a)} => Numbered'
<1> DEFINE e == Log!NewEntry(l, a)
<1>1. Cardinality(logged) \in Nat /\ e[1] = Cardinality(logged) + 1
      BY FS_CardinalityType DEF Numbered, Log!NewEntry, Log!Cardinality, Cardinality
<1> HIDE DEF e
<1>2. e \notin logged BY <1>1 DEF Numbered
<1>3. ASSUME logged' = logged \cup {e} PROVE Numbered'
  <2>1. IsFiniteSet(logged') /\ Cardinality(logged') = Cardinality(logged) + 1
        BY <1>2, <1>3, FS_AddElement DEF Numbered
  <2> QED BY <1>1, <1>3, <2>1 DEF Numbered
<1> QED BY <1>2, <1>3 DEF e

LEMMA NumbersStay ==
    ASSUME Numbered, logged' = logged PROVE Numbered'
BY DEF Numbered

LEMMA FlushStep ==
    ASSUME TypeOK, PhaseInv, JobsTypeOK, DrainInv, FlushInv, [ServiceNext]_serviceVars
    PROVE  FlushInv'
<1>1. faults' = faults BY ServiceSteps, FaultsStay
<1>2. CASE ProcessNext /\ FlushOfLogger
  <2>1. \/ disposal'[Logs] = disposal[Logs]
        \/ disposal[Logs] = "idle" /\ disposal'[Logs] = "disposing"
        \/ disposal[Logs] = "disposing" /\ disposal'[Logs] \in {"ok", "failed"}
        BY <1>2, DisposalSteps, LogsIsParticipant
  <2>2. CASE disposal'[Logs] = disposal[Logs]
    <3>1. UNCHANGED loggerVars BY <1>2, <2>2 DEF FlushOfLogger
    <3> QED BY <1>1, <2>2, <3>1, NumbersStay DEF FlushInv, loggerVars, Earlier
  <2>3. CASE disposal[Logs] = "idle" /\ disposal'[Logs] = "disposing"
    <3>1. Log!Flush BY <1>2, <2>3 DEF FlushOfLogger
    <3> QED BY <1>1, <2>3, <3>1, NumbersStay DEF FlushInv, Log!Flush
  <2>4. CASE disposal[Logs] = "disposing" /\ disposal'[Logs] = "ok"
    <3>1. Log!Flushes BY <1>2, <2>4 DEF FlushOfLogger
    <3> QED BY <1>1, <2>4, <3>1, NumbersStay DEF FlushInv, Log!Flushes, Log!loggerVars, Earlier
  <2>5. CASE disposal[Logs] = "disposing" /\ disposal'[Logs] = "failed"
    <3>1. Log!FlushFails BY <1>2, <2>5 DEF FlushOfLogger
    <3> QED BY <1>1, <2>5, <3>1, NumbersStay DEF FlushInv, Log!FlushFails, Log!loggerVars, Earlier
  <2> QED BY <2>1, <2>2, <2>3, <2>4, <2>5
<1>3. CASE LogStep /\ disposal' = disposal /\ UNCHANGED jobVars
  <2>1. PICK l \in Loggers, a \in Authors :
            /\ MayLog(a)
            /\ LET e == Log!NewEntry(l, a)
               IN  Log!Defer(e) \/ Log!PrintAtOnce(e) \/ Log!RejectAtOnce(e)
        BY <1>3 DEF LogStep
  <2> DEFINE e == Log!NewEntry(l, a)
  <2>2. e[2] = l /\ e[3] = a BY DEF Log!NewEntry
  <2>3. faults = {} /\ disposal[Logs] # "idle" => ~Earlier(e[3]) BY <2>1, <2>2, AuthorsStop
  <2>4. /\ logged' = logged \cup {e} /\ flushing' = flushing
        /\ \/ inflight' = inflight \cup {e} /\ printed' = printed /\ rejected' = rejected
           \/ inflight' = inflight /\ printed' = printed \cup {e} /\ rejected' = rejected
           \/ inflight' = inflight /\ printed' = printed /\ rejected' = rejected \cup {e}
        BY <2>1 DEF Log!Defer, Log!PrintAtOnce, Log!RejectAtOnce
  <2>5. e \notin logged /\ Numbered' BY <2>4, NewEntries DEF FlushInv
  <2> HIDE DEF e
  <2>6. /\ logged' \subseteq inflight' \cup printed' \cup rejected'
        /\ inflight' \subseteq logged' /\ flushing' \subseteq logged'
        BY <2>4 DEF FlushInv
  <2>7. disposal[Logs] = "ok" => flushing' \cap inflight' = {} BY <2>4, <2>5 DEF FlushInv
  <2>8. ASSUME faults = {}, disposal[Logs] # "idle", NEW d \in inflight', d[2] = Flushed, Earlier(d[3])
        PROVE  d \in flushing'
    <3>1. d # e BY <2>3, <2>8
    <3> QED BY <2>4, <2>8, <3>1 DEF FlushInv
  <2>9. \A b : Earlier(b)' <=> Earlier(b) BY DEF Earlier
  <2> QED BY <1>1, <1>3, <2>5, <2>6, <2>7, <2>8, <2>9 DEF FlushInv
<1>4. CASE EmissionStep /\ disposal' = disposal /\ UNCHANGED jobVars
  <2>1. PICK e \in inflight : Log!Prints(e) \/ Log!Rejects(e) BY <1>4 DEF EmissionStep
  <2>2. /\ logged' = logged /\ flushing' = flushing /\ inflight' = inflight \ {e}
        /\ printed \cup rejected \cup {e} = printed' \cup rejected'
        BY <2>1 DEF Log!Prints, Log!Rejects
  <2> QED BY <1>1, <1>4, <2>2, NumbersStay DEF FlushInv, Earlier
<1>5. CASE UNCHANGED serviceVars
  <2>1. disposal' = disposal /\ UNCHANGED loggerVars
        BY <1>5 DEF serviceVars, processVars, shutdownVars, managerVars
  <2> QED BY <1>1, <2>1, NumbersStay DEF FlushInv, loggerVars, Earlier
<1> QED BY <1>2, <1>3, <1>4, <1>5, ServiceSteps

\* With exit code 0 nothing is lost that a job or a participant of an earlier phase logged
\* with the logger that is flushed, for any phases, participants, jobs and loggers, unless its
\* emission rejected.
THEOREM NothingLoggedIsLost == ServiceSpec => []FlushedBeforeExit
<1> DEFINE P == TypeOK /\ PhaseInv /\ JobsTypeOK /\ ActiveIsNewest /\ DrainInv
<1>1. ServiceInit => FlushInv
  <2> SUFFICES ASSUME ServiceInit PROVE FlushInv OBVIOUS
  <2>1. disposal[Logs] = "idle" /\ logged = {} /\ inflight = {} /\ flushing = {}
        BY LogsIsParticipant DEF ServiceInit, ProcessInit, Init, Log!Init
  <2>2. Numbered BY <2>1, FS_EmptySet DEF Numbered
  <2> QED BY <2>1, <2>2 DEF FlushInv
<1>2. P /\ FlushInv /\ [ServiceNext]_serviceVars => FlushInv' BY FlushStep
<1>3. ServiceSpec => [](P /\ ExitZeroIsClean) BY ServiceIsProcess, DrainKept, CleanExit, PTL
<1>4. ExitZeroIsClean /\ FlushInv => FlushedBeforeExit
  <2> SUFFICES ASSUME ExitZeroIsClean, FlushInv, exitCode = 0, added = Phases, faults = {},
                      "direct" \notin usage, NEW e \in logged, e[2] = Flushed, Earlier(e[3]),
                      e \notin rejected
               PROVE  e \in printed
      BY DEF FlushedBeforeExit
  <2>1. disposal[Logs] = "ok" BY LogsAfterRunner DEF ExitZeroIsClean
  <2>2. flushing \cap inflight = {} /\ (e \in inflight => e \in flushing) BY <2>1 DEF FlushInv
  <2> QED BY <2>2 DEF FlushInv
<1> QED BY <1>1, <1>2, <1>3, <1>4, PTL DEF ServiceSpec
=============================================================================
