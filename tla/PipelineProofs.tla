--------------------------- MODULE PipelineProofs ---------------------------
(***************************************************************************)
(* Theorems about Pipeline, for any replicas, entries and limits: the      *)
(* outbox and the bus put together are an outbox and a bus still, and      *)
(* together they implement AtLeastOnce.                                    *)
(*                                                                         *)
(* What the modules of the two components prove is used here through the   *)
(* instances OFP and ECP, whose substitutions are those of OF and EC.      *)
(***************************************************************************)
EXTENDS Pipeline, FiniteSetTheorems, TLAPS

OFP == INSTANCE OutboxForwarderProofs WITH
        bus <- OnBus, MaxRetries <- OutboxRetries, NoEntry <- None,
        life <- fLife, pc <- fPc, batch <- fBatch, cur <- fCur, stops <- fStops

ECP == INSTANCE EventConsumerProofs WITH
        Events <- BusRows, NoEvent <- NoRow,
        AggOf <- [r \in BusRows |-> r[1]], NoAgg <- None,
        CreatedAt <- [r \in BusRows |-> CreatedAt[r[1]]],
        Topics <- [c \in Consumers |-> BusRows], Own <- [c \in Consumers |-> {}],
        Handlers <- [r \in BusRows |-> Handlers[r[1]]], Invalid <- {},
        MaxRetries <- BusRetries,
        life <- cLife, pc <- cPc, batch <- cBatch, stops <- cStops

-----------------------------------------------------------------------------
(* The assumptions of the two modules hold of what Pipeline gives them, and *)
(* OF and OFP, EC and ECP are the same specifications.                      *)

LEMMA ForwarderAssumptions ==
    /\ OFP!IsFiniteSet(Forwarders)
    /\ OFP!IsFiniteSet(Entries) /\ None \notin Entries
    /\ CreatedAt \in [Entries -> Nat]
    /\ BatchSize \in Nat \ {0}
    /\ OutboxRetries \in Nat \ {0}
    /\ FaultSets \subseteq SUBSET {"slowTick", "lostAck"} /\ MaxStops \in Nat
  BY ReplicasAssumption, EntriesAssumption, LimitsAssumption, FaultsAssumption
     DEF IsFiniteSet, OFP!IsFiniteSet

\* The rows of an entry.
LEMMA RowsOfEntries ==
    /\ \A e \in Entries : \A r \in RowsOf(e) : r \in BusRows /\ r[1] = e
    /\ \A r \in BusRows : r[1] \in Entries /\ r \in RowsOf(r[1])
  BY DEF RowsOf, BusRows

LEMMA ConsumerAssumptions ==
    /\ ECP!IsFiniteSet(Consumers)
    /\ /\ ECP!IsFiniteSet(BusRows)
       /\ NoRow \notin BusRows
       /\ {} \subseteq BusRows
       /\ [r \in BusRows |-> CreatedAt[r[1]]] \in [BusRows -> Nat]
       /\ [r \in BusRows |-> Handlers[r[1]]] \in [BusRows -> Nat \ {0}]
    /\ /\ [c \in Consumers |-> BusRows] \in [Consumers -> SUBSET BusRows]
       /\ [c \in Consumers |-> {}] \in [Consumers -> SUBSET BusRows]
    /\ {BatchSize, BusRetries, MaxAttempts} \subseteq Nat \ {0} /\ MaxStops \in Nat
    /\ FaultSets \subseteq
        SUBSET {"slowTick", "lostAck", "overlap", "badPayload", "lateEvent"}
  <1>1. IsFiniteSet(BusRows)
    <2>1. 1 \in Int /\ MaxRows \in Int
      BY LimitsAssumption
    <2>2. IsFiniteSet(1 .. MaxRows)
      BY <2>1, FS_Interval
    <2>3. QED
      BY <2>2, EntriesAssumption, FS_Product DEF BusRows
  <1>2. ECP!IsFiniteSet(BusRows) /\ ECP!IsFiniteSet(Consumers)
    BY <1>1, ReplicasAssumption DEF IsFiniteSet, ECP!IsFiniteSet
  <1>3. NoRow \notin BusRows
    BY EntriesAssumption DEF NoRow, BusRows
  <1>4. /\ [r \in BusRows |-> CreatedAt[r[1]]] \in [BusRows -> Nat]
        /\ [r \in BusRows |-> Handlers[r[1]]] \in [BusRows -> Nat \ {0}]
    BY EntriesAssumption, RowsOfEntries
  <1>5. /\ [c \in Consumers |-> BusRows] \in [Consumers -> SUBSET BusRows]
        /\ [c \in Consumers |-> {}] \in [Consumers -> SUBSET BusRows]
    OBVIOUS
  <1>6. FaultSets \subseteq
          SUBSET {"slowTick", "lostAck", "overlap", "badPayload", "lateEvent"}
    BY FaultsAssumption
  <1>7. QED
    BY <1>2, <1>3, <1>4, <1>5, <1>6, LimitsAssumption

LEMMA SameForwarder ==
    (OF!Init <=> OFP!Init) /\ (OF!Next <=> OFP!Next) /\ OF!vars = OFP!vars
  <1> USE DEF
           OF!procVars, OF!envVars, OF!vars, OF!Statuses, OF!Row, OF!EmptyRow,
           OF!Unclaimed, OF!WithStatus, OF!Exists, OF!SentRow, OF!FailedRow,
           OF!IsStale, OF!SweptTable, OF!OldestPending, OF!ClaimedTable,
           OF!Init, OF!Insert, OF!Cleanup, OF!BusConsumes, OF!InHand,
           OF!ClaimExpires, OF!Start, OF!Dispose, OF!Crash, OF!Goto,
           OF!EndTick, OF!EntryDone, OF!TimerFires, OF!SweepOk,
           OF!SweepFails, OF!ClaimOk, OF!ClaimFails, OF!LoopHead,
           OF!PublishInserts, OF!PublishConflicts, OF!PublishSelects,
           OF!PublishFails, OF!MarkSentOk, OF!MarkSentFails, OF!MarkFailedOk,
           OF!MarkFailedFails, OF!Tick, OF!Next, OF!Cardinality,
           OFP!procVars, OFP!envVars, OFP!vars, OFP!Statuses, OFP!Row,
           OFP!EmptyRow, OFP!Unclaimed, OFP!WithStatus, OFP!Exists,
           OFP!SentRow, OFP!FailedRow, OFP!IsStale, OFP!SweptTable,
           OFP!OldestPending, OFP!ClaimedTable, OFP!Init, OFP!Insert,
           OFP!Cleanup, OFP!BusConsumes, OFP!InHand, OFP!ClaimExpires,
           OFP!Start, OFP!Dispose, OFP!Crash, OFP!Goto, OFP!EndTick,
           OFP!EntryDone, OFP!TimerFires, OFP!SweepOk, OFP!SweepFails,
           OFP!ClaimOk, OFP!ClaimFails, OFP!LoopHead, OFP!PublishInserts,
           OFP!PublishConflicts, OFP!PublishSelects, OFP!PublishFails,
           OFP!MarkSentOk, OFP!MarkSentFails, OFP!MarkFailedOk,
           OFP!MarkFailedFails, OFP!Tick, OFP!Next, OFP!Cardinality
  <1>1. OF!Init <=> OFP!Init
    OBVIOUS
  <1>2. OF!Next <=> OFP!Next
    OBVIOUS
  <1>3. OF!vars = OFP!vars
    OBVIOUS
  <1>4. QED
    BY <1>1, <1>2, <1>3

LEMMA SameConsumer ==
    /\ (EC!Init <=> ECP!Init) /\ (EC!Next <=> ECP!Next) /\ EC!vars = ECP!vars
    /\ \A r \in BusRows : EC!Publish(r) <=> ECP!Publish(r)
    /\ ECP!ConsumerStep <=>
        \/ \E r \in BusRows : EC!CleanupFailed(r) \/ EC!ClaimExpires(r)
        \/ \E c \in Consumers : EC!Start(c) \/ EC!Dispose(c) \/ EC!Crash(c) \/ EC!Tick(c)
  <1> USE DEF
           EC!history, EC!envVars, EC!vars, EC!Statuses, EC!Row, EC!EmptyRow,
           EC!Unclaimed, EC!Finished, EC!Exists, EC!DoneRow, EC!FailedRow,
           EC!IsStale, EC!SweptTable, EC!ClaimedTable, EC!Aggregates,
           EC!Snapshot, EC!SnapshotType, EC!NoSnapshot, EC!LockedByOthers,
           EC!Claimable, EC!OldestOf, EC!ClaimResult, EC!Work, EC!NoWork,
           EC!FirstHandler, EC!Init, EC!World, EC!Precedes, EC!Publish,
           EC!CleanupFailed, EC!InHand, EC!ClaimExpires, EC!Start,
           EC!Dispose, EC!Crash, EC!Goto, EC!EndTick, EC!EventDone,
           EC!TimerFires, EC!AfterSweep, EC!SweepOk, EC!SweepFails,
           EC!ClaimBegins, EC!ClaimOk, EC!ClaimFails, EC!LoopHead,
           EC!HandlerOver, EC!Attempt, EC!Rejected, EC!HandlerReturns,
           EC!HandlerThrows, EC!MarkDoneOk, EC!MarkDoneFails,
           EC!MarkFailedOk, EC!MarkFailedFails, EC!Tick, EC!Next,
           EC!Cardinality, ECP!history, ECP!envVars, ECP!vars, ECP!Statuses,
           ECP!Row, ECP!EmptyRow, ECP!Unclaimed, ECP!Finished, ECP!Exists,
           ECP!DoneRow, ECP!FailedRow, ECP!IsStale, ECP!SweptTable,
           ECP!ClaimedTable, ECP!Aggregates, ECP!Snapshot, ECP!SnapshotType,
           ECP!NoSnapshot, ECP!LockedByOthers, ECP!Claimable, ECP!OldestOf,
           ECP!ClaimResult, ECP!Work, ECP!NoWork, ECP!FirstHandler, ECP!Init,
           ECP!World, ECP!Precedes, ECP!Publish, ECP!CleanupFailed,
           ECP!InHand, ECP!ClaimExpires, ECP!Start, ECP!Dispose, ECP!Crash,
           ECP!Goto, ECP!EndTick, ECP!EventDone, ECP!TimerFires,
           ECP!AfterSweep, ECP!SweepOk, ECP!SweepFails, ECP!ClaimBegins,
           ECP!ClaimOk, ECP!ClaimFails, ECP!LoopHead, ECP!HandlerOver,
           ECP!Attempt, ECP!Rejected, ECP!HandlerReturns, ECP!HandlerThrows,
           ECP!MarkDoneOk, ECP!MarkDoneFails, ECP!MarkFailedOk,
           ECP!MarkFailedFails, ECP!Tick, ECP!Next, ECP!Cardinality
  <1>1. EC!Init <=> ECP!Init
    OBVIOUS
  <1>2. EC!Next <=> ECP!Next
    OBVIOUS
  <1>3. EC!vars = ECP!vars
    OBVIOUS
  <1>4. \A r \in BusRows : EC!Publish(r) <=> ECP!Publish(r)
    OBVIOUS
  <1>5. ECP!ConsumerStep <=>
          \/ \E r \in BusRows : EC!CleanupFailed(r) \/ EC!ClaimExpires(r)
          \/ \E c \in Consumers : EC!Start(c) \/ EC!Dispose(c) \/ EC!Crash(c) \/ EC!Tick(c)
    BY DEF ECP!ConsumerStep
  <1>6. QED
    BY <1>1, <1>2, <1>3, <1>4, <1>5

LEMMA ForwarderInvariants ==
    OFP!Spec => [](OFP!TypeOK /\ OFP!PublishedInv /\ OFP!RetryInv /\ OFP!RecordedInv)
  BY OFP!Invariants, ForwarderAssumptions

LEMMA ConsumerInvariants ==
    ECP!Spec => [](ECP!TypeOK /\ ECP!HandledInv /\ ECP!RetryInv /\ ECP!InHandInv)
  BY ECP!Invariants, ConsumerAssumptions

-----------------------------------------------------------------------------
(* A step of the system is a step of one side, or a publish, which is one   *)
(* of both.                                                                 *)

\* A step of the outbox side alone, as module OutboxForwarder has it.
OutboxStep == UNCHANGED busVars /\ OF!Next

\* A step of the bus side alone: of anybody but the publishers.
BusStep == UNCHANGED outboxVars /\ ECP!ConsumerStep

LEMMA Sides ==
    ASSUME [Next]_vars
    PROVE  \/ OutboxStep \/ BusStep
           \/ \E f \in Forwarders : Publish(f)
           \/ UNCHANGED vars
  <1>1. CASE \E e \in Entries : Outbox(OF!Insert(e) \/ OF!Cleanup(e) \/ OF!ClaimExpires(e))
    BY <1>1 DEF Outbox, OutboxStep, OF!Next
  <1>2. CASE \E r \in BusRows : Bus(EC!CleanupFailed(r) \/ EC!ClaimExpires(r))
    BY <1>2, SameConsumer DEF Bus, BusStep
  <1>3. ASSUME NEW f \in Forwarders,
               \/ Forward(f) \/ Outbox(OF!Start(f))
               \/ MayStop /\ Outbox(OF!Dispose(f) \/ OF!Crash(f))
        PROVE  Publish(f) \/ OutboxStep
    BY <1>3 DEF Forward, Outbox, OutboxStep, OF!Next
  <1>4. ASSUME NEW c \in Consumers,
               \/ Bus(EC!Tick(c) \/ EC!Start(c))
               \/ MayStop /\ Bus(EC!Dispose(c) \/ EC!Crash(c))
        PROVE  BusStep
    BY <1>4, SameConsumer DEF Bus, BusStep
  <1>5. QED
    BY <1>1, <1>2, <1>3, <1>4 DEF Next

\* The types of both sides.
TypeOK == OFP!TypeOK /\ ECP!TypeOK

LEMMA Types ==
    ASSUME TypeOK
    PROVE  /\ outbox \in [Entries -> OFP!Row]
           /\ bus \in [BusRows -> ECP!Row]
           /\ \A f \in Forwarders :
                fPc[f] \in {"publish", "select", "markSent", "markFailed"} =>
                    fCur[f] \in fBatch[f] /\ fCur[f] \in Entries
           /\ \A c \in Consumers :
                cPc[c] \in {"skip", "attempt", "run", "ack", "markFailed"} =>
                    /\ work[c].event \in cBatch[c] /\ work[c].event \in BusRows
                    /\ work[c].handler \in 1 .. Handlers[work[c].event[1]]
           /\ \A r \in BusRows : handled[r] \subseteq 1 .. Handlers[r[1]]
           /\ handled \in [BusRows -> SUBSET Nat]
  BY DEF TypeOK, OFP!TypeOK, ECP!TypeOK

LEMMA FaultsConstant ==
    /\ OFP!Next => faults' = faults
    /\ ECP!ConsumerStep => faults' = faults
  <1>1. ECP!ConsumerStep => ECP!Next
    BY DEF ECP!ConsumerStep, ECP!Next
  <1>2. QED
    BY <1>1, OFP!FaultsConstant, ForwarderAssumptions, ECP!FaultsConstant, ConsumerAssumptions

\* An entry has a row on the bus as long as one of its rows exists: what changes one row
\* at most, and inserts none, takes one entry at most off the bus.
LEMMA OneRowLess ==
    ASSUME NEW r \in BusRows,
           \A q \in BusRows : q # r => (EC!Exists(bus'[q]) <=> EC!Exists(bus[q])),
           EC!Exists(bus'[r]) => EC!Exists(bus[r])
    PROVE  OnBus' = OnBus \/ \E e \in OnBus : OnBus' = OnBus \ {e}
  <1>1. OnBus' \subseteq OnBus /\ OnBus \ {r[1]} \subseteq OnBus'
    BY RowsOfEntries DEF OnBus, RowsOf
  <1>2. QED
    BY <1>1

\* What a step of the bus side does to the table, from the lemma of EventConsumerProofs.
BusKept == handled' = handled /\ \A r \in BusRows : ECP!SameStage(bus[r], bus'[r])

LEMMA BusSteps ==
    ASSUME TypeOK, ECP!ConsumerStep
    PROVE  \/ \E r \in BusRows : ECP!CleanupFailed(r)
           \/ \E c \in Consumers : ECP!HandlerReturns(c)
           \/ BusKept
           \/ \E c \in Consumers :
                /\ cPc[c] \in {"ack", "skip"}
                /\ ECP!Rewrites(c, ECP!DoneRow(bus[work[c].event]))
           \/ \E c \in Consumers :
                /\ cPc[c] = "markFailed"
                /\ ECP!Rewrites(c, ECP!FailedRow(bus[work[c].event]))
  BY ECP!TableSteps, ConsumerAssumptions DEF TypeOK, BusKept

LEMMA OnBusSteps ==
    ASSUME TypeOK, BusStep
    PROVE  OnBus' = OnBus \/ \E e \in OnBus : OnBus' = OnBus \ {e}
  <1>t. bus \in [BusRows -> ECP!Row]
    BY Types
  <1>k. (\A r \in BusRows : EC!Exists(bus'[r]) <=> EC!Exists(bus[r])) => OnBus' = OnBus
    BY RowsOfEntries DEF OnBus
  <1>r. ASSUME NEW r \in BusRows, NEW row, bus' = [bus EXCEPT ![r] = row],
               EC!Exists(row) => EC!Exists(bus[r])
        PROVE  OnBus' = OnBus \/ \E e \in OnBus : OnBus' = OnBus \ {e}
    <2>1. bus'[r] = row /\ \A q \in BusRows : q # r => bus'[q] = bus[q]
      BY <1>t, <1>r
    <2>2. QED
      BY <1>r, <2>1, OneRowLess
  <1>1. ASSUME NEW r \in BusRows, ECP!CleanupFailed(r)
        PROVE  OnBus' = OnBus \/ \E e \in OnBus : OnBus' = OnBus \ {e}
    <2>1. bus' = [bus EXCEPT ![r] = [bus[r] EXCEPT !.status = "PURGED"]]
      BY <1>1, <1>t DEF ECP!CleanupFailed
    <2>2. [bus[r] EXCEPT !.status = "PURGED"].status = "PURGED"
      BY <1>t DEF ECP!Row
    <2>3. QED
      BY <1>r, <2>1, <2>2 DEF EC!Exists
  <1>2. ASSUME NEW c \in Consumers, ECP!HandlerReturns(c) PROVE OnBus' = OnBus
    BY <1>2 DEF ECP!HandlerReturns, ECP!HandlerOver, OnBus
  <1>3. CASE BusKept
    BY <1>3, <1>k DEF BusKept, ECP!SameStage, EC!Exists
  <1>4. ASSUME NEW c \in Consumers, cPc[c] \in {"ack", "skip", "markFailed"},
               NEW row \in {ECP!DoneRow(bus[work[c].event]), ECP!FailedRow(bus[work[c].event])},
               ECP!Rewrites(c, row)
        PROVE  OnBus' = OnBus \/ \E e \in OnBus : OnBus' = OnBus \ {e}
    <2>1. work[c].event \in BusRows
      BY <1>4, Types
    <2>2. ~EC!Exists(bus[work[c].event]) => row = bus[work[c].event]
      BY <1>4 DEF ECP!DoneRow, ECP!FailedRow, ECP!Exists, EC!Exists
    <2>3. QED
      BY <1>4, <1>r, <2>1, <2>2 DEF ECP!Rewrites
  <1>5. QED
    BY <1>1, <1>2, <1>3, <1>4, BusSteps DEF BusStep

\* Every step of the system is a step of the outbox side, with the deletions of the
\* consumers as BusConsumes, and of the bus side.
LEMMA BothSides ==
    ASSUME TypeOK, [Next]_vars
    PROVE  [OFP!Next]_OFP!vars /\ [ECP!Next]_ECP!vars
  <1>1. CASE OutboxStep
    <2>1. OFP!Next /\ faults' = faults
      BY <1>1, SameForwarder, FaultsConstant DEF OutboxStep
    <2>2. UNCHANGED ECP!vars
      BY <1>1, <2>1 DEF OutboxStep, busVars, ECP!vars, ECP!history, ECP!envVars
    <2>3. QED
      BY <2>1, <2>2
  <1>2. CASE BusStep
    <2>1. ECP!Next /\ faults' = faults
      BY <1>2, FaultsConstant DEF BusStep, ECP!ConsumerStep, ECP!Next
    <2>2. CASE OnBus' = OnBus
      BY <1>2, <2>1, <2>2 DEF BusStep, outboxVars, OFP!vars, OFP!procVars, OFP!envVars
    <2>3. ASSUME NEW e \in OnBus, OnBus' = OnBus \ {e} PROVE OFP!Next
      <3>1. OFP!BusConsumes(e)
        BY <1>2, <2>1, <2>3
           DEF BusStep, outboxVars, OFP!BusConsumes, OFP!procVars, OFP!envVars
      <3>2. e \in Entries
        BY DEF OnBus
      <3>3. QED
        BY <3>1, <3>2 DEF OFP!Next
    <2>4. QED
      BY <1>2, <2>1, <2>2, <2>3, OnBusSteps
  <1>3. ASSUME NEW f \in Forwarders, Publish(f) PROVE OFP!Next /\ ECP!Next
    <2>1. PICK n \in 1 .. MaxRows : EC!Publish(<<fCur[f], n>>) /\ OF!PublishInserts(f)
      BY <1>3 DEF Publish
    <2>2. fCur[f] \in Entries
      BY <1>3, Types DEF Publish
    <2>3. <<fCur[f], n>> \in BusRows
      BY <2>2 DEF BusRows
    <2>4. ECP!Next
      BY <2>1, <2>3, SameConsumer DEF ECP!Next
    <2>5. OF!Next
      BY <2>1 DEF OF!Next, OF!Tick
    <2>6. QED
      BY <2>4, <2>5, SameForwarder
  <1>4. CASE UNCHANGED vars
    <2>1. OnBus' = OnBus
      BY <1>4 DEF vars, busVars, OnBus
    <2>2. QED
      BY <1>4, <2>1 DEF vars, outboxVars, busVars, OFP!vars, OFP!procVars, OFP!envVars,
                        ECP!vars, ECP!history, ECP!envVars
  <1>5. QED
    BY <1>1, <1>2, <1>3, <1>4, Sides

LEMMA InitSides == Init => OFP!Init /\ ECP!Init
  BY SameForwarder, SameConsumer DEF Init

LEMMA TypesKept == Spec => []TypeOK
  <1>1. Init => TypeOK
    BY InitSides, OFP!InitType, ForwarderAssumptions, ECP!InitType, ConsumerAssumptions
       DEF TypeOK
  <1>2. TypeOK /\ [Next]_vars => TypeOK'
    BY BothSides, OFP!NextType, ForwarderAssumptions, ECP!NextType, ConsumerAssumptions
       DEF TypeOK
  <1>3. QED
    BY <1>1, <1>2, PTL DEF Spec

\* The forwarders see no more of the real bus than module OutboxForwarder lets its bus do.
THEOREM ForwardersImplemented == Spec => ForwardersSeeBus
  <1>1. UNCHANGED OFP!vars => UNCHANGED OF!vars
    BY DEF OF!vars, OF!procVars, OF!envVars, OFP!vars, OFP!procVars, OFP!envVars
  <1>2. TypeOK /\ [Next]_vars => [OF!Next]_OF!vars
    BY <1>1, BothSides, SameForwarder
  <1>3. Init => OF!Init
    BY DEF Init
  <1>4. QED
    BY <1>2, <1>3, TypesKept, PTL DEF Spec, ForwardersSeeBus, OF!Spec

\* The consumers see an ordinary bus: that its publishers are forwarders, which publish an
\* entry again after its row was deleted, adds nothing to what EventConsumer lets them do.
THEOREM ConsumersImplemented == Spec => EC!Spec
  <1>1. UNCHANGED ECP!vars => UNCHANGED EC!vars
    BY DEF EC!vars, EC!history, EC!envVars, ECP!vars, ECP!history, ECP!envVars
  <1>2. TypeOK /\ [Next]_vars => [EC!Next]_EC!vars
    BY <1>1, BothSides, SameConsumer
  <1>3. Init => EC!Init
    BY DEF Init
  <1>4. QED
    BY <1>2, <1>3, TypesKept, PTL DEF Spec, EC!Spec

\* So the system implements the two modules the proofs of which are in OFP and ECP.
LEMMA Components == Spec => OFP!Spec /\ ECP!Spec
  <1>1. TypeOK /\ [Next]_vars => [OFP!Next]_OFP!vars /\ [ECP!Next]_ECP!vars
    BY BothSides
  <1>2. QED
    BY <1>1, InitSides, TypesKept, PTL DEF Spec, OFP!Spec, ECP!Spec

\* What holds of the outbox with any bus holds with this one: nothing is acknowledged that
\* was not published, retries are counted to their limit, and no two replicas forward one
\* entry as long as ticks are not slow.
THEOREM OutboxStaysCorrect ==
    Spec => [](OF!SentWasPublished /\ OF!RetryBudget /\ OF!OneForwarderPerEntry)
  <1>1. /\ OFP!SentWasPublished <=> OF!SentWasPublished
        /\ OFP!RetryBudget <=> OF!RetryBudget
        /\ OFP!OneForwarderPerEntry <=> OF!OneForwarderPerEntry
    BY DEF OF!SentWasPublished, OFP!SentWasPublished, OF!RetryBudget, OFP!RetryBudget,
           OF!OneForwarderPerEntry, OFP!OneForwarderPerEntry
  <1>2. OFP!Spec => [](OFP!SentWasPublished /\ OFP!RetryBudget /\ OFP!OneForwarderPerEntry)
    BY OFP!SentImpliesPublished, OFP!RetryBudgetKept, OFP!ClaimsAreExclusive,
       ForwarderAssumptions, PTL
  <1>3. QED
    BY <1>1, <1>2, Components, PTL

\* What holds of the bus with any publisher holds with the forwarders: no row is deleted
\* before all its handlers returned, retries are counted to their limit, and no two replicas
\* have one row, or rows of one aggregate, in hand unless ticks are slow.  (Claims in flight
\* at once, the other thing that separates aggregates, are not among the faults here.)
THEOREM BusStaysCorrect ==
    Spec => [](/\ EC!DeletedWasHandled /\ EC!RetryBudget
               /\ EC!OneReplicaPerEvent /\ EC!OneReplicaPerAggregate)
  <1>1. /\ ECP!DeletedWasHandled <=> EC!DeletedWasHandled
        /\ ECP!RetryBudget <=> EC!RetryBudget
        /\ ECP!OneReplicaPerEvent <=> EC!OneReplicaPerEvent
        /\ ECP!OneReplicaPerAggregate <=> EC!OneReplicaPerAggregate
    BY DEF EC!DeletedWasHandled, ECP!DeletedWasHandled, EC!RetryBudget, ECP!RetryBudget,
           EC!OneReplicaPerEvent, ECP!OneReplicaPerEvent,
           EC!OneReplicaPerAggregate, ECP!OneReplicaPerAggregate,
           EC!Aggregates, ECP!Aggregates
  <1>2. ECP!Spec => [](/\ ECP!DeletedWasHandled /\ ECP!RetryBudget
                       /\ ECP!OneReplicaPerEvent /\ ECP!OneReplicaPerAggregate)
    BY ECP!DeletionImpliesHandling, ECP!RetryBudgetKept, ECP!ClaimsAreExclusive,
       ECP!AggregatesAreExclusive, ConsumerAssumptions, PTL
  <1>3. QED
    BY <1>1, <1>2, Components, PTL

-----------------------------------------------------------------------------
(* What outbox and bus promise together.  The invariants of the two sides   *)
(* hold of the system, because it implements both; one more relates them.   *)

\* A row on the bus is one of an entry that was published.
RowsArePublished == \A r \in BusRows : bus[r].status # "NONE" => r[1] \in published

PipelineInv ==
    /\ TypeOK
    /\ OFP!PublishedInv /\ OFP!RetryInv /\ OFP!RecordedInv
    /\ ECP!HandledInv /\ ECP!RetryInv /\ ECP!InHandInv
    /\ RowsArePublished

\* No step of the bus side gives an entry its first row.
LEMMA NoNewRows ==
    ASSUME TypeOK, ECP!ConsumerStep, NEW r \in BusRows, bus[r].status = "NONE"
    PROVE  bus'[r].status = "NONE"
  <1>t. bus \in [BusRows -> ECP!Row]
    BY Types
  <1>1. ASSUME NEW q \in BusRows, ECP!CleanupFailed(q) PROVE bus'[r].status = "NONE"
    BY <1>t, <1>1 DEF ECP!CleanupFailed
  <1>2. ASSUME NEW c \in Consumers, ECP!HandlerReturns(c) PROVE bus'[r].status = "NONE"
    BY <1>2 DEF ECP!HandlerReturns, ECP!HandlerOver
  <1>3. CASE BusKept
    BY <1>3 DEF BusKept, ECP!SameStage
  <1>4. ASSUME NEW c \in Consumers, cPc[c] \in {"ack", "skip", "markFailed"},
               NEW row \in {ECP!DoneRow(bus[work[c].event]), ECP!FailedRow(bus[work[c].event])},
               ECP!Rewrites(c, row)
        PROVE  bus'[r].status = "NONE"
    <2>1. work[c].event \in BusRows
      BY <1>4, Types
    <2>2. work[c].event = r => row = bus[r]
      BY <1>4 DEF ECP!DoneRow, ECP!FailedRow, ECP!Exists
    <2>3. QED
      BY <1>t, <1>4, <2>1, <2>2 DEF ECP!Rewrites
  <1>5. QED
    BY <1>1, <1>2, <1>3, <1>4, BusSteps

LEMMA RowsStep == TypeOK /\ RowsArePublished /\ [Next]_vars => RowsArePublished'
  <1> SUFFICES ASSUME TypeOK, RowsArePublished, [Next]_vars,
                      NEW r \in BusRows, bus'[r].status # "NONE"
               PROVE  r[1] \in published'
    BY DEF RowsArePublished
  <1>1. CASE OutboxStep
    <2>1. published \subseteq published' /\ bus' = bus
      BY <1>1, SameForwarder, OFP!TableSteps, ForwarderAssumptions
         DEF OutboxStep, busVars, TypeOK, OFP!Insert, OFP!PublishInserts, OFP!Rewrites
    <2>2. QED
      BY <2>1 DEF RowsArePublished
  <1>2. CASE BusStep
    BY <1>2, NoNewRows, Types DEF BusStep, outboxVars, RowsArePublished
  <1>3. ASSUME NEW f \in Forwarders, Publish(f) PROVE r[1] \in published'
    <2>1. PICK n \in 1 .. MaxRows : EC!Publish(<<fCur[f], n>>) /\ OF!PublishInserts(f)
      BY <1>3 DEF Publish
    <2>2. published' = published \cup {fCur[f]}
      BY <2>1 DEF OF!PublishInserts
    <2>3. r # <<fCur[f], n>> => bus'[r] = bus[r]
      BY <2>1, Types DEF EC!Publish
    <2>4. QED
      BY <2>2, <2>3 DEF RowsArePublished
  <1>4. CASE UNCHANGED vars
    BY <1>4 DEF vars, outboxVars, busVars, RowsArePublished
  <1>5. QED
    BY <1>1, <1>2, <1>3, <1>4, Sides

LEMMA PipelineInvariant == Spec => []PipelineInv
  <1>1. Init => RowsArePublished
    BY SameConsumer DEF Init, RowsArePublished, ECP!Init, ECP!EmptyRow
  <1>2. QED
    BY <1>1, Components, RowsStep, TypesKept, ForwarderInvariants, ConsumerInvariants, PTL
       DEF Spec, PipelineInv

-----------------------------------------------------------------------------
(* The refinement.  Abandoned has a part for each table.                    *)

OutboxFailed == {e \in Entries : outbox[e].status = "FAILED"}
BusFailed == {e \in Entries : \E r \in RowsOf(e) : bus[r].status \in {"FAILED", "PURGED"}}

LEMMA AbandonedParts == Abandoned = OutboxFailed \cup BusFailed
  BY DEF Abandoned, OutboxFailed, BusFailed

\* What the mapped variables of the outbox become when row is written for entry d.
OutboxBecomes(d, row) ==
    /\ row.status # "NONE" => Recorded' = Recorded \cup {d}
    /\ Acknowledged' = IF row.status \in {"SENT", "DELETED"}
                       THEN Acknowledged \cup {d} ELSE Acknowledged \ {d}
    /\ OutboxFailed' = IF row.status = "FAILED"
                       THEN OutboxFailed \cup {d} ELSE OutboxFailed \ {d}

LEMMA OutboxRow ==
    ASSUME TypeOK, NEW d \in Entries, NEW row, outbox' = [outbox EXCEPT ![d] = row]
    PROVE  OutboxBecomes(d, row)
  <1>1. outbox'[d] = row /\ \A e \in Entries : e # d => outbox'[e] = outbox[e]
    BY Types
  <1>2. QED
    BY <1>1 DEF OutboxBecomes, Recorded, Acknowledged, OutboxFailed

\* An entry is given up on the bus by any of its rows.
BusBecomes(r, row) ==
    /\ row.status \in {"FAILED", "PURGED"} => BusFailed' = BusFailed \cup {r[1]}
    /\ row.status \notin {"FAILED", "PURGED"} => BusFailed' \in {BusFailed, BusFailed \ {r[1]}}
    /\ bus[r].status \notin {"FAILED", "PURGED"} /\ row.status \notin {"FAILED", "PURGED"} =>
            BusFailed' = BusFailed

LEMMA BusRow ==
    ASSUME TypeOK, NEW r \in BusRows, NEW row, bus' = [bus EXCEPT ![r] = row]
    PROVE  BusBecomes(r, row)
  <1>1. bus'[r] = row /\ \A q \in BusRows : q # r => bus'[q] = bus[q]
    BY Types
  <1>2. \A e \in Entries : e # r[1] => (e \in BusFailed' <=> e \in BusFailed)
    BY <1>1, RowsOfEntries DEF BusFailed, RowsOf
  <1>3. row.status \in {"FAILED", "PURGED"} => r[1] \in BusFailed'
    BY <1>1, RowsOfEntries DEF BusFailed, RowsOf
  <1>4. row.status \notin {"FAILED", "PURGED"} =>
            (r[1] \in BusFailed' => r[1] \in BusFailed)
    BY <1>1, RowsOfEntries DEF BusFailed, RowsOf
  <1>5. bus[r].status \notin {"FAILED", "PURGED"} =>
            (r[1] \in BusFailed => r[1] \in BusFailed')
    BY <1>1, RowsOfEntries DEF BusFailed, RowsOf
  <1>6. BusFailed \subseteq Entries /\ BusFailed' \subseteq Entries /\ r[1] \in Entries
    BY RowsOfEntries DEF BusFailed
  <1>7. QED
    BY <1>2, <1>3, <1>4, <1>5, <1>6 DEF BusBecomes

\* A step of the outbox side records, acknowledges, gives up or reopens an entry.
LEMMA OutboxKeepsPromise ==
    ASSUME PipelineInv, OutboxStep
    PROVE  [ALO!Next]_ALO!vars
  <1>t. TypeOK /\ OFP!Next
    BY SameForwarder DEF PipelineInv, OutboxStep
  <1>b. BusFailed' = BusFailed /\ Delivered' = Delivered /\ OnBus' = OnBus
    BY DEF OutboxStep, busVars, BusFailed, Delivered, OnBus
  <1>a. Abandoned = OutboxFailed \cup BusFailed /\ Abandoned' = OutboxFailed' \cup BusFailed
    <2>1. Abandoned' = OutboxFailed' \cup BusFailed'
      BY DEF Abandoned, OutboxFailed, BusFailed
    <2>2. QED
      BY <1>b, <2>1, AbandonedParts
  <1>s. ASSUME UNCHANGED <<outbox, published>> PROVE UNCHANGED ALO!vars
    BY <1>s, <1>a, <1>b DEF ALO!vars, Recorded, Acknowledged, OutboxFailed
  <1>1. ASSUME NEW e \in Entries, OFP!Insert(e) PROVE ALO!Record(e)
    <2>1. /\ outbox' = [outbox EXCEPT ![e] = [outbox[e] EXCEPT !.status = "PENDING"]]
          /\ outbox[e].status = "NONE" /\ published' = published
      BY <1>1 DEF OFP!Insert
    <2>2. [outbox[e] EXCEPT !.status = "PENDING"].status = "PENDING"
      BY <1>t, Types DEF OFP!Row
    <2>3. e \notin Acknowledged /\ e \notin OutboxFailed
      BY <2>1 DEF Acknowledged, OutboxFailed
    <2>o. OutboxBecomes(e, [outbox[e] EXCEPT !.status = "PENDING"])
      BY <1>t, <2>1, OutboxRow, Zenon
    <2>4. /\ Recorded' = Recorded \cup {e}
          /\ Acknowledged' = Acknowledged /\ OutboxFailed' = OutboxFailed
      BY <2>o, <2>2, <2>3 DEF OutboxBecomes
    <2>5. QED
      BY <1>a, <1>b, <2>1, <2>4 DEF ALO!Record
  <1>2. ASSUME NEW f \in Forwarders, OFP!PublishInserts(f) PROVE FALSE
    BY <1>2, <1>b DEF OFP!PublishInserts
  <1>3. CASE published' = published /\ \A e \in Entries : OFP!SameStage(outbox[e], outbox'[e])
    <2>1. Recorded' = Recorded /\ Acknowledged' = Acknowledged /\ OutboxFailed' = OutboxFailed
      BY <1>3 DEF OFP!SameStage, Recorded, Acknowledged, OutboxFailed
    <2>2. QED
      BY <1>a, <1>b, <1>3, <2>1 DEF ALO!vars
  <1>4. ASSUME NEW f \in Forwarders, fPc[f] = "markSent",
               OFP!Rewrites(f, OFP!SentRow(outbox[fCur[f]]))
        PROVE  UNCHANGED ALO!vars \/ ALO!Acknowledge(fCur[f])
    <2> DEFINE d == fCur[f]
               row == OFP!SentRow(outbox[d])
    <2>1. d \in Entries /\ outbox[d] \in OFP!Row /\ outbox \in [Entries -> OFP!Row]
      BY <1>t, <1>4, Types
    <2>2. outbox' = [outbox EXCEPT ![d] = row] /\ published' = published
      BY <1>4 DEF OFP!Rewrites
    <2>3. CASE ~OFP!Exists(outbox[d])
      <3>1. row = outbox[d]
        BY <2>3 DEF OFP!SentRow
      <3>2. outbox' = outbox
        BY <2>1, <2>2, <3>1
      <3>3. QED
        BY <2>2, <3>2, <1>s
    <2>4. CASE OFP!Exists(outbox[d])
      <3>1. row.status = "SENT" /\ d \in Recorded
        BY <2>1, <2>4, OFP!SentRowType, ForwarderAssumptions DEF OFP!Exists, Recorded
      <3>2. d \in published
        BY <1>4 DEF PipelineInv, OFP!PublishedInv
      <3> HIDE DEF d, row
      <3>o. OutboxBecomes(d, row)
        BY <1>t, <2>1, <2>2, OutboxRow, Zenon
      <3>3. /\ Recorded' = Recorded /\ Acknowledged' = Acknowledged \cup {d}
            /\ OutboxFailed' = OutboxFailed \ {d}
        BY <3>o, <3>1 DEF OutboxBecomes
      <3>4. Abandoned' \in {Abandoned, Abandoned \ {d}}
        <4>1. CASE d \in BusFailed
          BY <1>a, <3>3, <4>1
        <4>2. CASE d \notin BusFailed
          BY <1>a, <3>3, <4>2
        <4>3. QED
          BY <4>1, <4>2
      <3>5. ALO!Acknowledge(d)
        BY <1>b, <2>2, <3>2, <3>3, <3>4 DEF ALO!Acknowledge
      <3>6. QED
        BY <3>5 DEF d
    <2>5. QED
      BY <2>3, <2>4
  <1>5. ASSUME NEW f \in Forwarders, fPc[f] = "markFailed",
               OFP!Rewrites(f, OFP!FailedRow(outbox[fCur[f]]))
        PROVE  UNCHANGED ALO!vars \/ ALO!Abandon(fCur[f]) \/ ALO!Reopen(fCur[f])
    <2> DEFINE d == fCur[f]
               row == OFP!FailedRow(outbox[d])
    <2>1. d \in Entries /\ outbox[d] \in OFP!Row /\ outbox \in [Entries -> OFP!Row]
      BY <1>t, <1>5, Types
    <2>2. outbox' = [outbox EXCEPT ![d] = row] /\ published' = published
      BY <1>5 DEF OFP!Rewrites
    <2>3. CASE ~OFP!Exists(outbox[d])
      <3>1. row = outbox[d]
        BY <2>3 DEF OFP!FailedRow
      <3>2. outbox' = outbox
        BY <2>1, <2>2, <3>1
      <3>3. QED
        BY <2>2, <3>2, <1>s
    <2>4. CASE OFP!Exists(outbox[d])
      <3>0. row.status = IF outbox[d].retries + 1 >= OutboxRetries THEN "FAILED" ELSE "PENDING"
        BY <2>1, <2>4, OFP!FailedRowType, ForwarderAssumptions
      <3>1. d \in Recorded
        BY <2>1, <2>4 DEF OFP!Exists, Recorded
      <3>2. CASE row.status = "FAILED"
        <4> HIDE DEF d, row
        <4>o. OutboxBecomes(d, row)
          BY <1>t, <2>1, <2>2, OutboxRow, Zenon
        <4>1. /\ Recorded' = Recorded /\ Acknowledged' = Acknowledged \ {d}
              /\ OutboxFailed' = OutboxFailed \cup {d}
          BY <4>o, <3>1, <3>2 DEF OutboxBecomes
        <4>2. Abandoned' = Abandoned \cup {d}
          BY <1>a, <4>1
        <4>3. ALO!Abandon(d)
          BY <1>b, <2>2, <3>1, <4>1, <4>2 DEF ALO!Abandon
        <4>4. QED
          BY <4>3 DEF d
      <3>3. CASE row.status = "PENDING"
        <4>1. ~(outbox[d].retries + 1 >= OutboxRetries)
          BY <3>0, <3>3
        <4>2. outbox[d].status = "FAILED" => outbox[d].retries >= OutboxRetries
          BY <2>1 DEF PipelineInv, OFP!RetryInv, OFP!RetryBudget
        <4>3. outbox[d].retries \in Nat /\ OutboxRetries \in Nat
          BY <2>1, ForwarderAssumptions DEF OFP!Row
        <4>4. d \notin OutboxFailed
          BY <4>1, <4>2, <4>3 DEF OutboxFailed
        <4> HIDE DEF d, row
        <4>o. OutboxBecomes(d, row)
          BY <1>t, <2>1, <2>2, OutboxRow, Zenon
        <4>5. /\ Recorded' = Recorded /\ Acknowledged' = Acknowledged \ {d}
              /\ OutboxFailed' = OutboxFailed
          BY <4>o, <3>1, <3>3, <4>4 DEF OutboxBecomes
        <4>6. ALO!Reopen(d)
          BY <1>a, <1>b, <2>2, <4>5 DEF ALO!Reopen
        <4>7. QED
          BY <4>6 DEF d
      <3>4. QED
        BY <3>0, <3>2, <3>3
    <2>5. QED
      BY <2>3, <2>4
  <1>6. \A f \in Forwarders : fPc[f] \in {"markSent", "markFailed"} => fCur[f] \in Entries
    BY <1>t, Types
  <1>7. QED
    BY <1>t, <1>1, <1>2, <1>3, <1>4, <1>5, <1>6, OFP!TableSteps, ForwarderAssumptions
       DEF ALO!Next, TypeOK

\* What a tick works on was published, and recorded before.
LEMMA WorkIsPublished ==
    ASSUME PipelineInv, NEW c \in Consumers, cPc[c] \in {"run", "ack", "markFailed"}
    PROVE  /\ work[c].event \in BusRows /\ work[c].event[1] \in Entries
           /\ work[c].event[1] \in published /\ work[c].event[1] \in Recorded
  <1>1. work[c].event \in cBatch[c] /\ work[c].event \in BusRows
    BY Types DEF PipelineInv
  <1>2. bus[work[c].event].status # "NONE"
    BY <1>1 DEF PipelineInv, ECP!InHandInv
  <1>3. work[c].event[1] \in published /\ work[c].event[1] \in Entries
    BY <1>1, <1>2, RowsOfEntries DEF PipelineInv, RowsArePublished
  <1>4. QED
    BY <1>1, <1>3 DEF PipelineInv, OFP!RecordedInv, Recorded

\* No consumer has an event of its own service here: none is deleted unhandled.
LEMMA NoneSkipped ==
    PipelineInv => skipped = {} /\ \A c \in Consumers : cPc[c] # "skip"
  <1> SUFFICES ASSUME PipelineInv
               PROVE  skipped = {} /\ \A c \in Consumers : cPc[c] # "skip"
    OBVIOUS
  <1>1. \A c \in Consumers : cPc[c] # "skip"
    BY DEF PipelineInv, ECP!InHandInv
  <1>2. skipped \subseteq BusRows
    BY DEF PipelineInv, TypeOK, ECP!TypeOK
  <1>3. skipped = {}
    BY <1>2 DEF PipelineInv, ECP!InHandInv
  <1>4. QED
    BY <1>1, <1>3

\* The entries all handlers of which have returned for one of their rows.
HandledEntries == {e \in Entries : \E r \in RowsOf(e) : handled[r] = 1 .. Handlers[e]}

LEMMA DeliveredIsHandled == PipelineInv => Delivered = HandledEntries
  BY NoneSkipped DEF Delivered, HandledEntries

\* A handler that returns can only add to what is delivered.
LEMMA HandlerRow ==
    ASSUME TypeOK, NEW c \in Consumers, cPc[c] = "run",
           handled' = [handled EXCEPT ![work[c].event] = @ \cup {work[c].handler}]
    PROVE  \/ HandledEntries' = HandledEntries
           \/ HandledEntries' = HandledEntries \cup {work[c].event[1]}
  <1> DEFINE r == work[c].event
  <1>1. /\ r \in BusRows /\ work[c].handler \in 1 .. Handlers[r[1]]
        /\ handled \in [BusRows -> SUBSET Nat]
    BY Types
  <1>2. /\ handled'[r] = handled[r] \cup {work[c].handler}
        /\ \A q \in BusRows : q # r => handled'[q] = handled[q]
    BY <1>1
  <1>3. handled[r] = 1 .. Handlers[r[1]] => handled'[r] = 1 .. Handlers[r[1]]
    BY <1>1, <1>2
  <1> HIDE DEF r
  <1>4. \A e \in Entries : e # r[1] => (e \in HandledEntries' <=> e \in HandledEntries)
    BY <1>2, RowsOfEntries DEF HandledEntries
  <1>5. r[1] \in HandledEntries => r[1] \in HandledEntries'
    <2>1. SUFFICES ASSUME NEW q \in RowsOf(r[1]), handled[q] = 1 .. Handlers[r[1]]
                   PROVE  handled'[q] = 1 .. Handlers[r[1]]
      BY DEF HandledEntries
    <2>2. q \in BusRows
      BY <1>1, RowsOfEntries DEF r
    <2>3. QED
      BY <1>2, <1>3, <2>1, <2>2
  <1>6. HandledEntries \subseteq Entries /\ HandledEntries' \subseteq Entries
        /\ r[1] \in Entries
    BY <1>1, RowsOfEntries DEF HandledEntries, r
  <1>7. HandledEntries' = HandledEntries \/ HandledEntries' = HandledEntries \cup {r[1]}
    BY <1>4, <1>5, <1>6
  <1>8. QED
    BY <1>7 DEF r

\* A step of the bus side delivers an entry, gives it up or revives it.
LEMMA BusKeepsPromise ==
    ASSUME PipelineInv, PipelineInv', BusStep
    PROVE  [ALO!Next]_ALO!vars
  <1>t. TypeOK /\ ECP!ConsumerStep /\ bus \in [BusRows -> ECP!Row]
    BY Types DEF PipelineInv, BusStep
  <1>o. /\ Recorded' = Recorded /\ published' = published
        /\ Acknowledged' = Acknowledged /\ OutboxFailed' = OutboxFailed
    BY DEF BusStep, outboxVars, Recorded, Acknowledged, OutboxFailed
  <1>a. Abandoned = OutboxFailed \cup BusFailed /\ Abandoned' = OutboxFailed \cup BusFailed'
    <2>1. Abandoned' = OutboxFailed' \cup BusFailed'
      BY DEF Abandoned, OutboxFailed, BusFailed
    <2>2. QED
      BY <1>o, <2>1, AbandonedParts
  <1>d. Delivered = HandledEntries /\ Delivered' = HandledEntries'
    <2>1. skipped' \subseteq BusRows
      BY DEF PipelineInv, TypeOK, ECP!TypeOK
    <2>2. skipped' = {}
      BY <2>1 DEF PipelineInv, ECP!InHandInv
    <2>3. QED
      BY <2>2, DeliveredIsHandled DEF Delivered, HandledEntries
  <1>h. handled' = handled => HandledEntries' = HandledEntries
    BY DEF HandledEntries
  <1>s. ASSUME BusFailed' = BusFailed, HandledEntries' = HandledEntries
        PROVE  UNCHANGED ALO!vars
    BY <1>s, <1>o, <1>a, <1>d DEF ALO!vars
  <1>1. ASSUME NEW r \in BusRows, ECP!CleanupFailed(r) PROVE UNCHANGED ALO!vars
    <2> DEFINE row == [bus[r] EXCEPT !.status = "PURGED"]
    <2>1. bus' = [bus EXCEPT ![r] = row] /\ handled' = handled
      BY <1>1 DEF ECP!CleanupFailed, ECP!World, ECP!history
    <2>2. row.status = "PURGED"
      BY <1>t DEF ECP!Row
    <2> HIDE DEF row
    <2>3. BusBecomes(r, row)
      BY <1>t, <2>1, BusRow, Zenon
    <2>4. r[1] \in BusFailed
      BY <1>1, RowsOfEntries DEF BusFailed, ECP!CleanupFailed
    <2>5. BusFailed' = BusFailed
      BY <2>2, <2>3, <2>4 DEF BusBecomes
    <2>6. QED
      BY <1>h, <1>s, <2>1, <2>5
  <1>2. ASSUME NEW c \in Consumers, ECP!HandlerReturns(c)
        PROVE  UNCHANGED ALO!vars \/ ALO!Deliver(work[c].event[1])
    <2>1. /\ cPc[c] = "run" /\ bus' = bus
          /\ handled' = [handled EXCEPT ![work[c].event] = @ \cup {work[c].handler}]
      BY <1>2 DEF ECP!HandlerReturns, ECP!HandlerOver
    <2>2. BusFailed' = BusFailed
      BY <2>1 DEF BusFailed
    <2>3. work[c].event[1] \in published
      BY <2>1, WorkIsPublished
    <2>4. CASE HandledEntries' = HandledEntries
      BY <1>s, <2>2, <2>4
    <2>5. CASE HandledEntries' = HandledEntries \cup {work[c].event[1]}
      BY <1>o, <1>a, <1>d, <2>2, <2>3, <2>5 DEF ALO!Deliver
    <2>6. QED
      BY <1>t, <2>1, <2>4, <2>5, HandlerRow
  <1>3. CASE BusKept
    <2>1. BusFailed' = BusFailed
      BY <1>3, RowsOfEntries DEF BusKept, ECP!SameStage, BusFailed
    <2>2. QED
      BY <1>3, <1>h, <1>s, <2>1 DEF BusKept
  <1>4. ASSUME NEW c \in Consumers, cPc[c] \in {"ack", "skip"},
               ECP!Rewrites(c, ECP!DoneRow(bus[work[c].event]))
        PROVE  UNCHANGED ALO!vars \/ ALO!Revive(work[c].event[1])
    <2> DEFINE r == work[c].event
               row == ECP!DoneRow(bus[r])
    <2>1. cPc[c] = "ack"
      BY <1>4, NoneSkipped
    <2>2. r \in BusRows /\ r[1] \in Entries /\ bus[r] \in ECP!Row
      BY <1>t, <2>1, WorkIsPublished
    <2>3. bus' = [bus EXCEPT ![r] = row] /\ handled' = handled
      BY <1>4 DEF ECP!Rewrites
    <2>4. r[1] \in HandledEntries
      <3>1. handled[r] = 1 .. [q \in BusRows |-> Handlers[q[1]]][r]
        BY <2>1 DEF PipelineInv, ECP!HandledInv, ECP!SoFar
      <3>2. QED
        BY <2>2, <3>1, RowsOfEntries DEF HandledEntries
    <2>5. CASE ~ECP!Exists(bus[r])
      <3>1. bus' = bus
        BY <1>t, <2>2, <2>3, <2>5 DEF ECP!DoneRow
      <3>2. BusFailed' = BusFailed
        BY <3>1 DEF BusFailed
      <3>3. QED
        BY <1>h, <1>s, <2>3, <3>2
    <2>6. CASE ECP!Exists(bus[r])
      <3>1. row.status = "DONE"
        BY <2>2, <2>6, ECP!DoneRowType, ConsumerAssumptions
      <3> HIDE DEF r, row
      <3>2. BusBecomes(r, row)
        BY <1>t, <2>2, <2>3, BusRow, Zenon
      <3>3. BusFailed' = BusFailed \/ BusFailed' = BusFailed \ {r[1]}
        BY <3>1, <3>2 DEF BusBecomes
      <3>4. CASE r[1] \in OutboxFailed \/ BusFailed' = BusFailed
        <4>1. Abandoned' = Abandoned
          BY <1>a, <3>3, <3>4
        <4>2. QED
          BY <1>o, <1>d, <1>h, <2>3, <4>1 DEF ALO!vars
      <3>5. CASE r[1] \notin OutboxFailed /\ BusFailed' = BusFailed \ {r[1]}
        <4>1. Abandoned' = Abandoned \ {r[1]}
          BY <1>a, <3>5
        <4>2. ALO!Revive(r[1])
          BY <1>o, <1>d, <1>h, <2>3, <2>4, <4>1 DEF ALO!Revive
        <4>3. QED
          BY <4>2 DEF r
      <3>6. QED
        BY <3>3, <3>4, <3>5
    <2>7. QED
      BY <2>5, <2>6
  <1>5. ASSUME NEW c \in Consumers, cPc[c] = "markFailed",
               ECP!Rewrites(c, ECP!FailedRow(bus[work[c].event]))
        PROVE  UNCHANGED ALO!vars \/ ALO!Abandon(work[c].event[1])
    <2> DEFINE r == work[c].event
               row == ECP!FailedRow(bus[r])
    <2>1. /\ r \in BusRows /\ r[1] \in Entries /\ bus[r] \in ECP!Row
          /\ r[1] \in Recorded
      BY <1>t, <1>5, WorkIsPublished
    <2>2. bus' = [bus EXCEPT ![r] = row] /\ handled' = handled
      BY <1>5 DEF ECP!Rewrites
    <2>3. CASE ~ECP!Exists(bus[r])
      <3>1. bus' = bus
        BY <1>t, <2>1, <2>2, <2>3 DEF ECP!FailedRow
      <3>2. BusFailed' = BusFailed
        BY <3>1 DEF BusFailed
      <3>3. QED
        BY <1>h, <1>s, <2>2, <3>2
    <2>4. CASE ECP!Exists(bus[r])
      <3>1. row.status = IF bus[r].retries + 1 >= BusRetries THEN "FAILED" ELSE "PENDING"
        BY <2>1, <2>4, ECP!FailedRowType, ConsumerAssumptions
      <3>2. bus[r].status # "PURGED"
        BY <2>4 DEF ECP!Exists
      <3>3. bus[r].status = "FAILED" => bus[r].retries >= BusRetries
        BY <2>1 DEF PipelineInv, ECP!RetryInv, ECP!RetryBudget
      <3>4. bus[r].retries \in Nat /\ BusRetries \in Nat
        BY <2>1, LimitsAssumption DEF ECP!Row
      <3>5. row.status = "PENDING" => bus[r].status # "FAILED"
        BY <3>1, <3>3, <3>4
      <3>6. row.status \in {"PENDING", "FAILED"}
        BY <3>1
      <3> HIDE DEF r, row
      <3>7. BusBecomes(r, row)
        BY <1>t, <2>1, <2>2, BusRow, Zenon
      <3>8. CASE row.status = "FAILED"
        <4>1. Abandoned' = Abandoned \cup {r[1]}
          BY <1>a, <3>7, <3>8 DEF BusBecomes
        <4>2. ALO!Abandon(r[1])
          BY <1>o, <1>d, <1>h, <2>1, <2>2, <4>1 DEF ALO!Abandon
        <4>3. QED
          BY <4>2 DEF r
      <3>9. CASE row.status = "PENDING"
        <4>1. BusFailed' = BusFailed
          BY <3>2, <3>5, <3>7, <3>9 DEF BusBecomes
        <4>2. QED
          BY <1>h, <1>s, <2>2, <4>1
      <3>10. QED
        BY <3>6, <3>8, <3>9
    <2>5. QED
      BY <2>3, <2>4
  <1>6. \A c \in Consumers : cPc[c] \in {"run", "ack", "markFailed"} =>
                                work[c].event[1] \in Entries
    BY WorkIsPublished
  <1>7. \A c \in Consumers : ECP!HandlerReturns(c) => cPc[c] = "run"
    BY DEF ECP!HandlerReturns
  <1>8. \A c \in Consumers : cPc[c] # "skip"
    BY NoneSkipped
  <1>9. QED
    BY <1>t, <1>1, <1>2, <1>3, <1>4, <1>5, <1>6, <1>7, <1>8, BusSteps DEF ALO!Next

\* A publish is accepted by the bus.
LEMMA PublishKeepsPromise ==
    ASSUME PipelineInv, NEW f \in Forwarders, Publish(f)
    PROVE  ALO!Accept(fCur[f]) /\ fCur[f] \in Entries
  <1>1. PICK n \in 1 .. MaxRows : EC!Publish(<<fCur[f], n>>) /\ OF!PublishInserts(f)
    BY DEF Publish
  <1>2. fCur[f] \in fBatch[f] /\ fCur[f] \in Entries
    BY Types DEF PipelineInv, Publish
  <1>3. fCur[f] \in Recorded
    BY <1>2 DEF PipelineInv, OFP!RecordedInv, Recorded
  <1>4. outbox' = outbox /\ published' = published \cup {fCur[f]}
    BY <1>1 DEF OF!PublishInserts
  <1>5. handled' = handled /\ skipped' = skipped
    BY <1>1 DEF EC!Publish, EC!World, EC!history
  <1> DEFINE r == <<fCur[f], n>>
             row == [bus[r] EXCEPT !.status = "PENDING"]
  <1>6. bus' = [bus EXCEPT ![r] = row] /\ bus[r].status = "NONE"
    BY <1>1 DEF EC!Publish
  <1>7. r \in BusRows /\ row.status = "PENDING"
    BY <1>2, Types DEF PipelineInv, BusRows, ECP!Row
  <1> HIDE DEF r, row
  <1>8. BusBecomes(r, row)
    BY <1>6, <1>7, BusRow, Zenon DEF PipelineInv
  <1>9. BusFailed' = BusFailed
    BY <1>6, <1>7, <1>8 DEF BusBecomes
  <1>10. Abandoned' = Abandoned
    BY <1>4, <1>9 DEF Abandoned, BusFailed
  <1>11. QED
    BY <1>2, <1>3, <1>4, <1>5, <1>10 DEF ALO!Accept, Recorded, Acknowledged, Delivered

\* Outbox and bus together do what module AtLeastOnce promises: for any replicas, with
\* crashes, slow ticks and lost answers.
THEOREM PromiseKept == Spec => KeepsPromise
  <1>1. Init => ALO!Init
    <2> SUFFICES ASSUME Init PROVE ALO!Init
      OBVIOUS
    <2>1. /\ \A e \in Entries : outbox[e].status = "NONE"
          /\ published = {}
      BY InitSides DEF OFP!Init, OFP!EmptyRow
    <2>2. /\ \A r \in BusRows : bus[r].status = "NONE" /\ handled[r] = {}
          /\ skipped = {}
      BY InitSides DEF ECP!Init, ECP!EmptyRow
    <2>3. \A e \in Entries : 1 \in 1 .. Handlers[e]
      BY EntriesAssumption
    <2>4. Recorded = {} /\ Acknowledged = {}
      BY <2>1 DEF Recorded, Acknowledged
    <2>5. Delivered = {}
      <3>1. SUFFICES ASSUME NEW e \in Entries, NEW r \in RowsOf(e),
                            r \in skipped \/ handled[r] = 1 .. Handlers[e]
                     PROVE  FALSE
        BY DEF Delivered
      <3>2. handled[r] = {} /\ skipped = {}
        BY <2>2, RowsOfEntries
      <3>3. QED
        BY <2>3, <3>1, <3>2
    <2>6. Abandoned = {}
      BY <2>1, <2>2, RowsOfEntries DEF Abandoned
    <2>7. QED
      BY <2>1, <2>4, <2>5, <2>6 DEF ALO!Init
  <1>2. PipelineInv /\ PipelineInv' /\ [Next]_vars => [ALO!Next]_ALO!vars
    <2> SUFFICES ASSUME PipelineInv, PipelineInv', [Next]_vars
                 PROVE  [ALO!Next]_ALO!vars
      OBVIOUS
    <2>1. ASSUME NEW f \in Forwarders, Publish(f) PROVE ALO!Next
      BY <2>1, PublishKeepsPromise DEF ALO!Next
    <2>2. CASE UNCHANGED vars
      BY <2>2 DEF vars, outboxVars, busVars, ALO!vars, Recorded, Acknowledged, Delivered,
                  Abandoned
    <2>3. QED
      BY <2>1, <2>2, OutboxKeepsPromise, BusKeepsPromise, Sides
  <1>3. QED
    BY <1>1, <1>2, PipelineInvariant, PTL DEF Spec, KeepsPromise, ALO!Spec

\* What the promise comes to, in every state: only what was published is acknowledged or
\* handled, and only what its transaction recorded is published or given up.
THEOREM NothingFromNowhere ==
    Spec => [](/\ Acknowledged \cup Delivered \subseteq published
               /\ published \cup Abandoned \subseteq Recorded)
  <1> DEFINE Inv == /\ Acknowledged \cup Delivered \subseteq published
                    /\ published \cup Abandoned \subseteq Recorded
  <1>1. ALO!Init => Inv
    BY DEF ALO!Init
  <1>2. Inv /\ [ALO!Next]_ALO!vars => Inv'
    BY DEF ALO!Next, ALO!vars, ALO!Record, ALO!Accept, ALO!Acknowledge, ALO!Deliver,
           ALO!Abandon, ALO!Reopen, ALO!Revive
  <1>3. QED
    BY <1>1, <1>2, PromiseKept, PTL DEF KeepsPromise, ALO!Spec
=============================================================================
