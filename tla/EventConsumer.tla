--------------------------- MODULE EventConsumer ---------------------------
(***************************************************************************)
(* The event bus table (PgEventBus) and the replicas of EventConsumer that *)
(* claim its rows, run the registered handlers and acknowledge.            *)
(*                                                                         *)
(* Statements and handler calls of different replicas interleave.  All     *)
(* statements are atomic except the claim, which has two steps: it takes   *)
(* its READ COMMITTED snapshot (ClaimBegins) and then locks, updates and   *)
(* commits (ClaimOk).  Another claim may commit in between, and the NOT    *)
(* EXISTS guard of the first one does not see it.  The advisory locks are  *)
(* held only inside ClaimOk: what they exclude is two claims locking rows  *)
(* of one aggregate at the same time, which two steps ClaimOk never do;    *)
(* what they cause is that a claim skips aggregates another one has locked.*)
(*                                                                         *)
(* A consumer stands for one instanceId: a crashed one stays down.         *)
(* claim() filters by the registered topics, so the consumer's branch for  *)
(* an event of an unregistered type is not reachable with this bus.        *)
(***************************************************************************)
EXTENDS Integers, FiniteSets

CONSTANTS
    Consumers,      \* instance ids of the consumer replicas
    Events,         \* bus row ids a publisher may insert
    NoEvent,        \* no event is being handled
    AggOf,          \* aggregate_id of each event, or NoAgg for NULL
    NoAgg,
    CreatedAt,      \* created_at of each event
    Topics,         \* consumer -> events of the types it registered
    Own,            \* consumer -> events it skips: own service, own kind
    Handlers,       \* event -> number of handlers registered for its type
    Invalid,        \* events whose payload "badPayload" makes the schemas reject
    BatchSize,      \* EventConsumerOptions.batchSize
    MaxRetries,     \* PgEventBusOptions.maxRetries
    MaxAttempts,    \* retryDelaysMs.length + 1
    FaultSets,      \* which faults a deployment may be exposed to
    MaxStops        \* bound: crashes and dispose() calls of a behaviour

ASSUME ConsumersAssumption == IsFiniteSet(Consumers)
ASSUME EventsAssumption ==
    /\ IsFiniteSet(Events)
    /\ NoEvent \notin Events
    /\ Invalid \subseteq Events
    /\ CreatedAt \in [Events -> Nat]
    /\ Handlers \in [Events -> Nat \ {0}]
ASSUME TopicsAssumption ==
    Topics \in [Consumers -> SUBSET Events] /\ Own \in [Consumers -> SUBSET Events]
ASSUME LimitsAssumption ==
    {BatchSize, MaxRetries, MaxAttempts} \subseteq Nat \ {0} /\ MaxStops \in Nat
ASSUME FaultsAssumption ==
    FaultSets \subseteq
        SUBSET {"slowTick", "lostAck", "overlap", "badPayload", "lateEvent"}

VARIABLES
    bus,        \* the events table: event -> row
    life,       \* consumer -> new, started, disposed or crashed
    pc,         \* consumer -> where its in-flight tick is; "none": no tick
    snap,       \* consumer -> what its claim statement sees
    batch,      \* consumer -> claimed events its tick has not finished with
    work,       \* consumer -> event, handler and attempt it is at
    handled,    \* history: event -> handlers that have returned for it
    skipped,    \* history: events deleted by their own service unhandled
    stops,      \* crashes and dispose() calls so far
    faults      \* the faults of this deployment, the same for ever:
                \* "slowTick": a tick may outlive staleClaimAfterMs;
                \* "lostAck": a statement may take effect and report an error;
                \* "overlap": claims of two replicas may be in flight at once;
                \* "badPayload": the payloads of Invalid match no schema;
                \* "lateEvent": events of an aggregate may be published out of
                \* the order of created_at, which the publisher gives

history == <<handled, skipped>>
envVars == <<stops, faults>>
vars == <<bus, life, pc, snap, batch, work, history, envVars>>

-----------------------------------------------------------------------------
(* The table.  "NONE": not published yet.  "DONE": deleted by markDone.     *)
(* "PURGED": deleted by cleanupFailed.  `expired`: claimed_at lies more     *)
(* than staleClaimAfterMs back.                                             *)

Statuses == {"NONE", "PENDING", "CLAIMED", "FAILED", "DONE", "PURGED"}
Row == [status : Statuses, claimedBy : Consumers \cup {NoEvent},
        expired : BOOLEAN, retries : Nat]

EmptyRow == [status |-> "NONE", claimedBy |-> NoEvent,
             expired |-> FALSE, retries |-> 0]

Unclaimed(row, status) ==
    [row EXCEPT !.status = status, !.claimedBy = NoEvent, !.expired = FALSE]

Finished == {"DONE", "FAILED", "PURGED"}

Exists(row) == row.status \notin {"NONE", "DONE", "PURGED"}

\* DELETE and UPDATE ... WHERE id: no statement looks at status or owner.
DoneRow(row) == IF Exists(row) THEN Unclaimed(row, "DONE") ELSE row

\* Mutation: the failure is not counted.
MutUncountedRow(row) == IF Exists(row) THEN Unclaimed(row, "PENDING") ELSE row

FailedRow(row) ==
    IF Exists(row)
    THEN [Unclaimed(row, IF row.retries + 1 >= MaxRetries
                         THEN "FAILED" ELSE "PENDING")
            EXCEPT !.retries = @ + 1]
    ELSE row

\* Mutation: the sweep forgets the cutoff.
MutIsStale(row) == row.status = "CLAIMED"

IsStale(row) == row.status = "CLAIMED" /\ row.expired

SweptTable ==
    [e \in Events |-> IF IsStale(bus[e])
                      THEN Unclaimed(bus[e], "PENDING") ELSE bus[e]]

ClaimedTable(c, S) ==
    [e \in Events |->
        IF e \in S
        THEN [bus[e] EXCEPT !.status = "CLAIMED", !.claimedBy = c,
                            !.expired = FALSE]
        ELSE bus[e]]

Aggregates(S) == {AggOf[e] : e \in S} \ {NoAgg}

\* Mutation: the guard looks only at rows of the consumer's own topics.
MutSnapshot(c) ==
    [pending |-> {e \in Topics[c] : bus[e].status = "PENDING"},
     busy    |-> Aggregates({e \in Topics[c] : bus[e].status = "CLAIMED"})]

\* Mutation: the guard looks only at rows with retries behind them.
MutRetriedSnapshot(c) ==
    [pending |-> {e \in Topics[c] : bus[e].status = "PENDING"},
     busy    |-> Aggregates({e \in Events :
                    bus[e].status = "CLAIMED" /\ bus[e].retries > 0})]

\* The snapshot of a claim: the PENDING rows of the registered topics, and
\* the aggregates with a CLAIMED row, which NOT EXISTS rules out.
Snapshot(c) ==
    [pending |-> {e \in Topics[c] : bus[e].status = "PENDING"},
     busy    |-> Aggregates({e \in Events : bus[e].status = "CLAIMED"})]

SnapshotType == [pending : SUBSET Events, busy : SUBSET Aggregates(Events)]

NoSnapshot == [pending |-> {}, busy |-> {}]

\* Aggregates that another claim in flight may have locked.
LockedByOthers(c) ==
    UNION {Aggregates(snap[d].pending) : d \in Consumers \ {c}}

\* Mutation: a row is not looked at again when it is locked.
MutClaimable(c, locked) ==
    {e \in snap[c].pending : AggOf[e] \notin snap[c].busy \cup locked}

\* A row of the snapshot is claimed only if it is PENDING still when it is
\* locked, is not of a busy aggregate, and its advisory lock was obtained.
Claimable(c, locked) ==
    {e \in snap[c].pending :
        /\ bus[e].status = "PENDING"
        /\ AggOf[e] \notin snap[c].busy \cup locked}

\* ORDER BY created_at LIMIT batchSize.
OldestOf(S, from) ==
    /\ Cardinality(S) <= BatchSize
    /\ Cardinality(S) < BatchSize => S = from
    /\ \A e \in S, d \in from \ S : CreatedAt[e] <= CreatedAt[d]

ClaimResult(c, S) ==
    \E locked \in SUBSET LockedByOthers(c) :
        /\ S \subseteq Claimable(c, locked)
        /\ OldestOf(S, Claimable(c, locked))

-----------------------------------------------------------------------------
Work == [event : Events \cup {NoEvent}, handler : Nat, attempt : Nat,
         failed : BOOLEAN]

NoWork == [event |-> NoEvent, handler |-> 0, attempt |-> 0, failed |-> FALSE]

FirstHandler(e) == [event |-> e, handler |-> 1, attempt |-> 1, failed |-> FALSE]

Init ==
    /\ bus = [e \in Events |-> EmptyRow]
    /\ life = [c \in Consumers |-> "new"]
    /\ pc = [c \in Consumers |-> "none"]
    /\ snap = [c \in Consumers |-> NoSnapshot]
    /\ batch = [c \in Consumers |-> {}]
    /\ work = [c \in Consumers |-> NoWork]
    /\ handled = [e \in Events |-> {}]
    /\ skipped = {}
    /\ stops = 0
    /\ faults \in FaultSets

(* The rest of the world: publishers, operators and time.                   *)

World == <<life, pc, snap, batch, work, history, envVars>>

\* d is an event of the aggregate of e, created before it.
Precedes(d, e) ==
    AggOf[d] = AggOf[e] /\ AggOf[e] # NoAgg /\ CreatedAt[d] < CreatedAt[e]

Publish(e) ==
    /\ bus[e].status = "NONE"
    /\ \/ "lateEvent" \in faults
       \/ \A d \in Events : Precedes(d, e) => bus[d].status # "NONE"
    /\ bus' = [bus EXCEPT ![e].status = "PENDING"]
    /\ UNCHANGED World

CleanupFailed(e) ==
    /\ bus[e].status = "FAILED"
    /\ bus' = [bus EXCEPT ![e].status = "PURGED"]
    /\ UNCHANGED World

InHand(e) == \E c \in Consumers : e \in batch[c]

ClaimExpires(e) ==
    /\ bus[e].status = "CLAIMED"
    /\ ~bus[e].expired
    /\ "slowTick" \in faults \/ ~InHand(e)
    /\ bus' = [bus EXCEPT ![e].expired = TRUE]
    /\ UNCHANGED World

Start(c) ==
    /\ life[c] \in {"new", "disposed"}
    /\ life' = [life EXCEPT ![c] = "started"]
    /\ UNCHANGED <<bus, pc, snap, batch, work, history, envVars>>

Dispose(c) ==
    /\ stops < MaxStops
    /\ life[c] = "started"
    /\ life' = [life EXCEPT ![c] = "disposed"]
    /\ stops' = stops + 1
    /\ UNCHANGED <<bus, pc, snap, batch, work, history, faults>>

Crash(c) ==
    /\ stops < MaxStops
    /\ life[c] # "crashed"
    /\ life' = [life EXCEPT ![c] = "crashed"]
    /\ pc' = [pc EXCEPT ![c] = "none"]
    /\ snap' = [snap EXCEPT ![c] = NoSnapshot]
    /\ batch' = [batch EXCEPT ![c] = {}]
    /\ work' = [work EXCEPT ![c] = NoWork]
    /\ stops' = stops + 1
    /\ UNCHANGED <<bus, history, faults>>

-----------------------------------------------------------------------------
(* One tick.                                                                *)

Goto(c, label) ==
    /\ pc' = [pc EXCEPT ![c] = label]
    /\ UNCHANGED <<life, snap, batch, work, envVars>>

\* Mutation: the current event survives the tick.
MutEndTick(c) ==
    /\ pc' = [pc EXCEPT ![c] = "none"]
    /\ snap' = [snap EXCEPT ![c] = NoSnapshot]
    /\ batch' = [batch EXCEPT ![c] = {}]
    /\ UNCHANGED <<life, work, envVars>>

EndTick(c) ==
    /\ pc' = [pc EXCEPT ![c] = "none"]
    /\ snap' = [snap EXCEPT ![c] = NoSnapshot]
    /\ batch' = [batch EXCEPT ![c] = {}]
    /\ work' = [work EXCEPT ![c] = NoWork]
    /\ UNCHANGED <<life, envVars>>

EventDone(c) ==
    /\ pc' = [pc EXCEPT ![c] = "next"]
    /\ batch' = [batch EXCEPT ![c] = @ \ {work[c].event}]
    /\ work' = [work EXCEPT ![c] = NoWork]
    /\ UNCHANGED <<life, snap, envVars>>

TimerFires(c) ==
    /\ life[c] = "started"
    /\ pc[c] = "none"
    /\ Goto(c, "sweep")
    /\ UNCHANGED <<bus, history>>

\* sweepStale() swallows errors; without topics the tick ends after it.
AfterSweep(c) == IF Topics[c] = {} THEN "none" ELSE "claim"

SweepOk(c) ==
    /\ pc[c] = "sweep"
    /\ bus' = SweptTable
    /\ Goto(c, AfterSweep(c))
    /\ UNCHANGED history

SweepFails(c) ==
    /\ pc[c] = "sweep"
    /\ Goto(c, AfterSweep(c))
    /\ UNCHANGED <<bus, history>>

ClaimBegins(c) ==
    /\ pc[c] = "claim"
    /\ "overlap" \in faults \/ \A d \in Consumers : pc[d] # "claiming"
    /\ snap' = [snap EXCEPT ![c] = Snapshot(c)]
    /\ pc' = [pc EXCEPT ![c] = "claiming"]
    /\ UNCHANGED <<bus, life, batch, work, history, envVars>>

ClaimOk(c) ==
    /\ pc[c] = "claiming"
    /\ \E S \in SUBSET snap[c].pending :
        /\ ClaimResult(c, S)
        /\ bus' = ClaimedTable(c, S)
        /\ batch' = [batch EXCEPT ![c] = S]
    /\ snap' = [snap EXCEPT ![c] = NoSnapshot]
    /\ pc' = [pc EXCEPT ![c] = "next"]
    /\ UNCHANGED <<life, work, history, envVars>>

\* A failed claim ends the tick; if only its answer was lost, its rows are
\* CLAIMED with nobody working on them.
ClaimFails(c) ==
    /\ pc[c] = "claiming"
    /\ \/ bus' = bus
       \/ /\ "lostAck" \in faults
          /\ \E S \in SUBSET snap[c].pending :
                ClaimResult(c, S) /\ bus' = ClaimedTable(c, S)
    /\ EndTick(c)
    /\ UNCHANGED history

\* The loop head: break when stopping, leaving the rest of the batch CLAIMED;
\* otherwise the next event -- RETURNING promises no order -- is acknowledged
\* as an own one or handed to its first handler, with no await in between.
LoopHead(c) ==
    /\ pc[c] = "next"
    /\ IF life[c] = "disposed" \/ batch[c] = {}
       THEN EndTick(c)
       ELSE /\ \E e \in batch[c] :
                /\ work' = [work EXCEPT ![c] = FirstHandler(e)]
                /\ pc' = [pc EXCEPT ![c] = IF e \in Own[c] THEN "skip" ELSE "run"]
            /\ UNCHANGED <<life, snap, batch, envVars>>
    /\ UNCHANGED <<bus, history>>

\* Mutation: the last handler alone decides.
MutHandlerOver(c, failure) ==
    LET w == work[c]
    IN  /\ IF w.handler < Handlers[w.event]
           THEN /\ work' = [work EXCEPT ![c] =
                                [w EXCEPT !.handler = @ + 1, !.attempt = 1,
                                          !.failed = failure]]
                /\ pc' = [pc EXCEPT ![c] = "attempt"]
           ELSE /\ work' = [work EXCEPT ![c] = [w EXCEPT !.failed = failure]]
                /\ pc' = [pc EXCEPT ![c] = IF failure THEN "markFailed" ELSE "ack"]
        /\ UNCHANGED <<bus, life, snap, batch, skipped, envVars>>

\* executeWithRetry is over for this handler: the next one runs even after a
\* failure; after the last one the event is acknowledged or marked failed.
HandlerOver(c, failure) ==
    LET w == work[c]
        f == w.failed \/ failure
    IN  /\ IF w.handler < Handlers[w.event]
           THEN /\ work' = [work EXCEPT ![c] =
                                [w EXCEPT !.handler = @ + 1, !.attempt = 1,
                                          !.failed = f]]
                /\ pc' = [pc EXCEPT ![c] = "attempt"]
           ELSE /\ work' = [work EXCEPT ![c] = [w EXCEPT !.failed = f]]
                /\ pc' = [pc EXCEPT ![c] = IF f THEN "markFailed" ELSE "ack"]
        /\ UNCHANGED <<bus, life, snap, batch, skipped, envVars>>

\* Before each further attempt, executeWithRetry looks at `stopping`: a
\* shutdown counts as a failure of a handler that may not have been called.
Attempt(c) ==
    /\ pc[c] = "attempt"
    /\ IF life[c] = "disposed"
       THEN HandlerOver(c, TRUE) /\ UNCHANGED handled
       ELSE Goto(c, "run") /\ UNCHANGED <<bus, history>>

Rejected(e) == e \in Invalid /\ "badPayload" \in faults

HandlerReturns(c) ==
    /\ pc[c] = "run"
    /\ ~Rejected(work[c].event)
    /\ handled' = [handled EXCEPT ![work[c].event] = @ \cup {work[c].handler}]
    /\ HandlerOver(c, FALSE)

\* The handler throws, or its schema rejects the payload; it is tried again
\* after a delay unless the payload is invalid or the attempts are used up.
HandlerThrows(c) ==
    /\ pc[c] = "run"
    /\ IF Rejected(work[c].event) \/ work[c].attempt >= MaxAttempts
       THEN HandlerOver(c, TRUE)
       ELSE /\ work' = [work EXCEPT ![c].attempt = @ + 1]
            /\ pc' = [pc EXCEPT ![c] = "attempt"]
            /\ UNCHANGED <<bus, life, snap, batch, skipped, envVars>>
    /\ UNCHANGED handled

\* markDone, after the handlers or for an event of the own service.
MarkDoneOk(c) ==
    /\ pc[c] \in {"ack", "skip"}
    /\ bus' = [bus EXCEPT ![work[c].event] = DoneRow(@)]
    /\ skipped' = IF pc[c] = "skip" THEN skipped \cup {work[c].event} ELSE skipped
    /\ EventDone(c)
    /\ UNCHANGED handled

\* markDone fails, or onProcessed throws before it: the tick is over.
MarkDoneFails(c) ==
    /\ pc[c] \in {"ack", "skip"}
    /\ \/ UNCHANGED <<bus, skipped>>
       \/ /\ "lostAck" \in faults
          /\ bus' = [bus EXCEPT ![work[c].event] = DoneRow(@)]
          /\ skipped' = IF pc[c] = "skip" THEN skipped \cup {work[c].event}
                                          ELSE skipped
    /\ EndTick(c)
    /\ UNCHANGED handled

MarkFailedOk(c) ==
    /\ pc[c] = "markFailed"
    /\ bus' = [bus EXCEPT ![work[c].event] = FailedRow(@)]
    /\ EventDone(c)
    /\ UNCHANGED history

MarkFailedFails(c) ==
    /\ pc[c] = "markFailed"
    /\ \/ bus' = bus
       \/ "lostAck" \in faults /\ bus' = [bus EXCEPT ![work[c].event] = FailedRow(@)]
    /\ EndTick(c)
    /\ UNCHANGED history

Tick(c) ==
    \/ TimerFires(c)
    \/ SweepOk(c) \/ SweepFails(c)
    \/ ClaimBegins(c) \/ ClaimOk(c) \/ ClaimFails(c)
    \/ LoopHead(c) \/ Attempt(c)
    \/ HandlerReturns(c) \/ HandlerThrows(c)
    \/ MarkDoneOk(c) \/ MarkDoneFails(c)
    \/ MarkFailedOk(c) \/ MarkFailedFails(c)

Next ==
    \/ \E e \in Events : Publish(e) \/ CleanupFailed(e) \/ ClaimExpires(e)
    \/ \E c \in Consumers : Start(c) \/ Dispose(c) \/ Crash(c) \/ Tick(c)

Spec == Init /\ [][Next]_vars

(* Fairness: timers fire, handlers and statements come to an end, disposed   *)
(* replicas are started again, time passes, and an outage of the database is *)
(* not for ever: a sweep or claim that is issued again and again with rows   *)
(* to work on succeeds some time, and so does an acknowledgement.            *)
Fairness ==
    /\ \A c \in Consumers :
        /\ WF_vars(Tick(c) \/ Start(c))
        /\ SF_vars(SweepOk(c) /\ bus' # bus)
        /\ SF_vars(ClaimOk(c) /\ bus' # bus)
        /\ SF_vars(MarkDoneOk(c) \/ MarkFailedOk(c))
    /\ WF_vars(\E e \in Events : ClaimExpires(e))

FairSpec == Spec /\ Fairness

-----------------------------------------------------------------------------
(* Properties.                                                              *)

Labels == {"none", "sweep", "claim", "claiming", "next", "skip", "attempt",
           "run", "ack", "markFailed"}

\* Type invariant: the table and the replicas have their types, and a tick
\* that is past the loop head works on an event of its batch.
TypeOK ==
    /\ bus \in [Events -> Row]
    /\ life \in [Consumers -> {"new", "started", "disposed", "crashed"}]
    /\ pc \in [Consumers -> Labels]
    /\ snap \in [Consumers -> SnapshotType]
    /\ batch \in [Consumers -> SUBSET Events]
    /\ work \in [Consumers -> Work]
    /\ handled \in [Events -> SUBSET Nat]
    /\ skipped \subseteq Events
    /\ stops \in Nat
    /\ faults \in FaultSets
    /\ \A c \in Consumers :
        IF pc[c] \in {"skip", "attempt", "run", "ack", "markFailed"}
        THEN /\ work[c].event \in batch[c]
             /\ work[c].handler \in 1 .. Handlers[work[c].event]
             /\ work[c].attempt \in 1 .. MaxAttempts
        ELSE work[c] = NoWork
    /\ \A e \in Events : handled[e] \subseteq 1 .. Handlers[e]

\* At least once: an event is deleted only after every handler registered for
\* it has returned, or as an own event -- whatever crashes, slow ticks, lost
\* answers and overlapping claims there were.
DeletedWasHandled ==
    \A e \in Events :
        bus[e].status = "DONE" => e \in skipped \/ handled[e] = 1 .. Handlers[e]

\* A row is FAILED exactly when its retries are used up, even if a replica
\* that lost its claim marks it again.
RetryBudget ==
    \A e \in Events :
        /\ bus[e].status \in {"PENDING", "CLAIMED"} => bus[e].retries < MaxRetries
        /\ bus[e].status = "FAILED" => bus[e].retries >= MaxRetries

\* "each event is claimed and handled by exactly one consumer-replica"
\* (README 20-21): no two replicas have an event in hand at once, however
\* their claims overlap -- as long as no tick outlives staleClaimAfterMs.
OneReplicaPerEvent ==
    "slowTick" \notin faults =>
        \A c, d \in Consumers : c # d => batch[c] \cap batch[d] = {}

\* The events of one aggregate are in the hands of one replica at most, even
\* if different services own their topics (README 39-42) -- as long as ticks
\* are not slow and claims do not overlap.
OneReplicaPerAggregate ==
    faults \cap {"slowTick", "overlap"} = {} =>
        \A c, d \in Consumers :
            c # d => Aggregates(batch[c]) \cap Aggregates(batch[d]) = {}

\* The same without the condition on claims: "Advisory xact lock closes the
\* race between NOT EXISTS and UPDATE" (pg-event-bus.ts 95-97).
LockClosesRace ==
    \A c, d \in Consumers :
        c # d => Aggregates(batch[c]) \cap Aggregates(batch[d]) = {}

\* An event is in the hands of the replica that owns its row: no step of
\* another replica or its sweep takes the row of a tick that is not slow away.
HolderEndsClaim ==
    \A c \in Consumers : \A e \in batch[c] :
        "slowTick" \notin faults /\ bus[e].status = "CLAIMED"
          /\ bus'[e].status # "CLAIMED" => pc'[c] # pc[c]

\* Every step keeps to HolderEndsClaim.
OnlyHolderEndsClaim == [][HolderEndsClaim]_vars

\* "in order within a batch" (messaging/README.md 265-268), as far as claims can keep it:
\* nobody has an event in hand while an older one of its aggregate and his topics has never
\* been tried and is neither in his hands nor finished with -- if the events are published
\* in order, ticks are not slow and claims do not overlap.
OlderFirst ==
    faults \cap {"lateEvent", "slowTick", "overlap"} = {} =>
        \A c \in Consumers : \A e \in batch[c], d \in Topics[c] :
            Precedes(d, e) /\ bus[d].retries = 0
                => d \in batch[c] \/ bus[d].status \in Finished

\* Every published event is, in the end, handled and deleted or FAILED.
EveryEventSettles ==
    \A e \in Events :
        bus[e].status # "NONE" ~> bus[e].status \in Finished
=============================================================================
