------------------------------ MODULE Pipeline ------------------------------
(***************************************************************************)
(* OutboxForwarder and EventConsumer put together: publish() of a          *)
(* forwarder inserts the row that the consumers claim, and markDone()      *)
(* deletes the row that ON CONFLICT (origin_event_id) would find.          *)
(*                                                                         *)
(* A bus row is <<e, n>>, the n-th row that entry e got.  The forwarders   *)
(* see OnBus, the entries with a row; the deletions of the consumers are   *)
(* what module OutboxForwarder calls BusConsumes.                          *)
(***************************************************************************)
EXTENDS Integers, FiniteSets

CONSTANTS
    Forwarders, Consumers, Entries,
    CreatedAt,      \* of the entries
    Handlers,       \* entry -> number of its handlers
    OutboxRetries, BusRetries, MaxAttempts, BatchSize,
    FaultSets,      \* of the deployment, as in the two modules
    MaxStops,       \* bound: crashes and dispose() calls of all replicas
    MaxRows,        \* bound: bus rows of one entry
    None

ASSUME ReplicasAssumption == IsFiniteSet(Forwarders) /\ IsFiniteSet(Consumers)
ASSUME EntriesAssumption ==
    /\ IsFiniteSet(Entries) /\ None \notin Entries
    /\ CreatedAt \in [Entries -> Nat] /\ Handlers \in [Entries -> Nat \ {0}]
ASSUME LimitsAssumption ==
    /\ {OutboxRetries, BusRetries, MaxAttempts, BatchSize, MaxRows} \subseteq Nat \ {0}
    /\ MaxStops \in Nat
ASSUME FaultsAssumption == FaultSets \subseteq SUBSET {"slowTick", "lostAck"}

VARIABLES
    outbox, published, fLife, fPc, fBatch, fCur, fStops,
    bus, cLife, cPc, snap, cBatch, work, handled, skipped, cStops,
    faults

outboxVars == <<outbox, published, fLife, fPc, fBatch, fCur, fStops>>
busVars == <<bus, cLife, cPc, snap, cBatch, work, handled, skipped, cStops>>
vars == <<outboxVars, busVars, faults>>

BusRows == Entries \X (1 .. MaxRows)
RowsOf(e) == {<<e, n>> : n \in 1 .. MaxRows}
NoRow == <<None, 0>>

EC == INSTANCE EventConsumer WITH
        Events <- BusRows, NoEvent <- NoRow,
        AggOf <- [r \in BusRows |-> r[1]], NoAgg <- None,
        CreatedAt <- [r \in BusRows |-> CreatedAt[r[1]]],
        Topics <- [c \in Consumers |-> BusRows], Own <- [c \in Consumers |-> {}],
        Handlers <- [r \in BusRows |-> Handlers[r[1]]], Invalid <- {},
        MaxRetries <- BusRetries,
        life <- cLife, pc <- cPc, batch <- cBatch, stops <- cStops

OnBus == {e \in Entries : \E r \in RowsOf(e) : EC!Exists(bus[r])}

OF == INSTANCE OutboxForwarder WITH
        bus <- OnBus, MaxRetries <- OutboxRetries, NoEntry <- None,
        life <- fLife, pc <- fPc, batch <- fBatch, cur <- fCur, stops <- fStops

Init == EC!Init /\ OF!Init

-----------------------------------------------------------------------------
\* A step of the outbox side that does not touch the bus.
Outbox(A) == UNCHANGED busVars /\ A

\* A step of the bus side.
Bus(A) == UNCHANGED outboxVars /\ A

\* Mutation: the insert has no ON CONFLICT clause.
MutPublish(f) ==
    \E n \in 1 .. MaxRows :
        /\ fPc[f] = "publish"
        /\ \A m \in 1 .. n - 1 : bus[<<fCur[f], m>>].status # "NONE"
        /\ EC!Publish(<<fCur[f], n>>)
        /\ published' = published \cup {fCur[f]}
        /\ fPc' = [fPc EXCEPT ![f] = "markSent"]
        /\ UNCHANGED <<outbox, fLife, fBatch, fCur, fStops>>

\* publish(): the next row of the entry, at the moment it is inserted.
Publish(f) ==
    \E n \in 1 .. MaxRows :
        /\ fPc[f] = "publish"
        /\ \A m \in 1 .. n - 1 : bus[<<fCur[f], m>>].status # "NONE"
        /\ EC!Publish(<<fCur[f], n>>)
        /\ OF!PublishInserts(f)

Forward(f) == Publish(f) \/ Outbox(OF!Tick(f))

MayStop == fStops + cStops < MaxStops

Next ==
    \/ \E e \in Entries : Outbox(OF!Insert(e) \/ OF!Cleanup(e) \/ OF!ClaimExpires(e))
    \/ \E r \in BusRows : Bus(EC!CleanupFailed(r) \/ EC!ClaimExpires(r))
    \/ \E f \in Forwarders :
        \/ Forward(f) \/ Outbox(OF!Start(f))
        \/ MayStop /\ Outbox(OF!Dispose(f) \/ OF!Crash(f))
    \/ \E c \in Consumers :
        \/ Bus(EC!Tick(c) \/ EC!Start(c))
        \/ MayStop /\ Bus(EC!Dispose(c) \/ EC!Crash(c))

Spec == Init /\ [][Next]_vars

\* As in the two modules.
Fairness ==
    /\ \A f \in Forwarders :
        /\ WF_vars(Forward(f) \/ Outbox(OF!Start(f)))
        /\ SF_vars(Outbox(OF!SweepOk(f) /\ outbox' # outbox))
        /\ SF_vars(Outbox(OF!ClaimOk(f) /\ outbox' # outbox))
        /\ SF_vars(Outbox(OF!MarkFailedOk(f)))
    /\ WF_vars(\E e \in Entries : Outbox(OF!ClaimExpires(e)))
    /\ \A c \in Consumers :
        /\ WF_vars(Bus(EC!Tick(c) \/ EC!Start(c)))
        /\ SF_vars(Bus(EC!SweepOk(c) /\ bus' # bus))
        /\ SF_vars(Bus(EC!ClaimOk(c) /\ bus' # bus))
        /\ SF_vars(Bus(EC!MarkDoneOk(c) \/ EC!MarkFailedOk(c)))
    /\ WF_vars(\E r \in BusRows : Bus(EC!ClaimExpires(r)))

FairSpec == Spec /\ Fairness

-----------------------------------------------------------------------------
(* Properties.                                                              *)

Recorded == {e \in Entries : outbox[e].status # "NONE"}
Acknowledged == {e \in Entries : outbox[e].status \in {"SENT", "DELETED"}}
Delivered == {e \in Entries : \E r \in RowsOf(e) :
                r \in skipped \/ handled[r] = 1 .. Handlers[e]}
Abandoned == {e \in Entries :
    \/ outbox[e].status = "FAILED"
    \/ \E r \in RowsOf(e) : bus[r].status \in {"FAILED", "PURGED"}}

ALO == INSTANCE AtLeastOnce WITH
        recorded <- Recorded, accepted <- published, acknowledged <- Acknowledged,
        delivered <- Delivered, abandoned <- Abandoned

\* At every step of a tick or a handler, whatever crashes, is slow or has its answer lost,
\* outbox and bus together do what the package promises: an entry is published only after
\* its transaction committed, acknowledged and handled only after it was published.
KeepsPromise == ALO!Spec

\* Somebody is left who forwards, and somebody who consumes.
Alive ==
    /\ \E f \in Forwarders : fLife[f] # "crashed"
    /\ \E c \in Consumers : cLife[c] # "crashed"

\* Every recorded entry is handled by all its handlers or is FAILED in one of the tables
\* in the end, however ticks of the forwarder and the consumer are cut short.
PromiseSettles == []Alive => ALO!Settles

\* The events table with its consumers, which delete rows behind the back of publish(),
\* is no more to the forwarders than the abstract bus of module OutboxForwarder: what is
\* checked there about the outbox holds with the real bus.
ForwardersSeeBus == OF!Spec

\* messaging/README.md 357-361: when a forwarder crashes after publish(), "the next tick
\* republishes from the same outbox row, the bus sees the same originEventId, and no second
\* row is created.  Consumers never see the duplicate."
NoSecondRow ==
    \A e \in Entries : Cardinality({r \in RowsOf(e) : bus[r].status # "NONE"}) <= 1
=============================================================================
