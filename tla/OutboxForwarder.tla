-------------------------- MODULE OutboxForwarder --------------------------
(***************************************************************************)
(* The transactional outbox table (PgLocalOutbox) and the replicas of      *)
(* OutboxForwarder that drain it onto the event bus.                       *)
(*                                                                         *)
(* Every SQL statement of the reader is one step: statements of different  *)
(* replicas interleave, and what a replica does after an `await` uses what *)
(* it read before it.  A statement may succeed, fail without effect, or    *)
(* ("lostAck") take effect and still be reported as failed, which is what a *)
(* connection lost after COMMIT looks like to the caller.                  *)
(*                                                                         *)
(* The bus is external here: `bus` is the set of entries that have a row   *)
(* on it under their origin_event_id, and its consumers delete rows at any *)
(* time (BusConsumes).  Module Pipeline replaces it by the real bus.       *)
(*                                                                         *)
(* A forwarder stands for one instanceId, that is, one process: a crashed  *)
(* one stays down and its replacement is another member of Forwarders.     *)
(***************************************************************************)
EXTENDS Integers, FiniteSets

CONSTANTS
    Forwarders,     \* instance ids of the forwarder replicas
    Entries,        \* ids of the outbox rows an application may insert
    CreatedAt,      \* created_at of each entry: set by the application
    BatchSize,      \* OutboxForwarderOptions.batchSize
    MaxRetries,     \* PgLocalOutboxOptions.maxRetries
    FaultSets,      \* which faults a deployment may be exposed to
    MaxStops,       \* bound: crashes and dispose() calls of a behaviour
    NoEntry         \* no entry is being forwarded

ASSUME ForwardersAssumption == IsFiniteSet(Forwarders)
ASSUME EntriesAssumption == IsFiniteSet(Entries) /\ NoEntry \notin Entries
ASSUME CreatedAtAssumption == CreatedAt \in [Entries -> Nat]
ASSUME BatchSizeAssumption == BatchSize \in Nat \ {0}
ASSUME MaxRetriesAssumption == MaxRetries \in Nat \ {0}
ASSUME FaultsAssumption ==
    FaultSets \subseteq SUBSET {"slowTick", "lostAck"} /\ MaxStops \in Nat

VARIABLES
    outbox,     \* the outbox table: entry -> row
    bus,        \* entries that have a row on the bus now
    published,  \* history: entries that have ever been given a bus row
    life,       \* forwarder -> new, started, disposed or crashed
    pc,         \* forwarder -> where its in-flight tick is; "none": no tick
    batch,      \* forwarder -> claimed entries its tick has not finished with
    cur,        \* forwarder -> the entry its tick is forwarding
    stops,      \* crashes and dispose() calls so far
    faults      \* the faults of this deployment, the same for ever:
                \* "slowTick": a tick may outlive staleClaimAfterMs;
                \* "lostAck": a statement may take effect and report an error

procVars == <<life, pc, batch, cur>>
envVars == <<stops, faults>>
vars == <<outbox, bus, published, procVars, envVars>>

-----------------------------------------------------------------------------
(* The table.  "NONE": not inserted yet.  "DELETED": removed by cleanup().  *)
(* `expired` says that claimed_at lies more than staleClaimAfterMs back.    *)

Statuses == {"NONE", "PENDING", "CLAIMED", "SENT", "FAILED", "DELETED"}
Row == [status : Statuses, claimedBy : Forwarders \cup {NoEntry},
        expired : BOOLEAN, retries : Nat]

EmptyRow == [status |-> "NONE", claimedBy |-> NoEntry,
             expired |-> FALSE, retries |-> 0]

Unclaimed(row, status) ==
    [row EXCEPT !.status = status, !.claimedBy = NoEntry, !.expired = FALSE]

WithStatus(status) == {e \in Entries : outbox[e].status = status}
Exists(row) == row.status \notin {"NONE", "DELETED"}

\* UPDATE ... WHERE id = $2: neither statement looks at the status.
SentRow(row) == IF Exists(row) THEN Unclaimed(row, "SENT") ELSE row

\* Mutation: the failure is not counted.
MutUncountedRow(row) == IF Exists(row) THEN Unclaimed(row, "PENDING") ELSE row

FailedRow(row) ==
    IF Exists(row)
    THEN [Unclaimed(row, IF row.retries + 1 >= MaxRetries
                         THEN "FAILED" ELSE "PENDING")
            EXCEPT !.retries = @ + 1]
    ELSE row

\* Mutation: the sweep forgets the cutoff.
MutIsStale(row) == row.status = "CLAIMED"

IsStale(row) == row.status = "CLAIMED" /\ row.expired

SweptTable ==
    [e \in Entries |-> IF IsStale(outbox[e])
                       THEN Unclaimed(outbox[e], "PENDING") ELSE outbox[e]]

\* What ORDER BY created_at LIMIT batchSize may return: the oldest PENDING
\* rows, as many as there are up to the limit; rows of equal age in any choice.
OldestPending(S) ==
    LET pending == WithStatus("PENDING")
    IN  /\ S \subseteq pending
        /\ Cardinality(S) <= BatchSize
        /\ Cardinality(S) < BatchSize => S = pending
        /\ \A e \in S, d \in pending \ S : CreatedAt[e] <= CreatedAt[d]

\* Mutation: the claim writes the owner but leaves the status.
MutClaimedTable(f, S) ==
    [e \in Entries |-> IF e \in S THEN [outbox[e] EXCEPT !.claimedBy = f]
                                  ELSE outbox[e]]

ClaimedTable(f, S) ==
    [e \in Entries |->
        IF e \in S
        THEN [outbox[e] EXCEPT !.status = "CLAIMED", !.claimedBy = f,
                               !.expired = FALSE]
        ELSE outbox[e]]

-----------------------------------------------------------------------------
Init ==
    /\ outbox = [e \in Entries |-> EmptyRow]
    /\ bus = {}
    /\ published = {}
    /\ life = [f \in Forwarders |-> "new"]
    /\ pc = [f \in Forwarders |-> "none"]
    /\ batch = [f \in Forwarders |-> {}]
    /\ cur = [f \in Forwarders |-> NoEntry]
    /\ stops = 0
    /\ faults \in FaultSets

(* The application: insert() in the transaction of the business write, and  *)
(* cleanup() of old SENT rows.                                              *)

Insert(e) ==
    /\ outbox[e].status = "NONE"
    /\ outbox' = [outbox EXCEPT ![e].status = "PENDING"]
    /\ UNCHANGED <<bus, published, procVars, envVars>>

Cleanup(e) ==
    /\ outbox[e].status = "SENT"
    /\ outbox' = [outbox EXCEPT ![e].status = "DELETED"]
    /\ UNCHANGED <<bus, published, procVars, envVars>>

(* A consumer has handled the entry's bus row and deletes it (markDone).    *)
BusConsumes(e) ==
    /\ e \in bus
    /\ bus' = bus \ {e}
    /\ UNCHANGED <<outbox, published, procVars, envVars>>

(* staleClaimAfterMs goes by.  Unless ticks may be slow, a row ages only    *)
(* when no live tick still has it in hand.                                  *)
InHand(e) == \E f \in Forwarders : e \in batch[f]

ClaimExpires(e) ==
    /\ outbox[e].status = "CLAIMED"
    /\ ~outbox[e].expired
    /\ "slowTick" \in faults \/ ~InHand(e)
    /\ outbox' = [outbox EXCEPT ![e].expired = TRUE]
    /\ UNCHANGED <<bus, published, procVars, envVars>>

-----------------------------------------------------------------------------
(* Life cycle of a replica.                                                 *)

Start(f) ==
    /\ life[f] \in {"new", "disposed"}
    /\ life' = [life EXCEPT ![f] = "started"]
    /\ UNCHANGED <<outbox, bus, published, pc, batch, cur, envVars>>

\* dispose() only raises `stopping` and clears the timer; the tick in flight
\* goes on until it looks at `stopping` again.
Dispose(f) ==
    /\ stops < MaxStops
    /\ life[f] = "started"
    /\ life' = [life EXCEPT ![f] = "disposed"]
    /\ stops' = stops + 1
    /\ UNCHANGED <<outbox, bus, published, pc, batch, cur, faults>>

Crash(f) ==
    /\ stops < MaxStops
    /\ life[f] # "crashed"
    /\ life' = [life EXCEPT ![f] = "crashed"]
    /\ pc' = [pc EXCEPT ![f] = "none"]
    /\ batch' = [batch EXCEPT ![f] = {}]
    /\ cur' = [cur EXCEPT ![f] = NoEntry]
    /\ stops' = stops + 1
    /\ UNCHANGED <<outbox, bus, published, faults>>

-----------------------------------------------------------------------------
(* One tick.  Goto and EndTick are its control flow.                        *)

Goto(f, label) ==
    /\ pc' = [pc EXCEPT ![f] = label]
    /\ UNCHANGED <<life, batch, cur, envVars>>

\* Mutation: the current entry survives the tick.
MutEndTick(f) ==
    /\ pc' = [pc EXCEPT ![f] = "none"]
    /\ batch' = [batch EXCEPT ![f] = {}]
    /\ UNCHANGED <<life, cur, envVars>>

EndTick(f) ==
    /\ pc' = [pc EXCEPT ![f] = "none"]
    /\ batch' = [batch EXCEPT ![f] = {}]
    /\ cur' = [cur EXCEPT ![f] = NoEntry]
    /\ UNCHANGED <<life, envVars>>

\* The current entry is finished; the loop head comes next.
EntryDone(f) ==
    /\ pc' = [pc EXCEPT ![f] = "next"]
    /\ batch' = [batch EXCEPT ![f] = @ \ {cur[f]}]
    /\ cur' = [cur EXCEPT ![f] = NoEntry]
    /\ UNCHANGED <<life, envVars>>

\* The timer fires: skipped while stopping or while a tick is in flight.
TimerFires(f) ==
    /\ life[f] = "started"
    /\ pc[f] = "none"
    /\ Goto(f, "sweep")
    /\ UNCHANGED <<outbox, bus, published>>

\* sweepStale() swallows its errors: the tick goes on to claim either way.
SweepOk(f) ==
    /\ pc[f] = "sweep"
    /\ outbox' = SweptTable
    /\ Goto(f, "claim")
    /\ UNCHANGED <<bus, published>>

SweepFails(f) ==
    /\ pc[f] = "sweep"
    /\ Goto(f, "claim")
    /\ UNCHANGED <<outbox, bus, published>>

ClaimOk(f) ==
    /\ pc[f] = "claim"
    /\ \E S \in SUBSET WithStatus("PENDING") :
        /\ OldestPending(S)
        /\ outbox' = ClaimedTable(f, S)
        /\ batch' = [batch EXCEPT ![f] = S]
        /\ pc' = [pc EXCEPT ![f] = IF S = {} THEN "none" ELSE "next"]
    /\ UNCHANGED <<bus, published, life, cur, envVars>>

\* A failed claim ends the tick; if only its answer was lost, the rows it
\* claimed are CLAIMED with nobody working on them.
ClaimFails(f) ==
    /\ pc[f] = "claim"
    /\ \/ outbox' = outbox
       \/ /\ "lostAck" \in faults
          /\ \E S \in SUBSET WithStatus("PENDING") :
                OldestPending(S) /\ outbox' = ClaimedTable(f, S)
    /\ EndTick(f)
    /\ UNCHANGED <<bus, published>>

\* The loop head: break when stopping, leaving the rest of the batch CLAIMED.
\* RETURNING promises no order, so any remaining entry may be next.
LoopHead(f) ==
    /\ pc[f] = "next"
    /\ IF life[f] = "disposed" \/ batch[f] = {}
       THEN EndTick(f)
       ELSE /\ \E e \in batch[f] : cur' = [cur EXCEPT ![f] = e]
            /\ pc' = [pc EXCEPT ![f] = "publish"]
            /\ UNCHANGED <<life, batch, envVars>>
    /\ UNCHANGED <<outbox, bus, published>>

\* INSERT ... ON CONFLICT (origin_event_id) DO NOTHING.
PublishInserts(f) ==
    /\ pc[f] = "publish"
    /\ cur[f] \notin bus
    /\ bus' = bus \cup {cur[f]}
    /\ published' = published \cup {cur[f]}
    /\ \/ Goto(f, "markSent")
       \/ "lostAck" \in faults /\ Goto(f, "markFailed")
    /\ UNCHANGED outbox

\* The insert was skipped: a second statement looks the existing row up.
PublishConflicts(f) ==
    /\ pc[f] = "publish"
    /\ cur[f] \in bus
    /\ Goto(f, "select")
    /\ UNCHANGED <<outbox, bus, published>>

\* The row may have been handled and deleted in between: publish() throws.
PublishSelects(f) ==
    /\ pc[f] = "select"
    /\ Goto(f, IF cur[f] \in bus THEN "markSent" ELSE "markFailed")
    /\ UNCHANGED <<outbox, bus, published>>

\* Mutation: an error of publish() is swallowed.
MutPublishFails(f) ==
    /\ pc[f] \in {"publish", "select"}
    /\ Goto(f, "markSent")
    /\ UNCHANGED <<outbox, bus, published>>

PublishFails(f) ==
    /\ pc[f] \in {"publish", "select"}
    /\ Goto(f, "markFailed")
    /\ UNCHANGED <<outbox, bus, published>>

MarkSentOk(f) ==
    /\ pc[f] = "markSent"
    /\ outbox' = [outbox EXCEPT ![cur[f]] = SentRow(@)]
    /\ EntryDone(f)
    /\ UNCHANGED <<bus, published>>

\* An error of markSent is handled like one of publish: by markFailed.
MarkSentFails(f) ==
    /\ pc[f] = "markSent"
    /\ \/ outbox' = outbox
       \/ "lostAck" \in faults /\ outbox' = [outbox EXCEPT ![cur[f]] = SentRow(@)]
    /\ Goto(f, "markFailed")
    /\ UNCHANGED <<bus, published>>

MarkFailedOk(f) ==
    /\ pc[f] = "markFailed"
    /\ outbox' = [outbox EXCEPT ![cur[f]] = FailedRow(@)]
    /\ EntryDone(f)
    /\ UNCHANGED <<bus, published>>

\* An error of markFailed leaves the loop: the tick is over.
MarkFailedFails(f) ==
    /\ pc[f] = "markFailed"
    /\ \/ outbox' = outbox
       \/ "lostAck" \in faults /\ outbox' = [outbox EXCEPT ![cur[f]] = FailedRow(@)]
    /\ EndTick(f)
    /\ UNCHANGED <<bus, published>>

Tick(f) ==
    \/ TimerFires(f)
    \/ SweepOk(f) \/ SweepFails(f)
    \/ ClaimOk(f) \/ ClaimFails(f)
    \/ LoopHead(f)
    \/ PublishInserts(f) \/ PublishConflicts(f)
    \/ PublishSelects(f) \/ PublishFails(f)
    \/ MarkSentOk(f) \/ MarkSentFails(f)
    \/ MarkFailedOk(f) \/ MarkFailedFails(f)

Next ==
    \/ \E e \in Entries :
          Insert(e) \/ Cleanup(e) \/ BusConsumes(e) \/ ClaimExpires(e)
    \/ \E f \in Forwarders :
          Start(f) \/ Dispose(f) \/ Crash(f) \/ Tick(f)

Spec == Init /\ [][Next]_vars

(* Fairness: timers fire, statements are answered, disposed replicas are      *)
(* started again, time passes, and an outage of the database is not for ever: *)
(* a sweep or claim that is issued again and again with rows to work on       *)
(* succeeds some time, and so does markFailed.                                *)
Fairness ==
    /\ \A f \in Forwarders :
        /\ WF_vars(Tick(f) \/ Start(f))
        /\ SF_vars(SweepOk(f) /\ outbox' # outbox)
        /\ SF_vars(ClaimOk(f) /\ outbox' # outbox)
        /\ SF_vars(MarkFailedOk(f))
    /\ WF_vars(\E e \in Entries : ClaimExpires(e))

FairSpec == Spec /\ Fairness

-----------------------------------------------------------------------------
(* Properties.                                                              *)

Labels == {"none", "sweep", "claim", "next", "publish", "select",
           "markSent", "markFailed"}

\* Type invariant: every variable of the table and of the replicas has its
\* type, and only a tick that is forwarding has a current entry, of its batch.
TypeOK ==
    /\ outbox \in [Entries -> Row]
    /\ bus \subseteq Entries
    /\ published \subseteq Entries
    /\ life \in [Forwarders -> {"new", "started", "disposed", "crashed"}]
    /\ pc \in [Forwarders -> Labels]
    /\ batch \in [Forwarders -> SUBSET Entries]
    /\ cur \in [Forwarders -> Entries \cup {NoEntry}]
    /\ stops \in Nat
    /\ faults \in FaultSets
    /\ \A f \in Forwarders :
        IF pc[f] \in {"publish", "select", "markSent", "markFailed"}
        THEN cur[f] \in batch[f] ELSE cur[f] = NoEntry

\* Nothing is acknowledged that was not published: an entry is SENT, or has
\* been cleaned up, only if the bus has been given a row for it -- whatever
\* crashes, slow ticks and lost answers there were.
SentWasPublished ==
    \A e \in Entries :
        outbox[e].status \in {"SENT", "DELETED"} => e \in published

\* "No replica ever double-claims a row" (README 262-263): no two replicas
\* have the same entry in hand -- as long as no tick outlives
\* staleClaimAfterMs; with slow ticks the code does not keep the promise.
OneForwarderPerEntry ==
    "slowTick" \notin faults =>
        \A f, g \in Forwarders : f # g => batch[f] \cap batch[g] = {}

\* A row is FAILED exactly when its retries are exhausted, even if a replica
\* that lost its claim marks it again: no entry is retried past its budget
\* and none is given up before it.
RetryBudget ==
    \A e \in Entries :
        /\ outbox[e].status \in {"PENDING", "CLAIMED"} =>
                outbox[e].retries < MaxRetries
        /\ outbox[e].status = "FAILED" => outbox[e].retries >= MaxRetries

\* SENT is terminal (README 112-113): from SENT, a row may only be cleaned up.
\* It takes timely ticks and truthful answers: markFailed, which follows a
\* markSent that reports an error, does not look at the status.
SentIsTerminal ==
    [][\A e \in Entries : faults = {} /\ outbox[e].status = "SENT" =>
            outbox'[e].status \in {"SENT", "DELETED"}]_vars

\* Every recorded entry is, in the end, sent or given up after its retries:
\* crashes, disposals, failed statements and lost answers strand none.
EveryEntrySettles ==
    \A e \in Entries :
        outbox[e].status # "NONE" ~>
            outbox[e].status \in {"SENT", "FAILED", "DELETED"}
=============================================================================
