----------------------------- MODULE UnitOfWork -----------------------------
(***************************************************************************)
(* UnitOfWork.transaction over PgTransaction, a pool of Postgres clients   *)
(* and the column type cache of the write adapter.                         *)
(*                                                                         *)
(* A call is one top-level transaction(); nested calls join it and have no *)
(* step of their own.  Its operation writes a row -- it creates it, or     *)
(* saves or deletes the version it has read -- which needs the column      *)
(* types of the table, and changes an aggregate that records one domain    *)
(* event; the event is drained and given to the sink before COMMIT.  The   *)
(* application may issue a rejected call again.                            *)
(*                                                                         *)
(* A client sends its statements one after the other; `queue` holds those  *)
(* that have no answer yet.  `block` is the server's side of a client: the *)
(* transaction block it is in.  Pool, client and server are external and   *)
(* modelled as the code relies on them.                                    *)
(***************************************************************************)
EXTENDS Integers, Sequences, FiniteSets

CONSTANTS
    Calls,          \* top-level transaction() calls
    Clients,        \* connections of the pool
    NoClient,
    Recording,      \* calls whose aggregate records a domain event
    MaxAttempts,    \* bound: how often the application issues a call
    MaxLosses,      \* bound: connections lost in a behaviour
    FaultSets       \* what a deployment or application may be exposed to

ASSUME CallsAssumption ==
    IsFiniteSet(Calls) /\ IsFiniteSet(Clients) /\ NoClient \notin Clients
ASSUME RecordingAssumption == Recording \subseteq Calls
ASSUME BoundsAssumption == MaxAttempts \in Nat \ {0} /\ MaxLosses \in Nat
ASSUME FaultsAssumption ==
    FaultSets \subseteq SUBSET {"swallow", "straggler", "queryTimeout", "reuse", "disconnect"}

VARIABLES
    pc,         \* call -> the await it is at
    attempt,    \* call -> how often it was issued
    client,     \* call -> client its PgTransaction refers to
    trx,        \* call -> PgTransaction.state
    answer,     \* call -> answer of the statement it awaits: none, ok, error
    buffer,     \* call -> its aggregate holds an event that is not drained
    outcome,    \* call -> none, resolved or rejected
    late,       \* call -> an unawaited branch of its operation: off, on
    typesKnown, \* the column type cache holds the table
    free,       \* clients that are idle in the pool
    closed,     \* clients that the pool has ended
    ending,     \* disconnect() was called
    stuck,      \* history: calls whose query waited for a client when the pool ended
    queue,      \* client -> statements without an answer
    block,      \* server: client -> its transaction block
    durable,    \* server: committed writes
    stray,      \* history: writes executed outside the block of their call
    leaked,     \* history: clients that nobody will release
    swallowed,  \* history: errors that an operation caught: the call, the mode
                \* of its block, and whether an event is drained nevertheless
    losses,     \* connections lost so far
    faults      \* constant: "swallow": an operation may catch the error of its
                \* write and go on; "straggler": a branch of an operation
                \* may still issue a query when the operation is over;
                \* "queryTimeout": the driver may give up on a statement;
                \* "reuse": a call issued again uses the same aggregate object;
                \* "disconnect": the database owns its pool and is disconnected,
                \* as a participant of a shutdown is, while calls are under way

callVars == <<pc, attempt, client, trx, answer, buffer, outcome, late>>
serverVars == <<queue, block, durable, stray>>
poolVars == <<typesKnown, free, closed, ending, stuck, leaked>>
otherVars == <<poolVars, swallowed, losses, faults>>
vars == <<callVars, serverVars, otherVars>>

Kinds == {"BEGIN", "state", "event", "late", "COMMIT", "ROLLBACK"}
Writes == [call : Calls, attempt : Nat, kind : {"state", "event", "late"}]
Statements == [call : Calls, attempt : Nat, kind : Kinds, waits : BOOLEAN]

Blocks == [mode : {"idle", "open", "aborted", "dead"},
           owner : [call : Calls, attempt : Nat] \cup {NoClient},
           writes : SUBSET Writes]

Errors == [call : Calls, attempt : Nat, mode : {"idle", "open", "aborted", "dead"},
           drains : BOOLEAN]

IdleBlock == [mode |-> "idle", owner |-> NoClient, writes |-> {}]
DeadBlock == [mode |-> "dead", owner |-> NoClient, writes |-> {}]

Owner(s) == [call |-> s.call, attempt |-> s.attempt]
WriteOf(s) == [call |-> s.call, attempt |-> s.attempt, kind |-> s.kind]

Init ==
    /\ pc = [c \in Calls |-> "new"]
    /\ attempt = [c \in Calls |-> 1]
    /\ client = [c \in Calls |-> NoClient]
    /\ trx = [c \in Calls |-> "NotStarted"]
    /\ answer = [c \in Calls |-> "none"]
    /\ buffer = [c \in Calls |-> c \in Recording]
    /\ outcome = [c \in Calls |-> "none"]
    /\ late = [c \in Calls |-> "off"]
    /\ typesKnown = FALSE
    /\ free = Clients /\ closed = {} /\ ending = FALSE /\ stuck = {}
    /\ queue = [k \in Clients |-> <<>>]
    /\ block = [k \in Clients |-> IdleBlock]
    /\ durable = {} /\ stray = {} /\ leaked = {} /\ swallowed = {}
    /\ losses = 0
    /\ faults \in FaultSets

-----------------------------------------------------------------------------
(* The server executes the first statement of a client's queue.             *)

Answered(s, ok) ==
    IF s.waits
    THEN [answer EXCEPT ![s.call] = IF ok THEN "ok" ELSE "error"]
    ELSE answer

\* The first statement of k has its answer and leaves k's block as b.
Executed(k, b, ok) ==
    /\ block' = [block EXCEPT ![k] = b]
    /\ queue' = [queue EXCEPT ![k] = Tail(@)]
    /\ answer' = Answered(Head(queue[k]), ok)
    /\ UNCHANGED <<pc, attempt, client, trx, buffer, outcome, late, otherVars>>

Next1(k, kinds) == queue[k] # <<>> /\ Head(queue[k]).kind \in kinds

\* On a client whose connection is gone every statement fails; in an aborted
\* block all but COMMIT and ROLLBACK do.
ServerRefuses(k) ==
    /\ queue[k] # <<>>
    /\ \/ block[k].mode = "dead"
       \/ block[k].mode = "aborted" /\ ~Next1(k, {"COMMIT", "ROLLBACK"})
    /\ Executed(k, block[k], FALSE)
    /\ UNCHANGED <<durable, stray>>

\* BEGIN inside an open block is only a warning.
ServerBegins(k) ==
    /\ Next1(k, {"BEGIN"})
    /\ block[k].mode \in {"idle", "open"}
    /\ LET b == [mode |-> "open", owner |-> Owner(Head(queue[k])), writes |-> {}]
       IN  Executed(k, IF block[k].mode = "open" THEN block[k] ELSE b, TRUE)
    /\ UNCHANGED <<durable, stray>>

\* A write succeeds, in the open block or committed at once, or fails and
\* aborts the open block.  An UPDATE or DELETE that matches no row is none:
\* the block stays open, and the DAO throws an OptimisticLockError.
ServerWrites(k) ==
    LET s == Head(queue[k])
        b == block[k]
    IN  /\ Next1(k, {"state", "event", "late"})
        /\ b.mode \in {"idle", "open"}
        /\ \/ /\ Executed(k, IF b.mode = "open"
                             THEN [b EXCEPT !.writes = @ \cup {WriteOf(s)}]
                             ELSE b, TRUE)
              /\ durable' = IF b.mode = "open" THEN durable
                                               ELSE durable \cup {WriteOf(s)}
              /\ stray' = IF b.owner = Owner(s) THEN stray
                                                ELSE stray \cup {WriteOf(s)}
           \/ /\ Executed(k, IF b.mode = "open"
                             THEN [b EXCEPT !.mode = "aborted", !.writes = {}]
                             ELSE b, FALSE)
              /\ UNCHANGED <<durable, stray>>
           \/ /\ s.kind = "state"
              /\ Executed(k, b, FALSE)
              /\ UNCHANGED <<durable, stray>>

\* COMMIT of an aborted block rolls back and reports no error.  That of an
\* open one may fail (deferred constraint, serialization): nothing is kept.
ServerCommits(k) ==
    /\ Next1(k, {"COMMIT"})
    /\ block[k].mode # "dead"
    /\ \/ Executed(k, IdleBlock, TRUE) /\ durable' = durable \cup block[k].writes
       \/ block[k].mode = "open" /\ Executed(k, IdleBlock, FALSE) /\ durable' = durable
    /\ UNCHANGED stray

ServerRollsBack(k) ==
    /\ Next1(k, {"ROLLBACK"})
    /\ block[k].mode # "dead"
    /\ Executed(k, IdleBlock, TRUE)
    /\ UNCHANGED <<durable, stray>>

WaitingAt(k) == {c \in Calls : \E i \in DOMAIN queue[k] :
                    queue[k][i].call = c /\ queue[k][i].waits}

\* A connection breaks; a COMMIT under way may have taken effect.
ConnectionLost(k) ==
    /\ losses < MaxLosses
    /\ k \notin closed /\ block[k].mode # "dead"
    /\ losses' = losses + 1
    /\ block' = [block EXCEPT ![k] = DeadBlock]
    /\ queue' = [queue EXCEPT ![k] = <<>>]
    /\ answer' = [c \in Calls |-> IF c \in WaitingAt(k) THEN "error" ELSE answer[c]]
    /\ \/ durable' = durable
       \/ Next1(k, {"COMMIT"}) /\ durable' = durable \cup block[k].writes
    /\ UNCHANGED <<pc, attempt, client, trx, buffer, outcome, late, stray, poolVars,
                   swallowed, faults>>

\* query_timeout: the call gets an error.  A statement that was sent goes on
\* without it, one that still waits behind others is withdrawn.
QueryTimesOut(c) ==
    /\ "queryTimeout" \in faults
    /\ client[c] # NoClient
    /\ \E i \in DOMAIN queue[client[c]] :
        /\ queue[client[c]][i].call = c /\ queue[client[c]][i].waits
        /\ queue' = [queue EXCEPT ![client[c]] =
                IF i = 1 THEN [@ EXCEPT ![1].waits = FALSE]
                         ELSE SubSeq(@, 1, i - 1) \o SubSeq(@, i + 1, Len(@))]
    /\ answer' = [answer EXCEPT ![c] = "error"]
    /\ UNCHANGED <<pc, attempt, client, trx, buffer, outcome, late, block, durable,
                   stray, otherVars>>

-----------------------------------------------------------------------------
(* The calls.                                                               *)

Statement(c, kind, waits) ==
    [call |-> c, attempt |-> attempt[c], kind |-> kind, waits |-> waits]

\* c issues a statement on its client k and awaits the answer at `label`.
Issue(c, k, kind, label) ==
    /\ queue' = [queue EXCEPT ![k] = Append(@, Statement(c, kind, TRUE))]
    /\ answer' = [answer EXCEPT ![c] = "none"]
    /\ pc' = [pc EXCEPT ![c] = label]
    /\ UNCHANGED <<block, durable, stray>>

\* The answer that c awaits at `label` is there.
Has(c, label, result) == pc[c] = label /\ answer[c] = result

Settle(c, result) ==
    /\ pc' = [pc EXCEPT ![c] = "done"]
    /\ outcome' = [outcome EXCEPT ![c] = result]

\* Mutation: a transaction that is still active is not released.
MutRelease(c) ==
    LET k == client[c]
        dead == block[k].mode = "dead"
    IN  /\ free' = IF trx'[c] = "Active" \/ ending THEN free ELSE free \cup {k}
        /\ closed' = IF ending THEN closed \cup {k} ELSE closed
        /\ block' = [block EXCEPT ![k] = IF dead THEN IdleBlock ELSE @]
        /\ client' = [client EXCEPT ![c] = IF dead THEN NoClient ELSE k]

\* client.release(): back to the pool, which replaces a broken connection, and ends
\* every one that comes back after disconnect().
Release(c) ==
    LET k == client[c]
        dead == block[k].mode = "dead"
    IN  /\ free' = IF ending THEN free ELSE free \cup {k}
        /\ closed' = IF ending THEN closed \cup {k} ELSE closed
        /\ block' = [block EXCEPT ![k] = IF dead THEN IdleBlock ELSE @]
        /\ client' = [client EXCEPT ![c] = IF dead THEN NoClient ELSE k]

\* getDbTransaction() and start(): a client, and BEGIN.
Connect(c) ==
    /\ pc[c] = "new"
    /\ \E k \in free :
        /\ free' = free \ {k}
        /\ client' = [client EXCEPT ![c] = k]
        /\ Issue(c, k, "BEGIN", "begin")
    /\ UNCHANGED <<attempt, trx, buffer, outcome, late, typesKnown, closed, ending,
                   stuck, leaked, swallowed, losses, faults>>

ConnectFails(c) ==
    /\ pc[c] = "new"
    /\ Settle(c, "rejected")
    /\ UNCHANGED <<attempt, client, trx, answer, buffer, late, serverVars, otherVars>>

Begun(c) ==
    /\ Has(c, "begin", "ok")
    /\ trx' = [trx EXCEPT ![c] = "Active"]
    /\ pc' = [pc EXCEPT ![c] = "types"]
    /\ late' = [late EXCEPT ![c] = IF "straggler" \in faults THEN "on" ELSE "off"]
    /\ UNCHANGED <<attempt, client, answer, buffer, outcome, serverVars, otherVars>>

\* start() is outside the try block: nobody releases the client.
BeginFails(c) ==
    /\ Has(c, "begin", "error")
    /\ Settle(c, "rejected")
    /\ leaked' = leaked \cup {client[c]}
    /\ UNCHANGED <<attempt, client, trx, answer, buffer, late, serverVars, typesKnown,
                   free, closed, ending, stuck, swallowed, losses, faults>>

\* PgColumnTypeCache.get: on a miss it queries the pool, not the transaction,
\* so it needs a client of its own for as long as the query takes.
Write(c) ==
    /\ pc[c] = "types" /\ c \notin stuck
    /\ typesKnown \/ free # {}
    /\ typesKnown' = TRUE
    /\ Issue(c, client[c], "state", "write")
    /\ UNCHANGED <<attempt, client, trx, buffer, outcome, late, free, closed, ending,
                   stuck, leaked, swallowed, losses, faults>>

\* The query of the column types fails; it is not one of the transaction.
TypesFail(c) ==
    pc[c] = "types" /\ ~typesKnown /\ c \notin stuck /\ (free # {} \/ ending)

\* Mutation: the sink does not take part in the transaction.
MutDrain(c, drains) ==
    /\ Issue(c, client[c], "COMMIT", "commit")
    /\ buffer' = [buffer EXCEPT ![c] = @ /\ ~drains]

\* The operation is over: the events of the aggregates that are registered are
\* drained and given to the sink; without any, the transaction commits at once.
Drain(c, drains) ==
    /\ IF drains THEN Issue(c, client[c], "event", "sink")
                 ELSE Issue(c, client[c], "COMMIT", "commit")
    /\ buffer' = [buffer EXCEPT ![c] = @ /\ ~drains]

Flush(c) ==
    /\ Has(c, "write", "ok")
    /\ Drain(c, buffer[c])
    /\ UNCHANGED <<attempt, client, trx, outcome, late, otherVars>>

\* The operation catches the error of its write and goes on.  loadForUpdate* has
\* registered the aggregate by then, create() has not.
FlushAnyway(c) ==
    /\ "swallow" \in faults
    /\ TypesFail(c) \/ Has(c, "write", "error")
    /\ \E registered \in BOOLEAN :
        LET drains == registered /\ buffer[c]
        IN  /\ Drain(c, drains)
            /\ swallowed' = swallowed \cup {[call |-> c, attempt |-> attempt[c],
                                mode |-> block[client[c]].mode, drains |-> drains]}
    /\ UNCHANGED <<attempt, client, trx, outcome, late, poolVars, losses, faults>>

\* Mutation: the sink's error is not awaited.
MutCommit(c) ==
    /\ Has(c, "sink", "ok") \/ Has(c, "sink", "error")
    /\ Issue(c, client[c], "COMMIT", "commit")
    /\ UNCHANGED <<attempt, client, trx, buffer, outcome, late, otherVars>>

Commit(c) ==
    /\ Has(c, "sink", "ok")
    /\ Issue(c, client[c], "COMMIT", "commit")
    /\ UNCHANGED <<attempt, client, trx, buffer, outcome, late, otherVars>>

Committed(c) ==
    /\ Has(c, "commit", "ok")
    /\ trx' = [trx EXCEPT ![c] = "Committed"]
    /\ Release(c)
    /\ Settle(c, "resolved")
    /\ UNCHANGED <<attempt, answer, buffer, late, queue, durable, stray, typesKnown,
                   ending, stuck, leaked, swallowed, losses, faults>>

\* Mutation: an error of the sink skips the ROLLBACK.
MutRollback(c) ==
    /\ Has(c, "sink", "error") \/ Has(c, "write", "ok")
    /\ Release(c)
    /\ Settle(c, "rejected")
    /\ UNCHANGED <<attempt, trx, answer, buffer, late, queue, durable, stray, typesKnown,
                   ending, stuck, leaked, swallowed, losses, faults>>

\* The catch block: a failed query of the column types or write that the operation does
\* not catch, an error of its own, a failed sink or COMMIT leads to ROLLBACK.
Rollback(c) ==
    /\ \/ TypesFail(c)
       \/ pc[c] = "write" /\ answer[c] # "none"
       \/ Has(c, "sink", "error")
       \/ Has(c, "commit", "error")
    /\ Issue(c, client[c], "ROLLBACK", "rollback")
    /\ UNCHANGED <<attempt, client, trx, buffer, outcome, late, otherVars>>

\* finally: the client is released whether ROLLBACK succeeded or not.
RolledBack(c) ==
    /\ pc[c] = "rollback" /\ answer[c] # "none"
    /\ trx' = [trx EXCEPT ![c] = IF answer[c] = "ok" THEN "RolledBack" ELSE @]
    /\ Release(c)
    /\ Settle(c, "rejected")
    /\ UNCHANGED <<attempt, answer, buffer, late, queue, durable, stray, typesKnown,
                   ending, stuck, leaked, swallowed, losses, faults>>

\* A branch of the operation that nobody awaits calls query(), which refuses
\* unless the state is Active -- as it is until COMMIT or ROLLBACK answers.
Straggle(c) ==
    /\ late[c] = "on"
    /\ late' = [late EXCEPT ![c] = "off"]
    /\ queue' = IF trx[c] = "Active" /\ client[c] # NoClient
                THEN [queue EXCEPT ![client[c]] = Append(@, Statement(c, "late", FALSE))]
                ELSE queue
    /\ UNCHANGED <<pc, attempt, client, trx, answer, buffer, outcome, block,
                   durable, stray, otherVars>>

\* The application issues a rejected call again.  With "reuse" it does so with
\* the aggregate object of the failed call, whose event may be drained.
IssueAgain(c) ==
    /\ pc[c] = "done" /\ outcome[c] = "rejected" /\ late[c] = "off"
    /\ attempt[c] < MaxAttempts
    /\ attempt' = [attempt EXCEPT ![c] = @ + 1]
    /\ pc' = [pc EXCEPT ![c] = "new"]
    /\ outcome' = [outcome EXCEPT ![c] = "none"]
    /\ client' = [client EXCEPT ![c] = NoClient]
    /\ trx' = [trx EXCEPT ![c] = "NotStarted"]
    /\ answer' = [answer EXCEPT ![c] = "none"]
    /\ buffer' = IF "reuse" \in faults THEN buffer
                 ELSE [buffer EXCEPT ![c] = c \in Recording]
    /\ UNCHANGED <<late, serverVars, otherVars>>

\* disconnect(): pool.end() closes the idle clients now and the others when they are
\* released; it resolves when all are closed.  Whoever asks for a client from now on is
\* refused, and who waits for one already is not answered any more.
Disconnect ==
    /\ "disconnect" \in faults /\ ~ending
    /\ ending' = TRUE
    /\ free' = {} /\ closed' = free
    /\ stuck' \in IF free = {} /\ ~typesKnown THEN SUBSET {c \in Calls : pc[c] = "types"}
                                               ELSE {{}}
    /\ UNCHANGED <<callVars, serverVars, typesKnown, leaked, swallowed, losses, faults>>

Server(k) ==
    \/ ServerRefuses(k) \/ ServerBegins(k) \/ ServerWrites(k)
    \/ ServerCommits(k) \/ ServerRollsBack(k)

Call(c) ==
    \/ Connect(c) \/ ConnectFails(c) \/ Begun(c) \/ BeginFails(c)
    \/ Write(c) \/ Flush(c) \/ FlushAnyway(c) \/ Commit(c) \/ Committed(c)
    \/ Rollback(c) \/ RolledBack(c)

Next ==
    \/ Disconnect
    \/ \E k \in Clients : Server(k) \/ ConnectionLost(k)
    \/ \E c \in Calls : Call(c) \/ QueryTimesOut(c) \/ Straggle(c) \/ IssueAgain(c)

Spec == Init /\ [][Next]_vars

-----------------------------------------------------------------------------
(* Properties.                                                              *)

\* Type invariant.
TypeOK ==
    /\ pc \in [Calls -> {"new", "begin", "types", "write", "sink", "commit",
                        "rollback", "done"}]
    /\ attempt \in [Calls -> 1 .. MaxAttempts]
    /\ client \in [Calls -> Clients \cup {NoClient}]
    /\ trx \in [Calls -> {"NotStarted", "Active", "Committed", "RolledBack"}]
    /\ answer \in [Calls -> {"none", "ok", "error"}]
    /\ buffer \in [Calls -> BOOLEAN]
    /\ outcome \in [Calls -> {"none", "resolved", "rejected"}]
    /\ late \in [Calls -> {"off", "on"}]
    /\ typesKnown \in BOOLEAN
    /\ free \subseteq Clients /\ closed \subseteq Clients
    /\ ending \in BOOLEAN /\ stuck \subseteq Calls
    /\ queue \in [Clients -> Seq(Statements)]
    /\ block \in [Clients -> Blocks]
    /\ durable \subseteq Writes /\ stray \subseteq Writes /\ leaked \subseteq Clients
    /\ swallowed \subseteq Errors
    /\ losses \in 0 .. MaxLosses
    /\ faults \in FaultSets
    /\ \A c \in Calls :
        /\ pc[c] \in {"types", "write", "sink", "commit", "rollback"} =>
                trx[c] = "Active" /\ client[c] \in Clients \ (free \cup closed)
        /\ pc[c] = "done" <=> outcome[c] # "none"

Wrote(c, n, kind) == [call |-> c, attempt |-> n, kind |-> kind]

Faults(S) == faults \cap S # {}

SwallowedBy(c, n) == {e \in swallowed : e.call = c /\ e.attempt = n}

\* "Domain events drained to outbox, trx committed atomically" (README 122): the row and
\* the event of a call are committed together or not at all, even if connections break,
\* COMMITs are lost and the operation swallows errors -- unless the driver gives up on
\* statements or an aggregate is used again.  An event is committed without its row only
\* if the operation swallowed an error that did not abort the block.
AllOrNothing ==
    ~Faults({"queryTimeout", "reuse"}) =>
        \A c \in Recording, n \in 1 .. MaxAttempts :
            /\ Wrote(c, n, "state") \in durable => Wrote(c, n, "event") \in durable
            /\ Wrote(c, n, "event") \in durable =>
                \/ Wrote(c, n, "state") \in durable
                \/ \E e \in SwallowedBy(c, n) : e.mode = "open" /\ e.drains

\* What transaction() answers is true.  A call that resolved is committed, unless its
\* operation swallowed the error of its write: the block then was open, and the rest of
\* it is committed, or no event was drained into it to find it aborted -- COMMIT of an
\* aborted block reports success, as it does after a branch that fails unawaited.  A call
\* that was rejected is not committed, unless an answer was lost.
TruthfulOutcome ==
    \A c \in Calls, n \in 1 .. MaxAttempts :
        /\ (outcome[c] = "resolved" /\ n = attempt[c]
             /\ ~Faults({"queryTimeout", "straggler"}))
            => \/ Wrote(c, n, "state") \in durable
               \/ \E e \in SwallowedBy(c, n) : e.mode = "open" \/ ~e.drains
        /\ ((n < attempt[c] \/ (n = attempt[c] /\ outcome[c] = "rejected"))
             /\ losses = 0 /\ ~Faults({"queryTimeout"}))
            => {Wrote(c, n, "state"), Wrote(c, n, "event")} \cap durable = {}

\* Every write is executed in the block of its own call, and no client goes
\* back to the pool inside a block, where the next call would join it -- unless
\* statements time out or a branch of the operation is not awaited.
WritesStayInside == ~Faults({"queryTimeout", "straggler"}) => stray = {}

\* A call at the column types that waits for a client, in vain if the pool has ended.
WaitsForTypes(c) ==
    pc[c] = "types" /\ ~typesKnown /\ (c \in stuck \/ (free = {} /\ ~ending))

\* Every client was closed, was lost by a failed BEGIN or belongs to a transaction that
\* waits for another client to fetch column types.
Starved ==
    Clients = closed \cup leaked \cup {client[c] : c \in {d \in Calls : WaitsForTypes(d)}}

\* Nobody waits for ever: a statement that is awaited is still to be answered,
\* and when no client is free, some call that holds one can go on and release
\* it, so that the next call gets it or disconnect() resolves -- unless the pool is
\* starved in one of these two ways.
OnlyStarvationBlocks ==
    /\ \A c \in Calls :
        pc[c] \in {"begin", "write", "sink", "commit", "rollback"} /\ answer[c] = "none"
            => c \in WaitingAt(client[c])
    /\ free = {} /\ (\A c \in Calls : pc[c] \in {"new", "done"} \/ WaitsForTypes(c)) => Starved
=============================================================================
