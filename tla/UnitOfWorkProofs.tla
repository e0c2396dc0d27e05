-------------------------- MODULE UnitOfWorkProofs --------------------------
(***************************************************************************)
(* Proofs about UnitOfWork, for any calls, clients and faults: types, what *)
(* of a transaction is committed, and what can block the pool.             *)
(***************************************************************************)
EXTENDS UnitOfWork, SequenceTheorems, TLAPS

-----------------------------------------------------------------------------
(* Who holds which client, and what is awaited.                             *)

Holds(c) == pc[c] \in {"begin", "types", "write", "sink", "commit", "rollback"}
Awaits(c) ==
    pc[c] \in {"begin", "write", "sink", "commit", "rollback"} /\ answer[c] = "none"

\* Every client is free, closed, leaked or held, by one call.
PoolInv ==
    /\ \A c \in Calls : Holds(c) => client[c] \in Clients \ (free \cup closed \cup leaked)
    /\ \A c, d \in Calls : Holds(c) /\ Holds(d) /\ client[c] = client[d] => c = d
    /\ leaked \cap (free \cup closed) = {}
    /\ IF ending THEN free = {} ELSE closed = {}
    /\ \A k \in Clients :
        k \in free \cup closed \cup leaked \/ \E c \in Calls : Holds(c) /\ client[c] = k

KindAt == [begin |-> "BEGIN", write |-> "state", sink |-> "event", commit |-> "COMMIT",
           rollback |-> "ROLLBACK"]

\* s is the statement that its call awaits from client k.
Asked(s, k) ==
    /\ Awaits(s.call) /\ client[s.call] = k
    /\ s.attempt = attempt[s.call] /\ s.kind = KindAt[pc[s.call]]

\* A queue has at most one statement that is awaited, by the call that holds the client.
QueueInv ==
    /\ \A k \in Clients : \A i \in DOMAIN queue[k] : queue[k][i].waits => Asked(queue[k][i], k)
    /\ \A k \in Clients : \A i, j \in DOMAIN queue[k] :
        queue[k][i].waits /\ queue[k][j].waits => i = j
    /\ \A c \in Calls : Awaits(c) => \E i \in DOMAIN queue[client[c]] :
        queue[client[c]][i].call = c /\ queue[client[c]][i].waits

\* Where a call is, what its PgTransaction says and whether its event is drained.
CallOK(c) ==
    /\ pc[c] \in {"new", "begin"} => trx[c] = "NotStarted" /\ late[c] = "off"
    /\ pc[c] \in {"types", "write", "sink", "commit", "rollback"} => trx[c] = "Active"
    /\ pc[c] = "done" <=> outcome[c] # "none"
    /\ buffer[c] \/ pc[c] = "sink" => c \in Recording
    /\ "reuse" \notin faults /\ pc[c] \in {"new", "begin", "types", "write"}
        /\ c \in Recording => buffer[c]
    /\ "straggler" \notin faults => late[c] = "off"

CallInv == \A c \in Calls : CallOK(c)

-----------------------------------------------------------------------------
(* The blocks of the server.                                                *)

Lasting(b) == {w \in b.writes : w.kind # "late"}

\* b is the block of attempt n of call c, with writes of these kinds unless it was aborted.
InBlock(c, n, b, kinds) ==
    /\ b.owner = [call |-> c, attempt |-> n]
    /\ \/ b.mode = "open" /\ Lasting(b) = {Wrote(c, n, kind) : kind \in kinds}
       \/ b.mode = "aborted" /\ b.writes = {}

\* Attempt n of c has swallowed, among the errors W, one that left the block open, and drained
\* an event; or one after which a COMMIT may succeed without the row.
Missed(c, n, W) == \E e \in W : e.call = c /\ e.attempt = n /\ e.mode = "open" /\ e.drains
Excused(c, n, W) ==
    \E e \in W : e.call = c /\ e.attempt = n /\ (e.mode = "open" \/ ~e.drains)

\* What a commit keeps, under faults F and with the errors W swallowed.
Whole(c, n, b, F, W) ==
    \E kinds \in SUBSET {"state", "event"} :
        /\ InBlock(c, n, b, kinds)
        /\ "reuse" \notin F /\ c \in Recording /\ "state" \in kinds => "event" \in kinds
        /\ "event" \in kinds /\ "state" \notin kinds => Missed(c, n, W)
        /\ "state" \notin kinds => Excused(c, n, W)

\* The block at the sink, whose write is there unless its error was swallowed.
AtSink(c, n, a, b, W) ==
    \E kinds \in {{}, {"state"}} :
        /\ InBlock(c, n, b, IF a = "ok" THEN kinds \cup {"event"} ELSE kinds)
        /\ kinds = {} => Missed(c, n, W)

\* The block b of attempt n of call c whose await p has answer a.  An event that fails in
\* its block aborts it, a write may also match no row; only a straggler aborts it unseen.
BlockAt(c, n, p, a, b, F, W) ==
    /\ p = "begin" =>
        /\ a = "none" => b = IdleBlock
        /\ a = "ok" => InBlock(c, n, b, {})
        /\ a # "error"
    /\ p = "types" => InBlock(c, n, b, {})
    /\ p = "write" => InBlock(c, n, b, IF a = "ok" THEN {"state"} ELSE {})
    /\ p = "sink" => AtSink(c, n, a, b, W)
    /\ p = "commit" => IF a = "none" THEN Whole(c, n, b, F, W) ELSE b = IdleBlock
    /\ p = "rollback" =>
        /\ a = "none" =>
            b = IdleBlock \/ \E kinds \in SUBSET {"state", "event"} : InBlock(c, n, b, kinds)
        /\ a = "ok" => b = IdleBlock
        /\ a # "error"
    /\ "straggler" \notin F =>
        /\ p \in {"write", "sink"} /\ a = "ok" => b.mode = "open"
        /\ p = "commit" /\ a = "none" => b.mode = "open" \/ Excused(c, n, W)

HoldsBlock(c) ==
    \/ block[client[c]] = DeadBlock /\ losses # 0
    \/ BlockAt(c, attempt[c], pc[c], answer[c], block[client[c]], faults, swallowed)

\* Without timeouts only what is not awaited stays behind on a client.
BlockInv ==
    "queryTimeout" \notin faults =>
        /\ \A k \in Clients : \A i \in DOMAIN queue[k] :
            queue[k][i].waits \/ (queue[k][i].kind = "late" /\ "straggler" \in faults)
        /\ \A k \in Clients : (\A c \in Calls : Holds(c) => client[c] # k) =>
            block[k] \in {IdleBlock, DeadBlock}
        /\ \A c \in Calls : Holds(c) => HoldsBlock(c)
        /\ \A c \in Calls : trx[c] = "Active" /\ client[c] # NoClient => Holds(c)
        /\ losses = 0 => \A k \in Clients : block[k].mode # "dead"

-----------------------------------------------------------------------------
(* What is committed.                                                       *)

CommitAnswered(c) == outcome[c] = "resolved" \/ (pc[c] = "commit" /\ answer[c] = "ok")

\* Unless connections are lost, only a call whose COMMIT succeeded has committed anything.
CommittedOnly ==
    /\ losses = 0 => \A w \in durable :
        w.kind # "late" => w.attempt = attempt[w.call] /\ CommitAnswered(w.call)
    /\ \A w \in durable : w.kind # "late" => w.attempt <= attempt[w.call]

\* A call whose COMMIT succeeded has committed, or is excused.
CommittedIndeed ==
    "straggler" \notin faults =>
        \A c \in Calls : CommitAnswered(c) =>
            Wrote(c, attempt[c], "state") \in durable \/ Excused(c, attempt[c], swallowed)

DurableInv ==
    "queryTimeout" \notin faults => CommittedOnly /\ CommittedIndeed /\ AllOrNothing

-----------------------------------------------------------------------------
(* Types.                                                                   *)

Types ==
    /\ pc \in [Calls -> {"new", "begin", "types", "write", "sink", "commit",
                        "rollback", "done"}]
    /\ attempt \in [Calls -> 1 .. MaxAttempts]
    /\ client \in [Calls -> Clients \cup {NoClient}]
    /\ trx \in [Calls -> {"NotStarted", "Active", "Committed", "RolledBack"}]
    /\ answer \in [Calls -> {"none", "ok", "error"}]
    /\ buffer \in [Calls -> BOOLEAN]
    /\ outcome \in [Calls -> {"none", "resolved", "rejected"}]
    /\ late \in [Calls -> {"off", "on"}]
    /\ typesKnown \in BOOLEAN
    /\ free \subseteq Clients /\ closed \subseteq Clients
    /\ ending \in BOOLEAN /\ stuck \subseteq Calls
    /\ queue \in [Clients -> Seq(Statements)]
    /\ block \in [Clients -> Blocks]
    /\ durable \subseteq Writes /\ stray \subseteq Writes /\ leaked \subseteq Clients
    /\ swallowed \subseteq Errors
    /\ losses \in 0 .. MaxLosses
    /\ faults \in FaultSets

LEMMA HeadType ==
    ASSUME Types, NEW k \in Clients, queue[k] # <<>>
    PROVE  /\ Head(queue[k]) \in Statements /\ Tail(queue[k]) \in Seq(Statements)
           /\ Owner(Head(queue[k])) \in [call : Calls, attempt : Nat]
<1>1. Head(queue[k]) \in Statements /\ Tail(queue[k]) \in Seq(Statements) BY DEF Types
<1>2. Owner(Head(queue[k])) \in [call : Calls, attempt : Nat] BY <1>1 DEF Owner, Statements
<1> QED BY <1>1, <1>2

LEMMA BlockTypes ==
    /\ IdleBlock \in Blocks /\ DeadBlock \in Blocks
    /\ \A s \in Statements : s.kind \in {"state", "event", "late"} => WriteOf(s) \in Writes
<1>1. IdleBlock \in Blocks /\ DeadBlock \in Blocks BY DEF IdleBlock, DeadBlock, Blocks
<1>2. \A s \in Statements : s.kind \in {"state", "event", "late"} => WriteOf(s) \in Writes
      BY BoundsAssumption DEF Statements, WriteOf, Writes
<1> QED BY <1>1, <1>2

LEMMA ExecutedTypes ==
    ASSUME Types, NEW k \in Clients, queue[k] # <<>>, NEW b \in Blocks, NEW ok \in BOOLEAN,
           Executed(k, b, ok), durable' \subseteq Writes, stray' \subseteq Writes
    PROVE  Types'
<1>1. queue' \in [Clients -> Seq(Statements)]
      BY HeadType DEF Executed, Types
<1>2. block' \in [Clients -> Blocks] BY DEF Executed, Types
<1>3. answer' \in [Calls -> {"none", "ok", "error"}]
  <2>1. Head(queue[k]).call \in Calls BY HeadType DEF Statements
  <2> QED BY <2>1 DEF Executed, Answered, Types
<1> QED BY <1>1, <1>2, <1>3 DEF Executed, Types, otherVars, poolVars

LEMMA ServerTypes ==
    ASSUME Types, NEW k \in Clients, Server(k)
    PROVE  Types'
<1> USE BlockTypes
<1>1. block[k] \in Blocks /\ block[k].writes \subseteq Writes BY DEF Types, Blocks
<1>2. CASE ServerRefuses(k)
      BY <1>1, <1>2, ExecutedTypes DEF ServerRefuses, Types
<1>3. CASE ServerBegins(k)
  <2> DEFINE b == [mode |-> "open", owner |-> Owner(Head(queue[k])), writes |-> {}]
  <2>1. queue[k] # <<>> BY <1>3 DEF ServerBegins, Next1
  <2>2. b \in Blocks BY <2>1, HeadType DEF Blocks
  <2>3. (IF block[k].mode = "open" THEN block[k] ELSE b) \in Blocks BY <1>1, <2>2
  <2>4. durable' \subseteq Writes /\ stray' \subseteq Writes
        BY <1>3 DEF ServerBegins, Types
  <2> QED BY <1>3, <2>1, <2>3, <2>4, ExecutedTypes DEF ServerBegins
<1>4. CASE ServerWrites(k)
  <2> DEFINE s == Head(queue[k])
             b == block[k]
  <2>1. queue[k] # <<>> /\ s.kind \in {"state", "event", "late"}
        BY <1>4 DEF ServerWrites, Next1
  <2>2. s \in Statements /\ WriteOf(s) \in Writes BY <2>1, HeadType
  <2>3. [b EXCEPT !.writes = @ \cup {WriteOf(s)}] \in Blocks
        /\ [b EXCEPT !.mode = "aborted", !.writes = {}] \in Blocks
        BY <1>1, <2>2 DEF Blocks
  <2>4. durable' \subseteq Writes /\ stray' \subseteq Writes
        BY <1>4, <2>2 DEF ServerWrites, Types
  <2>5. PICK d \in Blocks, ok \in BOOLEAN : Executed(k, d, ok)
    <3>1. CASE Executed(k, IF b.mode = "open"
                             THEN [b EXCEPT !.writes = @ \cup {WriteOf(s)}] ELSE b, TRUE)
          BY <1>1, <2>3, <3>1
    <3>2. CASE Executed(k, IF b.mode = "open"
                             THEN [b EXCEPT !.mode = "aborted", !.writes = {}] ELSE b, FALSE)
          BY <1>1, <2>3, <3>2
    <3>3. CASE Executed(k, b, FALSE) BY <1>1, <3>3
    <3> QED BY <1>4, <3>1, <3>2, <3>3 DEF ServerWrites
  <2> QED BY <2>1, <2>4, <2>5, ExecutedTypes
<1>5. CASE ServerCommits(k)
  <2>1. queue[k] # <<>> BY <1>5 DEF ServerCommits, Next1
  <2>2. durable' \subseteq Writes /\ stray' \subseteq Writes
        BY <1>1, <1>5 DEF ServerCommits, Types
  <2> QED BY <1>5, <2>1, <2>2, ExecutedTypes DEF ServerCommits
<1>6. CASE ServerRollsBack(k)
  <2>1. queue[k] # <<>> BY <1>6 DEF ServerRollsBack, Next1
  <2>2. durable' \subseteq Writes /\ stray' \subseteq Writes
        BY <1>6 DEF ServerRollsBack, Types
  <2> QED BY <1>6, <2>1, <2>2, ExecutedTypes DEF ServerRollsBack
<1> QED BY <1>2, <1>3, <1>4, <1>5, <1>6 DEF Server

LEMMA IssueTypes ==
    ASSUME Types, NEW c \in Calls, NEW k \in Clients, NEW kind \in Kinds,
           NEW label \in {"begin", "write", "sink", "commit", "rollback"},
           Issue(c, k, kind, label)
    PROVE  /\ queue' \in [Clients -> Seq(Statements)]
           /\ answer' \in [Calls -> {"none", "ok", "error"}]
           /\ pc' \in [Calls -> {"new", "begin", "types", "write", "sink", "commit",
                                 "rollback", "done"}]
           /\ UNCHANGED <<block, durable, stray>>
<1> DEFINE t == [call |-> c, attempt |-> attempt[c], kind |-> kind, waits |-> TRUE]
<1>1. t \in Statements BY DEF Types, Statements
<1>2. queue' \in [Clients -> Seq(Statements)]
  <2>1. queue' = [queue EXCEPT ![k] = Append(@, t)] BY DEF Issue, Statement
  <2> HIDE DEF t
  <2> QED BY <1>1, <2>1 DEF Types
<1>3. answer' \in [Calls -> {"none", "ok", "error"}] BY DEF Issue, Types
<1>4. pc' \in [Calls -> {"new", "begin", "types", "write", "sink", "commit", "rollback", "done"}]
      BY DEF Issue, Types
<1> QED BY <1>2, <1>3, <1>4 DEF Issue

LEMMA ReleaseTypes ==
    ASSUME Types, NEW c \in Calls, client[c] \in Clients, Release(c)
    PROVE  /\ free' \subseteq Clients /\ closed' \subseteq Clients
           /\ block' \in [Clients -> Blocks]
           /\ client' \in [Calls -> Clients \cup {NoClient}]
BY BlockTypes DEF Types, Release

LEMMA CallTypes ==
    ASSUME Types, PoolInv, NEW c \in Calls, Call(c)
    PROVE  Types'
<1>1. Holds(c) => client[c] \in Clients BY DEF PoolInv
<1>2. CASE Connect(c)
  <2>1. PICK k \in free :
            /\ free' = free \ {k} /\ client' = [client EXCEPT ![c] = k]
            /\ Issue(c, k, "BEGIN", "begin")
        BY <1>2 DEF Connect
  <2>2. k \in Clients BY <2>1 DEF Types
  <2>3. /\ queue' \in [Clients -> Seq(Statements)]
        /\ answer' \in [Calls -> {"none", "ok", "error"}]
        /\ pc' \in [Calls -> {"new", "begin", "types", "write", "sink", "commit",
                              "rollback", "done"}]
        /\ UNCHANGED <<block, durable, stray>>
        BY <2>1, <2>2, IssueTypes DEF Kinds
  <2> QED BY <1>2, <2>1, <2>2, <2>3 DEF Connect, Types
<1>3. CASE ConnectFails(c)
      BY <1>3 DEF ConnectFails, Settle, Types, serverVars, otherVars, poolVars
<1>4. CASE Begun(c)
      BY <1>4 DEF Begun, Types, serverVars, otherVars, poolVars
<1>5. CASE BeginFails(c)
      BY <1>1, <1>5 DEF BeginFails, Settle, Has, Holds, Types, serverVars
<1>6. ASSUME NEW kind \in Kinds, NEW label \in {"write", "sink", "commit", "rollback"},
             Holds(c), Issue(c, client[c], kind, label),
             UNCHANGED <<attempt, client, trx, outcome, late, free, closed, ending, stuck,
                         leaked, losses, faults>>, swallowed' \subseteq Errors,
             typesKnown' \in BOOLEAN, buffer' \in [Calls -> BOOLEAN]
      PROVE  Types'
  <2>1. /\ queue' \in [Clients -> Seq(Statements)]
        /\ answer' \in [Calls -> {"none", "ok", "error"}]
        /\ pc' \in [Calls -> {"new", "begin", "types", "write", "sink", "commit",
                              "rollback", "done"}]
        /\ UNCHANGED <<block, durable, stray>>
        BY <1>1, <1>6, IssueTypes
  <2> QED BY <1>6, <2>1 DEF Types
<1> USE DEF Kinds
<1>7. CASE Write(c)
      BY <1>6, <1>7 DEF Write, Holds, Types
<1>13. ASSUME NEW drains \in BOOLEAN, Drain(c, drains), Holds(c), swallowed' \subseteq Errors,
              UNCHANGED <<attempt, client, trx, outcome, late, poolVars, losses, faults>>
       PROVE  Types'
  <2>1. typesKnown' \in BOOLEAN /\ buffer' \in [Calls -> BOOLEAN]
        BY <1>13 DEF Drain, Types, poolVars
  <2>2. \/ Issue(c, client[c], "event", "sink")
        \/ Issue(c, client[c], "COMMIT", "commit")
        BY <1>13 DEF Drain
  <2> QED BY <1>6, <1>13, <2>1, <2>2 DEF poolVars
<1>8. CASE Flush(c)
  <2>1. Holds(c) /\ buffer[c] \in BOOLEAN /\ swallowed' \subseteq Errors
        BY <1>8 DEF Flush, Has, Holds, Types, otherVars
  <2> QED BY <1>8, <1>13, <2>1 DEF Flush, otherVars
<1>14. CASE FlushAnyway(c)
  <2>1. Holds(c) BY <1>14 DEF FlushAnyway, TypesFail, Has, Holds
  <2>2. PICK drains \in BOOLEAN :
            /\ Drain(c, drains)
            /\ swallowed' = swallowed \cup {[call |-> c, attempt |-> attempt[c],
                                mode |-> block[client[c]].mode, drains |-> drains]}
        BY <1>14 DEF FlushAnyway, Types
  <2>3. swallowed' \subseteq Errors
    <3>1. block[client[c]].mode \in {"idle", "open", "aborted", "dead"}
          BY <1>1, <2>1 DEF Types, Blocks
    <3>2. attempt[c] \in Nat BY DEF Types
    <3> QED BY <2>2, <3>1, <3>2 DEF Types, Errors
  <2> QED BY <1>13, <1>14, <2>1, <2>2, <2>3 DEF FlushAnyway
<1>9. CASE Commit(c)
      BY <1>6, <1>9 DEF Commit, Has, Holds, Types, otherVars, poolVars
<1>10. CASE Committed(c)
  <2>1. Holds(c) BY <1>10 DEF Committed, Has, Holds
  <2>2. /\ free' \subseteq Clients /\ closed' \subseteq Clients
        /\ block' \in [Clients -> Blocks]
        /\ client' \in [Calls -> Clients \cup {NoClient}]
        BY <1>1, <1>10, <2>1, ReleaseTypes DEF Committed
  <2> QED BY <1>10, <2>2 DEF Committed, Settle, Types
<1>11. CASE Rollback(c)
  <2>1. Holds(c) BY <1>11 DEF Rollback, TypesFail, Has, Holds
  <2> QED BY <1>6, <1>11, <2>1 DEF Rollback, Types, otherVars, poolVars
<1>12. CASE RolledBack(c)
  <2>1. Holds(c) BY <1>12 DEF RolledBack, Holds
  <2>2. /\ free' \subseteq Clients /\ closed' \subseteq Clients
        /\ block' \in [Clients -> Blocks]
        /\ client' \in [Calls -> Clients \cup {NoClient}]
        BY <1>1, <1>12, <2>1, ReleaseTypes DEF RolledBack
  <2> QED BY <1>12, <2>2 DEF RolledBack, Settle, Types
<1> QED BY <1>2, <1>3, <1>4, <1>5, <1>7, <1>8, <1>9, <1>10, <1>11, <1>12, <1>14 DEF Call

LEMMA ShortenedType ==
    ASSUME NEW s \in Seq(Statements), NEW i \in DOMAIN s
    PROVE  /\ [s EXCEPT ![1].waits = FALSE] \in Seq(Statements)
           /\ SubSeq(s, 1, i - 1) \o SubSeq(s, i + 1, Len(s)) \in Seq(Statements)
<1>1. 1 \in DOMAIN s /\ s[1] \in Statements OBVIOUS
<1>2. [s EXCEPT ![1].waits = FALSE] \in Seq(Statements)
  <2>1. [s[1] EXCEPT !.waits = FALSE] \in Statements BY <1>1 DEF Statements
  <2> QED BY <1>1, <2>1
<1>3. SubSeq(s, 1, i - 1) \in Seq(Statements) /\ SubSeq(s, i + 1, Len(s)) \in Seq(Statements)
      OBVIOUS
<1> QED BY <1>2, <1>3

LEMMA TypesStep ==
    ASSUME Types, PoolInv, [Next]_vars
    PROVE  Types'
<1>1. CASE Disconnect
      BY <1>1 DEF Disconnect, Types, callVars, serverVars
<1>2. ASSUME NEW k \in Clients, ConnectionLost(k) PROVE Types'
  <2>1. queue' \in [Clients -> Seq(Statements)] BY <1>2 DEF ConnectionLost, Types
  <2>2. block' \in [Clients -> Blocks] BY <1>2, BlockTypes DEF ConnectionLost, Types
  <2>3. answer' \in [Calls -> {"none", "ok", "error"}] BY <1>2 DEF ConnectionLost, Types
  <2>4. durable' \subseteq Writes
    <3>1. block[k].writes \subseteq Writes BY DEF Types, Blocks
    <3> QED BY <1>2, <3>1 DEF ConnectionLost, Types
  <2>5. losses' \in 0 .. MaxLosses BY <1>2, BoundsAssumption DEF ConnectionLost, Types
  <2> QED BY <1>2, <2>1, <2>2, <2>3, <2>4, <2>5 DEF ConnectionLost, Types, poolVars
<1>3. ASSUME NEW c \in Calls, QueryTimesOut(c) PROVE Types'
  <2>1. client[c] \in Clients BY <1>3 DEF QueryTimesOut, Types
  <2>2. PICK i \in DOMAIN queue[client[c]] :
            queue' = [queue EXCEPT ![client[c]] =
                IF i = 1 THEN [@ EXCEPT ![1].waits = FALSE]
                         ELSE SubSeq(@, 1, i - 1) \o SubSeq(@, i + 1, Len(@))]
        BY <1>3 DEF QueryTimesOut
  <2>3. queue' \in [Clients -> Seq(Statements)]
        BY <2>1, <2>2, ShortenedType DEF Types
  <2>4. answer' \in [Calls -> {"none", "ok", "error"}] BY <1>3 DEF QueryTimesOut, Types
  <2> QED BY <1>3, <2>3, <2>4 DEF QueryTimesOut, Types, otherVars, poolVars
<1>4. ASSUME NEW c \in Calls, Straggle(c) PROVE Types'
  <2> DEFINE t == [call |-> c, attempt |-> attempt[c], kind |-> "late", waits |-> FALSE]
  <2>1. t \in Statements BY DEF Types, Statements, Kinds
  <2>2. queue' \in [Clients -> Seq(Statements)]
    <3>1. \/ client[c] \in Clients /\ queue' = [queue EXCEPT ![client[c]] = Append(@, t)]
          \/ queue' = queue
          BY <1>4 DEF Straggle, Statement, Types
    <3> HIDE DEF t
    <3>2. CASE client[c] \in Clients /\ queue' = [queue EXCEPT ![client[c]] = Append(@, t)]
      <4>1. Append(queue[client[c]], t) \in Seq(Statements) BY <2>1, <3>2 DEF Types
      <4> QED BY <3>2, <4>1 DEF Types
    <3> QED BY <3>1, <3>2 DEF Types
  <2>3. late' \in [Calls -> {"off", "on"}] BY <1>4 DEF Straggle, Types
  <2> QED BY <1>4, <2>2, <2>3 DEF Straggle, Types, otherVars, poolVars
<1>5. ASSUME NEW c \in Calls, IssueAgain(c) PROVE Types'
  <2>1. attempt' \in [Calls -> 1 .. MaxAttempts]
        BY <1>5, BoundsAssumption DEF IssueAgain, Types
  <2>2. buffer' \in [Calls -> BOOLEAN] BY <1>5 DEF IssueAgain, Types
  <2> QED BY <1>5, <2>1, <2>2 DEF IssueAgain, Types, serverVars, otherVars, poolVars
<1>6. CASE UNCHANGED vars
      BY <1>6 DEF vars, callVars, serverVars, otherVars, poolVars, Types
<1> QED BY <1>1, <1>2, <1>3, <1>4, <1>5, <1>6, ServerTypes, CallTypes DEF Next

-----------------------------------------------------------------------------
(* The pool.                                                                *)

LEMMA InitFacts ==
    ASSUME Init
    PROVE  Types /\ PoolInv /\ QueueInv /\ CallInv /\ BlockInv /\ DurableInv
<1>1. Types
  <2>1. buffer \in [Calls -> BOOLEAN] BY DEF Init
  <2>2. queue \in [Clients -> Seq(Statements)] /\ block \in [Clients -> Blocks]
        BY BlockTypes DEF Init
  <2>3. attempt \in [Calls -> 1 .. MaxAttempts] /\ losses \in 0 .. MaxLosses
        BY BoundsAssumption DEF Init
  <2>4. client \in [Calls -> Clients \cup {NoClient}] BY DEF Init
  <2> QED BY <2>1, <2>2, <2>3, <2>4 DEF Init, Types
<1>2. PoolInv BY DEF Init, PoolInv, Holds
<1>3. QueueInv BY DEF Init, QueueInv, Awaits
<1>4. CallInv BY DEF Init, CallInv, CallOK
<1>5. BlockInv
  <2>1. \A k \in Clients : block[k] = IdleBlock /\ block[k].mode # "dead" /\ DOMAIN queue[k] = {}
        BY DEF Init, IdleBlock
  <2>2. \A c \in Calls : ~Holds(c) /\ client[c] = NoClient BY DEF Init, Holds
  <2> QED BY <2>1, <2>2 DEF BlockInv
<1>6. DurableInv
      BY DEF Init, DurableInv, CommittedOnly, CommittedIndeed, AllOrNothing, CommitAnswered
<1> QED BY <1>1, <1>2, <1>3, <1>4, <1>5, <1>6

\* A call that keeps its client leaves the pool as it is.
LEMMA PoolKept ==
    ASSUME PoolInv, \A c \in Calls : (Holds(c) <=> Holds(c)'),
           \A c \in Calls : Holds(c) => client'[c] = client[c],
           UNCHANGED <<free, closed, ending, leaked>>
    PROVE  PoolInv'
BY DEF PoolInv

\* A call that releases its client gives it to the pool.
LEMMA PoolReleased ==
    ASSUME Types, PoolInv, NEW c \in Calls, Holds(c), Release(c), ~Holds(c)',
           \A d \in Calls \ {c} : (Holds(d) <=> Holds(d)'),
           UNCHANGED <<ending, leaked>>
    PROVE  PoolInv'
<1> DEFINE k == client[c]
<1>1. k \in Clients \ (free \cup closed \cup leaked) BY DEF PoolInv
<1>2. \A d \in Calls \ {c} : client'[d] = client[d] BY DEF Release, Types
<1>3. \A d \in Calls \ {c} : Holds(d) => client[d] # k BY DEF PoolInv
<1>4. /\ free' \cup closed' = free \cup closed \cup {k}
      /\ IF ending THEN free' = {} ELSE closed' = {}
      BY DEF Release, PoolInv
<1> HIDE DEF k
<1>5. \A d \in Calls : Holds(d)' => client'[d] \in Clients \ (free' \cup closed' \cup leaked')
      BY <1>2, <1>3, <1>4 DEF PoolInv
<1>6. \A d, e \in Calls : Holds(d)' /\ Holds(e)' /\ client'[d] = client'[e] => d = e
      BY <1>2 DEF PoolInv
<1>7. leaked' \cap (free' \cup closed') = {} /\ (IF ending' THEN free' = {} ELSE closed' = {})
      BY <1>1, <1>4 DEF PoolInv
<1>8. ASSUME NEW j \in Clients
      PROVE  j \in free' \cup closed' \cup leaked' \/ \E d \in Calls : Holds(d)' /\ client'[d] = j
      BY <1>2, <1>4, <1>8 DEF PoolInv, k
<1> QED BY <1>5, <1>6, <1>7, <1>8 DEF PoolInv

LEMMA PoolConnect ==
    ASSUME Types, PoolInv, NEW c \in Calls, Connect(c)
    PROVE  PoolInv'
<1>1. PICK k \in free :
          /\ free' = free \ {k} /\ client' = [client EXCEPT ![c] = k]
          /\ pc' = [pc EXCEPT ![c] = "begin"]
      BY DEF Connect, Issue
<1>2. UNCHANGED <<closed, ending, leaked>> BY DEF Connect
<1>3. k \in Clients /\ k \notin leaked BY <1>1 DEF Types, PoolInv
<1>4. k \notin closed
      BY <1>1 DEF PoolInv
<1>5. Holds(c)' /\ ~Holds(c) /\ client'[c] = k BY <1>1 DEF Connect, Holds, Types
<1>6. \A d \in Calls \ {c} : (Holds(d) <=> Holds(d)') /\ client'[d] = client[d]
      BY <1>1 DEF Holds, Types
<1>7. \A d \in Calls : Holds(d) => client[d] # k BY <1>1 DEF PoolInv
<1> QED BY <1>1, <1>2, <1>3, <1>4, <1>5, <1>6, <1>7 DEF PoolInv

LEMMA PoolBeginFails ==
    ASSUME Types, PoolInv, NEW c \in Calls, BeginFails(c)
    PROVE  PoolInv'
<1>1. /\ Holds(c) /\ ~Holds(c)' /\ leaked' = leaked \cup {client[c]}
      /\ UNCHANGED <<client, free, closed, ending>>
      BY DEF BeginFails, Has, Settle, Holds, Types
<1>2. \A d \in Calls \ {c} : Holds(d) <=> Holds(d)'
      BY DEF BeginFails, Settle, Holds, Types
<1> QED BY <1>1, <1>2 DEF PoolInv

LEMMA PoolStep ==
    ASSUME Types, PoolInv, [Next]_vars
    PROVE  PoolInv'
<1>1. CASE Disconnect
  <2>1. UNCHANGED <<pc, client, leaked>> /\ free' = {} /\ closed' = free /\ ending'
        BY <1>1 DEF Disconnect, callVars
  <2>2. ~ending /\ closed = {} BY <1>1 DEF Disconnect, PoolInv
  <2> QED BY <2>1, <2>2 DEF PoolInv, Holds
<1>2. ASSUME UNCHANGED <<pc, client, free, closed, ending, leaked>> PROVE PoolInv'
      BY <1>2 DEF PoolInv, Holds
<1>3. ASSUME NEW k \in Clients, Server(k) PROVE PoolInv'
      BY <1>2, <1>3 DEF Server, ServerRefuses, ServerBegins, ServerWrites, ServerCommits,
                        ServerRollsBack, Executed, otherVars, poolVars
<1>4. ASSUME NEW k \in Clients, ConnectionLost(k) PROVE PoolInv'
      BY <1>2, <1>4 DEF ConnectionLost, poolVars
<1>5. ASSUME NEW c \in Calls, Call(c) PROVE PoolInv'
  <2>1. CASE Connect(c) BY <2>1, PoolConnect
  <2>2. CASE BeginFails(c) BY <2>2, PoolBeginFails
  <2>3. CASE Committed(c) \/ RolledBack(c)
    <3>1. Holds(c) /\ Release(c) /\ ~Holds(c)' /\ UNCHANGED <<ending, leaked>>
          BY <2>3 DEF Committed, RolledBack, Has, Settle, Holds, Types
    <3>2. \A d \in Calls \ {c} : Holds(d) <=> Holds(d)'
          BY <2>3 DEF Committed, RolledBack, Settle, Holds, Types
    <3> QED BY <3>1, <3>2, PoolReleased
  <2>4. CASE \/ ConnectFails(c) \/ Begun(c) \/ Write(c) \/ Flush(c) \/ FlushAnyway(c)
             \/ Commit(c) \/ Rollback(c)
    <3>1. UNCHANGED <<client, free, closed, ending, leaked>>
          BY <2>4 DEF ConnectFails, Begun, Write, Flush, FlushAnyway, Commit, Rollback,
                      otherVars, poolVars
    <3>2. \A d \in Calls : Holds(d) <=> Holds(d)'
      <4>1. CASE ConnectFails(c) \/ Begun(c)
            BY <4>1 DEF ConnectFails, Begun, Settle, Has, Holds, Types
      <4>2. CASE Write(c) BY <4>2 DEF Write, Issue, Holds, Types
      <4>3. CASE Flush(c) \/ FlushAnyway(c)
        <5>1. \/ Issue(c, client[c], "event", "sink")
              \/ Issue(c, client[c], "COMMIT", "commit")
              BY <4>3 DEF Flush, FlushAnyway, Drain
        <5>2. Holds(c) BY <4>3 DEF Flush, FlushAnyway, TypesFail, Has, Holds
        <5> QED BY <5>1, <5>2 DEF Issue, Holds, Types
      <4>4. CASE Commit(c) BY <4>4 DEF Commit, Issue, Has, Holds, Types
      <4>5. CASE Rollback(c) BY <4>5 DEF Rollback, TypesFail, Issue, Has, Holds, Types
      <4> QED BY <2>4, <4>1, <4>2, <4>3, <4>4, <4>5
    <3> QED BY <3>1, <3>2, PoolKept
  <2> QED BY <1>5, <2>1, <2>2, <2>3, <2>4 DEF Call
<1>6. ASSUME NEW c \in Calls, QueryTimesOut(c) \/ Straggle(c) PROVE PoolInv'
      BY <1>2, <1>6 DEF QueryTimesOut, Straggle, otherVars, poolVars
<1>7. ASSUME NEW c \in Calls, IssueAgain(c) PROVE PoolInv'
  <2>1. UNCHANGED <<free, closed, ending, leaked>> BY <1>7 DEF IssueAgain, otherVars, poolVars
  <2>2. \A d \in Calls : (Holds(d) <=> Holds(d)') /\ (Holds(d) => client'[d] = client[d])
        BY <1>7 DEF IssueAgain, Holds, Types
  <2> QED BY <2>1, <2>2, PoolKept
<1>8. CASE UNCHANGED vars
      BY <1>2, <1>8 DEF vars, callVars, otherVars, poolVars
<1> QED BY <1>1, <1>3, <1>4, <1>5, <1>6, <1>7, <1>8 DEF Next

-----------------------------------------------------------------------------
(* The calls.                                                               *)

LEMMA CallStep ==
    ASSUME Types, CallInv, [Next]_vars
    PROVE  CallInv'
<1> USE DEF CallInv, CallOK
<1>1. ASSUME UNCHANGED <<pc, trx, buffer, outcome, late, faults>> PROVE CallInv'
      BY <1>1
<1>2. CASE Disconnect BY <1>1, <1>2 DEF Disconnect, callVars
<1>3. ASSUME NEW k \in Clients, Server(k) \/ ConnectionLost(k) PROVE CallInv'
      BY <1>1, <1>3 DEF Server, ServerRefuses, ServerBegins, ServerWrites, ServerCommits,
                        ServerRollsBack, Executed, ConnectionLost, otherVars
<1>4. ASSUME NEW c \in Calls, Call(c) PROVE CallInv'
  <2>1. CASE Connect(c) BY <2>1 DEF Connect, Issue, Types
  <2>2. CASE ConnectFails(c) BY <2>2 DEF ConnectFails, Settle, otherVars, Types
  <2>3. CASE Begun(c) BY <2>3 DEF Begun, Has, otherVars, Types
  <2>4. CASE BeginFails(c) BY <2>4 DEF BeginFails, Settle, Has, Types
  <2>5. CASE Write(c) BY <2>5 DEF Write, Issue, Types
  <2>6. CASE Flush(c) \/ FlushAnyway(c)
    <3>1. PICK drains \in BOOLEAN : Drain(c, drains) /\ (drains => buffer[c])
          BY <2>6 DEF Flush, FlushAnyway, Types
    <3>2. pc[c] \in {"types", "write"} /\ pc'[c] \in {"sink", "commit"}
          /\ (buffer'[c] => buffer[c]) /\ (pc'[c] = "sink" => buffer[c])
          BY <2>6, <3>1 DEF Flush, FlushAnyway, TypesFail, Drain, Has, Issue, Types
    <3>3. UNCHANGED <<trx, outcome, late, faults>> BY <2>6 DEF Flush, FlushAnyway, otherVars
    <3>4. \A d \in Calls \ {c} : pc'[d] = pc[d] /\ buffer'[d] = buffer[d]
          BY <3>1 DEF Drain, Issue, Types
    <3> QED BY <3>2, <3>3, <3>4
  <2>7. CASE Commit(c) BY <2>7 DEF Commit, Issue, Has, otherVars, Types
  <2>8. CASE Committed(c) BY <2>8 DEF Committed, Settle, Has, Types
  <2>9. CASE Rollback(c)
    <3>1. pc[c] \in {"types", "write", "sink", "commit"} /\ pc' = [pc EXCEPT ![c] = "rollback"]
          BY <2>9 DEF Rollback, TypesFail, Has, Issue
    <3>2. UNCHANGED <<trx, buffer, outcome, late, faults>> BY <2>9 DEF Rollback, otherVars
    <3> QED BY <3>1, <3>2 DEF Types
  <2>10. CASE RolledBack(c) BY <2>10 DEF RolledBack, Settle, Types
  <2> QED BY <1>4, <2>1, <2>2, <2>3, <2>4, <2>5, <2>6, <2>7, <2>8, <2>9, <2>10 DEF Call
<1>5. ASSUME NEW c \in Calls, QueryTimesOut(c) PROVE CallInv'
      BY <1>1, <1>5 DEF QueryTimesOut, otherVars
<1>6. ASSUME NEW c \in Calls, Straggle(c) PROVE CallInv'
      BY <1>6 DEF Straggle, otherVars, Types
<1>7. ASSUME NEW c \in Calls, IssueAgain(c) PROVE CallInv'
  <2>1. /\ pc' = [pc EXCEPT ![c] = "new"] /\ outcome' = [outcome EXCEPT ![c] = "none"]
        /\ trx' = [trx EXCEPT ![c] = "NotStarted"] /\ late[c] = "off"
        /\ UNCHANGED <<late, faults>>
        BY <1>7 DEF IssueAgain, otherVars
  <2>2. /\ \A d \in Calls \ {c} : buffer'[d] = buffer[d]
        /\ buffer'[c] => c \in Recording
        /\ "reuse" \notin faults /\ c \in Recording => buffer'[c]
        BY <1>7 DEF IssueAgain, Types
  <2> QED BY <2>1, <2>2 DEF Types
<1>8. CASE UNCHANGED vars
      BY <1>1, <1>8 DEF vars, callVars, otherVars
<1> QED BY <1>2, <1>3, <1>4, <1>5, <1>6, <1>7, <1>8 DEF Next

-----------------------------------------------------------------------------
(* What is awaited.                                                         *)

LEMMA Withdrawn ==
    ASSUME NEW s \in Seq(Statements), NEW i \in 1 .. Len(s),
           NEW t, t = SubSeq(s, 1, i - 1) \o SubSeq(s, i + 1, Len(s))
    PROVE  \A j \in DOMAIN t : \E m \in DOMAIN s \ {i} : t[j] = s[m]
<1> DEFINE a == SubSeq(s, 1, i - 1)
           b == SubSeq(s, i + 1, Len(s))
<1>1. Len(s) \in Nat /\ Len(s) \in Int /\ DOMAIN s = 1 .. Len(s)
      /\ i \in Int /\ 1 <= i /\ i <= Len(s)
      OBVIOUS
<1>2. a \in Seq(Statements) /\ Len(a) = i - 1 /\ \A m \in 1 .. i - 1 : a[m] = s[m]
      BY <1>1
<1>3. b \in Seq(Statements) /\ Len(b) = Len(s) - i /\ \A m \in 1 .. Len(s) - i : b[m] = s[i + m]
  <2>1. /\ b \in Seq(Statements)
        /\ Len(b) = IF i + 1 <= Len(s) THEN Len(s) - (i + 1) + 1 ELSE 0
    <3>1. i + 1 \in Int /\ Len(s) \in Int /\ \A m \in i + 1 .. Len(s) : s[m] \in Statements
          BY <1>1
    <3> QED BY <3>1, SubSeqProperties, Zenon
  <2>2. \A m \in 1 .. Len(s) - i : b[m] = s[i + 1 + m - 1]
        BY <1>1, SubSeqProperties
  <2> HIDE DEF b
  <2>3. Len(b) = Len(s) - i
    <3>1. CASE i + 1 <= Len(s) BY <1>1, <2>1, <3>1
    <3>2. CASE i = Len(s) BY <1>1, <2>1, <3>2
    <3>3. i + 1 <= Len(s) \/ i = Len(s)
      <4>1. \A x, y \in Int : x <= y => x + 1 <= y \/ x = y OBVIOUS
      <4> QED BY <1>1, <4>1, Zenon
    <3> QED BY <3>1, <3>2, <3>3, Zenon
  <2> QED BY <2>1, <2>2, <2>3
<1> HIDE DEF a, b
<1>4. ASSUME NEW j \in DOMAIN (a \o b)
      PROVE  \E m \in DOMAIN s \ {i} : (a \o b)[j] = s[m]
  <2>1. j \in 1 .. Len(a) + Len(b)
        /\ (a \o b)[j] = IF j <= Len(a) THEN a[j] ELSE b[j - Len(a)]
        BY <1>2, <1>3
  <2>2. CASE j <= Len(a)
    <3>1. j \in 1 .. i - 1 /\ j \in DOMAIN s \ {i} BY <1>1, <1>2, <1>3, <2>1, <2>2
    <3>2. (a \o b)[j] = s[j] BY <1>2, <2>1, <2>2, <3>1
    <3> QED BY <3>1, <3>2
  <2>3. CASE ~(j <= Len(a))
    <3>4. i \in Int /\ j \in Int /\ j <= Len(s) - 1 /\ j > i - 1
          BY <1>1, <1>2, <1>3, <2>1, <2>3
    <3>1. j - Len(a) \in 1 .. Len(s) - i /\ i + (j - Len(a)) \in DOMAIN s \ {i}
          BY <1>1, <1>2, <3>4
    <3>2. (a \o b)[j] = s[i + (j - Len(a))] BY <1>3, <2>1, <2>3, <3>1
    <3> QED BY <3>1, <3>2
  <2> QED BY <2>2, <2>3
<1> QED BY <1>4 DEF a, b

LEMMA QueueFacts ==
    ASSUME Types, NEW k \in Clients
    PROVE  /\ queue[k] \in Seq(Statements) /\ Len(queue[k]) \in Nat
           /\ DOMAIN queue[k] = 1 .. Len(queue[k])
           /\ \A i \in DOMAIN queue[k] : queue[k][i] \in Statements /\ queue[k][i].call \in Calls
<1>1. queue[k] \in Seq(Statements) BY DEF Types
<1>2. \A i \in DOMAIN queue[k] : queue[k][i] \in Statements BY <1>1
<1>3. \A s \in Statements : s.call \in Calls BY DEF Statements
<1> QED BY <1>1, <1>2, <1>3

\* A call that awaits nothing, and goes on without a statement.
LEMMA QueueKept ==
    ASSUME Types, QueueInv, NEW c \in Calls, ~Awaits(c), ~Awaits(c)', queue' = queue,
           \A d \in Calls \ {c} : /\ pc'[d] = pc[d] /\ answer'[d] = answer[d]
                                  /\ client'[d] = client[d] /\ attempt'[d] = attempt[d]
    PROVE  QueueInv'
<1>1. \A d \in Calls \ {c} : Awaits(d)' <=> Awaits(d) BY DEF Awaits
<1>2. ASSUME NEW k \in Clients, NEW i \in DOMAIN queue[k], queue[k][i].waits
      PROVE  Asked(queue[k][i], k)'
  <2>1. queue[k][i].call \in Calls BY QueueFacts
  <2>2. Asked(queue[k][i], k) BY <1>2 DEF QueueInv
  <2> QED BY <1>1, <2>1, <2>2 DEF Asked
<1>3. \A d \in Calls : Awaits(d)' => Awaits(d) /\ client'[d] = client[d]
      BY <1>1
<1> QED BY <1>2, <1>3 DEF QueueInv

\* The first statement of a queue is answered.
LEMMA QueueExecuted ==
    ASSUME Types, QueueInv, NEW k \in Clients, queue[k] # <<>>,
           NEW b, NEW ok \in BOOLEAN, Executed(k, b, ok)
    PROVE  QueueInv'
<1> DEFINE s == Head(queue[k])
<1>1. s = queue[k][1] /\ 1 \in DOMAIN queue[k] /\ s.call \in Calls
  <2>1. s = queue[k][1] /\ 1 \in DOMAIN queue[k] BY QueueFacts
  <2> QED BY <2>1, QueueFacts
<1>2. /\ queue'[k] = Tail(queue[k]) /\ \A j \in Clients \ {k} : queue'[j] = queue[j]
      /\ UNCHANGED <<pc, attempt, client>>
      BY DEF Executed, Types
<1>3. /\ \A i \in DOMAIN queue'[k] :
            i + 1 \in DOMAIN queue[k] /\ queue'[k][i] = queue[k][i + 1] /\ i \in Nat \ {0}
      /\ \A i \in DOMAIN queue[k] : i # 1 =>
            i - 1 \in DOMAIN queue'[k] /\ queue'[k][i - 1] = queue[k][i]
      BY <1>2, QueueFacts
<1>4. \A d \in Calls : answer'[d] = answer[d] \/ (s.waits /\ d = s.call /\ answer'[d] # "none")
      BY <1>1 DEF Executed, Answered, Types
<1>5. \A d \in Calls : Awaits(d)' <=> Awaits(d) /\ ~(s.waits /\ d = s.call)
  <2>1. s.waits => answer'[s.call] # "none" BY <1>1 DEF Executed, Answered, Types
  <2> QED BY <1>2, <1>4, <2>1 DEF Awaits
<1> HIDE DEF s
<1>6. ASSUME NEW j \in Clients, NEW i \in DOMAIN queue'[j]
      PROVE  \E m \in DOMAIN queue[j] : queue'[j][i] = queue[j][m] /\ (j = k => m # 1)
  <2>1. CASE j = k BY <1>3, <2>1
  <2>2. CASE j # k BY <1>2, <2>2
  <2> QED BY <2>1, <2>2
<1>7. ASSUME NEW j \in Clients, NEW i \in DOMAIN queue'[j], queue'[j][i].waits
      PROVE  Asked(queue[j][i], j)'
  <2>1. PICK m \in DOMAIN queue[j] : queue'[j][i] = queue[j][m] /\ (j = k => m # 1)
        BY <1>6
  <2>2. PICK t \in Statements : t = queue[j][m] /\ t.call \in Calls BY QueueFacts
  <2>3. t.waits /\ Asked(t, j) BY <1>7, <2>1, <2>2 DEF QueueInv
  <2>4. ~(s.waits /\ t.call = s.call)
    <3>1. SUFFICES ASSUME s.waits, t.call = s.call PROVE FALSE OBVIOUS
    <3>2. Asked(s, k) BY <1>1, <3>1 DEF QueueInv
    <3>3. j = k BY <2>3, <3>1, <3>2 DEF Asked
    <3>4. m = 1 BY <1>1, <2>2, <2>3, <3>1, <3>3 DEF QueueInv
    <3> QED BY <2>1, <3>3, <3>4
  <2>5. Awaits(t.call)' BY <1>5, <2>2, <2>3, <2>4 DEF Asked
  <2>6. Asked(t, j)' BY <1>2, <2>3, <2>5 DEF Asked
  <2> QED BY <2>1, <2>2, <2>6 DEF Asked, Awaits
<1>8. ASSUME NEW j \in Clients, NEW i \in DOMAIN queue'[j], NEW h \in DOMAIN queue'[j],
             queue'[j][i].waits, queue'[j][h].waits
      PROVE  i = h
  <2>1. CASE j = k
    <3>1. i + 1 = h + 1 BY <1>3, <1>8, <2>1 DEF QueueInv
    <3> QED BY <1>3, <2>1, <3>1
  <2>2. CASE j # k BY <1>2, <1>8, <2>2 DEF QueueInv
  <2> QED BY <2>1, <2>2
<1>9. ASSUME NEW c \in Calls, Awaits(c)'
      PROVE  \E i \in DOMAIN queue'[client'[c]] :
                queue'[client'[c]][i].call = c /\ queue'[client'[c]][i].waits
  <2>1. Awaits(c) /\ ~(s.waits /\ c = s.call) BY <1>5, <1>9
  <2>2. PICK i \in DOMAIN queue[client[c]] :
            queue[client[c]][i].call = c /\ queue[client[c]][i].waits
        BY <2>1 DEF QueueInv
  <2>3. CASE client[c] = k
    <3>1. i # 1 BY <1>1, <2>1, <2>2, <2>3
    <3>2. i - 1 \in DOMAIN queue'[k] /\ queue'[k][i - 1] = queue[k][i]
          BY <1>3, <2>2, <2>3, <3>1
    <3> QED BY <1>2, <2>2, <2>3, <3>2
  <2>4. CASE client[c] # k
    <3>1. queue'[client[c]] = queue[client[c]]
          BY <2>4 DEF Executed, Types
    <3> QED BY <1>2, <2>2, <3>1
  <2> QED BY <2>3, <2>4
<1> QED BY <1>7, <1>8, <1>9 DEF QueueInv


\* A call that awaits nothing issues a statement on the client it holds.
LEMMA QueueIssued ==
    ASSUME Types, QueueInv, NEW c \in Calls, NEW k \in Clients, NEW kind,
           NEW label \in {"begin", "write", "sink", "commit", "rollback"},
           KindAt[label] = kind, ~Awaits(c), Issue(c, k, kind, label),
           client'[c] = k, attempt' = attempt,
           \A d \in Calls \ {c} : client'[d] = client[d] /\ (Awaits(d) => client[d] # k)
    PROVE  QueueInv'
<1>9. PICK t : t = [call |-> c, attempt |-> attempt[c], kind |-> kind, waits |-> TRUE]
      OBVIOUS
<1>2. t.waits /\ t.call = c /\ t.attempt = attempt[c] /\ t.kind = kind BY <1>9
<1> DEFINE n == Len(queue[k]) + 1
<1>1. /\ queue'[k] = Append(queue[k], t) /\ \A j \in Clients \ {k} : queue'[j] = queue[j]
      /\ queue' = [queue EXCEPT ![k] = Append(@, t)]
      /\ pc'[c] = label /\ answer'[c] = "none"
      /\ \A d \in Calls \ {c} : pc'[d] = pc[d] /\ answer'[d] = answer[d]
      BY <1>9 DEF Issue, Statement, Types
<1>3. /\ DOMAIN queue'[k] = 1 .. n /\ DOMAIN queue[k] = 1 .. n - 1 /\ n \in Nat \ {0}
      /\ queue'[k][n] = t /\ \A i \in 1 .. n - 1 : queue'[k][i] = queue[k][i]
  <2>1. queue[k] \in Seq(Statements) /\ Len(queue[k]) \in Nat BY QueueFacts
  <2> QED BY <1>1, <2>1
<1> HIDE DEF n
<1>4. Awaits(c)' /\ \A d \in Calls \ {c} : Awaits(d)' <=> Awaits(d)
      BY <1>1 DEF Awaits
<1>5. \A i \in DOMAIN queue[k] : ~queue[k][i].waits
  <2>1. SUFFICES ASSUME NEW i \in DOMAIN queue[k], queue[k][i].waits PROVE FALSE
        OBVIOUS
  <2>2. Asked(queue[k][i], k) /\ queue[k][i].call \in Calls BY <2>1, QueueFacts DEF QueueInv
  <2> QED BY <2>2 DEF Asked
<1>6. ASSUME NEW j \in Clients, NEW i \in DOMAIN queue'[j], queue'[j][i].waits
      PROVE  Asked(queue[j][i], j)'
  <2>1. CASE j = k
    <3>1. i = n BY <1>3, <1>5, <1>6, <2>1
    <3>2. queue'[j][i] = t BY <1>3, <2>1, <3>1
    <3>3. Asked(t, k)' BY <1>1, <1>2, <1>4 DEF Asked
    <3> QED BY <2>1, <3>2, <3>3 DEF Asked, Awaits
  <2>2. CASE j # k
    <3>1. queue'[j] = queue[j] BY <1>1, <2>2
    <3>2. PICK s \in Statements : s = queue[j][i] /\ s.call \in Calls BY <3>1, QueueFacts
    <3>3. Asked(s, j) BY <1>6, <3>1, <3>2 DEF QueueInv
    <3>4. s.call # c BY <3>3 DEF Asked
    <3>5. Asked(s, j)' BY <1>1, <1>4, <3>2, <3>3, <3>4 DEF Asked
    <3> QED BY <3>1, <3>2, <3>5 DEF Asked, Awaits
  <2> QED BY <2>1, <2>2
<1>7. ASSUME NEW j \in Clients, NEW i \in DOMAIN queue'[j], NEW h \in DOMAIN queue'[j],
             queue'[j][i].waits, queue'[j][h].waits
      PROVE  i = h
  <2>1. CASE j = k
    <3>1. i = n /\ h = n BY <1>3, <1>5, <1>7, <2>1
    <3> QED BY <3>1
  <2>2. CASE j # k BY <1>1, <1>7, <2>2 DEF QueueInv
  <2> QED BY <2>1, <2>2
<1>8. ASSUME NEW d \in Calls, Awaits(d)'
      PROVE  \E i \in DOMAIN queue'[client'[d]] :
                queue'[client'[d]][i].call = d /\ queue'[client'[d]][i].waits
  <2>1. CASE d = c
    <3>1. n \in DOMAIN queue'[k] /\ queue'[k][n].call = c /\ queue'[k][n].waits
          BY <1>2, <1>3
    <3> QED BY <2>1, <3>1
  <2>2. CASE d # c
    <3>1. Awaits(d) /\ client'[d] = client[d] /\ client[d] # k BY <1>4, <1>8, <2>2
    <3>2. queue'[client[d]] = queue[client[d]]
          BY <1>1, <3>1 DEF Types
    <3> QED BY <3>1, <3>2 DEF QueueInv
  <2> QED BY <2>1, <2>2
<1> QED BY <1>6, <1>7, <1>8 DEF QueueInv

\* Statements that nobody awaits leave, come or are forgotten, and so is an awaited one
\* whose call gets an error.
LEMMA QueueShortened ==
    ASSUME Types, PoolInv, QueueInv, NEW k \in Clients, NEW Gone \in SUBSET Calls,
           UNCHANGED <<pc, attempt, client>>,
           \A d \in Calls : IF d \in Gone THEN answer'[d] = "error" ELSE answer'[d] = answer[d],
           \A j \in Clients \ {k} : queue'[j] = queue[j],
           \A j \in Clients \ {k} : \A i \in DOMAIN queue[j] :
                queue[j][i].waits => queue[j][i].call \notin Gone,
           \A i \in DOMAIN queue[k] : queue[k][i].waits /\ queue[k][i].call \notin Gone =>
                i \in DOMAIN queue'[k] /\ queue'[k][i] = queue[k][i],
           \A i \in DOMAIN queue'[k] : queue'[k][i].waits =>
                i \in DOMAIN queue[k] /\ queue[k][i] = queue'[k][i] /\ queue[k][i].call \notin Gone
    PROVE  QueueInv'
<1>1. \A d \in Calls : Awaits(d)' <=> Awaits(d) /\ d \notin Gone
  <2>1. \A d \in Gone : ~Awaits(d)' BY DEF Awaits
  <2>2. \A d \in Calls \ Gone : Awaits(d)' <=> Awaits(d) BY DEF Awaits
  <2> QED BY <2>1, <2>2
<1>2. ASSUME NEW j \in Clients, NEW i \in DOMAIN queue'[j], queue'[j][i].waits
      PROVE  /\ i \in DOMAIN queue[j] /\ queue'[j][i] = queue[j][i]
             /\ queue[j][i].call \notin Gone
      BY <1>2
<1>3. ASSUME NEW j \in Clients, NEW i \in DOMAIN queue'[j], queue'[j][i].waits
      PROVE  Asked(queue[j][i], j)'
  <2>4. i \in DOMAIN queue[j] /\ queue'[j][i] = queue[j][i] /\ queue[j][i].call \notin Gone
        BY <1>2, <1>3
  <2>1. PICK s \in Statements : s = queue'[j][i] /\ s = queue[j][i] /\ s.call \in Calls \ Gone
        BY <2>4, QueueFacts
  <2>2. Asked(s, j) BY <1>3, <2>1, <2>4 DEF QueueInv
  <2>3. Asked(s, j)' BY <1>1, <2>1, <2>2 DEF Asked
  <2> QED BY <2>1, <2>3 DEF Asked, Awaits
<1>4. ASSUME NEW j \in Clients, NEW i \in DOMAIN queue'[j], NEW h \in DOMAIN queue'[j],
             queue'[j][i].waits, queue'[j][h].waits
      PROVE  i = h
  <2>1. i \in DOMAIN queue[j] /\ queue[j][i].waits BY <1>2, <1>4
  <2>2. h \in DOMAIN queue[j] /\ queue[j][h].waits BY <1>2, <1>4
  <2> QED BY <2>1, <2>2 DEF QueueInv
<1>5. ASSUME NEW d \in Calls, Awaits(d)'
      PROVE  \E i \in DOMAIN queue'[client'[d]] :
                queue'[client'[d]][i].call = d /\ queue'[client'[d]][i].waits
  <2>1. Awaits(d) /\ d \notin Gone BY <1>1, <1>5
  <2>2. PICK i \in DOMAIN queue[client[d]] :
            queue[client[d]][i].call = d /\ queue[client[d]][i].waits
        BY <2>1 DEF QueueInv
  <2>3. CASE client[d] = k BY <2>1, <2>2, <2>3
  <2>4. CASE client[d] \in Clients \ {k} BY <2>1, <2>2, <2>4
  <2>5. client[d] \in Clients BY <2>1 DEF PoolInv, Awaits, Holds
  <2> QED BY <2>3, <2>4, <2>5
<1> QED BY <1>3, <1>4, <1>5 DEF QueueInv

\* A call never awaits two things: it issues a statement only on its own client.
LEMMA QueueIssuedByHolder ==
    ASSUME Types, PoolInv, QueueInv, NEW c \in Calls, Holds(c), ~Awaits(c), NEW kind,
           NEW label \in {"write", "sink", "commit", "rollback"}, KindAt[label] = kind,
           Issue(c, client[c], kind, label), UNCHANGED <<client, attempt>>
    PROVE  QueueInv'
<1>1. client[c] \in Clients /\ \A d \in Calls \ {c} : Awaits(d) => client[d] # client[c]
      BY DEF PoolInv, Awaits, Holds
<1> QED BY <1>1, QueueIssued

LEMMA QueueServer ==
    ASSUME Types, QueueInv, NEW k \in Clients, Server(k)
    PROVE  QueueInv'
<1>1. queue[k] # <<>>
      BY DEF Server, ServerRefuses, ServerBegins, ServerWrites, ServerCommits, ServerRollsBack,
             Next1
<1>2. \E b : Executed(k, b, TRUE) \/ Executed(k, b, FALSE)
  <2>1. CASE ServerRefuses(k) BY <2>1 DEF ServerRefuses
  <2>2. CASE ServerBegins(k) BY <2>2 DEF ServerBegins
  <2>3. CASE ServerWrites(k) BY <2>3 DEF ServerWrites
  <2>4. CASE ServerCommits(k) BY <2>4 DEF ServerCommits
  <2>5. CASE ServerRollsBack(k) BY <2>5 DEF ServerRollsBack
  <2> QED BY <2>1, <2>2, <2>3, <2>4, <2>5 DEF Server
<1>3. ASSUME NEW b, Executed(k, b, TRUE) PROVE QueueInv' BY <1>1, <1>3, QueueExecuted
<1>4. ASSUME NEW b, Executed(k, b, FALSE) PROVE QueueInv' BY <1>1, <1>4, QueueExecuted
<1> QED BY <1>2, <1>3, <1>4

LEMMA QueueConnectionLost ==
    ASSUME Types, PoolInv, QueueInv, NEW k \in Clients, ConnectionLost(k)
    PROVE  QueueInv'
<1>1. /\ UNCHANGED <<pc, attempt, client>>
      /\ \A d \in Calls :
            IF d \in WaitingAt(k) THEN answer'[d] = "error" ELSE answer'[d] = answer[d]
      /\ queue'[k] = <<>> /\ \A j \in Clients \ {k} : queue'[j] = queue[j]
      BY DEF ConnectionLost, Types
<1>2. WaitingAt(k) \in SUBSET Calls BY DEF WaitingAt
<1>3. ASSUME NEW j \in Clients \ {k}, NEW i \in DOMAIN queue[j], queue[j][i].waits
      PROVE  queue[j][i].call \notin WaitingAt(k)
  <2>1. Asked(queue[j][i], j) BY <1>3 DEF QueueInv
  <2>2. \A d \in WaitingAt(k) : client[d] = k BY DEF WaitingAt, QueueInv, Asked
  <2> QED BY <2>1, <2>2 DEF Asked
<1>4. \A i \in DOMAIN queue[k] : queue[k][i].waits => queue[k][i].call \in WaitingAt(k)
      BY QueueFacts DEF WaitingAt
<1>5. DOMAIN queue'[k] = {} BY <1>1
<1> QED BY <1>1, <1>2, <1>3, <1>4, <1>5, QueueShortened

LEMMA QueueTimesOut ==
    ASSUME Types, PoolInv, QueueInv, NEW c \in Calls, QueryTimesOut(c)
    PROVE  QueueInv'
<1>1. PICK k \in Clients : k = client[c] BY DEF QueryTimesOut, Types
<1>2. PICK i \in DOMAIN queue[k] :
        /\ queue[k][i].call = c /\ queue[k][i].waits
        /\ queue' = [queue EXCEPT ![k] =
                IF i = 1 THEN [@ EXCEPT ![1].waits = FALSE]
                         ELSE SubSeq(@, 1, i - 1) \o SubSeq(@, i + 1, Len(@))]
      BY <1>1 DEF QueryTimesOut
<1>3. /\ UNCHANGED <<pc, attempt, client>> /\ \A j \in Clients \ {k} : queue'[j] = queue[j]
      /\ answer'[c] = "error" /\ \A d \in Calls \ {c} : answer'[d] = answer[d]
      BY <1>2 DEF QueryTimesOut, Types
<1>4. \A m \in DOMAIN queue[k] \ {i} : ~queue[k][m].waits BY <1>2 DEF QueueInv
<1>5. \A m \in DOMAIN queue'[k] : ~queue'[k][m].waits
  <2>1. CASE i = 1
    <3>1. queue'[k] = [queue[k] EXCEPT ![1].waits = FALSE] BY <1>2, <2>1 DEF Types
    <3>2. queue[k][1] \in Statements BY <2>1, QueueFacts
    <3>3. ~[queue[k][1] EXCEPT !.waits = FALSE].waits BY <3>2 DEF Statements
    <3> QED BY <1>4, <2>1, <3>1, <3>3, QueueFacts
  <2>2. CASE i # 1
    <3>1. queue'[k] = SubSeq(queue[k], 1, i - 1) \o SubSeq(queue[k], i + 1, Len(queue[k]))
          BY <1>2, <2>2 DEF Types
    <3>2. queue[k] \in Seq(Statements) /\ i \in 1 .. Len(queue[k]) BY QueueFacts
    <3>3. \A j \in DOMAIN queue'[k] : \E m \in DOMAIN queue[k] \ {i} : queue'[k][j] = queue[k][m]
      <4>1. PICK q, t : q \in Seq(Statements) /\ q = queue[k] /\ t = queue'[k]
            BY <3>2
      <4>2. \A j \in DOMAIN t : \E m \in DOMAIN q \ {i} : t[j] = q[m]
        <5>1. i \in 1 .. Len(q) /\ t = SubSeq(q, 1, i - 1) \o SubSeq(q, i + 1, Len(q))
              BY <3>1, <3>2, <4>1
        <5>2. q \in Seq(Statements) BY <4>1
        <5>4. \A u : u = SubSeq(q, 1, i - 1) \o SubSeq(q, i + 1, Len(q)) =>
                \A j \in DOMAIN u : \E m \in DOMAIN q \ {i} : u[j] = q[m]
              BY <5>1, <5>2, Withdrawn, Zenon
        <5>3. \A j \in DOMAIN t : \E m \in DOMAIN q \ {i} : t[j] = q[m]
              BY <5>1, <5>4, Zenon
        <5> QED BY <5>3
      <4> QED BY <4>1, <4>2
    <3> QED BY <1>4, <3>3
  <2> QED BY <2>1, <2>2
<1>6. ASSUME NEW j \in Clients \ {k}, NEW m \in DOMAIN queue[j], queue[j][m].waits
      PROVE  queue[j][m].call # c
      BY <1>1, <1>6 DEF QueueInv, Asked
<1>7. PICK Gone \in SUBSET Calls : Gone = {c} OBVIOUS
<1>8. \A m \in DOMAIN queue[k] : queue[k][m].waits => queue[k][m].call \in Gone
      BY <1>2, <1>4, <1>7
<1> QED BY <1>3, <1>5, <1>6, <1>7, <1>8, QueueShortened

LEMMA QueueStraggle ==
    ASSUME Types, PoolInv, QueueInv, NEW c \in Calls, Straggle(c)
    PROVE  QueueInv'
<1>1. UNCHANGED <<pc, attempt, client, answer>> BY DEF Straggle
<1>2. CASE queue' = queue BY <1>1, <1>2 DEF QueueInv, Asked, Awaits
<1>3. CASE client[c] \in Clients /\ queue' = [queue EXCEPT ![client[c]] =
                Append(@, [call |-> c, attempt |-> attempt[c], kind |-> "late", waits |-> FALSE])]
  <2>1. PICK k \in Clients : k = client[c] BY <1>3
  <2>2. PICK t : t = [call |-> c, attempt |-> attempt[c], kind |-> "late", waits |-> FALSE]
        OBVIOUS
  <2>3. ~t.waits BY <2>2
  <2>4. queue'[k] = Append(queue[k], t) /\ \A j \in Clients \ {k} : queue'[j] = queue[j]
        BY <1>3, <2>1, <2>2 DEF Types
  <2>5. \A i \in DOMAIN queue[k] : i \in DOMAIN queue'[k] /\ queue'[k][i] = queue[k][i]
        BY <2>4, QueueFacts
  <2>6. \A i \in DOMAIN queue'[k] : queue'[k][i].waits => i \in DOMAIN queue[k]
        BY <2>3, <2>4, QueueFacts
  <2>7. PICK Gone \in SUBSET Calls : Gone = {} OBVIOUS
  <2> QED BY <1>1, <2>4, <2>5, <2>6, <2>7, QueueShortened
<1> QED BY <1>2, <1>3 DEF Straggle, Statement, Types

LEMMA QueueStep ==
    ASSUME Types, PoolInv, QueueInv, [Next]_vars
    PROVE  QueueInv'
<1>1. ASSUME UNCHANGED <<pc, attempt, client, answer, queue>> PROVE QueueInv'
      BY <1>1 DEF QueueInv, Asked, Awaits
<1>2. CASE Disconnect BY <1>1, <1>2 DEF Disconnect, callVars, serverVars
<1>3. ASSUME NEW k \in Clients, Server(k) \/ ConnectionLost(k) PROVE QueueInv'
      BY <1>3, QueueServer, QueueConnectionLost
<1>4. ASSUME NEW c \in Calls, Call(c) PROVE QueueInv'
  <2> USE DEF KindAt
  <2>1. CASE Connect(c)
    <3>1. PICK k \in free : client' = [client EXCEPT ![c] = k] /\ Issue(c, k, "BEGIN", "begin")
          BY <2>1 DEF Connect
    <3>2. k \in Clients /\ client'[c] = k /\ attempt' = attempt /\ ~Awaits(c)
          BY <2>1, <3>1 DEF Connect, Awaits, Types
    <3>3. \A d \in Calls \ {c} : client'[d] = client[d] /\ (Awaits(d) => client[d] # k)
          BY <3>1 DEF PoolInv, Awaits, Holds, Types
    <3> QED BY <3>1, <3>2, <3>3, QueueIssued
  <2>2. CASE ConnectFails(c) \/ Begun(c) \/ BeginFails(c)
    <3>1. queue' = queue
          BY <2>2 DEF ConnectFails, Begun, BeginFails, serverVars
    <3>2. ~Awaits(c) /\ ~Awaits(c)'
          BY <2>2 DEF ConnectFails, Begun, BeginFails, Has, Settle, Awaits, Types
    <3>3. \A d \in Calls \ {c} : /\ pc'[d] = pc[d] /\ answer'[d] = answer[d]
                                 /\ client'[d] = client[d] /\ attempt'[d] = attempt[d]
          BY <2>2 DEF ConnectFails, Begun, BeginFails, Settle, Types
    <3> QED BY <3>1, <3>2, <3>3, QueueKept
  <2>3. CASE Write(c)
        BY <2>3, QueueIssuedByHolder DEF Write, Holds, Awaits
  <2>4. CASE Flush(c) \/ FlushAnyway(c)
    <3>1. Holds(c) /\ ~Awaits(c) /\ UNCHANGED <<client, attempt>>
          BY <2>4 DEF Flush, FlushAnyway, TypesFail, Has, Holds, Awaits
    <3>2. Issue(c, client[c], "event", "sink") \/ Issue(c, client[c], "COMMIT", "commit")
          BY <2>4 DEF Flush, FlushAnyway, Drain
    <3> QED BY <3>1, <3>2, QueueIssuedByHolder
  <2>5. CASE Commit(c)
        BY <2>5, QueueIssuedByHolder DEF Commit, Has, Holds, Awaits
  <2>6. CASE Rollback(c)
    <3>1. Holds(c) /\ ~Awaits(c) /\ UNCHANGED <<client, attempt>>
          BY <2>6 DEF Rollback, TypesFail, Has, Holds, Awaits
    <3> QED BY <2>6, <3>1, QueueIssuedByHolder DEF Rollback
  <2>7. CASE Committed(c) \/ RolledBack(c)
    <3>1. queue' = queue BY <2>7 DEF Committed, RolledBack
    <3>2. ~Awaits(c) /\ ~Awaits(c)'
          BY <2>7 DEF Committed, RolledBack, Has, Settle, Awaits, Types
    <3>3. \A d \in Calls \ {c} : /\ pc'[d] = pc[d] /\ answer'[d] = answer[d]
                                 /\ client'[d] = client[d] /\ attempt'[d] = attempt[d]
          BY <2>7 DEF Committed, RolledBack, Settle, Release, Types
    <3> QED BY <3>1, <3>2, <3>3, QueueKept
  <2> QED BY <1>4, <2>1, <2>2, <2>3, <2>4, <2>5, <2>6, <2>7 DEF Call
<1>5. ASSUME NEW c \in Calls, QueryTimesOut(c) PROVE QueueInv'
      BY <1>5, QueueTimesOut
<1>6. ASSUME NEW c \in Calls, Straggle(c) PROVE QueueInv' BY <1>6, QueueStraggle
<1>7. ASSUME NEW c \in Calls, IssueAgain(c) PROVE QueueInv'
  <2>1. queue' = queue /\ ~Awaits(c) /\ ~Awaits(c)'
        BY <1>7 DEF IssueAgain, Awaits, serverVars, Types
  <2>2. \A d \in Calls \ {c} : /\ pc'[d] = pc[d] /\ answer'[d] = answer[d]
                               /\ client'[d] = client[d] /\ attempt'[d] = attempt[d]
        BY <1>7 DEF IssueAgain, Types
  <2> QED BY <2>1, <2>2, QueueKept
<1>8. CASE UNCHANGED vars
      BY <1>1, <1>8 DEF vars, callVars, serverVars
<1> QED BY <1>2, <1>3, <1>4, <1>5, <1>6, <1>7, <1>8 DEF Next

-----------------------------------------------------------------------------
(* The blocks.                                                              *)

LEMMA ModeFacts ==
    /\ IdleBlock.mode = "idle" /\ IdleBlock.writes = {} /\ IdleBlock.owner = NoClient
    /\ DeadBlock.mode = "dead" /\ DeadBlock # IdleBlock
BY DEF IdleBlock, DeadBlock

\* A statement in the block of its call adds a write, or finds the block aborted.
LEMMA BlockWritten ==
    ASSUME NEW c, NEW n, NEW b, NEW kinds, NEW kind \in {"state", "event"},
           InBlock(c, n, b, kinds), b.mode = "open",
           NEW d, d.owner = b.owner, d.mode = "open",
           d.writes = b.writes \cup {Wrote(c, n, kind)}
    PROVE  InBlock(c, n, d, kinds \cup {kind})
<1>1. Wrote(c, n, kind).kind # "late" BY DEF Wrote
<1>2. Lasting(d) = Lasting(b) \cup {Wrote(c, n, kind)}
      BY <1>1 DEF Lasting
<1>3. Lasting(b) = {Wrote(c, n, x) : x \in kinds} BY DEF InBlock
<1>4. Lasting(d) = {Wrote(c, n, x) : x \in kinds \cup {kind}} BY <1>2, <1>3
<1> QED BY <1>4 DEF InBlock

\* A late write leaves the block to its call, or aborts it.
LEMMA BlockLate ==
    ASSUME NEW c, NEW n, NEW p, NEW a, NEW b \in Blocks, NEW F, NEW W, NEW d \in Blocks, NEW w,
           BlockAt(c, n, p, a, b, F, W), "straggler" \in F, w.kind = "late",
           d.owner = b.owner,
           \/ b.mode # "open" /\ d = b
           \/ b.mode = "open" /\ d.mode = "open" /\ d.writes = b.writes \cup {w}
           \/ b.mode = "open" /\ d.mode = "aborted" /\ d.writes = {}
    PROVE  BlockAt(c, n, p, a, d, F, W)
<1>1. ASSUME NEW kinds, InBlock(c, n, b, kinds) PROVE InBlock(c, n, d, kinds)
  <2>1. CASE b.mode # "open" /\ d = b BY <1>1, <2>1
  <2>2. CASE b.mode = "open" /\ d.mode = "open" /\ d.writes = b.writes \cup {w}
    <3>1. Lasting(d) = Lasting(b) BY <2>2 DEF Lasting
    <3> QED BY <1>1, <2>2, <3>1 DEF InBlock
  <2>3. CASE b.mode = "open" /\ d.mode = "aborted" /\ d.writes = {}
        BY <1>1, <2>3 DEF InBlock
  <2> QED BY <2>1, <2>2, <2>3
<1>2. b = IdleBlock => d = IdleBlock BY ModeFacts
<1>3. b.mode = "aborted" => d.mode = "aborted" OBVIOUS
<1>4. Whole(c, n, b, F, W) => Whole(c, n, d, F, W) BY <1>1 DEF Whole
<1>5. AtSink(c, n, a, b, W) => AtSink(c, n, a, d, W) BY <1>1 DEF AtSink
<1> QED BY <1>1, <1>2, <1>3, <1>4, <1>5 DEF BlockAt

\* What is swallowed later takes nothing back.
LEMMA BlockExcused ==
    ASSUME NEW c, NEW n, NEW p, NEW a, NEW b, NEW F, NEW W, NEW V, W \subseteq V,
           BlockAt(c, n, p, a, b, F, W)
    PROVE  BlockAt(c, n, p, a, b, F, V)
<1>1. /\ Missed(c, n, W) => Missed(c, n, V)
      /\ Excused(c, n, W) => Excused(c, n, V)
      BY DEF Missed, Excused
<1>2. Whole(c, n, b, F, W) => Whole(c, n, b, F, V) BY <1>1 DEF Whole
<1>3. AtSink(c, n, a, b, W) => AtSink(c, n, a, b, V) BY <1>1 DEF AtSink
<1> QED BY <1>1, <1>2, <1>3 DEF BlockAt

\* A write or event in the block of its call is executed, fails, is refused or, for a write,
\* matches no row.
LEMMA WriteBlock ==
    ASSUME NEW c, NEW n, NEW p \in {"write", "sink"}, NEW b, NEW F, NEW W,
           BlockAt(c, n, p, "none", b, F, W)
    PROVE  /\ \E kinds : InBlock(c, n, b, kinds)
           /\ b.mode \in {"open", "aborted"} /\ b.owner = [call |-> c, attempt |-> n]
<1>1. \E kinds : InBlock(c, n, b, kinds) BY DEF BlockAt, AtSink
<1> QED BY <1>1 DEF InBlock

LEMMA WriteSucceeds ==
    ASSUME NEW c, NEW n, NEW p \in {"write", "sink"}, NEW b, NEW F, NEW W,
           BlockAt(c, n, p, "none", b, F, W), b.mode = "open",
           NEW d, d.owner = b.owner, d.mode = "open",
           d.writes = b.writes \cup {Wrote(c, n, KindAt[p])}
    PROVE  BlockAt(c, n, p, "ok", d, F, W)
<1>1. CASE p = "write"
  <2>1. InBlock(c, n, b, {}) BY <1>1 DEF BlockAt
  <2>2. InBlock(c, n, d, {} \cup {"state"}) BY <1>1, <2>1, BlockWritten DEF KindAt
  <2>3. {} \cup {"state"} = {"state"} OBVIOUS
  <2> QED BY <1>1, <2>2, <2>3 DEF BlockAt
<1>2. CASE p = "sink"
  <2>1. PICK kinds \in {{}, {"state"}} :
            InBlock(c, n, b, kinds) /\ (kinds = {} => Missed(c, n, W))
        BY <1>2 DEF BlockAt, AtSink
  <2>2. InBlock(c, n, d, kinds \cup {"event"}) BY <1>2, <2>1, BlockWritten DEF KindAt
  <2>3. AtSink(c, n, "ok", d, W) BY <2>1, <2>2 DEF AtSink
  <2> QED BY <1>2, <2>3 DEF BlockAt
<1> QED BY <1>1, <1>2

LEMMA WriteFails ==
    ASSUME NEW c, NEW n, NEW p \in {"write", "sink"}, NEW b, NEW F, NEW W,
           BlockAt(c, n, p, "none", b, F, W), NEW d, d.owner = b.owner, d.mode = "aborted",
           d.writes = {}
    PROVE  BlockAt(c, n, p, "error", d, F, W)
<1>1. \A x : InBlock(c, n, d, x) BY WriteBlock DEF InBlock
<1>2. AtSink(c, n, "error", d, W) BY <1>1 DEF AtSink
<1> QED BY <1>1, <1>2 DEF BlockAt

LEMMA WriteMatchesNothing ==
    ASSUME NEW c, NEW n, NEW b, NEW F, NEW W, BlockAt(c, n, "write", "none", b, F, W)
    PROVE  BlockAt(c, n, "write", "error", b, F, W)
BY DEF BlockAt

\* The first statement of a queue is the awaited one of the holder, or a straggler's.
LEMMA HeadFacts ==
    ASSUME Types, QueueInv, BlockInv, "queryTimeout" \notin faults,
           NEW k \in Clients, queue[k] # <<>>, NEW s, s = Head(queue[k])
    PROVE  /\ s \in Statements /\ s.call \in Calls
           /\ s.waits => /\ Holds(s.call) /\ client[s.call] = k /\ answer[s.call] = "none"
                         /\ pc[s.call] \in {"begin", "write", "sink", "commit", "rollback"}
                         /\ s.kind = KindAt[pc[s.call]] /\ s.attempt = attempt[s.call]
                         /\ s.kind # "late"
           /\ ~s.waits => s.kind = "late" /\ "straggler" \in faults
           /\ s.kind \in Kinds /\ s.waits \in BOOLEAN
<1>1. s = queue[k][1] /\ 1 \in DOMAIN queue[k] BY QueueFacts
<1>2. s \in Statements /\ s.call \in Calls BY <1>1, QueueFacts
<1>3. s.kind \in Kinds /\ s.waits \in BOOLEAN BY <1>2 DEF Statements
<1>4. ~s.waits => s.kind = "late" /\ "straggler" \in faults BY <1>1 DEF BlockInv
<1>5. ASSUME s.waits
      PROVE  /\ Holds(s.call) /\ client[s.call] = k /\ answer[s.call] = "none"
             /\ pc[s.call] \in {"begin", "write", "sink", "commit", "rollback"}
             /\ s.kind = KindAt[pc[s.call]] /\ s.attempt = attempt[s.call]
             /\ s.kind # "late"
  <2>1. Asked(s, k) BY <1>1, <1>5 DEF QueueInv
  <2>2. pc[s.call] \in {"begin", "write", "sink", "commit", "rollback"} /\ answer[s.call] = "none"
        BY <2>1 DEF Asked, Awaits
  <2>3. Holds(s.call) BY <2>2 DEF Holds
  <2> QED BY <2>1, <2>2, <2>3 DEF Asked, KindAt
<1> QED BY <1>2, <1>3, <1>4, <1>5

\* The answer goes to the holder alone.
LEMMA BlockExecuted ==
    ASSUME Types, PoolInv, QueueInv, BlockInv, "queryTimeout" \notin faults,
           NEW k \in Clients, queue[k] # <<>>, NEW b, NEW ok \in BOOLEAN, Executed(k, b, ok),
           \A c \in Calls : Holds(c) /\ client[c] = k =>
                \/ b = DeadBlock /\ losses # 0
                \/ BlockAt(c, attempt[c], pc[c], answer'[c], b, faults, swallowed),
           (\A c \in Calls : Holds(c) => client[c] # k) => b \in {IdleBlock, DeadBlock},
           losses = 0 => b.mode # "dead"
    PROVE  BlockInv'
<1>1. /\ UNCHANGED <<pc, attempt, client, trx, losses, faults, swallowed>>
      /\ block'[k] = b /\ \A j \in Clients \ {k} : block'[j] = block[j]
      /\ queue'[k] = Tail(queue[k]) /\ \A j \in Clients \ {k} : queue'[j] = queue[j]
      BY DEF Executed, otherVars, Types
<1>2. \A c \in Calls : Holds(c)' <=> Holds(c) BY <1>1 DEF Holds
<1>3. PICK s : s = Head(queue[k]) OBVIOUS
<1>4. \A c \in Calls : client[c] # k => answer'[c] = answer[c]
  <2>1. s.waits => client[s.call] = k BY <1>3, HeadFacts
  <2> QED BY <1>3, <2>1 DEF Executed, Answered, Types
<1>5. ASSUME NEW j \in Clients, NEW i \in DOMAIN queue'[j]
      PROVE  queue'[j][i].waits \/ (queue'[j][i].kind = "late" /\ "straggler" \in faults)
  <2>1. CASE j = k
    <3>1. \A m \in DOMAIN queue'[k] : m + 1 \in DOMAIN queue[k] /\ queue'[k][m] = queue[k][m + 1]
          BY <1>1, QueueFacts
    <3> QED BY <2>1, <3>1 DEF BlockInv
  <2>2. CASE j # k BY <1>1, <2>2 DEF BlockInv
  <2> QED BY <2>1, <2>2
<1>6. ASSUME NEW j \in Clients, \A c \in Calls : Holds(c)' => client'[c] # j
      PROVE  block'[j] \in {IdleBlock, DeadBlock}
      BY <1>1, <1>2, <1>6 DEF BlockInv
<1>7. ASSUME NEW c \in Calls, Holds(c)' PROVE HoldsBlock(c)'
  <2>1. client[c] \in Clients /\ Holds(c) /\ HoldsBlock(c) BY <1>2, <1>7 DEF PoolInv, BlockInv
  <2>2. CASE client[c] = k BY <1>1, <2>1, <2>2 DEF HoldsBlock
  <2>3. CASE client[c] # k BY <1>1, <1>4, <2>1, <2>3 DEF HoldsBlock
  <2> QED BY <2>2, <2>3
<1>8. \A c \in Calls : trx'[c] = "Active" /\ client'[c] # NoClient => Holds(c)'
      BY <1>1, <1>2 DEF BlockInv
<1>9. losses' = 0 => \A j \in Clients : block'[j].mode # "dead"
      BY <1>1 DEF BlockInv
<1> QED BY <1>1, <1>5, <1>6, <1>7, <1>8, <1>9 DEF BlockInv

\* A late write at the head of the queue.
LEMMA BlockStraggler ==
    ASSUME Types, PoolInv, QueueInv, BlockInv, "queryTimeout" \notin faults,
           NEW k \in Clients, queue[k] # <<>>, NEW b \in Blocks, NEW ok \in BOOLEAN,
           Executed(k, b, ok), NEW w, w.kind = "late", ~Head(queue[k]).waits,
           b.owner = block[k].owner,
           \/ block[k].mode # "open" /\ b = block[k]
           \/ block[k].mode = "open" /\ b.mode = "open" /\ b.writes = block[k].writes \cup {w}
           \/ block[k].mode = "open" /\ b.mode = "aborted" /\ b.writes = {}
    PROVE  BlockInv'
<1>1. answer' = answer /\ "straggler" \in faults BY HeadFacts DEF Executed, Answered
<1>2. block[k] \in Blocks BY DEF Types
<1>3. block[k] \in {IdleBlock, DeadBlock} => b = block[k] BY ModeFacts
<1>4. ASSUME NEW c \in Calls, Holds(c), client[c] = k
      PROVE  \/ b = DeadBlock /\ losses # 0
             \/ BlockAt(c, attempt[c], pc[c], answer'[c], b, faults, swallowed)
  <2>1. CASE block[k] = DeadBlock /\ losses # 0 BY <1>3, <2>1
  <2>2. CASE BlockAt(c, attempt[c], pc[c], answer[c], block[k], faults, swallowed)
        BY <1>1, <1>2, <2>2, BlockLate
  <2> QED BY <1>4, <2>1, <2>2 DEF BlockInv, HoldsBlock
<1>5. (\A c \in Calls : Holds(c) => client[c] # k) => b \in {IdleBlock, DeadBlock}
      BY <1>3 DEF BlockInv
<1>6. losses = 0 => b.mode # "dead" BY DEF BlockInv
<1> QED BY <1>4, <1>5, <1>6, BlockExecuted

LEMMA BlockAtMode ==
    ASSUME NEW c, NEW n, NEW p \in {"begin", "types", "write", "sink", "commit", "rollback"},
           NEW a \in {"none", "ok", "error"}, NEW b, NEW F, NEW W, BlockAt(c, n, p, a, b, F, W)
    PROVE  b.mode \in {"idle", "open", "aborted"} /\ b.mode # "dead"
<1>1. b = IdleBlock => b.mode = "idle" BY ModeFacts
<1>2. \A kinds : InBlock(c, n, b, kinds) => b.mode \in {"open", "aborted"} BY DEF InBlock
<1> QED BY <1>1, <1>2 DEF BlockAt, AtSink, Whole

\* The holder of a client gets its answer.
LEMMA BlockAnswered ==
    ASSUME Types, PoolInv, QueueInv, BlockInv, "queryTimeout" \notin faults,
           NEW k \in Clients, queue[k] # <<>>, NEW b, NEW ok \in BOOLEAN, Executed(k, b, ok),
           NEW s, s = Head(queue[k]), s.waits,
           \/ block[k] = DeadBlock /\ b = DeadBlock /\ losses # 0
           \/ BlockAt(s.call, attempt[s.call], pc[s.call], IF ok THEN "ok" ELSE "error",
                      b, faults, swallowed)
    PROVE  BlockInv'
<1>1. /\ Holds(s.call) /\ client[s.call] = k /\ s.call \in Calls
      BY HeadFacts
<1>2. answer'[s.call] = IF ok THEN "ok" ELSE "error"
      BY <1>1 DEF Executed, Answered, Types
<1>3. \A c \in Calls : Holds(c) /\ client[c] = k => c = s.call BY <1>1 DEF PoolInv
<1>4. losses = 0 => b.mode # "dead"
  <2>1. pc[s.call] \in {"begin", "types", "write", "sink", "commit", "rollback"}
        BY <1>1 DEF Holds
  <2>2. (IF ok THEN "ok" ELSE "error") \in {"none", "ok", "error"} OBVIOUS
  <2>3. CASE BlockAt(s.call, attempt[s.call], pc[s.call], IF ok THEN "ok" ELSE "error",
                     b, faults, swallowed)
        BY <2>1, <2>2, <2>3, BlockAtMode
  <2> QED BY <2>3
<1> QED BY <1>1, <1>2, <1>3, <1>4, BlockExecuted

LEMMA BlockServerStraggler ==
    ASSUME Types, PoolInv, QueueInv, BlockInv, "queryTimeout" \notin faults,
           NEW k \in Clients, Server(k), ~Head(queue[k]).waits
    PROVE  BlockInv'
<1>1. queue[k] # <<>>
      BY DEF Server, ServerRefuses, ServerBegins, ServerWrites, ServerCommits, ServerRollsBack,
             Next1
<1>2. PICK s : s = Head(queue[k]) OBVIOUS
<1>3. s.kind = "late" BY <1>1, <1>2, HeadFacts
<1>4. WriteOf(s).kind = "late" BY <1>3 DEF WriteOf
<1>5. block[k] \in Blocks BY DEF Types
<1>6. WriteOf(s) \in Writes BY <1>1, <1>2, <1>3, HeadType, BlockTypes
<1>7. CASE ServerRefuses(k)
  <2>1. Executed(k, block[k], FALSE) /\ block[k].mode # "open" BY <1>7 DEF ServerRefuses
  <2> QED BY <1>1, <1>4, <1>5, <2>1, BlockStraggler
<1>8. CASE ServerWrites(k)
  <2>1. CASE block[k].mode = "idle"
    <3>1. Executed(k, block[k], TRUE) \/ Executed(k, block[k], FALSE)
          BY <1>8, <2>1 DEF ServerWrites
    <3> QED BY <1>1, <1>4, <1>5, <2>1, <3>1, BlockStraggler
  <2>2. CASE block[k].mode = "open"
    <3>1. PICK b1, b2 : /\ b1 = [block[k] EXCEPT !.writes = @ \cup {WriteOf(s)}]
                        /\ b2 = [block[k] EXCEPT !.mode = "aborted", !.writes = {}]
          OBVIOUS
    <3>2. Executed(k, b1, TRUE) \/ Executed(k, b2, FALSE)
          BY <1>2, <1>3, <1>8, <2>2, <3>1 DEF ServerWrites
    <3>3. /\ b1 \in Blocks /\ b1.owner = block[k].owner /\ b1.mode = "open"
          /\ b1.writes = block[k].writes \cup {WriteOf(s)}
          BY <1>5, <1>6, <2>2, <3>1 DEF Blocks
    <3>4. b2 \in Blocks /\ b2.owner = block[k].owner /\ b2.mode = "aborted" /\ b2.writes = {}
          BY <1>5, <3>1 DEF Blocks
    <3>5. CASE Executed(k, b1, TRUE)
          BY <1>1, <1>4, <2>2, <3>3, <3>5, BlockStraggler
    <3>6. CASE Executed(k, b2, FALSE)
          BY <1>1, <1>4, <2>2, <3>4, <3>6, BlockStraggler
    <3> QED BY <3>2, <3>5, <3>6
  <2> QED BY <1>8, <2>1, <2>2 DEF ServerWrites
<1> QED BY <1>2, <1>3, <1>7, <1>8 DEF Server, ServerBegins, ServerCommits, ServerRollsBack, Next1

LEMMA BlockServerAwaited ==
    ASSUME Types, PoolInv, QueueInv, BlockInv, "queryTimeout" \notin faults,
           NEW k \in Clients, Server(k), Head(queue[k]).waits
    PROVE  BlockInv'
<1>1. queue[k] # <<>>
      BY DEF Server, ServerRefuses, ServerBegins, ServerWrites, ServerCommits, ServerRollsBack,
             Next1
<1>2. PICK s : s = Head(queue[k]) OBVIOUS
<1>3. PICK c \in Calls : c = s.call /\ Holds(c) /\ client[c] = k /\ answer[c] = "none"
      BY <1>1, <1>2, HeadFacts
<1>4. /\ pc[c] \in {"begin", "write", "sink", "commit", "rollback"}
      /\ s.kind = KindAt[pc[c]] /\ s.attempt = attempt[c]
      BY <1>1, <1>2, <1>3, HeadFacts
<1>5. block[k] \in Blocks /\ attempt[c] \in Nat BY DEF Types
<1>6. CASE block[k] = DeadBlock /\ losses # 0
  <2>1. Executed(k, block[k], FALSE)
        BY <1>6, ModeFacts DEF Server, ServerRefuses, ServerBegins, ServerWrites, ServerCommits,
                               ServerRollsBack
  <2> QED BY <1>1, <1>2, <1>6, <2>1, BlockAnswered
<1>7. CASE BlockAt(c, attempt[c], pc[c], "none", block[k], faults, swallowed)
  <2>1. ASSUME NEW b, NEW ok \in BOOLEAN, Executed(k, b, ok),
               BlockAt(c, attempt[c], pc[c], IF ok THEN "ok" ELSE "error", b, faults, swallowed)
        PROVE  BlockInv'
        BY <1>1, <1>2, <1>3, <2>1, BlockAnswered
  <2>2. CASE pc[c] = "begin"
    <3>1. s.kind = "BEGIN" /\ block[k] = IdleBlock BY <1>4, <1>7, <2>2 DEF KindAt, BlockAt
    <3>2. PICK b : b = [mode |-> "open", owner |-> Owner(s), writes |-> {}] OBVIOUS
    <3>3. Executed(k, b, TRUE)
          BY <1>2, <3>1, <3>2, ModeFacts
          DEF Server, ServerRefuses, ServerBegins, ServerWrites, ServerCommits, ServerRollsBack,
              Next1
    <3>4. b.mode = "open" /\ b.writes = {} /\ b.owner = [call |-> c, attempt |-> attempt[c]]
          BY <1>3, <1>4, <3>2 DEF Owner
    <3>5. Lasting(b) = {} BY <3>4 DEF Lasting
    <3>6. InBlock(c, attempt[c], b, {}) BY <3>4, <3>5 DEF InBlock
    <3>7. BlockAt(c, attempt[c], pc[c], "ok", b, faults, swallowed) BY <2>2, <3>4, <3>6 DEF BlockAt
    <3> QED BY <2>1, <3>3, <3>7
  <2>3. CASE pc[c] \in {"write", "sink"}
    <3>1. s.kind \in {"state", "event"} /\ s.kind = KindAt[pc[c]] BY <1>4, <2>3 DEF KindAt
    <3>2. WriteOf(s) = Wrote(c, attempt[c], KindAt[pc[c]])
          BY <1>3, <1>4, <3>1 DEF WriteOf, Wrote
    <3>3. PICK b1, b2 : /\ b1 = [block[k] EXCEPT !.writes =
                                    @ \cup {Wrote(c, attempt[c], KindAt[pc[c]])}]
                        /\ b2 = [block[k] EXCEPT !.mode = "aborted", !.writes = {}]
          OBVIOUS
    <3>4. block[k].mode \in {"open", "aborted"}
      <4>1. \E kinds : InBlock(c, attempt[c], block[k], kinds)
            BY <1>7, <2>3 DEF BlockAt, AtSink
      <4> QED BY <4>1 DEF InBlock
    <3>5. /\ b1.owner = block[k].owner /\ b1.mode = block[k].mode
          /\ b1.writes = block[k].writes \cup {Wrote(c, attempt[c], KindAt[pc[c]])}
          /\ b2.owner = block[k].owner /\ b2.mode = "aborted" /\ b2.writes = {}
          BY <1>5, <3>3 DEF Blocks
    <3>6. block[k].mode = "open" => BlockAt(c, attempt[c], pc[c], "ok", b1, faults, swallowed)
          BY <1>7, <2>3, <3>5, WriteSucceeds
    <3>7. BlockAt(c, attempt[c], pc[c], "error", b2, faults, swallowed)
          BY <1>7, <2>3, <3>5, WriteFails
    <3>8. block[k].mode = "aborted" =>
                BlockAt(c, attempt[c], pc[c], "error", block[k], faults, swallowed)
      <4>1. \E kinds : InBlock(c, attempt[c], block[k], kinds) BY <1>7, <2>3, WriteBlock
      <4>2. block[k].mode = "aborted" => block[k].writes = {} BY <4>1 DEF InBlock
      <4> QED BY <1>7, <2>3, <4>2, WriteFails
    <3>9. pc[c] = "write" => BlockAt(c, attempt[c], pc[c], "error", block[k], faults, swallowed)
          BY <1>7, WriteMatchesNothing
    <3>10. \/ block[k].mode = "open" /\ (Executed(k, b1, TRUE) \/ Executed(k, b2, FALSE))
           \/ block[k].mode = "aborted" /\ Executed(k, block[k], FALSE)
           \/ s.kind = "state" /\ Executed(k, block[k], FALSE)
           BY <1>2, <3>1, <3>2, <3>3, <3>4
           DEF Server, ServerRefuses, ServerBegins, ServerWrites, ServerCommits, ServerRollsBack,
               Next1
    <3>11. s.kind = "state" => pc[c] = "write" BY <2>3, <3>1 DEF KindAt
    <3> QED BY <2>1, <3>6, <3>7, <3>8, <3>9, <3>10, <3>11
  <2>4. CASE pc[c] = "commit"
    <3>1. s.kind = "COMMIT" BY <1>4, <2>4 DEF KindAt
    <3>2. block[k].mode \in {"open", "aborted"} BY <1>7, <2>4 DEF BlockAt, Whole, InBlock
    <3>3. Executed(k, IdleBlock, TRUE) \/ Executed(k, IdleBlock, FALSE)
          BY <1>2, <3>1, <3>2
          DEF Server, ServerRefuses, ServerBegins, ServerWrites, ServerCommits, ServerRollsBack,
              Next1
    <3>4. /\ BlockAt(c, attempt[c], pc[c], "ok", IdleBlock, faults, swallowed)
          /\ BlockAt(c, attempt[c], pc[c], "error", IdleBlock, faults, swallowed)
          BY <2>4 DEF BlockAt
    <3> QED BY <2>1, <3>3, <3>4
  <2>5. CASE pc[c] = "rollback"
    <3>1. s.kind = "ROLLBACK" BY <1>4, <2>5 DEF KindAt
    <3>2. block[k].mode # "dead" BY <1>7, <2>5, BlockAtMode
    <3>3. Executed(k, IdleBlock, TRUE)
          BY <1>2, <3>1, <3>2
          DEF Server, ServerRefuses, ServerBegins, ServerWrites, ServerCommits, ServerRollsBack,
              Next1
    <3>4. BlockAt(c, attempt[c], pc[c], "ok", IdleBlock, faults, swallowed) BY <2>5 DEF BlockAt
    <3> QED BY <2>1, <3>3, <3>4
  <2> QED BY <1>4, <2>2, <2>3, <2>4, <2>5
<1> QED BY <1>3, <1>6, <1>7 DEF BlockInv, HoldsBlock

OnlyAwaited(q, F) ==
    \A i \in DOMAIN q : q[i].waits \/ (q[i].kind = "late" /\ "straggler" \in F)

LEMMA IssuedOnly ==
    ASSUME Types, BlockInv, "queryTimeout" \notin faults, faults' = faults,
           NEW c \in Calls, NEW k \in Clients, NEW kind, NEW label, Issue(c, k, kind, label)
    PROVE  \A j \in Clients : OnlyAwaited(queue'[j], faults')
<1>1. PICK t : t = [call |-> c, attempt |-> attempt[c], kind |-> kind, waits |-> TRUE]
      OBVIOUS
<1>2. t.waits BY <1>1
<1>3. queue'[k] = Append(queue[k], t) /\ \A j \in Clients \ {k} : queue'[j] = queue[j]
      BY <1>1 DEF Issue, Statement, Types
<1>4. \A j \in Clients : OnlyAwaited(queue[j], faults) BY DEF BlockInv, OnlyAwaited
<1>5. OnlyAwaited(queue'[k], faults)
  <2>1. \A i \in DOMAIN queue'[k] : \/ i \in DOMAIN queue[k] /\ queue'[k][i] = queue[k][i]
                                    \/ queue'[k][i] = t
        BY <1>3, QueueFacts
  <2> QED BY <1>2, <1>4, <2>1 DEF OnlyAwaited
<1> QED BY <1>3, <1>4, <1>5 DEF OnlyAwaited

\* A call that holds a client goes on in its block.
LEMMA BlockGoesOn ==
    ASSUME Types, PoolInv, BlockInv, "queryTimeout" \notin faults,
           NEW c \in Calls, Holds(c), Holds(c)',
           UNCHANGED <<client, attempt, block, losses, faults>>, swallowed \subseteq swallowed',
           \A d \in Calls \ {c} : pc'[d] = pc[d] /\ answer'[d] = answer[d] /\ trx'[d] = trx[d],
           \A k \in Clients : OnlyAwaited(queue'[k], faults'),
           NEW b, b = block[client[c]],
           BlockAt(c, attempt[c], pc[c], answer[c], b, faults, swallowed) =>
                BlockAt(c, attempt[c], pc'[c], answer'[c], b, faults, swallowed')
    PROVE  BlockInv'
<1>1. \A d \in Calls : Holds(d)' <=> Holds(d) BY DEF Holds
<1>2. \A k \in Clients : \A i \in DOMAIN queue'[k] :
        queue'[k][i].waits \/ (queue'[k][i].kind = "late" /\ "straggler" \in faults')
      BY DEF OnlyAwaited
<1>3. ASSUME NEW d \in Calls, Holds(d)' PROVE HoldsBlock(d)'
  <2>1. HoldsBlock(d) BY <1>1, <1>3 DEF BlockInv
  <2>2. CASE d = c BY <2>1, <2>2 DEF HoldsBlock
  <2>3. CASE d # c BY <2>1, <2>3, BlockExcused DEF HoldsBlock
  <2> QED BY <2>2, <2>3
<1>4. \A d \in Calls : trx'[d] = "Active" /\ client'[d] # NoClient => Holds(d)'
      BY <1>1 DEF BlockInv
<1>5. \A k \in Clients : (\A d \in Calls : Holds(d)' => client'[d] # k) =>
            block'[k] \in {IdleBlock, DeadBlock}
      BY <1>1 DEF BlockInv
<1> QED BY <1>2, <1>3, <1>4, <1>5 DEF BlockInv

LEMMA BlockIssued ==
    ASSUME Types, PoolInv, BlockInv, "queryTimeout" \notin faults,
           NEW c \in Calls, Holds(c), NEW kind,
           NEW label \in {"write", "sink", "commit", "rollback"},
           Issue(c, client[c], kind, label),
           UNCHANGED <<client, attempt, trx, losses, faults>>, swallowed \subseteq swallowed',
           NEW b, b = block[client[c]],
           BlockAt(c, attempt[c], pc[c], answer[c], b, faults, swallowed) =>
                BlockAt(c, attempt[c], label, "none", b, faults, swallowed')
    PROVE  BlockInv'
<1>1. pc'[c] = label /\ answer'[c] = "none" /\ block' = block
      /\ \A d \in Calls \ {c} : pc'[d] = pc[d] /\ answer'[d] = answer[d] /\ trx'[d] = trx[d]
      BY DEF Issue, Types
<1>2. Holds(c)' BY <1>1 DEF Holds
<1>3. client[c] \in Clients BY DEF PoolInv
<1>4. \A k \in Clients : OnlyAwaited(queue'[k], faults') BY <1>3, IssuedOnly
<1>5. BlockAt(c, attempt[c], pc[c], answer[c], b, faults, swallowed) =>
        BlockAt(c, attempt[c], pc'[c], answer'[c], b, faults, swallowed')
      BY <1>1
<1> QED BY <1>1, <1>2, <1>4, <1>5, BlockGoesOn

\* The operation is over, with its write in the block.
LEMMA BlockFlushed ==
    ASSUME Types, PoolInv, CallInv, BlockInv, "queryTimeout" \notin faults, NEW c \in Calls,
           Flush(c)
    PROVE  BlockInv'
<1>1. /\ pc[c] = "write" /\ answer[c] = "ok" /\ Drain(c, buffer[c])
      /\ UNCHANGED <<client, attempt, trx, losses, faults, swallowed>>
      BY DEF Flush, Has, otherVars
<1>2. Holds(c) BY <1>1 DEF Holds
<1> DEFINE b == block[client[c]]
<1>3. ASSUME BlockAt(c, attempt[c], pc[c], answer[c], b, faults, swallowed)
      PROVE  /\ InBlock(c, attempt[c], b, {"state"})
             /\ "straggler" \notin faults => b.mode = "open"
      BY <1>1, <1>3 DEF BlockAt
<1>4. CASE buffer[c]
  <2>1. Issue(c, client[c], "event", "sink") BY <1>1, <1>4 DEF Drain
  <2>2. ASSUME BlockAt(c, attempt[c], pc[c], answer[c], b, faults, swallowed)
        PROVE  BlockAt(c, attempt[c], "sink", "none", b, faults, swallowed')
    <3>1. AtSink(c, attempt[c], "none", b, swallowed') BY <1>3, <2>2 DEF AtSink
    <3> QED BY <3>1 DEF BlockAt
  <2> HIDE DEF b
  <2>3. b = block[client[c]] BY DEF b
  <2> QED BY <1>1, <1>2, <2>1, <2>2, <2>3, BlockIssued
<1>5. CASE ~buffer[c]
  <2>1. Issue(c, client[c], "COMMIT", "commit") BY <1>1, <1>5 DEF Drain
  <2>2. "reuse" \notin faults => c \notin Recording BY <1>1, <1>5 DEF CallInv, CallOK
  <2>3. ASSUME BlockAt(c, attempt[c], pc[c], answer[c], b, faults, swallowed)
        PROVE  BlockAt(c, attempt[c], "commit", "none", b, faults, swallowed')
    <3>1. Whole(c, attempt[c], b, faults, swallowed') BY <1>3, <2>2, <2>3 DEF Whole
    <3> QED BY <1>3, <2>3, <3>1 DEF BlockAt
  <2> HIDE DEF b
  <2>4. b = block[client[c]] BY DEF b
  <2> QED BY <1>1, <1>2, <2>1, <2>3, <2>4, BlockIssued
<1>6. buffer[c] \in BOOLEAN BY DEF Types
<1> QED BY <1>4, <1>5, <1>6

\* The operation is over and has swallowed an error.
LEMMA BlockFlushedAnyway ==
    ASSUME Types, PoolInv, CallInv, BlockInv, "queryTimeout" \notin faults, NEW c \in Calls,
           FlushAnyway(c)
    PROVE  BlockInv'
<1> DEFINE b == block[client[c]]
<1>1. /\ pc[c] = "types" \/ (pc[c] = "write" /\ answer[c] = "error")
      /\ UNCHANGED <<client, attempt, trx, losses, faults>>
      BY DEF FlushAnyway, TypesFail, Has
<1>2. Holds(c) BY <1>1 DEF Holds
<1>3. PICK drains \in BOOLEAN :
        /\ Drain(c, drains) /\ (drains => buffer[c])
        /\ swallowed' = swallowed \cup {[call |-> c, attempt |-> attempt[c],
                                         mode |-> b.mode, drains |-> drains]}
      BY DEF FlushAnyway, Types
<1>4. ASSUME BlockAt(c, attempt[c], pc[c], answer[c], b, faults, swallowed)
      PROVE  /\ InBlock(c, attempt[c], b, {}) /\ b.mode \in {"open", "aborted"}
             /\ b.mode = "aborted" => \A x : InBlock(c, attempt[c], b, x)
  <2>1. InBlock(c, attempt[c], b, {}) BY <1>1, <1>4 DEF BlockAt
  <2> QED BY <2>1 DEF InBlock
<1>5. PICK e \in swallowed' : e = [call |-> c, attempt |-> attempt[c], mode |-> b.mode,
                                   drains |-> drains]
      BY <1>3
<1>6. /\ b.mode = "open" /\ drains => Missed(c, attempt[c], swallowed')
      /\ b.mode = "open" \/ ~drains => Excused(c, attempt[c], swallowed')
      BY <1>5 DEF Missed, Excused
<1>7. swallowed \subseteq swallowed' BY <1>3
<1>8. CASE drains
  <2>1. Issue(c, client[c], "event", "sink") BY <1>3, <1>8 DEF Drain
  <2>2. ASSUME BlockAt(c, attempt[c], pc[c], answer[c], b, faults, swallowed)
        PROVE  BlockAt(c, attempt[c], "sink", "none", b, faults, swallowed')
    <3>1. AtSink(c, attempt[c], "none", b, swallowed')
      <4>1. CASE b.mode = "open" BY <1>4, <1>6, <1>8, <2>2, <4>1 DEF AtSink
      <4>2. CASE b.mode = "aborted" BY <1>4, <2>2, <4>2 DEF AtSink
      <4> QED BY <1>4, <2>2, <4>1, <4>2
    <3> QED BY <3>1 DEF BlockAt
  <2> HIDE DEF b
  <2>3. b = block[client[c]] BY DEF b
  <2> QED BY <1>1, <1>2, <1>7, <2>1, <2>2, <2>3, BlockIssued
<1>9. CASE ~drains
  <2>1. Issue(c, client[c], "COMMIT", "commit") BY <1>3, <1>9 DEF Drain
  <2>2. ASSUME BlockAt(c, attempt[c], pc[c], answer[c], b, faults, swallowed)
        PROVE  BlockAt(c, attempt[c], "commit", "none", b, faults, swallowed')
    <3>1. Excused(c, attempt[c], swallowed') BY <1>6, <1>9
    <3>2. {} \in SUBSET {"state", "event"} OBVIOUS
    <3>3. Whole(c, attempt[c], b, faults, swallowed') BY <1>4, <2>2, <3>1, <3>2 DEF Whole
    <3> QED BY <3>1, <3>3 DEF BlockAt
  <2> HIDE DEF b
  <2>3. b = block[client[c]] BY DEF b
  <2> QED BY <1>1, <1>2, <1>7, <2>1, <2>2, <2>3, BlockIssued
<1> QED BY <1>8, <1>9

LEMMA BlockHeld ==
    ASSUME Types, PoolInv, CallInv, BlockInv, "queryTimeout" \notin faults, NEW c \in Calls,
           Begun(c) \/ Write(c) \/ Flush(c) \/ FlushAnyway(c) \/ Commit(c) \/ Rollback(c)
    PROVE  BlockInv'
<1>6. PICK b : b = block[client[c]] OBVIOUS
<1>1. CASE Begun(c)
  <2>1. /\ pc[c] = "begin" /\ answer[c] = "ok" /\ pc'[c] = "types"
        /\ UNCHANGED <<client, attempt, block, losses, faults, queue, answer, swallowed>>
        /\ \A d \in Calls \ {c} : pc'[d] = pc[d] /\ answer'[d] = answer[d] /\ trx'[d] = trx[d]
        BY <1>1 DEF Begun, Has, serverVars, otherVars, Types
  <2>2. Holds(c) /\ Holds(c)' BY <2>1 DEF Holds
  <2>3. \A k \in Clients : OnlyAwaited(queue'[k], faults')
        BY <2>1 DEF BlockInv, OnlyAwaited
  <2>4. BlockAt(c, attempt[c], pc[c], answer[c], b, faults, swallowed) =>
            BlockAt(c, attempt[c], pc'[c], answer'[c], b, faults, swallowed')
        BY <2>1 DEF BlockAt
  <2> QED BY <1>6, <2>1, <2>2, <2>3, <2>4, BlockGoesOn
<1>2. CASE Write(c)
  <2>1. /\ pc[c] = "types" /\ Issue(c, client[c], "state", "write")
        /\ UNCHANGED <<client, attempt, trx, losses, faults, swallowed>>
        BY <1>2 DEF Write
  <2>2. BlockAt(c, attempt[c], pc[c], answer[c], b, faults, swallowed) =>
            BlockAt(c, attempt[c], "write", "none", b, faults, swallowed')
        BY <2>1 DEF BlockAt
  <2>3. Holds(c) BY <2>1 DEF Holds
  <2> QED BY <1>6, <2>1, <2>2, <2>3, BlockIssued
<1>3. CASE Flush(c) \/ FlushAnyway(c) BY <1>3, BlockFlushed, BlockFlushedAnyway
<1>4. CASE Commit(c)
  <2>1. /\ pc[c] = "sink" /\ answer[c] = "ok" /\ Issue(c, client[c], "COMMIT", "commit")
        /\ UNCHANGED <<client, attempt, trx, losses, faults, swallowed>>
        BY <1>4 DEF Commit, Has, otherVars
  <2>2. Holds(c) BY <2>1 DEF Holds
  <2>3. ASSUME BlockAt(c, attempt[c], pc[c], answer[c], b, faults, swallowed)
        PROVE  BlockAt(c, attempt[c], "commit", "none", b, faults, swallowed')
    <3>1. PICK kinds \in {{}, {"state"}} :
            /\ InBlock(c, attempt[c], b, kinds \cup {"event"})
            /\ kinds = {} => Missed(c, attempt[c], swallowed)
          BY <2>1, <2>3 DEF BlockAt, AtSink
    <3>2. kinds = {} => Excused(c, attempt[c], swallowed) BY <3>1 DEF Missed, Excused
    <3>3. /\ kinds \cup {"event"} \in SUBSET {"state", "event"}
          /\ "event" \in kinds \cup {"event"}
          /\ "state" \notin kinds \cup {"event"} => kinds = {}
          OBVIOUS
    <3>4. Whole(c, attempt[c], b, faults, swallowed) BY <3>1, <3>2, <3>3 DEF Whole
    <3> QED BY <2>1, <2>3, <3>4 DEF BlockAt
  <2> QED BY <1>6, <2>1, <2>2, <2>3, BlockIssued
<1>5. CASE Rollback(c)
  <2>1. /\ \/ pc[c] = "types"
           \/ pc[c] = "write" /\ answer[c] # "none"
           \/ pc[c] = "sink" /\ answer[c] = "error"
           \/ pc[c] = "commit" /\ answer[c] = "error"
        /\ Issue(c, client[c], "ROLLBACK", "rollback")
        /\ UNCHANGED <<client, attempt, trx, losses, faults, swallowed>>
        BY <1>5 DEF Rollback, TypesFail, Has, otherVars
  <2>2. Holds(c) BY <2>1 DEF Holds
  <2>3. ASSUME BlockAt(c, attempt[c], pc[c], answer[c], b, faults, swallowed)
        PROVE  BlockAt(c, attempt[c], "rollback", "none", b, faults, swallowed')
    <3>1. {} \in SUBSET {"state", "event"} /\ {"state"} \in SUBSET {"state", "event"} OBVIOUS
    <3>2. b = IdleBlock \/ InBlock(c, attempt[c], b, {}) \/ InBlock(c, attempt[c], b, {"state"})
      <4>1. CASE pc[c] \in {"types", "write", "commit"} BY <2>1, <2>3, <4>1 DEF BlockAt
      <4>2. CASE pc[c] = "sink" BY <2>1, <2>3, <4>2 DEF BlockAt, AtSink
      <4> QED BY <2>1, <4>1, <4>2
    <3> QED BY <3>1, <3>2 DEF BlockAt
  <2> QED BY <1>6, <2>1, <2>2, <2>3, BlockIssued
<1> QED BY <1>1, <1>2, <1>3, <1>4, <1>5

LEMMA BlockConnect ==
    ASSUME Types, PoolInv, CallInv, BlockInv, "queryTimeout" \notin faults,
           NEW c \in Calls, Connect(c)
    PROVE  BlockInv'
<1>1. PICK k \in free : client' = [client EXCEPT ![c] = k] /\ Issue(c, k, "BEGIN", "begin")
      BY DEF Connect
<1>2. k \in Clients /\ UNCHANGED <<attempt, trx, losses, faults, block, swallowed>>
      BY <1>1 DEF Connect, Issue, Types
<1>3. /\ client'[c] = k /\ pc'[c] = "begin" /\ answer'[c] = "none"
      /\ \A d \in Calls \ {c} : pc'[d] = pc[d] /\ answer'[d] = answer[d] /\ client'[d] = client[d]
      BY <1>1 DEF Issue, Types
<1>4. /\ Holds(c)' /\ \A d \in Calls \ {c} : Holds(d)' <=> Holds(d)
      /\ ~Holds(c) /\ \A d \in Calls : Holds(d) => client[d] # k
      BY <1>1, <1>3 DEF Connect, Holds, PoolInv
<1>5. \A j \in Clients : \A i \in DOMAIN queue'[j] :
        queue'[j][i].waits \/ (queue'[j][i].kind = "late" /\ "straggler" \in faults')
      BY <1>1, <1>2, IssuedOnly DEF OnlyAwaited
<1>6. block[k] \in {IdleBlock, DeadBlock} /\ (losses = 0 => block[k].mode # "dead")
      BY <1>2, <1>4 DEF BlockInv
<1>7. ASSUME NEW d \in Calls, Holds(d)' PROVE HoldsBlock(d)'
  <2>1. CASE d = c
    <3>1. CASE block[k] = DeadBlock
          BY <1>2, <1>3, <1>6, <2>1, <3>1, ModeFacts DEF HoldsBlock
    <3>2. CASE block[k] = IdleBlock
      <4>1. BlockAt(c, attempt[c], "begin", "none", IdleBlock, faults, swallowed) BY DEF BlockAt
      <4> QED BY <1>2, <1>3, <2>1, <3>2, <4>1 DEF HoldsBlock
    <3> QED BY <1>6, <3>1, <3>2
  <2>2. CASE d # c BY <1>2, <1>3, <1>4, <1>7, <2>2 DEF BlockInv, HoldsBlock
  <2> QED BY <2>1, <2>2
<1>8. \A d \in Calls : trx'[d] = "Active" /\ client'[d] # NoClient => Holds(d)'
      BY <1>2, <1>3, <1>4 DEF BlockInv
<1>9. ASSUME NEW j \in Clients, \A d \in Calls : Holds(d)' => client'[d] # j
      PROVE  block'[j] \in {IdleBlock, DeadBlock}
  <2>1. \A d \in Calls : Holds(d) => client[d] # j BY <1>3, <1>4, <1>9
  <2> QED BY <1>2, <2>1 DEF BlockInv
<1> QED BY <1>2, <1>5, <1>7, <1>8, <1>9 DEF BlockInv

\* A call that is over leaves no block behind.
LEMMA BlockLeft ==
    ASSUME Types, PoolInv, BlockInv, "queryTimeout" \notin faults,
           NEW c \in Calls, Holds(c), ~Holds(c)',
           UNCHANGED <<queue, losses, faults, swallowed>>,
           \A d \in Calls \ {c} :
                /\ pc'[d] = pc[d] /\ answer'[d] = answer[d] /\ attempt'[d] = attempt[d]
                /\ client'[d] = client[d] /\ trx'[d] = trx[d],
           trx'[c] = "Active" => client'[c] = NoClient,
           \A k \in Clients : block'[k] = block[k] \/ block'[k] = IdleBlock,
           \A k \in Clients : k # client[c] => block'[k] = block[k],
           block'[client[c]] \in {IdleBlock, DeadBlock}
    PROVE  BlockInv'
<1>1. \A d \in Calls \ {c} : Holds(d)' <=> Holds(d) BY DEF Holds
<1>2. ASSUME NEW d \in Calls, Holds(d)' PROVE HoldsBlock(d)'
  <2>1. d # c /\ Holds(d) /\ client[d] # client[c] /\ client[d] \in Clients
        BY <1>1, <1>2 DEF PoolInv
  <2>2. block'[client[d]] = block[client[d]] BY <2>1
  <2> QED BY <2>1, <2>2 DEF BlockInv, HoldsBlock
<1>3. ASSUME NEW j \in Clients, \A d \in Calls : Holds(d)' => client'[d] # j
      PROVE  block'[j] \in {IdleBlock, DeadBlock}
  <2>1. CASE j = client[c] BY <2>1
  <2>2. CASE j # client[c]
    <3>1. \A d \in Calls : Holds(d) => client[d] # j BY <1>1, <1>3, <2>2
    <3> QED BY <2>2, <3>1 DEF BlockInv
  <2> QED BY <2>1, <2>2
<1>4. \A d \in Calls : trx'[d] = "Active" /\ client'[d] # NoClient => Holds(d)'
      BY <1>1 DEF BlockInv
<1>5. losses' = 0 => \A k \in Clients : block'[k].mode # "dead"
      BY ModeFacts DEF BlockInv
<1> QED BY <1>2, <1>3, <1>4, <1>5 DEF BlockInv

LEMMA BlockReleased ==
    ASSUME Types, PoolInv, CallInv, BlockInv, "queryTimeout" \notin faults, NEW c \in Calls,
           BeginFails(c) \/ Committed(c) \/ RolledBack(c)
    PROVE  BlockInv'
<1>1. /\ Holds(c) /\ ~Holds(c)'
      /\ UNCHANGED <<queue, losses, faults, answer, attempt, swallowed>>
      BY DEF BeginFails, Committed, RolledBack, Has, Settle, Holds, serverVars, Types
<1>2. client[c] \in Clients /\ HoldsBlock(c) BY <1>1 DEF PoolInv, BlockInv
<1>3. \A d \in Calls \ {c} : pc'[d] = pc[d] /\ client'[d] = client[d] /\ trx'[d] = trx[d]
      BY DEF BeginFails, Committed, RolledBack, Settle, Release, Types
<1>4. CASE BeginFails(c)
  <2>1. UNCHANGED <<block, trx, client>> /\ pc[c] = "begin" /\ answer[c] = "error"
        BY <1>4 DEF BeginFails, Has, serverVars
  <2>2. block[client[c]] = DeadBlock BY <1>2, <2>1 DEF HoldsBlock, BlockAt
  <2>3. trx'[c] # "Active" BY <2>1 DEF CallInv, CallOK
  <2> QED BY <1>1, <1>3, <2>1, <2>2, <2>3, BlockLeft
<1>5. CASE Committed(c) \/ RolledBack(c)
  <2>1. Release(c) BY <1>5 DEF Committed, RolledBack
  <2>2. /\ \A k \in Clients : k # client[c] => block'[k] = block[k]
        /\ block'[client[c]] = IF block[client[c]].mode = "dead" THEN IdleBlock
                               ELSE block[client[c]]
        BY <1>2, <2>1 DEF Release, Types
  <2>3. \/ block[client[c]] = DeadBlock
        \/ block[client[c]] = IdleBlock /\ trx'[c] # "Active"
    <3>1. CASE block[client[c]] = DeadBlock BY <3>1
    <3>2. CASE BlockAt(c, attempt[c], pc[c], answer[c], block[client[c]], faults, swallowed)
      <4>1. CASE Committed(c)
            BY <3>2, <4>1 DEF Committed, Has, BlockAt, Types
      <4>2. CASE RolledBack(c)
        <5>1. pc[c] = "rollback" /\ answer[c] = "ok"
              BY <3>2, <4>2 DEF RolledBack, BlockAt, Types
        <5> QED BY <3>2, <4>2, <5>1 DEF RolledBack, BlockAt, Types
      <4> QED BY <1>5, <4>1, <4>2
    <3> QED BY <1>2, <3>1, <3>2 DEF HoldsBlock
  <2>4. trx'[c] = "Active" => client'[c] = NoClient
        BY <2>1, <2>3, ModeFacts DEF Release, Types
  <2>5. block'[client[c]] \in {IdleBlock, DeadBlock}
        BY <2>2, <2>3
  <2>6. \A k \in Clients : block'[k] = block[k] \/ block'[k] = IdleBlock BY <2>2
  <2> QED BY <1>1, <1>3, <2>2, <2>4, <2>5, <2>6, BlockLeft
<1> QED BY <1>4, <1>5

LEMMA BlockConnectionLost ==
    ASSUME Types, PoolInv, QueueInv, BlockInv, "queryTimeout" \notin faults,
           NEW k \in Clients, ConnectionLost(k)
    PROVE  BlockInv'
<1>1. /\ UNCHANGED <<pc, attempt, client, trx, faults, swallowed>>
      /\ losses' = losses + 1 /\ losses' # 0
      /\ block'[k] = DeadBlock /\ \A j \in Clients \ {k} : block'[j] = block[j]
      /\ queue'[k] = <<>> /\ \A j \in Clients \ {k} : queue'[j] = queue[j]
      BY BoundsAssumption DEF ConnectionLost, Types
<1>2. \A c \in Calls : Holds(c)' <=> Holds(c) BY <1>1 DEF Holds
<1>3. \A c \in WaitingAt(k) : client[c] = k BY DEF WaitingAt, QueueInv, Asked
<1>4. \A c \in Calls : client[c] # k => answer'[c] = answer[c] BY <1>3 DEF ConnectionLost
<1>5. DOMAIN queue'[k] = {} BY <1>1
<1>6. ASSUME NEW c \in Calls, Holds(c)' PROVE HoldsBlock(c)'
  <2>1. client[c] \in Clients /\ HoldsBlock(c) BY <1>2, <1>6 DEF PoolInv, BlockInv
  <2>2. CASE client[c] = k BY <1>1, <2>2 DEF HoldsBlock
  <2>3. CASE client[c] # k
    <3>1. block'[client[c]] = block[client[c]] /\ answer'[c] = answer[c]
          BY <1>1, <1>4, <2>1, <2>3
    <3>2. CASE block[client[c]] = DeadBlock BY <1>1, <3>1, <3>2 DEF HoldsBlock
    <3>3. CASE BlockAt(c, attempt[c], pc[c], answer[c], block[client[c]], faults, swallowed)
          BY <1>1, <3>1, <3>3 DEF HoldsBlock
    <3> QED BY <2>1, <3>2, <3>3 DEF HoldsBlock
  <2> QED BY <2>2, <2>3
<1>7. \A j \in Clients : \A i \in DOMAIN queue'[j] :
        queue'[j][i].waits \/ (queue'[j][i].kind = "late" /\ "straggler" \in faults')
      BY <1>1, <1>5 DEF BlockInv
<1>8. \A j \in Clients : (\A c \in Calls : Holds(c)' => client'[c] # j) =>
            block'[j] \in {IdleBlock, DeadBlock}
      BY <1>1, <1>2 DEF BlockInv
<1>9. \A c \in Calls : trx'[c] = "Active" /\ client'[c] # NoClient => Holds(c)'
      BY <1>1, <1>2 DEF BlockInv
<1> QED BY <1>1, <1>6, <1>7, <1>8, <1>9 DEF BlockInv

\* The queue may change, the rest of what the blocks depend on stays.
LEMMA BlockKept ==
    ASSUME Types, BlockInv, UNCHANGED <<block, losses, faults, swallowed>>,
           "queryTimeout" \notin faults => \A k \in Clients : OnlyAwaited(queue'[k], faults),
           \A c \in Calls :
                \/ /\ pc'[c] = pc[c] /\ answer'[c] = answer[c] /\ attempt'[c] = attempt[c]
                   /\ client'[c] = client[c] /\ trx'[c] = trx[c]
                \/ ~Holds(c) /\ ~Holds(c)' /\ (trx'[c] = "Active" => client'[c] = NoClient)
    PROVE  BlockInv'
<1>1. \A c \in Calls : Holds(c)' <=> Holds(c) BY DEF Holds
<1> SUFFICES ASSUME "queryTimeout" \notin faults' PROVE BlockInv' BY DEF BlockInv
<1>2. \A k \in Clients : \A i \in DOMAIN queue'[k] :
        queue'[k][i].waits \/ (queue'[k][i].kind = "late" /\ "straggler" \in faults')
      BY DEF OnlyAwaited
<1>3. ASSUME NEW c \in Calls, Holds(c)' PROVE HoldsBlock(c)'
      BY <1>1, <1>3 DEF BlockInv, HoldsBlock
<1>4. \A c \in Calls : trx'[c] = "Active" /\ client'[c] # NoClient => Holds(c)'
      BY <1>1 DEF BlockInv
<1>5. \A k \in Clients : (\A c \in Calls : Holds(c)' => client'[c] # k) =>
            block'[k] \in {IdleBlock, DeadBlock}
      BY <1>1 DEF BlockInv
<1> QED BY <1>2, <1>3, <1>4, <1>5 DEF BlockInv

LEMMA BlockStep ==
    ASSUME Types, PoolInv, QueueInv, CallInv, BlockInv, [Next]_vars
    PROVE  BlockInv'
<1>1. \A k \in Clients : "queryTimeout" \notin faults => OnlyAwaited(queue[k], faults)
      BY DEF BlockInv, OnlyAwaited
<1>2. ASSUME UNCHANGED <<pc, answer, attempt, client, trx, block, queue, losses, faults,
                         swallowed>>
      PROVE  BlockInv'
      BY <1>1, <1>2, BlockKept
<1>3. faults' = faults
  <2>1. ASSUME NEW k \in Clients, Server(k) \/ ConnectionLost(k) PROVE faults' = faults
        BY <2>1 DEF Server, ServerRefuses, ServerBegins, ServerWrites, ServerCommits,
                    ServerRollsBack, Executed, ConnectionLost, otherVars
  <2>2. ASSUME NEW c \in Calls, Call(c) PROVE faults' = faults
        BY <2>2 DEF Call, Connect, ConnectFails, Begun, BeginFails, Write, Flush, FlushAnyway,
                    Commit, Committed, Rollback, RolledBack, otherVars
  <2>3. ASSUME NEW c \in Calls, QueryTimesOut(c) \/ Straggle(c) \/ IssueAgain(c)
        PROVE  faults' = faults
        BY <2>3 DEF QueryTimesOut, Straggle, IssueAgain, otherVars
  <2>4. CASE Disconnect \/ UNCHANGED vars BY <2>4 DEF Disconnect, vars, otherVars
  <2> QED BY <2>1, <2>2, <2>3, <2>4 DEF Next
<1> SUFFICES ASSUME "queryTimeout" \notin faults PROVE BlockInv' BY <1>3 DEF BlockInv
<1>4. ASSUME NEW k \in Clients, Server(k) PROVE BlockInv'
  <2>1. CASE Head(queue[k]).waits BY <1>4, <2>1, BlockServerAwaited
  <2>2. CASE ~Head(queue[k]).waits BY <1>4, <2>2, BlockServerStraggler
  <2> QED BY <2>1, <2>2
<1>5. ASSUME NEW c \in Calls, Call(c) PROVE BlockInv'
  <2>1. CASE ConnectFails(c)
    <3>1. UNCHANGED <<block, losses, faults, queue, swallowed>>
          BY <2>1 DEF ConnectFails, serverVars, otherVars
    <3>2. ~Holds(c) /\ ~Holds(c)' /\ trx'[c] # "Active"
          BY <2>1 DEF ConnectFails, Settle, Holds, CallInv, CallOK, Types
    <3>3. \A d \in Calls \ {c} :
                /\ pc'[d] = pc[d] /\ answer'[d] = answer[d] /\ attempt'[d] = attempt[d]
                /\ client'[d] = client[d] /\ trx'[d] = trx[d]
          BY <2>1 DEF ConnectFails, Settle, Types
    <3> QED BY <1>1, <3>1, <3>2, <3>3, BlockKept
  <2> QED BY <1>5, <2>1, BlockHeld, BlockConnect, BlockReleased DEF Call
<1>6. ASSUME NEW c \in Calls, Straggle(c) PROVE BlockInv'
  <2>1. UNCHANGED <<pc, answer, attempt, client, trx, block, losses, faults, swallowed>>
        BY <1>6 DEF Straggle, otherVars
  <2>2. "straggler" \in faults BY <1>6 DEF Straggle, CallInv, CallOK
  <2>3. PICK t : t = [call |-> c, attempt |-> attempt[c], kind |-> "late", waits |-> FALSE]
        OBVIOUS
  <2>4. t.kind = "late" BY <2>3
  <2>5. ASSUME NEW k \in Clients PROVE OnlyAwaited(queue'[k], faults)
    <3>1. queue'[k] = queue[k] \/ queue'[k] = Append(queue[k], t)
          BY <1>6, <2>3 DEF Straggle, Statement, Types
    <3>2. \A i \in DOMAIN Append(queue[k], t) :
            \/ i \in DOMAIN queue[k] /\ Append(queue[k], t)[i] = queue[k][i]
            \/ Append(queue[k], t)[i] = t
          BY QueueFacts
    <3> QED BY <1>1, <2>2, <2>4, <3>1, <3>2 DEF OnlyAwaited
  <2> QED BY <2>1, <2>5, BlockKept
<1>7. ASSUME NEW c \in Calls, IssueAgain(c) PROVE BlockInv'
  <2>1. UNCHANGED <<block, losses, faults, queue, swallowed>>
        BY <1>7 DEF IssueAgain, serverVars, otherVars
  <2>2. ~Holds(c) /\ ~Holds(c)' /\ trx'[c] # "Active" BY <1>7 DEF IssueAgain, Holds, Types
  <2>3. \A d \in Calls \ {c} :
              /\ pc'[d] = pc[d] /\ answer'[d] = answer[d] /\ attempt'[d] = attempt[d]
              /\ client'[d] = client[d] /\ trx'[d] = trx[d]
        BY <1>7 DEF IssueAgain, Types
  <2> QED BY <1>1, <2>1, <2>2, <2>3, BlockKept
<1>8. CASE Disconnect
      BY <1>2, <1>8 DEF Disconnect, callVars, serverVars
<1>9. CASE UNCHANGED vars
      BY <1>2, <1>9 DEF vars, callVars, serverVars, otherVars
<1> QED BY <1>4, <1>5, <1>6, <1>7, <1>8, <1>9, BlockConnectionLost DEF Next, QueryTimesOut

-----------------------------------------------------------------------------
(* What is committed.                                                       *)

LEMMA WroteFacts ==
    ASSUME NEW c, NEW n, NEW kind \in {"state", "event"}
    PROVE  /\ Wrote(c, n, kind).call = c /\ Wrote(c, n, kind).attempt = n
           /\ Wrote(c, n, kind).kind = kind /\ Wrote(c, n, kind).kind # "late"
BY DEF Wrote

\* Nothing but late writes is committed, and no COMMIT is answered with success.
LEMMA DurableQuiet ==
    ASSUME Types, DurableInv, faults' = faults, losses' = 0 => losses = 0,
           swallowed \subseteq swallowed',
           durable \subseteq durable', \A w \in durable' : w.kind # "late" => w \in durable,
           \A c \in Calls :
                \/ (CommitAnswered(c)' <=> CommitAnswered(c)) /\ attempt'[c] = attempt[c]
                \/ /\ ~CommitAnswered(c) /\ ~CommitAnswered(c)'
                   /\ attempt[c] <= attempt'[c] /\ attempt'[c] \in Nat
    PROVE  DurableInv'
<1> SUFFICES ASSUME "queryTimeout" \notin faults PROVE DurableInv' BY DEF DurableInv
<1>1. \A w \in durable : w.call \in Calls /\ w.attempt \in Nat BY DEF Types, Writes
<1>2. \A c \in Calls : attempt[c] \in Nat BY DEF Types
<1>3. CommittedOnly'
  <2>1. ASSUME losses' = 0, NEW w \in durable', w.kind # "late"
        PROVE  w.attempt = attempt'[w.call] /\ CommitAnswered(w.call)'
    <3>1. w \in durable /\ w.call \in Calls BY <1>1, <2>1
    <3>2. w.attempt = attempt[w.call] /\ CommitAnswered(w.call)
          BY <2>1, <3>1 DEF DurableInv, CommittedOnly
    <3> QED BY <3>1, <3>2
  <2>2. ASSUME NEW w \in durable', w.kind # "late" PROVE w.attempt <= attempt'[w.call]
    <3>1. w \in durable /\ w.call \in Calls /\ w.attempt \in Nat BY <1>1, <2>2
    <3>2. w.attempt <= attempt[w.call] BY <2>2, <3>1 DEF DurableInv, CommittedOnly
    <3> QED BY <1>2, <3>1, <3>2
  <2> QED BY <2>1, <2>2 DEF CommittedOnly, CommitAnswered
<1>4. CommittedIndeed'
  <2>1. \A c, n : Excused(c, n, swallowed) => Excused(c, n, swallowed') BY DEF Excused
  <2> QED BY <2>1 DEF DurableInv, CommittedIndeed
<1>5. AllOrNothing'
  <2>1. \A c, n : /\ Wrote(c, n, "state") \in durable' <=> Wrote(c, n, "state") \in durable
                  /\ Wrote(c, n, "event") \in durable' <=> Wrote(c, n, "event") \in durable
        BY WroteFacts
  <2>2. ASSUME NEW c \in Recording, NEW n \in 1 .. MaxAttempts, ~Faults({"queryTimeout", "reuse"})
        PROVE  /\ Wrote(c, n, "state") \in durable => Wrote(c, n, "event") \in durable
               /\ Wrote(c, n, "event") \in durable =>
                    \/ Wrote(c, n, "state") \in durable
                    \/ \E e \in SwallowedBy(c, n) : e.mode = "open" /\ e.drains
        BY <2>2 DEF DurableInv, AllOrNothing
  <2>3. \A c, n : SwallowedBy(c, n) \subseteq SwallowedBy(c, n)' BY DEF SwallowedBy
  <2> QED BY <2>1, <2>2, <2>3 DEF AllOrNothing, Faults
<1> QED BY <1>3, <1>4, <1>5 DEF DurableInv

\* A COMMIT takes effect, and its answer arrives or the connection is lost.
LEMMA DurableCommit ==
    ASSUME Types, CallInv, DurableInv, "queryTimeout" \notin faults,
           NEW c \in Calls, pc[c] = "commit", answer[c] = "none", NEW b \in Blocks,
           BlockAt(c, attempt[c], pc[c], answer[c], b, faults, swallowed),
           durable' = durable \cup b.writes,
           UNCHANGED <<pc, attempt, outcome, faults, swallowed>>,
           \A d \in Calls \ {c} : CommitAnswered(d)' <=> CommitAnswered(d),
           \/ answer'[c] = "ok" /\ losses' = losses
           \/ answer'[c] = "error" /\ losses' # 0
    PROVE  DurableInv'
<1>1. Whole(c, attempt[c], b, faults, swallowed) BY DEF BlockAt
<1>2. PICK kinds \in SUBSET {"state", "event"} :
        /\ InBlock(c, attempt[c], b, kinds)
        /\ "reuse" \notin faults /\ c \in Recording /\ "state" \in kinds => "event" \in kinds
        /\ "event" \in kinds /\ "state" \notin kinds => Missed(c, attempt[c], swallowed)
        /\ "state" \notin kinds => Excused(c, attempt[c], swallowed)
      BY <1>1 DEF Whole
<1>3. Lasting(b) = {} \/ Lasting(b) = {Wrote(c, attempt[c], kind) : kind \in kinds}
      BY <1>2 DEF InBlock, Lasting
<1>4. \A w \in Lasting(b) : w.call = c /\ w.attempt = attempt[c] BY <1>2, <1>3, WroteFacts
<1>5. \A w \in b.writes : w.kind # "late" => w \in Lasting(b) BY DEF Lasting
<1>6. \A w \in durable : w.call \in Calls BY DEF Types, Writes
<1>7. ~CommitAnswered(c) BY DEF CommitAnswered, CallInv, CallOK
<1>8. (CommitAnswered(c)' <=> answer'[c] = "ok")
      BY DEF CommitAnswered, CallInv, CallOK
<1>9. CommittedOnly'
  <2>1. ASSUME losses' = 0, NEW w \in durable', w.kind # "late"
        PROVE  w.attempt = attempt'[w.call] /\ CommitAnswered(w.call)'
    <3>1. CASE w \in durable
      <4>1. w.attempt = attempt[w.call] /\ CommitAnswered(w.call)
            BY <2>1, <3>1 DEF DurableInv, CommittedOnly
      <4> QED BY <1>6, <1>7, <3>1, <4>1
    <3>2. CASE w \in b.writes BY <1>4, <1>5, <1>8, <2>1, <3>2
    <3> QED BY <2>1, <3>1, <3>2
  <2>2. ASSUME NEW w \in durable', w.kind # "late" PROVE w.attempt <= attempt'[w.call]
    <3>1. CASE w \in durable BY <2>2, <3>1 DEF DurableInv, CommittedOnly
    <3>2. CASE w \in b.writes BY <1>4, <1>5, <2>2, <3>2 DEF Types
    <3> QED BY <2>2, <3>1, <3>2
  <2> QED BY <2>1, <2>2 DEF CommittedOnly, CommitAnswered
<1>10. CommittedIndeed'
  <2>1. SUFFICES ASSUME "straggler" \notin faults, NEW d \in Calls, CommitAnswered(d)'
                 PROVE  \/ Wrote(d, attempt[d], "state") \in durable'
                        \/ Excused(d, attempt[d], swallowed)
        BY DEF CommittedIndeed, CommitAnswered
  <2>2. CASE d = c
    <3>1. b.mode = "open" \/ Excused(c, attempt[c], swallowed) BY <2>1 DEF BlockAt
    <3>2. b.mode = "open" /\ "state" \in kinds => Wrote(c, attempt[c], "state") \in Lasting(b)
          BY <1>2 DEF InBlock
    <3> QED BY <1>2, <2>2, <3>1, <3>2 DEF Lasting
  <2>3. CASE d # c BY <2>1, <2>3 DEF DurableInv, CommittedIndeed
  <2> QED BY <2>2, <2>3
<1>11. AllOrNothing'
  <2>1. SUFFICES ASSUME ~Faults({"queryTimeout", "reuse"}), NEW d \in Recording,
                        NEW n \in 1 .. MaxAttempts
                 PROVE  /\ Wrote(d, n, "state") \in durable' => Wrote(d, n, "event") \in durable'
                        /\ Wrote(d, n, "event") \in durable' =>
                                \/ Wrote(d, n, "state") \in durable'
                                \/ \E e \in SwallowedBy(d, n) : e.mode = "open" /\ e.drains
        BY DEF AllOrNothing, Faults, SwallowedBy
  <2>2. /\ Wrote(d, n, "state") \in durable => Wrote(d, n, "event") \in durable
        /\ Wrote(d, n, "event") \in durable =>
                \/ Wrote(d, n, "state") \in durable
                \/ \E e \in SwallowedBy(d, n) : e.mode = "open" /\ e.drains
        BY <2>1 DEF DurableInv, AllOrNothing
  <2>3. /\ Wrote(d, n, "state") \in b.writes => Wrote(d, n, "event") \in b.writes
        /\ Wrote(d, n, "event") \in b.writes =>
                \/ Wrote(d, n, "state") \in b.writes
                \/ \E e \in SwallowedBy(d, n) : e.mode = "open" /\ e.drains
    <3>1. "reuse" \notin faults BY <2>1 DEF Faults
    <3>2. \A kind \in {"state", "event"} :
            Wrote(d, n, kind) \in b.writes <=> Wrote(d, n, kind) \in Lasting(b)
          BY <1>5, WroteFacts DEF Lasting
    <3>3. CASE d = c /\ n = attempt[c]
      <4>1. \A kind \in {"state", "event"} : Wrote(d, n, kind) \in Lasting(b) => kind \in kinds
        <5>1. ASSUME NEW kind \in {"state", "event"}, Wrote(d, n, kind) \in Lasting(b)
              PROVE  kind \in kinds
          <6>1. PICK x \in kinds : Wrote(d, n, kind) = Wrote(c, attempt[c], x)
                BY <1>3, <5>1
          <6>2. x \in {"state", "event"} BY <1>2, <6>1
          <6> QED BY <6>1, <6>2, WroteFacts
        <5> QED BY <5>1
      <4>2. Lasting(b) = {} \/ \A kind \in kinds : Wrote(d, n, kind) \in Lasting(b)
            BY <1>3, <3>3
      <4>3. Missed(c, attempt[c], swallowed) =>
                \E e \in SwallowedBy(d, n) : e.mode = "open" /\ e.drains
            BY <3>3 DEF Missed, SwallowedBy
      <4> QED BY <1>2, <3>1, <3>2, <3>3, <4>1, <4>2, <4>3
    <3>4. CASE ~(d = c /\ n = attempt[c])
      <4>1. \A kind \in {"state", "event"} : Wrote(d, n, kind) \notin Lasting(b)
            BY <1>4, <3>4, WroteFacts
      <4> QED BY <3>2, <4>1
    <3> QED BY <3>3, <3>4
  <2> QED BY <2>2, <2>3
<1> QED BY <1>9, <1>10, <1>11 DEF DurableInv

\* What a server's step may commit.
LEMMA DurableServer ==
    ASSUME Types, PoolInv, QueueInv, CallInv, BlockInv, DurableInv, "queryTimeout" \notin faults,
           NEW k \in Clients, Server(k)
    PROVE  DurableInv'
<1>1. queue[k] # <<>> /\ UNCHANGED <<pc, attempt, outcome, losses, faults, swallowed>>
      BY DEF Server, ServerRefuses, ServerBegins, ServerWrites, ServerCommits, ServerRollsBack,
             Next1, Executed, otherVars
<1>2. PICK s : s = Head(queue[k]) OBVIOUS
<1>3. PICK c \in Calls : c = s.call BY <1>1, <1>2, HeadFacts
<1>4. block[k] \in Blocks /\ \A d \in Calls : attempt[d] \in Nat BY DEF Types
<1>5. \A d \in Calls : answer'[d] = answer[d] \/ (d = c /\ s.waits)
      BY <1>2, <1>3 DEF Server, ServerRefuses, ServerBegins, ServerWrites, ServerCommits,
                        ServerRollsBack, Executed, Answered, Types
<1>6. \A d \in Calls : answer'[d] = answer[d] => (CommitAnswered(d)' <=> CommitAnswered(d))
      BY <1>1 DEF CommitAnswered
<1>7. CASE ~s.waits
  <2>1. s.kind = "late" BY <1>1, <1>2, <1>7, HeadFacts
  <2>2. durable' = durable \/ durable' = durable \cup {WriteOf(s)}
        BY <1>2, <2>1 DEF Server, ServerRefuses, ServerBegins, ServerWrites, ServerCommits,
                          ServerRollsBack, Next1
  <2>3. WriteOf(s).kind = "late" BY <2>1 DEF WriteOf
  <2> QED BY <1>1, <1>5, <1>6, <1>7, <2>2, <2>3, DurableQuiet
<1>8. CASE s.waits
  <2>1. Holds(c) /\ client[c] = k /\ answer[c] = "none"
        BY <1>1, <1>2, <1>3, <1>8, HeadFacts
  <2>2. pc[c] \in {"begin", "write", "sink", "commit", "rollback"} /\ s.kind = KindAt[pc[c]]
        BY <1>1, <1>2, <1>3, <1>8, HeadFacts
  <2>3. ~CommitAnswered(c) BY <2>1, <2>2 DEF CommitAnswered, CallInv, CallOK
  <2>4. \A d \in Calls \ {c} : CommitAnswered(d)' <=> CommitAnswered(d) BY <1>5, <1>6
  <2>5. ASSUME durable' = durable, pc[c] # "commit" \/ answer'[c] = "error" PROVE DurableInv'
    <3>1. ~CommitAnswered(c)' BY <1>1, <2>2, <2>5 DEF CommitAnswered, CallInv, CallOK
    <3> QED BY <1>1, <1>4, <2>3, <2>4, <2>5, <3>1, DurableQuiet
  <2>6. CASE pc[c] = "commit"
    <3>1. s.kind = "COMMIT" BY <2>2, <2>6 DEF KindAt
    <3>2. ServerRefuses(k) \/ ServerCommits(k)
          BY <1>2, <3>1 DEF Server, ServerBegins, ServerWrites, ServerRollsBack, Next1
    <3>3. answer'[c] = "error" \/ (answer'[c] = "ok" /\ durable' = durable \cup block[k].writes
                                   /\ ServerCommits(k))
          BY <1>2, <1>3, <1>8, <3>2
          DEF ServerRefuses, ServerCommits, Executed, Answered, Types
    <3>4. CASE answer'[c] = "error"
      <4>1. durable' = durable
            BY <1>2, <1>3, <1>8, <3>2, <3>4
            DEF ServerRefuses, ServerCommits, Executed, Answered, Types
      <4> QED BY <2>5, <3>4, <4>1
    <3>5. CASE answer'[c] = "ok" /\ durable' = durable \cup block[k].writes /\ ServerCommits(k)
      <4>1. block[k] # DeadBlock BY <3>5, ModeFacts DEF ServerCommits
      <4>2. BlockAt(c, attempt[c], pc[c], answer[c], block[k], faults, swallowed)
            BY <2>1, <4>1 DEF BlockInv, HoldsBlock
      <4> QED BY <1>1, <1>4, <2>1, <2>4, <2>6, <3>5, <4>2, DurableCommit
    <3> QED BY <3>3, <3>4, <3>5
  <2>7. CASE pc[c] # "commit"
    <3>1. s.kind # "COMMIT" /\ s.kind # "late" BY <2>2, <2>7 DEF KindAt
    <3>2. CASE s.kind \in {"state", "event"}
      <4>1. pc[c] \in {"write", "sink"} BY <2>2, <3>2 DEF KindAt
      <4>2. block[k].mode # "idle"
        <5>1. CASE block[k] = DeadBlock BY <5>1, ModeFacts
        <5>2. CASE BlockAt(c, attempt[c], pc[c], answer[c], block[k], faults, swallowed)
          <6>1. \E kinds : InBlock(c, attempt[c], block[k], kinds)
                BY <4>1, <5>2 DEF BlockAt, AtSink
          <6> QED BY <6>1 DEF InBlock
        <5> QED BY <2>1, <5>1, <5>2 DEF BlockInv, HoldsBlock
      <4>3. durable' = durable
            BY <1>2, <3>2, <4>2
            DEF Server, ServerRefuses, ServerBegins, ServerWrites, ServerCommits, ServerRollsBack,
                Next1
      <4> QED BY <2>5, <2>7, <4>3
    <3>3. CASE s.kind \notin {"state", "event"}
      <4>1. durable' = durable
            BY <1>2, <3>1, <3>3
            DEF Server, ServerRefuses, ServerBegins, ServerWrites, ServerCommits, ServerRollsBack,
                Next1
      <4> QED BY <2>5, <2>7, <4>1
    <3> QED BY <3>2, <3>3
  <2> QED BY <2>6, <2>7
<1>9. s.waits \in BOOLEAN BY <1>1, <1>2, HeadFacts
<1> QED BY <1>7, <1>8, <1>9

LEMMA DurableConnectionLost ==
    ASSUME Types, PoolInv, QueueInv, CallInv, BlockInv, DurableInv, "queryTimeout" \notin faults,
           NEW k \in Clients, ConnectionLost(k)
    PROVE  DurableInv'
<1>1. UNCHANGED <<pc, attempt, outcome, faults, swallowed>>
      /\ losses' # 0 /\ block[k].mode # "dead"
      /\ \A d \in Calls : answer'[d] = IF d \in WaitingAt(k) THEN "error" ELSE answer[d]
      BY BoundsAssumption DEF ConnectionLost, Types
<1>2. \A d \in WaitingAt(k) : Awaits(d) BY DEF WaitingAt, QueueInv, Asked
<1>3. \A d \in Calls : CommitAnswered(d)' <=> CommitAnswered(d)
      BY <1>1, <1>2 DEF CommitAnswered, Awaits
<1>4. \A d \in Calls : attempt[d] \in Nat BY DEF Types
<1>5. CASE durable' = durable BY <1>1, <1>3, <1>5, DurableQuiet
<1>6. CASE Next1(k, {"COMMIT"}) /\ durable' = durable \cup block[k].writes
  <2>1. PICK s : s = Head(queue[k]) /\ queue[k] # <<>> /\ s.kind = "COMMIT"
        BY <1>6 DEF Next1
  <2>2. PICK c \in Calls : c = s.call BY <2>1, HeadFacts
  <2>3. s.waits BY <2>1, HeadFacts
  <2>4. Holds(c) /\ client[c] = k /\ answer[c] = "none" /\ KindAt[pc[c]] = "COMMIT"
        /\ pc[c] \in {"begin", "write", "sink", "commit", "rollback"}
        BY <2>1, <2>2, <2>3, HeadFacts
  <2>5. pc[c] = "commit" BY <2>4 DEF KindAt
  <2>6. BlockAt(c, attempt[c], pc[c], answer[c], block[k], faults, swallowed)
        BY <1>1, <2>4, ModeFacts DEF BlockInv, HoldsBlock
  <2>7. answer'[c] = "error"
    <3>1. s = queue[k][1] /\ 1 \in DOMAIN queue[k] BY <2>1, QueueFacts
    <3>2. c \in WaitingAt(k) BY <2>2, <2>3, <3>1 DEF WaitingAt
    <3> QED BY <1>1, <3>2
  <2>8. block[k] \in Blocks BY DEF Types
  <2> QED BY <1>1, <1>3, <1>6, <2>4, <2>5, <2>6, <2>7, <2>8, DurableCommit
<1> QED BY <1>5, <1>6 DEF ConnectionLost

LEMMA DurableStep ==
    ASSUME Types, PoolInv, QueueInv, CallInv, BlockInv, DurableInv, [Next]_vars
    PROVE  DurableInv'
<1>1. \A d \in Calls : attempt[d] \in Nat BY DEF Types
<1>2. ASSUME UNCHANGED <<durable, attempt, losses, faults>>, swallowed \subseteq swallowed',
             \A d \in Calls : CommitAnswered(d)' <=> CommitAnswered(d)
      PROVE  DurableInv'
      BY <1>2, DurableQuiet
<1>3. ASSUME UNCHANGED <<durable, attempt, losses, faults, pc, outcome, answer, swallowed>>
      PROVE  DurableInv'
      BY <1>2, <1>3 DEF CommitAnswered
<1>4. ASSUME NEW k \in Clients, Server(k) PROVE DurableInv'
  <2>1. CASE "queryTimeout" \in faults
        BY <1>4, <2>1 DEF Server, ServerRefuses, ServerBegins, ServerWrites, ServerCommits,
                          ServerRollsBack, Executed, otherVars, DurableInv
  <2> QED BY <1>4, <2>1, DurableServer
<1>5. ASSUME NEW k \in Clients, ConnectionLost(k) PROVE DurableInv'
  <2>1. CASE "queryTimeout" \in faults BY <1>5, <2>1 DEF ConnectionLost, DurableInv
  <2> QED BY <1>5, <2>1, DurableConnectionLost
<1>6. ASSUME NEW c \in Calls, Call(c) PROVE DurableInv'
  <2>1. UNCHANGED <<durable, attempt, losses, faults>> /\ swallowed \subseteq swallowed'
        BY <1>6 DEF Call, Connect, ConnectFails, Begun, BeginFails, Write, Flush, FlushAnyway,
                    Drain, Commit, Committed, Rollback, RolledBack, Issue, serverVars, otherVars
  <2>2. \A d \in Calls \ {c} : pc'[d] = pc[d] /\ outcome'[d] = outcome[d] /\ answer'[d] = answer[d]
    <3>1. CASE Flush(c) \/ FlushAnyway(c)
      <4>1. \/ Issue(c, client[c], "event", "sink")
            \/ Issue(c, client[c], "COMMIT", "commit")
            BY <3>1 DEF Flush, FlushAnyway, Drain
      <4>2. outcome' = outcome BY <3>1 DEF Flush, FlushAnyway
      <4> QED BY <4>1, <4>2 DEF Issue, Types
    <3>2. CASE ~(Flush(c) \/ FlushAnyway(c))
          BY <1>6, <3>2 DEF Call, Connect, ConnectFails, Begun, BeginFails, Write, Commit,
                            Committed, Rollback, RolledBack, Issue, Settle, Types
    <3> QED BY <3>1, <3>2
  <2>3. CommitAnswered(c)' <=> CommitAnswered(c)
    <3>1. CASE Connect(c) \/ ConnectFails(c) \/ Begun(c) \/ BeginFails(c)
          BY <3>1 DEF Connect, ConnectFails, Begun, BeginFails, Has, Settle, Issue,
                      CommitAnswered, CallInv, CallOK, Types
    <3>2. CASE Write(c)
          BY <3>2 DEF Write, Issue, CommitAnswered, CallInv, CallOK, Types
    <3>3. CASE Flush(c) \/ FlushAnyway(c)
          BY <3>3 DEF Flush, FlushAnyway, Drain, TypesFail, Has, Issue, CommitAnswered,
                      CallInv, CallOK, Types
    <3>4. CASE Commit(c)
          BY <3>4 DEF Commit, Has, Issue, CommitAnswered, CallInv, CallOK, Types
    <3>5. CASE Committed(c)
          BY <3>5 DEF Committed, Has, Settle, CommitAnswered, Types
    <3>6. CASE Rollback(c)
          BY <3>6 DEF Rollback, TypesFail, Has, Issue, CommitAnswered, CallInv, CallOK, Types
    <3>7. CASE RolledBack(c)
          BY <3>7 DEF RolledBack, Settle, CommitAnswered, CallInv, CallOK, Types
    <3> QED BY <1>6, <3>1, <3>2, <3>3, <3>4, <3>5, <3>6, <3>7 DEF Call
  <2>4. \A d \in Calls : CommitAnswered(d)' <=> CommitAnswered(d)
        BY <2>2, <2>3 DEF CommitAnswered
  <2> QED BY <1>2, <2>1, <2>4
<1>7. ASSUME NEW c \in Calls, QueryTimesOut(c) PROVE DurableInv'
      BY <1>7 DEF QueryTimesOut, otherVars, DurableInv
<1>8. ASSUME NEW c \in Calls, Straggle(c) PROVE DurableInv'
      BY <1>3, <1>8 DEF Straggle, otherVars
<1>9. ASSUME NEW c \in Calls, IssueAgain(c) PROVE DurableInv'
  <2>1. UNCHANGED <<durable, losses, faults, swallowed>> /\ attempt'[c] = attempt[c] + 1
        BY <1>9 DEF IssueAgain, serverVars, otherVars, Types
  <2>2. ~CommitAnswered(c) /\ ~CommitAnswered(c)'
        BY <1>9 DEF IssueAgain, CommitAnswered, Types
  <2>3. \A d \in Calls \ {c} :
            attempt'[d] = attempt[d] /\ (CommitAnswered(d)' <=> CommitAnswered(d))
        BY <1>9 DEF IssueAgain, CommitAnswered, Types
  <2>4. attempt[c] <= attempt'[c] /\ attempt'[c] \in Nat BY <1>1, <2>1
  <2> QED BY <2>1, <2>2, <2>3, <2>4, DurableQuiet
<1>10. CASE Disconnect BY <1>3, <1>10 DEF Disconnect, callVars, serverVars
<1>11. CASE UNCHANGED vars
       BY <1>3, <1>11 DEF vars, callVars, serverVars, otherVars
<1> QED BY <1>4, <1>5, <1>6, <1>7, <1>8, <1>9, <1>10, <1>11 DEF Next

-----------------------------------------------------------------------------
(* The theorems.                                                            *)

Inv == Types /\ PoolInv /\ QueueInv /\ CallInv /\ BlockInv /\ DurableInv

LEMMA Invariant == Spec => []Inv
<1>1. Init => Inv BY InitFacts DEF Inv
<1>2. Inv /\ [Next]_vars => Inv'
  <2> SUFFICES ASSUME Inv, [Next]_vars PROVE Inv' OBVIOUS
  <2>1. Types /\ PoolInv /\ QueueInv /\ CallInv /\ BlockInv /\ DurableInv BY DEF Inv
  <2>2. Types' BY <2>1, TypesStep
  <2>3. PoolInv' BY <2>1, PoolStep
  <2>4. QueueInv' BY <2>1, QueueStep
  <2>5. CallInv' BY <2>1, CallStep
  <2>6. BlockInv' BY <2>1, BlockStep
  <2>7. DurableInv' BY <2>1, DurableStep
  <2> QED BY <2>2, <2>3, <2>4, <2>5, <2>6, <2>7 DEF Inv
<1> QED BY <1>1, <1>2, PTL DEF Spec

\* Types, and that a call past BEGIN has an active transaction on a client that is neither
\* idle in the pool nor ended by it.
THEOREM TypeCorrect == Spec => []TypeOK
<1>1. Inv => TypeOK
  <2>1. ASSUME Inv, NEW c \in Calls
        PROVE  /\ pc[c] \in {"types", "write", "sink", "commit", "rollback"} =>
                    trx[c] = "Active" /\ client[c] \in Clients \ (free \cup closed)
               /\ pc[c] = "done" <=> outcome[c] # "none"
        BY <2>1 DEF Inv, PoolInv, CallInv, CallOK, Holds
  <2>2. Inv => Types BY DEF Inv
  <2> QED BY <2>1, <2>2 DEF TypeOK, Types
<1> QED BY <1>1, Invariant, PTL

\* The row and the event of a call are committed together or not at all: "drained to outbox,
\* trx committed atomically" (README 122), whatever calls, clients and lost connections, but
\* for an event whose operation swallowed an error that left the block open.
THEOREM Atomic == Spec => []AllOrNothing
<1>1. Inv => AllOrNothing BY DEF Inv, DurableInv, AllOrNothing, Faults
<1> QED BY <1>1, Invariant, PTL

\* A call that resolved is committed and one that was rejected is not, with the exceptions
\* that TruthfulOutcome names.
THEOREM Truthful == Spec => []TruthfulOutcome
<1>1. ASSUME Inv PROVE TruthfulOutcome
  <2> SUFFICES ASSUME NEW c \in Calls, NEW n \in 1 .. MaxAttempts
               PROVE  /\ (outcome[c] = "resolved" /\ n = attempt[c]
                           /\ ~Faults({"queryTimeout", "straggler"}))
                          => \/ Wrote(c, n, "state") \in durable
                             \/ \E e \in SwallowedBy(c, n) : e.mode = "open" \/ ~e.drains
                      /\ ((n < attempt[c] \/ (n = attempt[c] /\ outcome[c] = "rejected"))
                           /\ losses = 0 /\ ~Faults({"queryTimeout"}))
                          => {Wrote(c, n, "state"), Wrote(c, n, "event")} \cap durable = {}
      BY DEF TruthfulOutcome
  <2>1. ASSUME outcome[c] = "resolved", n = attempt[c], ~Faults({"queryTimeout", "straggler"})
        PROVE  \/ Wrote(c, n, "state") \in durable
               \/ \E e \in SwallowedBy(c, n) : e.mode = "open" \/ ~e.drains
    <3>1. Wrote(c, n, "state") \in durable \/ Excused(c, n, swallowed)
          BY <1>1, <2>1 DEF Inv, DurableInv, CommittedIndeed, CommitAnswered, Faults
    <3>2. Excused(c, n, swallowed) =>
                \E e \in SwallowedBy(c, n) : e.mode = "open" \/ ~e.drains
          BY DEF Excused, SwallowedBy
    <3> QED BY <3>1, <3>2
  <2>2. ASSUME n < attempt[c] \/ (n = attempt[c] /\ outcome[c] = "rejected"), losses = 0,
               ~Faults({"queryTimeout"}), NEW kind \in {"state", "event"},
               Wrote(c, n, kind) \in durable
        PROVE  FALSE
    <3>1. n = attempt[c] /\ CommitAnswered(c)
          BY <1>1, <2>2, WroteFacts DEF Inv, DurableInv, CommittedOnly, Faults
    <3>2. outcome[c] = "rejected" BY <1>1, <2>2, <3>1 DEF Inv, Types
    <3> QED BY <1>1, <3>1, <3>2 DEF CommitAnswered, Inv, CallInv, CallOK
  <2> QED BY <2>1, <2>2
<1> QED BY <1>1, Invariant, PTL

\* Every write is executed in the block of its own call.
THEOREM Inside == Spec => []WritesStayInside
<1>1. Init => WritesStayInside BY DEF Init, WritesStayInside
<1>2. Inv /\ WritesStayInside /\ [Next]_vars => WritesStayInside'
  <2> SUFFICES ASSUME Inv, WritesStayInside, [Next]_vars PROVE WritesStayInside' OBVIOUS
  <2>1. ASSUME UNCHANGED <<stray, faults>> PROVE WritesStayInside'
        BY <2>1 DEF WritesStayInside, Faults
  <2>2. ASSUME NEW k \in Clients, ServerWrites(k) PROVE WritesStayInside'
    <3>1. SUFFICES ASSUME "queryTimeout" \notin faults, "straggler" \notin faults
                   PROVE  stray' = stray
          BY <2>2 DEF ServerWrites, Executed, otherVars, WritesStayInside, Faults
    <3>2. PICK s : s = Head(queue[k]) /\ queue[k] # <<>> /\ s.kind \in {"state", "event", "late"}
          BY <2>2 DEF ServerWrites, Next1
    <3>3. PICK c \in Calls : c = s.call BY <3>1, <3>2, HeadFacts DEF Inv
    <3>4. /\ Holds(c) /\ client[c] = k /\ s.attempt = attempt[c] /\ s.kind = KindAt[pc[c]]
          /\ pc[c] \in {"begin", "write", "sink", "commit", "rollback"} /\ s.kind # "late"
          BY <3>1, <3>2, <3>3, HeadFacts DEF Inv
    <3>5. pc[c] \in {"write", "sink"} BY <3>2, <3>4 DEF KindAt
    <3>6. block[k] # DeadBlock BY <2>2, ModeFacts DEF ServerWrites
    <3>7. BlockAt(c, attempt[c], pc[c], answer[c], block[k], faults, swallowed)
          BY <3>1, <3>4, <3>6 DEF Inv, BlockInv, HoldsBlock
    <3>8. block[k].owner = [call |-> c, attempt |-> attempt[c]]
      <4>1. \E kinds : InBlock(c, attempt[c], block[k], kinds)
            BY <3>5, <3>7 DEF BlockAt, AtSink
      <4> QED BY <4>1 DEF InBlock
    <3> QED BY <2>2, <3>2, <3>3, <3>4, <3>8 DEF ServerWrites, Owner
  <2>3. ASSUME NEW k \in Clients, Server(k) PROVE WritesStayInside'
        BY <2>1, <2>2, <2>3 DEF Server, ServerRefuses, ServerBegins, ServerCommits,
                                ServerRollsBack, Executed, otherVars
  <2>4. ASSUME NEW k \in Clients, ConnectionLost(k) PROVE WritesStayInside'
        BY <2>1, <2>4 DEF ConnectionLost
  <2>5. ASSUME NEW c \in Calls, Call(c) PROVE WritesStayInside'
        BY <2>1, <2>5 DEF Call, Connect, ConnectFails, Begun, BeginFails, Write, Flush,
                          FlushAnyway, Drain, Commit, Committed, Rollback, RolledBack, Issue,
                          serverVars, otherVars
  <2>6. ASSUME NEW c \in Calls, QueryTimesOut(c) \/ Straggle(c) \/ IssueAgain(c)
        PROVE  WritesStayInside'
        BY <2>1, <2>6 DEF QueryTimesOut, Straggle, IssueAgain, serverVars, otherVars
  <2>7. CASE Disconnect \/ UNCHANGED vars
        BY <2>1, <2>7 DEF Disconnect, vars, serverVars, otherVars
  <2> QED BY <2>3, <2>4, <2>5, <2>6, <2>7 DEF Next
<1> QED BY <1>1, <1>2, Invariant, PTL DEF Spec

\* Whoever awaits an answer has its statement in the queue, and a pool that serves nobody has
\* lost its clients or has given them to calls that wait for another one.
THEOREM OnlyStarved == Spec => []OnlyStarvationBlocks
<1>1. ASSUME Inv PROVE OnlyStarvationBlocks
  <2>1. ASSUME NEW c \in Calls, Awaits(c) PROVE c \in WaitingAt(client[c])
        BY <1>1, <2>1 DEF Inv, QueueInv, WaitingAt
  <2>2. ASSUME free = {}, \A c \in Calls : pc[c] \in {"new", "done"} \/ WaitsForTypes(c)
        PROVE  Starved
    <3>1. ASSUME NEW k \in Clients \ (closed \cup leaked)
          PROVE  k \in {client[c] : c \in {d \in Calls : WaitsForTypes(d)}}
      <4>1. PICK c \in Calls : Holds(c) /\ client[c] = k BY <1>1, <2>2, <3>1 DEF Inv, PoolInv
      <4>2. WaitsForTypes(c) BY <2>2, <4>1 DEF Holds
      <4> QED BY <4>1, <4>2
    <3>2. ASSUME NEW c \in Calls, WaitsForTypes(c) PROVE client[c] \in Clients
          BY <1>1, <3>2 DEF WaitsForTypes, Inv, PoolInv, Holds
    <3> QED BY <1>1, <3>1, <3>2 DEF Starved, Inv, Types
  <2> QED BY <2>1, <2>2 DEF OnlyStarvationBlocks, Awaits
<1> QED BY <1>1, Invariant, PTL
=============================================================================
