------------------------ MODULE EventConsumerProofs ------------------------
(***************************************************************************)
(* Proofs about EventConsumer: type correctness; an event is deleted only  *)
(* after all its handlers returned; the retry budget; one replica per      *)
(* event; one replica per aggregate when claims do not overlap.            *)
(***************************************************************************)
EXTENDS EventConsumer, TLAPS

\* The labels of a tick that is past the loop head, with an event in work.
Working == {"skip", "attempt", "run", "ack", "markFailed"}

(* What a statement leaves in a row and in the table.                       *)

\* A released row has its new status, no owner, and its retries.
LEMMA UnclaimedRow ==
    ASSUME NEW row \in Row, NEW status \in Statuses
    PROVE  /\ Unclaimed(row, status) \in Row
           /\ Unclaimed(row, status).status = status
           /\ Unclaimed(row, status).retries = row.retries
  BY DEF Unclaimed, Row

\* markDone leaves an existing row DONE.
LEMMA DoneRowType ==
    ASSUME NEW row \in Row
    PROVE  /\ DoneRow(row) \in Row
           /\ DoneRow(row).status = IF Exists(row) THEN "DONE" ELSE row.status
           /\ DoneRow(row).retries = row.retries
  BY DEF DoneRow, Unclaimed, Row, Statuses, Exists

\* markFailed counts one retry of an existing row and decides by the budget.
LEMMA FailedRowType ==
    ASSUME NEW row \in Row
    PROVE  /\ FailedRow(row) \in Row
           /\ Exists(row) =>
                /\ FailedRow(row).retries = row.retries + 1
                /\ FailedRow(row).status =
                    IF row.retries + 1 >= MaxRetries THEN "FAILED" ELSE "PENDING"
           /\ ~Exists(row) => FailedRow(row) = row
  <1>1. CASE ~Exists(row)
    BY <1>1 DEF FailedRow
  <1>2. CASE Exists(row)
    <2> DEFINE st == IF row.retries + 1 >= MaxRetries THEN "FAILED" ELSE "PENDING"
    <2>1. st \in Statuses
      BY DEF Statuses
    <2>2. Unclaimed(row, st) \in Row /\ Unclaimed(row, st).status = st
      BY <2>1, UnclaimedRow
    <2>3. FailedRow(row) = [Unclaimed(row, st) EXCEPT !.retries = @ + 1]
      BY <1>2 DEF FailedRow
    <2>4. Unclaimed(row, st).retries = row.retries /\ row.retries \in Nat
      BY <2>1, UnclaimedRow DEF Row
    <2> HIDE DEF st
    <2>5. /\ FailedRow(row) \in Row
          /\ FailedRow(row).retries = row.retries + 1
          /\ FailedRow(row).status = st
      BY <2>2, <2>3, <2>4 DEF Row
    <2>6. QED
      BY <1>2, <2>5 DEF st
  <1>3. QED
    BY <1>1, <1>2

\* The sweep makes stale rows PENDING and leaves the others alone.
LEMMA SweptTableType ==
    ASSUME bus \in [Events -> Row]
    PROVE  /\ SweptTable \in [Events -> Row]
           /\ \A e \in Events :
                /\ SweptTable[e].retries = bus[e].retries
                /\ IF IsStale(bus[e]) THEN SweptTable[e].status = "PENDING"
                                      ELSE SweptTable[e] = bus[e]
  <1>1. "PENDING" \in Statuses
    BY DEF Statuses
  <1>2. \A e \in Events :
          /\ Unclaimed(bus[e], "PENDING") \in Row
          /\ Unclaimed(bus[e], "PENDING").status = "PENDING"
          /\ Unclaimed(bus[e], "PENDING").retries = bus[e].retries
    BY <1>1, UnclaimedRow
  <1>3. QED
    BY <1>2 DEF SweptTable

\* A claim makes the rows of S CLAIMED by c, not stale, and no others.
LEMMA ClaimedTableType ==
    ASSUME bus \in [Events -> Row], NEW c \in Consumers, NEW S \in SUBSET Events
    PROVE  /\ ClaimedTable(c, S) \in [Events -> Row]
           /\ \A e \in Events :
                /\ ClaimedTable(c, S)[e].retries = bus[e].retries
                /\ e \notin S => ClaimedTable(c, S)[e] = bus[e]
                /\ e \in S => /\ ClaimedTable(c, S)[e].status = "CLAIMED"
                              /\ ClaimedTable(c, S)[e].claimedBy = c
                              /\ ~ClaimedTable(c, S)[e].expired
  <1> DEFINE claimed(e) == [bus[e] EXCEPT !.status = "CLAIMED",
                                          !.claimedBy = c, !.expired = FALSE]
  <1>1. \A e \in Events :
          /\ claimed(e) \in Row
          /\ claimed(e).status = "CLAIMED"
          /\ claimed(e).claimedBy = c
          /\ ~claimed(e).expired
          /\ claimed(e).retries = bus[e].retries
    BY DEF Row, Statuses
  <1>2. \A e \in Events :
          ClaimedTable(c, S)[e] = IF e \in S THEN claimed(e) ELSE bus[e]
    BY DEF ClaimedTable
  <1>3. ClaimedTable(c, S) = [e \in Events |-> IF e \in S THEN claimed(e) ELSE bus[e]]
    BY DEF ClaimedTable
  <1> HIDE DEF claimed
  <1>4. QED
    BY <1>1, <1>2, <1>3

\* A claim takes rows of its snapshot that are still PENDING, and none of an
\* aggregate that its snapshot saw CLAIMED.
LEMMA ClaimResultRows ==
    ASSUME NEW c \in Consumers, NEW S \in SUBSET snap[c].pending, ClaimResult(c, S)
    PROVE  \A e \in S : bus[e].status = "PENDING" /\ AggOf[e] \notin snap[c].busy
  BY DEF ClaimResult, Claimable

\* Handlers are counted from one.
LEMMA HandlersType == \A e \in Events : Handlers[e] \in Nat /\ Handlers[e] >= 1
  BY EventsAssumption

-----------------------------------------------------------------------------
(* Type correctness.  The table and the replicas change independently, so   *)
(* the invariant is split into a part for each.                             *)

TableTypeOK ==
    /\ bus \in [Events -> Row]
    /\ handled \in [Events -> SUBSET Nat]
    /\ skipped \subseteq Events
    /\ \A e \in Events : handled[e] \subseteq 1 .. Handlers[e]

WorkOK(c) ==
    IF pc[c] \in Working
    THEN /\ work[c].event \in batch[c]
         /\ work[c].handler \in 1 .. Handlers[work[c].event]
         /\ work[c].attempt \in 1 .. MaxAttempts
    ELSE work[c] = NoWork

ProcTypeOK ==
    /\ life \in [Consumers -> {"new", "started", "disposed", "crashed"}]
    /\ pc \in [Consumers -> Labels]
    /\ snap \in [Consumers -> SnapshotType]
    /\ batch \in [Consumers -> SUBSET Events]
    /\ work \in [Consumers -> Work]
    /\ stops \in Nat
    /\ faults \in FaultSets
    /\ \A c \in Consumers : WorkOK(c)

LEMMA TypeParts == TypeOK <=> TableTypeOK /\ ProcTypeOK
  BY DEF TypeOK, TableTypeOK, ProcTypeOK, WorkOK, Working

LEMMA NoWorkType == NoWork \in Work /\ NoSnapshot \in SnapshotType
  BY DEF NoWork, Work, NoSnapshot, SnapshotType

LEMMA SnapshotIsTyped ==
    ASSUME NEW c \in Consumers PROVE Snapshot(c) \in SnapshotType
  <1>1. {e \in Topics[c] : bus[e].status = "PENDING"} \in SUBSET Events
    BY TopicsAssumption
  <1>2. Aggregates({e \in Events : bus[e].status = "CLAIMED"})
          \in SUBSET Aggregates(Events)
    BY DEF Aggregates
  <1>3. QED
    BY <1>1, <1>2 DEF Snapshot, SnapshotType

\* How the bookkeeping of a tick keeps the replicas typed.
LEMMA GotoType ==
    ASSUME ProcTypeOK, NEW c \in Consumers, NEW label \in Labels, Goto(c, label),
           pc[c] \in Working <=> label \in Working
    PROVE  ProcTypeOK'
  BY DEF ProcTypeOK, WorkOK, Goto, envVars

LEMMA EndTickType ==
    ASSUME ProcTypeOK, NEW c \in Consumers, EndTick(c)
    PROVE  ProcTypeOK'
  BY NoWorkType DEF ProcTypeOK, WorkOK, EndTick, Labels, Working, envVars

LEMMA EventDoneType ==
    ASSUME ProcTypeOK, NEW c \in Consumers, EventDone(c)
    PROVE  ProcTypeOK'
  BY NoWorkType DEF ProcTypeOK, WorkOK, EventDone, Labels, Working, envVars

\* A tick at work has an event of its batch, and valid counters.
LEMMA WorkType ==
    ASSUME ProcTypeOK, NEW c \in Consumers, pc[c] \in Working
    PROVE  /\ work[c] \in Work
           /\ work[c].event \in batch[c]
           /\ work[c].event \in Events
           /\ work[c].handler \in 1 .. Handlers[work[c].event]
           /\ work[c].attempt \in 1 .. MaxAttempts
  BY DEF ProcTypeOK, WorkOK

\* What HandlerOver does to the work of a replica: either the next handler is
\* up, or the last one is over and the event is acknowledged or marked failed.
LEMMA HandlerOverCases ==
    ASSUME ProcTypeOK, NEW c \in Consumers, NEW failure \in BOOLEAN,
           pc[c] \in Working, HandlerOver(c, failure)
    PROVE  /\ bus' = bus /\ life' = life /\ snap' = snap /\ batch' = batch
           /\ skipped' = skipped /\ stops' = stops /\ faults' = faults
           /\ \E w \in Work, label \in Labels :
                /\ work' = [work EXCEPT ![c] = w]
                /\ pc' = [pc EXCEPT ![c] = label]
                /\ w.event = work[c].event
                /\ w.failed = (work[c].failed \/ failure)
                /\ \/ /\ label = "attempt"
                      /\ w.handler = work[c].handler + 1
                      /\ w.handler <= Handlers[work[c].event]
                      /\ w.attempt = 1
                   \/ /\ label = IF w.failed THEN "markFailed" ELSE "ack"
                      /\ work[c].handler = Handlers[work[c].event]
                      /\ w.handler = work[c].handler
                      /\ w.attempt = work[c].attempt
  <1>1. /\ bus' = bus /\ life' = life /\ snap' = snap /\ batch' = batch
        /\ skipped' = skipped /\ stops' = stops /\ faults' = faults
    BY DEF HandlerOver, envVars
  <1>2. /\ work[c] \in Work
        /\ Handlers[work[c].event] \in Nat
        /\ work[c].handler \in 1 .. Handlers[work[c].event]
        /\ work[c].attempt \in Nat
        /\ work[c].handler + 1 \in Nat
        /\ work[c].failed \in BOOLEAN
    BY WorkType, HandlersType DEF Work
  <1> DEFINE f == work[c].failed \/ failure
  <1>3. f \in BOOLEAN
    BY <1>2
  <1>4. CASE work[c].handler < Handlers[work[c].event]
    <2> DEFINE w == [work[c] EXCEPT !.handler = @ + 1, !.attempt = 1, !.failed = f]
    <2>1. work' = [work EXCEPT ![c] = w] /\ pc' = [pc EXCEPT ![c] = "attempt"]
      BY <1>4 DEF HandlerOver
    <2>2. /\ w \in Work /\ w.event = work[c].event /\ w.failed = f
          /\ w.handler = work[c].handler + 1 /\ w.attempt = 1
      BY <1>2, <1>3 DEF Work
    <2>3. w.handler <= Handlers[work[c].event]
      BY <1>2, <1>4, <2>2
    <2> HIDE DEF w
    <2>4. "attempt" \in Labels
      BY DEF Labels
    <2>5. QED
      BY <1>1, <2>1, <2>2, <2>3, <2>4
  <1>5. CASE ~(work[c].handler < Handlers[work[c].event])
    <2> DEFINE w == [work[c] EXCEPT !.failed = f]
               label == IF f THEN "markFailed" ELSE "ack"
    <2>1. work' = [work EXCEPT ![c] = w] /\ pc' = [pc EXCEPT ![c] = label]
      BY <1>5 DEF HandlerOver
    <2>2. /\ w \in Work /\ w.event = work[c].event /\ w.failed = f
          /\ w.handler = work[c].handler /\ w.attempt = work[c].attempt
      BY <1>2, <1>3 DEF Work
    <2>3. work[c].handler = Handlers[work[c].event]
      BY <1>2, <1>5
    <2>4. label \in Labels
      BY DEF Labels
    <2>5. label = IF w.failed THEN "markFailed" ELSE "ack"
      BY <2>2
    <2> HIDE DEF w, label
    <2>6. QED
      BY <1>1, <2>1, <2>2, <2>3, <2>4, <2>5
  <1>6. QED
    BY <1>4, <1>5

LEMMA HandlerOverType ==
    ASSUME ProcTypeOK, NEW c \in Consumers, NEW failure \in BOOLEAN,
           pc[c] \in Working, HandlerOver(c, failure)
    PROVE  ProcTypeOK'
  <1>1. /\ life' = life /\ snap' = snap /\ batch' = batch
        /\ stops' = stops /\ faults' = faults
    BY HandlerOverCases
  <1>2. PICK w \in Work, label \in Labels :
            /\ work' = [work EXCEPT ![c] = w]
            /\ pc' = [pc EXCEPT ![c] = label]
            /\ label \in {"attempt", "ack", "markFailed"}
            /\ w.event = work[c].event
            /\ w.handler \in {work[c].handler, work[c].handler + 1}
            /\ w.handler <= Handlers[work[c].event]
            /\ w.attempt \in {work[c].attempt, 1}
    <2>1. Handlers[work[c].event] \in Nat /\ work[c].handler <= Handlers[work[c].event]
      BY WorkType, HandlersType
    <2>2. QED
      BY <2>1, HandlerOverCases
  <1>3. WorkOK(c)'
    <2>1. /\ work'[c] = w /\ pc'[c] = label /\ batch'[c] = batch[c]
          /\ label \in Working
      BY <1>1, <1>2 DEF ProcTypeOK, Working
    <2>2. /\ work[c].event \in batch[c]
          /\ work[c].handler \in 1 .. Handlers[work[c].event]
          /\ work[c].attempt \in 1 .. MaxAttempts
          /\ Handlers[work[c].event] \in Nat
      BY WorkType, HandlersType
    <2>3. w.handler \in 1 .. Handlers[w.event] /\ w.attempt \in 1 .. MaxAttempts
      BY <1>2, <2>2, LimitsAssumption
    <2>4. QED
      BY <1>2, <2>1, <2>2, <2>3 DEF WorkOK
  <1>4. \A d \in Consumers \ {c} : WorkOK(d)'
    BY <1>1, <1>2 DEF ProcTypeOK, WorkOK
  <1>5. QED
    BY <1>1, <1>2, <1>3, <1>4 DEF ProcTypeOK

LEMMA InitType == Init => TypeOK
  <1> SUFFICES ASSUME Init PROVE TypeOK
    OBVIOUS
  <1>1. EmptyRow \in Row
    BY DEF EmptyRow, Row, Statuses
  <1>2. TableTypeOK
    BY <1>1 DEF Init, TableTypeOK
  <1>3. ProcTypeOK
    BY NoWorkType DEF Init, ProcTypeOK, WorkOK, Labels, Working
  <1>4. QED
    BY <1>2, <1>3, TypeParts

LEMMA NextType == TypeOK /\ [Next]_vars => TypeOK'
  <1> SUFFICES ASSUME TypeOK, [Next]_vars PROVE TypeOK'
    OBVIOUS
  <1>0. TableTypeOK /\ ProcTypeOK
    BY TypeParts
  <1>q. TableTypeOK' /\ ProcTypeOK' => TypeOK'
    BY DEF TypeOK, TableTypeOK, ProcTypeOK, WorkOK, Working
  <1>u. bus' \in [Events -> Row] /\ handled' = handled /\ skipped' = skipped
            => TableTypeOK'
    BY <1>0 DEF TableTypeOK
  <1>1. ASSUME NEW e \in Events, Publish(e) \/ CleanupFailed(e) \/ ClaimExpires(e)
        PROVE  TypeOK'
    <2>1. /\ [bus[e] EXCEPT !.status = "PENDING"] \in Row
          /\ [bus[e] EXCEPT !.status = "PURGED"] \in Row
          /\ [bus[e] EXCEPT !.expired = TRUE] \in Row
      BY <1>0 DEF TableTypeOK, Row, Statuses
    <2>2. PICK row \in Row : bus' = [bus EXCEPT ![e] = row]
      BY <1>1, <2>1 DEF Publish, CleanupFailed, ClaimExpires
    <2>3. TableTypeOK'
      BY <1>0, <1>1, <2>2, <1>u
         DEF TableTypeOK, Publish, CleanupFailed, ClaimExpires, World, history
    <2>4. ProcTypeOK'
      BY <1>0, <1>1 DEF ProcTypeOK, WorkOK, Publish, CleanupFailed, ClaimExpires,
                        World, envVars
    <2>5. QED
      BY <2>3, <2>4, <1>q
  <1>2. ASSUME NEW c \in Consumers, Start(c) \/ Dispose(c) \/ Crash(c)
        PROVE  TypeOK'
    <2>1. TableTypeOK'
      BY <1>0, <1>2, <1>u DEF TableTypeOK, Start, Dispose, Crash, history
    <2>2. CASE Start(c) \/ Dispose(c)
      <3>1. ProcTypeOK'
        BY <1>0, <2>2 DEF ProcTypeOK, WorkOK, Start, Dispose, envVars
      <3>2. QED
        BY <2>1, <3>1, <1>q
    <2>3. CASE Crash(c)
      <3>1. ProcTypeOK'
        BY <1>0, <2>3, NoWorkType DEF ProcTypeOK, WorkOK, Crash, Labels, Working
      <3>2. QED
        BY <2>1, <3>1, <1>q
    <2>4. QED
      BY <1>2, <2>2, <2>3
  <1>3. ASSUME NEW c \in Consumers, TimerFires(c) \/ SweepOk(c) \/ SweepFails(c)
        PROVE  TypeOK'
    <2>1. PICK label \in {"sweep", "none", "claim"} : Goto(c, label)
      BY <1>3 DEF TimerFires, SweepOk, SweepFails, AfterSweep
    <2>2. ProcTypeOK'
      BY <1>0, <1>3, <2>1, GotoType
         DEF TimerFires, SweepOk, SweepFails, Labels, Working
    <2>3. TableTypeOK'
      BY <1>0, <1>3, <1>u, SweptTableType
         DEF TableTypeOK, TimerFires, SweepOk, SweepFails, history
    <2>4. QED
      BY <2>2, <2>3, <1>q
  <1>4. ASSUME NEW c \in Consumers, ClaimBegins(c) PROVE TypeOK'
    <2>1. TableTypeOK'
      BY <1>0, <1>4, <1>u DEF TableTypeOK, ClaimBegins, history
    <2>2. ProcTypeOK'
      BY <1>0, <1>4, SnapshotIsTyped
         DEF ClaimBegins, ProcTypeOK, WorkOK, Labels, Working, envVars
    <2>3. QED
      BY <2>1, <2>2, <1>q
  <1>5. ASSUME NEW c \in Consumers, NEW S \in SUBSET snap[c].pending
        PROVE  S \in SUBSET Events /\ ClaimedTable(c, S) \in [Events -> Row]
    <2>1. snap[c].pending \subseteq Events
      BY <1>0 DEF ProcTypeOK, SnapshotType
    <2>2. QED
      BY <1>0, <2>1, ClaimedTableType DEF TableTypeOK
  <1>6. ASSUME NEW c \in Consumers, ClaimOk(c) PROVE TypeOK'
    <2>1. PICK S \in SUBSET snap[c].pending :
            bus' = ClaimedTable(c, S) /\ batch' = [batch EXCEPT ![c] = S]
      BY <1>6 DEF ClaimOk
    <2>2. TableTypeOK'
      BY <1>6, <2>1, <1>5, <1>u DEF ClaimOk, history
    <2>3. /\ pc[c] = "claiming" /\ pc' = [pc EXCEPT ![c] = "next"]
          /\ snap' = [snap EXCEPT ![c] = NoSnapshot]
          /\ UNCHANGED <<life, work, stops, faults>>
      BY <1>6 DEF ClaimOk, envVars
    <2>4. ProcTypeOK'
      BY <1>0, <2>1, <2>3, <1>5, NoWorkType DEF ProcTypeOK, WorkOK, Labels, Working
    <2>5. QED
      BY <2>2, <2>4, <1>q
  <1>7. ASSUME NEW c \in Consumers, ClaimFails(c) PROVE TypeOK'
    <2>1. bus' = bus \/ \E S \in SUBSET snap[c].pending : bus' = ClaimedTable(c, S)
      BY <1>7 DEF ClaimFails
    <2>2. TableTypeOK'
      BY <1>0, <1>7, <2>1, <1>5, <1>u DEF ClaimFails, TableTypeOK, history
    <2>3. ProcTypeOK'
      BY <1>0, <1>7, EndTickType DEF ClaimFails
    <2>4. QED
      BY <2>2, <2>3, <1>q
  <1>8. ASSUME NEW c \in Consumers, LoopHead(c) PROVE TypeOK'
    <2>1. TableTypeOK'
      BY <1>0, <1>8, <1>u DEF LoopHead, TableTypeOK, history
    <2>2. CASE EndTick(c)
      BY <1>0, <2>1, <2>2, <1>q, EndTickType
    <2>3. CASE /\ \E e \in batch[c] :
                    /\ work' = [work EXCEPT ![c] = FirstHandler(e)]
                    /\ pc' = [pc EXCEPT ![c] = IF e \in Own[c] THEN "skip" ELSE "run"]
               /\ UNCHANGED <<life, snap, batch, envVars>>
      <3>1. PICK e \in batch[c], label \in {"skip", "run"} :
                    /\ work' = [work EXCEPT ![c] = FirstHandler(e)]
                    /\ pc' = [pc EXCEPT ![c] = label]
        BY <2>3
      <3>2. /\ e \in Events
            /\ UNCHANGED <<life, snap, batch, stops, faults>>
        BY <1>0, <2>3 DEF ProcTypeOK, envVars
      <3>3. FirstHandler(e) \in Work /\ FirstHandler(e).event = e
            /\ FirstHandler(e).handler = 1 /\ FirstHandler(e).attempt = 1
        BY <3>2 DEF FirstHandler, Work
      <3>4. 1 \in 1 .. Handlers[e] /\ 1 \in 1 .. MaxAttempts
        BY <3>2, HandlersType, LimitsAssumption
      <3>5. ProcTypeOK'
        BY <1>0, <3>1, <3>2, <3>3, <3>4 DEF ProcTypeOK, WorkOK, Labels, Working
      <3>6. QED
        BY <2>1, <3>5, <1>q
    <2>4. QED
      BY <1>8, <2>2, <2>3 DEF LoopHead
  <1>9. ASSUME NEW c \in Consumers, Attempt(c) PROVE TypeOK'
    <2>1. pc[c] \in Working
      BY <1>9 DEF Attempt, Working
    <2>2. CASE HandlerOver(c, TRUE) /\ UNCHANGED handled
      BY <1>0, <2>1, <2>2, <1>u, <1>q, HandlerOverCases, HandlerOverType
         DEF TableTypeOK
    <2>3. CASE Goto(c, "run") /\ UNCHANGED <<bus, history>>
      BY <1>0, <2>1, <2>3, <1>u, <1>q, GotoType DEF Labels, Working, history, TableTypeOK
    <2>4. QED
      BY <1>9, <2>2, <2>3 DEF Attempt
  <1>10. ASSUME NEW c \in Consumers, HandlerReturns(c) PROVE TypeOK'
    <2>1. pc[c] \in Working /\ HandlerOver(c, FALSE)
      BY <1>10 DEF HandlerReturns, Working
    <2>2. work[c].event \in Events /\ work[c].handler \in 1 .. Handlers[work[c].event]
      BY <1>0, <2>1, WorkType
    <2>3. TableTypeOK'
      <3> DEFINE e == work[c].event
                 k == work[c].handler
      <3>1. /\ handled' = [handled EXCEPT ![e] = @ \cup {k}]
            /\ bus' = bus /\ skipped' = skipped
        BY <1>0, <1>10, <2>1, HandlerOverCases DEF HandlerReturns
      <3>2. e \in Events /\ k \in 1 .. Handlers[e] /\ k \in Nat
        BY <2>2, HandlersType
      <3> HIDE DEF e, k
      <3>3. QED
        BY <1>0, <3>1, <3>2 DEF TableTypeOK
    <2>4. QED
      BY <1>0, <2>1, <2>3, <1>q, HandlerOverType
  <1>11. ASSUME NEW c \in Consumers, HandlerThrows(c) PROVE TypeOK'
    <2>1. pc[c] \in Working /\ handled' = handled
      BY <1>11 DEF HandlerThrows, Working
    <2>2. CASE HandlerOver(c, TRUE)
      BY <1>0, <2>1, <2>2, <1>u, <1>q, HandlerOverCases, HandlerOverType
         DEF TableTypeOK
    <2>3. CASE /\ ~(work[c].attempt >= MaxAttempts)
               /\ work' = [work EXCEPT ![c].attempt = @ + 1]
               /\ pc' = [pc EXCEPT ![c] = "attempt"]
               /\ UNCHANGED <<bus, life, snap, batch, skipped, envVars>>
      <3> DEFINE w == [work[c] EXCEPT !.attempt = @ + 1]
      <3>1. /\ work[c] \in Work
            /\ work[c].event \in batch[c]
            /\ work[c].handler \in 1 .. Handlers[work[c].event]
            /\ work[c].attempt \in 1 .. MaxAttempts
        BY <1>0, <2>1, WorkType
      <3>2. work' = [work EXCEPT ![c] = w]
        BY <2>3
      <3>3. /\ w \in Work /\ w.event = work[c].event
            /\ w.handler = work[c].handler /\ w.attempt = work[c].attempt + 1
        BY <3>1 DEF Work
      <3>4. w.attempt \in 1 .. MaxAttempts
        BY <2>3, <3>1, <3>3, LimitsAssumption
      <3> HIDE DEF w
      <3>5. /\ pc' = [pc EXCEPT ![c] = "attempt"]
            /\ UNCHANGED <<life, snap, batch, stops, faults>>
        BY <2>3 DEF envVars
      <3>6. ProcTypeOK'
        BY <1>0, <3>1, <3>2, <3>3, <3>4, <3>5 DEF ProcTypeOK, WorkOK, Labels, Working
      <3>7. TableTypeOK'
        BY <1>0, <2>1, <2>3, <1>u DEF TableTypeOK
      <3>8. QED
        BY <3>6, <3>7, <1>q
    <2>4. QED
      BY <1>11, <2>2, <2>3 DEF HandlerThrows
  <1>12. ASSUME NEW c \in Consumers,
                \/ MarkDoneOk(c) \/ MarkDoneFails(c)
                \/ MarkFailedOk(c) \/ MarkFailedFails(c)
         PROVE  TypeOK'
    <2>1. pc[c] \in Working
      BY <1>12 DEF MarkDoneOk, MarkDoneFails, MarkFailedOk, MarkFailedFails, Working
    <2>2. work[c].event \in Events
      BY <1>0, <2>1, WorkType
    <2>3. DoneRow(bus[work[c].event]) \in Row /\ FailedRow(bus[work[c].event]) \in Row
      BY <1>0, <2>2, DoneRowType, FailedRowType DEF TableTypeOK
    <2>4. TableTypeOK'
      BY <1>0, <1>12, <2>2, <2>3
         DEF MarkDoneOk, MarkDoneFails, MarkFailedOk, MarkFailedFails,
             TableTypeOK, history
    <2>5. EndTick(c) \/ EventDone(c)
      BY <1>12 DEF MarkDoneOk, MarkDoneFails, MarkFailedOk, MarkFailedFails
    <2>6. QED
      BY <1>0, <2>4, <2>5, <1>q, EndTickType, EventDoneType
  <1>13. CASE UNCHANGED vars
    BY <1>0, <1>13, <1>q DEF vars, TableTypeOK, ProcTypeOK, WorkOK, history, envVars
  <1>14. QED
    BY <1>1, <1>2, <1>3, <1>4, <1>6, <1>7, <1>8, <1>9, <1>10, <1>11, <1>12, <1>13
       DEF Next, Tick

\* Every reachable state of the bus and its consumers is well typed.
THEOREM TypeCorrect == Spec => []TypeOK
  <1>1. QED
    BY InitType, NextType, PTL DEF Spec

-----------------------------------------------------------------------------
(* An event is deleted only after every handler returned.                   *)
(* DeletedWasHandled is not inductive: markDone makes it true only because  *)
(* the tick that issues it has seen all handlers return without a failure.  *)

\* The handlers before the current one have returned, unless one has failed.
SoFar(c) ==
    /\ pc[c] \in {"attempt", "run"} /\ ~work[c].failed =>
            \A k \in 1 .. (work[c].handler - 1) : k \in handled[work[c].event]
    /\ pc[c] = "ack" => handled[work[c].event] = 1 .. Handlers[work[c].event]

HandledInv == DeletedWasHandled /\ \A c \in Consumers : SoFar(c)

LEMMA HandledStep == TypeOK /\ HandledInv /\ [Next]_vars => HandledInv'
  <1> SUFFICES ASSUME TypeOK, HandledInv, [Next]_vars PROVE HandledInv'
    OBVIOUS
  <1>0. TableTypeOK /\ ProcTypeOK
    BY TypeParts
  <1>t. /\ bus \in [Events -> Row]
        /\ handled \in [Events -> SUBSET Nat]
        /\ skipped \subseteq Events
        /\ \A e \in Events : handled[e] \subseteq 1 .. Handlers[e]
        /\ pc \in [Consumers -> Labels]
        /\ work \in [Consumers -> Work]
    BY <1>0 DEF TableTypeOK, ProcTypeOK
  <1>h. /\ \A e \in Events :
            bus[e].status = "DONE" => e \in skipped \/ handled[e] = 1 .. Handlers[e]
        /\ \A c \in Consumers : SoFar(c)
    BY DEF HandledInv, DeletedWasHandled
  \* It is enough that no row becomes DONE and the one tick that moves is right.
  <1>n. ASSUME \A e \in Events : bus'[e].status = "DONE" => bus[e].status = "DONE",
               handled' = handled, skipped' = skipped
        PROVE  DeletedWasHandled'
    BY <1>n, <1>h DEF DeletedWasHandled
  <1>f. ASSUME handled' = handled, NEW c \in Consumers,
               \A d \in Consumers \ {c} : pc'[d] = pc[d] /\ work'[d] = work[d],
               SoFar(c)'
        PROVE  \A d \in Consumers : SoFar(d)'
    BY <1>f, <1>h DEF SoFar
  <1>i. ASSUME handled' = handled, NEW c \in Consumers,
               \A d \in Consumers \ {c} : pc'[d] = pc[d] /\ work'[d] = work[d],
               pc'[c] \notin {"attempt", "run", "ack"}
        PROVE  \A d \in Consumers : SoFar(d)'
    BY <1>f, <1>i DEF SoFar
  <1>1. ASSUME NEW e \in Events, Publish(e) \/ CleanupFailed(e) \/ ClaimExpires(e)
        PROVE  HandledInv'
    <2>1. \A d \in Events : bus'[d].status = "DONE" => bus[d].status = "DONE"
      BY <1>1, <1>t DEF Publish, CleanupFailed, ClaimExpires, Row
    <2>2. handled' = handled /\ skipped' = skipped /\ pc' = pc /\ work' = work
      BY <1>1 DEF Publish, CleanupFailed, ClaimExpires, World, history
    <2>3. \A c \in Consumers : SoFar(c)'
      BY <2>2, <1>h DEF SoFar
    <2>4. QED
      BY <2>1, <2>2, <2>3, <1>n DEF HandledInv
  <1>2. ASSUME NEW c \in Consumers, Start(c) \/ Dispose(c) \/ Crash(c)
        PROVE  HandledInv'
    <2>1. bus' = bus /\ handled' = handled /\ skipped' = skipped
      BY <1>2 DEF Start, Dispose, Crash, history
    <2>2. CASE pc' = pc /\ work' = work
      BY <2>1, <2>2, <1>h, <1>n DEF SoFar, HandledInv
    <2>3. CASE Crash(c)
      BY <2>1, <2>3, <1>t, <1>n, <1>i DEF Crash, HandledInv
    <2>4. QED
      BY <1>2, <2>2, <2>3 DEF Start, Dispose
  <1>3. ASSUME NEW c \in Consumers,
               \/ TimerFires(c) \/ SweepOk(c) \/ SweepFails(c)
               \/ ClaimBegins(c) \/ ClaimOk(c) \/ ClaimFails(c)
        PROVE  HandledInv'
    <2>1. /\ handled' = handled /\ skipped' = skipped
          /\ pc'[c] \notin {"attempt", "run", "ack"}
          /\ \A d \in Consumers \ {c} : pc'[d] = pc[d] /\ work'[d] = work[d]
      BY <1>3, <1>t DEF TimerFires, SweepOk, SweepFails, ClaimBegins, ClaimOk,
                        ClaimFails, Goto, EndTick, AfterSweep, history
    <2>2. \/ bus' = bus \/ bus' = SweptTable
          \/ \E S \in SUBSET snap[c].pending : bus' = ClaimedTable(c, S)
      BY <1>3 DEF TimerFires, SweepOk, SweepFails, ClaimBegins, ClaimOk, ClaimFails
    <2>3. snap[c].pending \subseteq Events
      BY <1>0 DEF ProcTypeOK, SnapshotType
    <2>4. \A e \in Events : bus'[e].status = "DONE" => bus[e].status = "DONE"
      BY <1>t, <2>2, <2>3, SweptTableType, ClaimedTableType
    <2>5. QED
      BY <2>1, <2>4, <1>n, <1>i DEF HandledInv
  <1>4. ASSUME NEW c \in Consumers, LoopHead(c) PROVE HandledInv'
    <2>1. bus' = bus /\ handled' = handled /\ skipped' = skipped
      BY <1>4 DEF LoopHead, history
    <2>2. CASE EndTick(c)
      BY <2>1, <2>2, <1>t, <1>n, <1>i DEF EndTick, HandledInv
    <2>3. CASE \E e \in batch[c] :
                    /\ work' = [work EXCEPT ![c] = FirstHandler(e)]
                    /\ pc' = [pc EXCEPT ![c] = IF e \in Own[c] THEN "skip" ELSE "run"]
      <3>1. PICK e \in batch[c], label \in {"skip", "run"} :
                    /\ work' = [work EXCEPT ![c] = FirstHandler(e)]
                    /\ pc' = [pc EXCEPT ![c] = label]
        BY <2>3
      <3>2. SoFar(c)'
        BY <1>t, <3>1 DEF SoFar, FirstHandler
      <3>3. \A d \in Consumers \ {c} : pc'[d] = pc[d] /\ work'[d] = work[d]
        BY <1>t, <3>1
      <3>4. QED
        BY <2>1, <3>2, <3>3, <1>n, <1>f DEF HandledInv
    <2>4. QED
      BY <1>4, <2>2, <2>3 DEF LoopHead
  \* The handler of c is over; h is what the history then says of its event.
  <1>5. ASSUME NEW c \in Consumers, NEW failure \in BOOLEAN, HandlerOver(c, failure),
               pc[c] \in {"attempt", "run"},
               IF failure THEN handled' = handled
               ELSE handled' = [handled EXCEPT ![work[c].event] =
                                    @ \cup {work[c].handler}]
        PROVE  HandledInv'
    <2>1. pc[c] \in Working
      BY <1>5 DEF Working
    <2>2. /\ work[c] \in Work /\ work[c].event \in Events
          /\ work[c].handler \in 1 .. Handlers[work[c].event]
          /\ Handlers[work[c].event] \in Nat
      BY <1>0, <2>1, WorkType, HandlersType
    <2>3. /\ bus' = bus /\ skipped' = skipped
          /\ \E w \in Work, label \in Labels :
                /\ work' = [work EXCEPT ![c] = w]
                /\ pc' = [pc EXCEPT ![c] = label]
                /\ w.event = work[c].event
                /\ w.failed = (work[c].failed \/ failure)
                /\ \/ label = "attempt" /\ w.handler = work[c].handler + 1
                   \/ /\ label = IF w.failed THEN "markFailed" ELSE "ack"
                      /\ work[c].handler = Handlers[work[c].event]
      BY <1>0, <1>5, <2>1, HandlerOverCases
    <2>4. PICK w \in Work, label \in Labels :
                /\ work' = [work EXCEPT ![c] = w]
                /\ pc' = [pc EXCEPT ![c] = label]
                /\ w.event = work[c].event
                /\ w.failed = (work[c].failed \/ failure)
                /\ \/ label = "attempt" /\ w.handler = work[c].handler + 1
                   \/ /\ label = IF w.failed THEN "markFailed" ELSE "ack"
                      /\ work[c].handler = Handlers[work[c].event]
      BY <2>3
    <2>5. /\ \A e \in Events : handled[e] \subseteq handled'[e]
          /\ \A e \in Events : handled'[e] \subseteq 1 .. Handlers[e]
      BY <1>5, <1>t, <2>2
    <2>6. DeletedWasHandled'
      BY <1>h, <1>t, <2>3, <2>5 DEF DeletedWasHandled
    <2>7. ASSUME NEW d \in Consumers, d # c PROVE SoFar(d)'
      <3>1. pc'[d] = pc[d] /\ work'[d] = work[d] /\ SoFar(d)
        BY <1>h, <1>t, <2>4, <2>7
      <3>2. pc[d] \in {"attempt", "run", "ack"} => work[d].event \in Events
        BY <1>0, WorkType DEF Working
      <3>3. QED
        BY <2>5, <3>1, <3>2 DEF SoFar
    <2>8. SoFar(c)'
      <3>1. pc'[c] = label /\ work'[c] = w
        BY <1>t, <2>4
      <3>2. CASE failure \/ work[c].failed
        BY <2>4, <3>1, <3>2 DEF SoFar
      <3>3. CASE ~failure /\ ~work[c].failed
        <4>1. \A k \in 1 .. work[c].handler : k \in handled'[work[c].event]
          <5>1. \A k \in 1 .. (work[c].handler - 1) : k \in handled[work[c].event]
            BY <1>h, <1>5, <3>3 DEF SoFar
          <5>2. handled'[work[c].event] =
                    handled[work[c].event] \cup {work[c].handler}
            BY <1>5, <1>t, <2>2, <3>3
          <5>3. QED
            BY <2>2, <5>1, <5>2
        <4>2. CASE label = "attempt" /\ w.handler = work[c].handler + 1
          BY <2>2, <2>4, <3>1, <4>1, <4>2 DEF SoFar
        <4>3. CASE /\ label = IF w.failed THEN "markFailed" ELSE "ack"
                   /\ work[c].handler = Handlers[work[c].event]
          <5>1. handled'[work[c].event] = 1 .. Handlers[work[c].event]
            BY <2>2, <2>5, <4>1, <4>3
          <5>2. QED
            BY <2>4, <3>1, <4>3, <5>1 DEF SoFar
        <4>4. QED
          BY <2>4, <4>2, <4>3
      <3>4. QED
        BY <3>2, <3>3
    <2>9. QED
      BY <2>6, <2>7, <2>8 DEF HandledInv
  <1>6. ASSUME NEW c \in Consumers, Attempt(c) \/ HandlerThrows(c)
        PROVE  HandledInv'
    <2>1. pc[c] \in {"attempt", "run"} /\ handled' = handled
      BY <1>6 DEF Attempt, HandlerThrows, history
    <2>2. CASE HandlerOver(c, TRUE)
      BY <2>1, <2>2, <1>5
    <2>3. CASE ~HandlerOver(c, TRUE)
      <3>1. /\ bus' = bus /\ skipped' = skipped
            /\ \A d \in Consumers \ {c} : pc'[d] = pc[d] /\ work'[d] = work[d]
            /\ pc'[c] \in {"attempt", "run"}
        BY <1>6, <2>3, <1>t DEF Attempt, HandlerThrows, Goto, history
      <3>2. /\ work'[c].event = work[c].event
            /\ work'[c].handler = work[c].handler
            /\ work'[c].failed = work[c].failed
        <4> DEFINE w == [work[c] EXCEPT !.attempt = @ + 1]
        <4>1. /\ w.event = work[c].event /\ w.handler = work[c].handler
              /\ w.failed = work[c].failed
          BY <1>t DEF Work
        <4>2. work' = work \/ work' = [work EXCEPT ![c] = w]
          BY <1>6, <2>3 DEF Attempt, HandlerThrows, Goto
        <4> HIDE DEF w
        <4>3. QED
          BY <1>t, <4>1, <4>2
      <3>3. SoFar(c)'
        BY <1>h, <2>1, <3>1, <3>2 DEF SoFar
      <3>4. QED
        BY <2>1, <3>1, <3>3, <1>n, <1>f DEF HandledInv
    <2>4. QED
      BY <2>2, <2>3
  <1>7. ASSUME NEW c \in Consumers, HandlerReturns(c) PROVE HandledInv'
    BY <1>7, <1>5 DEF HandlerReturns
  <1>8. ASSUME NEW c \in Consumers, MarkDoneOk(c) \/ MarkDoneFails(c)
        PROVE  HandledInv'
    <2> DEFINE e == work[c].event
    <2>1. e \in Events
      BY <1>0, <1>8, WorkType DEF MarkDoneOk, MarkDoneFails, Working
    <2>2. pc[c] = "ack" => handled[e] = 1 .. Handlers[e]
      BY <1>h DEF SoFar
    <2>3. /\ handled' = handled /\ skipped \subseteq skipped'
          /\ pc'[c] \notin {"attempt", "run", "ack"}
          /\ \A d \in Consumers \ {c} : pc'[d] = pc[d] /\ work'[d] = work[d]
      BY <1>8, <1>t DEF MarkDoneOk, MarkDoneFails, EventDone, EndTick
    <2>4. CASE bus' = bus /\ skipped' = skipped
      BY <2>3, <2>4, <1>n, <1>i DEF HandledInv
    <2>5. CASE /\ bus' = [bus EXCEPT ![work[c].event] = DoneRow(@)]
               /\ skipped' = IF pc[c] = "skip" THEN skipped \cup {work[c].event}
                                               ELSE skipped
      <3>1. \A d \in Events : d # e => bus'[d] = bus[d]
        BY <1>t, <2>1, <2>5
      <3>2. e \in skipped' \/ handled[e] = 1 .. Handlers[e]
        BY <1>8, <2>2, <2>5 DEF MarkDoneOk, MarkDoneFails
      <3>3. DeletedWasHandled'
        BY <1>h, <2>3, <3>1, <3>2 DEF DeletedWasHandled
      <3>4. QED
        BY <2>3, <3>3, <1>i DEF HandledInv
    <2>6. QED
      BY <1>8, <2>4, <2>5 DEF MarkDoneOk, MarkDoneFails
  <1>9. ASSUME NEW c \in Consumers, MarkFailedOk(c) \/ MarkFailedFails(c)
        PROVE  HandledInv'
    <2> DEFINE e == work[c].event
    <2>1. e \in Events
      BY <1>0, <1>9, WorkType DEF MarkFailedOk, MarkFailedFails, Working
    <2>2. /\ handled' = handled /\ skipped' = skipped
          /\ pc'[c] \notin {"attempt", "run", "ack"}
          /\ \A d \in Consumers \ {c} : pc'[d] = pc[d] /\ work'[d] = work[d]
      BY <1>9, <1>t DEF MarkFailedOk, MarkFailedFails, EventDone, EndTick, history
    <2>3. bus' = bus \/ bus' = [bus EXCEPT ![e] = FailedRow(@)]
      BY <1>9 DEF MarkFailedOk, MarkFailedFails
    <2>4. FailedRow(bus[e]).status = "DONE" => bus[e].status = "DONE"
      BY <1>t, <2>1, FailedRowType
    <2> HIDE DEF e
    <2>5. \A d \in Events : bus'[d].status = "DONE" => bus[d].status = "DONE"
      BY <1>t, <2>1, <2>3, <2>4
    <2>6. QED
      BY <2>2, <2>5, <1>n, <1>i DEF HandledInv
  <1>10. CASE UNCHANGED vars
    BY <1>10, <1>h, <1>n DEF vars, history, SoFar, HandledInv
  <1>11. QED
    BY <1>1, <1>2, <1>3, <1>4, <1>6, <1>7, <1>8, <1>9, <1>10 DEF Next, Tick

\* At least once, for every number of replicas, events and handlers: an event
\* leaves the bus as done only after all its handlers returned, or unhandled
\* as an event of the consumer's own service.
THEOREM DeletionImpliesHandling == Spec => []DeletedWasHandled
  <1>1. Init => HandledInv
    BY DEF Init, HandledInv, DeletedWasHandled, SoFar, EmptyRow
  <1>2. HandledInv => DeletedWasHandled
    BY DEF HandledInv
  <1>3. QED
    BY <1>1, <1>2, HandledStep, TypeCorrect, PTL DEF Spec

-----------------------------------------------------------------------------
(* Retries.  A row is given up exactly when its budget is used up.          *)

\* What one step of the system may do to one row: nothing; publish, claim,
\* age or release it; remove it; or count a failure.
RowStep(old, new) ==
    \/ new = old
    \/ /\ new.retries = old.retries
       /\ old.status \in {"NONE", "PENDING", "CLAIMED"}
       /\ new.status \in {"PENDING", "CLAIMED"}
    \/ new.retries = old.retries /\ new.status \in {"DONE", "PURGED"}
    \/ Exists(old) /\ new = FailedRow(old)

LEMMA RowSteps ==
    TypeOK /\ [Next]_vars => \A e \in Events : RowStep(bus[e], bus'[e])
  <1> SUFFICES ASSUME TypeOK, [Next]_vars, NEW e \in Events
               PROVE  RowStep(bus[e], bus'[e])
    OBVIOUS
  <1>0. TableTypeOK /\ ProcTypeOK
    BY TypeParts
  <1>t. bus \in [Events -> Row] /\ bus[e] \in Row
    BY <1>0 DEF TableTypeOK
  <1>1. CASE bus' = bus
    BY <1>1 DEF RowStep
  <1>2. ASSUME NEW d \in Events, Publish(d) \/ CleanupFailed(d) \/ ClaimExpires(d)
        PROVE  RowStep(bus[e], bus'[e])
    <2>1. d # e => bus'[e] = bus[e]
      BY <1>t, <1>2 DEF Publish, CleanupFailed, ClaimExpires
    <2>2. bus'[d].retries = bus[d].retries
      BY <1>t, <1>2 DEF Publish, CleanupFailed, ClaimExpires, Row
    <2>3. \/ bus[d].status = "NONE" /\ bus'[d].status = "PENDING"
          \/ bus[d].status = "FAILED" /\ bus'[d].status = "PURGED"
          \/ bus[d].status = "CLAIMED" /\ bus'[d].status = "CLAIMED"
      BY <1>t, <1>2 DEF Publish, CleanupFailed, ClaimExpires, Row
    <2>4. QED
      BY <2>1, <2>2, <2>3 DEF RowStep
  <1>3. CASE bus' = SweptTable
    BY <1>t, <1>3, SweptTableType DEF RowStep, IsStale
  <1>4. ASSUME NEW c \in Consumers, NEW S \in SUBSET snap[c].pending,
               ClaimResult(c, S), bus' = ClaimedTable(c, S)
        PROVE  RowStep(bus[e], bus'[e])
    <2>1. S \subseteq Events
      BY <1>0 DEF ProcTypeOK, SnapshotType
    <2>2. \A d \in S : bus[d].status = "PENDING"
      BY <1>4, ClaimResultRows
    <2>3. QED
      BY <1>t, <1>4, <2>1, <2>2, ClaimedTableType DEF RowStep
  <1>5. ASSUME NEW d \in Events,
               \/ bus' = [bus EXCEPT ![d] = DoneRow(@)]
               \/ bus' = [bus EXCEPT ![d] = FailedRow(@)]
        PROVE  RowStep(bus[e], bus'[e])
    <2>1. \/ bus'[e] = bus[e]
          \/ bus'[e] = DoneRow(bus[e])
          \/ bus'[e] = FailedRow(bus[e])
      BY <1>t, <1>5
    <2>2. ~Exists(bus[e]) => DoneRow(bus[e]) = bus[e] /\ FailedRow(bus[e]) = bus[e]
      BY DEF DoneRow, FailedRow
    <2>3. QED
      BY <1>t, <2>1, <2>2, DoneRowType DEF RowStep
  <1>6. ASSUME NEW c \in Consumers, Tick(c) PROVE RowStep(bus[e], bus'[e])
    <2>1. pc[c] \in Working => work[c].event \in Events
      BY <1>0, WorkType
    <2>2. CASE \/ MarkDoneOk(c) \/ MarkDoneFails(c)
               \/ MarkFailedOk(c) \/ MarkFailedFails(c)
      BY <1>1, <1>5, <2>1, <2>2
         DEF MarkDoneOk, MarkDoneFails, MarkFailedOk, MarkFailedFails, Working
    <2>3. CASE ClaimOk(c) \/ ClaimFails(c)
      BY <1>1, <1>4, <2>3 DEF ClaimOk, ClaimFails
    <2>4. CASE SweepOk(c)
      BY <1>3, <2>4 DEF SweepOk
    <2>5. CASE \/ TimerFires(c) \/ SweepFails(c) \/ ClaimBegins(c) \/ LoopHead(c)
               \/ Attempt(c) \/ HandlerReturns(c) \/ HandlerThrows(c)
      BY <1>1, <2>5 DEF TimerFires, SweepFails, ClaimBegins, LoopHead, Attempt,
                        HandlerReturns, HandlerThrows, HandlerOver
    <2>6. QED
      BY <1>6, <2>2, <2>3, <2>4, <2>5 DEF Tick
  <1>7. QED
    BY <1>1, <1>2, <1>6 DEF Next, vars, Start, Dispose, Crash

\* RetryBudget alone is not inductive: a row starts with no retries.
RetryInv ==
    RetryBudget /\ \A e \in Events : bus[e].status = "NONE" => bus[e].retries = 0

LEMMA RetryStep == TypeOK /\ RetryInv /\ [Next]_vars => RetryInv'
  <1> SUFFICES ASSUME TypeOK, RetryInv, [Next]_vars, NEW e \in Events
               PROVE  /\ bus'[e].status \in {"PENDING", "CLAIMED"} =>
                            bus'[e].retries < MaxRetries
                      /\ bus'[e].status = "FAILED" => bus'[e].retries >= MaxRetries
                      /\ bus'[e].status = "NONE" => bus'[e].retries = 0
    BY DEF RetryInv, RetryBudget
  <1>1. bus[e] \in Row /\ bus[e].retries \in Nat
    BY DEF TypeOK, Row
  <1>2. /\ bus[e].status \in {"PENDING", "CLAIMED"} => bus[e].retries < MaxRetries
        /\ bus[e].status = "FAILED" => bus[e].retries >= MaxRetries
        /\ bus[e].status = "NONE" => bus[e].retries = 0
    BY DEF RetryInv, RetryBudget
  <1>3. RowStep(bus[e], bus'[e])
    BY RowSteps
  <1>4. CASE Exists(bus[e]) /\ bus'[e] = FailedRow(bus[e])
    BY <1>1, <1>4, FailedRowType, LimitsAssumption
  <1>5. CASE ~(Exists(bus[e]) /\ bus'[e] = FailedRow(bus[e]))
    BY <1>1, <1>2, <1>3, <1>5, LimitsAssumption DEF RowStep
  <1>6. QED
    BY <1>4, <1>5

\* No event waits or is claimed past its retry budget and none is FAILED
\* before, even when replicas that lost their claim mark it failed again.
THEOREM RetryBudgetKept == Spec => []RetryBudget
  <1>1. Init => RetryInv
    BY LimitsAssumption DEF Init, RetryInv, RetryBudget, EmptyRow
  <1>2. RetryInv => RetryBudget
    BY DEF RetryInv
  <1>3. QED
    BY <1>1, <1>2, RetryStep, TypeCorrect, PTL DEF Spec

-----------------------------------------------------------------------------
(* Exclusive claims, when no tick outlives staleClaimAfterMs.               *)
(* OneReplicaPerEvent is not inductive: what keeps a second replica from    *)
(* claiming an event in hand is its row, CLAIMED by the first, not stale.   *)

LEMMA FaultsConstant == [Next]_vars => faults' = faults
  <1> SUFFICES ASSUME [Next]_vars PROVE faults' = faults
    OBVIOUS
  <1>1. CASE \E e \in Events : Publish(e) \/ CleanupFailed(e) \/ ClaimExpires(e)
    BY <1>1 DEF Publish, CleanupFailed, ClaimExpires, World, envVars
  <1>2. ASSUME NEW c \in Consumers, Start(c) \/ Dispose(c) \/ Crash(c)
        PROVE  faults' = faults
    BY <1>2 DEF Start, Dispose, Crash, envVars
  <1>3. ASSUME NEW c \in Consumers, Tick(c) PROVE faults' = faults
    BY <1>3 DEF Tick, TimerFires, SweepOk, SweepFails, ClaimBegins, ClaimOk,
                ClaimFails, LoopHead, Attempt, HandlerReturns, HandlerThrows,
                HandlerOver, MarkDoneOk, MarkDoneFails, MarkFailedOk,
                MarkFailedFails, Goto, EndTick, EventDone, envVars
  <1>4. QED
    BY <1>1, <1>2, <1>3 DEF Next, vars, envVars

Held(c, e) ==
    /\ bus[e].status = "CLAIMED"
    /\ bus[e].claimedBy = c
    /\ ~bus[e].expired

HolderInv ==
    /\ \A c, d \in Consumers : c # d => batch[c] \cap batch[d] = {}
    /\ \A c \in Consumers : \A e \in batch[c] : Held(c, e)

LEMMA HolderStep ==
    ASSUME TypeOK, HolderInv, "slowTick" \notin faults, [Next]_vars
    PROVE  HolderInv' /\ HolderEndsClaim
  <1>0. TableTypeOK /\ ProcTypeOK
    BY TypeParts
  <1>t. /\ bus \in [Events -> Row]
        /\ pc \in [Consumers -> Labels]
        /\ batch \in [Consumers -> SUBSET Events]
    BY <1>0 DEF TableTypeOK, ProcTypeOK
  <1>h. \A c, d \in Consumers : \A e \in batch[c] :
            Held(c, e) /\ (e \in batch[d] => c = d)
    BY DEF HolderInv
  \* It is enough that batches only lose entries and that a batch that loses
  \* none keeps its rows.
  <1>s. ASSUME \A c \in Consumers : batch'[c] \subseteq batch[c],
               \A c \in Consumers : \A e \in batch[c] :
                    Held(c, e)' \/ (e \notin batch'[c] /\ pc'[c] # pc[c])
        PROVE  HolderInv' /\ HolderEndsClaim
    BY <1>s, <1>h DEF HolderInv, HolderEndsClaim, Held
  <1>1. ASSUME NEW d \in Events, Publish(d) \/ CleanupFailed(d) \/ ClaimExpires(d)
        PROVE  HolderInv' /\ HolderEndsClaim
    <2>1. batch' = batch
      BY <1>1 DEF Publish, CleanupFailed, ClaimExpires, World
    <2>2. ASSUME NEW c \in Consumers, NEW e \in batch[c] PROVE Held(c, e)'
      <3>1. Held(c, e) /\ e \in Events
        BY <1>h, <1>t
      <3>2. bus'[e] = bus[e]
        BY <1>1, <1>t, <3>1 DEF Publish, CleanupFailed, ClaimExpires, Held, InHand
      <3>3. QED
        BY <3>1, <3>2 DEF Held
    <2>3. QED
      BY <2>1, <2>2, <1>s
  <1>2. ASSUME NEW c \in Consumers,
               \/ Start(c) \/ Dispose(c) \/ Crash(c) \/ TimerFires(c)
               \/ SweepFails(c) \/ ClaimBegins(c) \/ LoopHead(c)
               \/ Attempt(c) \/ HandlerReturns(c) \/ HandlerThrows(c)
        PROVE  HolderInv' /\ HolderEndsClaim
    <2>1. /\ bus' = bus
          /\ batch' = batch \/ batch' = [batch EXCEPT ![c] = {}]
      BY <1>2 DEF Start, Dispose, Crash, TimerFires, SweepFails, ClaimBegins,
                  LoopHead, Attempt, HandlerReturns, HandlerThrows, HandlerOver,
                  Goto, EndTick
    <2>2. \A d \in Consumers : batch'[d] \subseteq batch[d]
      BY <2>1, <1>t
    <2>3. \A d \in Consumers : \A e \in batch[d] : Held(d, e)'
      BY <2>1, <1>h DEF Held
    <2>4. QED
      BY <2>2, <2>3, <1>s
  <1>3. ASSUME NEW c \in Consumers, SweepOk(c) PROVE HolderInv' /\ HolderEndsClaim
    <2>1. batch' = batch /\ bus' = SweptTable
      BY <1>3 DEF SweepOk, Goto
    <2>2. ASSUME NEW d \in Consumers, NEW e \in batch[d] PROVE Held(d, e)'
      <3>1. Held(d, e) /\ e \in Events
        BY <1>h, <1>t
      <3>2. bus'[e] = bus[e]
        BY <1>t, <2>1, <3>1, SweptTableType DEF Held, IsStale
      <3>3. QED
        BY <3>1, <3>2 DEF Held
    <2>3. QED
      BY <2>1, <2>2, <1>s
  <1>4. ASSUME NEW c \in Consumers, NEW S \in SUBSET snap[c].pending,
               ClaimResult(c, S), bus' = ClaimedTable(c, S), pc[c] = "claiming",
               batch' = [batch EXCEPT ![c] = S] \/ batch' = [batch EXCEPT ![c] = {}],
               pc'[c] # pc[c]
        PROVE  HolderInv' /\ HolderEndsClaim
    <2>1. S \subseteq Events /\ \A e \in S : bus[e].status = "PENDING"
      BY <1>0, <1>4, ClaimResultRows DEF ProcTypeOK, SnapshotType
    <2>2. \A d \in Consumers : \A e \in batch[d] : e \notin S /\ e \in Events
      BY <2>1, <1>h, <1>t DEF Held
    <2>3. \A d \in Consumers : \A e \in batch[d] : bus'[e] = bus[e]
      BY <1>4, <1>t, <2>1, <2>2, ClaimedTableType
    <2>4. \A d \in Consumers \ {c} : batch'[d] = batch[d]
      BY <1>4, <1>t
    <2>5. /\ batch'[c] \subseteq S
          /\ \A e \in batch'[c] : Held(c, e)'
      <3>1. batch'[c] \subseteq S
        BY <1>4, <1>t
      <3>2. \A e \in S : /\ bus'[e].status = "CLAIMED"
                         /\ bus'[e].claimedBy = c
                         /\ ~bus'[e].expired
        BY <1>4, <1>t, <2>1, ClaimedTableType
      <3>3. QED
        BY <3>1, <3>2 DEF Held
    <2>6. \A d \in Consumers : \A e \in batch[d] : Held(d, e)'
      BY <1>h, <2>3 DEF Held
    <2>7. HolderInv'
      BY <1>h, <2>2, <2>4, <2>5, <2>6 DEF HolderInv
    <2>8. QED
      BY <2>6, <2>7 DEF HolderEndsClaim, Held
  <1>5. ASSUME NEW c \in Consumers, ClaimOk(c) \/ ClaimFails(c)
        PROVE  HolderInv' /\ HolderEndsClaim
    <2>1. CASE bus' = bus /\ ClaimFails(c)
      <3>1. batch' = [batch EXCEPT ![c] = {}]
        BY <2>1 DEF ClaimFails, EndTick
      <3>2. \A d \in Consumers : batch'[d] \subseteq batch[d]
        BY <3>1, <1>t
      <3>3. \A d \in Consumers : \A e \in batch[d] : Held(d, e)'
        BY <1>h, <2>1 DEF Held
      <3>4. QED
        BY <3>2, <3>3, <1>s
    <2>2. CASE \E S \in SUBSET snap[c].pending :
                 /\ ClaimResult(c, S)
                 /\ bus' = ClaimedTable(c, S)
                 /\ \/ batch' = [batch EXCEPT ![c] = S]
                    \/ batch' = [batch EXCEPT ![c] = {}]
      <3>1. pc[c] = "claiming" /\ pc'[c] # pc[c]
        BY <1>5, <1>t DEF ClaimOk, ClaimFails, EndTick
      <3>2. QED
        BY <2>2, <3>1, <1>4
    <2>3. QED
      BY <1>5, <2>1, <2>2 DEF ClaimOk, ClaimFails, EndTick
  <1>6. ASSUME NEW c \in Consumers,
               \/ MarkDoneOk(c) \/ MarkDoneFails(c)
               \/ MarkFailedOk(c) \/ MarkFailedFails(c)
        PROVE  HolderInv' /\ HolderEndsClaim
    <2> DEFINE w == work[c].event
    <2>1. pc[c] \in Working
      BY <1>6 DEF MarkDoneOk, MarkDoneFails, MarkFailedOk, MarkFailedFails, Working
    <2>2. w \in batch[c] /\ w \in Events
      BY <1>0, <2>1, WorkType
    <2>3. \A e \in Events : e # w => bus'[e] = bus[e]
      BY <1>6, <1>t, <2>2 DEF MarkDoneOk, MarkDoneFails, MarkFailedOk, MarkFailedFails
    <2>4. /\ batch' = [batch EXCEPT ![c] = @ \ {w}] \/ batch' = [batch EXCEPT ![c] = {}]
          /\ pc'[c] \in {"next", "none"}
      BY <1>6, <1>t DEF MarkDoneOk, MarkDoneFails, MarkFailedOk, MarkFailedFails,
                        EventDone, EndTick
    <2> HIDE DEF w
    <2>5. /\ \A d \in Consumers : batch'[d] \subseteq batch[d]
          /\ w \notin batch'[c] /\ pc'[c] # pc[c]
      BY <1>t, <2>1, <2>4 DEF Working
    <2>6. ASSUME NEW d \in Consumers, NEW e \in batch[d]
          PROVE  Held(d, e)' \/ (e \notin batch'[d] /\ pc'[d] # pc[d])
      <3>1. Held(d, e) /\ e \in Events
        BY <1>h, <1>t
      <3>2. CASE e # w
        BY <2>3, <3>1, <3>2 DEF Held
      <3>3. CASE e = w
        BY <1>h, <2>2, <2>5, <3>3
      <3>4. QED
        BY <3>2, <3>3
    <2>7. QED
      BY <2>5, <2>6, <1>s
  <1>7. CASE UNCHANGED vars
    BY <1>7, <1>h, <1>s DEF vars, Held
  <1>8. QED
    BY <1>1, <1>2, <1>3, <1>5, <1>6, <1>7 DEF Next, Tick

\* If no tick outlives staleClaimAfterMs, no two replicas ever have one event
\* in hand, however their claims overlap and whatever crashes there are.
THEOREM ClaimsAreExclusive == Spec => []OneReplicaPerEvent
  <1> DEFINE Inv == "slowTick" \notin faults => HolderInv
  <1>1. Init => Inv
    BY DEF Init, HolderInv
  <1>2. Inv => OneReplicaPerEvent
    BY DEF HolderInv, OneReplicaPerEvent
  <1>3. TypeOK /\ Inv /\ [Next]_vars => Inv'
    BY HolderStep, FaultsConstant
  <1>4. QED
    BY <1>1, <1>2, <1>3, TypeCorrect, PTL DEF Spec

\* And no step of another replica, its sweep included, ends the claim of an
\* event in hand.
THEOREM ClaimsEndByHolder == Spec => OnlyHolderEndsClaim
  <1> DEFINE Inv == "slowTick" \notin faults => HolderInv
  <1>1. Init => Inv
    BY DEF Init, HolderInv
  <1>2. TypeOK /\ Inv /\ [Next]_vars => Inv'
    BY HolderStep, FaultsConstant
  <1>3. TypeOK /\ Inv /\ [Next]_vars => [HolderEndsClaim]_vars
    BY HolderStep DEF HolderEndsClaim
  <1>4. QED
    BY <1>1, <1>2, <1>3, TypeCorrect, PTL DEF Spec, OnlyHolderEndsClaim

-----------------------------------------------------------------------------
(* One replica per aggregate, when claims do not overlap either.            *)

\* With one claim in flight at a time, its snapshot still shows the aggregate
\* of every CLAIMED row; so CLAIMED rows of one aggregate have one owner.
AggInv ==
    /\ \A c, d \in Consumers : pc[c] = "claiming" /\ pc[d] = "claiming" => c = d
    /\ \A c \in Consumers : pc[c] = "claiming" =>
            \A e \in Events : bus[e].status = "CLAIMED" /\ AggOf[e] # NoAgg
                => AggOf[e] \in snap[c].busy
    /\ \A d, e \in Events :
            /\ bus[d].status = "CLAIMED" /\ bus[e].status = "CLAIMED"
            /\ AggOf[d] = AggOf[e] /\ AggOf[e] # NoAgg
            => bus[d].claimedBy = bus[e].claimedBy

\* A row that is CLAIMED after the step was so before, by the same replica.
KeepsOwner(old, new) ==
    new.status = "CLAIMED" => old.status = "CLAIMED" /\ new.claimedBy = old.claimedBy

\* A claim commits: the rows of S are c's and its snapshot is gone.
Commits(c, S) ==
    /\ pc[c] = "claiming"
    /\ S \in SUBSET snap[c].pending
    /\ ClaimResult(c, S)
    /\ bus' = ClaimedTable(c, S)
    /\ \E label \in {"next", "none"} : pc' = [pc EXCEPT ![c] = label]
    /\ snap' = [snap EXCEPT ![c] = NoSnapshot]

\* No other step makes a row CLAIMED, or has a claim in flight that was not.
Quiet ==
    /\ \A e \in Events : KeepsOwner(bus[e], bus'[e])
    /\ \A c \in Consumers :
            pc'[c] = "claiming" => pc[c] = "claiming" /\ snap'[c] = snap[c]

LEMMA ClaimSteps ==
    ASSUME TypeOK, [Next]_vars
    PROVE  \/ \E c \in Consumers : ClaimBegins(c)
           \/ \E c \in Consumers, S \in SUBSET Events : Commits(c, S)
           \/ Quiet
  <1>0. TableTypeOK /\ ProcTypeOK
    BY TypeParts
  <1>t. /\ bus \in [Events -> Row]
        /\ pc \in [Consumers -> Labels]
        /\ snap \in [Consumers -> SnapshotType]
    BY <1>0 DEF TableTypeOK, ProcTypeOK
  \* A step of c that moves it to a label other than "claiming".
  <1>s. ASSUME NEW c \in Consumers,
               \/ pc' = pc
               \/ \E label \in Labels \ {"claiming"} : pc' = [pc EXCEPT ![c] = label],
               snap' = snap \/ (snap' = [snap EXCEPT ![c] = NoSnapshot] /\ pc' # pc),
               \A e \in Events : KeepsOwner(bus[e], bus'[e])
        PROVE  Quiet
    BY <1>t, <1>s DEF Quiet
  <1>1. ASSUME NEW d \in Events, Publish(d) \/ CleanupFailed(d) \/ ClaimExpires(d)
        PROVE  Quiet
    <2>1. pc' = pc /\ snap' = snap
      BY <1>1 DEF Publish, CleanupFailed, ClaimExpires, World
    <2>2. \A e \in Events : KeepsOwner(bus[e], bus'[e])
      BY <1>1, <1>t DEF Publish, CleanupFailed, ClaimExpires, KeepsOwner, Row
    <2>3. QED
      BY <2>1, <2>2 DEF Quiet
  <1>2. ASSUME NEW c \in Consumers,
               \/ Start(c) \/ Dispose(c) \/ Crash(c) \/ TimerFires(c)
               \/ SweepFails(c) \/ LoopHead(c)
               \/ Attempt(c) \/ HandlerReturns(c) \/ HandlerThrows(c)
        PROVE  Quiet
    <2>1. bus' = bus
      BY <1>2 DEF Start, Dispose, Crash, TimerFires, SweepFails, LoopHead,
                  Attempt, HandlerReturns, HandlerThrows, HandlerOver, Goto
    <2>2. ASSUME NEW d \in Consumers, pc'[d] = "claiming"
          PROVE  pc[d] = "claiming" /\ snap'[d] = snap[d]
      <3>1. CASE Start(c) \/ Dispose(c) \/ Crash(c)
        BY <2>2, <3>1, <1>t DEF Start, Dispose, Crash
      <3>2. CASE TimerFires(c) \/ SweepFails(c) \/ LoopHead(c)
        BY <2>2, <3>2, <1>t DEF TimerFires, SweepFails, LoopHead, Goto, EndTick,
                                AfterSweep
      <3>3. CASE Attempt(c) \/ HandlerReturns(c) \/ HandlerThrows(c)
        BY <2>2, <3>3, <1>t DEF Attempt, HandlerReturns, HandlerThrows,
                                HandlerOver, Goto
      <3>4. QED
        BY <1>2, <3>1, <3>2, <3>3
    <2>3. QED
      BY <2>1, <2>2 DEF Quiet, KeepsOwner
  <1>3. ASSUME NEW c \in Consumers, SweepOk(c) PROVE Quiet
    <2>1. \A e \in Events : KeepsOwner(bus[e], bus'[e])
      BY <1>3, <1>t, SweptTableType DEF SweepOk, KeepsOwner
    <2>2. QED
      BY <1>3, <1>t, <2>1 DEF SweepOk, Goto, AfterSweep, Quiet
  <1>4. ASSUME NEW c \in Consumers, ClaimOk(c) \/ ClaimFails(c)
        PROVE  Quiet \/ \E S \in SUBSET Events : Commits(c, S)
    <2>1. /\ pc[c] = "claiming"
          /\ \E label \in {"next", "none"} : pc' = [pc EXCEPT ![c] = label]
          /\ snap' = [snap EXCEPT ![c] = NoSnapshot]
      BY <1>4 DEF ClaimOk, ClaimFails, EndTick
    <2>2. CASE bus' = bus
      BY <1>t, <2>1, <2>2 DEF Quiet, KeepsOwner
    <2>3. CASE \E S \in SUBSET snap[c].pending :
                 ClaimResult(c, S) /\ bus' = ClaimedTable(c, S)
      <3>1. snap[c].pending \subseteq Events
        BY <1>t DEF SnapshotType
      <3>2. QED
        BY <2>1, <2>3, <3>1 DEF Commits
    <2>4. QED
      BY <1>4, <2>2, <2>3 DEF ClaimOk, ClaimFails
  <1>5. ASSUME NEW c \in Consumers,
               \/ MarkDoneOk(c) \/ MarkDoneFails(c)
               \/ MarkFailedOk(c) \/ MarkFailedFails(c)
        PROVE  Quiet
    <2> DEFINE w == work[c].event
    <2>1. pc[c] \in Working
      BY <1>5 DEF MarkDoneOk, MarkDoneFails, MarkFailedOk, MarkFailedFails, Working
    <2>2. w \in Events
      BY <1>0, <2>1, WorkType
    <2>3. \/ bus' = bus
          \/ bus' = [bus EXCEPT ![w] = DoneRow(@)]
          \/ bus' = [bus EXCEPT ![w] = FailedRow(@)]
      BY <1>5 DEF MarkDoneOk, MarkDoneFails, MarkFailedOk, MarkFailedFails
    <2>4. \E label \in {"next", "none"} : pc' = [pc EXCEPT ![c] = label]
      BY <1>5 DEF MarkDoneOk, MarkDoneFails, MarkFailedOk, MarkFailedFails,
                  EventDone, EndTick
    <2>5. snap' = snap \/ snap' = [snap EXCEPT ![c] = NoSnapshot]
      BY <1>5 DEF MarkDoneOk, MarkDoneFails, MarkFailedOk, MarkFailedFails,
                  EventDone, EndTick
    <2> HIDE DEF w
    <2>6. /\ KeepsOwner(bus[w], DoneRow(bus[w]))
          /\ KeepsOwner(bus[w], FailedRow(bus[w]))
      BY <1>t, <2>2, DoneRowType, FailedRowType DEF KeepsOwner, Exists
    <2>7. \A e \in Events : KeepsOwner(bus[e], bus'[e])
      BY <1>t, <2>2, <2>3, <2>6 DEF KeepsOwner
    <2>8. QED
      BY <1>t, <2>4, <2>5, <2>7 DEF Quiet
  <1>6. CASE UNCHANGED vars
    BY <1>6 DEF vars, Quiet, KeepsOwner
  <1>7. QED
    BY <1>1, <1>2, <1>3, <1>4, <1>5, <1>6 DEF Next, Tick

LEMMA AggStep ==
    ASSUME TypeOK, AggInv, "overlap" \notin faults, [Next]_vars
    PROVE  AggInv'
  <1>t. /\ bus \in [Events -> Row]
        /\ pc \in [Consumers -> Labels]
        /\ snap \in [Consumers -> SnapshotType]
    BY TypeParts DEF TableTypeOK, ProcTypeOK
  <1>1. ASSUME NEW c \in Consumers, ClaimBegins(c) PROVE AggInv'
    <2>1. /\ bus' = bus
          /\ \A d \in Consumers : pc'[d] = "claiming" <=> d = c
      BY <1>1, <1>t DEF ClaimBegins
    <2>2. snap'[c].busy = Aggregates({e \in Events : bus[e].status = "CLAIMED"})
      BY <1>1, <1>t DEF ClaimBegins, Snapshot
    <2>3. \A e \in Events : bus[e].status = "CLAIMED" /\ AggOf[e] # NoAgg
                => AggOf[e] \in snap'[c].busy
      BY <2>2 DEF Aggregates
    <2>4. QED
      BY <2>1, <2>3 DEF AggInv
  <1>2. ASSUME NEW c \in Consumers, NEW S \in SUBSET Events, Commits(c, S)
        PROVE  AggInv'
    <2>1. \A d \in Consumers : pc'[d] # "claiming"
      BY <1>2, <1>t DEF Commits, AggInv
    <2>2. \A e \in S : AggOf[e] \notin snap[c].busy
      BY <1>2, ClaimResultRows DEF Commits
    <2>3. \A e \in Events : bus[e].status = "CLAIMED" /\ AggOf[e] # NoAgg
                => AggOf[e] \in snap[c].busy
      BY <1>2 DEF Commits, AggInv
    <2>4. \A e \in Events :
            /\ e \notin S => bus'[e] = bus[e]
            /\ e \in S => bus'[e].status = "CLAIMED" /\ bus'[e].claimedBy = c
      BY <1>2, <1>t, ClaimedTableType DEF Commits
    <2>5. ASSUME NEW d \in Events, NEW e \in Events,
                 bus'[d].status = "CLAIMED", bus'[e].status = "CLAIMED",
                 AggOf[d] = AggOf[e], AggOf[e] # NoAgg
          PROVE  bus'[d].claimedBy = bus'[e].claimedBy
      <3>1. CASE d \in S /\ e \in S
        BY <2>4, <3>1
      <3>2. CASE d \notin S /\ e \notin S
        BY <2>4, <2>5, <3>2 DEF AggInv
      <3>3. CASE (d \in S) # (e \in S)
        BY <2>2, <2>3, <2>4, <2>5, <3>3
      <3>4. QED
        BY <3>1, <3>2, <3>3
    <2>6. QED
      BY <2>1, <2>5 DEF AggInv
  <1>3. CASE Quiet
    <2>1. \A e \in Events : bus'[e].status = "CLAIMED" =>
            bus[e].status = "CLAIMED" /\ bus'[e].claimedBy = bus[e].claimedBy
      BY <1>3 DEF Quiet, KeepsOwner
    <2>2. \A c \in Consumers : pc'[c] = "claiming" =>
            pc[c] = "claiming" /\ snap'[c] = snap[c]
      BY <1>3 DEF Quiet
    <2>3. QED
      BY <2>1, <2>2 DEF AggInv
  <1>4. QED
    BY <1>1, <1>2, <1>3, ClaimSteps

\* If, besides, no two claims are in flight at once, no two replicas ever have
\* events of one aggregate in hand, even replicas of different services.
THEOREM AggregatesAreExclusive == Spec => []OneReplicaPerAggregate
  <1> DEFINE Inv == /\ "slowTick" \notin faults => HolderInv
                    /\ "overlap" \notin faults => AggInv
  <1>1. Init => Inv
    BY DEF Init, HolderInv, AggInv, EmptyRow
  <1>2. TypeOK /\ Inv => OneReplicaPerAggregate
    <2> SUFFICES ASSUME TypeOK, HolderInv, AggInv,
                        NEW c \in Consumers, NEW d \in Consumers, c # d,
                        NEW a \in Aggregates(batch[c]), a \in Aggregates(batch[d])
                 PROVE  FALSE
      BY DEF OneReplicaPerAggregate
    <2>1. PICK e \in batch[c] : AggOf[e] = a /\ a # NoAgg
      BY DEF Aggregates
    <2>2. PICK f \in batch[d] : AggOf[f] = a
      BY DEF Aggregates
    <2>3. e \in Events /\ f \in Events
      BY DEF TypeOK
    <2>4. Held(c, e) /\ Held(d, f)
      BY DEF HolderInv
    <2>5. QED
      BY <2>1, <2>2, <2>3, <2>4 DEF Held, AggInv
  <1>3. TypeOK /\ Inv /\ [Next]_vars => Inv'
    BY HolderStep, AggStep, FaultsConstant
  <1>4. QED
    BY <1>1, <1>2, <1>3, TypeCorrect, PTL DEF Spec

-----------------------------------------------------------------------------
(* Older events first.                                                      *)

\* What a step does to what a replica has in hand: a claim gives it a new batch; otherwise
\* an event leaves it only with the whole batch, or marked done or failed.
Shrinks(c) ==
    /\ batch'[c] \subseteq batch[c]
    /\ \A d \in batch[c] \ batch'[c] :
        batch'[c] = {} \/ bus'[d] \in {DoneRow(bus[d]), FailedRow(bus[d])}

LEMMA BatchSteps ==
    ASSUME TypeOK, [Next]_vars, NEW c \in Consumers
    PROVE  Shrinks(c) \/ Commits(c, batch'[c])
  <1>0. TableTypeOK /\ ProcTypeOK
    BY TypeParts
  <1>t. /\ bus \in [Events -> Row]
        /\ batch \in [Consumers -> SUBSET Events]
        /\ snap \in [Consumers -> SnapshotType]
    BY <1>0 DEF TableTypeOK, ProcTypeOK
  <1>s. batch' = batch \/ batch'[c] = {} => Shrinks(c)
    BY DEF Shrinks
  <1>1. CASE \E e \in Events : Publish(e) \/ CleanupFailed(e) \/ ClaimExpires(e)
    BY <1>1, <1>s DEF Publish, CleanupFailed, ClaimExpires, World
  <1>2. ASSUME NEW b \in Consumers,
               \/ Start(b) \/ Dispose(b) \/ Crash(b) \/ TimerFires(b)
               \/ SweepOk(b) \/ SweepFails(b) \/ ClaimBegins(b) \/ ClaimFails(b)
               \/ LoopHead(b) \/ Attempt(b) \/ HandlerReturns(b) \/ HandlerThrows(b)
        PROVE  Shrinks(c)
    <2>1. batch' = batch \/ batch' = [batch EXCEPT ![b] = {}]
      BY <1>2 DEF Start, Dispose, Crash, TimerFires, SweepOk, SweepFails, ClaimBegins,
                  ClaimFails, LoopHead, Attempt, HandlerReturns, HandlerThrows,
                  HandlerOver, Goto, EndTick
    <2>2. batch'[c] = batch[c] \/ batch'[c] = {}
      BY <1>t, <2>1
    <2>3. QED
      BY <2>2 DEF Shrinks
  <1>3. ASSUME NEW b \in Consumers, ClaimOk(b)
        PROVE  Shrinks(c) \/ Commits(c, batch'[c])
    <2>1. CASE b = c
      <3>1. PICK S \in SUBSET snap[c].pending :
                /\ ClaimResult(c, S)
                /\ bus' = ClaimedTable(c, S)
                /\ batch' = [batch EXCEPT ![c] = S]
        BY <1>3, <2>1 DEF ClaimOk
      <3>2. batch'[c] = S
        BY <1>t, <3>1
      <3>3. QED
        BY <1>3, <2>1, <3>1, <3>2 DEF ClaimOk, Commits
    <2>2. CASE b # c
      <3>1. batch'[c] = batch[c]
        BY <1>t, <1>3, <2>2 DEF ClaimOk
      <3>2. QED
        BY <3>1 DEF Shrinks
    <2>3. QED
      BY <2>1, <2>2
  <1>4. ASSUME NEW b \in Consumers,
               \/ MarkDoneOk(b) \/ MarkDoneFails(b)
               \/ MarkFailedOk(b) \/ MarkFailedFails(b)
        PROVE  Shrinks(c)
    <2> DEFINE w == work[b].event
    <2>1. pc[b] \in Working
      BY <1>4 DEF MarkDoneOk, MarkDoneFails, MarkFailedOk, MarkFailedFails, Working
    <2>2. w \in Events
      BY <1>0, <2>1, WorkType
    <2>3. CASE MarkDoneFails(b) \/ MarkFailedFails(b)
      <3>1. batch' = [batch EXCEPT ![b] = {}]
        BY <2>3 DEF MarkDoneFails, MarkFailedFails, EndTick
      <3>2. batch'[c] = batch[c] \/ batch'[c] = {}
        BY <1>t, <3>1
      <3>3. QED
        BY <3>2 DEF Shrinks
    <2>4. CASE MarkDoneOk(b) \/ MarkFailedOk(b)
      <3>1. /\ batch' = [batch EXCEPT ![b] = @ \ {w}]
            /\ bus' = [bus EXCEPT ![w] = DoneRow(@)]
                \/ bus' = [bus EXCEPT ![w] = FailedRow(@)]
        BY <2>4 DEF MarkDoneOk, MarkFailedOk, EventDone
      <3> HIDE DEF w
      <3>2. bus'[w] \in {DoneRow(bus[w]), FailedRow(bus[w])}
        BY <1>t, <2>2, <3>1
      <3>3. batch'[c] = batch[c] \/ batch'[c] = batch[c] \ {w}
        BY <1>t, <3>1
      <3>4. QED
        BY <3>2, <3>3 DEF Shrinks
    <2>5. QED
      BY <1>4, <2>3, <2>4
  <1>5. CASE UNCHANGED vars
    BY <1>5, <1>s DEF vars
  <1>6. QED
    BY <1>1, <1>2, <1>3, <1>4, <1>5 DEF Next, Tick

\* A row that nobody holds is published or claimed; nothing else happens to it.
LEMMA WaitingSteps ==
    ASSUME TypeOK, HolderInv, [Next]_vars, NEW e \in Events,
           bus[e].status \in {"NONE", "PENDING"}
    PROVE  \/ bus'[e] = bus[e]
           \/ Publish(e)
           \/ \E c \in Consumers, S \in SUBSET Events : Commits(c, S) /\ e \in S
  <1>0. TableTypeOK /\ ProcTypeOK
    BY TypeParts
  <1>t. /\ bus \in [Events -> Row]
        /\ snap \in [Consumers -> SnapshotType]
    BY <1>0 DEF TableTypeOK, ProcTypeOK
  <1>1. ASSUME NEW d \in Events, Publish(d) \/ CleanupFailed(d) \/ ClaimExpires(d)
        PROVE  bus'[e] = bus[e] \/ Publish(e)
    <2>1. d # e => bus'[e] = bus[e]
      BY <1>t, <1>1 DEF Publish, CleanupFailed, ClaimExpires
    <2>2. QED
      BY <1>1, <2>1 DEF CleanupFailed, ClaimExpires
  <1>2. ASSUME NEW c \in Consumers,
               \/ Start(c) \/ Dispose(c) \/ Crash(c) \/ TimerFires(c) \/ SweepFails(c)
               \/ ClaimBegins(c) \/ LoopHead(c)
               \/ Attempt(c) \/ HandlerReturns(c) \/ HandlerThrows(c)
        PROVE  bus'[e] = bus[e]
    BY <1>2 DEF Start, Dispose, Crash, TimerFires, SweepFails, ClaimBegins, LoopHead,
                Attempt, HandlerReturns, HandlerThrows, HandlerOver, Goto
  <1>3. ASSUME NEW c \in Consumers, SweepOk(c) PROVE bus'[e] = bus[e]
    BY <1>3, <1>t, SweptTableType DEF SweepOk, IsStale
  <1>4. ASSUME NEW c \in Consumers, ClaimOk(c) \/ ClaimFails(c)
        PROVE  \/ bus'[e] = bus[e]
               \/ \E S \in SUBSET Events : Commits(c, S) /\ e \in S
    <2>1. /\ pc[c] = "claiming"
          /\ \E label \in {"next", "none"} : pc' = [pc EXCEPT ![c] = label]
          /\ snap' = [snap EXCEPT ![c] = NoSnapshot]
      BY <1>4 DEF ClaimOk, ClaimFails, EndTick
    <2>2. ASSUME NEW S \in SUBSET snap[c].pending,
                 ClaimResult(c, S), bus' = ClaimedTable(c, S)
          PROVE  bus'[e] = bus[e] \/ (Commits(c, S) /\ S \subseteq Events /\ e \in S)
      <3>1. S \subseteq Events
        BY <1>t DEF SnapshotType
      <3>2. e \notin S => bus'[e] = bus[e]
        BY <1>t, <2>2, <3>1, ClaimedTableType
      <3>3. QED
        BY <2>1, <2>2, <3>1, <3>2 DEF Commits
    <2>3. QED
      BY <1>4, <2>2 DEF ClaimOk, ClaimFails
  <1>5. ASSUME NEW c \in Consumers,
               \/ MarkDoneOk(c) \/ MarkDoneFails(c)
               \/ MarkFailedOk(c) \/ MarkFailedFails(c)
        PROVE  bus'[e] = bus[e]
    <2>1. pc[c] \in Working
      BY <1>5 DEF MarkDoneOk, MarkDoneFails, MarkFailedOk, MarkFailedFails, Working
    <2>2. work[c].event \in batch[c] /\ work[c].event # e
      BY <1>0, <2>1, WorkType DEF HolderInv, Held
    <2>3. QED
      BY <1>5, <1>t, <2>2 DEF MarkDoneOk, MarkDoneFails, MarkFailedOk, MarkFailedFails
  <1>6. CASE UNCHANGED vars
    BY <1>6 DEF vars
  <1>7. QED
    BY <1>1, <1>2, <1>3, <1>4, <1>5, <1>6 DEF Next, Tick

\* What a claim may rely on: an older event is published before a newer one; an older one
\* of the same aggregate is in the snapshot with the newer one, or finished with; and what
\* the snapshot saw PENDING stays so, as no other claim is in flight.
Published(d) == bus[d].status # "NONE"

OlderSeen(c) ==
    \A e \in snap[c].pending, d \in Topics[c] :
        Precedes(d, e) /\ AggOf[e] \notin snap[c].busy
            => d \in snap[c].pending \/ bus[d].status \in Finished

OlderHeld(c) ==
    \A e \in batch[c], d \in Topics[c] :
        Precedes(d, e) /\ bus[d].retries = 0
            => d \in batch[c] \/ bus[d].status \in Finished

OrderInv ==
    /\ \A d, e \in Events : Precedes(d, e) /\ Published(e) => Published(d)
    /\ \A c \in Consumers : pc[c] = "claiming" =>
        OlderSeen(c) /\ \A d \in snap[c].pending : bus[d].status = "PENDING"
    /\ \A c \in Consumers : OlderHeld(c)

LEMMA OrderStep ==
    ASSUME TypeOK, RetryInv, HolderInv, AggInv, OrderInv,
           "lateEvent" \notin faults, "overlap" \notin faults, [Next]_vars
    PROVE  OrderInv'
  <1>t. /\ bus \in [Events -> Row]
        /\ pc \in [Consumers -> Labels]
        /\ snap \in [Consumers -> SnapshotType]
        /\ batch \in [Consumers -> SUBSET Events]
    BY TypeParts DEF TableTypeOK, ProcTypeOK
  <1>c. \A c \in Consumers : Topics[c] \subseteq Events
    BY TopicsAssumption
  \* Finished rows stay finished, published ones published; retries do not go back to 0.
  <1>1. ASSUME NEW d \in Events
        PROVE  /\ bus[d].status \in Finished => bus'[d].status \in Finished
               /\ Published(d) => Published(d)'
               /\ bus'[d].retries = 0 => bus[d].retries = 0
    <2>1. RowStep(bus[d], bus'[d]) /\ bus[d] \in Row /\ bus[d].retries \in Nat
      BY <1>t, RowSteps DEF Row
    <2>2. bus[d].status = "FAILED" => bus[d].retries >= MaxRetries
      BY DEF RetryInv, RetryBudget
    <2>3. CASE Exists(bus[d]) /\ bus'[d] = FailedRow(bus[d])
      <3>1. /\ bus'[d].retries = bus[d].retries + 1
            /\ bus'[d].status =
                IF bus[d].retries + 1 >= MaxRetries THEN "FAILED" ELSE "PENDING"
        BY <2>1, <2>3, FailedRowType
      <3>2. QED
        BY <2>1, <2>2, <2>3, <3>1, LimitsAssumption DEF Finished, Published, Exists
    <2>4. QED
      BY <2>1, <2>3 DEF RowStep, Finished, Published
  <1>2. ASSUME NEW d \in Events, NEW e \in Events, Precedes(d, e), Published(e)'
        PROVE  Published(d)'
    <2>1. CASE Published(e)
      BY <1>1, <1>2, <2>1 DEF OrderInv
    <2>2. CASE bus[e].status = "NONE"
      <3>1. \A c \in Consumers, S \in SUBSET Events : Commits(c, S) => e \notin S
        BY <2>2, ClaimResultRows DEF Commits
      <3>2. Publish(e)
        BY <1>2, <2>2, <3>1, WaitingSteps DEF Published
      <3>3. Published(d)
        BY <1>2, <3>2 DEF Publish, Published
      <3>4. QED
        BY <1>1, <3>3
    <2>3. QED
      BY <2>1, <2>2 DEF Published
  <1>3. ASSUME NEW c \in Consumers, pc'[c] = "claiming"
        PROVE  OlderSeen(c)' /\ \A d \in snap'[c].pending : bus'[d].status = "PENDING"
    <2>1. CASE \E b \in Consumers : ClaimBegins(b)
      <3>1. ClaimBegins(c)
        BY <1>t, <1>3, <2>1 DEF ClaimBegins
      <3>2. /\ bus' = bus
            /\ snap'[c].pending = {e \in Topics[c] : bus[e].status = "PENDING"}
            /\ snap'[c].busy = Aggregates({e \in Events : bus[e].status = "CLAIMED"})
        BY <1>t, <3>1 DEF ClaimBegins, Snapshot
      <3>3. ASSUME NEW e \in snap'[c].pending, NEW d \in Topics[c], Precedes(d, e),
                   AggOf[e] \notin snap'[c].busy
            PROVE  d \in snap'[c].pending \/ bus'[d].status \in Finished
        <4>1. d \in Events /\ e \in Events /\ Published(e)
          BY <1>c, <3>2 DEF Published
        <4>2. Published(d)
          BY <3>3, <4>1 DEF OrderInv
        <4>3. bus[d].status # "CLAIMED"
          BY <3>2, <3>3, <4>1 DEF Precedes, Aggregates
        <4>4. bus[d].status \in Statuses
          BY <1>t, <4>1 DEF Row
        <4>5. QED
          BY <3>2, <4>2, <4>3, <4>4 DEF Published, Statuses, Finished
      <3>4. QED
        BY <3>2, <3>3 DEF OlderSeen, Precedes
    <2>2. CASE Quiet \/ \E b \in Consumers, S \in SUBSET Events : Commits(b, S)
      <3>1. ASSUME NEW b \in Consumers, NEW S \in SUBSET Events, Commits(b, S)
            PROVE  pc[b] = "claiming" /\ pc'[b] # "claiming"
        BY <1>t, <3>1 DEF Commits
      <3>2. pc[c] = "claiming"
        <4>1. CASE Quiet
          BY <1>3, <4>1 DEF Quiet
        <4>2. CASE \E b \in Consumers, S \in SUBSET Events : Commits(b, S)
          BY <1>t, <1>3, <4>2 DEF Commits
        <4>3. QED
          BY <2>2, <4>1, <4>2
      <3>3. \A b \in Consumers, S \in SUBSET Events : ~Commits(b, S)
        BY <1>3, <3>1, <3>2 DEF AggInv
      <3>4. snap'[c] = snap[c]
        BY <1>3, <2>2, <3>3 DEF Quiet
      <3>5. snap[c].pending \subseteq Events
        BY <1>t DEF SnapshotType
      <3>6. \A d \in snap[c].pending : bus'[d].status = "PENDING"
        <4>1. TAKE d \in snap[c].pending
        <4>2. d \in Events /\ bus[d].status = "PENDING"
          BY <3>2, <3>5 DEF OrderInv
        <4>3. bus'[d] = bus[d]
          BY <3>3, <4>2, WaitingSteps DEF Publish
        <4>4. QED
          BY <4>2, <4>3
      <3>7. OlderSeen(c)
        BY <3>2 DEF OrderInv
      <3>8. QED
        BY <1>1, <1>c, <3>4, <3>6, <3>7 DEF OlderSeen, Precedes
    <2>3. QED
      BY <2>1, <2>2, ClaimSteps
  <1>4. ASSUME NEW c \in Consumers, NEW e \in batch'[c], NEW d \in Topics[c],
               Precedes(d, e), bus'[d].retries = 0
        PROVE  d \in batch'[c] \/ bus'[d].status \in Finished
    <2>1. d \in Events
      BY <1>c
    <2>2. CASE Shrinks(c)
      <3>1. e \in batch[c]
        BY <2>2 DEF Shrinks
      <3>2. d \in batch[c] \/ bus[d].status \in Finished
        BY <1>1, <1>4, <2>1, <3>1 DEF OrderInv, OlderHeld
      <3>3. CASE d \in batch[c] /\ d \notin batch'[c]
        <4>1. bus'[d] \in {DoneRow(bus[d]), FailedRow(bus[d])}
          BY <2>2, <3>3 DEF Shrinks
        <4>2. Exists(bus[d]) /\ bus[d] \in Row /\ bus[d].retries \in Nat
          BY <1>t, <2>1, <3>3 DEF HolderInv, Held, Exists, Row
        <4>3. bus'[d] # FailedRow(bus[d])
          BY <1>4, <4>2, FailedRowType
        <4>4. bus'[d].status = "DONE"
          BY <4>1, <4>2, <4>3, DoneRowType
        <4>5. QED
          BY <4>4 DEF Finished
      <3>4. QED
        BY <1>1, <2>1, <3>2, <3>3
    <2>3. CASE Commits(c, batch'[c])
      <3> DEFINE S == batch'[c]
      <3>1. /\ pc[c] = "claiming" /\ S \in SUBSET snap[c].pending /\ ClaimResult(c, S)
        BY <2>3 DEF Commits
      <3>2. e \in snap[c].pending /\ AggOf[e] \notin snap[c].busy
        BY <3>1, ClaimResultRows
      <3>3. d \in snap[c].pending \/ bus[d].status \in Finished
        BY <1>4, <3>1, <3>2 DEF OrderInv, OlderSeen
      <3>4. CASE d \in snap[c].pending
        <4>1. PICK locked \in SUBSET LockedByOthers(c) :
                S \subseteq Claimable(c, locked) /\ OldestOf(S, Claimable(c, locked))
          BY <3>1 DEF ClaimResult
        <4>2. e \in Claimable(c, locked)
          BY <4>1
        <4>3. AggOf[d] = AggOf[e] /\ bus[d].status = "PENDING"
          BY <1>4, <3>1, <3>4 DEF Precedes, OrderInv
        <4>4. d \in Claimable(c, locked)
          BY <3>4, <4>2, <4>3 DEF Claimable
        <4>5. d \notin S => CreatedAt[e] <= CreatedAt[d]
          BY <4>1, <4>4 DEF OldestOf
        <4>6. e \in Events /\ CreatedAt[d] < CreatedAt[e]
          BY <1>4, <1>t, <3>2 DEF Precedes, SnapshotType
        <4>7. CreatedAt[d] \in Nat /\ CreatedAt[e] \in Nat
          BY <2>1, <4>6, EventsAssumption
        <4>8. QED
          BY <4>5, <4>6, <4>7
      <3>5. QED
        BY <1>1, <2>1, <3>3, <3>4
    <2>4. QED
      BY <2>2, <2>3, BatchSteps
  <1>5. (\A c \in Consumers : OlderHeld(c))'
    BY <1>4 DEF OlderHeld, Precedes
  <1>6. QED
    BY <1>2, <1>3, <1>5 DEF OrderInv, Precedes

\* If events are published in order, ticks are not slow and claims do not overlap, nobody
\* has an event in hand before an older one of its aggregate and his topics was tried.
THEOREM OlderEventsFirst == Spec => []OlderFirst
  <1> DEFINE Free == {"lateEvent", "slowTick", "overlap"} \cap faults = {}
             Inv == /\ RetryInv
                    /\ Free => HolderInv /\ AggInv /\ OrderInv
  <1>1. Init => Inv
    BY LimitsAssumption DEF Init, RetryInv, RetryBudget, HolderInv, AggInv, OrderInv,
                            OlderHeld, Published, EmptyRow
  <1>2. Inv => OlderFirst
    BY DEF OlderFirst, OrderInv, OlderHeld
  <1>3. TypeOK /\ Inv /\ [Next]_vars => Inv'
    BY RetryStep, HolderStep, AggStep, OrderStep, FaultsConstant
  <1>4. QED
    BY <1>1, <1>2, <1>3, TypeCorrect, PTL DEF Spec


-----------------------------------------------------------------------------
(* What a step does to the table as a whole, and what a tick has in hand:   *)
(* module PipelineProofs builds on both.                                    *)

\* The row is as far as it was: waiting, or where it stood.
SameStage(old, new) ==
    \/ new.status = old.status
    \/ {old.status, new.status} \subseteq {"PENDING", "CLAIMED"}

\* A step of anybody but the publishers.
ConsumerStep ==
    \/ \E e \in Events : CleanupFailed(e) \/ ClaimExpires(e)
    \/ \E c \in Consumers : Start(c) \/ Dispose(c) \/ Crash(c) \/ Tick(c)

\* The row of the event that c works on becomes row; no handler returns.
Rewrites(c, row) ==
    /\ bus' = [bus EXCEPT ![work[c].event] = row]
    /\ handled' = handled

LEMMA TableSteps ==
    ASSUME TypeOK, ConsumerStep
    PROVE  \/ \E e \in Events : CleanupFailed(e)
           \/ \E c \in Consumers : HandlerReturns(c)
           \/ /\ handled' = handled
              /\ \A e \in Events : SameStage(bus[e], bus'[e])
           \/ \E c \in Consumers :
                pc[c] \in {"ack", "skip"} /\ Rewrites(c, DoneRow(bus[work[c].event]))
           \/ \E c \in Consumers :
                pc[c] = "markFailed" /\ Rewrites(c, FailedRow(bus[work[c].event]))
  <1>0. TableTypeOK /\ ProcTypeOK
    BY TypeParts
  <1>t. bus \in [Events -> Row]
    BY <1>0 DEF TableTypeOK
  <1> DEFINE Kept == /\ handled' = handled
                     /\ \A e \in Events : SameStage(bus[e], bus'[e])
  <1>k. UNCHANGED <<bus, handled>> => Kept
    BY DEF SameStage
  <1>1. ASSUME NEW e \in Events, ClaimExpires(e) PROVE Kept
    <2>1. handled' = handled /\ \A d \in Events : d # e => bus'[d] = bus[d]
      BY <1>t, <1>1 DEF ClaimExpires, World, history
    <2>2. SameStage(bus[e], bus'[e])
      BY <1>t, <1>1 DEF ClaimExpires, SameStage, Row
    <2>3. QED
      BY <2>1, <2>2 DEF SameStage
  <1>2. ASSUME NEW c \in Consumers, SweepOk(c) PROVE Kept
    BY <1>t, <1>2, SweptTableType DEF SweepOk, SameStage, IsStale, history
  <1>3. ASSUME NEW c \in Consumers, NEW S \in SUBSET snap[c].pending,
               ClaimResult(c, S), bus' = ClaimedTable(c, S), handled' = handled
        PROVE  Kept
    <2>1. S \subseteq Events
      BY <1>0 DEF ProcTypeOK, SnapshotType
    <2>2. \A d \in S : bus[d].status = "PENDING"
      BY <1>3, ClaimResultRows
    <2>3. QED
      BY <1>t, <1>3, <2>1, <2>2, ClaimedTableType DEF SameStage
  <1>4. ASSUME NEW c \in Consumers,
               \/ Start(c) \/ Dispose(c) \/ Crash(c) \/ TimerFires(c) \/ SweepFails(c)
               \/ ClaimBegins(c) \/ LoopHead(c) \/ Attempt(c) \/ HandlerThrows(c)
        PROVE  UNCHANGED <<bus, handled>>
    BY <1>4 DEF Start, Dispose, Crash, TimerFires, SweepFails, ClaimBegins, LoopHead,
                Attempt, HandlerThrows, HandlerOver, history
  <1>5. ASSUME NEW c \in Consumers, ClaimOk(c) \/ ClaimFails(c) PROVE Kept
    <2>1. handled' = handled
      BY <1>5 DEF ClaimOk, ClaimFails, history
    <2>2. \/ bus' = bus
          \/ \E S \in SUBSET snap[c].pending : ClaimResult(c, S) /\ bus' = ClaimedTable(c, S)
      BY <1>5 DEF ClaimOk, ClaimFails
    <2> HIDE DEF Kept
    <2>3. QED
      BY <2>1, <2>2, <1>3, <1>k
  <1>6. ASSUME NEW c \in Consumers,
               \/ MarkDoneOk(c) \/ MarkDoneFails(c)
               \/ MarkFailedOk(c) \/ MarkFailedFails(c)
        PROVE  \/ UNCHANGED <<bus, handled>>
               \/ /\ pc[c] \in {"ack", "skip"}
                  /\ Rewrites(c, DoneRow(bus[work[c].event]))
               \/ pc[c] = "markFailed" /\ Rewrites(c, FailedRow(bus[work[c].event]))
    BY <1>6 DEF MarkDoneOk, MarkDoneFails, MarkFailedOk, MarkFailedFails, Rewrites, history
  <1> HIDE DEF Kept
  <1>7. CASE \E c \in Consumers : Tick(c)
    BY <1>7, <1>k, <1>2, <1>4, <1>5, <1>6 DEF Tick, Kept
  <1>8. QED
    BY <1>1, <1>4, <1>7, <1>k DEF ConsumerStep, Kept

\* What is in hand was published; only own events are deleted unhandled.
InHandInv ==
    /\ \A c \in Consumers : \A e \in batch[c] : bus[e].status # "NONE"
    /\ \A c \in Consumers : pc[c] = "skip" => work[c].event \in Own[c]
    /\ \A e \in skipped : \E c \in Consumers : e \in Own[c]

LEMMA InHandStep == TypeOK /\ InHandInv /\ [Next]_vars => InHandInv'
  <1> SUFFICES ASSUME TypeOK, InHandInv, [Next]_vars PROVE InHandInv'
    OBVIOUS
  <1>t. /\ bus \in [Events -> Row]
        /\ pc \in [Consumers -> Labels]
        /\ work \in [Consumers -> Work]
        /\ batch \in [Consumers -> SUBSET Events]
        /\ snap \in [Consumers -> SnapshotType]
    BY DEF TypeOK
  <1>1. ASSUME NEW e \in Events, bus[e].status # "NONE"
        PROVE  bus'[e].status # "NONE"
    <2>1. RowStep(bus[e], bus'[e])
      BY RowSteps
    <2>2. CASE Exists(bus[e]) /\ bus'[e] = FailedRow(bus[e])
      BY <1>t, <2>2, FailedRowType
    <2>3. QED
      BY <1>1, <2>1, <2>2 DEF RowStep
  <1>2. ASSUME NEW c \in Consumers, NEW e \in batch'[c]
        PROVE  bus'[e].status # "NONE"
    <2>0. e \in Events
      BY <1>2, NextType DEF TypeOK
    <2>1. Shrinks(c) \/ Commits(c, batch'[c])
      BY BatchSteps
    <2>2. CASE Shrinks(c)
      BY <1>1, <1>2, <2>0, <2>2 DEF Shrinks, InHandInv
    <2>3. CASE Commits(c, batch'[c])
      BY <1>1, <1>2, <2>0, <2>3, ClaimResultRows DEF Commits
    <2>4. QED
      BY <2>1, <2>2, <2>3
  <1>3. ASSUME NEW c \in Consumers, pc'[c] = "skip"
        PROVE  work'[c].event \in Own[c]
    <2>1. ASSUME NEW b \in Consumers, LoopHead(b), b = c
          PROVE  work'[c].event \in Own[c]
      BY <1>t, <1>3, <2>1 DEF LoopHead, EndTick, FirstHandler
    <2>2. CASE pc'[c] = pc[c] /\ work'[c] = work[c]
      BY <1>3, <2>2 DEF InHandInv
    <2>3. ASSUME NEW b \in Consumers, Start(b) \/ Dispose(b) \/ Crash(b) \/ Tick(b), b # c
          PROVE  pc'[c] = pc[c] /\ work'[c] = work[c]
      BY <1>t, <2>3 DEF Start, Dispose, Crash, Tick, TimerFires, SweepOk, SweepFails,
            ClaimBegins, ClaimOk, ClaimFails, LoopHead, Attempt, HandlerReturns, HandlerThrows,
            HandlerOver, MarkDoneOk, MarkDoneFails, MarkFailedOk, MarkFailedFails, Goto,
            EndTick, EventDone
    <2>4. ASSUME Start(c) \/ Dispose(c)
          PROVE  pc'[c] = pc[c] /\ work'[c] = work[c]
      BY <2>4 DEF Start, Dispose
    <2>5. ASSUME \/ Crash(c) \/ TimerFires(c) \/ SweepOk(c) \/ SweepFails(c) \/ ClaimBegins(c)
                 \/ ClaimOk(c) \/ ClaimFails(c) \/ MarkDoneOk(c) \/ MarkDoneFails(c)
                 \/ MarkFailedOk(c) \/ MarkFailedFails(c)
          PROVE  FALSE
      BY <1>t, <1>3, <2>5 DEF Crash, TimerFires, SweepOk, SweepFails, ClaimBegins, ClaimOk,
            ClaimFails, MarkDoneOk, MarkDoneFails, MarkFailedOk, MarkFailedFails, Goto,
            EndTick, EventDone, AfterSweep
    <2>6. ASSUME Attempt(c) \/ HandlerReturns(c) \/ HandlerThrows(c)
          PROVE  FALSE
      <3>1. \/ \E failure \in BOOLEAN : HandlerOver(c, failure)
            \/ pc' = [pc EXCEPT ![c] = "run"]
            \/ pc' = [pc EXCEPT ![c] = "attempt"]
        BY <2>6 DEF Attempt, HandlerReturns, HandlerThrows, Goto
      <3>2. ASSUME NEW failure \in BOOLEAN, HandlerOver(c, failure)
            PROVE  \E label \in {"attempt", "markFailed", "ack"} : pc' = [pc EXCEPT ![c] = label]
        BY <3>2 DEF HandlerOver
      <3>3. QED
        BY <1>t, <1>3, <3>1, <3>2
    <2>7. CASE \/ UNCHANGED vars
               \/ \E e \in Events : Publish(e) \/ CleanupFailed(e) \/ ClaimExpires(e)
      BY <2>2, <2>7 DEF vars, Publish, CleanupFailed, ClaimExpires, World
    <2>8. QED
      BY <2>1, <2>2, <2>3, <2>4, <2>5, <2>6, <2>7 DEF Next, Tick
  <1>4. skipped' = skipped \/ \E c \in Consumers : /\ pc[c] = "skip"
                                                   /\ skipped' = skipped \cup {work[c].event}
    <2>1. ASSUME NEW c \in Consumers, MarkDoneOk(c) \/ MarkDoneFails(c)
          PROVE  skipped' = skipped \/ /\ pc[c] = "skip"
                                       /\ skipped' = skipped \cup {work[c].event}
      BY <2>1 DEF MarkDoneOk, MarkDoneFails
    <2>2. ASSUME NEW c \in Consumers, Start(c) \/ Dispose(c) \/ Crash(c) \/ Tick(c),
                 ~MarkDoneOk(c), ~MarkDoneFails(c)
          PROVE  skipped' = skipped
      BY <2>2 DEF Start, Dispose, Crash, Tick, TimerFires, SweepOk, SweepFails, ClaimBegins,
            ClaimOk, ClaimFails, LoopHead, Attempt, HandlerReturns, HandlerThrows, HandlerOver,
            MarkFailedOk, MarkFailedFails, history
    <2>3. CASE \/ UNCHANGED vars
               \/ \E e \in Events : Publish(e) \/ CleanupFailed(e) \/ ClaimExpires(e)
      BY <2>3 DEF vars, Publish, CleanupFailed, ClaimExpires, World, history
    <2>4. QED
      BY <2>1, <2>2, <2>3 DEF Next, Tick
  <1>5. QED
    BY <1>2, <1>3, <1>4 DEF InHandInv

\* The inductive invariants of this module that hold in every deployment.
LEMMA Invariants == Spec => [](TypeOK /\ HandledInv /\ RetryInv /\ InHandInv)
  <1>1. Init => HandledInv
    BY DEF Init, HandledInv, DeletedWasHandled, SoFar, EmptyRow
  <1>2. Init => RetryInv /\ InHandInv
    BY LimitsAssumption DEF Init, RetryInv, RetryBudget, InHandInv, EmptyRow
  <1>3. QED
    BY <1>1, <1>2, HandledStep, RetryStep, InHandStep, TypeCorrect, PTL DEF Spec
=============================================================================
