----------------------- MODULE OutboxForwarderProofs -----------------------
(***************************************************************************)
(* Theorems about OutboxForwarder, for any replicas, entries, batch size   *)
(* and retry limit.                                                        *)
(***************************************************************************)
EXTENDS OutboxForwarder, TLAPS

USE DEF procVars, envVars

Forwarding == {"publish", "select", "markSent", "markFailed"}

(* What an UPDATE leaves in a row, cited by the steps of every theorem.      *)

\* A row that was released has its new status, no owner and its retries.
LEMMA UnclaimedRow ==
    ASSUME NEW row \in Row, NEW status \in Statuses
    PROVE  /\ Unclaimed(row, status) \in Row
           /\ Unclaimed(row, status).status = status
           /\ Unclaimed(row, status).retries = row.retries
  BY DEF Unclaimed, Row

\* markSent leaves a row as it is or SENT, with its retries.
LEMMA SentRowType ==
    ASSUME NEW row \in Row
    PROVE  /\ SentRow(row) \in Row
           /\ SentRow(row).status = IF Exists(row) THEN "SENT" ELSE row.status
           /\ SentRow(row).retries = row.retries
  BY DEF SentRow, Unclaimed, Row, Statuses, Exists

\* markFailed leaves a row as it is, or counts one retry and decides between
\* PENDING and FAILED.
LEMMA FailedRowType ==
    ASSUME NEW row \in Row
    PROVE  /\ FailedRow(row) \in Row
           /\ Exists(row) =>
                /\ FailedRow(row).retries = row.retries + 1
                /\ FailedRow(row).status =
                    IF row.retries + 1 >= MaxRetries THEN "FAILED" ELSE "PENDING"
           /\ ~Exists(row) => FailedRow(row) = row
  <1>1. CASE ~Exists(row)
    BY <1>1 DEF FailedRow
  <1>2. CASE Exists(row)
    <2> DEFINE st == IF row.retries + 1 >= MaxRetries THEN "FAILED" ELSE "PENDING"
    <2>1. st \in Statuses
      BY DEF Statuses
    <2>2. Unclaimed(row, st) \in Row /\ Unclaimed(row, st).status = st
      BY <2>1, UnclaimedRow
    <2>3. FailedRow(row) = [Unclaimed(row, st) EXCEPT !.retries = row.retries + 1]
      BY <1>2 DEF FailedRow, Unclaimed, Row
    <2>4. row.retries + 1 \in Nat
      BY DEF Row
    <2> HIDE DEF st
    <2>5. QED
      BY <1>2, <2>2, <2>3, <2>4 DEF Row, st
  <1>3. QED
    BY <1>1, <1>2

\* The sweep keeps every row but the stale ones, which become PENDING.
LEMMA SweptTableType ==
    ASSUME outbox \in [Entries -> Row]
    PROVE  /\ SweptTable \in [Entries -> Row]
           /\ \A e \in Entries :
                /\ SweptTable[e].retries = outbox[e].retries
                /\ IF IsStale(outbox[e]) THEN SweptTable[e].status = "PENDING"
                                         ELSE SweptTable[e] = outbox[e]
  <1>1. "PENDING" \in Statuses
    BY DEF Statuses
  <1>2. \A e \in Entries :
          /\ Unclaimed(outbox[e], "PENDING") \in Row
          /\ Unclaimed(outbox[e], "PENDING").status = "PENDING"
          /\ Unclaimed(outbox[e], "PENDING").retries = outbox[e].retries
    BY <1>1, UnclaimedRow
  <1>3. QED
    BY <1>2 DEF SweptTable

\* A claim changes the chosen rows only: CLAIMED, owned and fresh.
LEMMA ClaimedTableType ==
    ASSUME outbox \in [Entries -> Row], NEW f \in Forwarders,
           NEW S \in SUBSET Entries
    PROVE  /\ ClaimedTable(f, S) \in [Entries -> Row]
           /\ \A e \in Entries :
                /\ ClaimedTable(f, S)[e].retries = outbox[e].retries
                /\ e \notin S => ClaimedTable(f, S)[e] = outbox[e]
                /\ e \in S => /\ ClaimedTable(f, S)[e].status = "CLAIMED"
                              /\ ClaimedTable(f, S)[e].claimedBy = f
                              /\ ~ClaimedTable(f, S)[e].expired
  <1> DEFINE claimed(e) == [outbox[e] EXCEPT !.status = "CLAIMED",
                                             !.claimedBy = f, !.expired = FALSE]
  <1>1. \A e \in Entries :
          /\ claimed(e) \in Row
          /\ claimed(e).status = "CLAIMED"
          /\ claimed(e).claimedBy = f
          /\ claimed(e).expired = FALSE
          /\ claimed(e).retries = outbox[e].retries
    BY DEF Row, Statuses
  <1>2. ClaimedTable(f, S) = [e \in Entries |-> IF e \in S THEN claimed(e)
                                                           ELSE outbox[e]]
    BY DEF ClaimedTable
  <1> HIDE DEF claimed
  <1>3. QED
    BY <1>1, <1>2

-----------------------------------------------------------------------------
(* Type correctness.                                                        *)

\* What ends a statement of a tick -- Goto, EndTick, EntryDone -- keeps the
\* types of the replicas.
ProcTypeOK ==
    /\ life \in [Forwarders -> {"new", "started", "disposed", "crashed"}]
    /\ pc \in [Forwarders -> Labels]
    /\ batch \in [Forwarders -> SUBSET Entries]
    /\ cur \in [Forwarders -> Entries \cup {NoEntry}]
    /\ stops \in Nat
    /\ faults \in FaultSets
    /\ \A f \in Forwarders :
        IF pc[f] \in Forwarding THEN cur[f] \in batch[f] ELSE cur[f] = NoEntry

TableTypeOK ==
    /\ outbox \in [Entries -> Row]
    /\ bus \subseteq Entries
    /\ published \subseteq Entries

LEMMA TypeParts == TypeOK <=> TableTypeOK /\ ProcTypeOK
  BY DEF TypeOK, TableTypeOK, ProcTypeOK, Forwarding

LEMMA GotoType ==
    ASSUME ProcTypeOK, NEW f \in Forwarders, NEW label \in Labels, Goto(f, label),
           pc[f] \in Forwarding <=> label \in Forwarding
    PROVE  ProcTypeOK'
  BY DEF ProcTypeOK, Goto, Forwarding, Labels

LEMMA EndTickType ==
    ASSUME ProcTypeOK, NEW f \in Forwarders, EndTick(f)
    PROVE  ProcTypeOK'
  BY DEF ProcTypeOK, EndTick, Forwarding, Labels

LEMMA EntryDoneType ==
    ASSUME ProcTypeOK, NEW f \in Forwarders, EntryDone(f)
    PROVE  ProcTypeOK'
  BY DEF ProcTypeOK, EntryDone, Forwarding, Labels

LEMMA InitType == Init => TypeOK
  BY FaultsAssumption DEF Init, TypeOK, EmptyRow, Row, Statuses, Labels

LEMMA NextType == TypeOK /\ [Next]_vars => TypeOK'
  <1> SUFFICES ASSUME TypeOK, [Next]_vars PROVE TypeOK'
    OBVIOUS
  <1> USE DEF TypeOK
  <1>0. TableTypeOK /\ ProcTypeOK
    BY TypeParts
  <1>q. TableTypeOK' /\ ProcTypeOK' => TypeOK'
    BY DEF TableTypeOK, ProcTypeOK, Forwarding
  <1> HIDE DEF TypeOK
  <1>1. ASSUME NEW e \in Entries, Insert(e) \/ Cleanup(e) \/ ClaimExpires(e)
        PROVE  TypeOK'
    <2>r. /\ [outbox[e] EXCEPT !.status = "PENDING"] \in Row
          /\ [outbox[e] EXCEPT !.status = "DELETED"] \in Row
          /\ [outbox[e] EXCEPT !.expired = TRUE] \in Row
      BY <1>0 DEF TableTypeOK, Row, Statuses
    <2>1. TableTypeOK'
      <3>1. PICK row \in Row : outbox' = [outbox EXCEPT ![e] = row]
        BY <1>1, <2>r DEF Insert, Cleanup, ClaimExpires
      <3>2. bus' = bus /\ published' = published
        BY <1>1 DEF Insert, Cleanup, ClaimExpires
      <3>3. QED
        BY <1>0, <3>1, <3>2 DEF TableTypeOK
    <2>2. ProcTypeOK'
      BY <1>0, <1>1 DEF ProcTypeOK, Insert, Cleanup, ClaimExpires, procVars, envVars
    <2>3. QED
      BY <2>1, <2>2, <1>q
  <1>2. ASSUME NEW e \in Entries, BusConsumes(e) PROVE TypeOK'
    BY <1>0, <1>2, <1>q DEF TableTypeOK, ProcTypeOK, BusConsumes, procVars, envVars
  <1>3. ASSUME NEW f \in Forwarders, Start(f) \/ Dispose(f) \/ Crash(f)
        PROVE  TypeOK'
    <2>1. TableTypeOK'
      BY <1>0, <1>3 DEF TableTypeOK, Start, Dispose, Crash
    <2>2. ProcTypeOK'
      BY <1>0, <1>3 DEF ProcTypeOK, Start, Dispose, Crash, Labels, Forwarding
    <2>3. QED
      BY <2>1, <2>2, <1>q
  <1>4. ASSUME NEW f \in Forwarders, TimerFires(f) PROVE TypeOK'
    BY <1>0, <1>4, <1>q, GotoType
       DEF TimerFires, TableTypeOK, Labels, Forwarding
  <1>5. ASSUME NEW f \in Forwarders, SweepOk(f) \/ SweepFails(f) PROVE TypeOK'
    BY <1>0, <1>5, <1>q, GotoType, SweptTableType
       DEF SweepOk, SweepFails, TableTypeOK, Labels, Forwarding
  <1>6. ASSUME NEW f \in Forwarders, ClaimOk(f) PROVE TypeOK'
    <2>1. PICK S \in SUBSET WithStatus("PENDING") :
            /\ outbox' = ClaimedTable(f, S)
            /\ batch' = [batch EXCEPT ![f] = S]
            /\ pc' = [pc EXCEPT ![f] = IF S = {} THEN "none" ELSE "next"]
      BY <1>6 DEF ClaimOk
    <2>2. S \subseteq Entries
      BY DEF WithStatus
    <2>3. TableTypeOK'
      BY <1>0, <1>6, <2>1, <2>2, ClaimedTableType DEF ClaimOk, TableTypeOK
    <2>4. ProcTypeOK'
      BY <1>0, <1>6, <2>1, <2>2 DEF ClaimOk, ProcTypeOK, Labels, Forwarding
    <2>5. QED
      BY <2>3, <2>4, <1>q
  <1>7. ASSUME NEW f \in Forwarders, ClaimFails(f) PROVE TypeOK'
    <2>1. ProcTypeOK'
      BY <1>0, <1>7, EndTickType DEF ClaimFails
    <2>2. CASE outbox' = outbox
      BY <1>0, <1>7, <2>1, <2>2, <1>q DEF ClaimFails, TableTypeOK
    <2>3. CASE \E S \in SUBSET WithStatus("PENDING") : outbox' = ClaimedTable(f, S)
      <3>1. WithStatus("PENDING") \subseteq Entries
        BY DEF WithStatus
      <3>2. TableTypeOK'
        BY <1>0, <1>7, <2>3, <3>1, ClaimedTableType DEF ClaimFails, TableTypeOK
      <3>3. QED
        BY <3>2, <2>1, <1>q
    <2>4. QED
      BY <1>7, <2>2, <2>3 DEF ClaimFails
  <1>8. ASSUME NEW f \in Forwarders, LoopHead(f) PROVE TypeOK'
    <2>1. TableTypeOK'
      BY <1>0, <1>8 DEF LoopHead, TableTypeOK
    <2>2. ProcTypeOK'
      <3>1. CASE EndTick(f)
        BY <1>0, <3>1, EndTickType
      <3>2. CASE /\ \E e \in batch[f] : cur' = [cur EXCEPT ![f] = e]
                 /\ pc' = [pc EXCEPT ![f] = "publish"]
                 /\ UNCHANGED <<life, batch, envVars>>
        <4>1. PICK e \in batch[f] : cur' = [cur EXCEPT ![f] = e]
          BY <3>2
        <4>2. /\ e \in Entries
              /\ pc' = [pc EXCEPT ![f] = "publish"]
              /\ UNCHANGED <<life, batch, stops, faults>>
          BY <1>0, <3>2 DEF ProcTypeOK
        <4>3. QED
          BY <1>0, <4>1, <4>2 DEF ProcTypeOK, Labels, Forwarding
      <3>3. QED
        BY <1>8, <3>1, <3>2 DEF LoopHead
    <2>3. QED
      BY <2>1, <2>2, <1>q
  <1>9. ASSUME NEW f \in Forwarders,
               PublishInserts(f) \/ PublishConflicts(f) \/ PublishSelects(f)
                \/ PublishFails(f)
        PROVE  TypeOK'
    <2>1. pc[f] \in Forwarding /\ cur[f] \in Entries
      BY <1>0, <1>9 DEF PublishInserts, PublishConflicts, PublishSelects,
                        PublishFails, Forwarding, ProcTypeOK
    <2>2. TableTypeOK'
      BY <1>0, <1>9, <2>1 DEF PublishInserts, PublishConflicts, PublishSelects,
                              PublishFails, TableTypeOK
    <2>3. PICK label \in {"select", "markSent", "markFailed"} : Goto(f, label)
      BY <1>9 DEF PublishInserts, PublishConflicts, PublishSelects, PublishFails
    <2>4. ProcTypeOK'
      BY <1>0, <2>1, <2>3, GotoType DEF Labels, Forwarding
    <2>5. QED
      BY <2>2, <2>4, <1>q
  <1>10. ASSUME NEW f \in Forwarders,
                MarkSentOk(f) \/ MarkSentFails(f) \/ MarkFailedOk(f)
                 \/ MarkFailedFails(f)
         PROVE  TypeOK'
    <2>1. pc[f] \in {"markSent", "markFailed"} /\ cur[f] \in Entries
      BY <1>0, <1>10 DEF MarkSentOk, MarkSentFails, MarkFailedOk,
                         MarkFailedFails, Forwarding, ProcTypeOK
    <2>2. SentRow(outbox[cur[f]]) \in Row /\ FailedRow(outbox[cur[f]]) \in Row
      BY <1>0, <2>1, SentRowType, FailedRowType DEF TableTypeOK
    <2>3. TableTypeOK'
      BY <1>0, <1>10, <2>2 DEF MarkSentOk, MarkSentFails, MarkFailedOk,
                               MarkFailedFails, TableTypeOK
    <2>4. ProcTypeOK'
      BY <1>0, <1>10, <2>1, GotoType, EndTickType, EntryDoneType
         DEF MarkSentOk, MarkSentFails, MarkFailedOk, MarkFailedFails,
             Labels, Forwarding
    <2>5. QED
      BY <2>3, <2>4, <1>q
  <1>11. CASE UNCHANGED vars
    BY <1>0, <1>11, <1>q DEF vars, TableTypeOK, ProcTypeOK
  <1>12. QED
    BY <1>1, <1>2, <1>3, <1>4, <1>5, <1>6, <1>7, <1>8, <1>9, <1>10, <1>11
       DEF Next, Tick

\* Every reachable state of the outbox and its forwarders is well typed.
THEOREM TypeCorrect == Spec => []TypeOK
  <1>1. QED
    BY InitType, NextType, PTL DEF Spec

-----------------------------------------------------------------------------
(* Nothing is acknowledged that was not published.                          *)
(* SentWasPublished is not inductive: markSent makes it true only because   *)
(* the tick that issues it has published the entry, or has seen its row.    *)

PublishedInv ==
    /\ SentWasPublished
    /\ bus \subseteq published
    /\ \A f \in Forwarders : pc[f] = "markSent" => cur[f] \in published

LEMMA PublishedStep == TypeOK /\ PublishedInv /\ [Next]_vars => PublishedInv'
  <1> SUFFICES ASSUME TypeOK, PublishedInv, [Next]_vars PROVE PublishedInv'
    OBVIOUS
  <1>t. /\ outbox \in [Entries -> Row]
        /\ pc \in [Forwarders -> Labels]
        /\ cur \in [Forwarders -> Entries \cup {NoEntry}]
    BY DEF TypeOK
  <1>1. ASSUME NEW e \in Entries, Insert(e) \/ Cleanup(e) \/ ClaimExpires(e)
        PROVE  PublishedInv'
    <2>1. \A d \in Entries : outbox'[d].status \in {"SENT", "DELETED"} =>
                             outbox[d].status \in {"SENT", "DELETED"}
      BY <1>1, <1>t DEF Insert, Cleanup, ClaimExpires, Row
    <2>2. QED
      BY <1>1, <2>1 DEF PublishedInv, SentWasPublished, Insert, Cleanup,
                        ClaimExpires, procVars, envVars
  <1>2. ASSUME NEW e \in Entries, BusConsumes(e) PROVE PublishedInv'
    BY <1>2 DEF PublishedInv, SentWasPublished, BusConsumes, procVars, envVars
  <1>3. ASSUME NEW f \in Forwarders,
               \/ Start(f) \/ Dispose(f) \/ Crash(f) \/ TimerFires(f)
               \/ SweepFails(f) \/ LoopHead(f) \/ PublishConflicts(f)
               \/ PublishFails(f)
        PROVE  PublishedInv'
    <2>1. UNCHANGED <<outbox, bus, published>>
      BY <1>3 DEF Start, Dispose, Crash, TimerFires, SweepFails, LoopHead,
                  PublishConflicts, PublishFails
    <2>2. \A g \in Forwarders : pc'[g] = "markSent" =>
            pc[g] = "markSent" /\ cur'[g] = cur[g]
      BY <1>3, <1>t DEF Start, Dispose, Crash, TimerFires, SweepFails, LoopHead,
                  PublishConflicts, PublishFails, Goto, EndTick
    <2>3. QED
      BY <2>1, <2>2 DEF PublishedInv, SentWasPublished
  <1>4. ASSUME NEW f \in Forwarders, SweepOk(f) PROVE PublishedInv'
    <2>1. \A d \in Entries : outbox'[d].status \in {"SENT", "DELETED"} =>
                             outbox[d].status \in {"SENT", "DELETED"}
      BY <1>4, <1>t, SweptTableType DEF SweepOk
    <2>2. QED
      BY <1>4, <1>t, <2>1 DEF PublishedInv, SentWasPublished, SweepOk, Goto
  <1>5. ASSUME NEW f \in Forwarders, ClaimOk(f) \/ ClaimFails(f)
        PROVE  PublishedInv'
    <2>1. \A d \in Entries : outbox'[d].status \in {"SENT", "DELETED"} =>
                             outbox[d].status \in {"SENT", "DELETED"}
      <3>1. CASE outbox' = outbox
        BY <3>1
      <3>2. CASE \E S \in SUBSET WithStatus("PENDING") :
                    outbox' = ClaimedTable(f, S)
        <4>1. PICK S \in SUBSET Entries : outbox' = ClaimedTable(f, S)
          BY <3>2 DEF WithStatus
        <4>2. QED
          BY <1>t, <4>1, ClaimedTableType
      <3>3. QED
        BY <1>5, <3>1, <3>2 DEF ClaimOk, ClaimFails
    <2>2. /\ UNCHANGED <<bus, published>>
          /\ \A g \in Forwarders : pc'[g] = "markSent" =>
                pc[g] = "markSent" /\ cur'[g] = cur[g]
      BY <1>5, <1>t DEF ClaimOk, ClaimFails, EndTick
    <2>3. QED
      BY <2>1, <2>2 DEF PublishedInv, SentWasPublished
  <1>6. ASSUME NEW f \in Forwarders, PublishInserts(f) \/ PublishSelects(f)
        PROVE  PublishedInv'
    <2>1. /\ outbox' = outbox /\ cur' = cur
          /\ published \subseteq published' /\ bus' \subseteq published'
          /\ pc'[f] = "markSent" => cur[f] \in published'
          /\ \A g \in Forwarders \ {f} : pc'[g] = pc[g]
      BY <1>6, <1>t DEF PublishInserts, PublishSelects, Goto, PublishedInv
    <2>2. QED
      BY <2>1 DEF PublishedInv, SentWasPublished
  <1>7. ASSUME NEW f \in Forwarders,
               \/ MarkSentOk(f) \/ MarkSentFails(f)
               \/ MarkFailedOk(f) \/ MarkFailedFails(f)
        PROVE  PublishedInv'
    <2>1. /\ UNCHANGED <<bus, published>>
          /\ \A g \in Forwarders : pc'[g] = "markSent" =>
                pc[g] = "markSent" /\ cur'[g] = cur[g]
      BY <1>7, <1>t DEF MarkSentOk, MarkSentFails, MarkFailedOk, MarkFailedFails,
                        Goto, EndTick, EntryDone
    <2>2. cur[f] \in Entries /\ outbox[cur[f]] \in Row
      BY <1>7, <1>t DEF MarkSentOk, MarkSentFails, MarkFailedOk, MarkFailedFails,
                        TypeOK
    <2>3. \A d \in Entries : outbox'[d].status \in {"SENT", "DELETED"} =>
                             d \in published
      <3>1. CASE outbox' = outbox
        BY <3>1 DEF PublishedInv, SentWasPublished
      <3>2. CASE /\ pc[f] = "markSent"
                 /\ outbox' = [outbox EXCEPT ![cur[f]] = SentRow(@)]
        BY <1>t, <2>2, <3>2 DEF PublishedInv, SentWasPublished
      <3>3. CASE outbox' = [outbox EXCEPT ![cur[f]] = FailedRow(@)]
        <4>1. FailedRow(outbox[cur[f]]).status \in {"SENT", "DELETED"} =>
                outbox[cur[f]].status \in {"SENT", "DELETED"}
          BY <2>2, FailedRowType
        <4>2. QED
          BY <1>t, <2>2, <3>3, <4>1 DEF PublishedInv, SentWasPublished
      <3>4. QED
        BY <1>7, <3>1, <3>2, <3>3
           DEF MarkSentOk, MarkSentFails, MarkFailedOk, MarkFailedFails
    <2>4. QED
      BY <2>1, <2>3 DEF PublishedInv, SentWasPublished
  <1>8. CASE UNCHANGED vars
    BY <1>8 DEF vars, procVars, envVars, PublishedInv, SentWasPublished
  <1>9. QED
    BY <1>1, <1>2, <1>3, <1>4, <1>5, <1>6, <1>7, <1>8 DEF Next, Tick

\* An entry is SENT, or cleaned up, only if the bus was given a row for it:
\* for any number of replicas, with slow ticks, crashes and lost answers.
THEOREM SentImpliesPublished == Spec => []SentWasPublished
  <1>1. Init => PublishedInv
    BY DEF Init, PublishedInv, SentWasPublished, EmptyRow
  <1>2. PublishedInv => SentWasPublished
    BY DEF PublishedInv
  <1>3. QED
    BY <1>1, <1>2, PublishedStep, TypeCorrect, PTL DEF Spec

-----------------------------------------------------------------------------
(* Retries.  A row is given up exactly when its budget is used up.          *)

\* What one step of the system may do to one row: nothing; insert, claim,
\* age or release it; settle it; or count a failure.
RowStep(old, new) ==
    \/ new = old
    \/ /\ new.retries = old.retries
       /\ old.status \in {"NONE", "PENDING", "CLAIMED"}
       /\ new.status \in {"PENDING", "CLAIMED"}
    \/ new.retries = old.retries /\ new.status \in {"SENT", "DELETED"}
    \/ Exists(old) /\ new = FailedRow(old)

LEMMA RowSteps ==
    TypeOK /\ [Next]_vars => \A e \in Entries : RowStep(outbox[e], outbox'[e])
  <1> SUFFICES ASSUME TypeOK, [Next]_vars,  NEW e \in Entries
               PROVE  RowStep(outbox[e], outbox'[e])
    OBVIOUS
  <1>t. outbox \in [Entries -> Row] /\ outbox[e] \in Row
    BY DEF TypeOK
  <1>1. CASE outbox' = outbox
    BY <1>1 DEF RowStep
  <1>2. ASSUME NEW d \in Entries, Insert(d) \/ Cleanup(d) \/ ClaimExpires(d)
        PROVE  RowStep(outbox[e], outbox'[e])
    <2>1. d # e => outbox'[e] = outbox[e]
      BY <1>t, <1>2 DEF Insert, Cleanup, ClaimExpires
    <2>2. outbox'[d].retries = outbox[d].retries
      BY <1>t, <1>2 DEF Insert, Cleanup, ClaimExpires, TypeOK, Row
    <2>3. \/ outbox[d].status = "NONE" /\ outbox'[d].status = "PENDING"
          \/ outbox[d].status = "SENT" /\ outbox'[d].status = "DELETED"
          \/ outbox[d].status = "CLAIMED" /\ outbox'[d].status = "CLAIMED"
      BY <1>t, <1>2 DEF Insert, Cleanup, ClaimExpires, TypeOK, Row
    <2>4. QED
      BY <2>1, <2>2, <2>3 DEF RowStep
  <1>3. CASE outbox' = SweptTable
    BY <1>t, <1>3, SweptTableType DEF RowStep, IsStale
  <1>4. ASSUME NEW f \in Forwarders, NEW S \in SUBSET WithStatus("PENDING"),
               outbox' = ClaimedTable(f, S)
        PROVE  RowStep(outbox[e], outbox'[e])
    BY <1>t, <1>4, ClaimedTableType DEF RowStep, WithStatus
  <1>5. ASSUME NEW f \in Forwarders, cur[f] \in Entries,
               \/ outbox' = [outbox EXCEPT ![cur[f]] = SentRow(@)]
               \/ outbox' = [outbox EXCEPT ![cur[f]] = FailedRow(@)]
        PROVE  RowStep(outbox[e], outbox'[e])
    <2>1. \/ outbox'[e] = outbox[e]
          \/ outbox'[e] = SentRow(outbox[e])
          \/ outbox'[e] = FailedRow(outbox[e])
      BY <1>t, <1>5
    <2>2. ~Exists(outbox[e]) => /\ SentRow(outbox[e]) = outbox[e]
                                /\ FailedRow(outbox[e]) = outbox[e]
      BY DEF SentRow, FailedRow
    <2>3. QED
      BY <1>t, <2>1, <2>2, SentRowType DEF RowStep
  <1>6. ASSUME NEW f \in Forwarders, Tick(f)
        PROVE  RowStep(outbox[e], outbox'[e])
    <2>1. pc[f] \in {"markSent", "markFailed"} => cur[f] \in Entries
      BY DEF TypeOK
    <2>2. QED
      BY <1>1, <1>3, <1>4, <1>5, <1>6, <2>1
         DEF Tick, TimerFires, SweepOk, SweepFails, ClaimOk, ClaimFails,
             LoopHead, PublishInserts, PublishConflicts, PublishSelects,
             PublishFails, MarkSentOk, MarkSentFails, MarkFailedOk,
             MarkFailedFails
  <1>7. QED
    BY <1>1, <1>2, <1>6
       DEF Next, vars, BusConsumes, Start, Dispose, Crash

\* RetryBudget alone is not inductive: a row starts with no retries.
RetryInv ==
    RetryBudget /\ \A e \in Entries : outbox[e].status = "NONE" => outbox[e].retries = 0

LEMMA RetryStep == TypeOK /\ RetryInv /\ [Next]_vars => RetryInv'
  <1> SUFFICES ASSUME TypeOK, RetryInv, [Next]_vars, NEW e \in Entries
               PROVE  /\ outbox'[e].status \in {"PENDING", "CLAIMED"} =>
                            outbox'[e].retries < MaxRetries
                      /\ outbox'[e].status = "FAILED" =>
                            outbox'[e].retries >= MaxRetries
                      /\ outbox'[e].status = "NONE" => outbox'[e].retries = 0
    BY DEF RetryInv, RetryBudget
  <1>1. outbox[e] \in Row /\ outbox[e].retries \in Nat
    BY DEF TypeOK, Row
  <1>2. /\ outbox[e].status \in {"PENDING", "CLAIMED"} =>
                outbox[e].retries < MaxRetries
        /\ outbox[e].status = "FAILED" => outbox[e].retries >= MaxRetries
        /\ outbox[e].status = "NONE" => outbox[e].retries = 0
    BY DEF RetryInv, RetryBudget
  <1>3. RowStep(outbox[e], outbox'[e])
    BY RowSteps
  <1>4. CASE Exists(outbox[e]) /\ outbox'[e] = FailedRow(outbox[e])
    BY <1>1, <1>4, FailedRowType, MaxRetriesAssumption
  <1>5. CASE ~(Exists(outbox[e]) /\ outbox'[e] = FailedRow(outbox[e]))
    BY <1>1, <1>2, <1>3, <1>5, MaxRetriesAssumption DEF RowStep
  <1>6. QED
    BY <1>4, <1>5

\* No row waits or is claimed past its retry budget, none is FAILED before:
\* even when replicas that lost their claim mark it failed again.
THEOREM RetryBudgetKept == Spec => []RetryBudget
  <1>1. Init => RetryInv
    BY MaxRetriesAssumption DEF Init, RetryInv, RetryBudget, EmptyRow
  <1>2. RetryInv => RetryBudget
    BY DEF RetryInv
  <1>3. QED
    BY <1>1, <1>2, RetryStep, TypeCorrect, PTL DEF Spec

-----------------------------------------------------------------------------
(* Exclusive claims, when no tick outlives staleClaimAfterMs.               *)
(* OneForwarderPerEntry is not inductive: what keeps a second replica from  *)
(* claiming an entry in hand is its row, CLAIMED and not stale -- or SENT,  *)
(* or cleaned up already, when the answer of markSent was lost.             *)

Held(f, e) ==
    \/ /\ outbox[e].status = "CLAIMED"
       /\ outbox[e].claimedBy = f
       /\ ~outbox[e].expired
    \/ /\ outbox[e].status \in {"SENT", "DELETED"}
       /\ pc[f] = "markFailed"
       /\ cur[f] = e

HolderInv ==
    /\ \A f, g \in Forwarders : f # g => batch[f] \cap batch[g] = {}
    /\ \A f \in Forwarders : \A e \in batch[f] : Held(f, e)

LEMMA HolderStep ==
    ASSUME TypeOK, HolderInv, "slowTick" \notin faults, [Next]_vars
    PROVE  HolderInv'
  <1>t. /\ outbox \in [Entries -> Row]
        /\ pc \in [Forwarders -> Labels]
        /\ batch \in [Forwarders -> SUBSET Entries]
        /\ cur \in [Forwarders -> Entries \cup {NoEntry}]
    BY DEF TypeOK
  <1>h. \A f, g \in Forwarders : \A e \in batch[f] :
            Held(f, e) /\ (e \in batch[g] => f = g)
    BY DEF HolderInv
  \* It is enough that batches only lose entries and what they keep stays held.
  <1>s. ASSUME \A f \in Forwarders : batch'[f] \subseteq batch[f],
               \A f \in Forwarders : \A e \in batch'[f] : Held(f, e)'
        PROVE  HolderInv'
    BY <1>s, <1>h DEF HolderInv
  <1>1. ASSUME NEW d \in Entries,
               \/ Insert(d) \/ Cleanup(d) \/ BusConsumes(d) \/ ClaimExpires(d)
        PROVE  HolderInv'
    <2>1. batch' = batch /\ pc' = pc /\ cur' = cur
      BY <1>1 DEF Insert, Cleanup, BusConsumes, ClaimExpires, procVars, envVars
    <2>2. ASSUME NEW f \in Forwarders, NEW e \in batch[f] PROVE Held(f, e)'
      <3>1. Held(f, e) /\ e \in Entries
        BY <1>h, <1>t
      <3>2. CASE outbox'[e] = outbox[e]
        BY <2>1, <3>1, <3>2 DEF Held
      <3>3. CASE d = e /\ Insert(d)
        BY <3>1, <3>3 DEF Held, Insert
      <3>4. CASE d = e /\ Cleanup(d)
        BY <1>t, <2>1, <3>1, <3>4 DEF Held, Cleanup, Row
      <3>5. CASE d = e /\ ClaimExpires(d)
        BY <3>5 DEF ClaimExpires, InHand
      <3>6. QED
        BY <1>1, <1>t, <3>2, <3>3, <3>4, <3>5
           DEF Insert, Cleanup, BusConsumes, ClaimExpires
    <2>3. QED
      BY <2>1, <2>2, <1>s
  <1>2. ASSUME NEW f \in Forwarders,
               \/ Start(f) \/ Dispose(f) \/ Crash(f) \/ TimerFires(f)
               \/ SweepFails(f) \/ LoopHead(f) \/ PublishInserts(f)
               \/ PublishConflicts(f) \/ PublishSelects(f) \/ PublishFails(f)
        PROVE  HolderInv'
    <2>1. /\ outbox' = outbox
          /\ pc[f] = "markFailed" => \/ pc'[f] = pc[f] /\ cur' = cur /\ batch' = batch
                                     \/ batch' = [batch EXCEPT ![f] = {}]
          /\ batch' = batch \/ batch' = [batch EXCEPT ![f] = {}]
          /\ \A g \in Forwarders \ {f} : pc'[g] = pc[g] /\ cur'[g] = cur[g]
      BY <1>2, <1>t
         DEF Start, Dispose, Crash, TimerFires, SweepFails, LoopHead,
             PublishInserts, PublishConflicts, PublishSelects, PublishFails,
             Goto, EndTick
    <2>2. \A g \in Forwarders : batch'[g] \subseteq batch[g]
      BY <2>1, <1>t
    <2>3. ASSUME NEW g \in Forwarders, NEW e \in batch'[g] PROVE Held(g, e)'
      <3>1. Held(g, e)
        BY <2>2, <1>h
      <3>2. CASE g = f
        BY <1>t, <2>1, <2>3, <3>1, <3>2 DEF Held
      <3>3. CASE g # f
        BY <2>1, <3>1, <3>3 DEF Held
      <3>4. QED
        BY <3>2, <3>3
    <2>4. QED
      BY <2>2, <2>3, <1>s
  <1>3. ASSUME NEW f \in Forwarders, SweepOk(f) PROVE HolderInv'
    <2>1. /\ batch' = batch /\ cur' = cur /\ outbox' = SweptTable
          /\ pc[f] = "sweep"
          /\ \A g \in Forwarders \ {f} : pc'[g] = pc[g]
      BY <1>3, <1>t DEF SweepOk, Goto
    <2>2. ASSUME NEW g \in Forwarders, NEW e \in batch[g] PROVE Held(g, e)'
      <3>1. Held(g, e) /\ e \in Entries
        BY <1>h, <1>t
      <3>2. ~IsStale(outbox[e])
        BY <3>1 DEF Held, IsStale
      <3>3. outbox'[e] = outbox[e]
        BY <1>t, <2>1, <3>1, <3>2, SweptTableType
      <3>4. QED
        BY <2>1, <3>1, <3>3 DEF Held
    <2>3. QED
      BY <2>1, <2>2, <1>s
  <1>4. ASSUME NEW f \in Forwarders, NEW S \in SUBSET WithStatus("PENDING"),
               outbox' = ClaimedTable(f, S), pc[f] = "claim",
               batch' = [batch EXCEPT ![f] = S] \/ batch' = [batch EXCEPT ![f] = {}],
               \A g \in Forwarders \ {f} : pc'[g] = pc[g] /\ cur'[g] = cur[g]
        PROVE  HolderInv'
    <2>1. S \subseteq Entries /\ \A e \in S : outbox[e].status = "PENDING"
      BY DEF WithStatus
    <2>2. \A g \in Forwarders : \A e \in batch[g] : e \notin S
      BY <2>1, <1>h DEF Held
    <2>3. ASSUME NEW g \in Forwarders, g # f
          PROVE  batch'[g] = batch[g] /\ \A e \in batch[g] : Held(g, e)'
      <3>1. batch'[g] = batch[g]
        BY <1>4, <1>t, <2>3
      <3>2. ASSUME NEW e \in batch[g] PROVE outbox'[e] = outbox[e]
        BY <1>4, <1>t, <2>1, <2>2, ClaimedTableType
      <3>3. QED
        BY <1>4, <1>h, <2>3, <3>1, <3>2 DEF Held
    <2>4. /\ batch'[f] \subseteq S
          /\ \A e \in batch'[f] : Held(f, e)'
      <3>1. batch'[f] \subseteq S
        BY <1>4, <1>t
      <3>2. \A e \in S : /\ outbox'[e].status = "CLAIMED"
                         /\ outbox'[e].claimedBy = f
                         /\ ~outbox'[e].expired
        BY <1>4, <1>t, <2>1, ClaimedTableType
      <3>3. QED
        BY <3>1, <3>2 DEF Held
    <2>5. QED
      BY <1>h, <2>2, <2>3, <2>4 DEF HolderInv
  <1>5. ASSUME NEW f \in Forwarders, ClaimOk(f) \/ ClaimFails(f)
        PROVE  HolderInv'
    <2>1. CASE outbox' = outbox /\ ClaimFails(f)
      <3>1. /\ batch' = [batch EXCEPT ![f] = {}]
            /\ \A g \in Forwarders \ {f} : pc'[g] = pc[g] /\ cur'[g] = cur[g]
        BY <2>1, <1>t DEF ClaimFails, EndTick
      <3>2. \A g \in Forwarders : batch'[g] \subseteq batch[g]
        BY <3>1, <1>t
      <3>3. \A g \in Forwarders : \A e \in batch'[g] : Held(g, e)'
        BY <1>h, <1>t, <2>1, <3>1 DEF Held
      <3>4. QED
        BY <3>2, <3>3, <1>s
    <2>2. CASE \E S \in SUBSET WithStatus("PENDING") :
                 /\ outbox' = ClaimedTable(f, S)
                 /\ \/ batch' = [batch EXCEPT ![f] = S]
                    \/ batch' = [batch EXCEPT ![f] = {}]
      <3>1. pc[f] = "claim"
        BY <1>5 DEF ClaimOk, ClaimFails
      <3>2. \A g \in Forwarders \ {f} : pc'[g] = pc[g] /\ cur'[g] = cur[g]
        BY <1>5, <1>t DEF ClaimOk, ClaimFails, EndTick
      <3>3. QED
        BY <2>2, <3>1, <3>2, <1>4
    <2>3. QED
      BY <1>5, <2>1, <2>2 DEF ClaimOk, ClaimFails, EndTick
  <1>6. ASSUME NEW f \in Forwarders,
               \/ MarkSentOk(f) \/ MarkSentFails(f)
               \/ MarkFailedOk(f) \/ MarkFailedFails(f)
        PROVE  HolderInv'
    <2>1. /\ cur[f] \in batch[f] /\ cur[f] \in Entries
          /\ pc[f] \in {"markSent", "markFailed"}
      BY <1>6, <1>t DEF MarkSentOk, MarkSentFails, MarkFailedOk,
                        MarkFailedFails, TypeOK
    <2>2. \A e \in Entries : e # cur[f] => outbox'[e] = outbox[e]
      BY <1>6, <1>t DEF MarkSentOk, MarkSentFails, MarkFailedOk, MarkFailedFails
    <2>3. \A g \in Forwarders \ {f} :
            batch'[g] = batch[g] /\ pc'[g] = pc[g] /\ cur'[g] = cur[g]
      BY <1>6, <1>t DEF MarkSentOk, MarkSentFails, MarkFailedOk,
                        MarkFailedFails, Goto, EndTick, EntryDone
    <2>4. batch'[f] \subseteq batch[f]
      BY <1>6, <1>t DEF MarkSentOk, MarkSentFails, MarkFailedOk,
                        MarkFailedFails, Goto, EndTick, EntryDone
    <2>5. ASSUME NEW g \in Forwarders, g # f, NEW e \in batch'[g]
          PROVE  Held(g, e)'
      <3>1. e # cur[f] /\ e \in Entries
        BY <1>h, <1>t, <2>1, <2>3, <2>5
      <3>2. QED
        BY <1>h, <2>2, <2>3, <2>5, <3>1 DEF Held
    <2>6. ASSUME NEW e \in batch'[f] PROVE Held(f, e)'
      <3>1. Held(f, e) /\ e \in Entries
        BY <1>h, <1>t, <2>4
      <3>2. CASE e # cur[f]
        BY <2>2, <3>1, <3>2 DEF Held
      <3>3. CASE e = cur[f]
        <4>1. MarkSentFails(f)
          BY <1>6, <1>t, <3>3 DEF MarkSentOk, MarkFailedOk, MarkFailedFails,
                                  EntryDone, EndTick
        <4>2. pc'[f] = "markFailed" /\ cur' = cur
          BY <4>1, <1>t DEF MarkSentFails, Goto
        <4>3. CASE outbox' = outbox
          BY <4>1, <4>2, <4>3, <3>1, <3>3 DEF Held, MarkSentFails
        <4>4. CASE outbox' = [outbox EXCEPT ![cur[f]] = SentRow(@)]
          <5>1. outbox[e].status = "CLAIMED"
            BY <3>1, <4>1 DEF Held, MarkSentFails
          <5>2. outbox'[e].status = "SENT"
            BY <1>t, <3>1, <3>3, <4>4, <5>1, SentRowType DEF Exists
          <5>3. QED
            BY <3>3, <4>2, <5>2 DEF Held
        <4>5. QED
          BY <4>1, <4>3, <4>4 DEF MarkSentFails
      <3>4. QED
        BY <3>2, <3>3
    <2>7. QED
      BY <2>3, <2>4, <2>5, <2>6, <1>s
  <1>7. CASE UNCHANGED vars
    BY <1>7, <1>h, <1>s DEF vars, procVars, envVars, Held
  <1>8. QED
    BY <1>1, <1>2, <1>3, <1>5, <1>6, <1>7 DEF Next, Tick

LEMMA FaultsConstant == [Next]_vars => faults' = faults
  BY DEF Next, vars, procVars, envVars, Insert, Cleanup, BusConsumes, ClaimExpires,
         Start, Dispose, Crash, Tick, TimerFires, SweepOk, SweepFails, ClaimOk,
         ClaimFails, LoopHead, PublishInserts, PublishConflicts, PublishSelects,
         PublishFails, MarkSentOk, MarkSentFails, MarkFailedOk, MarkFailedFails,
         Goto, EndTick, EntryDone

\* If no tick outlives staleClaimAfterMs, no two replicas ever have the same
\* entry in hand: for any number of replicas, with crashes and lost answers.
THEOREM ClaimsAreExclusive == Spec => []OneForwarderPerEntry
  <1> DEFINE Inv == "slowTick" \notin faults => HolderInv
  <1>1. Init => Inv
    BY DEF Init, HolderInv
  <1>2. Inv => OneForwarderPerEntry
    BY DEF HolderInv, OneForwarderPerEntry
  <1>3. TypeOK /\ Inv /\ [Next]_vars => Inv'
    BY HolderStep, FaultsConstant
  <1>4. QED
    BY <1>1, <1>2, <1>3, TypeCorrect, PTL DEF Spec

-----------------------------------------------------------------------------
(* What a step does to the table as a whole, and that only recorded entries *)
(* are published: module PipelineProofs builds on both.                     *)

\* The row is as far as it was: waiting, acknowledged, given up, or not there yet.
SameStage(old, new) ==
    \/ new.status = old.status
    \/ {old.status, new.status} \subseteq {"PENDING", "CLAIMED"}
    \/ {old.status, new.status} \subseteq {"SENT", "DELETED"}

\* The row of the entry that f forwards becomes row; nothing else is written.
Rewrites(f, row) ==
    /\ outbox' = [outbox EXCEPT ![cur[f]] = row]
    /\ published' = published

LEMMA TableSteps ==
    ASSUME TypeOK, [Next]_vars
    PROVE  \/ \E e \in Entries : Insert(e)
           \/ \E f \in Forwarders : PublishInserts(f)
           \/ /\ published' = published
              /\ \A e \in Entries : SameStage(outbox[e], outbox'[e])
           \/ \E f \in Forwarders : pc[f] = "markSent" /\ Rewrites(f, SentRow(outbox[cur[f]]))
           \/ \E f \in Forwarders :
                pc[f] = "markFailed" /\ Rewrites(f, FailedRow(outbox[cur[f]]))
  <1>t. outbox \in [Entries -> Row]
    BY DEF TypeOK
  <1> DEFINE Kept == /\ published' = published
                     /\ \A e \in Entries : SameStage(outbox[e], outbox'[e])
  <1>k. UNCHANGED <<outbox, published>> => Kept
    BY DEF SameStage
  <1>1. ASSUME NEW e \in Entries, Cleanup(e) \/ ClaimExpires(e)
        PROVE  Kept
    <2>1. published' = published /\ \A d \in Entries : d # e => outbox'[d] = outbox[d]
      BY <1>t, <1>1 DEF Cleanup, ClaimExpires
    <2>2. SameStage(outbox[e], outbox'[e])
      BY <1>t, <1>1 DEF Cleanup, ClaimExpires, SameStage, Row
    <2>3. QED
      BY <2>1, <2>2 DEF SameStage
  <1>2. ASSUME NEW f \in Forwarders, SweepOk(f) PROVE Kept
    BY <1>t, <1>2, SweptTableType DEF SweepOk, SameStage, IsStale
  <1>3. ASSUME NEW f \in Forwarders, NEW S \in SUBSET WithStatus("PENDING"),
               outbox' = ClaimedTable(f, S), published' = published
        PROVE  Kept
    BY <1>t, <1>3, ClaimedTableType DEF WithStatus, SameStage
  <1>4. ASSUME NEW f \in Forwarders,
               \/ Start(f) \/ Dispose(f) \/ Crash(f) \/ TimerFires(f) \/ SweepFails(f)
               \/ LoopHead(f) \/ PublishConflicts(f) \/ PublishSelects(f) \/ PublishFails(f)
        PROVE  UNCHANGED <<outbox, published>>
    BY <1>4 DEF Start, Dispose, Crash, TimerFires, SweepFails, LoopHead,
                PublishConflicts, PublishSelects, PublishFails
  <1>5. ASSUME NEW f \in Forwarders, ClaimOk(f) \/ ClaimFails(f) PROVE Kept
    <2>1. published' = published
      BY <1>5 DEF ClaimOk, ClaimFails
    <2>2. \/ outbox' = outbox
          \/ \E S \in SUBSET WithStatus("PENDING") : outbox' = ClaimedTable(f, S)
      BY <1>5 DEF ClaimOk, ClaimFails
    <2> HIDE DEF Kept
    <2>3. QED
      BY <2>1, <2>2, <1>3, <1>k
  <1>6. ASSUME NEW f \in Forwarders,
               \/ MarkSentOk(f) \/ MarkSentFails(f)
               \/ MarkFailedOk(f) \/ MarkFailedFails(f)
        PROVE  \/ UNCHANGED <<outbox, published>>
               \/ pc[f] = "markSent" /\ Rewrites(f, SentRow(outbox[cur[f]]))
               \/ pc[f] = "markFailed" /\ Rewrites(f, FailedRow(outbox[cur[f]]))
    BY <1>6 DEF MarkSentOk, MarkSentFails, MarkFailedOk, MarkFailedFails, Rewrites
  <1>7. CASE UNCHANGED vars \/ \E e \in Entries : BusConsumes(e)
    BY <1>7, <1>k DEF vars, BusConsumes
  <1> HIDE DEF Kept
  <1>8. CASE \E f \in Forwarders : Tick(f)
    BY <1>8, <1>k, <1>2, <1>4, <1>5, <1>6 DEF Tick, Kept
  <1>9. QED
    BY <1>1, <1>4, <1>7, <1>8, <1>k DEF Next, Kept

\* A step puts into a batch what it has claimed, and nothing else.
LEMMA BatchStep ==
    ASSUME TypeOK, [Next]_vars, NEW f \in Forwarders, NEW e \in batch'[f]
    PROVE  e \in batch[f] \/ outbox[e].status = "PENDING"
  <1>t. outbox \in [Entries -> Row] /\ batch \in [Forwarders -> SUBSET Entries]
    BY DEF TypeOK
  <1>1. ASSUME NEW g \in Forwarders, ClaimOk(g)
        PROVE  e \in batch[f] \/ outbox[e].status = "PENDING"
    <2>1. PICK S \in SUBSET WithStatus("PENDING") : batch' = [batch EXCEPT ![g] = S]
      BY <1>1 DEF ClaimOk
    <2>2. QED
      BY <1>t, <2>1 DEF WithStatus
  <1>2. ASSUME NEW g \in Forwarders, Start(g) \/ Dispose(g) \/ Crash(g) \/ Tick(g),
               ~ClaimOk(g)
        PROVE  \/ batch' = batch \/ batch' = [batch EXCEPT ![g] = {}]
               \/ batch' = [batch EXCEPT ![g] = @ \ {cur[g]}]
    BY <1>2 DEF Start, Dispose, Crash, Tick, TimerFires, SweepOk, SweepFails, ClaimFails,
                LoopHead, PublishInserts, PublishConflicts, PublishSelects, PublishFails,
                MarkSentOk, MarkSentFails, MarkFailedOk, MarkFailedFails, Goto, EndTick,
                EntryDone
  <1>3. CASE batch' = batch
    BY <1>3
  <1>4. ASSUME NEW g \in Forwarders,
               \/ batch' = [batch EXCEPT ![g] = {}]
               \/ batch' = [batch EXCEPT ![g] = @ \ {cur[g]}]
        PROVE  e \in batch[f]
    BY <1>t, <1>4
  <1>5. CASE \/ UNCHANGED vars
             \/ \E d \in Entries :
                  Insert(d) \/ Cleanup(d) \/ BusConsumes(d) \/ ClaimExpires(d)
    BY <1>3, <1>5 DEF vars, Insert, Cleanup, BusConsumes, ClaimExpires
  <1>6. QED
    BY <1>1, <1>2, <1>3, <1>4, <1>5 DEF Next

\* What replicas have in hand, and what was published, was recorded first.
RecordedInv ==
    /\ \A e \in published : outbox[e].status # "NONE"
    /\ \A f \in Forwarders : \A e \in batch[f] : outbox[e].status # "NONE"

LEMMA RecordedStep == TypeOK /\ RecordedInv /\ [Next]_vars => RecordedInv'
  <1> SUFFICES ASSUME TypeOK, RecordedInv, [Next]_vars PROVE RecordedInv'
    OBVIOUS
  <1>t. /\ outbox \in [Entries -> Row]
        /\ batch \in [Forwarders -> SUBSET Entries]
        /\ published \subseteq Entries
    BY DEF TypeOK
  <1>1. ASSUME NEW e \in Entries, outbox[e].status # "NONE"
        PROVE  outbox'[e].status # "NONE"
    <2>1. RowStep(outbox[e], outbox'[e])
      BY RowSteps
    <2>2. CASE Exists(outbox[e]) /\ outbox'[e] = FailedRow(outbox[e])
      BY <1>t, <2>2, FailedRowType
    <2>3. QED
      BY <1>1, <2>1, <2>2 DEF RowStep
  <1>2. ASSUME NEW e \in published'
        PROVE  e \in published \/ \E f \in Forwarders : e \in batch[f]
    <2>1. CASE published' = published
      BY <1>2, <2>1
    <2>2. ASSUME NEW f \in Forwarders, PublishInserts(f)
          PROVE  e \in published \/ e \in batch[f]
      BY <1>2, <2>2 DEF PublishInserts, TypeOK
    <2>3. QED
      BY <2>1, <2>2, TableSteps DEF Insert, Rewrites
  <1>3. ASSUME NEW f \in Forwarders, NEW e \in batch'[f]
        PROVE  e \in batch[f] \/ outbox[e].status = "PENDING"
    BY BatchStep
  <1>4. batch' \in [Forwarders -> SUBSET Entries] /\ published' \subseteq Entries
    BY NextType DEF TypeOK
  <1>5. QED
    <2>1. \A e \in published' : outbox'[e].status # "NONE"
      BY <1>1, <1>2, <1>4 DEF RecordedInv
    <2>2. \A f \in Forwarders : \A e \in batch'[f] : outbox'[e].status # "NONE"
      <3>1. SUFFICES ASSUME NEW f \in Forwarders, NEW e \in batch'[f]
                     PROVE  outbox'[e].status # "NONE"
        OBVIOUS
      <3>2. e \in Entries
        BY <1>4
      <3>3. outbox[e].status # "NONE"
        BY <1>3 DEF RecordedInv
      <3>4. QED
        BY <1>1, <3>2, <3>3
    <2>3. QED
      BY <2>1, <2>2 DEF RecordedInv

\* Only what its transaction has recorded is ever claimed or published.
THEOREM PublishedWasRecorded == Spec => []RecordedInv
  <1>1. Init => RecordedInv
    BY DEF Init, RecordedInv
  <1>2. QED
    BY <1>1, RecordedStep, TypeCorrect, PTL DEF Spec

\* The inductive invariants of this module together.
LEMMA Invariants == Spec => [](TypeOK /\ PublishedInv /\ RetryInv /\ RecordedInv)
  <1>1. Init => PublishedInv /\ RetryInv /\ RecordedInv
    BY MaxRetriesAssumption DEF Init, PublishedInv, SentWasPublished, RetryInv, RetryBudget,
                                RecordedInv, EmptyRow
  <1>2. QED
    BY <1>1, PublishedStep, RetryStep, RecordedStep, TypeCorrect, PTL DEF Spec
-----------------------------------------------------------------------------
(* SENT is terminal.  Without faults, what a replica has in hand is CLAIMED:  *)
(* HolderInv's other case, a row that markFailed finds SENT, takes an answer  *)
(* that was lost.  So markFailed never meets a row that is SENT.              *)

ClaimedInv ==
    \A f \in Forwarders : \A e \in batch[f] : outbox[e].status = "CLAIMED"

LEMMA ClaimedStep ==
    ASSUME TypeOK, HolderInv, ClaimedInv, faults = {}, [Next]_vars
    PROVE  ClaimedInv'
  <1> SUFFICES ASSUME NEW f \in Forwarders, NEW e \in batch'[f],
                      outbox'[e].status # "CLAIMED"
               PROVE  FALSE
    BY DEF ClaimedInv
  <1>t. outbox \in [Entries -> Row] /\ pc \in [Forwarders -> Labels]
    BY DEF TypeOK
  <1>1. e \in Entries
    BY NextType DEF TypeOK
  <1>2. /\ outbox'[e].status \in {"SENT", "DELETED"}
        /\ pc'[f] = "markFailed"
    BY HolderStep DEF HolderInv, Held
  <1>3. outbox[e].status \in {"PENDING", "CLAIMED"}
    BY BatchStep DEF ClaimedInv
  <1>4. PICK g \in Forwarders : pc[g] = "markSent" /\ cur[g] = e
    <2>1. ~SameStage(outbox[e], outbox'[e])
      BY <1>2, <1>3 DEF SameStage
    <2>2. ASSUME NEW g \in Forwarders, Rewrites(g, FailedRow(outbox[cur[g]]))
          PROVE  FALSE
      <3>1. outbox[e] \in Row /\ Exists(outbox[e])
        BY <1>t, <1>1, <1>3 DEF Exists
      <3>2. FailedRow(outbox[e]).status \in {"PENDING", "FAILED"}
        BY <3>1, FailedRowType
      <3>3. QED
        BY <1>t, <1>1, <1>2, <1>3, <2>2, <3>2 DEF Rewrites
    <2>3. ASSUME NEW g \in Forwarders, Rewrites(g, SentRow(outbox[cur[g]])), cur[g] # e
          PROVE  FALSE
      BY <1>t, <1>1, <1>2, <1>3, <2>3 DEF Rewrites
    <2>4. ASSUME NEW d \in Entries, Insert(d) PROVE FALSE
      BY <1>t, <1>1, <1>2, <1>3, <2>4 DEF Insert
    <2>5. ASSUME NEW g \in Forwarders, PublishInserts(g) PROVE FALSE
      BY <1>2, <1>3, <2>5 DEF PublishInserts
    <2>6. QED
      BY <1>1, <2>1, <2>2, <2>3, <2>4, <2>5, TableSteps
  <1>5. e \in batch[g]
    BY <1>4 DEF TypeOK
  <1>6. e \in batch[f]
    BY <1>5, BatchStep DEF ClaimedInv
  <1>7. g = f
    BY <1>5, <1>6 DEF HolderInv
  <1>8. outbox' # outbox
    BY <1>2, <1>3
  <1>9. ASSUME NEW h \in Forwarders, Start(h) \/ Dispose(h) \/ Crash(h) \/ Tick(h)
        PROVE  pc'[f] # "markFailed" \/ outbox' = outbox
    <2>1. CASE h # f
      <3>1. pc'[f] = pc[f]
        BY <1>t, <1>9, <2>1
           DEF Start, Dispose, Crash, Tick, TimerFires, SweepOk, SweepFails, ClaimOk,
               ClaimFails, LoopHead, PublishInserts, PublishConflicts, PublishSelects,
               PublishFails, MarkSentOk, MarkSentFails, MarkFailedOk, MarkFailedFails,
               Goto, EndTick, EntryDone
      <3>2. QED
        BY <1>4, <1>7, <3>1
    <2>2. CASE h = f
      BY <1>t, <1>4, <1>7, <1>9, <2>2
         DEF Start, Dispose, Crash, Tick, TimerFires, SweepOk, SweepFails, ClaimOk,
             ClaimFails, LoopHead, PublishInserts, PublishConflicts, PublishSelects,
             PublishFails, MarkSentOk, MarkSentFails, MarkFailedOk, MarkFailedFails,
             Goto, EndTick, EntryDone
    <2>3. QED
      BY <2>1, <2>2
  <1>10. ASSUME \/ UNCHANGED vars
                \/ \E d \in Entries :
                      Insert(d) \/ Cleanup(d) \/ BusConsumes(d) \/ ClaimExpires(d)
         PROVE  pc' = pc
    BY <1>10 DEF vars, procVars, Insert, Cleanup, BusConsumes, ClaimExpires
  <1>11. QED
    BY <1>2, <1>4, <1>7, <1>8, <1>9, <1>10 DEF Next

\* A row that is SENT stays so until it is cleaned up, if ticks are timely and
\* answers truthful: for any number of replicas, whenever they crash.
THEOREM SentStays == Spec => SentIsTerminal
  <1> DEFINE Inv == faults = {} => HolderInv /\ ClaimedInv
  <1>1. Init => Inv
    BY DEF Init, HolderInv, ClaimedInv
  <1>2. TypeOK /\ Inv /\ [Next]_vars => Inv'
    BY HolderStep, ClaimedStep, FaultsConstant
  <1>3. ASSUME TypeOK, Inv, [Next]_vars, NEW e \in Entries,
               faults = {}, outbox[e].status = "SENT"
        PROVE  outbox'[e].status \in {"SENT", "DELETED"}
    <2>t. outbox \in [Entries -> Row]
      BY <1>3 DEF TypeOK
    <2>1. ASSUME NEW f \in Forwarders, pc[f] = "markFailed" PROVE cur[f] # e
      <3>1. cur[f] \in batch[f]
        BY <1>3, <2>1 DEF TypeOK
      <3>2. QED
        BY <1>3, <3>1 DEF ClaimedInv
    <2>2. CASE SameStage(outbox[e], outbox'[e])
      BY <1>3, <2>2 DEF SameStage
    <2>3. CASE \/ \E d \in Entries : Insert(d)
               \/ \E f \in Forwarders : PublishInserts(f)
      BY <1>3, <2>t, <2>3 DEF Insert, PublishInserts
    <2>4. ASSUME NEW f \in Forwarders, Rewrites(f, SentRow(outbox[cur[f]]))
          PROVE  outbox'[e].status = "SENT"
      <3>1. SentRow(outbox[e]).status = "SENT"
        BY <1>3, <2>t, SentRowType
      <3>2. QED
        BY <1>3, <2>t, <2>4, <3>1 DEF Rewrites
    <2>5. ASSUME NEW f \in Forwarders, pc[f] = "markFailed",
                 Rewrites(f, FailedRow(outbox[cur[f]]))
          PROVE  outbox'[e].status = "SENT"
      BY <1>3, <2>t, <2>1, <2>5 DEF Rewrites
    <2>6. QED
      BY <1>3, <2>2, <2>3, <2>4, <2>5, TableSteps
  <1>4. TypeOK /\ Inv /\ [Next]_vars =>
          [\A e \in Entries : faults = {} /\ outbox[e].status = "SENT" =>
                outbox'[e].status \in {"SENT", "DELETED"}]_vars
    BY <1>3
  <1>5. QED
    BY <1>1, <1>2, <1>4, TypeCorrect, PTL DEF Spec, SentIsTerminal
=============================================================================
