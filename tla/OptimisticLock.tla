--------------------------- MODULE OptimisticLock ---------------------------
(***************************************************************************)
(* BaseWriteDao and the aggregate repositories over PgWriteDbAdapter: the  *)
(* optimistic lock on updated_at and the locked reads, for sessions that   *)
(* load an object of a row, change it and save it in transactions of their *)
(* own.                                                                    *)
(*                                                                         *)
(* A statement that needs a row lock waits for it and then works on the    *)
(* latest committed version (READ COMMITTED); here it is enabled when the  *)
(* lock is free.  Rows do not affect each other, so the Many forms are     *)
(* steps of one row.  CURRENT_TIMESTAMP is the start of the transaction.   *)
(***************************************************************************)
EXTENDS Integers, FiniteSets

CONSTANTS
    Sessions,
    Rows,           \* ids
    NoSession,
    MaxTransactions,    \* bound: transactions of all sessions together
    MaxWrites,      \* bound: versions of rows
    FaultSets       \* what an application or database may be exposed to

ASSUME SessionsAssumption == NoSession \notin Sessions
ASSUME BoundsAssumption == MaxTransactions \in Nat /\ MaxWrites \in Nat
ASSUME FaultsAssumption ==
    FaultSets \subseteq SUBSET {"sameMs", "foreign", "resave", "touch"}

VARIABLES
    row,        \* row -> what is committed
    image,      \* row -> what its lock holder sees, else as committed
    lock,       \* row -> session, or NoSession
    active,     \* sessions with a transaction
    start,      \* session -> CURRENT_TIMESTAMP of its transaction
    object,     \* session -> row -> the object in memory
    clock, begun, writes,
    lost,       \* history: kinds of objects whose save overwrote a version
                \* that the object did not come from
    spurious,   \* history: kinds of objects whose save was refused although
                \* it came from the present version
    faults      \* constant: "sameMs": transactions may start within one
                \* millisecond; "foreign": somebody else writes updated_at with
                \* microseconds; "resave": an object is saved again after it
                \* was created or saved; "touch": the application sets
                \* updatedAt of an object to the present time

dbVars == <<row, image, lock, active, start, clock, begun, writes>>
vars == <<dbVars, object, lost, spurious, faults>>

(* Time is in half milliseconds.                                             *)
Times == 0 .. 2 * MaxTransactions + 1
NoDate == -1
Trunc(t) == 2 * (t \div 2)
NextMs(t) == Trunc(t) + 2

Versions == 0 .. MaxWrites
RowImages == [live : BOOLEAN, updatedAt : Times, version : Versions]

Objects ==
    [kind : {"none", "read", "locked", "new"},
     updatedAt : Times \cup {NoDate},
     known : SUBSET Versions,   \* the version it was read from and those it wrote
     saved : BOOLEAN]

NoObject == [kind |-> "none", updatedAt |-> NoDate, known |-> {}, saved |-> FALSE]

Init ==
    /\ faults \in FaultSets
    /\ row \in [Rows -> [live : BOOLEAN, version : {0},
                         updatedAt : IF "foreign" \in faults THEN {0, 1} ELSE {0}]]
    /\ image = row
    /\ lock = [r \in Rows |-> NoSession]
    /\ active = {}
    /\ start = [s \in Sessions |-> 0]
    /\ object = [s \in Sessions |-> [r \in Rows |-> NoObject]]
    /\ clock = 0 /\ begun = 0 /\ writes = 0
    /\ lost = {} /\ spurious = {}

-----------------------------------------------------------------------------
(* Transactions.                                                            *)

Begin(s) ==
    /\ s \notin active
    /\ begun < MaxTransactions
    /\ active' = active \cup {s}
    /\ begun' = begun + 1
    /\ \/ clock' = NextMs(clock) + 1
       \/ "sameMs" \in faults /\ clock' = clock
    /\ start' = [start EXCEPT ![s] = clock']
    /\ UNCHANGED <<row, image, lock, writes, object, lost, spurious, faults>>

Unlocked(o) == IF o.kind = "locked" THEN [o EXCEPT !.kind = "read"] ELSE o

\* Objects outlive the transaction, its locks do not.
Ends(s) ==
    /\ active' = active \ {s}
    /\ lock' = [r \in Rows |-> IF lock[r] = s THEN NoSession ELSE lock[r]]
    /\ object' = [object EXCEPT ![s] = [r \in Rows |-> Unlocked(object[s][r])]]
    /\ UNCHANGED <<start, clock, begun, writes, lost, spurious, faults>>

\* Mutation: what was written is not published.
MutCommit(s) ==
    /\ s \in active
    /\ Ends(s)
    /\ UNCHANGED <<row, image>>

Commit(s) ==
    /\ s \in active
    /\ Ends(s)
    /\ row' = [r \in Rows |-> IF lock[r] = s THEN image[r] ELSE row[r]]
    /\ UNCHANGED image

Rollback(s) ==
    /\ s \in active
    /\ Ends(s)
    /\ image' = [r \in Rows |-> IF lock[r] = s THEN row[r] ELSE image[r]]
    /\ UNCHANGED row

-----------------------------------------------------------------------------
(* Reads.                                                                   *)

\* The object of a row: a Date has milliseconds.
ObjectOf(seen, kind) ==
    [kind |-> kind, updatedAt |-> Trunc(seen.updatedAt),
     known |-> {seen.version}, saved |-> FALSE]

\* findOneById, loadById, loadByIdAndScopeOrFail: outside the transaction or
\* inside.
Load(s, r) ==
    /\ \E seen \in {row[r]} \cup (IF lock[r] = s THEN {image[r]} ELSE {}) :
        /\ seen.live
        /\ object' = [object EXCEPT ![s][r] = ObjectOf(seen, "read")]
    /\ UNCHANGED <<dbVars, lost, spurious, faults>>

CanLock(s, r) == s \in active /\ lock[r] \in {NoSession, s}

\* Mutation: the read does not lock.
MutLoadForUpdate(s, r) ==
    /\ CanLock(s, r)
    /\ image[r].live
    /\ object' = [object EXCEPT ![s][r] = ObjectOf(image[r], "locked")]
    /\ UNCHANGED <<dbVars, lost, spurious, faults>>

LoadForUpdate(s, r) ==
    /\ CanLock(s, r)
    /\ image[r].live
    /\ lock' = [lock EXCEPT ![r] = s]
    /\ object' = [object EXCEPT ![s][r] = ObjectOf(image[r], "locked")]
    /\ UNCHANGED <<row, image, active, start, clock, begun, writes, lost, spurious, faults>>

Touched(o) == [o EXCEPT !.updatedAt = Trunc(clock)]

\* changeUpdatedAt(new Date()), as in updateFromInput of the ddd README.
Touch(s, r) ==
    /\ "touch" \in faults
    /\ object[s][r].kind # "none"
    /\ object' = [object EXCEPT ![s][r] = Touched(@)]
    /\ UNCHANGED <<dbVars, lost, spurious, faults>>

-----------------------------------------------------------------------------
(* Writes.                                                                  *)

\* Mutation: updated_at keeps its microseconds.
MutTimestamp(s) == start[s]

\* TIMESTAMP_LITERAL.
Timestamp(s) == Trunc(start[s])

\* A new version of row r.
Write(s, r, live) ==
    /\ writes < MaxWrites
    /\ writes' = writes + 1
    /\ lock' = [lock EXCEPT ![r] = s]
    /\ image' = [image EXCEPT ![r] =
                    [live |-> live, updatedAt |-> Timestamp(s), version |-> writes + 1]]
    /\ UNCHANGED <<row, active, start, clock, begun, faults>>

\* The id is not in use.
Create(s, r) ==
    /\ CanLock(s, r)
    /\ ~image[r].live
    /\ Write(s, r, TRUE)
    /\ object' = [object EXCEPT ![s][r] =
                    [kind |-> "new", updatedAt |-> NoDate,
                     known |-> {writes + 1}, saved |-> TRUE]]
    /\ UNCHANGED <<lost, spurious>>

MaySave(s, r) ==
    /\ object[s][r].kind # "none"
    /\ CanLock(s, r)
    /\ ~object[s][r].saved \/ "resave" \in faults

\* o wrote version v.
Saved(o, v) ==
    [kind |-> o.kind, updatedAt |-> o.updatedAt, known |-> o.known \cup {v}, saved |-> TRUE]

\* The object of s is saved, or its row deleted.
Save(s, r, live) ==
    /\ Write(s, r, live)
    /\ object' = [object EXCEPT ![s][r] = Saved(@, writes + 1)]

Overwrites(s, r) ==
    IF image[r].version \in object[s][r].known THEN {} ELSE {object[s][r].kind}

\* Mutation: the condition on updated_at is left out.
MutMatches(s, r) == image[r].live

\* The WHERE clause of update() and delete(): id, and updated_at if the object
\* has one.
Matches(s, r) ==
    /\ image[r].live
    /\ object[s][r].updatedAt # NoDate =>
            image[r].updatedAt = Trunc(object[s][r].updatedAt)

\* update() and delete().
SaveChecked(s, r, live) ==
    /\ MaySave(s, r)
    /\ Matches(s, r)
    /\ Save(s, r, live)
    /\ lost' = lost \cup Overwrites(s, r)
    /\ UNCHANGED spurious

\* No row matches: OptimisticLockError if the object has an updated_at, else
\* nothing.  The application may go on or roll back.
SaveRefused(s, r) ==
    /\ MaySave(s, r)
    /\ ~Matches(s, r)
    /\ spurious' = spurious \cup
            IF image[r].live /\ image[r].version \in object[s][r].known
            THEN {object[s][r].kind} ELSE {}
    /\ UNCHANGED <<dbVars, object, lost, faults>>

\* updateMany() and deleteMany(): no condition.  Only a locked read protects.
SaveUnchecked(s, r, live) ==
    /\ MaySave(s, r)
    /\ image[r].live
    /\ Save(s, r, live)
    /\ lost' = lost \cup (Overwrites(s, r) \cap {"locked"})
    /\ UNCHANGED spurious

-----------------------------------------------------------------------------
Next ==
    \E s \in Sessions :
        \/ Begin(s) \/ Commit(s) \/ Rollback(s)
        \/ \E r \in Rows :
            \/ Load(s, r) \/ LoadForUpdate(s, r) \/ Touch(s, r) \/ Create(s, r)
            \/ SaveRefused(s, r)
            \/ \E live \in BOOLEAN : SaveChecked(s, r, live) \/ SaveUnchecked(s, r, live)

Spec == Init /\ [][Next]_vars

-----------------------------------------------------------------------------
(* Properties.                                                              *)

\* Type invariant: only the holder of a lock sees what is not committed.
TypeOK ==
    /\ row \in [Rows -> RowImages] /\ image \in [Rows -> RowImages]
    /\ lock \in [Rows -> Sessions \cup {NoSession}]
    /\ active \subseteq Sessions
    /\ start \in [Sessions -> Times]
    /\ object \in [Sessions -> [Rows -> Objects]]
    /\ clock \in Times /\ clock <= 2 * begun + 1
    /\ begun \in 0 .. MaxTransactions /\ writes \in Versions
    /\ lost \subseteq {"read", "locked", "new"}
    /\ spurious \subseteq {"read", "locked", "new"}
    /\ faults \in FaultSets
    /\ \A r \in Rows :
        /\ lock[r] = NoSession => image[r] = row[r]
        /\ lock[r] # NoSession => lock[r] \in active

Faults(S) == faults \cap S # {}

\* "Include updated_at in the row passed to update(), or as row.updated_at
\* passed to delete()" (README 37-40): an object never overwrites or deletes a
\* version it did not come from, even if the row was deleted and created again
\* and however old the object is -- unless two transactions start within one
\* millisecond or the application sets updatedAt itself; and an object that
\* was created and has no updatedAt is not protected when it is saved again.
NoLostUpdate ==
    /\ ~Faults({"sameMs", "touch"}) => "read" \notin lost
    /\ ~Faults({"resave"}) => "new" \notin lost

\* "the row-level locks held inside the transaction already serialize
\* concurrent writers" (README 52): what was loaded for update is never lost,
\* with update(), updateMany(), delete() and deleteMany() alike.
LockedNeverLost == "locked" \notin lost

\* delete() throws "if the row was concurrently modified since it was read"
\* (base-write.dao.ts 26-29), update() as well: never when the row is as the
\* object knows it -- unless updated_at was written by others with more
\* precision, the object was saved before, or its updatedAt was set.
NoSpuriousConflict == ~Faults({"foreign", "resave", "touch"}) => spurious = {}
=============================================================================
