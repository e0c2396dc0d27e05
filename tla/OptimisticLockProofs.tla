------------------------ MODULE OptimisticLockProofs ------------------------
(***************************************************************************)
(* Proofs about OptimisticLock for any sessions, rows and bounds: types,   *)
(* that what was loaded for update is never lost, and that the check of    *)
(* updated_at prevents lost updates as long as no two transactions start   *)
(* within one millisecond.                                                 *)
(***************************************************************************)
EXTENDS OptimisticLock, TLAPS

(* Arithmetic of the clock.                                                  *)

LEMMA TruncFacts ==
    ASSUME NEW t \in Nat
    PROVE  /\ Trunc(t) \in Nat /\ Trunc(t) <= t /\ t <= Trunc(t) + 1
           /\ Trunc(Trunc(t)) = Trunc(t)
BY DEF Trunc

LEMMA NextFacts ==
    ASSUME NEW t \in Nat
    PROVE  /\ NextMs(t) + 1 \in Nat
           /\ t < NextMs(t) /\ NextMs(t) <= t + 2
           /\ Trunc(NextMs(t) + 1) = NextMs(t)
BY DEF Trunc, NextMs

LEMMA NextBound ==
    ASSUME NEW t \in Nat, NEW n \in Nat, t <= 2 * n + 1
    PROVE  NextMs(t) + 1 <= 2 * (n + 1) + 1
BY DEF Trunc, NextMs

LEMMA TruncTimes ==
    ASSUME NEW t \in Times PROVE Trunc(t) \in Times
<1>1. t \in Nat /\ t <= 2 * MaxTransactions + 1 BY BoundsAssumption DEF Times
<1> QED BY <1>1, TruncFacts, BoundsAssumption DEF Times

-----------------------------------------------------------------------------
(* Types.                                                                   *)

LEMMA ObjectOfType ==
    ASSUME NEW seen \in RowImages, NEW kind \in {"read", "locked"}
    PROVE  ObjectOf(seen, kind) \in Objects
<1>1. Trunc(seen.updatedAt) \in Times BY TruncTimes DEF RowImages
<1> QED BY <1>1 DEF ObjectOf, Objects, RowImages

LEMMA ObjectUpdates ==
    ASSUME NEW o \in Objects
    PROVE  /\ Unlocked(o) \in Objects
           /\ \A v \in Versions : Saved(o, v) \in Objects
<1>1. Unlocked(o) \in Objects BY DEF Objects, Unlocked
<1>2. \A v \in Versions : Saved(o, v) \in Objects BY DEF Objects, Saved
<1> QED BY <1>1, <1>2

\* A new version.
LEMMA WriteTypes ==
    ASSUME TypeOK, NEW s \in Sessions, NEW r \in Rows, NEW live \in BOOLEAN,
           s \in active, lock[r] \in {NoSession, s}, Write(s, r, live)
    PROVE  /\ writes' = writes + 1 /\ writes' \in Versions
           /\ image' \in [Rows -> RowImages]
           /\ lock' \in [Rows -> Sessions \cup {NoSession}]
           /\ \A q \in Rows : /\ lock'[q] = NoSession => image'[q] = row'[q]
                              /\ lock'[q] # NoSession => lock'[q] \in active'
           /\ UNCHANGED <<row, active, start, clock, begun, faults>>
<1>1. Timestamp(s) \in Times BY TruncTimes DEF Timestamp, TypeOK
<1>2. writes + 1 \in Versions BY BoundsAssumption DEF Write, TypeOK, Versions
<1>3. [live |-> live, updatedAt |-> Timestamp(s), version |-> writes + 1] \in RowImages
      BY <1>1, <1>2 DEF RowImages
<1>4. image' \in [Rows -> RowImages] /\ lock' \in [Rows -> Sessions \cup {NoSession}]
      BY <1>3 DEF Write, TypeOK
<1>5. s # NoSession BY SessionsAssumption
<1> QED BY <1>2, <1>4, <1>5 DEF Write, TypeOK

LEMMA EndsTypes ==
    ASSUME TypeOK, NEW s \in Sessions, s \in active, Ends(s)
    PROVE  /\ object' \in [Sessions -> [Rows -> Objects]]
           /\ lock' \in [Rows -> Sessions \cup {NoSession}]
           /\ active' \subseteq Sessions
           /\ \A r \in Rows : lock'[r] # NoSession =>
                lock'[r] = lock[r] /\ lock[r] # s /\ lock'[r] \in active'
           /\ \A r \in Rows : lock'[r] = NoSession => lock[r] \in {NoSession, s}
           /\ UNCHANGED <<start, clock, begun, writes, lost, spurious, faults>>
<1>1. object' \in [Sessions -> [Rows -> Objects]]
      BY ObjectUpdates DEF Ends, TypeOK
<1> QED BY <1>1, SessionsAssumption DEF Ends, TypeOK

LEMMA SaveTypes ==
    ASSUME TypeOK, NEW s \in Sessions, NEW r \in Rows, NEW live \in BOOLEAN,
           MaySave(s, r), Save(s, r, live)
    PROVE  object' \in [Sessions -> [Rows -> Objects]]
<1>1. writes + 1 \in Versions
      BY BoundsAssumption DEF Save, Write, TypeOK, Versions
<1> QED BY <1>1, ObjectUpdates DEF TypeOK, Save

LEMMA TypeInit == ASSUME Init PROVE TypeOK
<1>1. 0 \in Times /\ 1 \in Times /\ 0 \in Versions
      BY BoundsAssumption DEF Times, Versions
<1>2. row \in [Rows -> RowImages] BY <1>1 DEF Init, RowImages
<1>3. NoObject \in Objects BY DEF NoObject, Objects
<1> QED BY <1>1, <1>2, <1>3, BoundsAssumption DEF Init, TypeOK

LEMMA TypeStep ==
    ASSUME TypeOK, [Next]_vars
    PROVE  TypeOK'
<1> USE BoundsAssumption
<1>1. ASSUME NEW s \in Sessions, Begin(s) PROVE TypeOK'
  <2>1. clock' \in Nat /\ clock' <= 2 * (begun + 1) + 1
    <3>1. clock \in Nat /\ begun \in Nat BY DEF TypeOK, Times
    <3> QED BY <1>1, <3>1, NextFacts, NextBound DEF Begin, TypeOK
  <2>2. begun + 1 \in 0 .. MaxTransactions BY <1>1 DEF Begin, TypeOK
  <2>3. clock' \in Times BY <2>1, <2>2 DEF Times
  <2>4. start' \in [Sessions -> Times] BY <1>1, <2>3 DEF Begin, TypeOK
  <2> QED BY <1>1, <2>1, <2>2, <2>3, <2>4 DEF Begin, TypeOK
<1>2. ASSUME NEW s \in Sessions, Commit(s) PROVE TypeOK'
  <2>1. row' \in [Rows -> RowImages] BY <1>2 DEF Commit, TypeOK
  <2>2. \A r \in Rows : lock'[r] = NoSession => image'[r] = row'[r]
        BY <1>2, EndsTypes DEF Commit, TypeOK
  <2> QED BY <1>2, <2>1, <2>2, EndsTypes DEF Commit, TypeOK
<1>3. ASSUME NEW s \in Sessions, Rollback(s) PROVE TypeOK'
  <2>1. image' \in [Rows -> RowImages] BY <1>3 DEF Rollback, TypeOK
  <2>2. \A r \in Rows : lock'[r] = NoSession => image'[r] = row'[r]
        BY <1>3, EndsTypes DEF Rollback, TypeOK
  <2> QED BY <1>3, <2>1, <2>2, EndsTypes DEF Rollback, TypeOK
<1>4. ASSUME NEW s \in Sessions, NEW r \in Rows, Load(s, r) PROVE TypeOK'
  <2>1. object' \in [Sessions -> [Rows -> Objects]]
        BY <1>4, ObjectOfType DEF Load, TypeOK
  <2> QED BY <1>4, <2>1 DEF Load, TypeOK, dbVars
<1>5. ASSUME NEW s \in Sessions, NEW r \in Rows, LoadForUpdate(s, r) PROVE TypeOK'
  <2>1. object' \in [Sessions -> [Rows -> Objects]]
        BY <1>5, ObjectOfType DEF LoadForUpdate, TypeOK
  <2> QED BY <1>5, <2>1, SessionsAssumption DEF LoadForUpdate, CanLock, TypeOK
<1>6. ASSUME NEW s \in Sessions, NEW r \in Rows, Touch(s, r) PROVE TypeOK'
  <2>1. Trunc(clock) \in Times BY TruncTimes DEF TypeOK
  <2>2. \A o \in Objects : Touched(o) \in Objects BY <2>1 DEF Touched, Objects
  <2>3. object' \in [Sessions -> [Rows -> Objects]] BY <1>6, <2>2 DEF Touch, TypeOK
  <2> QED BY <1>6, <2>3 DEF Touch, TypeOK, dbVars
<1>7. ASSUME NEW s \in Sessions, NEW r \in Rows, Create(s, r) PROVE TypeOK'
  <2>1. writes + 1 \in Versions BY <1>7 DEF Create, Write, TypeOK, Versions
  <2>2. [kind |-> "new", updatedAt |-> NoDate, known |-> {writes + 1}, saved |-> TRUE]
            \in Objects
        BY <2>1 DEF Objects
  <2>3. object' \in [Sessions -> [Rows -> Objects]] BY <1>7, <2>2 DEF Create, TypeOK
  <2>4. Write(s, r, TRUE) /\ s \in active /\ lock[r] \in {NoSession, s}
        BY <1>7 DEF Create, CanLock
  <2> QED BY <1>7, <2>3, <2>4, WriteTypes DEF Create, TypeOK
<1>8. ASSUME NEW s \in Sessions, NEW r \in Rows, SaveRefused(s, r) PROVE TypeOK'
  <2>1. object[s][r].kind \in {"read", "locked", "new"}
        BY <1>8 DEF SaveRefused, MaySave, TypeOK, Objects
  <2> QED BY <1>8, <2>1 DEF SaveRefused, TypeOK, dbVars
<1>9. ASSUME NEW s \in Sessions, NEW r \in Rows, NEW live \in BOOLEAN,
             SaveChecked(s, r, live) \/ SaveUnchecked(s, r, live)
      PROVE  TypeOK'
  <2>1. MaySave(s, r) /\ Save(s, r, live) /\ Write(s, r, live)
        /\ s \in active /\ lock[r] \in {NoSession, s} /\ spurious' = spurious
        BY <1>9 DEF SaveChecked, SaveUnchecked, MaySave, CanLock, Save
  <2>2. lost' \subseteq {"read", "locked", "new"}
    <3>1. object[s][r].kind \in {"read", "locked", "new"}
          BY <2>1 DEF MaySave, TypeOK, Objects
    <3> QED BY <1>9, <3>1 DEF SaveChecked, SaveUnchecked, Overwrites, TypeOK
  <2> QED BY <2>1, <2>2, WriteTypes, SaveTypes DEF TypeOK
<1>10. CASE UNCHANGED vars BY <1>10 DEF vars, dbVars, TypeOK
<1> QED BY <1>1, <1>2, <1>3, <1>4, <1>5, <1>6, <1>7, <1>8, <1>9, <1>10 DEF Next

\* Rows, locks and objects keep their types, and nobody but the holder of a
\* lock sees what is not committed.
THEOREM TypeCorrect == Spec => []TypeOK
<1>1. Init => TypeOK BY TypeInit
<1>2. TypeOK /\ [Next]_vars => TypeOK' BY TypeStep
<1> QED BY <1>1, <1>2, PTL DEF Spec

-----------------------------------------------------------------------------
(* What was loaded for update.                                              *)

\* Its row is locked and is as the object knows it.
LockInv ==
    /\ \A s \in Sessions, r \in Rows :
        object[s][r].kind = "locked" =>
            lock[r] = s /\ image[r].version \in object[s][r].known
    /\ "locked" \notin lost

\* Nobody else writes a locked row.
LEMMA WriteLock ==
    ASSUME TypeOK, LockInv, NEW s \in Sessions, NEW r \in Rows, NEW live \in BOOLEAN,
           CanLock(s, r), Write(s, r, live),
           NEW o, object' = [object EXCEPT ![s][r] = o],
           o.kind = "locked" => writes + 1 \in o.known
    PROVE  \A t \in Sessions, q \in Rows :
                object'[t][q].kind = "locked" =>
                    lock'[q] = t /\ image'[q].version \in object'[t][q].known
<1> SUFFICES ASSUME NEW t \in Sessions, NEW q \in Rows, object'[t][q].kind = "locked"
             PROVE  lock'[q] = t /\ image'[q].version \in object'[t][q].known
    OBVIOUS
<1>1. /\ lock' = [lock EXCEPT ![r] = s]
      /\ image' = [image EXCEPT ![r] =
            [live |-> live, updatedAt |-> Timestamp(s), version |-> writes + 1]]
      BY DEF Write
<1>2. CASE q # r
      BY <1>1, <1>2 DEF TypeOK, LockInv
<1>3. CASE q = r /\ t # s
  <2>1. object'[t][q] = object[t][q] BY <1>3 DEF TypeOK
  <2>2. lock[r] = t BY <2>1, <1>3 DEF LockInv
  <2> QED BY <2>2, <1>3, SessionsAssumption DEF CanLock
<1>4. CASE q = r /\ t = s
  <2>1. object'[t][q] = o BY <1>4 DEF TypeOK
  <2> QED BY <1>1, <1>4, <2>1 DEF TypeOK
<1> QED BY <1>2, <1>3, <1>4

LEMMA LockStep ==
    ASSUME TypeOK, LockInv, [Next]_vars
    PROVE  LockInv'
<1>1. ASSUME NEW s \in Sessions, Begin(s) \/ \E r \in Rows : SaveRefused(s, r)
      PROVE  LockInv'
      BY <1>1 DEF Begin, SaveRefused, LockInv, dbVars
<1>2. ASSUME NEW s \in Sessions, Commit(s) \/ Rollback(s) PROVE LockInv'
  <2>1. Ends(s) /\ lost' = lost BY <1>2 DEF Commit, Rollback, Ends
  <2>2. ASSUME NEW t \in Sessions, NEW r \in Rows, object'[t][r].kind = "locked"
        PROVE  lock'[r] = t /\ image'[r].version \in object'[t][r].known
    <3>1. t # s
      <4> SUFFICES ASSUME t = s PROVE FALSE OBVIOUS
      <4>1. object'[t][r] = Unlocked(object[t][r]) BY <2>1 DEF Ends, TypeOK
      <4>2. \A o \in Objects : Unlocked(o).kind # "locked" BY DEF Unlocked, Objects
      <4> QED BY <2>2, <4>1, <4>2 DEF TypeOK
    <3>2. object'[t][r] = object[t][r] BY <2>1, <3>1 DEF Ends, TypeOK
    <3>3. lock[r] = t BY <2>2, <3>2 DEF LockInv
    <3>4. lock'[r] = t /\ image'[r] = image[r]
          BY <1>2, <2>1, <3>1, <3>3 DEF Ends, Commit, Rollback, TypeOK
    <3> QED BY <2>2, <3>2, <3>4 DEF LockInv
  <2> QED BY <2>1, <2>2 DEF LockInv
<1>3. ASSUME NEW s \in Sessions, NEW r \in Rows, Load(s, r) PROVE LockInv'
  <2>1. PICK seen : object' = [object EXCEPT ![s][r] = ObjectOf(seen, "read")]
        BY <1>3 DEF Load
  <2>2. ObjectOf(seen, "read").kind # "locked" BY DEF ObjectOf
  <2>3. \A t \in Sessions, q \in Rows : object'[t][q].kind = "locked" =>
            object'[t][q] = object[t][q]
        BY <2>1, <2>2 DEF TypeOK
  <2> QED BY <1>3, <2>3 DEF Load, LockInv, dbVars
<1>4. ASSUME NEW s \in Sessions, NEW r \in Rows, LoadForUpdate(s, r) PROVE LockInv'
  <2>1. /\ object' = [object EXCEPT ![s][r] = ObjectOf(image[r], "locked")]
        /\ lock' = [lock EXCEPT ![r] = s] /\ image' = image /\ lost' = lost
        /\ lock[r] \in {NoSession, s}
        BY <1>4 DEF LoadForUpdate, CanLock
  <2>2. ASSUME NEW t \in Sessions, NEW q \in Rows, object'[t][q].kind = "locked"
        PROVE  lock'[q] = t /\ image'[q].version \in object'[t][q].known
    <3>1. CASE t = s /\ q = r BY <2>1, <3>1 DEF ObjectOf, TypeOK
    <3>2. CASE ~(t = s /\ q = r)
      <4>1. object'[t][q] = object[t][q] BY <2>1, <3>2 DEF TypeOK
      <4> QED BY <2>1, <2>2, <3>2, <4>1, SessionsAssumption DEF LockInv, TypeOK
    <3> QED BY <3>1, <3>2
  <2> QED BY <2>1, <2>2 DEF LockInv
<1>5. ASSUME NEW s \in Sessions, NEW r \in Rows, Touch(s, r) PROVE LockInv'
  <2>1. \A o \in Objects : Touched(o).kind = o.kind /\ Touched(o).known = o.known
        BY DEF Touched, Objects
  <2>2. \A t \in Sessions, q \in Rows : /\ object'[t][q].kind = object[t][q].kind
                                        /\ object'[t][q].known = object[t][q].known
        BY <1>5, <2>1 DEF Touch, TypeOK
  <2> QED BY <1>5, <2>2 DEF Touch, LockInv, dbVars
<1>6. ASSUME NEW s \in Sessions, NEW r \in Rows, Create(s, r) PROVE LockInv'
  <2> DEFINE o == [kind |-> "new", updatedAt |-> NoDate, known |-> {writes + 1}, saved |-> TRUE]
  <2>1. /\ CanLock(s, r) /\ Write(s, r, TRUE) /\ lost' = lost
        /\ object' = [object EXCEPT ![s][r] = o]
        BY <1>6 DEF Create
  <2>2. o.kind # "locked" OBVIOUS
  <2> HIDE DEF o
  <2> QED BY <2>1, <2>2, WriteLock DEF LockInv
<1>7. ASSUME NEW s \in Sessions, NEW r \in Rows, NEW live \in BOOLEAN,
             SaveChecked(s, r, live) \/ SaveUnchecked(s, r, live)
      PROVE  LockInv'
  <2> DEFINE o == Saved(object[s][r], writes + 1)
  <2>1. /\ CanLock(s, r) /\ Write(s, r, live)
        /\ object' = [object EXCEPT ![s][r] = o]
        BY <1>7 DEF SaveChecked, SaveUnchecked, MaySave, Save
  <2>2. o.kind = "locked" => writes + 1 \in o.known BY DEF Saved
  <2>3. "locked" \notin Overwrites(s, r) BY DEF Overwrites, LockInv
  <2>4. "locked" \notin lost' BY <1>7, <2>3 DEF SaveChecked, SaveUnchecked, LockInv
  <2> HIDE DEF o
  <2>5. \A t \in Sessions, q \in Rows : object'[t][q].kind = "locked" =>
            lock'[q] = t /\ image'[q].version \in object'[t][q].known
        BY <2>1, <2>2, WriteLock
  <2> QED BY <2>4, <2>5 DEF LockInv
<1>8. CASE UNCHANGED vars BY <1>8 DEF vars, dbVars, LockInv
<1> QED BY <1>1, <1>2, <1>3, <1>4, <1>5, <1>6, <1>7, <1>8 DEF Next

\* What was loaded for update is never lost, whatever the clock does, whoever
\* writes updated_at and whichever form saves it.
THEOREM LockedIsSafe == Spec => []LockedNeverLost
<1>1. Init => TypeOK /\ LockInv
  <2> SUFFICES ASSUME Init PROVE LockInv BY TypeInit
  <2> QED BY DEF Init, LockInv, NoObject
<1>2. TypeOK /\ LockInv /\ [Next]_vars => (TypeOK /\ LockInv)' BY TypeStep, LockStep
<1>3. LockInv => LockedNeverLost BY DEF LockInv, LockedNeverLost
<1> QED BY <1>1, <1>2, <1>3, PTL DEF Spec

-----------------------------------------------------------------------------
(* Lost updates.  While no two transactions start within one millisecond    *)
(* and nobody sets updatedAt, updated_at tells the versions of a row apart   *)
(* wherever an object could confuse them.                                    *)

\* A version with o's updated_at is one that o knows.
Fits(v, o) == v.live /\ v.updatedAt = o.updatedAt => v.version \in o.known

SessionStamps ==
    \A s \in active :
        /\ Timestamp(s) <= clock
        /\ \A t \in active : t # s => Timestamp(t) # Timestamp(s)

\* What is committed is not of a transaction that goes on; what its holder sees
\* of a locked row is that or of its transaction.
RowStamps ==
    \A r \in Rows :
        /\ Trunc(row[r].updatedAt) <= clock
        /\ \A t \in active : Trunc(row[r].updatedAt) # Timestamp(t)
        /\ \A t \in Sessions : lock[r] = t =>
                image[r] = row[r] \/ image[r].updatedAt = Timestamp(t)

Stamped(s, r, o) ==
    /\ o.updatedAt <= clock
    /\ \A t \in active : t # s => o.updatedAt # Timestamp(t)
    /\ o.kind \in {"read", "locked"} =>
        /\ o.updatedAt # NoDate /\ Trunc(o.updatedAt) = o.updatedAt
        /\ Fits(row[r], o) /\ Fits(image[r], o)

ObjectStamps == \A s \in Sessions, r \in Rows : Stamped(s, r, object[s][r])

Stamps == SessionStamps /\ RowStamps /\ ObjectStamps

\* The sets of faults under which the stamps hold, and what is known of
\* created objects.
StampInv ==
    /\ ~Faults({"sameMs", "touch"}) => Stamps /\ "read" \notin lost
    /\ \A s \in Sessions, r \in Rows : object[s][r].kind = "new" => object[s][r].saved
    /\ ~Faults({"resave"}) => "new" \notin lost

LEMMA TimeTypes ==
    ASSUME TypeOK
    PROVE  /\ clock \in Nat
           /\ \A s \in Sessions : start[s] \in Nat /\ Timestamp(s) \in Nat
                                  /\ Trunc(Timestamp(s)) = Timestamp(s)
           /\ \A r \in Rows :
                /\ row[r].updatedAt \in Nat /\ Trunc(row[r].updatedAt) \in Nat
                /\ image[r].updatedAt \in Nat /\ Trunc(image[r].updatedAt) \in Nat
           /\ \A s \in Sessions, r \in Rows : object[s][r].updatedAt \in Nat \cup {NoDate}
<1>1. Times \subseteq Nat BY BoundsAssumption DEF Times
<1>2. clock \in Nat /\ \A s \in Sessions : start[s] \in Nat BY <1>1 DEF TypeOK
<1>3. \A r \in Rows : row[r].updatedAt \in Nat /\ image[r].updatedAt \in Nat
      BY <1>1 DEF TypeOK, RowImages
<1>4. \A s \in Sessions, r \in Rows : object[s][r].updatedAt \in Nat \cup {NoDate}
      BY <1>1 DEF TypeOK, Objects
<1> QED BY <1>2, <1>3, <1>4, TruncFacts DEF Timestamp

\* The object that a load makes, from the row or from what its holder sees.
LEMMA LoadStamped ==
    ASSUME TypeOK, Stamps, NEW s \in Sessions, NEW r \in Rows,
           NEW kind \in {"read", "locked"}, NEW seen,
           seen = row[r] \/ (seen = image[r] /\ lock[r] \in {NoSession, s}),
           lock[r] = NoSession => image[r] = row[r],
           s \in active \/ seen = row[r]
    PROVE  Stamped(s, r, ObjectOf(seen, kind))
<1> DEFINE o == ObjectOf(seen, kind)
<1>1. o.kind = kind /\ o.updatedAt = Trunc(seen.updatedAt) /\ o.known = {seen.version}
      BY DEF ObjectOf
<1>2. \/ seen = row[r]
      \/ seen = image[r] /\ lock[r] = s /\ s \in active /\ seen.updatedAt = Timestamp(s)
      BY DEF Stamps, RowStamps
<1>3. Trunc(seen.updatedAt) \in Nat /\ Trunc(Trunc(seen.updatedAt)) = Trunc(seen.updatedAt)
      BY <1>2, TimeTypes, TruncFacts
<1>4. o.updatedAt <= clock
      BY <1>1, <1>2, TimeTypes DEF Stamps, RowStamps, SessionStamps
<1>5. \A t \in active : t # s => Trunc(seen.updatedAt) # Timestamp(t)
  <2>1. CASE seen = row[r] BY <2>1 DEF Stamps, RowStamps
  <2>2. CASE s \in active /\ seen.updatedAt = Timestamp(s)
    <3>1. Trunc(seen.updatedAt) = Timestamp(s) BY <2>2, TimeTypes
    <3> QED BY <2>2, <3>1 DEF Stamps, SessionStamps
  <2> QED BY <1>2, <2>1, <2>2
<1>6. Fits(row[r], o)
  <2>1. CASE seen = row[r] BY <1>1, <2>1 DEF Fits
  <2>2. CASE seen = image[r] /\ s \in active /\ seen.updatedAt = Timestamp(s)
    <3>1. Trunc(seen.updatedAt) = Timestamp(s) BY <2>2, TimeTypes
    <3>2. row[r].updatedAt # Timestamp(s)
          BY <2>2, TimeTypes DEF Stamps, RowStamps
    <3> QED BY <1>1, <3>1, <3>2 DEF Fits
  <2> QED BY <1>2, <2>1, <2>2
<1>7. Fits(image[r], o)
  <2>1. CASE seen = image[r] BY <1>1, <2>1 DEF Fits
  <2>2. CASE seen = row[r] /\ image[r] # row[r]
    <3>1. lock[r] \in Sessions BY <2>2 DEF TypeOK
    <3>2. image[r].updatedAt = Timestamp(lock[r]) /\ lock[r] \in active
          BY <2>2, <3>1, SessionsAssumption DEF Stamps, RowStamps, TypeOK
    <3>3. Trunc(row[r].updatedAt) # Timestamp(lock[r])
          BY <3>2 DEF Stamps, RowStamps
    <3> QED BY <1>1, <2>2, <3>2, <3>3 DEF Fits
  <2> QED BY <1>2, <2>1, <2>2
<1>8. o.updatedAt # NoDate BY <1>1, <1>3 DEF NoDate
<1> HIDE DEF o
<1> QED BY <1>1, <1>3, <1>4, <1>5, <1>6, <1>7, <1>8 DEF Stamped, o

\* A new version carries the time of its transaction, which no object of
\* another session has.
LEMMA WriteStamps ==
    ASSUME TypeOK, Stamps, NEW s \in Sessions, NEW r \in Rows, NEW live \in BOOLEAN,
           CanLock(s, r), Write(s, r, live),
           NEW o, object' = [object EXCEPT ![s][r] = o],
           o.updatedAt = NoDate \/ o.updatedAt = object[s][r].updatedAt,
           writes + 1 \in o.known,
           o.kind \in {"read", "locked"} => /\ o.kind = object[s][r].kind
                                            /\ o.updatedAt = object[s][r].updatedAt
                                            /\ object[s][r].known \subseteq o.known
    PROVE  Stamps'
<1>1. /\ lock' = [lock EXCEPT ![r] = s]
      /\ image' = [image EXCEPT ![r] =
            [live |-> live, updatedAt |-> Timestamp(s), version |-> writes + 1]]
      /\ row' = row /\ active' = active /\ start' = start /\ clock' = clock
      BY DEF Write
<1>2. /\ \A q \in Rows : q # r => image'[q] = image[q] /\ lock'[q] = lock[q]
      /\ image'[r].updatedAt = Timestamp(s) /\ image'[r].version = writes + 1
      /\ lock'[r] = s
      BY <1>1 DEF TypeOK
<1>3. \A t \in Sessions : Timestamp(t)' = Timestamp(t) BY <1>1 DEF Timestamp
<1>4. SessionStamps' BY <1>1, <1>3 DEF Stamps, SessionStamps, TypeOK
<1>5. RowStamps' BY <1>1, <1>2, <1>3 DEF Stamps, RowStamps, TypeOK
<1>6. ASSUME NEW t \in Sessions, NEW q \in Rows
      PROVE  Stamped(t, q, object[t][q])' \/ (t = s /\ q = r)
  <2> SUFFICES ASSUME ~(t = s /\ q = r) PROVE Stamped(t, q, object[t][q])' OBVIOUS
  <2>1. object'[t][q] = object[t][q] BY DEF TypeOK
  <2>2. Stamped(t, q, object[t][q]) BY DEF Stamps, ObjectStamps
  <2>3. q = r => object[t][q].updatedAt # Timestamp(s)
        BY <2>2 DEF Stamped, CanLock
  <2>4. Fits(image[q], object[t][q]) => Fits(image'[q], object[t][q])
        BY <1>2, <2>3 DEF Fits
  <2> QED BY <1>1, <1>3, <2>1, <2>2, <2>4 DEF Stamped, Fits, TypeOK
<1>7. Stamped(s, r, object[s][r])'
  <2>1. object'[s][r] = o BY DEF TypeOK
  <2>2. Stamped(s, r, object[s][r]) BY DEF Stamps, ObjectStamps
  <2>3. o.updatedAt <= clock BY <2>2, TimeTypes DEF Stamped, NoDate
  <2>4. \A t \in active : t # s => o.updatedAt # Timestamp(t)
        BY <2>2, TimeTypes DEF Stamped, NoDate, TypeOK
  <2>5. o.kind \in {"read", "locked"} =>
            /\ o.updatedAt # NoDate /\ Trunc(o.updatedAt) = o.updatedAt
            /\ Fits(row[r], o) /\ Fits(image'[r], o)
        BY <1>2, <2>2 DEF Stamped, Fits
  <2> QED BY <1>1, <1>3, <2>1, <2>3, <2>4, <2>5 DEF Stamped, Fits, TypeOK
<1>8. ObjectStamps' BY <1>6, <1>7 DEF ObjectStamps
<1> QED BY <1>4, <1>5, <1>8 DEF Stamps

\* A transaction starts later than whatever has been stamped.
LEMMA BeginStamps ==
    ASSUME TypeOK, Stamps, NEW s \in Sessions, Begin(s), "sameMs" \notin faults
    PROVE  Stamps'
<1>1. /\ clock' = NextMs(clock) + 1 /\ start' = [start EXCEPT ![s] = clock']
      /\ active' = active \cup {s} /\ s \notin active
      /\ UNCHANGED <<row, image, lock, object>>
      BY DEF Begin
<1>2. /\ Timestamp(s)' = NextMs(clock)
      /\ \A t \in Sessions : t # s => Timestamp(t)' = Timestamp(t)
      BY <1>1, TimeTypes, NextFacts DEF Timestamp, TypeOK
<1>3. NextMs(clock) \in Int /\ clock \in Int /\ clock < NextMs(clock)
      /\ clock' \in Int /\ NextMs(clock) <= clock'
      BY <1>1, TimeTypes, NextFacts DEF NextMs, Trunc
<1>4. \A t \in active : t \in Sessions /\ t # s BY <1>1 DEF TypeOK
<1>5. SessionStamps'
  <2>1. Timestamp(s)' <= clock' BY <1>2, <1>3
  <2>2. ASSUME NEW t \in active
        PROVE  Timestamp(t)' <= clock' /\ Timestamp(t)' # Timestamp(s)'
    <3>1. Timestamp(t)' = Timestamp(t) /\ Timestamp(t) <= clock /\ Timestamp(t) \in Nat
          BY <1>2, <1>4, TimeTypes DEF Stamps, SessionStamps
    <3> QED BY <1>2, <1>3, <3>1
  <2>3. \A t, u \in active : t # u => Timestamp(t)' # Timestamp(u)'
        BY <1>2, <1>4 DEF Stamps, SessionStamps
  <2> QED BY <1>1, <2>1, <2>2, <2>3 DEF SessionStamps
<1>6. RowStamps'
  <2>1. ASSUME NEW r \in Rows
        PROVE  /\ Trunc(row[r].updatedAt) <= clock'
               /\ Trunc(row[r].updatedAt) # NextMs(clock)
        BY <1>3, TimeTypes DEF Stamps, RowStamps
  <2>2. \A r \in Rows, t \in Sessions : lock[r] = t => t # s
        BY <1>1, SessionsAssumption DEF TypeOK
  <2>3. \A r \in Rows, t \in active' : Trunc(row[r].updatedAt) # Timestamp(t)'
        BY <1>1, <1>2, <1>4, <2>1 DEF Stamps, RowStamps
  <2>4. \A r \in Rows, t \in Sessions : lock[r] = t =>
            image[r] = row[r] \/ image[r].updatedAt = Timestamp(t)'
        BY <1>2, <2>2 DEF Stamps, RowStamps
  <2> QED BY <1>1, <2>1, <2>3, <2>4 DEF RowStamps
<1>7. ASSUME NEW t \in Sessions, NEW r \in Rows PROVE Stamped(t, r, object[t][r])'
  <2>1. Stamped(t, r, object[t][r]) BY DEF Stamps, ObjectStamps
  <2>2. object[t][r].updatedAt <= clock' /\ object[t][r].updatedAt # NextMs(clock)
        BY <1>3, <2>1, TimeTypes DEF Stamped, NoDate
  <2>3. \A u \in active' : u # t => object[t][r].updatedAt # Timestamp(u)'
        BY <1>1, <1>2, <1>4, <2>1, <2>2 DEF Stamped
  <2>4. object[t][r].kind \in {"read", "locked"} =>
            /\ object[t][r].updatedAt # NoDate
            /\ Trunc(object[t][r].updatedAt) = object[t][r].updatedAt
            /\ Fits(row[r], object[t][r]) /\ Fits(image[r], object[t][r])
        BY <2>1 DEF Stamped
  <2> QED BY <1>1, <2>2, <2>3, <2>4 DEF Stamped, Fits
<1>8. ObjectStamps' BY <1>7 DEF ObjectStamps
<1> QED BY <1>5, <1>6, <1>8 DEF Stamps

\* The end of a transaction: what it wrote is committed or forgotten.
LEMMA EndStamps ==
    ASSUME TypeOK, Stamps, NEW s \in Sessions, Commit(s) \/ Rollback(s)
    PROVE  Stamps'
<1>1. /\ active' = active \ {s} /\ start' = start /\ clock' = clock
      /\ lock' = [r \in Rows |-> IF lock[r] = s THEN NoSession ELSE lock[r]]
      /\ object' = [object EXCEPT ![s] = [r \in Rows |-> Unlocked(object[s][r])]]
      /\ s \in active
      BY DEF Commit, Rollback, Ends
<1>2. \A t \in Sessions : Timestamp(t)' = Timestamp(t) BY <1>1 DEF Timestamp
<1>3. SessionStamps' BY <1>1, <1>2 DEF Stamps, SessionStamps, TypeOK
<1>4. \A r \in Rows : /\ row'[r] \in {row[r], image[r]} /\ image'[r] \in {row[r], image[r]}
                      /\ lock[r] # s => row'[r] = row[r] /\ image'[r] = image[r]
                      /\ lock[r] = s => row'[r] = image'[r]
      BY DEF Commit, Rollback, TypeOK
<1>5. ASSUME NEW r \in Rows
      PROVE  /\ Trunc(row'[r].updatedAt) <= clock
             /\ \A t \in active' : Trunc(row'[r].updatedAt) # Timestamp(t)
  <2>1. CASE row'[r] = row[r] BY <1>1, <2>1 DEF Stamps, RowStamps
  <2>2. CASE lock[r] = s /\ row'[r] = image[r] /\ image[r].updatedAt = Timestamp(s)
    <3>1. Trunc(row'[r].updatedAt) = Timestamp(s) BY <2>2, TimeTypes
    <3> QED BY <1>1, <3>1 DEF Stamps, SessionStamps
  <2>3. lock[r] = s => image[r] = row[r] \/ image[r].updatedAt = Timestamp(s)
        BY DEF Stamps, RowStamps
  <2> QED BY <1>4, <2>1, <2>2, <2>3
<1>6. ASSUME NEW r \in Rows, NEW t \in Sessions, lock'[r] = t
      PROVE  image'[r] = row'[r] \/ image'[r].updatedAt = Timestamp(t)
  <2>1. lock[r] = t /\ t # s BY <1>1, <1>6, SessionsAssumption DEF TypeOK
  <2> QED BY <1>4, <2>1 DEF Stamps, RowStamps
<1>7. RowStamps'
      BY <1>1, <1>2, <1>5, <1>6 DEF RowStamps, TypeOK
<1>8. ASSUME NEW t \in Sessions, NEW r \in Rows
      PROVE  Stamped(t, r, object[t][r])'
  <2>1. Stamped(t, r, object[t][r]) BY DEF Stamps, ObjectStamps
  <2>2. /\ object'[t][r].updatedAt = object[t][r].updatedAt
        /\ object'[t][r].known = object[t][r].known
        /\ object'[t][r].kind \in {"read", "locked"} =>
                object[t][r].kind \in {"read", "locked"}
    <3>1. object'[t][r] = IF t = s THEN Unlocked(object[t][r]) ELSE object[t][r]
          BY <1>1 DEF TypeOK
    <3>2. \A o \in Objects : /\ Unlocked(o).updatedAt = o.updatedAt
                             /\ Unlocked(o).known = o.known
                             /\ Unlocked(o).kind \in {"read", "locked"} =>
                                    o.kind \in {"read", "locked"}
          BY DEF Unlocked, Objects
    <3> QED BY <3>1, <3>2 DEF TypeOK
  <2>3. Fits(row[r], object[t][r]) /\ Fits(image[r], object[t][r]) =>
            Fits(row'[r], object'[t][r]) /\ Fits(image'[r], object'[t][r])
        BY <1>4, <2>2 DEF Fits
  <2> QED BY <1>1, <1>2, <2>1, <2>2, <2>3 DEF Stamped, Fits, TypeOK
<1>9. ObjectStamps' BY <1>8 DEF ObjectStamps
<1> QED BY <1>3, <1>7, <1>9 DEF Stamps

LEMMA LoadStamps ==
    ASSUME TypeOK, Stamps, NEW s \in Sessions, NEW r \in Rows,
           Load(s, r) \/ LoadForUpdate(s, r)
    PROVE  Stamps'
<1>1. PICK seen \in RowImages, kind \in {"read", "locked"} :
        /\ object' = [object EXCEPT ![s][r] = ObjectOf(seen, kind)]
        /\ seen = row[r] \/ (seen = image[r] /\ lock[r] \in {NoSession, s})
        /\ s \in active \/ seen = row[r]
  <2>1. CASE Load(s, r)
    <3>1. lock[r] = s => s \in active BY SessionsAssumption DEF TypeOK
    <3> QED BY <2>1, <3>1 DEF Load, TypeOK
  <2>2. CASE LoadForUpdate(s, r) BY <2>2 DEF LoadForUpdate, CanLock, TypeOK
  <2> QED BY <2>1, <2>2
<1>2. /\ row' = row /\ image' = image /\ active' = active /\ start' = start
      /\ clock' = clock
      BY DEF Load, LoadForUpdate, dbVars
<1>3. \A t \in Sessions : Timestamp(t)' = Timestamp(t) BY <1>2 DEF Timestamp
<1>4. SessionStamps' BY <1>2, <1>3 DEF Stamps, SessionStamps, TypeOK
<1>5. ASSUME NEW q \in Rows, NEW t \in Sessions, lock'[q] = t
      PROVE  image[q] = row[q] \/ image[q].updatedAt = Timestamp(t)
  <2>1. lock[q] \in {NoSession, t}
        BY <1>5 DEF Load, LoadForUpdate, CanLock, dbVars, TypeOK
  <2> QED BY <2>1 DEF Stamps, RowStamps, TypeOK
<1>6. RowStamps' BY <1>2, <1>3, <1>5 DEF Stamps, RowStamps, TypeOK
<1>7. ASSUME NEW t \in Sessions, NEW q \in Rows PROVE Stamped(t, q, object'[t][q])
  <2>1. CASE t = s /\ q = r
    <3>1. object'[t][q] = ObjectOf(seen, kind) BY <1>1, <2>1 DEF TypeOK
    <3>2. lock[r] = NoSession => image[r] = row[r] BY DEF TypeOK
    <3> QED BY <1>1, <2>1, <3>1, <3>2, LoadStamped
  <2>2. CASE ~(t = s /\ q = r)
    <3>1. object'[t][q] = object[t][q] BY <1>1, <2>2 DEF TypeOK
    <3> QED BY <3>1 DEF Stamps, ObjectStamps
  <2> QED BY <2>1, <2>2
<1>8. ObjectStamps'
      BY <1>2, <1>3, <1>7 DEF ObjectStamps, Stamped, Fits, TypeOK
<1> QED BY <1>4, <1>6, <1>8 DEF Stamps

\* What the steps that save an object do to it, and why they lose nothing.
LEMMA SaveStep ==
    ASSUME TypeOK, StampInv, NEW s \in Sessions, NEW r \in Rows, NEW live \in BOOLEAN,
           SaveChecked(s, r, live) \/ SaveUnchecked(s, r, live)
    PROVE  StampInv'
<1> DEFINE o == Saved(object[s][r], writes + 1)
<1>1. /\ MaySave(s, r) /\ CanLock(s, r) /\ Write(s, r, live) /\ faults' = faults
      /\ object' = [object EXCEPT ![s][r] = o]
      BY DEF SaveChecked, SaveUnchecked, MaySave, Save, Write
<1>2. /\ o.kind = object[s][r].kind /\ o.updatedAt = object[s][r].updatedAt
      /\ o.known = object[s][r].known \cup {writes + 1} /\ o.saved
      BY DEF Saved
<1> HIDE DEF o
<1>3. ~Faults({"sameMs", "touch"}) => Stamps'
      BY <1>1, <1>2, WriteStamps DEF StampInv
<1>4. SaveChecked(s, r, live) \/ lost' \subseteq lost \cup {"locked"}
      BY DEF SaveUnchecked
<1>5. ~Faults({"sameMs", "touch"}) => "read" \notin lost'
  <2> SUFFICES ASSUME ~Faults({"sameMs", "touch"}), SaveChecked(s, r, live),
                      object[s][r].kind = "read"
               PROVE  "read" \notin lost'
      BY <1>4 DEF StampInv, SaveChecked, Overwrites
  <2>1. Matches(s, r) /\ lost' = lost \cup Overwrites(s, r) BY DEF SaveChecked
  <2>2. Stamped(s, r, object[s][r]) BY DEF StampInv, Stamps, ObjectStamps
  <2>3. image[r].version \in object[s][r].known
        BY <2>1, <2>2 DEF Matches, Stamped, Fits
  <2> QED BY <2>1, <2>3 DEF StampInv, Overwrites
<1>6. ~Faults({"resave"}) => "new" \notin lost'
  <2>1. object[s][r].kind = "new" => Faults({"resave"})
        BY <1>1 DEF MaySave, StampInv, Faults
  <2> QED BY <1>4, <2>1 DEF SaveChecked, Overwrites, StampInv
<1>7. ASSUME NEW t \in Sessions, NEW q \in Rows, object'[t][q].kind = "new"
      PROVE  object'[t][q].saved
  <2>1. object'[t][q] = IF t = s /\ q = r THEN o ELSE object[t][q] BY <1>1 DEF TypeOK
  <2> QED BY <1>2, <1>7, <2>1 DEF StampInv
<1> QED BY <1>1, <1>3, <1>5, <1>6, <1>7 DEF StampInv, Faults

LEMMA StampStep ==
    ASSUME TypeOK, StampInv, [Next]_vars
    PROVE  StampInv'
<1>1. ASSUME NEW s \in Sessions, Begin(s) PROVE StampInv'
  <2>1. "sameMs" \notin faults => (Stamps => Stamps') BY <1>1, BeginStamps
  <2> QED BY <1>1, <2>1 DEF Begin, StampInv, Faults
<1>2. ASSUME NEW s \in Sessions, Commit(s) \/ Rollback(s) PROVE StampInv'
  <2>1. Stamps => Stamps' BY <1>2, EndStamps
  <2>2. faults' = faults /\ lost' = lost BY <1>2 DEF Commit, Rollback, Ends
  <2>3. ASSUME NEW t \in Sessions, NEW q \in Rows, object'[t][q].kind = "new"
        PROVE  object'[t][q].saved
    <3>1. object'[t][q] = IF t = s THEN Unlocked(object[t][q]) ELSE object[t][q]
          BY <1>2 DEF Commit, Rollback, Ends, TypeOK
    <3>2. \A o \in Objects : /\ Unlocked(o).saved = o.saved
                             /\ Unlocked(o).kind = "new" => o.kind = "new"
          BY DEF Unlocked, Objects
    <3> QED BY <2>3, <3>1, <3>2 DEF StampInv, TypeOK
  <2> QED BY <2>1, <2>2, <2>3 DEF StampInv, Faults
<1>3. ASSUME NEW s \in Sessions, NEW r \in Rows, Load(s, r) \/ LoadForUpdate(s, r)
      PROVE  StampInv'
  <2>1. Stamps => Stamps' BY <1>3, LoadStamps
  <2>2. faults' = faults /\ lost' = lost BY <1>3 DEF Load, LoadForUpdate
  <2>3. PICK seen \in RowImages, kind \in {"read", "locked"} :
            object' = [object EXCEPT ![s][r] = ObjectOf(seen, kind)]
        BY <1>3 DEF Load, LoadForUpdate, TypeOK
  <2>4. ObjectOf(seen, kind).kind # "new" BY DEF ObjectOf
  <2>5. \A t \in Sessions, q \in Rows : object'[t][q].kind = "new" =>
            object'[t][q] = object[t][q]
        BY <2>3, <2>4 DEF TypeOK
  <2> QED BY <2>1, <2>2, <2>5 DEF StampInv, Faults
<1>4. ASSUME NEW s \in Sessions, NEW r \in Rows, Touch(s, r) PROVE StampInv'
  <2>1. \A o \in Objects : Touched(o).kind = o.kind /\ Touched(o).saved = o.saved
        BY DEF Touched, Objects
  <2>2. \A t \in Sessions, q \in Rows : /\ object'[t][q].kind = object[t][q].kind
                                        /\ object'[t][q].saved = object[t][q].saved
        BY <1>4, <2>1 DEF Touch, TypeOK
  <2> QED BY <1>4, <2>2 DEF Touch, StampInv, Faults
<1>5. ASSUME NEW s \in Sessions, NEW r \in Rows, Create(s, r) PROVE StampInv'
  <2> DEFINE o == [kind |-> "new", updatedAt |-> NoDate, known |-> {writes + 1}, saved |-> TRUE]
  <2>1. /\ CanLock(s, r) /\ Write(s, r, TRUE) /\ lost' = lost /\ faults' = faults
        /\ object' = [object EXCEPT ![s][r] = o]
        BY <1>5 DEF Create, Write
  <2>2. o.kind = "new" /\ o.updatedAt = NoDate /\ writes + 1 \in o.known /\ o.saved
        OBVIOUS
  <2> HIDE DEF o
  <2>3. Stamps => Stamps' BY <2>1, <2>2, WriteStamps
  <2>4. \A t \in Sessions, q \in Rows :
            object'[t][q] = IF t = s /\ q = r THEN o ELSE object[t][q]
        BY <2>1 DEF TypeOK
  <2> QED BY <2>1, <2>2, <2>3, <2>4 DEF StampInv, Faults
<1>6. ASSUME NEW s \in Sessions, NEW r \in Rows,
             SaveRefused(s, r) \/ \E live \in BOOLEAN :
                SaveChecked(s, r, live) \/ SaveUnchecked(s, r, live)
      PROVE  StampInv'
  <2>1. CASE SaveRefused(s, r)
    <3>1. UNCHANGED <<dbVars, object, lost, faults>> BY <2>1 DEF SaveRefused
    <3>2. Stamps => Stamps'
          BY <3>1 DEF dbVars, Stamps, SessionStamps, RowStamps, ObjectStamps, Stamped,
                      Fits, Timestamp
    <3> QED BY <3>1, <3>2 DEF StampInv, Faults
  <2> QED BY <1>6, <2>1, SaveStep
<1>7. CASE UNCHANGED vars
  <2>1. Stamps => Stamps'
        BY <1>7 DEF vars, dbVars, Stamps, SessionStamps, RowStamps, ObjectStamps, Stamped,
                    Fits, Timestamp
  <2> QED BY <1>7, <2>1 DEF vars, StampInv, Faults
<1> QED BY <1>1, <1>2, <1>3, <1>4, <1>5, <1>6, <1>7 DEF Next

\* No version that an object did not come from is overwritten or deleted by it:
\* the check of updated_at suffices while no two transactions start within one
\* millisecond and nobody sets updatedAt, also for rows deleted and created
\* again, for foreign stamps and for objects saved many times.
THEOREM UpdatesAreNotLost == Spec => []NoLostUpdate
<1>1. Init => TypeOK /\ StampInv
  <2> SUFFICES ASSUME Init PROVE StampInv BY TypeInit
  <2>1. SessionStamps /\ lost = {} BY DEF Init, SessionStamps
  <2>2. RowStamps
    <3>1. \A r \in Rows : row[r].updatedAt \in {0, 1} /\ image[r] = row[r] BY DEF Init
    <3>2. Trunc(0) = 0 /\ Trunc(1) = 0 BY DEF Trunc
    <3> QED BY <3>1, <3>2 DEF Init, RowStamps
  <2>3. \A s \in Sessions, r \in Rows :
            object[s][r].kind = "none" /\ object[s][r].updatedAt = NoDate
        BY DEF Init, NoObject
  <2>4. ObjectStamps BY <2>3 DEF Init, ObjectStamps, Stamped, NoDate
  <2> QED BY <2>1, <2>2, <2>3, <2>4 DEF StampInv, Stamps
<1>2. TypeOK /\ StampInv /\ [Next]_vars => (TypeOK /\ StampInv)' BY TypeStep, StampStep
<1>3. StampInv => NoLostUpdate BY DEF StampInv, NoLostUpdate
<1> QED BY <1>1, <1>2, <1>3, PTL DEF Spec

-----------------------------------------------------------------------------
(* Spurious conflicts.  While stamps have no microseconds, objects are saved  *)
(* once and nobody sets updatedAt, a version tells its updated_at.            *)

\* If o came from v, it has its updated_at.
Agrees(v, o) == v.version \in o.known => v.updatedAt = o.updatedAt

\* A version is one image of its row, and numbers of versions are not used again, also
\* after a rollback.
VersionInv ==
    /\ \A r \in Rows : /\ row[r].version <= writes /\ image[r].version <= writes
                       /\ row[r].version = image[r].version => row[r] = image[r]
    /\ \A s \in Sessions, r \in Rows : \A v \in object[s][r].known : v <= writes

\* Stamps are whole, and what an object that may be saved knows of its row is true.
Exact ==
    /\ \A r \in Rows : /\ Trunc(row[r].updatedAt) = row[r].updatedAt
                       /\ Trunc(image[r].updatedAt) = image[r].updatedAt
    /\ \A s \in Sessions, r \in Rows :
        ~object[s][r].saved =>
            Agrees(row[r], object[s][r]) /\ Agrees(image[r], object[s][r])

ExactInv ==
    /\ VersionInv
    /\ ~Faults({"foreign", "resave", "touch"}) => Exact /\ spurious = {}

LEMMA ExactInit == ASSUME Init PROVE ExactInv
<1>1. \A s \in Sessions, r \in Rows : object[s][r].known = {}
      BY DEF Init, NoObject
<1>2. VersionInv BY <1>1 DEF Init, VersionInv
<1>3. ASSUME ~Faults({"foreign", "resave", "touch"}) PROVE Exact
  <2>1. \A r \in Rows : row[r].updatedAt = 0 /\ image[r] = row[r]
        BY <1>3 DEF Init, Faults
  <2>2. Trunc(0) = 0 BY DEF Trunc
  <2> QED BY <1>1, <2>1, <2>2 DEF Exact, Agrees
<1> QED BY <1>2, <1>3 DEF ExactInv, Init

\* A new version is known to the object that wrote it only, which is saved.
LEMMA WriteExact ==
    ASSUME TypeOK, ExactInv, NEW s \in Sessions, NEW r \in Rows, NEW live \in BOOLEAN,
           CanLock(s, r), Write(s, r, live),
           NEW o, object' = [object EXCEPT ![s][r] = o],
           o.saved, \A v \in o.known : v <= writes + 1,
           spurious' = spurious
    PROVE  ExactInv'
<1>1. /\ writes \in Nat /\ writes' = writes + 1 /\ row' = row /\ faults' = faults
      /\ \A q \in Rows : q # r => image'[q] = image[q]
      /\ image'[r].updatedAt = Timestamp(s) /\ image'[r].version = writes + 1
      BY BoundsAssumption DEF Write, TypeOK, Versions
<1>2. \A t \in Sessions, q \in Rows :
            object'[t][q] = IF t = s /\ q = r THEN o ELSE object[t][q]
      BY DEF TypeOK
<1>3. VersionInv BY DEF ExactInv
<1>4. /\ \A q \in Rows : row[q].version \in Nat /\ image[q].version \in Nat
      /\ \A t \in Sessions, q \in Rows : object[t][q].known \subseteq Nat
      BY BoundsAssumption DEF TypeOK, RowImages, Objects, Versions
<1>5. VersionInv'
  <2>1. ASSUME NEW q \in Rows
        PROVE  /\ row'[q].version <= writes' /\ image'[q].version <= writes'
               /\ row'[q].version = image'[q].version => row'[q] = image'[q]
        BY <1>1, <1>3, <1>4 DEF VersionInv
  <2>2. ASSUME NEW t \in Sessions, NEW q \in Rows, NEW v \in object'[t][q].known
        PROVE  v <= writes'
    <3>1. CASE t = s /\ q = r BY <1>1, <1>2, <2>2, <3>1
    <3>2. CASE ~(t = s /\ q = r)
      <4>1. v \in object[t][q].known BY <1>2, <2>2, <3>2
      <4> QED BY <1>1, <1>3, <1>4, <4>1 DEF VersionInv
    <3> QED BY <3>1, <3>2
  <2> QED BY <2>1, <2>2 DEF VersionInv
<1>6. ASSUME Exact PROVE Exact'
  <2>1. \A q \in Rows : /\ Trunc(row'[q].updatedAt) = row'[q].updatedAt
                        /\ Trunc(image'[q].updatedAt) = image'[q].updatedAt
        BY <1>1, <1>6, TimeTypes DEF Exact
  <2>2. ASSUME NEW t \in Sessions, NEW q \in Rows, ~object'[t][q].saved
        PROVE  Agrees(row'[q], object'[t][q]) /\ Agrees(image'[q], object'[t][q])
    <3>1. object'[t][q] = object[t][q] /\ ~object[t][q].saved BY <1>2, <2>2
    <3>2. Agrees(row[q], object[t][q]) /\ Agrees(image[q], object[t][q])
          BY <1>6, <3>1 DEF Exact
    <3>3. writes + 1 \notin object[t][q].known BY <1>1, <1>3, <1>4 DEF VersionInv
    <3> QED BY <1>1, <3>1, <3>2, <3>3 DEF Agrees
  <2> QED BY <2>1, <2>2 DEF Exact
<1> QED BY <1>1, <1>5, <1>6 DEF ExactInv, Faults

\* An object is as it was read or has been saved, and a save that is refused is justified.
LEMMA ExactStep ==
    ASSUME TypeOK, ExactInv, [Next]_vars
    PROVE  ExactInv'
<1>1. ASSUME UNCHANGED <<row, image, object, writes, spurious, faults>> PROVE ExactInv'
      BY <1>1 DEF ExactInv, VersionInv, Exact, Agrees, Faults
<1>2. ASSUME NEW s \in Sessions, Begin(s) PROVE ExactInv'
      BY <1>1, <1>2 DEF Begin
<1>3. ASSUME NEW s \in Sessions, Commit(s) \/ Rollback(s) PROVE ExactInv'
  <2>1. /\ object' = [object EXCEPT ![s] = [r \in Rows |-> Unlocked(object[s][r])]]
        /\ UNCHANGED <<writes, spurious, faults>>
        BY <1>3 DEF Commit, Rollback, Ends
  <2>2. \A r \in Rows : /\ row'[r] \in {row[r], image[r]} /\ image'[r] \in {row[r], image[r]}
        BY <1>3 DEF Commit, Rollback, TypeOK
  <2>3. ASSUME NEW t \in Sessions, NEW r \in Rows
        PROVE  /\ object'[t][r].updatedAt = object[t][r].updatedAt
               /\ object'[t][r].known = object[t][r].known
               /\ object'[t][r].saved = object[t][r].saved
    <3>1. object'[t][r] = IF t = s THEN Unlocked(object[t][r]) ELSE object[t][r]
          BY <2>1 DEF TypeOK
    <3>2. \A o \in Objects : /\ Unlocked(o).updatedAt = o.updatedAt
                             /\ Unlocked(o).known = o.known
                             /\ Unlocked(o).saved = o.saved
          BY DEF Unlocked, Objects
    <3> QED BY <3>1, <3>2 DEF TypeOK
  <2>4. VersionInv' BY <2>1, <2>2, <2>3 DEF ExactInv, VersionInv
  <2>5. Exact => Exact' BY <2>1, <2>2, <2>3 DEF Exact, Agrees
  <2> QED BY <2>1, <2>4, <2>5 DEF ExactInv, Faults
<1>4. ASSUME NEW s \in Sessions, NEW r \in Rows, Load(s, r) \/ LoadForUpdate(s, r)
      PROVE  ExactInv'
  <2>1. PICK seen \in {row[r], image[r]}, kind \in {"read", "locked"} :
            object' = [object EXCEPT ![s][r] = ObjectOf(seen, kind)]
        BY <1>4 DEF Load, LoadForUpdate
  <2>2. UNCHANGED <<row, image, writes, spurious, faults>>
        BY <1>4 DEF Load, LoadForUpdate, dbVars
  <2> DEFINE o == ObjectOf(seen, kind)
  <2>3. o.updatedAt = Trunc(seen.updatedAt) /\ o.known = {seen.version}
        BY DEF ObjectOf
  <2>4. \A t \in Sessions, q \in Rows :
            object'[t][q] = IF t = s /\ q = r THEN o ELSE object[t][q]
        BY <2>1 DEF TypeOK
  <2> HIDE DEF o
  <2>5. VersionInv' BY <2>2, <2>3, <2>4 DEF ExactInv, VersionInv
  <2>6. ASSUME Exact PROVE Agrees(row[r], o) /\ Agrees(image[r], o)
        BY <2>3, <2>6 DEF Exact, Agrees, ExactInv, VersionInv
  <2>7. Exact => Exact' BY <2>2, <2>4, <2>6 DEF Exact
  <2> QED BY <2>2, <2>5, <2>7 DEF ExactInv, Faults
<1>5. ASSUME NEW s \in Sessions, NEW r \in Rows, Touch(s, r) PROVE ExactInv'
  <2>1. \A o \in Objects : Touched(o).known = o.known BY DEF Touched, Objects
  <2>2. \A t \in Sessions, q \in Rows : object'[t][q].known = object[t][q].known
        BY <1>5, <2>1 DEF Touch, TypeOK
  <2> QED BY <1>5, <2>2 DEF Touch, dbVars, ExactInv, VersionInv, Faults
<1>6. ASSUME NEW s \in Sessions, NEW r \in Rows, Create(s, r) PROVE ExactInv'
  <2> DEFINE o == [kind |-> "new", updatedAt |-> NoDate, known |-> {writes + 1}, saved |-> TRUE]
  <2>1. /\ CanLock(s, r) /\ Write(s, r, TRUE) /\ spurious' = spurious
        /\ object' = [object EXCEPT ![s][r] = o]
        BY <1>6 DEF Create
  <2>2. writes \in Nat BY BoundsAssumption DEF TypeOK, Versions
  <2>3. o.saved /\ \A v \in o.known : v <= writes + 1 BY <2>2
  <2> HIDE DEF o
  <2> QED BY <2>1, <2>3, WriteExact
<1>7. ASSUME NEW s \in Sessions, NEW r \in Rows, NEW live \in BOOLEAN,
             SaveChecked(s, r, live) \/ SaveUnchecked(s, r, live)
      PROVE  ExactInv'
  <2> DEFINE o == Saved(object[s][r], writes + 1)
  <2>1. /\ CanLock(s, r) /\ Write(s, r, live) /\ spurious' = spurious
        /\ object' = [object EXCEPT ![s][r] = o]
        BY <1>7 DEF SaveChecked, SaveUnchecked, MaySave, Save
  <2>2. writes \in Nat /\ object[s][r].known \subseteq Nat
        BY BoundsAssumption DEF TypeOK, Objects, Versions
  <2>3. o.saved /\ o.known = object[s][r].known \cup {writes + 1} BY DEF Saved
  <2>4. \A v \in o.known : v <= writes + 1 BY <2>2, <2>3 DEF ExactInv, VersionInv
  <2> HIDE DEF o
  <2> QED BY <2>1, <2>3, <2>4, WriteExact
<1>8. ASSUME NEW s \in Sessions, NEW r \in Rows, SaveRefused(s, r) PROVE ExactInv'
  <2>1. UNCHANGED <<row, image, object, writes, faults>> BY <1>8 DEF SaveRefused, dbVars
  <2>2. VersionInv' /\ (Exact => Exact')
        BY <2>1 DEF ExactInv, VersionInv, Exact, Agrees
  <2>3. ASSUME ~Faults({"foreign", "resave", "touch"}) PROVE spurious' = spurious
    <3>1. ~object[s][r].saved /\ ~Matches(s, r)
          BY <1>8, <2>3 DEF SaveRefused, MaySave, Faults
    <3>2. image[r].version \in object[s][r].known =>
              image[r].updatedAt = Trunc(object[s][r].updatedAt)
          BY <2>3, <3>1 DEF ExactInv, Exact, Agrees
    <3>3. ~(image[r].live /\ image[r].version \in object[s][r].known)
          BY <3>1, <3>2 DEF Matches
    <3> QED BY <1>8, <3>3 DEF SaveRefused
  <2> QED BY <2>1, <2>2, <2>3 DEF ExactInv, Faults
<1>9. CASE UNCHANGED vars BY <1>1, <1>9 DEF vars, dbVars
<1> QED BY <1>2, <1>3, <1>4, <1>5, <1>6, <1>7, <1>8, <1>9 DEF Next

\* A save is not refused while the row is as the object knows it: "if the row was concurrently
\* modified since it was read" (base-write.dao.ts 26-29) is the only reason, when nobody else
\* writes updated_at, objects are saved once and updatedAt is not set.
THEOREM ConflictsAreReal == Spec => []NoSpuriousConflict
<1>1. Init => TypeOK /\ ExactInv BY TypeInit, ExactInit
<1>2. TypeOK /\ ExactInv /\ [Next]_vars => (TypeOK /\ ExactInv)' BY TypeStep, ExactStep
<1>3. ExactInv => NoSpuriousConflict BY DEF ExactInv, NoSpuriousConflict
<1> QED BY <1>1, <1>2, <1>3, PTL DEF Spec
=============================================================================
