---------------------------- MODULE RecordsProofs ----------------------------
(***************************************************************************)
(* Theorems about ListQuery and Records, for any methods, clients, tables, *)
(* objects and sessions.                                                   *)
(***************************************************************************)
EXTENDS Records, WellFoundedInduction, SequenceTheorems, FiniteSetTheorems, TLAPS

-----------------------------------------------------------------------------
(* What is saved.                                                           *)

\* A deployment, as StoresAssumption has it.
StoreOk(s) ==
    /\ {"id", "inserted_by", "updated_by"} \subseteq DOMAIN s.columns
    /\ Range(s.columns) \subseteq DOMAIN Cast
    /\ s.columns["inserted_by"] = "text" /\ s.columns["updated_by"] = "text"
    /\ s.columns["id"] # "enum" /\ "id" \in s.fields /\ Resolved(s, "id") = "id"
    /\ \A c, d \in DOMAIN s.columns : DomainKey(s, c) = DomainKey(s, d) => c = d
    /\ \A kind \in DOMAIN s.keys :
        /\ s.keys[kind] \subseteq DOMAIN Camels \cup DOMAIN s.overrides
        /\ \A k \in s.keys[kind] :
            ColumnFor(s, k) \notin {"id", "inserted_by", "updated_by"}
        /\ \A j, k \in s.keys[kind] \cup DOMAIN s.overrides \cup AuditKeys :
            ColumnFor(s, j) = ColumnFor(s, k) => j = k
        /\ "id" \notin DOMAIN s.derived[kind]
    /\ IsFiniteSet(s.before)
    /\ \A o \in s.objects \cup s.before :
        /\ o = [id |-> o.id, kind |-> o.kind, props |-> o.props]
        /\ PlainValue(o.id) /\ o.kind \in DOMAIN s.keys
    /\ \A session \in s.sessions : session.user \notin DOMAIN Scalars \cup DOMAIN Numerals

LEMMA Deployed == ASSUME walk \in DOMAIN Walks PROVE StoreOk(store)
  BY StoresAssumption DEF StoreOk, store, app

\* An object of the application.
IsObject(o) ==
    /\ o = [id |-> o.id, kind |-> o.kind, props |-> o.props]
    /\ PlainValue(o.id) /\ o.kind \in DOMAIN store.keys

LEMMA PlainIsKept ==
    ASSUME NEW v, PlainValue(v), NEW type, type # "enum"
    PROVE  Encode(type, v) = v
  BY DEF Encode, PlainValue

LEMMA UserIsKept ==
    ASSUME NEW v, v \notin DOMAIN Scalars \cup DOMAIN Numerals
    PROVE  Encode("text", v) = Found(v)
  <1>1. Cast["text"] = "TEXT"
    BY DEF Cast
  <1>2. QED
    BY <1>1 DEF Encode, Found

\* The row that the mapper makes of an object.
LEMMA Persistence ==
    ASSUME StoreOk(store), NEW o, IsObject(o)
    PROVE  /\ DOMAIN ToPersistence(o) = DOMAIN store.derived[o.kind] \cup {"id"}
                                        \cup {ColumnFor(store, k) : k \in Keys(o)}
           /\ ToPersistence(o)["id"] = o.id
  <1> DEFINE C == {"id"} \cup {ColumnFor(store, k) : k \in Keys(o)}
  <1>1. DOMAIN Derived(o) = DOMAIN store.derived[o.kind]
    BY DEF Derived
  <1>2. DOMAIN Converted(o) = C /\ Converted(o)["id"] = o.id
    BY DEF Converted
  <1>3. "id" \notin DOMAIN store.derived[o.kind]
    BY DEF IsObject, StoreOk
  <1> DEFINE f == Derived(o)
             g == Converted(o)
  <1>4. ToPersistence(o) = Over(f, g)
    BY DEF ToPersistence
  <1>5. DOMAIN f \cup DOMAIN g = DOMAIN store.derived[o.kind] \cup {"id"}
                                 \cup {ColumnFor(store, k) : k \in Keys(o)}
    BY <1>1, <1>2
  <1>6. "id" \in DOMAIN g \ DOMAIN f /\ g["id"] = o.id
    BY <1>1, <1>2, <1>3
  <1> HIDE DEF f, g
  <1>7. DOMAIN Over(f, g) = DOMAIN f \cup DOMAIN g /\ Over(f, g)["id"] = o.id
    BY <1>6 DEF Over
  <1>8. QED
    BY <1>4, <1>5, <1>7, Zenon

-----------------------------------------------------------------------------
(* Statements.                                                              *)

\* The objects of a statement.
IsBatch(objects) ==
    /\ DOMAIN objects = 1 .. Len(objects) /\ Len(objects) \in {1, 2}
    /\ \A i \in DOMAIN objects : IsObject(objects[i])

LEMMA BatchesDef ==
    ASSUME NEW S, \A o \in S : IsObject(o), NEW objects \in Batches(S)
    PROVE  IsBatch(objects) /\ \A i \in DOMAIN objects : objects[i] \in S
  <1>1. CASE \E o \in S : objects = <<o>>
    BY <1>1 DEF IsBatch
  <1>2. CASE \E o, p \in S : objects = <<o, p>>
    BY <1>2 DEF IsBatch
  <1>3. QED
    BY <1>1, <1>2 DEF Batches

LEMMA AtId ==
    ASSUME NEW objects, NEW id \in Ids(objects)
    PROVE  At(objects, id) \in DOMAIN objects /\ objects[At(objects, id)].id = id
  BY DEF Ids, At

\* What an INSERT writes of an object.
LEMMA Inserted ==
    ASSUME StoreOk(store), NEW objects, IsBatch(objects), NEW session \in store.sessions,
           NEW i \in DOMAIN objects, NEW old
    PROVE  LET batch == [j \in DOMAIN objects |->
                            InsertRow(ToPersistence(objects[j]), session.user)]
               row == Written(batch, i, old)
           IN  /\ DOMAIN row = ColumnNames
               /\ row["id"] = objects[i].id
               /\ row["inserted_by"] = Found(session.user)
               /\ row["updated_by"] = Found(session.user)
  <1> DEFINE batch == [j \in DOMAIN objects |-> InsertRow(ToPersistence(objects[j]), session.user)]
             row == Written(batch, i, old)
  <1>1. \A j \in DOMAIN objects :
          /\ {"id", "inserted_by", "updated_by"} \subseteq DOMAIN batch[j]
          /\ batch[j]["id"] = objects[j].id
          /\ batch[j]["inserted_by"] = session.user /\ batch[j]["updated_by"] = session.user
    BY Persistence DEF InsertRow, IsBatch
  <1>2. {"id", "inserted_by", "updated_by"} \subseteq Sent(batch)
    <2>1. 1 \in DOMAIN objects /\ Head(batch) = batch[1]
      BY DEF IsBatch
    <2>2. QED
      BY <1>1, <2>1 DEF Sent
  <1>3. {"id", "inserted_by", "updated_by"} \subseteq ColumnNames
    BY DEF StoreOk, ColumnNames
  <1> HIDE DEF batch
  <1>4. /\ DOMAIN row = ColumnNames
        /\ row["id"] = Encode(TypeOf("id"), objects[i].id)
        /\ row["inserted_by"] = Encode(TypeOf("inserted_by"), session.user)
        /\ row["updated_by"] = Encode(TypeOf("updated_by"), session.user)
    BY <1>1, <1>2, <1>3 DEF Written, Assigned
  <1>5. TypeOf("inserted_by") = "text" /\ TypeOf("updated_by") = "text" /\ TypeOf("id") # "enum"
    BY DEF StoreOk, TypeOf
  <1>6. Encode(TypeOf("id"), objects[i].id) = objects[i].id
    BY <1>5, PlainIsKept DEF IsBatch, IsObject
  <1>7. session.user \notin DOMAIN Scalars \cup DOMAIN Numerals
    BY DEF StoreOk
  <1>8. QED
    BY <1>4, <1>5, <1>6, <1>7, UserIsKept DEF batch

\* What an UPDATE writes of an object.
LEMMA Updated ==
    ASSUME StoreOk(store), NEW objects, IsBatch(objects), NEW session \in store.sessions,
           NEW i \in DOMAIN objects, NEW old
    PROVE  LET batch == [j \in DOMAIN objects |->
                            UpdateRow(ToPersistence(objects[j]), session.user)]
               row == Written(batch, i, old)
           IN  /\ DOMAIN row = ColumnNames
               /\ row["id"] = objects[i].id
               /\ row["inserted_by"] = old["inserted_by"]
               /\ row["updated_by"] = Found(session.user)
  <1> DEFINE batch == [j \in DOMAIN objects |-> UpdateRow(ToPersistence(objects[j]), session.user)]
             row == Written(batch, i, old)
  <1>1. \A j \in DOMAIN objects :
          /\ {"id", "updated_by"} \subseteq DOMAIN batch[j]
          /\ "inserted_by" \notin DOMAIN batch[j]
          /\ batch[j]["id"] = objects[j].id
          /\ batch[j]["updated_by"] = session.user
    BY Persistence DEF UpdateRow, IsBatch
  <1>2. {"id", "updated_by"} \subseteq Sent(batch) /\ "inserted_by" \notin Sent(batch)
    <2>1. 1 \in DOMAIN objects /\ Head(batch) = batch[1]
      BY DEF IsBatch
    <2>2. QED
      BY <1>1, <2>1 DEF Sent
  <1>3. {"id", "inserted_by", "updated_by"} \subseteq ColumnNames
    BY DEF StoreOk, ColumnNames
  <1> HIDE DEF batch
  <1>4. /\ DOMAIN row = ColumnNames
        /\ row["id"] = Encode(TypeOf("id"), objects[i].id)
        /\ row["inserted_by"] = old["inserted_by"]
        /\ row["updated_by"] = Encode(TypeOf("updated_by"), session.user)
    BY <1>1, <1>2, <1>3 DEF Written, Assigned
  <1>5. TypeOf("updated_by") = "text" /\ TypeOf("id") # "enum"
    BY DEF StoreOk, TypeOf
  <1>6. Encode(TypeOf("id"), objects[i].id) = objects[i].id
    BY <1>5, PlainIsKept DEF IsBatch, IsObject
  <1>7. session.user \notin DOMAIN Scalars \cup DOMAIN Numerals
    BY DEF StoreOk
  <1>8. QED
    BY <1>4, <1>5, <1>6, <1>7, UserIsKept DEF batch

-----------------------------------------------------------------------------
(* The table.                                                               *)

\* A row of the table, the object that was saved last and who wrote it.
Stored(id, row, o, audit) ==
    /\ IsObject(o) /\ o.id = id
    /\ DOMAIN row = ColumnNames /\ row["id"] = id
    /\ audit = [inserted |-> row["inserted_by"], updated |-> row["updated_by"]]

TableInv ==
    /\ walk \in DOMAIN Walks
    /\ IsFiniteSet(DOMAIN table)
    /\ DOMAIN held = DOMAIN table /\ DOMAIN due = DOMAIN table /\ DOMAIN by = DOMAIN table
    /\ \A id \in DOMAIN table : Stored(id, table[id], held[id], by[id])
    /\ rows = {Shown(table[id]) : id \in DOMAIN table}
    /\ stayed \subseteq rows
    /\ writes \in Nat

LEMMA ToSaveDef ==
    ASSUME TableInv, NEW session, NEW o \in ToSave(session)
    PROVE  IsObject(o) /\ o.id \in DOMAIN table /\ o.kind = held[o.id].kind
  <1>1. PICK id \in DOMAIN table :
            \E p \in Objects(id, session), change \in store.changes : o = Changed(p, change)
    BY DEF ToSave
  <1>p. PICK p \in Objects(id, session), change \in store.changes : o = Changed(p, change)
    BY <1>1
  <1>2. IsObject(held[id]) /\ held[id].id = id
    BY DEF TableInv, Stored
  <1>3. IsObject(p) /\ p.id = id /\ p.kind = held[id].kind
    BY <1>2 DEF Objects, IsObject, ToDomain
  <1>4. o.id = p.id /\ o.kind = p.kind /\ o = [id |-> o.id, kind |-> o.kind, props |-> o.props]
    BY <1>p, <1>3 DEF IsObject, Changed
  <1>5. QED
    BY <1>3, <1>4 DEF IsObject

\* Every write is one of these.
LEMMA Writes ==
    ASSUME Write
    PROVE  \E session \in store.sessions :
            \/ \E objects \in Batches(store.objects) : Create(objects, session)
            \/ \E objects \in Batches(ToSave(session)) :
                IsInjective([i \in DOMAIN objects |-> objects[i].id]) /\ Update(objects, session)
            \/ \E id \in DOMAIN table : Delete(id, session)
  <1>1. PICK session \in store.sessions :
            \/ \E objects \in Batches(store.objects) :
                IsInjective([i \in DOMAIN objects |-> objects[i].id]) /\ Create(objects, session)
            \/ \E objects \in Batches(ToSave(session)) :
                IsInjective([i \in DOMAIN objects |-> objects[i].id]) /\ Update(objects, session)
            \/ \E id \in DOMAIN table : Delete(id, session)
    BY Zenon DEF Write
  <1>2. QED
    BY <1>1, Zenon

\* TableInv after a step, which leaves the deployment as it is.
NewTable ==
    /\ walk' = walk
    /\ IsFiniteSet(DOMAIN table')
    /\ DOMAIN held' = DOMAIN table' /\ DOMAIN due' = DOMAIN table' /\ DOMAIN by' = DOMAIN table'
    /\ \A id \in DOMAIN table' : Stored(id, table'[id], held'[id], by'[id])
    /\ rows' = {Shown(table'[id]) : id \in DOMAIN table'}
    /\ stayed' \subseteq rows'
    /\ writes' \in Nat

LEMMA SameStore == ASSUME walk' = walk PROVE store' = store
  BY DEF store, app

LEMMA NewTableInv == TableInv /\ NewTable => TableInv'
  <1> SUFFICES ASSUME TableInv, NewTable PROVE TableInv'
    OBVIOUS
  <1>1. store' = store
    BY SameStore DEF NewTable
  <1>2. \A id \in DOMAIN table' : Stored(id, table[id], held[id], by[id])'
    BY <1>1 DEF NewTable, Stored, IsObject, ColumnNames
  <1>3. rows' = {Shown(table[id])' : id \in DOMAIN table'}
    BY <1>1 DEF NewTable, Shown
  <1>4. QED
    BY <1>2, <1>3 DEF TableInv, NewTable

\* What a statement leaves behind, however it was made.
LEMMA SaveStep ==
    ASSUME TableInv, NEW objects, IsBatch(objects), NEW batch, NEW old,
           Save(objects, batch, old), UNCHANGED listVars,
           NEW audit, by' = Over(audit, by), DOMAIN audit = Ids(objects),
           \A id \in Ids(objects) :
                Stored(id, Written(batch, At(objects, id), old[id]),
                       objects[At(objects, id)], audit[id])
    PROVE  NewTable
  <1> DEFINE written == [id \in Ids(objects) |-> Written(batch, At(objects, id), old[id])]
             object == [id \in Ids(objects) |-> objects[At(objects, id)]]
  <1>1. /\ table' = Over(written, table) /\ held' = Over(object, held)
        /\ rows' = {Shown(table'[id]) : id \in DOMAIN table'}
        /\ stayed' = stayed \cap rows' /\ writes' = writes + Len(objects)
    BY DEF Save
  <1>2. DOMAIN due' = Ids(objects) \cup DOMAIN due
    BY DEF Save, Over
  <1>3. \A id \in Ids(objects) : Stored(id, written[id], object[id], audit[id])
    OBVIOUS
  <1>4. IsFiniteSet(Ids(objects))
    <2> DEFINE ids == [i \in 1 .. Len(objects) |-> objects[i].id]
    <2>1. Ids(objects) \subseteq {objects[1].id, objects[2].id}
      BY DEF Ids, IsBatch
    <2>2. IsFiniteSet({objects[1].id} \cup {objects[2].id})
      BY FS_Singleton, FS_AddElement
    <2>3. {objects[1].id, objects[2].id} = {objects[1].id} \cup {objects[2].id}
      OBVIOUS
    <2>4. QED
      BY <2>1, <2>2, <2>3, FS_Subset
  <1> DOMAIN written = Ids(objects) /\ DOMAIN object = Ids(objects)
    OBVIOUS
  <1> HIDE DEF written, object
  <1>5. /\ DOMAIN table' = Ids(objects) \cup DOMAIN table
        /\ DOMAIN held' = Ids(objects) \cup DOMAIN held
        /\ DOMAIN by' = Ids(objects) \cup DOMAIN by
    BY <1>1 DEF Over
  <1>6. IsFiniteSet(DOMAIN table')
    <2>1. IsFiniteSet(DOMAIN table)
      BY DEF TableInv
    <2>2. IsFiniteSet(Ids(objects) \cup DOMAIN table)
      BY <1>4, <2>1, FS_Union, Zenon
    <2>3. QED
      BY <1>5, <2>2
  <1>7. \A id \in Ids(objects) :
            table'[id] = written[id] /\ held'[id] = object[id] /\ by'[id] = audit[id]
    BY <1>1 DEF Over
  <1>8. \A id \in DOMAIN table \ Ids(objects) :
            table'[id] = table[id] /\ held'[id] = held[id] /\ by'[id] = by[id]
    BY <1>1 DEF Over, TableInv
  <1>9. ASSUME NEW id \in DOMAIN table' PROVE Stored(id, table'[id], held'[id], by'[id])
    <2>1. CASE id \in Ids(objects)
      BY <1>3, <1>7, <2>1
    <2>2. CASE id \notin Ids(objects)
      BY <1>5, <1>8, <2>2 DEF TableInv
    <2>3. QED
      BY <2>1, <2>2
  <1>10. writes' \in Nat
    BY <1>1 DEF TableInv, IsBatch
  <1>11. QED
    BY <1>1, <1>2, <1>5, <1>6, <1>9, <1>10 DEF NewTable, TableInv, listVars

LEMMA CreateStep ==
    ASSUME TableInv, NEW session \in store.sessions, NEW objects \in Batches(store.objects),
           Create(objects, session), UNCHANGED listVars
    PROVE  NewTable
  <1> DEFINE batch == [i \in DOMAIN objects |-> InsertRow(ToPersistence(objects[i]), session.user)]
             old == [id \in Ids(objects) |-> EmptyRow]
             audit == [id \in Ids(objects) |-> [inserted |-> Found(session.user),
                                                updated |-> Found(session.user)]]
  <1>1. StoreOk(store)
    BY Deployed DEF TableInv
  <1>2. IsBatch(objects)
    <2>1. \A o \in store.objects : IsObject(o)
      BY <1>1 DEF StoreOk, IsObject
    <2>2. QED
      BY <2>1, BatchesDef
  <1>3. Save(objects, batch, old) /\ by' = Over(audit, by)
    BY DEF Create
  <1>4. ASSUME NEW id \in Ids(objects)
        PROVE  Stored(id, Written(batch, At(objects, id), old[id]),
                      objects[At(objects, id)], audit[id])
    <2> DEFINE i == At(objects, id)
    <2>1. i \in DOMAIN objects /\ objects[i].id = id
      BY AtId
    <2>2. IsObject(objects[i])
      BY <1>2, <2>1 DEF IsBatch
    <2>3. LET row == Written(batch, i, old[id])
          IN  /\ DOMAIN row = ColumnNames /\ row["id"] = objects[i].id
              /\ row["inserted_by"] = Found(session.user)
              /\ row["updated_by"] = Found(session.user)
      BY <1>1, <1>2, <2>1, Inserted
    <2>4. audit[id] = [inserted |-> Found(session.user), updated |-> Found(session.user)]
      OBVIOUS
    <2> HIDE DEF batch, old, audit, i
    <2>5. QED
      BY <2>1, <2>2, <2>3, <2>4 DEF Stored, i
  <1>5. DOMAIN audit = Ids(objects)
    OBVIOUS
  <1> HIDE DEF batch, old, audit
  <1>6. QED
    BY <1>2, <1>3, <1>4, <1>5, SaveStep

LEMMA UpdateStep ==
    ASSUME TableInv, NEW session \in store.sessions, NEW objects \in Batches(ToSave(session)),
           Update(objects, session), UNCHANGED listVars
    PROVE  NewTable
  <1> DEFINE batch == [i \in DOMAIN objects |-> UpdateRow(ToPersistence(objects[i]), session.user)]
             audit == [id \in Ids(objects) |-> [by[id] EXCEPT !.updated = Found(session.user)]]
  <1>1. StoreOk(store)
    BY Deployed DEF TableInv
  <1>2. IsBatch(objects) /\ \A i \in DOMAIN objects : objects[i] \in ToSave(session)
    <2>1. \A o \in ToSave(session) : IsObject(o)
      BY ToSaveDef
    <2>2. QED
      BY <2>1, BatchesDef
  <1>3. Save(objects, batch, table) /\ by' = Over(audit, by)
    BY DEF Update
  <1>4. ASSUME NEW id \in Ids(objects)
        PROVE  Stored(id, Written(batch, At(objects, id), table[id]),
                      objects[At(objects, id)], audit[id])
    <2> DEFINE i == At(objects, id)
    <2>1. i \in DOMAIN objects /\ objects[i].id = id
      BY AtId
    <2>2. IsObject(objects[i]) /\ id \in DOMAIN table
      BY <1>2, <2>1, ToSaveDef
    <2>3. LET row == Written(batch, i, table[id])
          IN  /\ DOMAIN row = ColumnNames /\ row["id"] = objects[i].id
              /\ row["inserted_by"] = table[id]["inserted_by"]
              /\ row["updated_by"] = Found(session.user)
      BY <1>1, <1>2, <2>1, Updated
    <2>4. audit[id] = [inserted |-> table[id]["inserted_by"], updated |-> Found(session.user)]
      BY <2>2 DEF TableInv, Stored
    <2> HIDE DEF batch, audit, i
    <2>5. QED
      BY <2>1, <2>2, <2>3, <2>4 DEF Stored, i
  <1>5. DOMAIN audit = Ids(objects)
    OBVIOUS
  <1> HIDE DEF batch, audit
  <1>6. QED
    BY <1>2, <1>3, <1>4, <1>5, SaveStep

LEMMA DeleteStep ==
    ASSUME TableInv, NEW session, NEW id \in DOMAIN table, Delete(id, session),
           UNCHANGED listVars
    PROVE  NewTable
  <1>1. /\ DOMAIN table' = DOMAIN table \ {id} /\ DOMAIN held' = DOMAIN table'
        /\ DOMAIN due' = DOMAIN table' /\ DOMAIN by' = DOMAIN table'
        /\ rows' = {Shown(table'[i]) : i \in DOMAIN table'}
        /\ stayed' = stayed \cap rows' /\ writes' = writes + 1
    BY DEF Delete, Restrict
  <1>2. \A i \in DOMAIN table' : table'[i] = table[i] /\ held'[i] = held[i] /\ by'[i] = by[i]
    BY DEF Delete, Restrict
  <1>3. \A i \in DOMAIN table' : Stored(i, table'[i], held'[i], by'[i])
    BY <1>1, <1>2 DEF TableInv
  <1>4. IsFiniteSet(DOMAIN table')
    <2>1. IsFiniteSet(DOMAIN table)
      BY DEF TableInv
    <2>2. QED
      BY <1>1, <2>1, FS_Subset
  <1>5. writes' \in Nat /\ walk' = walk
    BY <1>1 DEF TableInv, listVars
  <1>6. QED
    BY <1>1, <1>3, <1>4, <1>5 DEF NewTable

LEMMA TableStep == TableInv /\ [Next]_vars => NewTable
  <1> SUFFICES ASSUME TableInv, [Next]_vars PROVE NewTable
    OBVIOUS
  <1>1. ASSUME walk' = walk, UNCHANGED tableVars, UNCHANGED recordVars PROVE NewTable
    BY <1>1 DEF NewTable, TableInv, tableVars, recordVars
  <1>2. CASE ListNext /\ UNCHANGED recordVars
    <2>1. walk' = walk /\ UNCHANGED tableVars
      BY <1>2 DEF ListNext, Ask, DataArrives, CountArrives, QueryFails, Answer
    <2>2. QED
      BY <1>1, <1>2, <2>1
  <1>3. CASE Write
    <2>1. UNCHANGED listVars
      BY <1>3 DEF Write
    <2>2. QED
      BY <1>3, <2>1, Writes, CreateStep, UpdateStep, DeleteStep
  <1>4. CASE UNCHANGED vars
    BY <1>1, <1>4 DEF vars, listVars
  <1>5. QED
    BY <1>2, <1>3, <1>4 DEF Next

LEMMA OneTuple ==
    ASSUME NEW f, DOMAIN f = {1}, f = [i \in {1} |-> f[i]] PROVE f = <<f[1]>>
  OBVIOUS

LEMMA InitTable == Init => TableInv
  <1> SUFFICES ASSUME Init PROVE TableInv
    OBVIOUS
  <1>1. StoreOk(store) /\ walk \in DOMAIN Walks
    BY Deployed DEF Init, ListInit
  <1>2. PICK S \in SUBSET store.before, session \in store.sessions :
            LET object(id) == CHOOSE o \in S : o.id = id
                ids == {o.id : o \in S}
                batch(id) == <<InsertRow(ToPersistence(object(id)), session.user)>>
            IN  /\ table = [id \in ids |-> Written(batch(id), 1, EmptyRow)]
                /\ held = [id \in ids |-> object(id)]
                /\ DOMAIN due = ids
                /\ by = [id \in ids |-> [inserted |-> Found(session.user),
                                         updated |-> Found(session.user)]]
    BY DEF Init
  <1> DEFINE ids == {o.id : o \in S}
             object(id) == CHOOSE o \in S : o.id = id
  <1>3. IsFiniteSet(ids)
    <2>1. IsFiniteSet(S)
      BY <1>1, FS_Subset DEF StoreOk
    <2> DEFINE f == [o \in S |-> o.id]
    <2>2. f \in Surjection(S, ids)
      BY DEF Surjection
    <2>3. QED
      BY <2>1, <2>2, FS_Surjection
  <1>4. ASSUME NEW id \in ids PROVE Stored(id, table[id], held[id], by[id])
    <2>1. object(id) \in S /\ object(id).id = id
      OBVIOUS
    <2> DEFINE o == object(id)
    <2>2. IsObject(o) /\ o.id = id
      BY <1>1, <2>1 DEF StoreOk, IsObject
    <2>5. /\ table[id] = Written(<<InsertRow(ToPersistence(o), session.user)>>, 1, EmptyRow)
          /\ held[id] = o
          /\ by[id] = [inserted |-> Found(session.user), updated |-> Found(session.user)]
      BY <1>2
    <2> HIDE DEF o
    <2> DEFINE objects == <<o>>
    <2>3. DOMAIN objects = {1} /\ Len(objects) = 1 /\ objects[1] = o
      OBVIOUS
    <2>4. [j \in DOMAIN objects |-> InsertRow(ToPersistence(objects[j]), session.user)]
            = <<InsertRow(ToPersistence(o), session.user)>>
      BY <2>3, OneTuple
    <2>b. IsBatch(objects)
      BY <2>2, <2>3 DEF IsBatch
    <2> HIDE DEF objects
    <2>6. /\ DOMAIN table[id] = ColumnNames
          /\ table[id]["id"] = o.id
          /\ table[id]["inserted_by"] = Found(session.user)
          /\ table[id]["updated_by"] = Found(session.user)
      BY <1>1, <2>b, <2>3, <2>4, <2>5, Inserted
    <2>7. QED
      BY <2>2, <2>5, <2>6 DEF Stored
  <1>5. /\ DOMAIN table = ids /\ DOMAIN held = ids /\ DOMAIN due = ids /\ DOMAIN by = ids
    BY <1>2
  <1>6. rows = {Shown(table[id]) : id \in DOMAIN table} /\ stayed = rows /\ writes = 0
    BY DEF Init
  <1>7. QED
    BY <1>1, <1>3, <1>4, <1>5, <1>6 DEF TableInv

LEMMA TableInvariant == Spec => []TableInv
  BY InitTable, TableStep, NewTableInv, PTL DEF Spec

\* inserted_by and updated_by name who wrote a row, whatever the objects say that were saved:
\* InsertRow and UpdateRow put the user of the session over what the mapper has written.
THEOREM AuditIsTrue == Spec => []AuditNamesTheUser
  <1>1. TableInv => AuditNamesTheUser
    BY DEF TableInv, Stored, AuditNamesTheUser
  <1>2. QED
    BY <1>1, TableInvariant, PTL

-----------------------------------------------------------------------------
(* What was saved is read.                                                  *)

LEMMA RegularReturns ==
    ASSUME NEW n, n = [text |-> n.text, breaks |-> n.breaks], n.breaks \subseteq Nat,
           \A i \in n.breaks : n.text[i] \notin Digits, Regular(n)
    PROVE  Cameled(Snaked(n)) = n
  <1>1. {i \in n.breaks : i - 1 \in n.breaks => n.text[i - 1] \notin Letters} = n.breaks
    <2>1. ASSUME NEW i \in n.breaks, i - 1 \in n.breaks PROVE n.text[i - 1] \notin Letters
      <3>1. (i - 1) + 1 = i
        OBVIOUS
      <3>2. QED
        BY <2>1, <3>1 DEF Regular
    <2>2. QED
      BY <2>1
  <1>2. Snaked(n) = n
    BY <1>1 DEF Snaked
  <1>3. {i \in n.breaks : n.text[i] \notin Digits} = n.breaks
    OBVIOUS
  <1>4. QED
    BY <1>2, <1>3 DEF Cameled

LEMMA KeyOfColumn ==
    ASSUME StoreOk(store), NEW kind \in DOMAIN store.keys, NEW k \in store.keys[kind],
           k \in DOMAIN store.overrides \/ Regular(Camels[k])
    PROVE  DomainKey(store, ColumnFor(store, k)) = k
  <1> DEFINE c == ColumnFor(store, k)
  <1>1. \A j \in DOMAIN store.overrides : store.overrides[j] = c => j = k
    BY DEF StoreOk, ColumnFor
  <1>2. CASE k \in DOMAIN store.overrides
    BY <1>1, <1>2 DEF DomainKey, ColumnFor
  <1>3. CASE k \notin DOMAIN store.overrides
    <2>1. k \in DOMAIN Camels /\ c = Snake[k]
      BY <1>3 DEF StoreOk, ColumnFor
    <2> DEFINE n == Camels[k]
    <2>2. /\ n = [text |-> n.text, breaks |-> n.breaks] /\ n.breaks \subseteq Nat
          /\ \A i \in n.breaks : n.text[i] \notin Digits
          /\ Snaked(n) \in Range(Snakes)
      BY <2>1, NamesAssumption
    <2>3. c \in DOMAIN Snakes /\ Snakes[c] = Snaked(n)
      BY <2>1, <2>2 DEF Snake, Range
    <2>4. Cameled(Snaked(n)) = n
      BY <1>3, <2>2, RegularReturns
    <2>5. Camel[c] = k
      <3>1. \A j \in DOMAIN Camels : Camels[j] = n => j = k
        BY <2>1, NamesAssumption DEF IsInjective
      <3>2. Camel[c] = CHOOSE j \in DOMAIN Camels : Camels[j] = n
        BY <2>3, <2>4 DEF Camel
      <3>3. QED
        BY <2>1, <3>1, <3>2
    <2>6. ~ \E j \in DOMAIN store.overrides : store.overrides[j] = c
      BY <1>1, <1>3
    <2>7. QED
      BY <2>5, <2>6 DEF DomainKey
  <1>4. QED
    BY <1>2, <1>3

\* What is sent of a value.
SentOf(v) == IF v \in DOMAIN Scalars THEN Scalars[v] ELSE v

LEMMA PersistedValue ==
    ASSUME StoreOk(store), NEW o, IsObject(o), NEW k \in store.keys[o.kind],
           Keeps(o, k, Value(o, k))
    PROVE  /\ ColumnFor(store, k) \in DOMAIN ToPersistence(o)
           /\ ToPersistence(o)[ColumnFor(store, k)] = SentOf(Value(o, k))
  <1> DEFINE c == ColumnFor(store, k)
             v == Value(o, k)
             f == Derived(o)
             g == Converted(o)
  <1>1. o.kind \in DOMAIN store.keys /\ c # "id"
    BY DEF IsObject, StoreOk
  <1>2. k \in Keys(o) /\ \A j \in Keys(o) : ColumnFor(store, j) = c => j = k
    BY <1>1 DEF Keys, StoreOk
  <1>3. c \in DOMAIN g /\ g[c] = v
    <2>1. (CHOOSE j \in Keys(o) : ColumnFor(store, j) = c) = k
      BY <1>2
    <2>2. QED
      BY <1>1, <1>2, <2>1 DEF Converted
  <1>4. DOMAIN f = DOMAIN store.derived[o.kind]
    BY DEF Derived
  <1>5. c \in DOMAIN f => f[c] = SentOf(v)
    <2>1. HAVE c \in DOMAIN f
    <2>2. store.derived[o.kind][c] = k
      BY <1>4, <2>1 DEF Keeps
    <2>3. QED
      BY <1>4, <2>1, <2>2 DEF Derived, SentOf
  <1>6. c \notin DOMAIN f => g[c] = SentOf(v)
    BY <1>3, <1>4 DEF Keeps, SentOf
  <1>7. ToPersistence(o) = Over(f, g)
    BY DEF ToPersistence
  <1> HIDE DEF f, g, c, v
  <1>8. c \in DOMAIN Over(f, g) /\ Over(f, g)[c] = SentOf(v)
    BY <1>3, <1>5, <1>6 DEF Over
  <1>9. QED
    BY <1>7, <1>8 DEF c, v

LEMMA RoundTrip ==
    ASSUME StoreOk(store), NEW o, NEW k, NEW v, Keeps(o, k, v),
           ColumnFor(store, k) \in ColumnNames,
           Encode(TypeOf(ColumnFor(store, k)), SentOf(v)) # NaN
    PROVE  LET type == TypeOf(ColumnFor(store, k))
           IN  Wrapped(o.kind, k, Decode(type, Encode(type, SentOf(v)))) = Found(v)
  <1> DEFINE c == ColumnFor(store, k)
             type == TypeOf(c)
             sent == SentOf(v)
  <1>1. type \in DOMAIN Cast /\ type # "enum"
    <2>1. type \in DOMAIN Cast
      BY DEF StoreOk, TypeOf, ColumnNames, Range
    <2>2. QED
      BY <2>1 DEF Encode
  <1>2. /\ sent \in DOMAIN Numerals => type \notin {"bigint", "numeric", "text"}
        /\ sent \in Range(Numerals) => type # "integer"
        /\ sent \in DOMAIN Texts => type # "jsonb"
        /\ sent \notin DOMAIN Scalars
    <2>1. sent \notin DOMAIN Scalars
      BY ValuesAssumption DEF SentOf, Range
    <2>2. QED
      BY <2>1 DEF Keeps, SentOf
  <1>3. /\ type = "jsonb" <=> Cast[type] = "JSONB"
        /\ Cast[type] = "TEXT" => type = "text"
        /\ Cast[type] = "INTEGER" => type \in {"integer", "bigint"}
        /\ Cast[type] = "NUMERIC" => type = "numeric"
    BY <1>1 DEF Cast
  <1>4. CASE sent \in {None, Null}
    <2>1. v = sent
      BY <1>4, ValuesAssumption DEF SentOf, Range
    <2>2. Encode(type, sent) = Null
      BY <1>1, <1>4, ValuesAssumption DEF Encode
    <2>3. Decode(type, Null) = Null
      BY ValuesAssumption DEF Decode
    <2>4. Wrapped(o.kind, k, Null) = Null
      BY ValuesAssumption DEF Wrapped
    <2>5. QED
      BY <1>4, <2>1, <2>2, <2>3, <2>4 DEF Found
  <1>5. CASE sent \notin {None, Null}
    <2>1. Decode(type, Encode(type, sent)) = sent
      <3>1. CASE sent \in Range(Numerals) /\ Cast[type] \in {"INTEGER", "NUMERIC"}
        <4>1. type \in {"bigint", "numeric"}
          BY <1>2, <1>3, <3>1
        <4>2. Cast[type] # "TEXT" /\ Cast[type] # "JSONB" /\ sent \notin Beyond
          BY <3>1, ValuesAssumption
        <4>3. Encode(type, sent) = CHOOSE n \in DOMAIN Numerals : Numerals[n] = sent
          BY <1>1, <1>5, <3>1, <4>2 DEF Encode
        <4>4. \E n \in DOMAIN Numerals : Numerals[n] = sent
          BY <3>1 DEF Range
        <4>5. QED
          BY <4>1, <4>3, <4>4 DEF Decode
      <3>2. CASE ~(sent \in Range(Numerals) /\ Cast[type] \in {"INTEGER", "NUMERIC"})
        <4>1. Encode(type, sent) = sent
          BY <1>1, <1>2, <1>3, <1>5, <3>2 DEF Encode
        <4>2. QED
          BY <1>2, <4>1 DEF Decode
      <3>3. QED
        BY <3>1, <3>2
    <2>2. v # None
      BY <1>5, ValuesAssumption DEF SentOf
    <2>3. Wrapped(o.kind, k, sent) = v
      <3>1. CASE v \in DOMAIN Scalars
        <4>1. sent = Scalars[v] /\ sent \in Range(Scalars)
          BY <3>1 DEF SentOf, Range
        <4>2. k \in Range(store.derived[o.kind])
          BY <3>1 DEF Keeps, Range
        <4>3. \A object \in DOMAIN Scalars : Scalars[object] = sent => object = v
          BY <3>1, <4>1, ValuesAssumption DEF IsInjective
        <4>4. QED
          BY <3>1, <4>1, <4>2, <4>3 DEF Wrapped
      <3>2. CASE v \notin DOMAIN Scalars
        BY <3>2 DEF SentOf, Wrapped, Keeps
      <3>3. QED
        BY <3>1, <3>2
    <2>4. QED
      BY <2>1, <2>2, <2>3 DEF Found
  <1>6. QED
    BY <1>4, <1>5

\* What the table has for a key of an object is what is due.
Kept(kind, row, k, v) ==
    LET c == ColumnFor(store, k)
    IN  /\ k \in store.keys[kind]
        /\ k \in DOMAIN store.overrides \/ Regular(Camels[k])
        /\ c \in ColumnNames
        /\ Wrapped(kind, k, Decode(TypeOf(c), row[c])) = v

LEMMA SavedKey ==
    ASSUME StoreOk(store), NEW o, IsObject(o), NEW batch, Accepted(batch),
           NEW i \in DOMAIN batch, NEW old,
           \A c \in DOMAIN ToPersistence(o) \ {"inserted_by", "updated_by"} :
                c \in DOMAIN batch[i] /\ batch[i][c] = ToPersistence(o)[c],
           NEW k \in DOMAIN Expected(o, Sent(batch))
    PROVE  Kept(o.kind, Written(batch, i, old), k, Expected(o, Sent(batch))[k])
  <1> DEFINE c == ColumnFor(store, k)
             v == Value(o, k)
  <1>1. /\ k \in store.keys[o.kind]
        /\ k \in DOMAIN store.overrides \/ Regular(Camels[k])
        /\ c \in Sent(batch) /\ Keeps(o, k, v)
        /\ Expected(o, Sent(batch))[k] = Found(v)
    BY DEF Expected
  <1>2. c \in ColumnNames /\ Assigned(batch, i, c) # NaN
    BY <1>1 DEF Accepted
  <1>3. c \in DOMAIN batch[i] /\ batch[i][c] = SentOf(v)
    <2>1. c \in DOMAIN ToPersistence(o) /\ ToPersistence(o)[c] = SentOf(v)
      BY <1>1, PersistedValue
    <2>2. c \notin {"inserted_by", "updated_by"}
      BY <1>1 DEF IsObject, StoreOk
    <2>3. QED
      BY <2>1, <2>2
  <1>4. Assigned(batch, i, c) = Encode(TypeOf(c), SentOf(v))
    BY <1>3 DEF Assigned
  <1>5. Written(batch, i, old)[c] = Encode(TypeOf(c), SentOf(v))
    BY <1>1, <1>2, <1>4 DEF Written
  <1>6. Wrapped(o.kind, k, Decode(TypeOf(c), Encode(TypeOf(c), SentOf(v)))) = Found(v)
    BY <1>1, <1>2, <1>4, RoundTrip
  <1>7. QED
    BY <1>1, <1>2, <1>5, <1>6 DEF Kept

DueInv == \A id \in DOMAIN table : \A k \in DOMAIN due[id] :
            Kept(held[id].kind, table[id], k, due[id][k])

\* DueInv after a step that leaves the deployment as it is.
NewDue == \A id \in DOMAIN table' : \A k \in DOMAIN due'[id] :
            Kept(held'[id].kind, table'[id], k, due'[id][k])

LEMMA NewDueInv == NewDue /\ walk' = walk => DueInv'
  BY SameStore DEF NewDue, DueInv, Kept, ColumnNames, ColumnFor, Wrapped, TypeOf

\* The rows of a statement have what the mapper wrote, but for the audit columns.
Faithful(objects, batch) ==
    /\ DOMAIN batch = DOMAIN objects
    /\ \A i \in DOMAIN objects :
        \A c \in DOMAIN ToPersistence(objects[i]) \ {"inserted_by", "updated_by"} :
            c \in DOMAIN batch[i] /\ batch[i][c] = ToPersistence(objects[i])[c]

LEMMA DueSave ==
    ASSUME TableInv, DueInv, NEW objects, IsBatch(objects), NEW batch,
           Faithful(objects, batch), NEW old, Save(objects, batch, old),
           \A i \in DOMAIN objects : objects[i].id \in DOMAIN table =>
                /\ old[objects[i].id] = table[objects[i].id]
                /\ objects[i].kind = held[objects[i].id].kind
    PROVE  NewDue
  <1> DEFINE written == [id \in Ids(objects) |-> Written(batch, At(objects, id), old[id])]
             object == [id \in Ids(objects) |-> objects[At(objects, id)]]
             expected(id) == Expected(objects[At(objects, id)], Sent(batch))
             untouched(id) == IF id \notin DOMAIN due THEN <<>>
                              ELSE Restrict(due[id], {k \in DOMAIN due[id] :
                                                        ColumnFor(store, k) \notin Sent(batch)})
             kept == [id \in Ids(objects) |-> Over(expected(id), untouched(id))]
  <1>1. StoreOk(store)
    BY Deployed DEF TableInv
  <1>2. /\ table' = Over(written, table) /\ held' = Over(object, held) /\ due' = Over(kept, due)
        /\ Accepted(batch)
    BY DEF Save
  <1>3. ASSUME NEW id \in Ids(objects), NEW k \in DOMAIN kept[id]
        PROVE  Kept(object[id].kind, written[id], k, kept[id][k])
    <2> DEFINE i == At(objects, id)
               o == objects[i]
    <2>1. i \in DOMAIN objects /\ o.id = id /\ IsObject(o)
      BY AtId DEF IsBatch
    <2>2. object[id] = o /\ written[id] = Written(batch, i, old[id])
      OBVIOUS
    <2>3. kept[id] = Over(expected(id), untouched(id))
      OBVIOUS
    <2>4. CASE k \in DOMAIN expected(id)
      <3>1. kept[id][k] = expected(id)[k]
        BY <2>3, <2>4 DEF Over
      <3>2. Kept(o.kind, Written(batch, i, old[id]), k, expected(id)[k])
        <4>1. \A c \in DOMAIN ToPersistence(o) \ {"inserted_by", "updated_by"} :
                c \in DOMAIN batch[i] /\ batch[i][c] = ToPersistence(o)[c]
          BY <2>1 DEF Faithful
        <4>2. i \in DOMAIN batch /\ k \in DOMAIN Expected(o, Sent(batch))
          BY <2>1, <2>4 DEF Faithful
        <4> HIDE DEF i, o
        <4>3. Kept(o.kind, Written(batch, i, old[id]), k, Expected(o, Sent(batch))[k])
          BY <1>1, <1>2, <2>1, <4>1, <4>2, SavedKey
        <4>4. QED
          BY <4>3 DEF o, i
      <3>3. QED
        BY <2>2, <3>1, <3>2
    <2>5. CASE k \notin DOMAIN expected(id)
      <3>1. k \in DOMAIN untouched(id) /\ kept[id][k] = untouched(id)[k]
        BY <2>3, <2>5 DEF Over
      <3>2. id \in DOMAIN due
        BY <3>1
      <3>3. k \in DOMAIN due[id] /\ ColumnFor(store, k) \notin Sent(batch)
            /\ untouched(id)[k] = due[id][k]
        BY <3>1, <3>2 DEF Restrict
      <3>4. id \in DOMAIN table /\ old[id] = table[id] /\ o.kind = held[id].kind
        BY <2>1, <3>2 DEF TableInv
      <3>5. Kept(held[id].kind, table[id], k, due[id][k])
        BY <3>3, <3>4 DEF DueInv
      <3>6. Written(batch, i, old[id])[ColumnFor(store, k)] = table[id][ColumnFor(store, k)]
        BY <3>3, <3>4, <3>5 DEF Written, Kept
      <3>7. Kept(o.kind, Written(batch, i, old[id]), k, due[id][k])
        BY <3>4, <3>5, <3>6 DEF Kept
      <3>8. QED
        BY <2>2, <3>1, <3>3, <3>7
    <2>6. QED
      BY <2>4, <2>5
  <1> DOMAIN written = Ids(objects) /\ DOMAIN object = Ids(objects) /\ DOMAIN kept = Ids(objects)
    OBVIOUS
  <1> HIDE DEF written, object, kept
  <1>4. SUFFICES ASSUME NEW id \in DOMAIN table', NEW k \in DOMAIN due'[id]
                 PROVE  Kept(held'[id].kind, table'[id], k, due'[id][k])
    BY DEF NewDue
  <1>5. CASE id \in Ids(objects)
    <2>1. table'[id] = written[id] /\ held'[id] = object[id] /\ due'[id] = kept[id]
      BY <1>2, <1>5 DEF Over
    <2>2. QED
      BY <1>3, <1>4, <1>5, <2>1
  <1>6. CASE id \notin Ids(objects)
    <2>1. id \in DOMAIN table
      BY <1>2, <1>6 DEF Over
    <2>2. table'[id] = table[id] /\ held'[id] = held[id] /\ due'[id] = due[id]
      BY <1>2, <1>6, <2>1 DEF Over, TableInv
    <2>3. QED
      BY <1>4, <2>1, <2>2 DEF DueInv
  <1>7. QED
    BY <1>5, <1>6

LEMMA DueStep == TableInv /\ DueInv /\ [Next]_vars => NewDue
  <1> SUFFICES ASSUME TableInv, DueInv, [Next]_vars PROVE NewDue
    OBVIOUS
  <1>1. ASSUME UNCHANGED recordVars PROVE NewDue
    BY <1>1 DEF NewDue, DueInv, recordVars
  <1>2. ASSUME Write PROVE NewDue
    <2>1. PICK session \in store.sessions :
            \/ \E objects \in Batches(store.objects) : Create(objects, session)
            \/ \E objects \in Batches(ToSave(session)) : Update(objects, session)
            \/ \E id \in DOMAIN table : Delete(id, session)
      BY <1>2, Writes
    <2>2. ASSUME NEW objects \in Batches(store.objects), Create(objects, session) PROVE NewDue
      <3> DEFINE batch == [i \in DOMAIN objects |->
                            InsertRow(ToPersistence(objects[i]), session.user)]
                 old == [id \in Ids(objects) |-> EmptyRow]
      <3>1. IsBatch(objects)
        <4>1. \A o \in store.objects : IsObject(o)
          BY Deployed DEF TableInv, StoreOk, IsObject
        <4>2. QED
          BY <4>1, BatchesDef
      <3>2. Save(objects, batch, old) /\ Ids(objects) \cap DOMAIN table = {}
        BY <2>2 DEF Create
      <3>3. Faithful(objects, batch)
        BY DEF Faithful, InsertRow
      <3>4. \A i \in DOMAIN objects : objects[i].id \notin DOMAIN table
        BY <3>2 DEF Ids
      <3> HIDE DEF batch, old
      <3>5. QED
        BY <3>1, <3>2, <3>3, <3>4, DueSave
    <2>3. ASSUME NEW objects \in Batches(ToSave(session)), Update(objects, session) PROVE NewDue
      <3> DEFINE batch == [i \in DOMAIN objects |->
                            UpdateRow(ToPersistence(objects[i]), session.user)]
      <3>1. IsBatch(objects) /\ \A i \in DOMAIN objects : objects[i] \in ToSave(session)
        <4>1. \A o \in ToSave(session) : IsObject(o)
          BY ToSaveDef
        <4>2. QED
          BY <4>1, BatchesDef
      <3>2. Save(objects, batch, table)
        BY <2>3 DEF Update
      <3>3. Faithful(objects, batch)
        BY DEF Faithful, UpdateRow
      <3>4. \A i \in DOMAIN objects : objects[i].kind = held[objects[i].id].kind
        BY <3>1, ToSaveDef
      <3> HIDE DEF batch
      <3>5. QED
        BY <3>1, <3>2, <3>3, <3>4, DueSave
    <2>4. ASSUME NEW id \in DOMAIN table, Delete(id, session) PROVE NewDue
      <3>1. \A i \in DOMAIN table' :
                /\ i \in DOMAIN table
                /\ table'[i] = table[i] /\ held'[i] = held[i] /\ due'[i] = due[i]
        BY <2>4 DEF Delete, Restrict
      <3>2. QED
        BY <3>1 DEF NewDue, DueInv
    <2>5. QED
      BY <2>1, <2>2, <2>3, <2>4
  <1>3. QED
    BY <1>1, <1>2 DEF Next, vars

LEMMA InitDue == Init => DueInv
  <1> SUFFICES ASSUME Init PROVE DueInv
    OBVIOUS
  <1>1. StoreOk(store)
    BY Deployed DEF Init, ListInit
  <1>2. PICK S \in SUBSET store.before, session \in store.sessions :
            LET object(id) == CHOOSE o \in S : o.id = id
                ids == {o.id : o \in S}
                batch(id) == <<InsertRow(ToPersistence(object(id)), session.user)>>
            IN  /\ \A id \in ids : Accepted(batch(id))
                /\ table = [id \in ids |-> Written(batch(id), 1, EmptyRow)]
                /\ held = [id \in ids |-> object(id)]
                /\ due = [id \in ids |-> Expected(object(id), Sent(batch(id)))]
    BY DEF Init
  <1> DEFINE ids == {o.id : o \in S}
             object(id) == CHOOSE o \in S : o.id = id
  <1>3. SUFFICES ASSUME NEW id \in ids
                 PROVE  \A k \in DOMAIN due[id] : Kept(held[id].kind, table[id], k, due[id][k])
    BY <1>2 DEF DueInv
  <1> DEFINE o == object(id)
             row == InsertRow(ToPersistence(o), session.user)
             batch == <<row>>
  <1>4. IsObject(o)
    <2>1. o \in S
      OBVIOUS
    <2>2. QED
      BY <1>1, <2>1 DEF StoreOk, IsObject
  <1>5. /\ Accepted(batch) /\ table[id] = Written(batch, 1, EmptyRow) /\ held[id] = o
        /\ due[id] = Expected(o, Sent(batch))
    BY <1>2
  <1>6. \A c \in DOMAIN ToPersistence(o) \ {"inserted_by", "updated_by"} :
            c \in DOMAIN row /\ row[c] = ToPersistence(o)[c]
    BY DEF InsertRow
  <1> HIDE DEF o, row
  <1>7. 1 \in DOMAIN batch /\ batch[1] = row
    OBVIOUS
  <1> HIDE DEF batch
  <1>8. \A k \in DOMAIN Expected(o, Sent(batch)) :
            Kept(o.kind, Written(batch, 1, EmptyRow), k, Expected(o, Sent(batch))[k])
    BY <1>1, <1>4, <1>5, <1>6, <1>7, SavedKey
  <1>9. QED
    BY <1>5, <1>8

LEMMA DueInvariant == Spec => []DueInv
  <1>1. TableInv /\ DueInv /\ [Next]_vars => DueInv'
    BY DueStep, TableStep, NewDueInv DEF NewTable
  <1>2. QED
    BY <1>1, InitDue, TableInvariant, PTL DEF Spec

\* Whatever is renamed, derived, serialized and cast on the way, and whichever statements
\* follow, the repository and the read side give back what was saved.
THEOREM SavedComesBack == Spec => []SavedIsRead
  <1>1. TableInv /\ DueInv => SavedIsRead
    <2> SUFFICES ASSUME TableInv, DueInv, NEW id \in DOMAIN table, NEW k \in DOMAIN due[id]
                 PROVE  LET loaded == ToDomain(id, held[id].kind)
                            shown == CHOOSE r \in rows : r.id = id
                        IN  /\ Value(loaded, k) = due[id][k]
                            /\ k \in store.fields /\ Resolved(store, k) = ColumnFor(store, k) =>
                                Wrapped(loaded.kind, k,
                                        Decode(TypeOf(Resolved(store, k)), shown[k])) = due[id][k]
      BY DEF SavedIsRead
    <2> DEFINE kind == held[id].kind
               c == ColumnFor(store, k)
    <2>1. StoreOk(store)
      BY Deployed DEF TableInv
    <2>2. Kept(kind, table[id], k, due[id][k])
      BY DEF DueInv
    <2>3. kind \in DOMAIN store.keys
      BY DEF TableInv, Stored, IsObject
    <2>4. c \in ColumnNames \ {"id"} /\ DomainKey(store, c) = k
      BY <2>1, <2>2, <2>3, KeyOfColumn DEF Kept, StoreOk
    <2>5. Value(ToDomain(id, kind), k) = due[id][k]
      <3> DEFINE keys == {DomainKey(store, d) : d \in ColumnNames \ {"id"}}
                 column == [j \in keys |-> CHOOSE d \in ColumnNames : DomainKey(store, d) = j]
                 props == [j \in DOMAIN column |->
                            Wrapped(kind, j, Decode(TypeOf(column[j]), table[id][column[j]]))]
      <3>1. k \in keys
        BY <2>4
      <3>2. column[k] = c
        BY <2>1, <2>4, <3>1 DEF StoreOk, ColumnNames
      <3>3. k \in DOMAIN props /\ props[k] = due[id][k]
        BY <2>2, <3>1, <3>2 DEF Kept
      <3>4. ToDomain(id, kind).props = props
        BY DEF ToDomain
      <3> HIDE DEF props
      <3>5. QED
        BY <3>3, <3>4 DEF Value
    <2>6. ASSUME k \in store.fields, Resolved(store, k) = c
          PROVE  Wrapped(kind, k, Decode(TypeOf(c), (CHOOSE r \in rows : r.id = id)[k]))
                    = due[id][k]
      <3>1. \A i \in DOMAIN table : Shown(table[i]).id = i
        BY <2>1 DEF TableInv, Stored, StoreOk, Shown
      <3>2. \A r \in rows : r.id = id => r = Shown(table[id])
        BY <3>1 DEF TableInv
      <3>3. (CHOOSE r \in rows : r.id = id) = Shown(table[id])
        BY <3>1, <3>2 DEF TableInv
      <3>4. Shown(table[id])[k] = table[id][c]
        BY <2>6 DEF Shown
      <3>5. QED
        BY <2>2, <3>3, <3>4 DEF Kept
    <2>7. ToDomain(id, kind).kind = kind
      BY DEF ToDomain
    <2>8. QED
      BY <2>5, <2>6, <2>7
  <1>2. QED
    BY <1>1, TableInvariant, DueInvariant, PTL

-----------------------------------------------------------------------------
(* Pages.                                                                   *)

\* Rows have the ids of the table.
Counted == /\ \A id \in DOMAIN table : Shown(table[id]).id = id
           /\ IsFiniteSet(rows) /\ Cardinality(rows) = Cardinality(DOMAIN table)

LEMMA RowsCounted == TableInv => Counted
  <1> SUFFICES ASSUME TableInv PROVE Counted
    OBVIOUS
  <1>1. ASSUME NEW id \in DOMAIN table PROVE Shown(table[id]).id = id
    BY Deployed DEF TableInv, Stored, StoreOk, Shown
  <1> DEFINE f == [id \in DOMAIN table |-> Shown(table[id])]
  <1>2. rows = {f[id] : id \in DOMAIN table} /\ IsFiniteSet(DOMAIN table)
    BY DEF TableInv
  <1>3. f \in Surjection(DOMAIN table, rows) /\ f \in Injection(DOMAIN table, rows)
    BY <1>1, <1>2 DEF Surjection, Injection, IsInjective
  <1>4. IsFiniteSet(rows) /\ Cardinality(rows) = Cardinality(DOMAIN table)
    BY <1>2, <1>3, FS_Surjection
  <1>5. QED
    BY <1>1, <1>4 DEF Counted

\* A write takes away one row at most.
LEMMA RowsKept ==
    TableInv /\ TableInv' /\ [Next]_vars
        => /\ writes' >= writes
           /\ Cardinality(rows') + writes' >= Cardinality(rows) + writes
  <1> SUFFICES ASSUME TableInv, TableInv', [Next]_vars
               PROVE  /\ writes' >= writes
                      /\ Cardinality(rows') + writes' >= Cardinality(rows) + writes
    OBVIOUS
  <1>1. TableInv' => Counted'
    BY RowsCounted, PTL
  <1>2. /\ IsFiniteSet(DOMAIN table) /\ IsFiniteSet(DOMAIN table')
        /\ writes \in Nat /\ writes' \in Nat
    BY DEF TableInv
  <1>3. /\ Cardinality(rows) = Cardinality(DOMAIN table)
        /\ Cardinality(rows') = Cardinality(DOMAIN table')
    BY <1>1, RowsCounted DEF Counted
  <1>4. Cardinality(DOMAIN table) \in Nat /\ Cardinality(DOMAIN table') \in Nat
    BY <1>2, FS_CardinalityType
  <1>5. ASSUME NEW objects, IsBatch(objects), NEW batch, NEW old, Save(objects, batch, old)
        PROVE  writes' >= writes /\ Cardinality(DOMAIN table') >= Cardinality(DOMAIN table)
    <2>1. DOMAIN table \subseteq DOMAIN table'
      BY <1>5 DEF Save, Over
    <2>2. Cardinality(DOMAIN table) <= Cardinality(DOMAIN table')
      BY <1>2, <2>1, FS_Subset
    <2>3. writes' = writes + Len(objects) /\ Len(objects) \in {1, 2}
      BY <1>5 DEF Save, IsBatch
    <2>4. QED
      BY <1>2, <1>4, <2>2, <2>3
  <1>6. ASSUME Write
        PROVE  writes' >= writes /\ Cardinality(DOMAIN table') + writes'
                                        >= Cardinality(DOMAIN table) + writes
    <2>1. PICK session \in store.sessions :
            \/ \E objects \in Batches(store.objects) : Create(objects, session)
            \/ \E objects \in Batches(ToSave(session)) : Update(objects, session)
            \/ \E id \in DOMAIN table : Delete(id, session)
      BY <1>6, Writes
    <2>2. (\A o \in store.objects : IsObject(o)) /\ \A o \in ToSave(session) : IsObject(o)
      BY Deployed, ToSaveDef DEF TableInv, StoreOk, IsObject
    <2>3. CASE \E objects \in Batches(store.objects) : Create(objects, session)
      BY <1>2, <1>4, <1>5, <2>2, <2>3, BatchesDef DEF Create
    <2>4. CASE \E objects \in Batches(ToSave(session)) : Update(objects, session)
      BY <1>2, <1>4, <1>5, <2>2, <2>4, BatchesDef DEF Update
    <2>5. ASSUME NEW id \in DOMAIN table, Delete(id, session)
          PROVE  writes' = writes + 1 /\ Cardinality(DOMAIN table') = Cardinality(DOMAIN table) - 1
      <3>1. writes' = writes + 1 /\ DOMAIN table' = DOMAIN table \ {id}
        BY <2>5 DEF Delete, Restrict
      <3>2. Cardinality(DOMAIN table \ {id}) = Cardinality(DOMAIN table) - 1
        BY <1>2, FS_RemoveElement
      <3>3. QED
        BY <3>1, <3>2
    <2>6. CASE \E id \in DOMAIN table : Delete(id, session)
      BY <1>2, <1>4, <2>5, <2>6
    <2>7. QED
      BY <2>1, <2>3, <2>4, <2>6
  <1>7. CASE UNCHANGED <<rows, writes>>
    BY <1>2, <1>3, <1>4, <1>7
  <1>8. UNCHANGED <<rows, writes>> \/ Write
    BY DEF Next, vars, tableVars, ListNext, Ask, DataArrives, CountArrives, QueryFails, Answer
  <1>9. QED
    BY <1>2, <1>3, <1>6, <1>7, <1>8

\* A method and a client, as WalksAssumption has them.
LEMMA Walking ==
    ASSUME walk \in DOMAIN Walks
    PROVE  /\ {app.defaultPageSize, app.maxPageSize, app.fallback} \subseteq Nat \ {0}
           /\ Raw.page = page /\ Raw.pageSize = input.pageSize /\ Raw.filters = input.filters
           /\ Raw.sort = input.sort
           /\ {input.page, input.pageSize} \subseteq Int \cup {None, NaN, Repeated}
  BY WalksAssumption DEF Raw, app, input

LEMMA PaginationDef ==
    ASSUME walk \in DOMAIN Walks, page \in Int \cup {None, NaN, Repeated}
    PROVE  LET p == Pagination(app, Raw)
           IN  /\ p.page \in Nat \ {0} /\ p.pageSize \in Nat \ {0}
               /\ app.fallback <= app.maxPageSize /\ app.defaultPageSize <= app.maxPageSize
                    => p.pageSize <= app.maxPageSize
  <1>1. Given(Raw.page, 1) \in Int \cup {NaN, Repeated}
        /\ Given(Raw.pageSize, app.defaultPageSize) \in Int \cup {NaN, Repeated}
    BY Walking DEF Given
  <1>2. QED
    BY <1>1, Walking DEF Pagination, Positive

LEMMA SelectedRows == ASSUME NEW q PROVE Selected(q.where, q.params) \subseteq rows
                                         /\ Selected(q.count, q.params) \subseteq rows
  BY DEF Selected

LEMMA PageBounded ==
    ASSUME IsFiniteSet(rows), NEW q, q.limit \in Nat, q.offset \in Nat, NEW D \in Results(q)
    PROVE  Cardinality(D) <= q.limit /\ D \subseteq Selected(q.where, q.params)
  <1> DEFINE S == Selected(q.where, q.params)
  <1>1. PICK R \in SUBSET S : \E T \in Firsts(q.offset, R, q.order) \X
                                       Firsts(q.offset + q.limit, R, q.order) :
                                    T[1] \subseteq T[2] /\ D = T[2] \ T[1]
    BY DEF Results, OnePer
  <1>2. PICK T1 \in Firsts(q.offset, R, q.order), T2 \in Firsts(q.offset + q.limit, R, q.order) :
            T1 \subseteq T2 /\ D = T2 \ T1
    BY <1>1
  <1> DEFINE n == Cardinality(R)
  <1>3. IsFiniteSet(R) /\ n \in Nat
    BY SelectedRows, FS_Subset, FS_CardinalityType
  <1>4. /\ T1 \subseteq R /\ Cardinality(T1) = IF q.offset < n THEN q.offset ELSE n
        /\ T2 \subseteq R
        /\ Cardinality(T2) = IF q.offset + q.limit < n THEN q.offset + q.limit ELSE n
    BY DEF Firsts
  <1>5. IsFiniteSet(T2) /\ Cardinality(T2 \ T1) = Cardinality(T2) - Cardinality(T1)
    <2>1. IsFiniteSet(T2)
      BY <1>3, <1>4, FS_Subset
    <2>2. T2 \cap T1 = T1
      BY <1>2
    <2>3. QED
      BY <2>1, <2>2, FS_Difference
  <1>6. Cardinality(D) <= q.limit
    BY <1>2, <1>3, <1>4, <1>5
  <1>7. D \subseteq S
    BY <1>2, <1>4
  <1>8. QED
    BY <1>6, <1>7

LEMMA CountBounded ==
    ASSUME IsFiniteSet(rows), NEW q
    PROVE  Count(q) \in 0 .. Cardinality(rows)
  <1> DEFINE S == Selected(q.count, q.params)
             f == [r \in S |-> KeyOf(q.groupBy, r)]
             K == {KeyOf(q.groupBy, r) : r \in S}
  <1>1. S \in SUBSET rows /\ IsFiniteSet(S)
    BY SelectedRows, FS_Subset
  <1>2. Cardinality(S) \in Nat /\ Cardinality(rows) \in Nat /\ Cardinality(S) <= Cardinality(rows)
    BY <1>1, FS_CardinalityType, FS_Subset
  <1>3. f \in Surjection(S, K)
    BY DEF Surjection
  <1>4. IsFiniteSet(K) /\ Cardinality(K) <= Cardinality(S)
    BY <1>1, <1>3, FS_Surjection
  <1>5. Cardinality(K) \in Nat
    BY <1>4, FS_CardinalityType
  <1>6. QED
    BY <1>2, <1>4, <1>5 DEF Count

PageInv ==
    /\ page \in Int \cup {None, NaN, Repeated}
    /\ pc \in {"idle", "asked", "over", "refused", "failed"}
    /\ pc = "idle" => data = None /\ total = None
    /\ pc = "asked" =>
        /\ query = Product(app, Raw)
        /\ data # None => Cardinality(data) <= query.limit
        /\ total # None => total \in 0 .. Cardinality(rows) + writes - asked
    /\ pc = "refused" =>
        app.strict \/ Unreadable(input) \/ Repeated \in {input.page, input.pageSize}
    /\ page = Repeated => page = input.page
    /\ asked \in Nat /\ asked <= writes

LEMMA ProductDef ==
    ASSUME TableInv, PageInv
    PROVE  LET p == Pagination(app, Raw)
               q == Product(app, Raw)
           IN  /\ q.limit = p.pageSize /\ q.offset = (p.page - 1) * p.pageSize
               /\ q.limit \in Nat \ {0} /\ q.offset \in Nat
  <1> DEFINE p == Pagination(app, Raw)
  <1>1. p.page \in Nat \ {0} /\ p.pageSize \in Nat \ {0}
    BY PaginationDef DEF TableInv, PageInv
  <1>2. (p.page - 1) * p.pageSize \in Nat
    <2>1. p.page - 1 \in Nat
      BY <1>1
    <2>2. QED
      BY <1>1, <2>1
  <1>3. QED
    BY <1>1, <1>2 DEF Product

LEMMA PageStep == TableInv /\ TableInv' /\ PageInv /\ [Next]_vars => PageInv'
  <1> SUFFICES ASSUME TableInv, TableInv', PageInv, [Next]_vars PROVE PageInv'
    OBVIOUS
  <1>1. walk' = walk
    BY TableStep DEF NewTable
  <1>2. app' = app /\ input' = input /\ IsFiniteSet(rows) /\ writes \in Nat
    BY <1>1, RowsCounted DEF app, input, Counted, TableInv
  <1>3. Cardinality(rows) \in Nat
    BY <1>2, FS_CardinalityType
  <1>4. CASE Ask /\ UNCHANGED recordVars
    <2>1. UNCHANGED <<page, data, total, rows, writes>> /\ asked' = writes
      BY <1>4 DEF Ask, tableVars
    <2>2. Raw' = Raw /\ Raw.filters = input.filters
      BY <1>2, <2>1, Walking DEF Raw, TableInv
    <2>3. CASE pc' = "refused"
      <3>1. Refused(app, Raw)
        BY <1>4, <2>3 DEF Ask
      <3>2. app.strict \/ Unreadable(input) \/ Repeated \in {page, input.pageSize}
        BY <2>2, <3>1, Walking DEF Refused, Unreadable, TableInv
      <3>3. QED
        BY <1>2, <2>1, <2>3, <3>2 DEF PageInv, Unreadable
    <2>4. CASE pc' = "failed"
      BY <1>2, <2>1, <2>4 DEF PageInv
    <2>5. CASE pc' = "asked" /\ query' = Product(app, Raw)
      <3>1. data' = None /\ total' = None
        BY <1>4, <2>1 DEF Ask, PageInv
      <3>2. Product(app, Raw)' = Product(app, Raw)
        BY <1>2, <2>2 DEF Product, Pagination, Where, FilterMap
      <3>3. QED
        BY <1>2, <2>1, <2>5, <3>1, <3>2 DEF PageInv
    <2>6. QED
      BY <1>4, <2>3, <2>4, <2>5 DEF Ask
  <1>5. ASSUME UNCHANGED <<page, query, pc, asked>>, Cardinality(rows') + writes' - asked
                                                        >= Cardinality(rows) + writes - asked,
               Cardinality(rows') \in Int, writes' \in Int, writes' >= writes,
               data' = data \/ Cardinality(data') <= query.limit,
               total' = total \/ total' \in 0 .. Cardinality(rows') + writes' - asked,
               pc = "idle" => data' = data /\ total' = total
        PROVE  PageInv'
    <2>1. Raw' = Raw
      BY <1>2, <1>5 DEF Raw
    <2>2. Product(app, Raw)' = Product(app, Raw)
      BY <1>2, <2>1 DEF Product, Pagination, Where, FilterMap
    <2>3. Unreadable(input)' = Unreadable(input)
      BY <1>2 DEF Unreadable
    <2>4. /\ page' \in Int \cup {None, NaN, Repeated}
          /\ pc' \in {"idle", "asked", "over", "refused", "failed"}
          /\ pc' = "idle" => data' = None /\ total' = None
          /\ pc' = "refused" => app'.strict \/ Unreadable(input)'
                                   \/ Repeated \in {input'.page, input'.pageSize}
          /\ page' = Repeated => page' = input'.page
          /\ asked' \in Nat /\ asked' <= writes'
      BY <1>2, <1>5, <2>3 DEF PageInv
    <2>5. ASSUME pc' = "asked"
          PROVE  /\ query' = Product(app, Raw)'
                 /\ data' # None => Cardinality(data') <= query'.limit
      BY <1>5, <2>2, <2>5 DEF PageInv
    <2>6. ASSUME pc' = "asked", total' # None
          PROVE  total' \in 0 .. Cardinality(rows') + writes' - asked'
      <3>1. CASE total' = total
        <4>1. total \in 0 .. Cardinality(rows) + writes - asked /\ asked \in Nat
          BY <1>5, <2>6, <3>1 DEF PageInv
        <4>2. QED
          BY <1>2, <1>3, <1>5, <3>1, <4>1
      <3>2. CASE total' # total
        BY <1>5, <3>2
      <3>3. QED
        BY <3>1, <3>2
    <2> HIDE DEF Counted
    <2>7. QED
      BY <2>4, <2>5, <2>6 DEF PageInv
  <1>6. CASE ListNext /\ UNCHANGED recordVars
    <2>1. rows' = rows /\ writes' = writes /\ asked \in Nat
      BY <1>6 DEF ListNext, tableVars, Ask, DataArrives, CountArrives, QueryFails, Answer, PageInv
    <2>2. CASE Ask
      BY <1>4, <1>6, <2>2
    <2>3. CASE DataArrives
      <3>1. pc = "asked" /\ data' \in Results(query) /\ UNCHANGED <<page, query, pc, asked, total>>
        BY <2>3 DEF DataArrives
      <3>2. Cardinality(data') <= query.limit
        BY <1>2, <3>1, ProductDef, PageBounded DEF PageInv
      <3>3. QED
        BY <1>2, <1>3, <1>5, <2>1, <3>1, <3>2
    <2>4. CASE CountArrives
      <3>1. /\ pc = "asked" /\ total' = Count(query)
            /\ UNCHANGED <<page, query, pc, asked, data>>
        BY <2>4 DEF CountArrives
      <3>2. total' \in 0 .. Cardinality(rows') + writes' - asked
        <4>1. Count(query) \in 0 .. Cardinality(rows) /\ asked \in Nat /\ asked <= writes
          BY <1>2, CountBounded DEF PageInv
        <4>2. QED
          BY <1>2, <1>3, <2>1, <3>1, <4>1
      <3>3. QED
        BY <1>2, <1>3, <1>5, <2>1, <3>1, <3>2
    <2>5. CASE QueryFails
      BY <1>2, <2>1, <2>5 DEF QueryFails, PageInv
    <2>6. CASE Answer
      <3>1. /\ data' = None /\ total' = None /\ asked' = asked
            /\ \/ pc' = "idle" /\ page' = Pagination(app, Raw).page + 1
               \/ pc' = "over" /\ page' = page
        BY <2>6 DEF Answer
      <3>2. Pagination(app, Raw).page + 1 \in Int /\ Repeated \notin Int
        BY PaginationDef, WalksAssumption DEF TableInv, PageInv
      <3>3. QED
        BY <1>2, <2>1, <3>1, <3>2 DEF PageInv
    <2>7. QED
      BY <1>6, <2>2, <2>3, <2>4, <2>5, <2>6 DEF ListNext
  <1>7. ASSUME UNCHANGED listVars PROVE PageInv'
    <2>1. UNCHANGED <<page, query, pc, asked, data, total>>
      BY <1>7 DEF listVars
    <2>2. /\ writes' \in Nat /\ writes' >= writes
          /\ Cardinality(rows') + writes' >= Cardinality(rows) + writes
      BY RowsKept DEF TableInv
    <2>3. Cardinality(rows') \in Nat
      <3>1. TableInv' => Counted'
        BY RowsCounted, PTL
      <3>2. QED
        BY <3>1, FS_CardinalityType DEF Counted
    <2>4. asked \in Nat
      BY DEF PageInv
    <2>5. Cardinality(rows') + writes' - asked >= Cardinality(rows) + writes - asked
      BY <1>2, <1>3, <2>2, <2>3, <2>4
    <2>6. QED
      BY <1>5, <2>1, <2>2, <2>3, <2>5
  <1>8. QED
    BY <1>6, <1>7 DEF Next, Write, vars

LEMMA InitPage == Init => PageInv
  <1> SUFFICES ASSUME Init PROVE PageInv
    OBVIOUS
  <1>1. walk \in DOMAIN Walks /\ page = input.page /\ pc = "idle" /\ data = None /\ total = None
        /\ asked = 0 /\ writes = 0
    BY DEF Init, ListInit
  <1>2. QED
    BY <1>1, Walking DEF PageInv

LEMMA PageInvariant == Spec => []PageInv
  <1>1. TableInv /\ PageInv /\ [Next]_vars => PageInv'
    BY TableStep, NewTableInv, PageStep
  <1>2. QED
    BY <1>1, InitPage, TableInvariant, PTL DEF Spec

\* No page is larger than it may be, no total than the table was while it was counted, and a
\* tolerant schema refuses only what is no string or an unreadable value of a filter.
THEOREM TypeCorrect == Spec => []ListTypeOK
  <1>1. TableInv /\ PageInv => ListTypeOK
    <2> SUFFICES ASSUME TableInv, PageInv PROVE ListTypeOK
      OBVIOUS
    <2>1. \A r, s \in rows : r.id = s.id => r = s
      BY RowsCounted DEF Counted, TableInv
    <2>2. ASSUME pc = "asked"
          PROVE  /\ query.limit > 0 /\ query.offset >= 0
                 /\ query.offset = (Pagination(app, Raw).page - 1) * query.limit
                 /\ app.fallback <= app.maxPageSize /\ app.defaultPageSize <= app.maxPageSize
                        => query.limit <= app.maxPageSize
      <3>1. query = Product(app, Raw)
        BY <2>2 DEF PageInv
      <3> DEFINE q == Product(app, Raw)
                 p == Pagination(app, Raw)
      <3>2. /\ q.limit = p.pageSize /\ q.offset = (p.page - 1) * p.pageSize
            /\ q.limit \in Nat \ {0} /\ q.offset \in Nat
        BY ProductDef
      <3>3. app.fallback <= app.maxPageSize /\ app.defaultPageSize <= app.maxPageSize
                => p.pageSize <= app.maxPageSize
        BY PaginationDef DEF TableInv, PageInv
      <3> HIDE DEF p, q
      <3>4. QED
        BY <3>1, <3>2, <3>3 DEF p, q
    <2>3. QED
      BY <2>1, <2>2 DEF ListTypeOK, PageInv, TableInv
  <1>2. QED
    BY <1>1, TableInvariant, PageInvariant, PTL

-----------------------------------------------------------------------------
(* Folds.  What a fold does is shown along the sequence, from one element   *)
(* to the next.                                                             *)

LEMMA Along ==
    ASSUME NEW n \in Nat, NEW T, 0 \in T, \A k \in 1 .. n : k - 1 \in T => k \in T
    PROVE  \A k \in 0 .. n : k \in T
  <1> DEFINE S == {k \in 0 .. n : k \notin T}
             smaller == {pair \in Nat \X Nat : pair[1] < pair[2]}
  <1>1. SUFFICES ASSUME S # {} PROVE FALSE
    OBVIOUS
  <1>2. IsWellFoundedOn(smaller, Nat)
    BY NatLessThanWellFounded DEF OpToRel
  <1>3. PICK k \in S : \A j \in S : <<j, k>> \notin smaller
    BY <1>1, <1>2, WFMin
  <1>4. k # 0 /\ k \in 1 .. n /\ k - 1 \in 0 .. n
    OBVIOUS
  <1>5. <<k - 1, k>> \in smaller
    BY <1>4
  <1>s. k - 1 \notin S
    BY <1>3, <1>5
  <1>6. QED
    BY <1>3, <1>4, <1>s

\* The operators that are folded.
FoldOp(kind, w, x) ==
    CASE kind = "known" -> PutKnown(w, x)
      [] kind = "put" -> Put(w, x)
      [] kind = "filter" -> AddFilter(w, x)
      [] kind = "condition" -> AddCondition(w, x)
      [] kind = "sort" -> AddEntry(w, x)
      [] kind = "size" -> w + Cardinality(x)

\* The function that MapThenFoldSet defines, of the sets of indices up to n.
IsIter(kind, b, s, n, g) ==
    g = [S \in SUBSET (1 .. n) |->
            IF S = {} THEN b ELSE FoldOp(kind, g[S \ {Max(S)}], s[Max(S)])]

Iter(kind, b, s) == CHOOSE g : IsIter(kind, b, s, Len(s), g)

LEMMA FoldIter ==
    ASSUME NEW b, NEW s, DOMAIN s = 1 .. Len(s)
    PROVE  /\ FoldLeft(PutKnown, b, s) = Iter("known", b, s)[1 .. Len(s)]
           /\ FoldLeft(Put, b, s) = Iter("put", b, s)[1 .. Len(s)]
           /\ FoldLeft(AddFilter, b, s) = Iter("filter", b, s)[1 .. Len(s)]
           /\ FoldLeft(AddCondition, b, s) = Iter("condition", b, s)[1 .. Len(s)]
  <1>1. FoldLeft(PutKnown, b, s) = Iter("known", b, s)[1 .. Len(s)]
    BY DEF FoldLeft, MapThenFoldSet, Iter, IsIter, FoldOp
  <1>2. FoldLeft(Put, b, s) = Iter("put", b, s)[1 .. Len(s)]
    BY DEF FoldLeft, MapThenFoldSet, Iter, IsIter, FoldOp
  <1>3. FoldLeft(AddFilter, b, s) = Iter("filter", b, s)[1 .. Len(s)]
    BY DEF FoldLeft, MapThenFoldSet, Iter, IsIter, FoldOp
  <1>4. FoldLeft(AddCondition, b, s) = Iter("condition", b, s)[1 .. Len(s)]
    BY DEF FoldLeft, MapThenFoldSet, Iter, IsIter, FoldOp
  <1>5. QED
    BY <1>1, <1>2, <1>3, <1>4

LEMMA MaxOf ==
    ASSUME NEW n \in Nat, NEW S \in SUBSET (1 .. n), n \in S
    PROVE  Max(S) = n
  <1>1. \A y \in S : n >= y
    OBVIOUS
  <1>2. \A x \in S : (\A y \in S : x >= y) => x = n
    BY <1>1
  <1>3. QED
    BY <1>1, <1>2 DEF Max

LEMMA IterExists ==
    ASSUME NEW kind, NEW b, NEW s, NEW n \in Nat
    PROVE  \E g : IsIter(kind, b, s, n, g)
  <1> DEFINE T == {m \in 0 .. n : \E g : IsIter(kind, b, s, m, g)}
  <1>1. 0 \in T
    <2> DEFINE g == [S \in SUBSET (1 .. 0) |-> b]
    <2>1. SUBSET (1 .. 0) = {{}}
      OBVIOUS
    <2>2. IsIter(kind, b, s, 0, g)
      BY <2>1 DEF IsIter
    <2>3. QED
      BY <2>2
  <1>2. ASSUME NEW m \in 1 .. n, m - 1 \in T PROVE m \in T
    <2>1. PICK g : IsIter(kind, b, s, m - 1, g)
      BY <1>2
    <2> DEFINE h == [S \in SUBSET (1 .. m) |->
                        IF S = {} THEN b
                        ELSE IF m \in S THEN FoldOp(kind, g[S \ {m}], s[m]) ELSE g[S]]
    <2>2. ASSUME NEW S \in SUBSET (1 .. m - 1) PROVE h[S] = g[S]
      <3>1. S \in SUBSET (1 .. m) /\ m \notin S
        OBVIOUS
      <3>2. S = {} => g[S] = b
        BY <2>1 DEF IsIter
      <3>3. QED
        BY <3>1, <3>2
    <2>3. ASSUME NEW S \in SUBSET (1 .. m), S # {}
          PROVE  h[S] = FoldOp(kind, h[S \ {Max(S)}], s[Max(S)])
      <3>1. CASE m \in S
        <4>1. Max(S) = m /\ S \ {m} \in SUBSET (1 .. m - 1)
          BY <3>1, MaxOf
        <4>2. h[S] = FoldOp(kind, g[S \ {m}], s[m])
          BY <2>3, <3>1
        <4>3. h[S \ {m}] = g[S \ {m}]
          BY <2>2, <4>1
        <4> HIDE DEF h
        <4>4. QED
          BY <4>1, <4>2, <4>3
      <3>2. CASE m \notin S
        <4>1. S \in SUBSET (1 .. m - 1) /\ S \ {Max(S)} \in SUBSET (1 .. m - 1)
          <5>1. \A i \in 1 .. m : i # m => i \in 1 .. m - 1
            OBVIOUS
          <5>2. S \in SUBSET (1 .. m - 1)
            BY <3>2, <5>1
          <5>3. QED
            BY <5>2
        <4>2. h[S] = g[S] /\ h[S \ {Max(S)}] = g[S \ {Max(S)}]
          BY <2>2, <4>1
        <4>3. g[S] = FoldOp(kind, g[S \ {Max(S)}], s[Max(S)])
          BY <2>1, <2>3, <4>1 DEF IsIter
        <4> HIDE DEF h
        <4>4. QED
          BY <4>2, <4>3
      <3>3. QED
        BY <3>1, <3>2
    <2>4. h[{}] = b
      OBVIOUS
    <2>5. h = [S \in SUBSET (1 .. m) |-> h[S]]
      OBVIOUS
    <2>6. h = [S \in SUBSET (1 .. m) |->
                IF S = {} THEN b ELSE FoldOp(kind, h[S \ {Max(S)}], s[Max(S)])]
      <3> HIDE DEF h
      <3>1. QED
        BY <2>3, <2>4, <2>5
    <2>7. IsIter(kind, b, s, m, h)
      <3> HIDE DEF h
      <3>1. QED
        BY <2>6 DEF IsIter
    <2>8. QED
      BY <2>7
  <1> HIDE DEF T
  <1>3. n \in T
    BY <1>1, <1>2, Along
  <1>4. QED
    BY <1>3 DEF T

\* The values of a fold along its sequence.
LEMMA FoldChain ==
    ASSUME NEW kind, NEW b, NEW s, Len(s) \in Nat
    PROVE  \E W : /\ W[0] = b
                  /\ \A k \in 1 .. Len(s) : W[k] = FoldOp(kind, W[k - 1], s[k])
                  /\ W[Len(s)] = Iter(kind, b, s)[1 .. Len(s)]
  <1> DEFINE n == Len(s)
             g == Iter(kind, b, s)
             W == [k \in 0 .. n |-> g[1 .. k]]
  <1>1. IsIter(kind, b, s, n, g)
    BY IterExists DEF Iter
  <1>2. W[0] = b
    BY <1>1 DEF IsIter
  <1>3. ASSUME NEW k \in 1 .. n PROVE W[k] = FoldOp(kind, W[k - 1], s[k])
    <2>1. 1 .. k \in SUBSET (1 .. n) /\ 1 .. k # {} /\ (1 .. k) \ {k} = 1 .. (k - 1)
      <3>1. 1 \in 1 .. k /\ \A i \in 1 .. k : i \in 1 .. n
        OBVIOUS
      <3>2. \A i : i \in (1 .. k) \ {k} <=> i \in 1 .. (k - 1)
        OBVIOUS
      <3>3. QED
        BY <3>1, <3>2
    <2>2. Max(1 .. k) = k
      BY MaxOf
    <2>3. g[1 .. k] = FoldOp(kind, g[(1 .. k) \ {k}], s[k])
      BY <1>1, <2>1, <2>2 DEF IsIter
    <2>4. W[k] = g[1 .. k] /\ W[k - 1] = g[1 .. (k - 1)]
      OBVIOUS
    <2> HIDE DEF W, g
    <2>5. QED
      BY <2>1, <2>3, <2>4
  <1>4. W[n] = g[1 .. n]
    OBVIOUS
  <1> HIDE DEF W, g
  <1>5. QED
    BY <1>2, <1>3, <1>4 DEF g

-----------------------------------------------------------------------------
(* The filters of a query.                                                  *)

LEMMA PutSet ==
    ASSUME NEW A, NEW w \in Seq(A), NEW g \in A, g.value # None
    PROVE  /\ Put(w, g) \in Seq(A)
           /\ ToSet(Put(w, g)) = {f \in ToSet(w) : ~SameKey(f, g)} \cup {g}
  <1>1. CASE \E i \in DOMAIN w : SameKey(w[i], g)
    <2> DEFINE u == [i \in DOMAIN w |-> IF SameKey(w[i], g) THEN g ELSE w[i]]
    <2>1. Put(w, g) = u
      BY <1>1 DEF Put
    <2>2. u \in Seq(A)
      OBVIOUS
    <2>3. {u[i] : i \in DOMAIN u} = {f \in {w[i] : i \in DOMAIN w} : ~SameKey(f, g)} \cup {g}
      <3>1. g \in {u[i] : i \in DOMAIN u}
        BY <1>1
      <3>2. QED
        BY <3>1
    <2>4. QED
      BY <2>1, <2>2, <2>3 DEF ToSet
  <1>2. CASE ~ \E i \in DOMAIN w : SameKey(w[i], g)
    <2>1. Put(w, g) = Append(w, g)
      BY <1>2 DEF Put
    <2>2. Append(w, g) \in Seq(A)
      OBVIOUS
    <2> DEFINE u == Append(w, g)
    <2>3. /\ DOMAIN u = DOMAIN w \cup {Len(w) + 1}
          /\ u[Len(w) + 1] = g /\ \A i \in DOMAIN w : u[i] = w[i]
      OBVIOUS
    <2> HIDE DEF u
    <2>4. {u[i] : i \in DOMAIN u} = {w[i] : i \in DOMAIN w} \cup {g}
      BY <2>3
    <2>5. {f \in {w[i] : i \in DOMAIN w} : ~SameKey(f, g)} = {w[i] : i \in DOMAIN w}
      BY <1>2
    <2>6. QED
      BY <2>1, <2>2, <2>4, <2>5 DEF ToSet, u
  <1>3. QED
    BY <1>1, <1>2

\* The client's filters that the schema knows.
LEMMA KnownFilters ==
    ASSUME NEW A, NEW s \in Seq(A), \A f \in ToSet(s) : f.value # None,
           \A i, j \in DOMAIN s : SameKey(s[i], s[j]) => i = j
    PROVE  /\ FoldLeft(PutKnown, <<>>, s) \in Seq(A)
           /\ ToSet(FoldLeft(PutKnown, <<>>, s)) = {f \in ToSet(s) : Known(f)}
  <1> DEFINE n == Len(s)
  <1>1. n \in Nat /\ DOMAIN s = 1 .. n
    OBVIOUS
  <1>2. PICK W : /\ W[0] = <<>>
                 /\ \A k \in 1 .. n : W[k] = FoldOp("known", W[k - 1], s[k])
                 /\ W[n] = FoldLeft(PutKnown, <<>>, s)
    <2> DEFINE b == <<>>
    <2>1. FoldLeft(PutKnown, b, s) = Iter("known", b, s)[1 .. n]
      BY <1>1, FoldIter
    <2> HIDE DEF b
    <2>2. \E W : /\ W[0] = b
                 /\ \A k \in 1 .. n : W[k] = FoldOp("known", W[k - 1], s[k])
                 /\ W[n] = FoldLeft(PutKnown, b, s)
      BY <1>1, <2>1, FoldChain
    <2>3. QED
      BY <2>2 DEF b
  <1> DEFINE upto(k) == {s[i] : i \in {j \in 1 .. k : Known(s[j])}}
             T == {k \in 0 .. n : W[k] \in Seq(A) /\ ToSet(W[k]) = upto(k)}
  <1>3. 0 \in T
    <2>1. ToSet(<<>>) = {} /\ upto(0) = {}
      BY DEF ToSet
    <2>2. <<>> \in Seq(A) /\ 0 \in 0 .. n
      BY <1>1
    <2>3. W[0] \in Seq(A) /\ ToSet(W[0]) = upto(0)
      BY <1>2, <2>1, <2>2
    <2>4. QED
      BY <2>2, <2>3
  <1>4. ASSUME NEW k \in 1 .. n, k - 1 \in T PROVE k \in T
    <2>1. W[k] = PutKnown(W[k - 1], s[k]) /\ k - 1 \in 0 .. n /\ k \in 0 .. n
      BY <1>2 DEF FoldOp
    <2>2. W[k - 1] \in Seq(A) /\ ToSet(W[k - 1]) = upto(k - 1)
      BY <1>4
    <2>3. s[k] \in A /\ s[k].value # None /\ k \in DOMAIN s
      BY <1>1 DEF ToSet
    <2>4. CASE ~Known(s[k])
      <3>1. W[k] = W[k - 1]
        BY <2>1, <2>4 DEF PutKnown
      <3>2. {j \in 1 .. k : Known(s[j])} = {j \in 1 .. (k - 1) : Known(s[j])}
        BY <2>4
      <3>3. upto(k) = upto(k - 1)
        BY <3>2
      <3> HIDE DEF upto
      <3>4. QED
        BY <2>1, <2>2, <3>1, <3>3
    <2>5. CASE Known(s[k])
      <3>1. W[k] = Put(W[k - 1], s[k])
        BY <2>1, <2>5 DEF PutKnown
      <3>2. {f \in upto(k - 1) : ~SameKey(f, s[k])} = upto(k - 1)
        <4>1. ASSUME NEW j \in 1 .. (k - 1) PROVE ~SameKey(s[j], s[k])
          BY <1>1, <2>3
        <4>2. QED
          BY <4>1
      <3>3. {j \in 1 .. k : Known(s[j])} = {j \in 1 .. (k - 1) : Known(s[j])} \cup {k}
        BY <2>5
      <3>4. upto(k) = upto(k - 1) \cup {s[k]}
        BY <3>3
      <3> HIDE DEF upto
      <3>5. W[k] \in Seq(A) /\ ToSet(W[k]) = upto(k - 1) \cup {s[k]}
        <4> DEFINE w == W[k - 1]
                   g == s[k]
        <4>1. /\ w \in Seq(A) /\ g \in A /\ g.value # None /\ W[k] = Put(w, g)
              /\ {f \in ToSet(w) : ~SameKey(f, g)} = upto(k - 1)
          BY <2>2, <2>3, <3>1, <3>2
        <4> HIDE DEF w, g
        <4>2. Put(w, g) \in Seq(A) /\ ToSet(Put(w, g)) = {f \in ToSet(w) : ~SameKey(f, g)} \cup {g}
          BY <4>1, PutSet
        <4>3. QED
          BY <4>1, <4>2 DEF g
      <3>6. QED
        BY <2>1, <3>4, <3>5
    <2>6. QED
      BY <2>4, <2>5
  <1>5. n \in T
    <2> HIDE DEF T
    <2>1. QED
      BY <1>1, <1>3, <1>4, Along
  <1>6. upto(n) = {f \in ToSet(s) : Known(f)}
    BY <1>1 DEF ToSet
  <1>7. QED
    BY <1>2, <1>5, <1>6

\* The method's own filters over them.
LEMMA OwnFilters ==
    ASSUME NEW A, NEW s \in Seq(A), NEW G \in Seq(A),
           \A i, j \in DOMAIN s : SameKey(s[i], s[j]) => i = j
    PROVE  LET own == {f \in ToSet(s) : f.value # None}
           IN  /\ FoldLeft(Put, G, s) \in Seq(A)
               /\ ToSet(FoldLeft(Put, G, s))
                    = own \cup {f \in ToSet(G) : \A g \in own : ~SameKey(f, g)}
  <1> DEFINE n == Len(s)
  <1>1. n \in Nat /\ DOMAIN s = 1 .. n
    OBVIOUS
  <1>2. PICK W : /\ W[0] = G
                 /\ \A k \in 1 .. n : W[k] = FoldOp("put", W[k - 1], s[k])
                 /\ W[n] = FoldLeft(Put, G, s)
    BY <1>1, FoldChain, FoldIter
  <1> DEFINE own(k) == {s[i] : i \in {j \in 1 .. k : s[j].value # None}}
             rest(k) == {f \in ToSet(G) : \A g \in own(k) : ~SameKey(f, g)}
             T == {k \in 0 .. n : W[k] \in Seq(A) /\ ToSet(W[k]) = own(k) \cup rest(k)}
  <1>3. 0 \in T
    <2>1. own(0) = {}
      OBVIOUS
    <2>2. QED
      BY <1>1, <1>2, <2>1
  <1>4. ASSUME NEW k \in 1 .. n, k - 1 \in T PROVE k \in T
    <2>1. W[k] = Put(W[k - 1], s[k]) /\ k - 1 \in 0 .. n /\ k \in 0 .. n
      BY <1>2 DEF FoldOp
    <2>2. W[k - 1] \in Seq(A) /\ ToSet(W[k - 1]) = own(k - 1) \cup rest(k - 1)
      BY <1>4
    <2>3. s[k] \in A /\ k \in DOMAIN s
      BY <1>1
    <2>4. CASE s[k].value = None
      <3>1. W[k] = W[k - 1]
        BY <2>1, <2>4 DEF Put
      <3>2. {j \in 1 .. k : s[j].value # None} = {j \in 1 .. (k - 1) : s[j].value # None}
        BY <2>4
      <3>3. own(k) = own(k - 1)
        BY <3>2
      <3>4. rest(k) = rest(k - 1)
        BY <3>3
      <3> HIDE DEF own, rest
      <3>5. QED
        BY <2>1, <2>2, <3>1, <3>3, <3>4
    <2>5. CASE s[k].value # None
      <3>1. {f \in own(k - 1) : ~SameKey(f, s[k])} = own(k - 1)
        <4>1. ASSUME NEW j \in 1 .. (k - 1) PROVE ~SameKey(s[j], s[k])
          BY <1>1, <2>3
        <4>2. QED
          BY <4>1
      <3>2. {j \in 1 .. k : s[j].value # None}
                = {j \in 1 .. (k - 1) : s[j].value # None} \cup {k}
        BY <2>5
      <3>3. own(k) = own(k - 1) \cup {s[k]}
        BY <3>2
      <3>4. rest(k) = {f \in rest(k - 1) : ~SameKey(f, s[k])}
        <4> HIDE DEF own
        <4>1. QED
          BY <3>3
      <3> HIDE DEF own, rest
      <3>5. W[k] \in Seq(A) /\ ToSet(W[k]) = {f \in ToSet(W[k - 1]) : ~SameKey(f, s[k])} \cup {s[k]}
        <4> DEFINE w == W[k - 1]
                   g == s[k]
        <4>1. w \in Seq(A) /\ g \in A /\ g.value # None /\ W[k] = Put(w, g)
          BY <2>1, <2>2, <2>3, <2>5
        <4> HIDE DEF w, g
        <4>2. Put(w, g) \in Seq(A) /\ ToSet(Put(w, g)) = {f \in ToSet(w) : ~SameKey(f, g)} \cup {g}
          BY <4>1, PutSet
        <4>3. QED
          BY <4>1, <4>2 DEF w, g
      <3>6. QED
        BY <2>1, <2>2, <3>1, <3>3, <3>4, <3>5
    <2>6. QED
      BY <2>4, <2>5
  <1>5. n \in T
    <2>1. 0 \in T /\ \A k \in 1 .. n : k - 1 \in T => k \in T
      BY <1>3, <1>4
    <2>2. n \in Nat
      BY <1>1
    <2> HIDE DEF T, n
    <2>3. \A k \in 0 .. n : k \in T
      BY <2>1, <2>2, Along
    <2>4. QED
      BY <2>2, <2>3
  <1>6. own(n) = {f \in ToSet(s) : f.value # None}
    BY <1>1 DEF ToSet
  <1> HIDE DEF own
  <1>7. QED
    BY <1>2, <1>5, <1>6

-----------------------------------------------------------------------------
(* The WHERE clause, when no condition has an OR outside parentheses.       *)

LEMMA AndOne == ASSUME NEW P, NEW Q PROVE And(<<P>>, <<Q>>) = <<P \cup Q>>
  <1>1. Front(<<P>>) = <<>> /\ Last(<<P>>) = P
    BY DEF Front, Last
  <1>2. Head(<<Q>>) = Q /\ Tail(<<Q>>) = <<>>
    OBVIOUS
  <1> DEFINE X == P \cup Q
  <1>3. And(<<P>>, <<Q>>) = <<>> \o <<X>> \o <<>>
    BY <1>1, <1>2 DEF And
  <1> HIDE DEF X
  <1>4. <<>> \o <<X>> \o <<>> = <<X>>
    OBVIOUS
  <1>5. QED
    BY <1>3, <1>4 DEF X

LEMMA Concat ==
    ASSUME NEW V, NEW u \in Seq(V), NEW v \in Seq(V)
    PROVE  /\ u \o v \in Seq(V) /\ Len(u \o v) = Len(u) + Len(v)
           /\ \A k \in 1 .. Len(v) : (u \o v)[Len(u) + k] = v[k]
  OBVIOUS

\* A clause of one alternative whose placeholders have their parameters, and whether a row
\* meets it.
WhereOk(V, w) ==
    /\ w.text = <<w.text[1]>> /\ w.params \in Seq(V)
    /\ \A p \in w.text[1] : p.param \in 0 .. Len(w.params)

Sat(w, r) == \A p \in w.text[1] : Holds(p, w.params, r)

\* Parameters are found behind the parameters of what comes before.
LEMMA HoldsStill ==
    ASSUME NEW V, NEW u \in Seq(V), NEW v \in Seq(V), NEW p, p.param \in 0 .. Len(u), NEW r
    PROVE  Holds(p, u \o v, r) <=> Holds(p, u, r)
  <1>1. p.param # 0 => (u \o v)[p.param] = u[p.param]
    OBVIOUS
  <1>2. QED
    BY <1>1 DEF Holds

LEMMA FilterAdded ==
    ASSUME NEW V, NEW w, WhereOk(V, w), NEW f, f.value \in V
    PROVE  /\ WhereOk(V, AddFilter(w, f))
           /\ \A r : Sat(AddFilter(w, f), r)
                        <=> Sat(w, r) /\ Compares(Clause(f), r[f.field], f.value)
  <1> DEFINE binds == Clause(f) \notin {"isNull", "isNotNull"}
             n == IF binds THEN Len(w.params) + 1 ELSE 0
             p == [field |-> f.field, op |-> Clause(f), param |-> n]
             more == IF binds THEN <<f.value>> ELSE <<>>
             u == AddFilter(w, f)
  <1>1. w.text = <<w.text[1]>> /\ w.params \in Seq(V) /\ more \in Seq(V)
    BY DEF WhereOk
  <1>2. u.params = w.params \o more
    <2>1. u.params = IF binds THEN Append(w.params, f.value) ELSE w.params
      BY DEF AddFilter
    <2>2. Append(w.params, f.value) = w.params \o <<f.value>> /\ w.params \o <<>> = w.params
      BY <1>1
    <2>3. QED
      BY <2>1, <2>2
  <1>3. u.text = <<w.text[1] \cup {p}>>
    <2>1. u.text = And(w.text, <<{p}>>)
      BY DEF AddFilter
    <2> HIDE DEF p, u
    <2>2. QED
      BY <1>1, <2>1, AndOne
  <1>4. u.text[1] = w.text[1] \cup {p}
    BY <1>3
  <1>5. p.param = n /\ p.op = Clause(f) /\ p.field = f.field
    OBVIOUS
  <1>6. u.params \in Seq(V) /\ Len(u.params) = Len(w.params) + (IF binds THEN 1 ELSE 0)
        /\ (binds => u.params[n] = f.value)
    <2>1. Len(more) = (IF binds THEN 1 ELSE 0) /\ (binds => more[1] = f.value)
      OBVIOUS
    <2> HIDE DEF more, u
    <2>2. /\ u.params \in Seq(V) /\ Len(u.params) = Len(w.params) + Len(more)
          /\ \A k \in 1 .. Len(more) : u.params[Len(w.params) + k] = more[k]
      BY <1>1, <1>2, Concat
    <2>3. QED
      BY <2>1, <2>2
  <1>7. WhereOk(V, u)
    <2>1. \A q \in w.text[1] : q.param \in 0 .. Len(w.params)
      BY DEF WhereOk
    <2>2. Len(w.params) \in Nat
      BY <1>1
    <2>3. n \in 0 .. Len(u.params) /\ 0 .. Len(w.params) \subseteq 0 .. Len(u.params)
      <3>1. CASE binds
        <4>1. n = Len(w.params) + 1 /\ Len(u.params) = Len(w.params) + 1
          BY <1>6, <3>1
        <4> HIDE DEF u, n
        <4>2. QED
          BY <2>2, <4>1
      <3>2. CASE ~binds
        <4>1. n = 0 /\ Len(u.params) = Len(w.params)
          BY <1>6, <2>2, <3>2
        <4> HIDE DEF u, n
        <4>2. QED
          BY <2>2, <4>1
      <3>3. QED
        BY <3>1, <3>2
    <2>4. u.text = <<u.text[1]>>
      BY <1>3, <1>4
    <2> HIDE DEF u, p, n
    <2>5. QED
      BY <1>4, <1>5, <1>6, <2>1, <2>3, <2>4 DEF WhereOk
  <1>8. ASSUME NEW r
        PROVE  Sat(u, r) <=> Sat(w, r) /\ Compares(Clause(f), r[f.field], f.value)
    <2>1. \A q \in w.text[1] : Holds(q, u.params, r) <=> Holds(q, w.params, r)
      <3> HIDE DEF u, more
      <3>1. ASSUME NEW q \in w.text[1] PROVE Holds(q, u.params, r) <=> Holds(q, w.params, r)
        <4>1. q.param \in 0 .. Len(w.params)
          BY DEF WhereOk
        <4>2. Holds(q, w.params \o more, r) <=> Holds(q, w.params, r)
          BY <1>1, <4>1, HoldsStill
        <4>3. QED
          BY <1>2, <4>2
      <3>2. QED
        BY <3>1
    <2>2. Holds(p, u.params, r) <=> Compares(Clause(f), r[f.field], f.value)
      <3>1. CASE binds
        <4>1. n # 0
          BY <1>1, <3>1
        <4>2. u.params[n] = f.value
          BY <1>6, <3>1
        <4> HIDE DEF u, n, p
        <4>3. QED
          BY <1>5, <4>1, <4>2 DEF Holds
      <3>2. CASE ~binds
        BY <3>2 DEF Holds, Compares
      <3>3. QED
        BY <3>1, <3>2
    <2> HIDE DEF u, p
    <2>3. QED
      BY <1>4, <2>1, <2>2 DEF Sat
  <1>9. QED
    BY <1>7, <1>8

\* A condition of one alternative with a parameter for each of its marks, as WalksAssumption
\* has it.
ConditionOk(V, c) ==
    /\ c.text \in Seq(ToSet(c.text)) /\ c.params \in Seq(V)
    /\ \A p \in UNION ToSet(c.text) :
        p = [field |-> p.field, op |-> p.op, param |-> p.param] /\ p.param \in Nat
    /\ Len(c.text) = 1 /\ ~Mismatched(c)

LEMMA ConditionAdded ==
    ASSUME NEW V, NEW w, WhereOk(V, w), NEW c, ConditionOk(V, c)
    PROVE  /\ WhereOk(V, AddCondition(w, c))
           /\ \A r : Sat(AddCondition(w, c), r)
                        <=> Sat(w, r) /\ \E i \in DOMAIN c.text :
                                            \A p \in c.text[i] : Holds(p, c.params, r)
  <1> DEFINE m == Len(w.params)
             rebased(p) == IF p.param = 0 THEN p ELSE [p EXCEPT !.param = @ + m]
             Q == {rebased(p) : p \in c.text[1]}
             u == AddCondition(w, c)
  <1>1. /\ w.text = <<w.text[1]>> /\ w.params \in Seq(V) /\ m \in Nat
        /\ c.params \in Seq(V) /\ Len(c.params) \in Nat
        /\ DOMAIN c.params = 1 .. Len(c.params)
    BY DEF WhereOk, ConditionOk
  <1>2. DOMAIN c.text = {1} /\ c.text[1] \subseteq UNION ToSet(c.text)
    BY DEF ConditionOk, ToSet
  <1>3. u.params = w.params \o c.params
    BY DEF AddCondition
  <1>4. u.text = <<w.text[1] \cup Q>>
    <2> DEFINE text == [i \in DOMAIN c.text |-> {rebased(p) : p \in c.text[i]}]
    <2>1. u.text = And(w.text, text)
      BY DEF AddCondition
    <2>2. text = [i \in {1} |-> text[i]] /\ DOMAIN text = {1} /\ text[1] = Q
      BY <1>2
    <2> HIDE DEF text, Q, u
    <2>3. text = <<Q>>
      BY <2>2, OneTuple
    <2>4. QED
      BY <1>1, <2>1, <2>3, AndOne
  <1>5. u.text[1] = w.text[1] \cup Q /\ u.text = <<u.text[1]>>
    BY <1>4
  <1>6. u.params \in Seq(V) /\ Len(u.params) = m + Len(c.params)
        /\ \A k \in 1 .. Len(c.params) : u.params[m + k] = c.params[k]
    <2> DEFINE a == w.params
               b == c.params
    <2>1. a \in Seq(V) /\ b \in Seq(V) /\ m = Len(a) /\ u.params = a \o b
      BY <1>1, <1>3
    <2> HIDE DEF u, a, b, m
    <2>2. /\ a \o b \in Seq(V) /\ Len(a \o b) = Len(a) + Len(b)
          /\ \A k \in 1 .. Len(b) : (a \o b)[Len(a) + k] = b[k]
      BY <2>1, Concat
    <2>3. /\ u.params \in Seq(V) /\ Len(u.params) = m + Len(b)
          /\ \A k \in 1 .. Len(b) : u.params[m + k] = b[k]
      BY <2>1, <2>2
    <2>4. QED
      BY <2>3 DEF b
  <1>7. ASSUME NEW p \in c.text[1]
        PROVE  /\ p.param = 0 \/ p.param \in 1 .. Len(c.params)
               /\ rebased(p).param = IF p.param = 0 THEN 0 ELSE p.param + m
               /\ rebased(p).op = p.op /\ rebased(p).field = p.field
    <2>1. p = [field |-> p.field, op |-> p.op, param |-> p.param] /\ p.param \in Nat
      BY <1>2 DEF ConditionOk
    <2>2. {q.param : q \in UNION ToSet(c.text)} \ {0} = DOMAIN c.params
      BY DEF ConditionOk, Mismatched
    <2>3. p.param = 0 \/ p.param \in DOMAIN c.params
      BY <1>2, <2>2
    <2>4. QED
      BY <1>1, <2>1, <2>3
  <1>8. WhereOk(V, u)
    <2>1. \A p \in w.text[1] : p.param \in 0 .. m
      BY DEF WhereOk
    <2>2. 0 .. m \subseteq 0 .. Len(u.params)
      <3> HIDE DEF u, m
      <3>1. QED
        BY <1>1, <1>6
    <2>3. ASSUME NEW q \in Q PROVE q.param \in 0 .. Len(u.params)
      <3>1. PICK p \in c.text[1] : q = rebased(p)
        OBVIOUS
      <3>2. p.param = 0 \/ p.param \in 1 .. Len(c.params)
        BY <1>7
      <3>3. q.param = IF p.param = 0 THEN 0 ELSE p.param + m
        BY <1>7, <3>1
      <3> HIDE DEF u, m, rebased
      <3>4. QED
        BY <1>1, <1>6, <3>2, <3>3
    <2> HIDE DEF u, Q
    <2>4. QED
      BY <1>5, <1>6, <2>1, <2>2, <2>3 DEF WhereOk
  <1>9. ASSUME NEW r
        PROVE  Sat(u, r) <=> Sat(w, r) /\ \E i \in DOMAIN c.text :
                                            \A p \in c.text[i] : Holds(p, c.params, r)
    <2>1. \A q \in w.text[1] : Holds(q, u.params, r) <=> Holds(q, w.params, r)
      <3> HIDE DEF u
      <3>1. QED
        BY <1>1, <1>3, HoldsStill DEF WhereOk
    <2>2. ASSUME NEW p \in c.text[1]
          PROVE  Holds(rebased(p), u.params, r) <=> Holds(p, c.params, r)
      <3> DEFINE q == rebased(p)
      <3>1. q.op = p.op /\ q.field = p.field /\ q.param = IF p.param = 0 THEN 0 ELSE p.param + m
        BY <1>7
      <3>2. p.param = 0 \/ p.param \in 1 .. Len(c.params)
        BY <1>7
      <3> HIDE DEF q, u, m
      <3>3. p.param # 0 => q.param # 0 /\ u.params[q.param] = c.params[p.param]
        BY <1>1, <1>6, <3>1, <3>2
      <3>4. p.param = 0 => q.param = 0
        BY <3>1
      <3>5. Holds(q, u.params, r) <=> Holds(p, c.params, r)
        BY <3>1, <3>3, <3>4 DEF Holds
      <3>6. QED
        BY <3>5 DEF q
    <2>3. (\A q \in Q : Holds(q, u.params, r)) <=> \A p \in c.text[1] : Holds(p, c.params, r)
      BY <2>2
    <2> HIDE DEF u, Q
    <2>4. Sat(u, r) <=> Sat(w, r) /\ \A p \in c.text[1] : Holds(p, c.params, r)
      BY <1>5, <2>1, <2>3 DEF Sat
    <2>5. QED
      BY <1>2, <2>4
  <1>10. QED
    BY <1>8, <1>9

LEMMA FiltersAdded ==
    ASSUME NEW V, NEW A, \A f \in A : f.value \in V, NEW s \in Seq(A)
    PROVE  LET w == FoldLeft(AddFilter, Nothing, s)
           IN  /\ WhereOk(V, w)
               /\ \A r : Sat(w, r) <=> \A f \in ToSet(s) : Compares(Clause(f), r[f.field], f.value)
  <1> DEFINE n == Len(s)
             meets(r, i) == Compares(Clause(s[i]), r[s[i].field], s[i].value)
  <1>1. n \in Nat /\ DOMAIN s = 1 .. n
    OBVIOUS
  <1>2. PICK W : /\ W[0] = Nothing
                 /\ \A k \in 1 .. n : W[k] = FoldOp("filter", W[k - 1], s[k])
                 /\ W[n] = FoldLeft(AddFilter, Nothing, s)
    BY <1>1, FoldChain, FoldIter
  <1> DEFINE T == {k \in 0 .. n : /\ WhereOk(V, W[k])
                                  /\ \A r : Sat(W[k], r) <=> \A i \in 1 .. k : meets(r, i)}
  <1>3. 0 \in T
    <2>1. Nothing.text = <<Nothing.text[1]>> /\ Nothing.text[1] = {} /\ Nothing.params = <<>>
      BY DEF Nothing
    <2>2. WhereOk(V, Nothing) /\ \A r : Sat(Nothing, r)
      BY <2>1 DEF WhereOk, Sat
    <2> HIDE DEF meets
    <2>3. QED
      BY <1>1, <1>2, <2>2
  <1>4. ASSUME NEW k \in 1 .. n, k - 1 \in T PROVE k \in T
    <2>1. W[k] = AddFilter(W[k - 1], s[k]) /\ k - 1 \in 0 .. n /\ k \in 0 .. n
      BY <1>2 DEF FoldOp
    <2>2. s[k].value \in V
      BY <1>1
    <2>3. WhereOk(V, W[k - 1])
          /\ \A r : Sat(W[k - 1], r) <=> \A i \in 1 .. (k - 1) : meets(r, i)
      BY <1>4
    <2>4. WhereOk(V, W[k]) /\ \A r : Sat(W[k], r) <=> Sat(W[k - 1], r) /\ meets(r, k)
      BY <2>1, <2>2, <2>3, FilterAdded
    <2> HIDE DEF meets
    <2>5. ASSUME NEW r PROVE Sat(W[k], r) <=> \A i \in 1 .. k : meets(r, i)
      <3>1. \A i : i \in 1 .. k <=> i \in 1 .. (k - 1) \/ i = k
        OBVIOUS
      <3>2. (\A i \in 1 .. k : meets(r, i)) <=> meets(r, k) /\ \A i \in 1 .. (k - 1) : meets(r, i)
        BY <3>1, Zenon
      <3>3. Sat(W[k], r) <=> meets(r, k) /\ \A i \in 1 .. (k - 1) : meets(r, i)
        BY <2>3, <2>4, Zenon
      <3>4. QED
        BY <3>2, <3>3, Zenon
    <2>6. QED
      BY <2>1, <2>4, <2>5
  <1>5. n \in T
    <2>1. 0 \in T /\ \A k \in 1 .. n : k - 1 \in T => k \in T
      BY <1>3, <1>4
    <2>2. n \in Nat
      BY <1>1
    <2> HIDE DEF T, n
    <2>3. \A k \in 0 .. n : k \in T
      BY <2>1, <2>2, Along
    <2>4. QED
      BY <2>2, <2>3
  <1>6. \A r : (\A i \in 1 .. n : meets(r, i))
                <=> \A f \in ToSet(s) : Compares(Clause(f), r[f.field], f.value)
    BY <1>1 DEF ToSet
  <1> HIDE DEF meets
  <1>7. QED
    BY <1>2, <1>5, <1>6

\* A condition on its own.
Meets(c, r) == \E i \in DOMAIN c.text : \A p \in c.text[i] : Holds(p, c.params, r)

LEMMA ConditionsAdded ==
    ASSUME NEW V, NEW b, WhereOk(V, b), NEW s, Len(s) \in Nat, DOMAIN s = 1 .. Len(s),
           \A i \in DOMAIN s : ConditionOk(V, s[i])
    PROVE  /\ WhereOk(V, FoldLeft(AddCondition, b, s))
           /\ \A r : Sat(FoldLeft(AddCondition, b, s), r)
                        <=> Sat(b, r) /\ \A c \in ToSet(s) : Meets(c, r)
  <1> DEFINE n == Len(s)
  <1>1. n \in Nat /\ DOMAIN s = 1 .. n
    OBVIOUS
  <1>2. PICK W : /\ W[0] = b
                 /\ \A k \in 1 .. n : W[k] = FoldOp("condition", W[k - 1], s[k])
                 /\ W[n] = FoldLeft(AddCondition, b, s)
    BY <1>1, FoldChain, FoldIter
  <1> DEFINE T == {k \in 0 .. n :
                    /\ WhereOk(V, W[k])
                    /\ \A r : Sat(W[k], r) <=> Sat(b, r) /\ \A i \in 1 .. k : Meets(s[i], r)}
  <1>3. 0 \in T
    BY <1>1, <1>2
  <1>4. ASSUME NEW k \in 1 .. n, k - 1 \in T PROVE k \in T
    <2>1. W[k] = AddCondition(W[k - 1], s[k]) /\ k - 1 \in 0 .. n /\ k \in 0 .. n
      BY <1>2 DEF FoldOp
    <2>2. ConditionOk(V, s[k])
      BY <1>1
    <2>3. WhereOk(V, W[k - 1])
          /\ \A r : Sat(W[k - 1], r) <=> Sat(b, r) /\ \A i \in 1 .. (k - 1) : Meets(s[i], r)
      BY <1>4
    <2>4. WhereOk(V, W[k]) /\ \A r : Sat(W[k], r) <=> Sat(W[k - 1], r) /\ Meets(s[k], r)
      <3> DEFINE v == W[k - 1]
                 c == s[k]
      <3>1. WhereOk(V, v) /\ ConditionOk(V, c) /\ W[k] = AddCondition(v, c)
        BY <2>1, <2>2, <2>3
      <3> HIDE DEF v, c
      <3>2. WhereOk(V, AddCondition(v, c))
            /\ \A r : Sat(AddCondition(v, c), r) <=> Sat(v, r) /\ Meets(c, r)
        BY <3>1, ConditionAdded DEF Meets
      <3>3. QED
        BY <3>1, <3>2 DEF v, c
    <2>5. ASSUME NEW r PROVE Sat(W[k], r) <=> Sat(b, r) /\ \A i \in 1 .. k : Meets(s[i], r)
      <3>1. \A i : i \in 1 .. k <=> i \in 1 .. (k - 1) \/ i = k
        OBVIOUS
      <3>2. (\A i \in 1 .. k : Meets(s[i], r))
                <=> Meets(s[k], r) /\ \A i \in 1 .. (k - 1) : Meets(s[i], r)
        BY <3>1, Zenon
      <3>3. Sat(W[k], r)
                <=> Sat(b, r) /\ Meets(s[k], r) /\ \A i \in 1 .. (k - 1) : Meets(s[i], r)
        BY <2>3, <2>4, Zenon
      <3>4. QED
        BY <3>2, <3>3, Zenon
    <2>6. QED
      BY <2>1, <2>4, <2>5
  <1>5. n \in T
    <2>1. 0 \in T /\ \A k \in 1 .. n : k - 1 \in T => k \in T
      BY <1>3, <1>4
    <2>2. n \in Nat
      BY <1>1
    <2> HIDE DEF T, n
    <2>3. \A k \in 0 .. n : k \in T
      BY <2>1, <2>2, Along
    <2>4. QED
      BY <2>2, <2>3
  <1>6. \A r : (\A i \in 1 .. n : Meets(s[i], r)) <=> \A c \in ToSet(s) : Meets(c, r)
    BY <1>1 DEF ToSet
  <1>7. QED
    BY <1>2, <1>5, <1>6

\* What a query selects is what is wanted.
Checked == \A i \in DOMAIN app.conditions : ~Mismatched(app.conditions[i])

LEMMA WantedRows ==
    ASSUME walk \in DOMAIN Walks, Parenthesized, Checked
    PROVE  LET w == Where(app, Raw) IN Selected(w.text, w.params) = {r \in rows : Wanted(r)}
  <1> DEFINE own == app.filters
             theirs == Raw.filters
             A == ToSet(own) \cup ToSet(theirs)
             V == {f.value : f \in A} \cup UNION {ToSet(c.params) : c \in ToSet(app.conditions)}
             G == FoldLeft(PutKnown, <<>>, theirs)
             F == FoldLeft(Put, G, own)
             w0 == FoldLeft(AddFilter, Nothing, F)
             w == FoldLeft(AddCondition, w0, app.conditions)
  <1>1. /\ theirs = input.filters
        /\ own \in Seq(ToSet(own)) /\ theirs \in Seq(ToSet(theirs))
        /\ \A i, j \in DOMAIN own : SameKey(own[i], own[j]) => i = j
        /\ \A i, j \in DOMAIN theirs : SameKey(theirs[i], theirs[j]) => i = j
        /\ \A f \in ToSet(theirs) : f.value # None
        /\ app.conditions \in Seq(ToSet(app.conditions))
        /\ \A c \in ToSet(app.conditions) :
            /\ c.text \in Seq(ToSet(c.text)) /\ c.params \in Seq(ToSet(c.params))
            /\ \A p \in UNION ToSet(c.text) :
                p = [field |-> p.field, op |-> p.op, param |-> p.param] /\ p.param \in Nat
    BY Walking, WalksAssumption DEF app, input
  <1>2. own \in Seq(A) /\ theirs \in Seq(A)
    BY <1>1
  <1>3. G \in Seq(A) /\ ToSet(G) = {f \in ToSet(theirs) : Known(f)}
    <2> HIDE DEF A, G
    <2>1. QED
      BY <1>1, <1>2, KnownFilters DEF G
  <1>4. F \in Seq(A)
        /\ ToSet(F) = OwnKeys \cup {f \in ToSet(G) : \A g \in OwnKeys : ~SameKey(f, g)}
    <2> HIDE DEF A, G, F
    <2>1. QED
      BY <1>1, <1>2, <1>3, OwnFilters DEF F, OwnKeys
  <1>5. WhereOk(V, w0)
        /\ \A r : Sat(w0, r) <=> \A f \in ToSet(F) : Compares(Clause(f), r[f.field], f.value)
    <2>1. \A f \in A : f.value \in V
      OBVIOUS
    <2> HIDE DEF A, F, w0, V
    <2>2. QED
      BY <1>4, <2>1, FiltersAdded DEF w0
  <1>6. \A i \in DOMAIN app.conditions : ConditionOk(V, app.conditions[i])
    <2> SUFFICES ASSUME NEW i \in DOMAIN app.conditions PROVE ConditionOk(V, app.conditions[i])
      OBVIOUS
    <2> DEFINE c == app.conditions[i]
    <2>1. c \in ToSet(app.conditions)
      BY DEF ToSet
    <2>2. c.params \in Seq(V)
      <3>1. c.params \in Seq(ToSet(c.params)) /\ ToSet(c.params) \subseteq V
        BY <1>1, <2>1
      <3> HIDE DEF V, c
      <3>2. QED
        BY <3>1
    <2>3. Len(c.text) = 1 /\ ~Mismatched(c)
      BY <2>1 DEF Parenthesized, Checked
    <2> HIDE DEF V
    <2>4. QED
      BY <1>1, <2>1, <2>2, <2>3 DEF ConditionOk
  <1>7. /\ WhereOk(V, w)
        /\ \A r : Sat(w, r) <=> Sat(w0, r) /\ \A c \in ToSet(app.conditions) : Meets(c, r)
    <2>1. Len(app.conditions) \in Nat /\ DOMAIN app.conditions = 1 .. Len(app.conditions)
      BY <1>1
    <2> HIDE DEF V, w0, w
    <2>2. QED
      BY <1>5, <1>6, <2>1, ConditionsAdded DEF w
  <1>8. Where(app, Raw) = w
    BY DEF Where, FilterMap
  <1>9. \A r : Sat(w, r) <=> Wanted(r)
    <2> HIDE DEF w, w0, F, G
    <2>1. \A r : (\A f \in ToSet(F) : Compares(Clause(f), r[f.field], f.value))
                    <=> /\ \A f \in OwnKeys : Compares(Clause(f), r[f.field], f.value)
                        /\ \A f \in ToSet(input.filters) :
                            Known(f) /\ (\A g \in OwnKeys : ~SameKey(f, g))
                                => Compares(Clause(f), r[f.field], f.value)
      BY <1>1, <1>3, <1>4
    <2>2. QED
      BY <1>5, <1>7, <2>1 DEF Wanted, Meets
  <1>10. Selected(w.text, w.params) = {r \in rows : Sat(w, r)}
    <2>1. w.text = <<w.text[1]>>
      BY <1>7 DEF WhereOk
    <2> HIDE DEF w
    <2>2. DOMAIN w.text = {1}
      BY <2>1
    <2>3. QED
      BY <2>2 DEF Selected, Sat
  <1> HIDE DEF w
  <1>11. QED
    BY <1>8, <1>9, <1>10

FilterInv ==
    /\ \E X : seen \in Seq(X)
    /\ pc = "asked" => Checked
    /\ Parenthesized =>
        /\ \A i \in DOMAIN seen : \A r \in seen[i] : Wanted(r)
        /\ pc = "asked" /\ data # None => \A r \in data : Wanted(r)
    /\ TotalAgrees

LEMMA SameWishes ==
    ASSUME walk' = walk
    PROVE  /\ app' = app /\ input' = input /\ (Parenthesized' <=> Parenthesized)
           /\ (Checked' <=> Checked) /\ \A r : Wanted(r)' <=> Wanted(r)
  <1>1. app' = app /\ input' = input
    BY DEF app, input
  <1>2. OwnKeys' = OwnKeys
    BY <1>1 DEF OwnKeys
  <1>3. QED
    BY <1>1, <1>2 DEF Parenthesized, Checked, Wanted

LEMMA Queried ==
    ASSUME TableInv, PageInv, FilterInv, pc = "asked", Parenthesized
    PROVE  /\ Selected(query.where, query.params) = {r \in rows : Wanted(r)}
           /\ Selected(query.count, query.params) = {r \in rows : Wanted(r)}
           /\ query.groupBy = app.groupBy
  <1>1. query = Product(app, Raw) /\ Checked /\ walk \in DOMAIN Walks
    BY DEF TableInv, PageInv, FilterInv
  <1> DEFINE w == Where(app, Raw)
  <1>2. Selected(w.text, w.params) = {r \in rows : Wanted(r)}
    BY <1>1, WantedRows
  <1> HIDE DEF w
  <1>3. query.where = w.text /\ query.count = w.text /\ query.params = w.params
        /\ query.groupBy = app.groupBy
    BY <1>1 DEF Product, w
  <1>4. QED
    BY <1>2, <1>3

LEMMA WritesGrow == TableInv /\ Write => writes' > writes
  <1> SUFFICES ASSUME TableInv, Write PROVE writes' > writes
    OBVIOUS
  <1>1. writes \in Nat
    BY DEF TableInv
  <1>2. PICK session \in store.sessions :
            \/ \E objects \in Batches(store.objects) : Create(objects, session)
            \/ \E objects \in Batches(ToSave(session)) : Update(objects, session)
            \/ \E id \in DOMAIN table : Delete(id, session)
    BY Writes
  <1>3. (\A o \in store.objects : IsObject(o)) /\ \A o \in ToSave(session) : IsObject(o)
    BY Deployed, ToSaveDef DEF TableInv, StoreOk, IsObject
  <1>s. ASSUME NEW objects, IsBatch(objects), NEW batch, NEW old, Save(objects, batch, old)
        PROVE  writes' > writes
    <2>1. writes' = writes + Len(objects) /\ Len(objects) \in {1, 2}
      BY <1>s DEF Save, IsBatch
    <2>2. QED
      BY <1>1, <2>1
  <1>4. CASE \E objects \in Batches(store.objects) : Create(objects, session)
    BY <1>3, <1>4, <1>s, BatchesDef DEF Create
  <1>5. CASE \E objects \in Batches(ToSave(session)) : Update(objects, session)
    BY <1>3, <1>5, <1>s, BatchesDef DEF Update
  <1>6. CASE \E id \in DOMAIN table : Delete(id, session)
    BY <1>1, <1>6 DEF Delete
  <1>7. QED
    BY <1>2, <1>4, <1>5, <1>6

LEMMA FilterStep == TableInv /\ PageInv /\ FilterInv /\ [Next]_vars => FilterInv'
  <1> SUFFICES ASSUME TableInv, PageInv, FilterInv, [Next]_vars PROVE FilterInv'
    OBVIOUS
  <1>1. walk' = walk
    BY TableStep DEF NewTable
  <1> DEFINE wanted == {r \in rows : Wanted(r)}
             size(S) == IF app.groupBy = <<>> THEN Cardinality(S)
                        ELSE Cardinality({KeyOf(app.groupBy, r) : r \in S})
  <1>2. IsFiniteSet(rows)
    BY RowsCounted DEF Counted
  <1>3. ASSUME pc' # "asked" \/ (pc = "asked" /\ data' = data)
        PROVE  Parenthesized' => (pc' = "asked" /\ data' # None => \A r \in data' : Wanted(r)')
    BY <1>1, <1>3, SameWishes DEF FilterInv
  <1>4. ASSUME pc' # "asked" \/ total' = None \/ writes' # asked'
        PROVE  TotalAgrees'
    BY <1>4 DEF TotalAgrees
  <1>5. ASSUME UNCHANGED <<pc, total, asked, rows, writes>> PROVE TotalAgrees'
    <2>1. {r \in rows' : Wanted(r)'} = wanted
      BY <1>1, <1>5, SameWishes
    <2>2. app' = app /\ (Parenthesized' <=> Parenthesized)
      BY <1>1, SameWishes
    <2>3. pc = "asked" /\ total # None /\ writes = asked /\ app.distinctOn = <<>> /\ Parenthesized
            => total = size(wanted)
      BY DEF FilterInv, TotalAgrees
    <2>4. CASE pc = "asked" /\ total # None /\ writes = asked /\ app.distinctOn = <<>>
               /\ Parenthesized
      <3>1. total = size(wanted) /\ total' = total
        BY <1>5, <2>3, <2>4
      <3> HIDE DEF wanted
      <3>2. QED
        BY <2>1, <2>2, <3>1 DEF TotalAgrees, KeyOf
    <2>5. CASE ~(pc = "asked" /\ total # None /\ writes = asked /\ app.distinctOn = <<>>
                 /\ Parenthesized)
      BY <1>5, <2>2, <2>5 DEF TotalAgrees
    <2>6. QED
      BY <2>4, <2>5
  <1>6. ASSUME seen' = seen
        PROVE  /\ \E X : seen' \in Seq(X)
               /\ Parenthesized' => \A i \in DOMAIN seen' : \A r \in seen'[i] : Wanted(r)'
    BY <1>1, <1>6, SameWishes DEF FilterInv
  <1>7. ASSUME pc' = "asked" => pc = "asked" PROVE pc' = "asked" => Checked'
    BY <1>1, <1>7, SameWishes DEF FilterInv
  <1>8. CASE Ask
    <2>1. seen' = seen /\ data' = data /\ total' = total
      BY <1>8 DEF Ask
    <2>2. pc' = "asked" => Checked'
      BY <1>1, <1>8, SameWishes DEF Ask, Checked
    <2>3. data' = None /\ total' = None
      BY <1>8, <2>1 DEF Ask, PageInv
    <2>4. QED
      BY <1>4, <1>6, <2>1, <2>2, <2>3 DEF FilterInv
  <1>9. CASE DataArrives
    <2>1. /\ pc = "asked" /\ data' \in Results(query)
          /\ UNCHANGED <<pc, total, asked, rows, writes, seen>>
      BY <1>9 DEF DataArrives, tableVars
    <2>2. data' \subseteq Selected(query.where, query.params)
      BY <1>2, <2>1, ProductDef, PageBounded DEF PageInv
    <2>3. Parenthesized => \A r \in data' : Wanted(r)
      BY <2>1, <2>2, Queried
    <2>4. QED
      BY <1>1, <1>5, <1>6, <1>7, <2>1, <2>3, SameWishes DEF FilterInv
  <1>10. CASE CountArrives
    <2>1. /\ pc = "asked" /\ total' = Count(query)
          /\ UNCHANGED <<pc, data, asked, rows, writes, seen>>
      BY <1>10 DEF CountArrives, tableVars
    <2>2. Parenthesized => total' = size(wanted)
      BY <2>1, Queried DEF Count
    <2>3. TotalAgrees'
      <3>1. {r \in rows' : Wanted(r)'} = wanted
        BY <1>1, <2>1, SameWishes
      <3>2. app' = app /\ (Parenthesized' <=> Parenthesized)
        BY <1>1, SameWishes
      <3> HIDE DEF wanted
      <3>3. CASE Parenthesized
        <4>1. total' = size(wanted)
          BY <2>2, <3>3
        <4>2. QED
          BY <3>1, <3>2, <4>1 DEF TotalAgrees, KeyOf
      <3>4. CASE ~Parenthesized
        BY <3>2, <3>4 DEF TotalAgrees
      <3>5. QED
        BY <3>3, <3>4
    <2>4. QED
      BY <1>3, <1>6, <1>7, <2>1, <2>3 DEF FilterInv
  <1>11. CASE QueryFails
    <2>1. pc' = "failed" /\ seen' = seen
      BY <1>11 DEF QueryFails
    <2>2. QED
      BY <1>3, <1>4, <1>6, <1>7, <2>1 DEF FilterInv
  <1>12. CASE Answer
    <2>1. /\ pc = "asked" /\ data # None /\ seen' = Append(seen, data)
          /\ pc' \in {"idle", "over"} /\ total' = None /\ data' = None
      BY <1>12 DEF Answer
    <2>2. PICK X : seen \in Seq(X)
      BY DEF FilterInv
    <2>3. seen' \in Seq(X \cup {data})
      BY <2>1, <2>2
    <2>4. \A i \in DOMAIN seen' : seen'[i] = data \/ (i \in DOMAIN seen /\ seen'[i] = seen[i])
      BY <2>1, <2>2
    <2>5. Parenthesized => \A i \in DOMAIN seen' : \A r \in seen'[i] : Wanted(r)
      BY <2>1, <2>4 DEF FilterInv
    <2>6. Parenthesized' => \A i \in DOMAIN seen' : \A r \in seen'[i] : Wanted(r)'
      BY <1>1, <2>5, SameWishes
    <2>7. QED
      BY <1>3, <1>4, <1>7, <2>1, <2>3, <2>6 DEF FilterInv
  <1>13. CASE Write
    <2>1. UNCHANGED <<pc, data, total, seen, asked>> /\ writes' > writes
      BY <1>13, WritesGrow DEF Write, listVars
    <2>2. asked <= writes /\ asked \in Nat /\ writes \in Nat
      BY DEF PageInv, TableInv
    <2>3. writes' # asked'
      <3>1. writes' \in Nat
        BY TableStep DEF NewTable
      <3>2. QED
        BY <2>1, <2>2, <3>1
    <2>4. QED
      BY <1>3, <1>4, <1>6, <1>7, <2>1, <2>3 DEF FilterInv
  <1>14. CASE UNCHANGED vars
    <2>1. UNCHANGED <<pc, data, total, seen, asked, rows, writes>>
      BY <1>14 DEF vars, listVars, tableVars
    <2>2. QED
      BY <1>3, <1>5, <1>6, <1>7, <2>1 DEF FilterInv
  <1>15. QED
    BY <1>8, <1>9, <1>10, <1>11, <1>12, <1>13, <1>14 DEF Next, ListNext

LEMMA InitFilter == Init => FilterInv
  <1> SUFFICES ASSUME Init PROVE FilterInv
    OBVIOUS
  <1>1. pc = "idle" /\ seen = <<>>
    BY DEF Init, ListInit
  <1>2. <<>> \in Seq({}) /\ DOMAIN <<>> = {}
    OBVIOUS
  <1>3. QED
    BY <1>1, <1>2 DEF FilterInv, TotalAgrees

LEMMA FilterInvariant == Spec => []FilterInv
  BY InitFilter, FilterStep, TableInvariant, PageInvariant, PTL DEF Spec

\* Whatever filters and conditions are combined and however many parameters they have, a page
\* has only rows that the method and the client ask for.
THEOREM FiltersHold == Spec => []PagesAreFiltered
  <1>1. FilterInv => PagesAreFiltered
    BY DEF FilterInv, PagesAreFiltered
  <1>2. QED
    BY <1>1, FilterInvariant, PTL

\* The count query counts what the data query selects from.
THEOREM TotalIsTrue == Spec => []TotalAgrees
  <1>1. FilterInv => TotalAgrees
    BY DEF FilterInv
  <1>2. QED
    BY <1>1, FilterInvariant, PTL

-----------------------------------------------------------------------------
(* Sets of rows, and the first rows of them in an order.                    *)

LEMMA Covered ==
    ASSUME NEW B, NEW C, IsFiniteSet(B), IsFiniteSet(C), NEW A \in SUBSET (B \cup C)
    PROVE  IsFiniteSet(A) /\ Cardinality(A) \in Nat /\ Cardinality(B) \in Nat
           /\ Cardinality(C) \in Nat /\ Cardinality(A) <= Cardinality(B) + Cardinality(C)
  <1>1. IsFiniteSet(B \cup C)
        /\ Cardinality(B \cup C) = Cardinality(B) + Cardinality(C) - Cardinality(B \cap C)
    BY FS_Union
  <1>2. IsFiniteSet(A) /\ Cardinality(A) <= Cardinality(B \cup C)
    BY <1>1, FS_Subset
  <1>3. IsFiniteSet(B \cap C)
    BY FS_Intersection
  <1>4. Cardinality(A) \in Nat /\ Cardinality(B) \in Nat /\ Cardinality(C) \in Nat
        /\ Cardinality(B \cap C) \in Nat
    BY <1>2, <1>3, FS_CardinalityType
  <1>5. QED
    BY <1>1, <1>2, <1>4

LEMMA Apart ==
    ASSUME NEW A, NEW B, IsFiniteSet(A), IsFiniteSet(B), A \cap B = {}
    PROVE  IsFiniteSet(A \cup B) /\ Cardinality(A) \in Nat /\ Cardinality(B) \in Nat
           /\ Cardinality(A \cup B) = Cardinality(A) + Cardinality(B)
  <1>1. IsFiniteSet(A \cup B)
        /\ Cardinality(A \cup B) = Cardinality(A) + Cardinality(B) - Cardinality(A \cap B)
    BY FS_Union
  <1>2. Cardinality(A \cap B) = 0
    BY FS_EmptySet
  <1>3. Cardinality(A) \in Nat /\ Cardinality(B) \in Nat
    BY FS_CardinalityType
  <1>4. QED
    BY <1>1, <1>2, <1>3

LEMMA Fewer ==
    ASSUME NEW B, IsFiniteSet(B), NEW A \in SUBSET B
    PROVE  /\ IsFiniteSet(A) /\ Cardinality(A) \in Nat /\ Cardinality(B) \in Nat
           /\ Cardinality(A) <= Cardinality(B)
           /\ Cardinality(A) = Cardinality(B) => A = B
  <1>1. /\ IsFiniteSet(A) /\ Cardinality(A) <= Cardinality(B)
        /\ Cardinality(B) = Cardinality(A) => B = A
    BY FS_Subset
  <1>2. Cardinality(A) \in Nat /\ Cardinality(B) \in Nat
    BY <1>1, FS_CardinalityType
  <1>3. QED
    BY <1>1, <1>2

\* Rows of S before which there are no others in an order.
InitialOf(order, S) == {T \in SUBSET S : \A t \in T, r \in S \ T : ~Precedes(order, r, t)}

\* The order is total on S.
Orders(order, S) ==
    /\ \A r, s, t \in S : Precedes(order, r, s) /\ Precedes(order, s, t) => Precedes(order, r, t)
    /\ \A r, s \in S : r # s => Precedes(order, r, s) \/ Precedes(order, s, r)

LEMMA Nested ==
    ASSUME NEW order, NEW S, Orders(order, S),
           NEW T \in InitialOf(order, S), NEW U \in InitialOf(order, S)
    PROVE  T \subseteq U \/ U \subseteq T
  <1>1. SUFFICES ASSUME NEW t \in T, t \notin U, NEW u \in U, u \notin T PROVE FALSE
    OBVIOUS
  <1>2. T \subseteq S /\ U \subseteq S /\ t # u
    BY <1>1 DEF InitialOf
  <1>3. ~Precedes(order, t, u)
    BY <1>1, <1>2 DEF InitialOf
  <1>4. ~Precedes(order, u, t)
    BY <1>1, <1>2 DEF InitialOf
  <1>5. QED
    BY <1>2, <1>3, <1>4 DEF Orders

LEMMA Common ==
    ASSUME NEW order, NEW S, NEW T \in InitialOf(order, S), NEW U \in InitialOf(order, S)
    PROVE  T \cap U \in InitialOf(order, S)
  BY DEF InitialOf

\* The first rows, after and before a write.
LEMMA Carried ==
    ASSUME NEW order, NEW S, NEW S2, IsFiniteSet(S), IsFiniteSet(S2), Orders(order, S),
           NEW T2 \in InitialOf(order, S2)
    PROVE  \E T \in InitialOf(order, S) :
                /\ T2 \cap S \subseteq T /\ T \cap S2 \subseteq T2
                /\ Cardinality(T) <= Cardinality(T2) + Cardinality(S \ S2)
                /\ Cardinality(T2) <= Cardinality(T) + Cardinality(S2 \ S)
  <1> DEFINE T == {r \in S : \E t \in T2 \cap S : r = t \/ Precedes(order, r, t)}
  <1>1. T \in InitialOf(order, S)
    <2>1. ASSUME NEW t \in T, NEW r \in S \ T, Precedes(order, r, t) PROVE FALSE
      <3>1. PICK u \in T2 \cap S : t = u \/ Precedes(order, t, u)
        OBVIOUS
      <3>2. Precedes(order, r, u)
        BY <2>1, <3>1 DEF Orders
      <3>3. QED
        BY <3>1, <3>2
    <2>2. QED
      BY <2>1 DEF InitialOf
  <1>2. T2 \cap S \subseteq T
    OBVIOUS
  <1>3. T \cap S2 \subseteq T2
    BY DEF InitialOf
  <1> HIDE DEF T
  <1>4. T \subseteq S /\ T2 \subseteq S2
    BY <1>1 DEF InitialOf
  <1>5. IsFiniteSet(T) /\ IsFiniteSet(T2) /\ IsFiniteSet(S \ S2) /\ IsFiniteSet(S2 \ S)
    BY <1>4, FS_Subset
  <1>6. Cardinality(T) <= Cardinality(T2) + Cardinality(S \ S2)
    <2>1. T \in SUBSET (T2 \cup (S \ S2))
      BY <1>3, <1>4
    <2>2. QED
      BY <1>5, <2>1, Covered
  <1>7. Cardinality(T2) <= Cardinality(T) + Cardinality(S2 \ S)
    <2>1. T2 \in SUBSET (T \cup (S2 \ S))
      BY <1>2, <1>4
    <2>2. QED
      BY <1>5, <2>1, Covered
  <1>8. QED
    BY <1>1, <1>2, <1>3, <1>6, <1>7

Excess(x, n) == IF x > n THEN x - n ELSE 0

\* Of the first rows in the order, those that stayed and were not given: at most b, and those
\* that come after the first n.
Missed(order, S, stay, G, n, b) ==
    \A T \in InitialOf(order, S) : Cardinality((T \cap stay) \ G) <= b + Excess(Cardinality(T), n)

\* d rows were given again, and other rows may be that come after the first ones.
Twice(order, S, G, n, d, b) ==
    /\ d <= b
    /\ \A T \in InitialOf(order, S) :
        d + Cardinality((G \cap S) \ T) <= b + Excess(n, Cardinality(T))

LEMMA WriteMissed ==
    ASSUME NEW order, NEW S, NEW S2, IsFiniteSet(S), IsFiniteSet(S2), Orders(order, S),
           NEW stay \in SUBSET S, NEW stay2 \in SUBSET stay, NEW G, NEW n \in Nat, NEW b \in Int,
           NEW b2 \in Int, b2 >= b + Cardinality(S \ S2), Missed(order, S, stay, G, n, b)
    PROVE  Missed(order, S2, stay2, G, n, b2)
  <1> SUFFICES ASSUME NEW T2 \in InitialOf(order, S2)
               PROVE  Cardinality((T2 \cap stay2) \ G) <= b2 + Excess(Cardinality(T2), n)
    BY DEF Missed
  <1>1. PICK T \in InitialOf(order, S) :
            /\ T2 \cap S \subseteq T
            /\ Cardinality(T) <= Cardinality(T2) + Cardinality(S \ S2)
    BY Carried
  <1>2. T \subseteq S /\ T2 \subseteq S2
    BY DEF InitialOf
  <1>3. /\ Cardinality(T) \in Nat /\ Cardinality(T2) \in Nat /\ Cardinality(S \ S2) \in Nat
        /\ IsFiniteSet((T \cap stay) \ G)
    <2>1. IsFiniteSet(T) /\ IsFiniteSet(T2) /\ IsFiniteSet(S \ S2) /\ IsFiniteSet((T \cap stay) \ G)
      BY <1>2, FS_Subset
    <2>2. QED
      BY <2>1, FS_CardinalityType
  <1>4. Cardinality((T2 \cap stay2) \ G) <= Cardinality((T \cap stay) \ G)
        /\ Cardinality((T \cap stay) \ G) \in Nat /\ Cardinality((T2 \cap stay2) \ G) \in Nat
    <2>1. (T2 \cap stay2) \ G \in SUBSET ((T \cap stay) \ G)
      BY <1>1
    <2>2. QED
      BY <1>3, <2>1, Fewer
  <1>5. Cardinality((T \cap stay) \ G) <= b + Excess(Cardinality(T), n)
    BY DEF Missed
  <1>6. QED
    BY <1>1, <1>3, <1>4, <1>5 DEF Excess

LEMMA WriteTwice ==
    ASSUME NEW order, NEW S, NEW S2, IsFiniteSet(S), IsFiniteSet(S2), Orders(order, S),
           NEW G, NEW n \in Nat, NEW d \in Int, NEW b \in Int, NEW b2 \in Int,
           b2 >= b + Cardinality(S2 \ S), Twice(order, S, G, n, d, b)
    PROVE  Twice(order, S2, G, n, d, b2)
  <1>1. IsFiniteSet(S2 \ S) /\ Cardinality(S2 \ S) \in Nat
    BY FS_Subset, FS_CardinalityType
  <1>2. d <= b2
    BY <1>1 DEF Twice
  <1>3. ASSUME NEW T2 \in InitialOf(order, S2)
        PROVE  d + Cardinality((G \cap S2) \ T2) <= b2 + Excess(n, Cardinality(T2))
    <2>1. PICK T \in InitialOf(order, S) :
            /\ T2 \cap S \subseteq T /\ T \cap S2 \subseteq T2
            /\ Cardinality(T) <= Cardinality(T2) + Cardinality(S \ S2)
            /\ Cardinality(T2) <= Cardinality(T) + Cardinality(S2 \ S)
      BY Carried
    <2>2. T \subseteq S /\ T2 \subseteq S2
      BY DEF InitialOf
    <2> DEFINE new == T2 \ S
               kept == (S2 \ S) \ T2
               over == (G \cap S) \ T
    <2>3. IsFiniteSet(T) /\ IsFiniteSet(T2) /\ IsFiniteSet(new) /\ IsFiniteSet(kept)
          /\ IsFiniteSet(over)
      BY <2>2, FS_Subset
    <2>4. Cardinality(new) + Cardinality(kept) = Cardinality(S2 \ S)
          /\ Cardinality(new) \in Nat /\ Cardinality(kept) \in Nat
      <3>1. new \cup kept = S2 \ S /\ new \cap kept = {}
        BY <2>2
      <3> HIDE DEF new, kept
      <3>2. QED
        BY <2>3, <3>1, Apart
    <2>5. Cardinality(T2) <= Cardinality(T) + Cardinality(new)
          /\ Cardinality(T2) \in Nat /\ Cardinality(T) \in Nat
      <3>1. T2 \in SUBSET (T \cup new)
        BY <2>1
      <3> HIDE DEF new
      <3>2. QED
        BY <2>3, <3>1, Covered
    <2>6. Cardinality((G \cap S2) \ T2) <= Cardinality(over) + Cardinality(kept)
          /\ Cardinality((G \cap S2) \ T2) \in Nat /\ Cardinality(over) \in Nat
      <3>1. (G \cap S2) \ T2 \in SUBSET (over \cup kept)
        BY <2>1
      <3> HIDE DEF over, kept
      <3>2. QED
        BY <2>3, <3>1, Covered
    <2>7. d + Cardinality(over) <= b + Excess(n, Cardinality(T))
      BY DEF Twice
    <2> HIDE DEF over, kept, new
    <2>8. QED
      BY <2>4, <2>5, <2>6, <2>7 DEF Excess
  <1>4. QED
    BY <1>2, <1>3 DEF Twice

\* A page is read: the first n rows and the first n + s, as they are now.
Page(order, S, n, s, U1, U2) ==
    /\ U1 \in InitialOf(order, S) /\ U2 \in InitialOf(order, S) /\ U1 \subseteq U2
    /\ Cardinality(U1) = IF n < Cardinality(S) THEN n ELSE Cardinality(S)
    /\ Cardinality(U2) = IF n + s < Cardinality(S) THEN n + s ELSE Cardinality(S)

\* What is known of such a page.
IsPage(S, n, s, U1, U2) ==
    /\ U1 \subseteq S /\ U2 \subseteq S /\ IsFiniteSet(U1) /\ IsFiniteSet(U2)
    /\ Cardinality(S) \in Nat /\ Cardinality(U1) \in Nat /\ Cardinality(U2) \in Nat
    /\ IsFiniteSet(U2 \ U1)
    /\ Cardinality(U2 \ U1) \in Nat /\ Cardinality(U2 \ U1) <= s
    /\ Cardinality(U1) # n => U1 = S /\ U2 = S /\ U2 \ U1 = {}

LEMMA PageRows ==
    ASSUME NEW order, NEW S, IsFiniteSet(S), NEW n \in Nat, NEW s \in Nat, NEW U1, NEW U2,
           Page(order, S, n, s, U1, U2)
    PROVE  IsPage(S, n, s, U1, U2)
  <1>1. U1 \subseteq S /\ U2 \subseteq S /\ U1 \subseteq U2
    BY DEF Page, InitialOf
  <1>2. /\ IsFiniteSet(U1) /\ Cardinality(U1) \in Nat /\ Cardinality(S) \in Nat
        /\ Cardinality(U1) = Cardinality(S) => U1 = S
    BY <1>1, Fewer
  <1>3. IsFiniteSet(U2) /\ Cardinality(U2) \in Nat
    BY <1>1, Fewer
  <1>4. IsFiniteSet(U2 \ U1) /\ Cardinality(U2 \ U1) \in Nat
        /\ Cardinality(U2) = Cardinality(U1) + Cardinality(U2 \ U1)
    <2>1. U1 \cup (U2 \ U1) = U2 /\ U1 \cap (U2 \ U1) = {} /\ IsFiniteSet(U2 \ U1)
      BY <1>1, <1>3, FS_Subset
    <2>2. QED
      BY <1>2, <2>1, Apart
  <1>5. Cardinality(U2 \ U1) <= s
    BY <1>2, <1>3, <1>4 DEF Page
  <1>6. Cardinality(U1) # n => U1 = S /\ U2 = S /\ U2 \ U1 = {}
    BY <1>1, <1>2 DEF Page
  <1>7. QED
    BY <1>1, <1>2, <1>3, <1>4, <1>5, <1>6 DEF IsPage

LEMMA PageMissed ==
    ASSUME NEW order, NEW S, IsFiniteSet(S), Orders(order, S), NEW n \in Nat, NEW s \in Nat,
           NEW U1, NEW U2, Page(order, S, n, s, U1, U2),
           NEW stay \in SUBSET S, NEW G, NEW b \in Int, Missed(order, S, stay, G, n, b)
    PROVE  Missed(order, S, stay, G \cup (U2 \ U1), n + s, b)
  <1> SUFFICES ASSUME NEW T \in InitialOf(order, S)
               PROVE  Cardinality((T \cap stay) \ (G \cup (U2 \ U1)))
                        <= b + Excess(Cardinality(T), n + s)
    BY DEF Missed
  <1>p. /\ U1 \subseteq S /\ U2 \subseteq S /\ IsFiniteSet(U1) /\ IsFiniteSet(U2)
        /\ Cardinality(S) \in Nat /\ Cardinality(U1) \in Nat /\ Cardinality(U2) \in Nat
        /\ IsFiniteSet(U2 \ U1)
        /\ Cardinality(U2 \ U1) \in Nat /\ Cardinality(U2 \ U1) <= s
        /\ Cardinality(U1) # n => U1 = S /\ U2 = S /\ U2 \ U1 = {}
    <2>1. IsPage(S, n, s, U1, U2)
      BY PageRows
    <2>2. QED
      BY <2>1 DEF IsPage
  <1> DEFINE V == T \cap U1
             near == (V \cap stay) \ G
             far == T \ U2
  <1>1. T \subseteq S /\ IsFiniteSet(T) /\ Cardinality(T) \in Nat
        /\ Cardinality(T) <= Cardinality(S)
    BY Fewer DEF InitialOf
  <1>2. IsFiniteSet(near) /\ IsFiniteSet(far)
    BY <1>1, FS_Subset
  <1>3. Cardinality(near) <= b
    <2>1. V \in InitialOf(order, S)
      BY Common DEF Page
    <2>2. Cardinality(V) \in Nat /\ Cardinality(V) <= Cardinality(U1)
      BY <1>p, Fewer
    <2>3. Cardinality(U1) <= n
      BY <1>p DEF Page
    <2>4. Cardinality(near) <= b + Excess(Cardinality(V), n)
      BY <2>1 DEF Missed
    <2> HIDE DEF V, near
    <2>5. Excess(Cardinality(V), n) = 0
      BY <2>2, <2>3, <1>p DEF Excess
    <2>6. QED
      BY <2>4, <2>5
  <1>4. Cardinality(far) <= Excess(Cardinality(T), n + s)
    <2>1. CASE T \subseteq U2
      <3>1. Cardinality(far) = 0
        BY <2>1, FS_EmptySet
      <3>2. QED
        BY <1>1, <3>1 DEF Excess
    <2>2. CASE U2 \subseteq T
      <3>1. U2 \cup far = T /\ U2 \cap far = {}
        BY <2>2
      <3>2. Cardinality(T) = Cardinality(U2) + Cardinality(far) /\ Cardinality(far) \in Nat
        BY <1>2, <3>1, <1>p, Apart
      <3>3. QED
        BY <1>1, <3>2, <1>p DEF Page, Excess
    <2>3. QED
      BY <2>1, <2>2, Nested DEF Page
  <1>5. (T \cap stay) \ (G \cup (U2 \ U1)) \in SUBSET (near \cup far)
    OBVIOUS
  <1> HIDE DEF near, far
  <1>6. /\ Cardinality((T \cap stay) \ (G \cup (U2 \ U1))) <= Cardinality(near) + Cardinality(far)
        /\ Cardinality((T \cap stay) \ (G \cup (U2 \ U1))) \in Nat
        /\ Cardinality(near) \in Nat /\ Cardinality(far) \in Nat
    BY <1>2, <1>5, Covered
  <1>7. Excess(Cardinality(T), n + s) \in Int
    BY <1>1 DEF Excess
  <1>8. QED
    BY <1>3, <1>4, <1>6, <1>7

LEMMA PageTwice ==
    ASSUME NEW order, NEW S, IsFiniteSet(S), Orders(order, S), NEW n \in Nat, NEW s \in Nat,
           NEW U1, NEW U2, Page(order, S, n, s, U1, U2),
           NEW G, NEW d \in Int, NEW b \in Int, Twice(order, S, G, n, d, b)
    PROVE  Twice(order, S, G \cup (U2 \ U1), n + s, d + Cardinality((U2 \ U1) \cap G), b)
  <1>p. /\ U1 \subseteq S /\ U2 \subseteq S /\ IsFiniteSet(U1) /\ IsFiniteSet(U2)
        /\ Cardinality(S) \in Nat /\ Cardinality(U1) \in Nat /\ Cardinality(U2) \in Nat
        /\ IsFiniteSet(U2 \ U1)
        /\ Cardinality(U2 \ U1) \in Nat /\ Cardinality(U2 \ U1) <= s
        /\ Cardinality(U1) # n => U1 = S /\ U2 = S /\ U2 \ U1 = {}
    <2>1. IsPage(S, n, s, U1, U2)
      BY PageRows
    <2>2. QED
      BY <2>1 DEF IsPage
  <1> DEFINE D == U2 \ U1
  <1>1. D \subseteq S /\ IsFiniteSet(D) /\ IsFiniteSet(D \cap G)
    BY <1>p, FS_Subset
  <1>2. d + Cardinality(D \cap G) <= b
    <2>1. CASE Cardinality(U1) = n
      <3>1. d + Cardinality((G \cap S) \ U1) <= b + Excess(n, n)
        BY <2>1 DEF Twice, Page
      <3>2. D \cap G \in SUBSET ((G \cap S) \ U1) /\ IsFiniteSet((G \cap S) \ U1)
        BY <1>1, FS_Subset
      <3> HIDE DEF D
      <3>3. /\ Cardinality(D \cap G) <= Cardinality((G \cap S) \ U1)
            /\ Cardinality(D \cap G) \in Nat /\ Cardinality((G \cap S) \ U1) \in Nat
        BY <3>2, Fewer
      <3>4. QED
        BY <3>1, <3>3 DEF Excess
    <2>2. CASE Cardinality(U1) # n
      <3>1. D \cap G = {}
        BY <2>2, <1>p
      <3>2. Cardinality(D \cap G) = 0
        BY <3>1, FS_EmptySet
      <3>3. d <= b
        BY DEF Twice
      <3> HIDE DEF D
      <3>4. QED
        BY <3>2, <3>3
    <2>3. QED
      BY <2>1, <2>2
  <1>3. ASSUME NEW T \in InitialOf(order, S)
        PROVE  d + Cardinality(D \cap G) + Cardinality(((G \cup D) \cap S) \ T)
                    <= b + Excess(n + s, Cardinality(T))
    <2> DEFINE V == T \cap U1
               before == (G \cap S) \ V
               after == (G \cap S) \ T
               again == D \cap G \cap T
               anew == (D \cap G) \ T
               over == ((G \cap S) \ T) \ D
               out == D \ T
    <2>1. T \subseteq S /\ IsFiniteSet(T) /\ Cardinality(T) \in Nat
      BY Fewer DEF InitialOf
    <2>2. /\ IsFiniteSet(before) /\ IsFiniteSet(after) /\ IsFiniteSet(again)
          /\ IsFiniteSet(anew) /\ IsFiniteSet(over) /\ IsFiniteSet(out)
      BY <1>1, FS_Subset
    <2>3. Cardinality(D \cap G) = Cardinality(again) + Cardinality(anew)
          /\ Cardinality(again) \in Nat /\ Cardinality(anew) \in Nat
      <3>1. again \cup anew = D \cap G /\ again \cap anew = {}
        OBVIOUS
      <3> HIDE DEF again, anew, D
      <3>2. QED
        BY <2>2, <3>1, Apart
    <2>4. Cardinality(((G \cup D) \cap S) \ T) = Cardinality(over) + Cardinality(out)
          /\ Cardinality(over) \in Nat /\ Cardinality(out) \in Nat
      <3>1. over \cup out = ((G \cup D) \cap S) \ T /\ over \cap out = {}
        BY <1>1
      <3> HIDE DEF over, out, D
      <3>2. QED
        BY <2>2, <3>1, Apart
    <2>5. Cardinality(after) = Cardinality(over) + Cardinality(anew)
      <3>1. over \cup anew = after /\ over \cap anew = {}
        BY <1>1
      <3> HIDE DEF over, anew, after
      <3>2. QED
        BY <2>2, <3>1, Apart
    <2>6. Cardinality(again) + Cardinality(after) <= Cardinality(before)
          /\ Cardinality(before) \in Nat
      <3>1. again \cup after \in SUBSET before /\ again \cap after = {}
        BY <1>1
      <3> HIDE DEF again, after, before
      <3>2. Cardinality(again \cup after) = Cardinality(again) + Cardinality(after)
        BY <2>2, <3>1, Apart
      <3>3. Cardinality(again \cup after) <= Cardinality(before) /\ Cardinality(before) \in Nat
        BY <2>2, <3>1, Fewer
      <3>4. QED
        BY <3>2, <3>3
    <2>7. d + Cardinality(before) <= b + Excess(n, Cardinality(V))
      <3>1. V \in InitialOf(order, S)
        BY Common DEF Page
      <3>2. QED
        BY <3>1 DEF Twice
    <2>8. Excess(n, Cardinality(V)) + Cardinality(out) <= Excess(n + s, Cardinality(T))
      <3>1. CASE T \subseteq U1
        <4>1. V = T /\ Cardinality(T) <= Cardinality(U1)
          BY <3>1, <1>p, Fewer
        <4>2. Cardinality(out) <= Cardinality(D)
          BY <1>1, Fewer
        <4>3. Cardinality(U1) <= n
          BY <1>p DEF Page
        <4>4. Cardinality(D) \in Nat /\ Cardinality(D) <= s /\ Cardinality(U1) \in Nat
          BY <1>p
        <4> HIDE DEF V, out, D
        <4>5. QED
          BY <2>1, <2>4, <4>1, <4>2, <4>3, <4>4 DEF Excess
      <3>2. CASE U1 \subseteq T /\ Cardinality(U1) = n
        <4>1. V = U1 /\ Excess(n, n) = 0
          BY <3>2 DEF Excess
        <4>2. CASE T \subseteq U2
          <5>1. T \cup out = U2 /\ T \cap out = {}
            BY <3>2, <4>2 DEF Page
          <5> HIDE DEF out
          <5>2. Cardinality(U2) = Cardinality(T) + Cardinality(out)
            BY <2>1, <2>2, <5>1, Apart
          <5>3. Cardinality(U2) <= n + s /\ Cardinality(U2) \in Nat
            BY <1>p DEF Page
          <5>4. Excess(n, Cardinality(V)) = 0
            BY <3>2, <4>1
          <5> HIDE DEF V
          <5>5. QED
            BY <2>1, <2>4, <5>2, <5>3, <5>4 DEF Excess
        <4>3. CASE U2 \subseteq T
          <5>1. Cardinality(out) = 0
            BY <4>3, FS_EmptySet
          <5>2. Excess(n, Cardinality(V)) = 0
            BY <3>2, <4>1
          <5> HIDE DEF V, out
          <5>3. QED
            BY <2>1, <5>1, <5>2 DEF Excess
        <4>4. QED
          BY <4>2, <4>3, Nested DEF Page
      <3>3. CASE U1 \subseteq T /\ Cardinality(U1) # n
        <4>1. V = T /\ out = {}
          BY <2>1, <3>3, <1>p
        <4>2. Cardinality(out) = 0
          BY <4>1, FS_EmptySet
        <4> HIDE DEF V, out
        <4>3. QED
          BY <2>1, <4>1, <4>2 DEF Excess
      <3>4. QED
        BY <3>1, <3>2, <3>3, Nested DEF Page
    <2>9. Excess(n, Cardinality(V)) \in Int /\ Excess(n + s, Cardinality(T)) \in Int
      <3>1. Cardinality(V) \in Nat
        BY <2>1, Fewer
      <3>2. QED
        BY <2>1, <3>1 DEF Excess
    <2> HIDE DEF V, before, after, again, anew, over, out
    <2>10. QED
      BY <2>3, <2>4, <2>5, <2>6, <2>7, <2>8, <2>9
  <1>4. QED
    BY <1>2, <1>3 DEF Twice

-----------------------------------------------------------------------------
(* The order of a list.                                                     *)

LEMMA PageFolds ==
    ASSUME NEW s, DOMAIN s = 1 .. Len(s)
    PROVE  /\ ParseSort(s) = Iter("sort", <<>>, s)[1 .. Len(s)]
           /\ Sizes(s) = Iter("size", 0, s)[1 .. Len(s)]
  <1>1. ParseSort(s) = Iter("sort", <<>>, s)[1 .. Len(s)]
    BY DEF FoldLeft, MapThenFoldSet, Iter, IsIter, FoldOp, ParseSort
  <1>2. Sizes(s) = Iter("size", 0, s)[1 .. Len(s)]
    BY DEF FoldLeft, MapThenFoldSet, Iter, IsIter, FoldOp, Sizes
  <1>3. QED
    BY <1>1, <1>2

LEMMA SizesChain ==
    ASSUME NEW s, Len(s) \in Nat, DOMAIN s = 1 .. Len(s)
    PROVE  \E W : /\ W[0] = 0
                  /\ \A k \in 1 .. Len(s) : W[k] = W[k - 1] + Cardinality(s[k])
                  /\ W[Len(s)] = Sizes(s)
  <1> DEFINE b == 0
             kind == "size"
  <1>0. \E W : /\ W[0] = b
               /\ \A k \in 1 .. Len(s) : W[k] = FoldOp(kind, W[k - 1], s[k])
               /\ W[Len(s)] = Iter(kind, b, s)[1 .. Len(s)]
    <2> HIDE DEF b, kind
    <2>1. QED
      BY FoldChain, SMTT(40)
  <1>1. PICK W : /\ W[0] = 0
                 /\ \A k \in 1 .. Len(s) : W[k] = FoldOp("size", W[k - 1], s[k])
                 /\ W[Len(s)] = Iter("size", 0, s)[1 .. Len(s)]
    BY <1>0
  <1>2. \A k \in 1 .. Len(s) : W[k] = W[k - 1] + Cardinality(s[k])
    BY <1>1 DEF FoldOp
  <1>3. W[Len(s)] = Sizes(s)
    BY <1>1, PageFolds
  <1>4. QED
    BY <1>1, <1>2, <1>3

LEMMA ParsedSort ==
    ASSUME NEW s, s \in Seq(ToSet(s))
    PROVE  ParseSort(s) \in Seq(ToSet(s))
  <1> DEFINE n == Len(s)
             X == ToSet(s)
  <1>1. n \in Nat /\ DOMAIN s = 1 .. n /\ \A k \in 1 .. n : s[k] \in X
    BY DEF ToSet
  <1> DEFINE none == <<>>
             kind == "sort"
  <1>0. none \in Seq(X)
    OBVIOUS
  <1>2. PICK W : /\ W[0] = none
                 /\ \A k \in 1 .. Len(s) : W[k] = FoldOp(kind, W[k - 1], s[k])
                 /\ W[Len(s)] = Iter(kind, none, s)[1 .. Len(s)]
    <2> HIDE DEF none, kind
    <2>1. QED
      BY <1>1, FoldChain
  <1> DEFINE T == {k \in 0 .. n : W[k] \in Seq(X)}
  <1>3. 0 \in T
    <2> HIDE DEF X, none, n
    <2>1. QED
      BY <1>0, <1>1, <1>2
  <1>4. ASSUME NEW k \in 1 .. n, k - 1 \in T PROVE k \in T
    <2>1. W[k] = AddEntry(W[k - 1], s[k]) /\ W[k - 1] \in Seq(X) /\ s[k] \in X /\ k \in 0 .. n
      BY <1>1, <1>2, <1>4 DEF FoldOp
    <2> HIDE DEF X
    <2>2. CASE Valid(s[k])
      <3> DEFINE w == W[k - 1]
                 x == s[k]
      <3>1. W[k] = Append(w, x) /\ w \in Seq(X) /\ x \in X
        BY <2>1, <2>2 DEF AddEntry
      <3> HIDE DEF w, x
      <3>2. W[k] \in Seq(X)
        BY <3>1
      <3>3. QED
        BY <2>1, <3>2
    <2>3. CASE ~Valid(s[k])
      <3>1. W[k] = W[k - 1]
        BY <2>1, <2>3 DEF AddEntry
      <3>2. QED
        BY <2>1, <3>1
    <2>4. QED
      BY <2>2, <2>3
  <1>5. n \in T
    <2>1. 0 \in T /\ \A k \in 1 .. n : k - 1 \in T => k \in T
      BY <1>3, <1>4
    <2>2. n \in Nat
      BY <1>1
    <2> HIDE DEF T, n
    <2>3. \A k \in 0 .. n : k \in T
      BY <2>1, <2>2, Along
    <2>4. QED
      BY <2>2, <2>3
  <1>6. QED
    BY <1>1, <1>2, <1>5, PageFolds

LEMMA SizesGrow ==
    ASSUME NEW X, NEW s \in Seq(X), NEW x
    PROVE  Sizes(Append(s, x)) = Sizes(s) + Cardinality(x)
  <1> DEFINE n == Len(s)
             t == Append(s, x)
  <1>1. /\ n \in Nat /\ DOMAIN s = 1 .. n /\ Len(t) = n + 1 /\ DOMAIN t = 1 .. Len(t)
        /\ t[n + 1] = x /\ \A k \in 1 .. n : t[k] = s[k]
    OBVIOUS
  <1> HIDE DEF n, t
  <1>2. PICK W : /\ W[0] = 0
                 /\ \A k \in 1 .. n : W[k] = W[k - 1] + Cardinality(s[k])
                 /\ W[n] = Sizes(s)
    BY <1>1, SizesChain DEF n
  <1>3. PICK V : /\ V[0] = 0
                 /\ \A k \in 1 .. Len(t) : V[k] = V[k - 1] + Cardinality(t[k])
                 /\ V[Len(t)] = Sizes(t)
    BY <1>1, SizesChain
  <1> DEFINE T == {k \in 0 .. n : V[k] = W[k]}
  <1>4. 0 \in T /\ \A k \in 1 .. n : k - 1 \in T => k \in T
    BY <1>1, <1>2, <1>3
  <1>5. n \in T
    <2> HIDE DEF T
    <2>1. \A k \in 0 .. n : k \in T
      BY <1>1, <1>4, Along
    <2>2. QED
      BY <1>1, <2>1
  <1>6. V[n + 1] = V[n] + Cardinality(x)
    BY <1>1, <1>3
  <1>7. QED
    BY <1>1, <1>2, <1>3, <1>5, <1>6 DEF t

LEMMA SizesNone == Sizes(<<>>) = 0
  <1> DEFINE s == <<>>
  <1>1. Len(s) = 0 /\ DOMAIN s = 1 .. Len(s)
    OBVIOUS
  <1> HIDE DEF s
  <1>2. PICK W : W[0] = 0 /\ W[Len(s)] = Sizes(s)
    BY <1>1, SizesChain
  <1>3. QED
    BY <1>1, <1>2 DEF s

LEMMA LeastIndex ==
    ASSUME NEW n \in Nat, NEW D \in SUBSET (1 .. n), D # {}
    PROVE  \E i \in D : \A j \in 1 .. i - 1 : j \notin D
  <1> DEFINE smaller == {pair \in Nat \X Nat : pair[1] < pair[2]}
  <1>1. IsWellFoundedOn(smaller, Nat)
    BY NatLessThanWellFounded DEF OpToRel
  <1>2. D \subseteq Nat
    OBVIOUS
  <1>3. PICK i \in D : \A j \in D : <<j, i>> \notin smaller
    BY <1>1, <1>2, WFMin
  <1>4. ASSUME NEW j \in 1 .. i - 1, j \in D PROVE FALSE
    <2>1. j \in Nat /\ i \in Nat /\ j < i
      BY <1>2
    <2>2. <<j, i>> \in smaller
      BY <2>1
    <2>3. QED
      BY <1>3, <1>4, <2>2
  <1>5. QED
    BY <1>4

Sorts(x) == x \in Int \cup {Null}

\* An order with the id in it is total, if the values can be compared.
LEMMA SortOrders ==
    ASSUME NEW X, NEW order \in Seq(X), HasId(order), NEW S,
           \A r, s \in S : r.id = s.id => r = s,
           \A r \in S, i \in DOMAIN order : Sorts(r[order[i].field])
    PROVE  Orders(order, S)
  <1> DEFINE n == Len(order)
             At_(r, i) == r[order[i].field]
             First(i, r, s) == IF order[i].dir = "asc" THEN Less(At_(r, i), At_(s, i))
                                                       ELSE Less(At_(s, i), At_(r, i))
  <1>1. n \in Nat /\ DOMAIN order = 1 .. n
    OBVIOUS
  <1>2. \A r, s : Precedes(order, r, s)
                    <=> \E i \in 1 .. n : /\ \A j \in 1 .. i - 1 : At_(r, j) = At_(s, j)
                                          /\ First(i, r, s)
    BY <1>1 DEF Precedes
  <1>3. \A r, s \in S, i \in 1 .. n : At_(r, i) # At_(s, i) => First(i, r, s) \/ First(i, s, r)
    BY <1>1 DEF Less, Sorts
  <1>4. \A r, s, t \in S, i \in 1 .. n : First(i, r, s) /\ First(i, s, t) => First(i, r, t)
    BY <1>1 DEF Less, Sorts
  <1>5. ASSUME NEW r, NEW s, NEW t, NEW i \in 1 .. n, At_(s, i) = At_(t, i)
        PROVE  (First(i, r, s) => First(i, r, t)) /\ (First(i, t, r) => First(i, s, r))
    BY <1>5
  <1>6. \E i \in 1 .. n : \A r : At_(r, i) = r.id
    BY <1>1 DEF HasId
  <1> HIDE DEF First, At_, n
  <1>7. ASSUME NEW r \in S, NEW s \in S, r # s
        PROVE  Precedes(order, r, s) \/ Precedes(order, s, r)
    <2> DEFINE D == {i \in 1 .. n : At_(r, i) # At_(s, i)}
    <2>1. D # {}
      BY <1>6, <1>7
    <2>2. PICK i \in D : \A j \in 1 .. i - 1 : j \notin D
      <3> HIDE DEF D
      <3>1. D \in SUBSET (1 .. n)
        BY DEF D
      <3>2. QED
        BY <1>1, <2>1, <3>1, LeastIndex
    <2>3. i \in 1 .. n /\ \A j \in 1 .. i - 1 : At_(r, j) = At_(s, j)
      BY <1>1, <2>2
    <2>4. QED
      BY <1>2, <1>3, <2>2, <2>3
  <1>8. ASSUME NEW r \in S, NEW s \in S, NEW t \in S, Precedes(order, r, s), Precedes(order, s, t)
        PROVE  Precedes(order, r, t)
    <2>1. PICK i \in 1 .. n : (\A j \in 1 .. i - 1 : At_(r, j) = At_(s, j)) /\ First(i, r, s)
      BY <1>2, <1>8
    <2>2. PICK k \in 1 .. n : (\A j \in 1 .. k - 1 : At_(s, j) = At_(t, j)) /\ First(k, s, t)
      BY <1>2, <1>8
    <2>3. i \in Int /\ k \in Int /\ n \in Int
      BY <1>1
    <2>4. CASE i < k
      <3>1. At_(s, i) = At_(t, i) /\ \A j \in 1 .. i - 1 : At_(r, j) = At_(t, j)
        BY <2>1, <2>2, <2>3, <2>4
      <3>2. First(i, r, t)
        BY <1>5, <2>1, <3>1
      <3>3. QED
        BY <1>2, <3>1, <3>2
    <2>5. CASE k < i
      <3>1. At_(r, k) = At_(s, k) /\ \A j \in 1 .. k - 1 : At_(r, j) = At_(t, j)
        BY <2>1, <2>2, <2>3, <2>5
      <3>2. First(k, r, t)
        BY <1>5, <2>2, <3>1
      <3>3. QED
        BY <1>2, <3>1, <3>2
    <2>6. CASE i = k
      <3>1. \A j \in 1 .. i - 1 : At_(r, j) = At_(t, j)
        BY <2>1, <2>2, <2>6
      <3>2. First(i, r, t)
        BY <1>4, <2>1, <2>2, <2>6
      <3>3. QED
        BY <1>2, <3>1, <3>2
    <2>7. QED
      BY <2>3, <2>4, <2>5, <2>6
  <1>9. QED
    BY <1>7, <1>8 DEF Orders

-----------------------------------------------------------------------------
(* A walk.                                                                  *)

\* What a walk must be to be complete.
Walkable ==
    /\ Determined /\ SameSize /\ Parenthesized
    /\ input.page \in {None, NaN, 1} /\ app.distinctOn = <<>> /\ app.groupBy = <<>>

Size == Pagination(app, [input EXCEPT !.page = 1]).pageSize

\* The client is at its next page.
InOrder == page = Len(seen) + 1 \/ (seen = <<>> /\ page = input.page)

LEMMA Sized ==
    ASSUME walk \in DOMAIN Walks, Walkable, InOrder, Len(seen) \in Nat
    PROVE  /\ Pagination(app, Raw) = [page |-> Len(seen) + 1, pageSize |-> Size]
           /\ Size \in Nat \ {0}
  <1> DEFINE n == Len(seen) + 1
             size == Given(input.pageSize, app.defaultPageSize)
             clamped == IF ~Positive(size) THEN app.defaultPageSize
                        ELSE IF size < app.maxPageSize THEN size ELSE app.maxPageSize
             first == [input EXCEPT !.page = 1]
  <1>1. n \in Nat \ {0} /\ None \notin Int /\ NaN \notin Int
    BY WalksAssumption
  <1>2. first.page = 1 /\ first.pageSize = input.pageSize
    BY WalksAssumption DEF input
  <1>3. {app.defaultPageSize, app.maxPageSize, app.fallback} \subseteq Nat \ {0}
        /\ Raw.page = page /\ Raw.pageSize = input.pageSize
        /\ input.pageSize \in Int \cup {None, NaN, Repeated}
    BY Walking
  <1>4. Size = clamped
    <2> HIDE DEF first
    <2>1. Pagination(app, first).pageSize = clamped
      BY <1>1, <1>2 DEF Pagination
    <2>2. QED
      BY <2>1 DEF Size, first
  <1>5. clamped \in Nat \ {0}
    <2>1. size \in Int \cup {NaN, Repeated}
      BY <1>3 DEF Given
    <2> HIDE DEF size
    <2>2. QED
      BY <1>3, <2>1 DEF Positive
  <1> HIDE DEF clamped, n
  <1>6. CASE page = n
    <2>1. page # None /\ Given(page, 1) = n /\ Positive(n)
      BY <1>1, <1>6 DEF Given, Positive
    <2>2. QED
      BY <1>3, <1>4, <1>5, <2>1 DEF Pagination, clamped, n
  <1>7. CASE seen = <<>> /\ page = input.page
    <2>1. n = 1
      BY <1>7 DEF n
    <2>2. page \in {None, NaN, 1}
      BY <1>7 DEF Walkable
    <2>3. CASE page = None /\ input.pageSize = None
      <3>1. app.fallback = Size
        BY <1>7, <2>3 DEF Walkable, SameSize, Size
      <3>2. Pagination(app, Raw) = [page |-> 1, pageSize |-> app.fallback]
        BY <1>3, <2>3 DEF Pagination
      <3>3. QED
        BY <1>4, <1>5, <2>1, <3>1, <3>2 DEF n
    <2>4. CASE ~(page = None /\ input.pageSize = None)
      <3>1. (IF Positive(Given(page, 1)) THEN Given(page, 1) ELSE 1) = 1
        BY <1>1, <2>2 DEF Given, Positive
      <3>2. Pagination(app, Raw) = [page |-> 1, pageSize |-> clamped]
        BY <1>3, <2>4, <3>1 DEF Pagination, clamped
      <3>3. QED
        BY <1>4, <1>5, <2>1, <3>2 DEF n
    <2>5. QED
      BY <2>3, <2>4
  <1>8. QED
    BY <1>6, <1>7 DEF InOrder, n

Wished == {r \in rows : Wanted(r)}

SortOrder == Order(app, ParseSort(input.sort))

\* The values that the rows are sorted by can be compared.
Sortable == \A r \in rows, i \in DOMAIN SortOrder : Sorts(r[SortOrder[i].field])

LEMMA Ordered ==
    ASSUME TableInv, Sortable, Walkable
    PROVE  Orders(SortOrder, Wished) /\ Wished \subseteq rows /\ IsFiniteSet(Wished)
  <1> DEFINE parsed == ParseSort(input.sort)
             rest == IF parsed # <<>> THEN parsed ELSE app.defaults
             A == ToSet(app.enforced)
             B == ToSet(input.sort) \cup ToSet(app.defaults)
  <1>1. app.enforced \in Seq(A) /\ app.defaults \in Seq(ToSet(app.defaults))
        /\ input.sort \in Seq(ToSet(input.sort))
    BY WalksAssumption DEF TableInv, app, input
  <1>2. parsed \in Seq(ToSet(input.sort))
    BY <1>1, ParsedSort
  <1>3. rest \in Seq(B)
    <2> HIDE DEF parsed
    <2>1. QED
      BY <1>1, <1>2
  <1>4. SortOrder = app.enforced \o rest
    BY DEF SortOrder, Order
  <1>5. HasId(app.enforced) \/ HasId(rest)
    <2>1. parsed = <<>> => ~HasId(parsed)
      <3>1. DOMAIN <<>> = {}
        OBVIOUS
      <3>2. QED
        BY <3>1 DEF HasId
    <2> HIDE DEF parsed
    <2>2. HasId(app.enforced) \/ HasId(parsed) \/ (parsed = <<>> /\ HasId(app.defaults))
      BY DEF Walkable, Determined, parsed
    <2>3. QED
      BY <2>1, <2>2
  <1> HIDE DEF rest, A, B
  <1>6. SortOrder \in Seq(A \cup B) /\ HasId(SortOrder)
    <2> DEFINE e == app.enforced
    <2>1. e \in Seq(A) /\ SortOrder = e \o rest
      BY <1>1, <1>4
    <2>2. HasId(e) \/ HasId(rest)
      BY <1>5
    <2> HIDE DEF e
    <2>3. e \o rest \in Seq(A \cup B)
      BY <1>3, <2>1
    <2>4. /\ DOMAIN e = 1 .. Len(e) /\ DOMAIN rest = 1 .. Len(rest)
          /\ Len(e) \in Nat /\ Len(rest) \in Nat
          /\ DOMAIN (e \o rest) = 1 .. Len(e) + Len(rest)
      BY <1>3, <2>1
    <2>5. CASE HasId(e)
      <3>1. PICK i \in 1 .. Len(e) : e[i].field = "id"
        BY <2>4, <2>5 DEF HasId
      <3>2. (e \o rest)[i] = e[i] /\ i \in DOMAIN (e \o rest)
        BY <1>3, <2>1, <2>4
      <3>3. QED
        BY <2>1, <2>3, <3>1, <3>2 DEF HasId
    <2>6. CASE HasId(rest)
      <3>1. PICK i \in 1 .. Len(rest) : rest[i].field = "id"
        BY <2>4, <2>6 DEF HasId
      <3>2. (e \o rest)[Len(e) + i] = rest[i] /\ Len(e) + i \in DOMAIN (e \o rest)
        BY <1>3, <2>1, <2>4
      <3>3. QED
        BY <2>1, <2>3, <3>1, <3>2 DEF HasId
    <2>7. QED
      BY <2>2, <2>5, <2>6
  <1>7. Wished \subseteq rows /\ IsFiniteSet(rows) /\ IsFiniteSet(Wished)
    <2>1. IsFiniteSet(rows)
      BY RowsCounted DEF Counted
    <2>2. Wished \subseteq rows
      BY DEF Wished
    <2>3. QED
      BY <2>1, <2>2, FS_Subset
  <1>8. \A r, s \in Wished : r.id = s.id => r = s
    <2>1. \A r, s \in rows : r.id = s.id => r = s
      BY RowsCounted DEF Counted, TableInv
    <2>2. QED
      BY <1>7, <2>1
  <1>9. \A r \in Wished, i \in DOMAIN SortOrder : Sorts(r[SortOrder[i].field])
    BY <1>7 DEF Sortable
  <1>10. Orders(SortOrder, Wished)
    <2> DEFINE X == A \cup B
    <2>1. SortOrder \in Seq(X)
      BY <1>6
    <2> HIDE DEF X
    <2>2. QED
      BY <1>6, <1>8, <1>9, <2>1, SortOrders
  <1>11. QED
    BY <1>7, <1>10

\* As many rows come and go as are written.
LEMMA RowsMoved ==
    ASSUME TableInv, TableInv', Write
    PROVE  /\ writes \in Nat /\ writes' \in Nat
           /\ Cardinality(Wished \ Wished') \in Nat /\ Cardinality(Wished' \ Wished) \in Nat
           /\ Cardinality(Wished \ Wished') <= writes' - writes
           /\ Cardinality(Wished' \ Wished) <= writes' - writes
           /\ IsFiniteSet(Wished')
  <1>1. writes \in Nat /\ writes' \in Nat /\ IsFiniteSet(DOMAIN table)
    BY DEF TableInv
  <1>2. rows = {Shown(table[id]) : id \in DOMAIN table}
        /\ rows' = {Shown(table'[id]) : id \in DOMAIN table'}
    BY TableStep DEF TableInv, NewTable, Next, vars
  <1>3. \E K : /\ IsFiniteSet(K) /\ Cardinality(K) <= writes' - writes
               /\ \A id : id \notin K => /\ id \in DOMAIN table <=> id \in DOMAIN table'
                                         /\ id \in DOMAIN table => table'[id] = table[id]
    <2>1. ASSUME NEW objects, IsBatch(objects), NEW batch, NEW old, Save(objects, batch, old)
          PROVE  \E K : /\ IsFiniteSet(K) /\ Cardinality(K) <= writes' - writes
                        /\ \A id : id \notin K =>
                            /\ id \in DOMAIN table <=> id \in DOMAIN table'
                            /\ id \in DOMAIN table => table'[id] = table[id]
      <3> DEFINE K == Ids(objects)
                 f == [i \in DOMAIN objects |-> objects[i].id]
      <3>1. writes' = writes + Len(objects) /\ Len(objects) \in {1, 2}
            /\ DOMAIN objects = 1 .. Len(objects)
        BY <2>1 DEF Save, IsBatch
      <3>2. f \in Surjection(DOMAIN objects, K)
        BY DEF Surjection, Ids
      <3>3. IsFiniteSet(DOMAIN objects) /\ Cardinality(DOMAIN objects) = Len(objects)
        <4> DEFINE n == Len(objects)
        <4>1. n \in Int /\ n >= 1 /\ DOMAIN objects = 1 .. n
          BY <3>1
        <4> HIDE DEF n
        <4>2. IsFiniteSet(1 .. n) /\ Cardinality(1 .. n) = IF 1 > n THEN 0 ELSE n - 1 + 1
          BY <4>1, FS_Interval
        <4>3. Cardinality(1 .. n) = n
          BY <4>1, <4>2
        <4>4. QED
          BY <4>1, <4>2, <4>3 DEF n
      <3>4. IsFiniteSet(K) /\ Cardinality(K) <= Len(objects)
        BY <3>2, <3>3, FS_Surjection
      <3>5. \A id : id \notin K => /\ id \in DOMAIN table <=> id \in DOMAIN table'
                                   /\ id \in DOMAIN table => table'[id] = table[id]
        BY <2>1 DEF Save, Over
      <3>6. Cardinality(K) <= writes' - writes
        <4>1. Cardinality(K) \in Nat
          BY <3>4, FS_CardinalityType
        <4>2. QED
          BY <1>1, <3>1, <3>4, <4>1
      <3>7. QED
        BY <3>4, <3>5, <3>6
    <2>2. PICK session \in store.sessions :
            \/ \E objects \in Batches(store.objects) : Create(objects, session)
            \/ \E objects \in Batches(ToSave(session)) : Update(objects, session)
            \/ \E id \in DOMAIN table : Delete(id, session)
      BY Writes
    <2>3. (\A o \in store.objects : IsObject(o)) /\ \A o \in ToSave(session) : IsObject(o)
      BY Deployed, ToSaveDef DEF TableInv, StoreOk, IsObject
    <2>4. CASE \E objects \in Batches(store.objects) : Create(objects, session)
      BY <2>1, <2>3, <2>4, BatchesDef DEF Create
    <2>5. CASE \E objects \in Batches(ToSave(session)) : Update(objects, session)
      BY <2>1, <2>3, <2>5, BatchesDef DEF Update
    <2>6. CASE \E id \in DOMAIN table : Delete(id, session)
      <3>1. PICK id \in DOMAIN table : Delete(id, session)
        BY <2>6
      <3>2. writes' = writes + 1 /\ table' = Restrict(table, DOMAIN table \ {id})
        BY <3>1 DEF Delete
      <3>3. IsFiniteSet({id}) /\ Cardinality({id}) = 1
        BY FS_Singleton
      <3>4. \A i : i \notin {id} => /\ i \in DOMAIN table <=> i \in DOMAIN table'
                                    /\ i \in DOMAIN table => table'[i] = table[i]
        BY <3>2 DEF Restrict
      <3>5. Cardinality({id}) <= writes' - writes
        BY <1>1, <3>2, <3>3
      <3>6. QED
        BY <3>3, <3>4, <3>5
    <2>7. QED
      BY <2>2, <2>4, <2>5, <2>6
  <1>4. PICK K : /\ IsFiniteSet(K) /\ Cardinality(K) <= writes' - writes
                 /\ \A id : id \notin K => /\ id \in DOMAIN table <=> id \in DOMAIN table'
                                           /\ id \in DOMAIN table => table'[id] = table[id]
    BY <1>3
  <1>5. walk' = walk
    BY DEF Write, listVars
  <1>6. \A r : Wanted(r)' <=> Wanted(r)
    BY <1>5, SameWishes
  <1> DEFINE views(t) == {Shown(t[id]) : id \in DOMAIN t}
  <1>7. ASSUME NEW t, NEW u, NEW D \in SUBSET (views(t) \ views(u)),
               \A id : id \notin K => /\ id \in DOMAIN t <=> id \in DOMAIN u
                                      /\ id \in DOMAIN t => u[id] = t[id]
        PROVE  Cardinality(D) \in Nat /\ Cardinality(D) <= writes' - writes
    <2> DEFINE f == [id \in K |-> IF id \in DOMAIN t THEN Shown(t[id]) ELSE 0]
               F == {f[id] : id \in K}
    <2>1. f \in Surjection(K, F)
      BY DEF Surjection
    <2>2. IsFiniteSet(F) /\ Cardinality(F) <= Cardinality(K)
      BY <1>4, <2>1, FS_Surjection
    <2>3. D \subseteq F
      <3> SUFFICES ASSUME NEW r \in D PROVE r \in F
        OBVIOUS
      <3>1. PICK id \in DOMAIN t : r = Shown(t[id])
        BY <1>7
      <3>2. id \in K
        BY <1>7, <3>1
      <3>3. QED
        BY <3>1, <3>2
    <2> HIDE DEF F
    <2>4. Cardinality(D) \in Nat /\ Cardinality(D) <= Cardinality(F) /\ Cardinality(F) \in Nat
      BY <2>2, <2>3, Fewer
    <2>5. Cardinality(K) \in Nat
      BY <1>4, FS_CardinalityType
    <2>6. QED
      BY <1>1, <1>4, <2>2, <2>4, <2>5
  <1>8. Wished \ Wished' \in SUBSET (rows \ rows') /\ Wished' \ Wished \in SUBSET (rows' \ rows)
    BY <1>6 DEF Wished
  <1>v. /\ Wished \ Wished' \in SUBSET (views(table) \ views(table'))
        /\ Wished' \ Wished \in SUBSET (views(table') \ views(table))
    BY <1>2, <1>8
  <1> HIDE DEF views
  <1>9. Cardinality(Wished \ Wished') \in Nat /\ Cardinality(Wished \ Wished') <= writes' - writes
    BY <1>4, <1>7, <1>v
  <1>10. Cardinality(Wished' \ Wished) \in Nat /\ Cardinality(Wished' \ Wished) <= writes' - writes
    BY <1>4, <1>7, <1>v
  <1>11. IsFiniteSet(Wished')
    <2>1. TableInv' => Counted'
      BY RowsCounted, PTL
    <2>2. Wished' \in SUBSET rows' /\ IsFiniteSet(rows')
      BY <2>1 DEF Counted, Wished
    <2>3. QED
      BY <2>2, FS_Subset
  <1>12. QED
    BY <1>1, <1>9, <1>10, <1>11

\* Rows that were given, by an answer or by a query that came back.
Told == IF data = None THEN {} ELSE data
GivenRows == (UNION ToSet(seen)) \cup Told

\* How far in the order the pages reach, and how many of their rows were given before.
Reach == (Len(seen) + IF data = None THEN 0 ELSE 1) * Size
Twofold == Sizes(seen) + Cardinality(Told) - Cardinality(GivenRows)

\* A total that is too small by now ends the walk too early.
Slack == IF data = None /\ total # None THEN Excess(Cardinality(Wished), total) ELSE 0

Complete(G) == Cardinality((Wished \cap stayed) \ G) <= writes

Measured ==
    /\ IsFiniteSet(UNION ToSet(seen)) /\ IsFiniteSet(Told)
    /\ Sizes(seen) \in Int

Underway ==
    /\ InOrder
    /\ Missed(SortOrder, Wished, Wished \cap stayed, GivenRows, Reach, writes - Slack)
    /\ Twice(SortOrder, Wished, GivenRows, Reach, Twofold, writes)
    /\ data # None /\ total # None /\ total <= Reach => Complete(GivenRows)

WalkInv ==
    Walkable =>
        /\ Measured
        /\ pc \in {"idle", "asked"} => Underway
        /\ pc = "over" => /\ Complete(UNION ToSet(seen))
                          /\ Sizes(seen) - Cardinality(UNION ToSet(seen)) <= writes

LEMMA SameWalk ==
    ASSUME walk' = walk
    PROVE  /\ Walkable' <=> Walkable
           /\ Size' = Size /\ SortOrder' = SortOrder /\ app' = app /\ input' = input
           /\ rows' = rows => Wished' = Wished
  <1>1. app' = app /\ input' = input
    BY DEF app, input
  <1>2. Determined' <=> Determined
    BY <1>1 DEF Determined
  <1>3. SameSize' <=> SameSize
    BY <1>1 DEF SameSize
  <1>4. (Parenthesized' <=> Parenthesized) /\ \A r : Wanted(r)' <=> Wanted(r)
    BY SameWishes
  <1>5. Size' = Size /\ SortOrder' = SortOrder
    BY <1>1 DEF Size, SortOrder
  <1>6. rows' = rows => Wished' = Wished
    BY <1>4 DEF Wished
  <1>7. QED
    BY <1>1, <1>2, <1>3, <1>4, <1>5, <1>6 DEF Walkable

LEMMA WalkRests ==
    ASSUME WalkInv, UNCHANGED <<walk, page, data, total, seen, rows, stayed, writes>>,
           pc' \in {"refused", "failed", pc} \/ (pc = "idle" /\ pc' = "asked")
    PROVE  WalkInv'
  <1>1. /\ Walkable' <=> Walkable
        /\ Size' = Size /\ SortOrder' = SortOrder /\ app' = app /\ input' = input
        /\ Wished' = Wished
    BY SameWalk
  <1>2. Told' = Told
    BY DEF Told
  <1>3. GivenRows' = GivenRows /\ Reach' = Reach
    BY <1>1, <1>2 DEF GivenRows, Reach
  <1>4. Twofold' = Twofold /\ Slack' = Slack
    BY <1>1, <1>2, <1>3 DEF Twofold, Slack
  <1>5. \A G : Complete(G)' <=> Complete(G)
    BY <1>1 DEF Complete
  <1>6. Measured' <=> Measured
    BY <1>2 DEF Measured
  <1>7. InOrder' <=> InOrder
    BY <1>1 DEF InOrder
  <1>8. Underway' <=> Underway
    <2>1. (GivenRows' = GivenRows => (Complete(GivenRows)' <=> Complete(GivenRows)))
      BY <1>1 DEF Complete
    <2>2. QED
      BY <1>1, <1>3, <1>4, <1>7, <2>1 DEF Underway
  <1>9. QED
    BY <1>1, <1>5, <1>6, <1>8 DEF WalkInv

\* What a page is, as the query came back.
LEMMA PageArrives ==
    ASSUME TableInv, PageInv, FilterInv, WalkInv, Walkable, pc = "asked",
           NEW D \in Results(query)
    PROVE  \E U1, U2 : /\ Page(SortOrder, Wished, Len(seen) * Size, Size, U1, U2)
                       /\ D = U2 \ U1
  <1>1. /\ query = Product(app, Raw) /\ walk \in DOMAIN Walks
        /\ Len(seen) \in Nat
    BY DEF PageInv, TableInv, FilterInv
  <1>2. Pagination(app, Raw) = [page |-> Len(seen) + 1, pageSize |-> Size] /\ Size \in Nat \ {0}
    BY <1>1, Sized DEF WalkInv, Underway
  <1>3. query.offset = Len(seen) * Size /\ query.limit = Size
    <2> DEFINE p == Pagination(app, Raw)
    <2>1. p.page = Len(seen) + 1 /\ p.pageSize = Size
      BY <1>2
    <2>2. query.limit = p.pageSize /\ query.offset = (p.page - 1) * p.pageSize
      BY <1>1, ProductDef
    <2> HIDE DEF p
    <2>3. p.page - 1 = Len(seen)
      BY <1>1, <2>1
    <2>4. QED
      BY <2>1, <2>2, <2>3
  <1>4. query.order = SortOrder
    <2>1. Raw.sort = input.sort
      BY <1>1, Walking
    <2>2. QED
      BY <1>1, <2>1 DEF Product, SortOrder
  <1>5. query.groupBy \o query.distinctOn = <<>>
    BY <1>1 DEF Walkable, Product
  <1>6. Selected(query.where, query.params) = Wished
    BY Queried DEF Walkable, Wished
  <1> DEFINE F == Firsts(query.offset, Wished, query.order)
             H == Firsts(query.offset + query.limit, Wished, query.order)
  <1>7. PICK T \in {U \in F \X H : U[1] \subseteq U[2]} : D = T[2] \ T[1]
    BY <1>5, <1>6 DEF Results
  <1>8. T[1] \in F /\ T[2] \in H /\ T[1] \subseteq T[2]
    BY <1>7
  <1>9. Page(SortOrder, Wished, Len(seen) * Size, Size, T[1], T[2])
    BY <1>3, <1>4, <1>8 DEF Page, InitialOf, Firsts
  <1>10. QED
    BY <1>7, <1>9

LEMMA MoreMissed ==
    ASSUME NEW order, NEW S, IsFiniteSet(S), NEW stay, NEW G, NEW n \in Nat, NEW b \in Int,
           NEW b2 \in Int, b <= b2, Missed(order, S, stay, G, n, b)
    PROVE  Missed(order, S, stay, G, n, b2)
  <1> SUFFICES ASSUME NEW T \in InitialOf(order, S)
               PROVE  Cardinality((T \cap stay) \ G) <= b2 + Excess(Cardinality(T), n)
    BY DEF Missed
  <1>1. T \in SUBSET S /\ (T \cap stay) \ G \in SUBSET S
    BY DEF InitialOf
  <1>2. Cardinality(T) \in Nat /\ Cardinality((T \cap stay) \ G) \in Nat
    BY <1>1, Fewer
  <1>3. Cardinality((T \cap stay) \ G) <= b + Excess(Cardinality(T), n)
    BY DEF Missed
  <1>4. Excess(Cardinality(T), n) \in Int
    BY <1>2 DEF Excess
  <1>5. QED
    BY <1>2, <1>3, <1>4

\* Of all rows.
LEMMA AllMissed ==
    ASSUME NEW order, NEW S, NEW stay \in SUBSET S, NEW G, NEW n, NEW b,
           Missed(order, S, stay, G, n, b)
    PROVE  Cardinality(stay \ G) <= b + Excess(Cardinality(S), n)
  <1>1. S \in InitialOf(order, S) /\ S \cap stay = stay
    BY DEF InitialOf
  <1>2. QED
    BY <1>1 DEF Missed

LEMMA WalkData ==
    ASSUME TableInv, PageInv, FilterInv, WalkInv, Sortable, DataArrives PROVE WalkInv'
  <1>1. /\ pc = "asked" /\ data = None /\ data' \in Results(query)
        /\ UNCHANGED <<walk, pc, page, total, seen, rows, stayed, writes>>
    BY DEF DataArrives, tableVars
  <1>2. CASE data' = None
    BY <1>1, <1>2, WalkRests
  <1>3. CASE data' # None /\ Walkable
    <2> DEFINE S == Wished
               G == UNION ToSet(seen)
               n == Len(seen) * Size
               b == writes - Slack
    <2>1. PICK U1, U2 : Page(SortOrder, S, n, Size, U1, U2) /\ data' = U2 \ U1
      BY <1>1, <1>3, PageArrives
    <2> DEFINE D == U2 \ U1
    <2>2. /\ Walkable' /\ Size' = Size /\ SortOrder' = SortOrder /\ Wished' = S
      BY <1>1, <1>3, SameWalk
    <2>3. /\ Orders(SortOrder, S) /\ S \subseteq rows /\ IsFiniteSet(S)
      BY <1>3, Ordered
    <2>4. /\ Size \in Nat /\ Len(seen) \in Nat /\ n \in Nat /\ writes \in Nat
          /\ (Len(seen) + 1) * Size = n + Size /\ (Len(seen) + 0) * Size = n
      <3>1. Len(seen) \in Nat /\ walk \in DOMAIN Walks /\ writes \in Nat
        BY DEF FilterInv, TableInv
      <3>2. Size \in Nat
        BY <1>1, <1>3, <3>1, Sized DEF WalkInv, Underway
      <3>3. QED
        BY <3>1, <3>2
    <2>5. Told = {} /\ Told' = D /\ GivenRows = G /\ GivenRows' = G \cup D
      <3>1. Told = {}
        BY <1>1 DEF Told
      <3>2. Told' = D
        BY <1>3, <2>1 DEF Told
      <3>3. seen' = seen /\ G \cup {} = G
        BY <1>1
      <3>4. GivenRows = G \cup Told
        BY DEF GivenRows
      <3>5. GivenRows' = G \cup Told'
        BY <3>3 DEF GivenRows
      <3> HIDE DEF D, G
      <3>6. QED
        BY <3>1, <3>2, <3>3, <3>4, <3>5
    <2>6. Reach = n /\ Reach' = n + Size
      BY <1>1, <1>3, <2>2, <2>4 DEF Reach
    <2>7. Measured /\ Underway
      BY <1>1, <1>3 DEF WalkInv
    <2>8. IsFiniteSet(D) /\ IsFiniteSet(G) /\ IsFiniteSet(G \cup D) /\ Sizes(seen) \in Int
      <3>1. IsPage(S, n, Size, U1, U2)
        BY <2>1, <2>3, <2>4, PageRows
      <3>2. IsFiniteSet(D) /\ IsFiniteSet(G) /\ Sizes(seen) \in Int
        BY <2>7, <3>1 DEF IsPage, Measured
      <3>3. QED
        BY <3>2, FS_Union
    <2>9. Measured'
      BY <1>1, <2>5, <2>8 DEF Measured
    <2>10. Twofold = Sizes(seen) - Cardinality(G) /\ Twofold \in Int
           /\ Twofold' = Twofold + Cardinality(D \cap G)
      <3>1. Twofold = Sizes(seen) + Cardinality({}) - Cardinality(G)
            /\ Twofold' = Sizes(seen) + Cardinality(D) - Cardinality(G \cup D)
        BY <1>1, <2>5 DEF Twofold
      <3>2. Cardinality({}) = 0
        BY FS_EmptySet
      <3> HIDE DEF G, D
      <3>3. /\ IsFiniteSet(D \cap G)
            /\ Cardinality(G \cup D) = Cardinality(G) + Cardinality(D) - Cardinality(G \cap D)
        BY <2>8, FS_Union, FS_Intersection
      <3>4. Cardinality(G) \in Nat /\ Cardinality(D) \in Nat /\ Cardinality(D \cap G) \in Nat
            /\ G \cap D = D \cap G
        BY <2>8, <3>3, FS_CardinalityType
      <3> DEFINE x == Cardinality(G)
                 y == Cardinality(D)
                 z == Cardinality(D \cap G)
                 u == Cardinality(G \cup D)
                 v == Sizes(seen)
      <3>5. x \in Nat /\ y \in Nat /\ z \in Nat /\ u = x + y - z /\ v \in Int
        BY <2>8, <3>3, <3>4
      <3>6. Twofold = v + 0 - x /\ Twofold' = v + y - u
        BY <3>1, <3>2
      <3> HIDE DEF x, y, z, u, v
      <3>7. Twofold = v - x /\ Twofold \in Int /\ Twofold' = Twofold + z
        BY <3>5, <3>6
      <3>8. QED
        BY <3>7 DEF v, x, z
    <2>11. Slack \in Nat /\ (total # None => Slack = Excess(Cardinality(S), total)) /\ Slack' = 0
      <3>1. Slack' = 0
        BY <1>1, <1>3 DEF Slack
      <3>2. Cardinality(S) \in Nat
        BY <2>3, FS_CardinalityType
      <3>3. total # None => total \in Int
        BY <1>1 DEF PageInv
      <3>4. QED
        BY <1>1, <3>1, <3>2, <3>3 DEF Slack, Excess
    <2> DEFINE stay == S \cap stayed
    <2>12. Missed(SortOrder, S, stay, G \cup D, n + Size, b)
      <3>1. Missed(SortOrder, S, stay, G, n, b)
        BY <2>5, <2>6, <2>7 DEF Underway
      <3>2. stay \in SUBSET S /\ b \in Int
        BY <2>4, <2>11
      <3> HIDE DEF S, stay, G, n, b
      <3>3. QED
        BY <2>1, <2>3, <2>4, <3>1, <3>2, PageMissed
    <2>13. Missed(SortOrder, S, stay, G \cup D, n + Size, writes)
      <3>1. b <= writes /\ b \in Int /\ writes \in Int /\ n + Size \in Nat
        BY <2>4, <2>11
      <3> HIDE DEF S, stay, G, D, n, b
      <3>2. QED
        BY <2>3, <2>12, <3>1, MoreMissed
    <2>14. Twice(SortOrder, S, G \cup D, n + Size, Twofold + Cardinality(D \cap G), writes)
      <3>1. Twice(SortOrder, S, G, n, Twofold, writes) /\ writes \in Int
        BY <2>4, <2>5, <2>6, <2>7 DEF Underway
      <3> HIDE DEF S, G, n
      <3>2. QED
        BY <2>1, <2>3, <2>4, <2>10, <3>1, PageTwice
    <2>15. ASSUME total # None, total <= n + Size
           PROVE  Cardinality(stay \ (G \cup D)) <= writes
      <3>1. total \in Int /\ Slack = Excess(Cardinality(S), total)
        BY <1>1, <2>11, <2>15 DEF PageInv
      <3>2. Cardinality(stay \ (G \cup D)) <= b + Excess(Cardinality(S), n + Size)
        <4>1. stay \in SUBSET S
          OBVIOUS
        <4> HIDE DEF S, stay, G, D, n, b
        <4>2. QED
          BY <2>12, <4>1, AllMissed
      <3>3. Cardinality(S) \in Nat /\ Cardinality(stay \ (G \cup D)) \in Nat
        <4>1. stay \ (G \cup D) \in SUBSET S
          OBVIOUS
        <4> HIDE DEF S, stay, G, D
        <4>2. QED
          BY <2>3, <4>1, Fewer
      <3>4. b = writes - Slack
        OBVIOUS
      <3> DEFINE c == Cardinality(S)
                 m == n + Size
      <3>5. m \in Nat /\ writes \in Nat /\ c \in Nat /\ total <= m
        BY <2>4, <2>15, <3>3
      <3> HIDE DEF c, m, b
      <3>6. Excess(c, total) \in Nat /\ Excess(c, m) <= Excess(c, total) /\ Excess(c, m) \in Nat
        BY <3>1, <3>5 DEF Excess
      <3>7. b + Excess(c, m) <= writes /\ b + Excess(c, m) \in Int
        BY <3>1, <3>4, <3>5, <3>6 DEF c
      <3>8. Cardinality(stay \ (G \cup D)) <= b + Excess(c, m)
        BY <3>2 DEF c, m
      <3> HIDE DEF S, stay, G, D, n
      <3>9. QED
        BY <3>3, <3>5, <3>7, <3>8
    <2>16. InOrder'
      <3>1. InOrder /\ input' = input
        BY <1>1, <2>7, SameWalk DEF Underway
      <3>2. QED
        BY <1>1, <3>1 DEF InOrder
    <2>17. writes' - Slack' = writes /\ (Wished \cap stayed)' = stay
      BY <1>1, <2>2, <2>4, <2>11
    <2>18. Complete(GivenRows)' <=> Cardinality(stay \ (G \cup D)) <= writes
      BY <1>1, <2>5, <2>17 DEF Complete
    <2>19. Missed(SortOrder, Wished, Wished \cap stayed, GivenRows, Reach, writes - Slack)'
      <3>1. Missed(SortOrder', Wished', (Wished \cap stayed)', GivenRows', Reach', writes' - Slack')
        <4> HIDE DEF S, stay, G, D, n
        <4>1. QED
          BY <2>2, <2>5, <2>6, <2>13, <2>17
      <3>2. QED
        BY <3>1
    <2>20. Twice(SortOrder, Wished, GivenRows, Reach, Twofold, writes)'
      <3>1. Twice(SortOrder', Wished', GivenRows', Reach', Twofold', writes')
        <4> HIDE DEF S, G, D, n
        <4>1. QED
          BY <1>1, <2>2, <2>5, <2>6, <2>10, <2>14
      <3>2. QED
        BY <3>1
    <2>21. data' # None /\ total' # None /\ total' <= Reach' => Complete(GivenRows)'
      BY <1>1, <2>6, <2>15, <2>18
    <2> HIDE DEF S, stay, G, D, n, b
    <2>22. Underway'
      BY <2>16, <2>19, <2>20, <2>21 DEF Underway
    <2>23. QED
      BY <1>1, <2>9, <2>22 DEF WalkInv
  <1>4. CASE ~Walkable
    BY <1>1, <1>4, SameWalk DEF WalkInv
  <1>5. QED
    BY <1>2, <1>3, <1>4

LEMMA WalkCount ==
    ASSUME TableInv, PageInv, FilterInv, WalkInv, Sortable, CountArrives PROVE WalkInv'
  <1>1. /\ pc = "asked" /\ total = None /\ total' = Count(query)
        /\ UNCHANGED <<walk, pc, page, data, seen, rows, stayed, writes>>
    BY DEF CountArrives, tableVars
  <1>2. CASE Walkable
    <2> DEFINE S == Wished
    <2>1. /\ Walkable' /\ Size' = Size /\ SortOrder' = SortOrder /\ input' = input /\ Wished' = S
      BY <1>1, <1>2, SameWalk
    <2>2. /\ Orders(SortOrder, S) /\ IsFiniteSet(S)
      BY <1>2, Ordered
    <2>3. total' = Cardinality(S)
      BY <1>1, <1>2, Queried DEF Count, Walkable, Wished
    <2>4. Cardinality(S) \in Nat /\ writes \in Nat
      BY <2>2, FS_CardinalityType DEF TableInv
    <2>5. Slack = 0 /\ Slack' = 0
      BY <1>1, <2>1, <2>3, <2>4 DEF Slack, Excess
    <2>6. Told' = Told /\ GivenRows' = GivenRows
      BY <1>1 DEF Told, GivenRows
    <2>7. Reach' = Reach /\ Twofold' = Twofold
      BY <1>1, <2>1, <2>6 DEF Reach, Twofold
    <2>8. Measured /\ Underway
      BY <1>1, <1>2 DEF WalkInv
    <2>9. Measured' /\ InOrder'
      BY <1>1, <2>1, <2>6, <2>8 DEF Measured, InOrder, Underway
    <2>10. total' <= Reach => Complete(GivenRows)
      <3>1. Missed(SortOrder, S, S \cap stayed, GivenRows, Reach, writes)
        BY <2>4, <2>5, <2>8 DEF Underway
      <3>2. Cardinality((S \cap stayed) \ GivenRows) <= writes + Excess(Cardinality(S), Reach)
        <4> DEFINE stay == S \cap stayed
        <4>1. stay \in SUBSET S
          OBVIOUS
        <4> HIDE DEF stay, S
        <4>2. Missed(SortOrder, S, stay, GivenRows, Reach, writes)
          BY <3>1 DEF stay
        <4>3. QED
          BY <4>1, <4>2, AllMissed DEF stay
      <3>3. Reach \in Int
        <4>1. Len(seen) \in Nat /\ walk \in DOMAIN Walks
          BY DEF FilterInv, TableInv
        <4>2. Size \in Nat
          BY <1>2, <2>8, <4>1, Sized DEF Underway
        <4>3. QED
          BY <4>1, <4>2 DEF Reach
      <3> HIDE DEF S
      <3>4. total' <= Reach => Excess(Cardinality(S), Reach) = 0
        BY <2>3, <2>4, <3>3 DEF Excess
      <3>5. QED
        BY <2>4, <3>2, <3>4 DEF Complete, S
    <2>11. Complete(GivenRows)' <=> Complete(GivenRows)
      BY <1>1, <2>1, <2>6 DEF Complete
    <2>12. Underway'
      BY <1>1, <2>1, <2>5, <2>6, <2>7, <2>8, <2>9, <2>10, <2>11 DEF Underway
    <2>13. QED
      BY <1>1, <2>9, <2>12 DEF WalkInv
  <1>3. CASE ~Walkable
    BY <1>1, <1>3, SameWalk DEF WalkInv
  <1>4. QED
    BY <1>2, <1>3

LEMMA StayedShrinks == Write => stayed' \subseteq stayed
  <1> SUFFICES ASSUME Write PROVE stayed' \subseteq stayed
    OBVIOUS
  <1>1. PICK session \in store.sessions :
            \/ \E objects \in Batches(store.objects) : Create(objects, session)
            \/ \E objects \in Batches(ToSave(session)) : Update(objects, session)
            \/ \E id \in DOMAIN table : Delete(id, session)
    BY Writes
  <1>2. ASSUME NEW objects, NEW batch, NEW old, Save(objects, batch, old)
        PROVE  stayed' \subseteq stayed
    BY <1>2 DEF Save
  <1>3. CASE \E objects \in Batches(store.objects) : Create(objects, session)
    BY <1>2, <1>3 DEF Create
  <1>4. CASE \E objects \in Batches(ToSave(session)) : Update(objects, session)
    BY <1>2, <1>4 DEF Update
  <1>5. CASE \E id \in DOMAIN table : Delete(id, session)
    BY <1>5 DEF Delete
  <1>6. QED
    BY <1>1, <1>3, <1>4, <1>5

LEMMA WalkAnswer ==
    ASSUME TableInv, PageInv, FilterInv, WalkInv, Answer PROVE WalkInv'
  <1>1. /\ pc = "asked" /\ data # None /\ total # None /\ seen' = Append(seen, data)
        /\ data' = None /\ total' = None
        /\ UNCHANGED <<walk, rows, stayed, writes>>
    BY DEF Answer, tableVars
  <1>2. CASE Walkable
    <2>1. /\ Walkable' /\ Size' = Size /\ SortOrder' = SortOrder /\ Wished' = Wished
      BY <1>1, <1>2, SameWalk
    <2>2. Measured /\ Underway
      BY <1>1, <1>2 DEF WalkInv
    <2>3. PICK X : seen \in Seq(X)
      BY DEF FilterInv
    <2>4. /\ Len(seen) \in Nat /\ Len(seen') = Len(seen) + 1
          /\ ToSet(seen') = ToSet(seen) \cup {data}
      <3>1. seen' \in Seq(X \cup {data}) /\ Len(seen) \in Nat /\ Len(seen') = Len(seen) + 1
        BY <1>1, <2>3
      <3>2. /\ DOMAIN seen = 1 .. Len(seen) /\ DOMAIN seen' = 1 .. Len(seen) + 1
            /\ seen'[Len(seen) + 1] = data /\ \A i \in 1 .. Len(seen) : seen'[i] = seen[i]
        BY <1>1, <2>3
      <3>3. \A i : i \in 1 .. Len(seen) + 1 <=> i \in 1 .. Len(seen) \/ i = Len(seen) + 1
        BY <3>1
      <3>4. QED
        BY <3>1, <3>2, <3>3 DEF ToSet
    <2>5. Told = data /\ Told' = {} /\ GivenRows' = GivenRows
          /\ UNION ToSet(seen') = GivenRows
      <3>1. Told = data /\ Told' = {}
        BY <1>1 DEF Told
      <3>2. UNION ToSet(seen') = (UNION ToSet(seen)) \cup data
        BY <2>4
      <3>3. GivenRows = (UNION ToSet(seen)) \cup data
        BY <3>1 DEF GivenRows
      <3>4. GivenRows' = UNION ToSet(seen')
        BY <3>1 DEF GivenRows
      <3>5. QED
        BY <3>1, <3>2, <3>3, <3>4
    <2>6. Sizes(seen') = Sizes(seen) + Cardinality(data) /\ Cardinality(data) \in Nat
          /\ IsFiniteSet(GivenRows) /\ Sizes(seen) \in Int
      <3>1. Sizes(seen') = Sizes(seen) + Cardinality(data)
        BY <1>1, <2>3, SizesGrow
      <3>2. IsFiniteSet(UNION ToSet(seen)) /\ IsFiniteSet(Told) /\ Sizes(seen) \in Int
        BY <2>2 DEF Measured
      <3>3. IsFiniteSet(GivenRows)
        BY <3>2, FS_Union DEF GivenRows
      <3>4. Cardinality(data) \in Nat
        BY <2>5, <3>2, FS_CardinalityType
      <3>5. QED
        BY <3>1, <3>2, <3>3, <3>4
    <2>7. Measured'
      <3>1. IsFiniteSet(UNION ToSet(seen'))
        BY <2>5, <2>6
      <3>2. IsFiniteSet(Told')
        BY <2>5, FS_EmptySet
      <3>3. Sizes(seen') \in Int
        BY <2>6
      <3>4. QED
        BY <3>1, <3>2, <3>3 DEF Measured
    <2>8. Twofold' = Twofold /\ Twofold = Sizes(seen') - Cardinality(GivenRows)
      <3>1. /\ Twofold = Sizes(seen) + Cardinality(data) - Cardinality(GivenRows)
            /\ Twofold' = Sizes(seen') + Cardinality({}) - Cardinality(GivenRows)
        BY <2>5 DEF Twofold
      <3>2. Cardinality({}) = 0
        BY FS_EmptySet
      <3>3. Cardinality(GivenRows) \in Nat
        BY <2>6, FS_CardinalityType
      <3>4. QED
        BY <2>6, <3>1, <3>2, <3>3
    <2>9. /\ Pagination(app, Raw) = [page |-> Len(seen) + 1, pageSize |-> Size]
          /\ Size \in Nat \ {0}
      BY <1>2, <2>2, <2>4, Sized DEF Underway, TableInv
    <2>10. Reach = (Len(seen) + 1) * Size /\ Reach' = (Len(seen) + 1 + 0) * Size
      BY <1>1, <2>1, <2>4 DEF Reach
    <2>11. Reach' = Reach /\ Reach \in Int
      BY <2>4, <2>9, <2>10
    <2>12. Slack = 0 /\ Slack' = 0
      BY <1>1 DEF Slack
    <2>13. Complete(GivenRows)' <=> Complete(GivenRows)
      BY <1>1, <2>1, <2>5 DEF Complete
    <2>14. CASE pc' = "idle" /\ page' = Pagination(app, Raw).page + 1
      <3>1. page' = Len(seen') + 1
        BY <2>4, <2>9, <2>14
      <3>2. InOrder'
        BY <3>1 DEF InOrder
      <3>3. Missed(SortOrder, Wished, Wished \cap stayed, GivenRows, Reach, writes - Slack)'
        <4>1. Missed(SortOrder, Wished, Wished \cap stayed, GivenRows, Reach, writes - Slack)
          BY <2>2 DEF Underway
        <4>2. (Wished \cap stayed)' = Wished \cap stayed /\ (writes - Slack)' = writes - Slack
          BY <1>1, <2>1, <2>12
        <4>3. Missed(SortOrder', Wished', (Wished \cap stayed)', GivenRows', Reach',
                     (writes - Slack)')
          BY <2>1, <2>5, <2>11, <4>1, <4>2
        <4>4. QED
          BY <4>3
      <3>4. Twice(SortOrder, Wished, GivenRows, Reach, Twofold, writes)'
        <4>1. Twice(SortOrder, Wished, GivenRows, Reach, Twofold, writes)
          BY <2>2 DEF Underway
        <4>2. Twice(SortOrder', Wished', GivenRows', Reach', Twofold', writes')
          BY <1>1, <2>1, <2>5, <2>8, <2>11, <4>1
        <4>3. QED
          BY <4>2
      <3>5. Underway'
        BY <1>1, <3>2, <3>3, <3>4 DEF Underway
      <3>6. QED
        BY <2>7, <2>14, <3>5 DEF WalkInv
    <2>15. CASE pc' = "over" /\ ~(Pagination(app, Raw).page * Pagination(app, Raw).pageSize < total)
      <3>1. total <= Reach
        <4>1. total \in Int
          BY <1>1 DEF PageInv
        <4>2. ~(Reach < total)
          BY <2>9, <2>10, <2>15
        <4>3. QED
          BY <2>11, <4>1, <4>2
      <3>2. Complete(GivenRows)
        BY <1>1, <2>2, <3>1 DEF Underway
      <3>3. Twofold <= writes
        BY <2>2 DEF Underway, Twice
      <3>4. Complete(UNION ToSet(seen))'
        BY <1>1, <2>1, <2>5, <3>2 DEF Complete
      <3>5. Sizes(seen') - Cardinality(UNION ToSet(seen')) <= writes'
        BY <1>1, <2>5, <2>8, <3>3
      <3>6. QED
        BY <2>7, <2>15, <3>4, <3>5 DEF WalkInv
    <2>16. QED
      BY <2>14, <2>15 DEF Answer
  <1>3. CASE ~Walkable
    BY <1>1, <1>3, SameWalk DEF WalkInv
  <1>4. QED
    BY <1>2, <1>3

LEMMA WalkWrite ==
    ASSUME TableInv, TableInv', PageInv, FilterInv, WalkInv, Sortable, Write PROVE WalkInv'
  <1>1. UNCHANGED <<walk, pc, page, data, total, seen>>
    BY DEF Write, listVars
  <1>2. CASE Walkable
    <2> DEFINE S == Wished
               S2 == Wished'
               stay == Wished \cap stayed
               stay2 == (Wished \cap stayed)'
    <2>1. /\ Walkable' /\ Size' = Size /\ SortOrder' = SortOrder /\ input' = input
      BY <1>1, <1>2, SameWalk
    <2>2. /\ Orders(SortOrder, S) /\ S \subseteq rows /\ IsFiniteSet(S)
      BY <1>2, Ordered
    <2>3. /\ writes \in Nat /\ writes' \in Nat
          /\ Cardinality(S \ S2) \in Nat /\ Cardinality(S2 \ S) \in Nat
          /\ Cardinality(S \ S2) <= writes' - writes /\ Cardinality(S2 \ S) <= writes' - writes
          /\ IsFiniteSet(S2)
      BY RowsMoved
    <2>4. Told' = Told /\ GivenRows' = GivenRows /\ Reach' = Reach /\ Twofold' = Twofold
      <3>1. Told' = Told
        BY <1>1 DEF Told
      <3>2. GivenRows' = GivenRows
        BY <1>1, <3>1 DEF GivenRows
      <3>3. QED
        BY <1>1, <2>1, <3>1, <3>2 DEF Reach, Twofold
    <2>5. stay2 \in SUBSET stay /\ stay \in SUBSET S
      <3>1. stayed' \subseteq stayed
        BY StayedShrinks
      <3>2. \A r : Wanted(r)' <=> Wanted(r)
        BY <1>1, SameWishes
      <3>3. stayed \subseteq rows
        BY DEF TableInv
      <3>4. QED
        BY <3>1, <3>2, <3>3 DEF Wished
    <2>6. ASSUME NEW G, Complete(G) PROVE Cardinality(stay2 \ G) <= writes'
      <3>1. stay \ G \in SUBSET S /\ stay2 \ G \in SUBSET (stay \ G)
        BY <2>5
      <3>2. IsFiniteSet(stay \ G) /\ Cardinality(stay \ G) \in Nat
        <4> DEFINE A == stay \ G
        <4>1. A \in SUBSET S
          BY <3>1
        <4> HIDE DEF A, S
        <4>2. IsFiniteSet(A) /\ Cardinality(A) \in Nat
          BY <2>2, <4>1, Fewer
        <4>3. QED
          BY <4>2 DEF A
      <3>3. Cardinality(stay2 \ G) <= Cardinality(stay \ G) /\ Cardinality(stay2 \ G) \in Nat
        <4> DEFINE A == stay \ G
                   B == stay2 \ G
        <4>1. B \in SUBSET A /\ IsFiniteSet(A)
          BY <3>1, <3>2
        <4> HIDE DEF A, B
        <4>2. Cardinality(B) <= Cardinality(A) /\ Cardinality(B) \in Nat
          BY <4>1, Fewer
        <4>3. QED
          BY <4>2 DEF A, B
      <3>4. Cardinality(stay \ G) <= writes
        BY <2>6 DEF Complete
      <3> HIDE DEF stay, stay2
      <3>5. writes <= writes'
        BY <2>3
      <3>6. QED
        BY <2>3, <3>2, <3>3, <3>4, <3>5
    <2>7. Measured /\ Measured'
      <3>1. Measured
        BY <1>2 DEF WalkInv
      <3>2. QED
        BY <1>1, <2>4, <3>1 DEF Measured
    <2>8. ASSUME pc \in {"idle", "asked"} PROVE Underway'
      <3>1. Underway
        BY <1>2, <2>8 DEF WalkInv
      <3>2. InOrder'
        BY <1>1, <2>1, <3>1 DEF Underway, InOrder
      <3>3. Len(seen) \in Nat /\ Size \in Nat
        <4>1. Len(seen) \in Nat
          BY DEF FilterInv
        <4>2. QED
          BY <1>2, <3>1, <4>1, Sized DEF Underway, TableInv
      <3>4. Reach \in Nat
        BY <3>3 DEF Reach
      <3>5. Twofold \in Int
        <4>1. Sizes(seen) \in Int /\ IsFiniteSet(Told) /\ IsFiniteSet(GivenRows)
          BY <2>7, FS_Union DEF Measured, GivenRows
        <4>2. Cardinality(Told) \in Nat /\ Cardinality(GivenRows) \in Nat
          BY <4>1, FS_CardinalityType
        <4>3. QED
          BY <4>1, <4>2 DEF Twofold
      <3>6. /\ Slack \in Int /\ Slack' \in Int
            /\ Cardinality(S \ S2) + Slack' - Slack <= writes' - writes
        <4>1. /\ Cardinality(S) \in Nat /\ Cardinality(S2) \in Nat
              /\ Cardinality(S2) + Cardinality(S \ S2) = Cardinality(S) + Cardinality(S2 \ S)
          <5> HIDE DEF S, S2
          <5>1. /\ IsFiniteSet(S \cap S2) /\ IsFiniteSet(S \ S2) /\ IsFiniteSet(S2 \ S)
            BY <2>2, <2>3, FS_Subset
          <5>2. /\ (S \cap S2) \cup (S \ S2) = S /\ (S \cap S2) \cap (S \ S2) = {}
                /\ (S \cap S2) \cup (S2 \ S) = S2 /\ (S \cap S2) \cap (S2 \ S) = {}
            OBVIOUS
          <5>3. Cardinality(S) = Cardinality(S \cap S2) + Cardinality(S \ S2)
            BY <5>1, <5>2, Apart
          <5>4. Cardinality(S2) = Cardinality(S \cap S2) + Cardinality(S2 \ S)
            BY <5>1, <5>2, Apart
          <5>5. Cardinality(S \cap S2) \in Nat
            BY <5>1, FS_CardinalityType
          <5>6. QED
            BY <2>3, <5>3, <5>4, <5>5
        <4>2. CASE data = None /\ total # None
          <5>1. Slack = Excess(Cardinality(S), total) /\ Slack' = Excess(Cardinality(S2), total)
            BY <1>1, <4>2 DEF Slack
          <5>2. total \in Int
            BY <2>8, <4>2 DEF PageInv
          <5> HIDE DEF S, S2
          <5>3. QED
            BY <2>3, <4>1, <5>1, <5>2 DEF Excess
        <4>3. CASE ~(data = None /\ total # None)
          <5>1. Slack = 0 /\ Slack' = 0
            BY <1>1, <4>3 DEF Slack
          <5> HIDE DEF S, S2
          <5>2. QED
            BY <2>3, <5>1
        <4>4. QED
          BY <4>2, <4>3
      <3>7. Missed(SortOrder, S2, stay2, GivenRows, Reach, writes' - Slack')
        <4>1. Missed(SortOrder, S, stay, GivenRows, Reach, writes - Slack)
          BY <3>1 DEF Underway
        <4> DEFINE b == writes - Slack
                   b2 == writes' - Slack'
        <4> HIDE DEF S, S2, stay, stay2
        <4>2. b \in Int /\ b2 \in Int /\ b2 >= b + Cardinality(S \ S2)
          BY <2>3, <3>6
        <4>3. Missed(SortOrder, S, stay, GivenRows, Reach, b)
          BY <4>1
        <4> HIDE DEF b, b2
        <4>4. Missed(SortOrder, S2, stay2, GivenRows, Reach, b2)
          BY <2>2, <2>3, <2>5, <3>4, <4>2, <4>3, WriteMissed
        <4>5. QED
          BY <4>4 DEF b2
      <3>8. Twice(SortOrder, S2, GivenRows, Reach, Twofold, writes')
        <4>1. Twice(SortOrder, S, GivenRows, Reach, Twofold, writes)
          BY <3>1 DEF Underway
        <4> HIDE DEF S, S2
        <4>2. writes \in Int /\ writes' \in Int /\ writes' >= writes + Cardinality(S2 \ S)
          BY <2>3
        <4>3. QED
          BY <2>2, <2>3, <3>4, <3>5, <4>1, <4>2, WriteTwice
      <3>9. Missed(SortOrder, Wished, Wished \cap stayed, GivenRows, Reach, writes - Slack)'
        <4>1. Missed(SortOrder', Wished', stay2, GivenRows', Reach', writes' - Slack')
          <5> HIDE DEF stay2
          <5>1. QED
            BY <2>1, <2>4, <3>7
        <4>2. QED
          BY <4>1
      <3>10. Twice(SortOrder, Wished, GivenRows, Reach, Twofold, writes)'
        <4>1. Twice(SortOrder', Wished', GivenRows', Reach', Twofold', writes')
          BY <2>1, <2>4, <3>8
        <4>2. QED
          BY <4>1
      <3>11. data' # None /\ total' # None /\ total' <= Reach' => Complete(GivenRows)'
        <4>1. data # None /\ total # None /\ total <= Reach => Complete(GivenRows)
          BY <3>1 DEF Underway
        <4>2. Complete(GivenRows) => Cardinality(stay2 \ GivenRows) <= writes'
          BY <2>6
        <4>3. Cardinality(stay2 \ GivenRows) <= writes' => Complete(GivenRows)'
          BY <2>4 DEF Complete
        <4>4. QED
          BY <1>1, <2>4, <4>1, <4>2, <4>3
      <3>12. QED
        BY <3>2, <3>9, <3>10, <3>11 DEF Underway
    <2>9. ASSUME pc = "over"
          PROVE  /\ Complete(UNION ToSet(seen))'
                 /\ Sizes(seen') - Cardinality(UNION ToSet(seen')) <= writes'
      <3>1. /\ Complete(UNION ToSet(seen))
            /\ Sizes(seen) - Cardinality(UNION ToSet(seen)) <= writes
        BY <1>2, <2>9 DEF WalkInv
      <3>2. Cardinality(stay2 \ UNION ToSet(seen)) <= writes'
        BY <2>6, <3>1
      <3>3. Complete(UNION ToSet(seen))'
        BY <1>1, <3>2 DEF Complete
      <3>4. Sizes(seen) \in Int /\ Cardinality(UNION ToSet(seen)) \in Nat
        BY <2>7, FS_CardinalityType DEF Measured
      <3>5. writes <= writes'
        BY <2>3
      <3>6. Sizes(seen) - Cardinality(UNION ToSet(seen)) <= writes'
        BY <2>3, <3>1, <3>4, <3>5
      <3>7. QED
        BY <1>1, <3>3, <3>6
    <2>10. QED
      BY <1>1, <2>7, <2>8, <2>9 DEF WalkInv
  <1>3. CASE ~Walkable
    BY <1>1, <1>3, SameWalk DEF WalkInv
  <1>4. QED
    BY <1>2, <1>3

LEMMA InitWalk == Init => WalkInv
  <1> SUFFICES ASSUME Init, Walkable PROVE Measured /\ Underway
    BY DEF WalkInv, Init, ListInit
  <1>1. /\ pc = "idle" /\ page = input.page /\ data = None /\ total = None /\ seen = <<>>
        /\ writes = 0
    BY DEF Init, ListInit
  <1>2. TableInv
    BY InitTable
  <1>3. Wished \subseteq rows /\ IsFiniteSet(Wished) /\ IsFiniteSet({}) /\ Cardinality({}) = 0
    <2>1. IsFiniteSet(rows) /\ Wished \subseteq rows
      BY <1>2, RowsCounted DEF Counted, Wished
    <2>2. QED
      BY <2>1, FS_Subset, FS_EmptySet
  <1>4. UNION ToSet(seen) = {} /\ Len(seen) = 0
    BY <1>1 DEF ToSet
  <1>5. Told = {} /\ GivenRows = {}
    BY <1>1, <1>4 DEF Told, GivenRows
  <1>6. Sizes(seen) = 0 /\ Twofold = 0
    BY <1>1, <1>3, <1>5, SizesNone DEF Twofold
  <1>7. Measured
    <2>1. IsFiniteSet(UNION ToSet(seen)) /\ IsFiniteSet(Told)
      BY <1>3, <1>4, <1>5
    <2>2. Sizes(seen) \in Int
      BY <1>6
    <2>3. QED
      BY <2>1, <2>2 DEF Measured
  <1>8. InOrder
    BY <1>1 DEF InOrder
  <1>9. Reach = 0 /\ Slack = 0
    <2>1. Size \in Nat
      BY <1>2, <1>4, <1>8, Sized DEF TableInv
    <2>2. QED
      BY <1>1, <1>4, <2>1 DEF Reach, Slack
  <1>10. ASSUME NEW T \in InitialOf(SortOrder, Wished)
         PROVE  /\ Cardinality((T \cap (Wished \cap stayed)) \ {}) <= 0 + Excess(Cardinality(T), 0)
                /\ 0 + Cardinality(({} \cap Wished) \ T) <= 0 + Excess(0, Cardinality(T))
    <2>1. T \in SUBSET Wished
      BY DEF InitialOf
    <2>2. IsFiniteSet(T) /\ Cardinality(T) \in Nat
      BY <1>3, <2>1, Fewer
    <2> DEFINE A == (T \cap (Wished \cap stayed)) \ {}
    <2>3. A \in SUBSET T
      OBVIOUS
    <2> HIDE DEF A
    <2>4. Cardinality(A) <= Cardinality(T) /\ Cardinality(A) \in Nat
      BY <2>2, <2>3, Fewer
    <2>5. Excess(Cardinality(T), 0) = Cardinality(T) /\ Excess(0, Cardinality(T)) = 0
      BY <2>2 DEF Excess
    <2>6. ({} \cap Wished) \ T = {}
      OBVIOUS
    <2>7. QED
      BY <1>3, <2>2, <2>4, <2>5, <2>6 DEF A
  <1>11. Missed(SortOrder, Wished, Wished \cap stayed, {}, 0, 0)
    BY <1>10 DEF Missed
  <1>12. Twice(SortOrder, Wished, {}, 0, 0, 0)
    <2>1. \A T \in InitialOf(SortOrder, Wished) :
            0 + Cardinality(({} \cap Wished) \ T) <= 0 + Excess(0, Cardinality(T))
      BY <1>10
    <2>2. 0 <= 0
      OBVIOUS
    <2>3. QED
      BY <2>1, <2>2, Zenon DEF Twice
  <1>13. Underway
    BY <1>1, <1>5, <1>6, <1>8, <1>9, <1>11, <1>12 DEF Underway
  <1>14. QED
    BY <1>7, <1>13

LEMMA WalkStep ==
    TableInv /\ TableInv' /\ PageInv /\ FilterInv /\ Sortable /\ WalkInv /\ [Next]_vars => WalkInv'
  <1> SUFFICES ASSUME TableInv, TableInv', PageInv, FilterInv, Sortable, WalkInv, [Next]_vars
               PROVE  WalkInv'
    OBVIOUS
  <1>1. CASE Ask
    <2>1. /\ pc = "idle" /\ pc' \in {"refused", "failed", "asked"}
          /\ UNCHANGED <<walk, page, data, total, seen, rows, stayed, writes>>
      BY <1>1 DEF Ask, tableVars
    <2>2. QED
      BY <2>1, WalkRests
  <1>2. CASE QueryFails
    <2>1. pc' = "failed" /\ UNCHANGED <<walk, page, data, total, seen, rows, stayed, writes>>
      BY <1>2 DEF QueryFails, tableVars
    <2>2. QED
      BY <2>1, WalkRests
  <1>3. CASE UNCHANGED vars
    <2>1. UNCHANGED <<walk, pc, page, data, total, seen, rows, stayed, writes>>
      BY <1>3 DEF vars, listVars, tableVars
    <2>2. QED
      BY <2>1, WalkRests
  <1>4. QED
    BY <1>1, <1>2, <1>3, WalkData, WalkCount, WalkAnswer, WalkWrite DEF Next, ListNext

-----------------------------------------------------------------------------
(* What a list is sorted by are numbers.                                    *)

Number(v) == v \in Int \cup {None, Null}

SortColumn(c) ==
    /\ c \in ColumnNames /\ TypeOf(c) = "integer"
    /\ c \notin {"inserted_by", "updated_by"} \cup {ColumnFor(store, k) : k \in AuditKeys}
    /\ c = "id" => \A o \in store.objects \cup store.before : o.id \in Int
    /\ \A kind \in DOMAIN store.keys :
        /\ c \notin DOMAIN store.derived[kind]
        /\ \A k \in store.keys[kind] : ColumnFor(store, k) = c =>
            /\ k \in DOMAIN store.overrides \/ Regular(Camels[k])
            /\ k \notin Range(store.derived[kind])
            /\ \A o \in store.objects \cup store.before : o.kind = kind => Number(Value(o, k))
            /\ \A change \in store.changes : k \in DOMAIN change => Number(change[k])

SortColumns == {Resolved(store, SortOrder[i].field) : i \in DOMAIN SortOrder}

LEMMA Sorting ==
    ASSUME walk \in DOMAIN Walks
    PROVE  /\ \A i \in DOMAIN SortOrder : SortOrder[i].field \in store.fields
           /\ \A c \in SortColumns : SortColumn(c)
           /\ (Range(Numerals) \cup Range(Scalars)) \cap Int = {}
  <1>1. (Range(Numerals) \cup Range(Scalars)) \cap Int = {}
    BY SortAssumption
  <1>2. ASSUME NEW i \in DOMAIN SortOrder
        PROVE  /\ SortOrder[i].field \in store.fields
               /\ SortColumn(Resolved(store, SortOrder[i].field))
    <2> DEFINE c == Resolved(store, SortOrder[i].field)
    <2>1. /\ SortOrder[i].field \in store.fields
          /\ c \in DOMAIN store.columns /\ store.columns[c] = "integer"
          /\ c \notin {"inserted_by", "updated_by"} \cup {ColumnFor(store, k) : k \in AuditKeys}
          /\ c = "id" => \A o \in store.objects \cup store.before : o.id \in Int
          /\ \A kind \in DOMAIN store.keys :
              /\ c \notin DOMAIN store.derived[kind]
              /\ \A k \in store.keys[kind] : ColumnFor(store, k) = c =>
                  /\ k \in DOMAIN store.overrides \/ Regular(Camels[k])
                  /\ k \notin Range(store.derived[kind])
                  /\ {Value(o, k) : o \in {p \in store.objects \cup store.before : p.kind = kind}}
                      \cup {change[k] : change \in {d \in store.changes : k \in DOMAIN d}}
                          \subseteq Int \cup {None, Null}
      BY SortAssumption DEF SortOrder, store, app, input
    <2> HIDE DEF c
    <2>2. SortColumn(c)
      BY <2>1 DEF SortColumn, ColumnNames, TypeOf, Number
    <2>3. QED
      BY <2>1, <2>2 DEF c
  <1>3. QED
    BY <1>1, <1>2 DEF SortColumns

\* An object whose keys of these columns have numbers.
Numeric(o) ==
    \A c \in SortColumns :
        /\ c = "id" => o.id \in Int
        /\ \A k \in store.keys[o.kind] : ColumnFor(store, k) = c => Number(Value(o, k))

LEMMA NumberKept ==
    ASSUME walk \in DOMAIN Walks, NEW v, Number(v), Encode("integer", v) # NaN
    PROVE  Sorts(Encode("integer", v))
  <1>1. Cast["integer"] = "INTEGER"
    BY DEF Cast
  <1>2. v \in Int => v \notin Range(Numerals)
    BY Sorting
  <1>3. CASE v \in {None, Null}
    BY <1>3 DEF Encode, Sorts
  <1>4. CASE v \notin {None, Null}
    BY <1>1, <1>2, <1>4 DEF Encode, Sorts, Number
  <1>5. QED
    BY <1>3, <1>4

LEMMA NumericSaved ==
    ASSUME walk \in DOMAIN Walks, NEW o, IsObject(o), Numeric(o), NEW c \in SortColumns,
           c \in DOMAIN ToPersistence(o)
    PROVE  Number(ToPersistence(o)[c])
  <1>1. StoreOk(store) /\ SortColumn(c)
    BY Deployed, Sorting
  <1>2. CASE c = "id"
    BY <1>1, <1>2, Persistence DEF Numeric, Number
  <1>3. CASE c # "id"
    <2> DEFINE f == Derived(o)
               g == Converted(o)
    <2>1. c \notin DOMAIN f /\ c \in DOMAIN g
      BY <1>1 DEF ToPersistence, Over, Derived, SortColumn, IsObject
    <2>2. ToPersistence(o)[c] = g[c]
      <3>1. ToPersistence(o) = Over(f, g)
        BY DEF ToPersistence
      <3> HIDE DEF f, g
      <3>2. QED
        BY <2>1, <3>1 DEF Over
    <2> DEFINE k == CHOOSE j \in Keys(o) : ColumnFor(store, j) = c
    <2>3. g[c] = Value(o, k) /\ k \in Keys(o) /\ ColumnFor(store, k) = c
      BY <1>3, <2>1 DEF Converted
    <2> HIDE DEF k
    <2>4. k \in store.keys[o.kind]
      BY <1>1, <2>3 DEF Keys, SortColumn
    <2>5. QED
      BY <2>2, <2>3, <2>4 DEF Numeric
  <1>4. QED
    BY <1>2, <1>3

SortInv ==
    \A id \in DOMAIN table : Numeric(held[id]) /\ \A c \in SortColumns : Sorts(table[id][c])

\* SortInv after a step that leaves the deployment as it is.
NewSort ==
    \A id \in DOMAIN table' : Numeric(held'[id]) /\ \A c \in SortColumns : Sorts(table'[id][c])

LEMMA NewSortInv == NewSort /\ walk' = walk => SortInv'
  <1> SUFFICES ASSUME NewSort, walk' = walk PROVE SortInv'
    OBVIOUS
  <1>1. store' = store /\ SortOrder' = SortOrder
    BY SameStore, SameWalk
  <1>2. SortColumns' = SortColumns
    BY <1>1 DEF SortColumns, Resolved
  <1>3. \A id \in DOMAIN table' : Numeric(held[id])' <=> Numeric(held'[id])
    BY <1>1, <1>2 DEF Numeric
  <1>4. QED
    BY <1>2, <1>3 DEF NewSort, SortInv

\* The rows of a statement have nothing but what the mapper wrote, but for the audit columns.
Exact(objects, batch) ==
    /\ DOMAIN batch = DOMAIN objects
    /\ \A i \in DOMAIN objects :
        \A c \in DOMAIN batch[i] \ {"inserted_by", "updated_by"} :
            c \in DOMAIN ToPersistence(objects[i]) /\ batch[i][c] = ToPersistence(objects[i])[c]

LEMMA SortWritten ==
    ASSUME walk \in DOMAIN Walks, NEW o, IsObject(o), Numeric(o), NEW batch, Accepted(batch),
           NEW i \in DOMAIN batch, NEW old, NEW c \in SortColumns, Sorts(old[c]),
           c \in DOMAIN batch[i] =>
                c \in DOMAIN ToPersistence(o) /\ batch[i][c] = ToPersistence(o)[c]
    PROVE  Sorts(Written(batch, i, old)[c])
  <1>1. c \in ColumnNames /\ TypeOf(c) = "integer"
    BY Sorting DEF SortColumn
  <1>2. CASE c \in Sent(batch)
    <2> DEFINE v == IF c \in DOMAIN batch[i] THEN batch[i][c] ELSE None
    <2>1. Number(v)
      BY NumericSaved DEF Number
    <2>2. Assigned(batch, i, c) = Encode("integer", v) /\ Assigned(batch, i, c) # NaN
      BY <1>1, <1>2 DEF Assigned, Accepted
    <2> HIDE DEF v
    <2>3. Sorts(Encode("integer", v))
      BY <2>1, <2>2, NumberKept
    <2>4. QED
      BY <1>1, <1>2, <2>2, <2>3 DEF Written
  <1>3. CASE c \notin Sent(batch)
    BY <1>1, <1>3 DEF Written
  <1>4. QED
    BY <1>2, <1>3

LEMMA SortSave ==
    ASSUME TableInv, SortInv, NEW objects, IsBatch(objects), NEW batch, Exact(objects, batch),
           NEW old, Save(objects, batch, old),
           \A i \in DOMAIN objects : Numeric(objects[i]),
           \A id \in Ids(objects), c \in SortColumns : Sorts(old[id][c])
    PROVE  NewSort
  <1> DEFINE written == [id \in Ids(objects) |-> Written(batch, At(objects, id), old[id])]
             object == [id \in Ids(objects) |-> objects[At(objects, id)]]
  <1>1. /\ table' = Over(written, table) /\ held' = Over(object, held) /\ Accepted(batch)
    BY DEF Save
  <1>2. ASSUME NEW id \in Ids(objects)
        PROVE  Numeric(object[id]) /\ \A c \in SortColumns : Sorts(written[id][c])
    <2> DEFINE i == At(objects, id)
               o == objects[i]
    <2>1. i \in DOMAIN objects /\ IsObject(o) /\ Numeric(o)
      BY AtId DEF IsBatch
    <2>2. object[id] = o /\ written[id] = Written(batch, i, old[id])
      OBVIOUS
    <2>3. i \in DOMAIN batch /\ walk \in DOMAIN Walks
      BY <2>1 DEF Exact, TableInv
    <2>4. ASSUME NEW c \in SortColumns PROVE Sorts(Written(batch, i, old[id])[c])
      <3>1. c \notin {"inserted_by", "updated_by"}
        BY <2>3, Sorting DEF SortColumn
      <3>2. c \in DOMAIN batch[i] =>
              c \in DOMAIN ToPersistence(o) /\ batch[i][c] = ToPersistence(o)[c]
        BY <2>1, <3>1 DEF Exact
      <3> DEFINE was == old[id]
      <3>3. Sorts(was[c])
        OBVIOUS
      <3> HIDE DEF i, o, was
      <3>4. Sorts(Written(batch, i, was)[c])
        BY <1>1, <2>1, <2>3, <3>2, <3>3, SortWritten
      <3>5. QED
        BY <3>4 DEF was
    <2> HIDE DEF i, o, written, object
    <2>5. QED
      BY <2>1, <2>2, <2>4
  <1>3. DOMAIN written = Ids(objects) /\ DOMAIN object = Ids(objects)
    OBVIOUS
  <1> HIDE DEF written, object
  <1>4. SUFFICES ASSUME NEW id \in DOMAIN table'
                 PROVE  Numeric(held'[id]) /\ \A c \in SortColumns : Sorts(table'[id][c])
    BY DEF NewSort
  <1>5. CASE id \in Ids(objects)
    <2>1. table'[id] = written[id] /\ held'[id] = object[id]
      BY <1>1, <1>3, <1>5 DEF Over
    <2>2. QED
      BY <1>2, <1>5, <2>1
  <1>6. CASE id \notin Ids(objects)
    <2>1. id \in DOMAIN table
      BY <1>1, <1>3, <1>6 DEF Over
    <2>2. table'[id] = table[id] /\ held'[id] = held[id]
      BY <1>1, <1>3, <1>6, <2>1 DEF Over, TableInv
    <2>3. QED
      BY <2>1, <2>2 DEF SortInv
  <1>7. QED
    BY <1>5, <1>6

LEMMA LoadedNumbers ==
    ASSUME TableInv, SortInv, NEW id \in DOMAIN table
    PROVE  Numeric(ToDomain(id, held[id].kind))
  <1> DEFINE kind == held[id].kind
             o == ToDomain(id, kind)
  <1>1. StoreOk(store) /\ kind \in DOMAIN store.keys /\ held[id].id = id /\ walk \in DOMAIN Walks
    BY Deployed DEF TableInv, Stored, IsObject
  <1>2. o.id = id /\ o.kind = kind
    BY DEF ToDomain
  <1>3. ASSUME NEW k \in store.keys[kind], ColumnFor(store, k) \in SortColumns
        PROVE  Number(Value(o, k))
    <2> DEFINE c == ColumnFor(store, k)
               keys == {DomainKey(store, d) : d \in ColumnNames \ {"id"}}
               column == [j \in keys |-> CHOOSE d \in ColumnNames : DomainKey(store, d) = j]
               props == [j \in DOMAIN column |->
                            Wrapped(kind, j, Decode(TypeOf(column[j]), table[id][column[j]]))]
    <2>1. /\ c \in ColumnNames /\ TypeOf(c) = "integer"
          /\ k \in DOMAIN store.overrides \/ Regular(Camels[k])
          /\ k \notin Range(store.derived[kind])
      BY <1>1, <1>3, Sorting DEF SortColumn
    <2>2. c \in ColumnNames \ {"id"} /\ DomainKey(store, c) = k
      BY <1>1, <2>1, KeyOfColumn DEF StoreOk
    <2>3. k \in keys
      BY <2>2
    <2>4. column[k] = c
      BY <1>1, <2>2, <2>3 DEF StoreOk, ColumnNames
    <2>5. Sorts(table[id][c])
      BY <1>3 DEF SortInv
    <2>6. k \in DOMAIN props /\ props[k] = table[id][c]
      BY <2>1, <2>3, <2>4 DEF Wrapped, Decode
    <2>7. o.props = props
      BY DEF ToDomain
    <2> HIDE DEF props, o
    <2>8. QED
      BY <2>5, <2>6, <2>7 DEF Value, Sorts, Number
  <1>4. ASSUME "id" \in SortColumns PROVE o.id \in Int
    BY <1>1, <1>2, <1>4 DEF SortInv, Numeric
  <1> HIDE DEF o
  <1>5. QED
    BY <1>2, <1>3, <1>4 DEF Numeric, o

LEMMA SavedNumbers ==
    ASSUME TableInv, SortInv, NEW session, NEW o \in ToSave(session)
    PROVE  Numeric(o)
  <1>1. PICK id \in DOMAIN table :
            \E p \in Objects(id, session), change \in store.changes : o = Changed(p, change)
    BY DEF ToSave
  <1>2. PICK p \in Objects(id, session), change \in store.changes : o = Changed(p, change)
    BY <1>1
  <1>3. Numeric(p)
    BY LoadedNumbers DEF SortInv, Objects
  <1>4. p.kind \in DOMAIN store.keys /\ walk \in DOMAIN Walks
        /\ p = [id |-> p.id, kind |-> p.kind, props |-> p.props]
    BY DEF Objects, TableInv, Stored, IsObject, ToDomain
  <1> DEFINE new == [k \in DOMAIN change \cap store.keys[p.kind] |-> change[k]]
  <1>5. o.id = p.id /\ o.kind = p.kind /\ o.props = Over(new, p.props)
    BY <1>2, <1>4 DEF Changed
  <1>6. ASSUME NEW k \in store.keys[p.kind], ColumnFor(store, k) \in SortColumns
        PROVE  Number(Value(o, k))
    <2>1. k \in DOMAIN change => Number(change[k])
      BY <1>4, <1>6, Sorting DEF SortColumn
    <2>2. CASE k \in DOMAIN change
      <3>1. k \in DOMAIN new /\ new[k] = change[k]
        BY <2>2
      <3> HIDE DEF new
      <3>2. Value(o, k) = change[k]
        BY <1>5, <3>1 DEF Value, Over
      <3>3. QED
        BY <2>1, <2>2, <3>2
    <2>3. CASE k \notin DOMAIN change
      <3>1. k \notin DOMAIN new
        BY <2>3
      <3> HIDE DEF new
      <3>2. Value(o, k) = Value(p, k)
        BY <1>5, <3>1 DEF Value, Over
      <3>3. QED
        BY <1>3, <1>6, <3>2 DEF Numeric
    <2>4. QED
      BY <2>2, <2>3
  <1>7. QED
    BY <1>3, <1>5, <1>6 DEF Numeric

LEMMA GivenNumbers ==
    ASSUME walk \in DOMAIN Walks, NEW o \in store.objects \cup store.before
    PROVE  Numeric(o)
  <1>1. o.kind \in DOMAIN store.keys
    BY Deployed DEF StoreOk
  <1>2. QED
    BY <1>1, Sorting DEF SortColumn, Numeric

LEMMA SortStep == TableInv /\ SortInv /\ [Next]_vars => NewSort
  <1> SUFFICES ASSUME TableInv, SortInv, [Next]_vars PROVE NewSort
    OBVIOUS
  <1>1. ASSUME UNCHANGED recordVars PROVE NewSort
    BY <1>1 DEF NewSort, SortInv, recordVars
  <1>2. ASSUME Write PROVE NewSort
    <2>1. PICK session \in store.sessions :
            \/ \E objects \in Batches(store.objects) : Create(objects, session)
            \/ \E objects \in Batches(ToSave(session)) : Update(objects, session)
            \/ \E id \in DOMAIN table : Delete(id, session)
      BY <1>2, Writes
    <2>2. ASSUME NEW objects \in Batches(store.objects), Create(objects, session) PROVE NewSort
      <3> DEFINE batch == [i \in DOMAIN objects |->
                            InsertRow(ToPersistence(objects[i]), session.user)]
                 old == [id \in Ids(objects) |-> EmptyRow]
      <3>1. IsBatch(objects) /\ \A i \in DOMAIN objects : objects[i] \in store.objects
        <4>1. \A o \in store.objects : IsObject(o)
          BY Deployed DEF TableInv, StoreOk, IsObject
        <4>2. QED
          BY <4>1, BatchesDef
      <3>2. Save(objects, batch, old)
        BY <2>2 DEF Create
      <3>3. Exact(objects, batch)
        BY DEF Exact, InsertRow
      <3>4. \A i \in DOMAIN objects : Numeric(objects[i])
        BY <3>1, GivenNumbers DEF TableInv
      <3>5. \A id \in Ids(objects), c \in SortColumns : Sorts(old[id][c])
        BY Sorting DEF TableInv, SortColumn, EmptyRow, Sorts
      <3> HIDE DEF batch, old
      <3>6. QED
        BY <3>1, <3>2, <3>3, <3>4, <3>5, SortSave
    <2>3. ASSUME NEW objects \in Batches(ToSave(session)), Update(objects, session) PROVE NewSort
      <3> DEFINE batch == [i \in DOMAIN objects |->
                            UpdateRow(ToPersistence(objects[i]), session.user)]
      <3>1. IsBatch(objects) /\ \A i \in DOMAIN objects : objects[i] \in ToSave(session)
        <4>1. \A o \in ToSave(session) : IsObject(o)
          BY ToSaveDef
        <4>2. QED
          BY <4>1, BatchesDef
      <3>2. Save(objects, batch, table)
        BY <2>3 DEF Update
      <3>3. Exact(objects, batch)
        BY DEF Exact, UpdateRow
      <3>4. \A i \in DOMAIN objects : Numeric(objects[i])
        BY <3>1, SavedNumbers
      <3>5. \A id \in Ids(objects), c \in SortColumns : Sorts(table[id][c])
        BY <3>1, ToSaveDef DEF Ids, SortInv
      <3> HIDE DEF batch
      <3>6. QED
        BY <3>1, <3>2, <3>3, <3>4, <3>5, SortSave
    <2>4. ASSUME NEW id \in DOMAIN table, Delete(id, session) PROVE NewSort
      <3>1. \A i \in DOMAIN table' :
                i \in DOMAIN table /\ table'[i] = table[i] /\ held'[i] = held[i]
        BY <2>4 DEF Delete, Restrict
      <3>2. QED
        BY <3>1 DEF NewSort, SortInv
    <2>5. QED
      BY <2>1, <2>2, <2>3, <2>4
  <1>3. QED
    BY <1>1, <1>2 DEF Next, vars

LEMMA InitSort == Init => SortInv
  <1> SUFFICES ASSUME Init PROVE SortInv
    OBVIOUS
  <1>1. StoreOk(store) /\ walk \in DOMAIN Walks
    BY Deployed DEF Init, ListInit
  <1>2. PICK S \in SUBSET store.before, session \in store.sessions :
            LET object(id) == CHOOSE o \in S : o.id = id
                ids == {o.id : o \in S}
                batch(id) == <<InsertRow(ToPersistence(object(id)), session.user)>>
            IN  /\ \A id \in ids : Accepted(batch(id))
                /\ table = [id \in ids |-> Written(batch(id), 1, EmptyRow)]
                /\ held = [id \in ids |-> object(id)]
    BY DEF Init
  <1> DEFINE ids == {o.id : o \in S}
             object(id) == CHOOSE o \in S : o.id = id
  <1>3. SUFFICES ASSUME NEW id \in ids
                 PROVE  Numeric(held[id]) /\ \A c \in SortColumns : Sorts(table[id][c])
    BY <1>2 DEF SortInv
  <1> DEFINE o == object(id)
             row == InsertRow(ToPersistence(o), session.user)
             batch == <<row>>
  <1>4. IsObject(o) /\ Numeric(o)
    <2>1. o \in S
      OBVIOUS
    <2>2. QED
      BY <1>1, <2>1, GivenNumbers DEF StoreOk, IsObject
  <1>5. Accepted(batch) /\ table[id] = Written(batch, 1, EmptyRow) /\ held[id] = o
    BY <1>2
  <1>6. \A c \in DOMAIN row \ {"inserted_by", "updated_by"} :
            c \in DOMAIN ToPersistence(o) /\ row[c] = ToPersistence(o)[c]
    BY DEF InsertRow
  <1> HIDE DEF o, row
  <1>7. 1 \in DOMAIN batch /\ batch[1] = row
    OBVIOUS
  <1> HIDE DEF batch
  <1>8. ASSUME NEW c \in SortColumns PROVE Sorts(Written(batch, 1, EmptyRow)[c])
    <2>1. c \in ColumnNames \ {"inserted_by", "updated_by"}
      BY <1>1, Sorting DEF SortColumn
    <2>2. Sorts(EmptyRow[c])
      BY <2>1 DEF EmptyRow, Sorts
    <2>3. c \in DOMAIN batch[1] =>
            c \in DOMAIN ToPersistence(o) /\ batch[1][c] = ToPersistence(o)[c]
      BY <1>6, <1>7, <2>1
    <2>4. QED
      BY <1>1, <1>4, <1>5, <1>7, <2>2, <2>3, SortWritten
  <1>9. QED
    BY <1>4, <1>5, <1>8

LEMMA SortInvariant == Spec => []SortInv
  <1>1. TableInv /\ SortInv /\ [Next]_vars => SortInv'
    BY SortStep, TableStep, NewSortInv DEF NewTable
  <1>2. QED
    BY <1>1, InitSort, TableInvariant, PTL DEF Spec

LEMMA NumbersSort == TableInv /\ SortInv => Sortable
  <1> SUFFICES ASSUME TableInv, SortInv, NEW r \in rows, NEW i \in DOMAIN SortOrder
               PROVE  Sorts(r[SortOrder[i].field])
    BY DEF Sortable
  <1>1. PICK id \in DOMAIN table : r = Shown(table[id])
    BY DEF TableInv
  <1> DEFINE f == SortOrder[i].field
  <1>2. f \in store.fields /\ Resolved(store, f) \in SortColumns
    BY Sorting DEF TableInv, SortColumns
  <1>3. r[f] = table[id][Resolved(store, f)]
    BY <1>1, <1>2 DEF Shown
  <1>4. QED
    BY <1>2, <1>3 DEF SortInv

LEMMA WalkInvariant == Spec => []WalkInv
  <1>1. TableInv /\ TableInv' /\ PageInv /\ FilterInv /\ SortInv /\ WalkInv /\ [Next]_vars
            => WalkInv'
    BY NumbersSort, WalkStep
  <1>2. QED
    BY <1>1, InitWalk, TableInvariant, PageInvariant, FilterInvariant, SortInvariant, PTL DEF Spec

\* A walk gives every row that stayed and none twice, but for as many as were written on the
\* way, whatever the pages, filters and orders: the rows of the first pages, in the order that
\* some set of rows would have, are among those that were given.
THEOREM WalksComplete == Spec => []WalkIsComplete
  <1>1. TableInv /\ WalkInv => WalkIsComplete
    <2> SUFFICES ASSUME TableInv, WalkInv, pc = "over", Walkable
                 PROVE  LET given == UNION ToSet(seen)
                        IN  /\ Cardinality({r \in stayed : Wanted(r)} \ given) <= writes
                            /\ Sizes(seen) - Cardinality(given) <= writes
      BY DEF WalkIsComplete, Walkable
    <2>1. Complete(UNION ToSet(seen)) /\ Sizes(seen) - Cardinality(UNION ToSet(seen)) <= writes
      BY DEF WalkInv
    <2>2. Wished \cap stayed = {r \in stayed : Wanted(r)}
      BY DEF TableInv, Wished
    <2>3. Cardinality({r \in stayed : Wanted(r)} \ UNION ToSet(seen)) <= writes
      BY <2>1, <2>2 DEF Complete
    <2>4. QED
      BY <2>1, <2>3
  <1>2. QED
    BY <1>1, TableInvariant, WalkInvariant, PTL
=============================================================================
