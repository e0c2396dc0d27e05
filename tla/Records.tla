------------------------------ MODULE Records ------------------------------
(***************************************************************************)
(* The write side of the table that ListQuery lists: objects become rows   *)
(* by BasePersistenceMapper, get their audit columns from BaseWriteDao,    *)
(* are written by PgWriteDbAdapter, loaded again by the repositories and   *)
(* shown by the queries of the read side.  A write is one step: locks,     *)
(* versions and conflicts, with created_at and updated_at, are in          *)
(* OptimisticLock; a write that is refused leaves everything as it was.    *)
(*                                                                         *)
(* A name is a sequence of chunks with the places where a new word begins, *)
(* as a hump of camelCase or after the underscore of snake_case: userID is *)
(* user, i, d with breaks at 2 and 3; its column user_id has one at 2.  No *)
(* two keys of an object have one column here, nor two columns one key.    *)
(***************************************************************************)
EXTENDS ListQuery

CONSTANTS
    Camels, Snakes,     \* names in camelCase and in snake_case -> [text, breaks]
    Letters, Digits,    \* chunks of one letter; chunks that begin with a digit
    Texts,              \* text -> what it is as JSON, NaN if it is none
    Numerals,           \* number -> its decimal text
    Beyond,             \* numbers that are no INTEGER
    Scalars             \* value object -> what the application serializes it to

VARIABLES
    table,      \* id -> row, column -> value
    held,       \* id -> the object that was saved last, which its process holds still
    due,        \* history: id -> what was saved last, key -> value
    by          \* history: id -> who inserted the row, who wrote it last

recordVars == <<table, held, due, by>>
vars == <<listVars, tableVars, recordVars>>

\* Classes, mapper, table and sessions of this deployment.
store == app.store

-----------------------------------------------------------------------------
(* Names.                                                                   *)

\* camelToSnake: an underscore where a capital follows a small letter or a digit.
Snaked(n) ==
    [n EXCEPT !.breaks = {i \in @ : i - 1 \in @ => n.text[i - 1] \notin Letters}]

\* snakeToCamel: a digit has no capital that would show where its word began.
Cameled(n) == [n EXCEPT !.breaks = {i \in @ : n.text[i] \notin Digits}]

Snake == [k \in DOMAIN Camels |-> CHOOSE c \in DOMAIN Snakes : Snakes[c] = Snaked(Camels[k])]
Camel == [c \in DOMAIN Snakes |-> CHOOSE k \in DOMAIN Camels : Camels[k] = Cameled(Snakes[c])]

\* No capital stands alone before another hump: no acronyms.
Regular(n) == \A i \in n.breaks : i + 1 \in n.breaks => n.text[i] \notin Letters

ColumnFor(s, k) == IF k \in DOMAIN s.overrides THEN s.overrides[k] ELSE Snake[k]

DomainKey(s, c) ==
    IF \E k \in DOMAIN s.overrides : s.overrides[k] = c
    THEN CHOOSE k \in DOMAIN s.overrides : s.overrides[k] = c ELSE Camel[c]

\* DefaultColumnResolver, of the read side.
Resolved(s, k) == IF k \in DOMAIN s.resolver THEN s.resolver[k] ELSE Snake[k]

-----------------------------------------------------------------------------
(* Values.                                                                  *)

ColumnNames == DOMAIN store.columns
TypeOf(c) == store.columns[c]

\* mapPostgresType; what it does not know becomes TEXT, which no column of another type takes.
Cast == [text |-> "TEXT", integer |-> "INTEGER", bigint |-> "INTEGER", numeric |-> "NUMERIC",
         jsonb |-> "JSONB", enum |-> "TEXT"]

\* serializeValue, the driver and the cast of Postgres; NaN if it refuses.  A text goes into
\* a JSONB column as the JSON that it is; any object but JSON is sent as its JSON text.
Encode(type, v) ==
    IF type = "enum" THEN NaN
    ELSE IF v \in {None, Null} THEN Null
    ELSE CASE v \in DOMAIN Texts /\ Cast[type] = "JSONB" -> Texts[v]
           [] v \in DOMAIN Scalars /\ Cast[type] = "TEXT" -> <<v>>
           [] v \in DOMAIN Numerals /\ Cast[type] = "TEXT" -> Numerals[v]
           [] v \in Range(Numerals) /\ Cast[type] \in {"INTEGER", "NUMERIC"} ->
                 CHOOSE n \in DOMAIN Numerals : Numerals[n] = v
           [] v \in Beyond /\ Cast[type] = "INTEGER" -> NaN
           [] OTHER -> v

\* The driver gives numbers that JavaScript may not hold as text.
Decode(type, v) ==
    IF type \in {"bigint", "numeric"} /\ v \in DOMAIN Numerals THEN Numerals[v] ELSE v

-----------------------------------------------------------------------------
(* BasePersistenceMapper.                                                   *)

Value(o, k) == IF k \in DOMAIN o.props THEN o.props[k] ELSE None

\* The accessors with getter and setter, of the class and then of Entity.
AuditKeys == {"insertedBy", "updatedBy"}

Keys(o) == store.keys[o.kind] \cup AuditKeys

\* createPersistence: columns that the application derives from value objects.
Derived(o) ==
    [c \in DOMAIN store.derived[o.kind] |->
        LET v == Value(o, store.derived[o.kind][c])
        IN  IF v \in DOMAIN Scalars THEN Scalars[v] ELSE v]

\* The default conversion.
Converted(o) ==
    [c \in {"id"} \cup {ColumnFor(store, k) : k \in Keys(o)} |->
        IF c = "id" THEN o.id ELSE Value(o, CHOOSE k \in Keys(o) : ColumnFor(store, k) = c)]

\* {...g, ...f}
Over(f, g) == [x \in DOMAIN f \cup DOMAIN g |-> IF x \in DOMAIN f THEN f[x] ELSE g[x]]

\* Mutation: the default conversion is merged over that of the application.
MutToPersistence(o) == Over(Converted(o), Derived(o))

ToPersistence(o) == Over(Derived(o), Converted(o))

\* createDomain makes value objects of the scalars of their keys.
Wrapped(kind, k, v) ==
    IF k \in Range(store.derived[kind]) /\ v \in Range(Scalars)
    THEN CHOOSE object \in DOMAIN Scalars : Scalars[object] = v ELSE v

ToDomain(id, kind) ==
    LET column == [k \in {DomainKey(store, c) : c \in ColumnNames \ {"id"}} |->
                    CHOOSE c \in ColumnNames : DomainKey(store, c) = k]
    IN  [id |-> id, kind |-> kind,
         props |-> [k \in DOMAIN column |->
                        Wrapped(kind, k, Decode(TypeOf(column[k]), table[id][column[k]]))]]

-----------------------------------------------------------------------------
(* BaseWriteDao and PgWriteDbAdapter.                                       *)

InsertRow(row, user) ==
    [c \in DOMAIN row \cup {"inserted_by", "updated_by"} |->
        IF c \in {"inserted_by", "updated_by"} THEN user ELSE row[c]]

\* Mutation: what the row says of its last writer is kept.
MutUpdateRow(row, user) ==
    [c \in (DOMAIN row \ {"inserted_by"}) \cup {"updated_by"} |->
        IF c \in DOMAIN row THEN row[c] ELSE user]

UpdateRow(row, user) ==
    [c \in (DOMAIN row \ {"inserted_by"}) \cup {"updated_by"} |->
        IF c = "updated_by" THEN user ELSE row[c]]

\* The columns of a statement are those of its first row; what another row has not is NULL.
Sent(batch) == DOMAIN Head(batch)

Assigned(batch, i, c) == Encode(TypeOf(c), IF c \in DOMAIN batch[i] THEN batch[i][c] ELSE None)

Accepted(batch) ==
    /\ Sent(batch) \subseteq ColumnNames
    /\ \A i \in DOMAIN batch, c \in Sent(batch) : Assigned(batch, i, c) # NaN

Written(batch, i, old) ==
    [c \in ColumnNames |-> IF c \in Sent(batch) THEN Assigned(batch, i, c) ELSE old[c]]

EmptyRow == [c \in ColumnNames |-> Null]

\* What the queries of the read side see of a row.
Shown(row) == [f \in store.fields |-> row[Resolved(store, f)]]

-----------------------------------------------------------------------------
(* What an application may expect to find again.                            *)

\* Numbers in columns that return text, or text in those that return numbers, texts in JSONB
\* columns and value objects that are not serialized change on the way, and scalars where
\* value objects are expected become such.
Keeps(o, k, v) ==
    LET c == ColumnFor(store, k)
        sent == IF v \in DOMAIN Scalars THEN Scalars[v] ELSE v
    IN  /\ c \in DOMAIN store.derived[o.kind] => store.derived[o.kind][c] = k
        /\ sent \in DOMAIN Numerals => TypeOf(c) \notin {"bigint", "numeric", "text"}
        /\ sent \in Range(Numerals) => TypeOf(c) # "integer"
        /\ sent \in DOMAIN Texts => TypeOf(c) # "jsonb"
        /\ v \in DOMAIN Scalars => c \in DOMAIN store.derived[o.kind]
        /\ k \in Range(store.derived[o.kind]) => v \notin Range(Scalars)

Found(v) == IF v = None THEN Null ELSE v

\* The keys of an object that was saved in a statement, and their values.
Expected(o, sent) ==
    [k \in {key \in store.keys[o.kind] :
                /\ key \in DOMAIN store.overrides \/ Regular(Camels[key])
                /\ ColumnFor(store, key) \in sent
                /\ Keeps(o, key, Value(o, key))} |-> Found(Value(o, k))]

-----------------------------------------------------------------------------
Ids(objects) == {objects[i].id : i \in DOMAIN objects}
At(objects, id) == CHOOSE i \in DOMAIN objects : objects[i].id = id

\* One statement: all rows are written, or none.
Save(objects, batch, old) ==
    LET written == [id \in Ids(objects) |-> Written(batch, At(objects, id), old[id])]
        expected(id) == Expected(objects[At(objects, id)], Sent(batch))
        untouched(id) == IF id \notin DOMAIN due THEN <<>>
                         ELSE Restrict(due[id], {k \in DOMAIN due[id] :
                                                    ColumnFor(store, k) \notin Sent(batch)})
    IN  /\ Accepted(batch)
        /\ table' = Over(written, table)
        /\ rows' = {Shown(table'[id]) : id \in DOMAIN table'}
        /\ held' = Over([id \in Ids(objects) |-> objects[At(objects, id)]], held)
        /\ due' = Over([id \in Ids(objects) |-> Over(expected(id), untouched(id))], due)
        /\ stayed' = stayed \cap rows'
        /\ writes' = writes + Len(objects)

\* create, createMany: one INSERT of objects with new ids.
Create(objects, session) ==
    LET batch == [i \in DOMAIN objects |-> InsertRow(ToPersistence(objects[i]), session.user)]
    IN  /\ Ids(objects) \cap DOMAIN table = {}
        /\ Save(objects, batch, [id \in Ids(objects) |-> EmptyRow])
        /\ by' = Over([id \in Ids(objects) |-> [inserted |-> Found(session.user),
                                               updated |-> Found(session.user)]], by)

\* loadByIdAndScopeOrFail and its form for update, or a load without scope.
CanLoad(id, session) ==
    /\ id \in DOMAIN table
    /\ store.scoped => table[id]["scope_id"] = session.scope

\* The object of a row: loaded from it, or held since it was saved.
Objects(id, session) ==
    {held[id]} \cup IF CanLoad(id, session) THEN {ToDomain(id, held[id].kind)} ELSE {}

Changed(o, change) ==
    [o EXCEPT !.props = Over([k \in DOMAIN change \cap store.keys[o.kind] |-> change[k]], @)]

\* The objects that an application has changed.
ToSave(session) ==
    UNION {{Changed(o, change) : o \in Objects(id, session), change \in store.changes} :
           id \in DOMAIN table}

\* update, updateMany: one UPDATE of objects that were changed.
Update(objects, session) ==
    /\ Save(objects, [i \in DOMAIN objects |-> UpdateRow(ToPersistence(objects[i]), session.user)],
            table)
    /\ by' = Over([id \in Ids(objects) |-> [by[id] EXCEPT !.updated = Found(session.user)]], by)

Delete(id, session) ==
    LET rest == DOMAIN table \ {id}
    IN  /\ CanLoad(id, session)
        /\ table' = Restrict(table, rest) /\ held' = Restrict(held, rest)
        /\ due' = Restrict(due, rest) /\ by' = Restrict(by, rest)
        /\ rows' = {Shown(table'[i]) : i \in rest}
        /\ stayed' = stayed \cap rows'
        /\ writes' = writes + 1

Batches(S) == {<<o>> : o \in S} \cup {<<o, p>> : o \in S, p \in {q \in S : store.batches}}

-----------------------------------------------------------------------------
\* Neither undefined nor NULL is a value of the application, and value objects, numbers
\* and the texts of numbers are not one another.
ASSUME ValuesAssumption ==
    /\ {None, Null} \cap (DOMAIN Texts \cup DOMAIN Scalars \cup Range(Scalars) \cup
                          DOMAIN Numerals \cup Range(Numerals) \cup Beyond) = {}
    /\ DOMAIN Scalars \cap (Range(Scalars) \cup DOMAIN Numerals) = {}
    /\ Range(Numerals) \cap Beyond = {}
    /\ IsInjective(Scalars)

\* Every name has its form as a column; a digit begins no word.
ASSUME NamesAssumption ==
    /\ IsInjective(Camels)
    /\ \A k \in DOMAIN Camels :
        LET n == Camels[k]
        IN  /\ n = [text |-> n.text, breaks |-> n.breaks] /\ n.breaks \subseteq Nat
            /\ \A i \in n.breaks : n.text[i] \notin Digits
            /\ Snaked(n) \in Range(Snakes)

\* A value that every column takes and gives back, but for enums.
PlainValue(v) ==
    v \notin {None, Null} \cup DOMAIN Texts \cup DOMAIN Scalars \cup DOMAIN Numerals
             \cup Range(Numerals) \cup Beyond

\* The table has the audit columns, its types are those that Cast knows, columns and keys
\* are one to one, ids are plain values under their own name.
ASSUME StoresAssumption ==
    \A w \in DOMAIN Walks :
        LET s == Walks[w].app.store
        IN  /\ {"id", "inserted_by", "updated_by"} \subseteq DOMAIN s.columns
            /\ Range(s.columns) \subseteq DOMAIN Cast
            /\ s.columns["inserted_by"] = "text" /\ s.columns["updated_by"] = "text"
            /\ s.columns["id"] # "enum" /\ "id" \in s.fields /\ Resolved(s, "id") = "id"
            /\ \A c, d \in DOMAIN s.columns : DomainKey(s, c) = DomainKey(s, d) => c = d
            /\ \A kind \in DOMAIN s.keys :
                /\ s.keys[kind] \subseteq DOMAIN Camels \cup DOMAIN s.overrides
                /\ \A k \in s.keys[kind] :
                    ColumnFor(s, k) \notin {"id", "inserted_by", "updated_by"}
                /\ \A j, k \in s.keys[kind] \cup DOMAIN s.overrides \cup AuditKeys :
                    ColumnFor(s, j) = ColumnFor(s, k) => j = k
                /\ "id" \notin DOMAIN s.derived[kind]
            /\ IsFiniteSet(s.before)
            /\ \A o \in s.objects \cup s.before :
                /\ o = [id |-> o.id, kind |-> o.kind, props |-> o.props]
                /\ PlainValue(o.id) /\ o.kind \in DOMAIN s.keys
            /\ \A session \in s.sessions : session.user \notin DOMAIN Scalars \cup DOMAIN Numerals

\* A list is sorted by columns with numbers, for what < compares; no mapper derives them or
\* makes value objects of them, and their keys are those that come back.
ASSUME SortAssumption ==
    /\ (Range(Numerals) \cup Range(Scalars)) \cap Int = {}
    /\ \A w \in DOMAIN Walks :
        LET s == Walks[w].app.store
            order == Order(Walks[w].app, ParseSort(Walks[w].input.sort))
        IN  \A i \in DOMAIN order :
            LET c == Resolved(s, order[i].field)
            IN  /\ order[i].field \in s.fields
                /\ c \in DOMAIN s.columns /\ s.columns[c] = "integer"
                /\ c \notin {"inserted_by", "updated_by"} \cup {ColumnFor(s, k) : k \in AuditKeys}
                /\ c = "id" => \A o \in s.objects \cup s.before : o.id \in Int
                /\ \A kind \in DOMAIN s.keys :
                    /\ c \notin DOMAIN s.derived[kind]
                    /\ \A k \in s.keys[kind] : ColumnFor(s, k) = c =>
                        /\ k \in DOMAIN s.overrides \/ Regular(Camels[k])
                        /\ k \notin Range(s.derived[kind])
                        /\ {Value(o, k) : o \in {p \in s.objects \cup s.before : p.kind = kind}}
                            \cup {change[k] : change \in {d \in s.changes : k \in DOMAIN d}}
                                \subseteq Int \cup {None, Null}

-----------------------------------------------------------------------------
\* Some objects were created before.
Init ==
    /\ ListInit
    /\ \E S \in SUBSET store.before, session \in store.sessions :
        LET object(id) == CHOOSE o \in S : o.id = id
            ids == {o.id : o \in S}
            batch(id) == <<InsertRow(ToPersistence(object(id)), session.user)>>
        IN  /\ \A id \in ids : Accepted(batch(id))
            /\ table = [id \in ids |-> Written(batch(id), 1, EmptyRow)]
            /\ held = [id \in ids |-> object(id)]
            /\ due = [id \in ids |-> Expected(object(id), Sent(batch(id)))]
            /\ by = [id \in ids |-> [inserted |-> Found(session.user),
                                     updated |-> Found(session.user)]]
    /\ rows = {Shown(table[id]) : id \in DOMAIN table}
    /\ stayed = rows /\ writes = 0

Write ==
    /\ writes < store.writes
    /\ \E session \in store.sessions :
        \/ \E objects \in Batches(store.objects) :
            IsInjective([i \in DOMAIN objects |-> objects[i].id]) /\ Create(objects, session)
        \/ \E objects \in Batches(ToSave(session)) :
            IsInjective([i \in DOMAIN objects |-> objects[i].id]) /\ Update(objects, session)
        \/ \E id \in DOMAIN table : Delete(id, session)
    /\ UNCHANGED listVars

Next == (ListNext /\ UNCHANGED recordVars) \/ Write

Spec == Init /\ [][Next]_vars

-----------------------------------------------------------------------------
(* Properties.                                                              *)

\* What was saved is found again, by the repository and by the read side: whatever the
\* mapper renames, derives or serializes, whatever is saved in one statement with it and
\* whoever updates other keys later.  Not so for names with acronyms, values that the type of
\* their column changes, and columns that the first row of the statement has not.
SavedIsRead ==
    \A id \in DOMAIN table :
        LET loaded == ToDomain(id, held[id].kind)
            shown == CHOOSE r \in rows : r.id = id
        IN  \A k \in DOMAIN due[id] :
                /\ Value(loaded, k) = due[id][k]
                /\ k \in store.fields /\ Resolved(store, k) = ColumnFor(store, k) =>
                    Wrapped(loaded.kind, k, Decode(TypeOf(Resolved(store, k)), shown[k]))
                        = due[id][k]

\* "inserted_by and updated_by resolve from [the session] on every write.  Callers cannot pass
\* them" (persistence/README.md 32-36): the audit columns name the creator of a row and its
\* last writer, null if there was no session, whatever the objects in memory say.
AuditNamesTheUser ==
    \A id \in DOMAIN table :
        table[id]["inserted_by"] = by[id].inserted /\ table[id]["updated_by"] = by[id].updated
=============================================================================
