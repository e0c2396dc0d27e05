----------------------------- MODULE ListQuery -----------------------------
(***************************************************************************)
(* The read side: query parameters parsed by createQueryParametersSchema,  *)
(* SQL built by PgSqlQueryBuilder and run by BaseReadDao.findPaginated.  A *)
(* client walks through the pages of a list while rows are written.        *)
(*                                                                         *)
(* SQL is kept as what Postgres makes of its text: a WHERE clause is a     *)
(* sequence of alternatives (OR), each a set of predicates (AND) whose     *)
(* values are parameters by number, as $n.  The rows are those that the    *)
(* queries see, by the names of the domain; who writes them, and how       *)
(* ColumnResolver finds their columns, is in Records.                      *)
(***************************************************************************)
EXTENDS Integers, FiniteSets, Sequences, SequencesExt

CONSTANTS
    None, NaN,      \* undefined; a text that does not parse as what it should be
    Repeated,       \* a parameter that is given twice, which arrives as an array
    Null,           \* of SQL
    Kinds,          \* filter field -> its kind
    Like,           \* pairs of a text and a pattern that ILIKE matches
    Walks           \* a sequence of records: app, a DAO method with its
                    \* schema; input, query parameters of a client

VARIABLES
    walk,           \* which of Walks it is
    rows,           \* of the table, field -> value
    pc,             \* idle, asked, over, refused (400) or failed (500)
    page,           \* the page the client asks for
    query,          \* QueryProduct, None between requests
    data, total,    \* answers of the two queries, None until they come
    seen,           \* pages the client was given
    writes, asked,  \* history: writes so far, and before this request
    stayed          \* history: rows that were in the table all the time

listVars == <<walk, pc, page, query, data, total, seen, asked>>
tableVars == <<rows, writes, stayed>>

app == Walks[walk].app
input == Walks[walk].input

-----------------------------------------------------------------------------
(* createQueryParametersSchema.                                             *)

OperatorsByKind ==
    [string  |-> {"contains", "in", "notIn", "isNull", "isNotNull"},
     number  |-> {"gt", "gte", "lt", "lte", "in", "notIn", "isNull", "isNotNull"},
     date    |-> {"gt", "gte", "lt", "lte", "in", "notIn", "isNull", "isNotNull"},
     boolean |-> {"isNull", "isNotNull"},
     enum    |-> {"in", "notIn", "isNull", "isNotNull"}]

Known(f) == f.field \in DOMAIN Kinds /\ f.op \in OperatorsByKind[Kinds[f.field]] \cup {"eq"}

Positive(n) == n \in Int /\ n > 0

\* A filter whose value its schema does not accept.
Unreadable(raw) == \E i \in DOMAIN raw.filters : Known(raw.filters[i]) /\ raw.filters[i].value = NaN

Valid(entry) == entry.field \in DOMAIN Kinds /\ entry.dir \in {"asc", "desc"}

AddEntry(sort, entry) == IF Valid(entry) THEN Append(sort, entry) ELSE sort

\* Of the entries of a client, without those that are repeated.
ParseSort(entries) == FoldLeft(AddEntry, <<>>, entries)

\* page and pageSize must be strings, and filters what their schemas accept; all else that
\* is wrong is an issue in strict mode only.
Refused(a, raw) ==
    \/ Repeated \in {raw.page, raw.pageSize}
    \/ Unreadable(raw)
    \/ a.strict /\ ~(/\ \A i \in DOMAIN raw.filters : Known(raw.filters[i])
                     /\ \A n \in {raw.page, raw.pageSize} \ {None} : Positive(n)
                     /\ \A i \in DOMAIN raw.sort : Valid(raw.sort[i]))

Given(n, default) == IF n = None THEN default ELSE n

\* Mutation: a page may be as large as the client wishes.
MutUnclamped(a, raw) ==
    LET p == Given(raw.page, 1)
        size == Given(raw.pageSize, a.defaultPageSize)
    IN  IF raw.page = None /\ raw.pageSize = None THEN [page |-> 1, pageSize |-> a.fallback]
        ELSE [page |-> IF Positive(p) THEN p ELSE 1,
              pageSize |-> IF Positive(size) THEN size ELSE a.defaultPageSize]

\* Without any of the two there is no pagination; the DAO method has its own.
Pagination(a, raw) ==
    LET p == Given(raw.page, 1)
        size == Given(raw.pageSize, a.defaultPageSize)
    IN  IF raw.page = None /\ raw.pageSize = None THEN [page |-> 1, pageSize |-> a.fallback]
        ELSE [page |-> IF Positive(p) THEN p ELSE 1,
              pageSize |-> IF ~Positive(size) THEN a.defaultPageSize
                           ELSE IF size < a.maxPageSize THEN size ELSE a.maxPageSize]

-----------------------------------------------------------------------------
(* PgSqlQueryBuilder.                                                       *)

SameKey(f, g) == f.field = g.field /\ f.op = g.op

\* merged[key] = value: a later value of a key replaces the earlier one at its place.
Put(filters, g) ==
    IF g.value = None THEN filters
    ELSE IF \E i \in DOMAIN filters : SameKey(filters[i], g)
    THEN [i \in DOMAIN filters |-> IF SameKey(filters[i], g) THEN g ELSE filters[i]]
    ELSE Append(filters, g)

\* The schema strips what it does not know.
PutKnown(filters, g) == IF Known(g) THEN Put(filters, g) ELSE filters

\* filters(client's).filters(the method's own).
FilterMap(a, raw) == FoldLeft(Put, FoldLeft(PutKnown, <<>>, raw.filters), a.filters)

Nothing == [text |-> <<{}>>, params |-> <<>>]

\* a AND b, without parentheses: AND binds tighter than OR.
And(a, b) == Front(a) \o <<Last(a) \cup Head(b)>> \o Tail(b)

\* The operator of a filter's clause; some clauses bind no parameter.
Clause(f) ==
    CASE f.op = "eq" /\ f.value = Null -> "isNull"
      [] f.op = "isNull" /\ f.value = FALSE -> "isNotNull"
      [] f.op = "isNotNull" /\ f.value = FALSE -> "isNull"
      [] OTHER -> f.op

AddFilter(w, f) ==
    LET binds == Clause(f) \notin {"isNull", "isNotNull"}
        n == IF binds THEN Len(w.params) + 1 ELSE 0
    IN  [text |-> And(w.text, <<{[field |-> f.field, op |-> Clause(f), param |-> n]}>>),
         params |-> IF binds THEN Append(w.params, f.value) ELSE w.params]

\* Mutation: the placeholders of a condition are numbered from one.
MutAddCondition(w, c) ==
    [text |-> And(w.text, c.text), params |-> w.params \o c.params]

\* rebaseQuestionMarks: the i-th mark gets the next number.
AddCondition(w, c) ==
    LET rebased(p) == IF p.param = 0 THEN p ELSE [p EXCEPT !.param = @ + Len(w.params)]
    IN  [text |-> And(w.text, [i \in DOMAIN c.text |-> {rebased(p) : p \in c.text[i]}]),
         params |-> w.params \o c.params]

\* More marks than parameters, or fewer.
Mismatched(c) == {p.param : p \in UNION ToSet(c.text)} \ {0} # DOMAIN c.params

Where(a, raw) ==
    FoldLeft(AddCondition, FoldLeft(AddFilter, Nothing, FilterMap(a, raw)), a.conditions)

\* Mutation: enforced entries are dropped when the client sorts.
MutOrder(a, sort) == IF sort # <<>> THEN sort ELSE a.enforced \o a.defaults

Order(a, sort) == a.enforced \o (IF sort # <<>> THEN sort ELSE a.defaults)

\* Mutation: the count forgets the conditions.
MutProduct(a, raw) ==
    LET p == Pagination(a, raw)
    IN  [where |-> Where(a, raw).text,
         count |-> FoldLeft(AddFilter, Nothing, FilterMap(a, raw)).text,
         params |-> Where(a, raw).params,
         order |-> Order(a, ParseSort(raw.sort)),
         distinctOn |-> a.distinctOn, groupBy |-> a.groupBy,
         limit |-> p.pageSize, offset |-> (p.page - 1) * p.pageSize]

\* build(): sql, countSql and params.
Product(a, raw) ==
    LET p == Pagination(a, raw)
    IN  [where |-> Where(a, raw).text,
         count |-> Where(a, raw).text,
         params |-> Where(a, raw).params,
         order |-> Order(a, ParseSort(raw.sort)),
         distinctOn |-> a.distinctOn, groupBy |-> a.groupBy,
         limit |-> p.pageSize,
         offset |-> IF p.page < 1 THEN 0 ELSE (p.page - 1) * p.pageSize]

-----------------------------------------------------------------------------
\* Methods and clients: sizes are positive, an object has a key once, and a condition has
\* its text and its parameters.
ASSUME WalksAssumption ==
    /\ {None, NaN, Repeated} \cap Int = {}
    /\ \A w \in DOMAIN Walks :
        LET a == Walks[w].app
            raw == Walks[w].input
        IN  /\ {a.defaultPageSize, a.maxPageSize, a.fallback} \subseteq Nat \ {0}
            /\ DOMAIN raw = {"page", "pageSize", "sort", "filters"}
            /\ {raw.page, raw.pageSize} \subseteq Int \cup {None, NaN, Repeated}
            /\ \A filters \in {a.filters, raw.filters} :
                /\ filters \in Seq(ToSet(filters))
                /\ \A i, j \in DOMAIN filters : SameKey(filters[i], filters[j]) => i = j
            /\ \A f \in ToSet(raw.filters) : f.value # None
            /\ \A sort \in {a.enforced, a.defaults, raw.sort} : sort \in Seq(ToSet(sort))
            /\ a.conditions \in Seq(ToSet(a.conditions))
            /\ \A c \in ToSet(a.conditions) :
                /\ c.text \in Seq(ToSet(c.text)) /\ c.params \in Seq(ToSet(c.params))
                /\ \A p \in UNION ToSet(c.text) :
                    p = [field |-> p.field, op |-> p.op, param |-> p.param] /\ p.param \in Nat

-----------------------------------------------------------------------------
(* Postgres (external).                                                     *)

\* NULL compares with nothing; <> ALL is written together with OR IS NULL.
Compares(op, x, v) ==
    CASE op = "isNull" -> x = Null
      [] op = "isNotNull" -> x # Null
      [] op = "notIn" -> x = Null \/ x \notin v
      [] OTHER -> x # Null /\ CASE op = "eq" -> x = v
                                [] op = "contains" -> <<x, v>> \in Like
                                [] op = "in" -> x \in v
                                [] op = "gt" -> x > v
                                [] op = "gte" -> x >= v
                                [] op = "lt" -> x < v
                                [] op = "lte" -> x <= v

Holds(p, params, r) ==
    Compares(p.op, r[p.field], IF p.param = 0 THEN None ELSE params[p.param])

Selected(text, params) ==
    {r \in rows : \E i \in DOMAIN text : \A p \in text[i] : Holds(p, params, r)}

\* NULL sorts as the largest value.
Less(x, y) == x # Null /\ (y = Null \/ x < y)

Precedes(order, r, s) ==
    \E i \in DOMAIN order :
        /\ \A j \in 1 .. i - 1 : r[order[j].field] = s[order[j].field]
        /\ IF order[i].dir = "asc" THEN Less(r[order[i].field], s[order[i].field])
                                   ELSE Less(s[order[i].field], r[order[i].field])

KeyOf(columns, r) == [i \in DOMAIN columns |-> r[columns[i]]]

\* One row, of the first, for each value of the columns.
OnePer(columns, S, order) ==
    {T \in SUBSET S :
        /\ \A r \in S : Cardinality({t \in T : KeyOf(columns, t) = KeyOf(columns, r)}) = 1
        /\ \A t \in T, r \in S : KeyOf(columns, t) = KeyOf(columns, r) => ~Precedes(order, r, t)}

\* The first n rows of S in an order, of which there may be several.
Firsts(n, S, order) ==
    {T \in SUBSET S :
        /\ Cardinality(T) = IF n < Cardinality(S) THEN n ELSE Cardinality(S)
        /\ \A t \in T, r \in S \ T : ~Precedes(order, r, t)}

Results(q) ==
    LET S == Selected(q.where, q.params)
        columns == q.groupBy \o q.distinctOn
    IN  UNION {{T[2] \ T[1] : T \in {U \in Firsts(q.offset, R, q.order) \X
                                            Firsts(q.offset + q.limit, R, q.order) :
                                        U[1] \subseteq U[2]}} :
               R \in IF columns = <<>> THEN {S} ELSE OnePer(columns, S, q.order)}

\* ORDER BY must begin with the columns of DISTINCT ON, or have no others, and keep to those
\* of GROUP BY.
Malformed(q) ==
    LET fields == [i \in DOMAIN q.order |-> q.order[i].field]
        columns == ToSet(q.distinctOn)
    IN  ~(/\ \/ ToSet(fields) \subseteq columns
             \/ \E k \in DOMAIN fields : ToSet(SubSeq(fields, 1, k)) = columns
             \/ columns = {}
          /\ q.groupBy = <<>> \/ ToSet(fields) \subseteq ToSet(q.groupBy))

Count(q) ==
    LET S == Selected(q.count, q.params)
    IN  IF q.groupBy = <<>> THEN Cardinality(S) ELSE Cardinality({KeyOf(q.groupBy, r) : r \in S})

-----------------------------------------------------------------------------
ListInit ==
    /\ walk \in DOMAIN Walks
    /\ pc = "idle" /\ page = input.page
    /\ query = None /\ data = None /\ total = None
    /\ seen = <<>> /\ asked = 0

Raw == [input EXCEPT !.page = page]

\* A request: validation, the DAO method up to Promise.all.
Ask ==
    /\ pc = "idle"
    /\ asked' = writes
    /\ IF Refused(app, Raw) THEN pc' = "refused" /\ UNCHANGED query
       ELSE IF \E i \in DOMAIN app.conditions : Mismatched(app.conditions[i])
       THEN pc' = "failed" /\ UNCHANGED query
       ELSE pc' = "asked" /\ query' = Product(app, Raw)
    /\ UNCHANGED <<walk, page, data, total, seen, tableVars>>

DataArrives ==
    /\ pc = "asked" /\ data = None /\ ~Malformed(query)
    /\ data' \in Results(query)
    /\ UNCHANGED <<walk, pc, page, query, total, seen, asked, tableVars>>

CountArrives ==
    /\ pc = "asked" /\ total = None
    /\ total' = Count(query)
    /\ UNCHANGED <<walk, pc, page, query, data, seen, asked, tableVars>>

\* Promise.all rejects as soon as one of the two does.
QueryFails ==
    /\ pc = "asked" /\ (data = None \/ total = None)
    /\ pc' = "failed"
    /\ UNCHANGED <<walk, page, query, data, total, seen, asked, tableVars>>

\* The answer, by which the client asks for the next page or has them all.
Answer ==
    /\ pc = "asked" /\ data # None /\ total # None
    /\ seen' = Append(seen, data)
    /\ LET p == Pagination(app, Raw)
       IN  IF p.page * p.pageSize < total
           THEN pc' = "idle" /\ page' = p.page + 1
           ELSE pc' = "over" /\ UNCHANGED page
    /\ query' = None /\ data' = None /\ total' = None
    /\ UNCHANGED <<walk, asked, tableVars>>

ListNext == Ask \/ DataArrives \/ CountArrives \/ QueryFails \/ Answer

-----------------------------------------------------------------------------
(* Properties.                                                              *)

\* A page has maxPageSize rows at most ("always enforced", zod.ts 29) -- if the method's own
\* page size and the default, which replaces an invalid size unclamped, are not above it --
\* and a tolerant schema refuses a request only for a filter value it cannot read, or a page or
\* page size that is given twice and is no string, although "invalid `page` / `pageSize`
\* values are silently normalized" (persistence/README.md 753).
ListTypeOK ==
    /\ \A r, s \in rows : r.id = s.id => r = s
    /\ stayed \subseteq rows
    /\ pc \in {"idle", "asked", "over", "refused", "failed"}
    /\ pc = "asked" =>
        /\ query.limit > 0 /\ query.offset >= 0
        /\ query.offset = (Pagination(app, Raw).page - 1) * query.limit
        /\ app.fallback <= app.maxPageSize /\ app.defaultPageSize <= app.maxPageSize
            => query.limit <= app.maxPageSize
        /\ data # None => Cardinality(data) <= query.limit
        /\ total # None => total \in 0 .. Cardinality(rows) + writes - asked
    /\ pc = "refused" =>
        app.strict \/ Unreadable(input) \/ Repeated \in {input.page, input.pageSize}
    /\ asked <= writes

OwnKeys == {f \in ToSet(app.filters) : f.value # None}

\* What the method and the client ask for, read without SQL.
Wanted(r) ==
    /\ \A f \in OwnKeys : Compares(Clause(f), r[f.field], f.value)
    /\ \A f \in ToSet(input.filters) :
        Known(f) /\ (\A g \in OwnKeys : ~SameKey(f, g)) => Compares(Clause(f), r[f.field], f.value)
    /\ \A c \in ToSet(app.conditions) :
        \E i \in DOMAIN c.text : \A p \in c.text[i] : Holds(p, c.params, r)

\* No condition of where() has an OR outside parentheses.
Parenthesized == \A c \in ToSet(app.conditions) : Len(c.text) = 1

\* "Each `.where()` call is ANDed with the rest" (persistence/README.md 557): whatever filters
\* the client sends, a page holds only rows that meet its filters, those the method sets -- the
\* scope of the caller -- and every condition, each with its own parameters.  Not so for a
\* condition with an OR outside parentheses: what is ANDed with it applies to one alternative.
PagesAreFiltered ==
    Parenthesized => \A i \in DOMAIN seen : \A r \in seen[i] : Wanted(r)

\* The total of a page counts the rows, or groups, that all pages together would hold, if
\* nothing is written while it is fetched -- but for distinctOn, which it ignores.
TotalAgrees ==
    pc = "asked" /\ total # None /\ writes = asked /\ app.distinctOn = <<>> /\ Parenthesized =>
        LET S == {r \in rows : Wanted(r)}
        IN  total = IF app.groupBy = <<>> THEN Cardinality(S)
                    ELSE Cardinality({KeyOf(app.groupBy, r) : r \in S})

HasId(entries) == \E i \in DOMAIN entries : entries[i].field = "id"

\* The order of the rows is determined: by what is enforced or what the client sorts by, and
\* by the defaults only if the client does not sort.
Determined ==
    \/ HasId(app.enforced)
    \/ HasId(ParseSort(input.sort))
    \/ ParseSort(input.sort) = <<>> /\ HasId(app.defaults)

\* All pages are of one size: a first request without page and pageSize gets the method's own.
SameSize ==
    \/ input.page # None \/ input.pageSize # None
    \/ app.fallback = Pagination(app, [input EXCEPT !.page = 1]).pageSize

Sizes(pages) == FoldLeft(LAMBDA n, S : n + Cardinality(S), 0, pages)

\* A client that walks from the first page to the last is given every row once; each row that
\* is inserted or deleted meanwhile costs at most one row missed and one given twice.  The
\* order must be determined and the pages of one size.
WalkIsComplete ==
    /\ pc = "over" /\ Determined /\ SameSize /\ Parenthesized
    /\ input.page \in {None, NaN, 1} /\ app.distinctOn = <<>> /\ app.groupBy = <<>>
    => LET given == UNION ToSet(seen)
       IN  /\ Cardinality({r \in stayed : Wanted(r)} \ given) <= writes
           /\ Sizes(seen) - Cardinality(given) <= writes
=============================================================================
