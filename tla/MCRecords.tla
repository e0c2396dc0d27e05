----------------------------- MODULE MCRecords -----------------------------
(* Small instances of Records and ListQuery.                                *)
EXTENDS Records, TLC

CONSTANTS Ann, Hash, Password, Json, JsonText, BadText, Five, FiveText, Huge

MCLetters == {"i", "d"}
MCDigits == {"2"}
MCTexts == (JsonText :> Json) @@ (BadText :> NaN)
MCNumerals == Five :> FiveText
MCBeyond == {Huge}
MCScalars == Password :> Hash

\* case.ts: what the mapper renames comes back, and acronyms do not.
MCForms == UNION {[text : [1 .. n -> {"user", "i", "d"}], breaks : SUBSET (2 .. n)] : n \in 1 .. 4}
ASSUME RegularNamesReturn == \A n \in MCForms : Regular(n) <=> Cameled(Snaked(n)) = n

Spelled(text, breaks) == [text |-> text, breaks |-> breaks]
MCCamels ==
    [id |-> Spelled(<<"i", "d">>, {}), name |-> Spelled(<<"name">>, {}), age |-> Spelled(<<"age">>, {}),
     scopeId |-> Spelled(<<"scope", "i", "d">>, {2}), tenantId |-> Spelled(<<"tenant", "i", "d">>, {2}),
     insertedBy |-> Spelled(<<"inserted", "by">>, {2}), updatedBy |-> Spelled(<<"updated", "by">>, {2}),
     userID |-> Spelled(<<"user", "i", "d">>, {2, 3}), userId |-> Spelled(<<"user", "i", "d">>, {2}),
     planD |-> Spelled(<<"plan", "d">>, {2}), secret |-> Spelled(<<"secret">>, {}),
     secretHash |-> Spelled(<<"secret", "hash">>, {2}), data |-> Spelled(<<"data">>, {}),
     line2 |-> Spelled(<<"line", "2">>, {}), line2Sum |-> Spelled(<<"line", "2", "sum">>, {3})]
MCSnakes ==
    [id |-> Spelled(<<"i", "d">>, {}), name |-> Spelled(<<"name">>, {}), age |-> Spelled(<<"age">>, {}),
     scope_id |-> Spelled(<<"scope", "i", "d">>, {2}), tenant_id |-> Spelled(<<"tenant", "i", "d">>, {2}),
     inserted_by |-> Spelled(<<"inserted", "by">>, {2}), updated_by |-> Spelled(<<"updated", "by">>, {2}),
     user_id |-> Spelled(<<"user", "i", "d">>, {2}), plan_d |-> Spelled(<<"plan", "d">>, {2}),
     secret |-> Spelled(<<"secret">>, {}), secret_hash |-> Spelled(<<"secret", "hash">>, {2}),
     data |-> Spelled(<<"data">>, {}), line2 |-> Spelled(<<"line", "2">>, {}),
     line_2 |-> Spelled(<<"line", "2">>, {2}), line2_sum |-> Spelled(<<"line", "2", "sum">>, {3})]

-----------------------------------------------------------------------------
(* What the list methods list: four rows, some of another scope.            *)

Audit == [inserted_by |-> "text", updated_by |-> "text"]
Item(id, scope, name, age) ==
    [id |-> id, kind |-> "item", props |-> [scopeId |-> scope, name |-> name, age |-> age]]
Items == {Item(1, 1, 7, 3), Item(2, 1, 8, Null), Item(3, 1, 7, 3), Item(4, 2, 8, 5)}
ItemStore ==
    [columns |-> [id |-> "integer", tenant_id |-> "integer", name |-> "integer",
                   age |-> "integer"] @@ Audit,
     overrides |-> [scopeId |-> "tenant_id"], resolver |-> [scopeId |-> "tenant_id"],
     fields |-> {"id", "scopeId", "name", "age"},
     keys |-> [item |-> {"scopeId", "name", "age"}], derived |-> [item |-> <<>>], scoped |-> FALSE,
     objects |-> Items, before |-> Items, changes |-> {}, sessions |-> {[user |-> Ann, scope |-> 1]},
     batches |-> FALSE, writes |-> 2]

MCKinds == [name |-> "string", age |-> "number", scopeId |-> "number", id |-> "number"]
MCLike == {<<7, 0>>, <<8, 8>>}

By(field, dir) == [field |-> field, dir |-> dir]
Filter(field, op, value) == [field |-> field, op |-> op, value |-> value]
Mark(field, op, param) == [field |-> field, op |-> op, param |-> param]

\* A DAO method as in the README: the scope of the caller, enforced and default order.
Method ==
    [strict |-> FALSE, defaultPageSize |-> 2, maxPageSize |-> 2, fallback |-> 2,
     filters |-> <<Filter("scopeId", "eq", 1), Filter("name", "eq", None)>>, conditions |-> <<>>,
     enforced |-> <<By("scopeId", "asc")>>, defaults |-> <<By("age", "desc"), By("id", "asc")>>,
     distinctOn |-> <<>>, groupBy |-> <<>>, store |-> ItemStore]
Raws(text, params) == [text |-> text, params |-> params]

MCApps == <<
    Method,
    [Method EXCEPT !.strict = TRUE, !.enforced = <<By("id", "desc")>>,
        !.conditions = <<Raws(<<{Mark("name", "gt", 1), Mark("age", "isNotNull", 0)}>>, <<6>>),
                         Raws(<<{Mark("id", "gte", 1), Mark("id", "lt", 2)}>>, <<1, 3>>)>>],
    [Method EXCEPT !.enforced = <<By("id", "asc")>>],
    [Method EXCEPT !.filters = <<>>, !.enforced = <<>>, !.fallback = 1, !.defaultPageSize = 4],
    [Method EXCEPT !.conditions = <<Raws(<<{Mark("age", "isNull", 0)}, {Mark("name", "eq", 1)}>>, <<8>>)>>],
    [Method EXCEPT !.conditions = <<Raws(<<{Mark("age", "eq", 1)}>>, <<>>)>>],
    [Method EXCEPT !.filters = <<Filter("age", "eq", Null)>>],
    [Method EXCEPT !.filters = <<>>, !.distinctOn = <<"scopeId">>],
    [Method EXCEPT !.filters = <<>>, !.groupBy = <<"scopeId">>, !.defaults = <<>>]>>

Query(number, size, sort, filters) ==
    [page |-> number, pageSize |-> size, sort |-> sort, filters |-> filters]
MCInputs == <<
    Query(None, None, <<>>, <<>>),
    Query(1, 1, <<By("id", "asc"), By("age", "up")>>, <<Filter("age", "gte", 3), Filter("age", "notIn", {5})>>),
    Query(NaN, 5, <<By("age", "desc")>>, <<Filter("scopeId", "eq", 2), Filter("id", "notIn", {5})>>),
    Query(0, 2, <<>>, <<Filter("age", "contains", 5), Filter("name", "contains", 8)>>),
    Query(2, 0, <<By("age", "asc"), By("id", "desc")>>, <<Filter("age", "isNull", FALSE), Filter("name", "gt", 1)>>),
    Query(None, None, <<>>, <<Filter("age", "gte", NaN)>>),
    Query(1, None, <<By("id", "asc")>>, <<Filter("age", "lte", 5), Filter("id", "lt", 4), Filter("id", "in", {1, 2, 3})>>),
    Query(Repeated, 2, <<>>, <<>>),
    Query(1, Repeated, <<By("id", "asc")>>, <<Filter("name", "contains", 8)>>)>>

-----------------------------------------------------------------------------
(* What is hard to map: names, value objects, subclasses, column types.     *)

Plain(id, user) == [id |-> id, kind |-> "guest", props |-> [planD |-> user, userID |-> user]]
Member(id, v) ==
    [id |-> id, kind |-> "member", props |-> [planD |-> v, secret |-> Password, userID |-> v]]

MemberStore ==
    [columns |-> [id |-> "integer", plan_d |-> "text", user_id |-> "text",
                   secret_hash |-> "text"] @@ Audit,
     overrides |-> [secret |-> "secret_hash"], resolver |-> <<>>, fields |-> {"id", "planD", "userID"},
     keys |-> [guest |-> {"planD", "userID"}, member |-> {"planD", "secret", "userID"}],
     derived |-> [guest |-> <<>>, member |-> [secret_hash |-> "secret"]],
     scoped |-> FALSE, objects |-> {Plain(1, Ann), Member(2, Ann)}, before |-> {},
     changes |-> {<<>>, [planD |-> None]}, sessions |-> {[user |-> u, scope |-> 1] : u \in {Ann, None}},
     batches |-> TRUE, writes |-> 3]

Sheet(id, scope, v, w) ==
    [id |-> id, kind |-> "sheet", props |-> [scopeId |-> scope, data |-> v, line2Sum |-> w]]
SheetStore(type) ==
    [columns |-> [id |-> "integer", scope_id |-> "integer", data |-> "jsonb",
                   line2_sum |-> type] @@ Audit,
     overrides |-> <<>>, resolver |-> <<>>, fields |-> {"id", "scopeId", "line2Sum"},
     keys |-> [sheet |-> {"scopeId", "data", "line2Sum"}], derived |-> [sheet |-> <<>>],
     scoped |-> TRUE, objects |-> {Sheet(1, 1, v, w) : v \in {Json, JsonText, BadText},
                                                        w \in {Five, FiveText, Huge}}, before |-> {},
     changes |-> {[data |-> Json], [line2Sum |-> FiveText]},
     sessions |-> {[user |-> Ann, scope |-> 1], [user |-> None, scope |-> 2]},
     batches |-> FALSE, writes |-> 3]

Whole == [Method EXCEPT !.filters = <<>>, !.enforced = <<By("id", "asc")>>,
                       !.defaults = <<>>]
MCStores == <<MemberStore, SheetStore("integer"), SheetStore("bigint"), SheetStore("numeric"),
              SheetStore("enum"), [ItemStore EXCEPT !.changes = {[age |-> 9, name |-> 8]}]>>

\* Every client of every method, and one client that lists each of the other tables.
AllWalks ==
    [n \in 1 .. Len(MCApps) * Len(MCInputs) |->
        [app |-> MCApps[1 + ((n - 1) \div Len(MCInputs))],
         input |-> MCInputs[1 + ((n - 1) % Len(MCInputs))]]]
    \o [n \in DOMAIN MCStores |->
        [app |-> [Whole EXCEPT !.store = MCStores[n]], input |-> MCInputs[1]]]

MCWalks == AllWalks
=============================================================================
