--------------------------- MODULE MCContexts -----------------------------
(* Small instances of Contexts, and of HttpRequests in it.                   *)
EXTENDS Contexts, TLC

CONSTANTS r1, r2

MCLength == ("a" :> 1) @@ ("b" :> 1) @@ ("v1" :> 2) @@ (":x" :> 2) @@ (":y" :> 2) @@ ("*" :> 1)
MCPaths == UNION {[1 .. n -> {"a", "b", "v1"}] : n \in 0 .. 4}
MCThrown == {[category |-> "NotFound", declared |-> 42], [category |-> "Error", declared |-> 418]}

\* Decorators.
Scope(s) == [kind |-> "authorize", scopes |-> s, mode |-> "any"]
AllScopes(s) == [kind |-> "authorize", scopes |-> s, mode |-> "all"]
Schema(keys, required) ==
    [kind |-> "validate", keys |-> keys, required |-> required, object |-> TRUE, headers |-> <<>>]
Get(name, path) ==
    [name |-> name, method |-> "GET", path |-> path, public |-> FALSE, version |-> None, stack |-> None]
Class(prefix, routes, methods) ==
    [prefix |-> prefix, version |-> None, stack |-> None, routes |-> routes, methods |-> methods]
Mounted(controller) ==
    [controller |-> controller, prefix |-> <<>>, modulePrefix |-> <<>>, moduleVersion |-> None,
     moduleStack |-> None, middlewares |-> <<"middleware">>]

\* A method with both guards, and a public one.
Plain == <<Class(<<"a">>, <<Get("list", <<>>), [Get("health", <<"b">>) EXCEPT !.public = TRUE]>>,
    ("list" :> <<Scope({"read", "write"}), Schema({"scopeId", "userId", "updatedAt"}, {"updatedAt"})>>)
    @@ ("health" :> <<>>))>>

\* A subclass that overrides both methods: one has a union as schema, the other has userId
\* from a header.
Parent == Class(<<"a">>, <<Get("one", <<>>), Get("two", <<"b">>)>>,
    ("one" :> <<Scope({"read"})>>) @@ ("two" :> <<Scope({"read"})>>))
UserFromHeader == [Schema({"scopeId", "userId"}, {}) EXCEPT !.headers = "userId" :> "correlation"]
Union == [Schema({"scopeId"}, {}) EXCEPT !.object = FALSE]
Child == <<Class(None, <<>>, ("one" :> <<AllScopes({"write", "all"}), Union>>)
                             @@ ("two" :> <<UserFromHeader>>)), Parent>>

Other == <<[Class(<<"b">>, <<Get("list", <<>>), [Get("fast", <<"a">>) EXCEPT !.stack = "key"]>>,
    ("list" :> <<Schema({"scopeId"}, {})>>) @@ ("fast" :> <<>>)) EXCEPT !.stack = "key"]>>

Open == <<Class(None, <<[Get("post", <<"a">>) EXCEPT !.public = TRUE]>>,
    "post" :> <<Schema({"scopeId"}, {"scopeId"})>>)>>

Patterns == <<Class(None, [i \in 1 .. 10 |-> Get("any", (<<
    <<"*">>, <<"a", "*">>, <<":x", ":y">>, <<":x">>, <<"a", ":y">>, <<"a", "b">>, <<":x", "b">>,
    <<"a", ":x", "b">>, <<"a", "b", "*">>, <<"*", "b">> >>)[i])], "any" :> <<>>)>>

Eventful == <<Class(<<"a">>, <<Get("list", <<>>), [Get("health", <<"b">>) EXCEPT !.public = TRUE]>>,
    ("list" :> <<>>) @@ ("health" :> <<>>))>>

Stacks == ("bearer" :> [sessionLoad |-> TRUE]) @@ ("key" :> [sessionLoad |-> FALSE])

Base == [stacks |-> Stacks, default |-> "bearer", context |-> TRUE, validator |-> "describing",
         globals |-> <<"global">>, registrations |-> <<Mounted(Plain), Mounted(Other)>>,
         metadata |-> None]
NoStacks(controller) ==
    [stacks |-> None, default |-> None, context |-> FALSE, validator |-> "describing",
     globals |-> <<>>, registrations |-> <<Mounted(controller)>>, metadata |-> None]
\* Requests with and without session, whose method records events.
Recording(metadata) ==
    [Base EXCEPT !.globals = <<>>, !.metadata = metadata,
                 !.registrations = <<[Mounted(Eventful) EXCEPT !.middlewares = <<>>]>>]

MCRouterOptions == {
    Base,
    [Base EXCEPT !.registrations = <<Mounted(Child)>>],
    [Base EXCEPT !.validator = "plain", !.globals = <<>>,
                 !.registrations = <<[Mounted(Plain) EXCEPT !.modulePrefix = <<"b">>,
                                      !.moduleVersion = <<"v1">>, !.moduleStack = "key"]>>],
    NoStacks(Open), [NoStacks(Open) EXCEPT !.context = TRUE], [NoStacks(Open) EXCEPT !.validator = None],
    NoStacks(Patterns),
    Recording("instance"), Recording("plain"), Recording("none"),
    \* Refused.
    [Base EXCEPT !.stacks = <<>>], [Base EXCEPT !.context = FALSE], [Base EXCEPT !.default = None],
    [Base EXCEPT !.default = "typo"],
    [Base EXCEPT !.registrations = <<[Mounted(Plain) EXCEPT !.moduleStack = "typo"]>>],
    [Base EXCEPT !.registrations = <<Mounted(<<[Plain[1] EXCEPT !.stack = "typo"]>>)>>],
    [Base EXCEPT !.registrations = <<Mounted(<<[Plain[1] EXCEPT !.routes[1].stack = "typo"]>>)>>],
    [Base EXCEPT !.registrations = <<Mounted(<<[Plain[1] EXCEPT !.routes[2].stack = "key"]>>)>>],
    [Base EXCEPT !.registrations = <<Mounted(Plain), Mounted(Plain)>>],
    [NoStacks(Plain) EXCEPT !.registrations[1].controller[1].routes[1].name = "gone"]}

\* What clients send.
Bearer(user, scopes) ==
    [stack |-> "bearer", user |-> user, scope |-> "own", stamp |-> 1, scopes |-> scopes]
Request(path, token) ==
    [method |-> "GET", path |-> path, token |-> token,
     headers |-> "correlation" :> "c1", fields |-> "scopeId" :> "sent"]

MCInputs == {
    Request(<<"a">>, Bearer("u", {"read"})),
    [Request(<<"a">>, Bearer("v", {"write", "all"})) EXCEPT !.headers = "If-Match" :> "etag"],
    [Request(<<"a">>, None) EXCEPT !.fields = <<>>],
    Request(<<"a", "b">>, Bearer("u", {})),
    Request(<<"b">>, [Bearer("v", {"read"}) EXCEPT !.stack = "key"]),
    Request(<<"b", "v1", "a">>, [Bearer("u", {"read"}) EXCEPT !.stack = "key"])}

Symmetry == Permutations({r1, r2})
=============================================================================
