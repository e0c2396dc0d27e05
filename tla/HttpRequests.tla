---------------------------- MODULE HttpRequests ----------------------------
(***************************************************************************)
(* Requests to a HonoServer over a Router: a request is given to the first *)
(* route that matches, and runs through its chain of middlewares, the      *)
(* guards of its method and the method.  Requests interleave at every      *)
(* await; each has its own attributes and its own nesting of execution     *)
(* contexts (runWithContext).  Sessions are revoked meanwhile.             *)
(***************************************************************************)
EXTENDS Router, FiniteSets

CONSTANTS
    RouterOptions,  \* configurations: options of the router, and the validator
    Requests,       \* bound: requests that are sent
    Inputs,         \* what a client may send
    Users,
    Thrown,         \* errors of application code: [category, declared status]
    Paths           \* paths of requests, to compare patterns on

ASSUME RequestsAssumption ==
    IsFiniteSet(Requests) /\ None \notin Requests /\ None \notin 100 .. 599

\* The middlewares of a route, the guards of its method from the outermost one, the method.
Kinds(guards) == [i \in DOMAIN guards |-> guards[i].kind]
StepsOf(t) == t.chain \o Kinds(t.guards) \o <<"method">>

\* What an application can declare.
ASSUME OptionsAssumption ==
    \A o \in RouterOptions :
        /\ None \notin Declared(o)
        /\ o.globals \in Seq({"global"})
        /\ \A i \in DOMAIN o.registrations :
            LET controller == o.registrations[i].controller
            IN  /\ o.registrations[i].middlewares \in Seq({"middleware"})
                /\ controller \in Seq({controller[j] : j \in DOMAIN controller})
                /\ \A j \in DOMAIN controller : \A name \in DOMAIN controller[j].methods :
                    Kinds(controller[j].methods[name]) \in Seq({"authorize", "validate"})

\* Tokens were signed for the sessions that there are in the beginning.
ASSUME InputsAssumption ==
    /\ None \notin Inputs
    /\ \A in \in Inputs :
        /\ in.token # None => in.token.user \in Users /\ in.token.stamp = 1
        /\ None \notin DOMAIN in.headers

\* The path of n segments that fills the pattern with s.
Sample(pattern, n, s) ==
    [i \in 1 .. n |-> IF pattern[i] \in Params \cup {Wildcard} THEN s ELSE pattern[i]]

\* There are paths enough to tell the patterns of routes apart.
ASSUME PathsAssumption ==
    \E c, d \in DOMAIN Length : c # d /\ \A o \in RouterOptions : \A t \in RouteTable(o) :
        /\ t.path \in Seq(DOMAIN Length)
        /\ \A s \in {c, d}, n \in {Len(t.path) - 1, Len(t.path)} : Sample(t.path, n, s) \in Paths

VARIABLES
    options, table, \* of the router; the table is None until it is built
    sessions,       \* session store: user -> securityStamp, 0 for no session
    input,          \* of a request, None before it is received
    asOf,           \* history: the session store when it was received
    route,          \* its route, None if none matches
    step,           \* index into Steps
    attributes,     \* stack, token, input (getRequestAttributes)
    contexts,       \* execution contexts it is nested in
    answer          \* HTTP status, None before the response

vars == <<options, table, sessions, input, asOf, route, step, attributes, contexts, answer>>

NoAttributes == [stack |-> None, token |-> None, input |-> None]

Init ==
    /\ options \in RouterOptions
    /\ table = None
    /\ sessions = [u \in Users |-> 1]
    /\ input = [r \in Requests |-> None]
    /\ asOf = [r \in Requests |-> None]
    /\ route = [r \in Requests |-> None]
    /\ step = [r \in Requests |-> 0]
    /\ attributes = [r \in Requests |-> NoAttributes]
    /\ contexts = [r \in Requests |-> <<>>]
    /\ answer = [r \in Requests |-> None]

-----------------------------------------------------------------------------
(* The server.                                                              *)

\* new Router(), bootstrap(), listen(): nothing is served if it throws.
Build ==
    /\ table = None /\ ~Refused(options)
    /\ table' = RouteTable(options)
    /\ UNCHANGED <<options, sessions, input, asOf, route, step, attributes, contexts, answer>>

\* Hono: "*" at the end matches any rest, also none.
Matches(pattern, path) ==
    LET n == Len(pattern)
        rest == n > 0 /\ pattern[n] = Wildcard
    IN  /\ IF rest THEN Len(path) >= n - 1 ELSE Len(path) = n
        /\ \A i \in 1 .. (IF rest THEN n - 1 ELSE n) :
                pattern[i] \in Params \cup {Wildcard, path[i]}

\* Hono: the handlers of the first route that matches answer.
Receive(r) ==
    /\ table # None /\ input[r] = None
    /\ \E in \in Inputs :
        LET matching == {t \in table : t.method = in.method /\ Matches(t.path, in.path)}
        IN  /\ input' = [input EXCEPT ![r] = in]
            /\ \/ /\ matching = {}
                  /\ answer' = [answer EXCEPT ![r] = 404] /\ UNCHANGED route
               \/ \E first \in matching :
                    /\ \A t \in matching \ {first} : Before(first, t)
                    /\ route' = [route EXCEPT ![r] = first] /\ UNCHANGED answer
    /\ asOf' = [asOf EXCEPT ![r] = sessions]
    /\ step' = [step EXCEPT ![r] = 1]
    /\ UNCHANGED <<options, table, sessions, attributes, contexts>>

\* The session store is changed elsewhere: a new stamp, or no session.
Revoke(u) ==
    /\ sessions[u] = 1
    /\ sessions' \in {[sessions EXCEPT ![u] = 0], [sessions EXCEPT ![u] = 2]}
    /\ UNCHANGED <<options, table, input, asOf, route, step, attributes, contexts, answer>>

-----------------------------------------------------------------------------
(* One request.                                                             *)

Steps(r) == StepsOf(route[r])
Guard(r) == route[r].guards[step[r] - Len(route[r].chain)]

At(r, kinds) == route[r] # None /\ answer[r] = None /\ Steps(r)[step[r]] \in kinds

GoOn(r) == step' = [step EXCEPT ![r] = @ + 1] /\ UNCHANGED answer

\* The response is written; the promises of the chain settle, its contexts end.
Answered(r, status) ==
    /\ answer' = [answer EXCEPT ![r] = status]
    /\ contexts' = [contexts EXCEPT ![r] = <<>>]
    /\ UNCHANGED <<step, attributes>>

StatusOfCategory ==
    [Validation |-> 400, Unauthorized |-> 401, PaymentRequired |-> 402, Forbidden |-> 403,
     NotFound |-> 404, Conflict |-> 409, Gone |-> 410, PreconditionFailed |-> 412,
     RateLimit |-> 429, Internal |-> 500, NotImplemented |-> 501, External |-> 502,
     Unavailable |-> 503, Timeout |-> 504]

\* Errors that are not QuillaErrors are answered 500, whatever they declare.
Status(error) ==
    IF error.category \notin DOMAIN StatusOfCategory THEN 500
    ELSE IF error.declared # None /\ error.declared \in 100 .. 599 THEN error.declared
    ELSE StatusOfCategory[error.category]

Throws(r, category) == Answered(r, Status([category |-> category, declared |-> None]))

Header(r, name) ==
    IF name \in DOMAIN input[r].headers THEN input[r].headers[name] ELSE None

\* randomUUID() of request r is r.
Baseline(r) ==
    [actor |-> "anonymous", session |-> None,
     correlation |-> FirstOf(<<Header(r, "correlation"), r>>)]

\* Mutation: the provider keeps the context in a field, for all that are under way.
MutRunWithContext(r, context) ==
    contexts' = [q \in Requests |->
                    IF q = r \/ contexts[q] # <<>> THEN Append(contexts[q], context) ELSE <<>>]

RunWithContext(r, context) == contexts' = [contexts EXCEPT ![r] = Append(@, context)]

EstablishContext(r) ==
    /\ At(r, {"context"})
    /\ RunWithContext(r, Baseline(r))
    /\ GoOn(r) /\ UNCHANGED attributes

\* Middlewares of the application call next() or throw.
Middleware(r) ==
    /\ At(r, {"global", "middleware"})
    /\ \/ GoOn(r) /\ UNCHANGED <<attributes, contexts>>
       \/ \E e \in Thrown : Answered(r, Status(e))

Stamp(r) ==
    /\ At(r, {"stamp"})
    /\ attributes' = [attributes EXCEPT ![r].stack = route[r].stack]
    /\ GoOn(r) /\ UNCHANGED contexts

\* The token service of the stack verifies what it has signed, until it expires.
Credential(r) ==
    /\ At(r, {"credential"})
    /\ \/ /\ input[r].token # None /\ input[r].token.stack = route[r].stack
          /\ attributes' = [attributes EXCEPT ![r].token = input[r].token]
          /\ GoOn(r) /\ UNCHANGED contexts
       \/ Throws(r, "Unauthorized")

Token(r) == attributes[r].token

SessionLoad(r) ==
    /\ At(r, {"session"})
    /\ IF Token(r) = None \/ sessions[Token(r).user] # Token(r).stamp
       THEN Throws(r, "Unauthorized")
       ELSE IF contexts[r] = <<>> THEN Throws(r, "Error")
       ELSE /\ RunWithContext(r, [Last(contexts[r]) EXCEPT !.actor = "user",
                    !.session = [user |-> Token(r).user, scope |-> Token(r).scope]])
            /\ GoOn(r) /\ UNCHANGED attributes

Grants(token, guard) ==
    IF guard.mode = "all" THEN guard.scopes \subseteq token.scopes
    ELSE guard.scopes \cap token.scopes # {}

Authorize(r) ==
    /\ At(r, {"authorize"})
    /\ IF Token(r) = None THEN Throws(r, "Forbidden")
       ELSE IF ~Grants(Token(r), Guard(r)) THEN Throws(r, "Forbidden")
       ELSE GoOn(r) /\ UNCHANGED <<attributes, contexts>>

-----------------------------------------------------------------------------
(* @ValidateRequest.                                                        *)

Describes(r) == options.validator = "describing" /\ Guard(r).object

\* Fields of the session that the schema declares.
SessionFields(r) ==
    LET session == Last(contexts[r]).session
        all == IF session = None THEN <<>>
               ELSE [userId |-> session.user, scopeId |-> session.scope]
    IN  [k \in DOMAIN all \cap Guard(r).keys |-> all[k]]

\* Fields of headers that are sent and that the schema declares.
HeaderFields(r) ==
    LET name(k) == IF k \in DOMAIN Guard(r).headers THEN Guard(r).headers[k]
                   ELSE IF k = "updatedAt" THEN "If-Match" ELSE None
    IN  [k \in {x \in Guard(r).keys : Header(r, name(x)) # None} |-> Header(r, name(k))]

Over(f, g) == [k \in DOMAIN f \cup DOMAIN g |-> IF k \in DOMAIN f THEN f[k] ELSE g[k]]

\* The merged sources; a body that cannot be parsed has no fields.
Raw(r) ==
    IF ~Describes(r) THEN input[r].fields
    ELSE Over(HeaderFields(r), Over(SessionFields(r), input[r].fields))

\* The validator (external) strips what the schema does not declare.
Validate(r) ==
    /\ At(r, {"validate"})
    /\ IF options.validator = None THEN Throws(r, "Error")
       ELSE IF Describes(r) /\ contexts[r] = <<>> THEN Throws(r, "Error")
       ELSE IF ~(Guard(r).required \subseteq DOMAIN Raw(r)) THEN Throws(r, "Validation")
       ELSE /\ attributes' = [attributes EXCEPT ![r].input =
                                [k \in Guard(r).keys \cap DOMAIN Raw(r) |-> Raw(r)[k]]]
            /\ GoOn(r) /\ UNCHANGED contexts

\* The method of the controller returns a response or throws.
Handle(r) ==
    /\ At(r, {"method"})
    /\ Answered(r, 200) \/ \E e \in Thrown : Answered(r, Status(e))

Advance(r) ==
    /\ \/ EstablishContext(r) \/ Middleware(r) \/ Stamp(r) \/ Credential(r)
       \/ SessionLoad(r) \/ Authorize(r) \/ Validate(r) \/ Handle(r)
    /\ UNCHANGED <<options, table, sessions, input, asOf, route>>

Next ==
    \/ Build
    \/ \E u \in Users : Revoke(u)
    \/ \E r \in Requests : Receive(r) \/ Advance(r)

Spec == Init /\ [][Next]_vars

-----------------------------------------------------------------------------
(* Properties.                                                              *)

HasSession(r) == ~route[r].public /\ route[r].stack # None /\ options.stacks[route[r].stack].sessionLoad

\* "An unresolvable stack can never degrade to no auth" (router.ts 220-221): in a router that
\* declares stacks, whatever of a protected route comes after its auth phase -- middlewares of
\* the module and of the registration, guards, the method -- sees only requests whose
\* credential the stack of that route has verified, and, where the stack has a sessionLoad,
\* whose session had not been removed or given a new securityStamp when they came in.
ProtectedStepsAreAuthenticated ==
    \A r \in Requests :
        /\ Declared(options) # {} /\ At(r, {"middleware", "authorize", "validate", "method"})
        /\ ~route[r].public
        => /\ attributes[r].stack = route[r].stack /\ Token(r) # None
           /\ Token(r).stack = route[r].stack
           /\ HasSession(r) => asOf[r][Token(r).user] = Token(r).stamp

\* The schemas of a route, and the fields that they take from headers.
Schemas(t) == {t.guards[i] : i \in {j \in DOMAIN t.guards : t.guards[j].kind = "validate"}}
FromHeaders(t) == UNION {DOMAIN schema.headers : schema \in Schemas(t)}

\* Only the fields of objects can be listed: "the decorator then skips auth-injection"
\* (validator/zod.ts 28-29).
Described(o, t) == o.validator = "describing" /\ \A schema \in Schemas(t) : schema.object

\* A method sees the identity of its own request, whatever else is under way: the correlation
\* id of its header or a fresh one, the session of its own token and no other, and validated
\* fields userId and scopeId of that session, whatever the client sent -- unless the
\* application names a header for them, which comes after the session, or the schema is a
\* union or the like.
OwnIdentity ==
    \A r \in Requests :
        At(r, {"method"}) /\ contexts[r] # <<>> =>
            LET context == Last(contexts[r])
                fields == attributes[r].input
            IN  /\ context.correlation = FirstOf(<<Header(r, "correlation"), r>>)
                /\ IF HasSession(r) THEN context.session = [user |-> input[r].token.user,
                                                            scope |-> input[r].token.scope]
                   ELSE context.session = None
                /\ HasSession(r) /\ fields # None /\ Described(options, route[r]) =>
                    \A k \in (DOMAIN fields \cap {"userId", "scopeId"}) \ FromHeaders(route[r]) :
                        fields[k] = context.session[IF k = "userId" THEN "user" ELSE "scope"]

\* "Everything that can fail, fails at construction, never at request time" (README 282): in
\* a router that was built, sessionLoad finds a verified token and an execution context, and
\* so does @ValidateRequest -- unless the router has no executionContext option, where every
\* request to such a method fails as soon as the validator describes schemas.
NothingFailsLate ==
    \A r \in Requests :
        /\ At(r, {"session"}) => Token(r) # None /\ contexts[r] # <<>>
        /\ At(r, {"validate"}) /\ options.context => contexts[r] # <<>>

MatchedBy(pattern) == {p \in Paths : Matches(pattern, p)}

\* "/a/*" matches "/a" as well, with an empty rest.
EmptyRest(p, q) == Len(q) = Len(p) + 1 /\ Last(q) = Wildcard

\* A "*" in the middle matches what a parameter does, and scores less.
Outscored(p, q) == \E i \in DOMAIN p \cap DOMAIN q : p[i] = Wildcard /\ q[i] \in Params

\* "so /users/healthz matches before /users/:id" (README 528): a route that matches only a
\* part of what another one matches comes before it -- except where "*" matches nothing, or
\* stands in the middle for what is a parameter of the other one.
NarrowerFirst ==
    table # None /\ (\A r \in Requests : input[r] = None) =>
        \A s, t \in table :
            /\ MatchedBy(s.path) \subseteq MatchedBy(t.path)
            /\ MatchedBy(s.path) # MatchedBy(t.path)
            /\ ~EmptyRest(s.path, t.path) /\ ~Outscored(s.path, t.path)
            => Before(s, t)
=============================================================================
