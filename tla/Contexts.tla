------------------------------ MODULE Contexts ------------------------------
(***************************************************************************)
(* Execution contexts beyond a request: what a request or a job does in a  *)
(* transaction is recorded as an event with metadata of its context, the   *)
(* event goes through the tables of the outbox and the bus as JSON, and a  *)
(* consumer runs its handlers in a context made of that metadata.  A       *)
(* handler may record events itself.  How events get from one to the other *)
(* and how often is in Pipeline; here every event that was recorded may be *)
(* dispatched at any time, and again.                                      *)
(***************************************************************************)
EXTENDS HttpRequests

CONSTANTS
    Null,
    Workers,        \* ticks of consumers and of the job runner
    Scopes,         \* scopes that work without a session may be for
    MaxEvents       \* bound: events that are recorded

ASSUME WorkersAssumption == IsFiniteSet(Workers) /\ None \notin Workers
ASSUME EventsAssumption == MaxEvents \in Nat /\ Null # None

Tokens == {in.token : in \in Inputs} \ {None}
Actors == {"anonymous", "user", "system", "job"}
Correlations ==
    Requests \cup Workers \cup
    ({in.headers["correlation"] : in \in {i \in Inputs : "correlation" \in DOMAIN i.headers}} \ {None})
UserIds == {t.user : t \in Tokens} \cup {None, Null}
ScopeIds == {t.scope : t \in Tokens} \cup Scopes \cup {None, Null}

Sessions == [user : UserIds \ {None}, scope : ScopeIds \ {None}]
ExecutionContexts ==
    [actor : Actors, session : Sessions \cup {None}, correlation : Correlations]
EventMetadata == [actor : Actors, correlation : Correlations, scope : ScopeIds, user : UserIds]

\* What is absent is nothing that is there.
ASSUME NoneAssumption ==
    /\ None \notin Actors \cup Sessions \cup EventMetadata
    /\ None \notin [context : ExecutionContexts, root : ExecutionContexts]
    /\ \A t \in Tokens : t.user # None /\ t.scope # None

VARIABLES
    events,     \* rows: metadata, and as history the context that their chain began in
    running     \* worker -> context of the job or handler that runs, and that of its chain

busVars == <<events, running>>
allVars == <<vars, busVars>>

ContextsInit == Init /\ events = {} /\ running = [w \in Workers |-> None]

-----------------------------------------------------------------------------
(* Events.                                                                  *)

\* serialize() of the application: who records the event, for which scope.
Metadata(context, scope) ==
    [actor |-> context.actor, correlation |-> context.correlation,
     scope |-> IF context.session = None THEN scope ELSE context.session.scope,
     user |-> IF context.session = None THEN None ELSE context.session.user]

\* JSON.stringify: EventMetadata.toJSON() writes null for what is absent, a plain object
\* leaves it out.
Stored(metadata) ==
    [f \in DOMAIN metadata |->
        IF metadata[f] = None /\ options.metadata = "instance" THEN Null ELSE metadata[f]]

\* insert() in the transaction of an operation.
Record(context, root) ==
    /\ options.metadata # None /\ Cardinality(events) < MaxEvents
    /\ \E scope \in Scopes \cup {None} :
        events' = events \cup
            {[metadata |-> IF options.metadata = "none" THEN None
                           ELSE Stored(Metadata(context, scope)), root |-> root]}

-----------------------------------------------------------------------------
(* Contexts.                                                                *)

\* randomUUID() of worker w is w.
SystemContext(actor, w) == [actor |-> actor, session |-> None, correlation |-> w]

\* Mutation: half a session is enough.
MutFromEventMetadata(m) ==
    [actor |-> m.actor, correlation |-> m.correlation,
     session |-> IF m.scope # None THEN [user |-> m.user, scope |-> m.scope] ELSE None]

\* createFromEventMetadata: what is null is not undefined.
FromEventMetadata(m) ==
    [actor |-> m.actor, correlation |-> m.correlation,
     session |-> IF m.scope # None /\ m.user # None
                 THEN [user |-> m.user, scope |-> m.scope] ELSE None]

BuildExecutionContext(w, e) ==
    IF e.metadata = None THEN SystemContext("system", w) ELSE FromEventMetadata(e.metadata)

\* The fields that every log entry of the context gets.
Enriched(context) ==
    LET fields == [actorType |-> context.actor, correlationId |-> context.correlation]
    IN  IF context.session = None THEN fields
        ELSE Over([scopeId |-> context.session.scope, userId |-> context.session.user], fields)

-----------------------------------------------------------------------------
(* Jobs and handlers.                                                       *)

Runs(w, context, root) ==
    /\ running[w] = None
    /\ running' = [running EXCEPT ![w] = [context |-> context, root |-> root]]
    /\ UNCHANGED <<vars, events>>

JobFires(w) ==
    /\ options.metadata # None
    /\ Runs(w, SystemContext("job", w), SystemContext("job", w))

\* An attempt of a handler; a further one gets a context that differs in its attempt id only.
Dispatch(w) == \E e \in events : Runs(w, BuildExecutionContext(w, e), e.root)

Settles(w) ==
    /\ running[w] # None
    /\ running' = [running EXCEPT ![w] = None]
    /\ UNCHANGED <<vars, events>>

WorkerRecords(w) ==
    /\ running[w] # None
    /\ Record(running[w].context, running[w].root)
    /\ UNCHANGED <<vars, running>>

\* The method of a controller has a transaction before it answers.
RequestRecords(r) ==
    /\ At(r, {"method"}) /\ contexts[r] # <<>>
    /\ Record(Last(contexts[r]), Last(contexts[r]))
    /\ UNCHANGED <<vars, running>>

ContextsNext ==
    \/ Next /\ UNCHANGED busVars
    \/ \E r \in Requests : RequestRecords(r)
    \/ \E w \in Workers : JobFires(w) \/ Dispatch(w) \/ Settles(w) \/ WorkerRecords(w)

ContextsSpec == ContextsInit /\ [][ContextsNext]_allVars

-----------------------------------------------------------------------------
(* Properties.                                                              *)

\* "Same correlationId, actorType, scopeId, userId as the operation that produced the event"
\* (messaging/README.md 493-496), also on log lines and over any number of events: a handler
\* runs as the request or job with which its chain began, with its session or, as
\* execution-context/README.md 118-121 says, without any -- if serialize() gives metadata.
\* Not so for an EventMetadata of an operation without session: createFromEventMetadata
\* takes the nulls of its JSON for a session.
HandlersKnowOrigin ==
    \A w \in Workers :
        running[w] # None /\ options.metadata # "none" =>
            LET context == running[w].context
                root == running[w].root
            IN  IF root.session = None /\ options.metadata = "instance"
                THEN context.actor = root.actor /\ context.correlation = root.correlation
                ELSE Enriched(context) = Enriched(root)
=============================================================================
