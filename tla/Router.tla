------------------------------- MODULE Router -------------------------------
(***************************************************************************)
(* What class Router makes of decorated controllers when it is built: the  *)
(* routes and their order, or an error.                                    *)
(*                                                                         *)
(* A path is a sequence of segments.  A controller is the sequence of its  *)
(* class and the decorated classes it inherits from, nearest first.  A     *)
(* class has what @Controller sets (prefix, version, stack), the routes of *)
(* its method decorators in order, and methods: the guards that decorate   *)
(* each method it defines, outermost first.                                *)
(***************************************************************************)
EXTENDS Integers, Sequences, SequencesExt

CONSTANTS
    None,           \* undefined
    Params,         \* segments like ":id"
    Wildcard,       \* the segment "*"
    Length          \* segment -> its number of characters

ASSUME SegmentsAssumption ==
    /\ Wildcard \notin Params
    /\ \A s \in DOMAIN Length : Length[s] \in Nat \ {0}
    /\ Params \cup {Wildcard} \subseteq DOMAIN Length

-----------------------------------------------------------------------------
(* Metadata of controllers.                                                 *)

\* a ?? b ?? c
FirstOf(s) ==
    LET i == SelectInSeq(s, LAMBDA x : x # None)
    IN  IF i = 0 THEN None ELSE s[i]

Inherited(controller, key) == FirstOf([i \in DOMAIN controller |-> controller[i][key]])

ControllerRoutes(controller) ==
    FlattenSeq(Reverse([i \in DOMAIN controller |-> controller[i].routes]))

\* The method that runs: that of the nearest class, with its own guards only.
Method(controller, name) ==
    FirstOf([i \in DOMAIN controller |->
        IF name \in DOMAIN controller[i].methods THEN controller[i].methods[name] ELSE None])

-----------------------------------------------------------------------------
(* Paths.                                                                   *)

OrEmpty(path) == IF path = None THEN <<>> ELSE path

\* "/" is the empty sequence: joinPath() drops empty parts.
FullPath(reg, def) ==
    FlattenSeq(<<reg.modulePrefix,
                 OrEmpty(FirstOf(<<def.version, Inherited(reg.controller, "version"),
                                   reg.moduleVersion>>)),
                 reg.prefix,
                 OrEmpty(Inherited(reg.controller, "prefix")),
                 def.path>>)

\* Mutation: only parameters count less.
MutSegmentScore(s) == IF s \in Params THEN 2 ELSE 3

SegmentScore(s) == IF s \in Params THEN 2 ELSE IF s = Wildcard THEN 1 ELSE 3

Specificity(path) == FoldLeft(LAMBDA n, s : n + SegmentScore(s) + 1, 0, path)

Characters(path) == FoldLeft(LAMBDA n, s : n + Length[s] + 1, 0, path)

\* The order of the sorted table: Array.prototype.sort is stable, so that routes of equal
\* rank stay in the order of their places.
Before(s, t) ==
    \/ Specificity(s.path) > Specificity(t.path)
    \/ /\ Specificity(s.path) = Specificity(t.path)
       /\ \/ Characters(s.path) > Characters(t.path)
          \/ /\ Characters(s.path) = Characters(t.path)
             /\ \/ s.place[1] < t.place[1]
                \/ s.place[1] = t.place[1] /\ s.place[2] < t.place[2]

-----------------------------------------------------------------------------
(* Auth stacks and middleware.                                              *)

Declared(o) == IF o.stacks = None THEN {} ELSE DOMAIN o.stacks

ResolvedStack(o, reg, def) ==
    IF def.public THEN None
    ELSE FirstOf(<<def.stack, Inherited(reg.controller, "stack"), reg.moduleStack, o.default>>)

\* stamp, credentialVerification, sessionLoad: undeclared stacks have no chain.
AuthChain(o, stack) ==
    IF stack \notin Declared(o) THEN <<>>
    ELSE <<"stamp", "credential">> \o (IF o.stacks[stack].sessionLoad THEN <<"session">> ELSE <<>>)

\* Mutation: the module's middlewares run before the auth stack.
MutChain(o, reg, stack) ==
    (IF o.context THEN <<"context">> ELSE <<>>)
    \o o.globals \o reg.middlewares \o AuthChain(o, stack)

Chain(o, reg, stack) ==
    (IF o.context THEN <<"context">> ELSE <<>>)
    \o o.globals \o AuthChain(o, stack) \o reg.middlewares

\* Where a route is defined: its registration, and its number among the routes of it.
Places(o) ==
    UNION {{i} \X DOMAIN ControllerRoutes(o.registrations[i].controller) :
                i \in DOMAIN o.registrations}

Registration(o, place) == o.registrations[place[1]]
Definition(o, place) == ControllerRoutes(Registration(o, place).controller)[place[2]]

RouteOf(o, place) ==
    LET reg == Registration(o, place)
        def == Definition(o, place)
    IN  [place |-> place, method |-> def.method, path |-> FullPath(reg, def),
         public |-> def.public, stack |-> ResolvedStack(o, reg, def),
         chain |-> Chain(o, reg, ResolvedStack(o, reg, def)),
         guards |-> Method(reg.controller, def.name)]

\* The routes, which are tried in the order of Before.
RouteTable(o) == {RouteOf(o, place) : place \in Places(o)}

-----------------------------------------------------------------------------
(* The errors of the constructor.                                           *)

\* Mutation: stacks without an execution context are accepted.
MutStacksWrong(o) ==
    \/ o.stacks # None /\ Declared(o) = {}
    \/ Declared(o) # {} /\ o.default = None
    \/ o.default # None /\ o.default \notin Declared(o)

StacksWrong(o) ==
    \/ o.stacks # None /\ Declared(o) = {}
    \/ Declared(o) # {} /\ (~o.context \/ o.default = None)
    \/ o.default # None /\ o.default \notin Declared(o)

UnknownStack(o) ==
    \/ \E i \in DOMAIN o.registrations :
        \/ Inherited(o.registrations[i].controller, "stack") \notin Declared(o) \cup {None}
        \/ o.registrations[i].moduleStack \notin Declared(o) \cup {None}
    \/ \E route \in RouteTable(o) : route.stack \notin Declared(o) \cup {None}

StackOnPublicRoute(o) ==
    \E place \in Places(o) : Definition(o, place).public /\ Definition(o, place).stack # None

DuplicateRoute(o) ==
    \E s, t \in RouteTable(o) : s.place # t.place /\ s.method = t.method /\ s.path = t.path

NoSuchMethod(o) == \E route \in RouteTable(o) : route.guards = None

Refused(o) ==
    StacksWrong(o) \/ UnknownStack(o) \/ StackOnPublicRoute(o) \/ DuplicateRoute(o) \/ NoSuchMethod(o)
=============================================================================
