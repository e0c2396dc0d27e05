--------------------------- MODULE ContextsProofs ---------------------------
(***************************************************************************)
(* Proofs about HttpRequests and Contexts: requests are authenticated and  *)
(* keep their own identity, and a handler runs as the request or the job   *)
(* with which its chain of events began, for any router, any clients, and  *)
(* any number of requests, workers and events.                             *)
(***************************************************************************)
EXTENDS Contexts, SequenceTheorems, WellFoundedInduction, TLAPS

-----------------------------------------------------------------------------
(* Requests.                                                                *)

\* What the requests contribute: contexts with the identity of a token.
RequestInv ==
    /\ input \in [Requests -> Inputs \cup {None}]
    /\ DOMAIN route = Requests
    /\ DOMAIN attributes = Requests
    /\ contexts \in [Requests -> Seq(ExecutionContexts)]
    /\ \A r \in Requests :
        /\ route[r] # None => input[r] \in Inputs
        /\ attributes[r] = [stack |-> attributes[r].stack, token |-> attributes[r].token,
                            input |-> attributes[r].input]
        /\ attributes[r].token \in Tokens \cup {None}

LEMMA FirstOfTwo ==
    ASSUME NEW a, NEW b, b # None
    PROVE  FirstOf(<<a, b>>) = IF a # None THEN a ELSE b
<1> DEFINE I == {i \in 1 .. 2 : <<a, b>>[i] # None}
<1>1. 2 \in I OBVIOUS
<1>2. SelectInSeq(<<a, b>>, LAMBDA x : x # None) = Min(I)
  <2>1. Len(<<a, b>>) = 2 OBVIOUS
  <2> QED BY <1>1, <2>1 DEF SelectInSeq
<1>3. CASE a # None
  <2>1. 1 \in I /\ \A j \in I : 1 =< j BY <1>3
  <2>2. Min(I) \in I /\ \A j \in I : Min(I) =< j BY <2>1 DEF Min
  <2>3. Min(I) = 1 BY <2>1, <2>2
  <2> QED BY <1>2, <1>3, <2>3 DEF FirstOf
<1>4. CASE a = None
  <2>1. I = {2} BY <1>4
  <2>2. Min(I) \in I BY <2>1 DEF Min
  <2>3. Min(I) = 2 BY <2>1, <2>2
  <2> QED BY <1>2, <1>4, <2>3 DEF FirstOf
<1> QED BY <1>3, <1>4

LEMMA BaselineType ==
    ASSUME NEW r \in Requests, input[r] \in Inputs
    PROVE  Baseline(r) \in ExecutionContexts
<1>1. Baseline(r).correlation \in Correlations
  <2>1. r # None BY RequestsAssumption
  <2>2. FirstOf(<<Header(r, "correlation"), r>>) \in Correlations
        BY <2>1, FirstOfTwo DEF Header, Correlations
  <2> QED BY <2>2 DEF Baseline
<1> QED BY <1>1 DEF Baseline, ExecutionContexts, Actors

LEMMA InitContexts == Init => RequestInv
BY DEF Init, RequestInv, NoAttributes

LEMMA ThrowsStep ==
    ASSUME RequestInv, NEW r \in Requests, NEW category, Throws(r, category)
    PROVE  contexts' \in [Requests -> Seq(ExecutionContexts)] /\ UNCHANGED attributes
BY DEF Throws, Answered, RequestInv

\* A token is one that a client has sent.
LEMMA CredentialStep ==
    ASSUME RequestInv, NEW r \in Requests, Credential(r)
    PROVE  /\ DOMAIN attributes' = Requests
           /\ contexts' \in [Requests -> Seq(ExecutionContexts)]
           /\ \A q \in Requests :
                /\ attributes'[q] = [stack |-> attributes'[q].stack,
                        token |-> attributes'[q].token, input |-> attributes'[q].input]
                /\ attributes'[q].token \in Tokens \cup {None}
<1>1. input[r] \in Inputs BY DEF Credential, At, RequestInv
<1>2. CASE Throws(r, "Unauthorized")
      BY <1>2, ThrowsStep DEF RequestInv
<1>3. CASE /\ input[r].token # None
           /\ attributes' = [attributes EXCEPT ![r].token = input[r].token]
           /\ UNCHANGED contexts
  <2>1. input[r].token \in Tokens BY <1>1, <1>3 DEF Tokens
  <2>2. \A q \in Requests : attributes'[q] =
            IF q = r THEN [attributes[r] EXCEPT !.token = input[r].token] ELSE attributes[q]
        BY <1>3 DEF RequestInv
  <2>3. [attributes[r] EXCEPT !.token = input[r].token]
            = [stack |-> attributes[r].stack, token |-> input[r].token, input |-> attributes[r].input]
        BY DEF RequestInv
  <2>4. DOMAIN attributes' = Requests BY <1>3 DEF RequestInv
  <2> QED BY <1>3, <2>1, <2>2, <2>3, <2>4 DEF RequestInv
<1> QED BY <1>2, <1>3 DEF Credential

LEMMA NestedContext ==
    ASSUME RequestInv, NEW r \in Requests, NEW c \in ExecutionContexts, RunWithContext(r, c)
    PROVE  contexts' \in [Requests -> Seq(ExecutionContexts)]
BY DEF RequestInv, RunWithContext

LEMMA SessionStep ==
    ASSUME RequestInv, NEW r \in Requests, SessionLoad(r)
    PROVE  contexts' \in [Requests -> Seq(ExecutionContexts)] /\ UNCHANGED attributes
<1> DEFINE c == [Last(contexts[r]) EXCEPT !.actor = "user",
                    !.session = [user |-> Token(r).user, scope |-> Token(r).scope]]
<1>1. CASE Throws(r, "Unauthorized") \/ Throws(r, "Error")
      BY <1>1, ThrowsStep
<1>2. CASE /\ Token(r) # None /\ contexts[r] # <<>>
           /\ RunWithContext(r, c) /\ UNCHANGED attributes
  <2>1. Token(r) \in Tokens BY <1>2 DEF Token, RequestInv
  <2>2. [user |-> Token(r).user, scope |-> Token(r).scope] \in Sessions
        BY <2>1, NoneAssumption DEF Sessions, UserIds, ScopeIds
  <2>3. Last(contexts[r]) \in ExecutionContexts
        BY <1>2 DEF RequestInv, Last
  <2>4. c \in ExecutionContexts BY <2>2, <2>3 DEF ExecutionContexts, Actors
  <2> QED BY <1>2, <2>4, NestedContext
<1> QED BY <1>1, <1>2 DEF SessionLoad

LEMMA ValidateStep ==
    ASSUME RequestInv, NEW r \in Requests, Validate(r)
    PROVE  /\ DOMAIN attributes' = Requests
           /\ contexts' \in [Requests -> Seq(ExecutionContexts)]
           /\ \A q \in Requests :
                /\ attributes'[q] = [stack |-> attributes'[q].stack,
                        token |-> attributes'[q].token, input |-> attributes'[q].input]
                /\ attributes'[q].token \in Tokens \cup {None}
<1>1. CASE Throws(r, "Error") \/ Throws(r, "Validation")
      BY <1>1, ThrowsStep DEF RequestInv
<1>2. CASE /\ UNCHANGED contexts
           /\ \E v : attributes' = [attributes EXCEPT ![r].input = v]
  <2>1. PICK v : attributes' = [attributes EXCEPT ![r].input = v] BY <1>2
  <2>2. [attributes[r] EXCEPT !.input = v]
            = [stack |-> attributes[r].stack, token |-> attributes[r].token, input |-> v]
        BY DEF RequestInv
  <2>3. \A q \in Requests : attributes'[q] =
            IF q = r THEN [attributes[r] EXCEPT !.input = v] ELSE attributes[q]
        BY <2>1 DEF RequestInv
  <2>4. DOMAIN attributes' = Requests BY <2>1 DEF RequestInv
  <2> QED BY <1>2, <2>2, <2>3, <2>4 DEF RequestInv
<1> QED BY <1>1, <1>2 DEF Validate

LEMMA StampStep ==
    ASSUME RequestInv, NEW r \in Requests, Stamp(r)
    PROVE  /\ DOMAIN attributes' = Requests /\ UNCHANGED contexts
           /\ \A q \in Requests :
                /\ attributes'[q] = [stack |-> attributes'[q].stack,
                        token |-> attributes'[q].token, input |-> attributes'[q].input]
                /\ attributes'[q].token \in Tokens \cup {None}
<1>1. [attributes[r] EXCEPT !.stack = route[r].stack]
        = [stack |-> route[r].stack, token |-> attributes[r].token, input |-> attributes[r].input]
      BY DEF RequestInv
<1>2. \A q \in Requests : attributes'[q] =
        IF q = r THEN [attributes[r] EXCEPT !.stack = route[r].stack] ELSE attributes[q]
      BY DEF Stamp, RequestInv
<1>3. DOMAIN attributes' = Requests /\ UNCHANGED contexts BY DEF Stamp, RequestInv
<1> QED BY <1>1, <1>2, <1>3 DEF RequestInv

LEMMA AdvanceStep ==
    ASSUME RequestInv, NEW r \in Requests, Advance(r)
    PROVE  RequestInv'
<1>1. UNCHANGED <<input, route>> BY DEF Advance
<1>2. CASE UNCHANGED <<attributes, contexts>> BY <1>1, <1>2 DEF RequestInv
<1>3. ASSUME NEW status, Answered(r, status) PROVE RequestInv'
      BY <1>1, <1>3 DEF RequestInv, Answered
<1>4. CASE EstablishContext(r)
  <2>1. input[r] \in Inputs BY <1>4 DEF EstablishContext, At, RequestInv
  <2>2. contexts' \in [Requests -> Seq(ExecutionContexts)]
        BY <1>4, <2>1, BaselineType, NestedContext DEF EstablishContext
  <2>3. UNCHANGED attributes BY <1>4 DEF EstablishContext
  <2> QED BY <1>1, <2>2, <2>3 DEF RequestInv
<1>5. CASE Middleware(r) BY <1>2, <1>3, <1>5 DEF Middleware
<1>6. CASE Stamp(r) BY <1>1, <1>6, StampStep DEF RequestInv
<1>7. CASE Credential(r) BY <1>1, <1>7, CredentialStep DEF RequestInv
<1>8. CASE SessionLoad(r) BY <1>1, <1>8, SessionStep DEF RequestInv
<1>9. CASE Authorize(r) BY <1>2, <1>3, <1>9 DEF Authorize, Throws
<1>10. CASE Validate(r) BY <1>1, <1>10, ValidateStep DEF RequestInv
<1>11. CASE Handle(r) BY <1>3, <1>11 DEF Handle
<1> QED BY <1>4, <1>5, <1>6, <1>7, <1>8, <1>9, <1>10, <1>11 DEF Advance

LEMMA RequestStep ==
    ASSUME RequestInv, [Next]_vars
    PROVE  RequestInv' /\ UNCHANGED options
<1>1. CASE Build BY <1>1 DEF Build, RequestInv
<1>2. ASSUME NEW u \in Users, Revoke(u) PROVE RequestInv' /\ UNCHANGED options
      BY <1>2 DEF Revoke, RequestInv
<1>3. ASSUME NEW r \in Requests, Receive(r) PROVE RequestInv' /\ UNCHANGED options
  <2>1. PICK in \in Inputs :
            /\ input' = [input EXCEPT ![r] = in]
            /\ route' = route \/ \E first : route' = [route EXCEPT ![r] = first]
        BY <1>3 DEF Receive
  <2>2. \A q \in Requests : q # r => route'[q] = route[q]
        BY <2>1 DEF RequestInv
  <2>3. input' \in [Requests -> Inputs \cup {None}] /\ DOMAIN route' = Requests
        BY <2>1 DEF RequestInv
  <2>4. \A q \in Requests : route'[q] # None => input'[q] \in Inputs
        BY <2>1, <2>2 DEF RequestInv
  <2>5. UNCHANGED <<options, attributes, contexts>> BY <1>3 DEF Receive
  <2> QED BY <2>3, <2>4, <2>5 DEF RequestInv
<1>4. ASSUME NEW r \in Requests, Advance(r) PROVE RequestInv' /\ UNCHANGED options
      BY <1>4, AdvanceStep DEF Advance
<1>5. CASE UNCHANGED vars BY <1>5 DEF vars, RequestInv
<1> QED BY <1>1, <1>2, <1>3, <1>4, <1>5 DEF Next

-----------------------------------------------------------------------------
(* The steps of a route.                                                    *)

Less == {pair \in Nat \X Nat : pair[1] < pair[2]}

LEMMA Least ==
    ASSUME NEW S, S \subseteq Nat, S # {}
    PROVE  Min(S) \in S /\ \A x \in S : Min(S) =< x
<1>1. IsWellFoundedOn(Less, Nat) BY NatLessThanWellFounded DEF OpToRel, Less
<1>2. PICK x \in S : \A y \in S : <<y, x>> \notin Less BY <1>1, WFMin
<1>3. \A y \in S : ~(y < x) BY <1>2 DEF Less
<1>4. \A y \in S : x =< y BY <1>3
<1> QED BY <1>4 DEF Min

\* a ?? b ?? c is one of them.
LEMMA FirstOfAny ==
    ASSUME NEW S, NEW s \in Seq(S)
    PROVE  /\ FirstOf(s) = None \/ \E i \in DOMAIN s : FirstOf(s) = s[i]
           /\ (\E i \in DOMAIN s : s[i] # None) => FirstOf(s) # None
<1> DEFINE I == {i \in 1 .. Len(s) : s[i] # None}
<1>1. SelectInSeq(s, LAMBDA x : x # None) = IF I # {} THEN Min(I) ELSE 0
      BY DEF SelectInSeq
<1>2. I # {} => Min(I) \in I BY Least
<1>3. DOMAIN s = 1 .. Len(s) /\ 0 \notin I OBVIOUS
<1>4. CASE I = {}
  <2>1. FirstOf(s) = None BY <1>1, <1>4 DEF FirstOf
  <2> QED BY <1>3, <1>4, <2>1
<1>5. CASE I # {}
  <2>1. FirstOf(s) = s[Min(I)] BY <1>1, <1>2, <1>3, <1>5 DEF FirstOf
  <2> QED BY <1>2, <1>3, <1>5, <2>1
<1> QED BY <1>4, <1>5

LEMMA Concatenation ==
    ASSUME NEW S, NEW s \in Seq(S), NEW t \in Seq(S)
    PROVE  /\ s \o t \in Seq(S) /\ Len(s \o t) = Len(s) + Len(t)
           /\ \A k \in 1 .. Len(s) : (s \o t)[k] = s[k]
           /\ \A k \in Len(s) + 1 .. Len(s) + Len(t) : (s \o t)[k] = t[k - Len(s)]
OBVIOUS

AllKinds == {"context", "global", "stamp", "credential", "session", "middleware", "authorize",
             "validate", "method"}

\* What runs before the auth stack.
Prefix(o) == (IF o.context THEN <<"context">> ELSE <<>>) \o o.globals

LoadsSession(o, t) == ~t.public /\ t.stack # None /\ o.stacks[t.stack].sessionLoad

\* The steps of route t under options o: where each kind of step is.
StepOrder(o, t) ==
    LET n == Len(Prefix(o))
        auth == Len(AuthChain(o, t.stack))
        steps == StepsOf(t)
    IN  /\ n \in Nat /\ auth \in Nat /\ Len(steps) \in Nat /\ n + auth < Len(steps)
        /\ o.context => n >= 1
        /\ t.stack \in Declared(o) => auth = IF o.stacks[t.stack].sessionLoad THEN 3 ELSE 2
        /\ \A k \in 1 .. Len(steps) :
            /\ steps[k] \in AllKinds
            /\ steps[k] = "context" <=> k = 1 /\ o.context
            /\ steps[k] = "stamp" <=> k = n + 1 /\ t.stack \in Declared(o)
            /\ steps[k] = "credential" <=> k = n + 2 /\ t.stack \in Declared(o)
            /\ steps[k] = "session" <=>
                k = n + 3 /\ t.stack \in Declared(o) /\ o.stacks[t.stack].sessionLoad
            /\ steps[k] \in {"middleware", "authorize", "validate", "method"} <=> k > n + auth
            /\ steps[k] = "method" <=> k = Len(steps)
            /\ steps[k] \in {"authorize", "validate"} =>
                /\ k - Len(t.chain) \in DOMAIN t.guards
                /\ t.guards[k - Len(t.chain)].kind = steps[k]

\* The guards of a method are those that the application declared.
LEMMA MethodGuards ==
    ASSUME NEW o \in RouterOptions, NEW place \in Places(o), RouteOf(o, place).guards # None
    PROVE  Kinds(RouteOf(o, place).guards) \in Seq({"authorize", "validate"})
<1> DEFINE reg == Registration(o, place)
           name == Definition(o, place).name
           controller == reg.controller
           f == [i \in DOMAIN controller |->
                    IF name \in DOMAIN controller[i].methods THEN controller[i].methods[name]
                    ELSE None]
<1>1. RouteOf(o, place).guards = FirstOf(f) BY DEF RouteOf, Method
<1>2. place[1] \in DOMAIN o.registrations BY DEF Places
<1>3. /\ controller \in Seq({controller[j] : j \in DOMAIN controller})
      /\ \A j \in DOMAIN controller : \A m \in DOMAIN controller[j].methods :
            Kinds(controller[j].methods[m]) \in Seq({"authorize", "validate"})
      BY <1>2, OptionsAssumption DEF Registration
<1>4. f \in Seq({f[j] : j \in DOMAIN controller})
  <2>1. DOMAIN controller = 1 .. Len(controller) /\ Len(controller) \in Nat BY <1>3
  <2> QED BY <2>1
<1>5. PICK i \in DOMAIN f : FirstOf(f) = f[i] BY <1>1, <1>4, FirstOfAny
<1> QED BY <1>1, <1>3, <1>5

LEMMA AuthChainSteps ==
    ASSUME NEW o, NEW stack
    PROVE  LET auth == AuthChain(o, stack) IN
           /\ auth \in Seq({"stamp", "credential", "session"})
           /\ stack \notin Declared(o) => Len(auth) = 0
           /\ stack \in Declared(o) =>
                Len(auth) = (IF o.stacks[stack].sessionLoad THEN 3 ELSE 2)
                /\ auth[1] = "stamp" /\ auth[2] = "credential"
           /\ stack \in Declared(o) /\ o.stacks[stack].sessionLoad => auth[3] = "session"
<1>1. CASE stack \notin Declared(o) BY <1>1 DEF AuthChain
<1>2. CASE stack \in Declared(o) /\ o.stacks[stack].sessionLoad
  <2> DEFINE S == {"stamp", "credential", "session"}
  <2>1. AuthChain(o, stack) = <<"stamp", "credential">> \o <<"session">> BY <1>2 DEF AuthChain
  <2>2. /\ <<"stamp", "credential">> \in Seq(S) /\ <<"session">> \in Seq(S)
        /\ Len(<<"stamp", "credential">>) = 2 /\ Len(<<"session">>) = 1
        OBVIOUS
  <2> HIDE DEF S
  <2>3. /\ AuthChain(o, stack) \in Seq(S) /\ Len(AuthChain(o, stack)) = 3
        /\ \A k \in 1 .. 2 : AuthChain(o, stack)[k] = <<"stamp", "credential">>[k]
        /\ \A k \in 3 .. 3 : AuthChain(o, stack)[k] = <<"session">>[k - 2]
        BY <2>1, <2>2, Concatenation
  <2> QED BY <1>2, <2>3 DEF S
<1>3. CASE stack \in Declared(o) /\ ~o.stacks[stack].sessionLoad
  <2>1. AuthChain(o, stack) = <<"stamp", "credential">> \o <<>> BY <1>3 DEF AuthChain
  <2>2. AuthChain(o, stack) = <<"stamp", "credential">> BY <2>1
  <2> QED BY <1>3, <2>2
<1> QED BY <1>1, <1>2, <1>3

LEMMA PrefixSteps ==
    ASSUME NEW o \in RouterOptions
    PROVE  LET p == Prefix(o) IN
           /\ p \in Seq({"context", "global"})
           /\ o.context => Len(p) >= 1
           /\ \A k \in 1 .. Len(p) : p[k] = "context" <=> k = 1 /\ o.context
<1> DEFINE S == {"context", "global"}
           globals == o.globals
<1>1. globals \in Seq(S) /\ \A k \in 1 .. Len(globals) : globals[k] = "global"
  <2>1. globals \in Seq({"global"}) BY OptionsAssumption
  <2> QED BY <2>1
<1>2. CASE ~o.context
  <2>1. Prefix(o) = <<>> \o globals BY <1>2 DEF Prefix
  <2>2. Prefix(o) = globals BY <1>1, <2>1
  <2> QED BY <1>1, <1>2, <2>2
<1>3. CASE o.context
  <2> DEFINE c == <<"context">>
  <2>1. Prefix(o) = c \o globals BY <1>3 DEF Prefix
  <2>2. c \in Seq(S) /\ Len(c) = 1 /\ c[1] = "context" OBVIOUS
  <2> HIDE DEF c, globals, S
  <2>3. Len(globals) \in Nat BY <1>1
  <2>4. c \in Seq(S) /\ globals \in Seq(S) BY <1>1, <2>2
  <2>5. /\ Prefix(o) \in Seq(S) /\ Len(Prefix(o)) = Len(c) + Len(globals)
        /\ \A k \in 1 .. Len(c) : Prefix(o)[k] = c[k]
        /\ \A k \in Len(c) + 1 .. Len(c) + Len(globals) : Prefix(o)[k] = globals[k - Len(c)]
        BY <2>1, <2>4
  <2>6. ASSUME NEW k \in 1 .. Len(Prefix(o))
        PROVE  Prefix(o)[k] = "context" <=> k = 1
    <3>1. CASE k = 1 BY <2>2, <2>5, <3>1
    <3>2. CASE k # 1
      <4>1. k \in 2 .. 1 + Len(globals) /\ k - 1 \in 1 .. Len(globals)
            BY <2>2, <2>3, <2>5, <3>2
      <4>2. Prefix(o)[k] = globals[k - 1] BY <2>2, <2>5, <4>1
      <4> QED BY <1>1, <3>2, <4>1, <4>2
    <3> QED BY <3>1, <3>2
  <2>7. Len(Prefix(o)) >= 1 BY <2>2, <2>3, <2>5
  <2> QED BY <1>3, <2>5, <2>6, <2>7 DEF S
<1> QED BY <1>2, <1>3

LEMMA Extension ==
    ASSUME NEW S, NEW s \in Seq(S), NEW e \in S
    PROVE  /\ s \o <<e>> \in Seq(S) /\ Len(s \o <<e>>) = Len(s) + 1
           /\ \A k \in 1 .. Len(s) : (s \o <<e>>)[k] = s[k]
           /\ (s \o <<e>>)[Len(s) + 1] = e
<1>1. <<e>> \in Seq(S) /\ Len(<<e>>) = 1 /\ <<e>>[1] = e OBVIOUS
<1>2. s \o <<e>> \in Seq(S) /\ Len(s \o <<e>>) = Len(s) + 1 OBVIOUS
<1>3. \A k \in 1 .. Len(s) : (s \o <<e>>)[k] = s[k] OBVIOUS
<1>4. (s \o <<e>>)[Len(s) + 1] = e OBVIOUS
<1> QED BY <1>2, <1>3, <1>4

\* Where the parts of a concatenation are.
Located(p, a, m, g, e, chain, steps) ==
    /\ Len(chain) = Len(p) + Len(a) + Len(m)
    /\ Len(steps) = Len(chain) + Len(g) + 1
    /\ \A k \in 1 .. Len(p) : steps[k] = p[k]
    /\ \A k \in Len(p) + 1 .. Len(p) + Len(a) : steps[k] = a[k - Len(p)]
    /\ \A k \in Len(p) + Len(a) + 1 .. Len(chain) : steps[k] = m[k - Len(p) - Len(a)]
    /\ \A k \in Len(chain) + 1 .. Len(chain) + Len(g) : steps[k] = g[k - Len(chain)]
    /\ steps[Len(steps)] = e

LEMMA FiveParts ==
    ASSUME NEW S, NEW p \in Seq(S), NEW a \in Seq(S), NEW m \in Seq(S), NEW g \in Seq(S),
           NEW e \in S
    PROVE  Located(p, a, m, g, e, p \o a \o m, p \o a \o m \o g \o <<e>>)
<1> DEFINE pa == p \o a
           chain == p \o a \o m
           cg == chain \o g
           steps == chain \o g \o <<e>>
<1>1. /\ pa \in Seq(S) /\ Len(pa) = Len(p) + Len(a)
      /\ \A k \in 1 .. Len(p) : pa[k] = p[k]
      /\ \A k \in Len(p) + 1 .. Len(p) + Len(a) : pa[k] = a[k - Len(p)]
      BY Concatenation
<1>2. chain = pa \o m OBVIOUS
<1>3. cg = chain \o g OBVIOUS
<1>4. steps = cg \o <<e>> OBVIOUS
<1> HIDE DEF pa, cg, chain, steps
<1>5. pa \in Seq(S) BY <1>1
<1>6. /\ chain \in Seq(S) /\ Len(chain) = Len(pa) + Len(m)
      /\ \A k \in 1 .. Len(pa) : chain[k] = pa[k]
      /\ \A k \in Len(pa) + 1 .. Len(pa) + Len(m) : chain[k] = m[k - Len(pa)]
      BY <1>5, <1>2
<1>7. chain \in Seq(S) BY <1>6
<1>8. /\ cg \in Seq(S) /\ Len(cg) = Len(chain) + Len(g)
      /\ \A k \in 1 .. Len(chain) : cg[k] = chain[k]
      /\ \A k \in Len(chain) + 1 .. Len(chain) + Len(g) : cg[k] = g[k - Len(chain)]
      BY <1>7, <1>3
<1>9. cg \in Seq(S) BY <1>8
<1>10. /\ steps \in Seq(S) /\ Len(steps) = Len(cg) + 1
       /\ \A k \in 1 .. Len(cg) : steps[k] = cg[k]
       /\ steps[Len(steps)] = e
  <2>1. /\ cg \o <<e>> \in Seq(S) /\ Len(cg \o <<e>>) = Len(cg) + 1
        /\ \A k \in 1 .. Len(cg) : (cg \o <<e>>)[k] = cg[k]
        /\ (cg \o <<e>>)[Len(cg) + 1] = e
        BY <1>9, Extension, Zenon
  <2>2. steps = cg \o <<e>> BY <1>4
  <2> QED BY <2>1, <2>2, Zenon
<1>11. /\ Len(pa) = Len(p) + Len(a) /\ Len(chain) = Len(pa) + Len(m)
       /\ Len(cg) = Len(chain) + Len(g)
       BY <1>1, <1>6, <1>8
<1>l. Len(p) \in Nat /\ Len(a) \in Nat /\ Len(m) \in Nat /\ Len(g) \in Nat OBVIOUS
<1>12. /\ \A k \in 1 .. Len(p) : steps[k] = p[k]
       /\ \A k \in Len(p) + 1 .. Len(p) + Len(a) : steps[k] = a[k - Len(p)]
  <2>1. ASSUME NEW k \in 1 .. Len(p) + Len(a) PROVE steps[k] = pa[k]
    <3>1. k \in 1 .. Len(pa) /\ k \in 1 .. Len(chain) /\ k \in 1 .. Len(cg)
          BY <1>11, <1>l
    <3>2. steps[k] = cg[k] BY <1>10, <3>1
    <3>3. cg[k] = chain[k] BY <1>8, <3>1
    <3>4. chain[k] = pa[k] BY <1>6, <3>1
    <3> QED BY <3>2, <3>3, <3>4
  <2>2. ASSUME NEW k \in 1 .. Len(p) PROVE steps[k] = p[k]
    <3>1. k \in 1 .. Len(p) + Len(a) BY <1>l
    <3> QED BY <1>1, <2>1, <3>1
  <2>3. ASSUME NEW k \in Len(p) + 1 .. Len(p) + Len(a) PROVE steps[k] = a[k - Len(p)]
    <3>1. k \in 1 .. Len(p) + Len(a) BY <1>l
    <3> QED BY <1>1, <2>1, <3>1
  <2> QED BY <2>2, <2>3
<1>13. \A k \in Len(p) + Len(a) + 1 .. Len(chain) : steps[k] = m[k - Len(p) - Len(a)]
  <2>1. TAKE k \in Len(p) + Len(a) + 1 .. Len(chain)
  <2>2. k \in Len(pa) + 1 .. Len(pa) + Len(m) /\ k \in 1 .. Len(chain) /\ k \in 1 .. Len(cg)
        BY <1>11, <1>l
  <2>3. k - Len(pa) = k - Len(p) - Len(a) BY <1>11, <1>l
  <2>4. steps[k] = cg[k] BY <1>10, <2>2
  <2>5. cg[k] = chain[k] BY <1>8, <2>2
  <2>6. chain[k] = m[k - Len(pa)] BY <1>6, <2>2
  <2> QED BY <2>3, <2>4, <2>5, <2>6
<1>14. \A k \in Len(chain) + 1 .. Len(chain) + Len(g) : steps[k] = g[k - Len(chain)]
  <2>1. TAKE k \in Len(chain) + 1 .. Len(chain) + Len(g)
  <2>2. k \in 1 .. Len(cg) BY <1>11, <1>l
  <2>3. steps[k] = cg[k] BY <1>10, <2>2
  <2> QED BY <1>8, <2>3
<1>15. Len(chain) = Len(p) + Len(a) + Len(m) /\ Len(steps) = Len(chain) + Len(g) + 1
  <2>1. Len(steps) = Len(cg) + 1 BY <1>10
  <2> QED BY <1>11, <1>l, <2>1
<1>16. Located(p, a, m, g, e, chain, steps)
       BY <1>10, <1>12, <1>13, <1>14, <1>15, Zenon DEF Located
<1> QED BY <1>16 DEF chain, steps

\* What the constructor makes sure of.
LEMMA RouteShape ==
    ASSUME NEW o \in RouterOptions, ~Refused(o), NEW place \in Places(o),
           NEW t, t = RouteOf(o, place)
    PROVE  /\ t.chain = Prefix(o) \o AuthChain(o, t.stack) \o Registration(o, place).middlewares
           /\ Kinds(t.guards) \in Seq({"authorize", "validate"})
           /\ t.stack \in Declared(o) \cup {None}
           /\ t.public => t.stack = None
           /\ ~t.public /\ Declared(o) # {} => t.stack \in Declared(o)
<1> DEFINE reg == Registration(o, place)
           def == Definition(o, place)
<1>1. t \in RouteTable(o) BY DEF RouteTable
<1>2. t.stack = ResolvedStack(o, reg, def) /\ t.public = def.public
      /\ t.chain = Chain(o, reg, t.stack)
      BY DEF RouteOf
<1>3. t.stack \in Declared(o) \cup {None} BY <1>1 DEF Refused, UnknownStack
<1>4. Kinds(t.guards) \in Seq({"authorize", "validate"})
      BY <1>1, MethodGuards DEF Refused, NoSuchMethod
<1>5. t.public => t.stack = None BY <1>2 DEF ResolvedStack
<1>6. ASSUME ~t.public, Declared(o) # {} PROVE t.stack # None
  <2> DEFINE s == <<def.stack, Inherited(reg.controller, "stack"), reg.moduleStack, o.default>>
  <2>1. t.stack = FirstOf(s) BY <1>2, <1>6 DEF ResolvedStack
  <2>2. s \in Seq({def.stack, Inherited(reg.controller, "stack"), reg.moduleStack, o.default})
        /\ 4 \in DOMAIN s /\ s[4] = o.default
        OBVIOUS
  <2>3. o.default # None BY <1>6 DEF Refused, StacksWrong
  <2> HIDE DEF s
  <2> QED BY <2>1, <2>2, <2>3, FirstOfAny
<1> QED BY <1>2, <1>3, <1>4, <1>5, <1>6 DEF Chain, Prefix

LEMMA RouteSteps ==
    ASSUME NEW o \in RouterOptions, ~Refused(o), NEW t \in RouteTable(o)
    PROVE  StepOrder(o, t)
<1>1. PICK place \in Places(o) : t = RouteOf(o, place) BY DEF RouteTable
<1>2. PICK m : m = Registration(o, place).middlewares OBVIOUS
<1>3. PICK p : p = Prefix(o) OBVIOUS
<1>4. PICK a : a = AuthChain(o, t.stack) OBVIOUS
<1>5. PICK g : g = Kinds(t.guards) OBVIOUS
<1>6. PICK chain : chain = t.chain OBVIOUS
<1>7. PICK steps : steps = StepsOf(t) OBVIOUS
<1>8. chain = p \o a \o m BY <1>1, <1>2, <1>3, <1>4, <1>6, RouteShape
<1>9. steps = chain \o g \o <<"method">> BY <1>5, <1>6, <1>7 DEF StepsOf
<1>10. /\ p \in Seq({"context", "global"}) /\ (o.context => Len(p) >= 1)
       /\ \A k \in 1 .. Len(p) : p[k] = "context" <=> k = 1 /\ o.context
       BY <1>3, PrefixSteps
<1>11. /\ a \in Seq({"stamp", "credential", "session"})
       /\ t.stack \notin Declared(o) => Len(a) = 0
       /\ t.stack \in Declared(o) =>
            Len(a) = (IF o.stacks[t.stack].sessionLoad THEN 3 ELSE 2)
            /\ a[1] = "stamp" /\ a[2] = "credential"
       /\ t.stack \in Declared(o) /\ o.stacks[t.stack].sessionLoad => a[3] = "session"
       BY <1>4, AuthChainSteps, Zenon
<1>12. m \in Seq({"middleware"})
  <2>1. place[1] \in DOMAIN o.registrations BY DEF Places
  <2>2. o.registrations[place[1]].middlewares \in Seq({"middleware"})
        BY <2>1, OptionsAssumption
  <2> QED BY <1>2, <2>2 DEF Registration
<1>13. g \in Seq({"authorize", "validate"})
       BY <1>1, <1>5, RouteShape
<1>14. DOMAIN t.guards = 1 .. Len(g) /\ \A i \in 1 .. Len(g) : t.guards[i].kind = g[i]
       BY <1>5, <1>13 DEF Kinds
<1> DEFINE n == Len(p)
           auth == Len(a)
           Right(k) ==
            /\ steps[k] \in AllKinds
            /\ steps[k] = "context" <=> k = 1 /\ o.context
            /\ steps[k] = "stamp" <=> k = n + 1 /\ t.stack \in Declared(o)
            /\ steps[k] = "credential" <=> k = n + 2 /\ t.stack \in Declared(o)
            /\ steps[k] = "session" <=>
                k = n + 3 /\ t.stack \in Declared(o) /\ o.stacks[t.stack].sessionLoad
            /\ steps[k] \in {"middleware", "authorize", "validate", "method"} <=> k > n + auth
            /\ steps[k] = "method" <=> k = Len(steps)
            /\ steps[k] \in {"authorize", "validate"} =>
                /\ k - Len(chain) \in DOMAIN t.guards
                /\ t.guards[k - Len(chain)].kind = steps[k]
<1>15. /\ p \in Seq(AllKinds) /\ a \in Seq(AllKinds) /\ m \in Seq(AllKinds)
       /\ g \in Seq(AllKinds) /\ "method" \in AllKinds
       BY <1>10, <1>11, <1>12, <1>13 DEF AllKinds
<1>16. /\ Len(chain) = Len(p) + Len(a) + Len(m)
       /\ Len(steps) = Len(chain) + Len(g) + 1
       /\ \A k \in 1 .. Len(p) : steps[k] = p[k]
       /\ \A k \in Len(p) + 1 .. Len(p) + Len(a) : steps[k] = a[k - Len(p)]
       /\ \A k \in Len(p) + Len(a) + 1 .. Len(chain) : steps[k] = m[k - Len(p) - Len(a)]
       /\ \A k \in Len(chain) + 1 .. Len(chain) + Len(g) : steps[k] = g[k - Len(chain)]
       /\ steps[Len(steps)] = "method"
  <2>1. Located(p, a, m, g, "method", p \o a \o m, p \o a \o m \o g \o <<"method">>)
        BY <1>15, FiveParts, Zenon
  <2>2. Located(p, a, m, g, "method", chain, steps) BY <1>8, <1>9, <2>1, Zenon
  <2> QED BY <2>2 DEF Located
<1>17. Len(p) \in Nat /\ Len(a) \in Nat /\ Len(m) \in Nat /\ Len(g) \in Nat BY <1>15
<1>18. ASSUME NEW k \in 1 .. Len(steps) PROVE Right(k)
  <2>1. CASE k \in 1 .. Len(p)
    <3>1. steps[k] = p[k] /\ p[k] \in {"context", "global"} BY <1>10, <1>16, <2>1
    <3>2. steps[k] = "context" <=> k = 1 /\ o.context BY <1>10, <3>1, <2>1
    <3>3. k < Len(steps) /\ k =< n BY <1>16, <1>17, <2>1
    <3> QED BY <1>17, <3>1, <3>2, <3>3 DEF AllKinds
  <2>2. CASE k \in Len(p) + 1 .. Len(p) + Len(a)
    <3>1. t.stack \in Declared(o) BY <1>11, <1>17, <2>2
    <3>2. steps[k] = a[k - Len(p)] BY <1>16, <2>2
    <3>3. k < Len(steps) /\ k > n /\ k =< n + auth BY <1>16, <1>17, <2>2
    <3>4. k = 1 => ~o.context BY <1>10, <1>17, <3>3
    <3>5. CASE k = n + 1
          BY <1>11, <1>17, <3>1, <3>2, <3>3, <3>4, <3>5 DEF AllKinds
    <3>6. CASE k = n + 2
          BY <1>11, <1>17, <3>1, <3>2, <3>3, <3>4, <3>6 DEF AllKinds
    <3>7. CASE k = n + 3 /\ o.stacks[t.stack].sessionLoad
          BY <1>11, <1>17, <3>1, <3>2, <3>3, <3>4, <3>7 DEF AllKinds
    <3>8. auth = 2 \/ (auth = 3 /\ o.stacks[t.stack].sessionLoad) BY <1>11, <3>1
    <3>9. k = n + 1 \/ k = n + 2 \/ (k = n + 3 /\ o.stacks[t.stack].sessionLoad)
      <4>1. CASE auth = 2 BY <1>17, <2>2, <4>1
      <4>2. CASE auth = 3 BY <1>17, <2>2, <3>8, <4>2
      <4> QED BY <3>8, <4>1, <4>2
    <3> QED BY <3>5, <3>6, <3>7, <3>9
  <2>3. CASE k \in Len(p) + Len(a) + 1 .. Len(chain)
    <3>1. k - Len(p) - Len(a) \in 1 .. Len(m) BY <1>16, <1>17, <2>3
    <3>2. steps[k] = "middleware" BY <1>12, <1>16, <2>3, <3>1
    <3>3. k < Len(steps) /\ k > n + auth BY <1>16, <1>17, <2>3
    <3>4. k = 1 => ~o.context BY <1>10, <1>17, <3>3
    <3>5. t.stack \in Declared(o) => k > n + 2
          /\ (o.stacks[t.stack].sessionLoad => k > n + 3)
          BY <1>11, <1>17, <3>3
    <3> QED BY <1>17, <3>2, <3>3, <3>4, <3>5 DEF AllKinds
  <2>4. CASE k \in Len(chain) + 1 .. Len(chain) + Len(g)
    <3>1. k - Len(chain) \in 1 .. Len(g) BY <1>16, <1>17, <2>4
    <3>2. steps[k] = g[k - Len(chain)] BY <1>16, <2>4
    <3>3. steps[k] \in {"authorize", "validate"} BY <1>13, <3>1, <3>2
    <3>4. k < Len(steps) /\ k > n + auth BY <1>16, <1>17, <2>4
    <3>5. k = 1 => ~o.context BY <1>10, <1>17, <3>4
    <3>6. t.stack \in Declared(o) => k > n + 2
          /\ (o.stacks[t.stack].sessionLoad => k > n + 3)
          BY <1>11, <1>17, <3>4
    <3>7. k - Len(chain) \in DOMAIN t.guards /\ t.guards[k - Len(chain)].kind = steps[k]
          BY <1>14, <3>1, <3>2
    <3> QED BY <1>17, <3>3, <3>4, <3>5, <3>6, <3>7 DEF AllKinds
  <2>5. CASE k = Len(steps)
    <3>1. steps[k] = "method" BY <1>16, <2>5
    <3>2. k > n + auth BY <1>16, <1>17, <2>5
    <3>3. k = 1 => ~o.context BY <1>10, <1>17, <3>2
    <3>4. t.stack \in Declared(o) => k > n + 2
          /\ (o.stacks[t.stack].sessionLoad => k > n + 3)
          BY <1>11, <1>17, <3>2
    <3> QED BY <1>17, <2>5, <3>1, <3>2, <3>3, <3>4 DEF AllKinds
  <2>6. \/ k \in 1 .. Len(p) \/ k \in Len(p) + 1 .. Len(p) + Len(a)
        \/ k \in Len(p) + Len(a) + 1 .. Len(chain)
        \/ k \in Len(chain) + 1 .. Len(chain) + Len(g) \/ k = Len(steps)
    <3>1. Len(chain) = Len(p) + Len(a) + Len(m) /\ Len(steps) = Len(chain) + Len(g) + 1
          BY <1>16
    <3> QED BY <1>17, <3>1
  <2> HIDE DEF Right
  <2> QED BY <2>1, <2>2, <2>3, <2>4, <2>5, <2>6
<1>19. /\ n \in Nat /\ auth \in Nat /\ Len(steps) \in Nat /\ n + auth < Len(steps)
       /\ o.context => n >= 1
       /\ t.stack \in Declared(o) => auth = IF o.stacks[t.stack].sessionLoad THEN 3 ELSE 2
       BY <1>10, <1>11, <1>16, <1>17
<1> QED BY <1>3, <1>4, <1>6, <1>7, <1>18, <1>19 DEF StepOrder

-----------------------------------------------------------------------------
(* Authentication.                                                          *)

\* What the identity of a request is.
Correlation(r, in) ==
    FirstOf(<<IF "correlation" \in DOMAIN in.headers THEN in.headers["correlation"] ELSE None, r>>)
Identity(in) == [user |-> in.token.user, scope |-> in.token.scope]
SessionField(key) == IF key = "userId" THEN "user" ELSE "scope"

\* The context of request r, in, which is at step k of route t under options o.
Nested(o, r, in, t, k, ctx) ==
    /\ ctx # <<>> <=> o.context /\ k > 1
    /\ ctx # <<>> =>
        /\ Last(ctx).correlation = Correlation(r, in)
        /\ LoadsSession(o, t) /\ k > Len(Prefix(o)) + 3 => Last(ctx).session = Identity(in)
        /\ ~(LoadsSession(o, t) /\ k > Len(Prefix(o)) + 3) => Last(ctx).session = None

\* What is verified of it by then; the sessions were as in then when it was received.
Verified(o, in, t, k, then, stack, token) ==
    t.stack \in Declared(o) =>
        /\ k > Len(Prefix(o)) + 1 => stack = t.stack
        /\ k > Len(Prefix(o)) + 2 =>
            in.token # None /\ in.token.stack = t.stack /\ token = in.token
        /\ LoadsSession(o, t) /\ k > Len(Prefix(o)) + 3 =>
            then[in.token.user] = in.token.stamp

\* Its validated fields.
Filled(o, in, t, k, fields) ==
    /\ fields # None => k > Len(Prefix(o)) + Len(AuthChain(o, t.stack))
    /\ LoadsSession(o, t) /\ fields # None /\ Described(o, t) =>
        \A key \in (DOMAIN fields \cap {"userId", "scopeId"}) \ FromHeaders(t) :
            fields[key] = Identity(in)[SessionField(key)]

Reached(o, r, in, t, k, then, attr, ctx) ==
    /\ k \in 1 .. Len(StepsOf(t))
    /\ Nested(o, r, in, t, k, ctx)
    /\ Verified(o, in, t, k, then, attr.stack, attr.token)
    /\ Filled(o, in, t, k, attr.input)

\* A session that is as it was in the beginning was so when a request was received.
AuthInv ==
    /\ options \in RouterOptions
    /\ table # None => table = RouteTable(options) /\ ~Refused(options)
    /\ DOMAIN sessions = Users /\ DOMAIN step = Requests
    /\ DOMAIN asOf = Requests /\ DOMAIN answer = Requests
    /\ \A r \in Requests :
        /\ input[r] = None => route[r] = None /\ attributes[r] = NoAttributes /\ contexts[r] = <<>>
        /\ input[r] # None => \A u \in Users : sessions[u] = 1 => asOf[r][u] = 1
        /\ route[r] # None => route[r] \in RouteTable(options) /\ ~Refused(options)
        /\ route[r] # None /\ answer[r] = None =>
            Reached(options, r, input[r], route[r], step[r], asOf[r], attributes[r], contexts[r])

LEMMA SessionRoutes ==
    ASSUME NEW o \in RouterOptions, ~Refused(o), NEW t \in RouteTable(o)
    PROVE  /\ LoadsSession(o, t) <=> t.stack \in Declared(o) /\ o.stacks[t.stack].sessionLoad
           /\ t.public => t.stack \notin Declared(o)
           /\ ~t.public /\ Declared(o) # {} => t.stack \in Declared(o)
<1>1. PICK place \in Places(o) : t = RouteOf(o, place) BY DEF RouteTable
<1>2. /\ t.stack \in Declared(o) \cup {None}
      /\ t.public => t.stack = None
      /\ ~t.public /\ Declared(o) # {} => t.stack \in Declared(o)
      BY <1>1, RouteShape
<1>3. None \notin Declared(o) BY OptionsAssumption
<1>4. t.stack # None <=> t.stack \in Declared(o) BY <1>2, <1>3
<1>5. LoadsSession(o, t) <=> t.stack \in Declared(o) /\ o.stacks[t.stack].sessionLoad
      BY <1>2, <1>4, Zenon DEF LoadsSession
<1> QED BY <1>2, <1>4, <1>5, Zenon

\* What the request has reached stays so until the step that changes it.
LEMMA NestedLater ==
    ASSUME NEW o, NEW r, NEW in, NEW t, NEW k \in 1 .. Len(StepsOf(t)), NEW ctx,
           StepOrder(o, t),
           LoadsSession(o, t) => t.stack \in Declared(o) /\ o.stacks[t.stack].sessionLoad,
           StepsOf(t)[k] \notin {"context", "session"}, Nested(o, r, in, t, k, ctx)
    PROVE  Nested(o, r, in, t, k + 1, ctx)
<1>1. Len(Prefix(o)) \in Nat /\ k \in Nat /\ k >= 1 BY DEF StepOrder
<1>2. o.context => k # 1 BY DEF StepOrder
<1>3. o.context /\ k > 1 <=> o.context /\ k + 1 > 1 BY <1>1, <1>2
<1>4. LoadsSession(o, t) => k # Len(Prefix(o)) + 3 BY DEF StepOrder
<1>5. LoadsSession(o, t) /\ k > Len(Prefix(o)) + 3
        <=> LoadsSession(o, t) /\ k + 1 > Len(Prefix(o)) + 3
      BY <1>1, <1>4
<1> QED BY <1>3, <1>5 DEF Nested

LEMMA VerifiedLater ==
    ASSUME NEW o, NEW in, NEW t, NEW k \in 1 .. Len(StepsOf(t)), NEW then, NEW stack, NEW token,
           StepOrder(o, t),
           LoadsSession(o, t) => t.stack \in Declared(o) /\ o.stacks[t.stack].sessionLoad,
           StepsOf(t)[k] \notin {"stamp", "credential", "session"},
           Verified(o, in, t, k, then, stack, token)
    PROVE  Verified(o, in, t, k + 1, then, stack, token)
<1>1. Len(Prefix(o)) \in Nat /\ k \in Nat BY DEF StepOrder
<1>2. SUFFICES ASSUME t.stack \in Declared(o)
               PROVE  Verified(o, in, t, k + 1, then, stack, token)
      BY DEF Verified
<1>3. k # Len(Prefix(o)) + 1 /\ k # Len(Prefix(o)) + 2 BY <1>2 DEF StepOrder
<1>4. LoadsSession(o, t) => k # Len(Prefix(o)) + 3 BY DEF StepOrder
<1>5. /\ k + 1 > Len(Prefix(o)) + 1 => k > Len(Prefix(o)) + 1
      /\ k + 1 > Len(Prefix(o)) + 2 => k > Len(Prefix(o)) + 2
      /\ LoadsSession(o, t) /\ k + 1 > Len(Prefix(o)) + 3 => k > Len(Prefix(o)) + 3
      BY <1>1, <1>3, <1>4
<1> QED BY <1>2, <1>5 DEF Verified

LEMMA FilledLater ==
    ASSUME NEW o, NEW in, NEW t, NEW k \in Nat, NEW fields, StepOrder(o, t),
           Filled(o, in, t, k, fields)
    PROVE  Filled(o, in, t, k + 1, fields)
<1>1. Len(Prefix(o)) \in Nat /\ Len(AuthChain(o, t.stack)) \in Nat BY DEF StepOrder
<1> QED BY <1>1 DEF Filled

\* Where a request is.
LEMMA Here ==
    ASSUME AuthInv, RequestInv, NEW r \in Requests, NEW kinds, At(r, kinds)
    PROVE  /\ input[r] \in Inputs /\ answer[r] = None
           /\ options \in RouterOptions /\ ~Refused(options)
           /\ route[r] \in RouteTable(options)
           /\ StepOrder(options, route[r])
           /\ LoadsSession(options, route[r]) <=>
                /\ route[r].stack \in Declared(options)
                /\ options.stacks[route[r].stack].sessionLoad
           /\ step[r] \in 1 .. Len(StepsOf(route[r]))
           /\ StepsOf(route[r])[step[r]] \in kinds
           /\ Nested(options, r, input[r], route[r], step[r], contexts[r])
           /\ Verified(options, input[r], route[r], step[r], asOf[r],
                       attributes[r].stack, attributes[r].token)
           /\ Filled(options, input[r], route[r], step[r], attributes[r].input)
<1>1. route[r] # None /\ answer[r] = None /\ StepsOf(route[r])[step[r]] \in kinds
      BY DEF At, Steps
<1>2. /\ input[r] \in Inputs /\ options \in RouterOptions /\ ~Refused(options)
      /\ route[r] \in RouteTable(options)
      BY <1>1 DEF AuthInv, RequestInv
<1>3. Reached(options, r, input[r], route[r], step[r], asOf[r], attributes[r], contexts[r])
      BY <1>1 DEF AuthInv
<1> QED BY <1>1, <1>2, <1>3, RouteSteps, SessionRoutes DEF Reached

\* What a step of request r does to the requests.
Goes(r) ==
    /\ DOMAIN step' = Requests /\ DOMAIN answer' = Requests
    /\ \A q \in Requests \ {r} :
        /\ step'[q] = step[q] /\ answer'[q] = answer[q]
        /\ attributes'[q] = attributes[q] /\ contexts'[q] = contexts[q]
    /\ answer'[r] = None =>
        Reached(options, r, input[r], route[r], step'[r], asOf[r], attributes'[r], contexts'[r])

LEMMA GoesStep ==
    ASSUME AuthInv, NEW r \in Requests, route[r] # None, Goes(r),
           UNCHANGED <<options, table, sessions, input, asOf, route>>
    PROVE  AuthInv'
<1>1. input[r] # None BY DEF AuthInv
<1>2. ASSUME NEW q \in Requests, q # r
      PROVE  /\ input[q] = None =>
                route[q] = None /\ attributes'[q] = NoAttributes /\ contexts'[q] = <<>>
             /\ route[q] # None /\ answer'[q] = None =>
                Reached(options, q, input[q], route[q], step'[q], asOf[q], attributes'[q], contexts'[q])
      BY <1>2 DEF AuthInv, Goes
<1>3. /\ route[r] # None /\ answer'[r] = None =>
            Reached(options, r, input[r], route[r], step'[r], asOf[r], attributes'[r], contexts'[r])
      BY DEF Goes
<1>4. DOMAIN step' = Requests /\ DOMAIN answer' = Requests BY DEF Goes
<1> QED BY <1>1, <1>2, <1>3, <1>4 DEF AuthInv, NoAttributes

LEMMA AnsweredGoes ==
    ASSUME AuthInv, RequestInv, NEW r \in Requests, NEW status, status # None, Answered(r, status)
    PROVE  Goes(r)
BY DEF Answered, Goes, AuthInv, RequestInv

LEMMA StatusType == ASSUME NEW error PROVE Status(error) # None
BY RequestsAssumption DEF Status, StatusOfCategory

\* A step that changes neither the context nor the attributes.
LEMMA PassedGoes ==
    ASSUME AuthInv, RequestInv, NEW r \in Requests,
           At(r, {"global", "middleware", "authorize"}), GoOn(r), UNCHANGED <<attributes, contexts>>
    PROVE  Goes(r)
<1>1. StepsOf(route[r])[step[r]] \in {"global", "middleware", "authorize"}
      /\ step[r] \in 1 .. Len(StepsOf(route[r])) /\ StepOrder(options, route[r])
      BY Here
<1>2. step[r] # Len(StepsOf(route[r])) /\ Len(StepsOf(route[r])) \in Nat BY <1>1 DEF StepOrder
<1>3. step[r] + 1 \in 1 .. Len(StepsOf(route[r])) BY <1>1, <1>2
<1>4. Nested(options, r, input[r], route[r], step[r] + 1, contexts[r])
      BY <1>1, Here, NestedLater
<1>5. Verified(options, input[r], route[r], step[r] + 1, asOf[r],
               attributes[r].stack, attributes[r].token)
      BY <1>1, Here, VerifiedLater
<1>6. Filled(options, input[r], route[r], step[r] + 1, attributes[r].input)
      BY <1>1, Here, FilledLater
<1>7. Reached(options, r, input[r], route[r], step[r] + 1, asOf[r], attributes[r], contexts[r])
      BY <1>3, <1>4, <1>5, <1>6 DEF Reached
<1>8. step'[r] = step[r] + 1 BY DEF GoOn, AuthInv
<1> QED BY <1>7, <1>8 DEF Goes, GoOn, AuthInv

LEMMA LastAppended ==
    ASSUME NEW S, NEW s \in Seq(S), NEW c \in S
    PROVE  Append(s, c) # <<>> /\ Last(Append(s, c)) = c
BY DEF Last

LEMMA EstablishGoes ==
    ASSUME AuthInv, RequestInv, NEW r \in Requests, EstablishContext(r)
    PROVE  Goes(r)
<1> DEFINE n == Len(Prefix(options))
<1>1. /\ StepsOf(route[r])[step[r]] = "context" /\ input[r] \in Inputs
      /\ step[r] \in 1 .. Len(StepsOf(route[r])) /\ StepOrder(options, route[r])
      BY Here DEF EstablishContext
<1>2. step[r] = 1 /\ options.context /\ n >= 1 /\ n \in Nat BY <1>1 DEF StepOrder
<1>3. 2 \in 1 .. Len(StepsOf(route[r]))
  <2> DEFINE l == Len(StepsOf(route[r]))
  <2>1. l \in Nat /\ 1 # l BY <1>1, <1>2 DEF StepOrder
  <2>2. 1 \in 1 .. l BY <1>1, <1>2
  <2> HIDE DEF l
  <2>3. 2 \in 1 .. l BY <2>1, <2>2
  <2> QED BY <2>3 DEF l
<1>4. contexts'[r] # <<>> /\ Last(contexts'[r]) = Baseline(r)
  <2>1. contexts'[r] = Append(contexts[r], Baseline(r))
        BY DEF EstablishContext, RunWithContext, RequestInv
  <2>2. Baseline(r) \in ExecutionContexts BY <1>1, BaselineType
  <2> QED BY <2>1, <2>2, LastAppended DEF RequestInv
<1>5. Baseline(r).correlation = Correlation(r, input[r]) /\ Baseline(r).session = None
      BY DEF Baseline, Correlation, Header
<1>6. Nested(options, r, input[r], route[r], 2, contexts'[r])
      BY <1>2, <1>4, <1>5 DEF Nested
<1>7. Verified(options, input[r], route[r], 1 + 1, asOf[r],
               attributes[r].stack, attributes[r].token)
      BY <1>1, <1>2, Here, VerifiedLater DEF EstablishContext
<1>8. Filled(options, input[r], route[r], 1 + 1, attributes[r].input)
      BY <1>1, <1>2, Here, FilledLater DEF EstablishContext
<1>9. Reached(options, r, input[r], route[r], 2, asOf[r], attributes[r], contexts'[r])
      BY <1>3, <1>6, <1>7, <1>8 DEF Reached
<1>10. step'[r] = 2 BY <1>2 DEF EstablishContext, GoOn, AuthInv
<1>11. UNCHANGED attributes /\ DOMAIN step' = Requests /\ UNCHANGED answer
       BY DEF EstablishContext, GoOn, AuthInv
<1>12. \A q \in Requests \ {r} : step'[q] = step[q] /\ contexts'[q] = contexts[q]
       BY DEF EstablishContext, GoOn, RunWithContext, AuthInv, RequestInv
<1> QED BY <1>9, <1>10, <1>11, <1>12 DEF Goes, AuthInv

LEMMA StampGoes ==
    ASSUME AuthInv, RequestInv, NEW r \in Requests, Stamp(r)
    PROVE  Goes(r)
<1> DEFINE n == Len(Prefix(options))
           k == step[r]
<1>1. /\ StepsOf(route[r])[k] = "stamp"
      /\ k \in 1 .. Len(StepsOf(route[r])) /\ StepOrder(options, route[r])
      BY Here DEF Stamp
<1>2. k = n + 1 /\ n \in Nat /\ k # Len(StepsOf(route[r])) /\ Len(StepsOf(route[r])) \in Nat
      BY <1>1 DEF StepOrder
<1>3. k + 1 \in 1 .. Len(StepsOf(route[r])) BY <1>1, <1>2
<1>4. Nested(options, r, input[r], route[r], k + 1, contexts[r])
      BY <1>1, Here, NestedLater DEF Stamp
<1>5. /\ attributes'[r].stack = route[r].stack
      /\ attributes'[r].token = attributes[r].token /\ attributes'[r].input = attributes[r].input
      BY DEF Stamp, RequestInv
<1>6. Verified(options, input[r], route[r], k + 1, asOf[r], attributes'[r].stack, attributes'[r].token)
      BY <1>2, <1>5 DEF Verified
<1>7. Filled(options, input[r], route[r], k + 1, attributes'[r].input)
      BY <1>1, <1>5, Here, FilledLater DEF Stamp
<1>8. Reached(options, r, input[r], route[r], k + 1, asOf[r], attributes'[r], contexts[r])
      BY <1>3, <1>4, <1>6, <1>7 DEF Reached
<1>9. step'[r] = k + 1 /\ UNCHANGED <<contexts, answer>> /\ DOMAIN step' = Requests
      BY DEF Stamp, GoOn, AuthInv
<1>10. \A q \in Requests \ {r} : step'[q] = step[q] /\ attributes'[q] = attributes[q]
       BY DEF Stamp, GoOn, AuthInv, RequestInv
<1> QED BY <1>8, <1>9, <1>10 DEF Goes, AuthInv

LEMMA CredentialGoes ==
    ASSUME AuthInv, RequestInv, NEW r \in Requests, Credential(r)
    PROVE  Goes(r)
<1> DEFINE n == Len(Prefix(options))
           k == step[r]
<1>1. CASE Throws(r, "Unauthorized") BY <1>1, AnsweredGoes, StatusType DEF Throws
<1>2. CASE /\ input[r].token # None /\ input[r].token.stack = route[r].stack
           /\ attributes' = [attributes EXCEPT ![r].token = input[r].token]
           /\ GoOn(r) /\ UNCHANGED contexts
  <2>1. /\ StepsOf(route[r])[k] = "credential"
        /\ k \in 1 .. Len(StepsOf(route[r])) /\ StepOrder(options, route[r])
        BY Here DEF Credential
  <2>2. /\ k = n + 2 /\ n \in Nat /\ k # Len(StepsOf(route[r])) /\ Len(StepsOf(route[r])) \in Nat
        /\ route[r].stack \in Declared(options)
        BY <2>1 DEF StepOrder
  <2>3. k + 1 \in 1 .. Len(StepsOf(route[r])) BY <2>1, <2>2
  <2>4. Nested(options, r, input[r], route[r], k + 1, contexts[r])
        BY <2>1, Here, NestedLater DEF Credential
  <2>5. /\ attributes'[r].token = input[r].token
        /\ attributes'[r].stack = attributes[r].stack /\ attributes'[r].input = attributes[r].input
        BY <1>2 DEF RequestInv
  <2>6. attributes[r].stack = route[r].stack BY <2>2, Here DEF Credential, Verified
  <2>7. Verified(options, input[r], route[r], k + 1, asOf[r], attributes'[r].stack, attributes'[r].token)
        BY <1>2, <2>2, <2>5, <2>6 DEF Verified
  <2>8. Filled(options, input[r], route[r], k + 1, attributes'[r].input)
        BY <2>1, <2>5, Here, FilledLater DEF Credential
  <2>9. Reached(options, r, input[r], route[r], k + 1, asOf[r], attributes'[r], contexts[r])
        BY <2>3, <2>4, <2>7, <2>8 DEF Reached
  <2>10. step'[r] = k + 1 /\ UNCHANGED <<contexts, answer>> /\ DOMAIN step' = Requests
         BY <1>2 DEF GoOn, AuthInv
  <2>11. \A q \in Requests \ {r} : step'[q] = step[q] /\ attributes'[q] = attributes[q]
         BY <1>2 DEF GoOn, AuthInv, RequestInv
  <2> QED BY <2>9, <2>10, <2>11 DEF Goes, AuthInv
<1> QED BY <1>1, <1>2 DEF Credential

\* The session is that of the token, and was there when the request was received.
LEMMA SessionGoes ==
    ASSUME AuthInv, RequestInv, NEW r \in Requests, SessionLoad(r)
    PROVE  Goes(r)
<1> DEFINE n == Len(Prefix(options))
           k == step[r]
           session == [user |-> Token(r).user, scope |-> Token(r).scope]
           c == [Last(contexts[r]) EXCEPT !.actor = "user", !.session = session]
<1>1. CASE Throws(r, "Unauthorized") \/ Throws(r, "Error")
      BY <1>1, AnsweredGoes, StatusType DEF Throws
<1>2. CASE /\ Token(r) # None /\ sessions[Token(r).user] = Token(r).stamp /\ contexts[r] # <<>>
           /\ RunWithContext(r, c) /\ GoOn(r) /\ UNCHANGED attributes
  <2>1. /\ StepsOf(route[r])[k] = "session" /\ input[r] \in Inputs
        /\ k \in 1 .. Len(StepsOf(route[r])) /\ StepOrder(options, route[r])
        BY Here DEF SessionLoad
  <2>2. /\ k = n + 3 /\ n \in Nat /\ k # Len(StepsOf(route[r])) /\ Len(StepsOf(route[r])) \in Nat
        /\ route[r].stack \in Declared(options) /\ LoadsSession(options, route[r])
        BY <2>1, Here DEF StepOrder, SessionLoad
  <2>3. k + 1 \in 1 .. Len(StepsOf(route[r])) BY <2>1, <2>2
  <2>4. /\ attributes[r].stack = route[r].stack /\ attributes[r].token = input[r].token
        /\ input[r].token # None /\ input[r].token.stack = route[r].stack
        BY <2>2, Here DEF SessionLoad, Verified
  <2>5. asOf[r][input[r].token.user] = input[r].token.stamp
    <3>1. input[r].token.user \in Users /\ input[r].token.stamp = 1
          BY <2>1, <2>4, InputsAssumption
    <3>2. sessions[input[r].token.user] = 1 BY <1>2, <2>4, <3>1 DEF Token
    <3>3. input[r] # None BY <2>1, InputsAssumption
    <3> QED BY <3>1, <3>2, <3>3 DEF AuthInv
  <2>6. Verified(options, input[r], route[r], k + 1, asOf[r], attributes[r].stack, attributes[r].token)
        BY <2>2, <2>4, <2>5 DEF Verified
  <2>7. Last(contexts[r]) \in ExecutionContexts BY <1>2 DEF RequestInv, Last
  <2>8. Last(contexts[r]).correlation = Correlation(r, input[r]) /\ (options.context /\ k > 1)
        BY <1>2, Here DEF SessionLoad, Nested
  <2>9. c.correlation = Correlation(r, input[r]) /\ c.session = Identity(input[r])
        BY <2>4, <2>7, <2>8 DEF ExecutionContexts, Identity, Token
  <2>10. contexts'[r] = Append(contexts[r], c) BY <1>2 DEF RunWithContext, RequestInv
  <2>11. contexts[r] \in Seq(ExecutionContexts) BY DEF RequestInv
  <2>12. c \in ExecutionContexts
    <3>1. Token(r) \in Tokens BY <1>2 DEF Token, RequestInv
    <3>2. session \in Sessions BY <3>1, NoneAssumption DEF Sessions, UserIds, ScopeIds
    <3> HIDE DEF session
    <3> QED BY <2>7, <3>2 DEF ExecutionContexts, Actors
  <2>13. contexts'[r] # <<>> /\ Last(contexts'[r]) = c
    <3> HIDE DEF c
    <3> QED BY <2>10, <2>11, <2>12, LastAppended
  <2> HIDE DEF c
  <2>14. Nested(options, r, input[r], route[r], k + 1, contexts'[r])
        BY <2>2, <2>8, <2>9, <2>13 DEF Nested
  <2>15. Filled(options, input[r], route[r], k + 1, attributes[r].input)
         BY <2>1, Here, FilledLater DEF SessionLoad
  <2>16. Reached(options, r, input[r], route[r], k + 1, asOf[r], attributes[r], contexts'[r])
         BY <2>3, <2>6, <2>14, <2>15 DEF Reached
  <2>17. step'[r] = k + 1 /\ UNCHANGED <<attributes, answer>> /\ DOMAIN step' = Requests
         BY <1>2 DEF GoOn, AuthInv
  <2>18. \A q \in Requests \ {r} : step'[q] = step[q] /\ contexts'[q] = contexts[q]
         BY <1>2 DEF GoOn, RunWithContext, AuthInv, RequestInv
  <2> QED BY <2>16, <2>17, <2>18 DEF Goes, AuthInv
<1> QED BY <1>1, <1>2 DEF SessionLoad

\* The fields userId and scopeId of an object are those of the session.
LEMMA ValidatedFields ==
    ASSUME AuthInv, RequestInv, NEW r \in Requests, At(r, {"validate"}),
           ~(Describes(r) /\ contexts[r] = <<>>),
           LoadsSession(options, route[r]), Described(options, route[r]),
           NEW key \in (Guard(r).keys \cap DOMAIN Raw(r) \cap {"userId", "scopeId"})
                            \ FromHeaders(route[r])
    PROVE  Raw(r)[key] = Identity(input[r])[SessionField(key)]
<1> DEFINE n == Len(Prefix(options))
           k == step[r]
           all == [userId |-> input[r].token.user, scopeId |-> input[r].token.scope]
<1>1. /\ StepsOf(route[r])[k] = "validate" /\ input[r] \in Inputs
      /\ k \in 1 .. Len(StepsOf(route[r])) /\ StepOrder(options, route[r])
      BY Here
<1>2. /\ n \in Nat /\ route[r].stack \in Declared(options)
      /\ options.stacks[route[r].stack].sessionLoad
      /\ k > n + Len(AuthChain(options, route[r].stack))
      BY <1>1, Here DEF StepOrder
<1>3. Len(AuthChain(options, route[r].stack)) = 3 BY <1>1, <1>2 DEF StepOrder
<1>4. k > n + 3 /\ k > n + 2 BY <1>1, <1>2, <1>3
<1>5. Guard(r) \in Schemas(route[r])
  <2>1. /\ k - Len(route[r].chain) \in DOMAIN route[r].guards
        /\ route[r].guards[k - Len(route[r].chain)].kind = "validate"
        BY <1>1 DEF StepOrder
  <2> QED BY <2>1 DEF Guard, Schemas
<1>6. Describes(r) /\ key \notin DOMAIN Guard(r).headers
      BY <1>5 DEF Describes, Described, FromHeaders
<1>7. Last(contexts[r]).session = Identity(input[r])
      BY <1>4, <1>6, Here DEF Nested
<1>8. Identity(input[r]) # None
  <2>1. input[r].token \in Tokens BY <1>1, <1>2, <1>4, Here DEF Verified, Tokens
  <2>2. Identity(input[r]) \in Sessions
        BY <2>1, NoneAssumption DEF Sessions, UserIds, ScopeIds, Identity
  <2> QED BY <2>2, NoneAssumption
<1>9. SessionFields(r) = [x \in DOMAIN all \cap Guard(r).keys |-> all[x]]
      BY <1>7, <1>8 DEF SessionFields, Identity
<1>10. key \in DOMAIN SessionFields(r) /\ SessionFields(r)[key] = all[key] BY <1>9
<1>11. key \notin DOMAIN HeaderFields(r)
  <2>1. Header(r, None) = None BY <1>1, InputsAssumption DEF Header
  <2> QED BY <1>6, <2>1 DEF HeaderFields
<1>12. Raw(r)[key] = all[key]
  <2> DEFINE f == Over(SessionFields(r), input[r].fields)
  <2>1. Raw(r) = Over(HeaderFields(r), f) BY <1>6 DEF Raw
  <2>2. key \in DOMAIN f /\ f[key] = all[key] BY <1>10 DEF Over
  <2> HIDE DEF f
  <2> QED BY <1>11, <2>1, <2>2 DEF Over
<1>13. all[key] = Identity(input[r])[SessionField(key)]
       BY DEF Identity, SessionField
<1> QED BY <1>12, <1>13

LEMMA ValidateGoes ==
    ASSUME AuthInv, RequestInv, NEW r \in Requests, Validate(r)
    PROVE  Goes(r)
<1> DEFINE n == Len(Prefix(options))
           k == step[r]
           fields == [x \in Guard(r).keys \cap DOMAIN Raw(r) |-> Raw(r)[x]]
<1>1. CASE Throws(r, "Error") \/ Throws(r, "Validation")
      BY <1>1, AnsweredGoes, StatusType DEF Throws
<1>2. CASE /\ ~(Describes(r) /\ contexts[r] = <<>>)
           /\ attributes' = [attributes EXCEPT ![r].input = fields]
           /\ GoOn(r) /\ UNCHANGED contexts
  <2>1. /\ StepsOf(route[r])[k] = "validate"
        /\ k \in 1 .. Len(StepsOf(route[r])) /\ StepOrder(options, route[r])
        BY Here DEF Validate
  <2>2. /\ k # Len(StepsOf(route[r])) /\ Len(StepsOf(route[r])) \in Nat
        /\ n \in Nat /\ Len(AuthChain(options, route[r].stack)) \in Nat
        /\ k > n + Len(AuthChain(options, route[r].stack))
        BY <2>1 DEF StepOrder
  <2>3. k + 1 \in 1 .. Len(StepsOf(route[r])) /\ k + 1 > n + Len(AuthChain(options, route[r].stack))
        BY <2>1, <2>2
  <2>4. Nested(options, r, input[r], route[r], k + 1, contexts[r])
        BY <2>1, Here, NestedLater DEF Validate
  <2>5. /\ attributes'[r].input = fields
        /\ attributes'[r].stack = attributes[r].stack /\ attributes'[r].token = attributes[r].token
    <3> HIDE DEF fields
    <3> QED BY <1>2 DEF RequestInv
  <2>6. Verified(options, input[r], route[r], k + 1, asOf[r], attributes'[r].stack, attributes'[r].token)
        BY <2>1, <2>5, Here, VerifiedLater DEF Validate
  <2>7. ASSUME LoadsSession(options, route[r]), Described(options, route[r]),
               NEW key \in (DOMAIN fields \cap {"userId", "scopeId"}) \ FromHeaders(route[r])
        PROVE  fields[key] = Identity(input[r])[SessionField(key)]
        BY <1>2, <2>7, ValidatedFields DEF Validate
  <2>8. Filled(options, input[r], route[r], k + 1, attributes'[r].input)
    <3> HIDE DEF fields
    <3> QED BY <2>3, <2>5, <2>7 DEF Filled
  <2>9. Reached(options, r, input[r], route[r], k + 1, asOf[r], attributes'[r], contexts[r])
        BY <2>3, <2>4, <2>6, <2>8 DEF Reached
  <2>10. step'[r] = k + 1 /\ UNCHANGED <<contexts, answer>> /\ DOMAIN step' = Requests
         BY <1>2 DEF GoOn, AuthInv
  <2>11. \A q \in Requests \ {r} : step'[q] = step[q] /\ attributes'[q] = attributes[q]
    <3> HIDE DEF fields
    <3> QED BY <1>2 DEF GoOn, AuthInv, RequestInv
  <2> QED BY <2>9, <2>10, <2>11 DEF Goes, AuthInv
<1> QED BY <1>1, <1>2 DEF Validate

LEMMA AdvanceGoes ==
    ASSUME AuthInv, RequestInv, NEW r \in Requests, Advance(r)
    PROVE  AuthInv'
<1>1. CASE EstablishContext(r) BY <1>1, EstablishGoes, GoesStep DEF Advance, EstablishContext, At
<1>2. CASE Middleware(r)
  <2>1. Goes(r)
    <3>1. At(r, {"global", "middleware"}) => At(r, {"global", "middleware", "authorize"})
          BY DEF At
    <3>2. CASE GoOn(r) /\ UNCHANGED <<attributes, contexts>>
          BY <1>2, <3>1, <3>2, PassedGoes DEF Middleware
    <3>3. CASE \E e \in Thrown : Answered(r, Status(e))
          BY <3>3, AnsweredGoes, StatusType
    <3> QED BY <1>2, <3>2, <3>3 DEF Middleware
  <2> QED BY <1>2, <2>1, GoesStep DEF Advance, Middleware, At
<1>3. CASE Stamp(r) BY <1>3, StampGoes, GoesStep DEF Advance, Stamp, At
<1>4. CASE Credential(r) BY <1>4, CredentialGoes, GoesStep DEF Advance, Credential, At
<1>5. CASE SessionLoad(r) BY <1>5, SessionGoes, GoesStep DEF Advance, SessionLoad, At
<1>6. CASE Authorize(r)
  <2>1. Goes(r)
    <3>1. At(r, {"authorize"}) => At(r, {"global", "middleware", "authorize"}) BY DEF At
    <3>2. CASE GoOn(r) /\ UNCHANGED <<attributes, contexts>>
          BY <1>6, <3>1, <3>2, PassedGoes DEF Authorize
    <3>3. CASE Throws(r, "Forbidden")
          BY <3>3, AnsweredGoes, StatusType DEF Throws
    <3> QED BY <1>6, <3>2, <3>3 DEF Authorize
  <2> QED BY <1>6, <2>1, GoesStep DEF Advance, Authorize, At
<1>7. CASE Validate(r) BY <1>7, ValidateGoes, GoesStep DEF Advance, Validate, At
<1>8. CASE Handle(r)
  <2>1. Goes(r) BY <1>8, AnsweredGoes, StatusType, RequestsAssumption DEF Handle
  <2> QED BY <1>8, <2>1, GoesStep DEF Advance, Handle, At
<1> QED BY <1>1, <1>2, <1>3, <1>4, <1>5, <1>6, <1>7, <1>8 DEF Advance

LEMMA InitAuth == Init => AuthInv
BY RequestsAssumption DEF Init, AuthInv

LEMMA ReceiveStep ==
    ASSUME AuthInv, RequestInv, NEW r \in Requests, Receive(r)
    PROVE  AuthInv'
<1>1. PICK in \in Inputs : \E first :
        /\ input' = [input EXCEPT ![r] = in]
        /\ \/ answer' = [answer EXCEPT ![r] = 404] /\ UNCHANGED route
           \/ /\ first \in table
              /\ route' = [route EXCEPT ![r] = first] /\ UNCHANGED answer
      BY DEF Receive
<1>2. PICK first :
        /\ input' = [input EXCEPT ![r] = in]
        /\ \/ answer' = [answer EXCEPT ![r] = 404] /\ UNCHANGED route
           \/ /\ first \in table
              /\ route' = [route EXCEPT ![r] = first] /\ UNCHANGED answer
      BY <1>1
<1>3. /\ asOf' = [asOf EXCEPT ![r] = sessions] /\ step' = [step EXCEPT ![r] = 1]
      /\ UNCHANGED <<options, table, sessions, attributes, contexts>>
      /\ input[r] = None /\ table # None
      BY DEF Receive
<1>4. /\ route[r] = None /\ attributes[r] = NoAttributes /\ contexts[r] = <<>>
      /\ table = RouteTable(options) /\ ~Refused(options) /\ options \in RouterOptions
      BY <1>3 DEF AuthInv
<1>5. input'[r] = in /\ in # None /\ asOf'[r] = sessions /\ step'[r] = 1
      BY <1>2, <1>3, InputsAssumption DEF AuthInv, RequestInv
<1>6. route'[r] # None /\ answer'[r] = None => route'[r] \in RouteTable(options)
      BY <1>2, <1>4, RequestsAssumption DEF AuthInv, RequestInv
<1>7. route'[r] # None => route'[r] \in RouteTable(options)
      BY <1>2, <1>4 DEF AuthInv, RequestInv
<1>8. ASSUME NEW t \in RouteTable(options)
      PROVE  Reached(options, r, in, t, 1, sessions, NoAttributes, <<>>)
  <2>1. StepOrder(options, t) BY <1>4, RouteSteps
  <2>2. Len(Prefix(options)) \in Nat /\ 1 \in 1 .. Len(StepsOf(t)) BY <2>1 DEF StepOrder
  <2> QED BY <2>2 DEF Reached, Nested, Verified, Filled, NoAttributes
<1>9. ASSUME NEW q \in Requests, q # r
      PROVE  /\ input'[q] = input[q] /\ route'[q] = route[q] /\ answer'[q] = answer[q]
             /\ step'[q] = step[q] /\ asOf'[q] = asOf[q]
      BY <1>2, <1>3, <1>9 DEF AuthInv, RequestInv
<1>10. /\ DOMAIN step' = Requests /\ DOMAIN asOf' = Requests /\ DOMAIN answer' = Requests
       BY <1>2, <1>3 DEF AuthInv
<1>11. ASSUME NEW q \in Requests
       PROVE  /\ input'[q] = None =>
                    route'[q] = None /\ attributes'[q] = NoAttributes /\ contexts'[q] = <<>>
              /\ input'[q] # None => \A u \in Users : sessions[u] = 1 => asOf'[q][u] = 1
              /\ route'[q] # None => route'[q] \in RouteTable(options) /\ ~Refused(options)
              /\ route'[q] # None /\ answer'[q] = None =>
                    Reached(options, q, input'[q], route'[q], step'[q], asOf'[q],
                            attributes'[q], contexts'[q])
  <2>1. CASE q = r BY <1>3, <1>4, <1>5, <1>7, <1>8, <2>1
  <2>2. CASE q # r BY <1>3, <1>9, <2>2 DEF AuthInv
  <2> QED BY <2>1, <2>2
<1> QED BY <1>3, <1>10, <1>11 DEF AuthInv, NoAttributes

LEMMA AuthStep ==
    ASSUME AuthInv, RequestInv, [Next]_vars
    PROVE  AuthInv'
<1>1. CASE Build
  <2>1. /\ ~Refused(options) /\ table' = RouteTable(options)
        /\ UNCHANGED <<options, sessions, input, asOf, route, step, attributes, contexts, answer>>
        BY <1>1 DEF Build
  <2> QED BY <2>1 DEF AuthInv, NoAttributes
<1>2. ASSUME NEW u \in Users, Revoke(u) PROVE AuthInv'
  <2>1. UNCHANGED <<options, table, input, asOf, route, step, attributes, contexts, answer>>
        BY <1>2 DEF Revoke
  <2>2. DOMAIN sessions' = Users /\ \A v \in Users : sessions'[v] = 1 => sessions[v] = 1
        BY <1>2 DEF Revoke, AuthInv
  <2> QED BY <2>1, <2>2 DEF AuthInv, NoAttributes
<1>3. ASSUME NEW r \in Requests, Receive(r) PROVE AuthInv' BY <1>3, ReceiveStep
<1>4. ASSUME NEW r \in Requests, Advance(r) PROVE AuthInv' BY <1>4, AdvanceGoes
<1>5. CASE UNCHANGED vars BY <1>5 DEF vars, AuthInv, NoAttributes
<1> QED BY <1>1, <1>2, <1>3, <1>4, <1>5 DEF Next

-----------------------------------------------------------------------------
(* What a request may rely on.                                              *)

LEMMA AuthenticatedHere ==
    ASSUME AuthInv, RequestInv, NEW r \in Requests, Declared(options) # {},
           At(r, {"middleware", "authorize", "validate", "method"}), ~route[r].public
    PROVE  /\ attributes[r].stack = route[r].stack /\ Token(r) # None
           /\ Token(r).stack = route[r].stack
           /\ HasSession(r) => asOf[r][Token(r).user] = Token(r).stamp
<1> DEFINE n == Len(Prefix(options))
           auth == Len(AuthChain(options, route[r].stack))
           k == step[r]
<1>1. /\ k \in 1 .. Len(StepsOf(route[r])) /\ StepOrder(options, route[r])
      /\ StepsOf(route[r])[k] \in {"middleware", "authorize", "validate", "method"}
      BY Here
<1>2. route[r].stack \in Declared(options) BY Here, SessionRoutes
<1>3. n \in Nat /\ k > n + auth BY <1>1 DEF StepOrder
<1>4. auth = IF options.stacks[route[r].stack].sessionLoad THEN 3 ELSE 2
      BY <1>1, <1>2 DEF StepOrder
<1>5. k > n + 2 /\ k > n + 1 BY <1>1, <1>3, <1>4
<1>6. HasSession(r) <=> LoadsSession(options, route[r]) BY DEF HasSession, LoadsSession
<1>7. HasSession(r) => k > n + 3 BY <1>1, <1>3, <1>4 DEF HasSession
<1> QED BY <1>2, <1>5, <1>6, <1>7, Here DEF Verified, Token

LEMMA IdentityHere ==
    ASSUME AuthInv, RequestInv, NEW r \in Requests, At(r, {"method"}), contexts[r] # <<>>
    PROVE  /\ Last(contexts[r]).correlation = Correlation(r, input[r])
           /\ HasSession(r) => Last(contexts[r]).session = Identity(input[r])
           /\ ~HasSession(r) => Last(contexts[r]).session = None
           /\ HasSession(r) /\ attributes[r].input # None /\ Described(options, route[r]) =>
                \A key \in (DOMAIN attributes[r].input \cap {"userId", "scopeId"})
                                \ FromHeaders(route[r]) :
                    attributes[r].input[key] = Identity(input[r])[SessionField(key)]
<1> DEFINE n == Len(Prefix(options))
           auth == Len(AuthChain(options, route[r].stack))
           k == step[r]
<1>1. /\ k \in 1 .. Len(StepsOf(route[r])) /\ StepOrder(options, route[r])
      /\ StepsOf(route[r])[k] = "method"
      BY Here
<1>2. HasSession(r) <=> LoadsSession(options, route[r]) BY DEF HasSession, LoadsSession
<1>3. n \in Nat /\ k > n + auth BY <1>1 DEF StepOrder
<1>4. LoadsSession(options, route[r]) => auth = 3 BY <1>1, Here DEF StepOrder
<1>5. LoadsSession(options, route[r]) => k > n + 3 BY <1>1, <1>3, <1>4
<1> QED BY <1>2, <1>5, Here DEF Nested, Filled

\* Nothing of a request comes after its auth phase without a context.
LEMMA PreparedHere ==
    ASSUME AuthInv, RequestInv, NEW r \in Requests
    PROVE  /\ At(r, {"session"}) => Token(r) # None /\ contexts[r] # <<>>
           /\ At(r, {"validate"}) /\ options.context => contexts[r] # <<>>
<1> DEFINE n == Len(Prefix(options))
           k == step[r]
<1>1. ASSUME At(r, {"session"}) PROVE Token(r) # None /\ contexts[r] # <<>>
  <2>1. /\ k \in 1 .. Len(StepsOf(route[r])) /\ StepOrder(options, route[r])
        /\ StepsOf(route[r])[k] = "session"
        BY <1>1, Here
  <2>2. n \in Nat /\ k = n + 3 /\ route[r].stack \in Declared(options)
        BY <2>1 DEF StepOrder
  <2>3. Token(r) # None BY <1>1, <2>2, Here DEF Verified, Token
  <2>4. options.context BY <1>1, <2>2, Here DEF Refused, StacksWrong
  <2> QED BY <1>1, <2>2, <2>3, <2>4, Here DEF Nested
<1>2. ASSUME At(r, {"validate"}), options.context PROVE contexts[r] # <<>>
  <2>1. /\ k \in 1 .. Len(StepsOf(route[r])) /\ StepOrder(options, route[r])
        /\ StepsOf(route[r])[k] = "validate"
        BY <1>2, Here
  <2>2. k # 1 BY <1>2, <2>1 DEF StepOrder
  <2>3. k > 1 BY <2>1, <2>2
  <2> QED BY <1>2, <2>3, Here DEF Nested
<1> QED BY <1>1, <1>2

LEMMA NextOfContexts == [ContextsNext]_allVars => [Next]_vars
BY DEF ContextsNext, allVars, RequestRecords, JobFires, Dispatch, Runs, Settles, WorkerRecords

LEMMA Served == ContextsSpec => [](RequestInv /\ AuthInv)
<1>1. ContextsInit => RequestInv /\ AuthInv BY InitContexts, InitAuth DEF ContextsInit
<1>2. RequestInv /\ AuthInv /\ [ContextsNext]_allVars => (RequestInv /\ AuthInv)'
      BY RequestStep, AuthStep, NextOfContexts
<1> QED BY <1>1, <1>2, PTL DEF ContextsSpec

\* In a router that declares auth stacks, whatever of a protected route comes after its auth
\* phase sees only requests whose credential the stack of the route has verified, and, where
\* the stack loads sessions, whose session was good when they came in: for any controllers,
\* middlewares and clients.
THEOREM Authenticated == ContextsSpec => []ProtectedStepsAreAuthenticated
<1>1. RequestInv /\ AuthInv => ProtectedStepsAreAuthenticated
      BY AuthenticatedHere DEF ProtectedStepsAreAuthenticated
<1> QED BY <1>1, Served, PTL

\* A method sees the correlation id, the session and the validated identity of its own
\* request, however many requests are under way and whatever their clients send.
THEOREM OwnIdentities == ContextsSpec => []OwnIdentity
<1>1. RequestInv /\ AuthInv => OwnIdentity
  <2>1. SUFFICES ASSUME RequestInv, AuthInv, NEW r \in Requests,
                        At(r, {"method"}), contexts[r] # <<>>
                 PROVE  /\ Last(contexts[r]).correlation = FirstOf(<<Header(r, "correlation"), r>>)
                        /\ IF HasSession(r)
                           THEN Last(contexts[r]).session =
                                    [user |-> input[r].token.user, scope |-> input[r].token.scope]
                           ELSE Last(contexts[r]).session = None
                        /\ HasSession(r) /\ attributes[r].input # None
                           /\ Described(options, route[r]) =>
                            \A k \in (DOMAIN attributes[r].input \cap {"userId", "scopeId"})
                                        \ FromHeaders(route[r]) :
                                attributes[r].input[k] = Last(contexts[r]).session
                                    [IF k = "userId" THEN "user" ELSE "scope"]
        BY <2>1 DEF OwnIdentity
  <2>2. Correlation(r, input[r]) = FirstOf(<<Header(r, "correlation"), r>>)
        BY DEF Correlation, Header
  <2> QED BY <2>1, <2>2, IdentityHere DEF Identity, SessionField
<1> QED BY <1>1, Served, PTL

\* In a router that was built, the session is never loaded without a verified token or a
\* context, and no request is validated without a context if the router has contexts.
THEOREM NothingLate == ContextsSpec => []NothingFailsLate
<1>1. RequestInv /\ AuthInv => NothingFailsLate
      BY PreparedHere DEF NothingFailsLate
<1> QED BY <1>1, Served, PTL

-----------------------------------------------------------------------------
(* The order of routes.                                                     *)

LEMMA AlongPath ==
    ASSUME NEW n \in Nat, NEW T, 0 \in T, \A k \in 1 .. n : k - 1 \in T => k \in T
    PROVE  \A k \in 0 .. n : k \in T
<1> DEFINE S == {k \in 0 .. n : k \notin T}
<1>1. SUFFICES ASSUME S # {} PROVE FALSE OBVIOUS
<1>2. Min(S) \in S /\ \A x \in S : Min(S) =< x
  <2>1. S \subseteq Nat OBVIOUS
  <2> QED BY <1>1, <2>1, Least
<1>3. PICK k \in S : \A x \in S : k =< x BY <1>2
<1>4. k # 0 /\ k \in 1 .. n /\ k - 1 \in 0 .. n OBVIOUS
<1>5. k - 1 \notin S BY <1>3, <1>4
<1> QED BY <1>4, <1>5

LEMMA GreatestIndex ==
    ASSUME NEW n \in Nat, NEW S \in SUBSET (1 .. n), n \in S
    PROVE  Max(S) = n
<1>1. \A y \in S : n >= y OBVIOUS
<1>2. \A x \in S : (\A y \in S : x >= y) => x = n BY <1>1
<1> QED BY <1>1, <1>2 DEF Max

Worth(s) == SegmentScore(s) + 1

\* The function that MapThenFoldSet defines, of the sets of indices up to n.
Sums(path, n, g) ==
    g = [S \in SUBSET (1 .. n) |->
            IF S = {} THEN 0 ELSE g[S \ {Max(S)}] + SegmentScore(path[Max(S)]) + 1]

SumOf(path) == CHOOSE g : Sums(path, Len(path), g)

LEMMA SumExists ==
    ASSUME NEW path, NEW n \in Nat
    PROVE  \E g : Sums(path, n, g)
<1> DEFINE T == {m \in 0 .. n : \E g : Sums(path, m, g)}
<1>1. 0 \in T
  <2> DEFINE g == [S \in SUBSET (1 .. 0) |-> 0]
  <2>1. SUBSET (1 .. 0) = {{}} OBVIOUS
  <2>2. Sums(path, 0, g) BY <2>1 DEF Sums
  <2> QED BY <2>2
<1>2. ASSUME NEW m \in 1 .. n, m - 1 \in T PROVE m \in T
  <2>1. PICK g : Sums(path, m - 1, g) BY <1>2
  <2> DEFINE h == [S \in SUBSET (1 .. m) |->
                      IF S = {} THEN 0
                      ELSE IF m \in S THEN g[S \ {m}] + SegmentScore(path[m]) + 1 ELSE g[S]]
  <2>2. ASSUME NEW S \in SUBSET (1 .. m - 1) PROVE h[S] = g[S]
    <3>1. S \in SUBSET (1 .. m) /\ m \notin S OBVIOUS
    <3>2. S = {} => g[S] = 0 BY <2>1 DEF Sums
    <3> QED BY <3>1, <3>2
  <2>3. ASSUME NEW S \in SUBSET (1 .. m), S # {}
        PROVE  h[S] = h[S \ {Max(S)}] + SegmentScore(path[Max(S)]) + 1
    <3>1. CASE m \in S
      <4>1. Max(S) = m /\ S \ {m} \in SUBSET (1 .. m - 1) BY <3>1, GreatestIndex
      <4>2. h[S] = g[S \ {m}] + SegmentScore(path[m]) + 1 BY <2>3, <3>1
      <4>3. h[S \ {m}] = g[S \ {m}] BY <2>2, <4>1
      <4> HIDE DEF h
      <4> QED BY <4>1, <4>2, <4>3
    <3>2. CASE m \notin S
      <4>1. \A i \in 1 .. m : i # m => i \in 1 .. m - 1 OBVIOUS
      <4>2. S \in SUBSET (1 .. m - 1) BY <3>2, <4>1
      <4>3. S \ {Max(S)} \in SUBSET (1 .. m - 1) BY <4>2
      <4>4. h[S] = g[S] /\ h[S \ {Max(S)}] = g[S \ {Max(S)}] BY <2>2, <4>2, <4>3
      <4>5. g[S] = g[S \ {Max(S)}] + SegmentScore(path[Max(S)]) + 1
            BY <2>1, <2>3, <4>2 DEF Sums
      <4> HIDE DEF h
      <4> QED BY <4>4, <4>5
    <3> QED BY <3>1, <3>2
  <2>4. h[{}] = 0 OBVIOUS
  <2>5. h = [S \in SUBSET (1 .. m) |-> h[S]] OBVIOUS
  <2> HIDE DEF h
  <2>6. Sums(path, m, h) BY <2>3, <2>4, <2>5 DEF Sums
  <2> QED BY <2>6
<1> HIDE DEF T
<1>3. n \in T BY <1>1, <1>2, AlongPath
<1> QED BY <1>3 DEF T

\* The score of a pattern adds up over its segments.
LEMMA ScoreChain ==
    ASSUME NEW X, NEW path \in Seq(X)
    PROVE  \E W : /\ W[0] = 0 /\ W[Len(path)] = Specificity(path)
                  /\ \A k \in 1 .. Len(path) : W[k] = W[k - 1] + Worth(path[k])
<1> DEFINE n == Len(path)
           g == SumOf(path)
           W == [k \in 0 .. n |-> g[1 .. k]]
<1>1. Sums(path, n, g) BY SumExists DEF SumOf
<1>2. Specificity(path) = g[1 .. n]
  <2>1. DOMAIN path = 1 .. Len(path) OBVIOUS
  <2> QED BY <2>1 DEF Specificity, FoldLeft, MapThenFoldSet, SumOf, Sums
<1>3. W[0] = 0 BY <1>1 DEF Sums
<1>4. ASSUME NEW k \in 1 .. n PROVE W[k] = W[k - 1] + SegmentScore(path[k]) + 1
  <2>1. 1 .. k \in SUBSET (1 .. n) /\ 1 .. k # {} /\ (1 .. k) \ {k} = 1 .. (k - 1)
    <3>1. 1 \in 1 .. k /\ \A i \in 1 .. k : i \in 1 .. n OBVIOUS
    <3>2. \A i : i \in (1 .. k) \ {k} <=> i \in 1 .. (k - 1) OBVIOUS
    <3> QED BY <3>1, <3>2
  <2>2. Max(1 .. k) = k BY GreatestIndex
  <2>3. g[1 .. k] = g[(1 .. k) \ {k}] + SegmentScore(path[k]) + 1 BY <1>1, <2>1, <2>2 DEF Sums
  <2>4. W[k] = g[1 .. k] /\ W[k - 1] = g[1 .. (k - 1)] OBVIOUS
  <2> HIDE DEF W, g
  <2> QED BY <2>1, <2>3, <2>4
<1>5. W[n] = g[1 .. n] OBVIOUS
<1> HIDE DEF W, g
<1>6. ASSUME NEW k \in 1 .. n PROVE W[k] \in Nat
  <2> DEFINE T == {j \in 0 .. n : W[j] \in Nat}
  <2>1. 0 \in T BY <1>3
  <2>2. ASSUME NEW j \in 1 .. n, j - 1 \in T PROVE j \in T
    <3>1. SegmentScore(path[j]) \in Nat BY DEF SegmentScore
    <3>2. W[j - 1] \in Nat BY <2>2
    <3> QED BY <1>4, <3>1, <3>2
  <2> HIDE DEF T
  <2>3. n \in Nat OBVIOUS
  <2> HIDE DEF n
  <2>4. \A j \in 0 .. n : j \in T BY <2>1, <2>2, <2>3, AlongPath
  <2>5. k \in T BY <2>3, <2>4
  <2> QED BY <2>5 DEF T
<1>7. ASSUME NEW k \in 1 .. n PROVE W[k] = W[k - 1] + Worth(path[k])
  <2>1. k = 1 \/ k - 1 \in 1 .. n OBVIOUS
  <2>2. W[k - 1] \in Nat BY <1>3, <1>6, <2>1
  <2>3. SegmentScore(path[k]) \in Nat BY DEF SegmentScore
  <2> QED BY <1>4, <2>2, <2>3 DEF Worth
<1> QED BY <1>2, <1>3, <1>5, <1>7

\* A longer pattern of segments that are worth as much, or more, has a higher score.
LEMMA HigherScore ==
    ASSUME NEW X, NEW p \in Seq(X), NEW q \in Seq(X), Len(p) >= Len(q),
           \A i \in 1 .. Len(q) : Worth(p[i]) >= Worth(q[i]),
           Len(p) > Len(q) \/ \E i \in 1 .. Len(q) : Worth(p[i]) > Worth(q[i])
    PROVE  Specificity(p) > Specificity(q)
<1>1. PICK V : /\ V[0] = 0 /\ V[Len(p)] = Specificity(p)
               /\ \A k \in 1 .. Len(p) : V[k] = V[k - 1] + Worth(p[k])
      BY ScoreChain
<1>2. PICK W : /\ W[0] = 0 /\ W[Len(q)] = Specificity(q)
               /\ \A k \in 1 .. Len(q) : W[k] = W[k - 1] + Worth(q[k])
      BY ScoreChain
<1> DEFINE m == Len(q)
           n == Len(p)
           Ahead(k) == \E i \in 1 .. k : Worth(p[i]) > Worth(q[i])
<1>3. m \in Nat /\ n \in Nat /\ m =< n OBVIOUS
<1>4. \A s : Worth(s) \in 2 .. 4 BY DEF Worth, SegmentScore
<1> HIDE DEF m, n
<1>5. V[m] \in Nat /\ W[m] \in Nat /\ V[m] >= W[m] /\ (Ahead(m) => V[m] > W[m])
  <2> DEFINE Up(k) == V[k] \in Nat /\ W[k] \in Nat /\ V[k] >= W[k] /\ (Ahead(k) => V[k] > W[k])
             T == {k \in 0 .. m : Up(k)}
  <2>1. 0 \in T BY <1>1, <1>2, <1>3
  <2>2. ASSUME NEW k \in 1 .. m, k - 1 \in T PROVE k \in T
    <3>1. Up(k - 1) BY <2>2
    <3>2. PICK v, w, x, y : v = V[k - 1] /\ w = W[k - 1] /\ x = Worth(p[k]) /\ y = Worth(q[k])
          OBVIOUS
    <3>3. V[k] = v + x /\ W[k] = w + y BY <1>1, <1>2, <1>3, <3>2 DEF m, n
    <3>4. x \in 2 .. 4 /\ y \in 2 .. 4 BY <1>4, <3>2
    <3>5. x >= y BY <3>2 DEF m
    <3>6. v \in Nat /\ w \in Nat /\ v >= w /\ (Ahead(k - 1) => v > w) BY <3>1, <3>2
    <3>7. Ahead(k) => Ahead(k - 1) \/ x > y
      <4>1. \A i \in 1 .. k : i = k \/ i \in 1 .. k - 1 BY <1>3
      <4> QED BY <3>2, <4>1
    <3> HIDE DEF Ahead
    <3>8. V[k] \in Nat /\ W[k] \in Nat /\ V[k] >= W[k] BY <3>3, <3>4, <3>5, <3>6
    <3>9. Ahead(k) => V[k] > W[k]
      <4>1. CASE x > y BY <3>3, <3>4, <3>6, <4>1
      <4>2. CASE Ahead(k - 1) BY <3>3, <3>4, <3>5, <3>6, <4>2
      <4> QED BY <3>7, <4>1, <4>2
    <3> QED BY <1>3, <3>8, <3>9
  <2> HIDE DEF T, Up
  <2>3. \A k \in 0 .. m : k \in T BY <1>3, <2>1, <2>2, AlongPath
  <2>4. m \in T BY <1>3, <2>3
  <2> QED BY <2>4 DEF T, Up
<1>6. V[n] \in Nat /\ V[n] >= V[m] /\ (n > m => V[n] > V[m])
  <2> DEFINE Up(k) == V[m + k] \in Nat /\ V[m + k] >= V[m] /\ (k > 0 => V[m + k] > V[m])
             T == {k \in 0 .. n - m : Up(k)}
  <2>1. 0 \in T BY <1>3, <1>5
  <2>2. ASSUME NEW k \in 1 .. n - m, k - 1 \in T PROVE k \in T
    <3>1. Up(k - 1) BY <2>2
    <3>2. m + k \in 1 .. n /\ (m + k) - 1 = m + (k - 1) BY <1>3
    <3>3. PICK j : j = m + k OBVIOUS
    <3>4. PICK v, x : v = V[m + (k - 1)] /\ x = Worth(p[j]) OBVIOUS
    <3>5. V[j] = v + x BY <1>1, <3>2, <3>3, <3>4 DEF n
    <3>6. x \in 2 .. 4 BY <1>4, <3>4
    <3>7. v \in Nat /\ v >= V[m] BY <3>1, <3>4
    <3>8. V[j] \in Nat /\ V[j] > V[m] BY <1>5, <3>5, <3>6, <3>7
    <3> QED BY <1>5, <3>3, <3>8
  <2> HIDE DEF T, Up
  <2> DEFINE d == n - m
  <2>3. d \in Nat BY <1>3
  <2> HIDE DEF d
  <2>4. \A k \in 1 .. d : k - 1 \in T => k \in T BY <2>2 DEF d
  <2>5. \A k \in 0 .. d : k \in T BY <2>1, <2>3, <2>4, AlongPath
  <2>6. Up(d) BY <2>3, <2>5 DEF T
  <2>7. m + d = n BY <1>3 DEF d
  <2> QED BY <1>3, <2>3, <2>6, <2>7 DEF Up, d
<1>7. n > m \/ Ahead(m) BY DEF m, n
<1>8. V[n] > W[m] BY <1>5, <1>6, <1>7
<1> QED BY <1>1, <1>2, <1>8 DEF m, n

Rest(pattern) == Len(pattern) > 0 /\ pattern[Len(pattern)] = Wildcard

\* What a sample tells about a pattern that matches it.
LEMMA SampleMatches ==
    ASSUME NEW X, NEW p \in Seq(X), NEW s,
           NEW n \in {Len(p) - 1, Len(p)}, n >= 0, n = Len(p) - 1 => Rest(p)
    PROVE  Matches(p, Sample(p, n, s))
<1> DEFINE path == Sample(p, n, s)
<1>1. Len(p) \in Nat /\ n \in Nat OBVIOUS
<1>2. DOMAIN path = 1 .. n BY DEF Sample
<1>3. Len(path) = n BY <1>1, <1>2 DEF Sample
<1>4. \A i \in 1 .. n : p[i] \in Params \cup {Wildcard, path[i]} BY DEF Sample
<1> HIDE DEF path
<1>5. CASE Rest(p)
  <2>1. Len(path) >= Len(p) - 1 BY <1>1, <1>3
  <2>2. \A i \in 1 .. Len(p) - 1 : i \in 1 .. n BY <1>1
  <2> QED BY <1>4, <1>5, <2>1, <2>2 DEF Rest, Matches, path
<1>6. CASE ~Rest(p)
  <2>1. n = Len(p) BY <1>6
  <2> QED BY <1>3, <1>4, <1>6, <2>1 DEF Rest, Matches, path
<1> QED BY <1>5, <1>6

LEMMA SampleMatched ==
    ASSUME NEW X, NEW p, NEW q \in Seq(X), NEW n \in Nat, NEW s, Matches(q, Sample(p, n, s))
    PROVE  /\ IF Rest(q) THEN n >= Len(q) - 1 ELSE n = Len(q)
           /\ \A i \in 1 .. (IF Rest(q) THEN Len(q) - 1 ELSE Len(q)) :
                q[i] \in Params \cup {Wildcard}
                    \/ q[i] = IF p[i] \in Params \cup {Wildcard} THEN s ELSE p[i]
<1> DEFINE path == Sample(p, n, s)
<1>1. Len(path) = n
  <2>1. DOMAIN path = 1 .. n BY DEF Sample
  <2> QED BY <2>1 DEF Sample
<1>2. \A i \in 1 .. n : path[i] = IF p[i] \in Params \cup {Wildcard} THEN s ELSE p[i]
      BY DEF Sample
<1> HIDE DEF path
<1>3. CASE Rest(q)
  <2>1. n >= Len(q) - 1 BY <1>1, <1>3 DEF Matches, Rest, path
  <2>2. \A i \in 1 .. Len(q) - 1 : q[i] \in Params \cup {Wildcard, path[i]}
        BY <1>3 DEF Matches, Rest, path
  <2> QED BY <1>2, <1>3, <2>1, <2>2
<1>4. CASE ~Rest(q)
  <2>1. n = Len(q) BY <1>1, <1>4 DEF Matches, Rest, path
  <2>2. \A i \in 1 .. Len(q) : q[i] \in Params \cup {Wildcard, path[i]}
        BY <1>4 DEF Matches, Rest, path
  <2> QED BY <1>2, <1>4, <2>1, <2>2
<1> QED BY <1>3, <1>4

\* A pattern that matches only a part of what another one matches scores higher.
LEMMA NarrowerScore ==
    ASSUME NEW X, NEW p \in Seq(X), NEW q \in Seq(X), NEW c, NEW d, c # d,
           \A s \in {c, d}, n \in {Len(p) - 1, Len(p)} : Sample(p, n, s) \in Paths,
           MatchedBy(p) \subseteq MatchedBy(q), MatchedBy(p) # MatchedBy(q),
           ~EmptyRest(p, q), ~Outscored(p, q)
    PROVE  Specificity(p) > Specificity(q)
<1> DEFINE m == Len(q)
           n == Len(p)
           Free == Params \cup {Wildcard}
<1>1. m \in Nat /\ n \in Nat OBVIOUS
<1>2. ASSUME NEW s \in {c, d}, NEW k \in {n - 1, n}, k >= 0, k = n - 1 => Rest(p)
      PROVE  Matches(q, Sample(p, k, s))
  <2>1. Sample(p, k, s) \in Paths OBVIOUS
  <2>2. Matches(p, Sample(p, k, s)) BY <1>2, SampleMatches
  <2> QED BY <2>1, <2>2 DEF MatchedBy
<1>3. ASSUME NEW s \in {c, d}, NEW k \in {n - 1, n}, k >= 0, k = n - 1 => Rest(p)
      PROVE  /\ Rest(q) => k >= m - 1
             /\ ~Rest(q) => k = m
             /\ \A i \in 1 .. m : (Rest(q) => i < m) =>
                    q[i] \in Free \/ q[i] = IF p[i] \in Free THEN s ELSE p[i]
  <2>1. k \in Nat BY <1>1, <1>3
  <2>2. Matches(q, Sample(p, k, s)) BY <1>2, <1>3
  <2>3. /\ IF Rest(q) THEN k >= Len(q) - 1 ELSE k = Len(q)
        /\ \A i \in 1 .. (IF Rest(q) THEN Len(q) - 1 ELSE Len(q)) :
                q[i] \in Params \cup {Wildcard}
                    \/ q[i] = IF p[i] \in Params \cup {Wildcard} THEN s ELSE p[i]
        BY <2>1, <2>2, SampleMatched
  <2>4. CASE Rest(q) BY <1>1, <2>3, <2>4
  <2>5. CASE ~Rest(q) BY <1>1, <2>3, <2>5
  <2> QED BY <2>4, <2>5
<1>4. Rest(p) => n >= 1 BY <1>1 DEF Rest
<1>5. Rest(p) => Rest(q)
  <2>1. SUFFICES ASSUME Rest(p), ~Rest(q) PROVE FALSE OBVIOUS
  <2>2. n = m BY <1>1, <1>3, <2>1
  <2>3. n - 1 = m BY <1>1, <1>3, <1>4, <2>1
  <2> QED BY <1>1, <2>2, <2>3
<1>6. /\ n >= m
      /\ ~Rest(q) => n = m
  <2>1. CASE ~Rest(q) BY <1>1, <1>3, <2>1
  <2>2. CASE Rest(q) /\ Rest(p)
    <3>1. n - 1 >= m - 1 BY <1>1, <1>3, <1>4, <2>2
    <3> QED BY <1>1, <2>2, <3>1
  <2>3. CASE Rest(q) /\ ~Rest(p)
    <3>1. n >= m - 1 BY <1>1, <1>3, <2>3
    <3>2. Last(q) = Wildcard BY <2>3 DEF Last, Rest
    <3>3. m # n + 1 BY <3>2 DEF EmptyRest
    <3> QED BY <1>1, <2>3, <3>1, <3>3
  <2> QED BY <2>1, <2>2, <2>3
<1>7. \A i \in 1 .. m : q[i] \in Free \/ (q[i] = p[i] /\ p[i] \notin Free)
  <2>1. TAKE i \in 1 .. m
  <2>2. CASE Rest(q) /\ i = m BY <2>2 DEF Rest
  <2>3. CASE Rest(q) => i < m
    <3>1. \A s \in {c, d} : q[i] \in Free \/ q[i] = IF p[i] \in Free THEN s ELSE p[i]
          BY <1>1, <1>3, <2>3
    <3> HIDE DEF Free, m, n
    <3>2. CASE p[i] \in Free BY <3>1, <3>2
    <3>3. CASE p[i] \notin Free BY <3>1, <3>3
    <3> QED BY <3>2, <3>3
  <2> QED BY <1>1, <2>2, <2>3
<1>8. \A i \in 1 .. m : p[i] = Wildcard => q[i] = Wildcard
  <2>1. TAKE i \in 1 .. m
  <2>2. i \in DOMAIN p \cap DOMAIN q BY <1>1, <1>6
  <2>3. p[i] = Wildcard => q[i] \in Free BY <1>7
  <2> QED BY <2>2, <2>3 DEF Outscored
<1>9. \A i \in 1 .. m :
        /\ Worth(p[i]) >= Worth(q[i])
        /\ Worth(p[i]) = Worth(q[i]) => p[i] = q[i] \/ {p[i], q[i]} \subseteq Params
  <2>1. TAKE i \in 1 .. m
  <2>2. p[i] = Wildcard => q[i] = Wildcard BY <1>8
  <2>3. q[i] \in Free \/ (q[i] = p[i] /\ p[i] \notin Free) BY <1>7
  <2> QED BY <2>2, <2>3, SegmentsAssumption DEF Worth, SegmentScore
<1>10. n > m \/ \E i \in 1 .. m : Worth(p[i]) > Worth(q[i])
  <2>1. SUFFICES ASSUME n = m, \A i \in 1 .. m : ~(Worth(p[i]) > Worth(q[i]))
                 PROVE  MatchedBy(p) = MatchedBy(q)
        BY <1>1, <1>6
  <2>2. \A s : Worth(s) \in Nat BY DEF Worth, SegmentScore
  <2>3. \A i \in 1 .. m : p[i] = q[i] \/ {p[i], q[i]} \subseteq Params
        BY <1>9, <2>1, <2>2
  <2>4. Rest(p) <=> Rest(q)
    <3>1. CASE m = 0 BY <2>1, <3>1 DEF Rest
    <3>2. CASE m > 0
      <4>1. p[m] = q[m] \/ {p[m], q[m]} \subseteq Params BY <1>1, <2>3, <3>2
      <4> QED BY <2>1, <3>2, <4>1, SegmentsAssumption DEF Rest
    <3> QED BY <1>1, <3>1, <3>2
  <2>5. ASSUME NEW path \in Paths PROVE Matches(p, path) <=> Matches(q, path)
    <3>1. \A i \in 1 .. m : p[i] \in Params \cup {Wildcard, path[i]}
                            <=> q[i] \in Params \cup {Wildcard, path[i]}
          BY <2>3
    <3>2. CASE Rest(p)
      <4>1. \A i \in 1 .. m - 1 : i \in 1 .. m BY <1>1
      <4> QED BY <2>1, <2>4, <3>1, <3>2, <4>1 DEF Matches, Rest
    <3>3. CASE ~Rest(p)
          BY <2>1, <2>4, <3>1, <3>3 DEF Matches, Rest
    <3> QED BY <3>2, <3>3
  <2> QED BY <2>5 DEF MatchedBy
<1> HIDE DEF m, n
<1>11. /\ Len(p) >= Len(q)
       /\ \A i \in 1 .. Len(q) : Worth(p[i]) >= Worth(q[i])
       /\ Len(p) > Len(q) \/ \E i \in 1 .. Len(q) : Worth(p[i]) > Worth(q[i])
       BY <1>6, <1>9, <1>10 DEF m, n
<1> QED BY <1>11, HigherScore

\* "so /users/healthz matches before /users/:id": in any table, for any paths of requests that
\* tell the patterns apart, a route that matches only a part of what another one matches comes
\* before it, however many literals and parameters they have -- with the two exceptions.
THEOREM NarrowFirst == ContextsSpec => []NarrowerFirst
<1>1. AuthInv => NarrowerFirst
  <2>1. SUFFICES ASSUME AuthInv, table # None, NEW s \in table, NEW t \in table,
                        MatchedBy(s.path) \subseteq MatchedBy(t.path),
                        MatchedBy(s.path) # MatchedBy(t.path),
                        ~EmptyRest(s.path, t.path), ~Outscored(s.path, t.path)
                 PROVE  Before(s, t)
        BY DEF NarrowerFirst
  <2>2. table = RouteTable(options) /\ options \in RouterOptions BY <2>1 DEF AuthInv
  <2>3. PICK c, d : c # d /\ \A o \in RouterOptions : \A u \in RouteTable(o) :
            /\ u.path \in Seq(DOMAIN Length)
            /\ \A e \in {c, d}, n \in {Len(u.path) - 1, Len(u.path)} :
                Sample(u.path, n, e) \in Paths
        BY PathsAssumption
  <2>4. PICK p, q : p = s.path /\ q = t.path OBVIOUS
  <2>5. /\ p \in Seq(DOMAIN Length) /\ q \in Seq(DOMAIN Length)
        /\ \A e \in {c, d}, n \in {Len(p) - 1, Len(p)} : Sample(p, n, e) \in Paths
        BY <2>2, <2>3, <2>4
  <2>6. /\ MatchedBy(p) \subseteq MatchedBy(q) /\ MatchedBy(p) # MatchedBy(q)
        /\ ~EmptyRest(p, q) /\ ~Outscored(p, q)
        BY <2>1, <2>4
  <2>7. Specificity(p) > Specificity(q) BY <2>3, <2>5, <2>6, NarrowerScore
  <2> QED BY <2>4, <2>7 DEF Before
<1> QED BY <1>1, Served, PTL

-----------------------------------------------------------------------------
(* Events and contexts.                                                     *)

\* A context is that of the chain, unless the nulls of an EventMetadata have made a session.
Agrees(context, root) ==
    /\ context.actor = root.actor /\ context.correlation = root.correlation
    /\ \/ context.session = root.session
       \/ root.session = None /\ options.metadata = "instance"

EventInv ==
    \A e \in events :
        /\ e.root \in ExecutionContexts
        /\ e.metadata \in EventMetadata \cup {None}
        /\ options.metadata # "none" =>
            e.metadata \in EventMetadata /\ Agrees(FromEventMetadata(e.metadata), e.root)

WorkerInv ==
    /\ running \in [Workers -> {None} \cup [context : ExecutionContexts, root : ExecutionContexts]]
    /\ options.metadata # "none" =>
        \A w \in Workers : running[w] # None => Agrees(running[w].context, running[w].root)

\* The session of a log entry is that of its context.
LEMMA AgreeingEntries ==
    ASSUME NEW c \in ExecutionContexts, NEW root \in ExecutionContexts, Agrees(c, root),
           ~(root.session = None /\ options.metadata = "instance")
    PROVE  Enriched(c) = Enriched(root)
BY DEF Agrees, Enriched

LEMMA FromMetadataType ==
    ASSUME NEW m \in EventMetadata
    PROVE  FromEventMetadata(m) \in ExecutionContexts
<1>1. m.scope # None /\ m.user # None => [user |-> m.user, scope |-> m.scope] \in Sessions
      BY DEF EventMetadata, Sessions
<1> QED BY <1>1 DEF FromEventMetadata, EventMetadata, ExecutionContexts

\* What an operation records gives its own context back.
LEMMA RecordedMetadata ==
    ASSUME NEW c \in ExecutionContexts, NEW scope \in Scopes \cup {None}
    PROVE  /\ Stored(Metadata(c, scope)) \in EventMetadata
           /\ Agrees(FromEventMetadata(Stored(Metadata(c, scope))), c)
<1> DEFINE m == Metadata(c, scope)
           f(v) == IF v = None /\ options.metadata = "instance" THEN Null ELSE v
<1>1. m \in EventMetadata
  <2>1. c.session # None => c.session.user \in UserIds /\ c.session.scope \in ScopeIds
        BY DEF ExecutionContexts, Sessions
  <2>2. scope \in ScopeIds /\ None \in UserIds BY DEF ScopeIds, UserIds
  <2> QED BY <2>1, <2>2 DEF Metadata, EventMetadata, ExecutionContexts
<1>2. Stored(m) = [actor |-> f(m.actor), correlation |-> f(m.correlation),
                   scope |-> f(m.scope), user |-> f(m.user)]
      BY <1>1 DEF Stored, EventMetadata
<1>3. m.actor # None /\ m.correlation # None
  <2>1. None \notin Actors BY NoneAssumption
  <2>2. None \notin Correlations BY RequestsAssumption, WorkersAssumption DEF Correlations
  <2> QED BY <1>1, <2>1, <2>2 DEF EventMetadata
<1>4. Stored(m) \in EventMetadata
  <2>1. Null \in UserIds /\ Null \in ScopeIds BY DEF UserIds, ScopeIds
  <2> QED BY <1>1, <1>2, <1>3, <2>1 DEF EventMetadata
<1>5. FromEventMetadata(Stored(m)).actor = c.actor
      /\ FromEventMetadata(Stored(m)).correlation = c.correlation
      BY <1>2, <1>3 DEF FromEventMetadata, Metadata
<1>6. CASE c.session # None
  <2>1. c.session \in Sessions BY <1>6 DEF ExecutionContexts
  <2>2. c.session.user # None /\ c.session.scope # None BY <2>1 DEF Sessions
  <2>3. c.session = [user |-> c.session.user, scope |-> c.session.scope] BY <2>1 DEF Sessions
  <2>4. m.user = c.session.user /\ m.scope = c.session.scope BY <1>6 DEF Metadata
  <2>5. FromEventMetadata(Stored(m)).session = c.session
        BY <1>2, <2>2, <2>3, <2>4 DEF FromEventMetadata
  <2> QED BY <1>4, <1>5, <2>5 DEF Agrees
<1>7. CASE c.session = None /\ options.metadata # "instance"
  <2>1. Stored(m).user = None BY <1>2, <1>7 DEF Metadata
  <2>2. FromEventMetadata(Stored(m)).session = None BY <2>1 DEF FromEventMetadata
  <2> QED BY <1>4, <1>5, <1>7, <2>2 DEF Agrees
<1>8. CASE c.session = None /\ options.metadata = "instance"
      BY <1>4, <1>5, <1>8 DEF Agrees
<1> QED BY <1>6, <1>7, <1>8

LEMMA AgreementIsTransitive ==
    ASSUME NEW a, NEW b, NEW c, Agrees(a, b), Agrees(b, c)
    PROVE  Agrees(a, c)
BY DEF Agrees

LEMMA RecordStep ==
    ASSUME EventInv, NEW c \in ExecutionContexts, NEW root \in ExecutionContexts,
           options.metadata # "none" => Agrees(c, root), Record(c, root), UNCHANGED options
    PROVE  EventInv'
<1>1. PICK scope \in Scopes \cup {None} :
        events' = events \cup
            {[metadata |-> IF options.metadata = "none" THEN None
                           ELSE Stored(Metadata(c, scope)), root |-> root]}
      BY DEF Record
<1> DEFINE m == Stored(Metadata(c, scope))
<1>2. m \in EventMetadata /\ Agrees(FromEventMetadata(m), c) BY RecordedMetadata
<1>3. options.metadata # "none" => Agrees(FromEventMetadata(m), root)
      BY <1>2, AgreementIsTransitive
<1>4. SUFFICES ASSUME NEW e \in events'
               PROVE  /\ e.root \in ExecutionContexts
                      /\ e.metadata \in EventMetadata \cup {None}
                      /\ options.metadata # "none" =>
                          /\ e.metadata \in EventMetadata
                          /\ Agrees(FromEventMetadata(e.metadata), e.root)
      BY <1>4 DEF EventInv, Agrees
<1>5. CASE e \in events BY <1>5 DEF EventInv
<1>6. CASE e.root = root /\ e.metadata = IF options.metadata = "none" THEN None ELSE m
      BY <1>2, <1>3, <1>6
<1> QED BY <1>1, <1>5, <1>6

LEMMA RunsStep ==
    ASSUME WorkerInv, NEW w \in Workers, NEW c \in ExecutionContexts,
           NEW root \in ExecutionContexts,
           options.metadata # "none" => Agrees(c, root), Runs(w, c, root), UNCHANGED options
    PROVE  WorkerInv'
<1>1. running' = [running EXCEPT ![w] = [context |-> c, root |-> root]] BY DEF Runs
<1>2. running' \in [Workers -> {None} \cup [context : ExecutionContexts, root : ExecutionContexts]]
      BY <1>1 DEF WorkerInv
<1>3. options.metadata # "none" =>
        \A v \in Workers : running'[v] # None => Agrees(running'[v].context, running'[v].root)
      BY <1>1 DEF WorkerInv
<1> QED BY <1>2, <1>3 DEF WorkerInv, Agrees

LEMMA SystemContextType ==
    ASSUME NEW w \in Workers, NEW actor \in Actors
    PROVE  SystemContext(actor, w) \in ExecutionContexts
BY DEF SystemContext, ExecutionContexts, Correlations

LEMMA DispatchStep ==
    ASSUME EventInv, WorkerInv, NEW w \in Workers, Dispatch(w)
    PROVE  WorkerInv'
<1>1. PICK e \in events : Runs(w, BuildExecutionContext(w, e), e.root) BY DEF Dispatch
<1>2. UNCHANGED options BY <1>1 DEF Runs, vars
<1>3. e.root \in ExecutionContexts BY DEF EventInv
<1>4. CASE e.metadata = None
  <2>1. BuildExecutionContext(w, e) \in ExecutionContexts
        BY <1>4, SystemContextType DEF BuildExecutionContext, Actors
  <2>2. options.metadata = "none" BY <1>4, NoneAssumption DEF EventInv
  <2> QED BY <1>1, <1>2, <1>3, <2>1, <2>2, RunsStep
<1>5. CASE e.metadata # None
  <2>1. BuildExecutionContext(w, e) = FromEventMetadata(e.metadata)
        BY <1>5 DEF BuildExecutionContext
  <2>2. BuildExecutionContext(w, e) \in ExecutionContexts
        BY <1>5, <2>1, FromMetadataType DEF EventInv
  <2>3. options.metadata # "none" => Agrees(BuildExecutionContext(w, e), e.root)
        BY <2>1 DEF EventInv
  <2> QED BY <1>1, <1>2, <1>3, <2>2, <2>3, RunsStep
<1> QED BY <1>4, <1>5

LEMMA ContextsStep ==
    ASSUME RequestInv, EventInv, WorkerInv, [ContextsNext]_allVars
    PROVE  RequestInv' /\ EventInv' /\ WorkerInv'
<1>1. CASE [Next]_vars /\ UNCHANGED busVars
  <2>1. RequestInv' /\ UNCHANGED options BY <1>1, RequestStep
  <2> QED BY <1>1, <2>1 DEF EventInv, WorkerInv, Agrees, busVars
<1>2. ASSUME NEW r \in Requests, RequestRecords(r)
      PROVE  RequestInv' /\ EventInv' /\ WorkerInv'
  <2>1. RequestInv' /\ UNCHANGED options
        BY <1>2, RequestStep DEF RequestRecords, vars
  <2>2. Last(contexts[r]) \in ExecutionContexts
        BY <1>2 DEF RequestRecords, RequestInv, Last
  <2>3. EventInv' BY <1>2, <2>1, <2>2, RecordStep DEF RequestRecords, Agrees
  <2> QED BY <1>2, <2>1, <2>3 DEF RequestRecords, WorkerInv, Agrees
<1>3. ASSUME NEW w \in Workers, JobFires(w) PROVE RequestInv' /\ EventInv' /\ WorkerInv'
  <2>1. SystemContext("job", w) \in ExecutionContexts BY SystemContextType DEF Actors
  <2>2. RequestInv' /\ UNCHANGED <<options, events>>
        BY <1>3, RequestStep DEF JobFires, Runs, vars
  <2>3. WorkerInv' BY <1>3, <2>1, <2>2, RunsStep DEF JobFires, Agrees
  <2> QED BY <2>2, <2>3 DEF EventInv, Agrees
<1>4. ASSUME NEW w \in Workers, Dispatch(w) PROVE RequestInv' /\ EventInv' /\ WorkerInv'
  <2>1. UNCHANGED <<vars, events>> BY <1>4 DEF Dispatch, Runs
  <2>2. RequestInv' /\ UNCHANGED <<options, events>> BY <2>1, RequestStep DEF vars
  <2> QED BY <1>4, <2>2, DispatchStep DEF EventInv, Agrees
<1>5. ASSUME NEW w \in Workers, Settles(w) PROVE RequestInv' /\ EventInv' /\ WorkerInv'
  <2>1. UNCHANGED <<vars, events>> /\ running' = [running EXCEPT ![w] = None]
        BY <1>5 DEF Settles
  <2>2. RequestInv' /\ UNCHANGED <<options, events>> BY <2>1, RequestStep DEF vars
  <2>3. running' \in [Workers -> {None} \cup [context : ExecutionContexts, root : ExecutionContexts]]
        BY <2>1 DEF WorkerInv
  <2> QED BY <2>1, <2>2, <2>3 DEF EventInv, WorkerInv, Agrees
<1>6. ASSUME NEW w \in Workers, WorkerRecords(w)
      PROVE  RequestInv' /\ EventInv' /\ WorkerInv'
  <2>1. RequestInv' /\ UNCHANGED <<options, running>>
        BY <1>6, RequestStep DEF WorkerRecords, vars
  <2>2. running[w].context \in ExecutionContexts /\ running[w].root \in ExecutionContexts
        BY <1>6 DEF WorkerRecords, WorkerInv
  <2>3. EventInv' BY <1>6, <2>1, <2>2, RecordStep DEF WorkerRecords, WorkerInv
  <2> QED BY <2>1, <2>3 DEF WorkerInv, Agrees
<1>7. CASE UNCHANGED allVars BY <1>1, <1>7 DEF allVars
<1> QED BY <1>1, <1>2, <1>3, <1>4, <1>5, <1>6, <1>7 DEF ContextsNext

\* A handler has the correlation id and the actor of the request or job with which its chain
\* of events began, and its session, as its log entries show, however many events there were
\* in between and whatever else runs.
THEOREM HandlersActForOrigin == ContextsSpec => []HandlersKnowOrigin
<1>1. ContextsInit => RequestInv /\ EventInv /\ WorkerInv
      BY InitContexts DEF ContextsInit, EventInv, WorkerInv
<1>2. RequestInv /\ EventInv /\ WorkerInv /\ [ContextsNext]_allVars
        => (RequestInv /\ EventInv /\ WorkerInv)'
      BY ContextsStep
<1>3. WorkerInv => HandlersKnowOrigin
  <2>1. SUFFICES ASSUME WorkerInv, NEW w \in Workers, running[w] # None,
                        options.metadata # "none"
                 PROVE  IF running[w].root.session = None /\ options.metadata = "instance"
                        THEN /\ running[w].context.actor = running[w].root.actor
                             /\ running[w].context.correlation = running[w].root.correlation
                        ELSE Enriched(running[w].context) = Enriched(running[w].root)
        BY <2>1 DEF HandlersKnowOrigin
  <2>2. /\ running[w].context \in ExecutionContexts /\ running[w].root \in ExecutionContexts
        /\ Agrees(running[w].context, running[w].root)
        BY <2>1 DEF WorkerInv
  <2>3. running[w].context.actor = running[w].root.actor
        /\ running[w].context.correlation = running[w].root.correlation
        BY <2>2 DEF Agrees
  <2> QED BY <2>2, <2>3, AgreeingEntries
<1> QED BY <1>1, <1>2, <1>3, PTL DEF ContextsSpec
=============================================================================
