\* Two requests, sessions that are revoked, routers of several kinds, refused ones among them;
\* events of requests and jobs, handled in contexts made of their metadata, over two hops.
CONSTANTS
    r1 = r1
    r2 = r2
    None = None
    Null = Null
    Workers = {w1}
    Scopes = {"own"}
    MaxEvents = 2
    Requests = {r1, r2}
    Params = {":x", ":y"}
    Wildcard = "*"
    Length <- MCLength
    RouterOptions <- MCRouterOptions
    Inputs <- MCInputs
    Users = {"u", "v"}
    Thrown <- MCThrown
    Paths <- MCPaths
SYMMETRY Symmetry
SPECIFICATION ContextsSpec
CHECK_DEADLOCK FALSE
INVARIANTS
    ProtectedStepsAreAuthenticated
    OwnIdentity
    NothingFailsLate
    NarrowerFirst
    HandlersKnowOrigin
