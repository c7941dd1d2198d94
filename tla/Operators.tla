------------------------------ MODULE Operators ------------------------------
(***************************************************************************)
(* Who may change the running service over HTTP, and the MCP wrappers that  *)
(* an operator starts and stops there: auth/operator.ts, routes/operator.ts, *)
(* operator/command-allowlist.ts and the control routes of                  *)
(* routes/dashboard.ts, as server.ts puts them together.                    *)
(***************************************************************************)
EXTENDS Naturals, FiniteSets, Functions

CONSTANTS OperatorPostures,   \* [token, dev]: is an operator token set, is loopback development allowed
          Calls,      \* what a request may look like, see the handlers for its fields
          Upstreams,  \* MCP servers that a wrapper may be put before
          MaxWraps    \* bound: wrappers started in one behaviour

VARIABLES authPosture,    \* the environment that the server was started in
          lastChange, \* ghost: the latest request that changed something, and what it changed
          managed,    \* managedMcpHttpWraps: key -> wrapper
          listening,  \* wrappers that accept connections
          pending,    \* handlers that await a wrapper: [what, wrap, key, call]
          wraps,      \* wrappers started so far; also the source of fresh ids
          appUp       \* fastify has not closed

operatorVars == <<authPosture, lastChange, managed, listening, pending, wraps, appUp>>

Nothing == [did |-> "nothing"]
NoPrincipal == "nobody"
NoWraps == [k \in {} |-> 0]

(***************************************************************************)
(* The guard before every route but the health probes.                     *)
(***************************************************************************)
\* resolveOperator: what was presented decides; a wrong secret never falls through to loopback.
Principal(c) ==
    LET judged(shown, method) == IF shown = "good" THEN method ELSE NoPrincipal
    IN CASE authPosture.token /\ c.bearer # "none" -> judged(c.bearer, "token")
         [] authPosture.token /\ c.bearer = "none" /\ c.cookie # "none" -> judged(c.cookie, "cookie")
         [] OTHER -> IF authPosture.dev /\ c.near THEN "loopback-dev" ELSE NoPrincipal
\* isSafeCookieRequest
SafeForCookie(c) == c.reads \/ c.origin = "same"
\* Mutant: a cookie is as good as a token.
CookieIsEnough(c) == Principal(c) # NoPrincipal
Admitted(c) ==
    /\ Principal(c) # NoPrincipal
    /\ Principal(c) = "cookie" => SafeForCookie(c)
\* rejectCrossOriginMutation, of the catalog and of the dashboard.
CrossOrigin(c) == c.origin = "other"

(***************************************************************************)
(* The routes.                                                             *)
(***************************************************************************)
Mutating(act) == act # "report"
\* Every route that changes something is a POST, and sessions are ended through two doors.
ASSUME OperatorAssumption ==
    \A c \in Calls : /\ Mutating(c.act) => ~c.reads
                     /\ c.act = "terminate" => c.door \in {"catalog", "dashboard"}
\* resolveTypedCommandAction: the command is a declared name, the arguments are plain and the
\* directory stays below the root.
Allowlisted(c) == c.command = "declared"
\* POST /api/operator/actions up to executeAction, and the control routes of the dashboard.
CatalogAccepts(c) == c.wellFormed /\ (Mutating(c.act) => ~CrossOrigin(c) /\ c.confirm)
DashboardAccepts(c) == ~CrossOrigin(c) /\ c.wellFormed /\ (c.act = "terminate" => c.confirm)
Accepted(c) ==
    /\ appUp /\ Admitted(c)
    /\ CASE c.door = "catalog" -> CatalogAccepts(c)
         [] c.door = "dashboard" -> DashboardAccepts(c)
         [] OTHER -> c.wellFormed
Changed(c, what) == lastChange' = [did |-> what, by |-> c]

\* A command on the host, inside a perimeter or in a sandbox, is one that was declared.
CommandIsDeclared(c) == c.act = "command" => Allowlisted(c)
\* The actions that end in the call they make: modes, limits, sessions, credentials, anchors,
\* perimeter, interception, and the commands that are run or planned.
Execute(c) ==
    /\ Accepted(c) /\ ~c.reads /\ Mutating(c.act) /\ c.act \notin {"wrap", "stop"}
    /\ CommandIsDeclared(c)
    /\ Changed(c, c.act)
    /\ UNCHANGED <<authPosture, managed, listening, pending, wraps, appUp>>
\* mcp-http-wrap: the handler awaits runMcpHttpWrap, which ends with a listener or with an error.
WrapBegins(c, u) ==
    /\ Accepted(c) /\ c.act = "wrap" /\ wraps < MaxWraps
    /\ wraps' = wraps + 1
    /\ pending' = pending \cup {[what |-> "wrap", wrap |-> wraps + 1, to |-> u, call |-> c]}
    /\ UNCHANGED <<authPosture, lastChange, managed, listening, appUp>>
\* The key of a wrapper is an id of its own.
WrapKey(p) == p.wrap
WrapListens(p) ==
    /\ p \in pending /\ p.what = "wrap" /\ p.wrap \notin listening
    /\ listening' = listening \cup {p.wrap}
    /\ UNCHANGED <<authPosture, lastChange, managed, pending, wraps, appUp>>
WrapFails(p) ==
    /\ p \in pending /\ p.what = "wrap" /\ p.wrap \notin listening
    /\ pending' = pending \ {p}
    /\ UNCHANGED <<authPosture, lastChange, managed, listening, wraps, appUp>>
WrapEnds(p) ==
    /\ p \in pending /\ p.what = "wrap" /\ p.wrap \in listening
    /\ managed' = [k \in DOMAIN managed \cup {WrapKey(p)} |->
                     IF k = WrapKey(p) THEN p.wrap ELSE managed[k]]
    /\ Changed(p.call, "wrap") /\ pending' = pending \ {p}
    /\ UNCHANGED <<authPosture, listening, wraps, appUp>>
\* mcp-http-stop: the listener is closed at once, the entry goes once the connections are gone.
\* Two stops of one wrapper may be under way together.
StopBegins(c, k) ==
    /\ Accepted(c) /\ c.act = "stop" /\ k \in DOMAIN managed
    /\ listening' = listening \ {managed[k]}
    /\ pending' = pending \cup {[what |-> "stop", wrap |-> managed[k], to |-> k, call |-> c]}
    /\ UNCHANGED <<authPosture, lastChange, managed, wraps, appUp>>
StopEnds(p) ==
    /\ p \in pending /\ p.what = "stop"
    /\ managed' = Restrict(managed, DOMAIN managed \ {p.to})
    /\ Changed(p.call, "stop") /\ pending' = pending \ {p}
    /\ UNCHANGED <<authPosture, listening, wraps, appUp>>
\* onClose: what the map holds is closed; a wrapper still being started is not in it.
CloseApp ==
    /\ appUp /\ appUp' = FALSE
    /\ listening' = listening \ Range(managed) /\ managed' = NoWraps
    /\ UNCHANGED <<authPosture, lastChange, pending, wraps>>

OperatorInit ==
    /\ authPosture \in OperatorPostures /\ lastChange = Nothing /\ managed = NoWraps
    /\ listening = {} /\ pending = {} /\ wraps = 0 /\ appUp = TRUE
OperatorNext ==
    \/ \E c \in Calls :
        \/ Execute(c)
        \/ \E u \in Upstreams : WrapBegins(c, u)
        \/ \E k \in DOMAIN managed : StopBegins(c, k)
    \/ \E p \in pending : WrapListens(p) \/ WrapFails(p) \/ WrapEnds(p) \/ StopEnds(p)
    \/ CloseApp

OperatorSpec == OperatorInit /\ [][OperatorNext]_operatorVars

(***************************************************************************)
(* Properties                                                              *)
(***************************************************************************)
ShowsSecret(c) ==
    \/ c.bearer = "good"
    \/ c.bearer = "none" /\ c.cookie = "good" /\ c.origin = "same"
\* Whatever combination of headers a request carries, it changes the service only if it shows the
\* operator's secret - a cookie only from a page of this service - or if it is a local one in
\* development and shows no wrong secret; a page of another origin changes nothing through the
\* catalog or the dashboard, nothing of the catalog happens unconfirmed, and no command runs that
\* was not declared (resolveOperator, requireOperator, rejectCrossOriginMutation, the 409).
ChangesAreAuthorised ==
    LET c == lastChange.by
    IN lastChange # Nothing =>
        /\ \/ authPosture.token /\ ShowsSecret(c)
           \/ authPosture.dev /\ c.near /\ ~(authPosture.token /\ "bad" \in {c.bearer, c.cookie})
        /\ c.door \in {"catalog", "dashboard"} => c.origin # "other"
        /\ c.door = "catalog" \/ c.act = "terminate" => c.confirm
        /\ c.act = "command" => c.command = "declared"

\* While the service runs, every wrapper that accepts connections can be listed and stopped, or its
\* start is still being answered (mcp-http-wrap and mcp-http-stop share managedMcpHttpWraps across
\* their awaits; onClose, which empties it, does not wait for a start under way).
WrapsStayInReach ==
    appUp => \A w \in listening :
        w \in Range(managed) \/ \E p \in pending : p.what = "wrap" /\ p.wrap = w

\* Operators rule: nothing changes without one, and what one started can be stopped.
OperatorsRule == ChangesAreAuthorised /\ WrapsStayInReach

=============================================================================
