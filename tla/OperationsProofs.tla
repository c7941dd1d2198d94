-------------------------- MODULE OperationsProofs --------------------------
(***************************************************************************)
(* What an operator relies on, for any requests, services, postures and       *)
(* runs: nothing changes without an operator and every wrapper that listens   *)
(* can be stopped (Operators); a service that answers runs the policy its     *)
(* operator set up (Startup); the three modes answer as they should           *)
(* (EgressVerdict); doctor fails on what escaped (Doctor); a credential that  *)
(* was printed stays declared (Onboarding); store, commands and proxy agree   *)
(* who a credential names (Credentials); and a sandboxed command runs as its  *)
(* operator was told (Sandbox).                                               *)
(***************************************************************************)
EXTENDS Operators, Startup, EgressVerdict, Doctor, Onboarding, Credentials, Sandbox,
        FiniteSetTheorems, TLAPS

\* What ChangesAreAuthorised asks of the request behind a change.
Sanctioned(c) ==
    /\ \/ authPosture.token /\ ShowsSecret(c)
       \/ authPosture.dev /\ c.near /\ ~(authPosture.token /\ "bad" \in {c.bearer, c.cookie})
    /\ c.door \in {"catalog", "dashboard"} => c.origin # "other"
    /\ c.door = "catalog" \/ c.act = "terminate" => c.confirm
    /\ c.act = "command" => c.command = "declared"

Starts == {p \in pending : p.what = "wrap"}
Stops == {p \in pending : p.what = "stop"}

\* A handler that awaits was let in, and what changed last was.
AllSanctioned ==
    /\ \A p \in pending : Sanctioned(p.call)
    /\ lastChange # Nothing => Sanctioned(lastChange.by)

\* Ids are fresh: a wrapper is being started, or in the map, or gone, and a stop
\* under way is of one that no longer listens.
FreshWraps ==
    /\ wraps \in Nat
    /\ managed = [k \in DOMAIN managed |-> k] /\ DOMAIN managed \subseteq 1..wraps
    /\ \A p \in Starts : p.wrap \in 1..wraps /\ p.wrap \notin DOMAIN managed
    /\ \A p, q \in Starts : p.wrap = q.wrap => p = q
    /\ \A p \in Stops : /\ p.to \in 1..wraps /\ p.to \notin listening
                       /\ \A q \in Starts : q.wrap # p.to

Reachable == appUp => \A w \in listening : w \in DOMAIN managed \/ \E p \in Starts : p.wrap = w

OperatorInv == AllSanctioned /\ FreshWraps /\ Reachable

-----------------------------------------------------------------------------
\* A request that the guard and the route let through is one that may change
\* something (resolveOperator, requireOperator, rejectCrossOriginMutation).
LEMMA AcceptedIsSanctioned ==
    ASSUME NEW c \in Calls, Accepted(c), Mutating(c.act), CommandIsDeclared(c)
    PROVE  Sanctioned(c)
<1>1. Admitted(c) /\ ~c.reads
  BY OperatorAssumption DEF Accepted
<1>2. \/ authPosture.token /\ ShowsSecret(c)
      \/ authPosture.dev /\ c.near /\ ~(authPosture.token /\ "bad" \in {c.bearer, c.cookie})
  <2>1. CASE authPosture.token /\ c.bearer # "none"
    <3>1. Principal(c) = IF c.bearer = "good" THEN "token" ELSE NoPrincipal
      BY <2>1 DEF Principal
    <3> QED BY <1>1, <2>1, <3>1 DEF Admitted, ShowsSecret
  <2>2. CASE authPosture.token /\ c.bearer = "none" /\ c.cookie # "none"
    <3>1. Principal(c) = IF c.cookie = "good" THEN "cookie" ELSE NoPrincipal
      BY <2>2 DEF Principal
    <3> QED BY <1>1, <2>2, <3>1 DEF Admitted, ShowsSecret, SafeForCookie
  <2>3. CASE /\ ~(authPosture.token /\ c.bearer # "none")
             /\ ~(authPosture.token /\ c.bearer = "none" /\ c.cookie # "none")
    <3>1. Principal(c) = IF authPosture.dev /\ c.near THEN "loopback-dev" ELSE NoPrincipal
      BY <2>3 DEF Principal
    <3>2. authPosture.dev /\ c.near
      BY <1>1, <3>1 DEF Admitted
    <3> QED BY <2>3, <3>2
  <2> QED BY <2>1, <2>2, <2>3
<1>3. c.door = "catalog" => c.origin # "other" /\ c.confirm
  BY DEF Accepted, CatalogAccepts, CrossOrigin
<1>4. c.door = "dashboard" => c.origin # "other" /\ (c.act = "terminate" => c.confirm)
  BY DEF Accepted, DashboardAccepts, CrossOrigin
<1>5. c.act = "terminate" => c.confirm
  BY <1>3, <1>4, OperatorAssumption
<1> QED BY <1>2, <1>3, <1>4, <1>5 DEF Sanctioned, CommandIsDeclared, Allowlisted

-----------------------------------------------------------------------------
LEMMA InitStands == OperatorInit => OperatorInv
<1> SUFFICES ASSUME OperatorInit PROVE OperatorInv
  OBVIOUS
<1>1. managed = [k \in {} |-> 0] /\ DOMAIN managed = {} /\ listening = {} /\ pending = {} /\ wraps = 0
  BY DEF OperatorInit, NoWraps
<1>2. managed = [k \in DOMAIN managed |-> k]
  BY <1>1
<1>3. Starts = {} /\ Stops = {}
  BY <1>1 DEF Starts, Stops
<1> QED BY <1>1, <1>2, <1>3 DEF OperatorInit, OperatorInv, AllSanctioned, FreshWraps, Reachable

LEMMA ExecuteStands ==
    ASSUME OperatorInv, NEW c \in Calls, Execute(c)
    PROVE  OperatorInv'
<1>1. Sanctioned(c)
  BY AcceptedIsSanctioned DEF Execute
<1>2. lastChange'.by = c /\ UNCHANGED <<authPosture, managed, listening, pending, wraps, appUp>>
  BY DEF Execute, Changed
<1>3. AllSanctioned'
  BY <1>1, <1>2 DEF OperatorInv, AllSanctioned, Sanctioned
<1>4. FreshWraps' /\ Reachable'
  BY <1>2 DEF OperatorInv, FreshWraps, Reachable, Starts, Stops
<1> QED BY <1>3, <1>4 DEF OperatorInv

LEMMA WrapBeginsStands ==
    ASSUME OperatorInv, NEW c \in Calls, NEW u \in Upstreams, WrapBegins(c, u)
    PROVE  OperatorInv'
<1> DEFINE n == [what |-> "wrap", wrap |-> wraps + 1, to |-> u, call |-> c]
<1>1. /\ wraps' = wraps + 1 /\ pending' = pending \cup {n}
      /\ UNCHANGED <<authPosture, lastChange, managed, listening, appUp>>
  BY DEF WrapBegins
<1>2. n.what = "wrap" /\ n.wrap = wraps + 1 /\ n.call = c
  OBVIOUS
<1> HIDE DEF n
<1>3. Sanctioned(c)
  BY AcceptedIsSanctioned DEF WrapBegins, Mutating, CommandIsDeclared
<1>4. AllSanctioned'
  BY <1>1, <1>2, <1>3 DEF OperatorInv, AllSanctioned, Sanctioned
<1>5. Starts' = Starts \cup {n} /\ Stops' = Stops
  BY <1>1, <1>2 DEF Starts, Stops
<1>6. FreshWraps'
  BY <1>1, <1>2, <1>5 DEF OperatorInv, FreshWraps
<1>7. Reachable'
  BY <1>1, <1>5 DEF OperatorInv, Reachable
<1> QED BY <1>4, <1>6, <1>7 DEF OperatorInv

LEMMA WrapListensStands ==
    ASSUME OperatorInv, NEW p \in pending, WrapListens(p)
    PROVE  OperatorInv'
<1>1. /\ p \in Starts /\ listening' = listening \cup {p.wrap}
      /\ UNCHANGED <<authPosture, lastChange, managed, pending, wraps, appUp>>
  BY DEF WrapListens, Starts
<1>2. AllSanctioned'
  BY <1>1 DEF OperatorInv, AllSanctioned, Sanctioned
<1>3. Starts' = Starts /\ Stops' = Stops
  BY <1>1 DEF Starts, Stops
<1>4. FreshWraps'
  BY <1>1, <1>3 DEF OperatorInv, FreshWraps
<1>5. Reachable'
  BY <1>1, <1>3 DEF OperatorInv, Reachable
<1> QED BY <1>2, <1>4, <1>5 DEF OperatorInv

LEMMA WrapFailsStands ==
    ASSUME OperatorInv, NEW p \in pending, WrapFails(p)
    PROVE  OperatorInv'
<1>1. /\ p \in Starts /\ p.wrap \notin listening /\ pending' = pending \ {p}
      /\ UNCHANGED <<authPosture, lastChange, managed, listening, wraps, appUp>>
  BY DEF WrapFails, Starts
<1>2. AllSanctioned'
  BY <1>1 DEF OperatorInv, AllSanctioned, Sanctioned
<1>3. Starts' = Starts \ {p} /\ Stops' = Stops
  BY <1>1 DEF Starts, Stops
<1>4. FreshWraps'
  BY <1>1, <1>3 DEF OperatorInv, FreshWraps
<1>5. Reachable'
  BY <1>1, <1>3 DEF OperatorInv, Reachable
<1> QED BY <1>2, <1>4, <1>5 DEF OperatorInv

LEMMA WrapEndsStands ==
    ASSUME OperatorInv, NEW p \in pending, WrapEnds(p)
    PROVE  OperatorInv'
<1>1. /\ p \in Starts /\ pending' = pending \ {p} /\ lastChange'.by = p.call
      /\ managed' = [k \in DOMAIN managed \cup {p.wrap} |-> IF k = p.wrap THEN p.wrap ELSE managed[k]]
      /\ UNCHANGED <<authPosture, listening, wraps, appUp>>
  BY DEF WrapEnds, Starts, WrapKey, Changed
<1>2. AllSanctioned'
  BY <1>1 DEF OperatorInv, AllSanctioned, Sanctioned
<1>3. Starts' = Starts \ {p} /\ Stops' = Stops
  BY <1>1 DEF Starts, Stops
<1>4. DOMAIN managed' = DOMAIN managed \cup {p.wrap}
  BY <1>1
<1>5. \A k \in DOMAIN managed : managed[k] = k
  BY DEF OperatorInv, FreshWraps
<1>6. managed' = [k \in DOMAIN managed' |-> k]
  BY <1>1, <1>4, <1>5
<1>7. FreshWraps'
  BY <1>1, <1>3, <1>4, <1>6 DEF OperatorInv, FreshWraps
<1>8. Reachable'
  BY <1>1, <1>3, <1>4 DEF OperatorInv, Reachable
<1> QED BY <1>2, <1>7, <1>8 DEF OperatorInv

LEMMA StopBeginsStands ==
    ASSUME OperatorInv, NEW c \in Calls, NEW k \in DOMAIN managed, StopBegins(c, k)
    PROVE  OperatorInv'
<1> DEFINE n == [what |-> "stop", wrap |-> managed[k], to |-> k, call |-> c]
<1>1. /\ listening' = listening \ {managed[k]} /\ pending' = pending \cup {n}
      /\ UNCHANGED <<authPosture, lastChange, managed, wraps, appUp>>
  BY DEF StopBegins
<1>2. n.what = "stop" /\ n.to = k /\ n.call = c
  OBVIOUS
<1> HIDE DEF n
<1>3. Sanctioned(c)
  BY AcceptedIsSanctioned DEF StopBegins, Mutating, CommandIsDeclared
<1>4. AllSanctioned'
  BY <1>1, <1>2, <1>3 DEF OperatorInv, AllSanctioned, Sanctioned
<1>5. Starts' = Starts /\ Stops' = Stops \cup {n}
  BY <1>1, <1>2 DEF Starts, Stops
<1>6. managed[k] = k
  BY DEF OperatorInv, FreshWraps
<1>7. FreshWraps'
  BY <1>1, <1>2, <1>5, <1>6 DEF OperatorInv, FreshWraps
<1>8. Reachable'
  BY <1>1, <1>5 DEF OperatorInv, Reachable
<1> QED BY <1>4, <1>7, <1>8 DEF OperatorInv

LEMMA StopEndsStands ==
    ASSUME OperatorInv, NEW p \in pending, StopEnds(p)
    PROVE  OperatorInv'
<1>1. /\ p \in Stops /\ pending' = pending \ {p} /\ lastChange'.by = p.call
      /\ managed' = [k \in DOMAIN managed \ {p.to} |-> managed[k]]
      /\ UNCHANGED <<authPosture, listening, wraps, appUp>>
  BY DEF StopEnds, Stops, Restrict, Changed
<1>2. AllSanctioned'
  BY <1>1 DEF OperatorInv, AllSanctioned, Sanctioned
<1>3. Starts' = Starts /\ Stops' = Stops \ {p}
  BY <1>1 DEF Starts, Stops
<1>4. DOMAIN managed' = DOMAIN managed \ {p.to}
  BY <1>1
<1>5. \A k \in DOMAIN managed : managed[k] = k
  BY DEF OperatorInv, FreshWraps
<1>6. managed' = [k \in DOMAIN managed' |-> k]
  BY <1>1, <1>4, <1>5
<1>7. FreshWraps'
  BY <1>1, <1>3, <1>4, <1>6 DEF OperatorInv, FreshWraps
<1>8. Reachable'
  BY <1>1, <1>3, <1>4 DEF OperatorInv, Reachable, FreshWraps
<1> QED BY <1>2, <1>7, <1>8 DEF OperatorInv

LEMMA CloseAppStands ==
    ASSUME OperatorInv, CloseApp
    PROVE  OperatorInv'
<1>1. /\ ~appUp' /\ listening' \subseteq listening /\ managed' = [k \in {} |-> 0]
      /\ UNCHANGED <<authPosture, lastChange, pending, wraps>>
  BY DEF CloseApp, NoWraps
<1>2. AllSanctioned'
  BY <1>1 DEF OperatorInv, AllSanctioned, Sanctioned
<1>3. Starts' = Starts /\ Stops' = Stops
  BY <1>1 DEF Starts, Stops
<1>4. DOMAIN managed' = {} /\ managed' = [k \in DOMAIN managed' |-> k]
  BY <1>1
<1>5. FreshWraps'
  BY <1>1, <1>3, <1>4 DEF OperatorInv, FreshWraps
<1> QED BY <1>1, <1>2, <1>5 DEF OperatorInv, Reachable

LEMMA StepStands == OperatorInv /\ [OperatorNext]_operatorVars => OperatorInv'
<1> SUFFICES ASSUME OperatorInv, [OperatorNext]_operatorVars PROVE OperatorInv'
  OBVIOUS
<1>1. CASE UNCHANGED operatorVars
  BY <1>1 DEF operatorVars, OperatorInv, AllSanctioned, Sanctioned, FreshWraps, Reachable, Starts, Stops
<1>2. ASSUME NEW c \in Calls,
             \/ Execute(c)
             \/ \E u \in Upstreams : WrapBegins(c, u)
             \/ \E k \in DOMAIN managed : StopBegins(c, k)
      PROVE  OperatorInv'
  BY <1>2, ExecuteStands, WrapBeginsStands, StopBeginsStands
<1>3. ASSUME NEW p \in pending, WrapListens(p) \/ WrapFails(p) \/ WrapEnds(p) \/ StopEnds(p)
      PROVE  OperatorInv'
  BY <1>3, WrapListensStands, WrapFailsStands, WrapEndsStands, StopEndsStands
<1> QED BY <1>1, <1>2, <1>3, CloseAppStands DEF OperatorNext

LEMMA StandingIsTheRule == OperatorInv => OperatorsRule
<1> SUFFICES ASSUME OperatorInv PROVE OperatorsRule
  OBVIOUS
<1>1. ChangesAreAuthorised
  BY DEF OperatorInv, AllSanctioned, Sanctioned, ChangesAreAuthorised
<1>2. \A k \in DOMAIN managed : k \in Range(managed)
  BY DEF OperatorInv, FreshWraps, Range
<1>3. WrapsStayInReach
  BY <1>2 DEF OperatorInv, Reachable, WrapsStayInReach, Starts
<1> QED BY <1>1, <1>3 DEF OperatorsRule

\* Whatever requests come, however they present themselves and however starts,
\* stops and the shutdown interleave: what changed last was asked for by somebody
\* who may, confirmed and of this origin where the route wants it, and every
\* wrapper that listens is in the map or its start is still being answered
\* (resolveOperator, the action routes, managedMcpHttpWraps).
THEOREM OperatorsRuleHolds == OperatorSpec => []OperatorsRule
<1>1. OperatorInit => OperatorInv
  BY InitStands
<1>2. OperatorInv /\ [OperatorNext]_operatorVars => OperatorInv'
  BY StepStands
<1>3. OperatorInv => OperatorsRule
  BY StandingIsTheRule
<1> QED BY <1>1, <1>2, <1>3, PTL DEF OperatorSpec

-----------------------------------------------------------------------------
(* From files to listeners.                                                *)

Stages == {"spawned", "loaded", "built", "resolved", "listening", "proxying", "serving", "dead"}
Open == {"listening", "proxying", "serving"}
Proxies == {ServicePort, "proxy", "transparent"}
Services ==
    [stage : Stages, config : {NoFile, Defaults} \cup Configs, proxied : BOOLEAN, bound : SUBSET Proxies,
     reads : BOOLEAN, said : SUBSET Proxies, orphan : BOOLEAN]
Sessions == [service : {"stopped", "starting", "running", "failed"}, child : Nat,
             stopRequested : BOOLEAN, lastExit : {"none", "1", "signal"}]

\* How far a service came is what it has settled: its configuration, its agents, what it reads.
Settled(k) ==
    /\ k.bound # {} => k.stage \in Open
    /\ k.stage \in Stages \ {"spawned", "dead"} => k.config.known = "yes"
    /\ k.stage \in Stages \ {"spawned", "loaded", "dead"} => k.config.fleet # "ambiguous"
    /\ k.stage \in Open \cup {"resolved"} => (k.proxied /\ k.config.interception => k.reads)

\* The page holds the one child it started that may be alive; an exit is news of a dead one.
ChildKept ==
    /\ ActiveChild <=> session.child # 0
    /\ session.child # 0 => session.child \in DOMAIN services
    /\ session.child # 0 => Live(session.child) \/ \E e \in notices : e.child = session.child
    /\ \A n \in DOMAIN services : Live(n) /\ ~services[n].orphan => n = session.child
    /\ \A e \in notices : e.child \in DOMAIN services /\ ~Live(e.child) /\ e.code \in {"1", "signal"}

StartupInv ==
    /\ files.policy \in BOOLEAN /\ files.env \in BOOLEAN /\ files.config \in {NoFile} \cup Configs
    /\ services \in Seq(Services) /\ session \in Sessions
    /\ \A n \in DOMAIN services : Settled(services[n])
    /\ ChildKept

\* One service goes on, or ends with news of it if it is the page's own.
LEMMA OneServiceMoves ==
    ASSUME StartupInv, NEW n \in DOMAIN services, Live(n), NEW k \in Services, Settled(k),
           k.orphan = services[n].orphan, services' = [services EXCEPT ![n] = k],
           UNCHANGED <<files, session>>,
           NEW news, notices' = notices \cup news,
           \A e \in news : k.stage = "dead" /\ e.child = n /\ e.code \in {"1", "signal"},
           k.stage = "dead" /\ session.child = n => news # {}
    PROVE  StartupInv'
<1>1. services \in Seq(Services) /\ n # 0
  BY DEF StartupInv
<1>2. services' \in Seq(Services) /\ DOMAIN services' = DOMAIN services
  BY <1>1
<1>3. \A m \in DOMAIN services : services'[m] = IF m = n THEN k ELSE services[m]
  BY <1>1
<1>4. \A m \in DOMAIN services : Settled(services'[m])
  BY <1>3 DEF StartupInv
<1>5. ChildKept'
  <2>1. \A e \in notices' : e \in notices \/ (e.child = n /\ k.stage = "dead" /\ e.code \in {"1", "signal"})
    OBVIOUS
  <2>2. notices \subseteq notices' /\ (k.stage = "dead" /\ session.child = n => \E e \in notices' : e.child = n)
    OBVIOUS
  <2> QED BY <1>2, <1>3, <2>1, <2>2 DEF StartupInv, ChildKept, Live, ActiveChild
<1> QED BY <1>2, <1>4, <1>5 DEF StartupInv

LEMMA ServiceTyped ==
    ASSUME StartupInv, NEW n \in DOMAIN services
    PROVE  /\ services[n] \in Services /\ Settled(services[n])
           /\ services[n].stage \in Stages /\ services[n].bound \in SUBSET Proxies
           /\ services[n].said \in SUBSET Proxies
<1>1. services[n] \in Services
  BY DEF StartupInv
<1> QED BY <1>1 DEF StartupInv, Services

LEMMA EndsKeeps ==
    ASSUME StartupInv, NEW n \in DOMAIN services, Live(n), NEW code \in {"1", "signal"}, Ends(n, code), UNCHANGED <<files, session>>
    PROVE  StartupInv'
<1> DEFINE k == [services[n] EXCEPT !.stage = "dead", !.bound = {}]
<1>1. k \in Services /\ k.stage = "dead" /\ k.bound = {} /\ k.orphan = services[n].orphan
  BY ServiceTyped DEF Services, Stages
<1>2. services' = [services EXCEPT ![n] = k]
  <2>1. services \in Seq(Services) /\ services[n] \in Services
    BY DEF StartupInv
  <2> QED BY <2>1 DEF Ends, Services
<1> HIDE DEF k
<1>3. Settled(k)
  BY <1>1 DEF Settled, Open
<1>4. PICK news : news = IF session.child = n THEN {[child |-> n, code |-> code]} ELSE {}
  OBVIOUS
<1>5. notices' = notices \cup news
  BY <1>4 DEF Ends
<1>6. /\ \A e \in news : e.child = n /\ e.code \in {"1", "signal"}
      /\ session.child = n => news # {}
  <2>1. CASE session.child = n
    <3>1. PICK e : e = [child |-> n, code |-> code]
      OBVIOUS
    <3>2. news = {e} /\ e.child = n /\ e.code = code
      BY <1>4, <2>1, <3>1
    <3> QED BY <3>2
  <2>2. CASE session.child # n
    BY <1>4, <2>2
  <2> QED BY <2>1, <2>2
<1> QED BY <1>1, <1>2, <1>3, <1>5, <1>6, OneServiceMoves

LEMMA ExitsKeeps ==
    ASSUME StartupInv, NEW n \in DOMAIN services, Live(n), Exits(n) PROVE StartupInv'
BY EndsKeeps DEF Exits

LEMMA GoesKeeps ==
    ASSUME StartupInv, NEW n \in DOMAIN services, Live(n), NEW to \in Stages \ {"dead"}, NEW k \in Services,
           k.orphan = services[n].orphan, Goes(n, to, k), Settled([k EXCEPT !.stage = to])
    PROVE  StartupInv'
<1> DEFINE j == [k EXCEPT !.stage = to]
<1>1. j \in Services /\ j.stage = to /\ j.orphan = k.orphan
  BY DEF Services
<1>2. services' = [services EXCEPT ![n] = j] /\ files' = files /\ session' = session /\ notices' = notices
  BY DEF Goes
<1>3. Settled(j)
  OBVIOUS
<1> HIDE DEF j
<1>4. PICK news : news = {}
  OBVIOUS
<1>5. notices' = notices \cup news /\ (\A e \in news : FALSE) /\ j.stage # "dead"
  BY <1>1, <1>2, <1>4
<1> QED BY <1>1, <1>2, <1>3, <1>5, OneServiceMoves

LEMMA LoadKeeps == ASSUME StartupInv, NEW n \in DOMAIN services, LoadConfig(n) PROVE StartupInv'
<1>1. services[n].stage = "spawned" /\ Live(n) /\ services[n] \in Services /\ Settled(services[n])
  BY ServiceTyped DEF LoadConfig, Live
<1>2. CASE Configured(n).known # "yes"
  BY <1>1, <1>2, ExitsKeeps DEF LoadConfig
<1>3. CASE Configured(n).known = "yes"
  <2>1. PICK c \in {NoFile, Defaults} \cup Configs : c = Configured(n)
    BY DEF Configured, StartupInv
  <2> DEFINE k == [services[n] EXCEPT !.config = c]
  <2>2. k \in Services /\ k.orphan = services[n].orphan /\ k.config = c /\ k.bound = services[n].bound
    BY <1>1 DEF Services
  <2>3. Goes(n, "loaded", k)
    BY <1>3, <2>1 DEF LoadConfig
  <2> DEFINE j == [k EXCEPT !.stage = "loaded"]
  <2> HIDE DEF k
  <2>4. j.config = c /\ j.stage = "loaded" /\ j.bound = services[n].bound
    BY <2>2 DEF Services
  <2> HIDE DEF j
  <2>5. Settled(j)
    BY <1>1, <1>3, <2>1, <2>4 DEF Settled, Stages, Open
  <2> QED BY <1>1, <2>2, <2>3, <2>5, GoesKeeps DEF Stages, j
<1> QED BY <1>2, <1>3

LEMMA BuildKeeps == ASSUME StartupInv, NEW n \in DOMAIN services, BuildServer(n) PROVE StartupInv'
<1>1. services[n].stage = "loaded" /\ Live(n) /\ services[n] \in Services /\ Settled(services[n])
  BY ServiceTyped DEF BuildServer, Live
<1>2. CASE services[n].config.fleet = "ambiguous"
  BY <1>1, <1>2, ExitsKeeps DEF BuildServer
<1>3. CASE services[n].config.fleet # "ambiguous"
  <2> DEFINE k == services[n]
             j == [k EXCEPT !.stage = "built"]
  <2>1. Goes(n, "built", k)
    BY <1>3 DEF BuildServer
  <2> HIDE DEF k
  <2>2. j.config = k.config /\ j.stage = "built" /\ j.bound = k.bound
    BY <1>1 DEF Services, k
  <2> HIDE DEF j
  <2>3. Settled(j)
    BY <1>1, <1>3, <2>2 DEF Settled, Stages, Open, k
  <2> QED BY <1>1, <2>1, <2>3, GoesKeeps DEF Stages, k, j
<1> QED BY <1>2, <1>3

LEMMA ResolveKeeps == ASSUME StartupInv, NEW n \in DOMAIN services, ResolveInterception(n) PROVE StartupInv'
<1>1. services[n].stage = "built" /\ Live(n) /\ services[n] \in Services /\ Settled(services[n])
  BY ServiceTyped DEF ResolveInterception, Live
<1>2. CASE Intercepts(n) /\ ~host.authority
  BY <1>1, <1>2, ExitsKeeps DEF ResolveInterception
<1>3. CASE ~(Intercepts(n) /\ ~host.authority)
  <2>1. PICK b \in BOOLEAN : b = (services[n].proxied /\ services[n].config.interception)
    OBVIOUS
  <2> DEFINE k == [services[n] EXCEPT !.reads = b]
             j == [k EXCEPT !.stage = "resolved"]
  <2>2. k \in Services /\ k.orphan = services[n].orphan /\ k.config = services[n].config /\ k.bound = services[n].bound
        /\ k.reads = b /\ k.proxied = services[n].proxied
    BY <1>1 DEF Services
  <2>3. Goes(n, "resolved", k)
    BY <1>3, <2>1 DEF ResolveInterception, Intercepts
  <2> HIDE DEF k
  <2>4. j.config = services[n].config /\ j.stage = "resolved" /\ j.bound = services[n].bound /\ j.reads = b
        /\ j.proxied = services[n].proxied
    BY <2>2 DEF Services
  <2> HIDE DEF j
  <2>5. Settled(j)
    BY <1>1, <2>1, <2>4 DEF Settled, Stages, Open
  <2> QED BY <1>1, <2>2, <2>3, <2>5, GoesKeeps DEF Stages, j
<1> QED BY <1>2, <1>3

\* A service that has resolved everything opens a port or not, and says so or not.
LEMMA OpenKeeps ==
    ASSUME StartupInv, NEW n \in DOMAIN services, services[n].stage \in {"resolved", "listening", "proxying"},
           NEW to \in Open, NEW bound \in SUBSET Proxies, NEW prints \in SUBSET Proxies,
           Goes(n, to, [services[n] EXCEPT !.bound = bound, !.said = prints])
    PROVE  StartupInv'
<1> DEFINE k == [services[n] EXCEPT !.bound = bound, !.said = prints]
           j == [k EXCEPT !.stage = to]
<1>1. Live(n) /\ services[n] \in Services /\ Settled(services[n]) /\ to \in Stages \ {"dead"}
  BY ServiceTyped DEF Live, Open, Stages
<1>2. k \in Services /\ k.orphan = services[n].orphan /\ k.config = services[n].config
      /\ k.reads = services[n].reads /\ k.proxied = services[n].proxied
  BY <1>1 DEF Services
<1>3. Goes(n, to, k)
  OBVIOUS
<1> HIDE DEF k
<1>4. j.config = services[n].config /\ j.stage = to /\ j.reads = services[n].reads
      /\ j.proxied = services[n].proxied
  BY <1>2 DEF Services
<1> HIDE DEF j
<1>5. Settled(j)
  BY <1>1, <1>4 DEF Settled, Stages, Open
<1> QED BY <1>1, <1>2, <1>3, <1>5, GoesKeeps DEF j

\* As it is, with what it bound and said before.
LEMMA AsItIs ==
    ASSUME StartupInv, NEW n \in DOMAIN services
    PROVE  services[n] = [services[n] EXCEPT !.bound = services[n].bound, !.said = services[n].said]
BY ServiceTyped DEF Services

LEMMA ListenKeeps == ASSUME StartupInv, NEW n \in DOMAIN services, Listen(n) PROVE StartupInv'
<1>1. services[n].stage = "resolved" /\ Live(n) /\ services[n] \in Services /\ services[n].said \in SUBSET Proxies
  BY ServiceTyped DEF Listen, Live
<1>2. CASE ServicePort \in Taken
  BY <1>1, <1>2, ExitsKeeps DEF Listen
<1>3. CASE ServicePort \notin Taken
  <2>1. Goes(n, "listening", [services[n] EXCEPT !.bound = {ServicePort}, !.said = services[n].said])
    BY <1>1, <1>3 DEF Listen, Services, Goes
  <2> QED BY <1>1, <2>1, OpenKeeps DEF Open, Proxies
<1> QED BY <1>2, <1>3

LEMMA ProxyKeeps == ASSUME StartupInv, NEW n \in DOMAIN services, OpenForwardProxy(n) PROVE StartupInv'
<1>1. services[n].stage = "listening" /\ Live(n) /\ services[n] \in Services
      /\ services[n].bound \in SUBSET Proxies /\ services[n].said \in SUBSET Proxies
  BY ServiceTyped DEF OpenForwardProxy, Live
<1> DEFINE bound == services[n].bound \cup {"proxy"}
           prints == services[n].said \cup {"proxy"}
<1>2. CASE ~services[n].proxied
  <2>1. Goes(n, "proxying", [services[n] EXCEPT !.bound = services[n].bound, !.said = services[n].said])
    <3>1. Goes(n, "proxying", services[n])
      BY <1>2 DEF OpenForwardProxy
    <3> QED BY <3>1, AsItIs
  <2> QED BY <1>1, <2>1, OpenKeeps DEF Open
<1>3. CASE services[n].proxied /\ "proxy" \in Taken
  BY <1>1, <1>3, ExitsKeeps DEF OpenForwardProxy
<1>4. CASE services[n].proxied /\ "proxy" \notin Taken
  <2>1. Goes(n, "proxying", [services[n] EXCEPT !.bound = bound, !.said = prints])
    BY <1>4 DEF OpenForwardProxy
  <2>2. bound \in SUBSET Proxies /\ prints \in SUBSET Proxies
    BY <1>1 DEF Proxies
  <2> HIDE DEF bound, prints
  <2> QED BY <1>1, <2>1, <2>2, OpenKeeps DEF Open
<1> QED BY <1>2, <1>3, <1>4

LEMMA TransparentKeeps == ASSUME StartupInv, NEW n \in DOMAIN services, OpenTransparentProxy(n) PROVE StartupInv'
<1>1. services[n].stage = "proxying" /\ Live(n) /\ services[n] \in Services
      /\ services[n].bound \in SUBSET Proxies /\ services[n].said \in SUBSET Proxies
  BY ServiceTyped DEF OpenTransparentProxy, Live
<1> DEFINE bound == services[n].bound \cup ({"transparent"} \ Taken)
           prints == services[n].said \cup {"transparent"}
<1>2. CASE ~services[n].config.transparent
  <2>1. Goes(n, "serving", [services[n] EXCEPT !.bound = services[n].bound, !.said = services[n].said])
    BY <1>2, AsItIs DEF OpenTransparentProxy
  <2> QED BY <1>1, <2>1, OpenKeeps DEF Open
<1>3. CASE services[n].config.transparent
  <2>1. Goes(n, "serving", [services[n] EXCEPT !.bound = bound, !.said = prints])
    BY <1>3 DEF OpenTransparentProxy
  <2>2. bound \in SUBSET Proxies /\ prints \in SUBSET Proxies
    BY <1>1 DEF Proxies
  <2> HIDE DEF bound, prints
  <2> QED BY <1>1, <2>1, <2>2, OpenKeeps DEF Open
<1> QED BY <1>2, <1>3

LEMMA SetupKeeps ==
    ASSUME StartupInv, NEW conf \in Configs, NEW force \in BOOLEAN, NEW written \in 1..3,
           Setup(conf, force, written)
    PROVE  StartupInv'
<1> DEFINE policy == files.policy \/ written >= 2
           env == files.env \/ written >= 3
<1>1. files' = [config |-> conf, policy |-> policy, env |-> env] /\ policy \in BOOLEAN /\ env \in BOOLEAN
  BY DEF Setup
<1> HIDE DEF policy, env
<1>2. files'.policy \in BOOLEAN /\ files'.env \in BOOLEAN /\ files'.config \in {NoFile} \cup Configs
  BY <1>1
<1>3. CASE written = 3
  <2>1. session' = session /\ notices' = notices /\ services' = services
    BY <1>3 DEF Setup
  <2> QED BY <1>2, <2>1 DEF StartupInv, ChildKept, ActiveChild, Live
<1>4. CASE written # 3
  <2>1. /\ session' = FreshSession /\ notices' = {}
        /\ services' = [n \in DOMAIN services |-> [services[n] EXCEPT !.orphan = TRUE]]
    BY <1>4 DEF Setup
  <2>2. services \in Seq(Services)
    BY DEF StartupInv
  <2>3. ASSUME NEW n \in DOMAIN services
        PROVE  services'[n] \in Services /\ Settled(services'[n]) /\ services'[n].orphan
    <3> DEFINE s == services[n]
               k == [s EXCEPT !.orphan = TRUE]
    <3>1. s \in Services /\ Settled(s)
      BY ServiceTyped
    <3>2. services'[n] = k
      BY <2>1
    <3> HIDE DEF s
    <3>3. k \in Services /\ k.stage = s.stage /\ k.bound = s.bound /\ k.config = s.config
          /\ k.proxied = s.proxied /\ k.reads = s.reads /\ k.orphan = TRUE
      BY <3>1 DEF Services
    <3> HIDE DEF k
    <3>4. Settled(k)
      BY <3>1, <3>3 DEF Settled
    <3> QED BY <3>2, <3>3, <3>4
  <2>4. services' \in Seq(Services) /\ DOMAIN services' = DOMAIN services
    <3>1. DOMAIN services = 1..Len(services) /\ Len(services) \in Nat
      BY <2>2
    <3>2. DOMAIN services' = 1..Len(services)
      BY <2>1, <3>1
    <3>3. services' \in [1..Len(services) -> Services]
      BY <2>1, <2>3, <3>1
    <3> QED BY <3>1, <3>2, <3>3
  <2>5. session' \in Sessions /\ ~ActiveChild' /\ session'.child = 0
    BY <2>1 DEF FreshSession, Sessions, ActiveChild
  <2>6. ChildKept'
    BY <2>1, <2>3, <2>4, <2>5 DEF ChildKept
  <2> QED BY <1>2, <2>3, <2>4, <2>5, <2>6 DEF StartupInv
<1> QED BY <1>3, <1>4

LEMMA StartKeeps == ASSUME StartupInv, Start PROVE StartupInv'
<1> DEFINE k == [stage |-> "spawned", config |-> NoFile, proxied |-> files.env, bound |-> {}, reads |-> FALSE,
                 said |-> {}, orphan |-> FALSE]
<1>1. k \in Services /\ k.stage = "spawned" /\ k.bound = {} /\ k.orphan = FALSE
  BY DEF Services, Stages, StartupInv
<1>2. services' = Append(services, k) /\ files' = files /\ notices' = notices
      /\ session' = [service |-> "starting", child |-> Len(services'), stopRequested |-> FALSE, lastExit |-> "none"]
      /\ ~ActiveChild
  BY DEF Start
<1> HIDE DEF k
<1>3. Settled(k)
  BY <1>1 DEF Settled, Open
<1>4. services \in Seq(Services) /\ Len(services) \in Nat
  BY DEF StartupInv
<1>5. /\ services' \in Seq(Services) /\ Len(services') = Len(services) + 1
      /\ \A n \in DOMAIN services : services'[n] = services[n]
      /\ services'[Len(services) + 1] = k
      /\ DOMAIN services = 1..Len(services) /\ DOMAIN services' = 1..(Len(services) + 1)
  BY <1>1, <1>2, <1>4
<1>6. session' \in Sessions /\ session'.child = Len(services) + 1 /\ session'.service = "starting"
  BY <1>2, <1>4, <1>5 DEF Sessions
<1>7. \A n \in DOMAIN services' : n \in DOMAIN services \/ n = Len(services) + 1
  BY <1>4, <1>5
<1>8. \A n \in DOMAIN services' : Settled(services'[n])
  BY <1>3, <1>5, <1>7 DEF StartupInv
<1>9. ChildKept'
  <2>1. Len(services) + 1 \in DOMAIN services' /\ Len(services) + 1 # 0
        /\ \A n \in DOMAIN services : n \in DOMAIN services'
    BY <1>4, <1>5
  <2>2. ActiveChild' /\ session'.child \in DOMAIN services' /\ services'[session'.child].stage # "dead"
        /\ session'.child # 0
    <3>1. services'[session'.child] = k
      BY <1>5, <1>6
    <3> QED BY <1>1, <1>6, <2>1, <3>1 DEF ActiveChild
  <2>3. \A n \in DOMAIN services : ~(Live(n) /\ ~services[n].orphan)
    BY <1>2, <1>4, <1>5 DEF StartupInv, ChildKept
  <2>4. ASSUME NEW n \in DOMAIN services', Live(n)', ~services'[n].orphan PROVE n = session'.child
    BY <1>5, <1>6, <1>7, <2>3, <2>4 DEF Live
  <2>5. ASSUME NEW e \in notices 
        PROVE  e.child \in DOMAIN services' /\ ~Live(e.child)' /\ e.code \in {"1", "signal"}
    <3>1. e.child \in DOMAIN services /\ ~Live(e.child) /\ e.code \in {"1", "signal"}
      BY DEF StartupInv, ChildKept
    <3> QED BY <1>5, <2>1, <3>1 DEF Live
  <2> QED BY <1>2, <1>6, <2>1, <2>2, <2>4, <2>5 DEF ChildKept, Live
<1> QED BY <1>2, <1>5, <1>6, <1>8, <1>9 DEF StartupInv

\* What the page does with its own view.
LEMMA PageKeeps ==
    ASSUME StartupInv, SpawnFails \/ OnSpawn \/ StopChild
    PROVE  StartupInv'
<1>1. services' = services /\ files' = files /\ notices' = notices /\ session \in Sessions
  BY DEF SpawnFails, OnSpawn, StopChild, StartupInv
<1>2. session' \in Sessions /\ (ActiveChild' <=> ActiveChild) /\ session'.child = session.child
  <2>1. CASE SpawnFails
    <3>1. session.child = 0
      BY <2>1 DEF SpawnFails, StartupInv, ChildKept
    <3> QED BY <1>1, <2>1, <3>1 DEF SpawnFails, FreshSession, Sessions, ActiveChild
  <2>2. CASE OnSpawn
    BY <1>1, <2>2 DEF OnSpawn, Sessions, ActiveChild
  <2>3. CASE StopChild
    <3>1. PICK accepted \in BOOLEAN :
             session' = IF ActiveChild THEN [session EXCEPT !.stopRequested = accepted]
                        ELSE [session EXCEPT !.service = "stopped"]
      BY <2>3 DEF StopChild
    <3>2. CASE ActiveChild
      BY <1>1, <3>1, <3>2 DEF Sessions, ActiveChild
    <3>3. CASE ~ActiveChild
      BY <1>1, <3>1, <3>3 DEF Sessions, ActiveChild
    <3> QED BY <3>2, <3>3
  <2> QED BY <2>1, <2>2, <2>3
<1>3. ChildKept'
  BY <1>1, <1>2 DEF StartupInv, ChildKept, Live
<1> QED BY <1>1, <1>2, <1>3 DEF StartupInv

LEMMA OnExitKeeps == ASSUME StartupInv, OnExit PROVE StartupInv'
<1>1. services' = services /\ files' = files
  BY DEF OnExit
<1>2. PICK e \in notices :
         /\ notices' = notices \ {e}
         /\ session' = IF e.child # session.child THEN session
                       ELSE [service |-> IF session.stopRequested \/ e.code = "0" THEN "stopped" ELSE "failed",
                             child |-> 0, stopRequested |-> FALSE, lastExit |-> e.code]
  BY DEF OnExit
<1>3. e.child \in DOMAIN services /\ ~Live(e.child) /\ e.code \in {"1", "signal"}
  BY DEF StartupInv, ChildKept
<1>4. CASE e.child # session.child
  <2>1. session' = session
    BY <1>2, <1>4
  <2>2. \A d \in notices : d.child = session.child => d \in notices'
    BY <1>2, <1>4
  <2>3. ChildKept'
    BY <1>1, <1>2, <2>1, <2>2 DEF StartupInv, ChildKept, Live, ActiveChild
  <2> QED BY <1>1, <2>1, <2>3 DEF StartupInv
<1>5. CASE e.child = session.child
  <2>1. PICK service \in {"stopped", "failed"} :
           session' = [service |-> service, child |-> 0, stopRequested |-> FALSE, lastExit |-> e.code]
    <3>1. (IF session.stopRequested \/ e.code = "0" THEN "stopped" ELSE "failed") \in {"stopped", "failed"}
      OBVIOUS
    <3> QED BY <1>2, <1>5, <3>1
  <2>2. session' \in Sessions /\ ~ActiveChild' /\ session'.child = 0
    BY <1>3, <2>1 DEF Sessions, ActiveChild
  <2>3. \A n \in DOMAIN services : ~(Live(n) /\ ~services[n].orphan)
    BY <1>3, <1>5 DEF StartupInv, ChildKept
  <2>4. \A d \in notices' : d \in notices
    BY <1>2
  <2>5. ChildKept'
    BY <1>1, <2>2, <2>3, <2>4 DEF StartupInv, ChildKept, Live
  <2> QED BY <1>1, <2>2, <2>5 DEF StartupInv
<1> QED BY <1>4, <1>5

LEMMA StartupBegins == StartupInit => StartupInv
<1> SUFFICES ASSUME StartupInit PROVE StartupInv
  OBVIOUS
<1>1. /\ files.config = NoFile /\ files.policy = FALSE /\ files.env = FALSE
      /\ session = FreshSession /\ services = <<>> /\ notices = {} /\ DOMAIN services = {}
  BY DEF StartupInit
<1>2. session \in Sessions /\ ~ActiveChild /\ session.child = 0
  BY <1>1 DEF FreshSession, Sessions, ActiveChild
<1>3. ChildKept
  BY <1>1, <1>2 DEF ChildKept
<1>4. services \in Seq(Services) /\ \A n \in DOMAIN services : Settled(services[n])
  BY <1>1
<1> QED BY <1>1, <1>2, <1>3, <1>4 DEF StartupInv

LEMMA StartupGoesOn == StartupInv /\ [StartupNext]_startupVars => StartupInv'
<1> SUFFICES ASSUME StartupInv, [StartupNext]_startupVars PROVE StartupInv'
  OBVIOUS
<1>1. ASSUME NEW c \in Configs, NEW force \in BOOLEAN, NEW written \in 1..3, Setup(c, force, written)
      PROVE  StartupInv'
  BY <1>1, SetupKeeps
<1>2. ASSUME NEW c \in Configs, Edit(c) PROVE StartupInv'
  <2>1. /\ files' = [files EXCEPT !.config = c] /\ files'.config \in Configs \cup {NoFile}
        /\ session' = session /\ services' = services /\ notices' = notices
    <3>1. PICK f : f = [files EXCEPT !.config = c]
      OBVIOUS
    <3>2. files' = f /\ session' = session /\ services' = services /\ notices' = notices
      BY <1>2, <3>1 DEF Edit
    <3> QED BY <3>1, <3>2
  <2> QED BY <2>1 DEF StartupInv, ChildKept, Live, ActiveChild
<1>3. CASE Start
  BY <1>3, StartKeeps
<1>4. CASE SpawnFails \/ OnSpawn \/ StopChild
  BY <1>4, PageKeeps
<1>5. CASE OnExit
  BY <1>5, OnExitKeeps
<1>6. ASSUME NEW n \in DOMAIN services, ServiceDies(n) PROVE StartupInv'
  BY <1>6, EndsKeeps DEF ServiceDies
<1>7. ASSUME NEW n \in DOMAIN services,
             \/ LoadConfig(n) \/ BuildServer(n) \/ ResolveInterception(n)
             \/ Listen(n) \/ OpenForwardProxy(n) \/ OpenTransparentProxy(n)
      PROVE  StartupInv'
  BY <1>7, LoadKeeps, BuildKeeps, ResolveKeeps, ListenKeeps, ProxyKeeps, TransparentKeeps
<1>8. CASE UNCHANGED startupVars
  BY <1>8 DEF StartupInv, ChildKept, Live, ActiveChild, startupVars
<1> QED BY <1>1, <1>2, <1>3, <1>4, <1>5, <1>6, <1>7, <1>8 DEF StartupNext

LEMMA StartupInvSuffices == StartupInv => StartupIsHonest
<1> SUFFICES ASSUME StartupInv PROVE StartupIsHonest
  OBVIOUS
<1>1. PageTellsTheChild
  BY DEF StartupInv, ChildKept, PageTellsTheChild
<1>2. BoundMeansResolved
  <2> SUFFICES ASSUME NEW n \in DOMAIN services, services[n].bound # {}
               PROVE  /\ services[n].config.known = "yes" /\ services[n].config.fleet # "ambiguous"
                      /\ Intercepts(n) => services[n].reads
    BY DEF BoundMeansResolved
  <2> QED BY ServiceTyped DEF Settled, Open, Stages, Intercepts
<1> QED BY <1>1, <1>2 DEF StartupIsHonest

\* Whatever files are written, cut short or edited, whatever ports others hold and
\* whichever process dies when: the page holds the one child it started that may be
\* alive, and no port is open in a process whose configuration, agents or
\* interception were not settled first (createLocalOperatorFiles, startService, main).
THEOREM StartupStaysHonest == StartupInit /\ [][StartupNext]_startupVars => []StartupIsHonest
<1>1. StartupInit => StartupInv
  BY StartupBegins
<1>2. StartupInv /\ [StartupNext]_startupVars => StartupInv'
  BY StartupGoesOn
<1>3. StartupInv => StartupIsHonest
  BY StartupInvSuffices
<1> QED BY <1>1, <1>2, <1>3, PTL

-----------------------------------------------------------------------------
(* What the three modes answer.                                            *)

\* What a look depends on, apart from the moment it is taken at: whether the
\* destination is on the list that judges its agent, and whether the budget is spent.
HostIn(p, a) == a.host \in (IF DeclaredAgent(a) THEN Either(p.ownHosts, p.hosts) ELSE p.hosts)
PortIn(p, a) == a.port \in (IF DeclaredAgent(a) THEN Either(p.ownPorts, p.ports) ELSE p.ports)
OverIn(p, w, a) == DeclaredAgent(a) /\ p.budget > 0 /\ w >= p.budget

\* The answer of a mode as a function of exactly that and of the rules that are kept.
Context(a, modeAsked, later, hostListed, portListed, over, closed) ==
    [mode |-> modeAsked, host |-> a.host, direction |-> a.direction, kinds |-> FindingKinds(a),
     hostListed |-> hostListed, portListed |-> portListed, declared |-> DeclaredAgent(a),
     refusal |-> a.refusal, over |-> over /\ ~later, closed |-> closed]
EvaluateBy(kept, ctx) ==
    LET matched == {r \in kept : Matches(ctx)[r]}
        decisions == {RuleDecision(r) : r \in matched}
    IN [matched |-> matched,
        decision |-> IF matched = {} THEN "deny"
                     ELSE CHOOSE d \in decisions : \A e \in decisions : Order[e] <= Order[d]]
DeniedBy(result) == result.matched # {} /\ result.decision = "deny"
GatedBy(a, later, over, closed) ==
    \/ a.refusal # "none"
    \/ closed /\ ~DeclaredAgent(a)
    \/ ~later /\ over
    \/ "decoy" \in FindingKinds(a)
Answer(kept, a, mode, later, hostListed, portListed, over, closed) ==
    IF \/ GatedBy(a, later, over, closed)
       \/ mode = "strict" /\ (~hostListed \/ ~portListed)
       \/ DeniedBy(EvaluateBy(kept, Context(a, mode, later, hostListed, portListed, over, closed)))
    THEN "deny" ELSE "allow"
AnswerOf(r, mode) ==
    Answer(r.rules, r.attempt, mode, r.later, HostIn(r.posture, r.attempt), PortIn(r.posture, r.attempt),
           OverIn(r.posture, r.window, r.attempt), r.posture.closed)

\* Each row holds the answer of its own moment.
RowHolds(r) ==
    /\ r.attempt \in Attempts /\ r.posture \in Postures /\ r.window \in Nat /\ r.notes = Notes(r.attempt)
    /\ r.stopped => r.decision = "deny"
    /\ r.projected # Nowhere =>
         \A m \in {"guarded", "strict"} : r.projected[m] = AnswerOf(r, m)
    /\ ~r.stopped /\ r.posture.mode # "monitor" => r.decision = AnswerOf(r, r.posture.mode)

VerdictInv ==
    /\ posture \in Postures /\ window \in Nat
    /\ \A r \in ledger : RowHolds(r)

\* enforce answers from that and nothing else.
LEMMA EnforceIsAnswer ==
    ASSUME NEW a, NEW mode, NEW later
    PROVE  Enforce(a, mode, mode, later) =
             Answer(rules, a, mode, later, HostIn(posture, a), PortIn(posture, a), OverIn(posture, window, a),
                    posture.closed)
<1>1. (HostIn(posture, a) <=> OnHostList(a)) /\ (PortIn(posture, a) <=> OnPortList(a))
  BY DEF HostIn, PortIn, OnHostList, OnPortList, HostList, PortList
<1>2. OverIn(posture, window, a) <=> Over(a)
  BY DEF OverIn, Over, Spending
<1>3. HostIn(posture, a) = OnHostList(a) /\ PortIn(posture, a) = OnPortList(a) /\ OverIn(posture, window, a) = Over(a)
  <2>1. /\ HostIn(posture, a) \in BOOLEAN /\ OnHostList(a) \in BOOLEAN
        /\ PortIn(posture, a) \in BOOLEAN /\ OnPortList(a) \in BOOLEAN
        /\ OverIn(posture, window, a) \in BOOLEAN /\ Over(a) \in BOOLEAN
    BY DEF HostIn, OnHostList, PortIn, OnPortList, OverIn, Over
  <2> QED BY <1>1, <1>2, <2>1
<1>4. Context(a, mode, later, HostIn(posture, a), PortIn(posture, a), OverIn(posture, window, a), posture.closed)
        = BuildContext(a, mode, later)
  BY <1>3, Zenon DEF Context, BuildContext
<1>5. Evaluate(BuildContext(a, mode, later)) = EvaluateBy(rules, BuildContext(a, mode, later))
  BY Zenon DEF Evaluate, EvaluateBy
<1>6. GatedBy(a, later, OverIn(posture, window, a), posture.closed) <=> Gated(a, later)
  BY <1>2 DEF GatedBy, Gated
<1>7. Enforce(a, mode, mode, later) =
        IF \/ Gated(a, later) \/ StrictBlock(a, mode, Evaluate(BuildContext(a, mode, later)))
           \/ DeniedBy(Evaluate(BuildContext(a, mode, later)))
        THEN "deny" ELSE "allow"
  BY Zenon DEF Enforce, DeniedBy
<1>8. StrictBlock(a, mode, Evaluate(BuildContext(a, mode, later)))
        <=> mode = "strict" /\ (~HostIn(posture, a) \/ ~PortIn(posture, a))
  BY <1>1 DEF StrictBlock
<1> QED BY <1>4, <1>5, <1>6, <1>7, <1>8, Zenon DEF Answer

LEMMA LookKeeps ==
    ASSUME VerdictInv, NEW a \in Attempts, NEW later \in BOOLEAN, Look(a, later)
    PROVE  VerdictInv'
<1>1. PICK r : /\ r = [attempt |-> a, later |-> later, rules |-> rules, window |-> window, stopped |-> stopped,
                       posture |-> posture, decision |-> Decide(a, later).decision,
                       projected |-> Decide(a, later).projected, notes |-> Notes(a)]
               /\ ledger' = ledger \cup {r}
  BY DEF Look
<1>2. /\ r.attempt = a /\ r.later = later /\ r.rules = rules /\ r.window = window /\ r.stopped = stopped
      /\ r.posture = posture /\ r.decision = Decide(a, later).decision
      /\ r.projected = Decide(a, later).projected /\ r.notes = Notes(a)
  BY <1>1
<1>3. \A m : AnswerOf(r, m) = Enforce(a, m, m, later)
  BY <1>2, EnforceIsAnswer DEF AnswerOf
<1>4. r.stopped => r.decision = "deny" /\ r.projected = Nowhere
  BY <1>2 DEF Decide
<1>5. CASE ~r.stopped /\ r.posture.mode = "monitor"
  <2>1. r.projected = Project(a, later)
    BY <1>2, <1>5 DEF Decide
  <2>2. \A m \in {"guarded", "strict"} : r.projected[m] = AnswerOf(r, m)
    BY <1>3, <2>1 DEF Project
  <2>3. RowHolds(r)
    BY <1>2, <1>5, <2>2 DEF RowHolds, VerdictInv
  <2> QED BY <1>1, <2>3 DEF VerdictInv, Look
<1>6. CASE r.stopped \/ r.posture.mode # "monitor"
  <2>1. r.projected = Nowhere
    BY <1>2, <1>4, <1>6 DEF Decide
  <2>2. ~r.stopped => r.decision = AnswerOf(r, r.posture.mode)
    BY <1>2, <1>3, <1>6 DEF Decide
  <2>3. RowHolds(r)
    BY <1>2, <1>4, <1>6, <2>1, <2>2 DEF RowHolds, VerdictInv
  <2> QED BY <1>1, <2>3 DEF VerdictInv, Look
<1> QED BY <1>5, <1>6

LEMMA VerdictGoesOn == VerdictInv /\ [VerdictNext]_verdictVars => VerdictInv'
<1> SUFFICES ASSUME VerdictInv, [VerdictNext]_verdictVars PROVE VerdictInv'
  OBVIOUS
<1>1. ASSUME NEW a \in Attempts, FirstLook(a) \/ LaterLook(a) PROVE VerdictInv'
  BY <1>1, LookKeeps DEF FirstLook, LaterLook
<1>2. ASSUME NEW a \in Attempts, Close(a) PROVE VerdictInv'
  BY <1>2 DEF Close, VerdictInv
<1>3. CASE KeepRules \/ Stop \/ UNCHANGED verdictVars
  BY <1>3 DEF KeepRules, Stop, verdictVars, VerdictInv
<1>4. CASE Adopt
  BY <1>4 DEF Adopt, VerdictInv
<1> QED BY <1>1, <1>2, <1>3, <1>4 DEF VerdictNext

\* Two looks at the same case get the same answer from the same mode.
LEMMA SameCaseSameAnswer ==
    ASSUME NEW r, NEW s, r.posture \in Postures, s.posture \in Postures, SameCase(r, s), NEW mode
    PROVE  AnswerOf(r, mode) = AnswerOf(s, mode)
<1>1. PICK p \in Postures : p = r.posture
  OBVIOUS
<1>2. PICK q \in Postures : q = s.posture
  OBVIOUS
<1>3. p = [q EXCEPT !.mode = p.mode]
  BY <1>1, <1>2 DEF SameCase
<1>4. q = [mode |-> q.mode, hosts |-> q.hosts, ports |-> q.ports, ownHosts |-> q.ownHosts,
           ownPorts |-> q.ownPorts, closed |-> q.closed, budget |-> q.budget]
  BY VerdictAssumption
<1>5. DOMAIN q = {"mode", "hosts", "ports", "ownHosts", "ownPorts", "closed", "budget"}
  BY <1>4
<1>6. /\ p.hosts = q.hosts /\ p.ports = q.ports /\ p.ownHosts = q.ownHosts /\ p.ownPorts = q.ownPorts
      /\ p.closed = q.closed /\ p.budget = q.budget
  BY <1>3, <1>5
<1>7. /\ r.attempt = s.attempt /\ r.later = s.later /\ r.rules = s.rules /\ r.window = s.window
  BY DEF SameCase
<1>8. /\ HostIn(p, r.attempt) = HostIn(q, r.attempt) /\ PortIn(p, r.attempt) = PortIn(q, r.attempt)
      /\ OverIn(p, r.window, r.attempt) = OverIn(q, r.window, r.attempt)
  BY <1>6, Zenon DEF HostIn, PortIn, OverIn
<1> QED BY <1>1, <1>2, <1>6, <1>7, <1>8, Zenon DEF AnswerOf

LEMMA VerdictInvSuffices == VerdictInv => VerdictsHold
<1> SUFFICES ASSUME VerdictInv PROVE VerdictsHold
  OBVIOUS
<1>1. ProjectionsComeTrue
  <2> SUFFICES ASSUME NEW r \in ledger, NEW s \in ledger, r.projected # Nowhere, s.posture.mode # "monitor",
                      ~s.stopped, SameCase(r, s)
               PROVE  r.projected[s.posture.mode] = s.decision
    BY DEF ProjectionsComeTrue
  <2>1. RowHolds(r) /\ RowHolds(s)
    BY DEF VerdictInv
  <2>2. s.posture.mode \in {"guarded", "strict"}
    BY <2>1, VerdictAssumption DEF RowHolds
  <2>3. r.projected[s.posture.mode] = AnswerOf(r, s.posture.mode) /\ s.decision = AnswerOf(s, s.posture.mode)
    BY <2>1, <2>2 DEF RowHolds
  <2> QED BY <2>1, <2>3, SameCaseSameAnswer DEF RowHolds
<1>2. GatesNeedNoRule
  <2> SUFFICES ASSUME NEW r \in ledger, r.decision = "allow"
               PROVE  /\ ~r.stopped
                      /\ r.posture.mode # "monitor" =>
                          /\ r.attempt.refusal = "none"
                          /\ r.posture.closed => r.attempt.agent = "agent"
                          /\ (~r.later /\ r.attempt.agent = "agent" /\ r.posture.budget > 0)
                                => r.window < r.posture.budget
                          /\ \A f \in r.attempt.found :
                                f.kind = "decoy" => f.where = "body" /\ r.notes \cap {"stream", "encoding"} # {}
                      /\ (r.posture.mode = "strict") =>
                          LET own == r.attempt.agent = "agent" IN
                          /\ r.attempt.host \in IF own /\ r.posture.ownHosts # {} THEN r.posture.ownHosts
                                                ELSE r.posture.hosts
                          /\ r.attempt.port \in IF own /\ r.posture.ownPorts # {} THEN r.posture.ownPorts
                                                ELSE r.posture.ports
    BY DEF GatesNeedNoRule
  <2>1. RowHolds(r) /\ ~r.stopped
    BY DEF VerdictInv, RowHolds
  <2>2. CASE r.posture.mode = "monitor"
    BY <2>1, <2>2
  <2>3. CASE r.posture.mode # "monitor"
    <3> DEFINE a == r.attempt
               p == r.posture
    <3>1. /\ a \in Attempts /\ p \in Postures /\ r.window \in Nat /\ r.notes = Notes(a)
          /\ AnswerOf(r, p.mode) = "allow"
      BY <2>1, <2>3 DEF RowHolds
    <3>2. /\ ~GatedBy(a, r.later, OverIn(p, r.window, a), p.closed)
          /\ p.mode = "strict" => HostIn(p, a) /\ PortIn(p, a)
      BY <3>1 DEF AnswerOf, Answer
    <3>3. a.refusal = "none" /\ (p.closed => a.agent = "agent") /\ (DeclaredAgent(a) <=> a.agent = "agent")
      BY <3>2 DEF GatedBy, DeclaredAgent
    <3>4. ~r.later /\ a.agent = "agent" /\ p.budget > 0 => r.window < p.budget
      BY <3>1, <3>2, <3>3, VerdictAssumption DEF GatedBy, OverIn
    <3>5. ASSUME NEW f \in a.found, f.kind = "decoy"
          PROVE  f.where = "body" /\ r.notes \cap {"stream", "encoding"} # {}
      <4>1. f \notin Findings(a)
        BY <3>2, <3>5 DEF GatedBy, FindingKinds
      <4>2. f.where = "body" /\ a.unread \notin {"whole", "cut"}
        BY <4>1 DEF Findings
      <4>3. a.unread \in {"stream", "encoding"} /\ a.unread \in r.notes
        BY <3>1, <4>2, VerdictAssumption DEF Notes
      <4> QED BY <4>2, <4>3
    <3>6. p.mode = "strict" =>
            /\ a.host \in IF a.agent = "agent" /\ p.ownHosts # {} THEN p.ownHosts ELSE p.hosts
            /\ a.port \in IF a.agent = "agent" /\ p.ownPorts # {} THEN p.ownPorts ELSE p.ports
      BY <3>2, <3>3 DEF HostIn, PortIn, Either
    <3> QED BY <2>1, <3>3, <3>4, <3>5, <3>6
  <2> QED BY <2>2, <2>3
<1> QED BY <1>1, <1>2 DEF VerdictsHold

\* For any configurations, rules and connections, whatever was stopped, loaded and
\* restarted between two looks: what monitor projects of a mode is what that mode
\* answers to the same look, and an enforcing mode needs no rule to refuse a refused
\* identity, an unclaimed client, a spent budget, a decoy it read or, in strict mode,
\* a destination off the list (enforce, decide, effectiveEgress).
THEOREM VerdictsAlwaysHold == VerdictInit /\ [][VerdictNext]_verdictVars => []VerdictsHold
<1>1. VerdictInit => VerdictInv
  BY DEF VerdictInit, VerdictInv
<1>2. VerdictInv /\ [VerdictNext]_verdictVars => VerdictInv'
  BY VerdictGoesOn
<1>3. VerdictInv => VerdictsHold
  BY VerdictInvSuffices
<1> QED BY <1>1, <1>2, <1>3, PTL

-----------------------------------------------------------------------------
(* Doctor and its bookmark.                                                *)

RecordKinds == UNION {d.egress : d \in DoctorSetups}
DoctorReads == [kinds : Seq(RecordKinds), of : {0, 1}]
DoctorRuns ==
    [step : {"idle", "since", "read", "moved", "done"}, shell : {"set"} \cup UNION {d.shells : d \in DoctorSetups},
     since : Int, read : DoctorReads]
Sayings ==
    [run : Runs, of : {0, 1}, floor : Int, end : Int, how : {"baseline", "unassessed", "assessed"}, exit : Int]

DoctorTyped ==
    /\ doctorSetup \in DoctorSetups
    /\ recorded \in Seq(RecordKinds) /\ replaced \in {0, 1}
    /\ bookmark \in [index : Int, of : {0, 1}]
    /\ run \in [Runs -> DoctorRuns] /\ said \in SUBSET Sayings

\* An escape up to i was in what some run read after its bookmark, or the chain is a
\* new one and some run took the bookmark of the old one for its own.
Alarm(n) == \E s \in said : Covers(s, n) \/ (s.of = replaced /\ s.floor >= 0 /\ replaced > 0)
AlarmedTo(i) == \A n \in DOMAIN recorded : recorded[n] = "escape" /\ n - 1 <= i => Alarm(n)

\* What was read of this chain is still its beginning.
Begins(kinds) == Len(kinds) <= Len(recorded) /\ \A n \in 1..Len(kinds) : kinds[n] = recorded[n]

Bookmarked ==
    /\ bookmark.of <= replaced
    /\ bookmark.of = replaced => bookmark.index < Len(recorded) /\ AlarmedTo(bookmark.index)
RunHolds(r) ==
    /\ run[r].read.of <= replaced
    /\ run[r].step # "idle" /\ replaced = 0 => run[r].since < Len(recorded)
    /\ run[r].step \in {"since", "read"} /\ replaced = 0 => AlarmedTo(run[r].since)
    /\ run[r].read.of = replaced => Begins(run[r].read.kinds)
\* What a run said is what it made of what it read.
SaidRightly(s) ==
    /\ run[s.run].step \in {"moved", "done"}
    /\ s.of = run[s.run].read.of /\ s.floor = Floor(s.run) /\ s.end = ReadTo(s.run) /\ s.how = HowRead(s.run)
    /\ s.exit = -1 \/ s.exit = DoctorExit(s.run)

DoctorInv ==
    /\ DoctorTyped /\ Bookmarked
    /\ \A r \in Runs : RunHolds(r)
    /\ \A s \in said : SaidRightly(s)

\* What is said stays said.
LEMMA AlarmStays ==
    ASSUME DoctorInv, NEW n, Alarm(n), replaced' = replaced,
           \A s \in said : \E t \in said' : t.of = s.of /\ t.floor = s.floor /\ t.end = s.end
    PROVE  Alarm(n)'
<1>1. PICK s \in said : Covers(s, n) \/ (s.of = replaced /\ s.floor >= 0 /\ replaced > 0)
  BY DEF Alarm
<1>2. PICK t \in said' : t.of = s.of /\ t.floor = s.floor /\ t.end = s.end
  BY <1>1
<1> QED BY <1>1, <1>2 DEF Alarm, Covers

LEMMA RunTyped ==
    ASSUME DoctorInv, NEW r \in Runs
    PROVE  /\ run[r] \in DoctorRuns /\ run[r].read \in DoctorReads /\ run[r].read.kinds \in Seq(RecordKinds)
           /\ Len(run[r].read.kinds) \in Nat /\ run[r].read.of \in {0, 1} /\ run[r].since \in Int
           /\ Floor(r) \in Int /\ ReadTo(r) \in Int
<1>1. run[r] \in DoctorRuns
  BY DEF DoctorInv, DoctorTyped
<1>2. run[r].read \in DoctorReads /\ run[r].since \in Int
  BY <1>1 DEF DoctorRuns
<1>3. run[r].read.kinds \in Seq(RecordKinds) /\ run[r].read.of \in {0, 1}
  BY <1>2 DEF DoctorReads
<1> QED BY <1>1, <1>2, <1>3 DEF Floor, Since, ReadTo

\* One run goes on and nothing is recorded meanwhile.
LEMMA OneRunMoves ==
    ASSUME DoctorInv, NEW r \in Runs, NEW k \in DoctorRuns, run' = [run EXCEPT ![r] = k],
           UNCHANGED <<doctorSetup, recorded, replaced>>
    PROVE  /\ run' \in [Runs -> DoctorRuns] /\ run'[r] = k /\ \A q \in Runs \ {r} : run'[q] = run[q]
           /\ \A q \in Runs : q # r => /\ Floor(q)' = Floor(q) /\ ReadTo(q)' = ReadTo(q) /\ HowRead(q)' = HowRead(q)
                                       /\ DoctorExit(q)' = DoctorExit(q)
<1>1. run' \in [Runs -> DoctorRuns] /\ run'[r] = k /\ \A q \in Runs \ {r} : run'[q] = run[q]
  BY DEF DoctorInv, DoctorTyped
<1>2. ASSUME NEW q \in Runs, q # r
      PROVE  /\ Floor(q)' = Floor(q) /\ ReadTo(q)' = ReadTo(q) /\ HowRead(q)' = HowRead(q)
             /\ DoctorExit(q)' = DoctorExit(q)
  <2>1. run'[q] = run[q]
    BY <1>1, <1>2
  <2> QED BY <2>1, Zenon DEF Floor, ReadTo, HowRead, DoctorExit, Failed, Inconclusive, New, FleetDeclared
<1> QED BY <1>1, <1>2

LEMMA ReadBookmarkKeeps == ASSUME DoctorInv, NEW r \in Runs, NEW shell \in doctorSetup.shells, ReadBookmark(r, shell) PROVE DoctorInv'
<1> DEFINE k == [step |-> "since", shell |-> shell, since |-> bookmark.index, read |-> NotRead]
<1>1. k \in DoctorRuns /\ k.step = "since" /\ k.since = bookmark.index /\ k.read = NotRead
  <2>1. NotRead \in DoctorReads
    BY DEF NotRead, DoctorReads
  <2> QED BY <2>1 DEF DoctorInv, DoctorTyped, DoctorRuns
<1>2. run' = [run EXCEPT ![r] = k] /\ doctorSetup' = doctorSetup /\ recorded' = recorded /\ replaced' = replaced
      /\ bookmark' = bookmark /\ said' = said /\ run[r].step = "idle"
  BY DEF ReadBookmark
<1> HIDE DEF k
<1>3. /\ run' \in [Runs -> DoctorRuns] /\ run'[r] = k /\ \A q \in Runs \ {r} : run'[q] = run[q]
      /\ \A q \in Runs : q # r => /\ Floor(q)' = Floor(q) /\ ReadTo(q)' = ReadTo(q) /\ HowRead(q)' = HowRead(q)
                                  /\ DoctorExit(q)' = DoctorExit(q)
  BY <1>1, <1>2, OneRunMoves
<1>4. Bookmarked' /\ DoctorTyped'
  BY <1>2, <1>3 DEF DoctorInv, DoctorTyped, Bookmarked, AlarmedTo, Alarm, Covers
<1>5. ASSUME NEW q \in Runs PROVE RunHolds(q)'
  <2>1. CASE q # r
    BY <1>2, <1>3, <2>1 DEF DoctorInv, RunHolds, AlarmedTo, Alarm, Covers, Begins
  <2>2. CASE q = r
    <3>1. NotRead.of = 0 /\ Len(NotRead.kinds) = 0 /\ replaced \in {0, 1} /\ Len(recorded) \in Nat /\ bookmark.of \in {0, 1}
      BY DEF NotRead, DoctorInv, DoctorTyped
    <3>2. replaced = 0 => bookmark.index < Len(recorded) /\ AlarmedTo(bookmark.index)
      BY <3>1 DEF DoctorInv, Bookmarked
    <3>3. Begins(NotRead.kinds)'
      BY <1>2, <3>1 DEF Begins
    <3>4. AlarmedTo(bookmark.index) => AlarmedTo(bookmark.index)'
      BY <1>2 DEF AlarmedTo, Alarm, Covers
    <3> QED BY <1>1, <1>2, <1>3, <2>2, <3>1, <3>2, <3>3, <3>4 DEF RunHolds, AlarmedTo, Alarm, Covers, Begins
  <2> QED BY <2>1, <2>2
<1>6. ASSUME NEW s \in said' PROVE SaidRightly(s)'
  <2>1. s \in said /\ SaidRightly(s) /\ s.run \in Runs
    BY <1>2 DEF DoctorInv, DoctorTyped, Sayings
  <2>2. s.run # r
    BY <1>2, <2>1 DEF SaidRightly
  <2> QED BY <1>3, <2>1, <2>2 DEF SaidRightly
<1> QED BY <1>4, <1>5, <1>6 DEF DoctorInv

\* A run that is not the one that moves keeps what it has, if the alarms stay.
LEMMA OthersHold ==
    ASSUME DoctorInv, NEW q \in Runs, run'[q] = run[q], UNCHANGED <<recorded, replaced>>,
           \A s \in said : \E t \in said' : t.of = s.of /\ t.floor = s.floor /\ t.end = s.end
    PROVE  RunHolds(q)' /\ (RunHolds(q) => RunHolds(q)')
<1>1. \A n : Alarm(n) => Alarm(n)'
  BY AlarmStays
<1>2. \A i : AlarmedTo(i) => AlarmedTo(i)'
  BY <1>1 DEF AlarmedTo
<1>3. RunHolds(q)
  BY DEF DoctorInv
<1>4. \A kinds : Begins(kinds) => Begins(kinds)'
  BY DEF Begins
<1>5. AlarmedTo(run[q].since) => AlarmedTo(run[q].since)'
  BY <1>2 DEF AlarmedTo
<1>6. Begins(run[q].read.kinds) => Begins(run[q].read.kinds)'
  BY DEF Begins
<1> QED BY <1>3, <1>5, <1>6 DEF RunHolds

LEMMA ReadChainKeeps == ASSUME DoctorInv, NEW r \in Runs, ReadChain(r) PROVE DoctorInv'
<1>1. PICK j : j = run[r]
  OBVIOUS
<1>2. PICK d : d = [kinds |-> recorded, of |-> replaced]
  OBVIOUS
<1>3. j \in DoctorRuns /\ d \in DoctorReads /\ j.step = "since" /\ d.kinds = recorded /\ d.of = replaced
      /\ recorded \in Seq(RecordKinds) /\ Len(recorded) \in Nat
  BY <1>1, <1>2, RunTyped DEF ReadChain, DoctorReads, DoctorInv, DoctorTyped
<1>4. PICK k : k = [j EXCEPT !.step = "read", !.read = d]
  OBVIOUS
<1>5. run' = [run EXCEPT ![r] = k] /\ doctorSetup' = doctorSetup /\ recorded' = recorded /\ replaced' = replaced
      /\ bookmark' = bookmark /\ said' = said
  <2>1. run \in [Runs -> DoctorRuns]
    BY DEF DoctorInv, DoctorTyped
  <2> QED BY <1>1, <1>2, <1>3, <1>4, <2>1 DEF ReadChain, DoctorRuns
<1>6. k \in DoctorRuns /\ k.step = "read" /\ k.since = j.since /\ k.read = d
  BY <1>3, <1>4 DEF DoctorRuns
<1>7. /\ run' \in [Runs -> DoctorRuns] /\ run'[r] = k /\ \A q \in Runs \ {r} : run'[q] = run[q]
      /\ \A q \in Runs : q # r => /\ Floor(q)' = Floor(q) /\ ReadTo(q)' = ReadTo(q) /\ HowRead(q)' = HowRead(q)
                                  /\ DoctorExit(q)' = DoctorExit(q)
  BY <1>5, <1>6, OneRunMoves
<1>8. Bookmarked' /\ DoctorTyped'
  BY <1>5, <1>7 DEF DoctorInv, DoctorTyped, Bookmarked, AlarmedTo, Alarm, Covers
<1>9. ASSUME NEW q \in Runs PROVE RunHolds(q)'
  <2>1. CASE q # r
    BY <1>5, <1>7, <2>1, OthersHold
  <2>2. CASE q = r
    <3>1. replaced = 0 => j.since < Len(recorded) /\ AlarmedTo(j.since)
      BY <1>1, <1>3 DEF RunHolds, DoctorInv
    <3>2. AlarmedTo(j.since) => AlarmedTo(j.since)'
      BY <1>5 DEF AlarmedTo, Alarm, Covers
    <3>3. d.of <= replaced
      BY <1>3 DEF DoctorInv, DoctorTyped
    <3>4. Begins(d.kinds)'
      BY <1>3, <1>5 DEF Begins
    <3>5. run'[q].since = j.since /\ run'[q].step = "read" /\ run'[q].read = d
      BY <1>6, <1>7, <2>2
    <3>6. replaced' = 0 => run'[q].since < Len(recorded') /\ AlarmedTo(run[q].since)'
      BY <1>5, <3>1, <3>2, <3>5 DEF AlarmedTo
    <3>7. run'[q].read.of <= replaced' /\ Begins(run[q].read.kinds)'
      BY <1>5, <3>3, <3>4, <3>5 DEF Begins
    <3> QED BY <3>6, <3>7 DEF RunHolds
  <2> QED BY <2>1, <2>2
<1>10. ASSUME NEW s \in said' PROVE SaidRightly(s)'
  <2>1. s \in said /\ SaidRightly(s) /\ s.run \in Runs
    BY <1>5 DEF DoctorInv, DoctorTyped, Sayings
  <2>2. s.run # r
    BY <1>1, <1>3, <2>1 DEF SaidRightly
  <2> QED BY <1>7, <2>1, <2>2 DEF SaidRightly
<1> QED BY <1>8, <1>9, <1>10 DEF DoctorInv

\* A run that has read the chain goes on to the next step, with what it has read.
LEMMA StepMoves ==
    ASSUME DoctorInv, NEW r \in Runs, NEW step \in {"moved", "done"}, run' = [run EXCEPT ![r].step = step],
           UNCHANGED <<doctorSetup, recorded, replaced>>
    PROVE  /\ run' \in [Runs -> DoctorRuns] /\ \A q \in Runs \ {r} : run'[q] = run[q]
           /\ run'[r].step = step /\ run'[r].read = run[r].read /\ run'[r].since = run[r].since
           /\ \A q \in Runs : /\ Floor(q)' = Floor(q) /\ ReadTo(q)' = ReadTo(q) /\ HowRead(q)' = HowRead(q)
                                /\ DoctorExit(q)' = DoctorExit(q)
<1> DEFINE j == run[r]
           k == [j EXCEPT !.step = step]
<1>1. run \in [Runs -> DoctorRuns] /\ j \in DoctorRuns
  BY DEF DoctorInv, DoctorTyped
<1>2. run' = [run EXCEPT ![r] = k]
  BY <1>1
<1> HIDE DEF j
<1>3. k \in DoctorRuns /\ k.step = step /\ k.read = j.read /\ k.since = j.since /\ k.shell = j.shell
  BY <1>1 DEF DoctorRuns
<1> HIDE DEF k
<1>4. /\ run' \in [Runs -> DoctorRuns] /\ run'[r] = k /\ \A q \in Runs \ {r} : run'[q] = run[q]
      /\ \A q \in Runs : q # r => /\ Floor(q)' = Floor(q) /\ ReadTo(q)' = ReadTo(q) /\ HowRead(q)' = HowRead(q)
                                  /\ DoctorExit(q)' = DoctorExit(q)
  BY <1>2, <1>3, OneRunMoves
<1>5. run'[r].since = run[r].since /\ run'[r].read = run[r].read /\ run'[r].shell = run[r].shell
  BY <1>3, <1>4 DEF j
<1>6. Floor(r)' = Floor(r) /\ ReadTo(r)' = ReadTo(r)
  BY <1>5 DEF Floor, ReadTo
<1>7. HowRead(r)' = HowRead(r) /\ FleetDeclared(r)' = FleetDeclared(r)
  BY <1>5, <1>6 DEF HowRead, FleetDeclared
<1>8. \A kind : NewOnes(kind, run'[r].read.kinds, Floor(r)', FleetDeclared(r)')
                 = NewOnes(kind, run[r].read.kinds, Floor(r), FleetDeclared(r))
  BY <1>5, <1>6, <1>7
<1>9. DoctorExit(r)' = DoctorExit(r)
  BY <1>5, <1>6, <1>8, Zenon DEF DoctorExit, Failed, Inconclusive, New
<1> QED BY <1>3, <1>4, <1>6, <1>7, <1>9 DEF j

LEMMA MoveBookmarkKeeps == ASSUME DoctorInv, NEW r \in Runs, MoveBookmark(r) PROVE DoctorInv'
<1>1. /\ run[r].step = "read" /\ run' = [run EXCEPT ![r].step = "moved"]
      /\ doctorSetup' = doctorSetup /\ recorded' = recorded /\ replaced' = replaced
      /\ bookmark' = [index |-> ReadTo(r), of |-> run[r].read.of]
  BY DEF MoveBookmark
<1>2. PICK s : /\ s = [run |-> r, of |-> run[r].read.of, floor |-> Floor(r), end |-> ReadTo(r),
                        how |-> HowRead(r), exit |-> -1]
               /\ said' = said \cup {s}
  BY DEF MoveBookmark
<1>3. /\ run[r].read.of \in {0, 1} /\ Floor(r) \in Int /\ ReadTo(r) \in Int
      /\ ReadTo(r) = Len(run[r].read.kinds) - 1 /\ Len(run[r].read.kinds) \in Nat
      /\ replaced \in {0, 1} /\ recorded \in Seq(RecordKinds) /\ Len(recorded) \in Nat
  BY RunTyped DEF ReadTo, DoctorInv, DoctorTyped
<1>4. s \in Sayings /\ s.run = r /\ s.of = run[r].read.of /\ s.floor = Floor(r) /\ s.end = ReadTo(r)
      /\ s.how = HowRead(r) /\ s.exit = -1
  BY <1>2, <1>3 DEF Sayings, HowRead
<1>5. /\ run' \in [Runs -> DoctorRuns] /\ \A q \in Runs \ {r} : run'[q] = run[q]
      /\ run'[r].step = "moved" /\ run'[r].read = run[r].read /\ run'[r].since = run[r].since
      /\ \A q \in Runs : /\ Floor(q)' = Floor(q) /\ ReadTo(q)' = ReadTo(q) /\ HowRead(q)' = HowRead(q)
                           /\ DoctorExit(q)' = DoctorExit(q)
  BY <1>1, StepMoves
<1>6. \A t \in said : t \in said'
  BY <1>2
<1>7. DoctorTyped'
  BY <1>1, <1>2, <1>3, <1>4, <1>5 DEF DoctorInv, DoctorTyped
<1>8. Bookmarked'
  <2>1. bookmark'.of = run[r].read.of /\ bookmark'.index = ReadTo(r) /\ bookmark'.of <= replaced /\ RunHolds(r)
    BY <1>1 DEF DoctorInv, RunHolds
  <2> SUFFICES ASSUME bookmark'.of = replaced
               PROVE  /\ bookmark'.index < Len(recorded)
                      /\ \A n \in DOMAIN recorded : recorded[n] = "escape" /\ n - 1 <= ReadTo(r) => Alarm(n)'
    BY <1>1, <2>1 DEF Bookmarked, AlarmedTo
  <2>2. Begins(run[r].read.kinds)
    BY <2>1 DEF RunHolds
  <2>3. bookmark'.index < Len(recorded)
    BY <1>3, <2>1, <2>2 DEF Begins
  <2>4. ASSUME NEW n \in DOMAIN recorded, recorded[n] = "escape", n - 1 <= ReadTo(r)
        PROVE  Alarm(n)'
    <3>1. CASE Floor(r) < n - 1
      BY <1>1, <1>2, <1>4, <2>1, <2>4, <3>1 DEF Alarm, Covers
    <3>2. CASE ~(Floor(r) < n - 1) /\ replaced = 0
      <4>1. n \in Nat /\ n >= 1 /\ Floor(r) >= n - 1
        BY <1>3, <3>2
      <4>2. Floor(r) = run[r].since
        BY <4>1 DEF Floor, Since
      <4>3. Alarm(n)
        BY <1>1, <2>1, <2>4, <3>2, <4>1, <4>2 DEF RunHolds, AlarmedTo
      <4> QED BY <1>1, <1>6, <4>3, AlarmStays
    <3>3. CASE ~(Floor(r) < n - 1) /\ replaced # 0
      <4>1. Floor(r) >= 0 /\ replaced > 0
        BY <1>3, <3>3
      <4> QED BY <1>1, <1>2, <1>4, <2>1, <4>1 DEF Alarm
    <3> QED BY <3>1, <3>2, <3>3
  <2> QED BY <2>3, <2>4
<1>9. ASSUME NEW q \in Runs PROVE RunHolds(q)'
  <2>1. CASE q # r
    BY <1>1, <1>5, <1>6, <2>1, OthersHold
  <2>2. CASE q = r
    <3>1. RunHolds(r)
      BY DEF DoctorInv
    <3>2. Begins(run[r].read.kinds) => Begins(run[r].read.kinds)'
      BY <1>1, <1>5 DEF Begins
    <3> QED BY <1>1, <1>5, <2>2, <3>1, <3>2 DEF RunHolds
  <2> QED BY <2>1, <2>2
<1>10. ASSUME NEW t \in said' PROVE SaidRightly(t)'
  <2>1. CASE t = s
    BY <1>4, <1>5, <2>1 DEF SaidRightly
  <2>2. CASE t \in said
    <3>1. SaidRightly(t) /\ t.run \in Runs
      BY <2>2 DEF DoctorInv, DoctorTyped, Sayings
    <3>2. t.run # r
      BY <1>1, <3>1 DEF SaidRightly
    <3> QED BY <1>5, <3>1, <3>2 DEF SaidRightly
  <2> QED BY <1>2, <2>1, <2>2
<1> QED BY <1>7, <1>8, <1>9, <1>10 DEF DoctorInv

LEMMA ExitIsOne == \A r \in Runs : DoctorExit(r) \in {0, 1, 2}
BY DEF DoctorExit

LEMMA SayVerdictKeeps == ASSUME DoctorInv, NEW r \in Runs, SayVerdict(r) PROVE DoctorInv'
<1>1. PICK e : e = DoctorExit(r)
  OBVIOUS
<1>2. /\ run[r].step = "moved" /\ run' = [run EXCEPT ![r].step = "done"]
      /\ doctorSetup' = doctorSetup /\ recorded' = recorded /\ replaced' = replaced /\ bookmark' = bookmark
      /\ said' = {IF s.run = r THEN [s EXCEPT !.exit = e] ELSE s : s \in said} /\ e \in {0, 1, 2}
  BY <1>1, ExitIsOne DEF SayVerdict
<1>3. /\ run' \in [Runs -> DoctorRuns] /\ \A q \in Runs \ {r} : run'[q] = run[q]
      /\ run'[r].step = "done" /\ run'[r].read = run[r].read /\ run'[r].since = run[r].since
      /\ \A q \in Runs : /\ Floor(q)' = Floor(q) /\ ReadTo(q)' = ReadTo(q) /\ HowRead(q)' = HowRead(q)
                           /\ DoctorExit(q)' = DoctorExit(q)
  BY <1>2, StepMoves
<1>4. ASSUME NEW s \in said
      PROVE  /\ [s EXCEPT !.exit = e] \in Sayings
             /\ \A t : t = [s EXCEPT !.exit = e] => /\ t.run = s.run /\ t.of = s.of /\ t.floor = s.floor
                                                    /\ t.end = s.end /\ t.how = s.how /\ t.exit = e
  <2>1. s \in Sayings
    BY DEF DoctorInv, DoctorTyped
  <2> QED BY <1>2, <2>1 DEF Sayings
<1>5. \A s \in said : \E t \in said' : t.of = s.of /\ t.floor = s.floor /\ t.end = s.end
  <2> SUFFICES ASSUME NEW s \in said PROVE \E t \in said' : t.of = s.of /\ t.floor = s.floor /\ t.end = s.end
    OBVIOUS
  <2>1. CASE s.run = r
    <3>1. [s EXCEPT !.exit = e] \in said'
      BY <1>2, <2>1
    <3> QED BY <1>4, <3>1
  <2>2. CASE s.run # r
    <3>1. s \in said'
      BY <1>2, <2>2
    <3> QED BY <3>1
  <2> QED BY <2>1, <2>2
<1>6. \A t \in said' : \E s \in said : t = IF s.run = r THEN [s EXCEPT !.exit = e] ELSE s
  BY <1>2
<1>7. DoctorTyped'
  <2>1. said' \in SUBSET Sayings
    <3> SUFFICES ASSUME NEW t \in said' PROVE t \in Sayings
      OBVIOUS
    <3>1. PICK s \in said : t = IF s.run = r THEN [s EXCEPT !.exit = e] ELSE s
      BY <1>6
    <3>2. s \in Sayings
      BY DEF DoctorInv, DoctorTyped
    <3> QED BY <1>4, <3>1, <3>2
  <2> QED BY <1>2, <1>3, <2>1 DEF DoctorInv, DoctorTyped
<1>8. Bookmarked'
  <2>1. \A n : Alarm(n) => Alarm(n)'
    BY <1>2, <1>5, AlarmStays
  <2> QED BY <1>2, <2>1 DEF DoctorInv, Bookmarked, AlarmedTo
<1>9. ASSUME NEW q \in Runs PROVE RunHolds(q)'
  <2>1. CASE q # r
    BY <1>2, <1>3, <1>5, <2>1, OthersHold
  <2>2. CASE q = r
    <3>1. RunHolds(r)
      BY DEF DoctorInv
    <3>2. Begins(run[r].read.kinds) => Begins(run[r].read.kinds)'
      BY <1>2, <1>3 DEF Begins
    <3> QED BY <1>2, <1>3, <2>2, <3>1, <3>2 DEF RunHolds
  <2> QED BY <2>1, <2>2
<1>10. ASSUME NEW t \in said' PROVE SaidRightly(t)'
  <2>1. PICK s \in said : t = IF s.run = r THEN [s EXCEPT !.exit = e] ELSE s
    BY <1>6
  <2>2. SaidRightly(s) /\ s.run \in Runs
    BY <2>1 DEF DoctorInv, DoctorTyped, Sayings
  <2>3. CASE s.run = r
    <3>1. t.run = r /\ t.of = s.of /\ t.floor = s.floor /\ t.end = s.end /\ t.how = s.how /\ t.exit = e
      BY <1>4, <2>1, <2>3
    <3>2. run'[t.run].step = "done" /\ t.exit = DoctorExit(t.run)'
      BY <1>1, <1>3, <3>1
    <3> QED BY <1>3, <2>2, <2>3, <3>1, <3>2 DEF SaidRightly
  <2>4. CASE s.run # r
    BY <1>3, <2>1, <2>2, <2>4 DEF SaidRightly
  <2> QED BY <2>3, <2>4
<1> QED BY <1>7, <1>8, <1>9, <1>10 DEF DoctorInv

LEMMA BookmarkStaysKeeps == ASSUME DoctorInv, NEW r \in Runs, BookmarkStays(r) PROVE DoctorInv'
<1>1. /\ run[r].step = "read" /\ run' = [run EXCEPT ![r].step = "done"] /\ said' = said
      /\ doctorSetup' = doctorSetup /\ recorded' = recorded /\ replaced' = replaced /\ bookmark' = bookmark
  BY DEF BookmarkStays
<1>2. /\ run' \in [Runs -> DoctorRuns] /\ \A q \in Runs \ {r} : run'[q] = run[q]
      /\ run'[r].step = "done" /\ run'[r].read = run[r].read /\ run'[r].since = run[r].since
      /\ \A q \in Runs : /\ Floor(q)' = Floor(q) /\ ReadTo(q)' = ReadTo(q) /\ HowRead(q)' = HowRead(q)
                           /\ DoctorExit(q)' = DoctorExit(q)
  BY <1>1, StepMoves
<1>3. DoctorTyped' /\ Bookmarked'
  BY <1>1, <1>2 DEF DoctorInv, DoctorTyped, Bookmarked, AlarmedTo, Alarm, Covers
<1>4. ASSUME NEW q \in Runs PROVE RunHolds(q)'
  <2>1. CASE q # r
    BY <1>1, <1>2, <2>1, OthersHold
  <2>2. CASE q = r
    <3>1. RunHolds(r)
      BY DEF DoctorInv
    <3>2. Begins(run[r].read.kinds) => Begins(run[r].read.kinds)'
      BY <1>1, <1>2 DEF Begins
    <3> QED BY <1>1, <1>2, <2>2, <3>1, <3>2 DEF RunHolds
  <2> QED BY <2>1, <2>2
<1>5. ASSUME NEW s \in said' PROVE SaidRightly(s)'
  <2>1. s \in said /\ SaidRightly(s) /\ s.run \in Runs
    BY <1>1 DEF DoctorInv, DoctorTyped, Sayings
  <2>2. s.run # r
    BY <1>1, <2>1 DEF SaidRightly
  <2> QED BY <1>2, <2>1, <2>2 DEF SaidRightly
<1> QED BY <1>3, <1>4, <1>5 DEF DoctorInv

LEMMA ServiceFilesKeeps == ASSUME DoctorInv, NEW kind \in doctorSetup.egress, ServiceFiles(kind) PROVE DoctorInv'
<1>1. /\ recorded' = Append(recorded, kind) /\ doctorSetup' = doctorSetup /\ replaced' = replaced
      /\ bookmark' = bookmark /\ run' = run /\ said' = said
  BY DEF ServiceFiles
<1>2. recorded \in Seq(RecordKinds) /\ kind \in RecordKinds
  BY DEF DoctorInv, DoctorTyped, RecordKinds
<1>3. /\ recorded' \in Seq(RecordKinds) /\ Len(recorded) \in Nat /\ Len(recorded') = Len(recorded) + 1
      /\ DOMAIN recorded = 1..Len(recorded) /\ DOMAIN recorded' = 1..Len(recorded')
      /\ \A n \in 1..Len(recorded) : recorded'[n] = recorded[n]
  BY <1>1, <1>2
<1>4. \A n : Alarm(n)' <=> Alarm(n)
  BY <1>1 DEF Alarm, Covers
<1>5. \A i \in Int : i < Len(recorded) /\ AlarmedTo(i) => AlarmedTo(i)'
  BY <1>3, <1>4 DEF AlarmedTo
<1>6. \A kinds \in Seq(RecordKinds) : Begins(kinds) => Begins(kinds)'
  BY <1>3 DEF Begins
<1>7. DoctorTyped'
  BY <1>1, <1>3 DEF DoctorInv, DoctorTyped
<1>8. Bookmarked'
  <2>1. PICK i : i = bookmark.index
    OBVIOUS
  <2>2. i \in Int
    BY <2>1 DEF DoctorInv, DoctorTyped
  <2>3. bookmark.of = replaced => i < Len(recorded) /\ AlarmedTo(i)'
    BY <1>5, <2>1, <2>2 DEF DoctorInv, Bookmarked
  <2>4. AlarmedTo(i)' => AlarmedTo(bookmark.index)'
    BY <1>1, <2>1 DEF AlarmedTo
  <2> QED BY <1>1, <1>3, <2>1, <2>2, <2>3, <2>4 DEF DoctorInv, Bookmarked
<1>9. ASSUME NEW q \in Runs PROVE RunHolds(q)'
  <2>1. PICK j : j = run[q]
    OBVIOUS
  <2>2. RunHolds(q) /\ j.since \in Int /\ j.read.kinds \in Seq(RecordKinds)
    BY <2>1, RunTyped DEF DoctorInv
  <2>3. j.step # "idle" /\ replaced = 0 => j.since < Len(recorded)
    BY <2>1, <2>2 DEF RunHolds
  <2>4. j.step \in {"since", "read"} /\ replaced = 0 => AlarmedTo(j.since)'
    BY <1>5, <2>1, <2>2, <2>3 DEF RunHolds
  <2>5. j.read.of = replaced => Begins(j.read.kinds)'
    BY <1>6, <2>1, <2>2 DEF RunHolds
  <2>6. run'[q] = j
    BY <1>1, <2>1
  <2>7. /\ AlarmedTo(j.since)' => AlarmedTo(run[q].since)'
        /\ Begins(j.read.kinds)' => Begins(run[q].read.kinds)'
    BY <2>6 DEF AlarmedTo, Begins
  <2> QED BY <1>1, <1>3, <2>1, <2>2, <2>3, <2>4, <2>5, <2>6, <2>7 DEF RunHolds
<1>10. ASSUME NEW s \in said' PROVE SaidRightly(s)'
  BY <1>1 DEF DoctorInv, SaidRightly, Floor, ReadTo, HowRead, DoctorExit, Failed, Inconclusive, New, FleetDeclared
<1> QED BY <1>7, <1>8, <1>9, <1>10 DEF DoctorInv

LEMMA ReplaceChainKeeps == ASSUME DoctorInv, ReplaceChain PROVE DoctorInv'
<1>1. /\ replaced = 0 /\ replaced' = 1 /\ recorded' = <<>> /\ doctorSetup' = doctorSetup
      /\ bookmark' = bookmark /\ run' = run /\ said' = said
  BY DEF ReplaceChain
<1>2. DoctorTyped'
  BY <1>1 DEF DoctorInv, DoctorTyped
<1>3. Bookmarked'
  BY <1>1 DEF DoctorInv, DoctorTyped, Bookmarked
<1>4. ASSUME NEW q \in Runs PROVE RunHolds(q)'
  <2>1. run[q].read.of = 0
    BY <1>1, RunTyped DEF DoctorInv, RunHolds
  <2> QED BY <1>1, <2>1 DEF RunHolds
<1>5. ASSUME NEW s \in said' PROVE SaidRightly(s)'
  BY <1>1 DEF DoctorInv, SaidRightly, Floor, ReadTo, HowRead, DoctorExit, Failed, Inconclusive, New, FleetDeclared
<1> QED BY <1>2, <1>3, <1>4, <1>5 DEF DoctorInv

LEMMA DoctorBegins == DoctorInit => DoctorInv
<1> SUFFICES ASSUME DoctorInit PROVE DoctorInv
  OBVIOUS
<1>1. /\ doctorSetup \in DoctorSetups /\ recorded = <<>> /\ replaced = 0 /\ bookmark = [index |-> -1, of |-> 0]
      /\ said = {} /\ run = [r \in Runs |-> [step |-> "idle", shell |-> "set", since |-> -1, read |-> NotRead]]
  BY DEF DoctorInit, NoBookmark
<1>2. NotRead \in DoctorReads /\ NotRead.kinds = <<>> /\ NotRead.of = 0
  BY DEF NotRead, DoctorReads
<1>3. DoctorTyped
  BY <1>1, <1>2 DEF DoctorTyped, DoctorRuns, Sayings
<1>4. Bookmarked
  BY <1>1 DEF Bookmarked, AlarmedTo
<1>5. \A r \in Runs : RunHolds(r)
  BY <1>1, <1>2 DEF RunHolds, Begins
<1> QED BY <1>1, <1>3, <1>4, <1>5 DEF DoctorInv

LEMMA DoctorGoesOn == DoctorInv /\ [DoctorNext]_doctorVars => DoctorInv'
<1> SUFFICES ASSUME DoctorInv, [DoctorNext]_doctorVars PROVE DoctorInv'
  OBVIOUS
<1>1. CASE UNCHANGED doctorVars
  BY ZenonT(60), <1>1 DEF doctorVars, DoctorInv, DoctorTyped, Bookmarked, RunHolds, AlarmedTo, Alarm, Covers, Begins, SaidRightly,
              Floor, ReadTo, HowRead, DoctorExit, Failed, Inconclusive, New, FleetDeclared
<1>2. ASSUME NEW r \in Runs, NEW shell \in doctorSetup.shells, ReadBookmark(r, shell) PROVE DoctorInv'
  BY <1>2, ReadBookmarkKeeps
<1>3. ASSUME NEW r \in Runs, ReadChain(r) PROVE DoctorInv'
  BY <1>3, ReadChainKeeps
<1>4. ASSUME NEW r \in Runs, MoveBookmark(r) PROVE DoctorInv'
  BY <1>4, MoveBookmarkKeeps
<1>5. ASSUME NEW r \in Runs, SayVerdict(r) PROVE DoctorInv'
  BY <1>5, SayVerdictKeeps
<1>6. ASSUME NEW r \in Runs, BookmarkStays(r) PROVE DoctorInv'
  BY <1>6, BookmarkStaysKeeps
<1>7. ASSUME NEW kind \in doctorSetup.egress, ServiceFiles(kind) PROVE DoctorInv'
  BY <1>7, ServiceFilesKeeps
<1>8. CASE ReplaceChain
  BY <1>8, ReplaceChainKeeps
<1> QED BY <1>1, <1>2, <1>3, <1>4, <1>5, <1>6, <1>7, <1>8 DEF DoctorNext

LEMMA DoctorInvSuffices == DoctorInv => EscapesAreAlarmed
<1> SUFFICES ASSUME DoctorInv PROVE EscapesAreAlarmed
  OBVIOUS
<1>1. ASSUME NEW n \in DOMAIN recorded, recorded[n] = "escape" /\ bookmark.of = replaced /\ n - 1 <= bookmark.index
      PROVE  \E s \in said : Covers(s, n) \/ (s.of = replaced /\ s.floor >= 0 /\ replaced > 0)
  BY <1>1 DEF DoctorInv, Bookmarked, AlarmedTo, Alarm
<1>2. ASSUME NEW s \in said, s.how = "assessed" /\ s.exit >= 0 /\ s.exit # 1,
             NEW n \in DOMAIN recorded, Covers(s, n) /\ recorded[n] = "escape",
             Cardinality({m \in n + 1..s.end + 1 : recorded[m] \in Egress}) < ReadCap
      PROVE  FALSE
  <2>1. PICK r : r = s.run
    OBVIOUS
  <2>2. PICK kinds : kinds = run[r].read.kinds
    OBVIOUS
  <2>3. SaidRightly(s) /\ r \in Runs
    BY <2>1 DEF DoctorInv, DoctorTyped, Sayings
  <2>4. s.of = run[r].read.of /\ s.floor = Floor(r) /\ s.end = Len(kinds) - 1 /\ s.how = HowRead(r)
    BY <2>1, <2>2, <2>3 DEF SaidRightly, ReadTo
  <2>5. s.exit = DoctorExit(r)
    BY <1>2, <2>1, <2>3 DEF SaidRightly
  <2>6. kinds \in Seq(RecordKinds) /\ Len(kinds) \in Nat /\ recorded \in Seq(RecordKinds) /\ Floor(r) \in Int
    BY <2>2, <2>3, RunTyped DEF DoctorInv, DoctorTyped
  <2>7. Begins(kinds)
    BY <1>2, <2>2, <2>3, <2>4 DEF DoctorInv, RunHolds, Covers
  <2>8. Floor(r) < n - 1 /\ n - 1 <= Len(kinds) - 1 /\ n \in 1..Len(recorded)
    BY <1>2, <2>4, <2>6 DEF Covers
  <2>9. FleetDeclared(r) /\ Floor(r) >= 0
    BY <1>2, <2>4, <2>6 DEF HowRead
  <2>10. n \in DOMAIN kinds /\ kinds[n] = "escape"
    BY <1>2, <2>6, <2>7, <2>8 DEF Begins
  <2>11. {m \in n + 1..Len(kinds) : kinds[m] \in Egress} = {m \in n + 1..s.end + 1 : recorded[m] \in Egress}
    <3>1. s.end + 1 = Len(kinds)
      BY <2>4, <2>6
    <3>2. \A m \in n + 1..Len(kinds) : kinds[m] = recorded[m]
      BY <2>6, <2>7, <2>8 DEF Begins
    <3> QED BY <3>1, <3>2
  <2>12. n \in Sightings(kinds)
    BY <1>2, <2>10, <2>11 DEF Sightings, Egress, Undeclared
  <2>13. n \in New(r, "escape")
    BY <2>2, <2>6, <2>8, <2>9, <2>10, <2>12 DEF New, NewOnes
  <2>14. Failed(r)
    BY <2>9, <2>13 DEF Failed
  <2> QED BY <1>2, <2>5, <2>14 DEF DoctorExit
<1> QED BY <1>1, <1>2 DEF EscapesAreAlarmed

\* The bookmark is moved before the verdict is said, runs overlap and the service goes on recording:
\* an escape the bookmark has passed was before some run after that run's own bookmark, and a run
\* that assessed it and lived to speak failed (collectDoctorCapture, readCaptureHealth).
THEOREM EscapesStayAlarmed == DoctorInit /\ [][DoctorNext]_doctorVars => []EscapesAreAlarmed
<1> QED BY DoctorBegins, DoctorGoesOn, DoctorInvSuffices, PTL

-----------------------------------------------------------------------------
(* Credentials an operator was given.                                      *)

Documents ==
    [state : {"absent", "empty", "cut", "whole"}, mode : Modes \cup {"unset"}, defaultDeny : BOOLEAN,
     agents : [AgentIds -> Nat]]
OnboardRuns ==
    [step : {"idle", "read", "copied", "written"}, id : AgentIds \cup {"none"}, token : Nat, updated : Documents]
Prints ==
    [id : AgentIds, token : Nat, posture : {"recorded", "enforced"}, written : Modes \cup {"unset"}]

OnboardTyped ==
    /\ config \in Documents /\ backup \in Documents
    /\ onboard \in [Terminals -> OnboardRuns] /\ shown \in SUBSET Prints /\ tokens \in Nat

\* A document's agents have the credentials that were printed last, those in `but` apart.
Declares(agents, but) == \A p \in shown : Latest(p) /\ p.id \notin but => agents[p.id] = p.token

\* A command under way is the only one, works on the file as it is, and holds a
\* credential that is newer than all that were printed.
UnderWay(t) ==
    /\ \A u \in Terminals : u # t => onboard[u] = Idle
    /\ onboard[t].step # "idle" /\ onboard[t].id \in AgentIds /\ onboard[t].token <= tokens /\ ~Cut
    /\ \A p \in shown : p.token < onboard[t].token
    /\ onboard[t].step \in {"read", "copied"} =>
          /\ Declares(config.agents, {}) /\ config.state = "whole"
          /\ onboard[t].updated = WithAgent(config, onboard[t].id, onboard[t].token)
    /\ onboard[t].step = "copied" => backup = config
    /\ onboard[t].step = "written" =>
          config.agents[onboard[t].id] = onboard[t].token /\ Declares(config.agents, {onboard[t].id})

OnboardInv ==
    /\ OnboardTyped
    /\ \A p \in shown : p.token <= tokens
    /\ \A t \in Terminals : onboard[t] = Idle \/ UnderWay(t)
    /\ Quiet => IF Cut THEN Declares(backup.agents, {}) ELSE Declares(config.agents, {})

LEMMA DocumentFacts ==
    /\ NoAgents \in [AgentIds -> Nat] /\ NoConfig \in Documents /\ EmptyFile \in Documents /\ Unparsable \in Documents
    /\ NoConfig.state = "absent" /\ EmptyFile.state = "empty" /\ Unparsable.state = "cut"
    /\ Idle \in OnboardRuns /\ Idle.step = "idle"
<1>1. NoAgents \in [AgentIds -> Nat]
  BY DEF NoAgents
<1> HIDE DEF NoAgents
<1>2. NoConfig \in Documents /\ NoConfig.state = "absent"
  BY <1>1 DEF NoConfig, Documents
<1>3. EmptyFile \in Documents /\ Unparsable \in Documents /\ EmptyFile.state = "empty" /\ Unparsable.state = "cut"
  BY <1>2 DEF EmptyFile, Unparsable, Documents
<1>4. Idle \in OnboardRuns /\ Idle.step = "idle"
  BY <1>2 DEF Idle, OnboardRuns
<1> QED BY <1>1, <1>2, <1>3, <1>4

LEMMA WithAgentFacts ==
    \A doc \in Documents, id \in AgentIds, token \in Nat :
        /\ WithAgent(doc, id, token) \in Documents /\ WithAgent(doc, id, token).state = "whole"
        /\ WithAgent(doc, id, token).agents[id] = token
        /\ \A q \in AgentIds : q # id => WithAgent(doc, id, token).agents[q] = doc.agents[q]
<1> SUFFICES ASSUME NEW doc \in Documents, NEW id \in AgentIds, NEW token \in Nat
             PROVE  /\ WithAgent(doc, id, token) \in Documents /\ WithAgent(doc, id, token).state = "whole"
                    /\ WithAgent(doc, id, token).agents[id] = token
                    /\ \A q \in AgentIds : q # id => WithAgent(doc, id, token).agents[q] = doc.agents[q]
  OBVIOUS
<1>1. PICK agents : agents = [doc.agents EXCEPT ![id] = token]
  OBVIOUS
<1>2. doc.agents \in [AgentIds -> Nat]
  BY DEF Documents
<1>3. agents \in [AgentIds -> Nat] /\ agents[id] = token /\ \A q \in AgentIds : q # id => agents[q] = doc.agents[q]
  BY <1>1, <1>2
<1>4. PICK new : new = [[doc EXCEPT !.state = "whole"] EXCEPT !.agents = agents]
  OBVIOUS
<1>5. new \in Documents /\ new.state = "whole" /\ new.agents = agents
  BY <1>3, <1>4 DEF Documents
<1>6. WithAgent(doc, id, token) = new
  BY <1>1, <1>4 DEF WithAgent, Documents
<1> QED BY <1>3, <1>5, <1>6

\* Nobody is at work and the file, if it was not cut, or its backup declares what was printed.
LEMMA QuietKeeps ==
    ASSUME OnboardInv, Quiet, onboard' = onboard, tokens' = tokens, config' \in Documents, backup' = backup,
           \/ shown' = {}
           \/ /\ shown' = shown
              /\ IF Cut' THEN Declares(backup.agents, {}) ELSE Declares(config'.agents, {})
    PROVE  OnboardInv'
<1>1. OnboardTyped'
  BY DEF OnboardInv, OnboardTyped
<1>2. \A p \in shown' : p.token <= tokens'
  BY DEF OnboardInv
<1>3. \A t \in Terminals : onboard'[t] = Idle
  BY DEF Quiet
<1>4. IF Cut' THEN Declares(backup.agents, {})' ELSE Declares(config.agents, {})'
  BY DEF Declares, Latest
<1> QED BY <1>1, <1>2, <1>3, <1>4, Zenon DEF OnboardInv

LEMMA InitFilesKeeps ==
    ASSUME OnboardInv, NEW mode \in Modes, NEW force \in BOOLEAN, InitFiles(mode, force) PROVE OnboardInv'
<1>1. StarterFile(mode) \in Documents
  BY DocumentFacts DEF StarterFile, Documents
<1> QED BY <1>1, QuietKeeps DEF InitFiles

LEMMA EditModeKeeps == ASSUME OnboardInv, NEW mode \in Modes, EditMode(mode) PROVE OnboardInv'
<1>1. config \in Documents
  BY DEF OnboardInv, OnboardTyped
<1>2. config' \in Documents /\ config'.agents = config.agents /\ config'.state = "whole" /\ config.state = "whole"
  BY <1>1 DEF EditMode, Documents
<1>3. ~Cut /\ ~Cut'
  BY <1>2 DEF Cut
<1>4. Declares(config.agents, {}) /\ Quiet
  BY <1>3 DEF OnboardInv, EditMode
<1> QED BY <1>2, <1>3, <1>4, QuietKeeps DEF EditMode

LEMMA RestoreKeeps == ASSUME OnboardInv, Restore PROVE OnboardInv'
<1>1. Cut /\ Quiet /\ config' = backup /\ backup \in Documents
  BY DEF Restore, OnboardInv, OnboardTyped
<1>2. Declares(backup.agents, {})
  BY <1>1 DEF OnboardInv
<1> QED BY <1>1, <1>2, QuietKeeps DEF Restore

\* One command goes on while the others are idle.
LEMMA CommandMoves ==
    ASSUME OnboardInv, NEW t \in Terminals, \A u \in Terminals : u # t => onboard[u] = Idle,
           NEW k \in OnboardRuns, onboard' = [onboard EXCEPT ![t] = k],
           config' \in Documents, backup' \in Documents, shown' \in SUBSET Prints, tokens' \in Nat,
           \A p \in shown' : p.token <= tokens',
           \/ k = Idle /\ IF Cut' THEN Declares(backup.agents, {})' ELSE Declares(config.agents, {})'
           \/ /\ k.step # "idle" /\ k.id \in AgentIds /\ k.token <= tokens' /\ ~Cut'
              /\ \A p \in shown' : p.token < k.token
              /\ k.step \in {"read", "copied"} =>
                    /\ Declares(config.agents, {})' /\ config'.state = "whole"
                    /\ k.updated = WithAgent(config', k.id, k.token)
              /\ k.step = "copied" => backup' = config'
              /\ k.step = "written" => config'.agents[k.id] = k.token /\ Declares(config.agents, {k.id})'
    PROVE  OnboardInv'
<1>1. /\ onboard' \in [Terminals -> OnboardRuns] /\ onboard'[t] = k
      /\ \A u \in Terminals : u # t => onboard'[u] = Idle
  BY DEF OnboardInv, OnboardTyped
<1>2. OnboardTyped'
  BY <1>1 DEF OnboardTyped
<1>3. CASE k = Idle /\ IF Cut' THEN Declares(backup.agents, {})' ELSE Declares(config.agents, {})'
  BY <1>1, <1>2, <1>3, Zenon DEF OnboardInv
<1>4. CASE k.step # "idle"
  <2>1. Declares(config.agents, {k.id})' => Declares(config.agents, {onboard[t].id})'
    BY <1>1 DEF Declares
  <2>2. /\ k.id \in AgentIds /\ k.token <= tokens' /\ ~Cut'
        /\ \A p \in shown' : p.token < k.token
        /\ k.step \in {"read", "copied"} =>
              /\ Declares(config.agents, {})' /\ config'.state = "whole"
              /\ k.updated = WithAgent(config', k.id, k.token)
        /\ k.step = "copied" => backup' = config'
        /\ k.step = "written" => config'.agents[k.id] = k.token /\ Declares(config.agents, {k.id})'
    BY <1>4, DocumentFacts
  <2>3. WithAgent(config', k.id, k.token) = WithAgent(config, onboard[t].id, onboard[t].token)'
    BY <1>1 DEF WithAgent
  <2>4. UnderWay(t)'
    BY <1>1, <1>4, <2>1, <2>2, <2>3 DEF UnderWay
  <2>5. ~Quiet'
    BY <1>1, <1>4, DocumentFacts DEF Quiet
  <2> QED BY <1>1, <1>2, <2>4, <2>5, Zenon DEF OnboardInv
<1> QED BY <1>3, <1>4

LEMMA AtWork ==
    ASSUME OnboardInv, NEW t \in Terminals, onboard[t].step # "idle"
    PROVE  UnderWay(t) /\ onboard[t] \in OnboardRuns /\ config \in Documents /\ backup \in Documents
           /\ shown \in SUBSET Prints /\ tokens \in Nat
BY DocumentFacts DEF OnboardInv, OnboardTyped

LEMMA ReadDocumentKeeps ==
    ASSUME OnboardInv, Careful, NEW t \in Terminals, NEW id \in AgentIds, NEW force \in BOOLEAN,
           ReadDocument(t, id, force)
    PROVE  OnboardInv'
<1>1. /\ config \in Documents /\ backup \in Documents /\ shown \in SUBSET Prints /\ tokens \in Nat
      /\ \A p \in shown : p.token <= tokens
  BY DEF OnboardInv, OnboardTyped
<1>2. /\ Quiet /\ ~Cut /\ config.state = "whole" /\ tokens' = tokens + 1
      /\ config' = config /\ backup' = backup /\ shown' = shown
  BY DEF ReadDocument, Cut, MintedCredential
<1>3. PICK k : k = [step |-> "read", id |-> id, token |-> tokens', updated |-> WithAgent(config, id, tokens')]
  OBVIOUS
<1>4. tokens' \in Nat
  BY <1>1, <1>2
<1>5. WithAgent(config, id, tokens') \in Documents
  BY <1>1, <1>4, WithAgentFacts
<1>6. /\ k \in OnboardRuns /\ k.step = "read" /\ k.id = id /\ k.token = tokens'
      /\ k.updated = WithAgent(config, id, tokens')
  BY <1>3, <1>4, <1>5 DEF OnboardRuns
<1>7. onboard' = [onboard EXCEPT ![t] = k]
  BY <1>3 DEF ReadDocument
<1>8. Declares(config.agents, {})'
  BY <1>2 DEF OnboardInv, Declares, Latest
<1>9. ~Cut'
  BY <1>2 DEF Cut
<1>10. \A p \in shown' : p.token <= tokens' /\ p.token < k.token
  BY <1>1, <1>2, <1>6 DEF Prints
<1>11. k.token <= tokens' /\ k.updated = WithAgent(config', k.id, k.token)
  BY <1>2, <1>4, <1>6
<1>12. \A u \in Terminals : u # t => onboard[u] = Idle
  BY <1>2 DEF Quiet
<1> QED BY <1>1, <1>2, <1>4, <1>6, <1>7, <1>8, <1>9, <1>10, <1>11, <1>12, CommandMoves

LEMMA CopyBackupKeeps == ASSUME OnboardInv, NEW t \in Terminals, CopyBackup(t) PROVE OnboardInv'
<1>1. PICK j : j = onboard[t]
  OBVIOUS
<1>2. PICK k : k = [j EXCEPT !.step = "copied"]
  OBVIOUS
<1>3. /\ j.step = "read" /\ backup' = config /\ config' = config /\ shown' = shown /\ tokens' = tokens
      /\ onboard' = [onboard EXCEPT ![t] = k]
  BY <1>1, <1>2 DEF CopyBackup, OnboardInv, OnboardTyped
<1>4. /\ UnderWay(t) /\ j \in OnboardRuns /\ config \in Documents /\ backup \in Documents
      /\ shown \in SUBSET Prints /\ tokens \in Nat
  BY <1>1, <1>3, AtWork
<1>5. k \in OnboardRuns /\ k.step = "copied" /\ k.id = j.id /\ k.token = j.token /\ k.updated = j.updated
  BY <1>2, <1>4 DEF OnboardRuns
<1>6. /\ j.id \in AgentIds /\ j.token <= tokens /\ ~Cut /\ Declares(config.agents, {}) /\ config.state = "whole"
      /\ j.updated = WithAgent(config, j.id, j.token) /\ \A p \in shown : p.token < j.token
      /\ \A u \in Terminals : u # t => onboard[u] = Idle
  BY <1>1, <1>3, <1>4 DEF UnderWay
<1>7. Declares(config.agents, {})' /\ ~Cut'
  BY <1>3, <1>6 DEF Declares, Latest, Cut
<1>8. \A p \in shown' : p.token <= tokens'
  BY <1>3 DEF OnboardInv
<1> QED BY <1>3, <1>4, <1>5, <1>6, <1>7, <1>8, CommandMoves

LEMMA WriteConfigKeeps ==
    ASSUME OnboardInv, NEW t \in Terminals, NEW outcome \in {"whole", "empty", "cut"}, WriteConfig(t, outcome)
    PROVE  OnboardInv'
<1>1. PICK j : j = onboard[t]
  OBVIOUS
<1>2. j.step = "copied" /\ backup' = backup /\ shown' = shown /\ tokens' = tokens
  BY <1>1 DEF WriteConfig
<1>3. /\ UnderWay(t) /\ j \in OnboardRuns /\ config \in Documents /\ backup \in Documents
      /\ shown \in SUBSET Prints /\ tokens \in Nat
  BY <1>1, <1>2, AtWork
<1>4. /\ j.id \in AgentIds /\ j.token \in Nat /\ j.token <= tokens /\ ~Cut /\ Declares(config.agents, {})
      /\ j.updated = WithAgent(config, j.id, j.token) /\ backup = config
      /\ \A p \in shown : p.token < j.token
      /\ \A u \in Terminals : u # t => onboard[u] = Idle
  BY <1>1, <1>2, <1>3 DEF UnderWay, OnboardRuns
<1>5. \A p \in shown' : p.token <= tokens'
  BY <1>2 DEF OnboardInv
<1>6. CASE outcome = "whole"
  <2>1. PICK k : k = [j EXCEPT !.step = "written"]
    OBVIOUS
  <2>2. k \in OnboardRuns /\ k.step = "written" /\ k.id = j.id /\ k.token = j.token
    BY <1>3, <2>1 DEF OnboardRuns
  <2>3. config' = j.updated /\ onboard' = [onboard EXCEPT ![t] = k]
    BY <1>1, <1>6, <2>1 DEF WriteConfig, OnboardInv, OnboardTyped
  <2>4. /\ config' \in Documents /\ config'.state = "whole" /\ config'.agents[j.id] = j.token
        /\ \A q \in AgentIds : q # j.id => config'.agents[q] = config.agents[q]
    <3>1. PICK w : w = WithAgent(config, j.id, j.token)
      OBVIOUS
    <3>2. config' = w
      BY <1>4, <2>3, <3>1
    <3>3. /\ w \in Documents /\ w.state = "whole" /\ w.agents[j.id] = j.token
          /\ \A q \in AgentIds : q # j.id => w.agents[q] = config.agents[q]
      <4>1. config \in Documents /\ j.id \in AgentIds /\ j.token \in Nat
        BY <1>3, <1>4
      <4>2. /\ WithAgent(config, j.id, j.token) \in Documents
            /\ WithAgent(config, j.id, j.token).state = "whole"
            /\ WithAgent(config, j.id, j.token).agents[j.id] = j.token
        BY <4>1, WithAgentFacts
      <4>3. \A q \in AgentIds : q # j.id => WithAgent(config, j.id, j.token).agents[q] = config.agents[q]
        BY <4>1, WithAgentFacts
      <4> QED BY <3>1, <4>2, <4>3
    <3> QED BY <3>2, <3>3
  <2>5. Declares(config.agents, {k.id})'
    BY <1>2, <1>3, <1>4, <2>2, <2>4 DEF Declares, Latest, Prints
  <2>6. ~Cut'
    BY <2>4 DEF Cut
  <2> QED BY <1>2, <1>3, <1>4, <1>5, <2>2, <2>3, <2>4, <2>5, <2>6, CommandMoves
<1>7. CASE outcome # "whole"
  <2>1. onboard' = [onboard EXCEPT ![t] = Idle] /\ config' \in {EmptyFile, Unparsable}
    BY <1>7 DEF WriteConfig
  <2>2. config' \in Documents /\ Cut'
    BY <2>1, DocumentFacts DEF Cut
  <2>3. Declares(backup.agents, {})'
    BY <1>2, <1>4 DEF Declares, Latest
  <2> QED BY <1>2, <1>3, <1>4, <1>5, <2>1, <2>2, <2>3, DocumentFacts, CommandMoves
<1> QED BY <1>6, <1>7

LEMMA ReportKeeps == ASSUME OnboardInv, NEW t \in Terminals, NEW seen \in BOOLEAN, Report(t, seen) PROVE OnboardInv'
<1>1. PICK j : j = onboard[t]
  OBVIOUS
<1>2. PICK p : p = [id |-> j.id, token |-> j.token, posture |-> Posture(j.updated), written |-> j.updated.mode]
  OBVIOUS
<1>3. /\ j.step = "written" /\ backup' = backup /\ config' = config /\ tokens' = tokens
      /\ onboard' = [onboard EXCEPT ![t] = Idle]
      /\ shown' = IF ~seen THEN {q \in shown : q.id # j.id} ELSE shown \cup {p}
  BY <1>1, <1>2 DEF Report
<1>4. /\ UnderWay(t) /\ j \in OnboardRuns /\ config \in Documents /\ backup \in Documents
      /\ shown \in SUBSET Prints /\ tokens \in Nat
  BY <1>1, <1>3, AtWork
<1>5. /\ j.id \in AgentIds /\ j.token \in Nat /\ j.token <= tokens /\ ~Cut /\ Declares(config.agents, {j.id})
      /\ config.agents[j.id] = j.token
      /\ \A q \in shown : q.token < j.token
      /\ \A u \in Terminals : u # t => onboard[u] = Idle
  BY <1>1, <1>3, <1>4 DEF UnderWay, OnboardRuns
<1>6. p \in Prints /\ p.id = j.id /\ p.token = j.token
  <2>1. j.updated.mode \in Modes \cup {"unset"}
    BY <1>4 DEF OnboardRuns, Documents
  <2> QED BY <1>2, <1>5, <2>1 DEF Prints, Posture
<1>7. shown' \in SUBSET Prints /\ \A q \in shown' : q.token <= tokens'
  BY <1>3, <1>4, <1>5, <1>6 DEF OnboardInv
<1>8. Declares(config.agents, {})'
  <2> SUFFICES ASSUME NEW q \in shown', Latest(q)' PROVE config'.agents[q.id] = q.token
    BY DEF Declares
  <2>1. CASE ~seen
    <3>1. q \in shown /\ q.id # j.id /\ \A r \in shown : r.id = q.id => r \in shown'
      BY <1>3, <2>1
    <3>2. Latest(q)
      BY <3>1 DEF Latest
    <3> QED BY <1>3, <1>5, <3>1, <3>2 DEF Declares
  <2>2. CASE seen
    <3>1. shown' = shown \cup {p}
      BY <1>3, <2>2
    <3>2. CASE q = p
      BY <1>3, <1>5, <1>6, <3>2
    <3>3. CASE q # p
      <4>1. q \in shown /\ Latest(q) /\ (p.id = q.id => p.token <= q.token)
        BY <3>1, <3>3 DEF Latest
      <4>2. q.token \in Nat
        BY <1>4, <4>1 DEF Prints
      <4>3. q.id # j.id
        BY <1>5, <1>6, <4>1, <4>2
      <4> QED BY <1>3, <1>5, <4>1, <4>3 DEF Declares
    <3> QED BY <3>2, <3>3
  <2> QED BY <2>1, <2>2
<1>9. ~Cut'
  BY <1>3, <1>5 DEF Cut
<1> QED BY <1>3, <1>4, <1>5, <1>7, <1>8, <1>9, DocumentFacts, CommandMoves

LEMMA OnboardBegins == OnboardInit => OnboardInv
<1> SUFFICES ASSUME OnboardInit PROVE OnboardInv
  OBVIOUS
<1>1. OnboardTyped
  BY DocumentFacts DEF OnboardInit, OnboardTyped
<1>2. \A t \in Terminals : onboard[t] = Idle
  BY DEF OnboardInit
<1>3. \A agents : Declares(agents, {})
  BY DEF OnboardInit, Declares
<1>4. \A p \in shown : p.token <= tokens
  BY DEF OnboardInit
<1>5. Declares(config.agents, {}) /\ Declares(backup.agents, {})
  BY <1>3
<1> QED BY <1>1, <1>2, <1>4, <1>5, Zenon DEF OnboardInv

LEMMA OnboardGoesOn == ASSUME Careful PROVE OnboardInv /\ [OnboardNext]_onboardVars => OnboardInv'
<1> SUFFICES ASSUME OnboardInv, [OnboardNext]_onboardVars PROVE OnboardInv'
  OBVIOUS
<1>1. CASE UNCHANGED onboardVars
  BY <1>1 DEF onboardVars, OnboardInv, OnboardTyped, UnderWay, Quiet, Cut, Declares, Latest
<1>2. ASSUME NEW mode \in Modes, NEW force \in BOOLEAN, InitFiles(mode, force) PROVE OnboardInv'
  BY <1>2, InitFilesKeeps
<1>3. ASSUME NEW mode \in Modes, EditMode(mode) PROVE OnboardInv'
  BY <1>3, EditModeKeeps
<1>4. ASSUME NEW t \in Terminals, NEW id \in AgentIds, NEW force \in BOOLEAN, ReadDocument(t, id, force)
      PROVE  OnboardInv'
  BY <1>4, ReadDocumentKeeps
<1>5. ASSUME NEW t \in Terminals, CopyBackup(t) PROVE OnboardInv'
  BY <1>5, CopyBackupKeeps
<1>6. ASSUME NEW t \in Terminals, NEW outcome \in {"whole", "empty", "cut"}, WriteConfig(t, outcome)
      PROVE  OnboardInv'
  BY <1>6, WriteConfigKeeps
<1>7. ASSUME NEW t \in Terminals, NEW seen \in BOOLEAN, Report(t, seen) PROVE OnboardInv'
  BY <1>7, ReportKeeps
<1>8. CASE Restore
  BY <1>8, RestoreKeeps
<1> QED BY <1>1, <1>2, <1>3, <1>4, <1>5, <1>6, <1>7, <1>8 DEF OnboardNext

LEMMA OnboardInvSuffices == OnboardInv => PrintedCredentialsStay
<1> SUFFICES ASSUME OnboardInv, NEW p \in shown, Latest(p)
             PROVE  \/ config.agents[p.id] = p.token
                    \/ Cut /\ backup.agents[p.id] = p.token
                    \/ \E t \in Terminals : onboard[t].step = "written" /\ onboard[t].id = p.id
  BY DEF PrintedCredentialsStay
<1>1. CASE Quiet
  BY <1>1 DEF OnboardInv, Declares
<1>2. ASSUME NEW t \in Terminals, onboard[t] # Idle
      PROVE  \/ config.agents[p.id] = p.token
             \/ \E u \in Terminals : onboard[u].step = "written" /\ onboard[u].id = p.id
  <2>1. UnderWay(t) /\ onboard[t].step \in {"read", "copied", "written"}
    BY <1>2 DEF OnboardInv, OnboardTyped, OnboardRuns, UnderWay
  <2>2. CASE onboard[t].step = "written" /\ onboard[t].id = p.id
    BY <2>2
  <2>3. CASE onboard[t].step = "written" /\ onboard[t].id # p.id
    BY <2>1, <2>3 DEF UnderWay, Declares
  <2>4. CASE onboard[t].step # "written"
    BY <2>1, <2>4 DEF UnderWay, Declares
  <2> QED BY <2>2, <2>3, <2>4
<1> QED BY <1>1, <1>2 DEF Quiet

\* Operators run one command at a time and put a file that was cut back from its backup:
\* then a printed credential that no later command replaced is declared in the file, or
\* in the backup of a file that was cut, for any number of agents, terminals and commands,
\* whichever write is cut short and whichever report is never seen (runOnboard, withAgent).
THEOREM PrintedCredentialsStand ==
    ASSUME Careful PROVE OnboardInit /\ [][OnboardNext]_onboardVars => []PrintedCredentialsStay
<1>1. OnboardInv /\ [OnboardNext]_onboardVars => OnboardInv'
  BY OnboardGoesOn
<1> QED BY <1>1, OnboardBegins, OnboardInvSuffices, PTL

-----------------------------------------------------------------------------
(* Who a credential names.                                                 *)

Credential == [agent : Agents, expires : Nat \cup {Never}, revoked : BOOLEAN]
IsStore(held) == held = [s \in DOMAIN held |-> held[s]] /\ \A s \in DOMAIN held : held[s] \in Credential

\* An agent's credential without an end is its only one.
OneCurrent(held) ==
    \A s, t \in DOMAIN held :
        /\ held[s].agent = held[t].agent /\ ~held[s].revoked /\ ~held[t].revoked
        /\ held[s].expires = Never /\ held[t].expires = Never
        => s = t

\* What is written over a store keeps its secrets and its revocations.
Succeeds(d, held) ==
    /\ DOMAIN held \subseteq DOMAIN d.records
    /\ \A s \in DOMAIN held : held[s].revoked => d.records[s].revoked
    /\ d.printed \subseteq DOMAIN d.records
    /\ \A s \in d.tombstones : s \in DOMAIN d.records /\ d.records[s].revoked

\* The values of the clock, the stamps and the stores.
Stamped ==
    /\ setup \in Setups /\ clock \in Nat /\ lastStamp \in Nat
    /\ fileState \in {"ok", "bad", "absent"}
    /\ fileStamp \in 0 .. lastStamp /\ stamp \in 0 .. lastStamp /\ conn \in {Nobody} \cup 0 .. lastStamp
    /\ lastCheck \in 0 .. clock /\ fileSince \in 0 .. clock

\* The proxy's copy is that of its stamp, and a stamp names one content.  What the
\* file was when the proxy last looked, it has copied or is about to read.
Follows ==
    /\ fileState = "ok" => fileStamp # Absent
    /\ fileStamp = Absent => fileRecords = <<>> /\ loadedOnce = FALSE
    /\ loadedOnce = FALSE => records = <<>>
    /\ stamp = fileStamp => records = fileRecords
    /\ fileState = "ok" /\ lastCheck > fileSince =>
          IF conn = Nobody THEN stamp = fileStamp ELSE conn = fileStamp

\* The file and what commands are about to write over it.
Stores ==
    /\ IsStore(fileRecords) /\ OneCurrent(fileRecords)
    /\ \A c \in Commands : draft[c].pending => IsStore(draft[c].records) /\ OneCurrent(draft[c].records)
    /\ draft = [c \in Commands |-> draft[c]]

\* One command at a time works on the file as it is.
Alone ==
    Cardinality(setup.commands) = 1 /\ "absent" \notin setup.kinds =>
        /\ printed \subseteq DOMAIN fileRecords
        /\ \A s \in tombstones : s \in DOMAIN fileRecords /\ fileRecords[s].revoked
        /\ fileState = "absent" => fileRecords = <<>>
        /\ \A c \in Commands : draft[c].pending => c \in setup.commands /\ Succeeds(draft[c], fileRecords)

IdentityInv == Stamped /\ Follows /\ Stores /\ Alone

LEMMA NothingStored ==
    /\ IsStore(<<>>) /\ OneCurrent(<<>>) /\ DOMAIN <<>> = {}
<1>1. DOMAIN <<>> = {} /\ <<>> = [s \in {} |-> <<>>[s]]
  OBVIOUS
<1> QED BY <1>1 DEF IsStore, OneCurrent

-----------------------------------------------------------------------------
(* The store under the commands.                                           *)

\* w is held with a new secret's record beside the others.
Widens(w, held, s, c) ==
    /\ IsStore(w) /\ DOMAIN w = DOMAIN held \cup {s} /\ w[s] = c
    /\ \A t \in DOMAIN held : w[t] = held[t]

LEMMA Adds ==
    ASSUME NEW held, IsStore(held), NEW s, s \notin DOMAIN held, NEW c \in Credential
    PROVE  Widens(With(held, s, c), held, s, c)
<1>1. PICK w : w = With(held, s, c)
  OBVIOUS
<1>2. w = [t \in DOMAIN held \cup {s} |-> IF t = s THEN c ELSE held[t]]
  BY <1>1 DEF With
<1>3. DOMAIN w = DOMAIN held \cup {s} /\ w[s] = c /\ \A t \in DOMAIN held : w[t] = held[t]
  BY <1>2
<1>4. \A t \in DOMAIN w : w[t] \in Credential
  BY <1>3 DEF IsStore
<1>5. w = [t \in DOMAIN w |-> w[t]]
  BY <1>2
<1>6. Widens(w, held, s, c)
  BY <1>3, <1>4, <1>5 DEF IsStore, Widens
<1> QED BY <1>1, <1>6

LEMMA IssueFacts ==
    ASSUME NEW held, IsStore(held), OneCurrent(held), NEW s, s \notin DOMAIN held, NEW a \in Agents,
           MayIssue(held, a)
    PROVE  LET w == With(held, s, Current(a))
           IN  /\ IsStore(w) /\ OneCurrent(w) /\ DOMAIN w = DOMAIN held \cup {s}
               /\ \A t \in DOMAIN held : held[t].revoked => w[t].revoked
<1>1. PICK c : c = Current(a)
  OBVIOUS
<1>2. c \in Credential /\ c.agent = a
  BY <1>1 DEF Current, Credential
<1>3. PICK w : w = With(held, s, c)
  OBVIOUS
<1>4. /\ IsStore(w) /\ DOMAIN w = DOMAIN held \cup {s} /\ w[s] = c
      /\ \A t \in DOMAIN held : w[t] = held[t]
  <2>1. Widens(With(held, s, c), held, s, c)
    BY <1>2, Adds
  <2> QED BY <1>3, <2>1 DEF Widens
<1>5. \A t \in DOMAIN held : ~(held[t].agent = a /\ ~held[t].revoked /\ held[t].expires = Never)
  BY DEF MayIssue, Active, ListFor, CredentialState
<1>6. OneCurrent(w)
  BY <1>2, <1>4, <1>5 DEF OneCurrent
<1> QED BY <1>1, <1>3, <1>4, <1>6

LEMMA RotateFacts ==
    ASSUME NEW held, IsStore(held), OneCurrent(held), NEW s, s \notin DOMAIN held, NEW a \in Agents,
           NEW old \in Active(held, a), NEW end \in Nat
    PROVE  LET w == With([held EXCEPT ![old].expires = end], s, Current(a))
           IN  /\ IsStore(w) /\ OneCurrent(w) /\ DOMAIN w = DOMAIN held \cup {s}
               /\ \A t \in DOMAIN held : held[t].revoked => w[t].revoked
<1>1. PICK c : c = Current(a)
  OBVIOUS
<1>2. c \in Credential /\ c.agent = a
  BY <1>1 DEF Current, Credential
<1>3. old \in DOMAIN held /\ held[old].agent = a /\ held[old].expires = Never /\ ~held[old].revoked
  BY DEF Active, ListFor, CredentialState
<1>4. PICK e : e = [held[old] EXCEPT !.expires = end]
  OBVIOUS
<1>5. e \in Credential /\ e.expires = end /\ e.agent = a /\ e.revoked = held[old].revoked
  BY <1>3, <1>4 DEF IsStore, Credential
<1>6. PICK k : k = [held EXCEPT ![old] = e]
  OBVIOUS
<1>7. /\ DOMAIN k = DOMAIN held /\ k[old] = e /\ \A t \in DOMAIN held : t # old => k[t] = held[t]
      /\ k = [t \in DOMAIN k |-> k[t]]
  BY <1>3, <1>6 DEF IsStore
<1>8. IsStore(k)
  BY <1>5, <1>7 DEF IsStore
<1>9. PICK w : w = With(k, s, c)
  OBVIOUS
<1>10. /\ IsStore(w) /\ DOMAIN w = DOMAIN held \cup {s} /\ w[s] = c
       /\ \A t \in DOMAIN held : w[t] = k[t]
  <2>1. s \notin DOMAIN k /\ c \in Credential
    BY <1>2, <1>7
  <2>2. Widens(With(k, s, c), k, s, c)
    BY <1>8, <2>1, Adds
  <2>3. Widens(w, k, s, c)
    BY <1>9, <2>2
  <2> QED BY <1>7, <2>3 DEF Widens
<1>11. end # Never
  BY DEF Never
<1>12. \A t \in DOMAIN held : ~(w[t].agent = a /\ ~w[t].revoked /\ w[t].expires = Never)
  <2> SUFFICES ASSUME NEW t \in DOMAIN held, w[t].agent = a, ~w[t].revoked, w[t].expires = Never
               PROVE  FALSE
    OBVIOUS
  <2>1. CASE t = old
    BY <1>5, <1>7, <1>10, <1>11, <2>1
  <2>2. CASE t # old
    <3>1. w[t] = held[t]
      BY <1>7, <1>10, <2>2
    <3> QED BY <1>3, <2>2, <3>1 DEF OneCurrent
  <2> QED BY <2>1, <2>2
<1>13. OneCurrent(w)
  <2> SUFFICES ASSUME NEW x \in DOMAIN w, NEW y \in DOMAIN w,
                      w[x].agent = w[y].agent, ~w[x].revoked, ~w[y].revoked,
                      w[x].expires = Never, w[y].expires = Never
               PROVE  x = y
    BY DEF OneCurrent
  <2>1. CASE x \in DOMAIN held /\ y \in DOMAIN held
    BY <1>5, <1>7, <1>10, <1>11, <2>1 DEF OneCurrent
  <2> QED BY <1>2, <1>10, <1>12, <2>1
<1>14. \A t \in DOMAIN held : held[t].revoked => w[t].revoked
  BY <1>3, <1>7, <1>10
<1> QED BY <1>1, <1>4, <1>6, <1>9, <1>10, <1>13, <1>14

LEMMA RevokeFacts ==
    ASSUME NEW held, IsStore(held), OneCurrent(held), NEW ids, ids \subseteq DOMAIN held
    PROVE  LET w == [s \in DOMAIN held |-> IF s \in ids THEN [held[s] EXCEPT !.revoked = TRUE] ELSE held[s]]
           IN  /\ IsStore(w) /\ OneCurrent(w) /\ DOMAIN w = DOMAIN held
               /\ \A t \in DOMAIN held : held[t].revoked => w[t].revoked
               /\ \A t \in ids : w[t].revoked
<1>1. PICK w : w = [s \in DOMAIN held |-> IF s \in ids THEN [held[s] EXCEPT !.revoked = TRUE] ELSE held[s]]
  OBVIOUS
<1>2. DOMAIN w = DOMAIN held /\ w = [s \in DOMAIN w |-> w[s]]
  BY <1>1
<1>3. ASSUME NEW s \in DOMAIN held
      PROVE  /\ w[s] \in Credential /\ w[s].agent = held[s].agent /\ w[s].expires = held[s].expires
             /\ held[s].revoked => w[s].revoked
             /\ s \in ids => w[s].revoked
             /\ ~w[s].revoked => ~held[s].revoked
  <2>1. held[s] \in Credential
    BY DEF IsStore
  <2>2. PICK e : e = [held[s] EXCEPT !.revoked = TRUE]
    OBVIOUS
  <2>3. e \in Credential /\ e.revoked = TRUE /\ e.agent = held[s].agent /\ e.expires = held[s].expires
    BY <2>1, <2>2 DEF Credential
  <2>4. w[s] = IF s \in ids THEN e ELSE held[s]
    BY <1>1, <2>2
  <2> QED BY <2>1, <2>3, <2>4
<1>4. IsStore(w) /\ OneCurrent(w)
  BY <1>2, <1>3 DEF IsStore, OneCurrent
<1> QED BY <1>1, <1>2, <1>3, <1>4

-----------------------------------------------------------------------------
(* The steps.                                                              *)

LEMMA IdentityBegins == Init => IdentityInv
<1> SUFFICES ASSUME Init PROVE IdentityInv
  OBVIOUS
<1>1. Stamped
  BY DEF Init, Stamped, Absent, Nobody
<1>2. Follows
  BY DEF Init, Follows, Absent, Nobody
<1>3. draft = [c \in Commands |-> draft[c]] /\ \A c \in Commands : ~draft[c].pending
  BY DEF Init, NoDraft
<1>4. Stores
  BY <1>3, NothingStored DEF Init, Stores
<1>5. Alone
  BY <1>3, NothingStored DEF Init, Alone
<1> QED BY <1>1, <1>2, <1>4, <1>5 DEF IdentityInv

\* What is held by the reader of an absent file, and of one that parses.
LEMMA WhatIsRead ==
    ASSUME IdentityInv, Readable, NEW held, held = IF fileState = "ok" THEN fileRecords ELSE <<>>
    PROVE  /\ IsStore(held) /\ OneCurrent(held) /\ DOMAIN held \subseteq DOMAIN fileRecords
           /\ Cardinality(setup.commands) = 1 /\ "absent" \notin setup.kinds => held = fileRecords
<1>1. CASE fileState = "ok"
  BY <1>1 DEF IdentityInv, Stores
<1>2. CASE fileState # "ok"
  <2>1. fileState = "absent"
    BY <1>2 DEF IdentityInv, Stamped, Readable
  <2> QED BY <1>2, <2>1, NothingStored DEF IdentityInv, Alone
<1> QED BY <1>1, <1>2

\* A draft keeps all that was read, revocations too; what it prints is in it.
DraftIsSound(d, held) ==
    d.pending /\ IsStore(d.records) /\ OneCurrent(d.records) /\ Succeeds(d, held)

LEMMA ReadKeeps ==
    ASSUME IdentityInv, NEW c \in Commands, Read(c)
    PROVE  IdentityInv'
<1>1. PICK held : held = IF fileState = "ok" THEN fileRecords ELSE <<>>
  OBVIOUS
<1>2. /\ IsStore(held) /\ OneCurrent(held) /\ DOMAIN held \subseteq DOMAIN fileRecords
      /\ Cardinality(setup.commands) = 1 /\ "absent" \notin setup.kinds => held = fileRecords
  BY <1>1, WhatIsRead DEF Read
<1>3. c \in setup.commands
  BY DEF Read
<1>4. ASSUME NEW s \in Fresh
      PROVE  s \notin DOMAIN held
  BY <1>2 DEF Fresh, Minted
<1>5. \E d : draft' = [draft EXCEPT ![c] = d] /\ DraftIsSound(d, held)
  <2>1. ASSUME NEW a \in Agents, IssueTo(c, held, a)
        PROVE  \E d : draft' = [draft EXCEPT ![c] = d] /\ DraftIsSound(d, held)
    <3>1. PICK s \in Fresh :
            /\ MayIssue(held, a)
            /\ draft' = [draft EXCEPT ![c] =
                [records |-> With(held, s, Current(a)), printed |-> {s}, tombstones |-> {}, pending |-> TRUE]]
      BY <2>1, Zenon DEF IssueTo
    <3>2. PICK w : w = With(held, s, Current(a))
      OBVIOUS
    <3>3. PICK d : d = [records |-> w, printed |-> {s}, tombstones |-> {}, pending |-> TRUE]
      OBVIOUS
    <3>4. /\ IsStore(w) /\ OneCurrent(w) /\ DOMAIN w = DOMAIN held \cup {s}
          /\ \A t \in DOMAIN held : held[t].revoked => w[t].revoked
      BY <1>2, <1>4, <3>1, <3>2, IssueFacts
    <3>5. DraftIsSound(d, held)
      BY <3>3, <3>4 DEF DraftIsSound, Succeeds
    <3> QED BY <3>1, <3>2, <3>3, <3>5
  <2>2. ASSUME NEW a \in Agents, NEW overlap \in setup.overlaps, RotateTo(c, held, a, overlap)
        PROVE  \E d : draft' = [draft EXCEPT ![c] = d] /\ DraftIsSound(d, held)
    <3>1. PICK s \in Fresh, old \in Active(held, a) :
            draft' = [draft EXCEPT ![c] =
                [records |-> With([held EXCEPT ![old].expires = clock + overlap], s, Current(a)),
                 printed |-> {s}, tombstones |-> {}, pending |-> TRUE]]
      BY <2>2, Zenon DEF RotateTo
    <3>2. clock + overlap \in Nat
      BY SetupAssumption DEF IdentityInv, Stamped
    <3>3. PICK w : w = With([held EXCEPT ![old].expires = clock + overlap], s, Current(a))
      OBVIOUS
    <3>4. PICK d : d = [records |-> w, printed |-> {s}, tombstones |-> {}, pending |-> TRUE]
      OBVIOUS
    <3>5. /\ IsStore(w) /\ OneCurrent(w) /\ DOMAIN w = DOMAIN held \cup {s}
          /\ \A t \in DOMAIN held : held[t].revoked => w[t].revoked
      <4>1. s \notin DOMAIN held
        BY <1>4
      <4>2. PICK end \in Nat : end = clock + overlap
        BY <3>2
      <4>3. LET v == With([held EXCEPT ![old].expires = end], s, Current(a))
            IN  /\ IsStore(v) /\ OneCurrent(v) /\ DOMAIN v = DOMAIN held \cup {s}
                /\ \A t \in DOMAIN held : held[t].revoked => v[t].revoked
        BY <1>2, <4>1, RotateFacts, Zenon
      <4>4. w = With([held EXCEPT ![old].expires = end], s, Current(a))
        BY <3>3, <4>2
      <4> QED BY <4>3, <4>4
    <3>6. DraftIsSound(d, held)
      BY <3>4, <3>5 DEF DraftIsSound, Succeeds
    <3> QED BY <3>1, <3>3, <3>4, <3>6
  <2>3. ASSUME NEW ids, ids \subseteq DOMAIN held, RevokeAll(c, held, ids)
        PROVE  \E d : draft' = [draft EXCEPT ![c] = d] /\ DraftIsSound(d, held)
    <3>1. PICK w : w = [s \in DOMAIN held |-> IF s \in ids THEN [held[s] EXCEPT !.revoked = TRUE] ELSE held[s]]
      OBVIOUS
    <3>2. PICK d : d = [records |-> w, printed |-> {}, tombstones |-> ids, pending |-> TRUE]
      OBVIOUS
    <3>3. /\ IsStore(w) /\ OneCurrent(w) /\ DOMAIN w = DOMAIN held
          /\ \A t \in DOMAIN held : held[t].revoked => w[t].revoked
          /\ \A t \in ids : w[t].revoked
      BY SMTT(30), <1>2, <2>3, <3>1, RevokeFacts
    <3>4. DraftIsSound(d, held)
      BY <2>3, <3>2, <3>3 DEF DraftIsSound, Succeeds
    <3> QED BY <2>3, <3>1, <3>2, <3>4 DEF RevokeAll
  <2>4. \/ \E a \in Agents : IssueTo(c, held, a)
        \/ \E a \in Agents, overlap \in setup.overlaps : RotateTo(c, held, a, overlap)
        \/ \E s \in DOMAIN held : RevokeAll(c, held, {s})
        \/ \E a \in Agents : RevokeAll(c, held, Unrevoked(held, a))
    BY <1>1 DEF Read
  <2>5. \A a \in Agents : Unrevoked(held, a) \subseteq DOMAIN held
    BY DEF Unrevoked, ListFor
  <2>6. \A s \in DOMAIN held : {s} \subseteq DOMAIN held
    OBVIOUS
  <2> QED BY <2>1, <2>2, <2>3, <2>4, <2>5, <2>6
<1>6. PICK d : draft' = [draft EXCEPT ![c] = d] /\ DraftIsSound(d, held)
  BY <1>5
<1>7. /\ draft' = [b \in Commands |-> draft'[b]] /\ draft'[c] = d
      /\ \A b \in Commands : b # c => draft'[b] = draft[b]
  BY <1>6 DEF IdentityInv, Stores
<1>8. /\ setup' = setup /\ clock' = clock /\ lastStamp' = lastStamp /\ fileState' = fileState
      /\ fileStamp' = fileStamp /\ stamp' = stamp /\ conn' = conn /\ lastCheck' = lastCheck
      /\ fileSince' = fileSince /\ fileRecords' = fileRecords /\ loadedOnce' = loadedOnce
      /\ records' = records /\ printed' = printed /\ tombstones' = tombstones
  BY DEF Read, file, proxy, history
<1>9. Stamped' /\ Follows'
  BY <1>8 DEF IdentityInv, Stamped, Follows
<1>10. Stores'
  BY <1>6, <1>7, <1>8 DEF IdentityInv, Stores, DraftIsSound
<1>11. Alone'
  BY <1>2, <1>3, <1>6, <1>7, <1>8 DEF IdentityInv, Alone, DraftIsSound
<1> QED BY <1>9, <1>10, <1>11 DEF IdentityInv

LEMMA WriteKeeps ==
    ASSUME IdentityInv, NEW c \in Commands, Write(c)
    PROVE  IdentityInv'
<1>1. PICK d : d = draft[c]
  OBVIOUS
<1>2. /\ d.pending /\ fileState' = "ok" /\ fileRecords' = d.records
      /\ lastStamp' = lastStamp + 1 /\ fileStamp' = lastStamp + 1 /\ fileSince' = clock
      /\ printed' = printed \cup d.printed /\ tombstones' = tombstones \cup d.tombstones
      /\ draft' = [draft EXCEPT ![c] = NoDraft]
  BY <1>1 DEF Write
<1>3. /\ setup' = setup /\ clock' = clock /\ stamp' = stamp /\ conn' = conn /\ lastCheck' = lastCheck
      /\ loadedOnce' = loadedOnce /\ records' = records
  BY DEF Write, proxy, counts
<1>4. /\ draft' = [b \in Commands |-> draft'[b]] /\ ~draft'[c].pending
      /\ \A b \in Commands : b # c => draft'[b] = draft[b]
  BY <1>2 DEF IdentityInv, Stores, NoDraft
<1>5. Stamped' /\ Follows'
  BY <1>2, <1>3 DEF IdentityInv, Stamped, Follows, Absent, Nobody
<1>6. Stores'
  BY <1>1, <1>2, <1>4 DEF IdentityInv, Stores
<1>7. Alone'
  <2> SUFFICES ASSUME Cardinality(setup.commands) = 1, "absent" \notin setup.kinds
               PROVE  /\ printed' \subseteq DOMAIN fileRecords'
                      /\ \A s \in tombstones' : s \in DOMAIN fileRecords' /\ fileRecords'[s].revoked
                      /\ \A b \in Commands : draft'[b].pending =>
                            b \in setup.commands /\ Succeeds(draft'[b], fileRecords')
    BY <1>2, <1>3 DEF Alone
  <2>1. /\ printed \subseteq DOMAIN fileRecords
        /\ \A s \in tombstones : s \in DOMAIN fileRecords /\ fileRecords[s].revoked
        /\ \A b \in Commands : draft[b].pending => b \in setup.commands
        /\ Succeeds(d, fileRecords)
    BY <1>1, <1>2 DEF IdentityInv, Alone
  <2>2. \A b \in Commands : ~draft'[b].pending
    <3>1. IsFiniteSet(setup.commands)
      BY SetupAssumption DEF IdentityInv, Stamped
    <3>2. \E e : setup.commands = {e}
      BY <3>1, FS_Singleton
    <3> QED BY <1>1, <1>2, <1>4, <2>1, <3>2
  <2> QED BY <1>2, <2>1, <2>2 DEF Succeeds
<1> QED BY <1>5, <1>6, <1>7 DEF IdentityInv

\* Steps that leave file contents and drafts alone.
LEMMA StoresStay ==
    ASSUME IdentityInv, UNCHANGED <<setup, fileRecords, draft, printed, tombstones>>,
           fileState' = "absent" => fileState = "absent" \/ "absent" \in setup.kinds
    PROVE  Stores' /\ Alone'
<1>1. Stores'
  BY DEF IdentityInv, Stores
<1>2. Alone'
  BY DEF IdentityInv, Alone
<1> QED BY <1>1, <1>2

LEMMA ConnectKeeps ==
    ASSUME IdentityInv, Connect
    PROVE  IdentityInv'
<1>1. /\ UNCHANGED <<setup, clock, lastStamp, fileState, fileRecords, fileStamp, draft, printed, tombstones>>
      /\ UNCHANGED <<stamp, records, loadedOnce, fileSince>> /\ lastCheck' = clock
      /\ conn' = IF FileStamp = stamp THEN Nobody ELSE FileStamp
  BY DEF Connect, file, history, counts
<1>2. FileStamp \in 0 .. lastStamp /\ (fileState = "ok" => FileStamp = fileStamp)
  BY DEF IdentityInv, Stamped, FileStamp, Absent
<1>3. Stamped'
  BY <1>1, <1>2 DEF IdentityInv, Stamped
<1>4. Follows'
  BY <1>1, <1>2 DEF IdentityInv, Stamped, Follows, Nobody
<1> QED BY <1>1, <1>3, <1>4, StoresStay DEF IdentityInv

LEMMA ReadChangedKeeps ==
    ASSUME IdentityInv, ReadChanged
    PROVE  IdentityInv'
<1>1. /\ UNCHANGED <<setup, clock, lastStamp, fileState, fileRecords, fileStamp, draft, printed, tombstones>>
      /\ UNCHANGED <<lastCheck, fileSince>> /\ conn # Nobody /\ conn' = Nobody /\ Reload(conn)
  BY DEF ReadChanged, file, history, counts
<1>2. CASE conn = Absent
  <2>1. stamp' = Absent /\ loadedOnce' = loadedOnce /\ records' = IF loadedOnce THEN records ELSE <<>>
    BY <1>1, <1>2 DEF Reload
  <2>2. Stamped'
    BY <1>1, <2>1 DEF IdentityInv, Stamped, Absent
  <2>3. loadedOnce = FALSE => records' = <<>>
    BY <2>1
  <2>4. Follows'
    BY <1>1, <1>2, <2>1, <2>3 DEF IdentityInv, Follows, Absent, Nobody
  <2> QED BY <1>1, <2>2, <2>4, StoresStay DEF IdentityInv
<1>3. CASE conn # Absent /\ fileState = "ok"
  <2>1. stamp' = conn /\ loadedOnce' = TRUE /\ records' = fileRecords
    BY <1>1, <1>3 DEF Reload
  <2>2. Stamped'
    BY <1>1, <2>1 DEF IdentityInv, Stamped, Absent
  <2>3. Follows'
    BY <1>1, <1>3, <2>1 DEF IdentityInv, Follows, Absent, Nobody
  <2> QED BY <1>1, <2>2, <2>3, StoresStay DEF IdentityInv
<1>4. CASE conn # Absent /\ fileState # "ok"
  <2>1. UNCHANGED <<stamp, loadedOnce, records>>
    BY <1>1, <1>4 DEF Reload
  <2>2. Stamped' /\ Follows'
    BY <1>1, <1>4, <2>1 DEF IdentityInv, Stamped, Follows
  <2> QED BY <1>1, <2>2, StoresStay DEF IdentityInv
<1> QED BY <1>2, <1>3, <1>4

LEMMA RestartKeeps ==
    ASSUME IdentityInv, NEW agents \in SUBSET Agents, Restart(agents)
    PROVE  IdentityInv'
<1>1. /\ UNCHANGED <<setup, clock, lastStamp, fileState, fileRecords, fileStamp, draft, printed, tombstones>>
      /\ UNCHANGED <<conn, fileSince>> /\ lastCheck' = clock
      /\ records' = (IF fileState = "ok" THEN fileRecords ELSE <<>>)
      /\ stamp' = (IF fileState = "ok" THEN fileStamp ELSE Absent)
      /\ loadedOnce' = (fileState = "ok") /\ conn = Nobody
  BY DEF Restart, file, history
<1>2. Stamped'
  BY <1>1 DEF IdentityInv, Stamped, Absent
<1>3. CASE fileState = "ok"
  BY <1>1, <1>2, <1>3, StoresStay DEF IdentityInv, Follows, Absent, Nobody
<1>4. CASE fileState # "ok"
  BY <1>1, <1>2, <1>4, StoresStay DEF IdentityInv, Follows, Absent, Nobody
<1> QED BY <1>3, <1>4

LEMMA TickKeeps ==
    ASSUME IdentityInv, Tick
    PROVE  IdentityInv'
<1>1. /\ UNCHANGED <<setup, lastStamp, fileState, fileRecords, fileStamp, draft, printed, tombstones>>
      /\ UNCHANGED <<conn, fileSince, lastCheck, records, stamp, loadedOnce>> /\ clock' = clock + 1
  BY DEF Tick, file, history, counts, proxy
<1>2. Stamped' /\ Follows'
  BY <1>1 DEF IdentityInv, Stamped, Follows
<1> QED BY <1>1, <1>2, StoresStay DEF IdentityInv

LEMMA OutageKeeps ==
    ASSUME IdentityInv, NEW state \in {"bad", "absent"}, Outage(state)
    PROVE  IdentityInv'
<1>1. /\ UNCHANGED <<setup, clock, fileRecords, draft, printed, tombstones>>
      /\ UNCHANGED <<conn, lastCheck, records, stamp, loadedOnce>> /\ lastStamp' = lastStamp + 1
      /\ fileState' = state /\ fileSince' = clock /\ state \in setup.kinds /\ fileState = "ok"
      /\ fileStamp' = IF state = "bad" THEN lastStamp + 1 ELSE fileStamp
  BY DEF Outage, proxy
<1>2. Stamped' /\ Follows'
  BY <1>1 DEF IdentityInv, Stamped, Follows, Absent
<1> QED BY <1>1, <1>2, StoresStay DEF IdentityInv

LEMMA RecoverKeeps ==
    ASSUME IdentityInv, Recover
    PROVE  IdentityInv'
<1>1. /\ UNCHANGED <<setup, clock, fileRecords, draft, printed, tombstones>>
      /\ UNCHANGED <<conn, lastCheck, records, stamp, loadedOnce>> /\ lastStamp' = lastStamp + 1
      /\ fileState' = "ok" /\ fileSince' = clock /\ fileStamp # Absent
      /\ fileStamp' = IF fileState = "bad" THEN lastStamp + 1 ELSE fileStamp
  BY DEF Recover, proxy, counts
<1>2. Stamped' /\ Follows'
  BY <1>1 DEF IdentityInv, Stamped, Follows, Absent, Nobody
<1> QED BY <1>1, <1>2, StoresStay DEF IdentityInv

LEMMA IdentityStep == IdentityInv /\ [Next]_vars => IdentityInv'
<1> SUFFICES ASSUME IdentityInv, [Next]_vars PROVE IdentityInv'
  OBVIOUS
<1>1. CASE UNCHANGED vars
  <2>1. /\ UNCHANGED <<setup, clock, lastStamp, fileState, fileRecords, fileStamp, draft, printed, tombstones>>
        /\ UNCHANGED <<conn, fileSince, lastCheck, records, stamp, loadedOnce>>
    BY <1>1 DEF vars, file, history, counts, proxy
  <2>2. Stamped' /\ Follows'
    BY <2>1 DEF IdentityInv, Stamped, Follows
  <2> QED BY <2>1, <2>2, StoresStay DEF IdentityInv
<1> QED BY <1>1, ReadKeeps, WriteKeeps, ConnectKeeps, ReadChangedKeeps, RestartKeeps, TickKeeps,
           OutageKeeps, RecoverKeeps DEF Next

-----------------------------------------------------------------------------
LEMMA IdentityInvSuffices == IdentityInv => ProxyFollowsFile /\ OneActive /\ CommandsStand
<1> SUFFICES ASSUME IdentityInv PROVE ProxyFollowsFile /\ OneActive /\ CommandsStand
  OBVIOUS
<1>1. ProxyFollowsFile
  <2> SUFFICES ASSUME fileState = "ok", clock - fileSince >= RELOAD_CHECK, conn = Nobody,
                      Due => FileStamp = stamp
               PROVE  records = fileRecords
    BY DEF ProxyFollowsFile
  <2>1. FileStamp = fileStamp
    BY DEF FileStamp
  <2>2. CASE Due
    BY <2>1, <2>2 DEF IdentityInv, Follows
  <2>3. CASE ~Due
    <3>1. lastCheck > fileSince
      BY <2>3 DEF IdentityInv, Stamped, Due, RELOAD_CHECK
    <3> QED BY <3>1 DEF IdentityInv, Follows
  <2> QED BY <2>2, <2>3
<1>2. OneActive
  <2> SUFFICES ASSUME NEW a \in Agents
               PROVE  Cardinality({s \in ListFor(fileRecords, a) :
                        ~fileRecords[s].revoked /\ fileRecords[s].expires = Never}) <= 1
    BY DEF OneActive
  <2>1. PICK S : S = {s \in ListFor(fileRecords, a) : ~fileRecords[s].revoked /\ fileRecords[s].expires = Never}
    OBVIOUS
  <2>2. \A s, t \in S : s = t
    BY <2>1 DEF IdentityInv, Stores, OneCurrent, ListFor
  <2>3. CASE S = {}
    <3>1. Cardinality(S) = 0
      BY <2>3, FS_EmptySet
    <3> QED BY <2>1, <3>1
  <2>4. CASE S # {}
    <3>1. PICK e : S = {e}
      BY <2>2, <2>4
    <3>2. Cardinality(S) = 1
      BY <3>1, FS_Singleton
    <3> QED BY <2>1, <3>2
  <2> QED BY <2>3, <2>4
<1>3. CommandsStand
  BY DEF IdentityInv, Alone, CommandsStand
<1> QED BY <1>1, <1>2, <1>3

LEMMA KnownStaysKnown ==
    ASSUME IdentityInv, [Next]_vars
    PROVE  [\A s \in DOMAIN records :
              s \in DOMAIN records' \/ restarts' # restarts \/ s \notin DOMAIN fileRecords]_vars
<1>1. CASE UNCHANGED vars
  BY <1>1
<1>2. ASSUME ReadChanged
      PROVE  \A s \in DOMAIN records : s \in DOMAIN records' \/ s \notin DOMAIN fileRecords
  <2>1. \/ records' = IF loadedOnce THEN records ELSE <<>>
        \/ records' = fileRecords \/ records' = records
    BY <1>2 DEF ReadChanged, Reload
  <2>2. loadedOnce = FALSE => records = <<>>
    BY DEF IdentityInv, Follows
  <2>3. records' = records \/ records' = fileRecords
    <3>1. CASE records' = IF loadedOnce THEN records ELSE <<>>
      BY <2>2, <3>1
    <3> QED BY <2>1, <3>1
  <2> QED BY <2>3
<1>3. ASSUME NEW agents \in SUBSET Agents, Restart(agents)
      PROVE  restarts' # restarts
  BY <1>3 DEF Restart
<1>4. CASE \/ \E c \in Commands : Read(c) \/ Write(c)
           \/ Connect \/ Tick \/ Recover
           \/ \E state \in {"bad", "absent"} : Outage(state)
  <2>1. records' = records
    BY <1>4 DEF Read, Write, Connect, Tick, Recover, Outage, proxy
  <2> QED BY <2>1
<1> QED BY <1>1, <1>2, <1>3, <1>4 DEF Next

\* Store, commands and proxy agree who a credential names: a proxy whose second is over
\* answers as the file does, no agent ever has two credentials without an end, commands that
\* run one at a time lose nothing they printed or revoked, and an outage of the store makes
\* nobody unknown, for any commands, overlaps, outages and restarts (credentials.ts refresh,
\* reload and write, registry.ts resolve).
THEOREM IdentitiesAlwaysHold == Spec => IdentitiesHold
<1> QED BY IdentityBegins, IdentityStep, IdentityInvSuffices, KnownStaysKnown, PTL
        DEF Spec, IdentitiesHold, OutageKeepsIdentity

-----------------------------------------------------------------------------
(* Sandbox: the lines of a profile.                                        *)

Elements(s) == {s[i] : i \in 1 .. Len(s)}

LEMMA ElementsOfBoth ==
    ASSUME NEW S, NEW s \in Seq(S), NEW t \in Seq(S)
    PROVE  s \o t \in Seq(S) /\ Elements(s \o t) = Elements(s) \cup Elements(t)
<1>1. PICK u : u = s \o t
  OBVIOUS
<1>2. u \in Seq(S) /\ Len(u) = Len(s) + Len(t) /\ Len(s) \in Nat /\ Len(t) \in Nat
  BY <1>1
<1>3. \A i \in 1 .. Len(s) : u[i] = s[i] /\ i \in 1 .. Len(u)
  BY <1>1, <1>2
<1>4. \A i \in 1 .. Len(t) : u[Len(s) + i] = t[i] /\ Len(s) + i \in 1 .. Len(u)
  BY <1>1, <1>2
<1>5. Elements(u) \subseteq Elements(s) \cup Elements(t)
  <2> SUFFICES ASSUME NEW i \in 1 .. Len(u) PROVE u[i] \in Elements(s) \cup Elements(t)
    BY DEF Elements
  <2>1. CASE i <= Len(s)
    <3>1. i \in 1 .. Len(s)
      BY <1>2, <2>1
    <3> QED BY <1>3, <3>1 DEF Elements
  <2>2. CASE ~(i <= Len(s))
    <3>1. PICK j : j = i - Len(s)
      OBVIOUS
    <3>2. j \in 1 .. Len(t) /\ i = Len(s) + j
      BY <1>2, <2>2, <3>1
    <3> QED BY <1>4, <3>2 DEF Elements
  <2> QED BY <2>1, <2>2
<1>6. Elements(s) \cup Elements(t) \subseteq Elements(u)
  <2>1. ASSUME NEW i \in 1 .. Len(s) PROVE s[i] \in Elements(u)
    BY <1>3 DEF Elements
  <2>2. ASSUME NEW i \in 1 .. Len(t) PROVE t[i] \in Elements(u)
    <3>1. PICK j : j = Len(s) + i
      OBVIOUS
    <3>2. u[j] = t[i] /\ j \in 1 .. Len(u)
      BY <1>4, <3>1
    <3> QED BY <3>2 DEF Elements
  <2> QED BY <2>1, <2>2 DEF Elements
<1> QED BY <1>1, <1>2, <1>5, <1>6

\* One list after another, of the same things.
Joined(s, t) == s \o t
ListOf(s, S) == s \in Seq(S)

LEMMA JoinedSays ==
    ASSUME NEW S, NEW s, ListOf(s, S), NEW t, ListOf(t, S)
    PROVE  ListOf(Joined(s, t), S) /\ Elements(Joined(s, t)) = Elements(s) \cup Elements(t)
  BY ElementsOfBoth DEF Joined, ListOf

LEMMA JoinedPlaces ==
    ASSUME NEW S, NEW s, ListOf(s, S), NEW t, ListOf(t, S)
    PROVE  /\ Len(s) \in Nat /\ Len(t) \in Nat /\ Len(Joined(s, t)) = Len(s) + Len(t)
           /\ \A i \in 1 .. Len(s) : Joined(s, t)[i] = s[i] /\ s[i] \in Elements(s)
           /\ \A i \in 1 .. Len(t) : Joined(s, t)[Len(s) + i] = t[i]
<1>1. s \in Seq(S) /\ t \in Seq(S)
  BY DEF ListOf
<1>2. PICK u : u = s \o t
  OBVIOUS
<1>3. /\ Len(s) \in Nat /\ Len(t) \in Nat /\ Len(u) = Len(s) + Len(t)
      /\ \A i \in 1 .. Len(s) : u[i] = s[i]
      /\ \A i \in 1 .. Len(t) : u[Len(s) + i] = t[i]
  BY <1>1, <1>2
<1>4. \A i \in 1 .. Len(s) : s[i] \in Elements(s)
  BY DEF Elements
<1> QED BY <1>2, <1>3, <1>4 DEF Joined

LEMMA ElementsOfOne ==
    ASSUME NEW S, NEW a \in S
    PROVE  <<a>> \in Seq(S) /\ Elements(<<a>>) = {a} /\ Len(<<a>>) = 1
<1>1. PICK s : s = <<a>>
  OBVIOUS
<1>2. s \in Seq(S) /\ Len(s) = 1 /\ s[1] = a
  BY <1>1
<1>3. \A i \in 1 .. Len(s) : i = 1
  BY <1>2
<1>4. Elements(s) = {a}
  BY <1>2, <1>3 DEF Elements
<1> QED BY <1>1, <1>2, <1>4

LEMMA ElementsOfTwo ==
    ASSUME NEW S, NEW a \in S, NEW b \in S
    PROVE  <<a, b>> \in Seq(S) /\ Elements(<<a, b>>) = {a, b} /\ Len(<<a, b>>) = 2
<1>1. PICK s : s = <<a, b>>
  OBVIOUS
<1>2. s \in Seq(S) /\ Len(s) = 2 /\ s[1] = a /\ s[2] = b
  BY <1>1
<1>3. \A i \in 1 .. Len(s) : i = 1 \/ i = 2
  BY <1>2
<1>4. 1 \in 1 .. Len(s) /\ 2 \in 1 .. Len(s)
  BY <1>2
<1>5. Elements(s) = {a, b}
  BY <1>2, <1>3, <1>4 DEF Elements
<1> QED BY <1>1, <1>2, <1>5

LEMMA ElementsGiven ==
    ASSUME NEW S, NEW s \in Seq(S), NEW given
    PROVE  /\ GivenThat(given, s) \in Seq(S)
           /\ Elements(GivenThat(given, s)) = {l \in Elements(s) : given}
<1>1. CASE given
  BY <1>1 DEF GivenThat
<1>2. CASE ~given
  <2>1. PICK t : t = <<>>
    OBVIOUS
  <2>2. t \in Seq(S) /\ Len(t) = 0
    BY <2>1
  <2>3. Elements(t) = {}
    BY <2>2 DEF Elements
  <2> QED BY <1>2, <2>1, <2>2, <2>3 DEF GivenThat
<1> QED BY <1>1, <1>2

\* What a profile says, line by line, and its last line.
Said(p) ==
    {Line("version", 1), Line("seccomp", p.seccomp), Line("end", 0)}
    \cup {l \in {Line("require-abi", p.requireAbi)} : p.requireAbi > 0}
    \cup {l \in {Line("allow-degraded", 0)} : p.allowDegraded}
    \cup {l \in {Line("net restrict", 0), Line("net ports", p.ports)} : p.restrictNet}
    \cup {Line("fs", p.fs[i]) : i \in 1 .. Len(p.fs)}

\* The last line comes once.
EndsOnce(s) ==
    /\ Len(s) \in Nat \ {0} /\ s[Len(s)].verb = "end"
    /\ \A i \in 1 .. Len(s) : s[i].verb = "end" => i = Len(s)

LEMMA RenderedSays ==
    ASSUME NEW p, NEW G, p.fs \in Seq(G)
    PROVE  Elements(RenderProfile(p)) = Said(p) /\ EndsOnce(RenderProfile(p))
<1>1. PICK S : S = Said(p) \cup {Line("require-abi", p.requireAbi), Line("allow-degraded", 0),
                                 Line("net restrict", 0), Line("net ports", p.ports)}
  OBVIOUS
<1>2. PICK a, b, c, e, f : /\ a = <<Line("version", 1)>>
                           /\ b = GivenThat(p.requireAbi > 0, <<Line("require-abi", p.requireAbi)>>)
                           /\ c = GivenThat(p.allowDegraded, <<Line("allow-degraded", 0)>>)
                           /\ e = GivenThat(p.restrictNet, <<Line("net restrict", 0), Line("net ports", p.ports)>>)
                           /\ f = <<Line("seccomp", p.seccomp), Line("end", 0)>>
  OBVIOUS
<1>3. PICK d : d = [i \in 1 .. Len(p.fs) |-> Line("fs", p.fs[i])]
  OBVIOUS
<1>4. RenderProfile(p) = a \o b \o c \o d \o e \o f
  BY <1>2, <1>3 DEF RenderProfile
<1>5. /\ Line("version", 1) \in S /\ Line("require-abi", p.requireAbi) \in S
      /\ Line("allow-degraded", 0) \in S /\ Line("net restrict", 0) \in S
      /\ Line("net ports", p.ports) \in S /\ Line("seccomp", p.seccomp) \in S /\ Line("end", 0) \in S
      /\ \A i \in 1 .. Len(p.fs) : Line("fs", p.fs[i]) \in S
  BY <1>1 DEF Said
<1>6. a \in Seq(S) /\ Elements(a) = {Line("version", 1)}
  BY <1>2, <1>5, ElementsOfOne
<1>7. b \in Seq(S) /\ Elements(b) = {l \in {Line("require-abi", p.requireAbi)} : p.requireAbi > 0}
  <2>1. PICK s : s = <<Line("require-abi", p.requireAbi)>>
    OBVIOUS
  <2>2. s \in Seq(S) /\ Elements(s) = {Line("require-abi", p.requireAbi)}
    BY <1>5, <2>1, ElementsOfOne
  <2>3. b = GivenThat(p.requireAbi > 0, s)
    BY <1>2, <2>1
  <2> QED BY <2>2, <2>3, ElementsGiven
<1>8. c \in Seq(S) /\ Elements(c) = {l \in {Line("allow-degraded", 0)} : p.allowDegraded}
  <2>1. PICK s : s = <<Line("allow-degraded", 0)>>
    OBVIOUS
  <2>2. s \in Seq(S) /\ Elements(s) = {Line("allow-degraded", 0)}
    BY <1>5, <2>1, ElementsOfOne
  <2>3. c = GivenThat(p.allowDegraded, s)
    BY <1>2, <2>1
  <2> QED BY <2>2, <2>3, ElementsGiven
<1>9. e \in Seq(S) /\ Elements(e) = {l \in {Line("net restrict", 0), Line("net ports", p.ports)} : p.restrictNet}
  <2>1. PICK s : s = <<Line("net restrict", 0), Line("net ports", p.ports)>>
    OBVIOUS
  <2>2. s \in Seq(S) /\ Elements(s) = {Line("net restrict", 0), Line("net ports", p.ports)}
    BY <1>5, <2>1, ElementsOfTwo
  <2>3. e = GivenThat(p.restrictNet, s)
    BY <1>2, <2>1
  <2> QED BY <2>2, <2>3, ElementsGiven
<1>10. d \in Seq(S) /\ Elements(d) = {Line("fs", p.fs[i]) : i \in 1 .. Len(p.fs)}
  <2>1. PICK n \in Nat : n = Len(p.fs)
    OBVIOUS
  <2>2. d = [i \in 1 .. n |-> Line("fs", p.fs[i])] /\ \A i \in 1 .. n : Line("fs", p.fs[i]) \in S
    BY <1>3, <1>5, <2>1
  <2>3. d \in Seq(S) /\ Len(d) = n /\ \A i \in 1 .. n : d[i] = Line("fs", p.fs[i])
    BY <2>2
  <2> QED BY <2>1, <2>3 DEF Elements
<1>11. /\ f \in Seq(S) /\ Elements(f) = {Line("seccomp", p.seccomp), Line("end", 0)}
       /\ Len(f) = 2 /\ f[1] = Line("seccomp", p.seccomp) /\ f[2] = Line("end", 0)
  BY <1>2, <1>5, ElementsOfTwo
<1>12. ListOf(a, S) /\ ListOf(b, S) /\ ListOf(c, S) /\ ListOf(d, S) /\ ListOf(e, S) /\ ListOf(f, S)
  BY <1>6, <1>7, <1>8, <1>9, <1>10, <1>11 DEF ListOf
<1>13. PICK ab, abc, abcd, u, w : /\ ab = Joined(a, b) /\ abc = Joined(ab, c) /\ abcd = Joined(abc, d)
                                 /\ u = Joined(abcd, e) /\ w = Joined(u, f)
  OBVIOUS
<1>14. ListOf(u, S) /\ Elements(u) = Elements(a) \cup Elements(b) \cup Elements(c) \cup Elements(d)
                                        \cup Elements(e)
  <2>1. ListOf(ab, S) /\ Elements(ab) = Elements(a) \cup Elements(b)
    BY <1>12, <1>13, JoinedSays
  <2>2. ListOf(abc, S) /\ Elements(abc) = Elements(ab) \cup Elements(c)
    BY <1>12, <1>13, <2>1, JoinedSays
  <2>3. ListOf(abcd, S) /\ Elements(abcd) = Elements(abc) \cup Elements(d)
    BY <1>12, <1>13, <2>2, JoinedSays
  <2>4. ListOf(u, S) /\ Elements(u) = Elements(abcd) \cup Elements(e)
    BY <1>12, <1>13, <2>3, JoinedSays
  <2> QED BY <2>1, <2>2, <2>3, <2>4
<1>15. w = RenderProfile(p)
  BY <1>4, <1>13 DEF Joined
<1>16. ListOf(w, S) /\ Elements(w) = Elements(u) \cup Elements(f)
  BY <1>12, <1>13, <1>14, JoinedSays
<1>17. Elements(w) = Said(p)
  BY <1>6, <1>7, <1>8, <1>9, <1>10, <1>11, <1>14, <1>16 DEF Said
<1>18. EndsOnce(w)
  <2>1. \A l : l \in Elements(u) => l.verb # "end"
    <3>1. \A l : l \in Elements(a) => l.verb # "end"
      BY <1>6 DEF Line
    <3>2. \A l : l \in Elements(b) => l.verb # "end"
      BY <1>7 DEF Line
    <3>3. \A l : l \in Elements(c) => l.verb # "end"
      BY <1>8 DEF Line
    <3>4. \A l : l \in Elements(d) => l.verb # "end"
      BY <1>10 DEF Line
    <3>5. \A l : l \in Elements(e) => l.verb # "end"
      <4>1. \A l : l \in Elements(e) => l = Line("net restrict", 0) \/ l = Line("net ports", p.ports)
        BY <1>9
      <4>2. Line("net restrict", 0).verb # "end" /\ Line("net ports", p.ports).verb # "end"
        BY DEF Line
      <4> QED BY <4>1, <4>2
    <3>6. \A l : l \in Elements(u) =>
             l \in Elements(a) \/ l \in Elements(b) \/ l \in Elements(c) \/ l \in Elements(d) \/ l \in Elements(e)
      BY <1>14
    <3> QED BY <3>1, <3>2, <3>3, <3>4, <3>5, <3>6
  <2>2. PICK n \in Nat : n = Len(u)
    BY <1>12, <1>14, JoinedPlaces
  <2>3. /\ Len(w) = Len(u) + Len(f)
        /\ \A i \in 1 .. Len(u) : w[i] = u[i] /\ u[i] \in Elements(u)
        /\ \A i \in 1 .. Len(f) : w[Len(u) + i] = f[i]
    <3>1. ListOf(u, S) /\ ListOf(f, S)
      BY <1>12, <1>14
    <3>2. /\ Len(Joined(u, f)) = Len(u) + Len(f)
          /\ \A i \in 1 .. Len(u) : Joined(u, f)[i] = u[i] /\ u[i] \in Elements(u)
          /\ \A i \in 1 .. Len(f) : Joined(u, f)[Len(u) + i] = f[i]
      BY <3>1, JoinedPlaces
    <3> QED BY <1>13, <3>2
  <2>4. Len(w) = n + 2 /\ \A i \in 1 .. n : w[i] \in Elements(u)
    BY <1>11, <2>2, <2>3
  <2>5. w[n + 1] = f[1] /\ w[n + 2] = f[2]
    <3>1. 1 \in 1 .. Len(f) /\ 2 \in 1 .. Len(f)
      BY <1>11
    <3> QED BY <2>2, <2>3, <3>1
  <2>6. w[n + 1].verb = "seccomp" /\ w[n + 2].verb = "end"
    BY <1>11, <2>5 DEF Line
  <2>7. ASSUME NEW i \in 1 .. Len(w), w[i].verb = "end" PROVE i = Len(w)
    <3>1. i \in 1 .. n \/ i = n + 1 \/ i = n + 2
      BY <2>4
    <3> QED BY <2>1, <2>4, <2>6, <2>7, <3>1
  <2> QED BY <2>4, <2>6, <2>7 DEF EndsOnce
<1> QED BY <1>15, <1>17, <1>18

-----------------------------------------------------------------------------
(* Sandbox: what a command line asks for.                                  *)

LEMMA ProfileOf ==
    ASSUME NEW a \in CommandLines
    PROVE  /\ BaseProfile(a).fs \in Seq(Grants)
           /\ \A i \in 1 .. Len(BaseProfile(a).fs) : BaseProfile(a).fs[i] \in ToSet(Runtime \o a.grants)
           /\ BaseProfile(a).restrictNet = RestrictsNet(a) /\ BaseProfile(a).ports = a.ports
           /\ BaseProfile(a).seccomp = a.seccomp
<1>1. PICK grants : grants = RulesFromArgs(a)
  OBVIOUS
<1>2. grants \in Seq(Grants)
  <2>1. Runtime \in Seq(Grants) /\ a.grants \in Seq(Grants)
    BY SandboxAssumption
  <2> QED BY <1>1, <2>1 DEF RulesFromArgs
<1>3. PICK places : places = {n \in DOMAIN grants :
          \A i \in DOMAIN grants : grants[i][2] = grants[n][2] => ModeRank[grants[i][1]] <= ModeRank[grants[n][1]]}
  OBVIOUS
<1>4. PICK fs : fs = Kept(grants, places)
  OBVIOUS
<1>5. places \subseteq DOMAIN grants
  BY <1>3
<1>6. fs \in Seq(Grants) /\ \A n \in DOMAIN fs : \E i \in places : fs[n] = grants[i]
  BY <1>2, <1>4, <1>5, KeptType
<1>7. \A i \in 1 .. Len(fs) : fs[i] \in ToSet(grants)
  <2> SUFFICES ASSUME NEW i \in 1 .. Len(fs) PROVE fs[i] \in ToSet(grants)
    OBVIOUS
  <2>1. i \in DOMAIN fs
    BY <1>6
  <2>2. PICK n \in DOMAIN grants : fs[i] = grants[n]
    BY <1>5, <1>6, <2>1
  <2>3. ToSet(grants) = {grants[k] : k \in DOMAIN grants}
    BY DEF ToSet
  <2> QED BY <2>2, <2>3
<1>8. fs = BaseProfile(a).fs
  BY <1>1, <1>3, <1>4 DEF BaseProfile, Dedupe
<1>9. grants = Runtime \o a.grants
  BY <1>1 DEF RulesFromArgs
<1>10. /\ BaseProfile(a).restrictNet = RestrictsNet(a) /\ BaseProfile(a).ports = a.ports
       /\ BaseProfile(a).seccomp = a.seccomp
  BY DEF BaseProfile
<1> QED BY <1>6, <1>7, <1>8, <1>9, <1>10

\* The arguments a list of lines gives a verb.
ArgsIn(s, verb) == {l.arg : l \in {k \in Elements(s) : k.verb = verb}}

\* What the launcher reads in a profile that is whole.
WholeProfile(s, a) ==
    /\ ArgsIn(s, "seccomp") = {a.seccomp}
    /\ ArgsIn(s, "net restrict") # {} <=> RestrictsNet(a)
    /\ RestrictsNet(a) => ArgsIn(s, "net ports") = {a.ports}
    /\ ArgsIn(s, "fs") \subseteq ToSet(Runtime \o a.grants)

LEMMA RenderedWhole ==
    ASSUME NEW a \in CommandLines, NEW s, s = RenderProfile(BaseProfile(a))
    PROVE  WholeProfile(s, a) /\ EndsOnce(s)
<1>1. PICK p : p = BaseProfile(a)
  OBVIOUS
<1>2. /\ p.fs \in Seq(Grants) /\ \A i \in 1 .. Len(p.fs) : p.fs[i] \in ToSet(Runtime \o a.grants)
      /\ p.restrictNet = RestrictsNet(a) /\ p.ports = a.ports /\ p.seccomp = a.seccomp
  BY <1>1, ProfileOf
<1>3. Elements(s) = Said(p) /\ EndsOnce(s)
  BY <1>1, <1>2, RenderedSays
<1>4. \A l \in Said(p) :
        \/ l = Line("version", 1) \/ l = Line("seccomp", p.seccomp) \/ l = Line("end", 0)
        \/ l = Line("require-abi", p.requireAbi) \/ l = Line("allow-degraded", 0)
        \/ (l = Line("net restrict", 0) \/ l = Line("net ports", p.ports)) /\ p.restrictNet
        \/ \E i \in 1 .. Len(p.fs) : l = Line("fs", p.fs[i])
  BY DEF Said
<1>5. /\ \A l \in Said(p) : l.verb = "seccomp" => l.arg = p.seccomp
      /\ \A l \in Said(p) : l.verb = "net restrict" => p.restrictNet
      /\ \A l \in Said(p) : l.verb = "net ports" => l.arg = p.ports
      /\ \A l \in Said(p) : l.verb = "fs" => \E i \in 1 .. Len(p.fs) : l.arg = p.fs[i]
  <2> SUFFICES ASSUME NEW l \in Said(p)
               PROVE  /\ l.verb = "seccomp" => l.arg = p.seccomp
                      /\ l.verb = "net restrict" => p.restrictNet
                      /\ l.verb = "net ports" => l.arg = p.ports
                      /\ l.verb = "fs" => \E i \in 1 .. Len(p.fs) : l.arg = p.fs[i]
    OBVIOUS
  <2>1. ASSUME NEW v, NEW x, l = Line(v, x) PROVE l.verb = v /\ l.arg = x
    BY <2>1 DEF Line
  <2>2. CASE l = Line("version", 1) \/ l = Line("end", 0) \/ l = Line("allow-degraded", 0)
    <3>1. l.verb \in {"version", "end", "allow-degraded"}
      BY <2>1, <2>2
    <3> QED BY <3>1
  <2>3. CASE l = Line("seccomp", p.seccomp)
    <3>1. l.verb = "seccomp" /\ l.arg = p.seccomp
      BY <2>1, <2>3
    <3> QED BY <3>1
  <2>4. CASE l = Line("require-abi", p.requireAbi)
    <3>1. l.verb = "require-abi"
      BY <2>1, <2>4
    <3> QED BY <3>1
  <2>5. CASE l = Line("net restrict", 0) /\ p.restrictNet
    <3>1. l.verb = "net restrict"
      BY <2>1, <2>5
    <3> QED BY <2>5, <3>1
  <2>6. CASE l = Line("net ports", p.ports)
    <3>1. l.verb = "net ports" /\ l.arg = p.ports
      BY <2>1, <2>6
    <3> QED BY <3>1
  <2>7. ASSUME NEW i \in 1 .. Len(p.fs), l = Line("fs", p.fs[i])
        PROVE  /\ l.verb = "fs"
               /\ \E j \in 1 .. Len(p.fs) : l.arg = p.fs[j]
    <3>1. l.verb = "fs" /\ l.arg = p.fs[i]
      BY <2>1, <2>7
    <3> QED BY <3>1
  <2>8. CASE \E i \in 1 .. Len(p.fs) : l = Line("fs", p.fs[i])
    <3>1. l.verb = "fs" /\ \E j \in 1 .. Len(p.fs) : l.arg = p.fs[j]
      BY <2>7, <2>8
    <3> QED BY <3>1
  <2> QED BY <1>4, <2>2, <2>3, <2>4, <2>5, <2>6, <2>8
<1>6. \E l \in Said(p) : l.verb = "seccomp" /\ l.arg = p.seccomp
  <2>1. Line("seccomp", p.seccomp) \in Said(p)
    BY DEF Said
  <2> QED BY <2>1 DEF Line
<1>7. p.restrictNet => /\ \E l \in Said(p) : l.verb = "net restrict"
                       /\ \E l \in Said(p) : l.verb = "net ports" /\ l.arg = p.ports
  <2>1. p.restrictNet => Line("net restrict", 0) \in Said(p) /\ Line("net ports", p.ports) \in Said(p)
    BY DEF Said
  <2> QED BY <2>1 DEF Line
<1>8. ArgsIn(s, "seccomp") = {a.seccomp}
  BY <1>2, <1>3, <1>5, <1>6 DEF ArgsIn
<1>9. ArgsIn(s, "net restrict") # {} <=> RestrictsNet(a)
  <2>1. ArgsIn(s, "net restrict") # {} <=> \E l \in Said(p) : l.verb = "net restrict"
    BY <1>3 DEF ArgsIn
  <2> QED BY <1>2, <1>5, <1>7, <2>1
<1>10. RestrictsNet(a) => ArgsIn(s, "net ports") = {a.ports}
  BY <1>2, <1>3, <1>5, <1>7 DEF ArgsIn
<1>11. ArgsIn(s, "fs") \subseteq ToSet(Runtime \o a.grants)
  BY <1>2, <1>3, <1>5 DEF ArgsIn
<1> QED BY <1>3, <1>8, <1>9, <1>10, <1>11 DEF WholeProfile

\* What was read of a list, up to some place.
ReadOf(s, whole) ==
    /\ Len(s) \in Nat /\ Len(s) <= Len(whole) /\ DOMAIN s = 1 .. Len(s)
    /\ \A i \in 1 .. Len(s) : s[i] = whole[i]

\* A pipe that was cut carries no end: what ends is whole.
LEMMA WhatEndsIsWhole ==
    ASSUME NEW whole, EndsOnce(whole), NEW s, ReadOf(s, whole),
           NEW i \in 1 .. Len(s), s[i].verb = "end"
    PROVE  Elements(s) = Elements(whole)
<1>1. i = Len(whole) /\ Len(s) = Len(whole)
  BY DEF ReadOf, EndsOnce
<1> QED BY <1>1 DEF ReadOf, Elements

-----------------------------------------------------------------------------
(* Sandbox: the invariant.                                                 *)

\* What a kernel enforces under Landlock, or what the operator was told instead.
Confined(force, a, warned) ==
    /\ force.fs \/ "landlock" \in warned
    /\ RestrictsNet(a) => force.tcp \/ {"tcp", "landlock"} \cap warned # {}
    /\ force.truncate \/ {"truncate", "landlock"} \cap warned # {}
    /\ \A r \in force.rights :
         r[2] \in UNION {RightsForMode[g[1]] : g \in {s \in ToSet(Runtime \o a.grants) : s[2] = r[1]}}
    /\ force.tcp => force.ports = a.ports

Fields == {"fs", "rights", "tcp", "ports", "truncate", "filter"}

\* A profile is whole, or the launcher has not read it all; what is in force is
\* what was asked for from the step that puts it there.
SandboxInv ==
    /\ asked \in CommandLines /\ kernel \in Kernels
    /\ inForce = [f \in Fields |-> inForce[f]]
    /\ stage \in {"asked", "written", "read", "landlocked", "filtered", "running", "refused"}
    /\ stage \in {"asked", "written", "read"} => inForce = Loose
    /\ stage = "written" => lines = RenderProfile(BaseProfile(asked))
    /\ stage = "read" => ReadOf(lines, RenderProfile(BaseProfile(asked)))
    /\ stage \in {"landlocked", "filtered", "running"} =>
         WholeProfile(lines, asked) /\ Confined(inForce, asked, told)
    /\ stage \in {"filtered", "running"} => inForce.filter = BuildFilter(asked.seccomp)

LEMMA ArgsAreIn == \A verb : Args(verb) = ArgsIn(lines, verb)
  BY DEF Args, ArgsIn, Elements

LEMMA RunStep == SandboxInv /\ CommandRun => SandboxInv'
<1> SUFFICES ASSUME SandboxInv, CommandRun PROVE SandboxInv'
  OBVIOUS
<1>1. CASE RefuseToRun
  <2>1. stage' = "refused" /\ asked' = asked /\ kernel' = kernel /\ lines' = lines /\ told' = told
        /\ inForce' = inForce
    BY <1>1 DEF RefuseToRun
  <2> QED BY <2>1 DEF SandboxInv
<1>2. CASE /\ stage' = "written" /\ lines' = RenderProfile(BaseProfile(asked))
           /\ asked' = asked /\ kernel' = kernel /\ inForce' = inForce
  <2>1. stage = "asked"
    BY DEF CommandRun
  <2> QED BY <1>2, <2>1 DEF SandboxInv
<1> QED BY <1>1, <1>2 DEF CommandRun

LEMMA ReadStep == SandboxInv /\ ReadProfile => SandboxInv'
<1> SUFFICES ASSUME SandboxInv, ReadProfile PROVE SandboxInv'
  OBVIOUS
<1>1. /\ stage = "written" /\ stage' = "read" /\ asked' = asked /\ kernel' = kernel
      /\ told' = told /\ inForce' = inForce
  BY DEF ReadProfile
<1>2. PICK whole : whole = RenderProfile(BaseProfile(asked))
  OBVIOUS
<1>3. lines = whole
  BY <1>1, <1>2 DEF SandboxInv
<1>4. PICK n \in 0 .. Len(lines) : lines' = SubSeq(lines, 1, n)
  BY DEF ReadProfile
<1>5. EndsOnce(whole)
  BY <1>2, RenderedWhole DEF SandboxInv
<1>6. Len(whole) \in Nat
  BY <1>5 DEF EndsOnce
<1>7. PICK s : s = SubSeq(whole, 1, n)
  OBVIOUS
<1>8. ReadOf(s, whole)
  <2>1. n \in Nat /\ n <= Len(whole)
    BY <1>3, <1>4, <1>6
  <2>2. s = [i \in 1 .. n |-> whole[i]]
    BY <1>7, <2>1
  <2>3. Len(s) = n /\ DOMAIN s = 1 .. n /\ \A i \in 1 .. n : s[i] = whole[i]
    BY <2>1, <2>2
  <2> QED BY <2>1, <2>3 DEF ReadOf
<1>9. lines' = s
  BY <1>3, <1>4, <1>7
<1> QED BY <1>1, <1>2, <1>8, <1>9 DEF SandboxInv

\* One rule gives its mode's rights on its path.
LEMMA RuleGives ==
    ASSUME NEW mode, NEW path, NEW r, r \in RuleRights(mode, path)
    PROVE  r[1] = path /\ r[2] \in RightsForMode[mode]
  BY DEF RuleRights

LEMMA LandlockStep == SandboxInv /\ ApplyLandlock => SandboxInv'
<1> SUFFICES ASSUME SandboxInv, ApplyLandlock PROVE SandboxInv'
  OBVIOUS
<1>1. stage = "read"
  BY DEF ApplyLandlock
<1>2. CASE RefuseToRun
  <2>1. stage' = "refused" /\ asked' = asked /\ kernel' = kernel /\ lines' = lines /\ told' = told
        /\ inForce' = inForce
    BY <1>2 DEF RefuseToRun
  <2> QED BY <2>1 DEF SandboxInv
<1>3. CASE ~RefuseToRun
  <2>1. /\ ParseProfile /\ stage' = "landlocked" /\ asked' = asked /\ kernel' = kernel /\ lines' = lines
        /\ told' = told
                 \cup (IF kernel.abi = 0 THEN {"landlock"} ELSE {})
                 \cup (IF kernel.abi \in 1 .. 3 /\ Says("net restrict") THEN {"tcp"} ELSE {})
                 \cup (IF kernel.abi \in 1 .. 2 THEN {"truncate"} ELSE {})
        /\ inForce' =
                 IF kernel.abi = 0 THEN inForce
                 ELSE [inForce EXCEPT
                        !.fs = TRUE, !.truncate = kernel.abi >= 3,
                        !.rights = UNION {RuleRights(r[1], r[2]) : r \in Args("fs")},
                        !.tcp = Says("net restrict") /\ kernel.abi >= 4,
                        !.ports = IF kernel.abi >= 4 THEN UNION Args("net ports") ELSE {}]
    BY <1>3 DEF ApplyLandlock
  <2>2. PICK whole : whole = RenderProfile(BaseProfile(asked))
    OBVIOUS
  <2>3. ReadOf(lines, whole) /\ inForce = Loose /\ asked \in CommandLines
    BY <1>1, <2>2 DEF SandboxInv
  <2>4. WholeProfile(whole, asked) /\ EndsOnce(whole)
    BY <2>2, <2>3, RenderedWhole
  <2>5. \E i \in 1 .. Len(lines) : lines[i].verb = "end"
    BY <2>1 DEF ParseProfile, Says, Args
  <2>6. Elements(lines) = Elements(whole)
    BY <2>3, <2>4, <2>5, WhatEndsIsWhole
  <2>7. WholeProfile(lines, asked)
    BY <2>4, <2>6 DEF WholeProfile, ArgsIn
  <2>8. /\ Says("net restrict") <=> RestrictsNet(asked)
        /\ RestrictsNet(asked) => Args("net ports") = {asked.ports}
        /\ Args("fs") \subseteq ToSet(Runtime \o asked.grants)
    BY <2>7, ArgsAreIn DEF WholeProfile, Says
  <2>9. kernel.abi \in Nat
    BY SandboxAssumption DEF SandboxInv
  <2>10. inForce = [f \in Fields |-> inForce[f]]
    BY DEF SandboxInv
  <2>11. CASE kernel.abi = 0
    <3>1. inForce' = Loose /\ "landlock" \in told'
      BY <2>1, <2>3, <2>11
    <3>2. Confined(Loose, asked, told')
      BY <3>1 DEF Confined, Loose
    <3>3. Confined(inForce', asked', told')
      BY <2>1, <3>1, <3>2
    <3>4. inForce' = [f \in Fields |-> inForce'[f]]
      BY <2>3, <2>10, <3>1
    <3>5. WholeProfile(lines', asked')
      BY <2>1, <2>7
    <3> QED BY <2>1, <3>3, <3>4, <3>5 DEF SandboxInv
  <2>12. CASE kernel.abi # 0
    <3>1. PICK given, open : /\ given = UNION {RuleRights(r[1], r[2]) : r \in Args("fs")}
                             /\ open = IF kernel.abi >= 4 THEN UNION Args("net ports") ELSE {}
      OBVIOUS
    <3>2. inForce' = [inForce EXCEPT !.fs = TRUE, !.truncate = kernel.abi >= 3, !.rights = given,
                          !.tcp = Says("net restrict") /\ kernel.abi >= 4, !.ports = open]
      BY <2>1, <2>12, <3>1
    <3>3. PICK force : force = inForce'
      OBVIOUS
    <3>4. /\ force = [f \in Fields |-> force[f]] /\ force.fs = TRUE
          /\ force.truncate = (kernel.abi >= 3) /\ force.rights = given
          /\ force.tcp = (Says("net restrict") /\ kernel.abi >= 4) /\ force.ports = open
      BY <2>10, <3>2, <3>3 DEF Fields
    <3>5. RestrictsNet(asked) => force.tcp \/ {"tcp", "landlock"} \cap told' # {}
      <4> SUFFICES ASSUME RestrictsNet(asked), ~(kernel.abi >= 4) PROVE "tcp" \in told'
        BY <2>8, <3>4
      <4>1. kernel.abi \in 1 .. 3
        BY <2>9, <2>12
      <4> QED BY <2>1, <2>8, <4>1
    <3>6. force.truncate \/ {"truncate", "landlock"} \cap told' # {}
      <4> SUFFICES ASSUME ~(kernel.abi >= 3) PROVE "truncate" \in told'
        BY <3>4
      <4>1. kernel.abi \in 1 .. 2
        BY <2>9, <2>12
      <4> QED BY <2>1, <4>1
    <3>7. \A r \in given :
            r[2] \in UNION {RightsForMode[g[1]] : g \in {s \in ToSet(Runtime \o asked.grants) : s[2] = r[1]}}
      <4> SUFFICES ASSUME NEW r \in given
                   PROVE  \E g \in ToSet(Runtime \o asked.grants) : g[2] = r[1] /\ r[2] \in RightsForMode[g[1]]
        OBVIOUS
      <4>1. PICK g \in Args("fs") : r \in RuleRights(g[1], g[2])
        BY <3>1
      <4>2. r[1] = g[2] /\ r[2] \in RightsForMode[g[1]]
        BY <4>1, RuleGives
      <4> QED BY <2>8, <4>1, <4>2
    <3>8. force.tcp => force.ports = asked.ports
      <4> SUFFICES ASSUME force.tcp PROVE open = asked.ports
        BY <3>4
      <4>1. Args("net ports") = {asked.ports} /\ kernel.abi >= 4
        BY <2>8, <3>4
      <4> QED BY <3>1, <4>1
    <3>9. Confined(force, asked, told')
      BY <3>4, <3>5, <3>6, <3>7, <3>8 DEF Confined
    <3>10. Confined(inForce', asked', told')
      BY <2>1, <3>3, <3>9
    <3>11. WholeProfile(lines', asked') /\ inForce' = [f \in Fields |-> inForce'[f]]
      BY <2>1, <2>7, <3>3, <3>4
    <3> QED BY <2>1, <3>10, <3>11 DEF SandboxInv
  <2> QED BY <2>11, <2>12
<1> QED BY <1>2, <1>3

LEMMA SeccompStep == SandboxInv /\ ApplySeccomp => SandboxInv'
<1> SUFFICES ASSUME SandboxInv, ApplySeccomp PROVE SandboxInv'
  OBVIOUS
<1>1. stage = "landlocked"
  BY DEF ApplySeccomp
<1>2. CASE RefuseToRun
  <2>1. stage' = "refused" /\ asked' = asked /\ kernel' = kernel /\ lines' = lines /\ told' = told
        /\ inForce' = inForce
    BY <1>2 DEF RefuseToRun
  <2> QED BY <2>1 DEF SandboxInv
<1>3. CASE ~RefuseToRun
  <2>1. /\ stage' = "filtered" /\ inForce' = [inForce EXCEPT !.filter = BuildFilter(SeccompAction)]
        /\ asked' = asked /\ kernel' = kernel /\ lines' = lines /\ told' = told
    BY <1>3 DEF ApplySeccomp
  <2>2. WholeProfile(lines, asked) /\ Confined(inForce, asked, told) /\ inForce = [f \in Fields |-> inForce[f]]
    BY <1>1 DEF SandboxInv
  <2>3. Args("seccomp") = {asked.seccomp}
    BY <2>2, ArgsAreIn DEF WholeProfile
  <2>4. SeccompAction = asked.seccomp
    BY <2>3 DEF SeccompAction, Says
  <2>5. PICK filter : filter = BuildFilter(asked.seccomp)
    OBVIOUS
  <2>6. inForce' = [inForce EXCEPT !.filter = filter]
    BY <2>1, <2>4, <2>5
  <2>7. PICK force : force = inForce'
    OBVIOUS
  <2>8. /\ force = [f \in Fields |-> force[f]] /\ force.filter = filter /\ force.fs = inForce.fs
        /\ force.tcp = inForce.tcp /\ force.truncate = inForce.truncate
        /\ force.rights = inForce.rights /\ force.ports = inForce.ports
    BY <2>2, <2>6, <2>7 DEF Fields
  <2>9. Confined(force, asked, told)
    BY <2>2, <2>8 DEF Confined
  <2>10. WholeProfile(lines', asked') /\ Confined(inForce', asked', told')
    BY <2>1, <2>2, <2>7, <2>9
  <2>11. inForce'.filter = BuildFilter(asked'.seccomp) /\ inForce' = [f \in Fields |-> inForce'[f]]
    BY <2>1, <2>5, <2>7, <2>8
  <2> QED BY <2>1, <2>10, <2>11 DEF SandboxInv
<1> QED BY <1>2, <1>3

LEMMA SandboxGoesOn == SandboxInv /\ [SandboxNext]_sandboxVars => SandboxInv'
<1> SUFFICES ASSUME SandboxInv, [SandboxNext]_sandboxVars PROVE SandboxInv'
  OBVIOUS
<1>1. CASE Exec \/ UNCHANGED sandboxVars
  <2>1. /\ asked' = asked /\ kernel' = kernel /\ lines' = lines /\ told' = told /\ inForce' = inForce
        /\ (stage = "filtered" /\ stage' = "running") \/ stage' = stage
    BY <1>1 DEF Exec, sandboxVars
  <2>2. CASE stage = "filtered" /\ stage' = "running"
    BY <2>1, <2>2 DEF SandboxInv
  <2>3. CASE stage' = stage
    BY <2>1, <2>3 DEF SandboxInv
  <2> QED BY <2>1, <2>2, <2>3
<1> QED BY <1>1, RunStep, ReadStep, LandlockStep, SeccompStep DEF SandboxNext

LEMMA SandboxBegins == SandboxInit => SandboxInv
<1> SUFFICES ASSUME SandboxInit PROVE SandboxInv
  OBVIOUS
<1>1. asked \in CommandLines /\ kernel \in Kernels /\ stage = "asked" /\ inForce = Loose
  BY DEF SandboxInit
<1>2. Loose = [f \in Fields |-> Loose[f]]
  BY DEF Loose, Fields
<1> QED BY <1>1, <1>2 DEF SandboxInv

LEMMA SandboxInvSuffices == SandboxInv => RunsAsToldOrRefuses
<1> SUFFICES ASSUME SandboxInv, stage = "running" PROVE RunsAsToldOrRefuses
  BY DEF RunsAsToldOrRefuses
<1>1. Confined(inForce, asked, told) /\ inForce.filter = BuildFilter(asked.seccomp)
  BY DEF SandboxInv
<1>2. asked.seccomp # "off" => \A c \in DeniedCalls : inForce.filter[c] = asked.seccomp
  BY <1>1 DEF BuildFilter, DeniedCalls, SystemCalls
<1>3. \A r \in inForce.rights : r[2] \in Granted(r[1])
  BY <1>1 DEF Confined, Granted
<1> QED BY <1>1, <1>2, <1>3 DEF RunsAsToldOrRefuses, Confined

\* A sandboxed command runs only inside what was asked for, or its operator was told
\* what is missing, for any flags, any kernel and wherever the pipe that carries
\* the profile is cut (commandRun, fitProfileToKernel, parse_profile, apply_landlock).
THEOREM SandboxKeepsItsWord == SandboxSpec => []RunsAsToldOrRefuses
<1> QED BY SandboxBegins, SandboxGoesOn, SandboxInvSuffices, PTL DEF SandboxSpec
=============================================================================
