---------------------------- MODULE OperationsMC ----------------------------
(***************************************************************************)
(* The components around the data path: the commands an operator runs and   *)
(* what the service does beside the traffic.  They share no state, so in     *)
(* each behaviour one of them moves and the others stand where they began;  *)
(* `part` says which.                                                       *)
(***************************************************************************)
EXTENDS Credentials, Console, Perimeter, Operators, Sandbox, Decoys, Capture,
        EgressVerdict, Startup, StdioWrap, Federation, Onboarding, Doctor, FleetEvidence, TLC

VARIABLE part

Components == {"credentials", "console", "perimeter", "operators", "sandbox", "decoys", "capture",
               "verdict", "startup", "stdio", "federation", "onboarding", "doctor", "evidence"}
Of(p, S) == IF part = p THEN S ELSE {CHOOSE x \in S : TRUE}

-----------------------------------------------------------------------------
(* Credentials: how often each thing happens in a behaviour.                *)
CONSTANTS scraper, pinned, c1, c2
SomeAgents == {scraper, pinned}
SomeMatch == [a \in SomeAgents |-> [uid |-> FALSE, comm |-> a = scraper, pinned |-> a = pinned]]
Times(minimum, commands, overlaps, kinds, t, n, o, r) ==
    [minimum |-> minimum, commands |-> commands, kinds |-> kinds, overlaps |-> overlaps, time |-> t,
     runs |-> n, outages |-> o, restarts |-> r]
SomeSetups == {
    Times("any", {c1}, {0, 3}, {}, 5, 3, 0, 0),
    Times("any", {c1}, {3}, {"bad"}, 4, 3, 1, 0),
    Times("any", {c1}, {0}, {"absent"}, 4, 3, 1, 0),
    Times("credential", {c1}, {0}, {}, 3, 2, 0, 1),
    Times("uid", {c1, c2}, {3}, {}, 3, 3, 0, 0)}

-----------------------------------------------------------------------------
(* Console: one session beside the simulated one, caps a behaviour reaches. *)
CONSTANTS s1, sim, call
SomeTimeline == <<call, call>>

-----------------------------------------------------------------------------
(* Perimeter: the agent's own installation, with or without the loopback    *)
(* hole, another agent's, and one that would cut the proxy off.             *)
Perimeter1 == [agent |-> "agent", proxy |-> "proxy", port |-> "p8080", dns |-> TRUE, loopback |-> FALSE]
SomeSpecs == {
    Perimeter1, [Perimeter1 EXCEPT !.loopback = TRUE], [Perimeter1 EXCEPT !.port = "p8081"],
    [Perimeter1 EXCEPT !.agent = "other", !.dns = FALSE], [Perimeter1 EXCEPT !.agent = "proxy"]}
SomeExtras == {Rule("agent", {"other"}, "accept"), Rule("agent", {"other"}, "drop"),
               Rule("proxy", Everywhere, "accept"), Rule("agent", Everywhere, "drop")}

-----------------------------------------------------------------------------
(* Operators: every way to present oneself at each door.                    *)
Presented == {"none", "good", "bad"}
CallOf(b, k, n, o, d, a, f, cmd) ==
    [bearer |-> b, cookie |-> k, near |-> n, origin |-> o, door |-> d, act |-> a, confirm |-> f,
     wellFormed |-> TRUE, reads |-> FALSE, command |-> cmd]
SomeCalls ==
    {CallOf(b, k, n, o, d[1], d[2], f, "declared") :
        b \in Presented, k \in Presented, n \in BOOLEAN, o \in {"none", "same", "other"}, f \in BOOLEAN,
        d \in {<<"catalog", "session">>, <<"dashboard", "session">>, <<"dashboard", "terminate">>,
               <<"approval", "session">>}}
    \cup {CallOf("good", "none", TRUE, "none", "catalog", a, f, cmd) :
        a \in {"command", "report"}, f \in BOOLEAN, cmd \in {"declared", "undeclared"}}
    \cup {CallOf("good", "none", TRUE, "same", "catalog", a, TRUE, "declared") : a \in {"wrap", "stop"}}
SomeOperatorPostures == [token : BOOLEAN, dev : BOOLEAN]

-----------------------------------------------------------------------------
(* Sandbox: what is asked for, on kernels old and new.                      *)
SomeRuntime == <<<<"exec", "usr">>, <<"read", "etc">>, <<"rwdev", "tty">>>>
SomeGrants == {<<>>, <<<<"write", "work">>, <<"exec", "node">>>>, <<<<"write", "work">>, <<"exec", "work">>>>,
               <<<<"read", "etc">>, <<"write", "gone">>>>}
SomeLines ==
    [grants : SomeGrants, restrictNet : BOOLEAN, ports : {{}, {"p443"}}, seccomp : {"off", "errno", "kill"},
     requireAbi : {0, 1, 4}, allowDegraded : BOOLEAN, helper : {TRUE}]
    \cup {[grants |-> <<>>, restrictNet |-> FALSE, ports |-> {}, seccomp |-> "off", requireAbi |-> 0,
           allowDegraded |-> TRUE, helper |-> FALSE]}
Paths == [p \in {"usr", "etc", "work"} |-> "directory"] @@ [p \in {"tty", "node"} |-> "file"]
SomeKernels ==
    [abi : {0, 1, 3, 4, 5}, filter : BOOLEAN, arch : {TRUE}, paths : {Paths}]
    \cup {[abi |-> 4, filter |-> TRUE, arch |-> FALSE, paths |-> Paths]}

-----------------------------------------------------------------------------
(* Decoys, capture checks, egress verdicts.                                 *)
SomeNumerals == <<"2", "3", "4">>

SomeBindings ==
    {[declared |-> TRUE, tier |-> t, agent |-> "this"] : t \in {"credential", "comm"}}
    \cup {[declared |-> FALSE, tier |-> "none", agent |-> "this"],
          [declared |-> TRUE, tier |-> "uid", agent |-> "other"]}
CheckOf(n, l, t) ==
    [noProxy |-> n, listener |-> l, declaredTier |-> "credential", trips |-> t, interactive |-> t = 2]
SomeChecks == {CheckOf(<<>>, "visible", 3), CheckOf(<<>>, "hidden", 3), CheckOf(<<"host:other">>, "hidden", 2),
               CheckOf(<<"elsewhere", "host:other", "host">>, "visible", 2)}

Site(h, port, agent, refusal) ==
    [host |-> h, port |-> port, agent |-> agent, refusal |-> refusal, direction |-> "request", found |-> {},
     unread |-> "whole"]
Found(k, w) == [kind |-> k, where |-> w]
Own == Site("own", "443", "agent", "none")
SomeAttempts == {
    Own, Site("listed", "22", "nobody", "none"), Site("other", "443", "agent", "none"),
    Site("own", "443", "agent", "configuration"), Site("listed", "443", "nobody", "indeterminate"),
    [Own EXCEPT !.found = {Found("secret", "credential"), Found("injection", "path")}],
    [Own EXCEPT !.found = {Found("decoy", "body"), Found("secret", "body")}, !.unread = "cut",
                !.direction = "response"],
    [Own EXCEPT !.found = {Found("injection", "body")}, !.direction = "response", !.unread = "stream"]}
Builtin == {"private", "notAllowlisted", "portNotListed", "undeclared", "refusedIdentity", "unconfigured",
            "budgetExhausted", "requestSecret", "requestInjected", "responseInjected", "responseSecret"}
SomeRulesets == {Builtin, {"approveListed", "guardedOnly", "responseSecret"}}
PostureOf(m, closed) == [mode |-> m, hosts |-> {"listed"}, ports |-> {"443"}, ownHosts |-> {"own"},
                         ownPorts |-> {}, closed |-> closed, budget |-> 2]
SomePostures == {PostureOf("monitor", FALSE)} \cup {PostureOf(m, TRUE) : m \in {"monitor", "guarded", "strict"}}

-----------------------------------------------------------------------------
(* Startup, the stdio wrapper, the federation.                              *)
ConfigOf(k, f, i, t) == [known |-> k, fleet |-> f, interception |-> i, transparent |-> t]
SomeConfigs == {ConfigOf("yes", "none", TRUE, TRUE), ConfigOf("yes", "ambiguous", FALSE, FALSE),
                ConfigOf("no", "none", FALSE, FALSE)}
SomeMachines == {[busy |-> b, authority |-> TRUE] : b \in {{}, {"proxy"}, {"transparent"}}}
                \cup {[busy |-> {}, authority |-> FALSE]}

Sent(k, s, c) == [kind |-> k, size |-> s, cut |-> c]
Whole(k, s) == Sent(k, s, FALSE)
SomeScripts == {
    [client |-> <<Whole("request", 1), Whole("note", 3), Whole("request", 2)>>,
     server |-> <<Whole("note", 1), Sent("request", 2, TRUE)>>],
    [client |-> <<Whole("note", 2)>>, server |-> <<Whole("blank", 1), Whole("note", 4), Whole("request", 1)>>],
    [client |-> <<Whole("request", 1), Whole("junk", 1)>>,
     server |-> <<Whole("request", 1), Whole("junk", 1), Sent("note", 3, TRUE)>>]}

SomeFleets == {
    [peers |-> ("a" :> <<"a", "b">> @@ "b" :> <<"a", "c">> @@ "c" :> <<>>),
     route |-> ("a" :> "a" @@ "b" :> "b" @@ "c" :> "c"), viewer |-> "a"],
    [peers |-> ("a" :> <<"c", "b">> @@ "b" :> <<>> @@ "c" :> <<>>),
     route |-> ("a" :> "a" @@ "b" :> "b" @@ "c" :> "b"), viewer |-> "a"]}
SomeSeen == {[agent |-> "x", channel |-> "t", gateway |-> "telegram"],
             [agent |-> "x", channel |-> "s", gateway |-> "slack"]}

SomeDoctors == {
    [shells |-> {"set"}, egress |-> {"escape", "declared"}, replaced |-> FALSE],
    [shells |-> {"set", "unset", "unparsable"}, egress |-> {"escape", "permitted"}, replaced |-> FALSE],
    [shells |-> {"set"}, egress |-> {"escape", "other"}, replaced |-> TRUE]}

HostOf(n, a, what, neighbour) ==
    [records |-> n, anchors |-> a, days |-> IF what = "days" THEN 2 ELSE 0, parts |-> what = "parts",
     damages |-> what = "damage", backup |-> what = "backup", restarts |-> what = "restart",
     neighbour |-> neighbour]
SomeHosts == {HostOf(4, 1, "damage", "verified"), HostOf(3, 2, "damage", "inconclusive"),
              HostOf(3, 1, "parts", "verified"), HostOf(2, 1, "days", "stale"), HostOf(2, 2, "backup", "unreachable"),
              HostOf(2, 1, "restart", "broken")}

-----------------------------------------------------------------------------
MCInit ==
    /\ part \in Components
    /\ setup \in Of("credentials", Setups) /\ Init
    /\ DeskInit
    /\ TableInit /\ (part = "perimeter" \/ nft = NoTable)
    /\ authPosture \in Of("operators", OperatorPostures) /\ OperatorInit
    /\ asked \in Of("sandbox", CommandLines) /\ kernel \in Of("sandbox", Kernels) /\ SandboxInit
    /\ DecoyInit
    /\ check \in Of("capture", Checks) /\ CaptureInit
    /\ posture \in Of("verdict", Postures) /\ rules \in Of("verdict", Rulesets) /\ VerdictInit
    /\ host \in Of("startup", Machines) /\ StartupInit
    /\ script \in Of("stdio", Scripts) /\ StdioInit
    /\ fleet \in Of("federation", Fleets) /\ FederationInit
    /\ OnboardInit
    /\ doctorSetup \in Of("doctor", DoctorSetups) /\ DoctorInit
    /\ hostSetup \in Of("evidence", HostSetups) /\ FleetEvidenceInit

Still(p, others) == IF part = p THEN TRUE ELSE UNCHANGED others
OthersStay ==
    /\ UNCHANGED part
    /\ Still("credentials", vars) /\ Still("console", deskVars)
    /\ Still("perimeter", tableVars) /\ Still("operators", operatorVars) /\ Still("sandbox", sandboxVars)
    /\ Still("decoys", decoyVars) /\ Still("capture", captureVars) /\ Still("verdict", verdictVars)
    /\ Still("startup", startupVars) /\ Still("stdio", stdioVars) /\ Still("federation", fleetVars)
    /\ Still("onboarding", onboardVars) /\ Still("doctor", doctorVars)
    /\ Still("evidence", evidenceVars)
MCNext ==
    \/ part = "credentials" /\ Next /\ OthersStay
    \/ part = "console" /\ DeskNext /\ OthersStay
    \/ part = "perimeter" /\ TableNext /\ OthersStay
    \/ part = "operators" /\ OperatorNext /\ OthersStay
    \/ part = "sandbox" /\ SandboxNext /\ OthersStay
    \/ part = "decoys" /\ DecoyNext /\ OthersStay
    \/ part = "capture" /\ CaptureNext /\ OthersStay
    \/ part = "verdict" /\ VerdictNext /\ OthersStay
    \/ part = "startup" /\ StartupNext /\ OthersStay
    \/ part = "stdio" /\ StdioNext /\ OthersStay
    \/ part = "federation" /\ FederationNext /\ OthersStay
    \/ part = "onboarding" /\ OnboardNext /\ OthersStay
    \/ part = "doctor" /\ DoctorNext /\ OthersStay
    \/ part = "evidence" /\ FleetEvidenceNext /\ OthersStay
mcVars == <<part, vars, deskVars, tableVars, operatorVars, sandboxVars, decoyVars, captureVars,
            verdictVars, startupVars, stdioVars, fleetVars, onboardVars, doctorVars, evidenceVars>>
MCSpec == MCInit /\ [][MCNext]_mcVars
=============================================================================
