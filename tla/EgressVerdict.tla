---------------------------- MODULE EgressVerdict ----------------------------
(***************************************************************************)
(* What the three modes answer (runtime/enforcement.ts), against whichever  *)
(* rules the operator keeps (policy/engine.ts and the egress rules of       *)
(* policy/rules.ts).  EgressGate asks when a pass is charged; this module    *)
(* opens what it takes as given, the verdict of one look at a connection.   *)
(* How a client is bound to an agent is for Credentials: here a claim       *)
(* arrives bound, refused or unclaimed.                                     *)
(***************************************************************************)
EXTENDS Naturals, FiniteSets, TLC

CONSTANTS Postures,  \* configurations: [mode, hosts, ports, ownHosts, ownPorts, closed, budget]
          Rulesets,  \* the sets of rules an operator may keep
          Attempts,  \* [host, port, agent, refusal, direction, found, unread]
          MaxJudged  \* bound: looks recorded

\* What a loaded configuration (config.ts:323) and the coverage of a body can be; no budget is 0.
ASSUME VerdictAssumption ==
    /\ \A p \in Postures :
         /\ p = [mode |-> p.mode, hosts |-> p.hosts, ports |-> p.ports, ownHosts |-> p.ownHosts,
                 ownPorts |-> p.ownPorts, closed |-> p.closed, budget |-> p.budget]
         /\ p.mode \in {"monitor", "guarded", "strict"} /\ p.closed \in BOOLEAN /\ p.budget \in Nat
    /\ \A a \in Attempts : a.unread \in {"whole", "cut", "stream", "encoding"}

VARIABLES posture, rules,
          stopped,   \* the lockdown is engaged
          window,    \* connections in the agent's budget window
          admitted,  \* attempts whose connection was admitted and may be looked at again
          ledger     \* what was recorded of every look

verdictVars == <<posture, rules, stopped, window, admitted, ledger>>

(***************************************************************************)
(* The principal                                                           *)
(***************************************************************************)
DeclaredAgent(a) == a.agent = "agent" /\ a.refusal = "none"
\* effectiveEgress: an agent's own list replaces the global one; an empty one leaves it.
Either(own, global) == IF own = {} THEN global ELSE own
HostList(a) == IF DeclaredAgent(a) THEN Either(posture.ownHosts, posture.hosts) ELSE posture.hosts
PortList(a) == IF DeclaredAgent(a) THEN Either(posture.ownPorts, posture.ports) ELSE posture.ports
OnHostList(a) == a.host \in HostList(a)
OnPortList(a) == a.port \in PortList(a)
\* resolvePrincipal: the standing is read once, before any rule is asked.
Spending(a) == DeclaredAgent(a) /\ posture.budget > 0
Over(a) == Spending(a) /\ window >= posture.budget

(***************************************************************************)
(* Content: found is what the scanners would find in a surface of a; a body *)
(* that was not read whole may hide it, and an unscannable one does.        *)
(***************************************************************************)
\* inspectContent: a credential in the header that authenticates the request is no finding.
Findings(a) == {f \in a.found : f.where # "body" \/ a.unread \in {"whole", "cut"}}
FindingKinds(a) == {f.kind : f \in {g \in Findings(a) : g.kind # "secret" \/ g.where # "credential"}}
\* coverageNotes
Notes(a) == IF a.unread = "whole" THEN {} ELSE {a.unread}

(***************************************************************************)
(* The rules                                                               *)
(***************************************************************************)
\* buildContext: the markers the rules read.
BuildContext(a, mode, later) ==
    [mode |-> mode, host |-> a.host, direction |-> a.direction, kinds |-> FindingKinds(a),
     hostListed |-> OnHostList(a), portListed |-> OnPortList(a), declared |-> DeclaredAgent(a),
     refusal |-> a.refusal, over |-> Over(a) /\ ~later, closed |-> posture.closed]

\* The rules for every network request, those of the gates, and those of the content scan.
NetworkRules(ctx) == [private |-> ctx.host = "private"]
GateRules(ctx) == [
    notAllowlisted   |-> ctx.mode = "strict" /\ ~ctx.hostListed,
    portNotListed    |-> ctx.mode = "strict" /\ ~ctx.portListed,
    undeclared       |-> ctx.closed /\ ~ctx.declared /\ ctx.refusal = "none",
    refusedIdentity  |-> ctx.refusal \notin {"none", "configuration"},
    unconfigured     |-> ctx.refusal = "configuration",
    budgetExhausted  |-> ctx.mode # "monitor" /\ ctx.over]
ContentRules(ctx) == [
    requestSecret    |-> ctx.direction = "request" /\ "secret" \in ctx.kinds,
    requestInjected  |-> ctx.direction = "request" /\ "injection" \in ctx.kinds,
    responseInjected |-> ctx.direction = "response" /\ "injection" \in ctx.kinds,
    responseSecret   |-> ctx.direction = "response" /\ "secret" \in ctx.kinds]
\* Two an operator writes.
OwnRules(ctx) == [approveListed |-> ctx.hostListed,
                  guardedOnly |-> ctx.mode = "guarded" /\ ctx.host = "other"]
Matches(ctx) == NetworkRules(ctx) @@ GateRules(ctx) @@ ContentRules(ctx) @@ OwnRules(ctx)
RuleDecision(r) == CASE r = "responseSecret" -> "allow"
                     [] r = "approveListed" -> "approve"
                     [] OTHER -> "deny"
Order == [allow |-> 0, redact |-> 1, approve |-> 2, deny |-> 3]
\* evaluateAgainst: the strongest decision of the rules that match; the default is "deny".
Evaluate(ctx) ==
    LET matched == {r \in rules : Matches(ctx)[r]}
        decisions == {RuleDecision(r) : r \in matched}
    IN [matched |-> matched,
        decision |-> IF matched = {} THEN "deny"
                     ELSE CHOOSE d \in decisions : \A e \in decisions : Order[e] <= Order[d]]

(***************************************************************************)
(* The modes                                                               *)
(***************************************************************************)
StrictBlock(a, mode, result) == mode = "strict" /\ (~OnHostList(a) \/ ~OnPortList(a))

\* The gates of enforce that no rule is asked about.
Gated(a, later) ==
    \/ a.refusal # "none"
    \/ posture.closed /\ ~DeclaredAgent(a)
    \/ ~later /\ Over(a)
    \/ "decoy" \in FindingKinds(a)
\* enforce: "approve" and "redact" cannot be done to a socket and are recorded.
Enforce(a, mode, asked, later) ==
    LET result == Evaluate(BuildContext(a, asked, later))
    IN IF \/ Gated(a, later) \/ StrictBlock(a, mode, result)
          \/ (result.matched # {} /\ result.decision = "deny")
       THEN "deny" ELSE "allow"

Nowhere == [m \in {"guarded", "strict"} |-> "none"]
\* Mutant: the projections are asked under the mode that is running.
ProjectAsRunning(a, later) == [m \in {"guarded", "strict"} |-> Enforce(a, m, posture.mode, later)]
\* decide in monitor mode: the real decision of each enforcing mode.
Project(a, later) == [m \in {"guarded", "strict"} |-> Enforce(a, m, m, later)]
Decide(a, later) ==
    IF stopped THEN [decision |-> "deny", projected |-> Nowhere]
    ELSE IF posture.mode = "monitor" THEN [decision |-> "allow", projected |-> Project(a, later)]
    ELSE [decision |-> Enforce(a, posture.mode, posture.mode, later), projected |-> Nowhere]

\* decideEgress: one look, recorded; only a first look that passes is charged, and last.
Look(a, later) ==
    LET verdict == Decide(a, later) IN
    /\ Cardinality(ledger) < MaxJudged
    /\ ledger' = ledger \cup
         {[attempt |-> a, later |-> later, rules |-> rules, window |-> window, stopped |-> stopped,
           posture |-> posture, decision |-> verdict.decision, projected |-> verdict.projected,
           notes |-> Notes(a)]}
    /\ window' = IF verdict.decision = "allow" /\ ~later /\ Spending(a) THEN window + 1 ELSE window
    /\ admitted' = IF verdict.decision = "allow" THEN admitted \cup {a} ELSE admitted \ {a}
    /\ UNCHANGED <<posture, rules, stopped>>
FirstLook(a) == a \notin admitted /\ Look(a, FALSE)
LaterLook(a) == a \in admitted /\ Look(a, TRUE)
Close(a) == /\ a \in admitted /\ admitted' = admitted \ {a}
            /\ UNCHANGED <<posture, rules, stopped, window, ledger>>

\* replaceRules; the emergency stop.
KeepRules == /\ \E r \in Rulesets \ {rules} : rules' = r
             /\ UNCHANGED <<posture, stopped, window, admitted, ledger>>
Stop == /\ stopped' = ~stopped /\ UNCHANGED <<posture, rules, window, admitted, ledger>>
\* Another start: setEgressPolicy and setFleet install what the file says, and the window is new.
Adopt == /\ \E p \in Postures \ {posture} :
              p = [posture EXCEPT !.mode = p.mode] /\ posture' = p
         /\ stopped' = FALSE /\ window' = 0 /\ admitted' = {}
         /\ UNCHANGED <<rules, ledger>>

VerdictInit ==
    /\ posture \in Postures /\ rules \in Rulesets
    /\ stopped = FALSE /\ window = 0 /\ admitted = {} /\ ledger = {}
VerdictNext ==
    \/ \E a \in Attempts : FirstLook(a) \/ LaterLook(a) \/ Close(a)
    \/ KeepRules \/ Stop \/ Adopt

(***************************************************************************)
(* Properties                                                              *)
(***************************************************************************)
SameCase(r, s) ==
    /\ r.attempt = s.attempt /\ r.later = s.later /\ r.rules = s.rules /\ r.window = s.window
    /\ r.posture = [s.posture EXCEPT !.mode = r.posture.mode]
\* What monitor says of a mode is what that mode answers: a row that projected "strict would
\* allow" and a row of strict mode about the same look, against the same rules and the same
\* window, agree, whatever was loaded, stopped or restarted between them (decide, enforce).
ProjectionsComeTrue ==
    \A r, s \in ledger :
        (r.projected # Nowhere /\ s.posture.mode # "monitor" /\ ~s.stopped /\ SameCase(r, s))
            => r.projected[s.posture.mode] = s.decision
\* No rule is asked for permission: whatever the operator keeps of the rules, an enforcing mode
\* lets nothing through that was refused its identity, nothing unclaimed into a closed fleet,
\* nothing beyond a budget, no decoy that was read, in strict mode no destination off the list
\* that judges its agent, and nothing at all while stopped (enforce, strictBlock, effectiveEgress).
GatesNeedNoRule ==
    \A r \in ledger :
        r.decision = "allow" =>
            /\ ~r.stopped
            /\ r.posture.mode # "monitor" =>
                /\ r.attempt.refusal = "none"
                /\ r.posture.closed => r.attempt.agent = "agent"
                /\ (~r.later /\ r.attempt.agent = "agent" /\ r.posture.budget > 0)
                      => r.window < r.posture.budget
                /\ \A f \in r.attempt.found :
                      f.kind = "decoy" => f.where = "body" /\ r.notes \cap {"stream", "encoding"} # {}
            /\ (r.posture.mode = "strict") =>
                LET own == r.attempt.agent = "agent" IN
                /\ r.attempt.host \in IF own /\ r.posture.ownHosts # {} THEN r.posture.ownHosts
                                      ELSE r.posture.hosts
                /\ r.attempt.port \in IF own /\ r.posture.ownPorts # {} THEN r.posture.ownPorts
                                      ELSE r.posture.ports

\* A verdict is the same judged or projected, and needs no rule for what the mode
\* itself blocks.
VerdictsHold == ProjectionsComeTrue /\ GatesNeedNoRule

=============================================================================
