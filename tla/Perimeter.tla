------------------------------ MODULE Perimeter ------------------------------
(***************************************************************************)
(* perimeter/spec.ts and perimeter/index.ts: the nftables table that keeps  *)
(* one uid inside the transparent proxy, what `status` concludes from a     *)
(* listing of it, and the commands that install, remove and trust it.  The  *)
(* kernel is external: a packet takes the first rule that matches it, in    *)
(* the nat chain and then in the filter chain.                             *)
(***************************************************************************)
EXTENDS Integers, Sequences, SequencesExt

CONSTANTS Specs,      \* command lines: [agent, proxy, port, dns, loopback]
          Ports,      \* ports of local listeners that a spec may name
          Extras,     \* rules that an operator may add by hand
          MaxTableSteps

VARIABLES nft,        \* the agentwall table of the kernel, or NoTable
          opened,     \* ghost: what install and the operator's own rules left open, <<uid, destination>>
          checks,     \* `run` commands between their check and their start
          started,    \* ghost: agents started, with the table that the check saw
          tableSteps

tableVars == <<nft, opened, checks, started, tableSteps>>

NoTable == <<>>
CapturedPorts == {"http", "tls"}
Loopback == {"local"} \cup Ports
Everywhere == CapturedPorts \cup {"other", "resolver"} \cup Loopback
Rule(uid, on, verdict) == [uid |-> uid, on |-> on, verdict |-> verdict]
Given(condition, rules) == IF condition THEN rules ELSE <<>>

\* assertValidSpec
ValidSpec(s) ==
    /\ s.agent # s.proxy /\ "root" \notin {s.agent, s.proxy}
    /\ s.port \in Ports

\* What a command line leaves open to the agent.
Holes(s) == (IF s.loopback THEN Loopback ELSE {}) \cup (IF s.dns THEN {"resolver"} ELSE {})

\* renderNftables: a chain is a sequence of rules.
CaptureChain(s) ==
    <<Rule(s.proxy, Everywhere, "accept")>>
    \o Given(s.loopback, <<Rule(s.agent, Loopback, "accept")>>)
    \o <<Rule(s.agent, CapturedPorts, s.port)>>
EgressChain(s) ==
    <<Rule(s.proxy, Everywhere, "accept"), Rule(s.agent, {s.port}, "accept")>>
    \o Given(s.loopback, <<Rule(s.agent, Loopback, "accept")>>)
    \o Given(s.dns, <<Rule(s.agent, {"resolver"}, "accept")>>)
    \o <<Rule(s.agent, Everywhere, "drop")>>
RenderNftables(s) == [capture |-> CaptureChain(s), egress |-> EgressChain(s)]
Chains == {"capture", "egress"}

(***************************************************************************)
(* The kernel.                                                             *)
(***************************************************************************)
PerimeterVerdict(chain, uid, to) ==
    LET matching == {n \in DOMAIN chain : chain[n].uid = uid /\ to \in chain[n].on}
    IN IF matching = {} THEN "accept" ELSE chain[Min(matching)].verdict
Fate(table, uid, to) ==
    IF table = NoTable THEN to
    ELSE LET nat == PerimeterVerdict(table.capture, uid, to)
             at == IF nat \in Ports THEN nat ELSE to
         IN IF "drop" \in {nat, PerimeterVerdict(table.egress, uid, at)} THEN "dropped" ELSE at

(***************************************************************************)
(* parsePerimeterStatus.                                                   *)
(***************************************************************************)
\* The redirects of this uid to this port, and its unconditional drops: their places, per chain.
Redirects(table, s) ==
    [c \in Chains |-> {n \in DOMAIN table[c] : table[c][n].uid = s.agent /\ table[c][n].verdict = s.port}]
DefaultDrop(s) == Rule(s.agent, Everywhere, "drop")
Drops(table, s) == [c \in Chains |-> {n \in DOMAIN table[c] : table[c][n] = DefaultDrop(s)}]
\* The one that is found: the first of the chain listed first.
IsFirst(found, c, n) ==
    n \in found[c] /\ (\A m \in found[c] : n <= m) /\ (c = "egress" => found["capture"] = {})

ScopeIsNameable(rule) == rule.on \subseteq CapturedPorts
ProxyExempted(chain, n, s) == \E m \in 1 .. n - 1 : chain[m] = Rule(s.proxy, Everywhere, "accept")
DropIsLast(chain, n, s) == \A m \in n + 1 .. Len(chain) : chain[m].uid # s.agent
\* Mutant: a redirect that is there is enough.
RedirectIsEnough(table, s) == table # NoTable /\ \E c \in Chains : Redirects(table, s)[c] # {}
Installed(table, s) ==
    /\ table # NoTable
    /\ \E c \in Chains : \E n \in Redirects(table, s)[c] :
          /\ IsFirst(Redirects(table, s), c, n)
          /\ ScopeIsNameable(table[c][n]) /\ ProxyExempted(table[c], n, s)
    /\ \E c \in Chains : \E n \in Drops(table, s)[c] :
          IsFirst(Drops(table, s), c, n) /\ DropIsLast(table[c], n, s)

\* readStatus: an absent table is not installed; one that cannot be read lets nothing start.
ReadStatus(s, readable) == readable /\ Installed(nft, s)

(***************************************************************************)
(* Steps.                                                                  *)
(***************************************************************************)
TableStep == tableSteps < MaxTableSteps /\ tableSteps' = tableSteps + 1

\* A table that an earlier release left captures every port.
LeftBehind(s) == [RenderNftables(s) EXCEPT !.capture[Len(CaptureChain(s))].on = Everywhere]
TableInit ==
    /\ nft \in {NoTable} \cup {LeftBehind(s) : s \in {x \in Specs : ValidSpec(x)}}
    /\ opened = {} /\ checks = {} /\ started = {} /\ tableSteps = 0

\* `install`, or `plan` piped into nft: one transaction that replaces whatever table was there.
Install(s) ==
    /\ TableStep /\ ValidSpec(s)
    /\ nft' = RenderNftables(s) /\ opened' = {s.agent} \X Holes(s)
    /\ UNCHANGED <<checks, started>>
Rollback ==
    /\ TableStep /\ nft # NoTable
    /\ nft' = NoTable /\ opened' = {}
    /\ UNCHANGED <<checks, started>>
\* `nft delete rule`, `nft add rule` (at the end) and `nft insert rule` (at the top).
DeleteRule(c, i) ==
    /\ TableStep /\ nft # NoTable /\ i \in 1 .. Len(nft[c])
    /\ nft' = [nft EXCEPT ![c] = RemoveAt(@, i)]
    /\ UNCHANGED <<opened, checks, started>>
AddRule(c, r, atTop) ==
    /\ TableStep /\ nft # NoTable /\ (r.verdict \in Ports => c = "capture")
    /\ nft' = [nft EXCEPT ![c] = IF atTop THEN <<r>> \o @ ELSE Append(@, r)]
    /\ opened' = IF r.verdict = "accept" THEN opened \cup ({r.uid} \X r.on) ELSE opened
    /\ UNCHANGED <<checks, started>>
\* `run` reads the table, and starts the agent in a process of its own: the table may change between.
RunChecks(s) ==
    /\ TableStep /\ ValidSpec(s) /\ \E readable \in BOOLEAN : ReadStatus(s, readable)
    /\ checks' = checks \cup {[spec |-> s, saw |-> nft, opened |-> opened]}
    /\ UNCHANGED <<nft, opened, started>>
RunStarts(c) ==
    /\ c \in checks
    /\ checks' = checks \ {c} /\ started' = started \cup {c}
    /\ UNCHANGED <<nft, opened, tableSteps>>

TableNext ==
    \/ \E s \in Specs : Install(s) \/ RunChecks(s)
    \/ Rollback
    \/ \E c \in Chains, i \in 1 .. 7 : DeleteRule(c, i)
    \/ \E c \in Chains, r \in Extras, atTop \in BOOLEAN : AddRule(c, r, atTop)
    \/ \E c \in checks : RunStarts(c)
TableSpec == TableInit /\ [][TableNext]_tableVars

(***************************************************************************)
(* Properties                                                              *)
(***************************************************************************)
\* The agent reaches the proxy and the holes that were asked for, nothing is captured whose port
\* the proxy could not name, and the proxy is not captured by itself.
Contained(table, s, holes) ==
    /\ \A to \in Everywhere :
        \/ Fate(table, s.agent, to) \in {"dropped", s.port}
        \/ Fate(table, s.agent, to) = to /\ <<s.agent, to>> \in holes
    /\ \A to \in CapturedPorts \cup {"other"} :
        /\ PerimeterVerdict(table.capture, s.agent, to) \in Ports => to \in CapturedPorts
        /\ PerimeterVerdict(table.capture, s.proxy, to) \notin Ports

\* An agent that `run` starts was inside a perimeter when `run` looked: whatever was installed,
\* edited or removed before, status reports "installed" only of a table that lets the agent's
\* packets reach the proxy and the holes that the install and the operator opened
\* (commandRun, parsePerimeterStatus); and what install renders is reported as installed.
RunsAreContained ==
    /\ \A r \in checks \cup started : Contained(r.saw, r.spec, r.opened)
    /\ \A s \in Specs : ValidSpec(s) => Installed(RenderNftables(s), s)
=============================================================================
