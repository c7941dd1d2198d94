------------------------------ MODULE Federation ------------------------------
(***************************************************************************)
(* The organisation view: each instance keeps what it observed of its own   *)
(* agents' channels (dashboard/state.ts observeChannel, org/control-plane),  *)
(* answers /api/org/summary with it, and shows it merged with what its       *)
(* configured peers answer when they are polled (routes/dashboard.ts,        *)
(* org/federation.ts).  Peers answer one after another while their           *)
(* observations go on; which host answers a peer's address, and how, is the  *)
(* network's.                                                               *)
(***************************************************************************)
EXTENDS Naturals, Sequences, FiniteSets, SequencesExt

CONSTANTS Fleets,    \* [peers, route, viewer]: the peers each instance lists, in order, who answers a
                     \* peer's address, and whose view is shown
          Seen,      \* [agent, channel, gateway]: what can be observed
          MaxSeen    \* bound: observations

VARIABLES fleet,
          observed, \* per instance: its channelActivity, rows of [id, of, seen, risk]
          poll,     \* the viewer's poll under way, or NoPoll
          view,     \* the merged view last shown, or NoView
          sightings \* counter

fleetVars == <<fleet, observed, poll, view, sightings>>

Hosts == DOMAIN fleet.peers
Me == fleet.viewer
Peers(i) == ToSet(fleet.peers[i]) \ {i}
Risks == {1, 2}
NoPoll == [own |-> {}, answers |-> {}, asked |-> FALSE]
NoView == [shown |-> FALSE]
AtLeast(r, s) == IF r > s THEN r ELSE s

(***************************************************************************)
(* control-plane.ts: the snapshot of one instance, its rows and its agents *)
(***************************************************************************)
\* observeChannel: one row per agent and channel, whose risk never falls.
RowId(seen) == [agent |-> seen.agent, channel |-> seen.channel]
Observe(i, seen, risk) ==
    /\ sightings < MaxSeen /\ sightings' = sightings + 1
    /\ LET old == {r \in observed[i] : r.id = RowId(seen)}
           top == IF \E r \in old : r.risk > risk THEN (CHOOSE r \in old : TRUE).risk ELSE risk
       IN observed' = [observed EXCEPT ![i] =
              (@ \ old) \cup {[id |-> RowId(seen), of |-> i, seen |-> seen, risk |-> top]}]
    /\ UNCHANGED <<fleet, poll, view>>

HighestRisk(rows) == FoldLeft(LAMBDA m, r : AtLeast(m, r.risk), 1, SetToSeq(rows))
\* The agent lanes of a snapshot.
Lanes(rows) == {[agent |-> a, instances |-> {r.of : r \in {s \in rows : s.seen.agent = a}},
                 channels |-> {r.seen.channel : r \in {s \in rows : s.seen.agent = a}},
                 risk |-> HighestRisk({s \in rows : s.seen.agent = a})] : a \in {r.seen.agent : r \in rows}}
GatewayOf(r) == [of |-> r.of, kind |-> r.seen.gateway]
Gateways(rows) == {[id |-> g, count |-> Cardinality({r \in rows : GatewayOf(r) = g})] :
                   g \in {GatewayOf(r) : r \in rows}}
\* The instance itself, which lists itself as local if at all, and its peers before any poll.
Instances(i) == {[id |-> i, role |-> "local", status |-> "online"]}
                \cup {[id |-> j, role |-> "remote", status |-> "unknown"] : j \in Peers(i)}
\* buildOrganizationFederationSummaryPayload: who it says it is, and what it has; no user, session
\* or role of a channel leaves with it.
Summary(i) == [instance |-> i, instances |-> Instances(i), rows |-> observed[i]]

(***************************************************************************)
(* federation.ts: the poll                                                 *)
(***************************************************************************)
BeginPoll ==
    /\ poll = NoPoll
    /\ poll' = [own |-> observed[Me], answers |-> {}, asked |-> TRUE]
    /\ UNCHANGED <<fleet, observed, view, sightings>>
Waiting == Peers(Me) \ {a.peer : a \in poll.answers}
NoSummary == [instance |-> "none", instances |-> {}, rows |-> {}]
\* Mutant: whoever answers is taken for the peer.
IdentityAssumed(peer, summary) == TRUE
\* assertPeerIdentity
IdentityHolds(peer, summary) == summary.instance = peer
\* validateOrganizationFederationSummaryPayload: schema, capability and every item of the lists.
Passes(how) == how = "summary"
\* One peer's answer: a summary, checked; an error or a summary that does not pass is "degraded",
\* a timeout "unknown".
Answers(peer, how) ==
    /\ poll.asked /\ peer \in Waiting
    /\ LET summary == Summary(fleet.route[peer])
           result == CASE Passes(how) /\ IdentityHolds(peer, summary) -> "online"
                       [] how = "timeout" -> "unknown"
                       [] OTHER -> "degraded"
       IN poll' = [poll EXCEPT !.answers = @ \cup
              {[peer |-> peer, status |-> result,
                summary |-> IF result = "online" THEN summary ELSE NoSummary]}]
    /\ UNCHANGED <<fleet, observed, view, sightings>>

(***************************************************************************)
(* federation.ts: mergeOrganizationControlPlaneSnapshots                   *)
(***************************************************************************)
\* mergeInstance after normalizeRemoteInstance: a peer's word changes no local entry, and nobody
\* but this instance is local here.
MergeInstance(entries, e) ==
    LET old == {x \in entries : x.id = e.id}
    IN IF old = {} THEN entries \cup {[e EXCEPT !.role = "remote"]}
       ELSE LET x == CHOOSE y \in old : TRUE
            IN IF x.role = "local" THEN entries
               ELSE (entries \ old) \cup
                    {IF e.status = "online" \/ x.status = "unknown" THEN [x EXCEPT !.status = e.status]
                     ELSE x}
MergeInstances(entries, summary) == FoldLeft(MergeInstance, entries, SetToSeq(summary.instances))
\* The first row of an id stays.
MergeRows(rows, summary) == rows \cup {r \in summary.rows : \A s \in rows : s.id # r.id}
\* mergeAgent
MergeLanes(lanes, more) ==
    LET Of(a) == {l \in lanes \cup more : l.agent = a}
    IN {[agent |-> a, instances |-> UNION {l.instances : l \in Of(a)},
         channels |-> UNION {l.channels : l \in Of(a)}, risk |-> HighestRisk(Of(a))] :
        a \in {l.agent : l \in lanes \cup more}}
\* The first gateway of an id stays, and recomputeGatewayCounts counts again those with a row.
MergeGateways(gateways, more) ==
    gateways \cup {g \in more : \A h \in gateways : h.id # g.id}
Recounted(gateways, rows) ==
    {IF \E r \in rows : GatewayOf(r) = g.id
     THEN [g EXCEPT !.count = Cardinality({r \in rows : GatewayOf(r) = g.id})] ELSE g : g \in gateways}

\* In the order of the configuration, then the status of each peer that was polled.
Merge(own, answers) ==
    LET summaries == FlattenSeq([n \in DOMAIN fleet.peers[Me] |->
            SetToSeq({a.summary : a \in {b \in answers : b.peer = fleet.peers[Me][n]}})])
        Polled(e) == {a \in answers : a.peer = e.id}
        entries == FoldLeft(MergeInstances, Instances(Me), summaries)
        rows == FoldLeft(MergeRows, own, summaries)
        gateways == FoldLeft(LAMBDA g, s : MergeGateways(g, Gateways(s.rows)), Gateways(own), summaries)
    IN [shown |-> TRUE,
        instances |-> {IF Polled(e) = {} THEN e
                       ELSE [e EXCEPT !.status = (CHOOSE a \in Polled(e) : TRUE).status] : e \in entries},
        rows |-> rows, gateways |-> Recounted(gateways, rows),
        lanes |-> FoldLeft(LAMBDA l, s : MergeLanes(l, Lanes(s.rows)), Lanes(own), summaries),
        own |-> own, answers |-> answers]
Show ==
    /\ poll.asked /\ Waiting = {}
    /\ view' = Merge(poll.own, poll.answers) /\ poll' = NoPoll
    /\ UNCHANGED <<fleet, observed, sightings>>

FederationInit ==
    /\ fleet \in Fleets /\ sightings = 0 /\ observed = [i \in Hosts |-> {}]
    /\ poll = NoPoll /\ view = NoView
FederationNext ==
    \/ \E i \in Hosts, seen \in Seen, risk \in Risks : Observe(i, seen, risk)
    \/ BeginPoll \/ Show
    \/ \E peer \in Peers(Me), how \in {"summary", "timeout", "error"} : Answers(peer, how)

(***************************************************************************)
(* Properties                                                              *)
(***************************************************************************)
Reported(v) == v.own \cup UNION {a.summary.rows : a \in v.answers}
\* A view says of a peer only what that peer said of itself in this poll: "online" stands beside
\* exactly the peers that answered for themselves, every row is one that its own instance
\* reported, only the instance itself is local, and the agents' lanes, merged one answer after
\* another, are the lanes of all the rows together (assertPeerIdentity, the merge functions).
ViewsSpeakForTheirPeers ==
    view.shown =>
        /\ \A e \in view.instances : e.role = "local" <=> e.id = Me
        /\ \A j \in Peers(Me) : \E e \in view.instances :
             e.id = j /\ (e.status = "online" <=>
                          \E a \in view.answers : a.peer = j /\ a.summary.instance = j)
        /\ \A r \in view.rows : r.of = Me \/ \E a \in view.answers : a.peer = r.of /\ r \in a.summary.rows
        /\ view.lanes = Lanes(Reported(view))
        /\ view.own \subseteq view.rows
\* The view shows every channel that an instance in it reported (control-plane.ts names a channel
\* by its instance, agent and channel).
EveryChannelIsShown == view.shown => Reported(view) \subseteq view.rows
=============================================================================
