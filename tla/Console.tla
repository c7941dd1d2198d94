------------------------------- MODULE Console -------------------------------
(***************************************************************************)
(* dashboard/state.ts: the feeds, sessions, task graph and evidence ledger  *)
(* that the operator's console shows, the session controls that gate        *)
(* /evaluate, and the incident simulation, whose synthetic rows live in the *)
(* same lists as the real ones.  Every method runs to its end, so a method  *)
(* and the route that calls it are one step.                                *)
(***************************************************************************)
EXTENDS Integers, Sequences, FiniteSets, SequencesExt

CONSTANTS Sids, SimSid,      \* the sessions of agents, and the one of the simulation
          Deeds,             \* plane and action of a request
          Timeline,          \* the deeds that the simulation injects, in order
          FeedCap, GraphCap, \* MAX_FEED_ITEMS, MAX_GRAPH_ITEMS
          EachShown, QueueCap, \* rows of a kind, and rows in all, of the priority queue
          MaxDeskSteps       \* bound: operations, the boot included

Controls == {"pause", "resume", "terminate"}

ASSUME DeskAssumption ==
    /\ SimSid \notin Sids /\ Controls \cap Deeds = {} /\ Timeline \in Seq(Deeds) /\ Timeline # <<>>
    /\ FeedCap \in Nat \ {0} /\ GraphCap \in Nat \ {0} /\ MaxDeskSteps \in Nat
    /\ EachShown \in Nat \ {0} /\ QueueCap \in Nat \ {0}

VARIABLES desk,        \* RuntimeState's maps and lists
          shadow,      \* ghost: the same without any simulation
          simulating,  \* simulation.enabled
          waiting,     \* manual requests in the approval gate: id to session
          full,        \* ghost: a list was cut at its cap
          steps

deskVars == <<desk, shadow, simulating, waiting, full, steps>>

AllSids == Sids \cup {SimSid}
Tasks == AllSids \X (Deeds \cup Controls)
NoTask == <<>>
\* The timeline marks its tasks, flows and evidence as simulated; a control of its session does not.
Simulated(t) == t[1] = SimSid /\ t[2] \in Deeds
Unknown == [status |-> "none", pending |-> 0, evidence |-> 0, seen |-> 0]
Unseen == [status |-> "unseen", seen |-> 0, first |-> 0]
EmptyDesk == [sessions |-> [s \in AllSids |-> Unknown], agents |-> [s \in AllSids |-> Unseen],
          rows |-> <<>>, audits |-> <<>>, events |-> <<>>, flows |-> <<>>, evidence |-> <<>>,
          edges |-> <<>>, tasks |-> [t \in Tasks |-> "none"], last |-> [s \in AllSids |-> NoTask]]
Now == 10 * steps

(***************************************************************************)
(* The private helpers, as functions from desk to desk.  A session's agent  *)
(* is known by the session.                                                *)
(***************************************************************************)
CutAt(list, cap) == SubSeq(list, 1, IF Len(list) > cap THEN cap ELSE Len(list))
Unshift(list, x, cap) == CutAt(<<x>> \o list, cap)
RowsWhere(list, P(_)) == Cardinality({i \in 1 .. Len(list) : P(list[i])})

ObserveAgent(d, s) == 
    [d EXCEPT !.agents[s] = [status |-> "healthy", seen |-> Now,
                             first |-> IF @.status = "unseen" THEN Now ELSE @.first]]
\* Mutant: an observed session is an active one.
ObserveActive(d, s) == [d EXCEPT !.sessions[s] = [@ EXCEPT !.status = "active", !.seen = Now]]
ObserveSession(d, s) ==
    [d EXCEPT !.sessions[s] =
        [@ EXCEPT !.status = IF @ = "none" THEN "active" ELSE @, !.seen = Now]]
UpdateSessionApprovalCount(d, s) ==
    IF d.sessions[s].status = "none" THEN d
    ELSE [d EXCEPT !.sessions[s].pending =
             RowsWhere(d.rows, LAMBDA r : r.session = s /\ r.status = "pending")]

UpsertTask(d, t, status) ==
    LET precedes == [from |-> d.last[t[1]], task |-> t, evidence |-> 0]
        known == \E i \in 1 .. Len(d.edges) : d.edges[i] = precedes
    IN [d EXCEPT !.tasks[t] = status, !.last[t[1]] = t,
                 !.edges = IF precedes.from \in {NoTask, t} \/ known THEN @ ELSE Unshift(@, precedes, GraphCap)]
AddEvidence(d, t, e) ==
    LET ledger == Unshift(d.evidence, [id |-> e, task |-> t], GraphCap)
    IN [d EXCEPT !.evidence = ledger,
                 !.edges = Unshift(@, [from |-> t, task |-> NoTask, evidence |-> e], GraphCap),
                 !.sessions[t[1]].evidence =
                    IF d.sessions[t[1]].status = "none" THEN @
                    ELSE RowsWhere(ledger, LAMBDA r : r.task[1] = t[1])]
PushEvent(d, ev) ==
    [d EXCEPT !.events = Unshift(@, ev, FeedCap), !.audits = CutAt(@, FeedCap), !.rows = CutAt(@, FeedCap)]

\* What every record* method does at its end: task, evidence and their link, flow, event.
Traced(d, t, status, e, synthetic) ==
    PushEvent([AddEvidence(UpsertTask(d, t, status), t, e) EXCEPT !.flows = Unshift(@, t, GraphCap)],
              [id |-> e, session |-> t[1], synthetic |-> synthetic])

(***************************************************************************)
(* The record* methods.                                                    *)
(***************************************************************************)
RecordAuditEvent(d, s, k, deny, e) ==
    Traced(ObserveSession(ObserveAgent([d EXCEPT !.audits = <<[session |-> s, risky |-> deny, at |-> e]>> \o @], s), s),
           <<s, k>>, IF deny THEN "blocked" ELSE "completed", e, FALSE)
RecordSessionRejection(d, s, k, e) == Traced(ObserveSession(d, s), <<s, k>>, "blocked", e, FALSE)
RecordApprovalRequested(d, s, k, mode, e) ==
    LET row == [id |-> e, session |-> s, deed |-> k,
                status |-> IF mode = "auto" THEN "approved" ELSE "pending"]
    IN Traced(UpdateSessionApprovalCount(
                ObserveSession(ObserveAgent([d EXCEPT !.rows = <<row>> \o @], s), s), s),
              <<s, k>>, IF mode = "auto" THEN "completed" ELSE "active", e, FALSE)
\* A request whose row was cut is reported as an event all the same.
RecordApprovalResolved(d, id, s, k, decision, e) ==
    Traced(UpdateSessionApprovalCount(
             [d EXCEPT !.rows = [i \in DOMAIN @ |->
                 IF @[i].id = id THEN [@[i] EXCEPT !.status = decision] ELSE @[i]]], s),
           <<s, k>>, IF decision = "approved" THEN "completed" ELSE "blocked", e, FALSE)
\* recordNetworkInspection and recordContentInspection: a session of the probe's own, no agent.
RecordInspection(d, s, k, allowed, e) ==
    Traced(ObserveSession(d, s), <<s, k>>, IF allowed THEN "completed" ELSE "blocked", e, FALSE)
\* A manifest that needs review leaves its task open.
TaskOfTrust == [trusted |-> "completed", review_required |-> "active", untrusted |-> "blocked"]
RecordManifestInspection(d, s, k, trust, e) ==
    Traced(ObserveSession(d, s), <<s, k>>, TaskOfTrust[trust], e, FALSE)

MayControl(d, s, action) ==
    /\ d.sessions[s].status # "none"
    /\ action = "terminate" \/ d.sessions[s].status # "terminated"
Controlled(d, s, action, e) ==
    LET status == CASE action = "pause" -> "paused" [] action = "resume" -> "active" [] OTHER -> "terminated"
    IN Traced([d EXCEPT !.sessions[s].status = status, !.sessions[s].seen = e], <<s, action>>,
              IF status = "active" THEN "completed" ELSE "blocked", e, FALSE)

(***************************************************************************)
(* The incident simulation.                                                *)
(***************************************************************************)
\* An edge stays while it joins two tasks: the edges to evidence, whose id is no task's, all go.
ClearedEdges(d) ==
    SelectSeq(d.edges, LAMBDA x : x.task # NoTask /\ ~Simulated(x.from) /\ ~Simulated(x.task))
ClearedGraph(d) ==
    [d EXCEPT !.events = SelectSeq(@, LAMBDA r : ~r.synthetic),
              !.rows = SelectSeq(@, LAMBDA r : r.session # SimSid),
              !.flows = SelectSeq(@, LAMBDA t : ~Simulated(t)), !.edges = ClearedEdges(d),
              !.tasks = [t \in Tasks |-> IF Simulated(t) THEN "none" ELSE @[t]],
              !.last[SimSid] = NoTask, !.sessions[SimSid] = Unknown, !.agents[SimSid] = Unseen]
ClearSyntheticRecords(d) ==
    [ClearedGraph(d) EXCEPT !.evidence = SelectSeq(@, LAMBDA r : ~Simulated(r.task))]

Inject(d, n) == Traced(ObserveSession(ObserveAgent(d, SimSid), SimSid),
                       <<SimSid, Timeline[n]>>, "blocked", Now + n, TRUE)
Injected == FoldLeftDomain(Inject, ClearSyntheticRecords(desk), Timeline)
\* Dated five minutes back: before every real row of a run.
SimulatedRow == [id |-> -1, session |-> SimSid, deed |-> Timeline[1], status |-> "pending"]
Activated ==
    [UpdateSessionApprovalCount([Injected EXCEPT !.rows = <<SimulatedRow>> \o @], SimSid)
        EXCEPT !.sessions[SimSid].status = "paused"]

(***************************************************************************)
(* Steps.  Both desks take the real operations.                            *)
(***************************************************************************)
AtCap(d) == \/ \E l \in {"events", "rows", "audits"} : Len(d[l]) >= FeedCap
            \/ \E g \in {"evidence", "flows", "edges"} : Len(d[g]) >= GraphCap
DeskTick == steps < MaxDeskSteps /\ steps' = steps + 1
Op(F(_)) ==
    /\ DeskTick /\ desk' = F(desk) /\ shadow' = F(shadow)
    /\ full' = (full \/ AtCap(desk'))

\* The first of the three events of the boot stands for them.
DeskInit ==
    /\ steps = 1 /\ simulating = FALSE /\ full = FALSE /\ waiting = {}
    /\ desk = PushEvent(EmptyDesk, [id |-> 0, session |-> SimSid, synthetic |-> TRUE])
    /\ shadow = desk

\* POST /evaluate: the session's own id, or the agent's default one.
Stopped(s) == desk.sessions[s].status \in {"paused", "terminated"}
PostEvaluate(s, k) ==
    /\ ~Stopped(s)
    /\ \E deny \in BOOLEAN : Op(LAMBDA d : RecordAuditEvent(d, s, k, deny, Now))
    /\ UNCHANGED <<simulating, waiting>>
EvaluateStopped(s, k) ==
    /\ Stopped(s)
    /\ Op(LAMBDA d : RecordSessionRejection(d, s, k, Now))
    /\ UNCHANGED <<simulating, waiting>>
\* The integrations (damage-control, communication-channel, telegram) do not ask for the session.
Preflight(s, k) ==
    /\ Op(LAMBDA d : RecordAuditEvent(d, s, k, FALSE, Now))
    /\ UNCHANGED <<simulating, waiting>>
\* An automatic answer is recorded as resolved in the same breath.
AskApproval(s, k, mode) ==
    /\ Op(LAMBDA d :
           LET asked == RecordApprovalRequested(d, s, k, mode, Now)
           IN IF mode = "auto" THEN RecordApprovalResolved(asked, Now, s, k, "approved", Now + 1) ELSE asked)
    /\ waiting' = IF mode = "auto" THEN waiting ELSE waiting \cup {[id |-> Now, session |-> s, deed |-> k]}
    /\ UNCHANGED simulating
ResolveApproval(w, decision) ==
    /\ w \in waiting
    /\ Op(LAMBDA d : RecordApprovalResolved(d, w.id, w.session, w.deed, decision, Now))
    /\ waiting' = waiting \ {w}
    /\ UNCHANGED simulating
Inspect(s, k) ==
    /\ \/ \E allowed \in BOOLEAN : Op(LAMBDA d : RecordInspection(d, s, k, allowed, Now))
       \/ \E trust \in DOMAIN TaskOfTrust : Op(LAMBDA d : RecordManifestInspection(d, s, k, trust, Now))
    /\ UNCHANGED <<simulating, waiting>>
ControlSession(s, action) ==
    /\ MayControl(desk, s, action)
    /\ IF s = SimSid
       THEN DeskTick /\ desk' = Controlled(desk, s, action, Now) /\ UNCHANGED shadow /\ full' = (full \/ AtCap(desk'))
       ELSE Op(LAMBDA d : Controlled(d, s, action, Now))
    /\ UNCHANGED <<simulating, waiting>>
\* A heartbeat falls due, and then out of time: HeartbeatWatchdog.evaluate of the next snapshot.
Ages(s) ==
    /\ desk.agents[s].status \in {"healthy", "stale"}
    /\ Op(LAMBDA d : [d EXCEPT !.agents[s].status = IF @ = "healthy" THEN "stale" ELSE "expired"])
    /\ UNCHANGED <<simulating, waiting>>
ActivateIncidentSimulation ==
    /\ DeskTick /\ desk' = Activated /\ simulating' = TRUE /\ full' = (full \/ AtCap(desk'))
    /\ UNCHANGED <<shadow, waiting>>
ClearSimulation ==
    /\ simulating /\ DeskTick
    /\ desk' = ClearSyntheticRecords(desk) /\ simulating' = FALSE
    /\ UNCHANGED <<shadow, full, waiting>>

DeskNext ==
    \/ \E s \in Sids, k \in Deeds :
        \/ PostEvaluate(s, k) \/ EvaluateStopped(s, k) \/ Preflight(s, k) \/ Inspect(s, k)
        \/ \E mode \in {"auto", "manual"} : AskApproval(s, k, mode)
    \/ \E w \in waiting, decision \in {"approved", "denied", "timeout"} : ResolveApproval(w, decision)
    \/ \E s \in AllSids, a \in Controls : ControlSession(s, a)
    \/ \E s \in AllSids : Ages(s)
    \/ ActivateIncidentSimulation \/ ClearSimulation

(***************************************************************************)
(* The priority queue of a snapshot: some rows of each kind - the oldest    *)
(* approvals, the newest sessions and audits, the agents first seen - by    *)
(* rank and then the newest first, cut to QueueCap.  Its last row gives way *)
(* to the oldest approval when none is left.                               *)
(***************************************************************************)
PriorityRank == [critical |-> 4, pending |-> 3, warning |-> 2]
Newer(x, y) == x.rank > y.rank \/ (x.rank = y.rank /\ <<x.at, x.kind, x.of>> # <<y.at, y.kind, y.of>> /\ x.at >= y.at)
Oldest(items, n) == {x \in items : Cardinality({y \in items : y.at < x.at}) < n}
Newest(items, n) == {x \in items : Cardinality({y \in items : y.at > x.at}) < n}
Item(kind, status, at, of) == [kind |-> kind, rank |-> PriorityRank[status], at |-> at, of |-> of]
PendingItems(d) == {Item("approval", "pending", d.rows[i].id, d.rows[i].session) :
                       i \in {j \in 1 .. Len(d.rows) : d.rows[j].status = "pending"}}
Overdue(d) == {s \in AllSids : d.agents[s].status \in {"stale", "expired"}}
Candidates(d) ==
    UNION {Oldest(PendingItems(d), EachShown + 1),
           Newest({Item("session", IF d.sessions[s].status = "terminated" THEN "critical" ELSE "warning",
                        d.sessions[s].seen, s) :
                      s \in {x \in AllSids : d.sessions[x].status \in {"paused", "terminated"}}}, EachShown),
           {Item("watchdog", IF d.agents[s].status = "expired" THEN "critical" ELSE "warning",
                 IF d.agents[s].status = "expired" THEN Now ELSE d.agents[s].seen, s) :
               s \in {x \in Overdue(d) : Cardinality({y \in Overdue(d) : d.agents[y].first < d.agents[x].first}) < EachShown}},
           Newest({Item("provenance", "critical", d.audits[i].at, d.audits[i].session) :
                      i \in {j \in 1 .. Len(d.audits) : d.audits[j].risky}}, EachShown)}
TrimmedQueue(d) == {x \in Candidates(d) : Cardinality({y \in Candidates(d) : Newer(y, x)}) < QueueCap}
PriorityQueue(d) ==
    LET queue == TrimmedQueue(d)
        lowest == CHOOSE x \in queue : \A y \in queue \ {x} : Newer(y, x)
    IN IF PendingItems(d) = {} \/ \E x \in queue : x.kind = "approval" THEN queue
       ELSE (queue \ {lowest}) \cup {CHOOSE x \in PendingItems(d) : \A y \in PendingItems(d) : y.at <= x.at}

(***************************************************************************)
(* Properties                                                              *)
(***************************************************************************)
\* What the console holds of the agents' own sessions, the edges to evidence left out.
RealView(d) ==
    [sessions |-> [s \in Sids |-> d.sessions[s]], agents |-> [s \in Sids |-> d.agents[s]],
     audits |-> d.audits, rows |-> SelectSeq(d.rows, LAMBDA r : r.session # SimSid),
     events |-> SelectSeq(d.events, LAMBDA r : r.session # SimSid),
     flows |-> SelectSeq(d.flows, LAMBDA t : t[1] # SimSid),
     evidence |-> SelectSeq(d.evidence, LAMBDA r : r.task[1] # SimSid),
     edges |-> SelectSeq(d.edges, LAMBDA x : x.task # NoTask /\ x.from[1] # SimSid),
     tasks |-> [t \in {x \in Tasks : x[1] # SimSid} |-> d.tasks[t]], last |-> [s \in Sids |-> d.last[s]]]

\* A demonstration that is started, restarted and cleared in the middle of real traffic leaves
\* the real sessions, rows and graph as they would have been without it, and once cleared no row
\* of its own (clearSyntheticRecords).  At the caps the lists are shared and this is not so.
SimulationLeavesNoTrace ==
    /\ ~full => RealView(desk) = RealView(shadow)
    /\ ~simulating =>
        /\ \A i \in 1 .. Len(desk.rows) : desk.rows[i].session # SimSid
        /\ \A i \in 1 .. Len(desk.flows) : ~Simulated(desk.flows[i])
        /\ \A i \in 1 .. Len(desk.evidence) : ~Simulated(desk.evidence[i].task)

\* However many critical items there are, the queue that the operator works from shows a
\* pending approval while there is one, keeps to its length, and the counts beside it agree with
\* the rows (trimmedPriorityQueue, updateSessionApprovalCount).
QueueShowsApproval ==
    /\ PendingItems(desk) # {} => \E x \in PriorityQueue(desk) : x.kind = "approval"
    /\ Cardinality(PriorityQueue(desk)) <= QueueCap
    /\ ~full => \A s \in AllSids : desk.sessions[s].status # "none" =>
                   desk.sessions[s].pending = Cardinality({x \in PendingItems(desk) : x.of = s})

\* What the console shows is what happened: nothing of a cleared simulation, and
\* every approval that waits.
ConsoleIsTrue == SimulationLeavesNoTrace /\ QueueShowsApproval

\* A session that was stopped stays stopped through whatever is observed, asked, simulated or
\* cleared: only the operator's resume brings it back, and nothing brings back a terminated one
\* (controlSession, observeSession).
ContainmentHolds ==
    [][\A s \in Sids : Stopped(s) =>
           \/ Stopped(s)' /\ (desk.sessions[s].status = "terminated" => desk'.sessions[s].status = "terminated")
           \/ ControlSession(s, "resume")]_deskVars

\* What the console shows is true, and what it stopped stays stopped.
ConsoleHolds == []ConsoleIsTrue /\ ContainmentHolds
=============================================================================
