---------------------------- MODULE ApprovalGate ----------------------------
(***************************************************************************)
(* The approval queue: approval/gate.ts over approval/store.ts, the two    *)
(* routes that drive it (routes/approval.ts) and the dashboard's copy of   *)
(* the queue (dashboard/state.ts).                                         *)
(*                                                                         *)
(* The store's save (temporary file, then rename) either replaces the file *)
(* or throws; the process may die between any two steps, and while the     *)
(* constructor restores the queue.  Request ids grow with createdAt, so    *)
(* "newest first" is by id.                                                *)
(***************************************************************************)
EXTENDS Integers, Sequences, SequencesExt, FiniteSetsExt

CONSTANTS
    MaxRequests,        \* bound: requests ever made
    MaxFaults,          \* bound: saves that throw
    MaxStops,           \* bound: stops and deaths
    HistoryCap,         \* history entries kept (100 in the code)
    BoardCap,           \* dashboard rows kept (160 in the code)
    Modes,              \* gate modes in use, a subset of {"auto", "always", "never"}
    RestoreIsCut        \* may a death or a failing save cut the constructor short?

ASSUME GateAssumption ==
    /\ MaxRequests \in Nat /\ MaxFaults \in Nat /\ MaxStops \in Nat
    /\ HistoryCap \in Nat \ {0} /\ BoardCap \in Nat \ {0}
    /\ Modes # {} /\ Modes \subseteq {"auto", "always", "never"}
    /\ RestoreIsCut \in BOOLEAN

VARIABLES
    phase,          \* "down", "restoring" (the constructor's loop) or "up"
    mode,           \* the gate's mode
    made,           \* requests made so far
    pending,        \* ids in the pending map
    expired,        \* ids whose expiresAt has passed
    history,        \* decisions in memory, newest first
    store,          \* the file: [pending, history]
    restoring,      \* persisted ids the constructor has not looked at yet
    caller,         \* what the agent's HTTP request came to
    board,          \* the dashboard's approval rows, newest activity first
    queued,         \* history: ids whose pending entry reached the store
    faults, stops

vars == <<phase, mode, made, pending, expired, history, store, restoring,
          caller, board, queued, faults, stops>>

Ids == 1 .. MaxRequests
Decisions == {"approved", "denied", "timeout"}
Entries == [id : Ids, decision : Decisions]
DecidedIds(h) == {h[i].id : i \in DOMAIN h}

\* unshift, then slice(0, 100).
Recorded(id, decision) ==
    LET h == <<[id |-> id, decision |-> decision]>> \o history
    IN  IF Len(h) > HistoryCap THEN SubSeq(h, 1, HistoryCap) ELSE h

\* persistState: the file takes the new queue and history, whole or not at all.
Saved(p, h) == store' = [pending |-> p, history |-> h] /\ UNCHANGED faults
SaveThrows == faults < MaxFaults /\ faults' = faults + 1 /\ UNCHANGED store

\* pushEvent: every dashboard event cuts the approval rows to the cap, whether
\* or not the rows it drops are still pending.
Cut(rows) == SubSeq(rows, 1, IF Len(rows) < BoardCap THEN Len(rows) ELSE BoardCap)
Listed(id, status) == Cut(<<[id |-> id, status |-> status]>> \o board)
Marked(id, status) ==
    [i \in DOMAIN board |->
        IF board[i].id = id THEN [board[i] EXCEPT !.status = status] ELSE board[i]]
Shows(id, status) == \E i \in DOMAIN board : board[i] = [id |-> id, status |-> status]

-----------------------------------------------------------------------------
(* Requests.                                                               *)

\* request() where the gate answers itself: mode "never", or "auto" when the
\* policy asked for no approval.  A save that throws makes the route answer 500
\* before the dashboard hears of the request.
RequestAuto(id) ==
    /\ phase = "up" /\ mode # "always"
    /\ id = made + 1
    /\ made' = id
    /\ history' = Recorded(id, "approved")
    /\ \/ /\ Saved(pending, history')
          /\ caller' = [caller EXCEPT ![id] = "approved"]
          /\ board' = Listed(id, "approved")
       \/ /\ SaveThrows
          /\ caller' = [caller EXCEPT ![id] = "failed"]
          /\ UNCHANGED board
    /\ UNCHANGED <<phase, mode, pending, expired, restoring, queued, stops>>

\* request() -> enqueue(): a save that throws inside the Promise executor
\* rejects the caller's promise and leaves the entry in the map; the route has
\* already put it on the dashboard.
RequestManual(id) ==
    /\ phase = "up" /\ mode # "never"
    /\ id = made + 1
    /\ made' = id
    /\ pending' = pending \cup {id}
    /\ board' = Listed(id, "pending")
    /\ \/ /\ Saved(pending', history)
          /\ caller' = [caller EXCEPT ![id] = "waiting"]
          /\ queued' = queued \cup {id}
       \/ /\ SaveThrows
          /\ caller' = [caller EXCEPT ![id] = "failed"]
          /\ UNCHANGED queued
    /\ UNCHANGED <<phase, mode, expired, history, restoring, stops>>

-----------------------------------------------------------------------------
(* Decisions.                                                              *)

\* Mutant: the entry stays in the map, so it can be answered again.
RespondKeepsEntry(id, decision) ==
    /\ phase = "up" /\ id \in pending
    /\ UNCHANGED pending
    /\ history' = Recorded(id, decision)
    /\ \/ /\ Saved(pending', history')
          /\ caller' = [caller EXCEPT ![id] = IF @ = "waiting" THEN decision ELSE @]
          /\ board' = Cut(Marked(id, decision))
       \/ /\ SaveThrows
          /\ UNCHANGED <<caller, board>>
    /\ UNCHANGED <<phase, mode, made, expired, restoring, queued, stops>>

\* respond(): an operator answers, the deadline passed or not.  When the save
\* throws the entry is already out of the map and its timer cleared: nothing
\* will resolve the caller's promise any more.
Respond(id, decision) ==
    /\ phase = "up" /\ id \in pending
    /\ pending' = pending \ {id}
    /\ history' = Recorded(id, decision)
    /\ \/ /\ Saved(pending', history')
          /\ caller' = [caller EXCEPT ![id] = IF @ = "waiting" THEN decision ELSE @]
          /\ board' = Cut(Marked(id, decision))
       \/ /\ SaveThrows
          /\ UNCHANGED <<caller, board>>
    /\ UNCHANGED <<phase, mode, made, expired, restoring, queued, stops>>

\* The deadline of a queued request passes; it does so while the service is
\* down, too.
Expire(id) ==
    /\ id \in (pending \cup store.pending) \ expired
    /\ expired' = expired \cup {id}
    /\ UNCHANGED <<phase, mode, made, pending, history, store, restoring,
                   caller, board, queued, faults, stops>>

\* What a stop, a death or a constructor that throws takes with it.
LoseMemory ==
    /\ phase' = "down"
    /\ pending' = {}
    /\ history' = <<>>
    /\ restoring' = {}
    /\ caller' = [id \in Ids |-> IF caller[id] = "waiting" THEN "cut" ELSE caller[id]]
    /\ board' = <<>>

\* Mutant: the timer is set only for entries restored from the file.
TimeOutRestoredOnly(id) ==
    /\ phase = "up" /\ id \in pending \cap expired
    /\ caller[id] # "waiting"
    /\ pending' = pending \ {id}
    /\ history' = Recorded(id, "timeout")
    /\ Saved(pending', history')
    /\ UNCHANGED <<phase, mode, made, expired, restoring, caller, board, queued, stops>>

\* The entry's timer.  The route of a live caller, resumed by the resolved
\* promise, updates the dashboard; a restored entry has no such route.  A save
\* that throws escapes the timer callback and ends the process.
TimeOut(id) ==
    /\ phase = "up" /\ id \in pending \cap expired
    /\ \/ /\ pending' = pending \ {id}
          /\ history' = Recorded(id, "timeout")
          /\ Saved(pending', history')
          /\ caller' = [caller EXCEPT ![id] = IF @ = "waiting" THEN "timeout" ELSE @]
          /\ board' = IF caller[id] = "waiting" THEN Cut(Marked(id, "timeout")) ELSE board
          /\ UNCHANGED <<phase, restoring>>
       \/ /\ SaveThrows
          /\ LoseMemory
    /\ UNCHANGED <<mode, made, expired, queued, stops>>

SetMode(m) ==
    /\ phase = "up" /\ mode # m
    /\ mode' = m
    /\ UNCHANGED <<phase, made, pending, expired, history, store, restoring,
                   caller, board, queued, faults, stops>>

\* Any other dashboard event.
OtherActivity ==
    /\ phase = "up" /\ Cut(board) # board
    /\ board' = Cut(board)
    /\ UNCHANGED <<phase, mode, made, pending, expired, history, store, restoring,
                   caller, queued, faults, stops>>

-----------------------------------------------------------------------------
(* Stop, death and restart.                                                *)

\* close(), or a death: neither saves anything.
Stop ==
    /\ phase = "up" \/ (RestoreIsCut /\ phase = "restoring")
    /\ stops < MaxStops
    /\ stops' = stops + 1
    /\ LoseMemory
    /\ UNCHANGED <<mode, made, expired, store, queued, faults>>

\* new ApprovalGate(): load the file; the mode comes from the configuration.
Load ==
    /\ phase = "down"
    /\ phase' = "restoring"
    /\ mode' \in Modes
    /\ history' = store.history
    /\ restoring' = store.pending
    /\ UNCHANGED <<made, pending, expired, store, caller, board, queued,
                   faults, stops>>

\* Mutant: an entry that expired while the service was down is dropped.
RestoreNextDropsExpired ==
    /\ phase = "restoring"
    /\ \E id \in restoring :
         /\ \A other \in restoring : other <= id
         /\ pending' = IF id \in expired THEN pending ELSE pending \cup {id}
         /\ restoring' = restoring \ {id}
    /\ UNCHANGED <<phase, mode, made, expired, history, store, caller, board,
                   queued, faults, stops>>

\* One turn of restorePersistedState's loop, newest first: a live entry goes
\* back into the map; an expired one is recorded as timed out, which saves the
\* map as it is at that point of the loop.
RestoreNext ==
    /\ phase = "restoring"
    /\ \E id \in restoring :
         /\ \A other \in restoring : other <= id
         /\ \/ /\ id \notin expired
               /\ pending' = pending \cup {id}
               /\ restoring' = restoring \ {id}
               /\ UNCHANGED <<phase, history, store, caller, board, faults>>
            \/ /\ id \in expired
               /\ history' = Recorded(id, "timeout")
               /\ restoring' = restoring \ {id}
               /\ Saved(pending, history')
               /\ UNCHANGED <<phase, pending, caller, board>>
            \/ /\ id \in expired
               /\ RestoreIsCut /\ SaveThrows
               /\ LoseMemory
    /\ UNCHANGED <<mode, made, expired, queued, stops>>

\* hydrateApprovalQueue walks the entries newest first and puts each in front:
\* the oldest ends up first, the newest is the first to be cut.
Hydrated ==
    [i \in 1 .. Cardinality(pending) |->
        [id |-> CHOOSE id \in pending : Cardinality({older \in pending : older <= id}) = i, status |-> "pending"]]

\* The loop's end: the final save, then hydrateApprovalQueue.
RestoreDone ==
    /\ phase = "restoring" /\ restoring = {}
    /\ \/ /\ Saved(pending, history)
          /\ phase' = "up"
          /\ board' = Hydrated
          /\ UNCHANGED <<pending, history, restoring, caller>>
       \/ /\ RestoreIsCut /\ SaveThrows
          /\ LoseMemory
    /\ UNCHANGED <<mode, made, expired, queued, stops>>

-----------------------------------------------------------------------------
Init ==
    /\ phase = "down"
    /\ mode \in Modes
    /\ made = 0
    /\ pending = {} /\ expired = {} /\ restoring = {} /\ queued = {}
    /\ history = <<>>
    /\ store = [pending |-> {}, history |-> <<>>]
    /\ caller = [id \in Ids |-> "none"]
    /\ board = <<>>
    /\ faults = 0 /\ stops = 0

Next ==
    \/ \E id \in Ids :
         \/ RequestAuto(id) \/ RequestManual(id)
         \/ \E d \in {"approved", "denied"} : Respond(id, d)
         \/ Expire(id) \/ TimeOut(id)
    \/ \E m \in Modes : SetMode(m)
    \/ OtherActivity
    \/ Stop \/ Load \/ RestoreNext \/ RestoreDone

Spec == Init /\ [][Next]_vars

\* Time passes and the event loop runs due timers; nobody has to answer, stop
\* or start the service.
FairSpec ==
    /\ Spec
    /\ \A id \in Ids : WF_vars(Expire(id)) /\ WF_vars(TimeOut(id))

-----------------------------------------------------------------------------
(* Properties.                                                             *)

\* Every variable stays in its type.
TypeOK ==
    /\ phase \in {"down", "restoring", "up"}
    /\ mode \in Modes
    /\ made \in 0 .. MaxRequests
    /\ pending \subseteq Ids /\ expired \subseteq Ids /\ restoring \subseteq Ids
    /\ queued \subseteq Ids
    /\ history \in Seq(Entries) /\ Len(history) <= HistoryCap
    /\ store \in [pending : SUBSET Ids, history : Seq(Entries)]
    /\ caller \in [Ids -> Decisions \cup {"none", "waiting", "failed", "cut"}]
    /\ board \in Seq([id : Ids, status : Decisions \cup {"pending"}])
    /\ faults \in 0 .. MaxFaults
    /\ stops \in 0 .. MaxStops

\* A request is pending or decided, never both, in memory and on file, across
\* restarts, races of an answer with its deadline, and saves that throw: no
\* approval is decided twice.
DecidedOnce ==
    /\ pending \cap DecidedIds(history) = {}
    /\ store.pending \cap DecidedIds(store.history) = {}
    /\ \A i, j \in DOMAIN history : history[i].id = history[j].id => i = j

\* A decision an agent was told is on file, unless newer ones pushed it out of
\* the capped history: request, respond and the timer save before they answer.
AnswerIsOnFile ==
    \A id \in Ids : caller[id] \in Decisions =>
        \/ \E i \in DOMAIN store.history :
             store.history[i] = [id |-> id, decision |-> caller[id]]
        \/ Len(store.history) = HistoryCap

\* As long as no save throws, the file is the queue: a stop at any moment
\* between two handlers loses nothing.
FileIsQueue ==
    (phase = "up" /\ faults = 0) => store = [pending |-> pending, history |-> history]

\* The file says what was answered and what waits.
FileIsCurrent == AnswerIsOnFile /\ FileIsQueue

\* An operator sees every request that is waiting for one, restored ones
\* included: the dashboard lists every pending entry until its feed is full.
QueueIsShown ==
    phase = "up" =>
        \A id \in pending : Shows(id, "pending") \/ Len(board) >= BoardCap

\* The same without the escape: "expect(stateResponse.json().approvals.pending
\* ...).toContain(requestId)" for a request the gate still lists.
PendingAlwaysShown ==
    phase = "up" => \A id \in pending : Shows(id, "pending")

\* A request that reached the file is pending, decided or pushed out of the
\* history: "persists pending approvals across gate and server
\* reinitialization".
NoApprovalLost ==
    \A id \in queued :
        \/ id \in pending \cup restoring \cup store.pending
        \/ id \in DecidedIds(history) \cup DecidedIds(store.history)
        \/ Len(history) = HistoryCap \/ Len(store.history) = HistoryCap

\* No approval is lost between memory, file and board: the file is current, a
\* request that reached it is never forgotten, and operators see what waits.
ApprovalsAreKept == FileIsCurrent /\ QueueIsShown /\ NoApprovalLost

\* Every agent that waits is answered, or learns that the service is gone: the
\* deadline and its timer bound the wait, unless a save has thrown.
EveryWaitEnds ==
    \A id \in Ids : caller[id] = "waiting" ~> (caller[id] # "waiting" \/ faults > 0)

=============================================================================
