----------------------------- MODULE FloodGuard -----------------------------
(***************************************************************************)
(* The guard in front of POST /evaluate and of the approval queue          *)
(* (runtime/floodguard.ts, routes/policy.ts, routes/approval.ts): sliding  *)
(* one-minute buckets per session, tool action and operator, an hourly     *)
(* budget per session that two routes share, caps on the queue, a shield   *)
(* that lowers every limit and overrides that scale one session's.         *)
(*                                                                         *)
(* A route runs from its guard to its queueing without an await, so a      *)
(* request is one step.  Telemetry, a disabled guard and a save that throws *)
(* are left out.  Factors are percentages.                                 *)
(***************************************************************************)
EXTENDS Naturals, Sequences, FiniteSets, FiniteSetsExt, Sums

CONSTANTS
    Sessions,       \* session ids, an agent's "<agentId>:default" among them
    Operators,      \* authenticated approvers
    Actions,        \* tool actions
    NoAction,       \* of a call on another plane than "tool"
    None,           \* no override, no payer
    Setups,         \* who may ask for what, and how often
    Limits,         \* the configured limits, by name
    ShieldFactor,   \* the shield's factor for each of them
    PressureBar,    \* queuePriorityPressureThreshold
    Weights,        \* costWeights: whole multipliers
    Window, Hour,   \* the length of a bucket's and of a budget's window
    LeastShield, LeastOverride, \* the least an order lasts
    MaxTime         \* bound: the clock

LimitNames == {"request", "tool", "ask", "answer", "queue", "lane", "budget"}
Risks == {"low", "high", "critical"} \* "medium" is treated as "low"
Calls == [session : Sessions, action : Actions \cup {NoAction}, risky : BOOLEAN]
Asks == [session : Sessions, named : BOOLEAN, tool : BOOLEAN, risk : Risks, manual : BOOLEAN]

ASSUME FloodAssumption ==
    /\ NoAction \notin Actions /\ None \notin Sessions /\ None \notin Nat
    /\ \A u \in Setups :
         /\ u.calls \subseteq Calls /\ u.asks \subseteq Asks /\ u.operators \subseteq Operators
         /\ u.scalings \subseteq Sessions \X Nat /\ u.lengths \subseteq Nat
         /\ u.requests \in Nat /\ u.orders \in Nat /\ u.restarts \in Nat
    /\ Limits \in [LimitNames -> Nat \ {0}]
    /\ ShieldFactor \in [LimitNames -> 1 .. 100]
    /\ PressureBar \in Nat
    /\ Weights \in [{"evaluate", "ask", "manual", "tool", "high", "critical"} -> Nat \ {0}]
    /\ Window \in Nat \ {0} /\ Hour \in Nat \ {0}
    /\ LeastShield \in Nat \ {0} /\ LeastOverride \in Nat \ {0}
    /\ MaxTime \in Nat \ {0}

VARIABLES
    setup,          \* the requests and orders of this behaviour, with their bounds
    now,            \* the clock
    buckets,        \* per key, the times of what it admitted, oldest first
    budgets,        \* per session, what was charged and when
    overrides,      \* per session, [factor, until] or None
    shieldUntil,    \* when shield mode ends
    pending,        \* the gate's queue
    requests, orders, restarts, \* how many there were
    served,         \* ghost: what this process let through, with the mode it was in
    scaled          \* ghost: sessions that ever had an override

vars == <<setup, now, buckets, budgets, overrides, shieldUntil, pending,
          requests, orders, restarts, served, scaled>>

Keys == ({"request", "ask"} \X Sessions) \cup ({"tool"} \X (Sessions \X Actions))
            \cup ({"answer"} \X Operators)

Largest(a, b) == IF a >= b THEN a ELSE b

-----------------------------------------------------------------------------
(* Limits.                                                                 *)

\* max(MIN_LIMIT, Math.round(base * factor))
Scaled(base, factor) == Largest(1, (base * factor + 50) \div 100)

Shielded == shieldUntil > now

\* adjustLimit
Limit(name) == IF Shielded THEN Scaled(Limits[name], ShieldFactor[name]) ELSE Limits[name]

\* cleanupSessionOverrides
Standing ==
    [s \in Sessions |->
        IF overrides[s] # None /\ overrides[s].until <= now THEN None ELSE overrides[s]]

\* getSessionLimit
SessionLimit(s, name) ==
    IF Standing[s] = None THEN Limit(name) ELSE Scaled(Limit(name), Standing[s].factor)

-----------------------------------------------------------------------------
(* Buckets and budgets.                                                    *)

\* Mutant: an event leaves the window one tick early.
FreshShort(k) == Kept(buckets[k], {i \in DOMAIN buckets[k] : buckets[k][i] + Window > now + 1})

Fresh(k) == Kept(buckets[k], {i \in DOMAIN buckets[k] : buckets[k][i] + Window > now})

Full(k, limit) == Len(Fresh(k)) >= limit

\* consumeWithinWindow drops what left the window, refused or not.
Cut(bs, k) == [bs EXCEPT ![k] = Fresh(k)]
Take(bs, k) == [bs EXCEPT ![k] = Append(Fresh(k), now)]

\* The hint of a refusal, for a bucket that is not empty.
RetryAfter(k) == Largest(1, Window - (now - Fresh(k)[1]))

Charged(s) == Kept(budgets[s], {i \in DOMAIN budgets[s] : budgets[s][i].at + Hour > now})
Used(s) == MapThenSumSet(LAMBDA i : Charged(s)[i].units, DOMAIN Charged(s))

\* consumeBudget
OverBudget(s, units) == Used(s) + units > SessionLimit(s, "budget")

Refuse(s) == [budgets EXCEPT ![s] = Charged(s)]
Charge(s, units) == [budgets EXCEPT ![s] = Append(Charged(s), [at |-> now, units |-> units])]

Times(yes, weight) == IF yes THEN Weights[weight] ELSE 1

\* estimateEvaluateUnits
EvaluateUnits(c) ==
    Weights["evaluate"] * Times(c.action # NoAction, "tool") * Times(c.risky, "high")

\* estimateApprovalRequestUnits
AskUnits(a) ==
    (Weights["ask"] + IF a.manual THEN Weights["manual"] ELSE 0)
        * Times(a.tool, "tool") * Times(a.risk = "high", "high")
        * Times(a.risk = "critical", "critical")

\* What is let through, for the properties.
Row(keys, payer, units) ==
    [keys |-> keys, payer |-> payer, units |-> units, at |-> now,
     shield |-> now < shieldUntil,
     factor |-> IF payer = None \/ overrides[payer] = None THEN None
                ELSE IF now < overrides[payer].until THEN overrides[payer].factor ELSE None]

-----------------------------------------------------------------------------
(* POST /evaluate                                                          *)

Count == requests < setup.requests /\ requests' = requests + 1

RequestKey(s) == <<"request", s>>
ToolKey(c) == <<"tool", <<c.session, c.action>>>>

RequestFlood(c) == Full(RequestKey(c.session), SessionLimit(c.session, "request"))
ToolFlood(c) == c.action # NoAction /\ Full(ToolKey(c), SessionLimit(c.session, "tool"))

\* The buckets once a call has passed both.
BothTaken(c) ==
    LET taken == Take(buckets, RequestKey(c.session))
    IN  IF c.action = NoAction THEN taken ELSE Take(taken, ToolKey(c))

OfGuard == overrides' = Standing /\ UNCHANGED <<setup, now, shieldUntil, orders, restarts, scaled>>

EvaluateFlooded(c) ==
    /\ Count /\ RequestFlood(c)
    /\ buckets' = Cut(buckets, RequestKey(c.session))
    /\ OfGuard /\ UNCHANGED <<budgets, pending, served>>

EvaluateToolFlooded(c) ==
    /\ Count /\ ~RequestFlood(c) /\ ToolFlood(c)
    /\ buckets' = Cut(Take(buckets, RequestKey(c.session)), ToolKey(c))
    /\ OfGuard /\ UNCHANGED <<budgets, pending, served>>

EvaluateOverBudget(c) ==
    /\ Count /\ ~RequestFlood(c) /\ ~ToolFlood(c) /\ OverBudget(c.session, EvaluateUnits(c))
    /\ buckets' = BothTaken(c)
    /\ budgets' = Refuse(c.session)
    /\ OfGuard /\ UNCHANGED <<pending, served>>

EvaluateServed(c) ==
    /\ Count /\ ~RequestFlood(c) /\ ~ToolFlood(c) /\ ~OverBudget(c.session, EvaluateUnits(c))
    /\ buckets' = BothTaken(c)
    /\ budgets' = Charge(c.session, EvaluateUnits(c))
    /\ served' = Append(served, Row({RequestKey(c.session)}
                   \cup (IF c.action = NoAction THEN {} ELSE {ToolKey(c)}),
                   c.session, EvaluateUnits(c)))
    /\ OfGuard /\ UNCHANGED pending

-----------------------------------------------------------------------------
(* POST /approval/request                                                  *)

AskKey(s) == <<"ask", s>>

\* The route counts by the session id the gate stored, which a request
\* without one lacks.
InLane(s) == {e \in pending : e.named /\ e.session = s}

\* Mutant: the bar itself is let through.
PressedAbove(count, cap) == count * 100 > PressureBar * cap

Pressed(count, cap) == count * 100 >= PressureBar * cap

\* Shield mode keeps the rest of the queue for what is risky.
Reserved(a) ==
    /\ Shielded /\ a.risk = "low"
    /\ \/ Pressed(Cardinality(pending), Limit("queue"))
       \/ Pressed(Cardinality(InLane(a.session)), SessionLimit(a.session, "lane"))

QueueFull == Cardinality(pending) >= Limit("queue")

LaneFull(s) == Cardinality(InLane(s)) >= SessionLimit(s, "lane")

Crowded(a) == Reserved(a) \/ QueueFull \/ LaneFull(a.session)
AskFlood(s) == Full(AskKey(s), SessionLimit(s, "ask"))

AskCrowded(a) ==
    /\ Count /\ Crowded(a)
    /\ OfGuard /\ UNCHANGED <<buckets, budgets, pending, served>>

AskFlooded(a) ==
    /\ Count /\ ~Crowded(a) /\ AskFlood(a.session)
    /\ buckets' = Cut(buckets, AskKey(a.session))
    /\ OfGuard /\ UNCHANGED <<budgets, pending, served>>

AskOverBudget(a) ==
    /\ Count /\ ~Crowded(a) /\ ~AskFlood(a.session) /\ OverBudget(a.session, AskUnits(a))
    /\ buckets' = Take(buckets, AskKey(a.session))
    /\ budgets' = Refuse(a.session)
    /\ OfGuard /\ UNCHANGED <<pending, served>>

\* gate.request: what needs no operator is decided at once.
AskServed(a) ==
    /\ Count /\ ~Crowded(a) /\ ~AskFlood(a.session) /\ ~OverBudget(a.session, AskUnits(a))
    /\ buckets' = Take(buckets, AskKey(a.session))
    /\ budgets' = Charge(a.session, AskUnits(a))
    /\ pending' = IF a.manual
                    THEN pending \cup {[id |-> requests', session |-> a.session,
                            named |-> a.named, risk |-> a.risk, shield |-> Shielded]}
                    ELSE pending
    /\ served' = Append(served, Row({AskKey(a.session)}, a.session, AskUnits(a)))
    /\ OfGuard

-----------------------------------------------------------------------------
(* POST /approval/:requestId/respond, and how else an entry leaves.        *)

AnswerKey(o) == <<"answer", o>>
AnswerFlood(o) == Full(AnswerKey(o), Limit("answer"))

AnswerFlooded(o) ==
    /\ Count /\ AnswerFlood(o)
    /\ buckets' = Cut(buckets, AnswerKey(o))
    /\ UNCHANGED <<setup, now, budgets, overrides, shieldUntil, pending, orders,
                   restarts, served, scaled>>

\* The request is in the queue, or no longer: the latter ends in a 404 before
\* the route reads the guard's telemetry.
Answer(o, id) ==
    LET found == {e \in pending : e.id = id}
    IN  /\ Count /\ ~AnswerFlood(o)
        /\ buckets' = Take(buckets, AnswerKey(o))
        /\ pending' = pending \ found
        /\ overrides' = IF found = {} THEN overrides ELSE Standing
        /\ served' = Append(served, Row({AnswerKey(o)}, None, 0))
        /\ UNCHANGED <<setup, now, budgets, shieldUntil, orders, restarts, scaled>>

\* The gate's timer.
TimeOut(e) ==
    /\ pending' = pending \ {e}
    /\ UNCHANGED <<setup, now, buckets, budgets, overrides, shieldUntil, requests,
                   orders, restarts, served, scaled>>

\* The guard forgets everything, the gate restores what has not expired.
Restart ==
    /\ restarts < setup.restarts /\ restarts' = restarts + 1
    /\ buckets' = [k \in Keys |-> <<>>]
    /\ budgets' = [s \in Sessions |-> <<>>]
    /\ overrides' = [s \in Sessions |-> None]
    /\ shieldUntil' = 0
    /\ pending' \in SUBSET pending
    /\ served' = <<>>
    /\ UNCHANGED <<setup, now, requests, orders, scaled>>

-----------------------------------------------------------------------------
(* Orders of the operator, and time.                                       *)

Order == orders < setup.orders /\ orders' = orders + 1

Idle == UNCHANGED <<setup, now, buckets, budgets, pending, requests, restarts, served>>

\* setShieldMode(true, now, length)
ShieldOn(length) ==
    /\ Order /\ shieldUntil' = now + Largest(LeastShield, length)
    /\ Idle /\ UNCHANGED <<overrides, scaled>>

\* setShieldMode(false)
ShieldOff ==
    /\ shieldUntil' = 0
    /\ Idle /\ UNCHANGED <<overrides, orders, scaled>>

\* A factor is held between a half and three.
Held(factor) == IF factor < 50 THEN 50 ELSE IF factor > 300 THEN 300 ELSE factor

SetOverride(s, factor, length) ==
    /\ Order
    /\ overrides' = [overrides EXCEPT ![s] =
            [factor |-> Held(factor), until |-> now + Largest(LeastOverride, length)]]
    /\ scaled' = scaled \cup {s}
    /\ Idle /\ UNCHANGED shieldUntil

ClearOverride(s) ==
    /\ overrides' = [overrides EXCEPT ![s] = None]
    /\ Idle /\ UNCHANGED <<shieldUntil, orders, scaled>>

\* The dashboard reads the guard's telemetry.
Snapshot ==
    /\ overrides' = Standing /\ overrides' # overrides
    /\ UNCHANGED <<setup, now, buckets, budgets, shieldUntil, pending, requests,
                   orders, restarts, served, scaled>>

Tick ==
    /\ now < MaxTime /\ now' = now + 1
    /\ UNCHANGED <<setup, buckets, budgets, overrides, shieldUntil, pending,
                   requests, orders, restarts, served, scaled>>

-----------------------------------------------------------------------------
Init ==
    /\ setup \in Setups
    /\ now = 1
    /\ buckets = [k \in Keys |-> <<>>]
    /\ budgets = [s \in Sessions |-> <<>>]
    /\ overrides = [s \in Sessions |-> None]
    /\ shieldUntil = 0
    /\ pending = {}
    /\ requests = 0 /\ orders = 0 /\ restarts = 0
    /\ served = <<>> /\ scaled = {}

Evaluate(c) ==
    EvaluateFlooded(c) \/ EvaluateToolFlooded(c) \/ EvaluateOverBudget(c) \/ EvaluateServed(c)

Ask(a) == AskCrowded(a) \/ AskFlooded(a) \/ AskOverBudget(a) \/ AskServed(a)

Next ==
    \/ \E c \in setup.calls : Evaluate(c)
    \/ \E a \in setup.asks : Ask(a)
    \/ \E o \in setup.operators : AnswerFlooded(o)
    \/ \E o \in setup.operators, id \in 1 .. requests : Answer(o, id)
    \/ \E e \in pending : TimeOut(e)
    \/ Restart
    \/ \E length \in setup.lengths : ShieldOn(length)
    \/ ShieldOff
    \/ \E scaling \in setup.scalings, length \in setup.lengths :
            SetOverride(scaling[1], scaling[2], length)
    \/ \E s \in Sessions : ClearOverride(s)
    \/ Snapshot
    \/ Tick

Spec == Init /\ [][Next]_vars

-----------------------------------------------------------------------------
(* Properties.                                                             *)

\* Buckets hold times in order, an override's factor is between a half and
\* three, an entry was asked for.
TypeOK ==
    /\ setup \in Setups
    /\ now \in 1 .. MaxTime
    /\ \A k \in Keys : \A i \in DOMAIN buckets[k] :
            buckets[k][i] \in 1 .. now /\ (i > 1 => buckets[k][i - 1] <= buckets[k][i])
    /\ \A s \in Sessions : \A i \in DOMAIN budgets[s] :
            budgets[s][i].at \in 1 .. now /\ budgets[s][i].units \in Nat \ {0}
    /\ \A s \in Sessions :
            overrides[s] = None \/ overrides[s] \in [factor : 50 .. 300, until : Nat]
    /\ shieldUntil \in Nat
    /\ pending \subseteq [id : 1 .. requests, session : Sessions, named : BOOLEAN,
                          risk : Risks, shield : BOOLEAN]
    /\ requests \in 0 .. setup.requests /\ orders \in 0 .. setup.orders
    /\ restarts \in 0 .. setup.restarts
    /\ scaled \subseteq Sessions

\* What the limits allow at the time of a row.
Ceiling(row, name) ==
    LET base == IF row.shield THEN Scaled(Limits[name], ShieldFactor[name]) ELSE Limits[name]
    IN  IF row.factor = None THEN base ELSE Scaled(base, row.factor)

\* The rows up to the i-th that a window ending with it holds.
Before(i, length) == {j \in 1 .. i : served[j].at + length > served[i].at}

\* However requests, refusals, shields and overrides follow each other, no
\* minute lets more requests of a session, calls of a tool, approval requests
\* or answers of an operator through than the limit in force at its last one
\* (consumeWithinWindow, getSessionLimit).
RateHolds ==
    \A i \in DOMAIN served : \A k \in served[i].keys :
        Cardinality({j \in Before(i, Window) : k \in served[j].keys})
            <= Ceiling(served[i], k[1])

\* Both routes charge one budget: what a session was let through for in an
\* hour costs no more than the budget in force at its last request
\* (consumeBudget).
BudgetHolds ==
    \A i \in DOMAIN served : served[i].payer # None =>
        MapThenSumSet(LAMBDA j : served[j].units,
                      {j \in Before(i, Hour) : served[j].payer = served[i].payer})
            <= Ceiling(served[i], "budget")

\* The queue never exceeds its global cap, whatever a shield, an override or a
\* restart with a restored queue does (approvalRequest, the global check).
QueueWithinCap == Cardinality(pending) <= Limits["queue"]

\* Nor does a named session's share of it exceed the session's cap, unless an
\* operator raised it.
LaneWithinCap ==
    \A s \in Sessions \ scaled : Cardinality(InLane(s)) <= Limits["lane"]

\* Shield mode keeps room for risky requests: the low-risk ones it let in never
\* fill more of its queue than the bar, whichever session they come from.
RiskyKeepRoom ==
    LET low == {e \in pending : e.shield /\ e.risk = "low"}
        cap == Scaled(Limits["queue"], ShieldFactor["queue"])
    IN  low # {} => (Cardinality(low) - 1) * 100 < PressureBar * cap

\* The queue's three promises together.
QueueHolds == QueueWithinCap /\ LaneWithinCap /\ RiskyKeepRoom

\* A caller refused because a bucket is exactly full is told to wait long
\* enough: under the limits as they are, the bucket has room again when the
\* hint has passed (consumeWithinWindow, retryAfterMs; the routes round up).
HintIsEnough ==
    \A k \in Keys :
        LET limit == IF k[1] = "answer" THEN Limit("answer")
                     ELSE SessionLimit(IF k[1] = "tool" THEN k[2][1] ELSE k[2], k[1])
        IN  Len(Fresh(k)) = limit =>
              Cardinality({i \in DOMAIN buckets[k] :
                              buckets[k][i] + Window > now + RetryAfter(k)}) < limit

\* The guard lets through no more than its windows hold, and tells a refused
\* caller a wait after which there is room.
LimitsHold == RateHolds /\ BudgetHolds /\ HintIsEnough

\* Not so: a request without a session id is counted for no session
\* (routes/approval.ts:48 compares with an id the gate did not store).
EveryLaneWithinCap ==
    \A s \in Sessions \ scaled :
        Cardinality({e \in pending : e.session = s}) <= Limits["lane"]
=============================================================================
