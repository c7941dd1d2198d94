---------------------------- MODULE ForwardProxy ----------------------------
(***************************************************************************)
(* Connections through proxy/forward-proxy.ts, judged by EgressGate: a     *)
(* plaintext HTTP exchange is decided up to three times (destination,      *)
(* request body, response) and a CONNECT tunnel once, and once more when   *)
(* its ClientHello names another host.  Each files one record, which       *)
(* settles its bytes (index.ts, recordEgress).                             *)
(*                                                                         *)
(* A step is what one callback does.  Socket events arrive in any order.   *)
(***************************************************************************)
EXTENDS EgressGate

CONSTANTS
    HttpConns,      \* connections that carry one plaintext exchange
    TunnelConns,    \* connections that ask for a tunnel
    AnswersDie      \* TRUE when a destination may hang up inside a response

ASSUME ForwardAssumption ==
    HttpConns \cap TunnelConns = {} /\ AnswersDie \in BOOLEAN

Conns == HttpConns \cup TunnelConns

VARIABLE conn       \* per connection, the closure of its handler

vars == <<lockVars, gateVars, conn>>

\* up: the destination's socket.  seen: bodyVisibility.  whole: ghost, every body
\* read so far was read to its end.  at: ghost, when it was admitted.  sent, got:
\* ghosts, bytes went upstream, downstream.  early: the client left while the
\* peek held its bytes.  refused: the pass that refused, 0 for none.
NewConn == [kind |-> "none", state |-> "new", agent |-> Nobody, ticket |-> 0, at |-> 0,
            up |-> "none", head |-> "none", early |-> FALSE,
            seen |-> "unread", whole |-> TRUE, sent |-> 0, got |-> 0,
            refused |-> 0, filed |-> 0]

Is(c, kind, states) == conn[c].kind = kind /\ conn[c].state \in states

\* finish: one record, however many exits reach it.
Filed(k) == [k EXCEPT !.state = "done", !.filed = IF @ = 0 THEN 1 ELSE @,
                     !.head = "none", !.early = FALSE]

\* The record settles the connection's bytes if it was charged (recordEgress).
SettleRecord(k) ==
    IF k.filed = 0 /\ k.ticket # 0 THEN Settle(k.agent, k.ticket, k.sent + k.got)
    ELSE NoCharge

\* finish() with the closure as it stands in k, the destination's socket closed.
Finish(c, k) ==
    /\ conn' = [conn EXCEPT ![c] = Filed([k EXCEPT !.up = IF @ = "none" THEN @ ELSE "closed"])]
    /\ SettleRecord(k)

Goes(c, k) == conn' = [conn EXCEPT ![c] = k] /\ NoCharge

Static == UNCHANGED <<lockVars, setup, now>>

\* observed: the weakest visibility any pass achieved.
Weakness == [unread |-> 4, stream |-> 1, partial |-> 2, plaintext |-> 3]
Observed(k, level, whole) ==
    [k EXCEPT !.seen = IF Weakness[level] < Weakness[@] THEN level ELSE @,
              !.whole = @ /\ whole]

-----------------------------------------------------------------------------
(* The first pass, of either kind.                                         *)

\* decide(event): a refusal opens nothing and charges nothing; netConnect follows
\* an allowed CONNECT at once.
Open(c, kind, a, head, sight) ==
    /\ Static
    /\ conn[c].kind = "none"
    /\ LET k == [conn[c] EXCEPT !.kind = kind, !.agent = a, !.head = head]
       IN  \/ /\ ~Allows(a, sight, FALSE)
              /\ Finish(c, [k EXCEPT !.refused = 1])
           \/ /\ Allows(a, sight, FALSE)
              /\ Charge(a)
              /\ conn' = [conn EXCEPT ![c] =
                    [k EXCEPT !.state = IF kind = "http" THEN "body" ELSE "connecting",
                              !.up = IF kind = "http" THEN "none" ELSE "open",
                              !.ticket = TicketOf(a), !.at = IF a \in Agents THEN now ELSE 0]]

HttpOpen(c, a, sight) == Open(c, "http", a, "none", sight)
TunnelOpen(c, a, head, sight) == Open(c, "tunnel", a, head, sight)

-----------------------------------------------------------------------------
(* The HTTP exchange.                                                      *)

\* The request body has ended, reached the cap or gone quiet: second pass, then
\* forward.
HttpBody(c, whole, sight) ==
    /\ Static
    /\ Is(c, "http", {"body"})
    /\ LET k == Observed(conn[c], IF whole THEN "plaintext" ELSE "partial", whole) IN
         \/ ~Allows(k.agent, sight, TRUE) /\ Finish(c, [k EXCEPT !.refused = 2])
         \/ Allows(k.agent, sight, TRUE)
            /\ Goes(c, [k EXCEPT !.state = "sent", !.up = "open", !.sent = 1])

\* The response headers: a body to buffer, or an event stream, decided on now.
HttpHeaders(c) ==
    /\ Static
    /\ Is(c, "http", {"sent"})
    /\ Goes(c, [conn[c] EXCEPT !.state = "answer"])
HttpEventStream(c, sight) ==
    /\ Static
    /\ Is(c, "http", {"sent"})
    /\ LET k == Observed(conn[c], "stream", FALSE) IN
         \/ ~Allows(k.agent, sight, TRUE) /\ Finish(c, [k EXCEPT !.refused = 3])
         \/ Allows(k.agent, sight, TRUE) /\ Goes(c, [k EXCEPT !.state = "stream", !.got = 1])

\* The response body: ended, cut at the cap or a stall, or cut off by the
\* destination, which readBoundedBody reports like an end.  Third pass, then
\* relay: all of it, or what was read with the rest still to come.
HttpAnswer(c, how, sight) ==
    /\ Static
    /\ Is(c, "http", {"answer"})
    /\ how = "died" => AnswersDie
    /\ LET k == Observed(conn[c], IF how = "cut" THEN "partial" ELSE "plaintext", how = "ended") IN
         \/ ~Allows(k.agent, sight, TRUE) /\ Finish(c, [k EXCEPT !.refused = 3])
         \/ /\ Allows(k.agent, sight, TRUE)
            /\ IF how = "cut" THEN Goes(c, [k EXCEPT !.state = "stream", !.got = 1])
               ELSE Finish(c, [k EXCEPT !.got = 1])

\* The relayed rest ends ('end'), or its destination hangs up inside it: no 'end'
\* then, and nobody else calls finish.
HttpStreamEnds(c) == Static /\ Is(c, "http", {"stream"}) /\ conn[c].up = "open" /\ Finish(c, conn[c])
HttpStreamDies(c) ==
    /\ Static
    /\ Is(c, "http", {"stream"}) /\ conn[c].up = "open"
    /\ Goes(c, [conn[c] EXCEPT !.up = "closed"])

\* 'error' on the outbound request: 502, or the end of what was begun.
HttpUpstreamError(c) ==
    /\ Static
    /\ Is(c, "http", {"sent", "answer", "stream"}) /\ conn[c].up = "open"
    /\ Finish(c, conn[c])

\* 'aborted' on the request or 'close' on the response: abandon.
HttpClientLeaves(c) ==
    /\ Static
    /\ Is(c, "http", {"body", "sent", "answer", "stream"})
    /\ Finish(c, conn[c])

-----------------------------------------------------------------------------
(* The CONNECT tunnel.                                                     *)

\* release(null): no name was read; hand the tunnel over, what the peek held
\* first.
HandOver(c, k) == Goes(c, [k EXCEPT !.state = "pipe", !.sent = IF k.head = "none" THEN @ ELSE 1])

\* Mutant: the hello goes upstream before its name is checked.
ReleaseNamedLate(c, other, sight) ==
    LET k == [conn[c] EXCEPT !.sent = 1] IN
    \/ /\ other /\ ~Allows(k.agent, sight, TRUE)
       /\ Finish(c, [k EXCEPT !.refused = 2])
    \/ /\ ~other \/ Allows(k.agent, sight, TRUE)
       /\ HandOver(c, [k EXCEPT !.head = "hello"])

\* release(sni): a hello that names another host than the CONNECT line is decided
\* on again, and a refusal destroys both sockets with the hello unsent.
ReleaseNamed(c, other, sight) ==
    LET k == [conn[c] EXCEPT !.head = "hello"] IN
    \/ /\ other /\ ~Allows(k.agent, sight, TRUE)
       /\ Finish(c, [k EXCEPT !.refused = 2])
    \/ /\ ~other \/ Allows(k.agent, sight, TRUE)
       /\ HandOver(c, k)

\* The destination answers.  A hello pipelined with the CONNECT is whole already.
TunnelConnected(c, other, sight) ==
    /\ Static
    /\ Is(c, "tunnel", {"connecting"})
    /\ IF conn[c].head = "hello" THEN ReleaseNamed(c, other, sight)
       ELSE Goes(c, [conn[c] EXCEPT !.state = "peek"])

\* The rest of the hello arrives.
TunnelHello(c, other, sight) ==
    /\ Static
    /\ Is(c, "tunnel", {"peek"}) /\ ~conn[c].early
    /\ ReleaseNamed(c, other, sight)

\* The peek timer, or a first record that is no hello.
TunnelPeekOver(c) == Static /\ Is(c, "tunnel", {"peek"}) /\ HandOver(c, conn[c])

TunnelTraffic(c) ==
    /\ Static
    /\ Is(c, "tunnel", {"pipe"}) /\ ~conn[c].early
    /\ Goes(c, [conn[c] EXCEPT !.sent = 1, !.got = 1])

\* The client's socket closes.  While the peek still holds bytes that came with
\* the CONNECT the teardown is put off: 'end' came before the peek listened for
\* it.  A client that leaves during the peek hands over what it sent.
TunnelClientLeaves(c) ==
    /\ Static
    /\ Is(c, "tunnel", {"connecting", "peek", "pipe"}) /\ ~conn[c].early
    /\ LET k == conn[c] IN
         IF k.state = "connecting" /\ k.head # "none" THEN Goes(c, [k EXCEPT !.early = TRUE])
         ELSE Finish(c, [k EXCEPT !.sent = IF k.state = "peek" /\ k.head # "none" THEN 1 ELSE @])

\* Mutant: the deferral without its deadline.
TunnelDeadlineNever(c) == Static /\ Is(c, "tunnel", {"peek"}) /\ conn[c].early /\ UNCHANGED vars

\* The deadline of a deferred teardown.
TunnelDeadline(c) ==
    /\ Static
    /\ Is(c, "tunnel", {"connecting", "peek", "pipe"}) /\ conn[c].early
    /\ Finish(c, conn[c])

\* The destination closes or errs, or is unreachable.
TunnelUpstreamGone(c) ==
    /\ Static
    /\ Is(c, "tunnel", {"connecting", "peek", "pipe"})
    /\ Finish(c, conn[c])

-----------------------------------------------------------------------------

Init == LockdownInit /\ GateInit /\ conn = [c \in Conns |-> NewConn]

HttpNext(c) ==
    \/ \E a \in Principals, s \in Sights : HttpOpen(c, a, s)
    \/ \E whole \in BOOLEAN, s \in Sights : HttpBody(c, whole, s)
    \/ HttpHeaders(c)
    \/ \E s \in Sights : HttpEventStream(c, s)
    \/ \E how \in {"ended", "cut", "died"}, s \in Sights : HttpAnswer(c, how, s)
    \/ HttpStreamEnds(c) \/ HttpStreamDies(c)
    \/ HttpUpstreamError(c) \/ HttpClientLeaves(c)

TunnelNext(c) ==
    \/ \E a \in Principals, head \in {"none", "part", "hello"}, s \in Sights : TunnelOpen(c, a, head, s)
    \/ \E other \in BOOLEAN, s \in Sights : TunnelConnected(c, other, s) \/ TunnelHello(c, other, s)
    \/ TunnelPeekOver(c) \/ TunnelTraffic(c)
    \/ TunnelClientLeaves(c) \/ TunnelDeadline(c) \/ TunnelUpstreamGone(c)

Next ==
    \/ LockdownNext /\ UNCHANGED <<gateVars, conn>>
    \/ Tick /\ UNCHANGED conn
    \/ \E c \in HttpConns : HttpNext(c)
    \/ \E c \in TunnelConns : TunnelNext(c)

Spec == Init /\ [][Next]_vars

\* The poll is an interval timer and the deadline a timer; destinations, clients
\* and operators owe nothing.
FairSpec ==
    /\ Spec
    /\ WF_vars(PollSentinel /\ UNCHANGED <<gateVars, conn>>)
    /\ \A c \in TunnelConns : WF_vars(TunnelDeadline(c))

-----------------------------------------------------------------------------
(* Properties.                                                             *)

Charged(a) == {c \in Conns : conn[c].agent = a /\ conn[c].ticket # 0}

TypeOK ==
    /\ LockdownTypeOK /\ GateTypeOK
    /\ \A c \in Conns :
         /\ conn[c].agent \in Principals
         /\ conn[c].ticket # 0 => conn[c].ticket \in DOMAIN rows[conn[c].agent]
         /\ conn[c].up \in {"none", "open", "closed"}
         /\ conn[c].filed \in 0..1 /\ conn[c].refused \in 0..3

\* In an enforcing mode no window of the configured length ever holds more
\* admissions than maxRequests ("Exact", fleet/budget.ts).
RequestsAreExact ==
    setup.mode # "monitor" =>
        \A a \in Agents, t \in 0..MaxTime :
            Cardinality({c \in Charged(a) : conn[c].at \in t..(t + Window - 1)}) <= setup.requests

\* In an enforcing mode a connection is admitted only while the connections of
\* the window that have ended moved less than maxBytes.
SpentAgentIsRefused ==
    [][\A c \in Conns :
         setup.mode # "monitor" /\ conn[c].ticket = 0 /\ conn'[c].ticket # 0 =>
           MapThenSumSet(LAMBDA d : conn[d].sent + conn[d].got,
                         {d \in Charged(conn'[c].agent) :
                            conn[d].filed = 1 /\ conn[d].at > now - Window}) < setup.bytes]_vars

\* Both ceilings of a budget hold, however connections, their ends and the edges
\* of the window interleave.
BudgetsHold == []RequestsAreExact /\ SpentAgentIsRefused

\* Every connection that was admitted has one row, opened when it was and still
\* open until its record is filed; then its bytes, and no others, are on it.
RowsMatchConnections ==
    \A a \in Agents :
        /\ {conn[c].ticket : c \in Charged(a)} = DOMAIN rows[a]
        /\ Cardinality(Charged(a)) = Len(rows[a])
        /\ \A c \in Charged(a) :
             LET row == rows[a][conn[c].ticket] IN
             /\ row.at = conn[c].at
             /\ (conn[c].ticket \in open[a]) = (conn[c].filed = 0)
             /\ row.bytes = IF conn[c].filed = 0 THEN 0 ELSE conn[c].sent + conn[c].got

\* A connection refused on its first pass costs its agent nothing, and what any
\* pass refused went nowhere: no socket for a destination, no request body or
\* mismatched hello upstream, no response downstream.
RefusedGoesNowhere ==
    \A c \in Conns :
        /\ conn[c].refused = 1 => conn[c].up = "none" /\ conn[c].ticket = 0
        /\ conn[c].refused \in {1, 2} => conn[c].sent = 0
        /\ conn[c].refused # 0 => conn[c].got = 0

\* While the stop is on no pass lets anything through, in any mode: no new
\* connection, no request that was waiting for its body, no response.
StopStopsEveryPass ==
    [][Active => \A c \in Conns :
         /\ conn'[c].ticket = conn[c].ticket
         /\ conn'[c].kind = "http" => conn'[c].sent = conn[c].sent /\ conn'[c].got = conn[c].got
         /\ conn[c].kind = "none" => conn'[c].up = "none"]_vars

\* The stop stops: every pass while it is on, and by its sentinel alone.
StopHolds == StopStopsEveryPass /\ SentinelStops

\* A record is filed only for a connection whose sockets are released: neither
\* side can hold a descriptor that appears in no open connection.
FiledHoldsNothing == \A c \in Conns : conn[c].filed = 1 => conn[c].up # "open"

\* What is filed is closed in both books: the ledger's and the kernel's.
FiledIsClosed == RowsMatchConnections /\ FiledHoldsNothing

\* docs/enforcement.md: "plaintext" is recorded only when every body was read and
\* scanned to its end.
PlaintextMeansWhole ==
    \A c \in Conns : conn[c].filed = 1 /\ conn[c].seen = "plaintext" => conn[c].whole

\* What the record of a connection says of it is true: closed when filed, nothing
\* sent when refused, read whole when it says plaintext.
RecordsAreTrue == FiledIsClosed /\ RefusedGoesNowhere /\ PlaintextMeansWhole

\* A client that goes away while the peek holds its bytes still ends its
\* connection: the record is filed and the descriptor released, whatever the
\* destination does.
EarlyLeaverIsFiled == \A c \in TunnelConns : conn[c].early ~> conn[c].filed = 1

\* Code comments, fleet/budget.ts and enforcement.ts: a denied connection costs
\* nothing.
DeniedCostsNothing == \A c \in Conns : conn[c].refused # 0 => conn[c].ticket = 0

\* Code comment, forward-proxy.ts: every exit of an exchange files its record, an
\* upstream failure included.
UpstreamFailureIsFiled ==
    \A c \in Conns : (conn[c].state = "stream" /\ conn[c].up = "closed") ~> conn[c].filed = 1

=============================================================================
