---------------------------- MODULE TlsIntercept ----------------------------
(***************************************************************************)
(* TLS interception (src/src/proxy/tls-intercept.ts, mitm-ca.ts): the      *)
(* local certificate authority and what the server demands of it before it *)
(* starts, one intercepted CONNECT tunnel, and the HTTP exchange inside    *)
(* it.  A body is a number of units; a prefix of it is read, judged and    *)
(* written on, and the rest is piped unread.                               *)
(***************************************************************************)
EXTENDS Integers, Sequences, FiniteSets

CONSTANTS
    Setups,     \* what the operator and the peers may do in a behaviour
    Cap,        \* the inspection cap of one body, in units
    MaxBody     \* bound: the units a sender ever sends of one body

ASSUME InterceptAssumption == Cap \in Nat /\ MaxBody \in Nat

Sides == {"req", "res"}
Decisions == {"allow", "deny"}

VARIABLES
    setup,      \* one member of Setups: [cas, declared, openssl, hosts, kinds]
    files,      \* the CA directory: the key and the certificate on disk, by generation
    trusted,    \* generations installed in the trust store the next process will read
    running,    \* the interceptor: "off", "on" or "refused" (the server did not start)
    minted,     \* names it holds a certificate for, with the generation that signed it
    tunnel,     \* the CONNECT connection
    msg,        \* the two messages of the exchange, as read so far
    ex,         \* the exchange: destination socket, answer, what has been ended
    rows        \* the records filed for the exchange

caVars == <<files, trusted, running, minted>>
exVars == <<msg, ex, rows>>
vars == <<setup, caVars, tunnel, exVars>>

-----------------------------------------------------------------------------
\* The certificate authority.

NoFiles == [key |-> 0, cert |-> 0, wide |-> FALSE, expired |-> FALSE]

\* A spawn that ran to its end: one that failed, was killed or timed out leaves no output.
RunsOpenssl == setup.openssl
\* `agentwall intercept init`: nothing is overwritten; openssl may die after the key.
GenerateCa(gen, reach) ==
    /\ RunsOpenssl /\ files.key = 0 /\ files.cert = 0 /\ gen \in setup.cas
    /\ files' = [NoFiles EXCEPT !.key = gen, !.cert = IF reach = "all" THEN gen ELSE 0,
                                !.wide = reach = "beforeMode"]
    /\ UNCHANGED <<setup, trusted, running, minted, tunnel, exVars>>

\* What a person does to the directory and to the trust store.
OperatorActs ==
    /\ \/ files # NoFiles /\ files' = NoFiles /\ UNCHANGED trusted
       \/ files.wide /\ files' = [files EXCEPT !.wide = FALSE] /\ UNCHANGED trusted
       \/ files.cert # 0 /\ trusted' = trusted \cup {files.cert} /\ UNCHANGED files
    /\ setup.cas # {} /\ UNCHANGED <<setup, running, minted, tunnel, exVars>>
CaExpires ==
    /\ files.cert # 0 /\ setup.cas # {} /\ files' = [files EXCEPT !.expired = TRUE]
    /\ UNCHANGED <<setup, trusted, running, minted, tunnel, exVars>>

Present == files.key # 0 /\ files.cert # 0
Problems == files.wide \/ files.expired
CanSign == RunsOpenssl /\ files.key # 0 /\ files.key = files.cert

\* Resolved before anything is bound; what cannot work refuses the whole start.
Start ==
    /\ running = "off"
    /\ IF RunsOpenssl /\ Present /\ ~Problems /\ CanSign
          /\ (files.cert \in trusted \/ setup.declared)
       THEN running' = "on" /\ minted' = [n \in {"probe"} |-> files.cert]
       ELSE running' = "refused" /\ UNCHANGED minted
    /\ UNCHANGED <<setup, files, trusted, tunnel, exVars>>

\* One certificate for each name, held for the life of the process.
ContextFor(name) ==
    IF name \in DOMAIN minted THEN UNCHANGED minted
    ELSE CanSign /\ minted' = [n \in DOMAIN minted \cup {name} |->
                                 IF n = name THEN files.cert ELSE minted[n]]
Unmintable(name) == name \notin DOMAIN minted /\ (name = "nameless" \/ ~CanSign)

-----------------------------------------------------------------------------
\* One tunnel.  Hosts are "plain" (a name), "pinned" (on bypassHosts) and
\* "nameless" (neither a hostname nor an IPv4 literal).

NewTunnel == [state |-> "new", host |-> "plain", sni |-> "none"]

ShouldIntercept(h) == IF h = "pinned" THEN "bypassed" ELSE IF h = "nameless" THEN "tunneled" ELSE "opened"
Connect(h) ==
    /\ running = "on" /\ tunnel.state = "new" /\ h \in setup.hosts
    /\ LET choice == ShouldIntercept(h)
           cannot == choice = "opened" /\ Unmintable(h)
       IN /\ tunnel' = [tunnel EXCEPT !.host = h, !.state = IF cannot THEN "failed" ELSE choice]
          /\ IF choice = "opened" /\ ~cannot THEN ContextFor(h) ELSE UNCHANGED minted
    /\ UNCHANGED <<setup, files, trusted, running, exVars>>

\* The client's hello, answered with a certificate for the name it asks for.
Hello(name) ==
    /\ tunnel.state = "opened"
    /\ IF name = "none" THEN tunnel' = [tunnel EXCEPT !.state = "secure"] /\ UNCHANGED minted
       ELSE IF Unmintable(name) THEN tunnel' = [tunnel EXCEPT !.state = "failed"] /\ UNCHANGED minted
       ELSE tunnel' = [tunnel EXCEPT !.state = "secure", !.sni = name] /\ ContextFor(name)
    /\ UNCHANGED <<setup, files, trusted, running, exVars>>
HelloFails ==
    /\ tunnel.state = "opened" /\ tunnel' = [tunnel EXCEPT !.state = "failed"]
    /\ UNCHANGED <<setup, caVars, exVars>>

-----------------------------------------------------------------------------
\* The exchange.

\* sent: by its sender; read: the prefix buffered and scanned; held: arrived and
\* not written on; out: written on to the receiver.
NewMessage == [kind |-> "readable", state |-> "idle", sent |-> 0, read |-> 0, held |-> 0, out |-> 0,
               rest |-> FALSE, note |-> FALSE, fin |-> "open", told |-> FALSE]
NewExchange == [up |-> "none", client |-> "here", verdict |-> "none", answer |-> "none",
                ended |-> FALSE, failed |-> FALSE]

Judging(s) == msg[s].state = "draining"
\* Mutant: only an unread remainder makes a prefix.
CoverageByRest(m) == IF m.kind = "opaque" /\ m.read > 0 THEN "none" ELSE IF m.rest THEN "prefix" ELSE "whole"
Coverage(m) == IF m.kind = "opaque" /\ m.read > 0 THEN "none"
               ELSE IF m.rest \/ m.note THEN "prefix" ELSE "whole"
Visibility(m) ==
    IF m.kind = "stream" THEN "stream"
    ELSE CASE Coverage(m) = "whole" -> "intercepted" [] Coverage(m) = "prefix" -> "partial"
           [] OTHER -> "unread"

\* What is not in the table of tls-intercept.ts:709 counts as 0.
Worse(first, second) ==
    LET rank == [intercepted |-> 0, partial |-> 1, stream |-> 2, unread |-> 0]
    IN IF rank[second] > rank[first] THEN second ELSE first

Row(of, decision, vis, up, down) ==
    [of |-> of, decision |-> decision, vis |-> vis, up |-> up, down |-> down]
File(r) == rows' = Append(rows, r)

\* sendBody: the prefix, then the end or the rest.
SentOn(m) == [m EXCEPT !.state = "settled", !.out = m.read, !.told = ~m.rest]
Dropped(m) == [m EXCEPT !.state = "settled", !.held = 0]

\* The request is decided and its row filed before the destination is dialled.
JudgeRequest(m, v, e) ==
    /\ File(Row("req", v, Visibility(m), m.read, 0))
    /\ IF v = "deny"
       THEN /\ msg' = [msg EXCEPT !.req = Dropped(m)]
            /\ ex' = [e EXCEPT !.verdict = v, !.answer = "refused", !.ended = TRUE]
       ELSE /\ msg' = [msg EXCEPT !.req = SentOn(m)]
            /\ ex' = [e EXCEPT !.verdict = v, !.up = "open"]

\* The response is decided before a byte of it reaches the client.  An answer
\* already given (a 502) keeps it from being written and, if allowed, from the ledger.
JudgeResponse(m, v, e) ==
    LET seen == File(Row("res", v, Worse(Visibility(msg.req), Visibility(m)), 0, m.read))
    IN IF v = "deny"
       THEN /\ seen
            /\ msg' = [msg EXCEPT !.res = Dropped(m)]
            /\ ex' = [e EXCEPT !.up = "closed", !.ended = TRUE,
                               !.answer = IF @ = "none" THEN "refused" ELSE @]
       ELSE IF e.answer # "none"
       THEN msg' = [msg EXCEPT !.res = Dropped(m)] /\ ex' = e /\ UNCHANGED rows
       ELSE /\ seen
            /\ msg' = [msg EXCEPT !.res = SentOn(m)]
            /\ ex' = [e EXCEPT !.answer = "relayed", !.ended = ~m.rest]
Judge(s, m, v, e) == IF s = "req" THEN JudgeRequest(m, v, e) ELSE JudgeResponse(m, v, e)

ExStep == UNCHANGED <<setup, caVars, tunnel>>
Speaking(s) == msg[s].fin = "open" /\ (s = "req" => ex.client = "here") /\ (s = "res" => ex.up = "open")

\* The head of a message: a stream is judged and piped at once, never buffered.
Begin(s, kind, v) ==
    /\ msg[s].state = "idle" /\ kind \in setup.kinds /\ ExStep
    /\ IF s = "req" THEN tunnel.state = "secure" /\ ex.client = "here" ELSE ex.up = "open"
    /\ LET m == [msg[s] EXCEPT !.kind = kind, !.state = "draining"]
       IN IF kind = "stream" THEN Judge(s, [m EXCEPT !.rest = TRUE, !.note = TRUE], v, ex)
          ELSE msg' = [msg EXCEPT ![s] = m] /\ UNCHANGED <<ex, rows>>

\* A chunk of c units: what passes the cap is pushed back, and reading stops.
Chunk(s, c, v) ==
    /\ Judging(s) /\ Speaking(s) /\ msg[s].sent + c <= MaxBody /\ ExStep
    /\ LET m == msg[s]
           room == Cap - m.read
       IN IF c >= room
          THEN Judge(s, [m EXCEPT !.sent = @ + c, !.read = Cap, !.held = c - room,
                                  !.rest = TRUE, !.note = TRUE], v, ex)
          ELSE msg' = [msg EXCEPT ![s].sent = @ + c, ![s].read = @ + c] /\ UNCHANGED <<ex, rows>>
\* The sender ends the body while it is being read.
BodyEnds(s, v) ==
    Judging(s) /\ Speaking(s) /\ Judge(s, [msg[s] EXCEPT !.fin = "ended"], v, ex) /\ ExStep
\* Mutant: the timer is armed by the first chunk.
QuietOnceStarted(s, v) ==
    Judging(s) /\ msg[s].read > 0 /\ Judge(s, [msg[s] EXCEPT !.rest = TRUE, !.note = TRUE], v, ex) /\ ExStep
\* One second without a byte: what has arrived is judged, the rest stays open.
Quiet(s, v) == Judging(s) /\ Judge(s, [msg[s] EXCEPT !.rest = TRUE, !.note = TRUE], v, ex) /\ ExStep

\* After the judgement the remainder is piped.
Piping(s) ==
    /\ msg[s].state = "settled" /\ msg[s].rest /\ ~msg[s].told
    /\ IF s = "req" THEN ex.up = "open" ELSE ex.answer = "relayed" /\ ~ex.ended
Pipe(s, c) ==
    /\ Piping(s) /\ ExStep /\ UNCHANGED <<ex, rows>>
    /\ \/ c > 0 /\ Speaking(s) /\ msg[s].sent + c <= MaxBody
          /\ msg' = [msg EXCEPT ![s].sent = @ + c, ![s].out = @ + msg[s].held + c, ![s].held = 0]
       \/ c = 0 /\ msg[s].held > 0
          /\ msg' = [msg EXCEPT ![s].out = @ + msg[s].held, ![s].held = 0]
PipeEnds(s) ==
    /\ Piping(s) /\ ExStep /\ Speaking(s) /\ UNCHANGED rows
    /\ msg' = [msg EXCEPT ![s].out = @ + msg[s].held, ![s].held = 0,
                          ![s].fin = "ended", ![s].told = TRUE]
    /\ ex' = IF s = "res" THEN [ex EXCEPT !.ended = TRUE] ELSE ex

\* The sender's socket goes in the middle of its body.  While it is read, that
\* settles the reading with no rest; once piped, nobody ends the receiver.
Cut(s, v) ==
    /\ ExStep /\ msg[s].state # "idle" /\ (Speaking(s) \/ (s = "res" /\ ex.failed /\ msg.res.fin = "open"))
    /\ LET e == IF s = "req" THEN [ex EXCEPT !.client = "gone"] ELSE [ex EXCEPT !.up = "closed"]
       IN IF Judging(s)
          THEN Judge(s, [msg[s] EXCEPT !.fin = "cut", !.note = TRUE], v, e)
          ELSE msg' = [msg EXCEPT ![s].fin = "cut"] /\ ex' = e /\ UNCHANGED rows

\* The client goes when its request is complete: nothing listens for that.
ClientLeaves ==
    /\ ex.client = "here" /\ tunnel.state = "secure" /\ msg.req.fin = "ended"
    /\ ex' = [ex EXCEPT !.client = "gone"] /\ ExStep /\ UNCHANGED <<msg, rows>>

\* The destination's socket fails, before its response or in the middle of it.
DestinationFails ==
    /\ ex.up = "open" /\ ExStep /\ UNCHANGED msg
    /\ ex' = [ex EXCEPT !.up = "closed", !.failed = TRUE, !.ended = TRUE,
                        !.answer = IF @ = "none" THEN "failed" ELSE @]
    /\ File(Row("fail", ex.verdict, Visibility(msg.req), 0, 0))

-----------------------------------------------------------------------------
Init ==
    /\ setup \in Setups
    /\ files = IF setup.cas = {} THEN [NoFiles EXCEPT !.key = 1, !.cert = 1] ELSE NoFiles
    /\ trusted = IF setup.cas = {} THEN {1} ELSE {}
    /\ running = "off" /\ minted = <<>>
    /\ tunnel = NewTunnel
    /\ msg = [s \in Sides |-> NewMessage] /\ ex = NewExchange /\ rows = <<>>

CaNext ==
    \/ \E gen \in setup.cas, reach \in {"key", "beforeMode", "all"} : GenerateCa(gen, reach)
    \/ OperatorActs \/ CaExpires \/ Start

TunnelNext ==
    \/ \E h \in setup.hosts : Connect(h)
    \/ \E name \in {"none", "plain", "other", "nameless"} : Hello(name)
    \/ HelloFails

ExchangeNext ==
    \/ \E s \in Sides, v \in Decisions :
         \/ \E kind \in setup.kinds : Begin(s, kind, v)
         \/ \E c \in 1..MaxBody : Chunk(s, c, v)
         \/ BodyEnds(s, v) \/ Quiet(s, v) \/ Cut(s, v)
    \/ \E s \in Sides : PipeEnds(s) \/ \E c \in 0..MaxBody : Pipe(s, c)
    \/ ClientLeaves \/ DestinationFails

Next == CaNext \/ TunnelNext \/ ExchangeNext

Spec == Init /\ [][Next]_vars

\* The stall timer is armed with the reading and fires when nobody speaks.
StallFires == \A s \in Sides : WF_vars(\E v \in Decisions : Quiet(s, v))
-----------------------------------------------------------------------------
\* Nothing of a message goes on before that message has been judged: no socket to
\* the destination before the request was allowed and its row filed, no byte to the
\* client before the response was allowed and its row filed (handleInnerRequest,
\* forward), and what was refused stays refused whatever happens afterwards.
JudgedFirst ==
    /\ (ex.up # "none" \/ msg.req.out > 0) => ex.verdict = "allow" /\ rows # <<>> /\ rows[1].of = "req"
    /\ (ex.answer = "relayed" \/ msg.res.out > 0) =>
         \E i \in 2..Len(rows) : rows[i].of = "res" /\ rows[i].decision = "allow"
    /\ \A i \in 1..Len(rows) : rows[i].decision = "deny" =>
         msg[IF rows[i].of = "res" THEN "res" ELSE "req"].out = 0

\* Inspection is bounded, delivery is not (readBody, drain, sendBody): whatever cap,
\* stall or stream type stopped the reading, what arrived is either on its way or
\* delivered, and a receiver told that a body ended in order has all of it.
BodiesWhole ==
    \A s \in Sides :
      /\ msg[s].told /\ msg[s].fin = "ended" => msg[s].out = msg[s].sent
      /\ msg[s].state = "settled" /\ Piping(s) => msg[s].out + msg[s].held = msg[s].sent

\* A row says "intercepted" only when every body it speaks for was read to its own
\* end: capped, stalled, streamed and cut bodies say less (readBody, worseVisibility).
\* What cannot be decoded is the subject of RowSaysTheWeaker.
InterceptedMeansRead ==
    \A i \in 1..Len(rows) : rows[i].vis = "intercepted" =>
      \A s \in (IF rows[i].of = "res" THEN Sides ELSE {"req"}) :
        msg[s].kind # "opaque" => msg[s].fin = "ended" /\ ~msg[s].rest /\ msg[s].read = msg[s].sent

\* An intercepted exchange is judged before it travels, travels whole, and its row
\* says how much of it was read.
InterceptionHolds == JudgedFirst /\ BodiesWhole /\ InterceptedMeansRead

\* A body that goes quiet must not hold inspection open for ever (BODY_STALL_MS): a
\* message whose reading has begun is judged, whoever stops talking.
BodyNeverHolds == \A s \in Sides : Judging(s) ~> ~Judging(s)

\* "A record has to say the weaker thing or it overstates what was seen": no row
\* claims a reading of an exchange one of whose bodies was not readable at all.
RowSaysTheWeaker ==
    \A i \in 1..Len(rows) : rows[i].of = "res" =>
      \A s \in Sides : msg[s].kind = "opaque" /\ msg[s].read > 0 => rows[i].vis \notin {"intercepted", "partial"}
=============================================================================
