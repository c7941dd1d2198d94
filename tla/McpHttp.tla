------------------------------ MODULE McpHttp ------------------------------
(***************************************************************************)
(* The Streamable HTTP listener in front of a remote MCP server            *)
(* (mcp/http.ts), with what it makes of the wrapper's session: several     *)
(* exchanges run at once through one pair of interceptors, and each one    *)
(* can lose its client or its upstream at any step.                        *)
(*                                                                         *)
(* An interceptor answers within the tick, so the frames of a request, an  *)
(* event or a body are judged in one step.  A verdict is any verdict.      *)
(* Clients number their requests apart, an upstream answers what it was    *)
(* asked at most once, and a tools/list has one page (McpSession has the   *)
(* cursors and the baseline).                                              *)
(***************************************************************************)
EXTENDS Integers, Sequences, FiniteSets, SequencesExt, Sums

CONSTANTS
    Exchanges,      \* HTTP requests to the listener
    Runs,           \* what a run starts with: [bodies, answers, may]
                    \*   bodies: per exchange, what its client may post; a body is
                    \*     [shape, frames], frames are [id, kind]
                    \*   answers: what an upstream may put in one event or body,
                    \*     beside the answers to what it was asked
                    \*   may: bound, how many times a client leaves or slows down
    MaxEvents,      \* bound: frames in one stream
    MaxListings,    \* inventories kept open (MAX_TRACKED_REQUESTS, 512 in the code)
    Null            \* no id

\* What the wrapped server sends that is no frame, and a frame with no id.
Junk == [id |-> Null, kind |-> "junk"]
Note == [id |-> Null, kind |-> "note"]
Get == [shape |-> "get", frames |-> <<>>]

Frames == UNION {Range(b.frames) : b \in UNION {u.bodies[x] : u \in Runs, x \in Exchanges}}
Ids == {f.id : f \in Frames} \ {Null}

\* The requests a body makes.
IdsOf(b) == {b.frames[i].id : i \in DOMAIN b.frames} \ {Null}

ASSUME HttpAssumption ==
    /\ MaxListings \in Nat \ {0} /\ MaxEvents \in Nat
    /\ \A f \in Frames : f.kind \in {"list", "call", "note"} /\ (f.id = Null <=> f.kind = "note")
    /\ \A u \in Runs : u.answers \subseteq {Junk, Note} /\ u.may \in Nat
    \* Clients number their requests apart, within a batch and across exchanges.
    /\ \A u \in Runs, x \in Exchanges : \A b \in u.bodies[x] :
         /\ b.frames \in Seq(Frames)
         /\ \A i, j \in DOMAIN b.frames :
              b.frames[i].id = b.frames[j].id /\ b.frames[i].id # Null => i = j
         /\ \A y \in Exchanges \ {x} : \A c \in u.bodies[y] : IdsOf(b) \cap IdsOf(c) = {}

VARIABLES
    run,
    stage,      \* where an exchange's handler is
    body,       \* what its client posted
    refused,    \* the ids of the requests that did not
    got,        \* history: what the upstream was sent
    link,       \* its upstream connection: "none", "open" or "gone"
    hooked,     \* its res has the "close" listener that destroys the upstream
    waiting,    \* its pump waits for "drain"
    left,       \* its client has hung up
    answered,   \* the ids its upstream has answered
    out,        \* what its client was sent: [id, kind]
    status,     \* its HTTP status, 0 for none yet
    open,       \* inventorySequences: the listings that wait for a page
    recorded,   \* an inventory was recorded as the recorded one
    closed,     \* close() was called
    moves       \* times a client left or slowed down

session == <<open, recorded>>
request == <<body, refused, got>>
httpVars == <<run, stage, request, link, hooked, waiting, left, answered, out, status,
              session, closed, moves>>

Stages == {"idle", "call", "stream", "body", "stuck", "done"}
Sent == [id : Ids \cup {Null}, kind : {"answer", "error", "note"}]

HttpTypeOK ==
    /\ run \in Runs
    /\ stage \in [Exchanges -> Stages]
    /\ \A x \in Exchanges :
         /\ body[x] \in run.bodies[x] \cup {Get}
         /\ refused[x] \in Seq(Ids) /\ got[x] \in Seq(Frames)
         /\ out[x] \in Seq(Sent)
    /\ link \in [Exchanges -> {"none", "open", "gone"}]
    /\ hooked \in [Exchanges -> BOOLEAN] /\ waiting \in [Exchanges -> BOOLEAN]
    /\ left \in [Exchanges -> BOOLEAN] /\ closed \in BOOLEAN /\ recorded \in BOOLEAN
    /\ answered \in [Exchanges -> SUBSET Ids]
    /\ open \subseteq Ids /\ moves \in 0 .. run.may

HttpInit ==
    /\ run \in Runs
    /\ stage = [x \in Exchanges |-> "idle"]
    /\ body = [x \in Exchanges |-> Get]
    /\ refused = [x \in Exchanges |-> <<>>]
    /\ got = [x \in Exchanges |-> <<>>]
    /\ link = [x \in Exchanges |-> "none"]
    /\ hooked = [x \in Exchanges |-> FALSE]
    /\ waiting = [x \in Exchanges |-> FALSE]
    /\ left = [x \in Exchanges |-> FALSE]
    /\ answered = [x \in Exchanges |-> {}]
    /\ out = [x \in Exchanges |-> <<>>]
    /\ status = [x \in Exchanges |-> 0]
    /\ open = {} /\ recorded = FALSE /\ closed = FALSE /\ moves = 0

-----------------------------------------------------------------------------
(* Writing to the client.                                                  *)

Told(id) == [id |-> id, kind |-> "error"]
Errors(ids) == [i \in DOMAIN ids |-> Told(ids[i])]

\* A write to a response whose client is gone is dropped (writeChunk, res.end).
Write(x, said) == out' = IF left[x] THEN out ELSE [out EXCEPT ![x] = @ \o said]

\* res.end: the handler is through.
End(x) == stage' = [stage EXCEPT ![x] = "done"]

\* respondJson and refuse: a status and a body end the exchange.
Respond(x, code, said) ==
    End(x) /\ Write(x, said) /\ status' = [status EXCEPT ![x] = code]

-----------------------------------------------------------------------------
(* The client's half: createServer's handler, handlePost, handleBodilessMethod. *)

\* A request that is not read: its method, its token or its Host is not accepted
\* (405, 401, 403), or it is a GET with a body (400).
Refuse(x) ==
    /\ stage[x] = "idle" /\ ~closed
    /\ Respond(x, 403, <<Told(Null)>>)
    /\ UNCHANGED <<run, request, link, hooked, waiting, left, answered, session, closed, moves>>

\* A body over the ceiling (413) or one that does not parse (400); the body of a
\* client that goes away while it is read counts as an empty one.
RefuseBody(x, gone) ==
    /\ stage[x] = "idle" /\ ~closed
    /\ IF gone THEN End(x) /\ status' = [status EXCEPT ![x] = 400] /\ UNCHANGED out
               ELSE \E code \in {400, 413} : Respond(x, code, <<Told(Null)>>)
    /\ left' = [left EXCEPT ![x] = gone]
    /\ UNCHANGED <<run, request, link, hooked, waiting, answered, session, closed, moves>>

\* GET and DELETE go to the upstream at once: there is nothing to judge.
OpenStream(x) ==
    /\ stage[x] = "idle" /\ ~closed /\ Get \in run.bodies[x]
    /\ stage' = [stage EXCEPT ![x] = "call"]
    /\ link' = [link EXCEPT ![x] = "open"]
    /\ UNCHANGED <<run, request, hooked, waiting, left, answered, out, status, session,
                   closed, moves>>

\* Mutant: a refused tools/list leaves its listing behind.
OpenedAnyway(b, passed) == {b.frames[i].id : i \in {j \in DOMAIN b.frames : b.frames[j].kind = "list"}}

\* handleFrame on a client's frames: a tools/list that passes opens a listing.
Opened(b, passed) == {b.frames[i].id : i \in {j \in passed : b.frames[j].kind = "list"}}

\* The frames at these places can pass: at the limit of open listings, those of
\* the frames before counted in, a tools/list is refused whatever the verdict.
Fits(b, passed) ==
    \A i \in passed : b.frames[i].kind = "list" =>
        Cardinality(open \cup Opened(b, {j \in passed : j < i})) < MaxListings

\* The ids of the requests at these places.
IdsAt(b, places) ==
    LET asked == Kept(b.frames, {i \in places : b.frames[i].id # Null})
    IN  [n \in DOMAIN asked |-> asked[n].id]

\* Mutant: the upstream gets the body as it was posted.
SendAll(b, passed) == b.frames

\* The upstream request's body: the frames that passed, in order.
SendPassed(b, passed) == Kept(b.frames, passed)

\* Every frame of a body goes through the interceptor.  The upstream is called
\* with those that passed, or there are none and the client is answered here.
Post(x, b, passed) ==
    LET held == IdsAt(b, DOMAIN b.frames \ passed)
    IN  /\ stage[x] = "idle" /\ ~closed
        /\ Fits(b, passed)
        /\ body' = [body EXCEPT ![x] = b]
        /\ refused' = [refused EXCEPT ![x] = held]
        /\ open' = open \cup Opened(b, passed)
        /\ \/ /\ passed # {}
              /\ stage' = [stage EXCEPT ![x] = "call"]
              /\ link' = [link EXCEPT ![x] = "open"]
              /\ got' = [got EXCEPT ![x] = SendPassed(b, passed)]
              /\ UNCHANGED <<out, status>>
           \/ /\ passed = {}
              /\ Respond(x, IF held = <<>> THEN 202 ELSE 200, Errors(held))
              /\ UNCHANGED <<got, link>>
        /\ UNCHANGED <<run, hooked, waiting, left, answered, recorded, closed, moves>>

-----------------------------------------------------------------------------
(* The upstream's half.                                                    *)

Asked(x) == {f.id : f \in Range(got[x])} \ {Null}
Listed(x) == {f.id : f \in {g \in Range(got[x]) : g.kind = "list"}}

\* callUpstream rejects: no connection, or no headers within 30 s.
Unreachable(x) ==
    /\ stage[x] = "call"
    /\ Respond(x, 502, <<Told(Null)>>)
    /\ link' = [link EXCEPT ![x] = "gone"]
    /\ UNCHANGED <<run, request, hooked, waiting, left, answered, session, closed, moves>>

\* Response headers.  The "close" listener is set only now; a stream first gets
\* the errors of the frames that were refused.
Headers(x, kind) ==
    /\ stage[x] = "call" /\ kind \in {"stream", "body"}
    /\ stage' = [stage EXCEPT ![x] = kind]
    /\ hooked' = [hooked EXCEPT ![x] = TRUE]
    /\ IF kind = "stream" THEN Write(x, Errors(refused[x])) /\ status' = [status EXCEPT ![x] = 200]
                          ELSE UNCHANGED <<out, status>>
    /\ UNCHANGED <<run, request, link, waiting, left, answered, session, closed, moves>>

\* What an upstream may put in one event or one body: answers it owes, and others.
Entries(x) == [id : Asked(x) \ answered[x], kind : {"answer"}] \cup run.answers
EntryLists(x) == {<<e>> : e \in Entries(x)}
                   \cup {<<e, f>> : e, f \in {g \in Entries(x) : Cardinality(Entries(x)) > 1}}
Distinct(es) == \A i, j \in DOMAIN es : i # j /\ es[i].id # Null => es[i] # es[j]
AnswersIn(es, seen) == {es[i].id : i \in {j \in seen : es[j].kind = "answer"}}

\* The entries the interceptor sees before the first that stops it.
FirstBad(es, bad) == CHOOSE i \in bad : \A j \in bad : i <= j

\* handleFrame on the server's frames at indices `seen`: an answered listing is
\* closed, and one that passes is recorded as the session's inventory.
Judged(x, es, seen, refusals) ==
    LET lists(is) == {es[i].id : i \in {j \in is : es[j].id \in Listed(x)}}
    IN  /\ open' = open \ lists(seen)
        /\ recorded' = (recorded \/ lists(seen \ refusals) # {})

\* A refused event or one that cannot be read ends the stream, with an error.
StreamStops(x, es, stop) ==
    /\ Write(x, <<Told(IF es[stop].kind = "junk" THEN Null ELSE es[stop].id)>>)
    /\ End(x) /\ link' = [link EXCEPT ![x] = "gone"]

\* pumpSse, one event: its entries are judged in order, and go out together if
\* all pass.  The client may be too slow to take it.
StreamEvent(x, es, refusals, slow) ==
    LET bad == {i \in DOMAIN es : es[i].kind = "junk"} \cup refusals
        stop == FirstBad(es, bad)
        seen == {i \in DOMAIN es : es[i].kind # "junk" /\ \A j \in bad : i <= j}
    IN  /\ stage[x] = "stream" /\ ~waiting[x] /\ link[x] = "open"
        /\ Distinct(es) /\ Len(out[x]) < MaxEvents
        /\ answered' = [answered EXCEPT ![x] = @ \cup AnswersIn(es, seen)]
        /\ Judged(x, es, seen, refusals)
        /\ IF bad # {} THEN StreamStops(x, es, stop) ELSE Write(x, es) /\ UNCHANGED <<stage, link>>
        /\ IF slow THEN /\ bad = {} /\ ~left[x] /\ moves < run.may /\ moves' = moves + 1
                        /\ waiting' = [waiting EXCEPT ![x] = TRUE]
                   ELSE UNCHANGED <<waiting, moves>>
        /\ UNCHANGED <<run, request, hooked, left, status, closed>>

\* The client has read enough.
Drain(x) ==
    /\ waiting[x] /\ ~left[x]
    /\ waiting' = [waiting EXCEPT ![x] = FALSE]
    /\ UNCHANGED <<run, stage, request, link, hooked, left, answered, out, status, session,
                   closed, moves>>

\* The upstream ends the stream, or its connection fails.
StreamEnds(x) ==
    /\ stage[x] = "stream" /\ ~waiting[x]
    /\ End(x) /\ link' = [link EXCEPT ![x] = "gone"]
    /\ UNCHANGED <<run, request, hooked, waiting, left, answered, out, status, session,
                   closed, moves>>

\* relayJsonResponse, a body that is not read: over the ceiling, or not JSON.
BodyRefused(x) ==
    /\ stage[x] = "body"
    /\ Respond(x, 502, <<Told(Null)>>)
    /\ link' = [link EXCEPT ![x] = "gone"]
    /\ UNCHANGED <<run, request, hooked, waiting, left, answered, session, closed, moves>>

\* An empty body: the errors of the refused frames are still owed to the client.
BodyEmpty(x) ==
    /\ stage[x] = "body"
    /\ Respond(x, 200, Errors(refused[x]))
    /\ link' = [link EXCEPT ![x] = "gone"]
    /\ UNCHANGED <<run, request, hooked, waiting, left, answered, session, closed, moves>>

\* What goes out for the entries of a body: each itself, an error on its id when
\* it was refused, or nothing when it has none.
Relayed(es, refusals) ==
    Kept([i \in DOMAIN es |-> IF i \in refusals THEN Told(es[i].id) ELSE es[i]],
         {i \in DOMAIN es : i \notin refusals \/ es[i].id # Null})

\* relayJsonResponse on a body of frames.  One that is no frame refuses the
\* whole answer; the frames before it have been judged by then.
Body(x, es, refusals) ==
    LET junk == {i \in DOMAIN es : es[i].kind = "junk"}
        seen == {i \in DOMAIN es : es[i].kind # "junk" /\ \A j \in junk : i < j}
    IN  /\ stage[x] = "body" /\ Distinct(es)
        /\ answered' = [answered EXCEPT ![x] = @ \cup AnswersIn(es, seen)]
        /\ Judged(x, es, seen, refusals)
        /\ IF junk # {} THEN Respond(x, 502, <<Told(Null)>>)
             ELSE Respond(x, 200, Errors(refused[x]) \o Relayed(es, refusals))
        /\ link' = [link EXCEPT ![x] = "gone"]
        /\ UNCHANGED <<run, request, hooked, waiting, left, closed, moves>>

-----------------------------------------------------------------------------
(* Departures.                                                             *)

\* res "close": with the listener set, the upstream is destroyed, and the
\* handler sees its stream or body end.  A pump in writeChunk waits for good.
DropUpstream(x) ==
    IF hooked[x]
      THEN /\ link' = [link EXCEPT ![x] = "gone"]
           /\ stage' = [stage EXCEPT ![x] = IF waiting[x] THEN "stuck" ELSE "done"]
      ELSE UNCHANGED <<link, stage>>

ClientLeaves(x) ==
    /\ stage[x] \in {"call", "stream", "body"} /\ ~left[x]
    /\ moves < run.may /\ moves' = moves + 1
    /\ left' = [left EXCEPT ![x] = TRUE]
    /\ DropUpstream(x)
    /\ UNCHANGED <<run, request, hooked, waiting, answered, out, status, session, closed>>

\* close(): every upstream request and every client connection is destroyed.
Close ==
    /\ ~closed /\ closed' = TRUE
    /\ link' = [x \in Exchanges |-> IF link[x] = "open" THEN "gone" ELSE link[x]]
    /\ left' = [x \in Exchanges |-> left[x] \/ stage[x] \in {"call", "stream", "body"}]
    /\ stage' = [x \in Exchanges |-> IF stage[x] \in {"idle", "done"} THEN stage[x]
                                     ELSE IF waiting[x] THEN "stuck" ELSE "done"]
    /\ UNCHANGED <<run, request, hooked, waiting, answered, out, status, session, moves>>

HttpNext ==
    \/ \E x \in Exchanges :
         \/ Refuse(x) \/ \E gone \in BOOLEAN : RefuseBody(x, gone)
         \/ OpenStream(x) \/ Unreachable(x) \/ Drain(x) \/ StreamEnds(x)
         \/ BodyRefused(x) \/ BodyEmpty(x) \/ ClientLeaves(x)
         \/ \E b \in run.bodies[x] \ {Get} :
              \E passed \in SUBSET DOMAIN b.frames : Post(x, b, passed)
         \/ \E k \in {"stream", "body"} : Headers(x, k)
         \/ \E es \in EntryLists(x) : \E refusals \in SUBSET DOMAIN es :
              Body(x, es, refusals) \/ \E slow \in BOOLEAN : StreamEvent(x, es, refusals, slow)
    \/ Close

HttpSpec == HttpInit /\ [][HttpNext]_httpVars

-----------------------------------------------------------------------------
(* Properties.                                                             *)

\* A frame of a batch goes up only when every frame of it was judged, and then
\* the upstream gets those that passed, in their order, and no other, whatever
\* happens to the exchange afterwards (http.ts: handlePost).
OnlyPassedTravels ==
    \A x \in Exchanges :
        /\ got[x] # <<>> => Asked(x) = IdsOf(body[x]) \ Range(refused[x])
        /\ \A f, g \in DOMAIN got[x] : f < g =>
             \E i, j \in DOMAIN body[x].frames :
                 i < j /\ got[x][f] = body[x].frames[i] /\ got[x][g] = body[x].frames[j]

Answers(x, id) == Cardinality({i \in DOMAIN out[x] : out[x][i].id = id})
Cut(x) == stage[x] = "done" /\ out[x] # <<>> /\ Last(out[x]).kind = "error"

\* No request is answered twice, and in an exchange that goes well, whose client
\* stays, each one that was refused here is answered with its error and each one
\* the upstream answered with that answer or an error, unless a refused event
\* ended the stream (http.ts: pumpSse, relayJsonResponse).
EachIsAnsweredOnce ==
    \A x \in Exchanges :
        /\ \A id \in Ids : Answers(x, id) <= 1
        /\ status[x] = 200 /\ ~left[x] =>
             /\ \A id \in Range(refused[x]) : Answers(x, id) = 1
             /\ \A id \in answered[x] : Answers(x, id) = 1 \/ Cut(x)

\* A listing is open from the request that went up to the answer that was
\* judged, whatever else runs: none is closed early, and the ones that stay open
\* after their exchange are those no answer came for, which count against the
\* limit for the rest of the session (wrap.ts: inventorySequences; http.ts tells
\* the session nothing of an exchange that failed).
ListingsAreAccounted ==
    open = UNION {Listed(x) \ answered[x] : x \in Exchanges}

\* Exchanges balance: each request is answered once, and each listing opened is
\* ended, whatever the verdicts and whenever the upstream fails.
ExchangesBalance == EachIsAnsweredOnce /\ ListingsAreAccounted

\* docs/mcp.md: "The recorded tool inventory is baselined only from a complete
\* tools/list result that was actually forwarded."  Once an inventory is
\* recorded, some client was sent an answer to its tools/list.
BaselineWasForwarded ==
    recorded => \E x \in Exchanges : \E i \in DOMAIN out[x] :
        out[x][i].kind = "answer" /\ out[x][i].id \in Listed(x)

=============================================================================
