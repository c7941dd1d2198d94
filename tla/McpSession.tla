----------------------------- MODULE McpSession -----------------------------
(***************************************************************************)
(* What an MCP wrapper lets a client see of its server's tools: the frame  *)
(* handling of mcp/wrap.ts with the inventory gate of mcp/gates.ts and the *)
(* baseline file of mcp/baseline.ts, which several wrappers share.         *)
(*                                                                         *)
(* A frame is handled to its end before the next one of the same wrapper;  *)
(* only the baseline write of learn mode is a step of its own, because     *)
(* another wrapper may act between the gate's read and that write.  The    *)
(* client and the server keep to JSON-RPC: a request is answered at most   *)
(* once, an id is not used again while its call is open, a cursor is one   *)
(* the server gave, and only tools/list is answered with an inventory.     *)
(* What the scanners and the policy say of a frame is any verdict, and a   *)
(* descriptor is what redaction leaves of it.                              *)
(***************************************************************************)
EXTENDS Integers, Sequences, FiniteSets

CONSTANTS
    ClientIds, ServerIds,   \* JSON-RPC ids each side numbers its requests with
    Cursors, NoCursor,      \* pagination cursors
    Pages,                  \* pages a server may answer: [tools, next]
    Setups,                 \* what a run starts with: [mode, wrappers, store] and
                            \* requests, a bound: how many the clients send
    MaxTracked,             \* calls and inventories kept open (512 in the code)
    MaxEdits,               \* bound: times the baseline file is removed or garbled
    None,                   \* no inventory
    Garbled                 \* a baseline file that does not parse

\* Every tool is [name, body]; an inventory has a name at most once.
Tools == UNION {p.tools : p \in Pages}
OncePerName(tools) == \A t, u \in tools : t.name = u.name => t = u
Inventories == {tools \in SUBSET Tools : OncePerName(tools)}

ASSUME McpAssumption ==
    /\ NoCursor \notin Cursors
    /\ \A p \in Pages : p.next \in Cursors \cup {NoCursor} /\ OncePerName(p.tools)
    /\ None # Garbled /\ \A tools \in Inventories : None # tools /\ Garbled # tools
    /\ \A u \in Setups : /\ u.mode \in {"off", "learn", "lock"}
                         /\ u.store \in {None, Garbled} \cup Inventories
                         /\ u.requests \in Nat
    /\ MaxTracked \in Nat \ {0} /\ MaxEdits \in Nat

VARIABLES
    setup,          \* the mode, the wrappers, the baseline file at first
    store,          \* the baseline file's entry for this server
    calls,          \* inFlight, in insertion order: [id, method, listing]
    listings,       \* inventorySequences: what each open listing has advertised
    cursors,        \* cursorSequences: the listing a cursor continues, 0 for none
    approved,       \* ctx.approvedTools
    learning,       \* the answers, one at most, that wait for their baseline to be written
    owed,           \* client's calls at the server: [id, method, listing, sofar]
    hosted,         \* server's calls the client has not answered
    offered,        \* per cursor, what the client had read when it was given it
    complete,       \* history: the inventories the client of a wrapper read to the end
    sent, edits     \* counters

wrapperVars == <<calls, listings, cursors, approved>>
clientVars == <<owed, offered, complete>>
vars == <<setup, store, calls, listings, cursors, approved, learning, owed,
          hosted, offered, complete, sent, edits>>

Wrappers == UNION {u.wrappers : u \in Setups}
ListingIds == 1 .. MaxTracked
Verdicts == {"pass", "refuse"}
Unknown == [method |-> "unknown", listing |-> 0]

TypeOK ==
    /\ setup \in Setups
    /\ store \in {None, Garbled} \cup Inventories
    /\ \A w \in Wrappers :
         /\ Len(calls[w]) <= MaxTracked
         /\ \A i \in DOMAIN calls[w] : calls[w][i] \in
              [id : ClientIds \cup ServerIds, method : {"list", "call", "ask"},
               listing : ListingIds \cup {0}]
         /\ \A o \in owed[w] : /\ o.id \in ClientIds /\ o.method \in {"list", "call"}
                               /\ o.listing \in ListingIds \cup {0}
                               /\ o.sofar \in Inventories
    /\ listings \in [Wrappers -> [ListingIds -> {None} \cup Inventories]]
    /\ cursors \in [Wrappers -> [Cursors -> ListingIds \cup {0}]]
    /\ approved \in [Wrappers -> {None} \cup Inventories]
    /\ hosted \in [Wrappers -> SUBSET ServerIds]
    /\ offered \in [Wrappers -> [Cursors -> {None} \cup Inventories]]
    /\ complete \in [Wrappers -> SUBSET Inventories]
    /\ sent \in 0 .. setup.requests /\ edits \in 0 .. MaxEdits

Init ==
    /\ setup \in Setups
    /\ store = setup.store
    /\ calls = [w \in Wrappers |-> <<>>]
    /\ listings = [w \in Wrappers |-> [l \in ListingIds |-> None]]
    /\ cursors = [w \in Wrappers |-> [c \in Cursors |-> 0]]
    /\ approved = [w \in Wrappers |-> None]
    /\ learning = [w \in Wrappers |-> {}]
    /\ owed = [w \in Wrappers |-> {}]
    /\ hosted = [w \in Wrappers |-> {}]
    /\ offered = [w \in Wrappers |-> [c \in Cursors |-> None]]
    /\ complete = [w \in Wrappers |-> {}]
    /\ sent = 0 /\ edits = 0

\* A frame of w can be handled.
Ready(w) == w \in setup.wrappers /\ learning[w] = {}

-----------------------------------------------------------------------------
(* Calls in flight.                                                        *)

Entry(id, call) == [id |-> id, method |-> call.method, listing |-> call.listing]

\* classifyFrame, a frame with a method: at the limit the oldest entry goes,
\* the new key in the map or not, and a key that is there keeps its place.
Remember(w, id, call) ==
    LET kept == IF Len(calls[w]) >= MaxTracked THEN Tail(calls[w]) ELSE calls[w]
    IN  IF \E i \in DOMAIN kept : kept[i].id = id
          THEN [i \in DOMAIN kept |-> IF kept[i].id = id THEN Entry(id, call) ELSE kept[i]]
          ELSE Append(kept, Entry(id, call))

\* inFlight.delete: the entries behind it move up.
Without(entries, id) ==
    IF \E i \in DOMAIN entries : entries[i].id = id
      THEN LET gone == CHOOSE i \in DOMAIN entries : entries[i].id = id
           IN  [i \in 1 .. Len(entries) - 1 |-> entries[IF i < gone THEN i ELSE i + 1]]
      ELSE entries

\* classifyFrame, a response: the call it answers.
Recall(w, id) ==
    IF \E i \in DOMAIN calls[w] : calls[w][i].id = id
      THEN LET i == CHOOSE j \in DOMAIN calls[w] : calls[w][j].id = id
           IN  [method |-> calls[w][i].method, listing |-> calls[w][i].listing]
      ELSE Unknown

-----------------------------------------------------------------------------
(* Listings.                                                               *)

Open(w) == {l \in ListingIds : listings[w][l] # None}

\* A new listing's randomUUID: nothing refers to it yet.
Fresh(w) ==
    CHOOSE l \in ListingIds :
        /\ l \notin Open(w)
        /\ \A i \in DOMAIN calls[w] : calls[w][i].listing # l
        /\ \A o \in owed[w] : o.listing # l
        /\ \A c \in Cursors : cursors[w][c] # l

\* Mutant: discarding a listing leaves its cursors behind.
DiscardKeepsCursors(w, listing) ==
    /\ listings' = [listings EXCEPT ![w] =
                      [l \in ListingIds |-> IF l = listing THEN None ELSE @[l]]]
    /\ UNCHANGED cursors

\* discardInventorySequence; listing 0 is none.
Discard(w, listing) ==
    /\ listings' = [listings EXCEPT ![w] =
                      [l \in ListingIds |-> IF l = listing THEN None ELSE @[l]]]
    /\ cursors' = [cursors EXCEPT ![w] =
                     [c \in Cursors |-> IF @[c] = listing THEN 0 ELSE @[c]]]

\* A page over what was read before: the last descriptor of a name counts.
Overlay(tools, page) ==
    {t \in tools : \A u \in page : u.name # t.name} \cup page

\* The listing a tools/list request starts or continues, 0 when it is refused.
ListingFor(w, cursor) ==
    CASE cursor = NoCursor ->
           IF Cardinality(Open(w)) >= MaxTracked THEN 0 ELSE Fresh(w)
      [] OTHER -> IF cursors[w][cursor] \in Open(w) THEN cursors[w][cursor] ELSE 0

-----------------------------------------------------------------------------
(* Client to server.                                                       *)

\* A client sends a request under an id that is not in use.
Sends(w, id) ==
    /\ Ready(w) /\ sent < setup.requests
    /\ \A o \in owed[w] : o.id # id
    /\ sent' = sent + 1

Given(w, cursor) == cursor # NoCursor => offered[w][cursor] # None

\* tools/list that every gate lets through; the cursor it continues is consumed.
ClientList(w, id, cursor) ==
    LET listing == ListingFor(w, cursor)
        sofar == IF cursor = NoCursor THEN {} ELSE offered[w][cursor]
    IN  /\ Sends(w, id) /\ Given(w, cursor) /\ listing # 0
        /\ calls' = [calls EXCEPT ![w] =
                       Remember(w, id, [method |-> "list", listing |-> listing])]
        /\ IF cursor = NoCursor
             THEN listings' = [listings EXCEPT ![w][listing] = {}] /\ UNCHANGED cursors
             ELSE cursors' = [cursors EXCEPT ![w][cursor] = 0] /\ UNCHANGED listings
        /\ owed' = [owed EXCEPT ![w] = @ \cup
             {[id |-> id, method |-> "list", listing |-> listing, sofar |-> sofar]}]
        /\ UNCHANGED <<setup, store, approved, learning, hosted, offered, complete, edits>>

\* tools/list that is refused: too many open listings, a cursor that is not
\* known, or a verdict of another gate.  A listing it continued is given up.
ClientListRefused(w, id, cursor) ==
    LET listing == ListingFor(w, cursor)
    IN  /\ Sends(w, id) /\ Given(w, cursor)
        /\ calls' = [calls EXCEPT ![w] =
                       Without(Remember(w, id, [method |-> "list", listing |-> listing]), id)]
        /\ IF listing # 0 THEN Discard(w, listing) ELSE UNCHANGED <<listings, cursors>>
        /\ UNCHANGED <<setup, store, approved, learning, hosted, clientVars, edits>>

\* Any other request of the client.
ClientCall(w, id, verdict) ==
    LET now == Remember(w, id, [method |-> "call", listing |-> 0])
    IN  /\ Sends(w, id)
        /\ \/ /\ verdict = "pass"
              /\ calls' = [calls EXCEPT ![w] = now]
              /\ owed' = [owed EXCEPT ![w] = @ \cup
                   {[id |-> id, method |-> "call", listing |-> 0, sofar |-> {}]}]
           \/ /\ verdict = "refuse"
              /\ calls' = [calls EXCEPT ![w] = Without(now, id)]
              /\ UNCHANGED owed
        /\ UNCHANGED <<setup, store, listings, cursors, approved, learning, hosted,
                       offered, complete, edits>>

\* The client's answer to a request of the server.
ClientReply(w, id, verdict) ==
    /\ Ready(w) /\ id \in hosted[w]
    /\ calls' = [calls EXCEPT ![w] = Without(@, id)]
    /\ IF verdict = "refuse" THEN Discard(w, Recall(w, id).listing)
                             ELSE UNCHANGED <<listings, cursors>>
    /\ hosted' = [hosted EXCEPT ![w] = @ \ {id}]
    /\ UNCHANGED <<setup, store, approved, learning, clientVars, sent, edits>>

-----------------------------------------------------------------------------
(* Server to client.                                                       *)

\* A request of the server.  The frame names its method, so its id goes into
\* the same map; a refused one stays there, since only the client could answer.
ServerRequest(w, id, verdict) ==
    /\ Ready(w) /\ id \notin hosted[w]
    /\ calls' = [calls EXCEPT ![w] = Remember(w, id, [method |-> "ask", listing |-> 0])]
    /\ hosted' = IF verdict = "pass" THEN [hosted EXCEPT ![w] = @ \cup {id}] ELSE hosted
    /\ UNCHANGED <<setup, store, listings, cursors, approved, learning, clientVars, sent, edits>>

\* An answer without an inventory: an error, or a result with no tools or with
\* malformed ones.  Passed on or refused, a listing it answers has ended.
ServerEnds(w, o) ==
    /\ Ready(w) /\ o \in owed[w]
    /\ calls' = [calls EXCEPT ![w] = Without(@, o.id)]
    /\ Discard(w, Recall(w, o.id).listing)
    /\ owed' = [owed EXCEPT ![w] = @ \ {o}]
    /\ UNCHANGED <<setup, store, approved, learning, hosted, offered, complete, sent, edits>>

Active(w, call) == call.method = "list" /\ call.listing \in Open(w)

\* ctx.inventoryCandidate, or the page alone when no listing is known for it.
Candidate(w, call, page) ==
    IF Active(w, call) THEN Overlay(listings[w][call.listing], page.tools) ELSE page.tools

\* ctx.inventoryComplete: not told otherwise, the gate takes a page as the end.
Whole(w, call, page) == Active(w, call) => page.next = NoCursor

\* ctx.inventoryError.
Errs(w, call, page) ==
    /\ call.method = "list"
    /\ \/ ~Active(w, call)
       \/ page.next # NoCursor /\ cursors[w][page.next] \notin {0, call.listing}

\* inventoryDrift: a new or changed tool, or on the last page a withdrawn one.
InventoryDrift(baseline, tools, whole) ==
    \/ ~(tools \subseteq baseline)
    \/ whole /\ \E t \in baseline : \A u \in tools : u.name # t.name

Baseline(w) == IF setup.mode = "off" THEN approved[w] ELSE store

\* gateToolInventory: the inventory gate denies the page or wants an operator.
InventoryRefused(w, call, page) ==
    \/ Errs(w, call, page)
    \/ setup.mode = "lock" /\ Baseline(w) \in {None, Garbled}
    \/ /\ Baseline(w) \notin {None, Garbled}
       /\ InventoryDrift(Baseline(w), Candidate(w, call, page), Whole(w, call, page))

\* Mutant: the first page of an inventory is learned.
LearnsAnyPage(w, call, page) == setup.mode = "learn" /\ store = None

\* run.pendingBaselineLearn: the whole inventory of a server with no baseline.
Learns(w, call, page) ==
    setup.mode = "learn" /\ store = None /\ Whole(w, call, page)

\* A page is refused by the inventory gate or by another one.
ServerPageRefused(w, o, page, verdict) ==
    LET call == Recall(w, o.id)
    IN  /\ Ready(w) /\ o \in owed[w] /\ o.method = "list"
        /\ verdict = "refuse" \/ InventoryRefused(w, call, page)
        /\ calls' = [calls EXCEPT ![w] = Without(@, o.id)]
        /\ Discard(w, call.listing)
        /\ owed' = [owed EXCEPT ![w] = @ \ {o}]
        /\ UNCHANGED <<setup, store, approved, learning, hosted, offered, complete, sent, edits>>

\* The forwarded page: the client reads it; its listing goes on or, with the
\* last page, becomes the session's approved inventory (recordToolInventory).
Deliver(w, o, call, page) ==
    LET read == Overlay(o.sofar, page.tools)
        told == Overlay(listings[w][call.listing], page.tools)
    IN  /\ IF page.next = NoCursor
             THEN complete' = [complete EXCEPT ![w] = @ \cup {read}] /\ UNCHANGED offered
             ELSE offered' = [offered EXCEPT ![w][page.next] = read] /\ UNCHANGED complete
        /\ IF ~Active(w, call)
             THEN UNCHANGED <<listings, cursors, approved>>
             ELSE IF page.next = NoCursor
               THEN approved' = [approved EXCEPT ![w] = told] /\ Discard(w, call.listing)
               ELSE /\ listings' = [listings EXCEPT ![w][call.listing] = told]
                    /\ cursors' = [cursors EXCEPT ![w][page.next] = call.listing]
                    /\ UNCHANGED approved

\* A page that every gate accepts; in learn mode it may first have to be saved.
ServerPage(w, o, page) ==
    LET call == Recall(w, o.id)
    IN  /\ Ready(w) /\ o \in owed[w] /\ o.method = "list"
        /\ ~InventoryRefused(w, call, page)
        /\ calls' = [calls EXCEPT ![w] = Without(@, o.id)]
        /\ owed' = [owed EXCEPT ![w] = @ \ {o}]
        /\ IF Learns(w, call, page)
             THEN /\ learning' = [learning EXCEPT ![w] =
                       {[o |-> o, call |-> call, page |-> page]}]
                  /\ UNCHANGED <<listings, cursors, approved, offered, complete>>
             ELSE Deliver(w, o, call, page) /\ UNCHANGED learning
        /\ UNCHANGED <<setup, store, hosted, sent, edits>>

\* McpBaselineStore.write under its lock, then the answer goes out.  The write
\* takes the file as it is then; with a file that does not parse, a lock that
\* stays busy or a full disk it throws, and the page is forwarded all the same.
FinishLearn(w) ==
    \E l \in learning[w] :
        /\ \/ store # Garbled /\ store' = Candidate(w, l.call, l.page)
           \/ UNCHANGED store
        /\ learning' = [learning EXCEPT ![w] = {}]
        /\ Deliver(w, l.o, l.call, l.page)
        /\ UNCHANGED <<setup, calls, owed, hosted, sent, edits>>

\* Somebody removes the baseline file, or leaves one that does not parse.
EditStore(content) ==
    /\ edits < MaxEdits /\ content # store
    /\ store' = content
    /\ edits' = edits + 1
    /\ UNCHANGED <<setup, wrapperVars, learning, clientVars, hosted, sent>>

Next ==
    \/ \E w \in Wrappers, id \in ClientIds, cursor \in Cursors \cup {NoCursor} :
         ClientList(w, id, cursor) \/ ClientListRefused(w, id, cursor)
    \/ \E w \in Wrappers, id \in ClientIds, v \in Verdicts : ClientCall(w, id, v)
    \/ \E w \in Wrappers, id \in ServerIds, v \in Verdicts :
         ClientReply(w, id, v) \/ ServerRequest(w, id, v)
    \/ \E w \in Wrappers : \E o \in owed[w] :
         \/ ServerEnds(w, o)
         \/ \E p \in Pages : ServerPage(w, o, p) \/ \E v \in Verdicts : ServerPageRefused(w, o, p, v)
    \/ \E w \in Wrappers : FinishLearn(w)
    \/ \E content \in {None, Garbled} : EditStore(content)

Spec == Init /\ [][Next]_vars

-----------------------------------------------------------------------------
(* Properties.                                                             *)

\* What the wrapper knows of a session is what the client lives through: an
\* answer is judged as the answer to its own call, and on top of exactly the
\* pages the client has read, whether it came by a call or by a cursor
\* (wrap.ts: classifyFrame, inventorySequences, cursorSequences).
WrapperKnowsClient ==
    \A w \in setup.wrappers :
        /\ \A o \in owed[w] :
             /\ Recall(w, o.id) = [method |-> o.method, listing |-> o.listing]
             /\ o.method = "list" => listings[w][o.listing] = o.sofar
        /\ \A c \in Cursors : cursors[w][c] # 0 =>
             listings[w][cursors[w][c]] = offered[w][c]

\* What can still end a listing.
Ways(w, l) ==
    {<<"call", o>> : o \in {p \in owed[w] : p.listing = l}}
    \cup {<<"cursor", c>> : c \in {d \in Cursors : cursors[w][d] = l}}
    \cup {<<"write", x>> : x \in {y \in learning[w] : y.call.listing = l}}

\* No open listing is forgotten: a call in flight answers it or one cursor
\* continues it, never both.  A listing nobody can end would count against the
\* limit for the rest of the session (wrap.ts: discardInventorySequence).
OpenIsReachable ==
    \A w \in setup.wrappers : \A l \in Open(w) : \E way \in Ways(w, l) : Ways(w, l) = {way}

\* A client never reads two inventories to the end that differ: with mode off
\* all of a session are the first one, in lock mode all are the stored one,
\* however the pages are cut and interleaved (gates.ts: gateToolInventory).
OneInventory ==
    /\ setup.mode = "off" => \A w \in setup.wrappers : complete[w] \subseteq {approved[w]}
    /\ setup.mode = "lock" => \A w \in setup.wrappers : complete[w] \subseteq {setup.store}

\* The wrapper stays in step with its client: it knows the pages the client has
\* read, keeps every listing that can go on, and lets one inventory through.
WrapperIsInStep == WrapperKnowsClient /\ OpenIsReachable /\ OneInventory

\* What learn mode stores is an inventory that a client read to the end, never
\* a part of one (docs/mcp.md: "baselined only from a complete tools/list
\* result that was actually forwarded").
LearnedIsWhole ==
    setup.mode = "learn" => store \in (UNION {complete[w] : w \in Wrappers}) \cup {setup.store, None, Garbled}

\* wrap.ts on evicting the oldest call in flight: "it can never change a
\* decision, because attribution is not an input to any gate".  The gates say
\* the same of a page whether or not the wrapper still knows whose answer it is.
AttributionIsNoInput ==
    \A w \in setup.wrappers : Ready(w) =>
        \A o \in owed[w], p \in Pages : o.method = "list" =>
            (InventoryRefused(w, Recall(w, o.id), p)
               <=> InventoryRefused(w, [method |-> o.method, listing |-> o.listing], p))

\* Learn mode "stores the first complete clean inventory": once there is one,
\* only a removal or a damage of the file takes it away (gates.ts: the baseline
\* is read when the page is judged, and written over whatever is there then).
FirstIsKept ==
    [][store \notin {None, Garbled} => store' \in {store, None, Garbled}]_vars

=============================================================================
