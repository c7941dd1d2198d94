------------------------- MODULE ForwardProxyProofs -------------------------
(***************************************************************************)
(* What holds of connections through the forward proxy for any number of   *)
(* agents and connections, any configuration and any clock: their records  *)
(* are true, both budgets hold, and the stop stops every pass.             *)
(***************************************************************************)
EXTENDS ForwardProxy, Sums

States == {"new", "body", "sent", "answer", "stream", "connecting", "peek", "pipe", "done"}
Closures ==
    [kind : {"none", "http", "tunnel"}, state : States, agent : Principals, ticket : Nat, at : Nat,
     up : {"none", "open", "closed"}, head : {"none", "part", "hello"}, early : BOOLEAN,
     seen : {"unread", "stream", "partial", "plaintext"}, whole : BOOLEAN, sent : {0, 1}, got : {0, 1},
     refused : {0, 1, 2, 3}, filed : {0, 1}]
LedgerRow == [at : Nat, bytes : Nat]

Typed ==
    /\ setup \in Setups /\ now \in Nat
    /\ rows \in [Agents -> Seq(LedgerRow)]
    /\ first \in [Agents -> Nat] /\ open \in [Agents -> SUBSET Nat]
    /\ conn \in [Conns -> Closures]

\* A connection's closure by itself: what it may have done where it stands, what
\* a refusal left undone, and what the record may say.
Sound(k) ==
    /\ k.kind = "none" <=> k.state = "new"
    /\ k.state = "new" => k.ticket = 0 /\ k.up = "none" /\ k.seen = "unread" /\ k.whole
    /\ k.filed = 1 <=> k.state = "done"
    /\ k.ticket # 0 => k.agent \in Agents
    /\ k.refused # 0 => k.state = "done" /\ k.got = 0
    /\ k.refused = 1 => k.up = "none" /\ k.ticket = 0
    /\ k.refused \in {1, 2} => k.sent = 0
    /\ k.state \in {"new", "body", "connecting", "peek"} => k.sent = 0
    /\ k.state \in {"new", "body", "connecting", "peek", "sent", "answer"} => k.got = 0
    /\ k.filed = 1 => k.up # "open"
    /\ ~AnswersDie /\ k.seen \in {"unread", "plaintext"} => k.whole

\* The ledger and the connections tell the same story: a ticket each, its row
\* open until the record is filed, and nothing live before `first`.
Booked(a) ==
    /\ \A c \in Charged(a) : conn[c].ticket \in DOMAIN rows[a]
    /\ \A t \in DOMAIN rows[a] : \E c \in Charged(a) : conn[c].ticket = t
    /\ \A c, d \in Charged(a) : conn[c].ticket = conn[d].ticket => c = d
    /\ \A c \in Charged(a) :
         LET row == rows[a][conn[c].ticket] IN
         /\ row.at = conn[c].at /\ row.at <= now
         /\ (conn[c].ticket \in open[a]) = (conn[c].filed = 0)
         /\ row.bytes = IF conn[c].filed = 0 THEN 0 ELSE conn[c].sent + conn[c].got
    /\ open[a] \subseteq DOMAIN rows[a]
    /\ first[a] \in 1..(Len(rows[a]) + 1)
    /\ \A t \in DOMAIN rows[a] : t < first[a] => rows[a][t].at <= now - Window

Books == \A a \in Agents : Booked(a)

\* Admissions of one window's length.
Span(a, t) == {c \in Charged(a) : conn[c].at \in t..(t + Window - 1)}
Exact ==
    setup.mode # "monitor" =>
        \A a \in Agents, t \in Int : IsFiniteSet(Span(a, t)) /\ Cardinality(Span(a, t)) <= setup.requests

ProxyInv == Typed /\ (\A c \in Conns : Sound(conn[c])) /\ Books /\ Exact

-----------------------------------------------------------------------------
(* What a step is to the ledger.                                           *)

SameCharge(j, k) ==
    k.ticket = j.ticket /\ (k.ticket # 0 => k.agent = j.agent /\ k.at = j.at)

Keeps(c, k) == SameCharge(conn[c], k) /\ conn[c].filed = 0 /\ k.filed = 0 /\ NoCharge
Settles(c, k) ==
    /\ SameCharge(conn[c], k) /\ conn[c].filed = 0 /\ k.filed = 1
    /\ IF k.ticket # 0 THEN Settle(k.agent, k.ticket, k.sent + k.got) ELSE NoCharge
Admits(c, k) ==
    /\ conn[c].ticket = 0 /\ k.agent \in Agents /\ k.ticket = Len(rows[k.agent]) + 1
    /\ k.at = now /\ k.filed = 0
    /\ setup.mode # "monitor" => ~Exhausted(k.agent)
    /\ Admit(k.agent)

OneMoves ==
    /\ UNCHANGED <<setup, now>>
    /\ \E c \in Conns, k \in Closures :
         /\ conn' = [conn EXCEPT ![c] = k] /\ Sound(k)
         /\ Keeps(c, k) \/ Settles(c, k) \/ Admits(c, k)

-----------------------------------------------------------------------------
(* One connection.                                                         *)

\* finish, with the closure as k has it.
LEMMA FiledFacts ==
    ASSUME NEW k \in Closures, k.filed = 0
    PROVE  LET f == Filed([k EXCEPT !.up = IF @ = "none" THEN @ ELSE "closed"]) IN
           /\ f \in Closures /\ f.filed = 1 /\ f.state = "done"
           /\ f.kind = k.kind /\ f.agent = k.agent /\ f.ticket = k.ticket /\ f.at = k.at
           /\ f.up = IF k.up = "none" THEN "none" ELSE "closed"
           /\ f.seen = k.seen /\ f.whole = k.whole /\ f.sent = k.sent /\ f.got = k.got /\ f.refused = k.refused
<1> DEFINE u == IF k.up = "none" THEN "none" ELSE "closed"
           j == [k EXCEPT !.up = u]
<1>1. [k EXCEPT !.up = IF @ = "none" THEN @ ELSE "closed"] = j
  BY DEF Closures
<1>2. /\ j \in Closures /\ j.filed = 0 /\ j.kind = k.kind /\ j.agent = k.agent /\ j.ticket = k.ticket
      /\ j.at = k.at /\ j.up = u /\ j.seen = k.seen /\ j.whole = k.whole /\ j.sent = k.sent
      /\ j.got = k.got /\ j.refused = k.refused
  BY DEF Closures
<1> HIDE DEF j, u
<1>3. Filed(j) = [j EXCEPT !.state = "done", !.filed = 1, !.head = "none", !.early = FALSE]
  BY <1>2 DEF Filed
<1>4. Filed(j) \in Closures
  BY ZenonT(60), <1>2, <1>3 DEF Closures, States
<1>5. /\ Filed(j).filed = 1 /\ Filed(j).state = "done" /\ Filed(j).kind = j.kind /\ Filed(j).agent = j.agent
      /\ Filed(j).ticket = j.ticket /\ Filed(j).at = j.at /\ Filed(j).up = j.up /\ Filed(j).seen = j.seen
      /\ Filed(j).whole = j.whole /\ Filed(j).sent = j.sent /\ Filed(j).got = j.got
      /\ Filed(j).refused = j.refused
  BY <1>2, <1>3 DEF Closures
<1> QED BY <1>1, <1>2, <1>4, <1>5 DEF u

\* A record may be filed of any closure that keeps these.
Fileable(k) ==
    /\ k.kind # "none" /\ k.filed = 0
    /\ k.ticket # 0 => k.agent \in Agents
    /\ k.refused # 0 => k.got = 0
    /\ k.refused = 1 => k.up = "none" /\ k.ticket = 0
    /\ k.refused \in {1, 2} => k.sent = 0
    /\ ~AnswersDie /\ k.seen \in {"unread", "plaintext"} => k.whole

LEMMA FinishMoves ==
    ASSUME Typed, NEW c \in Conns, NEW k \in Closures, Fileable(k), SameCharge(conn[c], k),
           conn[c].filed = 0, Static, Finish(c, k)
    PROVE  OneMoves
<1> DEFINE f == Filed([k EXCEPT !.up = IF @ = "none" THEN @ ELSE "closed"])
<1>1. /\ f \in Closures /\ f.filed = 1 /\ f.state = "done"
      /\ f.kind = k.kind /\ f.agent = k.agent /\ f.ticket = k.ticket /\ f.at = k.at
      /\ f.up = IF k.up = "none" THEN "none" ELSE "closed"
      /\ f.seen = k.seen /\ f.whole = k.whole /\ f.sent = k.sent /\ f.got = k.got /\ f.refused = k.refused
  BY FiledFacts DEF Fileable
<1>2. conn' = [conn EXCEPT ![c] = f] /\ SettleRecord(k)
  BY DEF Finish
<1> HIDE DEF f
<1>3. Sound(f)
  BY <1>1 DEF Sound, Fileable
<1>4. Settles(c, f)
  BY <1>1, <1>2 DEF Settles, SettleRecord, SameCharge, Fileable
<1> QED BY <1>1, <1>2, <1>3, <1>4 DEF OneMoves, Static

LEMMA GoesMoves ==
    ASSUME Typed, NEW c \in Conns, NEW k \in Closures, Sound(k), SameCharge(conn[c], k),
           conn[c].filed = 0, k.filed = 0, Static, Goes(c, k)
    PROVE  OneMoves
BY DEF OneMoves, Keeps, Goes, Static

\* A later pass refuses what nothing of has gone downstream (body, hello, answer).
LEMMA RefusalMoves ==
    ASSUME Typed, NEW c \in Conns, NEW k \in Closures, SameCharge(conn[c], k), conn[c].filed = 0,
           k.kind # "none", k.filed = 0, k.got = 0, NEW n \in {2, 3}, n = 2 => k.sent = 0,
           k.ticket # 0 => k.agent \in Agents,
           ~AnswersDie /\ k.seen \in {"unread", "plaintext"} => k.whole,
           Static, Finish(c, [k EXCEPT !.refused = n])
    PROVE  OneMoves
<1> DEFINE r == [k EXCEPT !.refused = n]
<1>1. /\ r \in Closures /\ r.refused = n /\ r.kind = k.kind /\ r.ticket = k.ticket /\ r.agent = k.agent
      /\ r.at = k.at /\ r.seen = k.seen /\ r.whole = k.whole /\ r.sent = k.sent /\ r.got = 0 /\ r.filed = 0
  BY DEF Closures
<1> HIDE DEF r
<1>2. Fileable(r) /\ SameCharge(conn[c], r)
  BY <1>1 DEF Fileable, SameCharge
<1> QED BY <1>1, <1>2, FinishMoves DEF r

\* What a pass has seen keeps a closure what it was, and says no more than was read.
LEMMA ObservedFacts ==
    ASSUME NEW k \in Closures, Sound(k), k.filed = 0, k.state # "new",
           NEW level \in {"stream", "partial", "plaintext"}, NEW whole \in BOOLEAN,
           ~AnswersDie /\ level = "plaintext" => whole
    PROVE  LET o == Observed(k, level, whole) IN
           /\ o \in Closures /\ o.kind = k.kind /\ o.state = k.state /\ o.agent = k.agent
           /\ o.ticket = k.ticket /\ o.at = k.at /\ o.up = k.up /\ o.head = k.head /\ o.early = k.early
           /\ o.sent = k.sent /\ o.got = k.got /\ o.refused = k.refused /\ o.filed = 0
           /\ ~AnswersDie /\ o.seen \in {"unread", "plaintext"} => o.whole
<1> DEFINE s == IF Weakness[level] < Weakness[k.seen] THEN level ELSE k.seen
           w == k.whole /\ whole
           o == [k EXCEPT !.seen = s, !.whole = w]
<1>1. Observed(k, level, whole) = o
  BY DEF Observed
<1>2. k.seen \in {"unread", "stream", "partial", "plaintext"} /\ k.whole \in BOOLEAN /\ k.filed = 0
  BY DEF Closures
<1>3. s \in {"unread", "stream", "partial", "plaintext"} /\ w \in BOOLEAN
  BY <1>2
<1>4. s \in {"unread", "plaintext"} => level = "plaintext" /\ k.seen \in {"unread", "plaintext"}
  BY <1>2 DEF Weakness
<1> HIDE DEF s, w
<1>5. o \in Closures /\ o.seen = s /\ o.whole = w
  BY ZenonT(60), <1>3 DEF Closures
<1>6. ~AnswersDie /\ s \in {"unread", "plaintext"} => w
  BY <1>4 DEF Sound, w
<1>7. /\ o.kind = k.kind /\ o.state = k.state /\ o.agent = k.agent
      /\ o.ticket = k.ticket /\ o.at = k.at /\ o.up = k.up /\ o.head = k.head /\ o.early = k.early
      /\ o.sent = k.sent /\ o.got = k.got /\ o.refused = k.refused /\ o.filed = 0
  BY <1>2 DEF Closures
<1> QED BY <1>1, <1>5, <1>6, <1>7

-----------------------------------------------------------------------------
(* One lemma per event.                                                    *)

\* A connection that is not new and not done is one that may go on.
LEMMA Live ==
    ASSUME Typed, \A d \in Conns : Sound(conn[d]), NEW c \in Conns, conn[c].state \notin {"new", "done"}
    PROVE  /\ conn[c] \in Closures /\ Sound(conn[c]) /\ conn[c].filed = 0 /\ conn[c].refused = 0
           /\ conn[c].kind # "none" /\ SameCharge(conn[c], conn[c]) /\ Fileable(conn[c])
<1>1. conn[c] \in Closures /\ Sound(conn[c])
  BY DEF Typed
<1>2. conn[c].filed = 0 /\ conn[c].refused = 0 /\ conn[c].kind # "none"
  BY <1>1 DEF Closures, Sound
<1> QED BY <1>1, <1>2 DEF Sound, SameCharge, Fileable

LEMMA OpenMoves ==
    ASSUME Typed, \A d \in Conns : Sound(conn[d]), NEW c \in Conns, NEW kind \in {"http", "tunnel"},
           NEW a \in Principals, NEW head \in {"none", "part", "hello"}, NEW sight \in Sights,
           Open(c, kind, a, head, sight)
    PROVE  OneMoves
<1> DEFINE j == conn[c]
           k == [j EXCEPT !.kind = kind, !.agent = a, !.head = head]
<1>1. /\ j \in Closures /\ Sound(j) /\ j.kind = "none" /\ Static
      /\ \/ Finish(c, [k EXCEPT !.refused = 1])
         \/ /\ Allows(a, sight, FALSE) /\ Charge(a)
            /\ conn' = [conn EXCEPT ![c] =
                  [k EXCEPT !.state = IF kind = "http" THEN "body" ELSE "connecting",
                            !.up = IF kind = "http" THEN "none" ELSE "open",
                            !.ticket = TicketOf(a), !.at = IF a \in Agents THEN now ELSE 0]]
  BY DEF Open, Typed
<1> HIDE DEF j
<1>2. /\ j.state = "new" /\ j.ticket = 0 /\ j.up = "none" /\ j.seen = "unread" /\ j.whole /\ j.sent = 0
      /\ j.got = 0 /\ j.refused = 0 /\ j.filed = 0
  BY <1>1 DEF Closures, Sound
<1>3. /\ k \in Closures /\ k.kind = kind /\ k.agent = a /\ k.state = "new" /\ k.ticket = 0 /\ k.up = "none"
      /\ k.seen = "unread" /\ k.whole /\ k.sent = 0 /\ k.got = 0 /\ k.refused = 0 /\ k.filed = 0
  BY <1>1, <1>2 DEF Closures
<1> HIDE DEF k
<1>4. CASE Finish(c, [k EXCEPT !.refused = 1])
  <2> DEFINE r == [k EXCEPT !.refused = 1]
  <2>1. /\ r \in Closures /\ r.refused = 1 /\ r.kind = kind /\ r.ticket = 0 /\ r.up = "none" /\ r.seen = "unread"
        /\ r.whole /\ r.sent = 0 /\ r.got = 0 /\ r.filed = 0
    BY <1>3 DEF Closures
  <2> HIDE DEF r
  <2>2. Fileable(r) /\ SameCharge(conn[c], r)
    BY <1>2, <2>1 DEF Fileable, SameCharge, j
  <2>3. Finish(c, r)
    BY <1>4 DEF r
  <2> QED BY <1>1, <1>2, <2>1, <2>2, <2>3, FinishMoves DEF j
<1>5. ASSUME Allows(a, sight, FALSE), Charge(a),
             conn' = [conn EXCEPT ![c] =
                  [k EXCEPT !.state = IF kind = "http" THEN "body" ELSE "connecting",
                            !.up = IF kind = "http" THEN "none" ELSE "open",
                            !.ticket = TicketOf(a), !.at = IF a \in Agents THEN now ELSE 0]]
      PROVE  OneMoves
  <2> DEFINE st == IF kind = "http" THEN "body" ELSE "connecting"
             up == IF kind = "http" THEN "none" ELSE "open"
             tk == TicketOf(a)
             at == IF a \in Agents THEN now ELSE 0
             n == [k EXCEPT !.state = st, !.up = up, !.ticket = tk, !.at = at]
  <2>1. tk \in Nat /\ at \in Nat /\ (a \notin Agents => tk = 0)
        /\ (a \in Agents => tk = Len(rows[a]) + 1 /\ at = now /\ tk # 0)
    BY DEF Typed, TicketOf
  <2>2. st \in {"body", "connecting"} /\ up \in {"none", "open"}
    OBVIOUS
  <2>3. conn' = [conn EXCEPT ![c] = n]
    BY <1>5
  <2> HIDE DEF st, up, tk, at
  <2>4. /\ n \in Closures /\ n.kind = kind /\ n.agent = a /\ n.state = st /\ n.up = up /\ n.ticket = tk
        /\ n.at = at /\ n.seen = "unread" /\ n.whole /\ n.sent = 0 /\ n.got = 0 /\ n.refused = 0 /\ n.filed = 0
    BY <1>3, <2>1, <2>2 DEF Closures, States
  <2> HIDE DEF n
  <2>5. Sound(n)
    BY <2>1, <2>2, <2>4 DEF Sound
  <2>6. CASE a \in Agents
    <3>1. Admit(a) /\ (setup.mode # "monitor" => ~Exhausted(a))
      BY <1>5, <2>6 DEF Charge, Allows, Enforce
    <3>2. Admits(c, n)
      BY <1>2, <2>1, <2>4, <2>6, <3>1 DEF Admits, j
    <3> QED BY <1>1, <2>3, <2>4, <2>5, <3>2 DEF OneMoves, Static
  <2>7. CASE a \notin Agents
    <3>1. Keeps(c, n)
      BY <1>2, <1>5, <2>1, <2>4, <2>7 DEF Keeps, Charge, SameCharge, j
    <3> QED BY <1>1, <2>3, <2>4, <2>5, <3>1 DEF OneMoves, Static
  <2> QED BY <2>6, <2>7
<1> QED BY <1>1, <1>4, <1>5

\* The request body is judged (the "end" of the peek, or its cap or silence).
LEMMA HttpBodyMoves ==
    ASSUME Typed, \A d \in Conns : Sound(conn[d]), NEW c \in Conns, NEW whole \in BOOLEAN, NEW sight \in Sights,
           HttpBody(c, whole, sight)
    PROVE  OneMoves
<1> DEFINE lv == IF whole THEN "plaintext" ELSE "partial"
           k == Observed(conn[c], lv, whole)
<1>1. /\ Static /\ conn[c].kind = "http" /\ conn[c].state = "body"
      /\ \/ Finish(c, [k EXCEPT !.refused = 2])
         \/ Goes(c, [k EXCEPT !.state = "sent", !.up = "open", !.sent = 1])
  BY DEF HttpBody, Is
<1>2. /\ conn[c] \in Closures /\ Sound(conn[c]) /\ conn[c].filed = 0 /\ conn[c].refused = 0
      /\ conn[c].kind # "none" /\ SameCharge(conn[c], conn[c])
  BY <1>1, Live
<1>3. /\ k \in Closures /\ k.kind = "http" /\ k.state = "body" /\ k.agent = conn[c].agent
      /\ k.ticket = conn[c].ticket /\ k.at = conn[c].at /\ k.up = conn[c].up
      /\ k.sent = 0 /\ k.got = 0 /\ k.refused = 0 /\ k.filed = 0
      /\ ~AnswersDie /\ k.seen \in {"unread", "plaintext"} => k.whole
      /\ k.ticket # 0 => k.agent \in Agents
  <2>1. lv \in {"stream", "partial", "plaintext"} /\ (lv = "plaintext" => whole)
    OBVIOUS
  <2> HIDE DEF lv
  <2>2. conn[c].sent = 0 /\ conn[c].got = 0 /\ (conn[c].ticket # 0 => conn[c].agent \in Agents)
    BY <1>1, <1>2 DEF Sound
  <2> QED BY <1>1, <1>2, <2>1, <2>2, ObservedFacts
<1> HIDE DEF k
<1>4. CASE Finish(c, [k EXCEPT !.refused = 2])
  BY <1>1, <1>2, <1>3, <1>4, RefusalMoves DEF SameCharge
<1>5. CASE Goes(c, [k EXCEPT !.state = "sent", !.up = "open", !.sent = 1])
  <2> DEFINE r == [k EXCEPT !.state = "sent", !.up = "open", !.sent = 1]
  <2>1. /\ r \in Closures /\ r.refused = 0 /\ r.kind = "http" /\ r.ticket = k.ticket /\ r.agent = k.agent
        /\ r.at = k.at /\ r.seen = k.seen /\ r.whole = k.whole /\ r.got = 0 /\ r.filed = 0 /\ r.state = "sent"
    BY <1>3 DEF Closures, States
  <2> HIDE DEF r
  <2>2. Sound(r) /\ SameCharge(conn[c], r)
    BY <1>3, <2>1 DEF Sound, SameCharge
  <2> QED BY <1>1, <1>2, <1>5, <2>1, <2>2, GoesMoves DEF r
<1> QED BY <1>1, <1>4, <1>5

LEMMA HttpHeadersMoves ==
    ASSUME Typed, \A d \in Conns : Sound(conn[d]), NEW c \in Conns, HttpHeaders(c)
    PROVE  OneMoves
<1> DEFINE k == conn[c]
           r == [k EXCEPT !.state = "answer"]
<1>1. Static /\ k.state = "sent" /\ Goes(c, r)
  BY DEF HttpHeaders, Is
<1>2. k \in Closures /\ Sound(k) /\ k.filed = 0 /\ k.refused = 0 /\ k.kind # "none"
  BY <1>1, Live
<1> HIDE DEF k
<1>3. /\ r \in Closures /\ r.kind = k.kind /\ r.state = "answer" /\ r.agent = k.agent /\ r.ticket = k.ticket
      /\ r.at = k.at /\ r.up = k.up /\ r.seen = k.seen /\ r.whole = k.whole /\ r.got = k.got
      /\ r.refused = 0 /\ r.filed = 0
  BY <1>2 DEF Closures, States
<1> HIDE DEF r
<1>4. Sound(r) /\ SameCharge(k, r)
  BY <1>1, <1>2, <1>3 DEF Sound, SameCharge
<1> QED BY <1>1, <1>2, <1>3, <1>4, GoesMoves DEF k

\* The response, whole or as far as it was read, is judged before it is relayed.
LEMMA AnswerMoves ==
    ASSUME Typed, \A d \in Conns : Sound(conn[d]), NEW c \in Conns, conn[c].state \in {"sent", "answer"},
           NEW level \in {"stream", "partial", "plaintext"}, NEW whole \in BOOLEAN,
           ~AnswersDie /\ level = "plaintext" => whole, Static,
           LET k == Observed(conn[c], level, whole) IN
             \/ Finish(c, [k EXCEPT !.refused = 3])
             \/ Goes(c, [k EXCEPT !.state = "stream", !.got = 1])
             \/ Finish(c, [k EXCEPT !.got = 1])
    PROVE  OneMoves
<1> DEFINE k == Observed(conn[c], level, whole)
<1>1. /\ conn[c] \in Closures /\ Sound(conn[c]) /\ conn[c].filed = 0 /\ conn[c].refused = 0
      /\ conn[c].kind # "none" /\ SameCharge(conn[c], conn[c])
  BY Live
<1>2. conn[c].got = 0 /\ (conn[c].ticket # 0 => conn[c].agent \in Agents)
  BY <1>1 DEF Sound
<1>3. /\ k \in Closures /\ k.kind # "none" /\ k.agent = conn[c].agent /\ k.ticket = conn[c].ticket
      /\ k.at = conn[c].at /\ k.got = 0 /\ k.refused = 0 /\ k.filed = 0
      /\ ~AnswersDie /\ k.seen \in {"unread", "plaintext"} => k.whole
      /\ k.ticket # 0 => k.agent \in Agents
  BY <1>1, <1>2, ObservedFacts
<1>4. \/ Finish(c, [k EXCEPT !.refused = 3])
      \/ Goes(c, [k EXCEPT !.state = "stream", !.got = 1])
      \/ Finish(c, [k EXCEPT !.got = 1])
  OBVIOUS
<1> HIDE DEF k
<1>5. CASE Finish(c, [k EXCEPT !.refused = 3])
  <2>1. SameCharge(conn[c], k) /\ 3 \in {2, 3} /\ (3 = 2 => k.sent = 0)
    BY <1>3 DEF SameCharge
  <2> QED BY <1>1, <1>3, <1>5, <2>1, RefusalMoves
<1>6. CASE Goes(c, [k EXCEPT !.state = "stream", !.got = 1])
  <2> DEFINE r == [k EXCEPT !.state = "stream", !.got = 1]
  <2>1. /\ r \in Closures /\ r.kind = k.kind /\ r.state = "stream" /\ r.agent = k.agent /\ r.ticket = k.ticket
        /\ r.at = k.at /\ r.seen = k.seen /\ r.whole = k.whole /\ r.refused = 0 /\ r.filed = 0
    BY <1>3 DEF Closures, States
  <2> HIDE DEF r
  <2>2. Sound(r) /\ SameCharge(conn[c], r)
    BY <1>3, <2>1 DEF Sound, SameCharge
  <2> QED BY <1>1, <1>6, <2>1, <2>2, GoesMoves DEF r
<1>7. CASE Finish(c, [k EXCEPT !.got = 1])
  <2> DEFINE r == [k EXCEPT !.got = 1]
  <2>1. /\ r \in Closures /\ r.kind = k.kind /\ r.agent = k.agent /\ r.ticket = k.ticket
        /\ r.at = k.at /\ r.seen = k.seen /\ r.whole = k.whole /\ r.refused = 0 /\ r.filed = 0
    BY <1>3 DEF Closures
  <2> HIDE DEF r
  <2>2. Fileable(r) /\ SameCharge(conn[c], r)
    BY <1>3, <2>1 DEF Fileable, SameCharge
  <2> QED BY <1>1, <1>7, <2>1, <2>2, FinishMoves DEF r
<1> QED BY <1>4, <1>5, <1>6, <1>7

LEMMA HttpEventStreamMoves ==
    ASSUME Typed, \A d \in Conns : Sound(conn[d]), NEW c \in Conns, NEW sight \in Sights, HttpEventStream(c, sight)
    PROVE  OneMoves
<1>1. /\ Static /\ conn[c].state = "sent"
      /\ LET k == Observed(conn[c], "stream", FALSE) IN
           \/ Finish(c, [k EXCEPT !.refused = 3])
           \/ Goes(c, [k EXCEPT !.state = "stream", !.got = 1])
  BY DEF HttpEventStream, Is
<1> QED BY <1>1, AnswerMoves

LEMMA HttpAnswerMoves ==
    ASSUME Typed, \A d \in Conns : Sound(conn[d]), NEW c \in Conns, NEW how \in {"ended", "cut", "died"},
           NEW sight \in Sights, HttpAnswer(c, how, sight)
    PROVE  OneMoves
<1> DEFINE level == IF how = "cut" THEN "partial" ELSE "plaintext"
           whole == how = "ended"
<1>1. /\ Static /\ conn[c].state = "answer"
      /\ LET k == Observed(conn[c], level, whole) IN
           \/ Finish(c, [k EXCEPT !.refused = 3])
           \/ Goes(c, [k EXCEPT !.state = "stream", !.got = 1])
           \/ Finish(c, [k EXCEPT !.got = 1])
  BY DEF HttpAnswer, Is
<1>2. ~AnswersDie /\ level = "plaintext" => whole
  BY DEF HttpAnswer
<1>3. level \in {"stream", "partial", "plaintext"} /\ whole \in BOOLEAN
  OBVIOUS
<1> HIDE DEF level, whole
<1> QED BY <1>1, <1>2, <1>3, AnswerMoves

\* Whatever ends a connection as it stands: its stream, either side, a deadline.
LEMMA EndMoves ==
    ASSUME Typed, \A d \in Conns : Sound(conn[d]), NEW c \in Conns, conn[c].state \notin {"new", "done"},
           Static, Finish(c, conn[c])
    PROVE  OneMoves
BY Live, FinishMoves

LEMMA HttpStreamDiesMoves ==
    ASSUME Typed, \A d \in Conns : Sound(conn[d]), NEW c \in Conns, HttpStreamDies(c)
    PROVE  OneMoves
<1> DEFINE k == conn[c]
           r == [k EXCEPT !.up = "closed"]
<1>1. Static /\ k.state = "stream" /\ Goes(c, r)
  BY DEF HttpStreamDies, Is
<1>2. k \in Closures /\ Sound(k) /\ k.filed = 0 /\ k.refused = 0 /\ k.kind # "none"
  BY <1>1, Live
<1> HIDE DEF k
<1>3. /\ r \in Closures /\ r.kind = k.kind /\ r.state = k.state /\ r.agent = k.agent /\ r.ticket = k.ticket
      /\ r.at = k.at /\ r.seen = k.seen /\ r.whole = k.whole /\ r.refused = 0 /\ r.filed = 0
  BY <1>2 DEF Closures
<1> HIDE DEF r
<1>4. Sound(r) /\ SameCharge(k, r)
  BY <1>1, <1>2, <1>3 DEF Sound, SameCharge
<1> QED BY <1>1, <1>2, <1>3, <1>4, GoesMoves DEF k

\* The tunnel goes on to `state`, with what it has sent and received by then.
LEMMA TunnelGoes ==
    ASSUME Typed, \A d \in Conns : Sound(conn[d]), NEW c \in Conns, conn[c].state \notin {"new", "done"}, Static,
           NEW state \in States, NEW head \in {"none", "part", "hello"}, NEW early \in BOOLEAN,
           NEW sent \in {0, 1}, NEW got \in {0, 1},
           \/ state = "pipe"
           \/ state \in {"connecting", "peek"} /\ conn[c].state = "connecting" /\ sent = 0 /\ got = 0,
           Goes(c, [conn[c] EXCEPT !.state = state, !.head = head, !.early = early, !.sent = sent, !.got = got])
    PROVE  OneMoves
<1> DEFINE k == conn[c]
           r == [k EXCEPT !.state = state, !.head = head, !.early = early, !.sent = sent, !.got = got]
<1>1. k \in Closures /\ Sound(k) /\ k.filed = 0 /\ k.refused = 0 /\ k.kind # "none"
  BY Live
<1>2. Goes(c, r)
  OBVIOUS
<1> HIDE DEF k
<1>3. /\ r \in Closures /\ r.kind = k.kind /\ r.state = state /\ r.agent = k.agent /\ r.ticket = k.ticket
      /\ r.at = k.at /\ r.seen = k.seen /\ r.whole = k.whole /\ r.refused = 0 /\ r.filed = 0
      /\ r.sent = sent /\ r.got = got
  BY <1>1 DEF Closures
<1> HIDE DEF r
<1>4. Sound(r) /\ SameCharge(k, r)
  BY <1>1, <1>3 DEF Sound, SameCharge
<1> QED BY <1>1, <1>2, <1>3, <1>4, GoesMoves DEF k

LEMMA ReleaseMoves ==
    ASSUME Typed, \A d \in Conns : Sound(conn[d]), NEW c \in Conns, conn[c].state \in {"connecting", "peek"}, Static,
           NEW other \in BOOLEAN, NEW sight \in Sights, ReleaseNamed(c, other, sight)
    PROVE  OneMoves
<1> DEFINE k == [conn[c] EXCEPT !.head = "hello"]
<1>1. /\ conn[c] \in Closures /\ Sound(conn[c]) /\ conn[c].filed = 0 /\ conn[c].refused = 0
      /\ conn[c].kind # "none" /\ SameCharge(conn[c], conn[c])
  BY Live
<1>2. \/ Finish(c, [k EXCEPT !.refused = 2])
      \/ HandOver(c, k)
  BY DEF ReleaseNamed
<1>3. /\ k \in Closures /\ k.kind # "none" /\ k.agent = conn[c].agent /\ k.ticket = conn[c].ticket
      /\ k.at = conn[c].at /\ k.got = 0 /\ k.sent = 0 /\ k.filed = 0 /\ k.head = "hello"
      /\ k.seen = conn[c].seen /\ k.whole = conn[c].whole
  <2>1. conn[c].sent = 0 /\ conn[c].got = 0
    BY <1>1 DEF Sound
  <2> QED BY <1>1, <2>1 DEF Closures
<1>4. (k.ticket # 0 => k.agent \in Agents) /\ (~AnswersDie /\ k.seen \in {"unread", "plaintext"} => k.whole)
  BY <1>1, <1>3 DEF Sound
<1>5. CASE Finish(c, [k EXCEPT !.refused = 2])
  <2> HIDE DEF k
  <2> QED BY <1>1, <1>3, <1>4, <1>5, RefusalMoves DEF SameCharge
<1>6. CASE HandOver(c, k)
  <2>1. [k EXCEPT !.state = "pipe", !.sent = 1] =
           [conn[c] EXCEPT !.state = "pipe", !.head = "hello", !.early = conn[c].early, !.sent = 1, !.got = conn[c].got]
    BY <1>1 DEF Closures
  <2>2. Goes(c, [conn[c] EXCEPT !.state = "pipe", !.head = "hello", !.early = conn[c].early, !.sent = 1,
                                !.got = conn[c].got])
    BY <1>3, <1>6, <2>1 DEF HandOver
  <2>3. conn[c].early \in BOOLEAN /\ conn[c].got \in {0, 1}
    BY <1>1 DEF Closures
  <2> QED BY ZenonT(60), <2>2, <2>3, TunnelGoes DEF States
<1> QED BY <1>2, <1>5, <1>6

LEMMA TunnelConnectedMoves ==
    ASSUME Typed, \A d \in Conns : Sound(conn[d]), NEW c \in Conns, NEW other \in BOOLEAN, NEW sight \in Sights,
           TunnelConnected(c, other, sight)
    PROVE  OneMoves
<1>1. Static /\ conn[c].state = "connecting"
  BY DEF TunnelConnected, Is
<1>2. CASE ReleaseNamed(c, other, sight)
  BY <1>1, <1>2, ReleaseMoves
<1>3. CASE Goes(c, [conn[c] EXCEPT !.state = "peek"])
  <2>1. conn[c] \in Closures /\ Sound(conn[c])
    BY <1>1, Live
  <2>2. conn[c].sent = 0 /\ conn[c].got = 0 /\ conn[c].early \in BOOLEAN /\ conn[c].head \in {"none", "part", "hello"}
    BY <1>1, <2>1 DEF Sound, Closures
  <2>3. [conn[c] EXCEPT !.state = "peek"] =
           [conn[c] EXCEPT !.state = "peek", !.head = conn[c].head, !.early = conn[c].early, !.sent = 0, !.got = 0]
    BY <2>1, <2>2 DEF Closures
  <2>4. Goes(c, [conn[c] EXCEPT !.state = "peek", !.head = conn[c].head, !.early = conn[c].early, !.sent = 0, !.got = 0])
    BY <1>3, <2>3
  <2>5. "peek" \in States /\ 0 \in {0, 1} /\ conn[c].state \notin {"new", "done"}
    BY <1>1 DEF States
  <2> QED BY <1>1, <2>2, <2>4, <2>5, TunnelGoes
<1> QED BY <1>2, <1>3 DEF TunnelConnected

LEMMA TunnelHelloMoves ==
    ASSUME Typed, \A d \in Conns : Sound(conn[d]), NEW c \in Conns, NEW other \in BOOLEAN, NEW sight \in Sights,
           TunnelHello(c, other, sight)
    PROVE  OneMoves
BY ReleaseMoves DEF TunnelHello, Is

LEMMA TunnelPeekOverMoves ==
    ASSUME Typed, \A d \in Conns : Sound(conn[d]), NEW c \in Conns, TunnelPeekOver(c)
    PROVE  OneMoves
<1> DEFINE k == conn[c]
           s == IF k.head = "none" THEN k.sent ELSE 1
<1>1. Static /\ k.state = "peek" /\ Goes(c, [k EXCEPT !.state = "pipe", !.sent = s])
  BY DEF TunnelPeekOver, Is, HandOver
<1>2. k \in Closures
  BY <1>1, Live
<1>3. /\ s \in {0, 1} /\ k.got \in {0, 1} /\ k.early \in BOOLEAN /\ k.head \in {"none", "part", "hello"}
  BY <1>2 DEF Closures
<1> HIDE DEF s
<1>4. [k EXCEPT !.state = "pipe", !.sent = s] =
         [k EXCEPT !.state = "pipe", !.head = k.head, !.early = k.early, !.sent = s, !.got = k.got]
  BY <1>2 DEF Closures
<1>5. Goes(c, [conn[c] EXCEPT !.state = "pipe", !.head = conn[c].head, !.early = conn[c].early, !.sent = s,
                              !.got = conn[c].got])
  BY <1>1, <1>4
<1>6. "pipe" \in States /\ conn[c].state \notin {"new", "done"}
  BY <1>1 DEF States
<1> QED BY ZenonT(60), <1>1, <1>3, <1>5, <1>6, TunnelGoes

LEMMA TunnelTrafficMoves ==
    ASSUME Typed, \A d \in Conns : Sound(conn[d]), NEW c \in Conns, TunnelTraffic(c)
    PROVE  OneMoves
<1> DEFINE k == conn[c]
<1>1. Static /\ k.state = "pipe" /\ Goes(c, [k EXCEPT !.sent = 1, !.got = 1])
  BY DEF TunnelTraffic, Is
<1>2. k \in Closures
  BY <1>1, Live
<1>3. k.early \in BOOLEAN /\ k.head \in {"none", "part", "hello"}
  BY <1>2 DEF Closures
<1>4. [k EXCEPT !.sent = 1, !.got = 1] =
         [k EXCEPT !.state = "pipe", !.head = k.head, !.early = k.early, !.sent = 1, !.got = 1]
  BY <1>1, <1>2 DEF Closures
<1>5. Goes(c, [conn[c] EXCEPT !.state = "pipe", !.head = conn[c].head, !.early = conn[c].early, !.sent = 1, !.got = 1])
  BY <1>1, <1>4
<1>6. "pipe" \in States /\ conn[c].state \notin {"new", "done"} /\ 1 \in {0, 1}
  BY <1>1 DEF States
<1> QED BY <1>1, <1>3, <1>5, <1>6, TunnelGoes

LEMMA TunnelClientLeavesMoves ==
    ASSUME Typed, \A d \in Conns : Sound(conn[d]), NEW c \in Conns, TunnelClientLeaves(c)
    PROVE  OneMoves
<1> DEFINE k == conn[c]
           s == IF k.state = "peek" /\ k.head # "none" THEN 1 ELSE k.sent
<1>1. /\ Static /\ k.state \in {"connecting", "peek", "pipe"}
      /\ \/ k.state = "connecting" /\ Goes(c, [k EXCEPT !.early = TRUE])
         \/ Finish(c, [k EXCEPT !.sent = s])
  BY DEF TunnelClientLeaves, Is
<1>2. /\ k \in Closures /\ Sound(k) /\ k.filed = 0 /\ k.refused = 0 /\ k.kind # "none" /\ Fileable(k)
  BY <1>1, Live
<1>3. s \in {0, 1} /\ k.got \in {0, 1} /\ k.sent \in {0, 1} /\ k.head \in {"none", "part", "hello"}
  BY <1>2 DEF Closures
<1> HIDE DEF s
<1>4. CASE k.state = "connecting" /\ Goes(c, [k EXCEPT !.early = TRUE])
  <2>1. k.sent = 0 /\ k.got = 0
    BY <1>2, <1>4 DEF Sound
  <2>2. [k EXCEPT !.early = TRUE] =
           [k EXCEPT !.state = "connecting", !.head = k.head, !.early = TRUE, !.sent = 0, !.got = 0]
    BY <1>2, <1>4, <2>1 DEF Closures
  <2>3. Goes(c, [k EXCEPT !.state = "connecting", !.head = k.head, !.early = TRUE, !.sent = 0, !.got = 0])
    BY <1>4, <2>2
  <2>4. /\ "connecting" \in States /\ 0 \in {0, 1} /\ TRUE \in BOOLEAN
        /\ "connecting" \in {"connecting", "peek"} /\ k.state = "connecting" /\ 0 = 0
        /\ k.state \notin {"new", "done"}
    BY <1>4 DEF States
  <2> QED BY <1>1, <1>3, <1>4, <2>3, <2>4, TunnelGoes
<1>5. CASE Finish(c, [k EXCEPT !.sent = s])
  <2> DEFINE r == [k EXCEPT !.sent = s]
  <2>1. /\ r \in Closures /\ r.kind = k.kind /\ r.agent = k.agent /\ r.ticket = k.ticket /\ r.at = k.at
        /\ r.seen = k.seen /\ r.whole = k.whole /\ r.refused = 0 /\ r.filed = 0
    BY <1>2, <1>3 DEF Closures
  <2> HIDE DEF r
  <2>2. Fileable(r) /\ SameCharge(k, r)
    BY <1>2, <2>1 DEF Fileable, SameCharge
  <2> QED BY <1>1, <1>2, <1>5, <2>1, <2>2, FinishMoves DEF r
<1> QED BY <1>1, <1>4, <1>5

-----------------------------------------------------------------------------
\* Whatever a connection does, it is one of three things to the ledger.
LEMMA EventMoves ==
    ASSUME Typed, \A d \in Conns : Sound(conn[d]),
           \/ \E c \in HttpConns : HttpNext(c)
           \/ \E c \in TunnelConns : TunnelNext(c)
    PROVE  OneMoves
<1>1. ASSUME NEW c \in HttpConns, HttpNext(c) PROVE OneMoves
  <2>1. c \in Conns
    BY DEF Conns
  <2>2. CASE \E a \in Principals, s \in Sights : HttpOpen(c, a, s)
    <3>1. PICK a \in Principals, s \in Sights : Open(c, "http", a, "none", s)
      BY <2>2 DEF HttpOpen
    <3>2. "http" \in {"http", "tunnel"} /\ "none" \in {"none", "part", "hello"}
      OBVIOUS
    <3> QED BY <2>1, <3>1, <3>2, OpenMoves
  <2>3. CASE \E whole \in BOOLEAN, s \in Sights : HttpBody(c, whole, s)
    BY <2>1, <2>3, HttpBodyMoves
  <2>4. CASE HttpHeaders(c)
    BY <2>1, <2>4, HttpHeadersMoves
  <2>5. CASE \E s \in Sights : HttpEventStream(c, s)
    BY <2>1, <2>5, HttpEventStreamMoves
  <2>6. CASE \E how \in {"ended", "cut", "died"}, s \in Sights : HttpAnswer(c, how, s)
    BY <2>1, <2>6, HttpAnswerMoves
  <2>7. CASE HttpStreamEnds(c) \/ HttpUpstreamError(c) \/ HttpClientLeaves(c)
    BY <2>1, <2>7, EndMoves DEF HttpStreamEnds, HttpUpstreamError, HttpClientLeaves, Is
  <2>8. CASE HttpStreamDies(c)
    BY <2>1, <2>8, HttpStreamDiesMoves
  <2> QED BY <1>1, <2>2, <2>3, <2>4, <2>5, <2>6, <2>7, <2>8 DEF HttpNext
<1>2. ASSUME NEW c \in TunnelConns, TunnelNext(c) PROVE OneMoves
  <2>1. c \in Conns
    BY DEF Conns
  <2>2. CASE \E a \in Principals, head \in {"none", "part", "hello"}, s \in Sights : TunnelOpen(c, a, head, s)
    <3>1. PICK a \in Principals, head \in {"none", "part", "hello"}, s \in Sights : Open(c, "tunnel", a, head, s)
      BY <2>2 DEF TunnelOpen
    <3>2. "tunnel" \in {"http", "tunnel"} /\ "none" \in {"none", "part", "hello"}
      OBVIOUS
    <3> QED BY <2>1, <3>1, <3>2, OpenMoves
  <2>3. CASE \E other \in BOOLEAN, s \in Sights : TunnelConnected(c, other, s) \/ TunnelHello(c, other, s)
    BY <2>1, <2>3, TunnelConnectedMoves, TunnelHelloMoves
  <2>4. CASE TunnelPeekOver(c)
    BY <2>1, <2>4, TunnelPeekOverMoves
  <2>5. CASE TunnelTraffic(c)
    BY <2>1, <2>5, TunnelTrafficMoves
  <2>6. CASE TunnelClientLeaves(c)
    BY <2>1, <2>6, TunnelClientLeavesMoves
  <2>7. CASE TunnelDeadline(c) \/ TunnelUpstreamGone(c)
    BY <2>1, <2>7, EndMoves DEF TunnelDeadline, TunnelUpstreamGone, Is
  <2> QED BY <1>2, <2>2, <2>3, <2>4, <2>5, <2>6, <2>7 DEF TunnelNext
<1> QED BY <1>1, <1>2

-----------------------------------------------------------------------------
(* The ledger under a step.                                                *)

LEMMA HasMin ==
    ASSUME NEW T, T \subseteq Nat, T # {}
    PROVE  Min(T) \in T /\ \A y \in T : Min(T) <= y
<1> DEFINE R == OpToRel(<, Nat)
<1>1. IsWellFoundedOn(R, Nat)
  BY NatLessThanWellFounded
<1>2. \A x, y \in Nat : <<y, x>> \in R <=> y < x
  BY DEF OpToRel
<1> HIDE DEF R
<1>3. PICK x \in T : \A y \in T : ~(<<y, x>> \in R)
  BY <1>1, WFMin
<1>4. \A y \in T : x \in Nat /\ y \in Nat /\ ~(y < x)
  BY <1>2, <1>3
<1>5. \A y \in T : x <= y
  BY <1>4
<1> QED BY <1>5 DEF Min

\* admit: a row of its own at the end, and only rows of an earlier window dropped.
LEMMA AdmitFacts ==
    ASSUME Typed, NEW a \in Agents, first[a] \in 1..(Len(rows[a]) + 1), Admit(a)
    PROVE  /\ rows' \in [Agents -> Seq(LedgerRow)] /\ first' \in [Agents -> Nat]
           /\ open' \in [Agents -> SUBSET Nat]
           /\ \A b \in Agents \ {a} : rows'[b] = rows[b] /\ first'[b] = first[b] /\ open'[b] = open[b]
           /\ Len(rows'[a]) = Len(rows[a]) + 1
           /\ \A t \in 1..Len(rows[a]) : rows'[a][t] = rows[a][t]
           /\ rows'[a][Len(rows[a]) + 1] = [at |-> now, bytes |-> 0]
           /\ open'[a] = open[a] \cup {Len(rows[a]) + 1}
           /\ first'[a] \in 1..(Len(rows[a]) + 1)
           /\ \A t \in 1..Len(rows[a]) : t < first'[a] => t < first[a] \/ ~InWindow(rows[a][t].at)
<1> DEFINE kept == {t \in first[a]..Len(rows[a]) : InWindow(rows[a][t].at)}
           ticket == Len(rows[a]) + 1
           f == IF kept = {} THEN ticket ELSE Min(kept)
           row == [at |-> now, bytes |-> 0]
<1>1. /\ rows' = [rows EXCEPT ![a] = Append(rows[a], row)]
      /\ first' = [first EXCEPT ![a] = f]
      /\ open' = [open EXCEPT ![a] = @ \cup {ticket}]
  BY DEF Admit
<1>2. /\ rows \in [Agents -> Seq(LedgerRow)] /\ first \in [Agents -> Nat] /\ open \in [Agents -> SUBSET Nat]
      /\ rows[a] \in Seq(LedgerRow) /\ Len(rows[a]) \in Nat /\ row \in LedgerRow
  BY DEF Typed, LedgerRow
<1>3. kept \subseteq Nat
  BY <1>2
<1>4. kept # {} => Min(kept) \in kept /\ \A y \in kept : Min(kept) <= y
  BY <1>3, HasMin
<1>5. f \in 1..ticket
  BY <1>2, <1>4
<1>6. ASSUME NEW t \in 1..Len(rows[a]), t < f
      PROVE  t < first[a] \/ ~InWindow(rows[a][t].at)
  <2>1. t \notin kept
    <3>1. SUFFICES ASSUME t \in kept PROVE FALSE
      OBVIOUS
    <3> HIDE DEF kept
    <3>2. f = Min(kept) /\ f <= t /\ f \in Nat /\ t \in Nat
      BY <1>3, <1>4, <3>1
    <3> HIDE DEF f
    <3> QED BY <1>6, <3>2
  <2> QED BY <1>2, <2>1
<1> HIDE DEF f, row
<1>7. /\ Append(rows[a], row) \in Seq(LedgerRow) /\ Len(Append(rows[a], row)) = Len(rows[a]) + 1
      /\ Append(rows[a], row)[Len(rows[a]) + 1] = row
      /\ \A t \in 1..Len(rows[a]) : Append(rows[a], row)[t] = rows[a][t]
  BY <1>2
<1>8. rows' \in [Agents -> Seq(LedgerRow)] /\ first' \in [Agents -> Nat] /\ open' \in [Agents -> SUBSET Nat]
  BY <1>1, <1>2, <1>5, <1>7
<1>9. rows'[a] = Append(rows[a], row) /\ first'[a] = f /\ open'[a] = open[a] \cup {ticket}
  BY <1>1, <1>2
<1>10. \A b \in Agents \ {a} : rows'[b] = rows[b] /\ first'[b] = first[b] /\ open'[b] = open[b]
  BY <1>1, <1>2
<1> QED BY <1>5, <1>6, <1>7, <1>8, <1>9, <1>10 DEF row

\* settle: the bytes land on the one row, and it is closed.
LEMMA SettleFacts ==
    ASSUME Typed, NEW a \in Agents, NEW t \in DOMAIN rows[a], t \in open[a], NEW m \in Nat, Settle(a, t, m)
    PROVE  /\ rows' \in [Agents -> Seq(LedgerRow)] /\ first' = first
           /\ open' \in [Agents -> SUBSET Nat]
           /\ \A b \in Agents \ {a} : rows'[b] = rows[b] /\ open'[b] = open[b]
           /\ Len(rows'[a]) = Len(rows[a]) /\ DOMAIN rows'[a] = DOMAIN rows[a]
           /\ \A u \in DOMAIN rows[a] : u # t => rows'[a][u] = rows[a][u]
           /\ rows'[a][t].at = rows[a][t].at /\ rows'[a][t].bytes = rows[a][t].bytes + m
           /\ open'[a] = open[a] \ {t}
<1> DEFINE v == rows[a][t].bytes + m
           row == [rows[a][t] EXCEPT !.bytes = v]
           new == [rows[a] EXCEPT ![t] = row]
<1>1. /\ rows \in [Agents -> Seq(LedgerRow)] /\ rows[a] \in Seq(LedgerRow) /\ rows[a][t] \in LedgerRow
      /\ rows[a][t].bytes \in Nat /\ open \in [Agents -> SUBSET Nat]
  <2>1. rows[a] \in Seq(LedgerRow) /\ rows \in [Agents -> Seq(LedgerRow)] /\ open \in [Agents -> SUBSET Nat]
    BY DEF Typed
  <2>2. rows[a][t] \in LedgerRow
    BY <2>1
  <2> QED BY <2>1, <2>2 DEF LedgerRow
<1>2. rows' = [rows EXCEPT ![a] = new] /\ open' = [open EXCEPT ![a] = @ \ {t}] /\ first' = first
  BY <1>1 DEF Settle
<1>3. row \in LedgerRow /\ row.at = rows[a][t].at /\ row.bytes = v
  <2>1. v \in Nat
    BY <1>1
  <2> HIDE DEF v
  <2> QED BY <1>1, <2>1 DEF LedgerRow
<1> HIDE DEF row
<1>4. /\ new \in Seq(LedgerRow) /\ Len(new) = Len(rows[a]) /\ DOMAIN new = DOMAIN rows[a] /\ new[t] = row
      /\ \A u \in DOMAIN rows[a] : u # t => new[u] = rows[a][u]
  BY <1>1, <1>3
<1> HIDE DEF new
<1>5. rows'[a] = new /\ rows' \in [Agents -> Seq(LedgerRow)] /\ open' \in [Agents -> SUBSET Nat] /\ open'[a] = open[a] \ {t}
  BY <1>1, <1>2, <1>4
<1>6. \A b \in Agents \ {a} : rows'[b] = rows[b] /\ open'[b] = open[b]
  BY <1>1, <1>2
<1> QED BY <1>2, <1>3, <1>4, <1>5, <1>6

\* A connection that is not charged by a step is charged as it was.
LEMMA SameCharged ==
    ASSUME Typed, NEW c \in Conns, NEW k \in Closures, conn' = [conn EXCEPT ![c] = k], SameCharge(conn[c], k)
    PROVE  /\ \A b : Charged(b)' = Charged(b)
           /\ \A b : \A d \in Charged(b) : conn'[d].ticket = conn[d].ticket /\ conn'[d].at = conn[d].at
           /\ \A d \in Conns : d # c => conn'[d] = conn[d]
           /\ conn'[c] = k
<1>1. conn'[c] = k /\ \A d \in Conns : d # c => conn'[d] = conn[d]
  BY DEF Typed
<1>2. \A d \in Conns :
         /\ conn'[d].ticket = conn[d].ticket
         /\ conn[d].ticket # 0 => conn'[d].agent = conn[d].agent /\ conn'[d].at = conn[d].at
  BY <1>1 DEF SameCharge
<1>3. \A b : Charged(b)' = Charged(b)
  BY <1>2 DEF Charged
<1>4. \A b : \A d \in Charged(b) : conn'[d].ticket = conn[d].ticket /\ conn'[d].at = conn[d].at
  BY <1>2 DEF Charged
<1> QED BY <1>1, <1>3, <1>4

LEMMA KeepsBooks ==
    ASSUME Typed, Books, NEW c \in Conns, NEW k \in Closures, conn' = [conn EXCEPT ![c] = k], Keeps(c, k),
           UNCHANGED <<setup, now>>
    PROVE  Typed' /\ Books'
<1>1. /\ \A b : Charged(b)' = Charged(b)
      /\ \A b : \A d \in Charged(b) : conn'[d].ticket = conn[d].ticket /\ conn'[d].at = conn[d].at
      /\ \A d \in Conns : d # c => conn'[d] = conn[d]
      /\ conn'[c] = k
  BY SameCharged DEF Keeps
<1>2. rows' = rows /\ first' = first /\ open' = open /\ now' = now /\ conn[c].filed = 0 /\ k.filed = 0
  BY DEF Keeps, NoCharge
<1>3. Typed'
  BY <1>2 DEF Typed
<1>4. ASSUME NEW b \in Agents PROVE Booked(b)'
  <2>1. Booked(b)
    BY DEF Books
  <2>2. \A d \in Charged(b) : d \in Conns
    BY DEF Charged
  <2>3. ASSUME NEW d \in Charged(b)
        PROVE  /\ conn'[d].filed = conn[d].filed
               /\ conn[d].filed # 0 => conn'[d].sent = conn[d].sent /\ conn'[d].got = conn[d].got
    BY <1>1, <1>2, <2>2
  <2>4. \A d \in Charged(b)' : conn'[d].ticket \in DOMAIN rows'[b]
    BY <1>1, <1>2, <2>1 DEF Booked
  <2>5. \A t \in DOMAIN rows'[b] : \E d \in Charged(b)' : conn'[d].ticket = t
    BY <1>1, <1>2, <2>1 DEF Booked
  <2>6. \A d, e \in Charged(b)' : conn'[d].ticket = conn'[e].ticket => d = e
    BY <1>1, <1>2, <2>1 DEF Booked
  <2>7. \A d \in Charged(b)' :
           LET row == rows'[b][conn'[d].ticket] IN
           /\ row.at = conn'[d].at /\ row.at <= now'
           /\ (conn'[d].ticket \in open'[b]) = (conn'[d].filed = 0)
           /\ row.bytes = IF conn'[d].filed = 0 THEN 0 ELSE conn'[d].sent + conn'[d].got
    BY <1>1, <1>2, <2>1, <2>3 DEF Booked
  <2> QED BY <1>2, <2>1, <2>4, <2>5, <2>6, <2>7 DEF Booked
<1> QED BY <1>3, <1>4 DEF Books

LEMMA SettlesBooks ==
    ASSUME Typed, Books, NEW c \in Conns, NEW k \in Closures, Sound(k), conn' = [conn EXCEPT ![c] = k],
           Settles(c, k), UNCHANGED <<setup, now>>
    PROVE  Typed' /\ Books'
<1> DEFINE a == k.agent
           u == k.ticket
<1>1. /\ \A b : Charged(b)' = Charged(b)
      /\ \A b : \A d \in Charged(b) : conn'[d].ticket = conn[d].ticket /\ conn'[d].at = conn[d].at
      /\ \A d \in Conns : d # c => conn'[d] = conn[d]
      /\ conn'[c] = k
  BY SameCharged DEF Settles
<1>2. conn[c].filed = 0 /\ k.filed = 1 /\ now' = now /\ setup' = setup /\ k.sent \in Nat /\ k.got \in Nat
  BY DEF Settles, Closures
<1>3. conn' \in [Conns -> Closures]
  BY DEF Typed
<1>4. CASE u = 0
  <2>1. rows' = rows /\ first' = first /\ open' = open /\ conn[c].ticket = 0
    BY <1>4 DEF Settles, NoCharge, SameCharge
  <2>2. \A b : \A d \in Charged(b) : conn'[d] = conn[d]
    BY <1>1, <2>1 DEF Charged
  <2>3. Typed'
    BY <1>2, <1>3, <2>1 DEF Typed
  <2>4. ASSUME NEW b \in Agents PROVE Booked(b)'
    <3>1. Booked(b)
      BY DEF Books
    <3>2. \A d \in Charged(b) : conn'[d] = conn[d]
      BY <2>2
    <3> QED BY <1>1, <1>2, <2>1, <3>1, <3>2 DEF Booked
  <2> QED BY <2>3, <2>4 DEF Books
<1>5. CASE u # 0
  <2>1. a \in Agents /\ conn[c].agent = a /\ conn[c].ticket = u /\ Settle(a, u, k.sent + k.got)
    BY <1>5 DEF Settles, SameCharge, Sound
  <2>2. c \in Charged(a) /\ \A b : b # a => c \notin Charged(b)
    BY <1>5, <2>1 DEF Charged
  <2>3. Booked(a)
    BY <2>1 DEF Books
  <2>4. u \in DOMAIN rows[a] /\ u \in open[a] /\ rows[a][u].bytes = 0
    BY <1>2, <2>1, <2>2, <2>3 DEF Booked
  <2>5. k.sent + k.got \in Nat
    BY <1>2
  <2> HIDE DEF a, u
  <2>6. /\ rows' \in [Agents -> Seq(LedgerRow)] /\ first' = first
        /\ open' \in [Agents -> SUBSET Nat]
        /\ \A b \in Agents \ {a} : rows'[b] = rows[b] /\ open'[b] = open[b]
        /\ Len(rows'[a]) = Len(rows[a]) /\ DOMAIN rows'[a] = DOMAIN rows[a]
        /\ \A t \in DOMAIN rows[a] : t # u => rows'[a][t] = rows[a][t]
        /\ rows'[a][u].at = rows[a][u].at /\ rows'[a][u].bytes = rows[a][u].bytes + (k.sent + k.got)
        /\ open'[a] = open[a] \ {u}
    BY <2>1, <2>4, <2>5, SettleFacts
  <2>7. Typed'
    BY <1>2, <1>3, <2>6 DEF Typed
  <2>8. ASSUME NEW b \in Agents, b # a PROVE Booked(b)'
    <3>1. Booked(b)
      BY DEF Books
    <3>2. \A d \in Charged(b) : conn'[d] = conn[d]
      BY <1>1, <2>2, <2>8 DEF Charged
    <3>3. rows'[b] = rows[b] /\ open'[b] = open[b] /\ first'[b] = first[b]
      BY <2>6, <2>8
    <3> QED BY <1>1, <1>2, <3>1, <3>2, <3>3 DEF Booked
  <2>9. Booked(a)'
    <3>1. \A d \in Charged(a)' : conn'[d].ticket \in DOMAIN rows'[a]
      BY <1>1, <2>3, <2>6 DEF Booked
    <3>2. \A t \in DOMAIN rows'[a] : \E d \in Charged(a)' : conn'[d].ticket = t
      BY <1>1, <2>3, <2>6 DEF Booked
    <3>3. \A d, e \in Charged(a)' : conn'[d].ticket = conn'[e].ticket => d = e
      BY <1>1, <2>3 DEF Booked
    <3>4. ASSUME NEW d \in Charged(a)'
          PROVE  LET row == rows'[a][conn'[d].ticket] IN
                 /\ row.at = conn'[d].at /\ row.at <= now'
                 /\ (conn'[d].ticket \in open'[a]) = (conn'[d].filed = 0)
                 /\ row.bytes = IF conn'[d].filed = 0 THEN 0 ELSE conn'[d].sent + conn'[d].got
      <4>1. d \in Charged(a) /\ d \in Conns /\ conn[d].ticket \in DOMAIN rows[a] /\ conn'[d].ticket = conn[d].ticket
        BY ZenonT(60), <1>1, <2>3 DEF Booked, Charged
      <4>2. CASE d = c
        <5>1. conn[d].ticket = u /\ conn'[d].ticket = u /\ conn'[d] = k /\ conn'[d].at = conn[d].at
          BY <1>1, <2>1, <4>1, <4>2
        <5>2. rows[a][u].at = conn[d].at /\ rows[a][u].at <= now
          BY <2>3, <4>1, <5>1 DEF Booked
        <5>3. rows'[a][u].bytes = k.sent + k.got
          BY <2>4, <2>5, <2>6
        <5>4. u \notin open'[a] /\ rows'[a][u].at = rows[a][u].at
          BY <2>6
        <5> QED BY <1>2, <5>1, <5>2, <5>3, <5>4
      <4>3. CASE d # c
        <5>1. conn'[d] = conn[d] /\ conn[d].ticket # u
          BY <1>1, <2>1, <2>2, <2>3, <4>1, <4>3 DEF Booked
        <5>2. rows'[a][conn[d].ticket] = rows[a][conn[d].ticket]
          BY <2>6, <4>1, <5>1
        <5>3. (conn[d].ticket \in open'[a]) = (conn[d].ticket \in open[a])
          BY <2>6, <5>1
        <5> QED BY <1>2, <2>3, <4>1, <5>1, <5>2, <5>3 DEF Booked
      <4> QED BY <4>2, <4>3
    <3>5. open'[a] \subseteq DOMAIN rows'[a] /\ first'[a] \in 1..(Len(rows'[a]) + 1)
      BY <2>3, <2>6 DEF Booked
    <3>6. \A t \in DOMAIN rows'[a] : t < first'[a] => rows'[a][t].at <= now' - Window
      BY <1>2, <2>3, <2>4, <2>6 DEF Booked
    <3> QED BY <3>1, <3>2, <3>3, <3>4, <3>5, <3>6 DEF Booked
  <2> QED BY <2>7, <2>8, <2>9 DEF Books
<1> QED BY <1>4, <1>5

\* Who is charged once c has been admitted.
LEMMA AdmittedCharges ==
    ASSUME Typed, NEW c \in Conns, NEW k \in Closures, conn' = [conn EXCEPT ![c] = k], Admits(c, k)
    PROVE  /\ \A b \in Agents : b # k.agent => Charged(b)' = Charged(b)
           /\ Charged(k.agent)' = Charged(k.agent) \cup {c}
           /\ \A b : c \notin Charged(b)
           /\ \A b : \A d \in Charged(b) : d # c /\ conn'[d] = conn[d]
           /\ conn'[c] = k
<1>1. conn'[c] = k /\ \A d \in Conns : d # c => conn'[d] = conn[d]
  BY DEF Typed
<1>2. conn[c].ticket = 0 /\ k.ticket # 0
  <2>1. k.ticket = Len(rows[k.agent]) + 1 /\ rows[k.agent] \in Seq(LedgerRow) /\ conn[c].ticket = 0
    BY DEF Admits, Typed
  <2>2. Len(rows[k.agent]) \in Nat
    BY <2>1
  <2> QED BY <2>1, <2>2
<1>3. \A b : c \notin Charged(b)
  BY <1>2 DEF Charged
<1>4. \A b : \A d \in Charged(b) : d # c /\ conn'[d] = conn[d]
  BY <1>1, <1>3 DEF Charged
<1>5. \A b : Charged(b)' = Charged(b) \cup (IF b = k.agent THEN {c} ELSE {})
  BY <1>1, <1>2 DEF Charged
<1> QED BY <1>1, <1>3, <1>4, <1>5

LEMMA AdmitsBooks ==
    ASSUME Typed, Books, NEW c \in Conns, NEW k \in Closures, conn' = [conn EXCEPT ![c] = k], Admits(c, k),
           UNCHANGED <<setup, now>>
    PROVE  Typed' /\ Books'
<1> DEFINE a == k.agent
           n == Len(rows[a])
<1>1. /\ a \in Agents /\ k.ticket = n + 1 /\ k.at = now /\ k.filed = 0 /\ Admit(a) /\ now' = now /\ setup' = setup
  BY DEF Admits
<1>2. /\ \A b \in Agents : b # a => Charged(b)' = Charged(b)
      /\ Charged(a)' = Charged(a) \cup {c}
      /\ \A b : c \notin Charged(b)
      /\ \A b : \A d \in Charged(b) : d # c /\ conn'[d] = conn[d]
      /\ conn'[c] = k
  BY AdmittedCharges
<1>3. Booked(a) /\ n \in Nat /\ DOMAIN rows[a] = 1..n /\ now \in Nat /\ now <= now
  BY <1>1 DEF Books, Typed
<1>4. first[a] \in 1..(n + 1)
  BY <1>3 DEF Booked
<1> HIDE DEF a
<1>5. /\ rows' \in [Agents -> Seq(LedgerRow)] /\ first' \in [Agents -> Nat]
      /\ open' \in [Agents -> SUBSET Nat]
      /\ \A b \in Agents \ {a} : rows'[b] = rows[b] /\ first'[b] = first[b] /\ open'[b] = open[b]
      /\ Len(rows'[a]) = n + 1
      /\ \A t \in 1..n : rows'[a][t] = rows[a][t]
      /\ rows'[a][n + 1] = [at |-> now, bytes |-> 0]
      /\ open'[a] = open[a] \cup {n + 1}
      /\ first'[a] \in 1..(n + 1)
      /\ \A t \in 1..n : t < first'[a] => t < first[a] \/ ~InWindow(rows[a][t].at)
  BY <1>1, <1>4, AdmitFacts
<1>6. DOMAIN rows'[a] = 1..(n + 1)
  <2>1. rows'[a] \in Seq(LedgerRow)
    BY <1>1, <1>5
  <2> QED BY <1>5, <2>1
<1>7. Typed'
  <2>1. conn' \in [Conns -> Closures]
    BY DEF Typed
  <2> QED BY <1>1, <1>5, <2>1 DEF Typed
<1> HIDE DEF n
<1>8. ASSUME NEW b \in Agents, b # a PROVE Booked(b)'
  <2>1. Booked(b)
    BY DEF Books
  <2>2. \A d \in Charged(b) : conn'[d] = conn[d]
    BY <1>2
  <2>3. rows'[b] = rows[b] /\ open'[b] = open[b] /\ first'[b] = first[b] /\ Charged(b)' = Charged(b)
    BY <1>2, <1>5, <1>8
  <2> QED BY <1>1, <2>1, <2>2, <2>3 DEF Booked
<1>9. Booked(a)'
  <2>0. \A d \in Charged(a) : conn[d].ticket \in 1..n /\ conn'[d].ticket = conn[d].ticket /\ conn[d].ticket # n + 1
    <3>1. \A d \in Charged(a) : conn[d].ticket \in 1..n /\ conn'[d].ticket = conn[d].ticket
      BY <1>2, <1>3 DEF Booked
    <3> QED BY <1>3, <3>1
  <2>1. \A d \in Charged(a)' : conn'[d].ticket \in DOMAIN rows'[a]
    BY <1>1, <1>2, <1>3, <1>6, <2>0
  <2>2. ASSUME NEW t \in DOMAIN rows'[a] PROVE \E d \in Charged(a)' : conn'[d].ticket = t
    <3>1. CASE t = n + 1
      BY <1>1, <1>2, <3>1
    <3>2. CASE t # n + 1
      <4>1. t \in DOMAIN rows[a]
        BY <1>3, <1>6, <3>2
      <4>2. PICK d \in Charged(a) : conn[d].ticket = t
        BY <1>3, <4>1 DEF Booked
      <4> QED BY <1>2, <2>0, <4>2
    <3> QED BY <3>1, <3>2
  <2>3. ASSUME NEW d \in Charged(a)', NEW e \in Charged(a)', conn'[d].ticket = conn'[e].ticket PROVE d = e
    <3>1. CASE d \in Charged(a) /\ e \in Charged(a)
      BY <1>3, <2>0, <2>3, <3>1 DEF Booked
    <3>2. CASE d = c \/ e = c
      BY <1>1, <1>2, <2>0, <2>3, <3>2
    <3> QED BY <1>2, <3>1, <3>2
  <2>4. ASSUME NEW d \in Charged(a)'
        PROVE  LET row == rows'[a][conn'[d].ticket] IN
               /\ row.at = conn'[d].at /\ row.at <= now'
               /\ (conn'[d].ticket \in open'[a]) = (conn'[d].filed = 0)
               /\ row.bytes = IF conn'[d].filed = 0 THEN 0 ELSE conn'[d].sent + conn'[d].got
    <3>1. CASE d = c
      BY <1>1, <1>2, <1>3, <1>5, <3>1
    <3>2. CASE d \in Charged(a)
      <4>1. conn'[d] = conn[d] /\ rows'[a][conn[d].ticket] = rows[a][conn[d].ticket]
        BY <1>2, <1>5, <2>0, <3>2
      <4>2. (conn[d].ticket \in open'[a]) = (conn[d].ticket \in open[a])
        BY <1>5, <2>0, <3>2
      <4> QED BY <1>1, <1>3, <3>2, <4>1, <4>2 DEF Booked
    <3> QED BY <1>2, <3>1, <3>2
  <2>5. open'[a] \subseteq DOMAIN rows'[a] /\ first'[a] \in 1..(Len(rows'[a]) + 1)
    <3>1. open[a] \subseteq 1..n
      BY <1>3 DEF Booked
    <3> QED BY <1>3, <1>5, <1>6, <3>1
  <2>6. ASSUME NEW t \in DOMAIN rows'[a], t < first'[a] PROVE rows'[a][t].at <= now' - Window
    <3>1. t \in 1..n /\ rows'[a][t] = rows[a][t] /\ (t < first[a] \/ ~InWindow(rows[a][t].at))
      BY <1>3, <1>5, <1>6, <2>6
    <3>2. rows[a][t].at \in Nat
      <4>1. rows[a] \in Seq(LedgerRow) /\ t \in DOMAIN rows[a]
        BY <1>1, <1>3, <3>1 DEF Typed
      <4>2. rows[a][t] \in LedgerRow
        BY <4>1
      <4> QED BY <4>2 DEF LedgerRow
    <3>3. t < first[a] => rows[a][t].at <= now - Window
      BY <1>3, <3>1 DEF Booked
    <3>4. ~InWindow(rows[a][t].at) => rows[a][t].at <= now - Window
      BY <1>3, <3>2, EgressAssumption DEF InWindow
    <3> QED BY <1>1, <3>1, <3>3, <3>4
  <2> QED BY <2>1, <2>2, <2>3, <2>4, <2>5, <2>6 DEF Booked
<1> QED BY <1>7, <1>8, <1>9 DEF Books

\* The window an admission is judged by holds all the rows of any window it falls in.
LEMMA SpanIsStanding ==
    ASSUME Typed, Books, NEW a \in Agents, NEW t \in Int, now \in t..(t + Window - 1)
    PROVE  IsFiniteSet(Span(a, t)) /\ Cardinality(Span(a, t)) <= Cardinality(Standing(a))
           /\ Cardinality(Standing(a)) \in Nat
<1>1. /\ Booked(a) /\ now \in Nat /\ Window \in Nat /\ Len(rows[a]) \in Nat /\ DOMAIN rows[a] = 1..Len(rows[a])
      /\ first[a] \in Nat
  BY EgressAssumption DEF Books, Typed
<1>2. IsFiniteSet(Standing(a))
  <2>1. IsFiniteSet(first[a]..Len(rows[a]))
    BY <1>1, FS_Interval
  <2>2. Standing(a) \in SUBSET (first[a]..Len(rows[a]))
    BY DEF Standing
  <2> QED BY <2>1, <2>2, FS_Subset
<1> DEFINE f == [c \in Span(a, t) |-> conn[c].ticket]
<1>3. ASSUME NEW c \in Span(a, t) PROVE conn[c].ticket \in Standing(a)
  <2>1. c \in Charged(a) /\ c \in Conns /\ conn[c].at \in Int /\ conn[c].at >= t
    BY DEF Span, Charged, Typed, Closures
  <2>2. /\ conn[c].ticket \in 1..Len(rows[a]) /\ rows[a][conn[c].ticket].at = conn[c].at
        /\ conn[c].ticket < first[a] => conn[c].at <= now - Window
    BY <1>1, <2>1 DEF Booked
  <2>3. conn[c].at > now - Window
    BY <1>1, <2>1
  <2>4. InWindow(rows[a][conn[c].ticket].at) /\ ~(conn[c].ticket < first[a])
    BY <1>1, <2>1, <2>2, <2>3 DEF InWindow
  <2>5. conn[c].ticket \in first[a]..Len(rows[a])
    BY <1>1, <2>2, <2>4
  <2> QED BY <2>4, <2>5 DEF Standing
<1>4. \A c, d \in Span(a, t) : conn[c].ticket = conn[d].ticket => c = d
  BY <1>1 DEF Booked, Span
<1>5. f \in [Span(a, t) -> Standing(a)] /\ \A c, d \in Span(a, t) : f[c] = f[d] => c = d
  BY <1>3, <1>4
<1> HIDE DEF f
<1>6. f \in Injection(Span(a, t), Standing(a))
  BY <1>5 DEF Injection, IsInjective
<1> QED BY <1>2, <1>6, FS_Injection, FS_CardinalityType

LEMMA AdmitsExact ==
    ASSUME Typed, Books, Exact, NEW c \in Conns, NEW k \in Closures, conn' = [conn EXCEPT ![c] = k], Admits(c, k),
           UNCHANGED <<setup, now>>
    PROVE  Exact'
<1> SUFFICES ASSUME setup.mode # "monitor", NEW b \in Agents, NEW t \in Int
             PROVE  IsFiniteSet(Span(b, t))' /\ (Cardinality(Span(b, t)) <= setup.requests)'
  BY DEF Exact
<1>1. /\ \A e \in Agents : e # k.agent => Charged(e)' = Charged(e)
      /\ Charged(k.agent)' = Charged(k.agent) \cup {c}
      /\ \A e : \A d \in Charged(e) : d # c /\ conn'[d] = conn[d]
      /\ conn'[c] = k
  BY AdmittedCharges
<1>2. IsFiniteSet(Span(b, t)) /\ Cardinality(Span(b, t)) <= setup.requests
  BY DEF Exact
<1>3. CASE Span(b, t)' = Span(b, t)
  BY <1>2, <1>3
<1>4. CASE Span(b, t)' # Span(b, t)
  <2>1. b = k.agent /\ now \in t..(t + Window - 1) /\ Span(b, t)' = Span(b, t) \cup {c}
    <3>1. b = k.agent
      <4>1. SUFFICES ASSUME b # k.agent PROVE Span(b, t)' = Span(b, t)
        BY <1>4
      <4>2. Charged(b)' = Charged(b)
        BY <1>1, <4>1
      <4> QED BY <1>1, <4>2 DEF Span
    <3>2. Span(b, t)' = Span(b, t) \cup (IF now \in t..(t + Window - 1) THEN {c} ELSE {})
      BY <1>1, <3>1 DEF Span, Admits
    <3> QED BY <1>4, <3>1, <3>2
  <2>2. Cardinality(Span(b, t)) <= Cardinality(Standing(b)) /\ Cardinality(Standing(b)) \in Nat
    BY <2>1, SpanIsStanding
  <2>3. Cardinality(Standing(b)) < setup.requests
    <3>1. ~Exhausted(b) /\ b \in Agents
      BY <2>1 DEF Admits
    <3>2. setup.requests \in Nat
      BY EgressAssumption DEF Typed
    <3> QED BY <2>2, <3>1, <3>2 DEF Exhausted
  <2>4. IsFiniteSet(Span(b, t) \cup {c}) /\ Cardinality(Span(b, t) \cup {c}) <= Cardinality(Span(b, t)) + 1
        /\ Cardinality(Span(b, t)) \in Nat /\ Cardinality(Span(b, t) \cup {c}) \in Nat
    <3> DEFINE S == Span(b, t)
    <3>1. IsFiniteSet(S)
      BY <1>2
    <3> HIDE DEF S
    <3>2. IsFiniteSet(S \cup {c}) /\ Cardinality(S \cup {c}) = IF c \in S THEN Cardinality(S) ELSE Cardinality(S) + 1
      BY <3>1, FS_AddElement
    <3>3. Cardinality(S) \in Nat /\ Cardinality(S \cup {c}) \in Nat
      BY <3>1, <3>2, FS_CardinalityType
    <3>4. IsFiniteSet(S \cup {c}) /\ Cardinality(S \cup {c}) <= Cardinality(S) + 1
      BY <3>2, <3>3
    <3> QED BY <3>3, <3>4 DEF S
  <2>5. setup.requests \in Nat
    BY EgressAssumption DEF Typed
  <2>6. Cardinality(Span(b, t) \cup {c}) <= setup.requests
    BY <2>2, <2>3, <2>4, <2>5
  <2> QED BY <2>1, <2>4, <2>6
<1> QED BY <1>3, <1>4

LEMMA SameExact ==
    ASSUME Typed, Exact, NEW c \in Conns, NEW k \in Closures, conn' = [conn EXCEPT ![c] = k], SameCharge(conn[c], k),
           UNCHANGED <<setup, now>>
    PROVE  Exact'
<1>1. /\ \A b : Charged(b)' = Charged(b)
      /\ \A b : \A d \in Charged(b) : conn'[d].at = conn[d].at
  BY SameCharged
<1>2. \A b, t : Span(b, t)' = Span(b, t)
  BY <1>1 DEF Span
<1> QED BY <1>2 DEF Exact

LEMMA OneMovesInv ==
    ASSUME ProxyInv, OneMoves
    PROVE  ProxyInv'
<1>1. PICK c \in Conns, k \in Closures :
         /\ conn' = [conn EXCEPT ![c] = k] /\ Sound(k)
         /\ Keeps(c, k) \/ Settles(c, k) \/ Admits(c, k)
  BY DEF OneMoves
<1>2. UNCHANGED <<setup, now>> /\ Typed /\ Books /\ Exact
  BY DEF OneMoves, ProxyInv
<1>3. \A d \in Conns : Sound(conn[d])'
  <2>1. \A d \in Conns : conn'[d] = conn[d] \/ conn'[d] = k
    BY <1>1, <1>2 DEF Typed
  <2> QED BY <1>1, <2>1 DEF ProxyInv, Sound
<1>4. CASE Keeps(c, k)
  <2>1. SameCharge(conn[c], k)
    BY <1>4 DEF Keeps
  <2> QED BY <1>1, <1>2, <1>3, <1>4, <2>1, KeepsBooks, SameExact DEF ProxyInv
<1>5. CASE Settles(c, k)
  <2>1. SameCharge(conn[c], k)
    BY <1>5 DEF Settles
  <2> QED BY <1>1, <1>2, <1>3, <1>5, <2>1, SettlesBooks, SameExact DEF ProxyInv
<1>6. CASE Admits(c, k)
  BY <1>1, <1>2, <1>3, <1>6, AdmitsBooks, AdmitsExact DEF ProxyInv
<1> QED BY <1>1, <1>4, <1>5, <1>6

\* The clock moves on: what has left the window stays out of it.
LEMMA TimePasses ==
    ASSUME ProxyInv, UNCHANGED <<setup, rows, first, open, conn>>, now' \in {now, now + 1}
    PROVE  ProxyInv'
<1>1. Typed' /\ \A d \in Conns : Sound(conn[d])'
  BY DEF ProxyInv, Typed, Sound
<1>2. ASSUME NEW a \in Agents PROVE Booked(a)'
  <2>1. Booked(a) /\ now \in Nat /\ Window \in Nat
    BY EgressAssumption DEF ProxyInv, Books, Typed
  <2>2. \A t \in DOMAIN rows[a] : rows[a][t].at \in Nat
    <3>1. rows[a] \in Seq(LedgerRow)
      BY DEF ProxyInv, Typed
    <3>2. \A t \in DOMAIN rows[a] : rows[a][t] \in LedgerRow
      BY <3>1
    <3> QED BY <3>2 DEF LedgerRow
  <2>3. Charged(a)' = Charged(a)
    BY DEF Charged
  <2>4. \A t \in DOMAIN rows[a] :
           /\ rows[a][t].at <= now => rows[a][t].at <= now'
           /\ rows[a][t].at <= now - Window => rows[a][t].at <= now' - Window
    BY <2>1, <2>2
  <2>5. ASSUME NEW d \in Charged(a) PROVE rows[a][conn[d].ticket].at <= now'
    <3>1. conn[d].ticket \in DOMAIN rows[a] /\ rows[a][conn[d].ticket].at <= now
      BY <2>1 DEF Booked
    <3> QED BY <2>4, <3>1
  <2>6. ASSUME NEW t \in DOMAIN rows[a], t < first[a] PROVE rows[a][t].at <= now' - Window
    <3>1. rows[a][t].at <= now - Window
      BY <2>1, <2>6 DEF Booked
    <3> QED BY <2>4, <3>1
  <2> QED BY <2>1, <2>3, <2>5, <2>6 DEF Booked
<1>3. Exact'
  BY DEF ProxyInv, Exact, Span, Charged
<1> QED BY <1>1, <1>2, <1>3 DEF ProxyInv, Books

LEMMA InitInv == Init => ProxyInv
<1> SUFFICES ASSUME Init PROVE ProxyInv
  OBVIOUS
<1>1. /\ setup \in Setups /\ now = 0 /\ rows = [a \in Agents |-> <<>>] /\ first = [a \in Agents |-> 1]
      /\ open = [a \in Agents |-> {}] /\ conn = [c \in Conns |-> NewConn]
  BY DEF Init, GateInit
<1>2. NewConn \in Closures /\ Sound(NewConn)
  BY DEF NewConn, Closures, States, Sound, Principals
<1>3. Typed /\ \A c \in Conns : Sound(conn[c])
  BY <1>1, <1>2 DEF Typed
<1>4. \A a \in Agents : Charged(a) = {} /\ rows[a] = <<>> /\ open[a] = {} /\ first[a] = 1
  BY <1>1 DEF Charged, NewConn
<1>5. Books
  BY <1>4 DEF Books, Booked
<1>6. Exact
  <2>1. \A a \in Agents, t \in Int : Span(a, t) = {}
    BY <1>4 DEF Span
  <2>2. setup.requests \in Nat
    BY <1>1, EgressAssumption
  <2> QED BY <2>1, <2>2, FS_EmptySet DEF Exact
<1> QED BY <1>3, <1>5, <1>6 DEF ProxyInv

LEMMA NextInv == ProxyInv /\ [Next]_vars => ProxyInv'
<1> SUFFICES ASSUME ProxyInv, [Next]_vars PROVE ProxyInv'
  OBVIOUS
<1>1. CASE LockdownNext /\ UNCHANGED <<gateVars, conn>>
  BY <1>1, TimePasses DEF gateVars
<1>2. CASE Tick /\ UNCHANGED conn
  BY <1>2, TimePasses DEF Tick
<1>3. CASE (\E c \in HttpConns : HttpNext(c)) \/ (\E c \in TunnelConns : TunnelNext(c))
  BY <1>3, EventMoves, OneMovesInv DEF ProxyInv
<1>4. CASE UNCHANGED vars
  BY <1>4, TimePasses DEF vars, gateVars
<1> QED BY <1>1, <1>2, <1>3, <1>4 DEF Next

-----------------------------------------------------------------------------
(* What the invariant says of the records and of the budget.               *)

LEMMA InvRows == ProxyInv => RowsMatchConnections
<1> SUFFICES ASSUME ProxyInv, NEW a \in Agents
             PROVE  /\ {conn[c].ticket : c \in Charged(a)} = DOMAIN rows[a]
                    /\ Cardinality(Charged(a)) = Len(rows[a])
                    /\ \A c \in Charged(a) :
                         LET row == rows[a][conn[c].ticket] IN
                         /\ row.at = conn[c].at
                         /\ (conn[c].ticket \in open[a]) = (conn[c].filed = 0)
                         /\ row.bytes = IF conn[c].filed = 0 THEN 0 ELSE conn[c].sent + conn[c].got
  BY DEF RowsMatchConnections
<1>1. Booked(a) /\ Len(rows[a]) \in Nat /\ DOMAIN rows[a] = 1..Len(rows[a])
  BY DEF ProxyInv, Books, Typed
<1>2. {conn[c].ticket : c \in Charged(a)} = DOMAIN rows[a]
  <2>1. \A t \in DOMAIN rows[a] : t \in {conn[c].ticket : c \in Charged(a)}
    BY <1>1 DEF Booked
  <2>2. \A c \in Charged(a) : conn[c].ticket \in DOMAIN rows[a]
    BY <1>1 DEF Booked
  <2> QED BY <2>1, <2>2
<1>3. Cardinality(Charged(a)) = Len(rows[a])
  <2> DEFINE n == Len(rows[a])
             f == [c \in Charged(a) |-> conn[c].ticket]
  <2>1. IsFiniteSet(1..n) /\ Cardinality(1..n) = n
    <3>1. n \in Nat /\ n \in Int /\ 1 \in Int
      BY <1>1
    <3> HIDE DEF n
    <3>2. IsFiniteSet(1..n) /\ Cardinality(1..n) = IF 1 > n THEN 0 ELSE n - 1 + 1
      BY <3>1, FS_Interval
    <3> QED BY <3>1, <3>2
  <2>2. /\ f \in [Charged(a) -> 1..n]
        /\ \A c, d \in Charged(a) : f[c] = f[d] => c = d
        /\ \A t \in 1..n : \E c \in Charged(a) : f[c] = t
    <3>1. /\ \A c \in Charged(a) : conn[c].ticket \in 1..n
          /\ \A c, d \in Charged(a) : conn[c].ticket = conn[d].ticket => c = d
          /\ \A t \in 1..n : \E c \in Charged(a) : conn[c].ticket = t
      BY <1>1 DEF Booked
    <3> HIDE DEF n
    <3>2. \A c \in Charged(a) : f[c] = conn[c].ticket
      OBVIOUS
    <3>3. f \in [Charged(a) -> 1..n]
      BY <3>1
    <3>4. \A t \in 1..n : \E c \in Charged(a) : f[c] = t
      BY <3>1, <3>2
    <3> QED BY <3>1, <3>2, <3>3, <3>4
  <2> HIDE DEF f
  <2>3. f \in Injection(Charged(a), 1..n) /\ f \in Surjection(Charged(a), 1..n)
    BY <2>2 DEF Injection, IsInjective, Surjection
  <2> QED BY <2>1, <2>3, FS_Injection
<1> QED BY <1>1, <1>2, <1>3 DEF Booked

LEMMA InvRecords == ProxyInv => FiledIsClosed /\ RefusedGoesNowhere /\ (~AnswersDie => PlaintextMeansWhole)
<1> SUFFICES ASSUME ProxyInv
             PROVE  FiledIsClosed /\ RefusedGoesNowhere /\ (~AnswersDie => PlaintextMeansWhole)
  OBVIOUS
<1>1. \A c \in Conns : Sound(conn[c])
  BY DEF ProxyInv
<1>2. FiledHoldsNothing /\ RefusedGoesNowhere /\ (~AnswersDie => PlaintextMeansWhole)
  BY <1>1 DEF Sound, FiledHoldsNothing, RefusedGoesNowhere, PlaintextMeansWhole
<1> QED BY <1>2, InvRows DEF FiledIsClosed

LEMMA InvExact == ProxyInv => RequestsAreExact
<1> SUFFICES ASSUME ProxyInv, setup.mode # "monitor", NEW a \in Agents, NEW t \in 0..MaxTime
             PROVE  Cardinality({c \in Charged(a) : conn[c].at \in t..(t + Window - 1)}) <= setup.requests
  BY DEF RequestsAreExact
<1>1. t \in Int
  OBVIOUS
<1> QED BY <1>1 DEF ProxyInv, Exact, Span

-----------------------------------------------------------------------------
(* The byte budget.                                                        *)

\* The window adds up the bytes of its rows.
LEMMA SpentIsSum ==
    ASSUME Typed, Books, NEW a \in Agents
    PROVE  /\ IsFiniteSet(Standing(a)) /\ \A t \in Standing(a) : rows[a][t].bytes \in Nat
           /\ Spent(a) = Sum([t \in Standing(a) |-> rows[a][t].bytes], Standing(a))
<1>1. /\ rows[a] \in Seq(LedgerRow) /\ Len(rows[a]) \in Nat /\ DOMAIN rows[a] = 1..Len(rows[a])
      /\ first[a] \in Nat /\ first[a] >= 1
  <2>1. Booked(a)
    BY DEF Books
  <2>2. rows[a] \in Seq(LedgerRow)
    BY DEF Typed
  <2>3. first[a] \in 1..(Len(rows[a]) + 1) /\ Len(rows[a]) \in Nat
    BY <2>1, <2>2 DEF Booked
  <2> QED BY <2>2, <2>3
<1>2. PICK S : S = Standing(a)
  OBVIOUS
<1>3. IsFiniteSet(S)
  <2>1. IsFiniteSet(first[a]..Len(rows[a]))
    BY <1>1, FS_Interval
  <2>2. S \in SUBSET (first[a]..Len(rows[a]))
    BY <1>2 DEF Standing
  <2> QED BY <2>1, <2>2, FS_Subset
<1>4. \A t \in S : rows[a][t].bytes \in Nat
  <2>1. \A t \in S : t \in first[a]..Len(rows[a])
    BY <1>2 DEF Standing
  <2>2. \A t \in S : rows[a][t] \in LedgerRow
    BY <1>1, <2>1
  <2> QED BY <2>2 DEF LedgerRow
<1>5. PICK F : F = [t \in S |-> rows[a][t].bytes]
  OBVIOUS
<1>6. PICK h : AddsUp(h, F, S)
  BY <1>3, <1>4, <1>5, AddsUpExists
<1>7. \A s \in SUBSET S : s # {} => F[Chosen(s)] = rows[a][Chosen(s)].bytes
  BY <1>5, ChosenIsIn
<1>8. h = [s \in SUBSET S |-> IF s = {} THEN 0 ELSE
              LET x == CHOOSE y \in s : TRUE IN rows[a][x].bytes + h[s \ {x}]]
  BY <1>6, <1>7 DEF AddsUp, Chosen
<1>9. PICK g : g = CHOOSE f : f = [s \in SUBSET S |-> IF s = {} THEN 0 ELSE
                     LET x == CHOOSE y \in s : TRUE IN rows[a][x].bytes + f[s \ {x}]]
  OBVIOUS
<1>10. \E f : f = [s \in SUBSET S |-> IF s = {} THEN 0 ELSE
              LET x == CHOOSE y \in s : TRUE IN rows[a][x].bytes + f[s \ {x}]]
  BY <1>8
<1>11. AddsUp(g, F, S)
  <2>1. g = [s \in SUBSET S |-> IF s = {} THEN 0 ELSE
              LET x == CHOOSE y \in s : TRUE IN rows[a][x].bytes + g[s \ {x}]]
    BY <1>9, <1>10
  <2> QED BY <1>7, <2>1 DEF AddsUp, Chosen
<1>12. Spent(a) = g[S]
  BY <1>2, <1>9 DEF Spent, MapThenSumSet, MapThenFoldSet
<1>13. Sum(F, S) = g[S]
  BY <1>3, <1>4, <1>5, <1>11, SumOfPart
<1> QED BY <1>2, <1>3, <1>4, <1>5, <1>12, <1>13

\* The connections of the window that have ended, and what they moved.
Ended(a) == {d \in Charged(a) : conn[d].filed = 1 /\ conn[d].at > now - Window}
Moved(a) == MapThenSumSet(LAMBDA d : conn[d].sent + conn[d].got, Ended(a))

LEMMA MovedIsSum ==
    ASSUME Typed, NEW a \in Agents, IsFiniteSet(Ended(a))
    PROVE  /\ \A d \in Ended(a) : conn[d].sent + conn[d].got \in Nat
           /\ Moved(a) = Sum([d \in Ended(a) |-> conn[d].sent + conn[d].got], Ended(a))
<1>1. PICK S : S = Ended(a)
  OBVIOUS
<1>2. \A d \in S : conn[d].sent + conn[d].got \in Nat
  <2>1. \A d \in S : conn[d] \in Closures
    BY <1>1 DEF Typed, Ended, Charged
  <2>2. \A d \in S : conn[d].sent \in {0, 1} /\ conn[d].got \in {0, 1}
    BY <2>1 DEF Closures
  <2> QED BY <2>2
<1>3. PICK F : F = [d \in S |-> conn[d].sent + conn[d].got]
  OBVIOUS
<1>4. PICK h : AddsUp(h, F, S)
  BY <1>1, <1>2, <1>3, AddsUpExists
<1>5. \A s \in SUBSET S : s # {} => F[Chosen(s)] = conn[Chosen(s)].sent + conn[Chosen(s)].got
  BY <1>3, ChosenIsIn
<1>6. h = [s \in SUBSET S |-> IF s = {} THEN 0 ELSE
              LET x == CHOOSE y \in s : TRUE IN (conn[x].sent + conn[x].got) + h[s \ {x}]]
  BY <1>4, <1>5 DEF AddsUp, Chosen
<1>7. PICK g : g = CHOOSE f : f = [s \in SUBSET S |-> IF s = {} THEN 0 ELSE
                     LET x == CHOOSE y \in s : TRUE IN (conn[x].sent + conn[x].got) + f[s \ {x}]]
  OBVIOUS
<1>8. \E f : f = [s \in SUBSET S |-> IF s = {} THEN 0 ELSE
              LET x == CHOOSE y \in s : TRUE IN (conn[x].sent + conn[x].got) + f[s \ {x}]]
  BY <1>6
<1>9. AddsUp(g, F, S)
  <2>1. g = [s \in SUBSET S |-> IF s = {} THEN 0 ELSE
              LET x == CHOOSE y \in s : TRUE IN (conn[x].sent + conn[x].got) + g[s \ {x}]]
    BY <1>7, <1>8
  <2> QED BY <1>5, <2>1 DEF AddsUp, Chosen
<1>10. Moved(a) = g[S]
  BY <1>1, <1>7 DEF Moved, MapThenSumSet, MapThenFoldSet
<1>11. Sum(F, S) = g[S]
  BY <1>1, <1>2, <1>3, <1>9, SumOfPart
<1> QED BY <1>1, <1>2, <1>3, <1>10, <1>11

\* What the ended connections of a window moved is on rows the window holds.
LEMMA MovedIsSpent ==
    ASSUME Typed, Books, NEW a \in Agents
    PROVE  Moved(a) \in Nat /\ Spent(a) \in Nat /\ Moved(a) <= Spent(a)
<1>1. /\ Booked(a) /\ now \in Nat /\ Window \in Nat /\ Len(rows[a]) \in Nat /\ DOMAIN rows[a] = 1..Len(rows[a])
      /\ first[a] \in Nat
  BY EgressAssumption DEF Books, Typed
<1>2. PICK S, T : S = Ended(a) /\ T = Standing(a)
  OBVIOUS
<1>3. PICK h : h = [c \in S |-> conn[c].ticket]
  OBVIOUS
<1>4. ASSUME NEW c \in S
      PROVE  /\ conn[c].ticket \in T
             /\ rows[a][conn[c].ticket].bytes = conn[c].sent + conn[c].got
  <2>1. c \in Charged(a) /\ c \in Conns /\ conn[c].filed = 1 /\ conn[c].at \in Int /\ conn[c].at > now - Window
    BY <1>2 DEF Ended, Charged, Typed, Closures
  <2>2. /\ conn[c].ticket \in 1..Len(rows[a]) /\ rows[a][conn[c].ticket].at = conn[c].at
        /\ conn[c].ticket < first[a] => conn[c].at <= now - Window
        /\ rows[a][conn[c].ticket].bytes = conn[c].sent + conn[c].got
    BY <1>1, <2>1 DEF Booked
  <2>3. InWindow(rows[a][conn[c].ticket].at) /\ ~(conn[c].ticket < first[a])
    BY <1>1, <2>1, <2>2 DEF InWindow
  <2>4. conn[c].ticket \in first[a]..Len(rows[a])
    BY <1>1, <2>2, <2>3
  <2> QED BY <1>2, <2>2, <2>3, <2>4 DEF Standing
<1>5. h \in [S -> T] /\ \A c, d \in S : h[c] = h[d] => c = d
  <2>1. \A c, d \in S : conn[c].ticket = conn[d].ticket => c = d
    BY <1>1, <1>2 DEF Booked, Ended
  <2> QED BY <1>3, <1>4, <2>1
<1>6. /\ IsFiniteSet(T) /\ \A t \in T : rows[a][t].bytes \in Nat
      /\ Spent(a) = Sum([t \in T |-> rows[a][t].bytes], T)
  BY <1>2, SpentIsSum
<1>7. IsFiniteSet(S)
  <2>1. h \in Injection(S, T)
    BY <1>5 DEF Injection, IsInjective
  <2> QED BY <1>6, <2>1, FS_Injection
<1>8. /\ \A d \in S : conn[d].sent + conn[d].got \in Nat
      /\ Moved(a) = Sum([d \in S |-> conn[d].sent + conn[d].got], S)
  BY <1>2, <1>7, MovedIsSum
<1>9. PICK F, G : F = [d \in S |-> conn[d].sent + conn[d].got] /\ G = [t \in T |-> rows[a][t].bytes]
  OBVIOUS
<1>10. (\A d \in S : F[d] \in Nat) /\ (\A t \in T : G[t] \in Nat) /\ \A d \in S : F[d] <= G[h[d]]
  BY <1>3, <1>4, <1>6, <1>8, <1>9
<1>11. Sum(F, S) <= Sum(G, T) /\ Sum(F, S) \in Nat /\ Sum(G, T) \in Nat
  BY <1>5, <1>6, <1>7, <1>10, SumLe, SumType
<1> QED BY <1>6, <1>8, <1>9, <1>11

LEMMA AdmittedUnspent ==
    ASSUME ProxyInv, [Next]_vars, NEW c \in Conns, conn[c].ticket = 0, conn'[c].ticket # 0,
           setup.mode # "monitor"
    PROVE  Moved(conn'[c].agent) < setup.bytes
<1>1. Typed /\ Books /\ conn'[c] # conn[c]
  BY DEF ProxyInv
<1>2. OneMoves
  <2>1. CASE (\E d \in HttpConns : HttpNext(d)) \/ (\E d \in TunnelConns : TunnelNext(d))
    BY <2>1, EventMoves DEF ProxyInv, Conns
  <2>2. CASE (LockdownNext /\ UNCHANGED <<gateVars, conn>>) \/ (Tick /\ UNCHANGED conn) \/ UNCHANGED vars
    BY <1>1, <2>2 DEF vars
  <2> QED BY <2>1, <2>2 DEF Next
<1>3. PICK d \in Conns, k \in Closures :
         /\ conn' = [conn EXCEPT ![d] = k]
         /\ Keeps(d, k) \/ Settles(d, k) \/ Admits(d, k)
  BY <1>2 DEF OneMoves
<1>4. d = c /\ conn'[c] = k
  BY <1>1, <1>3 DEF Typed
<1>5. Admits(c, k)
  BY <1>3, <1>4 DEF Keeps, Settles, SameCharge
<1>6. k.agent \in Agents /\ ~Exhausted(k.agent)
  BY <1>5 DEF Admits
<1>7. Spent(k.agent) \in Nat /\ Moved(k.agent) \in Nat /\ Moved(k.agent) <= Spent(k.agent)
  BY <1>1, <1>6, MovedIsSpent
<1>8. setup.bytes \in Nat
  BY <1>1, EgressAssumption DEF Typed
<1>9. ~(Spent(k.agent) >= setup.bytes)
  BY <1>6 DEF Exhausted
<1> QED BY <1>4, <1>7, <1>8, <1>9

-----------------------------------------------------------------------------
(* The stop.                                                               *)

\* What an event may do to its connection while the stop is on.
Halted(j, k) ==
    /\ k.ticket = j.ticket
    /\ k.kind = "http" => k.sent = j.sent /\ k.got = j.got
    /\ j.kind = "none" => k.up = "none"
OneHalts == \E c \in Conns, k \in Closures : conn' = [conn EXCEPT ![c] = k] /\ Halted(conn[c], k)

LEMMA FinishHalts ==
    ASSUME NEW c \in Conns, NEW k \in Closures, k.filed = 0, Halted(conn[c], k), Finish(c, k)
    PROVE  OneHalts
<1> DEFINE f == Filed([k EXCEPT !.up = IF @ = "none" THEN @ ELSE "closed"])
<1>1. /\ f \in Closures /\ f.kind = k.kind /\ f.ticket = k.ticket /\ f.sent = k.sent /\ f.got = k.got
      /\ f.up = IF k.up = "none" THEN "none" ELSE "closed"
  BY FiledFacts
<1>2. conn' = [conn EXCEPT ![c] = f]
  BY DEF Finish
<1> HIDE DEF f
<1>3. Halted(conn[c], f)
  BY <1>1 DEF Halted
<1> QED BY <1>1, <1>2, <1>3 DEF OneHalts

LEMMA OpenHalts ==
    ASSUME ProxyInv, Active, NEW c \in Conns, NEW kind \in {"http", "tunnel"}, NEW a \in Principals,
           NEW head \in {"none", "part", "hello"}, NEW sight \in Sights, Open(c, kind, a, head, sight)
    PROVE  OneHalts
<1> DEFINE j == conn[c]
           k == [j EXCEPT !.kind = kind, !.agent = a, !.head = head]
           r == [k EXCEPT !.refused = 1]
<1>1. j \in Closures /\ Sound(j) /\ j.kind = "none" /\ Finish(c, r)
  BY DEF Open, Allows, ProxyInv, Typed
<1> HIDE DEF j
<1>2. j.state = "new" /\ j.ticket = 0 /\ j.up = "none" /\ j.sent = 0 /\ j.got = 0 /\ j.filed = 0
  BY <1>1 DEF Sound, Closures
<1>3. k \in Closures /\ k.ticket = 0 /\ k.up = "none" /\ k.sent = 0 /\ k.got = 0 /\ k.filed = 0
  BY <1>1, <1>2 DEF Closures
<1> HIDE DEF k
<1>4. r \in Closures /\ r.ticket = 0 /\ r.up = "none" /\ r.sent = 0 /\ r.got = 0 /\ r.filed = 0
  BY <1>3 DEF Closures
<1> HIDE DEF r
<1>5. Halted(conn[c], r)
  BY <1>2, <1>4 DEF Halted, j
<1> QED BY <1>1, <1>4, <1>5, FinishHalts

\* A later pass finds the stop: it refuses, and what it has read stays where it is.
LEMMA RefusalHalts ==
    ASSUME ProxyInv, NEW c \in Conns, conn[c].state \notin {"new", "done"},
           NEW level \in {"stream", "partial", "plaintext"}, NEW whole \in BOOLEAN, NEW n \in {2, 3},
           Finish(c, [Observed(conn[c], level, whole) EXCEPT !.refused = n])
    PROVE  OneHalts
<1> DEFINE j == conn[c]
           s == IF Weakness[level] < Weakness[j.seen] THEN level ELSE j.seen
           w == j.whole /\ whole
           o == [j EXCEPT !.seen = s, !.whole = w]
           r == [o EXCEPT !.refused = n]
<1>1. j \in Closures /\ j.filed = 0 /\ j.kind # "none"
  BY Live DEF ProxyInv
<1>2. Finish(c, r)
  BY DEF Observed
<1> HIDE DEF j
<1>3. s \in {"unread", "stream", "partial", "plaintext"} /\ w \in BOOLEAN
  BY <1>1 DEF Closures
<1> HIDE DEF s, w
<1>4. o \in Closures /\ o.kind = j.kind /\ o.ticket = j.ticket /\ o.sent = j.sent /\ o.got = j.got /\ o.filed = 0
  BY ZenonT(60), <1>1, <1>3 DEF Closures
<1> HIDE DEF o
<1>5. r \in Closures /\ r.kind = j.kind /\ r.ticket = j.ticket /\ r.sent = j.sent /\ r.got = j.got /\ r.filed = 0
  BY <1>4 DEF Closures
<1> HIDE DEF r
<1>6. Halted(conn[c], r)
  BY <1>1, <1>5 DEF Halted, j
<1> QED BY <1>2, <1>5, <1>6, FinishHalts

LEMMA EndHalts ==
    ASSUME ProxyInv, NEW c \in Conns, conn[c].state \notin {"new", "done"}, Finish(c, conn[c])
    PROVE  OneHalts
<1>1. conn[c] \in Closures /\ conn[c].filed = 0 /\ conn[c].kind # "none"
  BY Live DEF ProxyInv
<1>2. Halted(conn[c], conn[c])
  BY <1>1 DEF Halted
<1> QED BY <1>1, <1>2, FinishHalts

LEMMA HttpHalts ==
    ASSUME ProxyInv, Active, NEW c \in HttpConns, HttpNext(c)
    PROVE  OneHalts
<1>1. c \in Conns
  BY DEF Conns
<1>2. ASSUME NEW a \in Principals, NEW s \in Sights, HttpOpen(c, a, s) PROVE OneHalts
  BY <1>1, <1>2, OpenHalts DEF HttpOpen
<1>3. ASSUME NEW whole \in BOOLEAN, NEW s \in Sights, HttpBody(c, whole, s) PROVE OneHalts
  <2> DEFINE level == IF whole THEN "plaintext" ELSE "partial"
  <2>1. /\ conn[c].state = "body" /\ Finish(c, [Observed(conn[c], level, whole) EXCEPT !.refused = 2])
    BY <1>3 DEF HttpBody, Is, Allows
  <2>2. level \in {"stream", "partial", "plaintext"} /\ conn[c].state \notin {"new", "done"} /\ 2 \in {2, 3}
    BY <2>1
  <2> HIDE DEF level
  <2> QED BY <1>1, <2>1, <2>2, RefusalHalts
<1>4. ASSUME NEW s \in Sights, HttpEventStream(c, s) PROVE OneHalts
  <2>1. /\ conn[c].state = "sent" /\ Finish(c, [Observed(conn[c], "stream", FALSE) EXCEPT !.refused = 3])
    BY <1>4 DEF HttpEventStream, Is, Allows
  <2>2. /\ "stream" \in {"stream", "partial", "plaintext"} /\ conn[c].state \notin {"new", "done"} /\ 3 \in {2, 3}
        /\ FALSE \in BOOLEAN
    BY <2>1
  <2> QED BY <1>1, <2>1, <2>2, RefusalHalts
<1>5. ASSUME NEW how \in {"ended", "cut", "died"}, NEW s \in Sights, HttpAnswer(c, how, s) PROVE OneHalts
  <2> DEFINE level == IF how = "cut" THEN "partial" ELSE "plaintext"
             whole == how = "ended"
  <2>1. /\ conn[c].state = "answer" /\ Finish(c, [Observed(conn[c], level, whole) EXCEPT !.refused = 3])
    BY <1>5 DEF HttpAnswer, Is, Allows
  <2>2. /\ level \in {"stream", "partial", "plaintext"} /\ conn[c].state \notin {"new", "done"} /\ 3 \in {2, 3}
        /\ whole \in BOOLEAN
    BY <2>1
  <2> HIDE DEF level, whole
  <2> QED BY <1>1, <2>1, <2>2, RefusalHalts
<1>6. CASE HttpHeaders(c) \/ HttpStreamDies(c)
  <2> DEFINE j == conn[c]
  <2>1. /\ j.state \notin {"new", "done"}
        /\ conn' = [conn EXCEPT ![c] = [j EXCEPT !.state = "answer"]] \/ conn' = [conn EXCEPT ![c] = [j EXCEPT !.up = "closed"]]
    BY <1>6 DEF HttpHeaders, HttpStreamDies, Is, Goes
  <2>2. j \in Closures /\ j.kind # "none"
    BY <1>1, <2>1, Live DEF ProxyInv
  <2> HIDE DEF j
  <2>3. ASSUME NEW r \in {[j EXCEPT !.state = "answer"], [j EXCEPT !.up = "closed"]}
        PROVE  r \in Closures /\ r.kind = j.kind /\ r.ticket = j.ticket /\ r.sent = j.sent /\ r.got = j.got
    <3>1. CASE r = [j EXCEPT !.state = "answer"]
      BY <2>2, <3>1 DEF Closures, States
    <3>2. CASE r = [j EXCEPT !.up = "closed"]
      BY <2>2, <3>2 DEF Closures
    <3> QED BY <3>1, <3>2
  <2>4. PICK r \in {[j EXCEPT !.state = "answer"], [j EXCEPT !.up = "closed"]} : conn' = [conn EXCEPT ![c] = r]
    BY <2>1
  <2>5. r \in Closures /\ Halted(conn[c], r)
    BY <2>2, <2>3, <2>4 DEF Halted, j
  <2> QED BY <1>1, <2>4, <2>5 DEF OneHalts
<1>7. CASE HttpStreamEnds(c) \/ HttpUpstreamError(c) \/ HttpClientLeaves(c)
  BY <1>1, <1>7, EndHalts DEF HttpStreamEnds, HttpUpstreamError, HttpClientLeaves, Is
<1> QED BY <1>2, <1>3, <1>4, <1>5, <1>6, <1>7 DEF HttpNext

\* A tunnel that is up keeps its ticket; the stop does not cut it.
Kin(j) == {r \in Closures : r.kind = j.kind /\ r.ticket = j.ticket /\ r.filed = 0}

LEMMA KinFacts ==
    ASSUME NEW j, NEW k \in Kin(j)
    PROVE  /\ \A state \in States : [k EXCEPT !.state = state] \in Kin(j)
           /\ \A head \in {"none", "part", "hello"} : [k EXCEPT !.head = head] \in Kin(j)
           /\ [k EXCEPT !.early = TRUE] \in Kin(j)
           /\ \A n \in {0, 1} : [k EXCEPT !.sent = n] \in Kin(j)
           /\ [k EXCEPT !.got = 1] \in Kin(j)
           /\ [k EXCEPT !.refused = 2] \in Kin(j)
<1>1. k \in Closures /\ k.kind = j.kind /\ k.ticket = j.ticket /\ k.filed = 0
  BY DEF Kin
<1>2. ASSUME NEW state \in States PROVE [k EXCEPT !.state = state] \in Kin(j)
  BY <1>1 DEF Kin, Closures
<1>3. ASSUME NEW head \in {"none", "part", "hello"} PROVE [k EXCEPT !.head = head] \in Kin(j)
  BY <1>1 DEF Kin, Closures
<1>4. [k EXCEPT !.early = TRUE] \in Kin(j)
  BY ZenonT(60), <1>1 DEF Kin, Closures
<1>5. ASSUME NEW n \in {0, 1} PROVE [k EXCEPT !.sent = n] \in Kin(j)
  BY <1>1 DEF Kin, Closures
<1>6. [k EXCEPT !.got = 1] \in Kin(j) /\ [k EXCEPT !.refused = 2] \in Kin(j)
  BY <1>1 DEF Kin, Closures
<1> QED BY <1>2, <1>3, <1>4, <1>5, <1>6

LEMMA KinHalts ==
    ASSUME NEW c \in Conns, conn[c].kind = "tunnel", NEW k \in Kin(conn[c]), Finish(c, k) \/ Goes(c, k)
    PROVE  OneHalts
<1>1. k \in Closures /\ k.filed = 0 /\ Halted(conn[c], k)
  BY DEF Kin, Halted
<1> QED BY <1>1, FinishHalts DEF Goes, OneHalts

LEMMA TunnelHalts ==
    ASSUME ProxyInv, Active, NEW c \in TunnelConns, TunnelNext(c)
    PROVE  OneHalts
<1> DEFINE j == conn[c]
<1>1. c \in Conns
  BY DEF Conns
<1>2. ASSUME NEW a \in Principals, NEW head \in {"none", "part", "hello"}, NEW s \in Sights, TunnelOpen(c, a, head, s)
      PROVE  OneHalts
  BY <1>1, <1>2, OpenHalts DEF TunnelOpen
<1>3. ASSUME j.kind = "tunnel", j.state \in {"connecting", "peek", "pipe"}
      PROVE  j \in Kin(j) /\ j.head \in {"none", "part", "hello"} /\ j.early \in BOOLEAN /\ j.sent \in {0, 1}
  <2>1. j \in Closures /\ j.filed = 0
    BY <1>1, <1>3, Live DEF ProxyInv
  <2> QED BY <2>1 DEF Kin, Closures
<1>4. "pipe" \in States /\ "peek" \in States
  BY DEF States
<1>5. ASSUME NEW k \in Kin(j), j.kind = "tunnel", HandOver(c, k) PROVE OneHalts
  <2> DEFINE n == IF k.head = "none" THEN k.sent ELSE 1
             m == [k EXCEPT !.state = "pipe"]
             r == [m EXCEPT !.sent = n]
  <2>1. n \in {0, 1} /\ m.sent = k.sent
    BY DEF Kin, Closures
  <2>2. Goes(c, r)
    BY <1>5, <2>1 DEF HandOver
  <2> HIDE DEF n
  <2>3. m \in Kin(j)
    BY <1>4, KinFacts
  <2> HIDE DEF m
  <2>4. r \in Kin(j)
    BY <2>1, <2>3, KinFacts
  <2> QED BY <1>1, <1>5, <2>2, <2>4, KinHalts
<1>6. ASSUME NEW other \in BOOLEAN, NEW s \in Sights, j.kind = "tunnel", j.state \in {"connecting", "peek"},
             ReleaseNamed(c, other, s)
      PROVE  OneHalts
  <2> DEFINE k == [j EXCEPT !.head = "hello"]
  <2>1. k \in Kin(j)
    <3>1. j \in Kin(j) /\ "hello" \in {"none", "part", "hello"}
      BY <1>3, <1>6
    <3> QED BY <3>1, KinFacts
  <2>2. Finish(c, [k EXCEPT !.refused = 2]) \/ HandOver(c, k)
    BY <1>6 DEF ReleaseNamed
  <2> HIDE DEF k
  <2>3. [k EXCEPT !.refused = 2] \in Kin(j)
    BY <2>1, KinFacts
  <2> QED BY <1>1, <1>5, <1>6, <2>1, <2>2, <2>3, KinHalts
<1>7. ASSUME NEW other \in BOOLEAN, NEW s \in Sights, TunnelConnected(c, other, s) PROVE OneHalts
  <2>1. j.kind = "tunnel" /\ j.state = "connecting"
    BY <1>7 DEF TunnelConnected, Is
  <2>2. CASE ReleaseNamed(c, other, s)
    BY <1>6, <2>1, <2>2
  <2>3. CASE Goes(c, [j EXCEPT !.state = "peek"])
    <3>1. [j EXCEPT !.state = "peek"] \in Kin(j)
      BY <1>3, <1>4, <2>1, KinFacts
    <3> QED BY <1>1, <2>1, <2>3, <3>1, KinHalts
  <2> QED BY <1>7, <2>2, <2>3 DEF TunnelConnected
<1>8. ASSUME NEW other \in BOOLEAN, NEW s \in Sights, TunnelHello(c, other, s) PROVE OneHalts
  BY <1>6, <1>8 DEF TunnelHello, Is
<1>9. CASE TunnelPeekOver(c)
  BY <1>3, <1>5, <1>9 DEF TunnelPeekOver, Is
<1>10. CASE TunnelTraffic(c)
  <2> DEFINE m == [j EXCEPT !.sent = 1]
  <2>1. j.kind = "tunnel" /\ j.state = "pipe" /\ Goes(c, [m EXCEPT !.got = 1])
    BY <1>10 DEF TunnelTraffic, Is
  <2>2. m \in Kin(j)
    <3>1. j \in Kin(j) /\ 1 \in {0, 1}
      BY <1>3, <2>1
    <3> QED BY <3>1, KinFacts
  <2> HIDE DEF m
  <2>3. [m EXCEPT !.got = 1] \in Kin(j)
    BY <2>2, KinFacts
  <2> QED BY <1>1, <2>1, <2>3, KinHalts
<1>11. CASE TunnelClientLeaves(c)
  <2> DEFINE n == IF j.state = "peek" /\ j.head # "none" THEN 1 ELSE j.sent
  <2>1. /\ j.kind = "tunnel" /\ j.state \in {"connecting", "peek", "pipe"}
        /\ Goes(c, [j EXCEPT !.early = TRUE]) \/ Finish(c, [j EXCEPT !.sent = n])
    BY <1>11 DEF TunnelClientLeaves, Is
  <2>2. n \in {0, 1}
    BY <1>3, <2>1
  <2> HIDE DEF n
  <2>3. [j EXCEPT !.early = TRUE] \in Kin(j) /\ [j EXCEPT !.sent = n] \in Kin(j)
    BY <1>3, <2>1, <2>2, KinFacts
  <2> QED BY <1>1, <2>1, <2>3, KinHalts
<1>12. CASE TunnelDeadline(c) \/ TunnelUpstreamGone(c)
  BY <1>1, <1>12, EndHalts DEF TunnelDeadline, TunnelUpstreamGone, Is
<1> QED BY <1>2, <1>7, <1>8, <1>9, <1>10, <1>11, <1>12 DEF TunnelNext

LEMMA StopStep ==
    ASSUME ProxyInv, [Next]_vars, Active
    PROVE  \A c \in Conns :
             /\ conn'[c].ticket = conn[c].ticket
             /\ conn'[c].kind = "http" => conn'[c].sent = conn[c].sent /\ conn'[c].got = conn[c].got
             /\ conn[c].kind = "none" => conn'[c].up = "none"
<1>1. \A c \in Conns : conn[c].kind = "none" => conn[c].up = "none"
  BY DEF ProxyInv, Sound
<1>2. CASE conn' = conn
  BY <1>1, <1>2
<1>3. CASE OneHalts
  <2>1. PICK c \in Conns, k \in Closures : conn' = [conn EXCEPT ![c] = k] /\ Halted(conn[c], k)
    BY <1>3 DEF OneHalts
  <2>2. conn'[c] = k /\ \A d \in Conns : d # c => conn'[d] = conn[d]
    BY <2>1 DEF ProxyInv, Typed
  <2> QED BY <1>1, <2>1, <2>2 DEF Halted
<1>4. CASE (\E c \in HttpConns : HttpNext(c)) \/ (\E c \in TunnelConns : TunnelNext(c))
  BY <1>3, <1>4, HttpHalts, TunnelHalts
<1>5. CASE LockdownNext /\ UNCHANGED <<gateVars, conn>>
  BY <1>2, <1>5
<1>6. CASE Tick /\ UNCHANGED conn
  BY <1>2, <1>6
<1>7. CASE UNCHANGED vars
  BY <1>2, <1>7 DEF vars
<1> QED BY <1>4, <1>5, <1>6, <1>7 DEF Next

-----------------------------------------------------------------------------
(* The stop and the clock keep their types.                                *)

Clock == now \in 0..MaxTime

LEMMA LockStep ==
    ASSUME LockdownTypeOK, LockdownNext
    PROVE  LockdownTypeOK'
<1>1. /\ holds \subseteq {"config", "api", "signal", "sentinel"} /\ sentinel \in BOOLEAN /\ since = (holds # {})
      /\ stops \in Nat /\ stops <= MaxStops /\ fsErrors \in Nat /\ fsErrors <= MaxFsErrors
      /\ MaxStops \in Nat /\ MaxFsErrors \in Nat
  BY LockdownAssumption DEF LockdownTypeOK
<1>2. ASSUME NEW e \in BOOLEAN, Counted(e) PROVE stops' \in 0..MaxStops
  BY <1>1, <1>2 DEF Counted
<1>3. ASSUME NEW s \in {"config", "api", "signal", "sentinel"}, Engage(s) \/ Release(s)
      PROVE  holds' \subseteq {"config", "api", "signal", "sentinel"} /\ since' = (holds' # {})
  BY <1>1, <1>3 DEF Engage, Release
<1>4. CASE ApiEngage \/ ApiRelease
  BY <1>1, <1>2, <1>3, <1>4 DEF ApiEngage, ApiRelease, LockdownTypeOK
<1>5. CASE Signal
  BY <1>1, <1>2, <1>3, <1>5 DEF Signal, LockdownTypeOK
<1>6. CASE TouchSentinel
  BY <1>1, <1>2, <1>6 DEF TouchSentinel, LockdownTypeOK
<1>7. CASE PollSentinel
  BY <1>1, <1>3, <1>7 DEF PollSentinel, LockdownTypeOK
<1>8. CASE PollSentinelError
  BY <1>1, <1>3, <1>8 DEF PollSentinelError, LockdownTypeOK
<1> QED BY <1>4, <1>5, <1>6, <1>7, <1>8 DEF LockdownNext

LEMMA LockClockInit == Init => LockdownTypeOK /\ Clock
<1> SUFFICES ASSUME Init PROVE LockdownTypeOK /\ Clock
  OBVIOUS
<1>1. /\ sentinel \in BOOLEAN /\ holds \subseteq {"config", "api", "signal", "sentinel"} /\ since = (holds # {})
      /\ stops = 0 /\ fsErrors = 0 /\ now = 0
  BY DEF Init, LockdownInit, GateInit
<1> QED BY <1>1, LockdownAssumption, EgressAssumption DEF LockdownTypeOK, Clock

LEMMA LockClockNext == LockdownTypeOK /\ Clock /\ [Next]_vars => (LockdownTypeOK /\ Clock)'
<1> SUFFICES ASSUME LockdownTypeOK, Clock, [Next]_vars PROVE (LockdownTypeOK /\ Clock)'
  OBVIOUS
<1>1. CASE LockdownNext /\ UNCHANGED <<gateVars, conn>>
  BY <1>1, LockStep DEF gateVars, Clock
<1>2. CASE Tick /\ UNCHANGED conn
  BY <1>2, EgressAssumption DEF Tick, lockVars, Clock, LockdownTypeOK
<1>3. CASE UNCHANGED <<lockVars, now>>
  BY <1>3 DEF lockVars, Clock, LockdownTypeOK
<1>4. CASE UNCHANGED vars
  BY <1>3, <1>4 DEF vars, gateVars
<1>5. CASE Static
  BY <1>3, <1>5 DEF Static
<1>6. ASSUME NEW c, HttpNext(c) PROVE Static
  BY <1>6 DEF HttpNext, HttpOpen, Open, HttpBody, HttpHeaders, HttpEventStream, HttpAnswer, HttpStreamEnds,
              HttpStreamDies, HttpUpstreamError, HttpClientLeaves
<1>7. ASSUME NEW c, TunnelNext(c) PROVE Static
  BY <1>7 DEF TunnelNext, TunnelOpen, Open, TunnelConnected, TunnelHello, TunnelPeekOver, TunnelTraffic,
              TunnelClientLeaves, TunnelDeadline, TunnelUpstreamGone
<1> QED BY <1>1, <1>2, <1>4, <1>5, <1>6, <1>7 DEF Next

LEMMA InvType == ProxyInv /\ LockdownTypeOK /\ Clock => TypeOK
<1> SUFFICES ASSUME ProxyInv, LockdownTypeOK, Clock PROVE TypeOK
  OBVIOUS
<1>1. ASSUME NEW a \in Agents, NEW t \in DOMAIN rows[a] PROVE rows[a][t].at \in 0..now /\ rows[a][t].bytes \in Nat
  <2>1. rows[a] \in Seq(LedgerRow) /\ now \in Nat /\ Booked(a)
    BY DEF ProxyInv, Typed, Books
  <2>2. rows[a][t].at \in Nat /\ rows[a][t].bytes \in Nat
    <3>1. rows[a][t] \in LedgerRow
      BY <2>1
    <3> QED BY <3>1 DEF LedgerRow
  <2>3. rows[a][t].at <= now
    <3>1. PICK c \in Charged(a) : conn[c].ticket = t
      BY <2>1 DEF Booked
    <3> QED BY <2>1, <3>1 DEF Booked
  <2> QED BY <2>1, <2>2, <2>3
<1>2. \A a \in Agents : first[a] \in 1..(Len(rows[a]) + 1) /\ open[a] \subseteq DOMAIN rows[a]
  BY DEF ProxyInv, Books, Booked
<1>3. GateTypeOK
  BY <1>1, <1>2 DEF GateTypeOK, ProxyInv, Typed, Clock
<1>4. ASSUME NEW c \in Conns
      PROVE  /\ conn[c].agent \in Principals
             /\ conn[c].ticket # 0 => conn[c].ticket \in DOMAIN rows[conn[c].agent]
             /\ conn[c].up \in {"none", "open", "closed"}
             /\ conn[c].filed \in 0..1 /\ conn[c].refused \in 0..3
  <2>1. conn[c] \in Closures /\ Sound(conn[c])
    BY DEF ProxyInv, Typed
  <2>2. /\ conn[c].agent \in Principals /\ conn[c].up \in {"none", "open", "closed"}
        /\ conn[c].filed \in 0..1 /\ conn[c].refused \in 0..3
    BY <2>1 DEF Closures
  <2>3. ASSUME conn[c].ticket # 0 PROVE conn[c].ticket \in DOMAIN rows[conn[c].agent]
    <3>1. conn[c].agent \in Agents /\ c \in Charged(conn[c].agent)
      BY <2>1, <2>3 DEF Sound, Charged
    <3> QED BY <3>1 DEF ProxyInv, Books, Booked
  <2> QED BY <2>2, <2>3
<1> QED BY <1>3, <1>4 DEF TypeOK

-----------------------------------------------------------------------------
(* The theorems.                                                           *)

LEMMA ProxyInvariant == Spec => []ProxyInv
<1> QED BY InitInv, NextInv, PTL DEF Spec

\* Type correctness of the stop, the ledger and every connection's closure.
THEOREM ProxyTypeCorrect == Spec => []TypeOK
<1> QED BY ProxyInvariant, LockClockInit, LockClockNext, InvType, PTL DEF Spec

\* finish, netConnect, recordEgress: an admitted connection has one row, open until
\* its record is filed and then with its bytes; what is filed holds no socket; what
\* was refused went nowhere.  Whatever destinations do.
THEOREM RecordsStand == Spec => [](FiledIsClosed /\ RefusedGoesNowhere)
<1> QED BY ProxyInvariant, InvRecords, PTL

\* And where no destination hangs up inside a response, a record that says
\* "plaintext" was read whole (forward-proxy.ts, observed).
THEOREM RecordsTrue ==
    ASSUME ~AnswersDie
    PROVE  Spec => []RecordsAreTrue
<1>1. ProxyInv => RecordsAreTrue
  BY InvRecords DEF RecordsAreTrue
<1> QED BY <1>1, ProxyInvariant, PTL

\* fleet/budget.ts, "Exact": in an enforcing mode no window ever holds more
\* admissions of an agent than maxRequests, whatever the number of connections.
THEOREM RequestsExact == Spec => []RequestsAreExact
<1> QED BY ProxyInvariant, InvExact, PTL

\* In an enforcing mode both ceilings of a budget hold, for any ends of
\* connections and edges of the window: no more requests than allowed, and none
\* admitted once what ended inside the window has used the bytes up (Exhausted).
THEOREM BudgetsAlwaysHold == Spec => BudgetsHold
<1>1. ProxyInv /\ [Next]_vars => [\A c \in Conns :
         setup.mode # "monitor" /\ conn[c].ticket = 0 /\ conn'[c].ticket # 0 =>
           MapThenSumSet(LAMBDA d : conn[d].sent + conn[d].got,
                         {d \in Charged(conn'[c].agent) :
                            conn[d].filed = 1 /\ conn[d].at > now - Window}) < setup.bytes]_vars
  BY AdmittedUnspent DEF Moved, Ended
<1> QED BY <1>1, ProxyInvariant, RequestsExact, PTL DEF Spec, BudgetsHold, SpentAgentIsRefused

\* While the stop is on, no pass of any connection lets anything through (decide,
\* enforcement.ts): no admission, no request or response, no socket.
THEOREM StopStops == Spec => StopStopsEveryPass
<1>1. ProxyInv /\ [Next]_vars => [Active => \A c \in Conns :
         /\ conn'[c].ticket = conn[c].ticket
         /\ conn'[c].kind = "http" => conn'[c].sent = conn[c].sent /\ conn'[c].got = conn[c].got
         /\ conn[c].kind = "none" => conn'[c].up = "none"]_vars
  BY StopStep
<1> QED BY <1>1, ProxyInvariant, PTL DEF Spec, StopStopsEveryPass

=============================================================================
