-------------------------- MODULE InspectionProofs --------------------------
(***************************************************************************)
(* What holds of what stands between an agent and the network: content     *)
(* inspection for any cap and any bodies, any number of redirected         *)
(* connections, the verdict of a capture check, and the perimeter.         *)
(***************************************************************************)
EXTENDS TlsIntercept, Transparent, Capture, Perimeter, Sums, SequenceTheorems

-----------------------------------------------------------------------------
(* The intercepted exchange.                                               *)

Kinds == {"readable"} \cup UNION {s.kinds : s \in Setups}
Messages ==
    [kind : Kinds, state : {"idle", "draining", "settled"}, sent : Nat, read : Nat, held : Nat, out : Nat,
     rest : BOOLEAN, note : BOOLEAN, fin : {"open", "ended", "cut"}, told : BOOLEAN]
Exchanges ==
    [up : {"none", "open", "closed"}, client : {"here", "gone"}, verdict : {"none", "allow", "deny"},
     answer : {"none", "refused", "relayed", "failed"}, ended : BOOLEAN, failed : BOOLEAN]

Rows ==
    [of : {"req", "res", "fail"}, decision : {"none", "allow", "deny"},
     vis : {"intercepted", "partial", "stream", "unread"}, up : Nat, down : Nat]

\* One message: until it is judged all of it that was sent has been read and none of
\* it is on its way; a judged one without a rest or a note was read to its own end.
Read(m) ==
    /\ m \in Messages
    /\ m.state # "settled" => m.read = m.sent /\ m.held = 0 /\ m.out = 0 /\ ~m.rest /\ ~m.note /\ ~m.told
    /\ m.state = "settled" /\ ~m.rest /\ ~m.note => m.fin = "ended" /\ m.read = m.sent
    /\ m.told => m.out = m.sent /\ m.held = 0

\* A judged message that goes on: what the client or the destination is owed.
Owed(m) == m.state = "settled" /\ m.rest => m.out + m.held = m.sent

\* The order of an exchange: request, row, destination, response, row, client.
Ordered ==
    /\ ex \in Exchanges
    /\ msg.req.state # "settled" => rows = <<>> /\ ex.up = "none" /\ ex.verdict = "none"
    /\ msg.req.state = "settled" => Len(rows) > 0 /\ rows[1].of = "req"
    /\ ex.up # "none" \/ msg.req.out > 0 => ex.verdict = "allow"
    /\ ex.up # "none" => Owed(msg.req)
    /\ msg.res.state # "idle" => ex.up # "none"
    /\ ex.answer = "relayed" => msg.res.state = "settled" /\ Owed(msg.res)
    /\ msg.res.out > 0 => ex.answer = "relayed"

Relayable == \E i \in 2..Len(rows) : rows[i].of = "res" /\ rows[i].decision = "allow"

\* One row: the refusal it records stands, and "intercepted" covers what it speaks for.
ReadWhole(m) == m.kind = "opaque" \/ (m.state = "settled" /\ ~m.rest /\ ~m.note)
Told(r) ==
    /\ r.of = "req" /\ r.decision = "deny" => ex.verdict = "deny"
    /\ r.of = "fail" => r.decision # "deny"
    /\ r.of = "res" => msg.res.state = "settled" /\ (r.decision = "deny" => ex.answer # "relayed")
    /\ r.vis = "intercepted" => ReadWhole(msg.req) /\ (r.of = "res" => ReadWhole(msg.res))

InterceptInv ==
    /\ setup \in Setups
    /\ msg \in [Sides -> Messages] /\ Read(msg.req) /\ Read(msg.res)
    /\ rows \in Seq(Rows)
    /\ Ordered
    /\ ex.answer = "relayed" => Relayable
    /\ \A i \in 1..Len(rows) : Told(rows[i])

-----------------------------------------------------------------------------
(* Steps that judge nothing.                                               *)

LEMMA OneMessage ==
    ASSUME msg \in [Sides -> Messages], NEW s \in Sides, NEW k \in Messages, msg' = [msg EXCEPT ![s] = k]
    PROVE  /\ msg' \in [Sides -> Messages]
           /\ s = "req" => msg'.req = k /\ msg'.res = msg.res
           /\ s = "res" => msg'.res = k /\ msg'.req = msg.req
           /\ s = "req" \/ s = "res"
<1>1. "req" \in Sides /\ "res" \in Sides /\ (s = "req" \/ s = "res")
  BY DEF Sides
<1> QED BY <1>1

\* A message that is read on or piped on, and an exchange that stands where it stood.
Mild(j, k) ==
    /\ Read(k)
    /\ k.state = "settled" <=> j.state = "settled"
    /\ j.state = "settled" => k.kind = j.kind /\ k.rest = j.rest /\ k.note = j.note
SameStand ==
    /\ ex' \in Exchanges /\ ex'.verdict = ex.verdict
    /\ ex'.up = "none" <=> ex.up = "none"
    /\ ex'.answer = "relayed" <=> ex.answer = "relayed"

LEMMA MildStep ==
    ASSUME InterceptInv, UNCHANGED <<setup, rows>>, SameStand,
           NEW s \in Sides, NEW k, Mild(msg[s], k), msg' = [msg EXCEPT ![s] = k],
           s = "req" => (ex.up # "none" => Owed(k)) /\ (k.out > 0 => ex.up # "none" \/ msg.req.out > 0),
           s = "res" => /\ ex.answer = "relayed" => Owed(k)
                        /\ k.out > 0 => ex.answer = "relayed"
                        /\ k.state # "idle" => ex.up # "none"
    PROVE  InterceptInv'
<1>1. /\ msg' \in [Sides -> Messages]
      /\ s = "req" => msg'.req = k /\ msg'.res = msg.res
      /\ s = "res" => msg'.res = k /\ msg'.req = msg.req
      /\ s = "req" \/ s = "res"
  BY OneMessage DEF Mild, Read, InterceptInv
<1>2. Read(msg'.req) /\ Read(msg'.res)
  BY <1>1 DEF InterceptInv, Mild
<1>3. /\ msg'.req.state = "settled" <=> msg.req.state = "settled"
      /\ msg'.res.state = "settled" <=> msg.res.state = "settled"
      /\ msg'.res.state # "idle" => ex.up # "none"
  BY <1>1 DEF Mild, InterceptInv, Ordered
<1>4. Ordered'
  <2>1. (ex.up # "none" => Owed(msg'.req)) /\ (ex.answer = "relayed" => Owed(msg'.res))
    BY <1>1 DEF InterceptInv, Ordered
  <2>2. (msg'.req.out > 0 => ex.verdict = "allow") /\ (msg'.res.out > 0 => ex.answer = "relayed")
    BY <1>1 DEF InterceptInv, Ordered
  <2> QED BY <1>3, <2>1, <2>2 DEF InterceptInv, Ordered, SameStand, Owed
<1>5. /\ ReadWhole(msg.req) => ReadWhole(msg'.req) \/ msg.req.state # "settled"
      /\ ReadWhole(msg.res) => ReadWhole(msg'.res) \/ msg.res.state # "settled"
  BY <1>1 DEF ReadWhole, Mild
<1>6. ASSUME NEW i \in 1..Len(rows) PROVE Told(rows[i])'
  <2>1. Told(rows[i]) /\ msg.req.state = "settled" /\ (rows[i].of = "res" => msg.res.state = "settled")
    BY DEF InterceptInv, Ordered, Told
  <2> QED BY <1>3, <1>5, <2>1 DEF Told, SameStand, ReadWhole
<1> QED BY <1>1, <1>2, <1>4, <1>6 DEF InterceptInv, SameStand, Relayable

-----------------------------------------------------------------------------
(* The judgement.                                                          *)

\* A message ready to be judged: as far as it was read, and no more.
Judgeable(m) ==
    /\ m \in Messages /\ m.state = "draining" /\ m.out = 0 /\ ~m.told /\ m.read + m.held = m.sent
    /\ ~m.rest => m.held = 0
    /\ ~m.rest /\ ~m.note => m.fin = "ended"

LEMMA JudgedFacts ==
    ASSUME NEW m, Judgeable(m)
    PROVE  /\ Read(SentOn(m)) /\ Read(Dropped(m)) /\ Owed(SentOn(m))
           /\ SentOn(m).state = "settled" /\ Dropped(m).state = "settled" /\ Dropped(m).out = 0
           /\ SentOn(m).kind = m.kind /\ SentOn(m).rest = m.rest /\ SentOn(m).note = m.note
           /\ Dropped(m).kind = m.kind /\ Dropped(m).rest = m.rest /\ Dropped(m).note = m.note
<1>1. m \in Messages /\ m.read \in Nat /\ m.held \in Nat /\ m.sent \in Nat /\ m.rest \in BOOLEAN
  BY DEF Judgeable, Messages
<1> DEFINE t == ~m.rest
           r == m.read
           o == [m EXCEPT !.state = "settled", !.out = r, !.told = t]
           d == [m EXCEPT !.state = "settled", !.held = 0]
<1>2. SentOn(m) = o /\ Dropped(m) = d
  BY DEF SentOn, Dropped
<1>3. t \in BOOLEAN /\ r \in Nat
  BY <1>1
<1>4. d \in Messages /\ d.state = "settled" /\ d.held = 0 /\ d.out = m.out /\ d.kind = m.kind /\ d.rest = m.rest
      /\ d.note = m.note /\ d.told = m.told /\ d.fin = m.fin /\ d.read = m.read /\ d.sent = m.sent
  BY <1>1 DEF Messages
<1>5. Read(d)
  BY <1>1, <1>4 DEF Read, Judgeable
<1> HIDE DEF t, r
<1>6. o \in Messages /\ o.state = "settled" /\ o.out = r /\ o.told = t /\ o.kind = m.kind /\ o.rest = m.rest
      /\ o.note = m.note /\ o.held = m.held /\ o.fin = m.fin /\ o.read = m.read /\ o.sent = m.sent
  BY <1>1, <1>3 DEF Messages
<1> HIDE DEF o, d
<1>7. /\ o.out + o.held = o.sent
      /\ o.told => o.held = 0 /\ o.out = o.sent
      /\ ~o.rest /\ ~o.note => o.fin = "ended" /\ o.read = o.sent
  <2>1. r + m.held = m.sent /\ (m.held = 0 => r = m.sent)
    BY <1>1 DEF Judgeable, r
  <2>2. t = ~o.rest /\ r = o.read
    BY <1>6 DEF t, r
  <2>3. /\ ~m.rest => m.held = 0
        /\ ~m.rest /\ ~m.note => m.fin = "ended"
    BY DEF Judgeable
  <2> QED BY <1>6, <2>1, <2>2, <2>3
<1>8. Read(o) /\ Owed(o)
  BY <1>6, <1>7 DEF Read, Owed
<1> QED BY <1>2, <1>4, <1>5, <1>6, <1>8 DEF Judgeable

LEMMA VisibilityFacts ==
    ASSUME NEW m
    PROVE  /\ Visibility(m) \in {"intercepted", "partial", "stream", "unread"}
           /\ Visibility(m) = "intercepted" => ~m.rest /\ ~m.note
           /\ Visibility(m) = "unread" => m.kind = "opaque"
<1>1. Coverage(m) \in {"whole", "prefix", "none"}
  BY DEF Coverage
<1>2. Visibility(m) = IF m.kind = "stream" THEN "stream" ELSE IF Coverage(m) = "whole" THEN "intercepted"
                      ELSE IF Coverage(m) = "prefix" THEN "partial" ELSE "unread"
  BY <1>1 DEF Visibility
<1> QED BY <1>1, <1>2 DEF Coverage

LEMMA WorseFacts ==
    ASSUME NEW a \in {"intercepted", "partial", "stream", "unread"}, NEW b \in {"intercepted", "partial", "stream", "unread"}
    PROVE  /\ Worse(a, b) \in {"intercepted", "partial", "stream", "unread"}
           /\ Worse(a, b) = "intercepted" => a = "intercepted" /\ b \in {"intercepted", "unread"}
BY DEF Worse

\* A row that is filed goes to the end.
LEMMA FiledLast ==
    ASSUME InterceptInv, NEW r \in Rows, File(r)
    PROVE  /\ rows' \in Seq(Rows) /\ Len(rows') = Len(rows) + 1 /\ Len(rows) \in Nat
           /\ \A i \in 1..Len(rows) : rows'[i] = rows[i]
           /\ rows'[Len(rows) + 1] = r
BY DEF InterceptInv, File

LEMMA JudgeRequestStep ==
    ASSUME InterceptInv, UNCHANGED setup, msg.req.state # "settled", NEW m, Judgeable(m), NEW v \in Decisions,
           NEW e \in Exchanges, e.up = ex.up, e.verdict = ex.verdict, e.answer = ex.answer,
           JudgeRequest(m, v, e)
    PROVE  InterceptInv'
<1>1. /\ rows = <<>> /\ ex.up = "none" /\ ex.verdict = "none" /\ msg.res.state = "idle" /\ ex.answer # "relayed"
      /\ msg.res.out = 0 /\ msg \in [Sides -> Messages] /\ Read(msg.res) /\ m \in Messages /\ m.read \in Nat
  <2>1. /\ rows = <<>> /\ ex.up = "none" /\ ex.verdict = "none" /\ msg.res.state = "idle" /\ ex.answer # "relayed"
        /\ msg \in [Sides -> Messages] /\ Read(msg.res) /\ m \in Messages
    BY DEF InterceptInv, Ordered, Judgeable
  <2> QED BY <2>1 DEF Read, Messages
<1> DEFINE row == Row("req", v, Visibility(m), m.read, 0)
<1>2. row \in Rows /\ row.of = "req" /\ row.decision = v /\ row.vis = Visibility(m)
  BY <1>1, VisibilityFacts DEF Row, Rows, Decisions
<1>3. File(row)
  BY DEF JudgeRequest
<1> HIDE DEF row
<1>4. rows' \in Seq(Rows) /\ Len(rows') = 1 /\ rows'[1] = row
  <2>1. Len(rows) = 0
    BY <1>1
  <2>2. rows' \in Seq(Rows) /\ Len(rows') = Len(rows) + 1 /\ rows'[Len(rows) + 1] = row
    BY <1>2, <1>3, FiledLast
  <2> QED BY <2>1, <2>2
<1>5. /\ Read(SentOn(m)) /\ Read(Dropped(m)) /\ Owed(SentOn(m))
      /\ SentOn(m).state = "settled" /\ Dropped(m).state = "settled" /\ Dropped(m).out = 0
      /\ SentOn(m).kind = m.kind /\ SentOn(m).rest = m.rest /\ SentOn(m).note = m.note
      /\ Dropped(m).kind = m.kind /\ Dropped(m).rest = m.rest /\ Dropped(m).note = m.note
  BY JudgedFacts
<1>6. PICK k \in {SentOn(m), Dropped(m)} :
         /\ msg' = [msg EXCEPT !.req = k] /\ ex' \in Exchanges /\ ex'.verdict = v /\ ex'.answer # "relayed"
         /\ (v = "allow" /\ k = SentOn(m)) \/ (v = "deny" /\ k = Dropped(m) /\ ex'.up = "none")
  <2>1. CASE v = "deny"
    <3>1. /\ msg' = [msg EXCEPT !.req = Dropped(m)]
          /\ ex' = [e EXCEPT !.verdict = v, !.answer = "refused", !.ended = TRUE]
      BY <2>1 DEF JudgeRequest
    <3>2. ex' \in Exchanges /\ ex'.verdict = v /\ ex'.answer = "refused" /\ ex'.up = "none"
      BY <1>1, <2>1, <3>1 DEF Exchanges
    <3> QED BY <2>1, <3>1, <3>2
  <2>2. CASE v = "allow"
    <3>1. /\ msg' = [msg EXCEPT !.req = SentOn(m)]
          /\ ex' = [e EXCEPT !.verdict = v, !.up = "open"]
      BY <2>2 DEF JudgeRequest
    <3>2. ex' \in Exchanges /\ ex'.verdict = v /\ ex'.answer # "relayed"
      BY <1>1, <2>2, <3>1 DEF Exchanges
    <3> QED BY <2>2, <3>1, <3>2
  <2> QED BY <2>1, <2>2 DEF Decisions
<1>7. /\ Read(k) /\ k.state = "settled" /\ k.kind = m.kind /\ k.rest = m.rest /\ k.note = m.note
      /\ v = "deny" => k.out = 0 /\ ex'.up = "none"
      /\ v = "allow" => Owed(k)
      /\ v = "allow" \/ v = "deny"
  BY <1>5, <1>6
<1>8. msg' \in [Sides -> Messages] /\ msg'.req = k /\ msg'.res = msg.res
  BY <1>1, <1>6, <1>7 DEF Sides, Read
<1>9. Ordered'
  <2>1. Len(rows') > 0 /\ rows'[1].of = "req"
    BY <1>2, <1>4
  <2>2. ex'.up # "none" \/ msg'.req.out > 0 => v = "allow"
    BY <1>7, <1>8
  <2>3. v = "allow" => Owed(msg'.req)
    BY <1>7, <1>8
  <2>4. msg'.req.state = "settled" /\ msg'.res.state = "idle" /\ ~(msg'.res.out > 0)
    BY <1>1, <1>7, <1>8
  <2> QED BY <1>6, <2>1, <2>2, <2>3, <2>4 DEF Ordered, Owed
<1>10. Told(row)'
  <2>1. row.vis = "intercepted" => ~m.rest /\ ~m.note
    BY <1>2, VisibilityFacts
  <2> QED BY <1>2, <1>6, <1>7, <1>8, <2>1 DEF Told, ReadWhole
<1>11. \A i \in 1..Len(rows') : Told(rows[i])'
  <2>1. \A i \in 1..Len(rows') : rows'[i] = row
    BY <1>4
  <2> QED BY <1>10, <2>1 DEF Told
<1> QED BY <1>1, <1>4, <1>6, <1>7, <1>8, <1>9, <1>11 DEF InterceptInv

LEMMA JudgeResponseStep ==
    ASSUME InterceptInv, UNCHANGED setup, msg.res.state # "settled", ex.up # "none", NEW m, Judgeable(m),
           NEW v \in Decisions, NEW e \in Exchanges, e.up # "none", e.verdict = ex.verdict, e.answer = ex.answer,
           JudgeResponse(m, v, e)
    PROVE  InterceptInv'
<1>1. /\ ex.verdict = "allow" /\ msg.req.state = "settled" /\ Owed(msg.req) /\ Len(rows) > 0 /\ rows[1].of = "req"
      /\ ex.answer # "relayed" /\ msg \in [Sides -> Messages] /\ Read(msg.req) /\ m \in Messages /\ m.read \in Nat
      /\ rows \in Seq(Rows) /\ Len(rows) \in Nat /\ Len(rows) >= 1 /\ ex \in Exchanges /\ setup \in Setups
  <2>1. /\ ex.verdict = "allow" /\ msg.req.state = "settled" /\ Owed(msg.req) /\ Len(rows) > 0 /\ rows[1].of = "req"
        /\ ex.answer # "relayed" /\ msg \in [Sides -> Messages] /\ Read(msg.req) /\ m \in Messages
        /\ rows \in Seq(Rows) /\ ex \in Exchanges /\ setup \in Setups
    BY DEF InterceptInv, Ordered, Judgeable
  <2> QED BY <2>1 DEF Messages
<1>0. PICK row : row = Row("res", v, Worse(Visibility(msg.req), Visibility(m)), 0, m.read)
  OBVIOUS
<1>2. /\ row \in Rows /\ row.of = "res" /\ row.decision = v
      /\ row.vis = "intercepted" => ReadWhole(msg.req) /\ (m.kind = "opaque" \/ (~m.rest /\ ~m.note))
  <2>1. Worse(Visibility(msg.req), Visibility(m)) \in {"intercepted", "partial", "stream", "unread"}
    BY VisibilityFacts, WorseFacts
  <2>2. row \in Rows /\ row.of = "res" /\ row.decision = v /\ row.vis = Worse(Visibility(msg.req), Visibility(m))
    BY <1>0, <1>1, <2>1 DEF Row, Rows, Decisions
  <2>3. Worse(Visibility(msg.req), Visibility(m)) = "intercepted" =>
           Visibility(msg.req) = "intercepted" /\ Visibility(m) \in {"intercepted", "unread"}
    BY VisibilityFacts, WorseFacts
  <2> QED BY <1>1, <2>2, <2>3, VisibilityFacts DEF ReadWhole
<1>3. /\ Read(SentOn(m)) /\ Read(Dropped(m)) /\ Owed(SentOn(m))
      /\ SentOn(m).state = "settled" /\ Dropped(m).state = "settled" /\ Dropped(m).out = 0
      /\ SentOn(m).kind = m.kind /\ SentOn(m).rest = m.rest /\ SentOn(m).note = m.note
      /\ Dropped(m).kind = m.kind /\ Dropped(m).rest = m.rest /\ Dropped(m).note = m.note
  BY JudgedFacts
<1>4. PICK k \in {SentOn(m), Dropped(m)} :
         /\ msg' = [msg EXCEPT !.res = k] /\ ex' \in Exchanges /\ ex'.verdict = "allow" /\ ex'.up # "none"
         /\ File(row) \/ rows' = rows
         /\ \/ v = "allow" /\ k = SentOn(m) /\ ex'.answer = "relayed" /\ File(row)
            \/ k = Dropped(m) /\ ex'.answer # "relayed"
  <2>1. CASE v = "deny"
    <3> DEFINE w == IF e.answer = "none" THEN "refused" ELSE e.answer
    <3>1. /\ File(row) /\ msg' = [msg EXCEPT !.res = Dropped(m)]
          /\ ex' = [e EXCEPT !.up = "closed", !.ended = TRUE, !.answer = w]
      BY <1>0, <2>1 DEF JudgeResponse
    <3>2. w \in {"none", "refused", "relayed", "failed"} /\ w # "relayed"
      BY <1>1 DEF Exchanges
    <3> HIDE DEF w
    <3>3. ex' \in Exchanges /\ ex'.verdict = "allow" /\ ex'.answer = w /\ ex'.up = "closed"
      BY <1>1, <3>1, <3>2 DEF Exchanges
    <3> QED BY <3>1, <3>2, <3>3
  <2>2. CASE v = "allow" /\ e.answer # "none"
    <3>1. rows' = rows /\ msg' = [msg EXCEPT !.res = Dropped(m)] /\ ex' = e
      BY <2>2 DEF JudgeResponse
    <3> QED BY <1>1, <3>1
  <2>3. CASE v = "allow" /\ e.answer = "none"
    <3> DEFINE n == ~m.rest
    <3>1. /\ File(row) /\ msg' = [msg EXCEPT !.res = SentOn(m)]
          /\ ex' = [e EXCEPT !.answer = "relayed", !.ended = n]
      BY <1>0, <2>3 DEF JudgeResponse
    <3>2. n \in BOOLEAN
      OBVIOUS
    <3> HIDE DEF n
    <3>3. ex' \in Exchanges /\ ex'.verdict = "allow" /\ ex'.answer = "relayed" /\ ex'.up = e.up
      BY <1>1, <3>1, <3>2 DEF Exchanges
    <3> QED BY <2>3, <3>1, <3>3
  <2> QED BY <2>1, <2>2, <2>3 DEF Decisions
<1>5. /\ Read(k) /\ k.state = "settled" /\ k.kind = m.kind /\ k.rest = m.rest /\ k.note = m.note
      /\ k.out > 0 => ex'.answer = "relayed"
      /\ ex'.answer = "relayed" => Owed(k) /\ File(row) /\ v = "allow"
  BY <1>3, <1>4
<1>6. msg' \in [Sides -> Messages] /\ msg'.res = k /\ msg'.req = msg.req
  BY <1>1, <1>4, <1>5 DEF Sides, Read
<1>7. /\ rows' \in Seq(Rows) /\ Len(rows') \in Nat
      /\ \A i \in 1..Len(rows) : i \in 1..Len(rows') /\ rows'[i] = rows[i]
      /\ File(row) => Len(rows') = Len(rows) + 1 /\ rows'[Len(rows) + 1] = row
      /\ \A i \in 1..Len(rows') : i \in 1..Len(rows) \/ rows'[i] = row
  <2>1. CASE rows' = rows /\ ~File(row)
    BY <1>1, <2>1
  <2>2. CASE File(row)
    <3>1. /\ rows' \in Seq(Rows) /\ Len(rows') = Len(rows) + 1
          /\ \A i \in 1..Len(rows) : rows'[i] = rows[i]
          /\ rows'[Len(rows) + 1] = row
      BY <1>2, <2>2, FiledLast
    <3> QED BY <1>1, <2>2, <3>1
  <2> QED BY <1>4, <2>1, <2>2
<1>8. Ordered'
  <2>1. Len(rows') > 0 /\ rows'[1].of = "req"
    BY <1>1, <1>7
  <2> QED BY <1>1, <1>4, <1>5, <1>6, <2>1 DEF Ordered, Owed
<1>9. (ex.answer = "relayed" => Relayable)'
  <2> SUFFICES ASSUME ex'.answer = "relayed" PROVE Relayable'
    OBVIOUS
  <2>1. rows'[Len(rows) + 1] = row /\ Len(rows) + 1 \in 2..Len(rows') /\ row.of = "res" /\ row.decision = "allow"
    BY <1>1, <1>2, <1>5, <1>7
  <2> QED BY <2>1 DEF Relayable
<1>10. Told(row)'
  BY <1>2, <1>4, <1>5, <1>6 DEF Told, ReadWhole, Decisions
<1>11. ASSUME NEW i \in 1..Len(rows') PROVE Told(rows[i])'
  <2>1. CASE rows'[i] = row
    BY <1>10, <2>1 DEF Told
  <2>2. CASE i \in 1..Len(rows)
    <3>1. Told(rows[i]) /\ rows'[i] = rows[i] /\ rows[i].of # "res"
      BY <1>7, <2>2 DEF InterceptInv, Told
    <3>2. ex'.verdict = ex.verdict
      BY <1>1, <1>4
    <3> QED BY <1>6, <3>1, <3>2 DEF Told
  <2> QED BY <1>7, <2>1, <2>2
<1> QED BY <1>1, <1>4, <1>5, <1>6, <1>7, <1>8, <1>9, <1>11 DEF InterceptInv

LEMMA JudgeStep ==
    ASSUME InterceptInv, UNCHANGED setup, NEW s \in Sides, msg[s].state # "settled", NEW m, Judgeable(m),
           NEW v \in Decisions, NEW e \in Exchanges, e.up = "none" <=> ex.up = "none", e.verdict = ex.verdict,
           e.answer = ex.answer, s = "res" => ex.up # "none", Judge(s, m, v, e)
    PROVE  InterceptInv'
<1>1. CASE s = "req"
  <2>1. ex.up = "none" /\ JudgeRequest(m, v, e)
    BY <1>1 DEF InterceptInv, Ordered, Judge
  <2> QED BY <1>1, <2>1, JudgeRequestStep
<1>2. CASE s = "res"
  BY <1>2, JudgeResponseStep DEF Judge
<1> QED BY <1>1, <1>2 DEF Sides

-----------------------------------------------------------------------------
(* The steps of an exchange.                                               *)

\* A message as the invariant has it, before it is judged.
LEMMA Unjudged ==
    ASSUME InterceptInv, NEW s \in Sides
    PROVE  /\ msg[s] \in Messages /\ Read(msg[s]) /\ ex \in Exchanges
           /\ msg[s].sent \in Nat /\ msg[s].read \in Nat /\ msg[s].held \in Nat /\ msg[s].out \in Nat
           /\ msg[s].state # "settled" => msg[s].read = msg[s].sent /\ msg[s].held = 0 /\ msg[s].out = 0
                                           /\ ~msg[s].rest /\ ~msg[s].note /\ ~msg[s].told
           /\ s = "res" /\ msg[s].state # "idle" => ex.up # "none"
<1>1. msg[s] \in Messages /\ Read(msg[s]) /\ ex \in Exchanges /\ (s = "req" \/ s = "res")
  BY DEF InterceptInv, Ordered, Sides
<1> QED BY <1>1 DEF Read, Messages, InterceptInv, Ordered

LEMMA SameStandNow == ASSUME InterceptInv, ex' = ex PROVE SameStand
BY DEF InterceptInv, Ordered, SameStand

LEMMA BeginStep ==
    ASSUME InterceptInv, NEW s \in Sides, NEW kind \in setup.kinds, NEW v \in Decisions, Begin(s, kind, v)
    PROVE  InterceptInv'
<1> DEFINE m == [msg[s] EXCEPT !.kind = kind, !.state = "draining"]
<1>1. msg[s] \in Messages /\ Read(msg[s]) /\ msg[s].state = "idle" /\ ex \in Exchanges
      /\ msg[s].read = msg[s].sent /\ msg[s].held = 0 /\ msg[s].out = 0 /\ ~msg[s].rest /\ ~msg[s].note /\ ~msg[s].told
  BY Unjudged DEF Begin
<1>2. /\ setup' = setup /\ (s = "res" => ex.up # "none")
      /\ IF kind = "stream" THEN Judge(s, [m EXCEPT !.rest = TRUE, !.note = TRUE], v, ex)
         ELSE msg' = [msg EXCEPT ![s] = m] /\ ex' = ex /\ rows' = rows
  BY DEF Begin, ExStep, Exchanges, Sides
<1>3. kind \in Kinds
  BY DEF Kinds, InterceptInv
<1>4. /\ m \in Messages /\ m.state = "draining" /\ m.sent = msg[s].sent /\ m.read = m.sent /\ m.held = 0 /\ m.out = 0
      /\ m.rest = FALSE /\ m.note = FALSE /\ m.told = FALSE
  BY <1>1, <1>3 DEF Messages
<1> HIDE DEF m
<1>5. CASE kind = "stream"
  <2> DEFINE n == [m EXCEPT !.rest = TRUE, !.note = TRUE]
  <2>1. /\ n \in Messages /\ n.state = "draining" /\ n.sent = m.sent /\ n.read = m.read /\ n.held = 0 /\ n.out = 0
        /\ n.rest = TRUE /\ n.note = TRUE /\ n.told = FALSE /\ n.sent \in Nat
    BY <1>4 DEF Messages
  <2> HIDE DEF n
  <2>2. Judgeable(n)
    BY <1>4, <2>1 DEF Judgeable
  <2>3. Judge(s, n, v, ex)
    BY <1>2, <1>5 DEF n
  <2> QED BY <1>1, <1>2, <2>2, <2>3, JudgeStep
<1>6. CASE kind # "stream"
  <2>1. Mild(msg[s], m)
    BY <1>1, <1>4 DEF Mild, Read
  <2>2. Owed(m) /\ ~(m.out > 0)
    BY <1>4 DEF Owed
  <2> QED BY <1>2, <1>6, <2>1, <2>2, SameStandNow, MildStep
<1> QED BY <1>5, <1>6

LEMMA ChunkStep ==
    ASSUME InterceptInv, NEW s \in Sides, NEW c \in 1..MaxBody, NEW v \in Decisions, Chunk(s, c, v)
    PROVE  InterceptInv'
<1> DEFINE m == msg[s]
           sent == m.sent + c
           held == c - (Cap - m.read)
           j == [m EXCEPT !.sent = sent, !.read = Cap, !.held = held, !.rest = TRUE, !.note = TRUE]
           k == [m EXCEPT !.sent = sent, !.read = sent]
<1>1. /\ m \in Messages /\ Read(m) /\ m.state = "draining" /\ ex \in Exchanges /\ m.sent \in Nat
      /\ m.read = m.sent /\ m.held = 0 /\ m.out = 0 /\ ~m.rest /\ ~m.note /\ ~m.told /\ (s = "res" => ex.up # "none")
  BY Unjudged DEF Chunk, Judging
<1>2. setup' = setup /\ c \in Nat /\ Cap \in Nat
  BY InterceptAssumption DEF Chunk, ExStep
<1>3. CASE c >= Cap - m.read
  <2>1. Judge(s, j, v, ex)
    BY <1>3 DEF Chunk
  <2>2. sent \in Nat /\ held \in Nat /\ Cap + held = sent
    BY <1>1, <1>2, <1>3
  <2> HIDE DEF sent, held, m
  <2>3. /\ j \in Messages /\ j.state = "draining" /\ j.sent = sent /\ j.read = Cap /\ j.held = held /\ j.out = 0
        /\ j.rest = TRUE /\ j.note = TRUE /\ j.told = FALSE
    BY <1>1, <1>2, <2>2 DEF Messages
  <2> HIDE DEF j
  <2>4. Judgeable(j)
    BY <2>2, <2>3 DEF Judgeable
  <2> QED BY <1>1, <1>2, <2>1, <2>4, JudgeStep DEF m
<1>4. CASE ~(c >= Cap - m.read)
  <2>1. msg' = [msg EXCEPT ![s].sent = @ + c, ![s].read = @ + c] /\ ex' = ex /\ rows' = rows
    BY <1>4 DEF Chunk
  <2>2. sent \in Nat
    BY <1>1, <1>2
  <2>3. msg' = [msg EXCEPT ![s] = k]
    <3>1. msg \in [Sides -> Messages] /\ m.read + c = sent
      BY <1>1 DEF InterceptInv
    <3> QED BY <1>1, <2>1, <3>1 DEF Messages
  <2> HIDE DEF sent, m
  <2>4. /\ k \in Messages /\ k.state = "draining" /\ k.sent = sent /\ k.read = sent /\ k.held = 0 /\ k.out = 0
        /\ k.rest = FALSE /\ k.note = FALSE /\ k.told = FALSE
    BY <1>1, <2>2 DEF Messages
  <2> HIDE DEF k
  <2>5. Mild(msg[s], k)
    BY <1>1, <2>4 DEF Mild, Read, m
  <2>6. Owed(k) /\ ~(k.out > 0)
    BY <2>4 DEF Owed
  <2> QED BY <1>1, <1>2, <2>1, <2>3, <2>5, <2>6, SameStandNow, MildStep
<1> QED BY <1>3, <1>4

\* The reading stops where it is: at the end of the body, at silence, at a cut.
LEMMA StopReading ==
    ASSUME InterceptInv, NEW s \in Sides, Judging(s), UNCHANGED setup, NEW v \in Decisions,
           NEW fin \in {"open", "ended", "cut"}, NEW rest \in BOOLEAN, NEW note \in BOOLEAN,
           fin = "ended" \/ note,
           NEW e \in Exchanges, e.up = "none" <=> ex.up = "none", e.verdict = ex.verdict, e.answer = ex.answer,
           NEW m, m = [msg[s] EXCEPT !.fin = fin, !.rest = rest, !.note = note],
           Judge(s, m, v, e)
    PROVE  InterceptInv'
<1> DEFINE j == msg[s]
<1>1. /\ j \in Messages /\ j.state = "draining" /\ j.read = j.sent /\ j.held = 0 /\ j.out = 0 /\ ~j.told
      /\ (s = "res" => ex.up # "none") /\ j.sent \in Nat
  BY Unjudged DEF Judging
<1> HIDE DEF j
<1>2. /\ m \in Messages /\ m.state = "draining" /\ m.sent = j.sent /\ m.read = j.sent /\ m.held = 0 /\ m.out = 0
      /\ m.rest = rest /\ m.note = note /\ m.told = FALSE /\ m.fin = fin
  BY <1>1 DEF Messages, j
<1>3. Judgeable(m)
  BY <1>1, <1>2 DEF Judgeable
<1> QED BY <1>1, <1>3, JudgeStep DEF j

LEMMA BodyEndsStep ==
    ASSUME InterceptInv, NEW s \in Sides, NEW v \in Decisions, BodyEnds(s, v)
    PROVE  InterceptInv'
<1> DEFINE m == [msg[s] EXCEPT !.fin = "ended"]
<1>1. Judging(s) /\ setup' = setup /\ Judge(s, m, v, ex)
  BY DEF BodyEnds, ExStep
<1>2. msg[s] \in Messages /\ ex \in Exchanges /\ msg[s].rest = FALSE /\ msg[s].note = FALSE
  <2>1. msg[s] \in Messages /\ ex \in Exchanges /\ ~msg[s].rest /\ ~msg[s].note
    BY <1>1, Unjudged DEF Judging
  <2> QED BY <2>1 DEF Messages
<1>3. m = [msg[s] EXCEPT !.fin = "ended", !.rest = FALSE, !.note = FALSE]
  BY <1>2 DEF Messages
<1> HIDE DEF m
<1> QED BY <1>1, <1>2, <1>3, StopReading

LEMMA QuietStep ==
    ASSUME InterceptInv, NEW s \in Sides, NEW v \in Decisions, Quiet(s, v)
    PROVE  InterceptInv'
<1> DEFINE f == msg[s].fin
           m == [msg[s] EXCEPT !.rest = TRUE, !.note = TRUE]
<1>1. Judging(s) /\ setup' = setup /\ Judge(s, m, v, ex)
  BY DEF Quiet, ExStep
<1>2. msg[s] \in Messages /\ ex \in Exchanges
  BY Unjudged
<1>3. f \in {"open", "ended", "cut"} /\ m = [msg[s] EXCEPT !.fin = f, !.rest = TRUE, !.note = TRUE]
  BY <1>2 DEF Messages
<1> HIDE DEF m, f
<1> QED BY <1>1, <1>2, <1>3, StopReading

\* What is left of a judged body goes on whole.
LEMMA PipedFacts ==
    ASSUME InterceptInv, NEW s \in Sides, Piping(s)
    PROVE  /\ msg[s] \in Messages /\ Read(msg[s]) /\ Owed(msg[s]) /\ msg[s].state = "settled" /\ msg[s].rest = TRUE
           /\ msg[s].told = FALSE /\ msg[s].out + msg[s].held = msg[s].sent
           /\ s = "req" => ex.up # "none"
           /\ s = "res" => ex.answer = "relayed" /\ ex.up # "none"
<1>1. /\ msg[s] \in Messages /\ Read(msg[s]) /\ msg[s].state = "settled" /\ msg[s].rest /\ ~msg[s].told
      /\ s = "req" => ex.up # "none"
      /\ s = "res" => ex.answer = "relayed" /\ ex.up # "none"
      /\ s = "req" \/ s = "res"
  BY Unjudged DEF Piping, Sides
<1>2. Owed(msg[s])
  BY <1>1 DEF InterceptInv, Ordered
<1> QED BY <1>1, <1>2 DEF Owed, Messages

LEMMA PipeStep ==
    ASSUME InterceptInv, NEW s \in Sides, NEW c \in 0..MaxBody, Pipe(s, c)
    PROVE  InterceptInv'
<1> DEFINE m == msg[s]
           out == m.out + m.held + c
           sent == m.sent + c
           k == [m EXCEPT !.sent = sent, !.out = out, !.held = 0]
<1>1. /\ m \in Messages /\ Read(m) /\ m.state = "settled" /\ m.rest = TRUE /\ m.told = FALSE /\ m.out + m.held = m.sent
      /\ s = "req" => ex.up # "none"
      /\ s = "res" => ex.answer = "relayed" /\ ex.up # "none"
  BY PipedFacts DEF Pipe
<1>2. setup' = setup /\ ex' = ex /\ rows' = rows /\ c \in Nat
  BY InterceptAssumption DEF Pipe, ExStep
<1>3. m.sent \in Nat /\ m.out \in Nat /\ m.held \in Nat /\ msg \in [Sides -> Messages]
  BY <1>1 DEF Messages, InterceptInv
<1>4. msg' = [msg EXCEPT ![s] = k]
  <2>1. CASE c > 0
    <3>1. msg' = [msg EXCEPT ![s].sent = @ + c, ![s].out = @ + m.held + c, ![s].held = 0]
      BY <2>1, <1>2 DEF Pipe
    <3> QED BY <1>1, <1>3, <3>1 DEF Messages
  <2>2. CASE c = 0
    <3>1. msg' = [msg EXCEPT ![s].out = @ + m.held, ![s].held = 0]
      BY <2>2, <1>2 DEF Pipe
    <3>2. sent = m.sent /\ out = m.out + m.held
      BY <1>3, <2>2
    <3>3. k = [m EXCEPT !.out = m.out + m.held, !.held = 0]
      BY <1>1, <3>2 DEF Messages
    <3> QED BY <1>1, <1>3, <3>1, <3>3 DEF Messages
  <2> QED BY <1>2, <2>1, <2>2
<1>5. sent \in Nat /\ out \in Nat /\ out = sent
  BY <1>1, <1>2, <1>3
<1> HIDE DEF sent, out, m
<1>6. /\ k \in Messages /\ k.state = "settled" /\ k.sent = sent /\ k.out = out /\ k.held = 0 /\ k.rest = m.rest
      /\ k.note = m.note /\ k.told = FALSE /\ k.kind = m.kind
  BY <1>1, <1>5 DEF Messages
<1> HIDE DEF k
<1>7. Mild(msg[s], k) /\ Owed(k)
  BY <1>1, <1>5, <1>6 DEF Mild, Read, Owed, m
<1> QED BY <1>1, <1>2, <1>4, <1>7, SameStandNow, MildStep

LEMMA PipeEndsStep ==
    ASSUME InterceptInv, NEW s \in Sides, PipeEnds(s)
    PROVE  InterceptInv'
<1> DEFINE m == msg[s]
           out == m.out + m.held
           k == [m EXCEPT !.out = out, !.held = 0, !.fin = "ended", !.told = TRUE]
<1>1. /\ m \in Messages /\ Read(m) /\ m.state = "settled" /\ m.rest = TRUE /\ m.told = FALSE /\ m.out + m.held = m.sent
      /\ s = "req" => ex.up # "none"
      /\ s = "res" => ex.answer = "relayed" /\ ex.up # "none"
  BY PipedFacts DEF PipeEnds
<1>2. setup' = setup /\ rows' = rows /\ SameStand
  <2>1. ex \in Exchanges /\ (ex' = ex \/ ex' = [ex EXCEPT !.ended = TRUE])
    BY DEF PipeEnds, InterceptInv, Ordered
  <2>2. ex' \in Exchanges /\ ex'.verdict = ex.verdict /\ ex'.up = ex.up /\ ex'.answer = ex.answer
    BY <2>1 DEF Exchanges
  <2> QED BY <2>2 DEF PipeEnds, ExStep, SameStand
<1>3. m.sent \in Nat /\ m.out \in Nat /\ m.held \in Nat /\ msg \in [Sides -> Messages]
  BY <1>1 DEF Messages, InterceptInv
<1>4. msg' = [msg EXCEPT ![s] = k]
  <2>1. msg' = [msg EXCEPT ![s].out = @ + m.held, ![s].held = 0, ![s].fin = "ended", ![s].told = TRUE]
    BY DEF PipeEnds
  <2> QED BY <1>1, <1>3, <2>1 DEF Messages
<1>5. out \in Nat /\ out = m.sent
  BY <1>1, <1>3
<1> HIDE DEF out, m
<1>6. /\ k \in Messages /\ k.state = "settled" /\ k.sent = m.sent /\ k.out = out /\ k.held = 0 /\ k.rest = m.rest
      /\ k.note = m.note /\ k.told = TRUE /\ k.kind = m.kind
  BY <1>1, <1>5 DEF Messages
<1> HIDE DEF k
<1>7. Mild(msg[s], k) /\ Owed(k)
  BY <1>1, <1>3, <1>5, <1>6 DEF Mild, Read, Owed, m
<1> QED BY <1>1, <1>2, <1>4, <1>7, MildStep

LEMMA CutStep ==
    ASSUME InterceptInv, NEW s \in Sides, NEW v \in Decisions, Cut(s, v)
    PROVE  InterceptInv'
<1>1. PICK e \in Exchanges :
         /\ e = IF s = "req" THEN [ex EXCEPT !.client = "gone"] ELSE [ex EXCEPT !.up = "closed"]
         /\ e.up = "none" <=> ex.up = "none"
         /\ e.verdict = ex.verdict /\ e.answer = ex.answer
  <2>1. ex \in Exchanges /\ (s = "res" => ex.up # "none") /\ (s = "req" \/ s = "res")
    BY Unjudged DEF Cut, Sides
  <2>2. CASE s = "req"
    <3>1. PICK e : e = [ex EXCEPT !.client = "gone"]
      OBVIOUS
    <3>2. e \in Exchanges /\ e.up = ex.up /\ e.verdict = ex.verdict /\ e.answer = ex.answer
      BY <2>1, <3>1 DEF Exchanges
    <3> QED BY <2>2, <3>1, <3>2
  <2>3. CASE s = "res"
    <3>1. PICK e : e = [ex EXCEPT !.up = "closed"]
      OBVIOUS
    <3>2. e \in Exchanges /\ e.up = "closed" /\ e.verdict = ex.verdict /\ e.answer = ex.answer
      BY <2>1, <3>1 DEF Exchanges
    <3> QED BY <2>1, <2>3, <3>1, <3>2
  <2> QED BY <2>1, <2>2, <2>3
<1>2. /\ setup' = setup /\ msg[s].state # "idle" /\ msg[s].fin = "open"
      /\ IF Judging(s) THEN Judge(s, [msg[s] EXCEPT !.fin = "cut", !.note = TRUE], v, e)
         ELSE msg' = [msg EXCEPT ![s].fin = "cut"] /\ ex' = e /\ rows' = rows
  BY <1>1 DEF Cut, ExStep, Speaking
<1>3. CASE Judging(s)
  <2> DEFINE m == [msg[s] EXCEPT !.fin = "cut", !.note = TRUE]
  <2>1. msg[s] \in Messages /\ ~msg[s].rest
    BY <1>3, Unjudged DEF Judging
  <2>2. m = [msg[s] EXCEPT !.fin = "cut", !.rest = FALSE, !.note = TRUE]
    BY <2>1 DEF Messages
  <2>3. Judge(s, m, v, e)
    BY <1>2, <1>3
  <2> HIDE DEF m
  <2> QED BY <1>1, <1>2, <1>3, <2>2, <2>3, StopReading
<1>4. CASE ~Judging(s)
  <2> DEFINE m == msg[s]
             k == [m EXCEPT !.fin = "cut"]
  <2>1. m \in Messages /\ Read(m) /\ m.state = "settled" /\ m.fin = "open" /\ msg \in [Sides -> Messages]
        /\ (s = "res" => ex.up # "none") /\ (m.rest \/ m.note)
    <3>1. m \in Messages /\ Read(m) /\ m.state \notin {"idle", "draining"} /\ msg \in [Sides -> Messages]
          /\ (s = "res" => ex.up # "none") /\ m.fin = "open"
      BY <1>2, <1>4, Unjudged DEF Judging, InterceptInv
    <3> QED BY <3>1 DEF Messages, Read
  <2>2. msg' = [msg EXCEPT ![s] = k] /\ ex' = e /\ rows' = rows
    BY <1>2, <1>4, <2>1
  <2>3. s = "req" => (ex.up # "none" => Owed(m))
    BY DEF InterceptInv, Ordered
  <2>4. s = "res" => (ex.answer = "relayed" => Owed(m)) /\ (m.out > 0 => ex.answer = "relayed")
    BY DEF InterceptInv, Ordered
  <2>5. SameStand
    BY <1>1, <2>2 DEF SameStand
  <2> HIDE DEF m
  <2>6. /\ k \in Messages /\ k.state = m.state /\ k.sent = m.sent /\ k.read = m.read /\ k.held = m.held /\ k.out = m.out
        /\ k.rest = m.rest /\ k.note = m.note /\ k.told = m.told /\ k.kind = m.kind
    BY <2>1 DEF Messages
  <2> HIDE DEF k
  <2>7. Mild(msg[s], k)
    BY <2>1, <2>6 DEF Mild, Read, m
  <2>8. Owed(m) => Owed(k)
    BY <2>6 DEF Owed
  <2>9. s = "req" => (ex.up # "none" => Owed(k)) /\ (k.out > 0 => ex.up # "none" \/ msg.req.out > 0)
    BY <2>3, <2>6, <2>8 DEF m
  <2>10. s = "res" => /\ ex.answer = "relayed" => Owed(k)
                      /\ k.out > 0 => ex.answer = "relayed"
                      /\ k.state # "idle" => ex.up # "none"
    BY <2>1, <2>4, <2>6, <2>8
  <2> QED BY <1>2, <2>2, <2>5, <2>7, <2>9, <2>10, MildStep
<1> QED BY <1>3, <1>4

LEMMA DestinationFailsStep ==
    ASSUME InterceptInv, DestinationFails
    PROVE  InterceptInv'
<1> DEFINE w == IF ex.answer = "none" THEN "failed" ELSE ex.answer
           row == Row("fail", ex.verdict, Visibility(msg.req), 0, 0)
<1>1. /\ ex \in Exchanges /\ ex.up = "open" /\ ex.verdict = "allow" /\ msg' = msg /\ setup' = setup
      /\ ex' = [ex EXCEPT !.up = "closed", !.failed = TRUE, !.ended = TRUE, !.answer = w]
      /\ msg.req.state = "settled" /\ Len(rows) > 0 /\ rows[1].of = "req" /\ Len(rows) \in Nat
  BY DEF DestinationFails, ExStep, InterceptInv, Ordered
<1>2. w \in {"none", "refused", "relayed", "failed"} /\ (w = "relayed" <=> ex.answer = "relayed")
  BY <1>1 DEF Exchanges
<1> HIDE DEF w
<1>3. ex' \in Exchanges /\ ex'.verdict = "allow" /\ ex'.up = "closed" /\ ex'.answer = w
  BY <1>1, <1>2 DEF Exchanges
<1>4. row \in Rows /\ row.of = "fail" /\ row.decision = "allow" /\ row.vis = Visibility(msg.req)
  BY <1>1, VisibilityFacts DEF Row, Rows
<1>5. File(row)
  BY DEF DestinationFails
<1>6. PICK r : r = row
  OBVIOUS
<1> HIDE DEF row
<1>7. Told(r)'
  <2>1. r.vis = "intercepted" => ~msg.req.rest /\ ~msg.req.note
    BY <1>4, <1>6, VisibilityFacts
  <2> QED BY <1>1, <1>4, <1>6, <2>1 DEF Told, ReadWhole
<1>8. /\ rows' \in Seq(Rows) /\ Len(rows') = Len(rows) + 1
      /\ \A i \in 1..Len(rows) : rows'[i] = rows[i]
      /\ rows'[Len(rows) + 1] = r
  BY <1>4, <1>5, <1>6, FiledLast
<1>9. ASSUME NEW i \in 1..Len(rows') PROVE Told(rows[i])'
  <2>1. CASE i = Len(rows) + 1
    BY <1>7, <1>8, <2>1 DEF Told
  <2>2. CASE i \in 1..Len(rows)
    <3>1. Told(rows[i]) /\ rows'[i] = rows[i]
      BY <1>8, <2>2 DEF InterceptInv
    <3> QED BY <1>1, <1>2, <1>3, <3>1 DEF Told, ReadWhole
  <2> QED BY <1>1, <1>8, <2>1, <2>2
<1>10. Ordered'
  <2>1. Len(rows') > 0 /\ rows'[1] = rows[1]
    BY <1>1, <1>8
  <2> QED BY <1>1, <1>2, <1>3, <2>1 DEF InterceptInv, Ordered, Owed
<1>11. (ex.answer = "relayed" => Relayable)'
  <2> SUFFICES ASSUME ex'.answer = "relayed" PROVE Relayable'
    OBVIOUS
  <2>1. PICK i \in 2..Len(rows) : rows[i].of = "res" /\ rows[i].decision = "allow"
    BY <1>2, <1>3 DEF InterceptInv, Relayable
  <2>2. i \in 2..Len(rows') /\ rows'[i] = rows[i]
    BY <1>1, <1>8, <2>1
  <2> QED BY <2>1, <2>2 DEF Relayable
<1> QED BY <1>1, <1>8, <1>9, <1>10, <1>11 DEF InterceptInv

\* The client, the tunnel and the certificate authority touch nothing that was judged.
LEMMA ClientLeavesStep == ASSUME InterceptInv, ClientLeaves PROVE InterceptInv'
<1>1. /\ ex \in Exchanges /\ ex' = [ex EXCEPT !.client = "gone"]
      /\ msg' = msg /\ rows' = rows /\ setup' = setup
  BY DEF ClientLeaves, ExStep, InterceptInv, Ordered
<1>2. /\ ex' \in Exchanges /\ ex'.verdict = ex.verdict /\ ex'.up = ex.up /\ ex'.answer = ex.answer
  BY <1>1 DEF Exchanges
<1>3. Ordered'
  BY <1>1, <1>2 DEF InterceptInv, Ordered, Owed
<1>4. ASSUME NEW i \in 1..Len(rows) PROVE Told(rows[i])'
  <2>1. Told(rows[i])
    BY DEF InterceptInv
  <2> QED BY <1>1, <1>2, <2>1 DEF Told
<1> QED BY <1>1, <1>2, <1>3, <1>4 DEF InterceptInv, Relayable

LEMMA ElsewhereStep == ASSUME InterceptInv, UNCHANGED <<setup, exVars>> PROVE InterceptInv'
BY DEF InterceptInv, exVars, Ordered, Owed, Relayable, Told

-----------------------------------------------------------------------------
(* The invariant, and what follows from it.                                *)

LEMMA InterceptInit == Init => InterceptInv
<1> SUFFICES ASSUME Init PROVE InterceptInv
  OBVIOUS
<1>1. /\ setup \in Setups /\ msg = [s \in Sides |-> NewMessage] /\ ex = NewExchange /\ rows = <<>>
      /\ msg.req = NewMessage /\ msg.res = NewMessage
  BY DEF Init, Sides
<1>2. NewMessage \in Messages /\ Read(NewMessage)
  BY DEF NewMessage, Messages, Read, Kinds
<1>3. Ordered
  BY <1>1 DEF Ordered, NewMessage, NewExchange, Exchanges
<1>4. rows \in Seq(Rows) /\ 1..Len(rows) = {} /\ ex.answer # "relayed"
  BY <1>1 DEF NewExchange
<1> QED BY <1>1, <1>2, <1>3, <1>4 DEF InterceptInv

LEMMA InterceptNext == InterceptInv /\ [Next]_vars => InterceptInv'
<1> SUFFICES ASSUME InterceptInv, [Next]_vars PROVE InterceptInv'
  OBVIOUS
<1>1. ASSUME NEW s \in Sides, NEW v \in Decisions, NEW kind \in setup.kinds, Begin(s, kind, v) PROVE InterceptInv'
  BY <1>1, BeginStep
<1>2. ASSUME NEW s \in Sides, NEW v \in Decisions, NEW c \in 1..MaxBody, Chunk(s, c, v) PROVE InterceptInv'
  BY <1>2, ChunkStep
<1>3. ASSUME NEW s \in Sides, NEW v \in Decisions, BodyEnds(s, v) \/ Quiet(s, v) \/ Cut(s, v) PROVE InterceptInv'
  BY <1>3, BodyEndsStep, QuietStep, CutStep
<1>4. ASSUME NEW s \in Sides, PipeEnds(s) PROVE InterceptInv'
  BY <1>4, PipeEndsStep
<1>5. ASSUME NEW s \in Sides, NEW c \in 0..MaxBody, Pipe(s, c) PROVE InterceptInv'
  BY <1>5, PipeStep
<1>6. CASE ClientLeaves
  BY <1>6, ClientLeavesStep
<1>7. CASE DestinationFails
  BY <1>7, DestinationFailsStep
<1>8. ASSUME CaNext \/ TunnelNext \/ UNCHANGED vars PROVE InterceptInv'
  <2>1. ASSUME NEW gen \in setup.cas, NEW reach \in {"key", "beforeMode", "all"}, GenerateCa(gen, reach)
        PROVE  UNCHANGED <<setup, exVars>>
    BY <2>1 DEF GenerateCa
  <2>2. OperatorActs \/ CaExpires \/ Start \/ HelloFails \/ UNCHANGED vars => UNCHANGED <<setup, exVars>>
    BY DEF OperatorActs, CaExpires, Start, HelloFails, vars
  <2>3. ASSUME NEW h \in setup.hosts, Connect(h) PROVE UNCHANGED <<setup, exVars>>
    BY <2>3 DEF Connect
  <2>4. ASSUME NEW name \in {"none", "plain", "other", "nameless"}, Hello(name) PROVE UNCHANGED <<setup, exVars>>
    BY <2>4 DEF Hello
  <2>5. UNCHANGED <<setup, exVars>>
    BY <1>8, <2>1, <2>2, <2>3, <2>4 DEF CaNext, TunnelNext
  <2> QED BY <2>5, ElsewhereStep
<1> QED BY <1>1, <1>2, <1>3, <1>4, <1>5, <1>6, <1>7, <1>8 DEF Next, ExchangeNext

\* What the invariant says of the exchange, in the words of the property.
LEMMA InterceptConsequence == InterceptInv => InterceptionHolds
<1> SUFFICES ASSUME InterceptInv PROVE InterceptionHolds
  OBVIOUS
<1>1. /\ rows \in Seq(Rows) /\ Len(rows) \in Nat /\ Read(msg.req) /\ Read(msg.res) /\ Ordered
      /\ \A i \in 1..Len(rows) : Told(rows[i])
      /\ ex.answer = "relayed" => Relayable
  BY DEF InterceptInv
<1>2. /\ msg.req.out \in Nat /\ msg.res.out \in Nat /\ ex.up \in {"none", "open", "closed"}
      /\ \A i \in 1..Len(rows) : rows[i].of \in {"req", "res", "fail"}
  <2>1. msg.req.out \in Nat /\ msg.res.out \in Nat
    BY <1>1 DEF Read, Messages
  <2>2. ex.up \in {"none", "open", "closed"}
    BY <1>1 DEF Ordered, Exchanges
  <2>3. ASSUME NEW i \in 1..Len(rows) PROVE rows[i].of \in {"req", "res", "fail"}
    <3>1. rows[i] \in Rows
      BY <1>1
    <3> QED BY <3>1 DEF Rows
  <2> QED BY <2>1, <2>2, <2>3
<1>3. JudgedFirst
  <2>1. (ex.up # "none" \/ msg.req.out > 0) => ex.verdict = "allow" /\ rows # <<>> /\ rows[1].of = "req"
    <3> SUFFICES ASSUME ex.up # "none" \/ msg.req.out > 0
                 PROVE  ex.verdict = "allow" /\ rows # <<>> /\ rows[1].of = "req"
      OBVIOUS
    <3>1. ex.verdict = "allow" /\ msg.req.state = "settled"
      BY <1>1 DEF Ordered
    <3>2. Len(rows) > 0 /\ rows[1].of = "req"
      BY <1>1, <3>1 DEF Ordered
    <3>3. rows # <<>>
      BY <1>1, <3>2
    <3> QED BY <3>1, <3>2, <3>3
  <2>2. (ex.answer = "relayed" \/ msg.res.out > 0) =>
           \E i \in 2..Len(rows) : rows[i].of = "res" /\ rows[i].decision = "allow"
    BY <1>1 DEF Ordered, Relayable
  <2>3. ASSUME NEW i \in 1..Len(rows), rows[i].decision = "deny"
        PROVE  msg[IF rows[i].of = "res" THEN "res" ELSE "req"].out = 0
    <3>1. Told(rows[i])
      BY <1>1
    <3>2. CASE rows[i].of = "res"
      BY <1>1, <1>2, <2>3, <3>1, <3>2 DEF Told, Ordered
    <3>3. CASE rows[i].of = "req"
      BY <1>1, <1>2, <2>3, <3>1, <3>3 DEF Told, Ordered
    <3> QED BY <1>2, <2>3, <3>1, <3>2, <3>3 DEF Told
  <2> QED BY <2>1, <2>2, <2>3 DEF JudgedFirst
<1>4. BodiesWhole
  <2> SUFFICES ASSUME NEW s \in Sides
               PROVE  /\ msg[s].told /\ msg[s].fin = "ended" => msg[s].out = msg[s].sent
                      /\ msg[s].state = "settled" /\ Piping(s) => msg[s].out + msg[s].held = msg[s].sent
    BY DEF BodiesWhole
  <2>1. Read(msg[s])
    BY <1>1 DEF Sides
  <2> QED BY <2>1, PipedFacts DEF Read
<1>5. InterceptedMeansRead
  <2> SUFFICES ASSUME NEW i \in 1..Len(rows), rows[i].vis = "intercepted",
                      NEW s \in (IF rows[i].of = "res" THEN Sides ELSE {"req"}), msg[s].kind # "opaque"
               PROVE  msg[s].fin = "ended" /\ ~msg[s].rest /\ msg[s].read = msg[s].sent
    BY DEF InterceptedMeansRead
  <2>1. Told(rows[i]) /\ (s = "req" \/ (s = "res" /\ rows[i].of = "res"))
    BY <1>1 DEF Sides
  <2>2. ReadWhole(msg[s]) /\ Read(msg[s])
    BY <1>1, <2>1 DEF Told
  <2> QED BY <2>2 DEF ReadWhole, Read
<1> QED BY <1>3, <1>4, <1>5 DEF InterceptionHolds

\* An intercepted exchange is judged before it travels, travels whole, and its rows
\* claim no more reading than was done: for every inspection cap, every length of
\* body and every choice of kinds, whatever interleaving of chunks, silences, cuts and
\* failing sockets the two ends produce (handleInnerRequest, forward, drain, sendBody).
THEOREM InterceptionIsSound == Spec => []InterceptionHolds
<1>1. Init => InterceptInv
  BY InterceptInit
<1>2. InterceptInv /\ [Next]_vars => InterceptInv'
  BY InterceptNext
<1>3. InterceptInv => InterceptionHolds
  BY InterceptConsequence
<1> QED BY <1>1, <1>2, <1>3, PTL DEF Spec

-----------------------------------------------------------------------------
(* Redirected connections: their rows are true, for any number of them,    *)
(* any peek limit and any number of bytes.                                 *)

States == {"new", "peeking", "connecting", "piped", "refused", "closed"}
LinkRow == [decision : {"allow", "deny"}, named : BOOLEAN, up : Nat]
Links ==
    [state : States, says : Says, headAt : Nat, sent : Nat, up : {"none", "connecting", "open", "closed"},
     delivered : Nat, counted : Nat, decision : {"allow", "deny"}, decided : BOOLEAN, rows : Seq(LinkRow),
     client : {"here", "told", "ended", "gone"}]

\* What a row says of a closed connection k.
RowIsTrue(k) ==
    /\ k.rows # <<>>
    /\ k.rows[1].decision = (IF k.up = "none" THEN "deny" ELSE "allow")
    /\ k.rows[1].up = k.delivered

\* Each place in the closure knows how far its connection came: nothing is asked
\* or opened before a name, nothing is counted before the hand-over, and the row
\* is filed with the last step.
Placed(k) ==
    /\ k.counted = k.delivered
    /\ k.up # "none" => k.decided /\ k.decision = "allow" /\ DestinationFrom(k)
    /\ k.state = "new" => k.sent = 0
    /\ k.state \in {"new", "peeking"} =>
          k.up = "none" /\ k.rows = <<>> /\ ~k.decided /\ k.decision = "deny" /\ k.delivered = 0
    /\ k.state = "connecting" => k.up = "connecting" /\ k.rows = <<>> /\ k.delivered = 0
    /\ k.state = "piped" => k.up = "open" /\ k.rows = <<>> /\ k.delivered = k.sent
    /\ k.state \in {"refused", "closed"} => k.up \in {"none", "closed"} /\ RowIsTrue(k)

LinkInv == link \in [Redirected -> Links] /\ \A c \in Redirected : Placed(link[c])

-----------------------------------------------------------------------------
\* A connection that has not filed its row files it as it stands (finish).
LEMMA FinishFacts ==
    ASSUME NEW k \in Links, k.rows = <<>>
    PROVE  /\ Finish(k) \in Links
           /\ Finish(k).rows # <<>>
           /\ Finish(k).rows[1] = [decision |-> k.decision, named |-> k.decided, up |-> k.counted]
           /\ Finish(k) = [k EXCEPT !.rows = Finish(k).rows]
<1> DEFINE r == [decision |-> k.decision, named |-> k.decided, up |-> k.counted]
<1>1. r \in LinkRow /\ <<r>> \in Seq(LinkRow) /\ <<r>> # <<>> /\ <<r>>[1] = r
  BY DEF Links, LinkRow
<1>2. Finish(k) = [k EXCEPT !.rows = <<r>>]
  BY DEF Finish
<1> HIDE DEF r
<1>3. Finish(k) \in Links /\ Finish(k).rows = <<r>>
  BY <1>1, <1>2 DEF Links
<1> QED BY <1>1, <1>2, <1>3 DEF r

\* Closing what has no row yet leaves a true one, if the bytes are counted and
\* only an allowed connection has an upstream (destroyAll after finish).
LEMMA ClosedIsPlaced ==
    ASSUME NEW k \in Links, k.rows = <<>>, k.counted = k.delivered,
           k.up # "none" => k.decided /\ k.decision = "allow" /\ DestinationFrom(k),
           k.up = "none" => k.decision = "deny"
    PROVE  DestroyAll(Finish(k)) \in Links /\ Placed(DestroyAll(Finish(k)))
<1> DEFINE f == Finish(k)
           d == DestroyAll(f)
<1>1. /\ f \in Links /\ f.rows # <<>> /\ f = [k EXCEPT !.rows = f.rows]
      /\ f.rows[1] = [decision |-> k.decision, named |-> k.decided, up |-> k.counted]
  BY FinishFacts
<1>2. d = [f EXCEPT !.state = "closed", !.client = "gone", !.up = IF @ = "none" THEN @ ELSE "closed"]
  BY DEF DestroyAll
<1> HIDE DEF d, f
<1>3. d \in Links
  BY ZenonT(60), <1>1, <1>2 DEF Links, States
<1>4. /\ f.says = k.says /\ f.sent = k.sent /\ f.headAt = k.headAt /\ f.up = k.up /\ f.decided = k.decided
      /\ f.decision = k.decision /\ f.counted = k.counted /\ f.delivered = k.delivered
  BY <1>1 DEF Links
<1>5. /\ d.rows = f.rows /\ d.says = k.says /\ d.sent = k.sent /\ d.headAt = k.headAt /\ d.state = "closed"
      /\ d.decided = k.decided /\ d.decision = k.decision /\ d.counted = k.counted
      /\ d.delivered = k.delivered /\ d.up = IF k.up = "none" THEN "none" ELSE "closed"
  BY <1>1, <1>2, <1>4 DEF Links
<1>6. d.rows[1].decision = k.decision /\ d.rows[1].up = k.counted
  BY <1>1, <1>5
<1>7. Placed(d)
  BY <1>1, <1>5, <1>6 DEF Placed, RowIsTrue, DestinationFrom
<1> QED BY <1>3, <1>7 DEF d, f

\* One connection moves, the others stay.
LEMMA OneMoves ==
    ASSUME LinkInv, NEW c \in Redirected, NEW k \in Links, Placed(k), Becomes(c, k)
    PROVE  LinkInv'
BY DEF LinkInv, Becomes

\* The verdict on the name: refused with a row, or allowed on to connect (route).
LEMMA RoutePlaces ==
    ASSUME NEW k \in Links, Placed(k), k.state = "peeking", DestinationFrom(k),
           NEW v \in {"allow", "deny", "throws"}
    PROVE  Route(k, v) \in Links /\ Placed(Route(k, v))
<1> DEFINE w == IF v = "throws" THEN "deny" ELSE v
           d == [k EXCEPT !.decided = TRUE, !.decision = w]
           on == [d EXCEPT !.state = "connecting", !.up = "connecting"]
           off == [Finish(d) EXCEPT !.state = "refused", !.client = IF Tls(k.says) THEN "gone" ELSE "told"]
<1>1. w \in {"allow", "deny"} /\ Route(k, v) = IF d.decision = "deny" THEN off ELSE on
  BY DEF Route
<1>2. /\ d \in Links /\ d.decision = w /\ d.decided /\ d.rows = <<>> /\ d.up = "none" /\ d.state = "peeking"
      /\ d.counted = 0 /\ d.delivered = 0 /\ d.sent = k.sent /\ d.headAt = k.headAt /\ d.says = k.says
  <2> HIDE DEF w
  <2> QED BY <1>1 DEF Links, Placed
<1> HIDE DEF w, d
<1>3. CASE d.decision = "deny"
  <2>1. /\ Finish(d) \in Links /\ Finish(d).rows # <<>>
        /\ Finish(d).rows[1] = [decision |-> "deny", named |-> TRUE, up |-> 0]
        /\ Finish(d) = [d EXCEPT !.rows = Finish(d).rows]
    BY <1>2, <1>3, FinishFacts
  <2> DEFINE f == Finish(d)
  <2>2. f \in Links /\ f.rows # <<>> /\ f.rows[1].decision = "deny" /\ f.rows[1].up = 0 /\ f = [d EXCEPT !.rows = f.rows]
    BY <2>1
  <2> HIDE DEF f
  <2>3. f.up = "none" /\ f.counted = 0 /\ f.delivered = 0
    BY <1>2, <2>2 DEF Links
  <2>4. off = [f EXCEPT !.state = "refused", !.client = IF Tls(k.says) THEN "gone" ELSE "told"]
    BY DEF f
  <2>5. off \in Links
    BY <2>2, <2>4 DEF Links, States
  <2>6. /\ off.state = "refused" /\ off.rows = f.rows /\ off.up = "none" /\ off.counted = 0 /\ off.delivered = 0
    BY <2>2, <2>3, <2>4 DEF Links
  <2> HIDE DEF off
  <2>7. Placed(off)
    BY <2>2, <2>6 DEF Placed, RowIsTrue
  <2> QED BY <1>1, <1>3, <2>5, <2>7
<1>4. CASE d.decision # "deny"
  <2>1. on \in Links
    BY <1>2 DEF Links, States
  <2>2. /\ on.state = "connecting" /\ on.up = "connecting" /\ on.rows = <<>> /\ on.counted = 0 /\ on.delivered = 0
        /\ on.decided /\ on.decision = d.decision /\ on.sent = k.sent /\ on.headAt = k.headAt /\ on.says = k.says
    BY <1>2 DEF Links
  <2>3. d.decision = "allow"
    BY <1>2, <1>4 DEF Links
  <2> HIDE DEF on
  <2>4. Placed(on)
    BY <2>2, <2>3 DEF Placed, DestinationFrom
  <2> QED BY <1>1, <1>4, <2>1, <2>4
<1> QED BY <1>3, <1>4

\* A refusal without a verdict: not a name, too long, or too late.
LEMMA RefusedPlaces ==
    ASSUME NEW k \in Links, Placed(k), k.state = "peeking"
    PROVE  Refused(k) \in Links /\ Placed(Refused(k))
<1> DEFINE d == [k EXCEPT !.decision = "deny"]
<1>1. /\ d \in Links /\ d.rows = <<>> /\ d.counted = d.delivered /\ d.up = "none" /\ d.decision = "deny"
  BY DEF Links, Placed
<1>2. Refused(k) = DestroyAll(Finish(d))
  BY DEF Refused
<1> HIDE DEF d
<1> QED BY <1>1, <1>2, ClosedIsPlaced

\* Closing without cutting the other side leaves a true row too (finish alone).
LEMMA FiledIsPlaced ==
    ASSUME NEW k \in Links, k.rows = <<>>, k.counted = k.delivered, NEW u \in {"none", "closed"},
           u # "none" => k.decided /\ k.decision = "allow" /\ DestinationFrom(k),
           u = "none" => k.decision = "deny"
    PROVE  LET d == [Finish(k) EXCEPT !.state = "closed", !.up = u, !.client = "gone"]
           IN d \in Links /\ Placed(d)
<1> DEFINE f == Finish(k)
           d == [f EXCEPT !.state = "closed", !.up = u, !.client = "gone"]
<1>1. /\ f \in Links /\ f.rows # <<>> /\ f = [k EXCEPT !.rows = f.rows]
      /\ f.rows[1] = [decision |-> k.decision, named |-> k.decided, up |-> k.counted]
  BY FinishFacts
<1> HIDE DEF f
<1>2. d \in Links
  BY <1>1 DEF Links, States
<1>3. /\ d.rows = f.rows /\ d.says = k.says /\ d.sent = k.sent /\ d.headAt = k.headAt /\ d.state = "closed"
      /\ d.decided = k.decided /\ d.decision = k.decision /\ d.counted = k.counted
      /\ d.delivered = k.delivered /\ d.up = u
  BY <1>1 DEF Links
<1> HIDE DEF d
<1>4. d.rows[1].decision = k.decision /\ d.rows[1].up = k.counted
  BY <1>1, <1>3
<1>5. Placed(d)
  BY <1>1, <1>3, <1>4 DEF Placed, RowIsTrue, DestinationFrom
<1> QED BY <1>2, <1>5 DEF d, f

\* What a connection that still runs may be closed with.
LEMMA RunningIsFileable ==
    ASSUME NEW k \in Links, Placed(k), k.state \in {"peeking", "connecting", "piped"}
    PROVE  /\ k.rows = <<>> /\ k.counted = k.delivered
           /\ k.up # "none" => k.decided /\ k.decision = "allow" /\ DestinationFrom(k)
           /\ k.up = "none" => k.decision = "deny"
BY DEF Placed, Links

-----------------------------------------------------------------------------
\* One lemma per event, in the order of the listener's life.
LEMMA ArrivesKeeps ==
    ASSUME LinkInv, NEW c \in Redirected, NEW says \in Says, NEW h \in 1..MaxUnits, Arrives(c, says, h)
    PROVE  LinkInv'
<1> DEFINE k == link[c]
           d == [k EXCEPT !.state = "peeking", !.says = says, !.headAt = h]
<1>1. k \in Links /\ Placed(k) /\ k.state = "new" /\ Becomes(c, d) /\ h \in Nat
  BY UnitAssumption DEF LinkInv, Arrives
<1> HIDE DEF k
<1>2. d \in Links
  BY <1>1 DEF Links, States
<1>3. /\ d.state = "peeking" /\ d.up = k.up /\ d.rows = k.rows /\ d.decided = k.decided
      /\ d.decision = k.decision /\ d.delivered = k.delivered /\ d.counted = k.counted
  BY <1>1 DEF Links
<1>4. Placed(d)
  <2> HIDE DEF d
  <2> QED BY <1>1, <1>3 DEF Placed
<1> QED BY <1>1, <1>2, <1>4, OneMoves

LEMMA BytesKeeps ==
    ASSUME LinkInv, NEW c \in Redirected, NEW n \in 1..MaxUnits, NEW v \in {"allow", "deny", "throws"},
           Bytes(c, n, v)
    PROVE  LinkInv'
<1> DEFINE k == link[c]
           d == [k EXCEPT !.sent = @ + n]
<1>1. /\ k \in Links /\ Placed(k) /\ k.state = "peeking" /\ n \in Nat
      /\ Becomes(c, IF DestinationFrom(d) THEN Route(d, v) ELSE IF d.sent >= PeekLimit THEN Refused(d) ELSE d)
  BY UnitAssumption DEF LinkInv, Bytes
<1> HIDE DEF k
<1>2. d \in Links
  BY <1>1 DEF Links
<1>3. /\ d.state = "peeking" /\ d.up = k.up /\ d.rows = k.rows /\ d.decided = k.decided
      /\ d.decision = k.decision /\ d.delivered = k.delivered /\ d.counted = k.counted
  BY <1>1 DEF Links
<1> HIDE DEF d
<1>4. Placed(d)
  BY <1>1, <1>3 DEF Placed
<1>5. CASE DestinationFrom(d)
  BY <1>1, <1>2, <1>3, <1>4, <1>5, RoutePlaces, OneMoves
<1>6. CASE ~DestinationFrom(d) /\ d.sent >= PeekLimit
  BY <1>1, <1>2, <1>3, <1>4, <1>6, RefusedPlaces, OneMoves
<1>7. CASE ~DestinationFrom(d) /\ ~(d.sent >= PeekLimit)
  BY <1>1, <1>2, <1>4, <1>7, OneMoves
<1> QED BY <1>5, <1>6, <1>7

LEMMA PeekTimeoutKeeps ==
    ASSUME LinkInv, NEW c \in Redirected, PeekTimeout(c)
    PROVE  LinkInv'
<1>1. link[c] \in Links /\ Placed(link[c])
  BY DEF LinkInv
<1>2. Refused(link[c]) \in Links /\ Placed(Refused(link[c]))
  BY <1>1, RefusedPlaces DEF PeekTimeout
<1> QED BY <1>2, OneMoves DEF PeekTimeout

LEMMA SendsOnKeeps ==
    ASSUME LinkInv, NEW c \in Redirected, SendsOn(c)
    PROVE  LinkInv'
<1> DEFINE k == link[c]
           d == IF k.state = "connecting" THEN [k EXCEPT !.sent = @ + 1]
                ELSE [k EXCEPT !.sent = @ + 1, !.counted = @ + 1, !.delivered = @ + 1]
<1>1. k \in Links /\ Placed(k) /\ k.state \in {"connecting", "piped"} /\ Becomes(c, d)
  BY DEF LinkInv, SendsOn
<1> HIDE DEF k
<1>2. d \in Links
  <2>1. k.sent + 1 \in Nat /\ k.counted + 1 \in Nat /\ k.delivered + 1 \in Nat
    BY <1>1 DEF Links
  <2>2. ASSUME NEW m \in Nat, NEW p \in Nat, NEW q \in Nat
        PROVE  /\ [k EXCEPT !.sent = m] \in Links
               /\ [k EXCEPT !.sent = m, !.counted = p, !.delivered = q] \in Links
    BY <1>1 DEF Links
  <2> QED BY <2>1, <2>2
<1>3. /\ d.state = k.state /\ d.up = k.up /\ d.rows = k.rows /\ d.decided = k.decided
      /\ d.says = k.says /\ d.headAt = k.headAt /\ d.decision = k.decision /\ d.sent = k.sent + 1
      /\ k.state = "connecting" => d.delivered = k.delivered /\ d.counted = k.counted
      /\ k.state = "piped" => d.delivered = k.delivered + 1 /\ d.counted = k.counted + 1
  BY <1>1 DEF Links
<1> HIDE DEF d
<1>4. k.sent \in Nat /\ k.headAt \in Nat
  BY <1>1 DEF Links
<1>5. Placed(d)
  BY <1>1, <1>3, <1>4 DEF Placed, DestinationFrom
<1> QED BY <1>1, <1>2, <1>5, OneMoves

LEMMA ConnectedKeeps ==
    ASSUME LinkInv, NEW c \in Redirected, Connected(c)
    PROVE  LinkInv'
<1> DEFINE k == link[c]
           d == [k EXCEPT !.state = "piped", !.up = "open", !.delivered = @ + k.sent, !.counted = @ + k.sent]
<1>1. k \in Links /\ Placed(k) /\ k.state = "connecting" /\ Becomes(c, d)
  BY DEF LinkInv, Connected
<1> HIDE DEF k
<1>2. d \in Links
  <2>1. k.delivered + k.sent \in Nat /\ k.counted + k.sent \in Nat
    BY <1>1 DEF Links
  <2>2. ASSUME NEW p \in Nat, NEW q \in Nat
        PROVE  [k EXCEPT !.state = "piped", !.up = "open", !.delivered = p, !.counted = q] \in Links
    BY <1>1 DEF Links, States
  <2> QED BY <2>1, <2>2
<1>3. /\ d.state = "piped" /\ d.up = "open" /\ d.rows = k.rows /\ d.decided = k.decided
      /\ d.says = k.says /\ d.headAt = k.headAt /\ d.decision = k.decision /\ d.sent = k.sent
      /\ d.delivered = k.delivered + k.sent /\ d.counted = k.counted + k.sent
  BY <1>1 DEF Links
<1> HIDE DEF d
<1>4. k.sent \in Nat
  BY <1>1 DEF Links
<1>5. k.delivered = 0 /\ k.counted = 0 /\ k.rows = <<>> /\ k.up = "connecting"
  BY <1>1 DEF Placed
<1>6. k.decided /\ k.decision = "allow" /\ DestinationFrom(k)
  BY <1>1, <1>5 DEF Placed
<1>7. d.delivered = k.sent /\ d.counted = k.sent
  BY <1>3, <1>4, <1>5
<1>8. Placed(d)
  BY <1>3, <1>5, <1>6, <1>7 DEF Placed, DestinationFrom
<1> QED BY <1>1, <1>2, <1>8, OneMoves

LEMMA UpstreamErrorKeeps ==
    ASSUME LinkInv, NEW c \in Redirected, UpstreamError(c)
    PROVE  LinkInv'
<1>1. link[c] \in Links /\ Placed(link[c])
  BY DEF LinkInv
<1>2. link[c].state \in States /\ link[c].up \in {"connecting", "open"}
  BY <1>1 DEF Links, UpstreamError
<1>3. link[c].state \in {"connecting", "piped"}
  BY <1>1, <1>2 DEF States, Placed
<1>4. DestroyAll(Finish(link[c])) \in Links /\ Placed(DestroyAll(Finish(link[c])))
  BY <1>1, <1>3, RunningIsFileable, ClosedIsPlaced
<1> QED BY <1>4, OneMoves DEF UpstreamError

LEMMA ClientEndsKeeps ==
    ASSUME LinkInv, NEW c \in Redirected, ClientEnds(c)
    PROVE  LinkInv'
<1> DEFINE k == link[c]
           d == [k EXCEPT !.client = "ended"]
<1>1. k \in Links /\ Placed(k) /\ Becomes(c, d)
  BY DEF LinkInv, ClientEnds
<1> HIDE DEF k
<1>2. d \in Links
  BY <1>1 DEF Links
<1>3. /\ d.state = k.state /\ d.up = k.up /\ d.rows = k.rows /\ d.decided = k.decided
      /\ d.says = k.says /\ d.headAt = k.headAt /\ d.decision = k.decision /\ d.sent = k.sent
      /\ d.delivered = k.delivered /\ d.counted = k.counted
  BY <1>1 DEF Links
<1> HIDE DEF d
<1>4. Placed(d)
  BY <1>1, <1>3 DEF Placed, DestinationFrom, RowIsTrue
<1> QED BY <1>1, <1>2, <1>4, OneMoves

LEMMA UpstreamClosesKeeps ==
    ASSUME LinkInv, NEW c \in Redirected, UpstreamCloses(c)
    PROVE  LinkInv'
<1> DEFINE k == link[c]
           d == [Finish(k) EXCEPT !.state = "closed", !.up = "closed", !.client = "gone"]
<1>1. k \in Links /\ Placed(k) /\ k.state = "piped" /\ Becomes(c, d)
  BY DEF LinkInv, UpstreamCloses
<1> HIDE DEF k
<1>2. k.up = "open"
  BY <1>1 DEF Placed
<1>3. d \in Links /\ Placed(d)
  BY <1>1, <1>2, RunningIsFileable, FiledIsPlaced
<1> QED BY <1>1, <1>3, OneMoves

LEMMA ClientErrorKeeps ==
    ASSUME LinkInv, NEW c \in Redirected, ClientError(c)
    PROVE  LinkInv'
<1>1. link[c] \in Links /\ Placed(link[c])
  BY DEF LinkInv
<1>2. DestroyAll(Finish(link[c])) \in Links /\ Placed(DestroyAll(Finish(link[c])))
  BY <1>1, RunningIsFileable, ClosedIsPlaced DEF ClientError
<1> QED BY <1>2, OneMoves DEF ClientError

LEMMA ClientClosesKeeps ==
    ASSUME LinkInv, NEW c \in Redirected, ClientCloses(c)
    PROVE  LinkInv'
<1> DEFINE k == link[c]
           f == Finish(k)
           d == [f EXCEPT !.state = "closed", !.up = "none", !.client = "gone"]
<1>1. k \in Links /\ Placed(k) /\ k.state = "peeking" /\ Becomes(c, [f EXCEPT !.state = "closed", !.client = "gone"])
  BY DEF LinkInv, ClientCloses
<1> HIDE DEF k
<1>2. k.up = "none" /\ k.rows = <<>>
  BY <1>1 DEF Placed
<1>3. f \in Links /\ f = [k EXCEPT !.rows = f.rows]
  BY <1>1, <1>2, FinishFacts
<1>4. d \in Links /\ Placed(d)
  BY <1>1, <1>2, RunningIsFileable, FiledIsPlaced
<1> HIDE DEF f
<1>5. f.up = "none"
  BY <1>1, <1>2, <1>3 DEF Links
<1>6. d = [f EXCEPT !.state = "closed", !.client = "gone"]
  BY <1>3, <1>5 DEF Links
<1> QED BY <1>1, <1>4, <1>6, OneMoves

-----------------------------------------------------------------------------
LEMMA InitPlaces == TransparentInit => LinkInv
<1> SUFFICES ASSUME TransparentInit PROVE LinkInv
  OBVIOUS
<1>1. NewLink \in Links
  BY DEF NewLink, Links, States, Says, LinkRow
<1>2. Placed(NewLink)
  BY DEF NewLink, Placed
<1> QED BY <1>1, <1>2 DEF TransparentInit, LinkInv

LEMMA StepPlaces == LinkInv /\ [TransparentNext]_link => LinkInv'
<1> SUFFICES ASSUME LinkInv, [TransparentNext]_link PROVE LinkInv'
  OBVIOUS
<1>1. CASE UNCHANGED link
  BY <1>1 DEF LinkInv
<1>2. ASSUME NEW c \in Redirected,
             \E says \in Says, h \in 1..MaxUnits : Arrives(c, says, h)
      PROVE  LinkInv'
  BY <1>2, ArrivesKeeps
<1>3. ASSUME NEW c \in Redirected,
             \E n \in 1..MaxUnits, v \in {"allow", "deny", "throws"} : Bytes(c, n, v)
      PROVE  LinkInv'
  BY <1>3, BytesKeeps
<1> QED
  BY <1>1, <1>2, <1>3, PeekTimeoutKeeps, SendsOnKeeps, ConnectedKeeps, UpstreamErrorKeeps, ClientEndsKeeps,
     UpstreamClosesKeeps, ClientErrorKeeps, ClientClosesKeeps DEF TransparentNext

LEMMA PlacedRowsAreTrue == LinkInv => RedirectedRowsAreTrue
<1> SUFFICES ASSUME LinkInv, NEW c \in Redirected
             PROVE  LET k == link[c] IN
                      /\ k.up # "none" => k.decided /\ k.decision = "allow" /\ DestinationFrom(k)
                      /\ k.up = "open" => k.delivered = k.sent
                      /\ k.rows # <<>> =>
                           /\ k.rows[1].decision = (IF k.up = "none" THEN "deny" ELSE "allow")
                           /\ k.rows[1].up = k.delivered /\ k.state \notin {"peeking", "connecting", "piped"}
                      /\ k.state \in {"refused", "closed"} => k.rows # <<>>
  BY DEF RedirectedRowsAreTrue
<1> DEFINE k == link[c]
<1>1. k \in Links /\ Placed(k)
  BY DEF LinkInv
<1>2. k.state \in States
  BY <1>1 DEF Links
<1> HIDE DEF k
<1>3. k.up = "open" => k.state = "piped"
  BY <1>1, <1>2 DEF Placed, States
<1>4. k.rows # <<>> => k.state \in {"refused", "closed"}
  BY <1>1, <1>2 DEF Placed, States
<1>5. /\ k.up # "none" => k.decided /\ k.decision = "allow" /\ DestinationFrom(k)
      /\ k.up = "open" => k.delivered = k.sent
      /\ k.rows # <<>> =>
           /\ k.rows[1].decision = (IF k.up = "none" THEN "deny" ELSE "allow")
           /\ k.rows[1].up = k.delivered /\ k.state \notin {"peeking", "connecting", "piped"}
      /\ k.state \in {"refused", "closed"} => k.rows # <<>>
  BY <1>1, <1>3, <1>4 DEF Placed, RowIsTrue
<1> QED BY <1>5 DEF k

\* Whatever order the client, the destination, the peek timer and the decision
\* take, and however many connections are redirected at once, nobody reaches a
\* destination it did not name and was not allowed, what was read to name it
\* goes on with the rest, and its one row says both (handleConnection, finish).
THEOREM RedirectedRowsHold == TransparentSpec => []RedirectedRowsAreTrue
<1>1. TransparentInit => LinkInv
  BY InitPlaces
<1>2. LinkInv /\ [TransparentNext]_link => LinkInv'
  BY StepPlaces
<1>3. LinkInv => RedirectedRowsAreTrue
  BY PlacedRowsAreTrue
<1> QED BY <1>1, <1>2, <1>3, PTL DEF TransparentSpec

(***************************************************************************)
(* The capture verdict (Capture)                                           *)
(***************************************************************************)
Relayed == {n \in DOMAIN hits : hits[n].token /\ ~hits[n].direct}
Arrived == {n \in DOMAIN trail : trail[n].arrived}

CanaryHit == [token : BOOLEAN, direct : BOOLEAN, replay : BOOLEAN,
              peer : {"agent", "unresolved", "proxy"}]
Filed == {[arrived |-> came, declared |-> b.declared, tier |-> b.tier, agent |-> b.agent] :
             came \in BOOLEAN, b \in Bindings}
EvidenceTyped ==
    /\ hits \in Seq(CanaryHit) /\ underWay \in Seq(Bindings) /\ trail \in Seq(Filed)
\* The proxy's own socket is never taken for the agent's, nor the agent's for the proxy's.
PeersAreWhatTheyAre == \A n \in DOMAIN hits : hits[n].peer # (IF hits[n].direct THEN "proxy" ELSE "agent")
\* A fetch that the proxy relayed is either still open there or on the trail, once.
EachRelayedOnce == Cardinality(Relayed) = Len(underWay) + Cardinality(Arrived)
\* Once judged, the evidence stands as it was judged.
JudgedAsItStands ==
    IF verdict = NoVerdict THEN TRUE ELSE
        ~driving /\ verdict.outcome = Outcome /\ (Settled \/ late)
CaptureInv == EvidenceTyped /\ PeersAreWhatTheyAre /\ EachRelayedOnce /\ JudgedAsItStands

LEMMA PlacesAreFinite ==
    ASSUME NEW T, NEW s \in Seq(T), NEW S \in SUBSET (DOMAIN s)
    PROVE  IsFiniteSet(S) /\ Cardinality(S) \in Nat /\ S \subseteq 1 .. Len(s)
  <1>1. DOMAIN s = 1 .. Len(s) /\ Len(s) \in Nat  OBVIOUS
  <1>2. IsFiniteSet(1 .. Len(s))  BY <1>1, FS_Interval
  <1>3. IsFiniteSet(S)  BY <1>1, <1>2, FS_Subset
  <1> QED  BY <1>1, <1>3, FS_CardinalityType

\* A sequence's places fall in two: together they are as many as it is long.
LEMMA TwoKinds ==
    ASSUME NEW T, NEW s \in Seq(T), NEW A, NEW B, DOMAIN s = A \cup B, A \cap B = {}
    PROVE  Len(s) = Cardinality(A) + Cardinality(B)
  <1>1. DOMAIN s = 1 .. Len(s) /\ Len(s) \in Nat  OBVIOUS
  <1>2. /\ IsFiniteSet(A) /\ IsFiniteSet(B) /\ Cardinality(A) \in Nat /\ Cardinality(B) \in Nat
    BY PlacesAreFinite
  <1>3. Cardinality(1 .. Len(s)) = Len(s)
    <2>1. PICK m \in Nat : m = Len(s)  BY <1>1
    <2>2. 1 \in Int /\ m \in Int  OBVIOUS
    <2>3. Cardinality(1 .. m) = IF 1 > m THEN 0 ELSE m - 1 + 1  BY <2>2, FS_Interval
    <2> QED  BY <2>1, <2>3
  <1>4. Cardinality(A \cup B) = Cardinality(A) + Cardinality(B) - Cardinality(A \cap B)  BY <1>2, FS_Union
  <1>5. Cardinality(A \cap B) = 0  BY FS_EmptySet
  <1> QED  BY <1>1, <1>2, <1>3, <1>4, <1>5

LEMMA HitsFallInTwo ==
    ASSUME EvidenceTyped
    PROVE  /\ Cardinality(TokenHits) = Cardinality(DirectHits) + Cardinality(Relayed)
           /\ Cardinality(DirectHits) \in Nat /\ Cardinality(Relayed) \in Nat
           /\ IsFiniteSet(DirectHits) /\ IsFiniteSet(Relayed) /\ IsFiniteSet(TokenHits)
  <1>1. /\ TokenHits \in SUBSET (DOMAIN hits) /\ DirectHits \in SUBSET (DOMAIN hits)
        /\ Relayed \in SUBSET (DOMAIN hits)  BY DEF TokenHits, DirectHits, Relayed
  <1>2. hits \in Seq(CanaryHit)  BY DEF EvidenceTyped
  <1>3. /\ IsFiniteSet(TokenHits) /\ IsFiniteSet(DirectHits) /\ IsFiniteSet(Relayed)
        /\ Cardinality(DirectHits) \in Nat /\ Cardinality(Relayed) \in Nat
    BY <1>1, <1>2, PlacesAreFinite
  <1>4. TokenHits = DirectHits \cup Relayed
    <2>1. ASSUME NEW n \in TokenHits PROVE n \in DirectHits \/ n \in Relayed
      <3>1. n \in DOMAIN hits /\ hits[n].token  BY <2>1 DEF TokenHits
      <3>2. CASE hits[n].direct  BY <3>1, <3>2 DEF DirectHits
      <3>3. CASE ~hits[n].direct  BY <3>1, <3>3 DEF Relayed
      <3> QED  BY <3>2, <3>3
    <2>2. ASSUME NEW n \in DirectHits \cup Relayed PROVE n \in TokenHits
      <3>1. CASE n \in DirectHits  BY <3>1 DEF DirectHits, TokenHits
      <3>2. CASE n \in Relayed  BY <3>2 DEF Relayed, TokenHits
      <3> QED  BY <2>2, <3>1, <3>2
    <2> QED  BY <2>1, <2>2
  <1>5. DirectHits \cap Relayed = {}
    <2>1. ASSUME NEW n \in DirectHits, n \in Relayed PROVE FALSE
      <3>1. hits[n].direct  BY DEF DirectHits
      <3>2. ~hits[n].direct  BY <2>1 DEF Relayed
      <3> QED  BY <3>1, <3>2
    <2> QED  BY <2>1
  <1>6. Cardinality(DirectHits \cup Relayed) =
          Cardinality(DirectHits) + Cardinality(Relayed) - Cardinality(DirectHits \cap Relayed)
    BY <1>3, FS_Union
  <1>7. Cardinality(DirectHits \cap Relayed) = 0  BY <1>5, FS_EmptySet
  <1> QED  BY <1>3, <1>4, <1>6, <1>7

LEMMA RecordsFallInTwo ==
    ASSUME EvidenceTyped
    PROVE  /\ Len(trail) = Cardinality(Arrived) + Cardinality(WithoutHit)
           /\ Cardinality(Arrived) \in Nat /\ Cardinality(WithoutHit) \in Nat
           /\ IsFiniteSet(Arrived) /\ IsFiniteSet(WithoutHit)
  <1>1. trail \in Seq(Filed)  BY DEF EvidenceTyped
  <1>2. Arrived \in SUBSET (DOMAIN trail) /\ WithoutHit \in SUBSET (DOMAIN trail)
    BY DEF Arrived, WithoutHit
  <1>3. DOMAIN trail = Arrived \cup WithoutHit
    <2>1. ASSUME NEW n \in DOMAIN trail PROVE n \in Arrived \/ n \in WithoutHit
      <3>1. CASE trail[n].arrived  BY <3>1 DEF Arrived
      <3>2. CASE ~trail[n].arrived  BY <3>2 DEF WithoutHit
      <3> QED  BY <3>1, <3>2
    <2> QED  BY <1>2, <2>1
  <1>4. Arrived \cap WithoutHit = {}
    <2>1. ASSUME NEW n \in Arrived, n \in WithoutHit PROVE FALSE
      <3>1. trail[n].arrived  BY DEF Arrived
      <3>2. ~trail[n].arrived  BY <2>1 DEF WithoutHit
      <3> QED  BY <3>1, <3>2
    <2> QED  BY <2>1
  <1>5. Len(trail) = Cardinality(Arrived) + Cardinality(WithoutHit)  BY <1>1, <1>3, <1>4, TwoKinds
  <1> QED  BY <1>1, <1>2, <1>5, PlacesAreFinite

\* Two sets of places that agree on every place but the new one.
LEMMA OneMorePlace ==
    ASSUME NEW m \in Nat, NEW A \in SUBSET (1 .. m + 1), NEW B \in SUBSET (1 .. m),
           \A n \in 1 .. m : n \in A <=> n \in B
    PROVE  A = IF m + 1 \in A THEN B \cup {m + 1} ELSE B
  <1>1. m + 1 \notin 1 .. m /\ 1 .. m + 1 = (1 .. m) \cup {m + 1}  OBVIOUS
  <1>2. CASE m + 1 \in A
    <2>1. \A n : n \in A <=> n \in B \cup {m + 1}  BY <1>1, <1>2
    <2>2. A = B \cup {m + 1}  BY <2>1, Zenon
    <2> QED  BY <1>2, <2>2
  <1>3. CASE m + 1 \notin A
    <2>1. \A n : n \in A <=> n \in B  BY <1>1, <1>3
    <2>2. A = B  BY <2>1, Zenon
    <2> QED  BY <1>3, <2>2
  <1> QED  BY <1>2, <1>3

\* What the assertions say of any evidence on which the counts and the peers agree.
LEMMA NoBypassSays ==
    ASSUME EvidenceTyped, PeersAreWhatTheyAre, EachRelayedOnce
    PROVE  /\ NoBypass = "fail" => DirectHits # {} \/ (Cardinality(TokenHits) > Len(trail) /\ underWay # <<>>)
           /\ NoBypass = "pass" =>
                /\ Cardinality(DirectHits) <= Cardinality(WithoutHit)
                /\ check.listener = "visible" => \A n \in DirectHits : hits[n].peer = "unresolved"
           /\ DirectHits = {} /\ underWay = <<>> /\ trail # <<>> => NoBypass = "pass"
  <1> DEFINE short == Cardinality(TokenHits) > Len(trail)
             peers == {hits[n].peer : n \in TokenHits}
  <1>0. /\ underWay \in Seq(Bindings) /\ Len(underWay) \in Nat /\ (underWay = <<>> <=> Len(underWay) = 0)
        /\ trail \in Seq(Filed) /\ Len(trail) \in Nat
    BY DEF EvidenceTyped
  <1>1. /\ Cardinality(TokenHits) = Cardinality(DirectHits) + Cardinality(Relayed)
        /\ Cardinality(DirectHits) \in Nat /\ Cardinality(Relayed) \in Nat /\ IsFiniteSet(DirectHits)
    BY HitsFallInTwo
  <1>2. /\ Len(trail) = Cardinality(Arrived) + Cardinality(WithoutHit)
        /\ Cardinality(Arrived) \in Nat /\ Cardinality(WithoutHit) \in Nat
    BY RecordsFallInTwo
  <1>3. Cardinality(Relayed) = Len(underWay) + Cardinality(Arrived)  BY DEF EachRelayedOnce
  <1>4. DirectHits = {} <=> Cardinality(DirectHits) = 0  BY <1>1, FS_EmptySet
  <1>5. DirectHits = {} => "agent" \notin peers
    <2>1. SUFFICES ASSUME DirectHits = {}, NEW n \in TokenHits PROVE hits[n].peer # "agent"
      OBVIOUS
    <2>2. n \in DOMAIN hits /\ hits[n].token  BY DEF TokenHits
    <2>3. ~hits[n].direct
      <3>1. CASE hits[n].direct
        <4>1. n \in DirectHits  BY <2>2, <3>1 DEF DirectHits
        <4> QED  BY <2>1, <4>1
      <3> QED  BY <3>1
    <2> QED  BY <2>2, <2>3 DEF PeersAreWhatTheyAre
  <1>6. \/ NoBypass = "pass" /\ ~short /\ Corroboration # "contradicted"
        \/ NoBypass = OrExempt("fail") /\ (short \/ Corroboration = "contradicted")
        \/ NoBypass = "unproven" /\ trail = <<>>
    BY DEF NoBypass
  <1>7. Corroboration = "contradicted" => "agent" \in peers  BY DEF Corroboration
  <1>8. check.listener = "visible" /\ TokenHits # {} /\ "agent" \in peers => Corroboration = "contradicted"
    BY DEF Corroboration
  <1>9. OrExempt("fail") \in {"fail", "unproven"}  BY DEF OrExempt
  <1>a. NoBypass = "fail" => DirectHits # {} \/ (short /\ underWay # <<>>)
    BY <1>0, <1>1, <1>2, <1>3, <1>4, <1>5, <1>6, <1>7, <1>9
  <1>b. ASSUME NoBypass = "pass"
        PROVE  /\ Cardinality(DirectHits) <= Cardinality(WithoutHit)
               /\ check.listener = "visible" => \A n \in DirectHits : hits[n].peer = "unresolved"
    <2>1. ~short /\ Corroboration # "contradicted"  BY <1>6, <1>9, <1>b
    <2>2. Cardinality(DirectHits) <= Cardinality(WithoutHit)  BY <2>1, <1>0, <1>1, <1>2, <1>3
    <2>3. ASSUME check.listener = "visible", NEW n \in DirectHits PROVE hits[n].peer = "unresolved"
      <3>1. n \in DOMAIN hits /\ hits[n].token /\ hits[n].direct  BY DEF DirectHits
      <3>2. n \in TokenHits  BY <3>1 DEF TokenHits
      <3>3. hits[n].peer # "agent"  BY <2>1, <2>3, <3>2, <1>8
      <3>4. hits[n].peer # "proxy"  BY <3>1 DEF PeersAreWhatTheyAre
      <3>5. hits[n] \in CanaryHit  BY <3>1 DEF EvidenceTyped
      <3> QED  BY <3>3, <3>4, <3>5 DEF CanaryHit
    <2> QED  BY <2>2, <2>3
  <1>c. DirectHits = {} /\ underWay = <<>> /\ trail # <<>> => NoBypass = "pass"
    BY <1>0, <1>1, <1>2, <1>3, <1>4, <1>5, <1>6, <1>7
  <1> QED  BY <1>a, <1>b, <1>c

LEMMA OutcomeSays ==
    /\ Outcome = "captured" => AgentBinding = "pass" /\ NoBypass = "pass"
    /\ Outcome = "bypass" => NoBypass = "fail"
    /\ AgentBinding = "pass" => Bound # {}
    /\ Bound # {} => trail # <<>>
    /\ Bound # {} /\ NoBypass = "pass" => Outcome = "captured"
    /\ Outcome # "none"
  <1>1. NotReached \in {"fail", "unproven"}  BY DEF NotReached, OrExempt
  <1>2. AgentBinding = "pass" => Bound # {}  BY <1>1 DEF AgentBinding
  <1>3. Bound # {} => trail # <<>>  BY DEF Bound, ToSet
  <1>4. AgentBinding \in {"pass", "fail", "unproven"} /\ ChainRecord \in {"pass", "fail", "unproven"}
    BY <1>1 DEF AgentBinding, ChainRecord
  <1>5. NoBypass \in {"pass", "fail", "unproven"}  BY DEF NoBypass, OrExempt
  <1>6. Bound # {} => AgentBinding = "pass" /\ ChainRecord = "pass"
    BY <1>3 DEF AgentBinding, ChainRecord
  <1>7. Outcome = "captured" => AgentBinding = "pass" /\ NoBypass = "pass"
    BY <1>4, <1>5 DEF Outcome
  <1>8. Outcome = "bypass" => NoBypass = "fail"  BY DEF Outcome
  <1>9. Bound # {} /\ NoBypass = "pass" => Outcome = "captured"  BY <1>6 DEF Outcome
  <1> QED  BY <1>2, <1>3, <1>7, <1>8, <1>9 DEF Outcome

LEMMA CaptureConsequence == CaptureInv => VerdictIsTrue
  <1> SUFFICES ASSUME CaptureInv PROVE VerdictIsTrue  OBVIOUS
  <1>0. /\ EvidenceTyped /\ PeersAreWhatTheyAre /\ EachRelayedOnce /\ JudgedAsItStands  BY DEF CaptureInv
  <1>1. CASE verdict = NoVerdict  BY <1>1 DEF VerdictIsTrue, NoVerdict
  <1>2. CASE verdict # NoVerdict
    <2>1. verdict.outcome = Outcome /\ (Settled \/ late)  BY <1>0, <1>2 DEF JudgedAsItStands
    <2>2. Settled => ~(Cardinality(TokenHits) > Len(trail))
      <3>1. Cardinality(TokenHits) \in Nat /\ Len(trail) \in Nat
        BY <1>0, HitsFallInTwo DEF EvidenceTyped
      <3> QED  BY <3>1 DEF Settled
    <2>3. /\ NoBypass = "fail" => DirectHits # {} \/ (Cardinality(TokenHits) > Len(trail) /\ underWay # <<>>)
          /\ NoBypass = "pass" =>
               /\ Cardinality(DirectHits) <= Cardinality(WithoutHit)
               /\ check.listener = "visible" => \A n \in DirectHits : hits[n].peer = "unresolved"
          /\ DirectHits = {} /\ underWay = <<>> /\ trail # <<>> => NoBypass = "pass"
      BY <1>0, NoBypassSays
    <2> QED  BY <2>1, <2>2, <2>3, OutcomeSays DEF VerdictIsTrue
  <1> QED  BY <1>1, <1>2

LEMMA SameEvidenceSameOutcome ==
    ASSUME hits' = hits, trail' = trail, check' = check
    PROVE  Outcome' = Outcome /\ Settled' = Settled
  BY DEF Outcome, Settled, NoBypass, AgentBinding, ChainRecord, NotReached, OrExempt, Exempt, Exemption,
         Corroboration, Bound, TokenHits

\* A step before the verdict, which keeps the rest of the invariant.
LEMMA StillUnjudged == verdict' = verdict /\ verdict = NoVerdict => JudgedAsItStands'
  BY DEF JudgedAsItStands, NoVerdict

LEMMA HitStep ==
    ASSUME EvidenceTyped, PeersAreWhatTheyAre,
           NEW token \in BOOLEAN, NEW direct \in BOOLEAN, NEW peer \in {"agent", "unresolved", "proxy"},
           peer # (IF direct THEN "proxy" ELSE "agent"), Hit(token, direct, peer)
    PROVE  /\ hits' \in Seq(CanaryHit) /\ PeersAreWhatTheyAre'
           /\ Relayed' = IF token /\ ~direct THEN Relayed \cup {Len(hits) + 1} ELSE Relayed
           /\ Len(hits) + 1 \notin Relayed
  <1>1. PICK seen \in BOOLEAN :
           hits' = Append(hits, [token |-> token, direct |-> direct, peer |-> peer, replay |-> seen])
    <2>1. (token /\ \E n \in DOMAIN hits : hits[n].token) \in BOOLEAN  OBVIOUS
    <2> QED  BY <2>1 DEF Hit
  <1>2. PICK h : h = [token |-> token, direct |-> direct, peer |-> peer, replay |-> seen]  OBVIOUS
  <1>3. h \in CanaryHit /\ h.token = token /\ h.direct = direct /\ h.peer = peer  BY <1>2 DEF CanaryHit
  <1>4. hits \in Seq(CanaryHit) /\ Len(hits) \in Nat /\ DOMAIN hits = 1 .. Len(hits)  BY DEF EvidenceTyped
  <1>5. hits' = Append(hits, h)  BY <1>1, <1>2
  <1>6. /\ hits' \in Seq(CanaryHit) /\ DOMAIN hits' = 1 .. Len(hits) + 1
        /\ hits'[Len(hits) + 1] = h /\ \A n \in DOMAIN hits : hits'[n] = hits[n]
    BY <1>3, <1>4, <1>5
  <1>7. PeersAreWhatTheyAre'
    <2>1. SUFFICES ASSUME NEW n \in DOMAIN hits'
                   PROVE  hits'[n].peer # (IF hits'[n].direct THEN "proxy" ELSE "agent")
      BY DEF PeersAreWhatTheyAre
    <2>2. CASE n = Len(hits) + 1  BY <2>2, <1>3, <1>6
    <2>3. CASE n \in DOMAIN hits
      <3>1. hits'[n] = hits[n]  BY <2>3, <1>6
      <3> QED  BY <2>3, <3>1 DEF PeersAreWhatTheyAre
    <2> QED  BY <2>1, <2>2, <2>3, <1>4, <1>6
  <1>8. Len(hits) + 1 \notin Relayed  BY <1>4 DEF Relayed
  <1>9. \A n \in DOMAIN hits : n \in Relayed' <=> n \in Relayed
    <2>1. ASSUME NEW n \in DOMAIN hits PROVE n \in Relayed' <=> n \in Relayed
      <3>1. hits'[n] = hits[n] /\ n \in DOMAIN hits'  BY <1>4, <1>6
      <3> QED  BY <3>1 DEF Relayed
    <2> QED  BY <2>1
  <1>a. Len(hits) + 1 \in Relayed' <=> token /\ ~direct
    <2>1. Len(hits) + 1 \in DOMAIN hits'  BY <1>4, <1>6
    <2> QED  BY <2>1, <1>3, <1>6 DEF Relayed
  <1>b. Relayed' \subseteq 1 .. Len(hits) + 1 /\ Relayed \subseteq 1 .. Len(hits)
    BY <1>4, <1>6 DEF Relayed
  <1>c. Relayed' = IF token /\ ~direct THEN Relayed \cup {Len(hits) + 1} ELSE Relayed
    <2>0. PICK m \in Nat : m = Len(hits)  BY <1>4
    <2>a. PICK A \in SUBSET (1 .. m + 1) : A = Relayed'  BY <2>0, <1>4, <1>b
    <2>b. PICK B \in SUBSET (1 .. m) : B = Relayed  BY <2>0, <1>4, <1>b
    <2>1. m = Len(hits) /\ A = Relayed' /\ B = Relayed  BY <2>0, <2>a, <2>b
    <2>2. \A n \in 1 .. m : n \in A <=> n \in B  BY <2>1, <1>4, <1>9
    <2>3. A = IF m + 1 \in A THEN B \cup {m + 1} ELSE B  BY <2>2, OneMorePlace
    <2> QED  BY <2>1, <2>3, <1>a
  <1> QED  BY <1>6, <1>7, <1>8, <1>c

LEMMA FileStep ==
    ASSUME EvidenceTyped, NEW b \in Bindings, NEW came \in BOOLEAN, FileRecord(b, came)
    PROVE  /\ trail' \in Seq(Filed)
           /\ Arrived' = IF came THEN Arrived \cup {Len(trail) + 1} ELSE Arrived
           /\ Len(trail) + 1 \notin Arrived
  <1>1. PICK r : r = [arrived |-> came, declared |-> b.declared, tier |-> b.tier, agent |-> b.agent]
    OBVIOUS
  <1>2. r \in Filed /\ r.arrived = came  BY <1>1 DEF Filed
  <1>3. trail' = Append(trail, r)  BY <1>1 DEF FileRecord
  <1>4. trail \in Seq(Filed) /\ Len(trail) \in Nat /\ DOMAIN trail = 1 .. Len(trail)  BY DEF EvidenceTyped
  <1>5. /\ trail' \in Seq(Filed) /\ DOMAIN trail' = 1 .. Len(trail) + 1
        /\ trail'[Len(trail) + 1] = r /\ \A n \in DOMAIN trail : trail'[n] = trail[n]
    BY <1>2, <1>3, <1>4
  <1>6. Len(trail) + 1 \notin Arrived  BY <1>4 DEF Arrived
  <1>7. \A n \in DOMAIN trail : n \in Arrived' <=> n \in Arrived
    <2>1. ASSUME NEW n \in DOMAIN trail PROVE n \in Arrived' <=> n \in Arrived
      <3>1. trail'[n] = trail[n] /\ n \in DOMAIN trail'  BY <1>4, <1>5
      <3> QED  BY <3>1 DEF Arrived
    <2> QED  BY <2>1
  <1>8. Len(trail) + 1 \in Arrived' <=> came
    <2>1. Len(trail) + 1 \in DOMAIN trail'  BY <1>4, <1>5
    <2> QED  BY <2>1, <1>2, <1>5 DEF Arrived
  <1>9. Arrived' \subseteq 1 .. Len(trail) + 1 /\ Arrived \subseteq 1 .. Len(trail)
    BY <1>4, <1>5 DEF Arrived
  <1>a. Arrived' = IF came THEN Arrived \cup {Len(trail) + 1} ELSE Arrived
    <2>0. PICK m \in Nat : m = Len(trail)  BY <1>4
    <2>a. PICK A \in SUBSET (1 .. m + 1) : A = Arrived'  BY <2>0, <1>4, <1>9
    <2>b. PICK B \in SUBSET (1 .. m) : B = Arrived  BY <2>0, <1>4, <1>9
    <2>1. m = Len(trail) /\ A = Arrived' /\ B = Arrived  BY <2>0, <2>a, <2>b
    <2>2. \A n \in 1 .. m : n \in A <=> n \in B  BY <2>1, <1>4, <1>7
    <2>3. A = IF m + 1 \in A THEN B \cup {m + 1} ELSE B  BY <2>2, OneMorePlace
    <2> QED  BY <2>1, <2>3, <1>8
  <1> QED  BY <1>5, <1>6, <1>a

LEMMA OneRemoved ==
    ASSUME NEW T, NEW s \in Seq(T), NEW n \in DOMAIN s
    PROVE  RemoveAt(s, n) \in Seq(T) /\ Len(RemoveAt(s, n)) = Len(s) - 1
  <1>1. n \in 1 .. Len(s) /\ Len(s) \in Nat  OBVIOUS
  <1>2. PICK p : p = SubSeq(s, 1, n - 1)  OBVIOUS
  <1>3. PICK q : q = SubSeq(s, n + 1, Len(s))  OBVIOUS
  <1>4. p \in Seq(T) /\ Len(p) = n - 1  BY <1>1, <1>2
  <1>5. q \in Seq(T) /\ Len(q) = Len(s) - n  BY <1>1, <1>3
  <1>6. PICK r : r = p \o q  OBVIOUS
  <1>7. r \in Seq(T) /\ Len(r) = Len(p) + Len(q)  BY <1>4, <1>5, <1>6, ConcatProperties
  <1>8. RemoveAt(s, n) = r  BY <1>2, <1>3, <1>6 DEF RemoveAt
  <1> QED  BY <1>1, <1>4, <1>5, <1>7, <1>8

LEMMA CaptureBegins == CaptureInit => CaptureInv
  <1> SUFFICES ASSUME CaptureInit PROVE CaptureInv  OBVIOUS
  <1>1. hits = <<>> /\ underWay = <<>> /\ trail = <<>> /\ verdict = NoVerdict  BY DEF CaptureInit
  <1>2. EvidenceTyped /\ PeersAreWhatTheyAre  BY <1>1 DEF EvidenceTyped, PeersAreWhatTheyAre
  <1>3. Relayed = {} /\ Arrived = {}  BY <1>1 DEF Relayed, Arrived
  <1>4. EachRelayedOnce  BY <1>1, <1>3, FS_EmptySet DEF EachRelayedOnce
  <1> QED  BY <1>1, <1>2, <1>4 DEF CaptureInv, JudgedAsItStands

LEMMA CaptureContinues == CaptureInv /\ [CaptureNext]_captureVars => CaptureInv'
  <1> SUFFICES ASSUME CaptureInv, [CaptureNext]_captureVars PROVE CaptureInv'  OBVIOUS
  <1>0. EvidenceTyped /\ PeersAreWhatTheyAre /\ EachRelayedOnce /\ JudgedAsItStands  BY DEF CaptureInv
  <1>t. /\ hits \in Seq(CanaryHit) /\ underWay \in Seq(Bindings) /\ trail \in Seq(Filed)
        /\ Len(underWay) \in Nat /\ Cardinality(Relayed) \in Nat /\ IsFiniteSet(Relayed)
        /\ Cardinality(Arrived) \in Nat /\ IsFiniteSet(Arrived)
    BY <1>0, HitsFallInTwo, RecordsFallInTwo DEF EvidenceTyped
  <1>s. ASSUME hits' = hits, trail' = trail, underWay' = underWay
        PROVE  EvidenceTyped' /\ PeersAreWhatTheyAre' /\ EachRelayedOnce'
    BY <1>0, <1>s DEF EvidenceTyped, PeersAreWhatTheyAre, EachRelayedOnce, Relayed, Arrived
  <1>1. ASSUME NEW peer \in {"agent", "unresolved"}, FetchDirectly(peer) PROVE CaptureInv'
    <2>1. /\ verdict = NoVerdict /\ verdict' = verdict /\ Hit(TRUE, TRUE, peer)
          /\ underWay' = underWay /\ trail' = trail  BY <1>1 DEF FetchDirectly, CanFetch
    <2>2. hits' \in Seq(CanaryHit) /\ PeersAreWhatTheyAre' /\ Relayed' = Relayed  BY <1>0, <2>1, HitStep
    <2>3. Arrived' = Arrived  BY <2>1 DEF Arrived
    <2>4. EvidenceTyped' /\ EachRelayedOnce'
      BY <1>0, <1>t, <2>1, <2>2, <2>3 DEF EvidenceTyped, EachRelayedOnce
    <2> QED  BY <2>1, <2>2, <2>4, StillUnjudged DEF CaptureInv
  <1>2. ASSUME NEW b \in Bindings, NEW peer \in {"proxy", "unresolved"}, FetchThroughProxy(b, peer)
        PROVE  CaptureInv'
    <2>1. /\ verdict = NoVerdict /\ verdict' = verdict /\ Hit(TRUE, FALSE, peer)
          /\ underWay' = Append(underWay, b) /\ trail' = trail
      BY <1>2 DEF FetchThroughProxy, CanFetch
    <2>2. /\ hits' \in Seq(CanaryHit) /\ PeersAreWhatTheyAre'
          /\ Relayed' = Relayed \cup {Len(hits) + 1} /\ Len(hits) + 1 \notin Relayed
      BY <1>0, <2>1, HitStep
    <2>3. Arrived' = Arrived  BY <2>1 DEF Arrived
    <2>4. Cardinality(Relayed') = Cardinality(Relayed) + 1  BY <1>t, <2>2, FS_AddElement
    <2>5. underWay' \in Seq(Bindings) /\ Len(underWay') = Len(underWay) + 1  BY <1>t, <2>1
    <2>6. EvidenceTyped' /\ EachRelayedOnce'
      BY <1>0, <1>t, <2>1, <2>2, <2>3, <2>4, <2>5 DEF EvidenceTyped, EachRelayedOnce
    <2> QED  BY <2>1, <2>2, <2>6, StillUnjudged DEF CaptureInv
  <1>3. ASSUME NEW b \in Bindings, RefusedByProxy(b) PROVE CaptureInv'
    <2>1. /\ verdict = NoVerdict /\ verdict' = verdict /\ FileRecord(b, FALSE)
          /\ underWay' = underWay /\ hits' = hits
      BY <1>3 DEF RefusedByProxy, CanFetch
    <2>2. trail' \in Seq(Filed) /\ Arrived' = Arrived  BY <1>0, <2>1, FileStep
    <2>3. Relayed' = Relayed  BY <2>1 DEF Relayed
    <2>4. EvidenceTyped' /\ EachRelayedOnce' /\ PeersAreWhatTheyAre'
      BY <1>0, <1>t, <2>1, <2>2, <2>3 DEF EvidenceTyped, EachRelayedOnce, PeersAreWhatTheyAre
    <2> QED  BY <2>1, <2>4, StillUnjudged DEF CaptureInv
  <1>4. ASSUME Stray PROVE CaptureInv'
    <2>1. /\ verdict = NoVerdict /\ verdict' = verdict /\ Hit(FALSE, TRUE, "agent")
          /\ underWay' = underWay /\ trail' = trail  BY <1>4 DEF Stray, CanFetch
    <2>2. hits' \in Seq(CanaryHit) /\ PeersAreWhatTheyAre' /\ Relayed' = Relayed  BY <1>0, <2>1, HitStep
    <2>3. Arrived' = Arrived  BY <2>1 DEF Arrived
    <2>4. EvidenceTyped' /\ EachRelayedOnce'
      BY <1>0, <1>t, <2>1, <2>2, <2>3 DEF EvidenceTyped, EachRelayedOnce
    <2> QED  BY <2>1, <2>2, <2>4, StillUnjudged DEF CaptureInv
  <1>5. ASSUME RecordIsFiled PROVE CaptureInv'
    <2>1. PICK n \in DOMAIN underWay : FileRecord(underWay[n], TRUE) /\ underWay' = RemoveAt(underWay, n)
      BY <1>5 DEF RecordIsFiled
    <2>2. verdict = NoVerdict /\ verdict' = verdict /\ hits' = hits  BY <1>5 DEF RecordIsFiled
    <2>3. PICK b \in Bindings : b = underWay[n]  BY <1>t
    <2>4. /\ trail' \in Seq(Filed) /\ Arrived' = Arrived \cup {Len(trail) + 1}
          /\ Len(trail) + 1 \notin Arrived
      <3>1. FileRecord(b, TRUE)  BY <2>1, <2>3
      <3> QED  BY <1>0, <3>1, FileStep
    <2>5. underWay' \in Seq(Bindings) /\ Len(underWay') = Len(underWay) - 1
      BY <1>t, <2>1, OneRemoved
    <2>6. Cardinality(Arrived') = Cardinality(Arrived) + 1  BY <1>t, <2>4, FS_AddElement
    <2>7. Relayed' = Relayed  BY <2>2 DEF Relayed
    <2>8. EvidenceTyped' /\ EachRelayedOnce' /\ PeersAreWhatTheyAre'
      BY <1>0, <1>t, <2>2, <2>4, <2>5, <2>6, <2>7 DEF EvidenceTyped, EachRelayedOnce, PeersAreWhatTheyAre
    <2> QED  BY <2>2, <2>8, StillUnjudged DEF CaptureInv
  <1>6. ASSUME FetchIsOver PROVE CaptureInv'
    <2>1. /\ driving /\ hits' = hits /\ trail' = trail /\ underWay' = underWay /\ verdict' = verdict
      BY <1>6 DEF FetchIsOver
    <2>2. verdict = NoVerdict  BY <1>0, <2>1 DEF JudgedAsItStands
    <2> QED  BY <1>s, <2>1, <2>2, StillUnjudged DEF CaptureInv
  <1>7. ASSUME DeadlinePasses PROVE CaptureInv'
    <2>1. /\ verdict = NoVerdict /\ hits' = hits /\ trail' = trail /\ underWay' = underWay
          /\ verdict' = verdict  BY <1>7 DEF DeadlinePasses
    <2> QED  BY <1>s, <2>1, StillUnjudged DEF CaptureInv
  <1>8. ASSUME JudgeEvidence PROVE CaptureInv'
    <2>1. /\ ~driving /\ driving' = driving /\ (Settled \/ late) /\ late' = late /\ check' = check
          /\ hits' = hits /\ trail' = trail /\ underWay' = underWay /\ verdict'.outcome = Outcome
      BY <1>8 DEF JudgeEvidence
    <2>2. Outcome' = Outcome /\ Settled' = Settled  BY <2>1, SameEvidenceSameOutcome
    <2>3. JudgedAsItStands'  BY <2>1, <2>2 DEF JudgedAsItStands
    <2> QED  BY <1>s, <2>1, <2>3 DEF CaptureInv
  <1>9. ASSUME UNCHANGED captureVars PROVE CaptureInv'
    <2>1. /\ driving' = driving /\ late' = late /\ check' = check /\ verdict' = verdict
          /\ hits' = hits /\ trail' = trail /\ underWay' = underWay  BY <1>9 DEF captureVars
    <2>2. Outcome' = Outcome /\ Settled' = Settled  BY <2>1, SameEvidenceSameOutcome
    <2>3. JudgedAsItStands'  BY <1>0, <2>1, <2>2 DEF JudgedAsItStands, NoVerdict
    <2> QED  BY <1>s, <2>1, <2>3 DEF CaptureInv
  <1> QED
    BY <1>1, <1>2, <1>3, <1>4, <1>5, <1>6, <1>7, <1>8, <1>9 DEF CaptureNext, CommandEnds, WaitEnds

\* For any check, any bindings and any number of fetches, around the proxy and through it, filed
\* in time or late: "captured" is said only where this agent was bound and the fetches known to
\* have gone around are covered by refusals, "bypass" only where one did or a record was cut off,
\* and a check whose every fetch was relayed and filed is "captured" (runVerifyCapture, evaluate).
THEOREM CaptureTellsTheTruth == CaptureSpec => []VerdictIsTrue
  <1>1. CaptureSpec => []CaptureInv
    BY CaptureBegins, CaptureContinues, PTL DEF CaptureSpec
  <1> QED  BY <1>1, CaptureConsequence, PTL

-----------------------------------------------------------------------------
(* The perimeter (Perimeter).                                              *)

\* The operator's own rules accept or drop; a redirect typed by hand is outside the claim.
OwnRulesAcceptOrDrop == \A r \in Extras : r.verdict \in {"accept", "drop"}
\* A port is not a verdict.
PortsArePorts == "accept" \notin Ports /\ "drop" \notin Ports

Uids == {s.agent : s \in Specs} \cup {s.proxy : s \in Specs}
AnyRule == Extras \cup [uid : Uids, on : SUBSET Everywhere, verdict : {"accept", "drop"} \cup Ports]
Tables == [capture : Seq(AnyRule), egress : Seq(AnyRule)]

\* A rule that may stand in a table whose only redirect is that of one command line, and whose
\* accepts for its agent are the proxy's port and what was opened.
Fitting(c, r, holes, s) ==
    /\ r.verdict \in Ports => c = "capture" /\ r = Rule(s.agent, CapturedPorts, s.port)
    /\ r.verdict = "accept" /\ r.uid = s.agent =>
          (c = "egress" /\ r.on = {s.port}) \/ {s.agent} \X r.on \subseteq holes
RuledBy(t, holes, s) == \A c \in Chains : \A n \in DOMAIN t[c] : Fitting(c, t[c][n], holes, s)
\* A table that an earlier release left.
CapturesAll(t) ==
    \A c \in Chains : \A n \in DOMAIN t[c] : t[c][n].verdict \in Ports => t[c][n].on = Everywhere
TableKnown(t, holes) ==
    /\ t \in Tables
    /\ CapturesAll(t) \/ \E s \in Specs : ValidSpec(s) /\ RuledBy(t, holes, s)
PerimeterInv ==
    /\ nft = NoTable \/ TableKnown(nft, opened)
    /\ \A r \in checks \cup started : Contained(r.saw, r.spec, r.opened)

\* Chains are joined of single rules; the operators name the joints.
Joined(p, q) == p \o q
Just(e) == <<e>>
JustIf(c, e) == Given(c, <<e>>)

JoinFacts(r, p, q, T) ==
    /\ r \in Seq(T) /\ Len(r) = Len(p) + Len(q)
    /\ \A n \in 1 .. Len(p) : r[n] = p[n]
    /\ \A n \in 1 .. Len(q) : r[Len(p) + n] = q[n]
    /\ \A n \in 1 .. Len(r) : \/ n \in 1 .. Len(p) /\ r[n] = p[n]
                              \/ n - Len(p) \in 1 .. Len(q) /\ r[n] = q[n - Len(p)]

LEMMA JoinedIs ==
    ASSUME NEW T, NEW p \in Seq(T), NEW q \in Seq(T)
    PROVE  JoinFacts(Joined(p, q), p, q, T)
  <1>1. PICK r : r = p \o q  OBVIOUS
  <1>2. /\ r \in Seq(T) /\ Len(r) = Len(p) + Len(q)
        /\ \A n \in 1 .. Len(p) + Len(q) : r[n] = IF n <= Len(p) THEN p[n] ELSE q[n - Len(p)]
    BY <1>1, ConcatProperties
  <1>3. Len(p) \in Nat /\ Len(q) \in Nat  OBVIOUS
  <1>4. \A n \in 1 .. Len(p) : r[n] = p[n]  BY <1>2, <1>3
  <1>5. \A n \in 1 .. Len(q) : r[Len(p) + n] = q[n]
    <2>1. ASSUME NEW n \in 1 .. Len(q) PROVE r[Len(p) + n] = q[n]
      <3>1. PICK k : k = Len(p) + n  OBVIOUS
      <3>2. k \in 1 .. Len(p) + Len(q) /\ ~(k <= Len(p)) /\ k - Len(p) = n  BY <3>1, <1>3
      <3>3. r[k] = q[k - Len(p)]  BY <3>2, <1>2
      <3> QED  BY <3>1, <3>2, <3>3
    <2> QED  BY <2>1
  <1>6. \A n \in 1 .. Len(r) : \/ n \in 1 .. Len(p) /\ r[n] = p[n]
                               \/ n - Len(p) \in 1 .. Len(q) /\ r[n] = q[n - Len(p)]
    BY <1>2, <1>3
  <1>7. Joined(p, q) = r  BY <1>1 DEF Joined
  <1>8. JoinFacts(r, p, q, T)  BY <1>2, <1>4, <1>5, <1>6 DEF JoinFacts
  <1> QED  BY <1>7, <1>8

LEMMA JustIs ==
    ASSUME NEW T, NEW e \in T
    PROVE  Just(e) \in Seq(T) /\ Len(Just(e)) = 1 /\ Just(e)[1] = e
  BY DEF Just

LEMMA JustIfIs ==
    ASSUME NEW T, NEW c, NEW e \in T
    PROVE  /\ JustIf(c, e) \in Seq(T) /\ Len(JustIf(c, e)) \in Nat
           /\ \A n \in 1 .. Len(JustIf(c, e)) : JustIf(c, e)[n] = e /\ c
  <1>1. CASE c
    <2>1. JustIf(c, e) = Just(e)  BY <1>1 DEF Given, JustIf, Just
    <2>0. PICK q : q = Just(e)  OBVIOUS
    <2>2. q \in Seq(T) /\ Len(q) = 1 /\ q[1] = e  BY <2>0, JustIs
    <2>3. \A n \in 1 .. Len(q) : q[n] = e /\ c  BY <1>1, <2>2
    <2>4. q = JustIf(c, e) /\ Len(q) \in Nat  BY <2>0, <2>1, <2>2
    <2> QED  BY <2>2, <2>3, <2>4
  <1>2. CASE ~c
    <2>1. JustIf(c, e) = <<>>  BY <1>2 DEF Given, JustIf
    <2> QED  BY <2>1
  <1> QED  BY <1>1, <1>2

\* The capture chain: the proxy's exemption first, the redirect last, and nothing else redirects.
LEMMA CaptureShape ==
    ASSUME NEW s \in Specs, ValidSpec(s)
    PROVE  /\ CaptureChain(s) \in Seq(AnyRule) /\ Len(CaptureChain(s)) >= 2
           /\ CaptureChain(s)[1] = Rule(s.proxy, Everywhere, "accept")
           /\ CaptureChain(s)[Len(CaptureChain(s))] = Rule(s.agent, CapturedPorts, s.port)
           /\ \A n \in 1 .. Len(CaptureChain(s)) - 1 :
                 \/ CaptureChain(s)[n] = Rule(s.proxy, Everywhere, "accept")
                 \/ s.loopback /\ CaptureChain(s)[n] = Rule(s.agent, Loopback, "accept")
  <1>a. PICK a : a = Rule(s.proxy, Everywhere, "accept")  OBVIOUS
  <1>b. PICK b : b = Rule(s.agent, Loopback, "accept")  OBVIOUS
  <1>c. PICK c : c = Rule(s.agent, CapturedPorts, s.port)  OBVIOUS
  <1>1. a \in AnyRule /\ b \in AnyRule /\ c \in AnyRule
    BY <1>a, <1>b, <1>c DEF AnyRule, Rule, Uids, Everywhere, Loopback, CapturedPorts, ValidSpec
  <1>p. PICK p : p = Just(a)  OBVIOUS
  <1>q. PICK q : q = JustIf(s.loopback, b)  OBVIOUS
  <1>e. PICK e : e = Just(c)  OBVIOUS
  <1>2. p \in Seq(AnyRule) /\ Len(p) = 1 /\ p[1] = a  BY <1>1, <1>p, JustIs
  <1>3. /\ q \in Seq(AnyRule) /\ Len(q) \in Nat /\ \A n \in 1 .. Len(q) : q[n] = b /\ s.loopback
    BY <1>1, <1>q, JustIfIs
  <1>4. e \in Seq(AnyRule) /\ Len(e) = 1 /\ e[1] = c  BY <1>1, <1>e, JustIs
  <1>f. PICK f : f = Joined(p, q)  OBVIOUS
  <1>5. /\ f \in Seq(AnyRule) /\ Len(f) = Len(p) + Len(q)
        /\ \A n \in 1 .. Len(p) : f[n] = p[n]
        /\ \A n \in 1 .. Len(f) : \/ n \in 1 .. Len(p) /\ f[n] = p[n]
                                  \/ n - Len(p) \in 1 .. Len(q) /\ f[n] = q[n - Len(p)]
    <2>1. p \in Seq(AnyRule) /\ q \in Seq(AnyRule)  BY <1>2, <1>3
    <2>2. JoinFacts(Joined(p, q), p, q, AnyRule)  BY <2>1, JoinedIs
    <2>3. JoinFacts(f, p, q, AnyRule)  BY <2>2, <1>f
    <2> QED  BY <2>3 DEF JoinFacts
  <1>r. PICK r : r = Joined(f, e)  OBVIOUS
  <1>6. /\ r \in Seq(AnyRule) /\ Len(r) = Len(f) + Len(e)
        /\ \A n \in 1 .. Len(f) : r[n] = f[n]
        /\ \A n \in 1 .. Len(e) : r[Len(f) + n] = e[n]
    <2>1. f \in Seq(AnyRule) /\ e \in Seq(AnyRule)  BY <1>4, <1>5
    <2>2. JoinFacts(Joined(f, e), f, e, AnyRule)  BY <2>1, JoinedIs
    <2>3. JoinFacts(r, f, e, AnyRule)  BY <2>2, <1>r
    <2> QED  BY <2>3 DEF JoinFacts
  <1>7. r = CaptureChain(s)
    BY <1>a, <1>b, <1>c, <1>p, <1>q, <1>e, <1>f, <1>r DEF CaptureChain, Joined, Just, JustIf
  <1>8. Len(f) \in Nat /\ Len(f) >= 1 /\ Len(r) = Len(f) + 1  BY <1>2, <1>3, <1>4, <1>5, <1>6
  <1>9. r[1] = a  BY <1>2, <1>5, <1>6, <1>8
  <1>x. r[Len(r)] = c
    <2>1. r[Len(f) + 1] = e[1]  BY <1>4, <1>6
    <2> QED  BY <2>1, <1>4, <1>8
  <1>y. ASSUME NEW n \in 1 .. Len(r) - 1 PROVE r[n] = a \/ (s.loopback /\ r[n] = b)
    <2>1. n \in 1 .. Len(f)  BY <1>8
    <2>2. r[n] = f[n]  BY <2>1, <1>6
    <2>3. CASE n \in 1 .. Len(p) /\ f[n] = p[n]
      <3>1. n = 1  BY <2>3, <1>2
      <3> QED  BY <3>1, <2>2, <2>3, <1>2
    <2>4. CASE n - Len(p) \in 1 .. Len(q) /\ f[n] = q[n - Len(p)]
      <3>1. q[n - Len(p)] = b /\ s.loopback  BY <2>4, <1>3
      <3> QED  BY <3>1, <2>2, <2>4
    <2> QED  BY <2>1, <2>3, <2>4, <1>5
  <1> QED  BY <1>a, <1>b, <1>c, <1>6, <1>7, <1>8, <1>9, <1>x, <1>y

\* The filter chain: the agent's drop last, once; before it accepts, of the proxy and of what the
\* command line opens.
LEMMA EgressShape ==
    ASSUME NEW s \in Specs, ValidSpec(s)
    PROVE  /\ EgressChain(s) \in Seq(AnyRule) /\ Len(EgressChain(s)) >= 1
           /\ EgressChain(s)[Len(EgressChain(s))] = Rule(s.agent, Everywhere, "drop")
           /\ \A n \in 1 .. Len(EgressChain(s)) - 1 :
                 \/ EgressChain(s)[n] = Rule(s.proxy, Everywhere, "accept")
                 \/ EgressChain(s)[n] = Rule(s.agent, {s.port}, "accept")
                 \/ s.loopback /\ EgressChain(s)[n] = Rule(s.agent, Loopback, "accept")
                 \/ s.dns /\ EgressChain(s)[n] = Rule(s.agent, {"resolver"}, "accept")
  <1>a. PICK a : a = Rule(s.proxy, Everywhere, "accept")  OBVIOUS
  <1>b. PICK b : b = Rule(s.agent, {s.port}, "accept")  OBVIOUS
  <1>c. PICK c : c = Rule(s.agent, Loopback, "accept")  OBVIOUS
  <1>d. PICK d : d = Rule(s.agent, {"resolver"}, "accept")  OBVIOUS
  <1>e. PICK e : e = Rule(s.agent, Everywhere, "drop")  OBVIOUS
  <1>1. a \in AnyRule /\ b \in AnyRule /\ c \in AnyRule /\ d \in AnyRule /\ e \in AnyRule
    BY <1>a, <1>b, <1>c, <1>d, <1>e DEF AnyRule, Rule, Uids, Everywhere, Loopback, CapturedPorts, ValidSpec
  <1>p. PICK p : p = <<a, b>>  OBVIOUS
  <1>q. PICK q : q = JustIf(s.loopback, c)  OBVIOUS
  <1>u. PICK u : u = JustIf(s.dns, d)  OBVIOUS
  <1>v. PICK v : v = Just(e)  OBVIOUS
  <1>2. p \in Seq(AnyRule) /\ Len(p) = 2 /\ p[1] = a /\ p[2] = b  BY <1>1, <1>p
  <1>3. /\ q \in Seq(AnyRule) /\ Len(q) \in Nat /\ \A n \in 1 .. Len(q) : q[n] = c /\ s.loopback
    BY <1>1, <1>q, JustIfIs
  <1>4. /\ u \in Seq(AnyRule) /\ Len(u) \in Nat /\ \A n \in 1 .. Len(u) : u[n] = d /\ s.dns
    BY <1>1, <1>u, JustIfIs
  <1>5. v \in Seq(AnyRule) /\ Len(v) = 1 /\ v[1] = e  BY <1>1, <1>v, JustIs
  <1>f. PICK f : f = Joined(p, q)  OBVIOUS
  <1>6. /\ f \in Seq(AnyRule) /\ Len(f) = Len(p) + Len(q)
        /\ \A n \in 1 .. Len(f) : \/ n \in 1 .. Len(p) /\ f[n] = p[n]
                                  \/ n - Len(p) \in 1 .. Len(q) /\ f[n] = q[n - Len(p)]
    <2>1. p \in Seq(AnyRule) /\ q \in Seq(AnyRule)  BY <1>2, <1>3
    <2>2. JoinFacts(Joined(p, q), p, q, AnyRule)  BY <2>1, JoinedIs
    <2>3. JoinFacts(f, p, q, AnyRule)  BY <2>2, <1>f
    <2> QED  BY <2>3 DEF JoinFacts
  <1>g. PICK g : g = Joined(f, u)  OBVIOUS
  <1>7. /\ g \in Seq(AnyRule) /\ Len(g) = Len(f) + Len(u)
        /\ \A n \in 1 .. Len(g) : \/ n \in 1 .. Len(f) /\ g[n] = f[n]
                                  \/ n - Len(f) \in 1 .. Len(u) /\ g[n] = u[n - Len(f)]
    <2>1. f \in Seq(AnyRule) /\ u \in Seq(AnyRule)  BY <1>4, <1>6
    <2>2. JoinFacts(Joined(f, u), f, u, AnyRule)  BY <2>1, JoinedIs
    <2>3. JoinFacts(g, f, u, AnyRule)  BY <2>2, <1>g
    <2> QED  BY <2>3 DEF JoinFacts
  <1>r. PICK r : r = Joined(g, v)  OBVIOUS
  <1>8. /\ r \in Seq(AnyRule) /\ Len(r) = Len(g) + Len(v)
        /\ \A n \in 1 .. Len(g) : r[n] = g[n]
        /\ \A n \in 1 .. Len(v) : r[Len(g) + n] = v[n]
    <2>1. g \in Seq(AnyRule) /\ v \in Seq(AnyRule)  BY <1>5, <1>7
    <2>2. JoinFacts(Joined(g, v), g, v, AnyRule)  BY <2>1, JoinedIs
    <2>3. JoinFacts(r, g, v, AnyRule)  BY <2>2, <1>r
    <2> QED  BY <2>3 DEF JoinFacts
  <1>9. r = EgressChain(s)
    BY <1>a, <1>b, <1>c, <1>d, <1>e, <1>p, <1>q, <1>u, <1>v, <1>f, <1>g, <1>r
    DEF EgressChain, Joined, Just, JustIf, DefaultDrop
  <1>w. Len(f) \in Nat /\ Len(g) \in Nat /\ Len(r) = Len(g) + 1  BY <1>2, <1>3, <1>4, <1>5, <1>6, <1>7, <1>8
  <1>x. r[Len(r)] = e
    <2>1. r[Len(g) + 1] = v[1]  BY <1>5, <1>8
    <2> QED  BY <2>1, <1>5, <1>w
  <1>y. ASSUME NEW n \in 1 .. Len(r) - 1
        PROVE  r[n] = a \/ r[n] = b \/ (s.loopback /\ r[n] = c) \/ (s.dns /\ r[n] = d)
    <2>1. n \in 1 .. Len(g)  BY <1>w
    <2>2. r[n] = g[n]  BY <2>1, <1>8
    <2>3. CASE n - Len(f) \in 1 .. Len(u) /\ g[n] = u[n - Len(f)]
      <3>1. u[n - Len(f)] = d /\ s.dns  BY <2>3, <1>4
      <3> QED  BY <3>1, <2>2, <2>3
    <2>4. CASE n \in 1 .. Len(f) /\ g[n] = f[n]
      <3>1. CASE n \in 1 .. Len(p) /\ f[n] = p[n]
        <4>1. n = 1 \/ n = 2  BY <3>1, <1>2
        <4>2. r[n] = p[n]  BY <3>1, <2>2, <2>4
        <4> QED  BY <4>1, <4>2, <1>2
      <3>2. CASE n - Len(p) \in 1 .. Len(q) /\ f[n] = q[n - Len(p)]
        <4>1. q[n - Len(p)] = c /\ s.loopback  BY <3>2, <1>3
        <4> QED  BY <4>1, <3>2, <2>2, <2>4
      <3> QED  BY <2>4, <3>1, <3>2, <1>6
    <2> QED  BY <2>1, <2>3, <2>4, <1>7
  <1>z. /\ r \in Seq(AnyRule) /\ Len(r) >= 1 /\ r[Len(r)] = Rule(s.agent, Everywhere, "drop")
        /\ \A n \in 1 .. Len(r) - 1 :
              \/ r[n] = Rule(s.proxy, Everywhere, "accept")
              \/ r[n] = Rule(s.agent, {s.port}, "accept")
              \/ s.loopback /\ r[n] = Rule(s.agent, Loopback, "accept")
              \/ s.dns /\ r[n] = Rule(s.agent, {"resolver"}, "accept")
    <2>1. r \in Seq(AnyRule) /\ Len(r) >= 1  BY <1>8, <1>w
    <2>2. r[Len(r)] = Rule(s.agent, Everywhere, "drop")  BY <1>e, <1>x
    <2> QED  BY <2>1, <2>2, <1>a, <1>b, <1>c, <1>d, <1>y
  <1> QED  BY <1>9, <1>z

LEMMA RenderIsATable ==
    ASSUME NEW s \in Specs, ValidSpec(s)
    PROVE  /\ RenderNftables(s) \in Tables /\ RenderNftables(s) # NoTable
           /\ RenderNftables(s)["capture"] = CaptureChain(s)
           /\ RenderNftables(s)["egress"] = EgressChain(s)
  <1>1. CaptureChain(s) \in Seq(AnyRule) /\ EgressChain(s) \in Seq(AnyRule)
    BY CaptureShape, EgressShape
  <1>2. RenderNftables(s) = [capture |-> CaptureChain(s), egress |-> EgressChain(s)]
    BY DEF RenderNftables
  <1>3. DOMAIN RenderNftables(s) = {"capture", "egress"}  BY <1>2
  <1>4. DOMAIN NoTable = {}  BY DEF NoTable
  <1> QED  BY <1>1, <1>2, <1>3, <1>4 DEF Tables

\* Every rule that is rendered may stand, with the holes that the command line asks for.
LEMMA RenderFits ==
    ASSUME PortsArePorts, NEW s \in Specs, ValidSpec(s), NEW holes, {s.agent} \X Holes(s) \subseteq holes
    PROVE  RuledBy(RenderNftables(s), holes, s)
  <1>0. s.agent # s.proxy /\ s.port \in Ports /\ "accept" \notin Ports /\ "drop" \notin Ports
    BY DEF ValidSpec, PortsArePorts
  <1>1. ASSUME NEW n \in DOMAIN CaptureChain(s) PROVE Fitting("capture", CaptureChain(s)[n], holes, s)
    <2>0. PICK r : r = CaptureChain(s)[n]  OBVIOUS
    <2>1. \/ r = Rule(s.proxy, Everywhere, "accept")
          \/ s.loopback /\ r = Rule(s.agent, Loopback, "accept")
          \/ r = Rule(s.agent, CapturedPorts, s.port)
      <3>1. PICK t \in Seq(AnyRule) : t = CaptureChain(s)  BY CaptureShape
      <3>2. n \in 1 .. Len(t) /\ Len(t) \in Nat  BY <3>1
      <3>3. n = Len(t) \/ n \in 1 .. Len(t) - 1  BY <3>2
      <3> QED  BY <2>0, <3>1, <3>3, CaptureShape
    <2>2. CASE r = Rule(s.proxy, Everywhere, "accept")
      <3>1. r.verdict = "accept" /\ r.uid = s.proxy  BY <2>2 DEF Rule
      <3> QED  BY <3>1, <2>0, <1>0 DEF Fitting
    <2>3. CASE s.loopback /\ r = Rule(s.agent, Loopback, "accept")
      <3>1. r.verdict = "accept" /\ r.uid = s.agent /\ r.on = Loopback  BY <2>3 DEF Rule
      <3>2. Loopback \subseteq Holes(s)  BY <2>3 DEF Holes
      <3>3. {s.agent} \X Loopback \subseteq holes  BY <3>2
      <3> QED  BY <3>1, <3>3, <2>0, <1>0 DEF Fitting
    <2>4. CASE r = Rule(s.agent, CapturedPorts, s.port)
      <3>1. r.verdict = s.port  BY <2>4 DEF Rule
      <3> QED  BY <3>1, <2>0, <2>4, <1>0 DEF Fitting
    <2> QED  BY <2>1, <2>2, <2>3, <2>4
  <1>2. ASSUME NEW n \in DOMAIN EgressChain(s) PROVE Fitting("egress", EgressChain(s)[n], holes, s)
    <2>0. PICK r : r = EgressChain(s)[n]  OBVIOUS
    <2>1. \/ r = Rule(s.proxy, Everywhere, "accept")
          \/ r = Rule(s.agent, {s.port}, "accept")
          \/ s.loopback /\ r = Rule(s.agent, Loopback, "accept")
          \/ s.dns /\ r = Rule(s.agent, {"resolver"}, "accept")
          \/ r = Rule(s.agent, Everywhere, "drop")
      <3>1. PICK t \in Seq(AnyRule) : t = EgressChain(s)  BY EgressShape
      <3>2. n \in 1 .. Len(t) /\ Len(t) \in Nat  BY <3>1
      <3>3. n = Len(t) \/ n \in 1 .. Len(t) - 1  BY <3>2
      <3> QED  BY <2>0, <3>1, <3>3, EgressShape
    <2>2. CASE r = Rule(s.proxy, Everywhere, "accept")
      <3>1. r.verdict = "accept" /\ r.uid = s.proxy  BY <2>2 DEF Rule
      <3> QED  BY <3>1, <2>0, <1>0 DEF Fitting
    <2>3. CASE r = Rule(s.agent, {s.port}, "accept")
      <3>1. r.verdict = "accept" /\ r.on = {s.port}  BY <2>3 DEF Rule
      <3> QED  BY <3>1, <2>0, <1>0 DEF Fitting
    <2>4. CASE s.loopback /\ r = Rule(s.agent, Loopback, "accept")
      <3>1. r.verdict = "accept" /\ r.uid = s.agent /\ r.on = Loopback  BY <2>4 DEF Rule
      <3>2. Loopback \subseteq Holes(s)  BY <2>4 DEF Holes
      <3>3. {s.agent} \X Loopback \subseteq holes  BY <3>2
      <3> QED  BY <3>1, <3>3, <2>0, <1>0 DEF Fitting
    <2>5. CASE s.dns /\ r = Rule(s.agent, {"resolver"}, "accept")
      <3>1. r.verdict = "accept" /\ r.uid = s.agent /\ r.on = {"resolver"}  BY <2>5 DEF Rule
      <3>2. {"resolver"} \subseteq Holes(s)  BY <2>5 DEF Holes
      <3>3. {s.agent} \X {"resolver"} \subseteq holes  BY <3>2
      <3> QED  BY <3>1, <3>3, <2>0, <1>0 DEF Fitting
    <2>6. CASE r = Rule(s.agent, Everywhere, "drop")
      <3>1. r.verdict = "drop"  BY <2>6 DEF Rule
      <3> QED  BY <3>1, <2>0, <1>0 DEF Fitting
    <2> QED  BY <2>1, <2>2, <2>3, <2>4, <2>5, <2>6
  <1> QED  BY <1>1, <1>2, RenderIsATable DEF RuledBy, Chains

\* What `install` puts in place, `status` reports as installed.
LEMMA RenderIsInstalled ==
    ASSUME PortsArePorts, NEW s \in Specs, ValidSpec(s)
    PROVE  Installed(RenderNftables(s), s)
  <1>0. s.agent # s.proxy /\ s.port \in Ports /\ "accept" \notin Ports /\ "drop" \notin Ports
    BY DEF ValidSpec, PortsArePorts
  <1>t. PICK t : t = RenderNftables(s)  OBVIOUS
  <1>p. PICK p \in Seq(AnyRule) : p = CaptureChain(s)  BY CaptureShape
  <1>q. PICK q \in Seq(AnyRule) : q = EgressChain(s)  BY EgressShape
  <1>1. t["capture"] = p /\ t["egress"] = q /\ t # NoTable  BY <1>t, <1>p, <1>q, RenderIsATable
  <1>2. /\ Len(p) \in Nat /\ Len(p) >= 2 /\ DOMAIN p = 1 .. Len(p)
        /\ p[1] = Rule(s.proxy, Everywhere, "accept") /\ p[Len(p)] = Rule(s.agent, CapturedPorts, s.port)
        /\ \A n \in 1 .. Len(p) - 1 : p[n].verdict = "accept"
    <2>1. \A n \in 1 .. Len(p) - 1 : \/ p[n] = Rule(s.proxy, Everywhere, "accept")
                                     \/ s.loopback /\ p[n] = Rule(s.agent, Loopback, "accept")
      BY <1>p, CaptureShape
    <2>2. \A n \in 1 .. Len(p) - 1 : p[n].verdict = "accept"  BY <2>1 DEF Rule
    <2>3. /\ Len(p) >= 2 /\ p[1] = Rule(s.proxy, Everywhere, "accept")
          /\ p[Len(p)] = Rule(s.agent, CapturedPorts, s.port)
      BY <1>p, CaptureShape
    <2> QED  BY <2>2, <2>3
  <1>3. /\ Len(q) \in Nat /\ Len(q) >= 1 /\ DOMAIN q = 1 .. Len(q)
        /\ q[Len(q)] = DefaultDrop(s) /\ \A n \in 1 .. Len(q) - 1 : q[n].verdict = "accept"
    <2>1. \A n \in 1 .. Len(q) - 1 : \/ q[n] = Rule(s.proxy, Everywhere, "accept")
                                     \/ q[n] = Rule(s.agent, {s.port}, "accept")
                                     \/ s.loopback /\ q[n] = Rule(s.agent, Loopback, "accept")
                                     \/ s.dns /\ q[n] = Rule(s.agent, {"resolver"}, "accept")
      BY <1>q, EgressShape
    <2>2. \A n \in 1 .. Len(q) - 1 : q[n].verdict = "accept"  BY <2>1 DEF Rule
    <2>3. Len(q) >= 1 /\ q[Len(q)] = DefaultDrop(s)  BY <1>q, EgressShape DEF DefaultDrop
    <2> QED  BY <2>2, <2>3
  <1>4. Redirects(t, s)["capture"] = {Len(p)}
    <2>1. Redirects(t, s)["capture"] = {n \in DOMAIN p : p[n].uid = s.agent /\ p[n].verdict = s.port}
      BY <1>1 DEF Redirects, Chains
    <2>2. p[Len(p)].uid = s.agent /\ p[Len(p)].verdict = s.port  BY <1>2 DEF Rule
    <2>3. \A n \in DOMAIN p : p[n].verdict = s.port => n = Len(p)
      <3>1. \A n \in DOMAIN p : n = Len(p) \/ n \in 1 .. Len(p) - 1  BY <1>2
      <3> QED  BY <3>1, <1>0, <1>2
    <2>4. Len(p) \in DOMAIN p  BY <1>2
    <2> QED  BY <2>1, <2>2, <2>3, <2>4
  <1>5. Drops(t, s)["capture"] = {}
    <2>1. Drops(t, s)["capture"] = {n \in DOMAIN p : p[n] = DefaultDrop(s)}  BY <1>1 DEF Drops, Chains
    <2>2. \A n \in DOMAIN p : p[n].verdict # "drop"
      <3>1. \A n \in DOMAIN p : n = Len(p) \/ n \in 1 .. Len(p) - 1  BY <1>2
      <3>2. p[Len(p)].verdict # "drop"  BY <1>0, <1>2 DEF Rule
      <3> QED  BY <3>1, <3>2, <1>2
    <2>3. DefaultDrop(s).verdict = "drop"  BY DEF DefaultDrop, Rule
    <2> QED  BY <2>1, <2>2, <2>3
  <1>6. Drops(t, s)["egress"] = {Len(q)}
    <2>1. Drops(t, s)["egress"] = {n \in DOMAIN q : q[n] = DefaultDrop(s)}  BY <1>1 DEF Drops, Chains
    <2>2. DefaultDrop(s).verdict = "drop"  BY DEF DefaultDrop, Rule
    <2>3. \A n \in DOMAIN q : q[n] = DefaultDrop(s) => n = Len(q)
      <3>1. \A n \in DOMAIN q : n = Len(q) \/ n \in 1 .. Len(q) - 1  BY <1>3
      <3> QED  BY <3>1, <2>2, <1>3
    <2>4. Len(q) \in DOMAIN q  BY <1>3
    <2> QED  BY <2>1, <2>3, <2>4, <1>3
  <1>7. IsFirst(Redirects(t, s), "capture", Len(p))  BY <1>2, <1>4 DEF IsFirst
  <1>8. ScopeIsNameable(p[Len(p)])  BY <1>2 DEF ScopeIsNameable, Rule
  <1>9. ProxyExempted(p, Len(p), s)  BY <1>2 DEF ProxyExempted
  <1>a. IsFirst(Drops(t, s), "egress", Len(q))  BY <1>3, <1>5, <1>6 DEF IsFirst
  <1>b. DropIsLast(q, Len(q), s)  BY <1>3 DEF DropIsLast
  <1>c. "capture" \in Chains /\ "egress" \in Chains  BY DEF Chains
  <1>d. \E c \in Chains : \E n \in Redirects(t, s)[c] :
          /\ IsFirst(Redirects(t, s), c, n)
          /\ ScopeIsNameable(t[c][n]) /\ ProxyExempted(t[c], n, s)
    BY <1>1, <1>4, <1>7, <1>8, <1>9, <1>c
  <1>e. \E c \in Chains : \E n \in Drops(t, s)[c] :
          IsFirst(Drops(t, s), c, n) /\ DropIsLast(t[c], n, s)
    BY <1>1, <1>6, <1>a, <1>b, <1>c
  <1> QED  BY <1>t, <1>1, <1>d, <1>e DEF Installed

\* A chain's word on a packet is that of a rule that matches it, or "accept" where none does.
LEMMA VerdictIs ==
    ASSUME NEW T, NEW chain \in Seq(T), NEW uid, NEW to
    PROVE  \/ /\ PerimeterVerdict(chain, uid, to) = "accept"
              /\ \A n \in DOMAIN chain : ~(chain[n].uid = uid /\ to \in chain[n].on)
           \/ \E n \in DOMAIN chain : /\ chain[n].uid = uid /\ to \in chain[n].on
                                      /\ PerimeterVerdict(chain, uid, to) = chain[n].verdict
  <1>1. PICK matching : matching = {n \in DOMAIN chain : chain[n].uid = uid /\ to \in chain[n].on}
    OBVIOUS
  <1>2. PerimeterVerdict(chain, uid, to) = IF matching = {} THEN "accept" ELSE chain[Min(matching)].verdict
    BY <1>1 DEF PerimeterVerdict
  <1>3. CASE matching = {}
    <2>1. \A n \in DOMAIN chain : ~(chain[n].uid = uid /\ to \in chain[n].on)  BY <1>1, <1>3
    <2> QED  BY <2>1, <1>2, <1>3
  <1>4. CASE matching # {}
    <2>1. matching \subseteq Nat
      <3>1. DOMAIN chain = 1 .. Len(chain) /\ Len(chain) \in Nat  OBVIOUS
      <3> QED  BY <1>1, <3>1
    <2>2. \E n \in matching : \A m \in matching : n <= m  BY <1>4, <2>1, HasLeast
    <2>3. Min(matching) \in matching  BY <2>2 DEF Min
    <2> QED  BY <2>3, <1>1, <1>2, <1>4
  <1> QED  BY <1>3, <1>4

\* What `status` calls installed contains the agent.
LEMMA InstalledContains ==
    ASSUME OwnRulesAcceptOrDrop, PortsArePorts,
           NEW t, NEW holes, TableKnown(t, holes), NEW s \in Specs, ValidSpec(s), Installed(t, s)
    PROVE  Contained(t, s, holes)
  <1>0. s.agent # s.proxy /\ s.port \in Ports /\ "accept" \notin Ports /\ "drop" \notin Ports
    BY DEF ValidSpec, PortsArePorts
  <1>1. t # NoTable /\ t \in Tables  BY DEF Installed, TableKnown
  <1>2. /\ t["capture"] \in Seq(AnyRule) /\ t["egress"] \in Seq(AnyRule)
        /\ t.capture = t["capture"] /\ t.egress = t["egress"]
        /\ "capture" \in Chains /\ "egress" \in Chains
    BY <1>1 DEF Tables, Chains
  <1>3. \A r \in AnyRule : r.verdict \in {"accept", "drop"} \cup Ports
    BY DEF AnyRule, OwnRulesAcceptOrDrop
  <1>w. PICK c \in Chains : \E n \in DOMAIN t[c] : /\ t[c][n].uid = s.agent /\ t[c][n].verdict = s.port
                                                   /\ t[c][n].on \subseteq CapturedPorts
    BY DEF Installed, Redirects, ScopeIsNameable
  <1>4. PICK n \in DOMAIN t[c] : /\ t[c][n].uid = s.agent /\ t[c][n].verdict = s.port
                                 /\ t[c][n].on \subseteq CapturedPorts
    BY <1>w
  <1>5. ~CapturesAll(t)
    <2>1. "other" \in Everywhere /\ "other" \notin CapturedPorts  BY DEF Everywhere, CapturedPorts
    <2>2. t[c][n].on # Everywhere  BY <1>4, <2>1
    <2> QED  BY <1>0, <1>4, <2>2 DEF CapturesAll
  <1>6. PICK z \in Specs : RuledBy(t, holes, z)  BY <1>5 DEF TableKnown
  <1>7. \A d \in Chains : \A m \in DOMAIN t[d] : Fitting(d, t[d][m], holes, z)  BY <1>6 DEF RuledBy
  <1>8. z.agent = s.agent /\ z.port = s.port
    <2>1. t[c][n] = Rule(z.agent, CapturedPorts, z.port)  BY <1>0, <1>4, <1>7 DEF Fitting
    <2> QED  BY <1>4, <2>1 DEF Rule
  \* The rules of the two chains.
  <1>9. ASSUME NEW m \in DOMAIN t["capture"]
        PROVE  /\ t["capture"][m].verdict \in {"accept", "drop"} \cup Ports
               /\ t["capture"][m].verdict \in Ports => t["capture"][m] = Rule(s.agent, CapturedPorts, s.port)
               /\ t["capture"][m].verdict = "accept" /\ t["capture"][m].uid = s.agent =>
                    {s.agent} \X t["capture"][m].on \subseteq holes
    <2>1. t["capture"][m] \in AnyRule  BY <1>2
    <2>2. Fitting("capture", t["capture"][m], holes, z)  BY <1>2, <1>7
    <2> QED  BY <2>1, <2>2, <1>3, <1>8 DEF Fitting
  <1>a. ASSUME NEW m \in DOMAIN t["egress"]
        PROVE  /\ t["egress"][m].verdict \in {"accept", "drop"}
               /\ t["egress"][m].verdict = "accept" /\ t["egress"][m].uid = s.agent =>
                    t["egress"][m].on = {s.port} \/ {s.agent} \X t["egress"][m].on \subseteq holes
    <2>1. t["egress"][m] \in AnyRule  BY <1>2
    <2>2. Fitting("egress", t["egress"][m], holes, z)  BY <1>2, <1>7
    <2> QED  BY <2>1, <2>2, <1>3, <1>8 DEF Fitting
  \* Somewhere there is an unconditional drop.
  <1>b. \E d \in Chains : \E m \in DOMAIN t[d] : t[d][m].uid = s.agent /\ t[d][m].on = Everywhere
    BY DEF Installed, Drops, DefaultDrop, Rule
  <1>c. ASSUME NEW to \in Everywhere
        PROVE  \/ Fate(t, s.agent, to) \in {"dropped", s.port}
               \/ Fate(t, s.agent, to) = to /\ <<s.agent, to>> \in holes
    <2>1. PICK nat : nat = PerimeterVerdict(t["capture"], s.agent, to)  OBVIOUS
    <2>2. PICK at : at = IF nat \in Ports THEN nat ELSE to  OBVIOUS
    <2>3. PICK eg : eg = PerimeterVerdict(t["egress"], s.agent, at)  OBVIOUS
    <2>4. Fate(t, s.agent, to) = IF nat = "drop" \/ eg = "drop" THEN "dropped" ELSE at
      <3>1. Fate(t, s.agent, to) = IF "drop" \in {nat, eg} THEN "dropped" ELSE at
        BY <1>1, <1>2, <2>1, <2>2, <2>3 DEF Fate
      <3> QED  BY <3>1
    <2>5. \/ nat = "accept" /\ \A m \in DOMAIN t["capture"] :
                                 ~(t["capture"][m].uid = s.agent /\ to \in t["capture"][m].on)
          \/ \E m \in DOMAIN t["capture"] : /\ t["capture"][m].uid = s.agent /\ to \in t["capture"][m].on
                                            /\ nat = t["capture"][m].verdict
      BY <1>2, <2>1, VerdictIs
    <2>6. \/ eg = "accept" /\ \A m \in DOMAIN t["egress"] :
                                ~(t["egress"][m].uid = s.agent /\ at \in t["egress"][m].on)
          \/ \E m \in DOMAIN t["egress"] : /\ t["egress"][m].uid = s.agent /\ at \in t["egress"][m].on
                                           /\ eg = t["egress"][m].verdict
      BY <1>2, <2>3, VerdictIs
    <2>7. CASE nat = "drop" \/ eg = "drop"  BY <2>4, <2>7
    <2>8. CASE nat \in Ports
      <3>1. nat = s.port
        <4>1. PICK m \in DOMAIN t["capture"] : nat = t["capture"][m].verdict  BY <1>0, <2>5, <2>8
        <4>2. t["capture"][m] = Rule(s.agent, CapturedPorts, s.port)  BY <1>9, <2>8, <4>1
        <4> QED  BY <4>1, <4>2 DEF Rule
      <3> QED  BY <2>2, <2>4, <2>8, <3>1
    <2>9. CASE nat \notin Ports /\ nat # "drop" /\ eg # "drop"
      <3>0. at = to /\ Fate(t, s.agent, to) = to  BY <2>2, <2>4, <2>9
      <3>1. CASE \E m \in DOMAIN t["egress"] : /\ t["egress"][m].uid = s.agent /\ at \in t["egress"][m].on
                                               /\ eg = t["egress"][m].verdict
        <4>1. PICK m \in DOMAIN t["egress"] : /\ t["egress"][m].uid = s.agent /\ at \in t["egress"][m].on
                                              /\ eg = t["egress"][m].verdict
          BY <3>1
        <4>2. t["egress"][m].verdict = "accept"  BY <1>a, <2>9, <4>1
        <4>3. t["egress"][m].on = {s.port} \/ {s.agent} \X t["egress"][m].on \subseteq holes
          BY <1>a, <4>1, <4>2
        <4>4. CASE t["egress"][m].on = {s.port}  BY <3>0, <4>1, <4>4
        <4>5. CASE {s.agent} \X t["egress"][m].on \subseteq holes  BY <3>0, <4>1, <4>5
        <4> QED  BY <4>3, <4>4, <4>5
      <3>2. CASE \A m \in DOMAIN t["egress"] : ~(t["egress"][m].uid = s.agent /\ at \in t["egress"][m].on)
        <4>1. \E m \in DOMAIN t["capture"] : t["capture"][m].uid = s.agent /\ t["capture"][m].on = Everywhere
          BY <1>b, <3>0, <3>2 DEF Chains
        <4>2. PICK m \in DOMAIN t["capture"] : /\ t["capture"][m].uid = s.agent /\ to \in t["capture"][m].on
                                               /\ nat = t["capture"][m].verdict
          BY <2>5, <4>1
        <4>3. t["capture"][m].verdict = "accept"  BY <1>9, <2>9, <4>2
        <4>4. {s.agent} \X t["capture"][m].on \subseteq holes  BY <1>9, <4>2, <4>3
        <4> QED  BY <3>0, <4>2, <4>4
      <3> QED  BY <2>6, <3>1, <3>2
    <2> QED  BY <2>7, <2>8, <2>9
  <1>d. ASSUME NEW to \in CapturedPorts \cup {"other"}
        PROVE  /\ PerimeterVerdict(t["capture"], s.agent, to) \in Ports => to \in CapturedPorts
               /\ PerimeterVerdict(t["capture"], s.proxy, to) \notin Ports
    <2>1. ASSUME NEW uid, PerimeterVerdict(t["capture"], uid, to) \in Ports
          PROVE  uid = s.agent /\ to \in CapturedPorts
      <3>1. PICK m \in DOMAIN t["capture"] :
               /\ t["capture"][m].uid = uid /\ to \in t["capture"][m].on
               /\ PerimeterVerdict(t["capture"], uid, to) = t["capture"][m].verdict
        <4>1. \/ PerimeterVerdict(t["capture"], uid, to) = "accept"
              \/ \E m \in DOMAIN t["capture"] :
                    /\ t["capture"][m].uid = uid /\ to \in t["capture"][m].on
                    /\ PerimeterVerdict(t["capture"], uid, to) = t["capture"][m].verdict
          BY <1>2, VerdictIs
        <4> QED  BY <4>1, <2>1, <1>0
      <3>2. t["capture"][m] = Rule(s.agent, CapturedPorts, s.port)  BY <1>9, <2>1, <3>1
      <3> QED  BY <3>1, <3>2 DEF Rule
    <2> QED  BY <2>1, <1>0
  <1> QED  BY <1>2, <1>c, <1>d DEF Contained

\* A chain with one rule more, at either end, or one less has the rules it had, and that one.
LEMMA EditedChain ==
    ASSUME NEW p \in Seq(AnyRule), NEW r \in AnyRule
    PROVE  /\ <<r>> \o p \in Seq(AnyRule) /\ Append(p, r) \in Seq(AnyRule)
           /\ \A n \in DOMAIN (<<r>> \o p) : (<<r>> \o p)[n] = r \/ \E m \in DOMAIN p : (<<r>> \o p)[n] = p[m]
           /\ \A n \in DOMAIN Append(p, r) : Append(p, r)[n] = r \/ \E m \in DOMAIN p : Append(p, r)[n] = p[m]
  <1>0. Len(p) \in Nat /\ DOMAIN p = 1 .. Len(p)  OBVIOUS
  <1>1. PICK o : o = Just(r)  OBVIOUS
  <1>2. o \in Seq(AnyRule) /\ Len(o) = 1 /\ o[1] = r  BY <1>1, JustIs
  <1>3. PICK q : q = Joined(o, p)  OBVIOUS
  <1>4. JoinFacts(Joined(o, p), o, p, AnyRule)  BY <1>2, JoinedIs
  <1>5. JoinFacts(q, o, p, AnyRule)  BY <1>3, <1>4
  <1>6. q = <<r>> \o p  BY <1>1, <1>3 DEF Joined, Just
  <1>7. q \in Seq(AnyRule)  BY <1>5 DEF JoinFacts
  <1>8. ASSUME NEW n \in DOMAIN q PROVE q[n] = r \/ \E m \in DOMAIN p : q[n] = p[m]
    <2>1. n \in 1 .. Len(q)  BY <1>7
    <2>2. \/ n \in 1 .. Len(o) /\ q[n] = o[n]
          \/ n - Len(o) \in 1 .. Len(p) /\ q[n] = p[n - Len(o)]
      BY <2>1, <1>5 DEF JoinFacts
    <2>3. CASE n \in 1 .. Len(o) /\ q[n] = o[n]
      <3>1. n = 1  BY <2>3, <1>2
      <3> QED  BY <3>1, <2>3, <1>2
    <2>4. CASE n - Len(o) \in 1 .. Len(p) /\ q[n] = p[n - Len(o)]  BY <2>4, <1>0
    <2> QED  BY <2>2, <2>3, <2>4
  <1>9. PICK a : a = Append(p, r)  OBVIOUS
  <1>a. /\ a \in Seq(AnyRule) /\ DOMAIN a = 1 .. Len(p) + 1 /\ a[Len(p) + 1] = r
        /\ \A n \in 1 .. Len(p) : a[n] = p[n]
    BY <1>0, <1>9
  <1>b. ASSUME NEW n \in DOMAIN a PROVE a[n] = r \/ \E m \in DOMAIN p : a[n] = p[m]
    <2>1. n = Len(p) + 1 \/ n \in 1 .. Len(p)  BY <1>0, <1>a
    <2> QED  BY <2>1, <1>0, <1>a
  <1> QED  BY <1>6, <1>7, <1>8, <1>9, <1>a, <1>b

LEMMA ShortenedChain ==
    ASSUME NEW p \in Seq(AnyRule), NEW i \in 1 .. Len(p)
    PROVE  /\ RemoveAt(p, i) \in Seq(AnyRule)
           /\ \A n \in DOMAIN RemoveAt(p, i) : \E m \in DOMAIN p : RemoveAt(p, i)[n] = p[m]
  <1>0. Len(p) \in Nat /\ DOMAIN p = 1 .. Len(p) /\ i \in Nat  OBVIOUS
  <1>1. PICK a : a = SubSeq(p, 1, i - 1)  OBVIOUS
  <1>2. PICK b : b = SubSeq(p, i + 1, Len(p))  OBVIOUS
  <1>3. a \in Seq(AnyRule) /\ Len(a) = i - 1 /\ \A n \in 1 .. i - 1 : a[n] = p[n]  BY <1>0, <1>1
  <1>4. b \in Seq(AnyRule) /\ Len(b) = Len(p) - i /\ \A n \in 1 .. Len(p) - i : b[n] = p[i + n]
    <2>1. PICK k \in Nat : k = i + 1  BY <1>0
    <2>2. PICK l \in Nat : l = Len(p)  BY <1>0
    <2>3. \A j \in k .. l : p[j] \in AnyRule  BY <1>0, <2>1, <2>2
    <2>4. /\ SubSeq(p, k, l) \in Seq(AnyRule)
          /\ Len(SubSeq(p, k, l)) = IF k <= l THEN l - k + 1 ELSE 0
          /\ \A n \in 1 .. l - k + 1 : SubSeq(p, k, l)[n] = p[k + n - 1]
      BY <2>3, SubSeqProperties
    <2>5. b = SubSeq(p, k, l)  BY <1>2, <2>1, <2>2
    <2>8. Len(b) = IF k <= l THEN l - k + 1 ELSE 0  BY <2>4, <2>5
    <2>6. Len(b) = Len(p) - i
      <3>1. i \in 1 .. l /\ k = i + 1  BY <1>0, <2>1, <2>2
      <3>2. (IF k <= l THEN l - k + 1 ELSE 0) = l - i  BY <3>1
      <3> QED  BY <2>2, <2>8, <3>2
    <2>7. ASSUME NEW n \in 1 .. Len(p) - i PROVE b[n] = p[i + n]
      <3>1. n \in 1 .. l - k + 1 /\ k + n - 1 = i + n  BY <1>0, <2>1, <2>2
      <3> QED  BY <3>1, <2>4, <2>5
    <2> QED  BY <2>4, <2>5, <2>6, <2>7
  <1>5. PICK q : q = Joined(a, b)  OBVIOUS
  <1>6. JoinFacts(Joined(a, b), a, b, AnyRule)  BY <1>3, <1>4, JoinedIs
  <1>7. JoinFacts(q, a, b, AnyRule)  BY <1>5, <1>6
  <1>8. q = RemoveAt(p, i)  BY <1>1, <1>2, <1>5 DEF Joined, RemoveAt
  <1>9. q \in Seq(AnyRule)  BY <1>7 DEF JoinFacts
  <1>a. ASSUME NEW n \in DOMAIN q PROVE \E m \in DOMAIN p : q[n] = p[m]
    <2>1. n \in 1 .. Len(q)  BY <1>9
    <2>2. \/ n \in 1 .. Len(a) /\ q[n] = a[n]
          \/ n - Len(a) \in 1 .. Len(b) /\ q[n] = b[n - Len(a)]
      BY <2>1, <1>7 DEF JoinFacts
    <2>3. CASE n \in 1 .. Len(a) /\ q[n] = a[n]
      <3>1. n \in 1 .. i - 1 /\ q[n] = p[n]  BY <2>3, <1>0, <1>3
      <3> QED  BY <3>1, <1>0
    <2>4. CASE n - Len(a) \in 1 .. Len(b) /\ q[n] = b[n - Len(a)]
      <3>1. PICK k \in 1 .. Len(p) - i : q[n] = b[k]  BY <2>4, <1>0, <1>3, <1>4
      <3>2. q[n] = p[i + k] /\ i + k \in 1 .. Len(p)  BY <3>1, <1>0, <1>4
      <3> QED  BY <3>2, <1>0
    <2> QED  BY <2>2, <2>3, <2>4
  <1> QED  BY <1>8, <1>9, <1>a

\* A chain changed to one whose rules are the old ones and rules that fit stays a known table.
LEMMA EditedTable ==
    ASSUME NEW t, NEW holes, TableKnown(t, holes), NEW c \in Chains, NEW more, holes \subseteq more,
           NEW q \in Seq(AnyRule), NEW new,
           \A n \in DOMAIN q : new[n] \/ \E m \in DOMAIN t[c] : q[n] = t[c][m],
           \A n \in DOMAIN q : new[n] => /\ q[n].verdict \notin Ports
                                         /\ q[n].verdict = "accept" => {q[n].uid} \X q[n].on \subseteq more
    PROVE  TableKnown([t EXCEPT ![c] = q], more)
  <1>1. t \in Tables  BY DEF TableKnown
  <1>2. PICK u : u = [t EXCEPT ![c] = q]  OBVIOUS
  <1>3. u \in Tables /\ u[c] = q /\ \A d \in Chains : d # c => u[d] = t[d]
    BY <1>1, <1>2 DEF Tables, Chains
  <1>4. ASSUME CapturesAll(t) PROVE CapturesAll(u)
    <2>1. SUFFICES ASSUME NEW d \in Chains, NEW n \in DOMAIN u[d], u[d][n].verdict \in Ports
                   PROVE  u[d][n].on = Everywhere
      BY DEF CapturesAll
    <2>2. CASE d # c
      <3>1. u[d] = t[d]  BY <2>2, <1>3
      <3> QED  BY <3>1, <2>1, <1>4 DEF CapturesAll
    <2>3. CASE d = c
      <3>1. n \in DOMAIN q /\ u[d][n] = q[n]  BY <2>3, <1>3
      <3>2. PICK m \in DOMAIN t[c] : q[n] = t[c][m]  BY <2>1, <3>1
      <3> QED  BY <2>1, <3>1, <3>2, <1>4 DEF CapturesAll
    <2> QED  BY <2>2, <2>3
  <1>5. ASSUME NEW s \in Specs, RuledBy(t, holes, s) PROVE RuledBy(u, more, s)
    <2>0. ASSUME NEW d, NEW r, Fitting(d, r, holes, s) PROVE Fitting(d, r, more, s)
      BY <2>0 DEF Fitting
    <2>1. SUFFICES ASSUME NEW d \in Chains, NEW n \in DOMAIN u[d] PROVE Fitting(d, u[d][n], more, s)
      BY DEF RuledBy
    <2>2. CASE d # c
      <3>1. u[d] = t[d]  BY <2>2, <1>3
      <3>2. Fitting(d, t[d][n], holes, s)  BY <3>1, <2>1, <1>5 DEF RuledBy
      <3> QED  BY <3>1, <3>2, <2>0
    <2>3. CASE d = c
      <3>1. n \in DOMAIN q /\ u[d][n] = q[n]  BY <2>3, <1>3
      <3>2. CASE new[n]
        <4>1. /\ q[n].verdict \notin Ports
              /\ q[n].verdict = "accept" => {q[n].uid} \X q[n].on \subseteq more
          BY <3>1, <3>2
        <4> QED  BY <3>1, <4>1 DEF Fitting
      <3>3. CASE \E m \in DOMAIN t[c] : q[n] = t[c][m]
        <4>1. PICK m \in DOMAIN t[c] : q[n] = t[c][m]  BY <3>3
        <4>2. Fitting(d, t[d][m], holes, s)  BY <2>3, <4>1, <1>5 DEF RuledBy
        <4> QED  BY <2>3, <3>1, <4>1, <4>2, <2>0
      <3> QED  BY <3>1, <3>2, <3>3
    <2> QED  BY <2>2, <2>3
  <1> QED  BY <1>2, <1>3, <1>4, <1>5 DEF TableKnown

LEMMA PerimeterBegins == ASSUME PortsArePorts PROVE TableInit => PerimeterInv
  <1> SUFFICES ASSUME TableInit PROVE PerimeterInv  OBVIOUS
  <1>1. checks = {} /\ started = {}  BY DEF TableInit
  <1>2. nft = NoTable \/ \E s \in Specs : ValidSpec(s) /\ nft = LeftBehind(s)  BY DEF TableInit
  <1>3. ASSUME NEW s \in Specs, ValidSpec(s), nft = LeftBehind(s) PROVE TableKnown(nft, opened)
    <2>0. s.port \in Ports /\ "accept" \notin Ports  BY <1>3 DEF ValidSpec, PortsArePorts
    <2>1. PICK p \in Seq(AnyRule) : p = CaptureChain(s)  BY <1>3, CaptureShape
    <2>2. PICK q \in Seq(AnyRule) : q = EgressChain(s)  BY <1>3, EgressShape
    <2>3. /\ Len(p) \in Nat /\ Len(p) >= 2 /\ DOMAIN p = 1 .. Len(p)
          /\ p[Len(p)] = Rule(s.agent, CapturedPorts, s.port)
      BY <1>3, <2>1, CaptureShape
    <2>4. PICK w : w = [p EXCEPT ![Len(p)].on = Everywhere]  OBVIOUS
    <2>5. nft = [capture |-> w, egress |-> q]
      <3>1. RenderNftables(s) = [capture |-> p, egress |-> q]  BY <2>1, <2>2 DEF RenderNftables
      <3>2. nft = [RenderNftables(s) EXCEPT !.capture[Len(p)].on = Everywhere]
        BY <1>3, <2>1 DEF LeftBehind
      <3>3. PICK u : u = RenderNftables(s)  OBVIOUS
      <3>5. u.capture = p /\ u = [capture |-> p, egress |-> q]  BY <3>1, <3>3
      <3>4. nft = [u EXCEPT !.capture[Len(p)].on = Everywhere]  BY <3>2, <3>3
      <3>6. [u EXCEPT !.capture[Len(p)].on = Everywhere] = [u EXCEPT !.capture = [u.capture EXCEPT ![Len(p)].on = Everywhere]]
        OBVIOUS
      <3>7. [u EXCEPT !.capture[Len(p)].on = Everywhere] = [u EXCEPT !.capture = w]  BY <3>5, <3>6, <2>4
      <3>8. [u EXCEPT !.capture = w] = [capture |-> w, egress |-> q]  BY <3>5
      <3> QED  BY <3>4, <3>7, <3>8
    <2>6. Rule(s.agent, Everywhere, s.port) \in AnyRule
      BY <2>0 DEF AnyRule, Rule, Uids
    <2>7. /\ DOMAIN w = 1 .. Len(p) /\ w[Len(p)] = Rule(s.agent, Everywhere, s.port)
          /\ \A n \in 1 .. Len(p) : n # Len(p) => w[n] = p[n]
      <3>1. [p[Len(p)] EXCEPT !.on = Everywhere] = Rule(s.agent, Everywhere, s.port)
        BY <2>3 DEF Rule
      <3> QED  BY <2>3, <2>4, <3>1
    <2>8. w \in Seq(AnyRule)
      <3>1. w = [p EXCEPT ![Len(p)] = [p[Len(p)] EXCEPT !.on = Everywhere]]  BY <2>4
      <3>2. [p[Len(p)] EXCEPT !.on = Everywhere] = Rule(s.agent, Everywhere, s.port)
        BY <2>3 DEF Rule
      <3>3. PICK r \in AnyRule : r = Rule(s.agent, Everywhere, s.port)  BY <2>6
      <3>4. w = [p EXCEPT ![Len(p)] = r]  BY <3>1, <3>2, <3>3
      <3> QED  BY <3>4, <2>3
    <2>9. nft \in Tables  BY <2>2, <2>5, <2>8 DEF Tables
    <2>a. CapturesAll(nft)
      <3>1. SUFFICES ASSUME NEW c \in Chains, NEW n \in DOMAIN nft[c], nft[c][n].verdict \in Ports
                     PROVE  nft[c][n].on = Everywhere
        BY DEF CapturesAll
      <3>2. CASE c = "capture"
        <4>1. nft[c] = w  BY <2>5, <3>2
        <4>2. CASE n = Len(p)  BY <4>1, <4>2, <2>7 DEF Rule
        <4>3. CASE n # Len(p)
          <5>0. n \in 1 .. Len(p)  BY <4>1, <2>7
          <5>1. n \in 1 .. Len(p) - 1 /\ w[n] = p[n]
            <6>1. w[n] = p[n]  BY <5>0, <4>3, <2>7
            <6>2. n \in 1 .. Len(p) - 1  BY <5>0, <4>3, <2>3
            <6> QED  BY <6>1, <6>2
          <5>2. \/ p[n] = Rule(s.proxy, Everywhere, "accept")
                \/ s.loopback /\ p[n] = Rule(s.agent, Loopback, "accept")
            BY <5>1, <1>3, <2>1, CaptureShape
          <5>3. p[n].verdict = "accept"  BY <5>2 DEF Rule
          <5> QED  BY <5>1, <5>3, <4>1, <3>1, <2>0
        <4> QED  BY <4>2, <4>3
      <3>3. CASE c = "egress"
        <4>1. nft[c] = q  BY <2>5, <3>3
        <4>2. RuledBy(RenderNftables(s), {s.agent} \X Holes(s), s)  BY <1>3, RenderFits
        <4>3. Fitting("egress", q[n], {s.agent} \X Holes(s), s)
          <5>1. RenderNftables(s)["egress"] = q  BY <1>3, <2>2, RenderIsATable
          <5> QED  BY <4>1, <4>2, <5>1 DEF RuledBy, Chains
        <4> QED  BY <4>1, <4>3, <3>1 DEF Fitting
      <3> QED  BY <3>2, <3>3 DEF Chains
    <2> QED  BY <2>9, <2>a DEF TableKnown
  <1> QED  BY <1>1, <1>2, <1>3 DEF PerimeterInv

LEMMA PerimeterContinues ==
    ASSUME OwnRulesAcceptOrDrop, PortsArePorts
    PROVE  PerimeterInv /\ [TableNext]_tableVars => PerimeterInv'
  <1> SUFFICES ASSUME PerimeterInv, [TableNext]_tableVars PROVE PerimeterInv'  OBVIOUS
  <1>0. /\ nft = NoTable \/ TableKnown(nft, opened)
        /\ \A r \in checks \cup started : Contained(r.saw, r.spec, r.opened)
    BY DEF PerimeterInv
  <1>1. ASSUME NEW s \in Specs, Install(s) PROVE PerimeterInv'
    <2>1. /\ ValidSpec(s) /\ nft' = RenderNftables(s) /\ opened' = {s.agent} \X Holes(s)
          /\ checks' = checks /\ started' = started
      BY <1>1 DEF Install
    <2>2. RuledBy(RenderNftables(s), {s.agent} \X Holes(s), s)  BY <2>1, RenderFits
    <2>3. TableKnown(RenderNftables(s), {s.agent} \X Holes(s))
      BY <2>1, <2>2, RenderIsATable DEF TableKnown
    <2> QED  BY <1>0, <2>1, <2>3 DEF PerimeterInv
  <1>2. ASSUME Rollback PROVE PerimeterInv'
    BY <1>0, <1>2 DEF Rollback, PerimeterInv
  <1>3. ASSUME NEW c \in Chains, NEW i \in 1 .. 7, DeleteRule(c, i) PROVE PerimeterInv'
    <2>1. /\ nft # NoTable /\ i \in 1 .. Len(nft[c]) /\ nft' = [nft EXCEPT ![c] = RemoveAt(nft[c], i)]
          /\ opened' = opened /\ checks' = checks /\ started' = started
      BY <1>3 DEF DeleteRule
    <2>2. TableKnown(nft, opened)  BY <1>0, <2>1
    <2>3. nft[c] \in Seq(AnyRule)  BY <2>2 DEF TableKnown, Tables, Chains
    <2>4. PICK q \in Seq(AnyRule) : q = RemoveAt(nft[c], i)  BY <2>1, <2>3, ShortenedChain
    <2>5. \A n \in DOMAIN q : \E m \in DOMAIN nft[c] : q[n] = nft[c][m]
      BY <2>1, <2>3, <2>4, ShortenedChain
    <2>6. PICK new : new = [n \in DOMAIN q |-> FALSE]  OBVIOUS
    <2>7. \A n \in DOMAIN q : ~new[n]  BY <2>6
    <2>9. PICK more : more = opened  OBVIOUS
    <2>a. opened \subseteq more  BY <2>9
    <2>b. \A n \in DOMAIN q : new[n] \/ \E m \in DOMAIN nft[c] : q[n] = nft[c][m]  BY <2>5
    <2>c. \A n \in DOMAIN q : new[n] => /\ q[n].verdict \notin Ports
                                        /\ q[n].verdict = "accept" => {q[n].uid} \X q[n].on \subseteq more
      BY <2>7
    <2>d. TableKnown([nft EXCEPT ![c] = q], more)  BY <2>2, <2>a, <2>b, <2>c, EditedTable
    <2>8. TableKnown([nft EXCEPT ![c] = q], opened)  BY <2>9, <2>d
    <2> QED  BY <1>0, <2>1, <2>4, <2>8 DEF PerimeterInv
  <1>4. ASSUME NEW c \in Chains, NEW r \in Extras, NEW atTop \in BOOLEAN, AddRule(c, r, atTop)
        PROVE  PerimeterInv'
    <2>1. /\ nft # NoTable
          /\ nft' = [nft EXCEPT ![c] = IF atTop THEN <<r>> \o nft[c] ELSE Append(nft[c], r)]
          /\ opened' = (IF r.verdict = "accept" THEN opened \cup ({r.uid} \X r.on) ELSE opened)
          /\ checks' = checks /\ started' = started
      BY <1>4 DEF AddRule
    <2>2. TableKnown(nft, opened)  BY <1>0, <2>1
    <2>3. nft[c] \in Seq(AnyRule)  BY <2>2 DEF TableKnown, Tables, Chains
    <2>4. r \in AnyRule /\ r.verdict \notin Ports
      BY DEF AnyRule, OwnRulesAcceptOrDrop, PortsArePorts
    <2>5. PICK q : q = IF atTop THEN <<r>> \o nft[c] ELSE Append(nft[c], r)  OBVIOUS
    <2>6. q \in Seq(AnyRule) /\ \A n \in DOMAIN q : q[n] = r \/ \E m \in DOMAIN nft[c] : q[n] = nft[c][m]
      <3>1. CASE atTop  BY <3>1, <2>3, <2>4, <2>5, EditedChain
      <3>2. CASE ~atTop  BY <3>2, <2>3, <2>4, <2>5, EditedChain
      <3> QED  BY <3>1, <3>2
    <2>7. PICK new : new = [n \in DOMAIN q |-> q[n] = r]  OBVIOUS
    <2>8. \A n \in DOMAIN q : new[n] <=> q[n] = r  BY <2>7
    <2>9. PICK more : more = opened'  OBVIOUS
    <2>a. opened \subseteq more /\ (r.verdict = "accept" => {r.uid} \X r.on \subseteq more)
      BY <2>1, <2>9
    <2>b. \A n \in DOMAIN q : new[n] \/ \E m \in DOMAIN nft[c] : q[n] = nft[c][m]  BY <2>6, <2>8
    <2>c. \A n \in DOMAIN q : new[n] => /\ q[n].verdict \notin Ports
                                        /\ q[n].verdict = "accept" => {q[n].uid} \X q[n].on \subseteq more
      BY <2>4, <2>8, <2>a
    <2>d. TableKnown([nft EXCEPT ![c] = q], more)  BY <2>2, <2>6, <2>a, <2>b, <2>c, EditedTable
    <2>e. nft' = [nft EXCEPT ![c] = q]  BY <2>1, <2>5
    <2> QED  BY <1>0, <2>1, <2>9, <2>d, <2>e DEF PerimeterInv
  <1>5. ASSUME NEW s \in Specs, RunChecks(s) PROVE PerimeterInv'
    <2>1. /\ ValidSpec(s) /\ Installed(nft, s)
          /\ checks' = checks \cup {[spec |-> s, saw |-> nft, opened |-> opened]}
          /\ nft' = nft /\ opened' = opened /\ started' = started
      BY <1>5 DEF RunChecks, ReadStatus
    <2>2. TableKnown(nft, opened)  BY <1>0, <2>1 DEF Installed
    <2>3. Contained(nft, s, opened)  BY <2>1, <2>2, InstalledContains
    <2>4. PICK k : k = [spec |-> s, saw |-> nft, opened |-> opened]  OBVIOUS
    <2>5. Contained(k.saw, k.spec, k.opened)  BY <2>3, <2>4
    <2> QED  BY <1>0, <2>1, <2>4, <2>5 DEF PerimeterInv
  <1>6. ASSUME NEW c \in checks, RunStarts(c) PROVE PerimeterInv'
    BY <1>0, <1>6 DEF RunStarts, PerimeterInv
  <1>7. ASSUME UNCHANGED tableVars PROVE PerimeterInv'
    BY <1>0, <1>7 DEF tableVars, PerimeterInv
  <1> QED  BY <1>1, <1>2, <1>3, <1>4, <1>5, <1>6, <1>7 DEF TableNext

\* For any command lines, ports and destinations, and any sequence of installs, rollbacks, and
\* accepts, drops and deletions typed by hand, starting from a table of any earlier release: an
\* agent that `run` starts was contained when `run` looked, and what `install` renders is reported
\* as installed (commandRun, parsePerimeterStatus, renderNftables).  A redirect typed by hand is
\* excluded: status looks for the redirect it expects and not for another one before it.
THEOREM AgentsStayContained ==
    ASSUME OwnRulesAcceptOrDrop, PortsArePorts
    PROVE  TableSpec => []RunsAreContained
  <1>1. TableInit => PerimeterInv  BY PerimeterBegins
  <1>2. PerimeterInv /\ [TableNext]_tableVars => PerimeterInv'  BY PerimeterContinues
  <1>3. PerimeterInv => RunsAreContained  BY RenderIsInstalled DEF PerimeterInv, RunsAreContained
  <1>4. TableSpec => []PerimeterInv  BY <1>1, <1>2, PTL DEF TableSpec
  <1> QED  BY <1>3, <1>4, PTL
=============================================================================
