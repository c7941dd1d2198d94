---------------------------- MODULE ControlProofs ---------------------------
(***************************************************************************)
(* Proofs about what an operator changes the gateway with.                 *)
(* ApprovalGate: an approval is decided once, and what a caller was told   *)
(* is kept in memory, on file and on the board, for any number of          *)
(* requests, refused saves, stops and deaths, and any caps.  PolicyReload: *)
(* the engine, the coordinator and the chain name one policy, for every    *)
(* set of files and requests and every bound.  Decoys: no generate command *)
(* loses a decoy that another one saved, when they run one after another.  *)
(***************************************************************************)
EXTENDS ApprovalGate, PolicyReload, Decoys, Sums, SequenceTheorems

-----------------------------------------------------------------------------
(* ApprovalGate.                                                           *)

\* The ids of a history are those of the entries, and each has one entry.
Distinct(h) == \A i, j \in DOMAIN h : h[i].id = h[j].id => i = j

\* What is pending, waits to be restored or is decided is kept apart, in memory
\* and on file, and nothing on either is newer than the last request.  The
\* queue is only in memory while the service is up or restoring.
Apart ==
    /\ made \in 0 .. MaxRequests
    /\ pending \subseteq 1 .. made /\ restoring \subseteq 1 .. made
    /\ history \in Seq(Entries)
    /\ DecidedIds(history) \subseteq 1 .. made
    /\ store = [pending |-> store.pending, history |-> store.history]
    /\ store.pending \subseteq 1 .. made
    /\ store.history \in Seq(Entries)
    /\ DecidedIds(store.history) \subseteq 1 .. made
    /\ phase = "down" => pending = {}
    /\ phase # "restoring" => restoring = {}
    /\ pending \cap restoring = {}
    /\ (pending \cup restoring) \cap DecidedIds(history) = {}
    /\ store.pending \cap DecidedIds(store.history) = {}
    /\ Distinct(history) /\ Distinct(store.history)

-----------------------------------------------------------------------------
\* A decision in front of the history adds its id and takes the oldest ones off.
LEMMA RecordedFacts ==
    ASSUME history \in Seq(Entries), NEW id \in Ids, NEW d \in Decisions
    PROVE  /\ Recorded(id, d) \in Seq(Entries)
           /\ DecidedIds(Recorded(id, d)) \subseteq DecidedIds(history) \cup {id}
           /\ id \notin DecidedIds(history) /\ Distinct(history)
                => Distinct(Recorded(id, d))
<1> DEFINE e == [id |-> id, decision |-> d]
           h == <<e>> \o history
           r == Recorded(id, d)
<1>1. e \in Entries /\ e.id = id
  BY DEF Entries
<1>2. /\ h \in Seq(Entries) /\ Len(h) = Len(history) + 1
      /\ h[1] = e /\ \A i \in 1 .. Len(history) : h[i + 1] = history[i]
  BY <1>1
<1>3. r \in Seq(Entries) /\ Len(r) <= Len(h) /\ \A i \in 1 .. Len(r) : r[i] = h[i]
  <2>1. CASE Len(h) > HistoryCap
    <3>1. r = SubSeq(h, 1, HistoryCap)
      BY <2>1 DEF Recorded
    <3>2. HistoryCap \in 1 .. Len(h)
      BY <1>2, <2>1, GateAssumption
    <3> HIDE DEF h, r
    <3> QED BY <1>2, <3>1, <3>2
  <2>2. CASE ~(Len(h) > HistoryCap)
    <3>1. r = h
      BY <2>2 DEF Recorded
    <3> HIDE DEF h, r
    <3> QED BY <1>2, <3>1
  <2> QED BY <2>1, <2>2
<1> HIDE DEF r, h, e
<1>4. ASSUME NEW i \in 1 .. Len(r)
      PROVE  \/ i = 1 /\ r[i].id = id
             \/ i > 1 /\ i - 1 \in DOMAIN history /\ r[i].id = history[i - 1].id
  <2>1. r[i] = h[i] /\ i \in Nat
    BY <1>3
  <2>2. CASE i = 1
    <3>1. h[i] = e /\ r[i] = e
      BY <1>2, <2>1, <2>2
    <3> QED BY <1>1, <2>2, <3>1
  <2>3. CASE i # 1
    <3>1. i - 1 \in 1 .. Len(history) /\ (i - 1) + 1 = i
      BY <1>2, <1>3, <2>1, <2>3
    <3>2. h[(i - 1) + 1] = history[i - 1]
      BY <1>2, <3>1
    <3> QED BY <2>1, <2>3, <3>1, <3>2
  <2> QED BY <2>2, <2>3
<1>5. DecidedIds(r) \subseteq DecidedIds(history) \cup {id}
  BY <1>3, <1>4 DEF DecidedIds
<1>6. ASSUME id \notin DecidedIds(history), Distinct(history) PROVE Distinct(r)
  <2> SUFFICES ASSUME NEW i \in DOMAIN r, NEW j \in DOMAIN r, r[i].id = r[j].id PROVE i = j
    BY DEF Distinct
  <2>1. i \in 1 .. Len(r) /\ j \in 1 .. Len(r)
    BY <1>3
  <2>2. CASE i > 1 /\ j > 1
    BY <1>4, <1>6, <2>1, <2>2 DEF Distinct
  <2>3. CASE i = 1 \/ j = 1
    BY <1>4, <1>6, <2>1, <2>3 DEF DecidedIds
  <2> QED BY <2>1, <2>2, <2>3
<1> QED BY <1>3, <1>5, <1>6 DEF r

\* Nothing is decided in an empty history.
LEMMA EmptyFacts == DecidedIds(<<>>) = {} /\ Distinct(<<>>) /\ <<>> \in Seq(Entries)
BY DEF DecidedIds, Distinct

\* A stop, a death or a constructor that throws leaves the file as it is.
LEMMA LostApart ==
    ASSUME Apart, LoseMemory, store' = store, made' = made
    PROVE  Apart'
<1>1. /\ phase' = "down" /\ pending' = {} /\ history' = <<>> /\ restoring' = {}
  BY DEF LoseMemory
<1>2. DecidedIds(history)' = {} /\ Distinct(history)'
  BY <1>1, EmptyFacts DEF DecidedIds, Distinct
<1>3. DecidedIds(store.history)' = DecidedIds(store.history) /\ Distinct(store.history)' = Distinct(store.history)
  BY DEF DecidedIds, Distinct
<1> QED BY <1>1, <1>2, <1>3, EmptyFacts DEF Apart

\* No step of the queue breaks what is kept apart.
LEMMA ApartStep == Apart /\ [Next]_vars => Apart'
<1> SUFFICES ASSUME Apart, [Next]_vars PROVE Apart'
  OBVIOUS
<1> USE GateAssumption DEF Apart, Ids, Decisions
<1>1. CASE UNCHANGED vars
  BY <1>1 DEF vars, DecidedIds, Distinct
<1>2. ASSUME NEW p, NEW h, Saved(p, h) PROVE store' = [pending |-> p, history |-> h]
  BY <1>2 DEF Saved
<1>3. ASSUME NEW id \in Ids, RequestAuto(id) PROVE Apart'
  BY <1>2, <1>3, RecordedFacts DEF RequestAuto, SaveThrows
<1>4. ASSUME NEW id \in Ids, RequestManual(id) PROVE Apart'
  BY <1>2, <1>4 DEF RequestManual, SaveThrows
<1>5. ASSUME NEW id \in Ids, NEW d \in {"approved", "denied"}, Respond(id, d) PROVE Apart'
  BY <1>2, <1>5, RecordedFacts DEF Respond, SaveThrows
<1>6. ASSUME NEW id \in Ids, Expire(id) PROVE Apart'
  BY <1>6 DEF Expire
<1>7. ASSUME NEW id \in Ids, TimeOut(id) PROVE Apart'
  <2>1. CASE SaveThrows /\ LoseMemory
    BY <1>7, <2>1, LostApart DEF TimeOut, SaveThrows
  <2>2. CASE Saved(pending', history') /\ history' = Recorded(id, "timeout")
    BY SMTT(30), <1>2, <1>7, <2>2, RecordedFacts DEF TimeOut, LoseMemory
  <2> QED BY <1>7, <2>1, <2>2 DEF TimeOut
<1>8. ASSUME NEW m \in Modes, SetMode(m) PROVE Apart'
  BY <1>8 DEF SetMode
<1>9. CASE OtherActivity
  BY <1>9 DEF OtherActivity
<1>10. CASE Stop
  BY <1>10, LostApart DEF Stop
<1>11. CASE Load
  BY <1>11 DEF Load
<1>12. CASE RestoreNext
  <2>1. CASE SaveThrows /\ LoseMemory
    BY <1>12, <2>1, LostApart DEF RestoreNext, SaveThrows
  <2>2. ASSUME NEW id \in restoring, id \notin expired, UNCHANGED <<phase, history, store, made>>,
               pending' = pending \cup {id}, restoring' = restoring \ {id}
        PROVE  Apart'
    BY <1>12, <2>2 DEF RestoreNext
  <2>3. ASSUME NEW id \in restoring, history' = Recorded(id, "timeout"),
               Saved(pending, history'), restoring' = restoring \ {id},
               UNCHANGED <<phase, pending, made>>
        PROVE  Apart'
    <3> DEFINE r == Recorded(id, "timeout")
    <3>1. id \in 1 .. made /\ id \notin pending /\ id \notin DecidedIds(history)
      BY <2>3
    <3>2. id \in Ids
      BY <3>1
    <3>3. /\ r \in Seq(Entries) /\ Distinct(r)
          /\ DecidedIds(r) \subseteq DecidedIds(history) \cup {id}
      BY <3>1, <3>2, RecordedFacts
    <3> HIDE DEF r
    <3>4. history' = r /\ store' = [pending |-> pending, history |-> r]
      <4>1. history' = r
        BY <2>3 DEF r
      <4>2. store' = [pending |-> pending, history |-> history']
        BY <1>2, <2>3
      <4> QED BY <4>1, <4>2
    <3>5. /\ DecidedIds(history)' = DecidedIds(r) /\ Distinct(history)' = Distinct(r)
          /\ DecidedIds(store.history)' = DecidedIds(r)
          /\ Distinct(store.history)' = Distinct(r)
          /\ store'.pending = pending /\ store'.history = r
      BY <3>4 DEF DecidedIds, Distinct
    <3>6. /\ DecidedIds(r) \subseteq 1 .. made
          /\ (pending \cup (restoring \ {id})) \cap DecidedIds(r) = {}
      BY <3>1, <3>3
    <3> QED BY <2>3, <3>3, <3>4, <3>5, <3>6
  <2> QED BY <1>12, <2>1, <2>2, <2>3 DEF RestoreNext
<1>13. CASE RestoreDone
  <2>1. CASE SaveThrows /\ LoseMemory
    BY <1>13, <2>1, LostApart DEF RestoreDone, SaveThrows
  <2>2. CASE Saved(pending, history) /\ phase' = "up"
    BY <1>2, <1>13, <2>2 DEF RestoreDone, LoseMemory
  <2> QED BY <1>13, <2>1, <2>2 DEF RestoreDone
<1> QED
  BY <1>1, <1>3, <1>4, <1>5, <1>6, <1>7, <1>8, <1>9, <1>10, <1>11, <1>12, <1>13 DEF Next

\* An approval is decided once: no answer that races its deadline, no refused
\* save, no stop and no restart leaves a request both pending and decided, or
\* decided twice (gate.ts: respond, the timer of enqueue, restorePersistedState).
THEOREM DecidedOnceAlways == Spec => []DecidedOnce
<1>1. Init => Apart
  BY GateAssumption, EmptyFacts DEF Init, Apart
<1>2. Apart => DecidedOnce
  BY DEF Apart, DecidedOnce, Distinct
<1> QED
  BY <1>1, <1>2, ApartStep, PTL DEF Spec

-----------------------------------------------------------------------------
(* Nothing is lost between memory, file and board.                         *)

Rows == [id : Ids, status : Decisions \cup {"pending"}]
Callers == Decisions \cup {"none", "waiting", "failed", "cut"}

\* A history has a decision, or has an entry of the request, or is at its cap.
Has(h, id, d) == (\E i \in DOMAIN h : h[i] = [id |-> id, decision |-> d]) \/ Len(h) = HistoryCap
HasOne(h, id) == id \in DecidedIds(h) \/ Len(h) = HistoryCap
\* It has every decision a caller was told.
Told(h) == \A id \in Ids : caller[id] \in Decisions => Has(h, id, caller[id])
\* Queue and history account for every request that once reached the file.
Held(ids, h) == \A id \in queued : id \in ids \/ HasOne(h, id)
\* The rows list every one of the ids, unless the feed is full.
Lists(rows, ids) ==
    \A id \in ids : (\E i \in DOMAIN rows : rows[i] = [id |-> id, status |-> "pending"]) \/ Len(rows) >= BoardCap

\* Memory and file each have what was told, whatever saves throw; as long as none
\* does the file is the queue; and the board shows what is pending.
Current ==
    /\ phase \in {"down", "restoring", "up"} /\ faults \in Nat
    /\ caller \in [Ids -> Callers] /\ board \in Seq(Rows)
    /\ Told(store.history) /\ (phase # "down" => Told(history))
    /\ FileIsQueue
    /\ phase = "up" => Lists(board, pending)
\* Between the loop's first save and its last one the file is not whole: what is
\* still to be restored is in memory only.
Remembered ==
    /\ phase # "down" => Held(pending \cup restoring, history)
    /\ phase # "restoring" => Held(store.pending, store.history)

LEMMA RecordedKeeps ==
    ASSUME history \in Seq(Entries), NEW id \in Ids, NEW d \in Decisions
    PROVE  /\ Has(Recorded(id, d), id, d) /\ HasOne(Recorded(id, d), id)
           /\ \A o, e : Has(history, o, e) => Has(Recorded(id, d), o, e)
           /\ \A o : HasOne(history, o) => HasOne(Recorded(id, d), o)
<1>1. PICK e : e = [id |-> id, decision |-> d]
  OBVIOUS
<1>2. PICK h : h = <<e>> \o history
  OBVIOUS
<1>3. PICK r : r = IF Len(h) > HistoryCap THEN SubSeq(h, 1, HistoryCap) ELSE h
  OBVIOUS
<1>4. r = Recorded(id, d)
  BY <1>1, <1>2, <1>3 DEF Recorded
<1>5. e \in Entries /\ e.id = id /\ HistoryCap \in Nat /\ HistoryCap >= 1
  BY <1>1, GateAssumption DEF Entries
<1>6. /\ h \in Seq(Entries) /\ Len(h) = Len(history) + 1 /\ Len(history) \in Nat
      /\ h[1] = e /\ \A i \in 1 .. Len(history) : h[i + 1] = history[i]
  BY <1>2, <1>5
<1>7. r[1] = e /\ 1 \in DOMAIN r
  BY <1>3, <1>5, <1>6
<1>8. Len(r) = HistoryCap \/ (r = h /\ Len(history) < HistoryCap)
  BY <1>3, <1>5, <1>6
<1>9. Has(r, id, d) /\ HasOne(r, id)
  BY <1>1, <1>5, <1>7 DEF Has, HasOne, DecidedIds
<1>10. ASSUME r = h, Len(history) < HistoryCap
       PROVE  /\ \A o, f : Has(history, o, f) => Has(r, o, f)
              /\ \A o : HasOne(history, o) => HasOne(r, o)
  <2>1. \A i \in DOMAIN history : i + 1 \in DOMAIN r /\ r[i + 1] = history[i]
    BY <1>6, <1>10
  <2>2. ASSUME NEW o, NEW f, Has(history, o, f) PROVE Has(r, o, f)
    <3>1. PICK i \in DOMAIN history : history[i] = [id |-> o, decision |-> f]
      BY <1>5, <1>6, <1>10, <2>2 DEF Has
    <3> QED BY <2>1, <3>1 DEF Has
  <2>3. ASSUME NEW o, HasOne(history, o) PROVE HasOne(r, o)
    <3>1. PICK i \in DOMAIN history : history[i].id = o
      BY <1>5, <1>6, <1>10, <2>3 DEF HasOne, DecidedIds
    <3> QED BY <2>1, <3>1 DEF HasOne, DecidedIds
  <2> QED BY <2>2, <2>3
<1> QED BY <1>4, <1>8, <1>9, <1>10 DEF Has, HasOne

LEMMA CutLists ==
    ASSUME NEW rows \in Seq(Rows)
    PROVE  Cut(rows) \in Seq(Rows) /\ \A ids : Lists(rows, ids) => Lists(Cut(rows), ids)
<1>1. BoardCap \in Nat /\ BoardCap >= 1 /\ Len(rows) \in Nat
  BY GateAssumption
<1>2. CASE Len(rows) < BoardCap
  <2>1. Cut(rows) = SubSeq(rows, 1, Len(rows))
    BY <1>2 DEF Cut
  <2>2. Cut(rows) = rows
    BY <2>1
  <2> QED BY <2>2
<1>3. CASE ~(Len(rows) < BoardCap)
  <2>1. Cut(rows) = SubSeq(rows, 1, BoardCap)
    BY <1>3 DEF Cut
  <2>2. Cut(rows) \in Seq(Rows) /\ Len(Cut(rows)) = BoardCap
    BY <1>1, <1>3, <2>1
  <2> QED BY <1>1, <2>2 DEF Lists
<1> QED BY <1>2, <1>3

LEMMA ListedLists ==
    ASSUME Current, NEW id \in Ids, NEW status \in Decisions \cup {"pending"}, NEW ids, Lists(board, ids)
    PROVE  /\ Listed(id, status) \in Seq(Rows) /\ Lists(Listed(id, status), ids)
           /\ status = "pending" => Lists(Listed(id, status), ids \cup {id})
<1>1. PICK e : e = [id |-> id, status |-> status]
  OBVIOUS
<1>2. PICK rows : rows = <<e>> \o board
  OBVIOUS
<1>3. e \in Rows /\ board \in Seq(Rows) /\ BoardCap \in Nat
  BY <1>1, GateAssumption DEF Current, Rows
<1>4. /\ rows \in Seq(Rows) /\ Len(rows) = Len(board) + 1 /\ rows[1] = e
      /\ 1 \in DOMAIN rows /\ \A i \in DOMAIN board : i + 1 \in DOMAIN rows /\ rows[i + 1] = board[i]
  BY <1>2, <1>3
<1>5. Lists(rows, ids)
  BY <1>3, <1>4 DEF Lists
<1>6. status = "pending" => Lists(rows, ids \cup {id})
  BY <1>1, <1>4, <1>5 DEF Lists
<1>7. Listed(id, status) = Cut(rows)
  BY <1>1, <1>2 DEF Listed
<1> QED BY <1>4, <1>5, <1>6, <1>7, CutLists

LEMMA MarkedLists ==
    ASSUME Current, NEW id \in Ids, NEW status \in Decisions, NEW ids, Lists(board, ids)
    PROVE  Cut(Marked(id, status)) \in Seq(Rows) /\ Lists(Cut(Marked(id, status)), ids \ {id})
<1>1. PICK rows : rows = Marked(id, status)
  OBVIOUS
<1>2. board \in Seq(Rows) /\ Len(board) \in Nat
  BY DEF Current
<1>3. ASSUME NEW i \in DOMAIN board PROVE rows[i] \in Rows /\ (board[i].id # id => rows[i] = board[i])
  <2>1. board[i] \in Rows
    BY <1>2
  <2>2. [board[i] EXCEPT !.status = status] \in Rows
    BY <2>1 DEF Rows
  <2>3. rows[i] = IF board[i].id = id THEN [board[i] EXCEPT !.status = status] ELSE board[i]
    BY <1>1 DEF Marked
  <2> QED BY <2>1, <2>2, <2>3
<1>4. DOMAIN rows = 1 .. Len(board) /\ rows \in [1 .. Len(board) -> Rows]
  BY <1>1, <1>2, <1>3 DEF Marked
<1>5. rows \in Seq(Rows) /\ Len(rows) = Len(board) /\ DOMAIN rows = DOMAIN board
  BY <1>2, <1>4
<1>6. Lists(rows, ids \ {id})
  BY <1>3, <1>5 DEF Lists
<1> QED BY <1>1, <1>5, <1>6, CutLists

\* The place of a request in the hydrated rows is the number of those as old.
LEMMA HydratedLists ==
    ASSUME pending \subseteq Ids
    PROVE  Hydrated \in Seq(Rows) /\ Lists(Hydrated, pending)
<1> DEFINE Upto(id) == {older \in pending : older <= id}
           rank(id) == Cardinality(Upto(id))
           n == Cardinality(pending)
<1>1. IsFiniteSet(pending) /\ n \in Nat
  <2>1. IsFiniteSet(Ids)
    BY FS_Interval, GateAssumption DEF Ids
  <2>2. IsFiniteSet(pending)
    BY <2>1, FS_Subset
  <2> QED BY <2>2, FS_CardinalityType
<1>2. ASSUME NEW id \in pending PROVE rank(id) \in 1 .. n
  <2>1. IsFiniteSet(Upto(id)) /\ rank(id) <= n /\ rank(id) \in Nat
    BY <1>1, FS_Subset, FS_CardinalityType
  <2>2. id \in Upto(id)
    BY DEF Ids
  <2>3. rank(id) # 0
    BY <2>1, <2>2, FS_EmptySet
  <2> QED BY <2>1, <2>3
<1>3. ASSUME NEW a \in pending, NEW b \in pending, a < b PROVE rank(a) < rank(b)
  <2>1. IsFiniteSet(Upto(a)) /\ IsFiniteSet(Upto(b))
    BY <1>1, FS_Subset
  <2>2. a \in Int /\ b \in Int /\ \A o \in pending : o \in Int
    BY DEF Ids
  <2>3. Upto(a) \subseteq Upto(b) /\ b \in Upto(b) /\ b \notin Upto(a)
    <3>1. \A o \in Int : o <= a => o <= b
      BY <1>3, <2>2
    <3>2. ~(b <= a) /\ b <= b
      BY <1>3, <2>2
    <3> QED BY <2>2, <3>1, <3>2
  <2> QED BY <2>1, <2>3, FS_Subset, FS_CardinalityType
<1>4. ASSUME NEW a \in pending, NEW b \in pending, rank(a) = rank(b) PROVE a = b
  <2>1. a \in Int /\ b \in Int /\ rank(a) \in Int /\ rank(b) \in Int
    BY <1>2 DEF Ids
  <2>2. ~(a < b) /\ ~(b < a)
    BY <1>3, <1>4, <2>1
  <2> QED BY <2>1, <2>2
<1>5. ASSUME NEW id \in pending
      PROVE  rank(id) \in DOMAIN Hydrated /\ Hydrated[rank(id)] = [id |-> id, status |-> "pending"]
  <2>1. rank(id) \in 1 .. n
    BY <1>2
  <2>2. PICK k : k = CHOOSE other \in pending : rank(other) = rank(id)
    OBVIOUS
  <2>3. k \in pending /\ rank(k) = rank(id)
    BY <2>2
  <2>4. k = id
    BY <1>4, <2>3
  <2> QED BY <2>1, <2>2, <2>4 DEF Hydrated
<1>6. ASSUME NEW i \in 1 .. n PROVE \E id \in pending : rank(id) = i
  <2>1. PICK f : f = [id \in pending |-> rank(id)]
    OBVIOUS
  <2>2. f \in [pending -> 1 .. n] /\ \A id \in pending : f[id] = rank(id)
    BY <1>2, <2>1
  <2>3. f \in Injection(pending, 1 .. n)
    <3>1. ASSUME NEW a \in pending, NEW b \in pending, f[a] = f[b] PROVE a = b
      BY <1>4, <2>2, <3>1
    <3>2. DOMAIN f = pending
      BY <2>2
    <3>3. IsInjective(f)
      BY <3>1, <3>2 DEF IsInjective
    <3> QED BY <2>2, <3>3 DEF Injection
  <2>4. IsFiniteSet(1 .. n) /\ Cardinality(1 .. n) = n
    BY <1>1, FS_Interval
  <2>5. f \in Surjection(pending, 1 .. n)
    BY <1>1, <2>3, <2>4, FS_Injection
  <2> QED BY <2>2, <2>5 DEF Surjection
<1>7. ASSUME NEW i \in 1 .. n PROVE Hydrated[i] \in Rows
  <2>1. PICK k : k = CHOOSE other \in pending : rank(other) = i
    OBVIOUS
  <2>2. k \in pending
    BY <1>6, <2>1
  <2> QED BY <2>1, <2>2 DEF Hydrated, Rows
<1>8. Hydrated \in [1 .. n -> Rows]
  BY <1>7 DEF Hydrated
<1>9. Hydrated \in Seq(Rows)
  <2>1. PICK m : m = n
    OBVIOUS
  <2>2. m \in Nat /\ Hydrated \in [1 .. m -> Rows]
    BY <1>1, <1>8, <2>1
  <2> HIDE DEF n
  <2> QED BY <2>2
<1>10. Lists(Hydrated, pending)
  <2> SUFFICES ASSUME NEW id \in pending
               PROVE  \E i \in DOMAIN Hydrated : Hydrated[i] = [id |-> id, status |-> "pending"]
    BY DEF Lists
  <2> QED BY <1>5
<1> QED BY <1>9, <1>10

\* A history that has at least what memory had, and what callers are told now.
TellsMore(h) ==
    /\ \A o, e : Has(history, o, e) => Has(h, o, e)
    /\ caller' \in [Ids -> Callers]
    /\ \A id \in Ids : caller'[id] \in Decisions => caller'[id] = caller[id] \/ Has(h, id, caller'[id])

LEMMA CurrentSaved ==
    ASSUME Current, phase # "down", phase' \in {"restoring", "up"}, NEW h, TellsMore(h), history' = h,
           store' = [pending |-> pending', history |-> h], faults' = faults,
           board' \in Seq(Rows), phase' = "up" => Lists(board', pending')
    PROVE  Current'
<1>1. Told(h)'
  <2> SUFFICES ASSUME NEW id \in Ids, caller'[id] \in Decisions PROVE Has(h, id, caller'[id])
    BY DEF Told, Has
  <2>1. CASE caller'[id] = caller[id]
    BY <2>1 DEF TellsMore, Current, Told
  <2>2. CASE caller'[id] # caller[id]
    BY <2>2 DEF TellsMore
  <2> QED BY <2>1, <2>2
<1>2. store'.history = h
  OBVIOUS
<1>3. Told(store.history)' /\ Told(history)'
  BY <1>1, <1>2 DEF Told, Has
<1>4. FileIsQueue'
  BY DEF FileIsQueue
<1>5. Lists(board', pending') => Lists(board, pending)'
  BY DEF Lists
<1> QED BY <1>3, <1>4, <1>5, Zenon DEF Current, TellsMore

LEMMA CurrentThrew ==
    ASSUME Current, phase # "down", phase' \in {"restoring", "up"}, NEW h, TellsMore(h), history' = h, SaveThrows,
           \A id \in Ids : caller'[id] \in Decisions => caller'[id] = caller[id],
           board' \in Seq(Rows), phase' = "up" => Lists(board', pending')
    PROVE  Current'
<1>1. faults' \in Nat /\ faults' # 0 /\ store' = store
  BY DEF SaveThrows, Current
<1>2. Told(store.history)' /\ Told(history)'
  <2>1. ASSUME NEW id \in Ids, caller'[id] \in Decisions PROVE Has(h, id, caller'[id]) /\ Has(store.history, id, caller'[id])
    BY <2>1 DEF TellsMore, Current, Told
  <2> QED BY <1>1, <2>1 DEF Told, Has
<1>3. FileIsQueue'
  BY <1>1 DEF FileIsQueue
<1>4. Lists(board', pending') => Lists(board, pending)'
  BY DEF Lists
<1> QED BY <1>1, <1>2, <1>3, <1>4, Zenon DEF Current, TellsMore

LEMMA CurrentLost == ASSUME Current, LoseMemory, store' = store, faults' \in Nat PROVE Current'
<1>1. caller' \in [Ids -> Callers] /\ \A id \in Ids : caller'[id] \in Decisions => caller'[id] = caller[id]
  BY DEF LoseMemory, Current, Callers, Decisions
<1>2. Told(store.history)'
  BY <1>1 DEF Current, Told, Has
<1>3. phase' = "down" /\ board' = <<>> /\ board' \in Seq(Rows)
  BY DEF LoseMemory
<1> QED BY <1>1, <1>2, <1>3, Zenon DEF Current, FileIsQueue

\* What a caller comes to at one step.
LEMMA CallerMoves ==
    ASSUME Current, NEW id \in Ids, NEW c \in Callers, caller' = [caller EXCEPT ![id] = c],
           NEW h, \A o, e : Has(history, o, e) => Has(h, o, e), c \in Decisions => c = caller[id] \/ Has(h, id, c)
    PROVE  TellsMore(h)
<1>1. caller' \in [Ids -> Callers] /\ caller'[id] = c /\ \A o \in Ids : o # id => caller'[o] = caller[o]
  BY DEF Current
<1> QED BY <1>1 DEF TellsMore

LEMMA CurrentStep == Apart /\ Current /\ [Next]_vars => Current'
<1> SUFFICES ASSUME Apart, Current, [Next]_vars PROVE Current'
  OBVIOUS
<1>1. ASSUME UNCHANGED <<phase, pending, history, store, caller, board, faults>> PROVE Current'
  BY <1>1, Zenon DEF Current, Told, Has, FileIsQueue, Lists
<1>2. history \in Seq(Entries) /\ pending \subseteq Ids /\ board \in Seq(Rows) /\ caller \in [Ids -> Callers]
  BY GateAssumption DEF Apart, Current, Ids
<1>3. \A id \in Ids : caller[id] \in Callers
  BY <1>2
<1>4. ASSUME NEW id \in Ids, RequestAuto(id) PROVE Current'
  <2>1. PICK h : h = Recorded(id, "approved")
    OBVIOUS
  <2>2. /\ phase = "up" /\ phase' = "up" /\ pending' = pending /\ history' = h
    BY <1>4, <2>1 DEF RequestAuto
  <2>3. Has(h, id, "approved") /\ \A o, e : Has(history, o, e) => Has(h, o, e)
    BY <1>2, <2>1, RecordedKeeps DEF Decisions
  <2>4. Lists(board, pending)
    BY <2>2 DEF Current
  <2>5. CASE /\ Saved(pending, history') /\ caller' = [caller EXCEPT ![id] = "approved"]
             /\ board' = Listed(id, "approved")
    <3>1. TellsMore(h)
      <4>1. "approved" \in Callers
        BY DEF Callers, Decisions
      <4> QED BY <2>3, <2>5, <4>1, CallerMoves
    <3>2. board' \in Seq(Rows) /\ Lists(board', pending)
      BY <2>4, <2>5, ListedLists DEF Decisions
    <3> QED BY <2>2, <2>5, <3>1, <3>2, CurrentSaved DEF Saved
  <2>6. CASE SaveThrows /\ caller' = [caller EXCEPT ![id] = "failed"] /\ board' = board
    <3>1. TellsMore(h) /\ \A o \in Ids : caller'[o] \in Decisions => caller'[o] = caller[o]
      BY <1>2, <2>3, <2>6, CallerMoves DEF Callers, Decisions
    <3> QED BY <1>2, <2>2, <2>4, <2>6, <3>1, CurrentThrew
  <2> QED BY <1>4, <2>5, <2>6 DEF RequestAuto
<1>5. ASSUME NEW id \in Ids, RequestManual(id) PROVE Current'
  <2>1. /\ phase = "up" /\ phase' = "up" /\ pending' = pending \cup {id} /\ history' = history
        /\ board' = Listed(id, "pending")
    BY <1>5 DEF RequestManual
  <2>2. board' \in Seq(Rows) /\ Lists(board', pending')
    <3>1. Lists(board, pending)
      BY <2>1 DEF Current
    <3> QED BY <2>1, <3>1, ListedLists
  <2>3. CASE Saved(pending', history) /\ caller' = [caller EXCEPT ![id] = "waiting"]
    <3>1. TellsMore(history)
      <4>1. "waiting" \in Callers /\ "waiting" \notin Decisions
        BY DEF Callers, Decisions
      <4> QED BY <2>3, <4>1, CallerMoves
    <3> QED BY <2>1, <2>2, <2>3, <3>1, CurrentSaved DEF Saved
  <2>4. CASE SaveThrows /\ caller' = [caller EXCEPT ![id] = "failed"]
    <3>1. TellsMore(history) /\ \A o \in Ids : caller'[o] \in Decisions => caller'[o] = caller[o]
      BY <1>2, <2>4, CallerMoves DEF Callers, Decisions
    <3> QED BY <2>1, <2>2, <2>4, <3>1, CurrentThrew
  <2> QED BY <1>5, <2>3, <2>4 DEF RequestManual
<1>6. ASSUME NEW id \in Ids, NEW d \in Decisions, phase = "up", phase' = "up",
             pending' = pending \ {id}, history' = Recorded(id, d)
      PROVE  /\ /\ Saved(pending', history') /\ caller' = [caller EXCEPT ![id] = IF @ = "waiting" THEN d ELSE @]
                /\ board' = Cut(Marked(id, d)) \/ board' = board
                => Current'
             /\ SaveThrows /\ UNCHANGED <<caller, board>> => Current'
  <2>1. PICK h : h = Recorded(id, d)
    OBVIOUS
  <2>2. Has(h, id, d) /\ \A o, e : Has(history, o, e) => Has(h, o, e)
    BY <1>2, <2>1, RecordedKeeps
  <2>3. /\ Lists(board, pending')
        /\ Cut(Marked(id, d)) \in Seq(Rows) /\ Lists(Cut(Marked(id, d)), pending')
    <3>1. Lists(board, pending)
      BY <1>6 DEF Current
    <3> QED BY <1>6, <3>1, MarkedLists DEF Lists
  <2>4. ASSUME Saved(pending', history'), caller' = [caller EXCEPT ![id] = IF @ = "waiting" THEN d ELSE @],
               board' = Cut(Marked(id, d)) \/ board' = board
        PROVE  Current'
    <3>1. PICK c : c = IF caller[id] = "waiting" THEN d ELSE caller[id]
      OBVIOUS
    <3>2. c \in Callers /\ (c = caller[id] \/ Has(h, id, c)) /\ caller' = [caller EXCEPT ![id] = c]
      BY <1>3, <2>2, <2>4, <3>1 DEF Callers
    <3>3. TellsMore(h)
      BY <2>2, <3>2, CallerMoves
    <3> QED BY <1>2, <1>6, <2>1, <2>3, <2>4, <3>3, CurrentSaved DEF Saved
  <2>5. ASSUME SaveThrows, UNCHANGED <<caller, board>> PROVE Current'
    <3>1. TellsMore(h)
      BY <1>2, <2>2, <2>5 DEF TellsMore
    <3> QED BY <1>2, <1>6, <2>1, <2>3, <2>5, <3>1, CurrentThrew
  <2> QED BY <2>4, <2>5
<1>7. ASSUME NEW id \in Ids, NEW d \in {"approved", "denied"}, Respond(id, d) PROVE Current'
  <2>1. d \in Decisions
    BY DEF Decisions
  <2> QED BY <1>6, <1>7, <2>1 DEF Respond
<1>8. ASSUME NEW id \in Ids, Expire(id) PROVE Current'
  BY <1>1, <1>8 DEF Expire
<1>9. ASSUME NEW id \in Ids, TimeOut(id) PROVE Current'
  <2>1. CASE SaveThrows /\ LoseMemory
    <3>1. store' = store /\ faults' \in Nat
      BY <2>1 DEF SaveThrows, Current
    <3> QED BY <2>1, <3>1, CurrentLost
  <2>2. CASE ~(SaveThrows /\ LoseMemory)
    <3>1. /\ phase = "up" /\ phase' = "up" /\ pending' = pending \ {id} /\ history' = Recorded(id, "timeout")
          /\ Saved(pending', history') /\ caller' = [caller EXCEPT ![id] = IF @ = "waiting" THEN "timeout" ELSE @]
          /\ board' = Cut(Marked(id, "timeout")) \/ board' = board
      BY <1>9, <2>2 DEF TimeOut
    <3>2. "timeout" \in Decisions
      BY DEF Decisions
    <3> QED BY <1>6, <3>1, <3>2
  <2> QED BY <2>1, <2>2
<1>10. ASSUME NEW m \in Modes, SetMode(m) PROVE Current'
  BY <1>1, <1>10 DEF SetMode
<1>11. CASE OtherActivity
  <2>1. board' \in Seq(Rows) /\ (phase' = "up" => Lists(board', pending))
    BY <1>2, <1>11, CutLists DEF OtherActivity, Current
  <2>2. UNCHANGED <<phase, pending, history, store, caller, faults>>
    BY <1>11 DEF OtherActivity
  <2> QED BY <2>1, <2>2, Zenon DEF Current, Told, Has, FileIsQueue, Lists
<1>12. CASE Stop
  BY <1>12, CurrentLost DEF Stop, Current
<1>13. CASE Load
  <2>1. phase' = "restoring" /\ history' = store.history /\ UNCHANGED <<pending, store, caller, board, faults>>
    BY <1>13 DEF Load
  <2>2. Told(history)' /\ Told(store.history)'
    BY <2>1 DEF Current, Told, Has
  <2> QED BY <2>1, <2>2, Zenon DEF Current, FileIsQueue
<1>14. CASE RestoreNext
  <2>1. CASE SaveThrows /\ LoseMemory
    <3>1. store' = store /\ faults' \in Nat
      BY <2>1 DEF SaveThrows, Current
    <3> QED BY <2>1, <3>1, CurrentLost
  <2>2. CASE phase' = phase /\ phase = "restoring" /\ UNCHANGED <<history, store, caller, board, faults>>
    BY <2>2, Zenon DEF Current, Told, Has, FileIsQueue
  <2>3. ASSUME NEW id \in restoring, history' = Recorded(id, "timeout"), Saved(pending, history'),
               UNCHANGED <<phase, pending, caller, board>>, phase = "restoring"
        PROVE  Current'
    <3>1. id \in Ids /\ "timeout" \in Decisions
      BY GateAssumption DEF Apart, Ids, Decisions
    <3>2. PICK h : h = Recorded(id, "timeout")
      OBVIOUS
    <3>3. TellsMore(h)
      BY <1>2, <2>3, <3>1, <3>2, RecordedKeeps DEF TellsMore
    <3> QED BY <1>2, <2>3, <3>2, <3>3, CurrentSaved DEF Saved
  <2> QED BY <1>14, <2>1, <2>2, <2>3 DEF RestoreNext
<1>15. CASE RestoreDone
  <2>1. CASE SaveThrows /\ LoseMemory
    <3>1. store' = store /\ faults' \in Nat
      BY <2>1 DEF SaveThrows, Current
    <3> QED BY <2>1, <3>1, CurrentLost
  <2>2. CASE ~(SaveThrows /\ LoseMemory)
    <3>1. /\ phase = "restoring" /\ phase' = "up" /\ Saved(pending, history) /\ board' = Hydrated
          /\ UNCHANGED <<pending, history, restoring, caller>>
      BY <1>15, <2>2 DEF RestoreDone
    <3>2. board' \in Seq(Rows) /\ Lists(board', pending')
      BY <1>2, <3>1, HydratedLists
    <3>3. TellsMore(history)
      BY <1>2, <3>1 DEF TellsMore
    <3> QED BY <3>1, <3>2, <3>3, CurrentSaved DEF Saved
  <2> QED BY <2>1, <2>2
<1>16. CASE UNCHANGED vars
  BY <1>1, <1>16 DEF vars
<1> QED
  BY <1>4, <1>5, <1>7, <1>8, <1>9, <1>10, <1>11, <1>12, <1>13, <1>14, <1>15, <1>16 DEF Next

\* While the service is up, a step that saves or throws forgets nothing.
LEMMA RememberedUp ==
    ASSUME Apart, Remembered, phase = "up", phase' \in {"up", "down"}, restoring = {}, restoring' = {},
           NEW h, \A o : HasOne(history, o) => HasOne(h, o),
           phase' = "up" => /\ history' = h /\ queued' \subseteq queued \cup pending'
                            /\ \A o \in pending : o \in pending' \/ HasOne(h, o),
           \/ store' = store /\ queued' = queued
           \/ phase' = "up" /\ store' = [pending |-> pending', history |-> h]
    PROVE  Remembered'
<1>1. \A o \in queued : /\ o \in pending \/ HasOne(history, o)
                        /\ o \in store.pending \/ HasOne(store.history, o)
  BY DEF Remembered, Held
<1>2. ASSUME phase' = "up" PROVE \A o \in queued' : o \in pending' \/ HasOne(h, o)
  BY <1>1, <1>2
<1>3. phase' = "up" => Held(pending \cup restoring, history)'
  BY <1>2 DEF Held, HasOne, DecidedIds
<1>4. Held(store.pending, store.history)'
  <2>1. CASE store' = store /\ queued' = queued
    BY <1>1, <2>1 DEF Held, HasOne, DecidedIds
  <2>2. CASE phase' = "up" /\ store' = [pending |-> pending', history |-> h]
    <3>1. store'.pending = pending' /\ store'.history = h
      BY <2>2
    <3> QED BY <1>2, <2>2, <3>1 DEF Held, HasOne, DecidedIds
  <2> QED BY <2>1, <2>2
<1> QED BY <1>3, <1>4 DEF Remembered

LEMMA RememberedStep == ASSUME ~RestoreIsCut PROVE Apart /\ Current /\ Remembered /\ [Next]_vars => Remembered'
<1> SUFFICES ASSUME Apart, Current, Remembered, [Next]_vars PROVE Remembered'
  OBVIOUS
<1>1. ASSUME UNCHANGED <<phase, pending, history, store, restoring, queued>> PROVE Remembered'
  BY <1>1, Zenon DEF Remembered, Held, HasOne, DecidedIds
<1>2. history \in Seq(Entries) /\ (phase = "up" => restoring = {}) /\ Decisions = {"approved", "denied", "timeout"}
  BY DEF Apart, Decisions
<1>3. ASSUME NEW id \in Ids, RequestAuto(id) PROVE Remembered'
  <2>1. PICK h : h = Recorded(id, "approved")
    OBVIOUS
  <2>2. \A o : HasOne(history, o) => HasOne(h, o)
    BY <1>2, <2>1, RecordedKeeps
  <2>3. /\ phase = "up" /\ phase' = "up" /\ pending' = pending /\ history' = h /\ queued' = queued
        /\ restoring' = restoring /\ (store' = store \/ store' = [pending |-> pending', history |-> h])
    BY <1>3, <2>1 DEF RequestAuto, Saved, SaveThrows
  <2> QED BY <1>2, <2>2, <2>3, RememberedUp
<1>4. ASSUME NEW id \in Ids, RequestManual(id) PROVE Remembered'
  <2>1. /\ phase = "up" /\ phase' = "up" /\ pending' = pending \cup {id} /\ history' = history
        /\ restoring' = restoring
        /\ \/ store' = store /\ queued' = queued
           \/ store' = [pending |-> pending', history |-> history] /\ queued' = queued \cup {id}
    BY <1>4 DEF RequestManual, Saved, SaveThrows
  <2> QED BY <1>2, <2>1, RememberedUp
<1>5. ASSUME NEW id \in Ids, NEW d \in Decisions, phase = "up", phase' = "up", queued' = queued,
             pending' = pending \ {id}, history' = Recorded(id, d), Saved(pending', history') \/ SaveThrows,
             restoring' = restoring
      PROVE  Remembered'
  <2>1. PICK h : h = Recorded(id, d)
    OBVIOUS
  <2>2. HasOne(h, id) /\ \A o : HasOne(history, o) => HasOne(h, o)
    BY <1>2, <2>1, RecordedKeeps
  <2>3. store' = store \/ store' = [pending |-> pending', history |-> h]
    BY <1>5, <2>1 DEF Saved, SaveThrows
  <2> QED BY <1>2, <1>5, <2>1, <2>2, <2>3, RememberedUp
<1>6. ASSUME NEW id \in Ids, NEW d \in {"approved", "denied"}, Respond(id, d) PROVE Remembered'
  <2>1. d \in Decisions
    BY <1>2
  <2> QED BY <1>5, <1>6, <2>1 DEF Respond
<1>7. ASSUME NEW id \in Ids, Expire(id) PROVE Remembered'
  BY <1>1, <1>7 DEF Expire
<1>8. ASSUME phase = "up", LoseMemory, store' = store, queued' = queued PROVE Remembered'
  <2>1. phase' = "down" /\ restoring' = {} /\ restoring = {}
    BY <1>2, <1>8 DEF LoseMemory
  <2> QED BY <1>8, <2>1, RememberedUp
<1>9. ASSUME NEW id \in Ids, TimeOut(id) PROVE Remembered'
  <2>1. CASE SaveThrows /\ LoseMemory
    BY <1>8, <1>9, <2>1 DEF SaveThrows, TimeOut
  <2>2. CASE ~(SaveThrows /\ LoseMemory)
    <3>1. /\ phase = "up" /\ phase' = "up" /\ pending' = pending \ {id} /\ history' = Recorded(id, "timeout")
          /\ Saved(pending', history') /\ queued' = queued /\ restoring' = restoring
      BY <1>9, <2>2 DEF TimeOut
    <3>2. "timeout" \in Decisions
      BY <1>2
    <3> QED BY <1>5, <3>1, <3>2
  <2> QED BY <2>1, <2>2
<1>10. ASSUME NEW m \in Modes, SetMode(m) PROVE Remembered'
  BY <1>1, <1>10 DEF SetMode
<1>11. CASE OtherActivity
  BY <1>1, <1>11 DEF OtherActivity
<1>12. CASE Stop
  BY <1>8, <1>12 DEF Stop
<1>13. CASE Load
  <2>1. /\ phase = "down" /\ phase' = "restoring" /\ history' = store.history /\ restoring' = store.pending
        /\ pending' = pending /\ queued' = queued
    BY <1>13 DEF Load
  <2>2. Held(store.pending, store.history)
    BY <2>1 DEF Remembered
  <2>3. Held(pending \cup restoring, history)'
    BY <2>1, <2>2 DEF Held, HasOne, DecidedIds
  <2> QED BY <2>1, <2>3 DEF Remembered
<1>14. CASE RestoreNext
  <2>1. phase = "restoring" /\ phase' = "restoring" /\ queued' = queued
    BY <1>14 DEF RestoreNext
  <2>2. Held(pending \cup restoring, history)
    BY <2>1 DEF Remembered
  <2>3. ASSUME NEW id \in restoring, pending' = pending \cup {id}, restoring' = restoring \ {id}, history' = history
        PROVE  Held(pending \cup restoring, history)'
    BY <2>1, <2>2, <2>3 DEF Held, HasOne, DecidedIds
  <2>4. ASSUME NEW id \in restoring, pending' = pending, restoring' = restoring \ {id},
               history' = Recorded(id, "timeout")
        PROVE  Held(pending \cup restoring, history)'
    <3>1. PICK h : h = Recorded(id, "timeout")
      OBVIOUS
    <3>2. id \in Ids
      BY GateAssumption DEF Apart, Ids
    <3>3. HasOne(h, id) /\ \A o : HasOne(history, o) => HasOne(h, o)
      BY <1>2, <3>1, <3>2, RecordedKeeps
    <3>4. \A o \in queued' : o \in pending' \cup restoring' \/ HasOne(h, o)
      BY <2>1, <2>2, <2>4, <3>3 DEF Held
    <3> QED BY <2>4, <3>1, <3>4 DEF Held, HasOne, DecidedIds
  <2>5. Held(pending \cup restoring, history)'
    BY <1>14, <2>3, <2>4 DEF RestoreNext
  <2> QED BY <2>1, <2>5 DEF Remembered
<1>15. CASE RestoreDone
  <2>1. /\ phase = "restoring" /\ phase' = "up" /\ restoring = {} /\ restoring' = {} /\ queued' = queued
        /\ store' = [pending |-> pending, history |-> history] /\ pending' = pending /\ history' = history
    BY <1>15 DEF RestoreDone, Saved
  <2>2. \A o \in queued : o \in pending \/ HasOne(history, o)
    BY <2>1 DEF Remembered, Held
  <2>3. store'.pending = pending /\ store'.history = history
    BY <2>1
  <2> QED BY <2>1, <2>2, <2>3 DEF Remembered, Held, HasOne, DecidedIds
<1>16. CASE UNCHANGED vars
  BY <1>1, <1>16 DEF vars
<1> QED
  BY <1>3, <1>4, <1>6, <1>7, <1>9, <1>10, <1>11, <1>12, <1>13, <1>14, <1>15, <1>16 DEF Next

LEMMA KeptBegins == Init => Apart /\ Current /\ Remembered
<1> SUFFICES ASSUME Init PROVE Apart /\ Current /\ Remembered
  OBVIOUS
<1>1. /\ phase = "down" /\ faults = 0 /\ board = <<>> /\ queued = {}
      /\ \A id \in Ids : caller[id] = "none"
  BY DEF Init, Callers
<1>2. caller \in [Ids -> Callers]
  BY DEF Init, Callers
<1>3. Current
  BY <1>1, <1>2 DEF Current, Told, FileIsQueue, Decisions
<1>4. Remembered
  BY <1>1 DEF Remembered, Held
<1> QED BY <1>3, <1>4, GateAssumption, EmptyFacts DEF Init, Apart

\* Every decision an agent was told is on file, the file is the queue unless a save threw,
\* and operators see what waits: request, respond and the timer save before they answer,
\* and restorePersistedState lists what it restored.  A restoration cut short included.
THEOREM FileAndBoardHold == Spec => [](FileIsCurrent /\ QueueIsShown)
<1>1. Current => FileIsCurrent /\ QueueIsShown
  BY DEF Current, FileIsCurrent, AnswerIsOnFile, Told, Has, QueueIsShown, Lists, Shows
<1> QED BY <1>1, KeptBegins, ApartStep, CurrentStep, PTL DEF Spec

\* And where no death or failing save cuts the restoration short, no request that once
\* reached the file is forgotten, for any number of requests, refused saves and stops.
THEOREM ApprovalsKept ==
    ASSUME ~RestoreIsCut
    PROVE  Spec => []ApprovalsAreKept
<1>1. Current /\ Remembered => ApprovalsAreKept
  <2> SUFFICES ASSUME Current, Remembered PROVE ApprovalsAreKept
    OBVIOUS
  <2>1. FileIsCurrent /\ QueueIsShown
    BY DEF Current, FileIsCurrent, AnswerIsOnFile, Told, Has, QueueIsShown, Lists, Shows
  <2>2. NoApprovalLost
    BY DEF NoApprovalLost, Current, Remembered, Held, HasOne
  <2> QED BY <2>1, <2>2 DEF ApprovalsAreKept
<1> QED BY <1>1, KeptBegins, ApartStep, CurrentStep, RememberedStep, PTL DEF Spec

-----------------------------------------------------------------------------
(* PolicyReload.  All of the proofs rest on one fact about the code: a step *)
(* either leaves the ruleset, the default decision, the cached hashes and   *)
(* the chain alone (Quiet), or it is the end of one reload, which hands a   *)
(* record to the audit sink that says truthfully what it did (Reported).    *)

\* The snapshot in force is the coordinator's cached ruleset with the live
\* default decision, in the middle of a handler too.
InStep ==
    /\ engine = [version |-> engine.version, rules |-> applied.rules, default |-> config.default]
    /\ config = [default |-> config.default, boot |-> config.boot]

Quiet ==
    /\ NoReport
    /\ UNCHANGED <<engine, applied, appliedConfig, config>>

\* One reload that ends: what it reports, from the ruleset applied before it.
Ends(ok, changed, after) ==
    /\ Report(ok, changed, applied, after)
    /\ ok => applied' = after /\ InStep'
    /\ ~ok => UNCHANGED <<engine, applied, appliedConfig, config>>

Reported == \E ok \in BOOLEAN, changed \in BOOLEAN : \E after : Ends(ok, changed, after)

-----------------------------------------------------------------------------
(* The shape of a step.                                                    *)

\* applyExternalReload ends a reload, whatever file and outcome it is given.
LEMMA ExternalEnds ==
    ASSUME InStep, NEW f, NEW ok \in BOOLEAN, ApplyExternal(f, ok),
           UNCHANGED <<appliedConfig, config>>
    PROVE  Reported
<1>1. ok => InStep'
  BY DEF ApplyExternal, InStep, Swapped
<1>2. Ends(ok, ok /\ Differs(applied.rules, f.rules), f)
  BY <1>1 DEF ApplyExternal, Ends
<1> QED BY <1>2 DEF Reported

\* Every step is quiet or the end of one reload: the case split all theorems use.
LEMMA StepShape ==
    ASSUME ReloadTypeOK, InStep, [ReloadNext]_reloadVars
    PROVE  Quiet \/ Reported
<1> USE DEF serving, files
<1>1. CASE UNCHANGED reloadVars
  BY <1>1 DEF reloadVars, Quiet, NoReport
<1>2. ASSUME NEW f \in PolicyFiles, EditPolicy(f) PROVE Quiet
  BY <1>2 DEF EditPolicy, Quiet, NoReport
<1>3. ASSUME NEW f \in ConfigFiles, EditConfig(f) PROVE Quiet
  BY <1>3 DEF EditConfig, Quiet, NoReport
<1>4. CASE WatchFires
  BY <1>4, ExternalEnds DEF WatchFires, ReloadTypeOK
<1>5. CASE DashboardReload
  BY <1>5, ExternalEnds DEF DashboardReload, ReloadTypeOK
<1>6. CASE ReloadConfig
  <2>1. CASE NoReport
    BY <2>1, <1>6 DEF ReloadConfig, Quiet
  <2>2. CASE Report(FALSE, FALSE, applied, applied)
    <3>1. Ends(FALSE, FALSE, applied)
      BY <2>2, <1>6 DEF ReloadConfig, Ends
    <3> QED BY <3>1 DEF Reported
  <2> QED BY <1>6, <2>1, <2>2 DEF ReloadConfig
<1>7. CASE ReloadRest
  <2> DEFINE changes == Differs(applied.rules, policyFile.rules) \/ ConfigChanges(op.next)
  <2>1. CASE /\ engine' = Defaulted(Swapped(engine, policyFile.rules), op.next.default)
             /\ config' = [config EXCEPT !.default = op.next.default]
             /\ applied' = policyFile
             /\ Report(TRUE, changes, applied, policyFile)
    <3>1. config' = [default |-> op.next.default, boot |-> config.boot]
      BY <2>1 DEF InStep
    <3>2. Swapped(engine, policyFile.rules)
            = [version |-> engine.version + 1, rules |-> policyFile.rules, default |-> config.default]
      BY DEF InStep, Swapped
    <3>3. InStep'
      BY <2>1, <3>1, <3>2 DEF InStep, Defaulted
    <3>4. Ends(TRUE, changes, policyFile)
      BY <2>1, <3>3 DEF Ends
    <3> QED BY <3>4 DEF Reported
  <2>2. CASE /\ UNCHANGED <<engine, applied, appliedConfig, config>>
             /\ Report(FALSE, FALSE, applied, policyFile)
    <3>1. Ends(FALSE, FALSE, policyFile)
      BY <2>2 DEF Ends
    <3> QED BY <3>1 DEF Reported
  <2> QED BY <1>7, <2>1, <2>2 DEF ReloadRest
<1>8. ASSUME NEW scoped \in BOOLEAN, WriteStart(scoped) PROVE Quiet
  BY <1>8 DEF WriteStart, Quiet
<1>9. ASSUME NEW f, UpsertFails(f), UNCHANGED <<appliedConfig, config>> PROVE Quiet \/ Reported
  <2>1. CASE op.scoped
    BY <1>9, <2>1, ExternalEnds DEF UpsertFails
  <2>2. CASE ~op.scoped
    BY <1>9, <2>2 DEF UpsertFails, Quiet
  <2> QED BY <2>1, <2>2
<1>10. CASE UpsertRead
  BY <1>9, <1>10 DEF UpsertRead, Quiet
<1>11. CASE UpsertWrite
  BY <1>9, <1>11 DEF UpsertWrite, Quiet
<1>12. CASE UpsertReread
  BY <1>9, <1>12, ExternalEnds DEF UpsertReread, Quiet
<1>13. ASSUME NEW r \in Requests, Arrive(r) \/ Evaluate(r) PROVE Quiet
  BY <1>13 DEF Arrive, Evaluate, Quiet, NoReport
<1> QED
  BY <1>1, <1>2, <1>3, <1>4, <1>5, <1>6, <1>7, <1>8, <1>10, <1>11, <1>12, <1>13 DEF ReloadNext

\* Neither kind of step takes the engine out of step with the coordinator.
LEMMA InStepStep == ReloadTypeOK /\ InStep /\ [ReloadNext]_reloadVars => InStep'
<1> SUFFICES ASSUME ReloadTypeOK, InStep, [ReloadNext]_reloadVars PROVE InStep'
  OBVIOUS
<1>1. CASE Quiet
  BY <1>1 DEF Quiet, InStep
<1>2. ASSUME NEW ok \in BOOLEAN, NEW changed \in BOOLEAN, NEW after, Ends(ok, changed, after)
      PROVE  InStep'
  BY <1>2 DEF Ends, InStep
<1> QED BY <1>1, <1>2, StepShape DEF Reported

-----------------------------------------------------------------------------
(* Types.                                                                  *)

\* What ReloadTypeOK leaves open and the proofs need.
Shapes ==
    /\ InStep
    /\ policyFile.parses \in BOOLEAN
    /\ \E S : log \in Seq(S)
    /\ request = [r \in Requests |-> request[r]]

\* A step keeps the log a sequence of records with positive versions.
LEMMA LogStep ==
    ASSUME ReloadTypeOK, Shapes, [ReloadNext]_reloadVars, engine'.version \in Nat \ {0}
    PROVE  /\ \E S : log' \in Seq(S)
           /\ \A i \in DOMAIN log' : log'[i].version \in Nat \ {0}
           /\ drops' \in 0..MaxDrops
<1>1. CASE Quiet
  BY <1>1 DEF Quiet, NoReport, Shapes, ReloadTypeOK
<1>2. CASE Reported
  <2>1. PICK ok, changed, after : ok \in BOOLEAN /\ changed \in BOOLEAN /\ Ends(ok, changed, after)
    BY <1>2 DEF Reported
  <2>2. CASE UNCHANGED log /\ drops < MaxDrops /\ drops' = drops + 1
    BY <2>2, ReloadAssumption DEF Shapes, ReloadTypeOK
  <2> DEFINE r == [ok |-> ok, changed |-> changed, before |-> applied, after |-> after,
                   version |-> engine'.version]
  <2>3. CASE log' = Append(log, r) /\ UNCHANGED drops
    <3>1. PICK S : log \in Seq(S)
      BY DEF Shapes
    <3>2. log \in Seq(S \cup {r}) /\ log' \in Seq(S \cup {r})
      BY <2>3, <3>1
    <3>3. \A i \in DOMAIN log' : i \in DOMAIN log \/ i = Len(log) + 1
      BY <2>3, <3>2
    <3>4. \A i \in DOMAIN log : log'[i] = log[i]
      BY <2>3, <3>2
    <3>5. log'[Len(log) + 1].version = engine'.version
      BY <2>3, <3>2
    <3>6. \A i \in DOMAIN log' : log'[i].version \in Nat \ {0}
      BY <3>3, <3>4, <3>5 DEF ReloadTypeOK
    <3> QED BY <2>3, <3>2, <3>6 DEF ReloadTypeOK
  <2> QED BY <2>1, <2>2, <2>3 DEF Ends, Report
<1> QED BY <1>1, <1>2, StepShape DEF Shapes

\* The type invariant is inductive.
LEMMA TypeStep == ReloadTypeOK /\ Shapes /\ [ReloadNext]_reloadVars => ReloadTypeOK' /\ Shapes'
<1> SUFFICES ASSUME ReloadTypeOK, Shapes, [ReloadNext]_reloadVars PROVE ReloadTypeOK' /\ Shapes'
  OBVIOUS
<1>1. InStep'
  BY InStepStep DEF Shapes
<1> DEFINE
      Kinds == {"idle", "reload", "read", "write", "reread"}
      Serving == /\ engine'.version \in Nat \ {0}
                 /\ runtime'.parses /\ applied'.parses /\ appliedConfig' \in ConfigFiles
      Others == /\ policyFile'.parses \in BOOLEAN /\ configFile' \in ConfigFiles
                /\ op'.kind \in Kinds
                /\ watch' \in [armed : BOOLEAN, alive : BOOLEAN]
                /\ request' = [r \in Requests |-> request'[r]]
                /\ \A r \in Requests : request'[r].state \in {"none", "open", "answered"}
                /\ edits' \in 0..MaxEdits /\ reloads' \in 0..MaxReloads
                /\ unwritten' \in 0..MaxUnwritten
<1> USE ReloadAssumption DEF serving, files, Idle, ReloadTypeOK, Shapes
<1>0. /\ Noticed \in [armed : BOOLEAN, alive : BOOLEAN]
      /\ [Noticed EXCEPT !.alive = FALSE] \in [armed : BOOLEAN, alive : BOOLEAN]
      /\ [watch EXCEPT !.armed = FALSE] \in [armed : BOOLEAN, alive : BOOLEAN]
  <2>1. Noticed \in [armed : BOOLEAN, alive : BOOLEAN]
    BY DEF Noticed
  <2> QED BY <2>1
<1>2. CASE UNCHANGED reloadVars
  BY <1>2, <1>1 DEF reloadVars
<1>3. ASSUME NEW f \in PolicyFiles, EditPolicy(f) PROVE Serving /\ Others
  <2>1. watch' \in [armed : BOOLEAN, alive : BOOLEAN]
    BY <1>0, <1>3 DEF EditPolicy
  <2> QED BY <1>3, <2>1 DEF EditPolicy
<1>4. ASSUME NEW f \in ConfigFiles, EditConfig(f) PROVE Serving /\ Others
  BY <1>4 DEF EditConfig
<1>5. ASSUME WatchFires PROVE Serving /\ Others
  BY <1>0, <1>5 DEF WatchFires, RuntimeReads, ApplyExternal, Swapped
<1>6. ASSUME DashboardReload PROVE Serving /\ Others
  BY <1>6 DEF DashboardReload, RuntimeReads, ApplyExternal, Swapped
<1>7. ASSUME ReloadConfig PROVE Serving /\ Others
  <2>1. op' = op \/ op' = [kind |-> "reload", next |-> configFile]
    BY <1>7 DEF ReloadConfig
  <2>2. op'.kind \in Kinds
    BY <2>1
  <2> QED BY <1>7, <2>2 DEF ReloadConfig
<1>8. ASSUME ReloadRest PROVE Serving /\ Others
  <2>1. Swapped(engine, policyFile.rules).version \in Nat \ {0}
    BY DEF Swapped
  <2>2. Defaulted(Swapped(engine, policyFile.rules), op.next.default).version \in Nat \ {0}
    BY <2>1 DEF Defaulted
  <2>3. engine'.version \in Nat \ {0}
    BY <1>8, <2>2 DEF ReloadRest
  <2> QED BY <1>8, <2>3 DEF ReloadRest, RuntimeReads
<1>9. ASSUME NEW scoped \in BOOLEAN, WriteStart(scoped) PROVE Serving /\ Others
  BY <1>9 DEF WriteStart
<1>10. ASSUME NEW f, UpsertFails(f)
       PROVE  UNCHANGED <<engine, applied>> /\ op' = Idle
  BY <1>10 DEF UpsertFails, ApplyExternal
<1>11. ASSUME UpsertRead PROVE Serving /\ Others
  BY <1>10, <1>11 DEF UpsertRead
<1>12. ASSUME UpsertWrite PROVE Serving /\ Others
  <2>1. op' = Idle \/ op' = [kind |-> "reread", scoped |-> op.scoped, left |-> op.left]
    BY <1>10, <1>12 DEF UpsertWrite
  <2>2. op'.kind \in Kinds
    BY <2>1
  <2>3. \/ policyFile' = [parses |-> TRUE, rules |-> op.rules]
        \/ policyFile' = policyFile
        \/ policyFile' = [parses |-> FALSE, rules |-> <<>>]
    BY <1>12 DEF UpsertWrite
  <2>4. policyFile'.parses \in BOOLEAN
    <3>1. CASE policyFile' = [parses |-> TRUE, rules |-> op.rules]
      <4>1. policyFile'.parses = TRUE
        BY <3>1
      <4> QED BY <4>1
    <3>2. CASE policyFile' = [parses |-> FALSE, rules |-> <<>>]
      <4>1. policyFile'.parses = FALSE
        BY <3>2
      <4> QED BY <4>1
    <3> QED BY <2>3, <3>1, <3>2
  <2>5. watch' \in [armed : BOOLEAN, alive : BOOLEAN]
    BY <1>0, <1>12 DEF UpsertWrite
  <2> QED BY <1>10, <1>12, <2>2, <2>4, <2>5 DEF UpsertWrite
<1>13. ASSUME UpsertReread PROVE Serving /\ Others
  <2>1. op' = Idle \/ op' = [kind |-> "read", scoped |-> op.scoped, left |-> Tail(op.left)]
    BY <1>10, <1>13 DEF UpsertReread
  <2>2. op'.kind \in Kinds
    BY <2>1
  <2>3. Swapped(engine, policyFile.rules).version \in Nat \ {0}
    BY DEF Swapped
  <2>4. engine'.version \in Nat \ {0}
    BY <1>10, <1>13, <2>3 DEF UpsertReread, ApplyExternal
  <2> QED BY <1>10, <1>13, <2>2, <2>4 DEF UpsertReread, RuntimeReads, ApplyExternal
<1>14. ASSUME NEW r \in Requests, Arrive(r) \/ Evaluate(r) PROVE Serving /\ Others
  BY <1>14 DEF Arrive, Evaluate
<1>15. UNCHANGED reloadVars \/ (Serving /\ Others)
  BY <1>2, <1>3, <1>4, <1>5, <1>6, <1>7, <1>8, <1>9, <1>11, <1>12, <1>13, <1>14 DEF ReloadNext
<1> QED BY <1>1, <1>2, <1>15, LogStep

\* Boot establishes it.
LEMMA InitShapes == ReloadInit => ReloadTypeOK /\ Shapes
<1> SUFFICES ASSUME ReloadInit PROVE ReloadTypeOK /\ Shapes
  OBVIOUS
<1> USE ReloadAssumption DEF ReloadInit, Idle
<1>1. InStep
  BY DEF InStep
<1>2. log \in Seq({}) /\ DOMAIN log = {}
  OBVIOUS
<1> QED BY <1>1, <1>2 DEF ReloadTypeOK, Shapes

\* Every variable keeps its type, for any files, requests and numbers of edits,
\* reloads and failures: version 0 is never in force nor on the chain.
THEOREM PolicyTypeCorrect == ReloadSpec => [](ReloadTypeOK /\ Shapes)
  BY InitShapes, TypeStep, PTL DEF ReloadSpec

\* Whatever trigger moved the policy last and whatever failed, the engine serves
\* the coordinator's cached ruleset with the live default decision.
THEOREM EngineInStep == ReloadSpec => []EngineMatchesApplied
<1>1. Shapes => EngineMatchesApplied
  BY DEF Shapes, InStep, EngineMatchesApplied
<1> QED BY <1>1, PolicyTypeCorrect, PTL

-----------------------------------------------------------------------------
(* The chain replays the policy.                                           *)

\* A record that joins the log is the one its reload built.
LEMMA LogGrows ==
    ASSUME Shapes, NEW r, log' = Append(log, r)
    PROVE  /\ Len(log) \in Nat /\ Len(log') = Len(log) + 1
           /\ DOMAIN log = 1 .. Len(log) /\ DOMAIN log' = 1 .. Len(log')
           /\ \A i \in DOMAIN log : log'[i] = log[i]
           /\ log'[Len(log')] = r /\ Last(log') = r
<1>1. PICK S : log \in Seq(S)
  BY DEF Shapes
<1>2. log \in Seq(S \cup {r})
  BY <1>1
<1> QED BY <1>2 DEF Last

\* A refused reload, by any trigger, leaves the ruleset, the live config and the
\* cached hashes as they were.
THEOREM RefusalIsInert == ReloadSpec => RefusedChangesNothing
<1>1. ASSUME ReloadTypeOK, Shapes, [ReloadNext]_reloadVars, Len(log') > Len(log), ~Last(log').ok
      PROVE  UNCHANGED <<engine, applied, appliedConfig, config>>
  <2>1. CASE Quiet
    BY <2>1 DEF Quiet
  <2>2. CASE Reported
    <3>1. PICK ok, changed, after : ok \in BOOLEAN /\ changed \in BOOLEAN /\ Ends(ok, changed, after)
      BY <2>2 DEF Reported
    <3> DEFINE r == [ok |-> ok, changed |-> changed, before |-> applied, after |-> after,
                     version |-> engine'.version]
    <3>2. CASE UNCHANGED log
      <4>1. Len(log) \in Nat
        BY DEF Shapes
      <4> QED BY <1>1, <3>2, <4>1
    <3>3. CASE log' = Append(log, r)
      <4>1. Last(log') = r
        BY <1>1, <3>3, LogGrows
      <4>2. r.ok = ok
        OBVIOUS
      <4>3. ~ok
        BY <1>1, <4>1, <4>2
      <4> QED BY <3>1, <4>3 DEF Ends
    <3> QED BY <3>1, <3>2, <3>3 DEF Ends, Report
  <2> QED BY <1>1, <2>1, <2>2, StepShape DEF Shapes
<1>2. ReloadTypeOK /\ Shapes /\ [ReloadNext]_reloadVars =>
        [Len(log') > Len(log) /\ ~Last(log').ok
            => UNCHANGED <<engine, applied, appliedConfig, config>>]_reloadVars
  BY <1>1
<1> QED BY <1>2, PolicyTypeCorrect, PTL DEF ReloadSpec, RefusedChangesNothing

\* m is the last applied record among the first n.
IsLast(m, n) ==
    /\ m \in OkRecords /\ m <= n
    /\ \A j \in OkRecords : j <= n => j <= m

\* ChainReplaysPolicy with CHOOSE unfolded: a last applied record exists wherever
\* there is one, its ruleset is the one the next record starts from, and the
\* ruleset of the very last one is in force.
Replays ==
    /\ \A n \in 0 .. Len(log) : (\E j \in OkRecords : j <= n) => \E m : IsLast(m, n)
    /\ drops = 0 => \A i \in DOMAIN log, m \in DOMAIN log :
                      IsLast(m, i - 1) => log[i].before = log[m].after
    /\ drops = 0 => \A m \in DOMAIN log : IsLast(m, Len(log)) => log[m].after = applied

\* A record that joins the log continues the one before it.
LEMMA ReplaysStep == ReloadTypeOK /\ Shapes /\ Replays /\ [ReloadNext]_reloadVars => Replays'
<1> SUFFICES ASSUME ReloadTypeOK, Shapes, Replays, [ReloadNext]_reloadVars PROVE Replays'
  OBVIOUS
<1>1. CASE UNCHANGED <<log, applied>> /\ (drops' = 0 => drops = 0)
  BY <1>1 DEF Replays, IsLast, OkRecords
<1>2. CASE Quiet
  BY <1>1, <1>2 DEF Quiet, NoReport
<1>3. CASE Reported
  <2>1. PICK ok, changed, after : ok \in BOOLEAN /\ changed \in BOOLEAN /\ Ends(ok, changed, after)
    BY <1>3 DEF Reported
  <2> DEFINE r == [ok |-> ok, changed |-> changed, before |-> applied, after |-> after,
                   version |-> engine'.version]
  <2>2. CASE UNCHANGED log /\ drops < MaxDrops /\ drops' = drops + 1
    <3>1. drops' # 0
      BY <2>2 DEF ReloadTypeOK
    <3> QED BY <2>2, <3>1 DEF Replays, IsLast, OkRecords
  <2>3. CASE log' = Append(log, r) /\ UNCHANGED drops
    <3>0. PICK n \in Nat : n = Len(log) + 1
      BY DEF Shapes
    <3>1. /\ Len(log) \in Nat /\ Len(log) + 1 = n /\ Len(log') = n
          /\ DOMAIN log = 1 .. Len(log) /\ DOMAIN log' = 1 .. n
          /\ \A i \in DOMAIN log : log'[i] = log[i]
          /\ log'[n] = r
      BY <2>3, <3>0, LogGrows
    <3>2. r.ok = ok /\ r.before = applied /\ r.after = after
      OBVIOUS
    <3>3. OkRecords' = IF ok THEN OkRecords \cup {n} ELSE OkRecords
      BY <3>1, <3>2 DEF OkRecords
    <3>4. \A k \in 0 .. Len(log) : \A m : IsLast(m, k)' <=> IsLast(m, k)
      BY <3>1, <3>3 DEF IsLast, OkRecords
    <3>5. ok => \A m : IsLast(m, n)' <=> m = n
      BY <3>1, <3>3 DEF IsLast, OkRecords
    <3>6. ~ok => \A m : IsLast(m, n)' <=> IsLast(m, Len(log))
      BY <3>1, <3>3 DEF IsLast, OkRecords
    <3>7. \A k \in 0 .. n : (\E j \in OkRecords' : j <= k) => \E m : IsLast(m, k)'
      <4> SUFFICES ASSUME NEW k \in 0 .. n, NEW j \in OkRecords', j <= k
                   PROVE  \E m : IsLast(m, k)'
        OBVIOUS
      <4>1. CASE k \in 0 .. Len(log)
        <5>1. j \in OkRecords
          BY <3>1, <3>3, <4>1
        <5> QED BY <3>4, <4>1, <5>1 DEF Replays
      <4>2. CASE k = n /\ ok
        BY <3>5, <4>2
      <4>3. CASE k = n /\ ~ok
        <5>1. j \in OkRecords /\ j <= Len(log)
          BY <3>1, <3>3, <4>3 DEF OkRecords
        <5>2. \E m : IsLast(m, Len(log))
          BY <3>1, <5>1 DEF Replays
        <5> QED BY <3>6, <4>3, <5>2
      <4> QED BY <3>1, <4>1, <4>2, <4>3
    <3>8. drops' = 0 => \A i \in 1 .. n, m \in 1 .. n :
                          IsLast(m, i - 1)' => log'[i].before = log'[m].after
      <4> SUFFICES ASSUME drops = 0, NEW i \in 1 .. n, NEW m \in 1 .. n, IsLast(m, i - 1)'
                   PROVE  log'[i].before = log'[m].after
        BY <2>3
      <4>1. i - 1 \in 0 .. Len(log)
        BY <3>1
      <4>2. IsLast(m, i - 1)
        BY <3>4, <4>1
      <4>3. m \in DOMAIN log /\ log'[m] = log[m]
        BY <3>1, <4>2 DEF IsLast, OkRecords
      <4>4. CASE i = n
        BY <3>1, <3>2, <4>2, <4>3, <4>4 DEF Replays
      <4>5. CASE i \in DOMAIN log
        BY <3>1, <4>2, <4>3, <4>5 DEF Replays
      <4> QED BY <3>1, <4>4, <4>5
    <3>9. drops' = 0 => \A m \in 1 .. n : IsLast(m, n)' => log'[m].after = applied'
      <4> SUFFICES ASSUME drops = 0, NEW m \in 1 .. n, IsLast(m, n)'
                   PROVE  log'[m].after = applied'
        BY <2>3
      <4>1. CASE ok
        BY <2>1, <3>1, <3>2, <3>5, <4>1 DEF Ends
      <4>2. CASE ~ok
        <5>1. IsLast(m, Len(log))
          BY <3>6, <4>2
        <5>2. m \in DOMAIN log /\ log'[m] = log[m]
          BY <3>1, <5>1 DEF IsLast, OkRecords
        <5>3. log[m].after = applied
          BY <5>1, <5>2 DEF Replays
        <5> QED BY <2>1, <4>2, <5>2, <5>3 DEF Ends
      <4> QED BY <4>1, <4>2
    <3> QED BY <3>1, <3>7, <3>8, <3>9 DEF Replays
  <2> QED BY <2>1, <2>2, <2>3 DEF Ends, Report
<1> QED BY <1>2, <1>3, StepShape DEF Shapes

\* The unfolded form gives back the property.
LEMMA ReplaysMeans == Shapes /\ Replays => ChainReplaysPolicy
<1> SUFFICES ASSUME Shapes, Replays, drops = 0
             PROVE  /\ \A i \in DOMAIN log :
                         (\E j \in OkRecords : j < i)
                            => log[i].before = log[LastOk(i - 1)].after
                    /\ OkRecords # {} => log[LastOk(Len(log))].after = applied
  BY DEF ChainReplaysPolicy
<1>1. Len(log) \in Nat /\ DOMAIN log = 1 .. Len(log)
  BY DEF Shapes
<1>2. ASSUME NEW n \in 0 .. Len(log), NEW j \in OkRecords, j <= n
      PROVE  IsLast(LastOk(n), n) /\ LastOk(n) \in DOMAIN log
  <2> DEFINE upto == {i \in OkRecords : i <= n}
  <2>1. \E m \in upto : \A k \in upto : k <= m
    BY <1>2 DEF Replays, IsLast
  <2>2. LastOk(n) \in upto /\ \A k \in upto : k <= LastOk(n)
    BY <2>1 DEF LastOk
  <2> QED BY <2>2 DEF IsLast, OkRecords
<1>3. ASSUME NEW i \in DOMAIN log, NEW j \in OkRecords, j < i
      PROVE  log[i].before = log[LastOk(i - 1)].after
  <2>1. i - 1 \in 0 .. Len(log) /\ j <= i - 1
    BY <1>1, <1>3 DEF OkRecords
  <2> QED BY <1>2, <2>1 DEF Replays
<1>4. ASSUME NEW j \in OkRecords PROVE log[LastOk(Len(log))].after = applied
  <2>1. Len(log) \in 0 .. Len(log) /\ j <= Len(log)
    BY <1>1 DEF OkRecords
  <2> QED BY <1>2, <2>1 DEF Replays
<1> QED BY <1>3, <1>4

\* As long as the sink refuses no record, the chain replays the policy: every
\* record starts from the ruleset the last applied one put in force, and the last
\* applied one is in force now.
THEOREM ChainIsPolicy == ReloadSpec => []ChainReplaysPolicy
<1>1. ReloadInit => Replays
  BY DEF ReloadInit, Replays, IsLast, OkRecords
<1> QED BY <1>1, ReplaysStep, ReplaysMeans, PolicyTypeCorrect, PTL DEF ReloadSpec

\* The engine, the coordinator's cache and the chain name one policy between
\* handlers, for any files, triggers and failures.
THEOREM PolicyAccounted == ReloadSpec => []PolicyIsAccounted
  BY EngineInStep, ChainIsPolicy, PTL DEF PolicyIsAccounted

-----------------------------------------------------------------------------
(* The file of decoy tokens (Decoys).                                      *)

Tokens == [id : Nat, kind : DecoyKinds, label : Labels]
Busy(c) == held[c].at \in {"loaded", "writing"}
DecoyTypes ==
    /\ decoyFile \in [is : {"absent", "torn", "whole"}, tokens : Seq(Tokens)]
    /\ held \in [DecoyCommands -> [at : {"idle", "loaded", "writing", "ended"}, tokens : Seq(Tokens)]]
    /\ minted \in Nat
\* One command is between its load and its save, and what it is about to store holds every token
\* that was reported as saved.
OneAtATime == \A c, d \in DecoyCommands : Busy(c) /\ Busy(d) => c = d
StoresAll == \A c \in DecoyCommands :
    Busy(c) => saved \subseteq ToSet(held[c].tokens) /\ held[c].tokens # <<>>
DecoyInv == DecoyTypes /\ OneAtATime /\ StoresAll /\ NoDecoyIsLost

LEMMA Longer ==
    ASSUME NEW p \in Seq(Tokens), NEW e \in Tokens
    PROVE  /\ Append(p, e) \in Seq(Tokens) /\ Append(p, e) # <<>>
           /\ ToSet(p) \subseteq ToSet(Append(p, e))
  <1>1. PICK q : q = Append(p, e)  OBVIOUS
  <1>2. /\ q \in Seq(Tokens) /\ Len(q) = Len(p) + 1 /\ DOMAIN p = 1 .. Len(p) /\ DOMAIN q = 1 .. Len(q)
        /\ Len(p) \in Nat /\ \A n \in 1 .. Len(p) : q[n] = p[n]
    BY <1>1
  <1>3. ToSet(p) \subseteq ToSet(q)
    <2>1. SUFFICES ASSUME NEW n \in DOMAIN p PROVE p[n] \in ToSet(q)  BY DEF ToSet
    <2>2. n \in DOMAIN q /\ q[n] = p[n]  BY <1>2
    <2> QED  BY <2>2 DEF ToSet
  <1>4. q # <<>>  BY <1>2
  <1> QED  BY <1>1, <1>2, <1>3, <1>4

LEMMA DecoyBegins == DecoyInit => DecoyInv
  <1> SUFFICES ASSUME DecoyInit PROVE DecoyInv  OBVIOUS
  <1>1. /\ decoyFile = [is |-> "absent", tokens |-> <<>>] /\ minted = 0 /\ saved = {}
        /\ held = [c \in DecoyCommands |-> [at |-> "idle", tokens |-> <<>>]]
    BY DEF DecoyInit, File, NoMinting
  <1>2. DecoyTypes  BY <1>1 DEF DecoyTypes
  <1>3. \A c \in DecoyCommands : ~Busy(c)  BY <1>1 DEF Busy
  <1> QED  BY <1>1, <1>2, <1>3 DEF DecoyInv, OneAtATime, StoresAll, NoDecoyIsLost

LEMMA DecoyContinues ==
    ASSUME ~Together
    PROVE  DecoyInv /\ [DecoyNext]_decoyVars => DecoyInv'
  <1> SUFFICES ASSUME DecoyInv, [DecoyNext]_decoyVars PROVE DecoyInv'  OBVIOUS
  <1>0. DecoyTypes /\ OneAtATime /\ StoresAll /\ NoDecoyIsLost  BY DEF DecoyInv
  <1>1. ASSUME NEW c \in DecoyCommands, Generate(c) PROVE DecoyInv'
    <2>1. PICK kind \in DecoyKinds, label \in Labels :
             held' = [held EXCEPT ![c] = [at |-> "loaded",
                        tokens |-> Append(decoyFile.tokens, Token(minted + 1, kind, label))]]
      BY <1>1 DEF Generate
    <2>2. /\ held[c].at = "idle" /\ \A d \in DecoyCommands : held[d].at \in {"idle", "ended"}
          /\ MayLoad /\ minted' = minted + 1 /\ decoyFile' = decoyFile /\ saved' = saved
      BY <1>1 DEF Generate
    <2>3. PICK e : e = Token(minted + 1, kind, label)  OBVIOUS
    <2>4. e \in Tokens  BY <1>0, <2>3 DEF Token, Tokens, DecoyTypes
    <2>5. PICK p : p = decoyFile.tokens  OBVIOUS
    <2>6. p \in Seq(Tokens)  BY <1>0, <2>5 DEF DecoyTypes
    <2>7. PICK q : q = Append(p, e)  OBVIOUS
    <2>8. q \in Seq(Tokens) /\ q # <<>> /\ ToSet(p) \subseteq ToSet(q)  BY <2>4, <2>6, <2>7, Longer
    <2>9. saved \subseteq ToSet(q)
      <3>1. decoyFile.is = "absent" \/ decoyFile.is = "whole"  BY <2>2 DEF MayLoad
      <3>2. CASE decoyFile.is = "absent"  BY <1>0, <3>2 DEF NoDecoyIsLost
      <3>3. CASE decoyFile.is = "whole"  BY <1>0, <2>5, <2>8, <3>3 DEF NoDecoyIsLost
      <3> QED  BY <3>1, <3>2, <3>3
    <2>a. held' = [held EXCEPT ![c] = [at |-> "loaded", tokens |-> q]]  BY <2>1, <2>3, <2>5, <2>7
    <2>b. DecoyTypes'  BY <1>0, <2>2, <2>8, <2>a DEF DecoyTypes
    <2>c. \A d \in DecoyCommands : d # c => held'[d] = held[d]  BY <1>0, <2>a DEF DecoyTypes
    <2>d. held'[c] = [at |-> "loaded", tokens |-> q]  BY <1>0, <2>a DEF DecoyTypes
    <2>e. \A d \in DecoyCommands : Busy(d)' => d = c  BY <2>2, <2>c DEF Busy
    <2>f. OneAtATime'  BY <2>e DEF OneAtATime
    <2>g. StoresAll'  BY <2>2, <2>8, <2>9, <2>d, <2>e DEF StoresAll
    <2>h. NoDecoyIsLost'  BY <1>0, <2>2 DEF NoDecoyIsLost
    <2> QED  BY <2>b, <2>f, <2>g, <2>h DEF DecoyInv
  <1>2. ASSUME NEW c \in DecoyCommands, SaveBegins(c) PROVE DecoyInv'
    <2>1. /\ held[c].at = "loaded" /\ decoyFile' = [is |-> "torn", tokens |-> <<>>]
          /\ held' = [held EXCEPT ![c].at = "writing"] /\ minted' = minted /\ saved' = saved
      BY <1>2 DEF SaveBegins, File
    <2>2. DecoyTypes'
      <3>1. decoyFile' \in [is : {"absent", "torn", "whole"}, tokens : Seq(Tokens)]
        <4>1. PICK none : none = <<>>  OBVIOUS
        <4>2. none \in Seq(Tokens)  BY <4>1
        <4> QED  BY <2>1, <4>1, <4>2
      <3>2. held' \in [DecoyCommands -> [at : {"idle", "loaded", "writing", "ended"}, tokens : Seq(Tokens)]]
        BY <1>0, <2>1 DEF DecoyTypes
      <3> QED  BY <1>0, <2>1, <3>1, <3>2 DEF DecoyTypes
    <2>3. \A d \in DecoyCommands : Busy(d)' <=> Busy(d)  BY <1>0, <2>1 DEF Busy, DecoyTypes
    <2>4. \A d \in DecoyCommands : held'[d].tokens = held[d].tokens  BY <1>0, <2>1 DEF DecoyTypes
    <2>5. OneAtATime'  BY <1>0, <2>3 DEF OneAtATime
    <2>6. StoresAll'  BY <1>0, <2>1, <2>3, <2>4 DEF StoresAll
    <2>7. NoDecoyIsLost'  BY <2>1 DEF NoDecoyIsLost
    <2> QED  BY <2>2, <2>5, <2>6, <2>7 DEF DecoyInv
  <1>3. ASSUME NEW c \in DecoyCommands, SaveEnds(c) PROVE DecoyInv'
    <2>1. PICK q : q = held[c].tokens  OBVIOUS
    <2>2. /\ held[c].at = "writing" /\ decoyFile' = [is |-> "whole", tokens |-> q]
          /\ saved' = saved \cup {q[Len(q)]} /\ held' = [held EXCEPT ![c].at = "ended"]
          /\ minted' = minted
      BY <1>3, <2>1 DEF SaveEnds, File
    <2>3. Busy(c)  BY <2>2 DEF Busy
    <2>4. q \in Seq(Tokens) /\ q # <<>> /\ saved \subseteq ToSet(q)
      BY <1>0, <2>1, <2>3 DEF DecoyTypes, StoresAll
    <2>5. q[Len(q)] \in ToSet(q)
      <3>1. Len(q) \in DOMAIN q  BY <2>4
      <3> QED  BY <3>1 DEF ToSet
    <2>6. DecoyTypes'  BY <1>0, <2>2, <2>4 DEF DecoyTypes
    <2>7. \A d \in DecoyCommands : ~Busy(d)'
      <3>1. held'[c].at = "ended"  BY <1>0, <2>2 DEF DecoyTypes
      <3>2. \A d \in DecoyCommands : d # c => held'[d] = held[d]  BY <1>0, <2>2 DEF DecoyTypes
      <3>3. \A d \in DecoyCommands : d # c => ~Busy(d)  BY <1>0, <2>3 DEF OneAtATime
      <3> QED  BY <3>1, <3>2, <3>3 DEF Busy
    <2>8. NoDecoyIsLost'  BY <2>2, <2>4, <2>5 DEF NoDecoyIsLost
    <2> QED  BY <2>6, <2>7, <2>8 DEF DecoyInv, OneAtATime, StoresAll
  <1>4. ASSUME NEW c \in DecoyCommands, CommandDies(c) PROVE DecoyInv'
    <2>1. /\ held' = [held EXCEPT ![c].at = "ended"] /\ decoyFile' = decoyFile
          /\ minted' = minted /\ saved' = saved
      BY <1>4 DEF CommandDies
    <2>2. DecoyTypes'  BY <1>0, <2>1 DEF DecoyTypes
    <2>3. \A d \in DecoyCommands : Busy(d)' => Busy(d)
      <3>1. held'[c].at = "ended"  BY <1>0, <2>1 DEF DecoyTypes
      <3>2. \A d \in DecoyCommands : d # c => held'[d] = held[d]  BY <1>0, <2>1 DEF DecoyTypes
      <3> QED  BY <3>1, <3>2 DEF Busy
    <2>4. \A d \in DecoyCommands : held'[d].tokens = held[d].tokens  BY <1>0, <2>1 DEF DecoyTypes
    <2>5. OneAtATime'  BY <1>0, <2>3 DEF OneAtATime
    <2>6. StoresAll'  BY <1>0, <2>1, <2>3, <2>4 DEF StoresAll
    <2>7. NoDecoyIsLost'  BY <1>0, <2>1 DEF NoDecoyIsLost
    <2> QED  BY <2>2, <2>5, <2>6, <2>7 DEF DecoyInv
  <1>5. ASSUME UNCHANGED <<decoyFile, held, minted, saved>> PROVE DecoyInv'
    BY <1>0, <1>5 DEF DecoyInv, DecoyTypes, OneAtATime, StoresAll, NoDecoyIsLost, Busy
  <1> QED
    BY <1>1, <1>2, <1>3, <1>4, <1>5 DEF DecoyNext, Loosen, decoyVars

\* The recursion of EnvBlock, as a table.
IsBlock(f, tokens, m) ==
    f = [n \in 0 .. m |-> IF n = 0 THEN <<>>
                          ELSE Append(f[n - 1], UniqueEnvName(tokens[n], ToSet(f[n - 1])))]

LEMMA BlockExists ==
    ASSUME NEW tokens, NEW m \in Nat
    PROVE  \E f : IsBlock(f, tokens, m)
  <1> DEFINE T == {k \in Nat : \E f : IsBlock(f, tokens, k)}
  <1>1. 0 \in T
    <2>1. PICK f : f = [n \in 0 .. 0 |-> <<>>]  OBVIOUS
    <2>2. IsBlock(f, tokens, 0)  BY <2>1 DEF IsBlock
    <2> QED  BY <2>2
  <1>2. ASSUME NEW k \in Nat, k \in T PROVE k + 1 \in T
    <2>1. PICK f : IsBlock(f, tokens, k)  BY <1>2
    <2>2. PICK g : g = [n \in 0 .. k + 1 |-> IF n = 0 THEN <<>>
                          ELSE Append(f[n - 1], UniqueEnvName(tokens[n], ToSet(f[n - 1])))]
      OBVIOUS
    <2>3. \A n \in 0 .. k : g[n] = f[n]
      <3>1. \A n \in 0 .. k : f[n] = IF n = 0 THEN <<>>
                          ELSE Append(f[n - 1], UniqueEnvName(tokens[n], ToSet(f[n - 1])))
        BY <2>1, Zenon DEF IsBlock
      <3>2. \A n \in 0 .. k + 1 : g[n] = IF n = 0 THEN <<>>
                          ELSE Append(f[n - 1], UniqueEnvName(tokens[n], ToSet(f[n - 1])))
        BY <2>2, Zenon
      <3>3. 0 .. k \subseteq 0 .. k + 1  OBVIOUS
      <3> QED  BY <3>1, <3>2, <3>3, Zenon
    <2>4. \A n \in 0 .. k + 1 : n = 0 \/ n - 1 \in 0 .. k  OBVIOUS
    <2>5. IsBlock(g, tokens, k + 1)
      <3>1. g = [n \in 0 .. k + 1 |-> IF n = 0 THEN <<>>
                          ELSE Append(g[n - 1], UniqueEnvName(tokens[n], ToSet(g[n - 1])))]
        BY <2>2, <2>3, <2>4, Zenon
      <3> QED  BY <3>1 DEF IsBlock
    <2> QED  BY <2>5
  <1> HIDE DEF T
  <1>3. Nat \subseteq T  BY <1>1, <1>2, Counting
  <1> QED  BY <1>3 DEF T

\* The parts that names are made of.
Words == DecoyKinds \cup Labels \cup STRING
Names == Seq(Words)
Ending(i) == IF i = 1 THEN <<>> ELSE <<Numerals[i - 1]>>

LEMMA EndingsDiffer ==
    ASSUME NEW p \in Names, NEW i \in 1 .. Len(Numerals) + 1, NEW j \in 1 .. Len(Numerals) + 1,
           p \o Ending(i) = p \o Ending(j)
    PROVE  i = j
  <1>0. Len(Numerals) \in Nat /\ \A k \in 1 .. Len(Numerals) : Numerals[k] \in Words
    BY DecoyAssumption DEF Words
  <1>1. \A k \in 1 .. Len(Numerals) + 1 : k # 1 => k - 1 \in 1 .. Len(Numerals)  BY <1>0
  <1>2. \A w \in Words : /\ Len(p \o <<w>>) = Len(p) + 1 /\ (p \o <<w>>)[Len(p) + 1] = w
    <2>1. SUFFICES ASSUME NEW w \in Words
                   PROVE  Len(p \o <<w>>) = Len(p) + 1 /\ (p \o <<w>>)[Len(p) + 1] = w
      OBVIOUS
    <2>2. PICK q : q = <<w>>  OBVIOUS
    <2>3. q \in Seq(Words) /\ Len(q) = 1 /\ q[1] = w  BY <2>2
    <2>4. p \in Seq(Words) /\ Len(p) \in Nat  BY DEF Names
    <2>5. PICK m : m = p \o q  OBVIOUS
    <2>6. /\ Len(m) = Len(p) + Len(q)
          /\ \A k \in 1 .. Len(p) + Len(q) : m[k] = IF k <= Len(p) THEN p[k] ELSE q[k - Len(p)]
      BY <2>3, <2>4, <2>5, ConcatProperties
    <2>7. Len(p) + 1 \in 1 .. Len(p) + Len(q) /\ ~(Len(p) + 1 <= Len(p)) /\ Len(p) + 1 - Len(p) = 1
      BY <2>3, <2>4
    <2>8. m[Len(p) + 1] = q[1]  BY <2>6, <2>7
    <2> QED  BY <2>2, <2>3, <2>5, <2>6, <2>8
  <1>3. Len(p \o <<>>) = Len(p) /\ Len(p) \in Nat  BY DEF Names
  <1>4. \A k, l \in DOMAIN Numerals : Numerals[k] = Numerals[l] => k = l  BY DecoyAssumption
  <1>5. DOMAIN Numerals = 1 .. Len(Numerals)  BY DecoyAssumption
  <1>6. CASE i = 1 /\ j = 1  BY <1>6
  <1>7. CASE i = 1 /\ j # 1  BY <1>0, <1>1, <1>2, <1>3, <1>7 DEF Ending
  <1>8. CASE i # 1 /\ j = 1  BY <1>0, <1>1, <1>2, <1>3, <1>8 DEF Ending
  <1>9. CASE i # 1 /\ j # 1
    <2>1. i - 1 \in 1 .. Len(Numerals) /\ j - 1 \in 1 .. Len(Numerals)  BY <1>1, <1>9
    <2>2. Ending(i) = <<Numerals[i - 1]>> /\ Ending(j) = <<Numerals[j - 1]>>  BY <1>9 DEF Ending
    <2>3. Numerals[i - 1] = Numerals[j - 1]  BY <1>0, <1>2, <2>1, <2>2
    <2> QED  BY <1>0, <1>4, <1>5, <2>1, <2>3
  <1> QED  BY <1>6, <1>7, <1>8, <1>9

\* There is a free name as long as fewer are taken than there are endings, and it is taken up.
LEMMA NameIsNew ==
    ASSUME NEW token, token.kind \in DecoyKinds, token.label \in Labels,
           NEW used, IsFiniteSet(used), Cardinality(used) <= Len(Numerals)
    PROVE  UniqueEnvName(token, used) \notin used /\ UniqueEnvName(token, used) \in Names
  <1>0. Len(Numerals) \in Nat /\ Numerals \in Seq(STRING)  BY DecoyAssumption
  <1> DEFINE p == <<token.kind>> \o Parts(token.label)
             K == 1 .. Len(Numerals) + 1
             tails == <<<<>>>> \o [i \in 1 .. Len(Numerals) |-> <<Numerals[i]>>]
             free == {i \in 1 .. Len(tails) : p \o tails[i] \notin used}
             least == CHOOSE i \in free : \A j \in free : i <= j
  <1>1. p \in Names
    <2>1. PICK a : a = token.kind  OBVIOUS
    <2>2. PICK b : b = token.label  OBVIOUS
    <2>3. a \in Words /\ b \in Words  BY <2>1, <2>2 DEF Words
    <2>4. <<a>> \in Seq(Words) /\ <<b>> \in Seq(Words) /\ <<>> \in Seq(Words)  BY <2>3
    <2>5. Parts(b) \in Seq(Words)  BY <2>4 DEF Parts
    <2>6. <<a>> \o Parts(b) \in Seq(Words)  BY <2>4, <2>5
    <2> QED  BY <2>1, <2>2, <2>6 DEF Names
  <1>2. Len(tails) = Len(Numerals) + 1 /\ \A i \in K : tails[i] = Ending(i)
    <2>1. PICK h : h = <<<<>>>>  OBVIOUS
    <2>2. PICK r : r = [i \in 1 .. Len(Numerals) |-> <<Numerals[i]>>]  OBVIOUS
    <2>3. h \in Seq(Seq(STRING)) /\ Len(h) = 1 /\ h[1] = <<>>
      <3>1. PICK e : e = <<>>  OBVIOUS
      <3>2. e \in Seq(STRING)  BY <3>1
      <3>3. h = <<e>>  BY <2>1, <3>1
      <3> QED  BY <3>1, <3>2, <3>3
    <2>4. \A i \in 1 .. Len(Numerals) : Numerals[i] \in STRING /\ <<Numerals[i]>> \in Seq(STRING)  BY <1>0
    <2>5. r \in Seq(Seq(STRING)) /\ Len(r) = Len(Numerals) /\ \A i \in 1 .. Len(Numerals) : r[i] = <<Numerals[i]>>
      BY <1>0, <2>2, <2>4, SeqDef
    <2>6. PICK s : s = h \o r  OBVIOUS
    <2>a. /\ Len(s) = 1 + Len(Numerals)
          /\ \A i \in 1 .. 1 + Len(Numerals) : s[i] = IF i <= 1 THEN h[i] ELSE r[i - 1]
      <3>1. PICK S : S = Seq(STRING)  OBVIOUS
      <3>2. h \in Seq(S) /\ r \in Seq(S)  BY <2>3, <2>5, <3>1
      <3>3. /\ Len(h \o r) = Len(h) + Len(r)
            /\ \A i \in 1 .. Len(h) + Len(r) : (h \o r)[i] = IF i <= Len(h) THEN h[i] ELSE r[i - Len(h)]
        BY <3>2, ConcatProperties
      <3>4. Len(h) = 1 /\ Len(r) = Len(Numerals)  BY <2>3, <2>5
      <3> QED  BY <2>6, <3>3, <3>4
    <2>7. Len(s) = Len(Numerals) + 1 /\ s[1] = <<>>
      <3>1. 1 \in 1 .. 1 + Len(Numerals)  BY <1>0
      <3> QED  BY <1>0, <2>3, <2>a, <3>1
    <2>8. \A i \in K : i # 1 => i - 1 \in 1 .. Len(Numerals) /\ s[i] = r[i - 1]
      <3>1. \A i \in K : i # 1 => i - 1 \in 1 .. Len(Numerals) /\ i \in 1 .. 1 + Len(Numerals) /\ ~(i <= 1)
        BY <1>0
      <3> QED  BY <2>a, <3>1
    <2>9. tails = s  BY <2>1, <2>2, <2>6
    <2> QED  BY <2>5, <2>7, <2>8, <2>9 DEF Ending
  <1>3. free = {i \in K : p \o Ending(i) \notin used}  BY <1>2
  <1>4. free # {}
    <2>1. SUFFICES ASSUME free = {} PROVE FALSE  OBVIOUS
    <2>2. \A i \in K : p \o Ending(i) \in used  BY <1>3, <2>1
    <2>3. PICK f : f = [i \in K |-> p \o Ending(i)]  OBVIOUS
    <2>4. f \in Injection(K, used)
      <3>1. f \in [K -> used]  BY <2>2, <2>3
      <3>2. \A i, j \in K : f[i] = f[j] => i = j
        <4>1. SUFFICES ASSUME NEW i \in K, NEW j \in K, f[i] = f[j] PROVE i = j  OBVIOUS
        <4>2. p \o Ending(i) = p \o Ending(j)  BY <2>3, <4>1
        <4> QED  BY <1>1, <4>2, EndingsDiffer
      <3> QED  BY <3>1, <3>2 DEF Injection, IsInjective
    <2>5. Cardinality(K) <= Cardinality(used)  BY <2>4, FS_Injection
    <2>6. Cardinality(K) = Len(Numerals) + 1  BY <1>0, FS_Interval
    <2>7. Cardinality(used) \in Nat  BY FS_CardinalityType
    <2> QED  BY <1>0, <2>5, <2>6, <2>7
  <1>5. free \subseteq Nat  BY <1>0, <1>3
  <1>6. \E i \in free : \A j \in free : i <= j  BY <1>4, <1>5, HasLeast
  <1>7. least \in free  BY <1>6
  <1>8. UniqueEnvName(token, used) = p \o tails[least]  BY DEF UniqueEnvName
  <1> HIDE DEF tails, free, p, least
  <1>9. least \in K /\ p \o Ending(least) \notin used  BY <1>3, <1>7
  <1>a. Ending(least) \in Seq(Words)
    <2>1. \A w \in Words : <<w>> \in Seq(Words)  OBVIOUS
    <2>2. least # 1 => Numerals[least - 1] \in Words  BY <1>0, <1>9 DEF Words
    <2>3. <<>> \in Seq(Words)  OBVIOUS
    <2> QED  BY <2>1, <2>2, <2>3 DEF Ending
  <1>b. p \o Ending(least) \in Names  BY <1>1, <1>a DEF Names
  <1> QED  BY <1>2, <1>8, <1>9, <1>b

\* A block of no more tokens than there are endings has a name for each.
LEMMA BlockNamesApart ==
    ASSUME NEW tokens \in Seq([id : Nat, kind : DecoyKinds, label : Labels]),
           Len(tokens) <= Len(Numerals) + 1
    PROVE  Cardinality(ToSet(EnvBlock(tokens))) = Len(tokens)
  <1>0. Len(Numerals) \in Nat /\ Len(tokens) \in Nat  BY DecoyAssumption
  <1>1. PICK f : f = CHOOSE g : IsBlock(g, tokens, Len(tokens))  OBVIOUS
  <1>2. IsBlock(f, tokens, Len(tokens))  BY <1>0, <1>1, BlockExists
  <1>3. EnvBlock(tokens) = f[Len(tokens)]  BY <1>1 DEF EnvBlock, IsBlock
  <1> DEFINE Good(n) == /\ f[n] \in Seq(Names) /\ IsFiniteSet(ToSet(f[n]))
                        /\ Cardinality(ToSet(f[n])) = n
             T == {n \in Nat : n <= Len(tokens) => Good(n)}
  <1>4. 0 \in T
    <2>1. f[0] = <<>>  BY <1>0, <1>2 DEF IsBlock
    <2>2. PICK s : s = f[0]  OBVIOUS
    <2>3. s \in Seq(Names) /\ Len(s) = 0 /\ DOMAIN s = {}  BY <2>1, <2>2
    <2>4. ToSet(s) = {}  BY <2>3 DEF ToSet
    <2> QED  BY <2>2, <2>3, <2>4, FS_EmptySet
  <1>5. ASSUME NEW n \in Nat, n \in T PROVE n + 1 \in T
    <2>1. SUFFICES ASSUME n + 1 <= Len(tokens) PROVE Good(n + 1)  OBVIOUS
    <2>2. Good(n)  BY <1>0, <1>5, <2>1
    <2>3. PICK s : s = f[n]  OBVIOUS
    <2>4. PICK e : e = UniqueEnvName(tokens[n + 1], ToSet(s))  OBVIOUS
    <2>5. f[n + 1] = Append(s, e)
      <3>1. n + 1 \in 0 .. Len(tokens) /\ n + 1 # 0 /\ n + 1 - 1 = n  BY <1>0, <2>1
      <3>2. \A i \in 0 .. Len(tokens) : f[i] = IF i = 0 THEN <<>>
               ELSE Append(f[i - 1], UniqueEnvName(tokens[i], ToSet(f[i - 1])))
        BY <1>2, Zenon DEF IsBlock
      <3>3. PICK m : m = n + 1  OBVIOUS
      <3>4. m \in 0 .. Len(tokens) /\ m # 0 /\ m - 1 = n  BY <3>1, <3>3
      <3>5. f[m] = Append(f[m - 1], UniqueEnvName(tokens[m], ToSet(f[m - 1])))  BY <3>2, <3>4, Zenon
      <3> QED  BY <2>3, <2>4, <3>3, <3>4, <3>5, Zenon
    <2>6. tokens[n + 1].kind \in DecoyKinds /\ tokens[n + 1].label \in Labels
      <3>1. n + 1 \in 1 .. Len(tokens)  BY <1>0, <2>1
      <3>2. PICK R : R = [id : Nat, kind : DecoyKinds, label : Labels]  OBVIOUS
      <3>3. tokens \in Seq(R)  BY <3>2
      <3>4. tokens[n + 1] \in R  BY <3>1, <3>3
      <3> QED  BY <3>2, <3>4
    <2>7. n <= Len(Numerals)  BY <1>0, <2>1
    <2>8. e \notin ToSet(s) /\ e \in Names  BY <2>2, <2>3, <2>4, <2>6, <2>7, NameIsNew
    <2>9. PICK q : q = Append(s, e)  OBVIOUS
    <2>a. s \in Seq(Names)  BY <2>2, <2>3
    <2>b. q \in Seq(Names) /\ ToSet(q) = ToSet(s) \cup {e}
      <3>1. /\ q \in Seq(Names) /\ Len(s) \in Nat /\ DOMAIN s = 1 .. Len(s) /\ DOMAIN q = 1 .. Len(s) + 1
            /\ q[Len(s) + 1] = e /\ \A i \in 1 .. Len(s) : q[i] = s[i]
        BY <2>8, <2>9, <2>a
      <3>2. ToSet(q) \subseteq ToSet(s) \cup {e}
        <4>1. SUFFICES ASSUME NEW i \in 1 .. Len(s) + 1 PROVE q[i] \in ToSet(s) \cup {e}
          BY <3>1 DEF ToSet
        <4>2. i \in 1 .. Len(s) \/ i = Len(s) + 1  BY <3>1
        <4> QED  BY <3>1, <4>2 DEF ToSet
      <3>3. ToSet(s) \subseteq ToSet(q)
        <4>1. SUFFICES ASSUME NEW i \in 1 .. Len(s) PROVE s[i] \in ToSet(q)  BY <3>1 DEF ToSet
        <4>2. i \in 1 .. Len(s) + 1  BY <3>1
        <4> QED  BY <3>1, <4>2 DEF ToSet
      <3>4. Len(s) + 1 \in DOMAIN q  BY <3>1
      <3>5. e \in ToSet(q)  BY <3>1, <3>4 DEF ToSet
      <3> QED  BY <3>1, <3>2, <3>3, <3>5
    <2>c. IsFiniteSet(ToSet(q)) /\ Cardinality(ToSet(q)) = n + 1
      <3>1. IsFiniteSet(ToSet(s)) /\ Cardinality(ToSet(s)) = n  BY <2>2, <2>3
      <3>2. PICK u : u = ToSet(s)  OBVIOUS
      <3>3. IsFiniteSet(u \cup {e}) /\ Cardinality(u \cup {e}) = n + 1
        BY <2>8, <3>1, <3>2, FS_AddElement
      <3> QED  BY <2>b, <3>2, <3>3
    <2> QED  BY <2>5, <2>9, <2>b, <2>c
  <1> HIDE DEF T, Good
  <1>6. Nat \subseteq T  BY <1>4, <1>5, Counting
  <1> QED  BY <1>0, <1>3, <1>6 DEF T, Good

-----------------------------------------------------------------------------
\* A command generates once, so there are no more tokens than commands that began.
Begun == {c \in DecoyCommands : held[c].at # "idle"}
FewEnough ==
    /\ minted <= Cardinality(Begun) /\ Len(decoyFile.tokens) <= minted
    /\ \A c \in DecoyCommands : Len(held[c].tokens) <= minted

LEMMA FewStay == DecoyTypes /\ FewEnough /\ [DecoyNext]_decoyVars => FewEnough'
  <1> SUFFICES ASSUME DecoyTypes, FewEnough, [DecoyNext]_decoyVars PROVE FewEnough'  OBVIOUS
  <1>0. /\ minted \in Nat /\ decoyFile.tokens \in Seq(Tokens)
        /\ \A c \in DecoyCommands : held[c].tokens \in Seq(Tokens)
    BY DEF DecoyTypes
  <1>00. IsFiniteSet(Begun) /\ Cardinality(Begun) \in Nat
    BY DecoyAssumption, FS_Subset, FS_CardinalityType DEF Begun
  <1>1. ASSUME NEW c \in DecoyCommands, Generate(c) PROVE FewEnough'
    <2>1. PICK kind \in DecoyKinds, label \in Labels :
             held' = [held EXCEPT ![c] = [at |-> "loaded",
                        tokens |-> Append(decoyFile.tokens, Token(minted + 1, kind, label))]]
      BY <1>1 DEF Generate
    <2>2. held[c].at = "idle" /\ minted' = minted + 1 /\ decoyFile' = decoyFile
      BY <1>1 DEF Generate
    <2>3. PICK q : q = Append(decoyFile.tokens, Token(minted + 1, kind, label))  OBVIOUS
    <2>4. Len(q) = Len(decoyFile.tokens) + 1
      <3>1. PICK e : e = Token(minted + 1, kind, label)  OBVIOUS
      <3>2. e \in Tokens  BY <1>0, <3>1 DEF Token, Tokens
      <3> QED  BY <1>0, <2>3, <3>1, <3>2
    <2>5. held'[c] = [at |-> "loaded", tokens |-> q]  BY <2>1, <2>3 DEF DecoyTypes
    <2>6. \A d \in DecoyCommands : d # c => held'[d] = held[d]  BY <2>1 DEF DecoyTypes
    <2>7. Begun' = Begun \cup {c} /\ c \notin Begun  BY <2>2, <2>5, <2>6 DEF Begun
    <2>8. Cardinality(Begun') = Cardinality(Begun) + 1  BY <1>00, <2>7, FS_AddElement
    <2>9. Len(decoyFile.tokens) \in Nat /\ \A d \in DecoyCommands : Len(held[d].tokens) \in Nat  BY <1>0
    <2>a. minted <= Cardinality(Begun) /\ Len(decoyFile.tokens) <= minted
          /\ \A d \in DecoyCommands : Len(held[d].tokens) <= minted
      BY DEF FewEnough
    <2>b. \A d \in DecoyCommands : Len(held'[d].tokens) <= minted'
      <3>1. SUFFICES ASSUME NEW d \in DecoyCommands PROVE Len(held'[d].tokens) <= minted'  OBVIOUS
      <3>2. CASE d = c
        <4>1. Len(q) <= minted'  BY <1>0, <2>2, <2>4, <2>9, <2>a
        <4> QED  BY <2>5, <3>2, <4>1
      <3>3. CASE d # c
        <4>1. Len(held[d].tokens) <= minted'  BY <1>0, <2>2, <2>9, <2>a
        <4> QED  BY <2>6, <3>3, <4>1
      <3> QED  BY <3>2, <3>3
    <2> QED  BY <1>0, <1>00, <2>2, <2>8, <2>9, <2>a, <2>b DEF FewEnough
  <1>2. ASSUME NEW c \in DecoyCommands, SaveBegins(c) PROVE FewEnough'
    <2>1. /\ held[c].at = "loaded" /\ decoyFile' = [is |-> "torn", tokens |-> <<>>]
          /\ held' = [held EXCEPT ![c].at = "writing"] /\ minted' = minted
      BY <1>2 DEF SaveBegins, File
    <2>2. \A d \in DecoyCommands : held'[d].tokens = held[d].tokens  BY <2>1 DEF DecoyTypes
    <2>3. Begun' = Begun  BY <2>1 DEF Begun, DecoyTypes
    <2>4. Len(decoyFile'.tokens) = 0  BY <2>1
    <2> QED  BY <1>0, <2>1, <2>2, <2>3, <2>4 DEF FewEnough
  <1>3. ASSUME NEW c \in DecoyCommands, SaveEnds(c) PROVE FewEnough'
    <2>1. /\ held[c].at = "writing" /\ decoyFile'.tokens = held[c].tokens
          /\ held' = [held EXCEPT ![c].at = "ended"] /\ minted' = minted
      BY <1>3 DEF SaveEnds, File
    <2>2. \A d \in DecoyCommands : held'[d].tokens = held[d].tokens  BY <2>1 DEF DecoyTypes
    <2>3. Begun' = Begun  BY <2>1 DEF Begun, DecoyTypes
    <2> QED  BY <2>1, <2>2, <2>3 DEF FewEnough
  <1>4. ASSUME NEW c \in DecoyCommands, CommandDies(c) PROVE FewEnough'
    <2>1. /\ held[c].at \in {"loaded", "writing"} /\ decoyFile' = decoyFile
          /\ held' = [held EXCEPT ![c].at = "ended"] /\ minted' = minted
      BY <1>4 DEF CommandDies
    <2>2. \A d \in DecoyCommands : held'[d].tokens = held[d].tokens  BY <2>1 DEF DecoyTypes
    <2>3. Begun' = Begun  BY <2>1 DEF Begun, DecoyTypes
    <2> QED  BY <2>1, <2>2, <2>3 DEF FewEnough
  <1>5. ASSUME UNCHANGED <<decoyFile, held, minted>> PROVE FewEnough'
    BY <1>5 DEF FewEnough, Begun
  <1> QED
    BY <1>1, <1>2, <1>3, <1>4, <1>5 DEF DecoyNext, Loosen, decoyVars

LEMMA FewAtFirst == DecoyInit => FewEnough
  <1> SUFFICES ASSUME DecoyInit PROVE FewEnough  OBVIOUS
  <1>1. /\ decoyFile.tokens = <<>> /\ minted = 0 /\ \A c \in DecoyCommands : held[c].tokens = <<>>
    BY DEF DecoyInit, File, NoMinting
  <1>2. IsFiniteSet(Begun)  BY DecoyAssumption, FS_Subset DEF Begun
  <1>3. Cardinality(Begun) \in Nat  BY <1>2, FS_CardinalityType
  <1>4. Len(decoyFile.tokens) = 0 /\ \A c \in DecoyCommands : Len(held[c].tokens) = 0  BY <1>1
  <1> QED  BY <1>1, <1>3, <1>4 DEF FewEnough

LEMMA FewAreNamed == DecoyTypes /\ FewEnough => EachIsNamedApart
  <1> SUFFICES ASSUME DecoyTypes, FewEnough PROVE EachIsNamedApart  OBVIOUS
  <1>1. PICK s : s = decoyFile.tokens  OBVIOUS
  <1>2. s \in Seq(Tokens) /\ Len(s) \in Nat /\ minted \in Nat  BY <1>1 DEF DecoyTypes
  <1>3. IsFiniteSet(Begun) /\ Cardinality(Begun) <= Cardinality(DecoyCommands)
    BY DecoyAssumption, FS_Subset DEF Begun
  <1>4. Cardinality(Begun) \in Nat /\ Cardinality(DecoyCommands) \in Nat
    BY <1>3, DecoyAssumption, FS_CardinalityType
  <1>5. Len(Numerals) \in Nat  BY DecoyAssumption
  <1>6. Cardinality(DecoyCommands) <= Len(Numerals) + 1  BY DecoyAssumption
  <1>7. Len(s) <= minted /\ minted <= Cardinality(Begun)  BY <1>1 DEF FewEnough
  <1>8. Len(s) <= Len(Numerals) + 1  BY <1>2, <1>3, <1>4, <1>5, <1>6, <1>7
  <1>9. s \in Seq([id : Nat, kind : DecoyKinds, label : Labels])  BY <1>2 DEF Tokens
  <1>a. Cardinality(ToSet(EnvBlock(s))) = Len(s)  BY <1>8, <1>9, BlockNamesApart
  <1> QED  BY <1>1, <1>a DEF EachIsNamedApart

\* For any number of generate commands run one after another, each killed anywhere, and a file
\* whose mode is loosened at any time: a token that was reported as saved is in the file, or the
\* file refuses to be loaded; and a block of the environment gives every token of a file a name
\* of its own (commandDecoyGenerate, loadDecoys, saveDecoys, uniqueEnvName).
THEOREM DecoysAreKept == ASSUME ~Together PROVE DecoySpec => []PlantedDecoysAreKept
  <1>1. DecoyInit => DecoyInv /\ FewEnough  BY DecoyBegins, FewAtFirst
  <1>2. DecoyInv /\ FewEnough /\ [DecoyNext]_decoyVars => (DecoyInv /\ FewEnough)'
    BY DecoyContinues, FewStay DEF DecoyInv
  <1>3. DecoyInv /\ FewEnough => PlantedDecoysAreKept
    BY FewAreNamed DEF DecoyInv, PlantedDecoysAreKept
  <1> QED  BY <1>1, <1>2, <1>3, PTL DEF DecoySpec
=============================================================================
