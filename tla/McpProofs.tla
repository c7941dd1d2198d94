------------------------------ MODULE McpProofs ------------------------------
(***************************************************************************)
(* What the MCP wrapper promises, for any ids, cursors, pages and limits:  *)
(* a wrapper stays in step with its client as long as it need not forget a *)
(* call (McpSession), and the exchanges of the HTTP listener balance       *)
(* (McpHttp).                                                              *)
(***************************************************************************)
EXTENDS McpSession, McpHttp, SequenceTheorems

-----------------------------------------------------------------------------
(* Calls in flight.                                                        *)

CallSet == [id : ClientIds \cup ServerIds, method : {"list", "call", "ask"},
            listing : ListingIds \cup {0}]
OwedSet == [id : ClientIds, method : {"list", "call"}, listing : ListingIds \cup {0},
            sofar : Inventories]

EntriesOf(cs) == {cs[i] : i \in DOMAIN cs}
OnePerId(cs) == \A i, j \in DOMAIN cs : cs[i].id = cs[j].id => i = j

\* The map after a set or a delete of one key.
Rekeyed(new, cs, id, add) ==
    /\ new \in Seq(CallSet) /\ OnePerId(new)
    /\ EntriesOf(new) = {e \in EntriesOf(cs) : e.id # id} \cup add

\* Each call of the client at the server has its entry, and no other entry
\* holds a listing.
Attributed(cs, ow) ==
    /\ cs \in Seq(CallSet) /\ OnePerId(cs)
    /\ ow \subseteq OwedSet
    /\ \A o, p \in ow : o.id = p.id => o = p
    /\ \A o \in ow : Entry(o.id, o) \in EntriesOf(cs)
    /\ \A e \in EntriesOf(cs) : e.listing # 0 => \E o \in ow : e = Entry(o.id, o)

LEMMA WithoutIs ==
    ASSUME NEW cs \in Seq(CallSet), OnePerId(cs), NEW id
    PROVE  Rekeyed(Without(cs, id), cs, id, {})
<1>1. CASE ~\E i \in DOMAIN cs : cs[i].id = id
  <2>1. Without(cs, id) = cs
    BY <1>1 DEF Without
  <2>2. EntriesOf(cs) = {e \in EntriesOf(cs) : e.id # id} \cup {}
    BY <1>1 DEF EntriesOf
  <2> QED BY <2>1, <2>2 DEF Rekeyed
<1>2. CASE \E i \in DOMAIN cs : cs[i].id = id
  <2>1. PICK g \in DOMAIN cs : g = CHOOSE i \in DOMAIN cs : cs[i].id = id
    BY <1>2
  <2>2. cs[g].id = id
    BY <1>2, <2>1
  <2>3. PICK n \in Nat : n = Len(cs) /\ DOMAIN cs = 1..n /\ \A i \in 1..n : cs[i] \in CallSet
    BY SeqDef
  <2>4. PICK new : new = [i \in 1..n - 1 |-> cs[IF i < g THEN i ELSE i + 1]]
    OBVIOUS
  <2>5. Without(cs, id) = new
    BY <1>2, <2>1, <2>3, <2>4 DEF Without
  <2>6. g \in 1..n /\ n - 1 \in Nat
    BY <2>3
  <2>7. ASSUME NEW i \in 1..n - 1
        PROVE  /\ new[i] = cs[IF i < g THEN i ELSE i + 1]
               /\ (IF i < g THEN i ELSE i + 1) \in 1..n
               /\ (IF i < g THEN i ELSE i + 1) # g
    BY <2>3, <2>4, <2>6
  <2>8. new \in Seq(CallSet)
    <3>1. \A i \in 1..n - 1 : new[i] \in CallSet
      BY <2>3, <2>7
    <3> QED BY <2>4, <2>6, <3>1
  <2>9. DOMAIN new = 1..n - 1
    BY <2>4
  <2>10. OnePerId(new)
    <3> SUFFICES ASSUME NEW i \in 1..n - 1, NEW j \in 1..n - 1, new[i].id = new[j].id
                 PROVE  i = j
      BY <2>9 DEF OnePerId
    <3>1. (IF i < g THEN i ELSE i + 1) = (IF j < g THEN j ELSE j + 1)
      BY <2>3, <2>7 DEF OnePerId
    <3> QED BY <2>6, <3>1
  <2>11. EntriesOf(new) \subseteq {e \in EntriesOf(cs) : e.id # id}
    <3> SUFFICES ASSUME NEW i \in 1..n - 1
                 PROVE  new[i] \in EntriesOf(cs) /\ new[i].id # id
      BY <2>9 DEF EntriesOf
    <3>1. PICK k \in 1..n : k = (IF i < g THEN i ELSE i + 1) /\ new[i] = cs[k] /\ k # g
      BY <2>7
    <3> QED BY <2>2, <2>3, <3>1 DEF EntriesOf, OnePerId
  <2>12. {e \in EntriesOf(cs) : e.id # id} \subseteq EntriesOf(new)
    <3> SUFFICES ASSUME NEW k \in 1..n, cs[k].id # id
                 PROVE  cs[k] \in EntriesOf(new)
      BY <2>3 DEF EntriesOf
    <3>1. k # g
      BY <2>2
    <3>2. PICK i \in 1..n - 1 : k = (IF i < g THEN i ELSE i + 1)
      <4>1. CASE k < g
        BY <2>6, <4>1
      <4>2. CASE k > g
        <5>1. k - 1 \in 1..n - 1 /\ k = (IF k - 1 < g THEN k - 1 ELSE (k - 1) + 1)
          BY <2>6, <4>2
        <5> QED BY <5>1
      <4> QED BY <2>6, <3>1, <4>1, <4>2
    <3>3. new[i] = cs[k]
      BY <2>7, <3>2
    <3> QED BY <2>9, <3>3 DEF EntriesOf
  <2>13. EntriesOf(new) = {e \in EntriesOf(cs) : e.id # id} \cup {}
    BY <2>11, <2>12
  <2> QED BY <2>5, <2>8, <2>10, <2>13 DEF Rekeyed
<1> QED BY <1>1, <1>2

\* With room in the map, a new call takes the place of its key or a new one.
LEMMA RememberIs ==
    ASSUME NEW w, calls[w] \in Seq(CallSet), OnePerId(calls[w]), Len(calls[w]) < MaxTracked,
           NEW id, NEW call, Entry(id, call) \in CallSet
    PROVE  Rekeyed(Remember(w, id, call), calls[w], id, {Entry(id, call)})
<1>1. PICK cs \in Seq(CallSet) : cs = calls[w]
  OBVIOUS
<1>2. PICK e \in CallSet : e = Entry(id, call) /\ e.id = id
  BY DEF Entry
<1>3. PICK n \in Nat : n = Len(cs) /\ DOMAIN cs = 1..n /\ \A i \in 1..n : cs[i] \in CallSet
  BY SeqDef
<1>4. ~(Len(calls[w]) >= MaxTracked)
  BY <1>1, <1>3, McpAssumption
<1>5. CASE \E i \in 1..n : cs[i].id = id
  <2>1. PICK new : new = [i \in 1..n |-> IF cs[i].id = id THEN e ELSE cs[i]]
    OBVIOUS
  <2>2. Remember(w, id, call) = new
    BY <1>1, <1>2, <1>3, <1>4, <1>5, <2>1 DEF Remember
  <2>3. new \in Seq(CallSet) /\ DOMAIN new = 1..n /\ \A i \in 1..n : new[i].id = cs[i].id
    BY <1>2, <1>3, <2>1
  <2>4. OnePerId(new)
    BY <1>1, <1>3, <2>3 DEF OnePerId
  <2>5. EntriesOf(new) = {f \in EntriesOf(cs) : f.id # id} \cup {e}
    <3>1. PICK k \in 1..n : cs[k].id = id
      BY <1>5
    <3>2. new[k] = e
      BY <2>1, <3>1
    <3>3. \A i \in 1..n : new[i] \in {f \in EntriesOf(cs) : f.id # id} \cup {e}
      BY <1>3, <2>1 DEF EntriesOf
    <3>4. \A i \in 1..n : cs[i].id # id => new[i] = cs[i]
      BY <2>1
    <3>5. e \in EntriesOf(new)
      BY <2>3, <3>2 DEF EntriesOf
    <3>6. \A f \in EntriesOf(cs) : f.id # id => f \in EntriesOf(new)
      BY <1>3, <2>3, <3>4 DEF EntriesOf
    <3>7. EntriesOf(new) \subseteq {f \in EntriesOf(cs) : f.id # id} \cup {e}
      BY <2>3, <3>3 DEF EntriesOf
    <3> QED BY <3>5, <3>6, <3>7
  <2> QED BY <1>1, <1>2, <2>2, <2>3, <2>4, <2>5 DEF Rekeyed
<1>6. CASE ~\E i \in 1..n : cs[i].id = id
  <2>1. PICK new : new = Append(cs, e)
    OBVIOUS
  <2>2. Remember(w, id, call) = new
    BY <1>1, <1>2, <1>3, <1>4, <1>6, <2>1 DEF Remember
  <2>3. new \in Seq(CallSet) /\ Len(new) = n + 1 /\ DOMAIN new = 1..n + 1
        /\ new[n + 1] = e /\ \A i \in 1..n : new[i] = cs[i]
    BY <1>3, <2>1, AppendProperties
  <2>4. OnePerId(new)
    <3> SUFFICES ASSUME NEW i \in 1..n + 1, NEW j \in 1..n + 1, new[i].id = new[j].id
                 PROVE  i = j
      BY <2>3 DEF OnePerId
    <3>1. CASE i \in 1..n /\ j \in 1..n
      BY <1>1, <1>3, <2>3, <3>1 DEF OnePerId
    <3>2. CASE i = n + 1
      BY <1>2, <1>6, <2>3, <3>2
    <3>3. CASE j = n + 1
      BY <1>2, <1>6, <2>3, <3>3
    <3> QED BY <3>1, <3>2, <3>3
  <2>5. EntriesOf(new) = {f \in EntriesOf(cs) : f.id # id} \cup {e}
    <3>1. \A f \in EntriesOf(cs) : f.id # id /\ f \in EntriesOf(new)
      <4> SUFFICES ASSUME NEW i \in 1..n PROVE cs[i].id # id /\ cs[i] \in EntriesOf(new)
        BY <1>3 DEF EntriesOf
      <4>1. i \in 1..n + 1
        OBVIOUS
      <4> QED BY <1>6, <2>3, <4>1 DEF EntriesOf
    <3>2. e \in EntriesOf(new)
      BY <2>3 DEF EntriesOf
    <3>3. EntriesOf(new) \subseteq EntriesOf(cs) \cup {e}
      <4> SUFFICES ASSUME NEW i \in 1..n + 1 PROVE new[i] \in EntriesOf(cs) \cup {e}
        BY <2>3 DEF EntriesOf
      <4>1. CASE i \in 1..n
        BY <1>3, <2>3, <4>1 DEF EntriesOf
      <4>2. CASE i = n + 1
        BY <2>3, <4>2
      <4> QED BY <4>1, <4>2
    <3> QED BY <3>1, <3>2, <3>3
  <2> QED BY <1>1, <1>2, <2>2, <2>3, <2>4, <2>5 DEF Rekeyed
<1> QED BY <1>5, <1>6

\* A response is attributed to the entry of its id.
LEMMA RecallIs ==
    ASSUME NEW w, OnePerId(calls[w]), NEW e \in EntriesOf(calls[w])
    PROVE  Recall(w, e.id) = [method |-> e.method, listing |-> e.listing]
<1>1. PICK i \in DOMAIN calls[w] : calls[w][i] = e
  BY DEF EntriesOf
<1>2. \A j \in DOMAIN calls[w] : calls[w][j].id = e.id => j = i
  BY <1>1 DEF OnePerId
<1>3. (CHOOSE j \in DOMAIN calls[w] : calls[w][j].id = e.id) = i
  BY <1>1, <1>2
<1> QED BY <1>1, <1>3 DEF Recall

\* An id that holds no listing is recalled without one.
LEMMA RecallNothing ==
    ASSUME NEW w, NEW id, \A e \in EntriesOf(calls[w]) : e.id = id => e.listing = 0
    PROVE  Recall(w, id).listing = 0
<1>1. CASE \E i \in DOMAIN calls[w] : calls[w][i].id = id
  <2>1. PICK i \in DOMAIN calls[w] : i = CHOOSE j \in DOMAIN calls[w] : calls[w][j].id = id
    BY <1>1
  <2>2. calls[w][i].id = id
    BY <1>1, <2>1
  <2>3. calls[w][i].listing = 0
    BY <2>2 DEF EntriesOf
  <2> QED BY <1>1, <2>1, <2>3 DEF Recall
<1>2. CASE ~\E i \in DOMAIN calls[w] : calls[w][i].id = id
  BY <1>2 DEF Recall, Unknown
<1> QED BY <1>1, <1>2

\* A client's call: its id was not in use.
LEMMA CallIsAttributed ==
    ASSUME NEW cs, NEW ow, Attributed(cs, ow), NEW o \in OwedSet, \A p \in ow : p.id # o.id,
           NEW new, Rekeyed(new, cs, o.id, {Entry(o.id, o)})
    PROVE  Attributed(new, ow \cup {o})
<1>1. \A p \in ow : Entry(p.id, p).id = p.id
  BY DEF Entry
<1>2. \A p \in ow \cup {o} : Entry(p.id, p) \in EntriesOf(new)
  BY <1>1 DEF Attributed, Rekeyed
<1>3. \A e \in EntriesOf(new) : e.listing # 0 => \E p \in ow \cup {o} : e = Entry(p.id, p)
  BY DEF Attributed, Rekeyed
<1>4. \A p, q \in ow \cup {o} : p.id = q.id => p = q
  BY DEF Attributed
<1> QED BY <1>2, <1>3, <1>4 DEF Attributed, Rekeyed

\* An entry of an id that no call uses comes or goes, and holds no listing.
LEMMA OtherIsAttributed ==
    ASSUME NEW cs, NEW ow, Attributed(cs, ow), NEW id, \A p \in ow : p.id # id,
           NEW new, NEW add, Rekeyed(new, cs, id, add), \A e \in add : e.listing = 0
    PROVE  Attributed(new, ow)
<1>1. \A p \in ow : Entry(p.id, p).id = p.id
  BY DEF Entry
<1>2. \A p \in ow : Entry(p.id, p) \in EntriesOf(new)
  BY <1>1 DEF Attributed, Rekeyed
<1>3. \A e \in EntriesOf(new) : e.listing # 0 => \E p \in ow : e = Entry(p.id, p)
  BY DEF Attributed, Rekeyed
<1> QED BY <1>2, <1>3 DEF Attributed, Rekeyed

\* A call is answered.
LEMMA AnswerIsAttributed ==
    ASSUME NEW cs, NEW ow, Attributed(cs, ow), NEW o \in ow,
           NEW new, Rekeyed(new, cs, o.id, {})
    PROVE  Attributed(new, ow \ {o})
<1>1. \A p \in ow : Entry(p.id, p).id = p.id
  BY DEF Entry
<1>2. \A p \in ow \ {o} : p.id # o.id
  BY DEF Attributed
<1>3. \A p \in ow \ {o} : Entry(p.id, p) \in EntriesOf(new)
  BY <1>1, <1>2 DEF Attributed, Rekeyed
<1>4. \A e \in EntriesOf(new) : e.listing # 0 => \E p \in ow \ {o} : e = Entry(p.id, p)
  <2> SUFFICES ASSUME NEW e \in EntriesOf(new), e.listing # 0
               PROVE  \E p \in ow \ {o} : e = Entry(p.id, p)
    OBVIOUS
  <2>1. e \in EntriesOf(cs) /\ e.id # o.id
    BY DEF Rekeyed
  <2>2. PICK p \in ow : e = Entry(p.id, p)
    BY <2>1 DEF Attributed
  <2>3. p # o
    BY <1>1, <2>1, <2>2
  <2> QED BY <2>2, <2>3
<1> QED BY <1>3, <1>4 DEF Attributed, Rekeyed

-----------------------------------------------------------------------------
(* Listings.                                                               *)

Shut(ls, listing) == [l \in ListingIds |-> IF l = listing THEN None ELSE ls[l]]
Unlinked(cu, listing) == [c \in Cursors |-> IF cu[c] = listing THEN 0 ELSE cu[c]]

\* The pages that a listing is known by are those its client has read.
PagesAreKnown(ls, cu, le, ow, of) ==
    /\ ls \in [ListingIds -> {None} \cup Inventories]
    /\ cu \in [Cursors -> ListingIds \cup {0}]
    /\ of \in [Cursors -> {None} \cup Inventories]
    /\ ow \subseteq OwedSet
    /\ \A o \in ow : IF o.method = "list" THEN o.listing \in ListingIds /\ ls[o.listing] = o.sofar
                                          ELSE o.listing = 0
    /\ \A c \in Cursors : cu[c] # 0 => ls[cu[c]] = of[c] /\ of[c] # None
    /\ \A x \in le : /\ x.o \in OwedSet /\ x.o.method = "list" /\ x.o.listing \in ListingIds
                     /\ x.call = [method |-> "list", listing |-> x.o.listing]
                     /\ ls[x.o.listing] = x.o.sofar
                     /\ x.page \in Pages /\ x.page.next = NoCursor

\* A listing can be ended in one way at most, and an open one in one way.
OneWayOn(ls, cu, le, ow) ==
    /\ \A o, p \in ow : o.listing # 0 /\ o.listing = p.listing => o = p
    /\ \A c, d \in Cursors : cu[c] # 0 /\ cu[c] = cu[d] => c = d
    /\ \A x, y \in le : x = y
    /\ \A o \in ow, c \in Cursors : o.listing # 0 => cu[c] # o.listing
    /\ \A x \in le, o \in ow : o.listing # x.o.listing
    /\ \A x \in le, c \in Cursors : cu[c] # x.o.listing
    /\ \A l \in ListingIds : ls[l] # None =>
         \/ \E o \in ow : o.listing = l
         \/ \E c \in Cursors : cu[c] = l
         \/ \E x \in le : x.o.listing = l

Tracked(ls, cu, le, ow, of) == PagesAreKnown(ls, cu, le, ow, of) /\ OneWayOn(ls, cu, le, ow)

LEMMA ListingFacts ==
    /\ 0 \notin ListingIds
    /\ {} \in Inventories
    /\ None \notin Inventories /\ Garbled \notin Inventories /\ None # Garbled
    /\ NoCursor \notin Cursors
<1>1. 0 \notin ListingIds
  BY DEF ListingIds
<1>2. {} \in Inventories
  BY DEF Inventories, OncePerName
<1> QED BY <1>1, <1>2, McpAssumption

\* A tools/list without a cursor opens a listing that nothing refers to.
LEMMA ListingOpens ==
    ASSUME NEW ls, NEW cu, NEW ow, NEW of, Tracked(ls, cu, {}, ow, of),
           NEW l \in ListingIds, ls[l] = None,
           NEW o \in OwedSet, o.method = "list", o.listing = l, o.sofar = {},
           NEW ls2, ls2 = [ls EXCEPT ![l] = {}]
    PROVE  Tracked(ls2, cu, {}, ow \cup {o}, of)
<1>1. ls2 \in [ListingIds -> {None} \cup Inventories] /\ ls2[l] = {}
      /\ \A k \in ListingIds : k # l => ls2[k] = ls[k]
  BY ListingFacts DEF Tracked, PagesAreKnown
<1>2. \A p \in ow : p.listing # l
  <2> SUFFICES ASSUME NEW p \in ow, p.listing = l PROVE FALSE
    OBVIOUS
  <2>1. p.listing # 0
    BY ListingFacts
  <2>2. ls[l] = p.sofar /\ p.sofar \in Inventories
    BY <2>1 DEF Tracked, PagesAreKnown, OwedSet
  <2> QED BY <2>2, ListingFacts
<1>3. \A c \in Cursors : cu[c] # l
  BY ListingFacts DEF Tracked, PagesAreKnown
<1>4. PagesAreKnown(ls2, cu, {}, ow \cup {o}, of)
  BY <1>1, <1>2, <1>3 DEF Tracked, PagesAreKnown
<1>5. OneWayOn(ls2, cu, {}, ow \cup {o})
  BY <1>1, <1>2, <1>3 DEF Tracked, OneWayOn
<1> QED BY <1>4, <1>5 DEF Tracked

\* One with a cursor goes on where the cursor was given, and consumes it.
LEMMA ListingGoesOn ==
    ASSUME NEW ls, NEW cu, NEW ow, NEW of, Tracked(ls, cu, {}, ow, of),
           NEW c \in Cursors, cu[c] # 0,
           NEW o \in OwedSet, o.method = "list", o.listing = cu[c], o.sofar = of[c],
           NEW cu2, cu2 = [cu EXCEPT ![c] = 0]
    PROVE  Tracked(ls, cu2, {}, ow \cup {o}, of)
<1>1. cu2 \in [Cursors -> ListingIds \cup {0}] /\ cu2[c] = 0
      /\ \A d \in Cursors : d # c => cu2[d] = cu[d]
  BY DEF Tracked, PagesAreKnown
<1>2. cu[c] \in ListingIds /\ ls[cu[c]] = of[c]
  BY DEF Tracked, PagesAreKnown
<1>3. PagesAreKnown(ls, cu2, {}, ow \cup {o}, of)
  BY <1>1, <1>2 DEF Tracked, PagesAreKnown
<1>4. \A p \in ow : p.listing # o.listing
  BY DEF Tracked, OneWayOn
<1>5. \A d \in Cursors : cu2[d] # o.listing
  BY <1>1 DEF Tracked, OneWayOn
<1>6. \A l \in ListingIds : ls[l] # None =>
        (\E p \in ow \cup {o} : p.listing = l) \/ (\E d \in Cursors : cu2[d] = l)
  <2> SUFFICES ASSUME NEW l \in ListingIds, ls[l] # None, \A p \in ow \cup {o} : p.listing # l
               PROVE  \E d \in Cursors : cu2[d] = l
    OBVIOUS
  <2>1. PICK d \in Cursors : cu[d] = l
    BY DEF Tracked, OneWayOn
  <2>2. d # c
    BY <2>1
  <2> QED BY <1>1, <2>1, <2>2
<1>7. OneWayOn(ls, cu2, {}, ow \cup {o})
  <2>1. \A p, q \in ow \cup {o} : p.listing # 0 /\ p.listing = q.listing => p = q
    BY <1>4 DEF Tracked, OneWayOn
  <2>2. \A d, e \in Cursors : cu2[d] # 0 /\ cu2[d] = cu2[e] => d = e
    BY <1>1 DEF Tracked, OneWayOn
  <2>3. \A p \in ow \cup {o}, d \in Cursors : p.listing # 0 => cu2[d] # p.listing
    BY <1>1, <1>5 DEF Tracked, OneWayOn
  <2> QED BY <1>6, <2>1, <2>2, <2>3 DEF OneWayOn
<1> QED BY <1>3, <1>7 DEF Tracked

\* Any other call.
LEMMA CallIsTracked ==
    ASSUME NEW ls, NEW cu, NEW ow, NEW of, Tracked(ls, cu, {}, ow, of),
           NEW o \in OwedSet, o.method = "call", o.listing = 0
    PROVE  Tracked(ls, cu, {}, ow \cup {o}, of)
<1>1. PagesAreKnown(ls, cu, {}, ow \cup {o}, of)
  BY DEF Tracked, PagesAreKnown
<1>2. OneWayOn(ls, cu, {}, ow \cup {o})
  BY DEF Tracked, OneWayOn
<1> QED BY <1>1, <1>2 DEF Tracked

\* Nothing is discarded for a call that has no listing.
LEMMA DiscardNothing ==
    ASSUME NEW ls, NEW cu, NEW le, NEW ow, NEW of, PagesAreKnown(ls, cu, le, ow, of)
    PROVE  Shut(ls, 0) = ls /\ Unlinked(cu, 0) = cu
<1>1. ls \in [ListingIds -> {None} \cup Inventories] /\ cu \in [Cursors -> ListingIds \cup {0}]
  BY DEF PagesAreKnown
<1>2. Shut(ls, 0) = ls
  BY <1>1, ListingFacts DEF Shut
<1>3. Unlinked(cu, 0) = cu
  BY <1>1 DEF Unlinked
<1> QED BY <1>2, <1>3

\* An open listing is discarded with whatever would have ended it.
LEMMA DiscardIsTracked ==
    ASSUME NEW ls, NEW cu, NEW le, NEW ow, NEW of, Tracked(ls, cu, le, ow, of),
           NEW l \in ListingIds,
           NEW le2, le2 \subseteq le, \A x \in le2 : x.o.listing # l,
           NEW ow2, ow2 \subseteq ow, \A o \in ow2 : o.listing # l,
           \A o \in ow : o.listing # 0 /\ o.listing # l => o \in ow2,
           \A x \in le : x.o.listing # l => x \in le2
    PROVE  Tracked(Shut(ls, l), Unlinked(cu, l), le2, ow2, of)
<1>1. PICK ls2 : ls2 = Shut(ls, l)
  OBVIOUS
<1>2. PICK cu2 : cu2 = Unlinked(cu, l)
  OBVIOUS
<1>3. /\ ls2 \in [ListingIds -> {None} \cup Inventories] /\ ls2[l] = None
      /\ \A k \in ListingIds : k # l => ls2[k] = ls[k]
  BY <1>1 DEF Shut, Tracked, PagesAreKnown
<1>4. /\ cu2 \in [Cursors -> ListingIds \cup {0}]
      /\ \A c \in Cursors : cu2[c] = IF cu[c] = l THEN 0 ELSE cu[c]
  BY <1>2 DEF Unlinked, Tracked, PagesAreKnown
<1>5. PagesAreKnown(ls2, cu2, le2, ow2, of)
  <2>1. \A o \in ow2 : IF o.method = "list" THEN o.listing \in ListingIds /\ ls2[o.listing] = o.sofar
                                            ELSE o.listing = 0
    BY <1>3 DEF Tracked, PagesAreKnown
  <2>2. \A c \in Cursors : cu2[c] # 0 => ls2[cu2[c]] = of[c] /\ of[c] # None
    BY <1>3, <1>4 DEF Tracked, PagesAreKnown
  <2>3. \A x \in le2 : /\ x.o \in OwedSet /\ x.o.method = "list" /\ x.o.listing \in ListingIds
                       /\ x.call = [method |-> "list", listing |-> x.o.listing]
                       /\ ls2[x.o.listing] = x.o.sofar
                       /\ x.page \in Pages /\ x.page.next = NoCursor
    BY <1>3 DEF Tracked, PagesAreKnown
  <2>4. ow2 \subseteq OwedSet /\ of \in [Cursors -> {None} \cup Inventories]
    BY DEF Tracked, PagesAreKnown
  <2> QED BY <1>3, <1>4, <2>1, <2>2, <2>3, <2>4 DEF PagesAreKnown
<1>6. OneWayOn(ls2, cu2, le2, ow2)
  <2>1. /\ \A o, p \in ow2 : o.listing # 0 /\ o.listing = p.listing => o = p
        /\ \A x, y \in le2 : x = y
        /\ \A x \in le2, o \in ow2 : o.listing # x.o.listing
    BY DEF Tracked, OneWayOn
  <2>2. \A c, d \in Cursors : cu2[c] # 0 /\ cu2[c] = cu2[d] => c = d
    BY <1>4 DEF Tracked, OneWayOn
  <2>3. \A o \in ow2, c \in Cursors : o.listing # 0 => cu2[c] # o.listing
    BY <1>4 DEF Tracked, OneWayOn
  <2>4. \A x \in le2, c \in Cursors : cu2[c] # x.o.listing
    <3>1. \A x \in le2 : x.o.listing # 0
      BY ListingFacts DEF Tracked, PagesAreKnown
    <3> QED BY <1>4, <3>1 DEF Tracked, OneWayOn
  <2>5. ASSUME NEW k \in ListingIds, ls2[k] # None
        PROVE  \/ \E o \in ow2 : o.listing = k
               \/ \E c \in Cursors : cu2[c] = k
               \/ \E x \in le2 : x.o.listing = k
    <3>1. k # l /\ ls[k] # None /\ k # 0
      BY <1>3, <2>5, ListingFacts
    <3>2. \/ \E o \in ow : o.listing = k
          \/ \E c \in Cursors : cu[c] = k
          \/ \E x \in le : x.o.listing = k
      BY <3>1 DEF Tracked, OneWayOn
    <3> QED BY <1>4, <3>1, <3>2
  <2> QED BY <2>1, <2>2, <2>3, <2>4, <2>5 DEF OneWayOn
<1> QED BY <1>1, <1>2, <1>5, <1>6 DEF Tracked

\* The answer of a call ends its listing, if it has one.
LEMMA AnswerIsTracked ==
    ASSUME NEW ls, NEW cu, NEW ow, NEW of, Tracked(ls, cu, {}, ow, of), NEW o \in ow
    PROVE  Tracked(Shut(ls, o.listing), Unlinked(cu, o.listing), {}, ow \ {o}, of)
<1>1. CASE o.listing = 0
  <2>1. Shut(ls, o.listing) = ls /\ Unlinked(cu, o.listing) = cu
    BY <1>1, DiscardNothing DEF Tracked
  <2>2. PagesAreKnown(ls, cu, {}, ow \ {o}, of)
    BY DEF Tracked, PagesAreKnown
  <2>3. OneWayOn(ls, cu, {}, ow \ {o})
    <3>1. \A l \in ListingIds : l # 0
      BY ListingFacts
    <3> QED BY <1>1, <3>1 DEF Tracked, OneWayOn
  <2> QED BY <2>1, <2>2, <2>3 DEF Tracked
<1>2. CASE o.listing # 0
  <2>1. PICK l \in ListingIds : l = o.listing
    BY <1>2 DEF Tracked, PagesAreKnown
  <2>2. \A p \in ow : p.listing = l => p = o
    BY <1>2, <2>1 DEF Tracked, OneWayOn
  <2>3. Tracked(Shut(ls, l), Unlinked(cu, l), {}, ow \ {o}, of)
    BY <2>1, <2>2, DiscardIsTracked
  <2> QED BY <2>1, <2>3
<1> QED BY <1>1, <1>2

\* A listing that no call answers is given up.
LEMMA GivingUpIsTracked ==
    ASSUME NEW ls, NEW cu, NEW ow, NEW of, Tracked(ls, cu, {}, ow, of),
           NEW l \in ListingIds, \A o \in ow : o.listing # l
    PROVE  Tracked(Shut(ls, l), Unlinked(cu, l), {}, ow, of)
  BY DiscardIsTracked

\* An answer waits for its baseline to be written.
LEMMA WaitingIsTracked ==
    ASSUME NEW ls, NEW cu, NEW ow, NEW of, Tracked(ls, cu, {}, ow, of),
           NEW o \in ow, o.method = "list", NEW page \in Pages, page.next = NoCursor,
           NEW call, call = [method |-> "list", listing |-> o.listing]
    PROVE  Tracked(ls, cu, {[o |-> o, call |-> call, page |-> page]}, ow \ {o}, of)
<1>1. PICK x : x = [o |-> o, call |-> call, page |-> page]
  OBVIOUS
<1>2. x.o = o /\ x.call = call /\ x.page = page
  BY <1>1
<1>3. o \in OwedSet /\ o.listing \in ListingIds /\ ls[o.listing] = o.sofar /\ o.listing # 0
  BY ListingFacts DEF Tracked, PagesAreKnown
<1>4. PagesAreKnown(ls, cu, {x}, ow \ {o}, of)
  BY <1>2, <1>3 DEF Tracked, PagesAreKnown
<1>5. OneWayOn(ls, cu, {x}, ow \ {o})
  <2>1. \A p \in ow \ {o} : p.listing # o.listing
    BY <1>3 DEF Tracked, OneWayOn
  <2>2. \A c \in Cursors : cu[c] # o.listing
    BY <1>3 DEF Tracked, OneWayOn
  <2>3. \A l \in ListingIds : ls[l] # None =>
          \/ \E p \in ow \ {o} : p.listing = l
          \/ \E c \in Cursors : cu[c] = l
          \/ l = o.listing
    BY DEF Tracked, OneWayOn
  <2> QED BY <1>2, <2>1, <2>2, <2>3 DEF Tracked, OneWayOn
<1> QED BY <1>1, <1>4, <1>5 DEF Tracked

\* It is written, and the answer goes out.
LEMMA WrittenIsTracked ==
    ASSUME NEW ls, NEW cu, NEW le, NEW ow, NEW of, Tracked(ls, cu, le, ow, of), NEW x \in le
    PROVE  Tracked(Shut(ls, x.o.listing), Unlinked(cu, x.o.listing), {}, ow, of)
<1>1. PICK l \in ListingIds : l = x.o.listing
  BY DEF Tracked, PagesAreKnown
<1>2. \A o \in ow : o.listing # l
  BY <1>1 DEF Tracked, OneWayOn
<1>3. \A y \in le : y.o.listing = l
  BY <1>1 DEF Tracked, OneWayOn
<1>4. Tracked(Shut(ls, l), Unlinked(cu, l), {}, ow, of)
  BY <1>2, <1>3, DiscardIsTracked
<1> QED BY <1>1, <1>4

\* A page that is not the last one: its cursor carries the listing on.
LEMMA PageIsTracked ==
    ASSUME NEW ls, NEW cu, NEW ow, NEW of, Tracked(ls, cu, {}, ow, of),
           NEW o \in ow, o.method = "list", NEW c \in Cursors, cu[c] = 0 \/ cu[c] = o.listing,
           NEW read \in Inventories,
           NEW ls2, ls2 = [ls EXCEPT ![o.listing] = read],
           NEW cu2, cu2 = [cu EXCEPT ![c] = o.listing],
           NEW of2, of2 = [of EXCEPT ![c] = read]
    PROVE  Tracked(ls2, cu2, {}, ow \ {o}, of2)
<1>1. PICK l \in ListingIds : l = o.listing /\ l # 0
  BY ListingFacts DEF Tracked, PagesAreKnown
<1>2. /\ ls2 \in [ListingIds -> {None} \cup Inventories] /\ ls2[l] = read
      /\ \A k \in ListingIds : k # l => ls2[k] = ls[k]
  BY <1>1 DEF Tracked, PagesAreKnown
<1>3. /\ cu2 \in [Cursors -> ListingIds \cup {0}] /\ cu2[c] = l
      /\ \A d \in Cursors : d # c => cu2[d] = cu[d]
  BY <1>1 DEF Tracked, PagesAreKnown
<1>4. /\ of2 \in [Cursors -> {None} \cup Inventories] /\ of2[c] = read
      /\ \A d \in Cursors : d # c => of2[d] = of[d]
  BY DEF Tracked, PagesAreKnown
<1>5. \A p \in ow \ {o} : p.listing # l
  BY <1>1 DEF Tracked, OneWayOn
<1>6. \A d \in Cursors : cu[d] # l
  BY <1>1 DEF Tracked, OneWayOn
<1>7. cu[c] = 0
  BY <1>1, <1>6
<1>8. PagesAreKnown(ls2, cu2, {}, ow \ {o}, of2)
  <2>1. \A p \in ow \ {o} : IF p.method = "list" THEN p.listing \in ListingIds /\ ls2[p.listing] = p.sofar
                                                 ELSE p.listing = 0
    BY <1>2, <1>5 DEF Tracked, PagesAreKnown
  <2>2. \A d \in Cursors : cu2[d] # 0 => ls2[cu2[d]] = of2[d] /\ of2[d] # None
    BY <1>2, <1>3, <1>4, <1>6, ListingFacts DEF Tracked, PagesAreKnown
  <2> QED BY <1>2, <1>3, <1>4, <2>1, <2>2 DEF Tracked, PagesAreKnown
<1>9. OneWayOn(ls2, cu2, {}, ow \ {o})
  <2>1. \A d, e \in Cursors : cu2[d] # 0 /\ cu2[d] = cu2[e] => d = e
    BY <1>3, <1>6 DEF Tracked, OneWayOn
  <2>2. \A p \in ow \ {o}, d \in Cursors : p.listing # 0 => cu2[d] # p.listing
    BY <1>3, <1>5 DEF Tracked, OneWayOn
  <2>3. ASSUME NEW k \in ListingIds, ls2[k] # None
        PROVE  (\E p \in ow \ {o} : p.listing = k) \/ \E d \in Cursors : cu2[d] = k
    <3>1. CASE k = l
      BY <1>3, <3>1
    <3>2. CASE k # l
      <4>1. (\E p \in ow : p.listing = k) \/ \E d \in Cursors : cu[d] = k
        BY <1>2, <2>3, <3>2 DEF Tracked, OneWayOn
      <4>2. k # 0
        BY ListingFacts
      <4> QED BY <1>1, <1>3, <1>7, <3>2, <4>1, <4>2
    <3> QED BY <3>1, <3>2
  <2> QED BY <2>1, <2>2, <2>3 DEF Tracked, OneWayOn
<1> QED BY <1>8, <1>9 DEF Tracked

-----------------------------------------------------------------------------
(* A wrapper's step.                                                       *)

\* Every wrapper knows its calls and its listings.
WrappersKnow ==
    /\ setup \in Setups
    /\ calls = [w \in Wrappers |-> calls[w]] /\ owed = [w \in Wrappers |-> owed[w]]
    /\ listings = [w \in Wrappers |-> listings[w]] /\ cursors = [w \in Wrappers |-> cursors[w]]
    /\ learning = [w \in Wrappers |-> learning[w]] /\ offered = [w \in Wrappers |-> offered[w]]
    /\ \A w \in Wrappers :
         /\ Attributed(calls[w], owed[w])
         /\ Tracked(listings[w], cursors[w], learning[w], owed[w], offered[w])

\* What a client read to the end: one inventory with mode off, the stored one in
\* lock mode; in learn mode the file is one of them.
ReadToTheEnd ==
    /\ store \in {None, Garbled} \cup Inventories
    /\ approved \in [Wrappers -> {None} \cup Inventories]
    /\ complete \in [Wrappers -> SUBSET Inventories]
    /\ \A w \in Wrappers : learning[w] # {} => setup.mode = "learn"
    /\ setup.mode = "off" => \A w \in Wrappers : complete[w] \subseteq {approved[w]}
    /\ setup.mode = "lock" => /\ store \in {setup.store, None, Garbled}
                              /\ \A w \in Wrappers : complete[w] \subseteq {setup.store}
    /\ LearnedIsWhole

SessionInv == WrappersKnow /\ ReadToTheEnd

\* No call in flight was ever put out of the map to make room for another.
NoneEvicted == \A w \in Wrappers : Len(calls[w]) < MaxTracked
\* The two sides number their requests differently.
IdsApart == ClientIds \cap ServerIds = {}

\* g is f but for w.
Only(g, f, w) ==
    g = [v \in Wrappers |-> g[v]] /\ \A v \in Wrappers : v # w => g[v] = f[v]

\* A step of w leaves every other wrapper as it is.
Alone(w) ==
    /\ w \in Wrappers /\ setup' = setup
    /\ Only(calls', calls, w) /\ Only(owed', owed, w)
    /\ Only(listings', listings, w) /\ Only(cursors', cursors, w)
    /\ Only(learning', learning, w) /\ Only(offered', offered, w)

LEMMA OnlyReplaced ==
    ASSUME NEW f, f = [v \in Wrappers |-> f[v]], NEW w \in Wrappers, NEW x,
           NEW g, g = [f EXCEPT ![w] = x]
    PROVE  Only(g, f, w) /\ g[w] = x
  BY DEF Only

LEMMA OnlySame ==
    ASSUME NEW f, f = [v \in Wrappers |-> f[v]], NEW w \in Wrappers, NEW g, g = f
    PROVE  Only(g, f, w) /\ g[w] = f[w]
  BY DEF Only

LEMMA AloneKnows ==
    ASSUME WrappersKnow, NEW w, Alone(w), Attributed(calls'[w], owed'[w]),
           Tracked(listings'[w], cursors'[w], learning'[w], owed'[w], offered'[w])
    PROVE  WrappersKnow'
<1>1. ASSUME NEW v \in Wrappers
      PROVE  /\ Attributed(calls'[v], owed'[v])
             /\ Tracked(listings'[v], cursors'[v], learning'[v], owed'[v], offered'[v])
  <2>1. CASE v = w
    BY <2>1
  <2>2. CASE v # w
    <3>1. calls'[v] = calls[v] /\ owed'[v] = owed[v] /\ listings'[v] = listings[v]
      BY <2>2 DEF Alone, Only
    <3>2. cursors'[v] = cursors[v] /\ learning'[v] = learning[v] /\ offered'[v] = offered[v]
      BY <2>2 DEF Alone, Only
    <3> QED BY <3>1, <3>2 DEF WrappersKnow
  <2> QED BY <2>1, <2>2
<1>2. setup' \in Setups
  BY DEF Alone, WrappersKnow
<1> QED BY <1>1, <1>2 DEF WrappersKnow, Alone, Only

\* What is read of a wrapper that may handle a frame.
LEMMA ReadyFacts ==
    ASSUME WrappersKnow, NEW w \in Wrappers, Ready(w)
    PROVE  /\ learning[w] = {}
           /\ Attributed(calls[w], owed[w])
           /\ Tracked(listings[w], cursors[w], {}, owed[w], offered[w])
           /\ calls[w] \in Seq(CallSet) /\ OnePerId(calls[w])
  BY DEF WrappersKnow, Ready, Attributed

\* An open call is recalled as what it is.
LEMMA OwedIsRecalled ==
    ASSUME WrappersKnow, NEW w \in Wrappers, NEW o \in owed[w]
    PROVE  Recall(w, o.id) = [method |-> o.method, listing |-> o.listing]
<1>1. OnePerId(calls[w]) /\ Entry(o.id, o) \in EntriesOf(calls[w])
  BY DEF WrappersKnow, Attributed
<1>2. PICK e \in EntriesOf(calls[w]) : e = Entry(o.id, o)
  BY <1>1
<1>3. e.id = o.id /\ e.method = o.method /\ e.listing = o.listing
  BY <1>2 DEF Entry
<1>4. Recall(w, e.id) = [method |-> e.method, listing |-> e.listing]
  BY <1>1, RecallIs
<1> QED BY <1>3, <1>4

LEMMA OpenListing ==
    ASSUME NEW w, NEW le, NEW ow, NEW of, PagesAreKnown(listings[w], cursors[w], le, ow, of), NEW l
    PROVE  l \in Open(w) <=> l \in ListingIds /\ listings[w][l] # None
  BY DEF Open

\* There is room for one more listing, and a name for it.
LEMMA FreshIsFree ==
    ASSUME WrappersKnow, NEW w \in Wrappers, Ready(w), ~(Cardinality(Open(w)) >= MaxTracked)
    PROVE  Fresh(w) \in ListingIds /\ listings[w][Fresh(w)] = None
<1>1. Open(w) # ListingIds
  <2>1. IsFiniteSet(ListingIds) /\ Cardinality(ListingIds) = MaxTracked
    BY McpAssumption, FS_Interval DEF ListingIds
  <2> QED BY <2>1, McpAssumption
<1>2. PICK l \in ListingIds : l \notin Open(w)
  BY <1>1 DEF Open
<1>3. listings[w][l] = None /\ l # 0
  BY <1>2, ListingFacts DEF Open
<1>4. \A o \in owed[w] : o.listing # l
  <2> SUFFICES ASSUME NEW o \in owed[w], o.listing = l PROVE FALSE
    OBVIOUS
  <2>1. o \in OwedSet /\ listings[w][o.listing] = o.sofar
    BY <1>3, ReadyFacts DEF Tracked, PagesAreKnown
  <2>2. o.sofar \in Inventories
    BY <2>1 DEF OwedSet
  <2> QED BY <1>3, <2>1, <2>2, ListingFacts
<1>5. \A c \in Cursors : cursors[w][c] # l
  BY <1>3, ReadyFacts DEF Tracked, PagesAreKnown
<1>6. \A i \in DOMAIN calls[w] : calls[w][i].listing # l
  <2> SUFFICES ASSUME NEW i \in DOMAIN calls[w], calls[w][i].listing = l PROVE FALSE
    OBVIOUS
  <2>1. calls[w][i] \in EntriesOf(calls[w])
    BY DEF EntriesOf
  <2>2. PICK o \in owed[w] : calls[w][i] = Entry(o.id, o)
    BY <1>3, <2>1, ReadyFacts DEF Attributed
  <2>3. o.listing = l
    BY <2>2 DEF Entry
  <2> QED BY <1>4, <2>3
<1>7. Fresh(w) \in ListingIds /\ Fresh(w) \notin Open(w)
  BY <1>2, <1>4, <1>5, <1>6 DEF Fresh
<1> QED BY <1>7 DEF Open

\* The listing of a request that is let through.
LEMMA ListingForIs ==
    ASSUME WrappersKnow, NEW w \in Wrappers, Ready(w), NEW cursor \in Cursors \cup {NoCursor},
           ListingFor(w, cursor) # 0
    PROVE  /\ ListingFor(w, cursor) \in ListingIds
           /\ cursor = NoCursor => listings[w][ListingFor(w, cursor)] = None
           /\ cursor # NoCursor => ListingFor(w, cursor) = cursors[w][cursor]
<1>1. CASE cursor = NoCursor
  BY <1>1, FreshIsFree DEF ListingFor
<1>2. CASE cursor # NoCursor
  BY <1>2 DEF ListingFor, Open
<1> QED BY <1>1, <1>2

-----------------------------------------------------------------------------
(* What steps do to calls and listings.                                    *)

LEMMA ClientListKnows ==
    ASSUME WrappersKnow, NoneEvicted, NEW w \in Wrappers, NEW id \in ClientIds,
           NEW cursor \in Cursors \cup {NoCursor}, ClientList(w, id, cursor)
    PROVE  WrappersKnow'
<1>1. PICK l : l = ListingFor(w, cursor)
  OBVIOUS
<1>2. PICK call : call = [method |-> "list", listing |-> l]
  OBVIOUS
<1>3. PICK sofar : sofar = IF cursor = NoCursor THEN {} ELSE offered[w][cursor]
  OBVIOUS
<1>4. PICK o : o = [id |-> id, method |-> "list", listing |-> l, sofar |-> sofar]
  OBVIOUS
<1>5. /\ Ready(w) /\ Given(w, cursor) /\ l # 0 /\ \A p \in owed[w] : p.id # id
      /\ calls' = [calls EXCEPT ![w] = Remember(w, id, call)]
      /\ IF cursor = NoCursor
           THEN listings' = [listings EXCEPT ![w][l] = {}] /\ UNCHANGED cursors
           ELSE cursors' = [cursors EXCEPT ![w][cursor] = 0] /\ UNCHANGED listings
      /\ owed' = [owed EXCEPT ![w] = @ \cup {o}]
      /\ setup' = setup /\ learning' = learning /\ offered' = offered
  BY <1>1, <1>2, <1>3, <1>4 DEF ClientList, Sends
<1>6. /\ Attributed(calls[w], owed[w]) /\ Tracked(listings[w], cursors[w], {}, owed[w], offered[w])
      /\ calls[w] \in Seq(CallSet) /\ OnePerId(calls[w]) /\ learning[w] = {}
  BY <1>5, ReadyFacts
<1>7. /\ l \in ListingIds /\ (cursor = NoCursor => listings[w][l] = None)
      /\ cursor # NoCursor => l = cursors[w][cursor]
  BY <1>1, <1>5, ListingForIs
<1>8. o \in OwedSet /\ Entry(id, call) = Entry(o.id, o) /\ Entry(id, call) \in CallSet
      /\ o.id = id /\ o.method = "list" /\ o.listing = l /\ o.sofar = sofar
  <2>1. sofar \in Inventories
    BY <1>3, <1>5, <1>6, ListingFacts DEF Given, Tracked, PagesAreKnown
  <2> QED BY <1>2, <1>4, <1>7, <2>1 DEF OwedSet, Entry, CallSet
<1>9. /\ Only(calls', calls, w) /\ calls'[w] = Remember(w, id, call)
      /\ Only(owed', owed, w) /\ owed'[w] = owed[w] \cup {o}
  BY <1>5, OnlyReplaced DEF WrappersKnow
<1>10. /\ Only(learning', learning, w) /\ learning'[w] = {}
       /\ Only(offered', offered, w) /\ offered'[w] = offered[w]
  <2>1. learning' = learning /\ offered' = offered
    BY <1>5
  <2> QED BY <1>6, <2>1, OnlySame DEF WrappersKnow
<1>11. Attributed(calls'[w], owed'[w])
  <2>1. Len(calls[w]) < MaxTracked
    BY DEF NoneEvicted
  <2>2. Rekeyed(Remember(w, id, call), calls[w], id, {Entry(id, call)})
    BY <1>6, <1>8, <2>1, RememberIs
  <2>3. Rekeyed(calls'[w], calls[w], o.id, {Entry(o.id, o)})
    BY <1>8, <1>9, <2>2
  <2>4. \A p \in owed[w] : p.id # o.id
    BY <1>5, <1>8
  <2>5. Attributed(calls'[w], owed[w] \cup {o})
    BY <1>6, <1>8, <2>3, <2>4, CallIsAttributed
  <2> QED BY <1>9, <2>5
<1>12. /\ Tracked(listings'[w], cursors'[w], learning'[w], owed'[w], offered'[w])
       /\ Only(listings', listings, w) /\ Only(cursors', cursors, w)
  <2>1. CASE cursor = NoCursor
    <3>1. listings' = [listings EXCEPT ![w] = [listings[w] EXCEPT ![l] = {}]] /\ cursors' = cursors
      BY <1>5, <2>1
    <3>2. /\ Only(listings', listings, w) /\ listings'[w] = [listings[w] EXCEPT ![l] = {}]
          /\ Only(cursors', cursors, w) /\ cursors'[w] = cursors[w]
      BY <3>1, OnlyReplaced, OnlySame DEF WrappersKnow
    <3>3. Tracked(listings'[w], cursors[w], {}, owed[w] \cup {o}, offered[w])
      BY <1>3, <1>6, <1>7, <1>8, <2>1, <3>2, ListingOpens
    <3> QED BY <1>9, <1>10, <3>2, <3>3
  <2>2. CASE cursor # NoCursor
    <3>1. cursors' = [cursors EXCEPT ![w] = [cursors[w] EXCEPT ![cursor] = 0]] /\ listings' = listings
      BY <1>5, <2>2
    <3>2. /\ Only(cursors', cursors, w) /\ cursors'[w] = [cursors[w] EXCEPT ![cursor] = 0]
          /\ Only(listings', listings, w) /\ listings'[w] = listings[w]
      BY <3>1, OnlyReplaced, OnlySame DEF WrappersKnow
    <3>3. cursor \in Cursors /\ cursors[w][cursor] # 0 /\ o.sofar = offered[w][cursor]
      BY <1>3, <1>5, <1>7, <1>8, <2>2
    <3>4. Tracked(listings[w], cursors'[w], {}, owed[w] \cup {o}, offered[w])
      BY <1>6, <1>7, <1>8, <2>2, <3>2, <3>3, ListingGoesOn
    <3> QED BY <1>9, <1>10, <3>2, <3>4
  <2> QED BY <2>1, <2>2
<1>13. Alone(w)
  BY <1>5, <1>9, <1>12, <1>10 DEF Alone
<1> QED BY <1>11, <1>12, <1>13, AloneKnows

\* Setting an entry and deleting it again.
LEMMA RekeyedBack ==
    ASSUME NEW cs, NEW mid, NEW new, NEW id, NEW e, e.id = id,
           Rekeyed(mid, cs, id, {e}), Rekeyed(new, mid, id, {})
    PROVE  Rekeyed(new, cs, id, {})
  BY DEF Rekeyed

LEMMA DiscardOf ==
    ASSUME WrappersKnow, NEW w \in Wrappers, NEW l, Discard(w, l)
    PROVE  /\ Only(listings', listings, w) /\ listings'[w] = Shut(listings[w], l)
           /\ Only(cursors', cursors, w) /\ cursors'[w] = Unlinked(cursors[w], l)
<1>1. PICK ls : ls = Shut(listings[w], l)
  OBVIOUS
<1>2. PICK cu : cu = Unlinked(cursors[w], l)
  OBVIOUS
<1>3. listings' = [listings EXCEPT ![w] = ls]
  BY <1>1 DEF Discard, Shut
<1>4. cursors' = [cursors EXCEPT ![w] = cu]
  BY <1>2 DEF Discard, Unlinked
<1>5. Only(listings', listings, w) /\ listings'[w] = ls
  BY <1>3, OnlyReplaced DEF WrappersKnow
<1>6. Only(cursors', cursors, w) /\ cursors'[w] = cu
  BY <1>4, OnlyReplaced DEF WrappersKnow
<1> QED BY <1>1, <1>2, <1>5, <1>6

LEMMA ClientListRefusedKnows ==
    ASSUME WrappersKnow, NoneEvicted, NEW w \in Wrappers, NEW id \in ClientIds,
           NEW cursor \in Cursors \cup {NoCursor}, ClientListRefused(w, id, cursor)
    PROVE  WrappersKnow'
<1>1. PICK l : l = ListingFor(w, cursor)
  OBVIOUS
<1>2. PICK call : call = [method |-> "list", listing |-> l]
  OBVIOUS
<1>3. /\ Ready(w) /\ \A p \in owed[w] : p.id # id
      /\ calls' = [calls EXCEPT ![w] = Without(Remember(w, id, call), id)]
      /\ IF l # 0 THEN Discard(w, l) ELSE listings' = listings /\ cursors' = cursors
      /\ setup' = setup /\ learning' = learning /\ owed' = owed /\ offered' = offered
  BY <1>1, <1>2 DEF ClientListRefused, Sends, clientVars
<1>4. /\ Attributed(calls[w], owed[w]) /\ Tracked(listings[w], cursors[w], {}, owed[w], offered[w])
      /\ calls[w] \in Seq(CallSet) /\ OnePerId(calls[w]) /\ learning[w] = {}
  BY <1>3, ReadyFacts
<1>5. l # 0 => /\ l \in ListingIds /\ (cursor = NoCursor => listings[w][l] = None)
               /\ cursor # NoCursor => l = cursors[w][cursor]
  BY <1>1, <1>3, ListingForIs
<1>6. Entry(id, call) \in CallSet /\ Entry(id, call).id = id
  BY <1>2, <1>5 DEF Entry, CallSet
<1>7. /\ Only(calls', calls, w) /\ calls'[w] = Without(Remember(w, id, call), id)
  BY <1>3, OnlyReplaced DEF WrappersKnow
<1>8. /\ Only(learning', learning, w) /\ learning'[w] = {}
      /\ Only(offered', offered, w) /\ offered'[w] = offered[w]
      /\ Only(owed', owed, w) /\ owed'[w] = owed[w]
  <2>1. learning' = learning /\ offered' = offered /\ owed' = owed
    BY <1>3
  <2> QED BY <1>4, <2>1, OnlySame DEF WrappersKnow
<1>9. Attributed(calls'[w], owed'[w])
  <2>1. PICK mid : mid = Remember(w, id, call)
    OBVIOUS
  <2>2. Rekeyed(mid, calls[w], id, {Entry(id, call)})
    BY <1>4, <1>6, <2>1, RememberIs DEF NoneEvicted
  <2>3. Rekeyed(Without(mid, id), mid, id, {})
    BY <2>2, WithoutIs DEF Rekeyed
  <2>4. Rekeyed(Without(mid, id), calls[w], id, {})
    BY <1>6, <2>2, <2>3, RekeyedBack
  <2>5. Attributed(Without(mid, id), owed[w])
    BY <1>3, <1>4, <2>4, OtherIsAttributed
  <2> QED BY <1>7, <1>8, <2>1, <2>5
<1>10. /\ Tracked(listings'[w], cursors'[w], learning'[w], owed'[w], offered'[w])
       /\ Only(listings', listings, w) /\ Only(cursors', cursors, w)
  <2>1. CASE l = 0
    <3>1. listings' = listings /\ cursors' = cursors
      BY <1>3, <2>1
    <3>2. /\ Only(listings', listings, w) /\ listings'[w] = listings[w]
          /\ Only(cursors', cursors, w) /\ cursors'[w] = cursors[w]
      BY <3>1, OnlySame DEF WrappersKnow
    <3> QED BY <1>4, <1>8, <3>2
  <2>2. CASE l # 0
    <3>1. /\ Only(listings', listings, w) /\ listings'[w] = Shut(listings[w], l)
          /\ Only(cursors', cursors, w) /\ cursors'[w] = Unlinked(cursors[w], l)
      BY <1>3, <2>2, DiscardOf
    <3>2. ASSUME NEW o \in owed[w] PROVE o.listing # l
      <4>1. CASE cursor = NoCursor
        <5> SUFFICES ASSUME o.listing = l PROVE FALSE
          OBVIOUS
        <5>1. o \in OwedSet /\ listings[w][l] = o.sofar
          BY <1>4, <2>2 DEF Tracked, PagesAreKnown
        <5>2. o.sofar \in Inventories
          BY <5>1 DEF OwedSet
        <5> QED BY <1>5, <2>2, <4>1, <5>1, <5>2, ListingFacts
      <4>2. CASE cursor # NoCursor
        BY <1>4, <1>5, <2>2, <4>2 DEF Tracked, OneWayOn
      <4> QED BY <4>1, <4>2
    <3>3. Tracked(Shut(listings[w], l), Unlinked(cursors[w], l), {}, owed[w], offered[w])
      BY <1>4, <1>5, <2>2, <3>2, GivingUpIsTracked
    <3> QED BY <1>8, <3>1, <3>3
  <2> QED BY <2>1, <2>2
<1>11. Alone(w)
  BY <1>3, <1>7, <1>8, <1>10 DEF Alone
<1> QED BY <1>9, <1>10, <1>11, AloneKnows

LEMMA ClientCallKnows ==
    ASSUME WrappersKnow, NoneEvicted, NEW w \in Wrappers, NEW id \in ClientIds,
           NEW verdict, ClientCall(w, id, verdict)
    PROVE  WrappersKnow'
<1>1. PICK call : call = [method |-> "call", listing |-> 0]
  OBVIOUS
<1>2. PICK o : o = [id |-> id, method |-> "call", listing |-> 0, sofar |-> {}]
  OBVIOUS
<1>3. /\ Ready(w) /\ \A p \in owed[w] : p.id # id
      /\ setup' = setup /\ learning' = learning /\ offered' = offered
      /\ listings' = listings /\ cursors' = cursors
  BY DEF ClientCall, Sends
<1>4. /\ Attributed(calls[w], owed[w]) /\ Tracked(listings[w], cursors[w], {}, owed[w], offered[w])
      /\ calls[w] \in Seq(CallSet) /\ OnePerId(calls[w]) /\ learning[w] = {}
  BY <1>3, ReadyFacts
<1>5. /\ Only(learning', learning, w) /\ learning'[w] = {}
      /\ Only(offered', offered, w) /\ offered'[w] = offered[w]
      /\ Only(listings', listings, w) /\ listings'[w] = listings[w]
      /\ Only(cursors', cursors, w) /\ cursors'[w] = cursors[w]
  BY <1>3, <1>4, OnlySame DEF WrappersKnow
<1>6. o \in OwedSet /\ Entry(id, call) = Entry(o.id, o) /\ Entry(id, call) \in CallSet
      /\ o.id = id /\ o.method = "call" /\ o.listing = 0 /\ Entry(id, call).id = id
  BY <1>1, <1>2, ListingFacts DEF OwedSet, Entry, CallSet
<1>7. PICK mid : mid = Remember(w, id, call)
  OBVIOUS
<1>8. Rekeyed(mid, calls[w], id, {Entry(id, call)})
  BY <1>4, <1>6, <1>7, RememberIs DEF NoneEvicted
<1>9. CASE verdict = "pass" /\ calls' = [calls EXCEPT ![w] = mid]
           /\ owed' = [owed EXCEPT ![w] = @ \cup {o}]
  <2>1. /\ Only(calls', calls, w) /\ calls'[w] = mid
        /\ Only(owed', owed, w) /\ owed'[w] = owed[w] \cup {o}
    BY <1>9, OnlyReplaced DEF WrappersKnow
  <2>2. Rekeyed(mid, calls[w], o.id, {Entry(o.id, o)})
    BY <1>6, <1>8
  <2>3. \A p \in owed[w] : p.id # o.id
    BY <1>3, <1>6
  <2>4. Attributed(mid, owed[w] \cup {o})
    BY <1>4, <1>6, <2>2, <2>3, CallIsAttributed
  <2>5. Tracked(listings[w], cursors[w], {}, owed[w] \cup {o}, offered[w])
    BY <1>4, <1>6, CallIsTracked
  <2>6. Alone(w)
    BY <1>3, <1>5, <2>1 DEF Alone
  <2> QED BY <1>5, <2>1, <2>4, <2>5, <2>6, AloneKnows
<1>10. CASE verdict = "refuse" /\ calls' = [calls EXCEPT ![w] = Without(mid, id)] /\ owed' = owed
  <2>1. /\ Only(calls', calls, w) /\ calls'[w] = Without(mid, id)
        /\ Only(owed', owed, w) /\ owed'[w] = owed[w]
    BY <1>10, OnlyReplaced, OnlySame DEF WrappersKnow
  <2>2. Rekeyed(Without(mid, id), mid, id, {})
    BY <1>8, WithoutIs DEF Rekeyed
  <2>3. Rekeyed(Without(mid, id), calls[w], id, {})
    BY <1>6, <1>8, <2>2, RekeyedBack
  <2>4. Attributed(Without(mid, id), owed[w])
    BY <1>3, <1>4, <2>3, OtherIsAttributed
  <2>5. Alone(w)
    BY <1>3, <1>5, <2>1 DEF Alone
  <2> QED BY <1>4, <1>5, <2>1, <2>4, <2>5, AloneKnows
<1>11. \/ verdict = "pass" /\ calls' = [calls EXCEPT ![w] = mid]
          /\ owed' = [owed EXCEPT ![w] = @ \cup {o}]
       \/ verdict = "refuse" /\ calls' = [calls EXCEPT ![w] = Without(mid, id)] /\ owed' = owed
  BY <1>1, <1>2, <1>7 DEF ClientCall
<1> QED BY <1>9, <1>10, <1>11

\* An id of the server is that of no call of the client.
LEMMA ServersId ==
    ASSUME IdsApart, NEW cs, NEW ow, Attributed(cs, ow), NEW id \in ServerIds
    PROVE  /\ \A p \in ow : p.id # id
           /\ \A e \in EntriesOf(cs) : e.id = id => e.listing = 0
<1>1. \A p \in ow : p.id \in ClientIds
  BY DEF Attributed, OwedSet
<1>2. \A p \in ow : p.id # id
  BY <1>1 DEF IdsApart
<1>3. \A p \in ow : Entry(p.id, p).id = p.id
  BY DEF Entry
<1> QED BY <1>2, <1>3 DEF Attributed

LEMMA ClientReplyKnows ==
    ASSUME WrappersKnow, IdsApart, NEW w \in Wrappers, NEW id \in ServerIds,
           NEW verdict, ClientReply(w, id, verdict)
    PROVE  WrappersKnow'
<1>1. PICK l : l = Recall(w, id).listing
  OBVIOUS
<1>2. /\ Ready(w) /\ calls' = [calls EXCEPT ![w] = Without(calls[w], id)]
      /\ IF verdict = "refuse" THEN Discard(w, l) ELSE listings' = listings /\ cursors' = cursors
      /\ setup' = setup /\ learning' = learning /\ offered' = offered /\ owed' = owed
  BY <1>1 DEF ClientReply, clientVars
<1>3. /\ Attributed(calls[w], owed[w]) /\ Tracked(listings[w], cursors[w], {}, owed[w], offered[w])
      /\ calls[w] \in Seq(CallSet) /\ OnePerId(calls[w]) /\ learning[w] = {}
  BY <1>2, ReadyFacts
<1>4. /\ \A p \in owed[w] : p.id # id
      /\ \A e \in EntriesOf(calls[w]) : e.id = id => e.listing = 0
  BY <1>3, ServersId
<1>5. l = 0
  BY <1>1, <1>4, RecallNothing
<1>6. /\ Only(calls', calls, w) /\ calls'[w] = Without(calls[w], id)
  BY <1>2, OnlyReplaced DEF WrappersKnow
<1>7. /\ Only(learning', learning, w) /\ learning'[w] = {}
      /\ Only(offered', offered, w) /\ offered'[w] = offered[w]
      /\ Only(owed', owed, w) /\ owed'[w] = owed[w]
  <2>1. learning' = learning /\ offered' = offered /\ owed' = owed
    BY <1>2
  <2> QED BY <1>3, <2>1, OnlySame DEF WrappersKnow
<1>8. /\ Only(listings', listings, w) /\ listings'[w] = listings[w]
      /\ Only(cursors', cursors, w) /\ cursors'[w] = cursors[w]
  <2>1. CASE Discard(w, l)
    <3>1. /\ Only(listings', listings, w) /\ listings'[w] = Shut(listings[w], 0)
          /\ Only(cursors', cursors, w) /\ cursors'[w] = Unlinked(cursors[w], 0)
      BY <1>5, <2>1, DiscardOf
    <3>2. Shut(listings[w], 0) = listings[w] /\ Unlinked(cursors[w], 0) = cursors[w]
      BY <1>3, DiscardNothing DEF Tracked
    <3> QED BY <3>1, <3>2
  <2>2. CASE listings' = listings /\ cursors' = cursors
    BY <2>2, OnlySame DEF WrappersKnow
  <2> QED BY <1>2, <2>1, <2>2
<1>9. Attributed(calls'[w], owed'[w])
  <2>1. Rekeyed(Without(calls[w], id), calls[w], id, {})
    BY <1>3, WithoutIs
  <2>2. Attributed(Without(calls[w], id), owed[w])
    BY <1>3, <1>4, <2>1, OtherIsAttributed
  <2> QED BY <1>6, <1>7, <2>2
<1>10. Alone(w)
  BY <1>2, <1>6, <1>7, <1>8 DEF Alone
<1> QED BY <1>3, <1>7, <1>8, <1>9, <1>10, AloneKnows

LEMMA ServerRequestKnows ==
    ASSUME WrappersKnow, IdsApart, NoneEvicted, NEW w \in Wrappers, NEW id \in ServerIds,
           NEW verdict, ServerRequest(w, id, verdict)
    PROVE  WrappersKnow'
<1>1. PICK call : call = [method |-> "ask", listing |-> 0]
  OBVIOUS
<1>2. /\ Ready(w) /\ calls' = [calls EXCEPT ![w] = Remember(w, id, call)]
      /\ listings' = listings /\ cursors' = cursors
      /\ setup' = setup /\ learning' = learning /\ offered' = offered /\ owed' = owed
  BY <1>1 DEF ServerRequest, clientVars
<1>3. /\ Attributed(calls[w], owed[w]) /\ Tracked(listings[w], cursors[w], {}, owed[w], offered[w])
      /\ calls[w] \in Seq(CallSet) /\ OnePerId(calls[w]) /\ learning[w] = {}
  BY <1>2, ReadyFacts
<1>4. \A p \in owed[w] : p.id # id
  BY <1>3, ServersId
<1>5. Entry(id, call) \in CallSet /\ Entry(id, call).listing = 0
  BY <1>1 DEF Entry, CallSet
<1>6. /\ Only(calls', calls, w) /\ calls'[w] = Remember(w, id, call)
  BY <1>2, OnlyReplaced DEF WrappersKnow
<1>7. /\ Only(learning', learning, w) /\ learning'[w] = {}
      /\ Only(offered', offered, w) /\ offered'[w] = offered[w]
      /\ Only(owed', owed, w) /\ owed'[w] = owed[w]
      /\ Only(listings', listings, w) /\ listings'[w] = listings[w]
      /\ Only(cursors', cursors, w) /\ cursors'[w] = cursors[w]
  BY <1>2, <1>3, OnlySame DEF WrappersKnow
<1>8. Attributed(calls'[w], owed'[w])
  <2>1. Len(calls[w]) < MaxTracked
    BY DEF NoneEvicted
  <2>2. Rekeyed(Remember(w, id, call), calls[w], id, {Entry(id, call)})
    BY <1>3, <1>5, <2>1, RememberIs
  <2>3. PICK add : add = {Entry(id, call)}
    OBVIOUS
  <2>4. \A e \in add : e.listing = 0
    BY <1>5, <2>3
  <2>5. Rekeyed(calls'[w], calls[w], id, add)
    BY <1>6, <2>2, <2>3
  <2>6. Attributed(calls'[w], owed[w])
    BY <1>3, <1>4, <2>4, <2>5, OtherIsAttributed
  <2> QED BY <1>7, <2>6
<1>9. Alone(w)
  BY <1>2, <1>6, <1>7 DEF Alone
<1> QED BY <1>3, <1>7, <1>8, <1>9, AloneKnows

\* A call is answered without an inventory going out: refused, or none in it.
LEMMA EndsKnow ==
    ASSUME WrappersKnow, NEW w \in Wrappers, NEW o \in owed[w], Ready(w),
           calls' = [calls EXCEPT ![w] = Without(calls[w], o.id)],
           Discard(w, Recall(w, o.id).listing),
           owed' = [owed EXCEPT ![w] = @ \ {o}],
           UNCHANGED <<setup, learning, offered>>
    PROVE  WrappersKnow'
<1>1. /\ Attributed(calls[w], owed[w]) /\ Tracked(listings[w], cursors[w], {}, owed[w], offered[w])
      /\ calls[w] \in Seq(CallSet) /\ OnePerId(calls[w]) /\ learning[w] = {}
  BY ReadyFacts
<1>2. Recall(w, o.id).listing = o.listing
  <2>1. Recall(w, o.id) = [method |-> o.method, listing |-> o.listing]
    BY OwedIsRecalled
  <2> QED BY <2>1
<1>3. Discard(w, o.listing)
  BY <1>2
<1>4. /\ Only(listings', listings, w) /\ listings'[w] = Shut(listings[w], o.listing)
      /\ Only(cursors', cursors, w) /\ cursors'[w] = Unlinked(cursors[w], o.listing)
  BY <1>3, DiscardOf
<1>5. /\ Only(calls', calls, w) /\ calls'[w] = Without(calls[w], o.id)
      /\ Only(owed', owed, w) /\ owed'[w] = owed[w] \ {o}
  BY OnlyReplaced DEF WrappersKnow
<1>6. /\ Only(learning', learning, w) /\ learning'[w] = {}
      /\ Only(offered', offered, w) /\ offered'[w] = offered[w]
  <2>1. learning' = learning /\ offered' = offered
    OBVIOUS
  <2> QED BY <1>1, <2>1, OnlySame DEF WrappersKnow
<1>7. Attributed(calls'[w], owed'[w])
  <2>1. Rekeyed(Without(calls[w], o.id), calls[w], o.id, {})
    BY <1>1, WithoutIs
  <2>2. Attributed(Without(calls[w], o.id), owed[w] \ {o})
    BY <1>1, <2>1, AnswerIsAttributed
  <2> QED BY <1>5, <2>2
<1>8. Tracked(Shut(listings[w], o.listing), Unlinked(cursors[w], o.listing), {}, owed[w] \ {o}, offered[w])
  BY <1>1, AnswerIsTracked
<1>9. Alone(w)
  BY <1>4, <1>5, <1>6 DEF Alone
<1> QED BY <1>4, <1>5, <1>6, <1>7, <1>8, <1>9, AloneKnows

LEMMA OverlayType ==
    ASSUME NEW tools \in Inventories, NEW page \in Pages
    PROVE  page.tools \in Inventories /\ Overlay(tools, page.tools) \in Inventories
<1>1. page.tools \subseteq Tools /\ OncePerName(page.tools)
  BY McpAssumption DEF Tools
<1>2. Overlay(tools, page.tools) \subseteq Tools
  BY <1>1 DEF Overlay, Inventories
<1>3. OncePerName(Overlay(tools, page.tools))
  BY <1>1 DEF Overlay, OncePerName, Inventories
<1> QED BY <1>1, <1>2, <1>3 DEF Inventories

\* An answer to tools/list is judged as a page of the listing its client reads.
LEMMA PageFacts ==
    ASSUME WrappersKnow, NEW w \in Wrappers, NEW o \in owed[w], o.method = "list", Ready(w),
           NEW call, call = Recall(w, o.id), NEW page \in Pages
    PROVE  /\ call = [method |-> "list", listing |-> o.listing] /\ Active(w, call)
           /\ o.listing \in ListingIds /\ listings[w][o.listing] = o.sofar /\ o.sofar \in Inventories
           /\ Candidate(w, call, page) = Overlay(o.sofar, page.tools)
           /\ Whole(w, call, page) <=> page.next = NoCursor
<1>1. call = [method |-> "list", listing |-> o.listing]
  BY OwedIsRecalled
<1>2. o.listing \in ListingIds /\ listings[w][o.listing] = o.sofar /\ o.sofar \in Inventories
  BY ReadyFacts DEF Tracked, PagesAreKnown, OwedSet
<1>3. Active(w, call)
  BY <1>1, <1>2, ListingFacts DEF Active, Open
<1> QED BY <1>1, <1>2, <1>3 DEF Candidate, Whole

\* Of a whole inventory that does not drift, nothing differs from the baseline.
LEMMA NoDrift ==
    ASSUME NEW baseline \in Inventories, NEW tools, ~InventoryDrift(baseline, tools, TRUE)
    PROVE  tools = baseline
<1>1. tools \subseteq baseline /\ \A t \in baseline : \E u \in tools : u.name = t.name
  BY DEF InventoryDrift
<1>2. \A t \in baseline : t \in tools
  BY <1>1 DEF Inventories, OncePerName
<1> QED BY <1>1, <1>2

\* What Deliver does with a page of a listing that is known.
LEMMA DeliverIs ==
    ASSUME NEW w, NEW o, NEW call, NEW page, Active(w, call), Deliver(w, o, call, page)
    PROVE  IF page.next = NoCursor
             THEN /\ complete' = [complete EXCEPT ![w] = @ \cup {Overlay(o.sofar, page.tools)}]
                  /\ approved' = [approved EXCEPT ![w] = Overlay(listings[w][call.listing], page.tools)]
                  /\ Discard(w, call.listing) /\ offered' = offered
             ELSE /\ offered' = [offered EXCEPT ![w][page.next] = Overlay(o.sofar, page.tools)]
                  /\ listings' = [listings EXCEPT ![w][call.listing] =
                                    Overlay(listings[w][call.listing], page.tools)]
                  /\ cursors' = [cursors EXCEPT ![w][page.next] = call.listing]
                  /\ complete' = complete /\ approved' = approved
  BY DEF Deliver

LEMMA ServerPageKnows ==
    ASSUME WrappersKnow, NEW w \in Wrappers, NEW o \in owed[w], NEW page \in Pages,
           ServerPage(w, o, page)
    PROVE  WrappersKnow'
<1>1. PICK call : call = Recall(w, o.id)
  OBVIOUS
<1>2. /\ Ready(w) /\ o.method = "list" /\ ~InventoryRefused(w, call, page)
      /\ calls' = [calls EXCEPT ![w] = Without(calls[w], o.id)]
      /\ owed' = [owed EXCEPT ![w] = @ \ {o}]
      /\ setup' = setup
      /\ IF Learns(w, call, page)
           THEN /\ learning' = [learning EXCEPT ![w] = {[o |-> o, call |-> call, page |-> page]}]
                /\ listings' = listings /\ cursors' = cursors /\ offered' = offered
           ELSE Deliver(w, o, call, page) /\ learning' = learning
  BY <1>1 DEF ServerPage
<1>3. /\ Attributed(calls[w], owed[w]) /\ Tracked(listings[w], cursors[w], {}, owed[w], offered[w])
      /\ calls[w] \in Seq(CallSet) /\ OnePerId(calls[w]) /\ learning[w] = {}
  BY <1>2, ReadyFacts
<1>4. /\ call = [method |-> "list", listing |-> o.listing] /\ Active(w, call)
      /\ o.listing \in ListingIds /\ listings[w][o.listing] = o.sofar /\ o.sofar \in Inventories
      /\ Whole(w, call, page) <=> page.next = NoCursor
  BY <1>1, <1>2, PageFacts
<1>5. /\ Only(calls', calls, w) /\ calls'[w] = Without(calls[w], o.id)
      /\ Only(owed', owed, w) /\ owed'[w] = owed[w] \ {o}
  BY <1>2, OnlyReplaced DEF WrappersKnow
<1>6. Attributed(calls'[w], owed'[w])
  <2>1. Rekeyed(Without(calls[w], o.id), calls[w], o.id, {})
    BY <1>3, WithoutIs
  <2>2. Attributed(Without(calls[w], o.id), owed[w] \ {o})
    BY <1>3, <2>1, AnswerIsAttributed
  <2> QED BY <1>5, <2>2
<1>7. CASE Learns(w, call, page)
  <2>1. page.next = NoCursor
    BY <1>4, <1>7 DEF Learns
  <2>2. PICK x : x = [o |-> o, call |-> call, page |-> page]
    OBVIOUS
  <2>3. learning' = [learning EXCEPT ![w] = {x}]
    BY <1>2, <1>7, <2>2
  <2>4. Only(learning', learning, w) /\ learning'[w] = {x}
    BY <2>3, OnlyReplaced DEF WrappersKnow
  <2>5. listings' = listings /\ cursors' = cursors /\ offered' = offered
    BY <1>2, <1>7
  <2>6. /\ Only(offered', offered, w) /\ offered'[w] = offered[w]
        /\ Only(listings', listings, w) /\ listings'[w] = listings[w]
        /\ Only(cursors', cursors, w) /\ cursors'[w] = cursors[w]
    BY <2>5, OnlySame DEF WrappersKnow
  <2>7. Tracked(listings[w], cursors[w], {x}, owed[w] \ {o}, offered[w])
    BY <1>2, <1>3, <1>4, <2>1, <2>2, WaitingIsTracked
  <2>8. Alone(w)
    BY <1>2, <1>5, <2>4, <2>6 DEF Alone
  <2> QED BY <1>5, <1>6, <2>4, <2>6, <2>7, <2>8, AloneKnows
<1>8. CASE ~Learns(w, call, page)
  <2>1. Deliver(w, o, call, page) /\ learning' = learning
    BY <1>2, <1>8
  <2>2. Only(learning', learning, w) /\ learning'[w] = {}
    BY <1>3, <2>1, OnlySame DEF WrappersKnow
  <2>3. call.listing = o.listing
    BY <1>4
  <2>4. CASE page.next = NoCursor
    <3>1. Discard(w, o.listing) /\ offered' = offered
      BY <1>4, <2>1, <2>3, <2>4, DeliverIs
    <3>2. Only(offered', offered, w) /\ offered'[w] = offered[w]
      BY <3>1, OnlySame DEF WrappersKnow
    <3>3. /\ Only(listings', listings, w) /\ listings'[w] = Shut(listings[w], o.listing)
          /\ Only(cursors', cursors, w) /\ cursors'[w] = Unlinked(cursors[w], o.listing)
      BY <3>1, DiscardOf
    <3>4. Tracked(Shut(listings[w], o.listing), Unlinked(cursors[w], o.listing), {}, owed[w] \ {o}, offered[w])
      BY <1>3, AnswerIsTracked
    <3>5. Alone(w)
      BY <1>2, <1>5, <2>2, <3>2, <3>3 DEF Alone
    <3> QED BY <1>5, <1>6, <2>2, <3>2, <3>3, <3>4, <3>5, AloneKnows
  <2>5. CASE page.next # NoCursor
    <3>1. PICK read \in Inventories : read = Overlay(o.sofar, page.tools)
      BY <1>4, OverlayType
    <3>2. /\ offered' = [offered EXCEPT ![w] = [offered[w] EXCEPT ![page.next] = read]]
          /\ listings' = [listings EXCEPT ![w] = [listings[w] EXCEPT ![o.listing] = read]]
          /\ cursors' = [cursors EXCEPT ![w] = [cursors[w] EXCEPT ![page.next] = o.listing]]
      BY <1>4, <2>1, <2>3, <2>5, <3>1, DeliverIs
    <3>3. /\ Only(offered', offered, w) /\ offered'[w] = [offered[w] EXCEPT ![page.next] = read]
          /\ Only(listings', listings, w) /\ listings'[w] = [listings[w] EXCEPT ![o.listing] = read]
          /\ Only(cursors', cursors, w) /\ cursors'[w] = [cursors[w] EXCEPT ![page.next] = o.listing]
      BY <3>2, OnlyReplaced DEF WrappersKnow
    <3>4. page.next \in Cursors /\ cursors[w][page.next] \in {0, o.listing}
      <4>1. ~Errs(w, call, page)
        BY <1>2 DEF InventoryRefused
      <4>2. page.next \in Cursors
        BY <2>5, McpAssumption
      <4>3. call.method = "list"
        BY <1>4
      <4>4. cursors[w][page.next] \in {0, call.listing}
        BY <2>5, <4>1, <4>3 DEF Errs
      <4> QED BY <2>3, <4>2, <4>4
    <3>5. Tracked(listings'[w], cursors'[w], {}, owed[w] \ {o}, offered'[w])
      <4>1. PICK ls2, cu2, of2 : ls2 = listings'[w] /\ cu2 = cursors'[w] /\ of2 = offered'[w]
        OBVIOUS
      <4>2. PICK c \in Cursors : c = page.next /\ (cursors[w][c] = 0 \/ cursors[w][c] = o.listing)
        BY <3>4
      <4>3. ls2 = [listings[w] EXCEPT ![o.listing] = read]
        BY <3>3, <4>1
      <4>4. cu2 = [cursors[w] EXCEPT ![c] = o.listing]
        BY <3>3, <4>1, <4>2
      <4>5. of2 = [offered[w] EXCEPT ![c] = read]
        BY <3>3, <4>1, <4>2
      <4>6. Tracked(listings[w], cursors[w], {}, owed[w], offered[w]) /\ o.method = "list"
        BY <1>2, <1>3
      <4>7. PICK ls, cu, of, ow : ls = listings[w] /\ cu = cursors[w] /\ of = offered[w] /\ ow = owed[w]
        OBVIOUS
      <4>8. /\ Tracked(ls, cu, {}, ow, of) /\ o \in ow /\ (cu[c] = 0 \/ cu[c] = o.listing)
            /\ ls2 = [ls EXCEPT ![o.listing] = read] /\ cu2 = [cu EXCEPT ![c] = o.listing]
            /\ of2 = [of EXCEPT ![c] = read]
        BY <4>2, <4>3, <4>4, <4>5, <4>6, <4>7
      <4>9. Tracked(ls2, cu2, {}, ow \ {o}, of2)
        BY <4>6, <4>8, PageIsTracked
      <4> QED BY <4>1, <4>7, <4>9
    <3>6. Alone(w)
      BY <1>2, <1>5, <2>2, <3>3 DEF Alone
    <3> QED BY <1>5, <1>6, <2>2, <3>5, <3>6, AloneKnows
  <2> QED BY <2>4, <2>5
<1> QED BY <1>7, <1>8

\* The answer that waited was judged on the listing it still ends.
LEMMA WaitingFacts ==
    ASSUME WrappersKnow, NEW w \in Wrappers, NEW x \in learning[w]
    PROVE  /\ x.o \in OwedSet /\ x.page \in Pages /\ x.page.next = NoCursor
           /\ x.call.listing = x.o.listing /\ Active(w, x.call)
           /\ listings[w][x.o.listing] = x.o.sofar /\ x.o.sofar \in Inventories
           /\ Candidate(w, x.call, x.page) = Overlay(x.o.sofar, x.page.tools)
<1>1. /\ x.o \in OwedSet /\ x.o.method = "list" /\ x.o.listing \in ListingIds
      /\ x.call = [method |-> "list", listing |-> x.o.listing]
      /\ listings[w][x.o.listing] = x.o.sofar
      /\ x.page \in Pages /\ x.page.next = NoCursor
  BY DEF WrappersKnow, Tracked, PagesAreKnown
<1>2. x.o.sofar \in Inventories
  BY <1>1 DEF OwedSet
<1>3. Active(w, x.call)
  BY <1>1, <1>2, ListingFacts DEF Active, Open
<1> QED BY <1>1, <1>2, <1>3 DEF Candidate

LEMMA FinishLearnKnows ==
    ASSUME WrappersKnow, NEW w \in Wrappers, FinishLearn(w)
    PROVE  WrappersKnow'
<1>1. PICK x \in learning[w] :
        /\ learning' = [learning EXCEPT ![w] = {}]
        /\ Deliver(w, x.o, x.call, x.page)
        /\ setup' = setup /\ calls' = calls /\ owed' = owed
  BY DEF FinishLearn
<1>2. /\ x.page.next = NoCursor /\ x.call.listing = x.o.listing /\ Active(w, x.call)
  BY WaitingFacts
<1>3. Discard(w, x.o.listing) /\ offered' = offered
  BY <1>1, <1>2, DeliverIs
<1>4. /\ Only(offered', offered, w) /\ offered'[w] = offered[w]
      /\ Only(calls', calls, w) /\ calls'[w] = calls[w]
      /\ Only(owed', owed, w) /\ owed'[w] = owed[w]
  BY <1>1, <1>3, OnlySame DEF WrappersKnow
<1>5. Only(learning', learning, w) /\ learning'[w] = {}
  <2>1. learning' = [learning EXCEPT ![w] = {}]
    BY <1>1
  <2> QED BY <2>1, OnlyReplaced DEF WrappersKnow
<1>6. /\ Only(listings', listings, w) /\ listings'[w] = Shut(listings[w], x.o.listing)
      /\ Only(cursors', cursors, w) /\ cursors'[w] = Unlinked(cursors[w], x.o.listing)
  BY <1>3, DiscardOf
<1>7. /\ Attributed(calls[w], owed[w])
      /\ Tracked(listings[w], cursors[w], learning[w], owed[w], offered[w])
  BY DEF WrappersKnow
<1>8. Tracked(Shut(listings[w], x.o.listing), Unlinked(cursors[w], x.o.listing), {}, owed[w], offered[w])
  BY <1>7, WrittenIsTracked
<1>9. Alone(w)
  BY <1>1, <1>4, <1>5, <1>6 DEF Alone
<1> QED BY <1>4, <1>5, <1>6, <1>7, <1>8, <1>9, AloneKnows

-----------------------------------------------------------------------------
(* One inventory for a client, and whole ones in the file.                 *)

\* Whatever leaves these alone keeps what was read to the end.
LEMMA NothingRead ==
    ASSUME WrappersKnow, ReadToTheEnd, UNCHANGED <<setup, store, approved, complete>>,
           \A w \in Wrappers : learning'[w] = learning[w]
    PROVE  ReadToTheEnd'
  BY DEF ReadToTheEnd, LearnedIsWhole

LEMMA EditStoreReads ==
    ASSUME ReadToTheEnd, NEW content \in {None, Garbled}, EditStore(content)
    PROVE  ReadToTheEnd'
  BY DEF EditStore, ReadToTheEnd, LearnedIsWhole, wrapperVars, clientVars

\* The last page of an inventory that is judged without being learned.
LEMMA LastPageReads ==
    ASSUME WrappersKnow, ReadToTheEnd, NEW w \in Wrappers, NEW o \in owed[w], NEW page \in Pages,
           ServerPage(w, o, page), page.next = NoCursor, ~Learns(w, Recall(w, o.id), page)
    PROVE  ReadToTheEnd'
<1>1. PICK call : call = Recall(w, o.id)
  OBVIOUS
<1>2. /\ Ready(w) /\ o.method = "list" /\ ~InventoryRefused(w, call, page)
      /\ setup' = setup /\ store' = store
      /\ Deliver(w, o, call, page) /\ learning' = learning
  BY <1>1 DEF ServerPage
<1>3. /\ call = [method |-> "list", listing |-> o.listing] /\ Active(w, call)
      /\ listings[w][o.listing] = o.sofar /\ o.sofar \in Inventories
      /\ Candidate(w, call, page) = Overlay(o.sofar, page.tools)
      /\ Whole(w, call, page)
  BY <1>1, <1>2, PageFacts
<1>4. PICK read \in Inventories : read = Overlay(o.sofar, page.tools)
  BY <1>3, OverlayType
<1>5. call.listing = o.listing
  BY <1>3
<1>6. /\ complete' = [complete EXCEPT ![w] = @ \cup {read}]
      /\ approved' = [approved EXCEPT ![w] = read]
  BY <1>2, <1>3, <1>4, <1>5, DeliverIs
<1>7. /\ complete' \in [Wrappers -> SUBSET Inventories]
      /\ complete'[w] = complete[w] \cup {read}
      /\ \A v \in Wrappers : v # w => complete'[v] = complete[v]
      /\ approved' \in [Wrappers -> {None} \cup Inventories]
      /\ approved'[w] = read
      /\ \A v \in Wrappers : v # w => approved'[v] = approved[v]
  BY <1>6 DEF ReadToTheEnd
<1>8. ASSUME NEW baseline \in Inventories, Baseline(w) = baseline
      PROVE  read = baseline
  <2>1. baseline \notin {None, Garbled}
    BY ListingFacts
  <2>2. ~InventoryDrift(baseline, read, Whole(w, call, page))
    BY <1>2, <1>3, <1>4, <1>8, <2>1 DEF InventoryRefused
  <2>3. Whole(w, call, page) = TRUE
    BY <1>3 DEF Whole
  <2>4. ~InventoryDrift(baseline, read, TRUE)
    BY <1>3, <2>2 DEF InventoryDrift
  <2> QED BY <2>4, NoDrift
<1>9. setup.mode = "off" => complete'[w] \subseteq {approved'[w]}
  <2> SUFFICES ASSUME setup.mode = "off" PROVE complete'[w] \subseteq {read}
    BY <1>7
  <2>1. Baseline(w) = approved[w] /\ complete[w] \subseteq {approved[w]}
        /\ complete[w] \subseteq Inventories /\ approved[w] \in {None} \cup Inventories
    BY DEF Baseline, ReadToTheEnd
  <2>2. CASE approved[w] = None
    BY <1>7, <2>1, <2>2, ListingFacts
  <2>3. CASE approved[w] \in Inventories
    <3>1. read = approved[w]
      BY <1>8, <2>1, <2>3
    <3> QED BY <1>7, <2>1, <3>1
  <2> QED BY <2>1, <2>2, <2>3
<1>10. setup.mode = "lock" => complete'[w] \subseteq {setup.store}
  <2> SUFFICES ASSUME setup.mode = "lock" PROVE complete'[w] \subseteq {setup.store}
    OBVIOUS
  <2>1. /\ Baseline(w) = store /\ store \in {setup.store, None, Garbled}
        /\ store \in {None, Garbled} \cup Inventories /\ complete[w] \subseteq {setup.store}
    BY DEF Baseline, ReadToTheEnd
  <2>2. store \notin {None, Garbled}
    BY <1>2, <2>1 DEF InventoryRefused
  <2>3. read = store
    BY <1>8, <2>1, <2>2
  <2> QED BY <1>7, <2>1, <2>2, <2>3
<1>11. setup.mode = "off" => \A v \in Wrappers : complete'[v] \subseteq {approved'[v]}
  BY <1>7, <1>9 DEF ReadToTheEnd
<1>12. setup.mode = "lock" => \A v \in Wrappers : complete'[v] \subseteq {setup.store}
  BY <1>7, <1>10 DEF ReadToTheEnd
<1>13. \A v \in Wrappers : complete[v] \subseteq complete'[v]
  BY <1>7
<1>14. LearnedIsWhole'
  BY <1>2, <1>13 DEF ReadToTheEnd, LearnedIsWhole
<1> QED BY <1>2, <1>7, <1>11, <1>12, <1>14 DEF ReadToTheEnd

LEMMA ServerPageReads ==
    ASSUME WrappersKnow, ReadToTheEnd, NEW w \in Wrappers, NEW o \in owed[w], NEW page \in Pages,
           ServerPage(w, o, page)
    PROVE  ReadToTheEnd'
<1>1. PICK call : call = Recall(w, o.id)
  OBVIOUS
<1>2. CASE Learns(w, call, page)
  <2>1. setup.mode = "learn"
    BY <1>2 DEF Learns
  <2>2. setup' = setup /\ store' = store /\ approved' = approved /\ complete' = complete
    BY <1>1, <1>2 DEF ServerPage
  <2> QED BY <2>1, <2>2, McpAssumption DEF ReadToTheEnd, LearnedIsWhole
<1>3. CASE ~Learns(w, call, page) /\ page.next # NoCursor
  <2>1. Ready(w) /\ o.method = "list" /\ Deliver(w, o, call, page) /\ learning' = learning
        /\ setup' = setup /\ store' = store
    BY <1>1, <1>3 DEF ServerPage
  <2>2. Active(w, call)
    BY <1>1, <2>1, PageFacts
  <2>3. complete' = complete /\ approved' = approved
    BY <1>3, <2>1, <2>2, DeliverIs
  <2> QED BY <2>1, <2>3 DEF ReadToTheEnd, LearnedIsWhole
<1>4. CASE ~Learns(w, call, page) /\ page.next = NoCursor
  BY <1>1, <1>4, LastPageReads
<1> QED BY <1>2, <1>3, <1>4

\* What is written is what the client then reads to the end.
LEMMA FinishLearnReads ==
    ASSUME WrappersKnow, ReadToTheEnd, NEW w \in Wrappers, FinishLearn(w)
    PROVE  ReadToTheEnd'
<1>1. PICK x \in learning[w] :
        /\ store' \in {store, Candidate(w, x.call, x.page)}
        /\ learning' = [learning EXCEPT ![w] = {}]
        /\ Deliver(w, x.o, x.call, x.page)
        /\ setup' = setup
  BY DEF FinishLearn
<1>2. /\ x.page \in Pages /\ x.page.next = NoCursor /\ x.call.listing = x.o.listing
      /\ Active(w, x.call)
      /\ listings[w][x.o.listing] = x.o.sofar /\ x.o.sofar \in Inventories
      /\ Candidate(w, x.call, x.page) = Overlay(x.o.sofar, x.page.tools)
  BY WaitingFacts
<1>3. PICK read \in Inventories : read = Overlay(x.o.sofar, x.page.tools)
  BY <1>2, OverlayType
<1>4. /\ complete' = [complete EXCEPT ![w] = @ \cup {read}]
      /\ approved' = [approved EXCEPT ![w] = read]
  BY <1>1, <1>2, <1>3, DeliverIs
<1>5. /\ complete' \in [Wrappers -> SUBSET Inventories]
      /\ complete'[w] = complete[w] \cup {read}
      /\ \A v \in Wrappers : complete[v] \subseteq complete'[v]
      /\ approved' \in [Wrappers -> {None} \cup Inventories]
  BY <1>4 DEF ReadToTheEnd
<1>6. setup.mode = "learn"
  BY DEF ReadToTheEnd
<1>7. store' \in {store, read}
  BY <1>1, <1>2, <1>3
<1>8. store' \in (UNION {complete'[v] : v \in Wrappers}) \cup {setup.store, None, Garbled}
  <2>1. CASE store' = read
    BY <1>5, <2>1
  <2>2. CASE store' = store
    BY <1>5, <1>6, <2>2 DEF ReadToTheEnd, LearnedIsWhole
  <2> QED BY <1>7, <2>1, <2>2
<1>9. LearnedIsWhole' /\ store' \in {None, Garbled} \cup Inventories
  BY <1>1, <1>7, <1>8 DEF LearnedIsWhole, ReadToTheEnd
<1>10. setup'.mode = "learn"
  BY <1>1, <1>6
<1> QED BY <1>5, <1>9, <1>10 DEF ReadToTheEnd

-----------------------------------------------------------------------------
(* The theorems.                                                           *)

LEMMA InitSession == Init => SessionInv
<1> SUFFICES ASSUME Init PROVE SessionInv
  OBVIOUS
<1>1. /\ setup \in Setups /\ store = setup.store
      /\ \A w \in Wrappers :
           /\ calls[w] = <<>> /\ owed[w] = {} /\ learning[w] = {} /\ complete[w] = {}
           /\ approved[w] = None
           /\ listings[w] = [l \in ListingIds |-> None] /\ cursors[w] = [c \in Cursors |-> 0]
           /\ offered[w] = [c \in Cursors |-> None]
  BY DEF Init
<1>2. ASSUME NEW w \in Wrappers PROVE Attributed(calls[w], owed[w])
  <2>1. PICK cs : cs = calls[w]
    OBVIOUS
  <2>2. cs = <<>> /\ owed[w] = {}
    BY <1>1, <2>1
  <2>3. cs \in Seq(CallSet) /\ DOMAIN cs = {}
    BY <2>2
  <2>4. EntriesOf(cs) = {} /\ OnePerId(cs)
    BY <2>3 DEF EntriesOf, OnePerId
  <2> QED BY <2>1, <2>2, <2>3, <2>4 DEF Attributed
<1>3. ASSUME NEW w \in Wrappers
      PROVE  Tracked(listings[w], cursors[w], learning[w], owed[w], offered[w])
  BY <1>1 DEF Tracked, PagesAreKnown, OneWayOn
<1>4. WrappersKnow
  BY <1>1, <1>2, <1>3 DEF WrappersKnow, Init
<1>5. store \in {None, Garbled} \cup Inventories
  BY <1>1, McpAssumption
<1>6. ReadToTheEnd
  BY <1>1, <1>5 DEF ReadToTheEnd, LearnedIsWhole, Init
<1> QED BY <1>4, <1>6 DEF SessionInv

LEMMA StepSession ==
    ASSUME SessionInv, IdsApart, NoneEvicted, [Next]_vars
    PROVE  SessionInv'
<1>1. WrappersKnow /\ ReadToTheEnd
  BY DEF SessionInv
<1>2. ASSUME NEW w \in Wrappers, NEW id \in ClientIds, NEW cursor \in Cursors \cup {NoCursor},
             ClientList(w, id, cursor)
      PROVE  SessionInv'
  BY <1>1, <1>2, ClientListKnows, NothingRead DEF SessionInv, ClientList
<1>3. ASSUME NEW w \in Wrappers, NEW id \in ClientIds, NEW cursor \in Cursors \cup {NoCursor},
             ClientListRefused(w, id, cursor)
      PROVE  SessionInv'
  BY <1>1, <1>3, ClientListRefusedKnows, NothingRead DEF SessionInv, ClientListRefused, clientVars
<1>4. ASSUME NEW w \in Wrappers, NEW id \in ClientIds, NEW v \in Verdicts, ClientCall(w, id, v)
      PROVE  SessionInv'
  BY <1>1, <1>4, ClientCallKnows, NothingRead DEF SessionInv, ClientCall
<1>5. ASSUME NEW w \in Wrappers, NEW id \in ServerIds, NEW v \in Verdicts, ClientReply(w, id, v)
      PROVE  SessionInv'
  BY <1>1, <1>5, ClientReplyKnows, NothingRead DEF SessionInv, ClientReply, clientVars
<1>6. ASSUME NEW w \in Wrappers, NEW id \in ServerIds, NEW v \in Verdicts, ServerRequest(w, id, v)
      PROVE  SessionInv'
  BY <1>1, <1>6, ServerRequestKnows, NothingRead DEF SessionInv, ServerRequest, clientVars
<1>7. ASSUME NEW w \in Wrappers, NEW o \in owed[w], ServerEnds(w, o)
      PROVE  SessionInv'
  BY <1>1, <1>7, EndsKnow, NothingRead DEF SessionInv, ServerEnds
<1>8. ASSUME NEW w \in Wrappers, NEW o \in owed[w], NEW p \in Pages, ServerPage(w, o, p)
      PROVE  SessionInv'
  BY <1>1, <1>8, ServerPageKnows, ServerPageReads DEF SessionInv
<1>9. ASSUME NEW w \in Wrappers, NEW o \in owed[w], NEW p \in Pages, NEW v \in Verdicts,
             ServerPageRefused(w, o, p, v)
      PROVE  SessionInv'
  BY <1>1, <1>9, EndsKnow, NothingRead DEF SessionInv, ServerPageRefused
<1>10. ASSUME NEW w \in Wrappers, FinishLearn(w)
       PROVE  SessionInv'
  BY <1>1, <1>10, FinishLearnKnows, FinishLearnReads DEF SessionInv
<1>11. ASSUME NEW content \in {None, Garbled}, EditStore(content)
       PROVE  SessionInv'
  <2>1. UNCHANGED <<setup, calls, listings, cursors, learning, owed, offered>>
    BY <1>11 DEF EditStore, wrapperVars, clientVars
  <2>2. WrappersKnow'
    BY <1>1, <2>1 DEF WrappersKnow
  <2> QED BY <1>1, <1>11, <2>2, EditStoreReads DEF SessionInv
<1>12. CASE UNCHANGED vars
  <2>1. UNCHANGED <<setup, store, calls, listings, cursors, approved, learning, owed, offered, complete>>
    BY <1>12 DEF vars
  <2>2. WrappersKnow'
    BY <1>1, <2>1 DEF WrappersKnow
  <2> QED BY <1>1, <2>1, <2>2, NothingRead DEF SessionInv
<1> QED BY <1>2, <1>3, <1>4, <1>5, <1>6, <1>7, <1>8, <1>9, <1>10, <1>11, <1>12 DEF Next

\* What can end an open listing is one thing.
LEMMA OneWay ==
    ASSUME WrappersKnow, NEW w \in Wrappers, NEW l \in Open(w)
    PROVE  \E way \in Ways(w, l) : Ways(w, l) = {way}
<1>1. /\ PagesAreKnown(listings[w], cursors[w], learning[w], owed[w], offered[w])
      /\ OneWayOn(listings[w], cursors[w], learning[w], owed[w])
  BY DEF WrappersKnow, Tracked
<1>2. l \in ListingIds /\ l # 0 /\ listings[w][l] # None
  BY ListingFacts DEF Open
<1>3. ASSUME NEW y \in learning[w] PROVE y.call.listing = y.o.listing
  <2>1. y.call = [method |-> "list", listing |-> y.o.listing]
    BY <1>1 DEF PagesAreKnown
  <2> QED BY <2>1
<1>4. PICK asked : asked = {<<"call", o>> : o \in {p \in owed[w] : p.listing = l}}
  OBVIOUS
<1>5. PICK given : given = {<<"cursor", c>> : c \in {d \in Cursors : cursors[w][d] = l}}
  OBVIOUS
<1>6. PICK written : written = {<<"write", x>> : x \in {y \in learning[w] : y.call.listing = l}}
  OBVIOUS
<1>7. Ways(w, l) = asked \cup given \cup written
  BY <1>4, <1>5, <1>6 DEF Ways
<1>8. CASE \E o \in owed[w] : o.listing = l
  <2>1. PICK o \in owed[w] : o.listing = l
    BY <1>8
  <2>2. \A p \in owed[w] : p.listing = l => p = o
    BY <1>1, <1>2, <2>1 DEF OneWayOn
  <2>3. asked = {<<"call", o>>}
    BY <1>4, <2>1, <2>2
  <2>4. given = {} /\ written = {}
    BY <1>1, <1>2, <1>3, <1>5, <1>6, <2>1 DEF OneWayOn
  <2> QED BY <1>7, <2>3, <2>4
<1>9. CASE \E c \in Cursors : cursors[w][c] = l
  <2>1. PICK c \in Cursors : cursors[w][c] = l
    BY <1>9
  <2>2. \A d \in Cursors : cursors[w][d] = l => d = c
    BY <1>1, <1>2, <2>1 DEF OneWayOn
  <2>3. given = {<<"cursor", c>>}
    BY <1>5, <2>1, <2>2
  <2>4. asked = {} /\ written = {}
    BY <1>1, <1>2, <1>3, <1>4, <1>6, <2>1 DEF OneWayOn
  <2> QED BY <1>7, <2>3, <2>4
<1>10. CASE \E x \in learning[w] : x.o.listing = l
  <2>1. PICK x \in learning[w] : x.o.listing = l
    BY <1>10
  <2>2. \A y \in learning[w] : y = x
    BY <1>1 DEF OneWayOn
  <2>3. written = {<<"write", x>>}
    BY <1>3, <1>6, <2>1, <2>2
  <2>4. asked = {} /\ given = {}
    BY <1>1, <1>4, <1>5, <2>1 DEF OneWayOn
  <2> QED BY <1>7, <2>3, <2>4
<1> QED BY <1>1, <1>2, <1>8, <1>9, <1>10 DEF OneWayOn

LEMMA SessionImplies == SessionInv => WrapperIsInStep /\ LearnedIsWhole
<1> SUFFICES ASSUME SessionInv PROVE WrapperIsInStep /\ LearnedIsWhole
  OBVIOUS
<1>1. setup.wrappers \subseteq Wrappers
  BY DEF SessionInv, WrappersKnow, Wrappers
<1>2. WrapperKnowsClient
  <2> SUFFICES ASSUME NEW w \in Wrappers
               PROVE  /\ \A o \in owed[w] :
                           /\ Recall(w, o.id) = [method |-> o.method, listing |-> o.listing]
                           /\ o.method = "list" => listings[w][o.listing] = o.sofar
                      /\ \A c \in Cursors : cursors[w][c] # 0 =>
                           listings[w][cursors[w][c]] = offered[w][c]
    BY <1>1 DEF WrapperKnowsClient
  <2>1. PagesAreKnown(listings[w], cursors[w], learning[w], owed[w], offered[w])
    BY DEF SessionInv, WrappersKnow, Tracked
  <2> QED BY <2>1, OwedIsRecalled DEF SessionInv, PagesAreKnown
<1>3. OpenIsReachable
  BY <1>1, OneWay DEF OpenIsReachable, SessionInv
<1>4. OneInventory /\ LearnedIsWhole
  BY <1>1 DEF OneInventory, SessionInv, ReadToTheEnd
<1> QED BY <1>2, <1>3, <1>4 DEF WrapperIsInStep

\* As long as the map of calls in flight is not full and the two sides number
\* their requests apart, an answer is judged as the answer to its own call and on
\* top of the pages that its client has read; an open listing can be ended in
\* exactly one way; and a client reads one inventory to the end, in lock mode the
\* stored one (wrap.ts: classifyFrame, inventorySequences, cursorSequences;
\* gates.ts: gateToolInventory).
THEOREM SessionsStayInStep ==
    ASSUME IdsApart
    PROVE  Spec /\ []NoneEvicted => []WrapperIsInStep
<1>1. Init => SessionInv
  BY InitSession
<1>2. SessionInv /\ NoneEvicted /\ [Next]_vars => SessionInv'
  BY StepSession
<1>3. SessionInv => WrapperIsInStep
  BY SessionImplies
<1> QED BY <1>1, <1>2, <1>3, PTL DEF Spec

\* Under the same conditions the file that learn mode writes holds an inventory
\* that some client read to the end, however several wrappers and the operator
\* meet at it (gates.ts: pendingBaselineLearn; baseline.ts: write).
THEOREM OnlyWholeInventoriesAreLearned ==
    ASSUME IdsApart
    PROVE  Spec /\ []NoneEvicted => []LearnedIsWhole
<1>1. Init => SessionInv
  BY InitSession
<1>2. SessionInv /\ NoneEvicted /\ [Next]_vars => SessionInv'
  BY StepSession
<1>3. SessionInv => LearnedIsWhole
  BY SessionImplies
<1> QED BY <1>1, <1>2, <1>3, PTL DEF Spec

-----------------------------------------------------------------------------
(* McpHttp: what is said, and to whom.                                     *)

\* The requests a list of frames speaks of, each once.
IdSet(list) == {list[i].id : i \in DOMAIN list} \ {Null}
Once(list) == \A i, j \in DOMAIN list : list[i].id = list[j].id /\ list[i].id # Null => i = j
ListIds(list) == {list[i].id : i \in {j \in DOMAIN list : list[j].kind = "list"}}

Apart(ids) == \A i, j \in DOMAIN ids : ids[i] = ids[j] => i = j

LEMMA FrameFacts ==
    \A f \in Frames : /\ f.kind \in {"list", "call", "note"} /\ (f.id = Null <=> f.kind = "note")
                      /\ f.id \in Ids \cup {Null}
  BY HttpAssumption DEF Ids

LEMMA NoNull == Null \notin Ids
  BY DEF Ids

LEMMA BodyFacts ==
    ASSUME NEW u \in Runs, NEW x \in Exchanges, NEW b, b \in u.bodies[x] \cup {Get}
    PROVE  b.frames \in Seq(Frames) /\ Once(b.frames) /\ IdsOf(b) = IdSet(b.frames)
<1>1. CASE b \in u.bodies[x]
  BY <1>1, HttpAssumption DEF Once, IdsOf, IdSet
<1>2. CASE b = Get
  <2>1. b.frames = <<>>
    BY <1>2 DEF Get
  <2>2. b.frames \in Seq(Frames) /\ DOMAIN b.frames = {}
    BY <2>1
  <2> QED BY <2>2 DEF Once, IdsOf, IdSet
<1> QED BY <1>1, <1>2

\* Two lists that speak of different requests, one after the other.
LEMMA SayMore ==
    ASSUME NEW o \in Seq(Sent), NEW s \in Seq(Sent), Once(o), Once(s), IdSet(o) \cap IdSet(s) = {}
    PROVE  /\ o \o s \in Seq(Sent) /\ Once(o \o s) /\ IdSet(o \o s) = IdSet(o) \cup IdSet(s)
           /\ s # <<>> => o \o s # <<>> /\ Last(o \o s) = Last(s)
<1>1. PICK n \in Nat : n = Len(o) /\ DOMAIN o = 1..n
  OBVIOUS
<1>2. PICK m \in Nat : m = Len(s) /\ DOMAIN s = 1..m
  OBVIOUS
<1>3. PICK t : t = o \o s
  OBVIOUS
<1>4. t \in Seq(Sent) /\ Len(t) = n + m /\ DOMAIN t = 1..n + m
  BY <1>1, <1>2, <1>3
<1>5. \A i \in 1..n : t[i] = o[i] /\ i \in DOMAIN t
  BY <1>1, <1>2, <1>3, <1>4
<1>6. \A i \in 1..m : t[n + i] = s[i] /\ n + i \in DOMAIN t
  BY <1>1, <1>2, <1>3, <1>4
<1>7. \A i \in 1..n + m : i \in 1..n \/ \E j \in 1..m : i = n + j
  <2> SUFFICES ASSUME NEW i \in 1..n + m, i \notin 1..n PROVE \E j \in 1..m : i = n + j
    OBVIOUS
  <2>1. i - n \in 1..m /\ i = n + (i - n)
    BY <1>1, <1>2
  <2> QED BY <2>1
<1>8. IdSet(t) \subseteq IdSet(o) \cup IdSet(s)
  <2> SUFFICES ASSUME NEW i \in 1..n + m, t[i].id # Null
               PROVE  t[i].id \in IdSet(o) \cup IdSet(s)
    BY <1>4 DEF IdSet
  <2>1. CASE i \in 1..n
    BY <1>1, <1>5, <2>1 DEF IdSet
  <2>2. ASSUME NEW j \in 1..m, i = n + j PROVE t[i].id \in IdSet(s)
    BY <1>2, <1>6, <2>2 DEF IdSet
  <2> QED BY <1>7, <2>1, <2>2
<1>9. IdSet(o) \cup IdSet(s) \subseteq IdSet(t)
  BY <1>1, <1>2, <1>5, <1>6 DEF IdSet
<1>10. Once(t)
  <2> SUFFICES ASSUME NEW i \in 1..n + m, NEW j \in 1..n + m, t[i].id = t[j].id, t[i].id # Null
               PROVE  i = j
    BY <1>4 DEF Once
  <2>1. \A k \in 1..n : t[k].id # Null => t[k].id \in IdSet(o)
    BY <1>1, <1>5 DEF IdSet
  <2>2. \A k \in 1..m : t[n + k].id # Null => t[n + k].id \in IdSet(s)
    BY <1>2, <1>6 DEF IdSet
  <2>3. CASE i \in 1..n
    <3>1. j \in 1..n
      BY <1>7, <2>1, <2>2, <2>3
    <3> QED BY <1>1, <1>5, <2>3, <3>1 DEF Once
  <2>4. CASE i \notin 1..n
    <3>1. PICK k \in 1..m : i = n + k
      BY <1>7, <2>4
    <3>2. j \notin 1..n
      BY <2>1, <2>2, <3>1
    <3>3. PICK l \in 1..m : j = n + l
      BY <1>7, <3>2
    <3> QED BY <1>2, <1>6, <3>1, <3>3 DEF Once
  <2> QED BY <2>3, <2>4
<1>11. ASSUME s # <<>> PROVE t # <<>> /\ Last(t) = Last(s)
  <2>1. m > 0 /\ m \in 1..m
    BY <1>2, <1>11
  <2>2. t[n + m] = s[m] /\ n + m > 0
    BY <1>6, <2>1
  <2> QED BY <1>2, <1>4, <2>2 DEF Last
<1> QED BY <1>3, <1>4, <1>8, <1>9, <1>10, <1>11

LEMMA SayNothing ==
    /\ <<>> \in Seq(Sent) /\ Once(<<>>) /\ IdSet(<<>>) = {}
<1>1. PICK o : o = <<>>
  OBVIOUS
<1>2. o \in Seq(Sent) /\ DOMAIN o = {}
  BY <1>1
<1>3. Once(o) /\ IdSet(o) = {}
  BY <1>2 DEF Once, IdSet
<1> QED BY <1>1, <1>2, <1>3

LEMMA SayErrors ==
    ASSUME NEW r \in Seq(Ids), Apart(r)
    PROVE  Errors(r) \in Seq(Sent) /\ Once(Errors(r)) /\ IdSet(Errors(r)) = Range(r)
<1>1. PICK e : e = Errors(r)
  OBVIOUS
<1>2. PICK n \in Nat : n = Len(r) /\ DOMAIN r = 1..n
  OBVIOUS
<1>3. e = [i \in 1..n |-> Told(r[i])]
  BY <1>1, <1>2 DEF Errors
<1>4. ASSUME NEW i \in 1..n PROVE e[i] \in Sent /\ e[i].id = r[i] /\ r[i] \in Ids /\ r[i] # Null
  <2>1. e[i] = [id |-> r[i], kind |-> "error"] /\ r[i] \in Ids
    BY <1>2, <1>3 DEF Told
  <2> QED BY <2>1, NoNull DEF Sent
<1>5. e \in Seq(Sent) /\ DOMAIN e = 1..n
  BY <1>3, <1>4
<1>6. Once(e)
  BY <1>2, <1>4, <1>5 DEF Once, Apart
<1>7. IdSet(e) = Range(r)
  BY <1>2, <1>4, <1>5 DEF IdSet, Range
<1> QED BY <1>1, <1>5, <1>6, <1>7

LEMMA SayOne ==
    ASSUME NEW id \in Ids \cup {Null}
    PROVE  /\ <<Told(id)>> \in Seq(Sent) /\ Once(<<Told(id)>>) /\ IdSet(<<Told(id)>>) = {id} \ {Null}
           /\ <<Told(id)>> # <<>> /\ Last(<<Told(id)>>).kind = "error"
<1>1. PICK t : t = Told(id)
  OBVIOUS
<1>2. t = [id |-> id, kind |-> "error"]
  BY <1>1 DEF Told
<1>3. t \in Sent /\ t.id = id /\ t.kind = "error"
  BY <1>2 DEF Sent
<1>4. PICK s : s = <<t>>
  OBVIOUS
<1>5. s \in Seq(Sent) /\ DOMAIN s = {1} /\ s[1] = t /\ Len(s) = 1 /\ s # <<>>
  BY <1>3, <1>4
<1>6. Once(s) /\ IdSet(s) = {id} \ {Null}
  BY <1>3, <1>5 DEF Once, IdSet
<1>7. Last(s).kind = "error"
  BY <1>3, <1>5 DEF Last
<1> QED BY <1>1, <1>4, <1>5, <1>6, <1>7

-----------------------------------------------------------------------------
(* McpHttp: what a filter leaves.                                          *)

\* What is kept stands in the order of the list.
LEMMA KeptOrder ==
    ASSUME NEW T, NEW list \in Seq(T), NEW places, places \subseteq DOMAIN list
    PROVE  /\ \A f, g \in DOMAIN Kept(list, places) : f < g =>
                \E p, q \in places : /\ p < q /\ Kept(list, places)[f] = list[p]
                                     /\ Kept(list, places)[g] = list[q]
           /\ \A p \in places : \E f \in DOMAIN Kept(list, places) : Kept(list, places)[f] = list[p]
           /\ places # {} <=> Kept(list, places) # <<>>
<1>1. /\ Kept(list, places) \in Seq(T) /\ IsFiniteSet(places)
      /\ Len(Kept(list, places)) = Cardinality(places)
  BY KeptType
<1>2. PICK size \in Nat : size = Cardinality(places)
  BY <1>1
<1>3. PICK kept : kept = Kept(list, places)
  OBVIOUS
<1>4. DOMAIN kept = 1..size /\ Len(kept) = size /\ kept \in Seq(T)
  BY <1>1, <1>2, <1>3
<1>5. places \subseteq Nat
  OBVIOUS
<1>6. PICK rank \in [places -> 1..size] :
              /\ \A p, q \in places : p < q => rank[p] < rank[q]
              /\ \A n \in 1..size : \E p \in places : rank[p] = n
              /\ \A p \in places : kept[rank[p]] = list[p]
  <2>1. \E rank \in [places -> 1..Cardinality(places)] :
              /\ \A p, q \in places : rank[p] = rank[q] => p = q
              /\ \A p, q \in places : p < q => rank[p] < rank[q]
              /\ \A n \in 1..Cardinality(places) : \E p \in places : rank[p] = n
              /\ \A p \in places : Kept(list, places)[rank[p]] = list[p]
    BY <1>1, <1>5, KeptPlaces, ZenonT(60)
  <2> QED BY <1>2, <1>3, <2>1, ZenonT(60)
<1>7. ASSUME NEW f \in 1..size, NEW g \in 1..size, f < g
      PROVE  \E p, q \in places : p < q /\ kept[f] = list[p] /\ kept[g] = list[q]
  <2>1. PICK p \in places : rank[p] = f
    BY <1>6
  <2>2. PICK q \in places : rank[q] = g
    BY <1>6
  <2>3. p \in Nat /\ q \in Nat /\ p # q /\ ~(q < p)
    BY <1>5, <1>6, <1>7, <2>1, <2>2
  <2> QED BY <1>6, <2>1, <2>2, <2>3
<1>8. \A p \in places : rank[p] \in 1..size /\ kept[rank[p]] = list[p]
  BY <1>6
<1>9. places # {} <=> kept # <<>>
  <2>1. places = {} <=> size = 0
    BY <1>1, <1>2, FS_EmptySet
  <2>2. kept = <<>> <=> size = 0
    BY <1>4
  <2> QED BY <2>1, <2>2
<1> QED BY <1>3, <1>4, <1>7, <1>8, <1>9

\* What is kept of a list in which each request occurs once.
LEMMA KeptIds ==
    ASSUME NEW T, NEW list \in Seq(T), Once(list), NEW places, places \subseteq DOMAIN list
    PROVE  /\ Once(Kept(list, places))
           /\ IdSet(Kept(list, places)) = {list[i].id : i \in places} \ {Null}
           /\ ListIds(Kept(list, places)) = {list[i].id : i \in {j \in places : list[j].kind = "list"}}
<1>1. PICK kept : kept = Kept(list, places)
  OBVIOUS
<1>2. kept \in Seq(T) /\ \A f \in DOMAIN kept : \E p \in places : kept[f] = list[p]
  BY <1>1, KeptType
<1>3. /\ \A f, g \in DOMAIN kept : f < g =>
                \E p, q \in places : p < q /\ kept[f] = list[p] /\ kept[g] = list[q]
      /\ \A p \in places : \E f \in DOMAIN kept : kept[f] = list[p]
  BY <1>1, KeptOrder
<1>4. ASSUME NEW f \in DOMAIN kept, NEW g \in DOMAIN kept, f < g, kept[f].id = kept[g].id,
             kept[f].id # Null
      PROVE  FALSE
  <2>1. PICK p \in places, q \in places : p < q /\ kept[f] = list[p] /\ kept[g] = list[q]
    BY <1>3, <1>4
  <2>2. p \in DOMAIN list /\ q \in DOMAIN list /\ p \in Int /\ p = q
    BY <1>4, <2>1 DEF Once
  <2> QED BY <2>1, <2>2
<1>5. \A f, g \in DOMAIN kept : f = g \/ f < g \/ g < f
  BY <1>2
<1>6. Once(kept)
  <2> SUFFICES ASSUME NEW f \in DOMAIN kept, NEW g \in DOMAIN kept, kept[f].id = kept[g].id,
                      kept[f].id # Null
               PROVE  f = g
    BY DEF Once
  <2> QED BY <1>4, <1>5
<1>7. IdSet(kept) = {list[i].id : i \in places} \ {Null}
  BY <1>2, <1>3 DEF IdSet
<1>8. ListIds(kept) = {list[i].id : i \in {j \in places : list[j].kind = "list"}}
  BY <1>2, <1>3 DEF ListIds
<1> QED BY <1>1, <1>6, <1>7, <1>8

LEMMA HeldIds ==
    ASSUME NEW b, b.frames \in Seq(Frames), Once(b.frames), NEW places, places \subseteq DOMAIN b.frames
    PROVE  /\ IdsAt(b, places) \in Seq(Ids) /\ Apart(IdsAt(b, places))
           /\ Range(IdsAt(b, places)) = {b.frames[i].id : i \in places} \ {Null}
<1>1. PICK list : list = b.frames
  OBVIOUS
<1>2. PICK named : named = {i \in places : list[i].id # Null}
  OBVIOUS
<1>3. PICK kept : kept = Kept(list, named)
  OBVIOUS
<1>4. list \in Seq(Frames) /\ Once(list) /\ named \subseteq DOMAIN list
  BY <1>1, <1>2
<1>5. kept \in Seq(Frames) /\ \A f \in DOMAIN kept : \E p \in named : kept[f] = list[p]
  BY <1>3, <1>4, KeptType
<1>6. Once(kept) /\ IdSet(kept) = {list[i].id : i \in named} \ {Null}
  BY <1>3, <1>4, KeptIds
<1>7. PICK n \in Nat : n = Len(kept) /\ DOMAIN kept = 1..n
  BY <1>5
<1>8. PICK ids : ids = IdsAt(b, places)
  OBVIOUS
<1>9. ids = [i \in 1..n |-> kept[i].id]
  BY <1>1, <1>2, <1>3, <1>7, <1>8 DEF IdsAt
<1>10. ASSUME NEW i \in 1..n PROVE ids[i] = kept[i].id /\ kept[i].id # Null /\ kept[i].id \in Ids
  <2>1. kept[i] \in Frames /\ kept[i].id # Null
    BY <1>2, <1>5, <1>7
  <2> QED BY <1>9, <2>1, FrameFacts
<1>11. ids \in Seq(Ids) /\ DOMAIN ids = 1..n
  BY <1>9, <1>10
<1>12. Apart(ids)
  BY <1>6, <1>7, <1>10, <1>11 DEF Apart, Once
<1>13. Range(ids) = IdSet(kept)
  BY <1>7, <1>10, <1>11 DEF Range, IdSet
<1>14. IdSet(kept) = {list[i].id : i \in places} \ {Null}
  BY <1>2, <1>6
<1> QED BY <1>1, <1>8, <1>11, <1>12, <1>13, <1>14

LEMMA RelayIds ==
    ASSUME NEW es \in Seq(Sent), Once(es), NEW refusals
    PROVE  /\ Relayed(es, refusals) \in Seq(Sent) /\ Once(Relayed(es, refusals))
           /\ IdSet(Relayed(es, refusals)) = IdSet(es)
<1>1. PICK n \in Nat : n = Len(es) /\ DOMAIN es = 1..n
  OBVIOUS
<1>2. PICK told : told = [i \in DOMAIN es |-> IF i \in refusals THEN Told(es[i].id) ELSE es[i]]
  OBVIOUS
<1>3. PICK places : places = {i \in DOMAIN es : i \notin refusals \/ es[i].id # Null}
  OBVIOUS
<1>4. ASSUME NEW i \in 1..n PROVE told[i] \in Sent /\ told[i].id = es[i].id
  <2>0. es[i] \in Sent
    BY <1>1
  <2>1. es[i] \in Sent /\ es[i].id \in Ids \cup {Null}
    BY <2>0 DEF Sent
  <2>2. CASE i \in refusals
    <3>1. told[i] = [id |-> es[i].id, kind |-> "error"]
      BY <1>1, <1>2, <2>2 DEF Told
    <3> QED BY <2>1, <3>1 DEF Sent
  <2>3. CASE i \notin refusals
    <3>1. told[i] = es[i]
      BY <1>1, <1>2, <2>3
    <3> QED BY <2>1, <3>1
  <2> QED BY <2>2, <2>3
<1>5. told \in Seq(Sent) /\ DOMAIN told = 1..n
  BY <1>1, <1>2, <1>4
<1>6. Once(told)
  BY <1>1, <1>4, <1>5 DEF Once
<1>7. places \subseteq DOMAIN told
  BY <1>1, <1>3, <1>5
<1>8. PICK said : said = Kept(told, places)
  OBVIOUS
<1>9. said \in Seq(Sent)
  BY <1>5, <1>7, <1>8, KeptType
<1>10. Once(said) /\ IdSet(said) = {told[i].id : i \in places} \ {Null}
  BY <1>5, <1>6, <1>7, <1>8, KeptIds
<1>11. \A i \in places : told[i].id = es[i].id
  BY <1>1, <1>3, <1>4
<1>12. \A i \in DOMAIN es : es[i].id # Null => i \in places
  BY <1>3
<1>13. IdSet(said) = IdSet(es)
  BY <1>3, <1>10, <1>11, <1>12 DEF IdSet
<1>14. said = Relayed(es, refusals)
  BY <1>2, <1>3, <1>8 DEF Relayed
<1> QED BY <1>9, <1>10, <1>13, <1>14

-----------------------------------------------------------------------------
(* McpHttp: the invariant.                                                 *)

\* What went up is what passed of the body, in its order.
Posted(b, g, r) ==
    /\ g \in Seq(Frames) /\ r \in Seq(Ids) /\ Apart(r)
    /\ IdSet(g) \subseteq IdSet(b.frames) /\ Range(r) \cap IdSet(g) = {}
    /\ g # <<>> => IdSet(g) = IdSet(b.frames) \ Range(r)
    /\ \A m, n \in DOMAIN g : m < n =>
         \E i, j \in DOMAIN b.frames : i < j /\ g[m] = b.frames[i] /\ g[n] = b.frames[j]

Ended(st, o) == st = "done" /\ o # <<>> /\ Last(o).kind = "error"

\* What was said speaks once of each request that was refused or answered, and
\* of all of them when the exchange goes well.
Balanced(r, a, o, st, code, gone) ==
    /\ o \in Seq(Sent) /\ Once(o) /\ IdSet(o) \subseteq Range(r) \cup a
    /\ st \in {"idle", "call", "body"} => o = <<>> /\ code = 0 /\ a = {}
    /\ st = "stream" => code = 200
    /\ code = 200 /\ ~gone => Range(r) \subseteq IdSet(o) /\ (a \subseteq IdSet(o) \/ Ended(st, o))

Exchange(x) ==
    /\ stage[x] \in Stages
    /\ body[x] \in run.bodies[x] \cup {Get}
    /\ Posted(body[x], got[x], refused[x])
    /\ stage[x] = "idle" => got[x] = <<>> /\ refused[x] = <<>> /\ left[x] = FALSE
    /\ answered[x] \subseteq IdSet(got[x])
    /\ Balanced(refused[x], answered[x], out[x], stage[x], status[x], left[x])

OfEach(f) == f = [x \in Exchanges |-> f[x]]
Tables == /\ OfEach(stage) /\ OfEach(body) /\ OfEach(refused) /\ OfEach(got) /\ OfEach(answered)
          /\ OfEach(out) /\ OfEach(status) /\ OfEach(left)

ListingsKept == \A id : id \in open <=> \E x \in Exchanges : id \in ListIds(got[x]) \ answered[x]

HttpInv == run \in Runs /\ Tables /\ ListingsKept /\ \A x \in Exchanges : Exchange(x)

LEMMA Starts ==
    ASSUME NEW r, NEW a, a = {}, NEW o, o = <<>>, NEW st, st \in {"idle", "call", "body"},
           NEW code, code = 0, NEW gone
    PROVE  Balanced(r, a, o, st, code, gone)
<1>1. o \in Seq(Sent) /\ Once(o) /\ IdSet(o) = {}
  BY SayNothing
<1> QED BY <1>1 DEF Balanced

\* Nothing more is said.
LEMMA StaysBalanced ==
    ASSUME NEW r, NEW a, NEW o, NEW st, NEW code, NEW gone, Balanced(r, a, o, st, code, gone),
           NEW st2, NEW gone2, gone => gone2, st2 = st \/ st2 = "done" \/ (st2 = "stuck" /\ gone2)
    PROVE  Balanced(r, a, o, st2, code, gone2)
  BY DEF Balanced, Ended

\* The first that is said, and maybe the last.
LEMMA Speaks ==
    ASSUME NEW r, NEW a, NEW s \in Seq(Sent), Once(s), IdSet(s) \subseteq Range(r) \cup a,
           NEW o, o = <<>>, NEW gone, NEW o2, o2 = IF gone THEN o ELSE o \o s,
           NEW code, code = 200 => Range(r) \cup a \subseteq IdSet(s),
           NEW st, st = "done" \/ (st = "stream" /\ code = 200)
    PROVE  Balanced(r, a, o2, st, code, gone)
<1>1. CASE gone
  <2>1. o2 \in Seq(Sent) /\ Once(o2) /\ IdSet(o2) = {}
    BY <1>1, SayNothing
  <2> QED BY <1>1, <2>1 DEF Balanced
<1>2. CASE ~gone
  <2>1. o2 = s
    BY <1>2
  <2> QED BY <1>2, <2>1 DEF Balanced
<1> QED BY <1>1, <1>2

\* One more event of a stream: all of it goes out, or an error that ends it.
LEMMA SpeaksOn ==
    ASSUME NEW r, NEW a, NEW o, NEW gone, Balanced(r, a, o, "stream", 200, gone),
           NEW more, more \cap a = {}, more \cap Range(r) = {},
           NEW s \in Seq(Sent), Once(s), IdSet(s) \subseteq more,
           NEW o2, o2 = IF gone THEN o ELSE o \o s,
           NEW st, \/ st = "stream" /\ more \subseteq IdSet(s)
                   \/ st = "done" /\ s # <<>> /\ Last(s).kind = "error"
    PROVE  Balanced(r, a \cup more, o2, st, 200, gone)
<1>1. o \in Seq(Sent) /\ Once(o) /\ IdSet(o) \subseteq Range(r) \cup a
  BY DEF Balanced
<1>2. CASE gone
  <2>1. o2 = o
    BY <1>2
  <2> QED BY <1>1, <1>2, <2>1 DEF Balanced
<1>3. CASE ~gone
  <2>1. o2 = o \o s /\ Range(r) \subseteq IdSet(o) /\ a \subseteq IdSet(o)
    BY <1>3 DEF Balanced, Ended
  <2>2. IdSet(o) \cap IdSet(s) = {}
    BY <1>1
  <2>3. /\ o2 \in Seq(Sent) /\ Once(o2) /\ IdSet(o2) = IdSet(o) \cup IdSet(s)
        /\ s # <<>> => o2 # <<>> /\ Last(o2) = Last(s)
    BY <1>1, <2>1, <2>2, SayMore
  <2> QED BY <1>1, <1>3, <2>1, <2>3 DEF Balanced, Ended
<1> QED BY <1>2, <1>3

-----------------------------------------------------------------------------
(* McpHttp: what an upstream puts in an event or a body.                   *)

LEMMA AskedIs == \A x \in Exchanges : Asked(x) = IdSet(got[x]) /\ Listed(x) = ListIds(got[x])
  BY DEF Asked, Listed, IdSet, ListIds, Range

LEMMA IdsAreIds ==
    ASSUME NEW g \in Seq(Frames)
    PROVE  IdSet(g) \subseteq Ids /\ ListIds(g) \subseteq IdSet(g)
<1>1. \A i \in DOMAIN g : g[i] \in Frames
  OBVIOUS
<1>2. \A i \in DOMAIN g : g[i].id \in Ids \cup {Null} /\ (g[i].kind = "list" => g[i].id # Null)
  BY <1>1, FrameFacts
<1> QED BY <1>2 DEF IdSet, ListIds

\* What is told of an entry, a junk one apart.
Spoken(e, free) ==
    \/ e = [id |-> e.id, kind |-> "answer"] /\ e.id \in free
    \/ e = Note
LEMMA EventFacts ==
    ASSUME HttpInv, NEW x \in Exchanges, NEW es \in EntryLists(x), Distinct(es)
    PROVE  /\ \E n \in Nat : n > 0 /\ es \in [1..n -> Entries(x)] /\ DOMAIN es = 1..n
           /\ \A i \in DOMAIN es : es[i] = Junk \/ Spoken(es[i], IdSet(got[x]) \ answered[x])
           /\ Once(es)
<1>1. /\ Entries(x) = [id : IdSet(got[x]) \ answered[x], kind : {"answer"}] \cup run.answers
      /\ run.answers \subseteq {Junk, Note}
  BY AskedIs, HttpAssumption DEF HttpInv, Entries
<1>2. \A e \in Entries(x) : e = Junk \/ Spoken(e, IdSet(got[x]) \ answered[x])
  BY <1>1 DEF Spoken
<1>3. \E n \in Nat : n > 0 /\ es \in [1..n -> Entries(x)] /\ DOMAIN es = 1..n
  <2>1. CASE \E e \in Entries(x) : es = <<e>>
    <3>1. es \in [1..1 -> Entries(x)]
      BY <2>1
    <3> QED BY <3>1
  <2>2. CASE \E e, f \in Entries(x) : es = <<e, f>>
    <3>1. es \in [1..2 -> Entries(x)]
      BY <2>2
    <3> QED BY <3>1
  <2> QED BY <2>1, <2>2 DEF EntryLists
<1>4. \A i \in DOMAIN es : es[i] \in Entries(x)
  BY <1>3
<1>5. \A i \in DOMAIN es : es[i] = Junk \/ Spoken(es[i], IdSet(got[x]) \ answered[x])
  BY <1>2, <1>4
<1>6. Once(es)
  <2> SUFFICES ASSUME NEW i \in DOMAIN es, NEW j \in DOMAIN es, es[i].id = es[j].id, es[i].id # Null,
                      i # j
               PROVE  FALSE
    BY DEF Once
  <2>1. \A k \in DOMAIN es : es[k].id # Null => es[k] = [id |-> es[k].id, kind |-> "answer"]
    <3>1. Junk.id = Null /\ Note.id = Null
      BY DEF Junk, Note
    <3> QED BY <1>5, <3>1 DEF Spoken
  <2>2. es[i] = es[j]
    BY <2>1
  <2> QED BY <2>2 DEF Distinct
<1> QED BY <1>3, <1>5, <1>6

LEMMA SpokenFacts ==
    ASSUME HttpInv, NEW x \in Exchanges, NEW e, Spoken(e, IdSet(got[x]) \ answered[x])
    PROVE  /\ e \in Sent /\ e.id \in Ids \cup {Null} /\ e.kind # "junk"
           /\ e.kind = "answer" <=> e.id # Null
           /\ e.id # Null => e.id \in IdSet(got[x]) /\ e.id \notin answered[x]
<1>1. IdSet(got[x]) \subseteq Ids
  BY IdsAreIds DEF HttpInv, Exchange, Posted
<1>2. CASE e = Note
  BY <1>2 DEF Note, Sent
<1>3. CASE e = [id |-> e.id, kind |-> "answer"] /\ e.id \in IdSet(got[x]) \ answered[x]
  <2>1. e.id \in Ids /\ e.id # Null /\ e.kind = "answer"
    BY <1>1, <1>3, NoNull
  <2>2. e \in Sent
    BY <1>3, <2>1 DEF Sent
  <2> QED BY <1>3, <2>1, <2>2
<1> QED BY <1>2, <1>3 DEF Spoken

LEMMA JunkFacts == Junk.kind = "junk" /\ Junk.id = Null
  BY DEF Junk

\* The entries seen, as a set of answers.
LEMMA SeenFacts ==
    ASSUME HttpInv, NEW x \in Exchanges, NEW es \in EntryLists(x), Distinct(es),
           NEW seen, seen \subseteq DOMAIN es, \A i \in seen : es[i].kind # "junk"
    PROVE  /\ AnswersIn(es, seen) = {es[i].id : i \in seen} \ {Null}
           /\ AnswersIn(es, seen) \subseteq IdSet(got[x]) /\ AnswersIn(es, seen) \cap answered[x] = {}
           /\ \A i \in seen : es[i] \in Sent /\ es[i].id \in Ids \cup {Null}
<1>1. \A i \in seen : Spoken(es[i], IdSet(got[x]) \ answered[x])
  BY EventFacts, JunkFacts
<1>2. \A i \in seen : /\ es[i] \in Sent /\ es[i].id \in Ids \cup {Null}
                      /\ es[i].kind = "answer" <=> es[i].id # Null
                      /\ es[i].id # Null => es[i].id \in IdSet(got[x]) /\ es[i].id \notin answered[x]
  BY <1>1, SpokenFacts
<1>3. AnswersIn(es, seen) = {es[i].id : i \in seen} \ {Null}
  BY <1>2 DEF AnswersIn
<1> QED BY <1>2, <1>3

\* All of the entries, when none is junk.
LEMMA WholeFacts ==
    ASSUME HttpInv, NEW x \in Exchanges, NEW es \in EntryLists(x), Distinct(es),
           \A i \in DOMAIN es : es[i].kind # "junk"
    PROVE  es \in Seq(Sent) /\ Once(es) /\ AnswersIn(es, DOMAIN es) = IdSet(es)
<1>1. PICK n \in Nat : es \in [1..n -> Entries(x)] /\ DOMAIN es = 1..n
  BY EventFacts
<1>2. \A i \in 1..n : es[i] \in Sent
  BY <1>1, SeenFacts
<1>3. es \in [1..n -> Sent]
  BY <1>1, <1>2
<1>4. es \in Seq(Sent)
  BY <1>1, <1>3
<1>5. AnswersIn(es, DOMAIN es) = {es[i].id : i \in DOMAIN es} \ {Null}
  BY SeenFacts
<1> QED BY <1>4, <1>5, EventFacts DEF IdSet

LEMMA FirstBadFacts ==
    ASSUME HttpInv, NEW x \in Exchanges, NEW es \in EntryLists(x), Distinct(es),
           NEW bad, bad \subseteq DOMAIN es, bad # {}
    PROVE  FirstBad(es, bad) \in bad /\ \A j \in bad : FirstBad(es, bad) <= j
<1>1. PICK n \in Nat : DOMAIN es = 1..n
  BY EventFacts
<1>2. bad \subseteq Nat
  BY <1>1
<1>3. \E i \in bad : \A j \in bad : i <= j
  BY <1>2, HasLeast
<1> QED BY <1>3 DEF FirstBad

-----------------------------------------------------------------------------
(* McpHttp: a step of one exchange.                                        *)

\* g is f but for x, where it is v.
At(g, f, x, v) == OfEach(g) /\ g[x] = v /\ \A y \in Exchanges : y # x => g[y] = f[y]

LEMMA AtNew ==
    ASSUME NEW f, OfEach(f), NEW x \in Exchanges, NEW v, NEW g, g = [f EXCEPT ![x] = v]
    PROVE  At(g, f, x, v)
  BY DEF OfEach, At

LEMMA AtSame ==
    ASSUME NEW f, OfEach(f), NEW x \in Exchanges, NEW g, g = f
    PROVE  At(g, f, x, f[x])
  BY DEF At

LEMMA WriteAt ==
    ASSUME HttpInv, NEW x \in Exchanges, NEW s, Write(x, s)
    PROVE  At(out', out, x, IF left[x] THEN out[x] ELSE out[x] \o s)
<1>1. OfEach(out)
  BY DEF HttpInv, Tables
<1>2. CASE left[x]
  <2>1. out' = out
    BY <1>2 DEF Write
  <2> QED BY <1>1, <1>2, <2>1, AtSame
<1>3. CASE ~left[x]
  <2>1. out' = [out EXCEPT ![x] = out[x] \o s]
    BY <1>3 DEF Write
  <2> QED BY <1>1, <1>3, <2>1, AtNew
<1> QED BY <1>2, <1>3

LEMMA ExchangeMoves ==
    ASSUME HttpInv, NEW x \in Exchanges, run' = run, ListingsKept',
           NEW st, At(stage', stage, x, st), NEW b, At(body', body, x, b),
           NEW g, At(got', got, x, g), NEW r, At(refused', refused, x, r),
           NEW a, At(answered', answered, x, a), NEW o, At(out', out, x, o),
           NEW code, At(status', status, x, code), NEW gone, At(left', left, x, gone),
           st \in Stages, b \in run.bodies[x] \cup {Get}, Posted(b, g, r),
           st # "idle", a \subseteq IdSet(g),
           Balanced(r, a, o, st, code, gone)
    PROVE  HttpInv'
<1>1. Tables'
  BY DEF Tables, At
<1>2. Exchange(x)'
  BY DEF Exchange, At
<1>3. ASSUME NEW y \in Exchanges, y # x PROVE Exchange(y)'
  <2>1. Exchange(y)
    BY DEF HttpInv
  <2>2. /\ stage'[y] = stage[y] /\ body'[y] = body[y] /\ got'[y] = got[y] /\ refused'[y] = refused[y]
        /\ answered'[y] = answered[y] /\ out'[y] = out[y] /\ status'[y] = status[y]
        /\ left'[y] = left[y]
    BY <1>3 DEF At
  <2> QED BY <2>1, <2>2 DEF Exchange
<1> QED BY <1>1, <1>2, <1>3 DEF HttpInv

\* A step that leaves alone what was posted.
LEMMA AnswerMoves ==
    ASSUME HttpInv, NEW x \in Exchanges, run' = run, ListingsKept',
           body' = body, got' = got, refused' = refused,
           NEW st, At(stage', stage, x, st), st \in Stages \ {"idle"}, NEW a, At(answered', answered, x, a),
           NEW o, At(out', out, x, o), NEW code, At(status', status, x, code),
           NEW gone, At(left', left, x, gone),
           a \subseteq IdSet(got[x]), Balanced(refused[x], a, o, st, code, gone)
    PROVE  HttpInv'
<1>1. OfEach(body) /\ OfEach(got) /\ OfEach(refused)
  BY DEF HttpInv, Tables
<1>2. At(body', body, x, body[x]) /\ At(got', got, x, got[x]) /\ At(refused', refused, x, refused[x])
  BY <1>1, AtSame
<1>3. body[x] \in run.bodies[x] \cup {Get} /\ Posted(body[x], got[x], refused[x])
  BY DEF HttpInv, Exchange
<1> QED BY <1>2, <1>3, ExchangeMoves

LEMMA ListingsStay ==
    ASSUME HttpInv, got' = got, answered' = answered, open' = open
    PROVE  ListingsKept'
  BY DEF HttpInv, ListingsKept

\* A step that says something at most.
LEMMA SaysMoves ==
    ASSUME HttpInv, NEW x \in Exchanges, run' = run, open' = open,
           body' = body, got' = got, refused' = refused, answered' = answered, left' = left,
           NEW st, At(stage', stage, x, st), st \in Stages \ {"idle"},
           NEW o, At(out', out, x, o), NEW code, At(status', status, x, code),
           Balanced(refused[x], answered[x], o, st, code, left[x])
    PROVE  HttpInv'
<1>1. OfEach(answered) /\ OfEach(left)
  BY DEF HttpInv, Tables
<1>2. At(answered', answered, x, answered[x]) /\ At(left', left, x, left[x])
  BY <1>1, AtSame
<1>3. answered[x] \subseteq IdSet(got[x])
  BY DEF HttpInv, Exchange
<1>4. ListingsKept'
  BY ListingsStay
<1> QED BY <1>2, <1>3, <1>4, AnswerMoves

LEMMA Here ==
    ASSUME HttpInv, NEW x \in Exchanges
    PROVE  /\ OfEach(stage) /\ OfEach(status) /\ OfEach(left) /\ OfEach(out) /\ OfEach(answered)
           /\ Balanced(refused[x], answered[x], out[x], stage[x], status[x], left[x])
           /\ refused[x] \in Seq(Ids) /\ Apart(refused[x]) /\ answered[x] \subseteq IdSet(got[x])
           /\ stage[x] \in {"idle", "call", "body"} => out[x] = <<>> /\ answered[x] = {} /\ status[x] = 0
           /\ stage[x] = "stream" => status[x] = 200
           /\ stage[x] \in Stages
           /\ got[x] \in Seq(Frames) /\ Range(refused[x]) \cap IdSet(got[x]) = {}
  BY DEF HttpInv, Tables, Exchange, Posted, Balanced

\* A status and a body that is no answer end an exchange of which nothing was said.
LEMMA FailStep ==
    ASSUME HttpInv, NEW x \in Exchanges, stage[x] \in {"idle", "call", "body"},
           NEW code, code # 200, Respond(x, code, <<Told(Null)>>),
           run' = run, open' = open, body' = body, got' = got, refused' = refused,
           answered' = answered, left' = left
    PROVE  HttpInv'
<1>1. PICK s : s = <<Told(Null)>>
  OBVIOUS
<1>2. s \in Seq(Sent) /\ Once(s) /\ IdSet(s) = {}
  BY <1>1, SayOne
<1>3. stage' = [stage EXCEPT ![x] = "done"] /\ status' = [status EXCEPT ![x] = code] /\ Write(x, s)
  BY <1>1 DEF Respond, End
<1>4. At(stage', stage, x, "done") /\ At(status', status, x, code)
  BY <1>3, Here, AtNew
<1>5. PICK o : o = IF left[x] THEN out[x] ELSE out[x] \o s
  OBVIOUS
<1>6. At(out', out, x, o)
  BY <1>3, <1>5, WriteAt
<1>7. out[x] = <<>>
  BY Here
<1>8. Balanced(refused[x], answered[x], o, "done", code, left[x])
  BY <1>2, <1>5, <1>7, Speaks
<1> QED BY <1>4, <1>6, <1>8, SaysMoves DEF Stages

\* The errors of what was refused, in a stream or as the body.
LEMMA ErrorsStep ==
    ASSUME HttpInv, NEW x \in Exchanges, stage[x] \in {"call", "body"},
           NEW st \in {"stream", "done"}, stage' = [stage EXCEPT ![x] = st],
           status' = [status EXCEPT ![x] = 200], Write(x, Errors(refused[x])),
           run' = run, open' = open, body' = body, got' = got, refused' = refused,
           answered' = answered, left' = left
    PROVE  HttpInv'
<1>1. PICK s : s = Errors(refused[x])
  OBVIOUS
<1>2. s \in Seq(Sent) /\ Once(s) /\ IdSet(s) = Range(refused[x])
  BY <1>1, Here, SayErrors
<1>3. Write(x, s)
  BY <1>1
<1>4. At(stage', stage, x, st) /\ At(status', status, x, 200)
  <2>1. OfEach(stage) /\ OfEach(status)
    BY Here
  <2> QED BY <2>1, AtNew
<1>5. PICK o : o = IF left[x] THEN out[x] ELSE out[x] \o s
  OBVIOUS
<1>6. At(out', out, x, o)
  BY <1>3, <1>5, WriteAt
<1>7. out[x] = <<>> /\ answered[x] = {}
  BY Here
<1>8. Balanced(refused[x], answered[x], o, st, 200, left[x])
  <2>1. PICK a : a = answered[x]
    OBVIOUS
  <2>2. IdSet(s) \subseteq Range(refused[x]) \cup a /\ Range(refused[x]) \cup a \subseteq IdSet(s)
    BY <1>2, <1>7, <2>1
  <2>3. Balanced(refused[x], a, o, st, 200, left[x])
    BY <1>2, <1>5, <1>7, <2>2, Speaks
  <2> QED BY <2>1, <2>3
<1> QED BY <1>4, <1>6, <1>8, SaysMoves DEF Stages

\* An exchange goes on or ends and nothing is said; its client may have left.
LEMMA QuietStep ==
    ASSUME HttpInv, NEW x \in Exchanges, run' = run, open' = open,
           body' = body, got' = got, refused' = refused, answered' = answered, out' = out,
           status' = status,
           NEW st, At(stage', stage, x, st), st \in Stages \ {"idle"},
           NEW gone, At(left', left, x, gone), left[x] => gone,
           \/ st = stage[x] \/ st = "done" \/ (st = "stuck" /\ gone)
           \/ st \in {"call", "body"} /\ stage[x] \in {"idle", "call"}
    PROVE  HttpInv'
<1>1. At(out', out, x, out[x]) /\ At(status', status, x, status[x]) /\ At(answered', answered, x, answered[x])
  BY Here, AtSame
<1>2. Balanced(refused[x], answered[x], out[x], st, status[x], gone)
  <2>1. CASE st = stage[x] \/ st = "done" \/ (st = "stuck" /\ gone)
    BY <2>1, Here, StaysBalanced
  <2>2. CASE st \in {"call", "body"} /\ stage[x] \in {"idle", "call"}
    BY <2>2, Here, Starts
  <2> QED BY <2>1, <2>2
<1>3. ListingsKept'
  BY ListingsStay
<1> QED BY <1>1, <1>2, <1>3, Here, AnswerMoves

-----------------------------------------------------------------------------
(* McpHttp: the answers.                                                   *)

LEMMA AskedApart ==
    ASSUME HttpInv, NEW x \in Exchanges, NEW y \in Exchanges, x # y
    PROVE  IdSet(got[x]) \cap IdSet(got[y]) = {}
<1>1. /\ IdSet(got[x]) \subseteq IdSet(body[x].frames) /\ IdSet(got[y]) \subseteq IdSet(body[y].frames)
      /\ body[x] \in run.bodies[x] \cup {Get} /\ body[y] \in run.bodies[y] \cup {Get} /\ run \in Runs
  BY DEF HttpInv, Exchange, Posted
<1>2. IdSet(body[x].frames) = IdsOf(body[x]) /\ IdSet(body[y].frames) = IdsOf(body[y])
  BY <1>1, BodyFacts
<1>3. IdsOf(Get) = {}
  <2>1. DOMAIN Get.frames = {}
    BY DEF Get
  <2> QED BY <2>1 DEF IdsOf
<1>4. IdsOf(body[x]) \cap IdsOf(body[y]) = {}
  BY <1>1, <1>3, HttpAssumption
<1> QED BY <1>1, <1>2, <1>4

\* A listing is ended by the answer to it.
LEMMA JudgedKeeps ==
    ASSUME HttpInv, NEW x \in Exchanges, NEW es \in EntryLists(x), Distinct(es),
           NEW seen, seen \subseteq DOMAIN es, \A i \in seen : es[i].kind # "junk",
           NEW refusals, Judged(x, es, seen, refusals), got' = got,
           NEW a, a = answered[x] \cup AnswersIn(es, seen), At(answered', answered, x, a)
    PROVE  ListingsKept'
<1>1. PICK ended : ended = {es[i].id : i \in {j \in seen : es[j].id \in ListIds(got[x])}}
  OBVIOUS
<1>2. open' = open \ ended
  BY <1>1, AskedIs DEF Judged
<1>3. AnswersIn(es, seen) = {es[i].id : i \in seen} \ {Null}
  BY SeenFacts
<1>4. \A y \in Exchanges : ListIds(got[y]) \subseteq IdSet(got[y]) /\ Null \notin ListIds(got[y])
  <2>1. \A y \in Exchanges : got[y] \in Seq(Frames)
    BY Here
  <2> QED BY <2>1, IdsAreIds, NoNull
<1>5. ended \subseteq ListIds(got[x])
  BY <1>1
<1>6. \A id \in ListIds(got[x]) : id \in ended <=> id \in AnswersIn(es, seen)
  BY <1>1, <1>3, <1>4
<1>7. \A y \in Exchanges : y # x => ended \cap ListIds(got[y]) = {}
  BY <1>4, <1>5, AskedApart
<1>8. \A id : id \in open <=> \E y \in Exchanges : id \in ListIds(got[y]) \ answered[y]
  BY DEF HttpInv, ListingsKept
<1>9. answered'[x] = a /\ \A y \in Exchanges : y # x => answered'[y] = answered[y]
  BY DEF At
<1>10. ASSUME NEW id
       PROVE  id \in open' <=> \E y \in Exchanges : id \in ListIds(got[y]) \ answered'[y]
  <2>1. ASSUME NEW y \in Exchanges, id \in ListIds(got[y]) \ answered[y], id \notin ended
        PROVE  id \in ListIds(got[y]) \ answered'[y]
    BY <1>6, <1>9, <2>1
  <2>2. ASSUME NEW y \in Exchanges, id \in ListIds(got[y]) \ answered'[y]
        PROVE  id \in ListIds(got[y]) \ answered[y] /\ id \notin ended
    BY <1>6, <1>7, <1>9, <2>2
  <2> QED BY <1>2, <1>8, <2>1, <2>2
<1> QED BY <1>10 DEF ListingsKept

LEMMA StreamStep ==
    ASSUME HttpInv, NEW x \in Exchanges, NEW es \in EntryLists(x), NEW refusals \in SUBSET DOMAIN es,
           NEW slow \in BOOLEAN, StreamEvent(x, es, refusals, slow)
    PROVE  HttpInv'
<1>1. PICK bad : bad = {i \in DOMAIN es : es[i].kind = "junk"} \cup refusals
  OBVIOUS
<1>2. PICK stop : stop = FirstBad(es, bad)
  OBVIOUS
<1>3. PICK seen : seen = {i \in DOMAIN es : es[i].kind # "junk" /\ \A j \in bad : i <= j}
  OBVIOUS
<1>4. /\ stage[x] = "stream" /\ Distinct(es)
      /\ answered' = [answered EXCEPT ![x] = @ \cup AnswersIn(es, seen)]
      /\ Judged(x, es, seen, refusals)
      /\ IF bad # {} THEN StreamStops(x, es, stop)
                     ELSE Write(x, es) /\ stage' = stage
      /\ run' = run /\ body' = body /\ got' = got /\ refused' = refused
      /\ left' = left /\ status' = status
  BY <1>1, <1>2, <1>3 DEF StreamEvent, request
<1>5. bad \subseteq DOMAIN es /\ seen \subseteq DOMAIN es /\ \A i \in seen : es[i].kind # "junk"
  BY <1>1, <1>3
<1>6. PICK more : more = AnswersIn(es, seen)
  OBVIOUS
<1>7. /\ more = {es[i].id : i \in seen} \ {Null} /\ more \subseteq IdSet(got[x])
      /\ more \cap answered[x] = {} /\ \A i \in seen : es[i].id \in Ids \cup {Null}
  BY <1>4, <1>5, <1>6, SeenFacts
<1>8. PICK a : a = answered[x] \cup more
  OBVIOUS
<1>9. At(answered', answered, x, a)
  BY <1>4, <1>6, <1>8, Here, AtNew
<1>10. ListingsKept'
  BY <1>4, <1>5, <1>6, <1>8, <1>9, JudgedKeeps
<1>11. a \subseteq IdSet(got[x]) /\ more \cap Range(refused[x]) = {}
  BY <1>7, <1>8, Here
<1>12. Balanced(refused[x], answered[x], out[x], "stream", 200, left[x]) /\ status[x] = 200
  BY <1>4, Here
<1>13. At(left', left, x, left[x]) /\ At(status', status, x, 200)
  BY <1>4, <1>12, Here, AtSame
<1>14. ASSUME NEW s \in Seq(Sent), Once(s), IdSet(s) \subseteq more, Write(x, s),
              NEW st, At(stage', stage, x, st),
              \/ st = "stream" /\ more \subseteq IdSet(s)
              \/ st = "done" /\ s # <<>> /\ Last(s).kind = "error"
       PROVE  HttpInv'
  <2>1. PICK o : o = IF left[x] THEN out[x] ELSE out[x] \o s
    OBVIOUS
  <2>2. At(out', out, x, o)
    BY <1>14, <2>1, WriteAt
  <2>3. Balanced(refused[x], a, o, st, 200, left[x])
    <3>1. PICK r, before, said, gone : /\ r = refused[x] /\ before = answered[x]
                                      /\ said = out[x] /\ gone = left[x]
      OBVIOUS
    <3>2. Balanced(r, before, said, "stream", 200, gone) /\ o = IF gone THEN said ELSE said \o s
      BY <1>12, <2>1, <3>1
    <3>3. more \cap before = {} /\ more \cap Range(r) = {}
      BY <1>7, <1>11, <3>1
    <3>4. Balanced(r, before \cup more, o, st, 200, gone)
      BY <1>14, <3>2, <3>3, SpeaksOn
    <3> QED BY <1>8, <3>1, <3>4
  <2>4. st \in Stages \ {"idle"}
    BY <1>14 DEF Stages
  <2> QED BY <1>4, <1>9, <1>10, <1>11, <1>13, <1>14, <2>2, <2>3, <2>4, AnswerMoves
<1>15. CASE bad = {}
  <2>1. Write(x, es) /\ stage' = stage
    BY <1>4, <1>15
  <2>2. \A i \in DOMAIN es : es[i].kind # "junk"
    BY <1>1, <1>15
  <2>3. seen = DOMAIN es
    BY <1>3, <1>15, <2>2
  <2>4. es \in Seq(Sent) /\ Once(es) /\ more = IdSet(es)
    BY <1>4, <1>6, <2>2, <2>3, WholeFacts
  <2>5. At(stage', stage, x, "stream")
    BY <1>4, <2>1, Here, AtSame
  <2> QED BY <1>14, <2>1, <2>4, <2>5
<1>16. CASE bad # {}
  <2>1. StreamStops(x, es, stop)
    BY <1>4, <1>16
  <2>2. stop \in bad /\ \A j \in bad : stop <= j
    BY <1>2, <1>4, <1>5, <1>16, FirstBadFacts
  <2>3. PICK id : id = IF es[stop].kind = "junk" THEN Null ELSE es[stop].id
    OBVIOUS
  <2>4. es[stop].kind # "junk" => stop \in seen
    BY <1>3, <1>5, <2>2
  <2>5. id \in Ids \cup {Null} /\ {id} \ {Null} \subseteq more
    BY <1>7, <2>3, <2>4
  <2>6. PICK s : s = <<Told(id)>>
    OBVIOUS
  <2>7. /\ s \in Seq(Sent) /\ Once(s) /\ IdSet(s) = {id} \ {Null}
        /\ s # <<>> /\ Last(s).kind = "error"
    BY <2>5, <2>6, SayOne
  <2>8. Write(x, s) /\ stage' = [stage EXCEPT ![x] = "done"]
    BY <2>1, <2>3, <2>6 DEF StreamStops, End
  <2>9. At(stage', stage, x, "done")
    BY <2>8, Here, AtNew
  <2> QED BY <1>14, <2>5, <2>7, <2>8, <2>9
<1> QED BY <1>15, <1>16

LEMMA BodyStep ==
    ASSUME HttpInv, NEW x \in Exchanges, NEW es \in EntryLists(x), NEW refusals \in SUBSET DOMAIN es,
           Body(x, es, refusals)
    PROVE  HttpInv'
<1>1. PICK junk : junk = {i \in DOMAIN es : es[i].kind = "junk"}
  OBVIOUS
<1>2. PICK seen : seen = {i \in DOMAIN es : es[i].kind # "junk" /\ \A j \in junk : i < j}
  OBVIOUS
<1>3. /\ stage[x] = "body" /\ Distinct(es)
      /\ answered' = [answered EXCEPT ![x] = @ \cup AnswersIn(es, seen)]
      /\ Judged(x, es, seen, refusals)
      /\ IF junk # {} THEN Respond(x, 502, <<Told(Null)>>)
           ELSE Respond(x, 200, Errors(refused[x]) \o Relayed(es, refusals))
      /\ run' = run /\ body' = body /\ got' = got /\ refused' = refused /\ left' = left
  BY <1>1, <1>2 DEF Body, request
<1>4. seen \subseteq DOMAIN es /\ \A i \in seen : es[i].kind # "junk"
  BY <1>2
<1>5. out[x] = <<>> /\ answered[x] = {}
  BY <1>3, Here
<1>6. PICK a : a = AnswersIn(es, seen)
  OBVIOUS
<1>7. a \subseteq IdSet(got[x]) /\ a = answered[x] \cup AnswersIn(es, seen)
  BY <1>3, <1>4, <1>5, <1>6, SeenFacts
<1>8. At(answered', answered, x, a)
  BY <1>3, <1>7, Here, AtNew
<1>9. ListingsKept'
  BY <1>3, <1>4, <1>7, <1>8, JudgedKeeps
<1>10. At(left', left, x, left[x])
  BY <1>3, Here, AtSame
<1>11. ASSUME NEW s \in Seq(Sent), Once(s), IdSet(s) \subseteq Range(refused[x]) \cup a,
              NEW code, Respond(x, code, s), code = 200 => Range(refused[x]) \cup a \subseteq IdSet(s)
       PROVE  HttpInv'
  <2>1. stage' = [stage EXCEPT ![x] = "done"] /\ status' = [status EXCEPT ![x] = code] /\ Write(x, s)
    BY <1>11 DEF Respond, End
  <2>2. At(stage', stage, x, "done") /\ At(status', status, x, code)
    BY <2>1, Here, AtNew
  <2>3. PICK o : o = IF left[x] THEN out[x] ELSE out[x] \o s
    OBVIOUS
  <2>4. At(out', out, x, o)
    BY <2>1, <2>3, WriteAt
  <2>5. Balanced(refused[x], a, o, "done", code, left[x])
    BY <1>5, <1>11, <2>3, Speaks
  <2>6. "done" \in Stages \ {"idle"}
    BY DEF Stages
  <2> QED BY <1>3, <1>7, <1>8, <1>9, <1>10, <2>2, <2>4, <2>5, <2>6, AnswerMoves
<1>12. CASE junk # {}
  <2>1. PICK s : s = <<Told(Null)>>
    OBVIOUS
  <2>2. s \in Seq(Sent) /\ Once(s) /\ IdSet(s) = {}
    BY <2>1, SayOne
  <2>3. Respond(x, 502, s)
    BY <1>3, <1>12, <2>1
  <2> QED BY <1>11, <2>2, <2>3
<1>13. CASE junk = {}
  <2>1. \A i \in DOMAIN es : es[i].kind # "junk"
    BY <1>1, <1>13
  <2>2. seen = DOMAIN es
    BY <1>2, <1>13, <2>1
  <2>3. es \in Seq(Sent) /\ Once(es) /\ a = IdSet(es)
    BY <1>3, <1>6, <2>1, <2>2, WholeFacts
  <2>4. PICK s : s = Relayed(es, refusals)
    OBVIOUS
  <2>5. s \in Seq(Sent) /\ Once(s) /\ IdSet(s) = a
    BY <2>3, <2>4, RelayIds
  <2>6. PICK e : e = Errors(refused[x])
    OBVIOUS
  <2>7. e \in Seq(Sent) /\ Once(e) /\ IdSet(e) = Range(refused[x])
    BY <2>6, Here, SayErrors
  <2>8. IdSet(e) \cap IdSet(s) = {}
    <3>1. Range(refused[x]) \cap IdSet(got[x]) = {}
      BY Here
    <3> QED BY <1>7, <2>5, <2>7, <3>1
  <2>9. PICK both : both = e \o s
    OBVIOUS
  <2>10. both \in Seq(Sent) /\ Once(both) /\ IdSet(both) = Range(refused[x]) \cup a
    BY <2>5, <2>7, <2>8, <2>9, SayMore
  <2>11. Respond(x, 200, both)
    BY <1>3, <1>13, <2>4, <2>6, <2>9
  <2> QED BY <1>11, <2>10, <2>11
<1> QED BY <1>12, <1>13

-----------------------------------------------------------------------------
(* McpHttp: what a client posts.                                           *)

\* What passes of a body, and what is refused of it.
LEMMA PassedIsPosted ==
    ASSUME HttpInv, NEW x \in Exchanges, NEW b \in run.bodies[x],
           NEW passed \in SUBSET DOMAIN b.frames,
           NEW g, g = Kept(b.frames, passed), NEW r, r = IdsAt(b, DOMAIN b.frames \ passed)
    PROVE  /\ Posted(b, g, r) /\ ListIds(g) = Opened(b, passed)
           /\ passed # {} <=> g # <<>>
<1>1. b.frames \in Seq(Frames) /\ Once(b.frames)
  BY BodyFacts DEF HttpInv
<1>2. PICK list : list = b.frames
  OBVIOUS
<1>3. PICK rest : rest = DOMAIN list \ passed
  OBVIOUS
<1>4. list \in Seq(Frames) /\ Once(list) /\ passed \subseteq DOMAIN list /\ rest \subseteq DOMAIN list
  BY <1>1, <1>2, <1>3
<1>5. r \in Seq(Ids) /\ Apart(r) /\ Range(r) = {list[i].id : i \in rest} \ {Null}
  BY <1>1, <1>2, <1>3, HeldIds
<1>6. g \in Seq(Frames)
  BY <1>2, <1>4, KeptType
<1>7. /\ IdSet(g) = {list[i].id : i \in passed} \ {Null}
      /\ ListIds(g) = {list[i].id : i \in {j \in passed : list[j].kind = "list"}}
  BY <1>2, <1>4, KeptIds
<1>8. /\ \A m, n \in DOMAIN g : m < n =>
           \E i, j \in passed : i < j /\ g[m] = list[i] /\ g[n] = list[j]
      /\ passed # {} <=> g # <<>>
  BY <1>2, <1>4, KeptOrder
<1>9. IdSet(list) = {list[i].id : i \in DOMAIN list} \ {Null}
  BY DEF IdSet
<1>10. Range(r) \cap IdSet(g) = {}
  <2> SUFFICES ASSUME NEW i \in rest, NEW j \in passed, list[i].id = list[j].id, list[i].id # Null
               PROVE  FALSE
    BY <1>5, <1>7
  <2>1. i = j
    BY <1>4 DEF Once
  <2> QED BY <1>3, <2>1
<1>11. IdSet(g) \subseteq IdSet(list) /\ IdSet(list) \subseteq Range(r) \cup IdSet(g)
  BY <1>3, <1>4, <1>5, <1>7, <1>9
<1>12. Range(r) \subseteq IdSet(list)
  BY <1>3, <1>5, <1>9
<1>13. IdSet(g) = IdSet(list) \ Range(r)
  BY <1>10, <1>11
<1>14. \A m, n \in DOMAIN g : m < n =>
           \E i, j \in DOMAIN list : i < j /\ g[m] = list[i] /\ g[n] = list[j]
  BY <1>4, <1>8
<1>15. Posted(b, g, r)
  <2>1. IdSet(g) \subseteq IdSet(b.frames) /\ (g # <<>> => IdSet(g) = IdSet(b.frames) \ Range(r))
    BY <1>2, <1>11, <1>13
  <2>2. \A m, n \in DOMAIN g : m < n =>
           \E i, j \in DOMAIN b.frames : i < j /\ g[m] = b.frames[i] /\ g[n] = b.frames[j]
    BY <1>2, <1>14
  <2> QED BY <1>5, <1>6, <1>10, <2>1, <2>2 DEF Posted
<1>16. ListIds(g) = Opened(b, passed)
  BY <1>2, <1>7 DEF Opened
<1> QED BY <1>8, <1>15, <1>16

LEMMA NothingPosted ==
    ASSUME NEW g, g = <<>>
    PROVE  g \in Seq(Frames) /\ IdSet(g) = {} /\ ListIds(g) = {} /\ DOMAIN g = {}
<1>1. g \in Seq(Frames) /\ DOMAIN g = {}
  OBVIOUS
<1> QED BY <1>1 DEF IdSet, ListIds

LEMMA PostStep ==
    ASSUME HttpInv, NEW x \in Exchanges, NEW b \in run.bodies[x],
           NEW passed \in SUBSET DOMAIN b.frames, Post(x, b, passed)
    PROVE  HttpInv'
<1>1. PICK r : r = IdsAt(b, DOMAIN b.frames \ passed)
  OBVIOUS
<1>2. PICK g : g = Kept(b.frames, passed)
  OBVIOUS
<1>3. /\ stage[x] = "idle"
      /\ body' = [body EXCEPT ![x] = b]
      /\ refused' = [refused EXCEPT ![x] = r]
      /\ open' = open \cup Opened(b, passed)
      /\ \/ /\ passed # {}
            /\ stage' = [stage EXCEPT ![x] = "call"]
            /\ got' = [got EXCEPT ![x] = g]
            /\ out' = out /\ status' = status
         \/ /\ passed = {}
            /\ Respond(x, IF r = <<>> THEN 202 ELSE 200, Errors(r))
            /\ got' = got
      /\ run' = run /\ left' = left /\ answered' = answered
  BY <1>1, <1>2 DEF Post, SendPassed
<1>4. /\ Posted(b, g, r) /\ ListIds(g) = Opened(b, passed)
      /\ passed # {} <=> g # <<>>
  BY <1>1, <1>2, PassedIsPosted
<1>5. g \in Seq(Frames) /\ r \in Seq(Ids) /\ Apart(r)
  BY <1>4 DEF Posted
<1>6. /\ got[x] = <<>> /\ out[x] = <<>> /\ answered[x] = {} /\ status[x] = 0
      /\ OfEach(body) /\ OfEach(refused) /\ OfEach(got)
  BY <1>3, Here DEF HttpInv, Exchange, Tables
<1>7. At(got', got, x, g)
  <2>1. CASE passed # {}
    BY <1>3, <1>6, <2>1, AtNew
  <2>2. CASE passed = {}
    <3>1. got' = got /\ g = got[x]
      BY <1>3, <1>4, <1>6, <2>2
    <3>2. At(got', got, x, got[x])
      BY <1>6, <3>1, AtSame
    <3> QED BY <3>1, <3>2
  <2> QED BY <2>1, <2>2
<1>8. At(body', body, x, b) /\ At(refused', refused, x, r)
  BY <1>3, <1>6, AtNew
<1>9. At(left', left, x, left[x]) /\ At(answered', answered, x, answered[x])
  BY <1>3, Here, AtSame
<1>10. ListingsKept'
  <2>1. got'[x] = g /\ answered' = answered /\ \A y \in Exchanges : y # x => got'[y] = got[y]
    BY <1>3, <1>7 DEF At
  <2>2. ListIds(got[x]) = {}
    BY <1>6, NothingPosted
  <2>3. \A id : id \in open <=> \E y \in Exchanges : id \in ListIds(got[y]) \ answered[y]
    BY DEF HttpInv, ListingsKept
  <2>4. open' = open \cup ListIds(g)
    BY <1>3, <1>4
  <2> SUFFICES ASSUME NEW id
               PROVE  id \in open' <=> \E y \in Exchanges : id \in ListIds(got'[y]) \ answered'[y]
    BY DEF ListingsKept
  <2>5. ASSUME id \in ListIds(g) PROVE id \in ListIds(got'[x]) \ answered'[x]
    BY <1>6, <2>1, <2>5
  <2>6. ASSUME NEW y \in Exchanges, id \in ListIds(got[y]) \ answered[y]
        PROVE  id \in ListIds(got'[y]) \ answered'[y]
    BY <2>1, <2>2, <2>6
  <2>7. ASSUME NEW y \in Exchanges, id \in ListIds(got'[y]) \ answered'[y]
        PROVE  id \in ListIds(g) \/ id \in ListIds(got[y]) \ answered[y]
    BY <2>1, <2>7
  <2> QED BY <2>3, <2>4, <2>5, <2>6, <2>7
<1>11. ASSUME NEW st, At(stage', stage, x, st), st \in Stages \ {"idle"}, NEW o, At(out', out, x, o),
              NEW code, At(status', status, x, code), Balanced(r, answered[x], o, st, code, left[x])
       PROVE  HttpInv'
  <2>1. answered[x] \subseteq IdSet(g)
    BY <1>6
  <2>2. b \in run.bodies[x] \cup {Get}
    OBVIOUS
  <2> QED BY <1>3, <1>4, <1>7, <1>8, <1>9, <1>10, <1>11, <2>1, <2>2, ExchangeMoves
<1>12. CASE passed # {}
  <2>1. stage' = [stage EXCEPT ![x] = "call"] /\ out' = out /\ status' = status
    BY <1>3, <1>12
  <2>2. At(stage', stage, x, "call")
    BY <2>1, Here, AtNew
  <2>3. At(out', out, x, out[x]) /\ At(status', status, x, status[x])
    BY <2>1, Here, AtSame
  <2>4. Balanced(r, answered[x], out[x], "call", status[x], left[x])
    BY <1>6, Starts
  <2> QED BY <1>11, <2>2, <2>3, <2>4 DEF Stages
<1>13. CASE passed = {}
  <2>1. PICK code : code = IF r = <<>> THEN 202 ELSE 200
    OBVIOUS
  <2>2. PICK s : s = Errors(r)
    OBVIOUS
  <2>3. Respond(x, code, s)
    BY <1>3, <1>13, <2>1, <2>2
  <2>4. stage' = [stage EXCEPT ![x] = "done"] /\ status' = [status EXCEPT ![x] = code] /\ Write(x, s)
    BY <2>3 DEF Respond, End
  <2>5. s \in Seq(Sent) /\ Once(s) /\ IdSet(s) = Range(r)
    BY <1>5, <2>2, SayErrors
  <2>6. At(stage', stage, x, "done") /\ At(status', status, x, code)
    <3>1. OfEach(stage) /\ OfEach(status)
      BY Here
    <3>2. At(stage', stage, x, "done")
      BY <2>4, <3>1, AtNew
    <3>3. At(status', status, x, code)
      BY <2>4, <3>1, AtNew
    <3> QED BY <3>2, <3>3
  <2>7. PICK o : o = IF left[x] THEN out[x] ELSE out[x] \o s
    OBVIOUS
  <2>8. At(out', out, x, o)
    BY <2>4, <2>7, WriteAt
  <2>9. PICK a : a = answered[x] /\ a = {}
    BY <1>6
  <2>10. IdSet(s) \subseteq Range(r) \cup a /\ Range(r) \cup a \subseteq IdSet(s)
    BY <2>5, <2>9
  <2>11. Balanced(r, a, o, "done", code, left[x])
    BY <1>6, <2>5, <2>7, <2>10, Speaks
  <2> QED BY <1>11, <2>6, <2>8, <2>9, <2>11 DEF Stages
<1> QED BY <1>12, <1>13

-----------------------------------------------------------------------------
(* McpHttp: the other steps.                                               *)

\* A client that goes away while its body is read.
LEMMA GoneStep ==
    ASSUME HttpInv, NEW x \in Exchanges, RefuseBody(x, TRUE)
    PROVE  HttpInv'
<1>1. /\ stage[x] = "idle" /\ stage' = [stage EXCEPT ![x] = "done"]
      /\ status' = [status EXCEPT ![x] = 400] /\ out' = out /\ left' = [left EXCEPT ![x] = TRUE]
      /\ run' = run /\ body' = body /\ got' = got /\ refused' = refused /\ answered' = answered
      /\ open' = open
  BY DEF RefuseBody, End, request, session
<1>2. At(stage', stage, x, "done") /\ At(status', status, x, 400) /\ At(left', left, x, TRUE)
  <2>1. OfEach(stage) /\ OfEach(status) /\ OfEach(left)
    BY Here
  <2>2. At(stage', stage, x, "done")
    BY <1>1, <2>1, AtNew
  <2>3. At(status', status, x, 400)
    BY <1>1, <2>1, AtNew
  <2>4. At(left', left, x, TRUE)
    BY <1>1, <2>1, AtNew
  <2> QED BY <2>2, <2>3, <2>4
<1>3. At(out', out, x, out[x]) /\ At(answered', answered, x, answered[x])
  BY <1>1, Here, AtSame
<1>4. ListingsKept'
  BY <1>1, ListingsStay
<1>5. out[x] = <<>>
  BY <1>1, Here
<1>6. out[x] \in Seq(Sent) /\ Once(out[x]) /\ IdSet(out[x]) = {}
  BY <1>5, SayNothing
<1>7. Balanced(refused[x], answered[x], out[x], "done", 400, TRUE)
  BY <1>6 DEF Balanced
<1>8. answered[x] \subseteq IdSet(got[x]) /\ "done" \in Stages \ {"idle"}
  BY Here DEF Stages
<1> QED BY <1>1, <1>2, <1>3, <1>4, <1>7, <1>8, AnswerMoves

LEMMA HeadersStep ==
    ASSUME HttpInv, NEW x \in Exchanges, NEW kind, Headers(x, kind)
    PROVE  HttpInv'
<1>1. /\ stage[x] = "call" /\ kind \in {"stream", "body"}
      /\ stage' = [stage EXCEPT ![x] = kind]
      /\ IF kind = "stream" THEN Write(x, Errors(refused[x])) /\ status' = [status EXCEPT ![x] = 200]
                            ELSE out' = out /\ status' = status
      /\ run' = run /\ body' = body /\ got' = got /\ refused' = refused /\ answered' = answered
      /\ open' = open /\ left' = left
  BY DEF Headers, request, session
<1>2. CASE kind = "stream"
  BY <1>1, <1>2, ErrorsStep
<1>3. CASE kind = "body"
  <2>1. out' = out /\ status' = status
    BY <1>1, <1>3
  <2>2. At(stage', stage, x, "body")
    BY <1>1, <1>3, Here, AtNew
  <2>3. At(left', left, x, left[x])
    BY <1>1, Here, AtSame
  <2> QED BY <1>1, <2>1, <2>2, <2>3, QuietStep DEF Stages
<1> QED BY <1>1, <1>2, <1>3

LEMMA LeaveStep ==
    ASSUME HttpInv, NEW x \in Exchanges, ClientLeaves(x)
    PROVE  HttpInv'
<1>1. /\ left' = [left EXCEPT ![x] = TRUE] /\ DropUpstream(x) /\ stage[x] # "idle"
      /\ run' = run /\ body' = body /\ got' = got /\ refused' = refused /\ answered' = answered
      /\ open' = open /\ out' = out /\ status' = status
  BY DEF ClientLeaves, request, session
<1>2. At(left', left, x, TRUE)
  BY <1>1, Here, AtNew
<1>3. \E st \in Stages \ {"idle"} : At(stage', stage, x, st) /\ (st = stage[x] \/ st = "done" \/ st = "stuck")
  <2>1. OfEach(stage) /\ stage[x] \in Stages
    BY Here
  <2>2. CASE hooked[x]
    <3>1. PICK st : st = IF waiting[x] THEN "stuck" ELSE "done"
      OBVIOUS
    <3>2. stage' = [stage EXCEPT ![x] = st]
      BY <1>1, <2>2, <3>1 DEF DropUpstream
    <3>3. At(stage', stage, x, st)
      BY <2>1, <3>2, AtNew
    <3> QED BY <3>1, <3>3 DEF Stages
  <2>3. CASE ~hooked[x]
    <3>1. stage' = stage
      BY <1>1, <2>3 DEF DropUpstream
    <3>2. At(stage', stage, x, stage[x])
      BY <2>1, <3>1, AtSame
    <3> QED BY <1>1, <2>1, <3>2
  <2> QED BY <2>2, <2>3
<1>4. PICK st \in Stages \ {"idle"} : At(stage', stage, x, st) /\ (st = stage[x] \/ st = "done" \/ st = "stuck")
  BY <1>3
<1> QED BY <1>1, <1>2, <1>4, QuietStep

LEMMA CloseStep ==
    ASSUME HttpInv, Close
    PROVE  HttpInv'
<1>1. /\ left' = [x \in Exchanges |-> left[x] \/ stage[x] \in {"call", "stream", "body"}]
      /\ stage' = [x \in Exchanges |-> IF stage[x] \in {"idle", "done"} THEN stage[x]
                                       ELSE IF waiting[x] THEN "stuck" ELSE "done"]
      /\ run' = run /\ body' = body /\ got' = got /\ refused' = refused /\ answered' = answered
      /\ open' = open /\ out' = out /\ status' = status
  BY DEF Close, request, session
<1>2. ASSUME NEW x \in Exchanges
      PROVE  /\ left[x] => left'[x]
             /\ stage'[x] = stage[x] \/ stage'[x] = "done" \/ (stage'[x] = "stuck" /\ left'[x])
             /\ stage'[x] = "idle" => stage[x] = "idle" /\ (left[x] = FALSE => left'[x] = FALSE)
             /\ stage'[x] \in Stages
  <2>1. stage[x] \in Stages
    BY Here
  <2>2. left'[x] = (left[x] \/ stage[x] \in {"call", "stream", "body"})
    BY <1>1
  <2>3. stage'[x] = IF stage[x] \in {"idle", "done"} THEN stage[x]
                    ELSE IF waiting[x] THEN "stuck" ELSE "done"
    BY <1>1
  <2>4. CASE stage[x] \in {"idle", "done"}
    <3>1. stage'[x] = stage[x]
      BY <2>3, <2>4
    <3> QED BY <2>1, <2>2, <3>1
  <2>5. CASE stage[x] \notin {"idle", "done"}
    <3>1. stage'[x] = "stuck" \/ stage'[x] = "done"
      BY <2>3, <2>5
    <3>2. stage[x] = "stuck" \/ stage[x] \in {"call", "stream", "body"}
      BY <2>1, <2>5 DEF Stages
    <3>3. stage[x] = "stuck" => stage'[x] = "stuck" \/ stage'[x] = "done"
      BY <3>1
    <3> QED BY <2>2, <3>1, <3>2 DEF Stages
  <2> QED BY <2>4, <2>5
<1>3. OfEach(stage') /\ OfEach(left')
  BY <1>1 DEF OfEach
<1>4. Tables'
  <2>1. OfEach(body) /\ OfEach(refused) /\ OfEach(got) /\ OfEach(answered) /\ OfEach(out) /\ OfEach(status)
    BY DEF HttpInv, Tables
  <2>2. OfEach(body') /\ OfEach(refused') /\ OfEach(got') /\ OfEach(answered') /\ OfEach(out')
        /\ OfEach(status')
    BY <1>1, <2>1
  <2> QED BY <1>3, <2>2 DEF Tables
<1>5. ASSUME NEW x \in Exchanges PROVE Exchange(x)'
  <2>1. Exchange(x)
    BY DEF HttpInv
  <2>2. Balanced(refused[x], answered[x], out[x], stage[x], status[x], left[x])
    BY <2>1 DEF Exchange
  <2>3. PICK st, gone : st = stage'[x] /\ gone = left'[x]
    OBVIOUS
  <2>4. /\ left[x] => gone
        /\ st = stage[x] \/ st = "done" \/ (st = "stuck" /\ gone)
    BY <1>2, <2>3
  <2>5. Balanced(refused[x], answered[x], out[x], st, status[x], gone)
    <3>1. PICK r, a, o, code, before, was : /\ r = refused[x] /\ a = answered[x] /\ o = out[x]
                                           /\ code = status[x] /\ before = left[x] /\ was = stage[x]
      OBVIOUS
    <3>2. Balanced(r, a, o, was, code, before)
      BY <2>2, <3>1
    <3>3. (before => gone) /\ (st = was \/ st = "done" \/ (st = "stuck" /\ gone))
      BY <2>4, <3>1
    <3>4. Balanced(r, a, o, st, code, gone)
      BY <3>2, <3>3, StaysBalanced
    <3> QED BY <3>1, <3>4
  <2> QED BY <1>1, <1>2, <2>1, <2>3, <2>5 DEF Exchange
<1>6. ListingsKept'
  BY <1>1, ListingsStay
<1> QED BY <1>1, <1>4, <1>5, <1>6 DEF HttpInv

LEMMA StepHttp == HttpInv /\ [HttpNext]_httpVars => HttpInv'
<1> SUFFICES ASSUME HttpInv, [HttpNext]_httpVars PROVE HttpInv'
  OBVIOUS
<1>1. ASSUME NEW x \in Exchanges, Refuse(x) PROVE HttpInv'
  <2>1. Respond(x, 403, <<Told(Null)>>) /\ stage[x] = "idle"
    BY <1>1 DEF Refuse
  <2>2. /\ run' = run /\ open' = open /\ body' = body /\ got' = got /\ refused' = refused
        /\ answered' = answered /\ left' = left
    BY <1>1 DEF Refuse, request, session
  <2> QED BY <2>1, <2>2, FailStep
<1>2. ASSUME NEW x \in Exchanges, NEW gone \in BOOLEAN, RefuseBody(x, gone) PROVE HttpInv'
  <2>1. CASE gone = TRUE
    BY <1>2, <2>1, GoneStep
  <2>2. CASE gone = FALSE
    <3>1. stage[x] = "idle" /\ \E code \in {400, 413} : Respond(x, code, <<Told(Null)>>)
      BY <1>2, <2>2 DEF RefuseBody
    <3>2. PICK code \in {400, 413} : Respond(x, code, <<Told(Null)>>)
      BY <3>1
    <3>3. left' = [left EXCEPT ![x] = FALSE] \/ left' = left
      BY <1>2, <2>2 DEF RefuseBody
    <3>4. /\ run' = run /\ open' = open /\ body' = body /\ got' = got /\ refused' = refused
          /\ answered' = answered
      BY <1>2 DEF RefuseBody, request, session
    <3>5. left[x] = FALSE /\ OfEach(left)
      BY <3>1 DEF HttpInv, Exchange, Tables
    <3>6. left' = left
      BY <3>3, <3>5 DEF OfEach
    <3> QED BY <3>1, <3>2, <3>4, <3>6, FailStep
  <2> QED BY <2>1, <2>2
<1>3. ASSUME NEW x \in Exchanges, OpenStream(x) PROVE HttpInv'
  <2>1. stage[x] = "idle" /\ stage' = [stage EXCEPT ![x] = "call"] /\ left' = left
    BY <1>3 DEF OpenStream
  <2>2. /\ run' = run /\ open' = open /\ body' = body /\ got' = got /\ refused' = refused
        /\ answered' = answered /\ out' = out /\ status' = status
    BY <1>3 DEF OpenStream, request, session
  <2>3. At(stage', stage, x, "call")
    BY <2>1, Here, AtNew
  <2>4. At(left', left, x, left[x])
    BY <2>1, Here, AtSame
  <2> QED BY <2>1, <2>2, <2>3, <2>4, QuietStep DEF Stages
<1>4. ASSUME NEW x \in Exchanges, Unreachable(x) PROVE HttpInv'
  <2>1. Respond(x, 502, <<Told(Null)>>) /\ stage[x] = "call"
    BY <1>4 DEF Unreachable
  <2>2. /\ run' = run /\ open' = open /\ body' = body /\ got' = got /\ refused' = refused
        /\ answered' = answered /\ left' = left
    BY <1>4 DEF Unreachable, request, session
  <2> QED BY <2>1, <2>2, FailStep
<1>5. ASSUME NEW x \in Exchanges, StreamEnds(x) PROVE HttpInv'
  <2>1. stage' = [stage EXCEPT ![x] = "done"] /\ left' = left
    BY <1>5 DEF StreamEnds, End
  <2>2. /\ run' = run /\ open' = open /\ body' = body /\ got' = got /\ refused' = refused
        /\ answered' = answered /\ out' = out /\ status' = status
    BY <1>5 DEF StreamEnds, request, session
  <2>3. At(stage', stage, x, "done")
    BY <2>1, Here, AtNew
  <2>4. At(left', left, x, left[x])
    BY <2>1, Here, AtSame
  <2> QED BY <2>1, <2>2, <2>3, <2>4, QuietStep DEF Stages
<1>6. ASSUME NEW x \in Exchanges, BodyRefused(x) PROVE HttpInv'
  <2>1. Respond(x, 502, <<Told(Null)>>) /\ stage[x] = "body"
    BY <1>6 DEF BodyRefused
  <2>2. /\ run' = run /\ open' = open /\ body' = body /\ got' = got /\ refused' = refused
        /\ answered' = answered /\ left' = left
    BY <1>6 DEF BodyRefused, request, session
  <2> QED BY <2>1, <2>2, FailStep
<1>7. ASSUME NEW x \in Exchanges, BodyEmpty(x) PROVE HttpInv'
  <2>1. /\ stage[x] = "body" /\ stage' = [stage EXCEPT ![x] = "done"]
        /\ status' = [status EXCEPT ![x] = 200] /\ Write(x, Errors(refused[x]))
    BY <1>7 DEF BodyEmpty, Respond, End
  <2>2. /\ run' = run /\ open' = open /\ body' = body /\ got' = got /\ refused' = refused
        /\ answered' = answered /\ left' = left
    BY <1>7 DEF BodyEmpty, request, session
  <2> QED BY <2>1, <2>2, ErrorsStep
<1>8. ASSUME (\E x \in Exchanges : Drain(x)) \/ UNCHANGED httpVars PROVE HttpInv'
  <2>1. /\ run' = run /\ stage' = stage /\ open' = open /\ body' = body /\ got' = got
        /\ refused' = refused /\ answered' = answered /\ left' = left /\ out' = out /\ status' = status
    BY <1>8 DEF Drain, httpVars, request, session
  <2>2. Tables' /\ ListingsKept'
    BY <2>1, ListingsStay DEF HttpInv, Tables, OfEach
  <2>3. ASSUME NEW x \in Exchanges PROVE Exchange(x)'
    <3>1. Exchange(x)
      BY DEF HttpInv
    <3> QED BY <2>1, <3>1 DEF Exchange
  <2> QED BY <2>1, <2>2, <2>3 DEF HttpInv
<1>9. ASSUME NEW x \in Exchanges, NEW b \in run.bodies[x], NEW passed \in SUBSET DOMAIN b.frames,
             Post(x, b, passed)
      PROVE  HttpInv'
  BY <1>9, PostStep
<1>10. ASSUME NEW x \in Exchanges, NEW es \in EntryLists(x), NEW refusals \in SUBSET DOMAIN es,
              Body(x, es, refusals) \/ \E slow \in BOOLEAN : StreamEvent(x, es, refusals, slow)
       PROVE  HttpInv'
  BY <1>10, BodyStep, StreamStep
<1>11. CASE UNCHANGED httpVars
  BY <1>8, <1>11
<1>12. CASE HttpNext
  BY <1>1, <1>2, <1>3, <1>4, <1>5, <1>6, <1>7, <1>8, <1>9, <1>10, <1>12, HeadersStep, LeaveStep,
     CloseStep DEF HttpNext
<1> QED BY <1>11, <1>12

LEMMA InitHttp == HttpInit => HttpInv
<1> SUFFICES ASSUME HttpInit PROVE HttpInv
  OBVIOUS
<1>1. Tables /\ run \in Runs
  BY DEF HttpInit, Tables, OfEach
<1>2. ASSUME NEW x \in Exchanges
      PROVE  /\ stage[x] = "idle" /\ body[x] = Get /\ refused[x] = <<>> /\ got[x] = <<>>
             /\ answered[x] = {} /\ out[x] = <<>> /\ status[x] = 0 /\ left[x] = FALSE
  BY DEF HttpInit
<1>3. ListingsKept
  <2>1. \A x \in Exchanges : ListIds(got[x]) = {}
    BY <1>2, NothingPosted
  <2>2. open = {}
    BY DEF HttpInit
  <2> QED BY <2>1, <2>2 DEF ListingsKept
<1>4. ASSUME NEW x \in Exchanges PROVE Exchange(x)
  <2>1. PICK g, r : g = got[x] /\ r = refused[x]
    OBVIOUS
  <2>2. g \in Seq(Frames) /\ IdSet(g) = {} /\ DOMAIN g = {} /\ g = <<>>
    BY <1>2, <2>1, NothingPosted
  <2>3. r \in Seq(Ids) /\ DOMAIN r = {}
    <3>1. r = <<>>
      BY <1>2, <2>1
    <3> QED BY <3>1
  <2>4. Posted(body[x], g, r)
    <3>1. Apart(r) /\ IdSet(g) \subseteq IdSet(body[x].frames) /\ Range(r) \cap IdSet(g) = {}
      BY <2>2, <2>3 DEF Apart
    <3> QED BY <2>2, <2>3, <3>1 DEF Posted
  <2>5. Balanced(refused[x], answered[x], out[x], stage[x], status[x], left[x])
    BY <1>2, Starts
  <2> QED BY <1>2, <2>1, <2>4, <2>5 DEF Exchange, Stages
<1> QED BY <1>1, <1>3, <1>4 DEF HttpInv

LEMMA HttpImplies == HttpInv => OnlyPassedTravels /\ ExchangesBalance
<1> SUFFICES ASSUME HttpInv PROVE OnlyPassedTravels /\ ExchangesBalance
  OBVIOUS
<1>1. ASSUME NEW x \in Exchanges
      PROVE  /\ got[x] # <<>> => Asked(x) = IdsOf(body[x]) \ Range(refused[x])
             /\ \A f, g \in DOMAIN got[x] : f < g =>
                  \E i, j \in DOMAIN body[x].frames :
                     i < j /\ got[x][f] = body[x].frames[i] /\ got[x][g] = body[x].frames[j]
  <2>1. /\ got[x] # <<>> => IdSet(got[x]) = IdSet(body[x].frames) \ Range(refused[x])
        /\ \A f, g \in DOMAIN got[x] : f < g =>
                  \E i, j \in DOMAIN body[x].frames :
                     i < j /\ got[x][f] = body[x].frames[i] /\ got[x][g] = body[x].frames[j]
        /\ body[x] \in run.bodies[x] \cup {Get}
    BY DEF HttpInv, Exchange, Posted
  <2>2. IdSet(body[x].frames) = IdsOf(body[x])
    BY <2>1, BodyFacts DEF HttpInv
  <2>3. Asked(x) = IdSet(got[x])
    BY AskedIs
  <2>4. got[x] # <<>> => Asked(x) = IdsOf(body[x]) \ Range(refused[x])
    BY <2>1, <2>2, <2>3
  <2> QED BY <2>1, <2>4
<1>2. OnlyPassedTravels
  BY <1>1 DEF OnlyPassedTravels
<1>3. ASSUME NEW x \in Exchanges, NEW id \in Ids
      PROVE  Answers(x, id) <= 1 /\ (id \in IdSet(out[x]) => Answers(x, id) = 1)
  <2>1. Once(out[x])
    BY DEF HttpInv, Exchange, Balanced
  <2>2. id # Null
    BY NoNull
  <2>3. PICK there : there = {i \in DOMAIN out[x] : out[x][i].id = id}
    OBVIOUS
  <2>4. CASE there = {}
    <3>1. Cardinality(there) = 0 /\ id \notin IdSet(out[x])
      BY <2>3, <2>4, FS_EmptySet DEF IdSet
    <3> QED BY <2>3, <3>1 DEF Answers
  <2>5. CASE there # {}
    <3>1. PICK i : i \in there
      BY <2>5
    <3>2. there = {i}
      BY <2>1, <2>2, <2>3, <3>1 DEF Once
    <3>3. Cardinality(there) = 1
      BY <3>2, FS_Singleton
    <3> QED BY <2>3, <3>3 DEF Answers
  <2> QED BY <2>4, <2>5
<1>4. ASSUME NEW x \in Exchanges, status[x] = 200, ~left[x]
      PROVE  /\ \A id \in Range(refused[x]) : Answers(x, id) = 1
             /\ \A id \in answered[x] : Answers(x, id) = 1 \/ Cut(x)
  <2>1. Balanced(refused[x], answered[x], out[x], stage[x], status[x], left[x])
    BY Here
  <2>2. /\ Range(refused[x]) \subseteq IdSet(out[x])
        /\ answered[x] \subseteq IdSet(out[x]) \/ Ended(stage[x], out[x])
    BY <1>4, <2>1 DEF Balanced
  <2>3. Range(refused[x]) \subseteq Ids
    BY Here DEF Range
  <2>4. answered[x] \subseteq Ids
    <3>1. got[x] \in Seq(Frames) /\ answered[x] \subseteq IdSet(got[x])
      BY Here
    <3> QED BY <3>1, IdsAreIds
  <2> QED BY <1>3, <2>2, <2>3, <2>4 DEF Ended, Cut
<1>5. EachIsAnsweredOnce
  BY <1>3, <1>4 DEF EachIsAnsweredOnce
<1>6. ListingsAreAccounted
  <2>1. \A id : id \in open <=> \E x \in Exchanges : id \in Listed(x) \ answered[x]
    BY AskedIs DEF HttpInv, ListingsKept
  <2> QED BY <2>1 DEF ListingsAreAccounted
<1> QED BY <1>2, <1>5, <1>6 DEF ExchangesBalance

\* The upstream of the HTTP listener gets a batch only after all of it was judged,
\* and then what passed, in its order and nothing else, for any bodies, verdicts,
\* events, departures and limits (http.ts: handlePost).
THEOREM OnlyWhatPassedTravels == HttpSpec => []OnlyPassedTravels
<1> QED BY InitHttp, StepHttp, HttpImplies, PTL DEF HttpSpec

\* No request is answered twice, one that was refused or answered is answered in
\* an exchange that goes well, and a listing is open from the request that went up
\* to the answer that was judged, however exchanges interleave and whenever a
\* client or the upstream is lost (http.ts: pumpSse, relayJsonResponse; wrap.ts:
\* inventorySequences).
THEOREM ExchangesStayBalanced == HttpSpec => []ExchangesBalance
<1> QED BY InitHttp, StepHttp, HttpImplies, PTL DEF HttpSpec

=============================================================================
