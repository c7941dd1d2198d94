---------------------------- MODULE AuditProofs -----------------------------
(***************************************************************************)
(* What holds of the audit trail: of the audit writer, for every number of *)
(* records, refusals and deaths (AuditLog); of the processes that take     *)
(* turns to be that writer, for any number of them, as long as starts and  *)
(* stops do not overlap and every argv names agentwall (WriterLock); and   *)
(* of what anchor passes leave behind, for any number of passes, segments, *)
(* kills and losses (Anchor).                                              *)
(***************************************************************************)
EXTENDS AuditLog, WriterLock, Anchor, Sums, SequenceTheorems


\* The inductive form of "the file is a chain": cell i belongs to record number
\* (i-1) \div 3, is its part (i-1) % 3 + 1, and links to the record before it.
CleanFile(f) ==
    /\ Len(f) % RecSize = 0
    /\ \A i \in 1 .. Len(f) :
         /\ f[i].part = ((i - 1) % RecSize) + 1
         /\ f[i].rec.idx = (i - 1) \div RecSize
         /\ f[i].part > 1 => f[i].rec = f[i - 1].rec
         /\ i > RecSize => f[i].rec.prev = f[i - RecSize].rec.id

CleanState == ~damaged => /\ CleanFile(file)
                          /\ ChainMatchesDisk

LEMMA PrefixType ==
    ASSUME NEW r \in Records, NEW p \in 0 .. RecSize
    PROVE  /\ Prefix(r, p) \in Seq(Cells)
           /\ Len(Prefix(r, p)) = p
           /\ \A i \in 1 .. p : Prefix(r, p)[i] = [rec |-> r, part |-> i]
  BY DEF Prefix, Cells, RecSize

LEMMA ChainedType ==
    ASSUME TypeOK, nextId \in Ids, NEW missed \in Nat
    PROVE  Chained(nextId, missed) \in Records
  BY DEF TypeOK, Chained, Records, Ids

LEMMA ConcatFacts ==
    ASSUME NEW f \in Seq(Cells), NEW t \in Seq(Cells)
    PROVE  /\ f \o t \in Seq(Cells)
           /\ Len(f \o t) = Len(f) + Len(t)
           /\ \A i \in 1 .. Len(f) : (f \o t)[i] = f[i]
           /\ \A i \in 1 .. Len(t) : (f \o t)[Len(f) + i] = t[i]
  OBVIOUS

LEMMA Mod3 ==
    ASSUME NEW n \in Nat, n % 3 = 0, NEW k \in 1 .. 3
    PROVE  /\ ((n + k - 1) % 3) + 1 = k
           /\ (n + k - 1) \div 3 = n \div 3
           /\ n > 0 => /\ n >= 3
                       /\ ((n - 1) % 3) + 1 = 3
                       /\ ((n - 1 - 1) % 3) + 1 = 2
                       /\ (n - 1) \div 3 + 1 = n \div 3
           /\ (n + 3) % 3 = 0
  OBVIOUS

LEMMA CleanExtend ==
    ASSUME NEW f \in Seq(Cells), CleanFile(f),
           NEW r \in Records,
           r.idx = Len(f) \div RecSize,
           f # <<>> => r.prev = f[Len(f)].rec.id,
           NEW g \in Seq(Cells),
           Len(g) = Len(f) + 3,
           \A i \in 1 .. Len(f) : g[i] = f[i],
           \A i \in 1 .. 3 : g[Len(f) + i] = [rec |-> r, part |-> i]
    PROVE  CleanFile(g)
<1>2. /\ Len(g) = Len(f) + 3
      /\ \A i \in 1 .. Len(f) : g[i] = f[i]
      /\ \A i \in 1 .. 3 : g[Len(f) + i] = [rec |-> r, part |-> i]
  OBVIOUS
<1>3. Len(f) \in Nat /\ Len(f) % 3 = 0
  BY DEF CleanFile, RecSize
<1>4. Len(g) % 3 = 0
  BY <1>2, <1>3
<1>5. ASSUME NEW i \in 1 .. Len(g), i <= Len(f)
      PROVE  /\ g[i].part = ((i - 1) % 3) + 1
             /\ g[i].rec.idx = (i - 1) \div 3
             /\ g[i].part > 1 => g[i].rec = g[i - 1].rec
             /\ i > 3 => g[i].rec.prev = g[i - 3].rec.id
  <2>1. i \in 1 .. Len(f) /\ g[i] = f[i]
    BY <1>2, <1>3, <1>5
  <2>2. f[i].part > 1 => i - 1 \in 1 .. Len(f)
    <3>1. f[i].part = ((i - 1) % 3) + 1
      BY <2>1 DEF CleanFile, RecSize
    <3>2. i = 1 => ((i - 1) % 3) + 1 = 1
      OBVIOUS
    <3>3. i = 1 => f[i].part = 1
      BY <3>1, <3>2
    <3> QED BY <2>1, <3>3
  <2>3. i > 3 => i - 3 \in 1 .. Len(f)
    BY <2>1
  <2> QED BY <1>2, <2>1, <2>2, <2>3 DEF CleanFile, RecSize
<1>6. ASSUME NEW k \in 1 .. 3
      PROVE  LET i == Len(f) + k IN
             /\ g[i].part = ((i - 1) % 3) + 1
             /\ g[i].rec.idx = (i - 1) \div 3
             /\ g[i].part > 1 => g[i].rec = g[i - 1].rec
             /\ i > 3 => g[i].rec.prev = g[i - 3].rec.id
  <2> DEFINE i == Len(f) + k
  <2>1. g[i].part = k /\ g[i].rec = r
    BY <1>2
  <2>2. ((i - 1) % 3) + 1 = k /\ (i - 1) \div 3 = Len(f) \div 3
    <3> DEFINE n == Len(f)
    <3>1. n \in Nat /\ n % 3 = 0
      BY <1>3
    <3> HIDE DEF n
    <3>2. ((n + k - 1) % 3) + 1 = k /\ (n + k - 1) \div 3 = n \div 3
      BY <3>1, Mod3
    <3> QED BY <3>2 DEF n
  <2>3. k > 1 => g[i - 1].rec = r
    <3>1. k > 1 => k - 1 \in 1 .. 3 /\ i - 1 = Len(f) + (k - 1)
      BY <1>3
    <3> QED BY <1>2, <3>1
  <2>4. i > 3 => g[i - 3].rec.id = r.prev
    <3>1. CASE Len(f) = 0
      BY <3>1
    <3>2. CASE Len(f) > 0
      <4>1. Len(f) >= 3 /\ f # <<>>
        BY <1>3, <3>2
      <4>2. Len(f) \in 1 .. Len(f) /\ Len(f) - 1 \in 1 .. Len(f) /\ Len(f) - 2 \in 1 .. Len(f)
        BY <4>1, <1>3
      <4>3. f[Len(f)].part = 3 /\ f[Len(f) - 1].part = 2
        <5>1. ((Len(f) - 1) % 3) + 1 = 3 /\ ((Len(f) - 1 - 1) % 3) + 1 = 2
          <6> 1 \in 1 .. 3
            OBVIOUS
          <6> QED BY <1>3, <3>2, Mod3
        <5> QED BY <5>1, <4>2 DEF CleanFile, RecSize
      <4>4. f[Len(f)].rec = f[Len(f) - 1].rec
        <5>1. f[Len(f)].part > 1
          BY <4>3
        <5> QED BY <4>2, <5>1 DEF CleanFile
      <4>5. f[Len(f) - 1].rec = f[Len(f) - 1 - 1].rec
        <5>1. f[Len(f) - 1].part > 1
          BY <4>3
        <5> QED BY <4>2, <5>1 DEF CleanFile
      <4>6. /\ g[i - 3] = f[i - 3]
            /\ i - 3 = Len(f) \/ i - 3 = Len(f) - 1 \/ i - 3 = Len(f) - 2
        <5>1. i - 3 = Len(f) \/ i - 3 = Len(f) - 1 \/ i - 3 = Len(f) - 2
          BY <1>3
        <5>2. i - 3 \in 1 .. Len(f)
          BY <5>1, <4>2
        <5> QED BY <5>1, <5>2, <1>2
      <4>7. f[i - 3].rec = f[Len(f)].rec
        BY <4>4, <4>5, <4>6, <1>3
      <4> QED BY <4>1, <4>6, <4>7
    <3> QED BY <3>1, <3>2, <1>3
  <2> QED BY <2>1, <2>2, <2>3, <2>4 DEF RecSize
<1>7. ASSUME NEW i \in 1 .. Len(g), ~(i <= Len(f))
      PROVE  i - Len(f) \in 1 .. 3 /\ i = Len(f) + (i - Len(f))
  BY <1>2, <1>3, <1>7
<1>8. ASSUME NEW i \in 1 .. Len(g)
      PROVE  /\ g[i].part = ((i - 1) % 3) + 1
             /\ g[i].rec.idx = (i - 1) \div 3
             /\ g[i].part > 1 => g[i].rec = g[i - 1].rec
             /\ i > 3 => g[i].rec.prev = g[i - 3].rec.id
  <2>1. CASE i <= Len(f)
    BY <1>5, <2>1
  <2>2. CASE ~(i <= Len(f))
    <3> DEFINE k == i - Len(f)
    <3>1. k \in 1 .. 3 /\ i = Len(f) + k
      BY <1>7, <2>2
    <3> HIDE DEF k
    <3> QED BY <1>6, <3>1
  <2> QED BY <2>1, <2>2
<1> QED BY <1>4, <1>8 DEF CleanFile, RecSize

LEMMA CleanAppend ==
    ASSUME NEW f \in Seq(Cells), CleanFile(f), NEW r \in Records,
           r.idx = Len(f) \div RecSize,
           f # <<>> => r.prev = f[Len(f)].rec.id
    PROVE  CleanFile(f \o Line(r))
<1>1. PICK t \in Seq(Cells) : /\ t = Line(r)
                             /\ Len(t) = 3
                             /\ \A i \in 1 .. 3 : t[i] = [rec |-> r, part |-> i]
  BY PrefixType DEF Line, RecSize
<1> DEFINE g == f \o t
<1>2. /\ g \in Seq(Cells)
      /\ Len(g) = Len(f) + Len(t)
      /\ \A i \in 1 .. Len(f) : g[i] = f[i]
      /\ \A i \in 1 .. Len(t) : g[Len(f) + i] = t[i]
  BY ConcatFacts, <1>1
<1>0. g = f \o Line(r)
  BY <1>1
<1> HIDE DEF g
<1>3. /\ Len(g) = Len(f) + 3
      /\ \A i \in 1 .. 3 : g[Len(f) + i] = [rec |-> r, part |-> i]
  BY <1>1, <1>2
<1>4. CleanFile(g)
  BY <1>2, <1>3, CleanExtend
<1> QED BY <1>0, <1>4

\* In a clean file the lines are exactly the triples, all of them intact.
LEMMA CleanStarts ==
    ASSUME NEW f \in Seq(Cells), CleanFile(f), NEW i \in 1 .. Len(f)
    PROVE  /\ i \in Starts(f) <=> i % 3 = 1
           /\ i \in Starts(f) => /\ i + 2 \in 1 .. Len(f)
                                 /\ Intact(f, i)
                                 /\ f[i + 2].part = NL
                                 /\ f[i + 2].rec = f[i].rec
<1> DEFINE n == Len(f)
<1>1. n \in Nat /\ n % 3 = 0 /\ i \in 1 .. n
  <2>1. n \in Nat
    OBVIOUS
  <2>2. i \in 1 .. n
    OBVIOUS
  <2>3. Len(f) % RecSize = 0
    BY Zenon DEF CleanFile
  <2>4. n % 3 = 0
    BY <2>3 DEF RecSize
  <2> QED BY <2>1, <2>2, <2>4
<1>2. \A j \in 1 .. n : f[j].part = ((j - 1) % 3) + 1
  BY DEF CleanFile, RecSize
<1>3. i \in Starts(f) <=> i % 3 = 1
  <2>1. CASE i = 1
    BY <2>1, <1>1 DEF Starts
  <2>2. CASE i > 1
    <3>1. i - 1 \in 1 .. n
      BY <2>2, <1>1
    <3>2. f[i - 1].part = ((i - 1 - 1) % 3) + 1
      BY <3>1, <1>2
    <3>3. ((i - 1 - 1) % 3) + 1 = 3 <=> i % 3 = 1
      BY <2>2
    <3> QED BY <2>2, <3>2, <3>3 DEF Starts, NL
  <2> QED BY <2>1, <2>2, <1>1
<1>4. ASSUME i % 3 = 1
      PROVE  /\ i + 1 \in 1 .. n /\ i + 2 \in 1 .. n
             /\ ((i - 1) % 3) + 1 = 1
             /\ ((i + 1 - 1) % 3) + 1 = 2
             /\ ((i + 2 - 1) % 3) + 1 = 3
  <2> HIDE DEF n
  <2> QED BY <1>1, <1>4
<1>5. ASSUME i % 3 = 1
      PROVE  /\ f[i].part = 1 /\ f[i + 1].part = 2 /\ f[i + 2].part = 3
             /\ f[i + 1].rec = f[i].rec /\ f[i + 2].rec = f[i + 1].rec
  <2>1. /\ f[i].part = 1 /\ f[i + 1].part = 2 /\ f[i + 2].part = 3
    BY <1>1, <1>2, <1>4, <1>5
  <2>2. \A j \in 1 .. n : f[j].part > 1 => f[j].rec = f[j - 1].rec
    BY DEF CleanFile
  <2>3. f[i + 1].rec = f[i + 1 - 1].rec /\ f[i + 2].rec = f[i + 2 - 1].rec
    BY <1>4, <1>5, <2>1, <2>2
  <2> QED BY <2>1, <2>3
<1>6. ASSUME i % 3 = 1
      PROVE  Intact(f, i)
  <2>1. f[i + 1] \in Cells
    BY <1>4, <1>6
  <2>2. f[i + 1] = [rec |-> f[i].rec, part |-> 2]
    BY <2>1, <1>5, <1>6 DEF Cells
  <2> QED BY <2>2, <1>4, <1>5, <1>6 DEF Intact, NL
<1> QED BY <1>3, <1>4, <1>5, <1>6 DEF NL

-----------------------------------------------------------------------------
(* Type correctness.                                                       *)

LEMMA DiscardType ==
    ASSUME NEW f \in Seq(Cells), NEW mark \in Nat, NEW opens \in BOOLEAN
    PROVE  Discard(f, mark, opens) \in Seq(Cells)
<1>1. CASE Len(f) > mark
  <2>1. SubSeq(f, 1, mark) \in Seq(Cells)
    BY <1>1
  <2> QED BY <2>1 DEF Discard
<1>2. CASE ~(Len(f) > mark)
  BY <1>2 DEF Discard
<1> QED BY <1>1, <1>2

LEMMA AppendRefusedType ==
    ASSUME TypeOK, NEW r \in Records, AppendRefused(r)
    PROVE  /\ file' \in Seq(Cells)
           /\ damaged' \in BOOLEAN
           /\ faults' \in 0 .. MaxFaults
           /\ committed' = committed
<1>1. PICK p \in 0 .. RecSize - 1, opens \in BOOLEAN :
         /\ file' = Discard(file \o Prefix(r, p), committed, opens)
         /\ damaged' = (damaged \/ Len(file') > Len(file))
  BY DEF AppendRefused
<1>2. Prefix(r, p) \in Seq(Cells)
  <2>1. p \in 0 .. RecSize
    BY DEF RecSize
  <2> QED BY <2>1, PrefixType
<1>3. file \o Prefix(r, p) \in Seq(Cells)
  BY <1>2, ConcatFacts DEF TypeOK
<1>4. file' \in Seq(Cells)
  BY <1>1, <1>3, DiscardType DEF TypeOK
<1>5. faults' \in 0 .. MaxFaults
  BY BoundsAssumption DEF AppendRefused, TypeOK
<1>6. damaged' \in BOOLEAN
  BY <1>1 DEF TypeOK
<1> QED BY <1>4, <1>5, <1>6 DEF AppendRefused

LEMMA AppendOkType ==
    ASSUME TypeOK, NEW r \in Records, AppendOk(r)
    PROVE  /\ file' \in Seq(Cells)
           /\ damaged' = damaged
           /\ faults' = faults
           /\ committed' = committed + 3
<1>1. Line(r) \in Seq(Cells)
  <2>1. RecSize \in 0 .. RecSize
    BY DEF RecSize
  <2> QED BY <2>1, PrefixType DEF Line
<1> QED BY <1>1, ConcatFacts DEF AppendOk, TypeOK, RecSize

LEMMA InFlightType ==
    ASSUME TypeOK, NEW p \in 0 .. RecSize
    PROVE  /\ InFlight(p) \in Seq(Cells)
           /\ pc = "idle" => Len(InFlight(p)) = 0
           /\ pc # "idle" => /\ nextId \in Ids
                             /\ Len(InFlight(p)) = p
<1>1. CASE pc = "idle"
  BY <1>1 DEF InFlight
<1>2. CASE pc # "idle"
  <2>1. nextId \in Ids
    BY <1>2, BoundsAssumption DEF TypeOK, Ids
  <2> DEFINE missed == IF pc = "marker" THEN gap ELSE 0
  <2>2. missed \in Nat
    BY DEF TypeOK
  <2>3. Chained(nextId, missed) \in Records
    BY <2>1, <2>2, ChainedType
  <2>4. InFlight(p) = Prefix(Chained(nextId, missed), p)
    BY <1>2 DEF InFlight
  <2> HIDE DEF missed
  <2> QED BY <2>1, <2>3, <2>4, PrefixType, <1>2
<1> QED BY <1>1, <1>2

LEMMA TypeStep ==
    ASSUME TypeOK, [Next]_vars
    PROVE  TypeOK'
<1> USE BoundsAssumption
<1>1. CASE EmitStart
  BY <1>1 DEF TypeOK, EmitStart
<1>2. CASE MarkerStored
  <2>1. nextId \in Ids /\ gap \in Nat
    BY <1>2 DEF MarkerStored, TypeOK, Ids
  <2> DEFINE m == Chained(nextId, gap)
  <2>2. m \in Records /\ AppendOk(m) /\ Commit(m)
    BY <1>2, <2>1, ChainedType DEF MarkerStored
  <2>3. m.idx \in Nat /\ m.id \in Ids
    BY <2>2 DEF Records
  <2> HIDE DEF m
  <2>4. /\ chain' \in [idx : Nat, prev : Ids \cup {Null}]
        /\ console' \subseteq Ids
    BY <2>2, <2>3 DEF Commit, TypeOK
  <2> QED BY <1>2, <2>1, <2>2, <2>4, AppendOkType DEF TypeOK, MarkerStored
<1>3. CASE MarkerRefused
  <2>1. nextId \in Ids /\ gap \in Nat
    BY <1>3 DEF MarkerRefused, TypeOK, Ids
  <2>2. Chained(nextId, gap) \in Records
    BY <2>1, ChainedType
  <2> QED BY <1>3, <2>1, <2>2, AppendRefusedType DEF TypeOK, MarkerRefused
<1>4. CASE RecordStored
  <2>1. nextId \in Ids
    BY <1>4 DEF RecordStored, TypeOK, Ids
  <2> DEFINE m == Chained(nextId, 0)
  <2>2. m \in Records /\ AppendOk(m) /\ Commit(m)
    BY <1>4, <2>1, ChainedType DEF RecordStored
  <2>3. m.idx \in Nat /\ m.id \in Ids
    BY <2>2 DEF Records
  <2> HIDE DEF m
  <2>4. /\ chain' \in [idx : Nat, prev : Ids \cup {Null}]
        /\ console' \subseteq Ids
    BY <2>2, <2>3 DEF Commit, TypeOK
  <2> QED BY <1>4, <2>1, <2>2, <2>4, AppendOkType DEF TypeOK, RecordStored
<1>5. CASE RecordDropped
  <2>1. nextId \in Ids
    BY <1>5 DEF RecordDropped, TypeOK, Ids
  <2>2. Chained(nextId, 0) \in Records
    BY <2>1, ChainedType
  <2> QED BY <1>5, <2>1, <2>2, AppendRefusedType DEF TypeOK, RecordDropped
<1>6. CASE Kill
  <2>1. PICK p \in 0 .. RecSize :
           /\ file' = file \o InFlight(p)
           /\ damaged' = (damaged \/ Len(file') - Len(file) \in 1 .. RecSize - 1)
    BY <1>6 DEF Kill
  <2>2. file' \in Seq(Cells)
    BY <2>1, InFlightType, ConcatFacts DEF TypeOK
  <2>3. damaged' \in BOOLEAN
    BY <2>1 DEF TypeOK
  <2>4. nextId' \in 1 .. MaxRecords + 1
    BY <1>6 DEF Kill, TypeOK
  <2>5. chain' \in [idx : Nat, prev : Ids \cup {Null}]
    BY <1>6 DEF Kill, Fresh
  <2>6. /\ up' = FALSE /\ pc' = "idle" /\ kills' \in 0 .. MaxKills
        /\ committed' = 0 /\ gap' = 0 /\ dropped' = 0
        /\ UNCHANGED <<console, faults, bootId>>
    BY <1>6 DEF Kill, TypeOK
  <2> QED BY <2>2, <2>3, <2>4, <2>5, <2>6 DEF TypeOK
<1>7. CASE Boot
  <2>1. chain' \in [idx : Nat, prev : Ids \cup {Null}]
    <3>1. CASE chain' = Fresh
      BY <3>1 DEF Fresh
    <3>2. CASE \E i \in 1 .. Len(file) :
                 chain' = [idx |-> file[i].rec.idx + 1, prev |-> file[i].rec.id]
      <4>1. PICK i \in 1 .. Len(file) :
                 chain' = [idx |-> file[i].rec.idx + 1, prev |-> file[i].rec.id]
        BY <3>2
      <4>2. file[i] \in Cells
        BY DEF TypeOK
      <4>3. file[i].rec \in Records
        BY <4>2 DEF Cells
      <4>4. file[i].rec.idx \in Nat /\ file[i].rec.id \in Ids
        BY <4>3 DEF Records
      <4> QED BY <4>1, <4>4
    <3> QED BY <1>7, <3>1, <3>2 DEF Boot, IntactStarts, Starts
  <2> QED BY <1>7, <2>1 DEF Boot, TypeOK
<1>8. CASE UNCHANGED vars
  BY <1>8 DEF TypeOK, vars
<1> QED BY <1>1, <1>2, <1>3, <1>4, <1>5, <1>6, <1>7, <1>8 DEF Next

\* Type correctness of the audit writer: in particular emit() always has an id
\* left for the record it is about to append.
THEOREM TypeCorrect == Spec => []TypeOK
<1>1. Init => TypeOK
  <2>1. Fresh \in [idx : Nat, prev : Ids \cup {Null}]
    BY DEF Fresh
  <2>2. <<>> \in Seq(Cells)
    OBVIOUS
  <2>3. 1 \in 1 .. MaxRecords + 1 /\ 0 \in 0 .. MaxFaults /\ 0 \in 0 .. MaxKills
    BY BoundsAssumption
  <2> SUFFICES ASSUME Init PROVE TypeOK
    OBVIOUS
  <2>4. up \in BOOLEAN /\ damaged \in BOOLEAN /\ console \subseteq Ids
    BY DEF Init
  <2>5. pc \in {"idle", "marker", "record"} /\ pc # "marker" /\ pc # "record"
    BY DEF Init
  <2> QED BY <2>1, <2>2, <2>3, <2>4, <2>5 DEF Init, TypeOK
<1> QED BY <1>1, TypeStep, PTL DEF Spec

-----------------------------------------------------------------------------
(* The chain on disk.                                                      *)

\* A writer in step with a clean file stamps the next record correctly.
LEMMA NextRecordLinks ==
    ASSUME TypeOK, CleanFile(file), ChainMatchesDisk, up, ~damaged,
           NEW missed \in Nat
    PROVE  /\ Chained(nextId, missed).idx = Len(file) \div RecSize
           /\ file # <<>> => Chained(nextId, missed).prev = file[Len(file)].rec.id
<1>1. /\ Chained(nextId, missed).idx = chain.idx
      /\ Chained(nextId, missed).prev = chain.prev
  BY DEF Chained
<1>2. CASE file = <<>>
  <2>1. chain.idx = 0
    BY <1>2 DEF ChainMatchesDisk, Fresh
  <2>2. Len(file) = 0 /\ 0 \div 3 = 0
    BY <1>2
  <2> QED BY <1>1, <1>2, <2>1, <2>2 DEF RecSize
<1>3. CASE file # <<>>
  <2> DEFINE n == Len(file)
  <2>1. n \in Nat /\ n > 0 /\ n % 3 = 0
    BY <1>3 DEF TypeOK, CleanFile, RecSize
  <2>2. chain.idx = file[n].rec.idx + 1 /\ chain.prev = file[n].rec.id
    BY <1>3 DEF ChainMatchesDisk
  <2>3. file[n].rec.idx = (n - 1) \div 3
    <3>1. n \in 1 .. Len(file)
      BY <2>1
    <3>2. file[n].rec.idx = (n - 1) \div RecSize
      BY <3>1 DEF CleanFile
    <3> QED BY <3>2 DEF RecSize
  <2> HIDE DEF n
  <2>4. (n - 1) \div 3 + 1 = n \div 3
    <3>1. 1 \in 1 .. 3
      OBVIOUS
    <3> QED BY <2>1, <3>1, Mod3
  <2> QED BY <1>1, <2>2, <2>3, <2>4 DEF n, RecSize
<1> QED BY <1>2, <1>3

\* A stored record leaves the file clean and the writer in step with it.
LEMMA StoreClean ==
    ASSUME TypeOK, CleanState, up, up', nextId \in Ids, NEW missed \in Nat,
           AppendOk(Chained(nextId, missed)), Commit(Chained(nextId, missed))
    PROVE  CleanState'
<1> SUFFICES ASSUME ~damaged'
             PROVE  CleanFile(file') /\ ChainMatchesDisk'
  BY DEF CleanState
<1> DEFINE r == Chained(nextId, missed)
<1>1. r \in Records /\ r.idx = chain.idx /\ r.id = nextId
  BY ChainedType DEF Chained
<1>2. ~damaged /\ CleanFile(file) /\ ChainMatchesDisk
  BY DEF AppendOk, CleanState
<1>3. r.idx = Len(file) \div RecSize /\ (file # <<>> => r.prev = file[Len(file)].rec.id)
  BY <1>2, NextRecordLinks
<1>4. file' = file \o Line(r) /\ committed' = committed + 3
  BY DEF AppendOk, RecSize
<1>5. chain' = [idx |-> r.idx + 1, prev |-> r.id]
  BY DEF Commit
<1> HIDE DEF r
<1>6. CleanFile(file')
  BY <1>1, <1>2, <1>3, <1>4, CleanAppend DEF TypeOK
<1>7. PICK t \in Seq(Cells) : /\ t = Line(r)
                             /\ Len(t) = 3
                             /\ \A i \in 1 .. 3 : t[i] = [rec |-> r, part |-> i]
  BY <1>1, PrefixType DEF Line, RecSize
<1>8. file \in Seq(Cells) /\ file' = file \o t
  BY <1>4, <1>7 DEF TypeOK
<1>9. /\ Len(file') = Len(file) + 3
      /\ file'[Len(file) + 3] = t[3]
  <2>1. /\ Len(file \o t) = Len(file) + Len(t)
        /\ \A i \in 1 .. Len(t) : (file \o t)[Len(file) + i] = t[i]
    BY <1>8, ConcatFacts
  <2>2. 3 \in 1 .. Len(t)
    BY <1>7
  <2> QED BY <1>7, <1>8, <2>1, <2>2
<1>10. t[3].rec = r
  BY <1>7
<1>11. committed = Len(file)
  BY <1>2 DEF ChainMatchesDisk
<1>12. Len(file) \in Nat
  BY <1>8
<1>13. file' # <<>>
  <2>1. Len(file') # 0
    BY <1>9, <1>12
  <2> QED BY <2>1
<1> QED BY <1>4, <1>5, <1>6, <1>9, <1>10, <1>11, <1>13 DEF ChainMatchesDisk

\* A refused append that leaves no fragment leaves the file as it was.
LEMMA RefusedSame ==
    ASSUME TypeOK, CleanState, NEW r \in Records, AppendRefused(r), up, ~damaged'
    PROVE  ~damaged /\ file' = file
<1>1. PICK p \in 0 .. RecSize - 1, opens \in BOOLEAN :
         /\ file' = Discard(file \o Prefix(r, p), committed, opens)
         /\ damaged' = (damaged \/ Len(file') > Len(file))
  BY DEF AppendRefused
<1>2. ~damaged /\ committed = Len(file)
  BY <1>1 DEF CleanState, ChainMatchesDisk
<1>3. PICK t \in Seq(Cells) : t = Prefix(r, p)
  <2>1. p \in 0 .. RecSize
    BY DEF RecSize
  <2> QED BY <2>1, PrefixType
<1>4. file \in Seq(Cells) /\ Len(file) \in Nat
  BY DEF TypeOK
<1> DEFINE g == file \o t
<1>5. /\ g \in Seq(Cells)
      /\ Len(g) = Len(file) + Len(t)
      /\ \A i \in 1 .. Len(file) : g[i] = file[i]
  BY <1>4, ConcatFacts
<1>6. file' = Discard(g, Len(file), opens)
  BY <1>1, <1>2, <1>3
<1> HIDE DEF g
<1>7. /\ file' \in Seq(Cells)
      /\ Len(file') = Len(file)
      /\ \A i \in 1 .. Len(file) : file'[i] = file[i]
  <2>1. CASE file' = g
    <3>0. ~(Len(file') > Len(file))
      BY <1>1, Zenon
    <3>1. ~(Len(g) > Len(file)) /\ Len(t) \in Nat
      BY <3>0, <2>1
    <3>2. Len(g) = Len(file)
      BY <3>1, <1>4, <1>5
    <3> QED BY <2>1, <1>5, <3>2
  <2>2. CASE file' # g
    <3>1. file' = SubSeq(g, 1, Len(file)) /\ Len(g) > Len(file)
      BY <1>6, <2>2 DEF Discard
    <3>2. PICK n \in Nat : n = Len(file)
      BY <1>4
    <3>3. /\ SubSeq(g, 1, n) \in Seq(Cells) /\ Len(SubSeq(g, 1, n)) = n
          /\ \A i \in 1 .. n : SubSeq(g, 1, n)[i] = g[i]
      BY <1>5, <3>1, <3>2
    <3> QED BY <1>5, <3>1, <3>2, <3>3
  <2> QED BY <2>1, <2>2
<1>8. file' = file
  BY <1>4, <1>7, SeqEqual
<1> QED BY <1>2, <1>8

LEMMA RefusedClean ==
    ASSUME TypeOK, CleanState, NEW r \in Records, AppendRefused(r),
           UNCHANGED <<up, chain>>, up
    PROVE  CleanState'
<1> SUFFICES ASSUME ~damaged'
             PROVE  CleanFile(file') /\ ChainMatchesDisk'
  BY DEF CleanState
<1>1. ~damaged /\ file' = file
  BY RefusedSame
<1>2. CleanFile(file) /\ ChainMatchesDisk /\ committed' = committed
  BY <1>1 DEF CleanState, AppendRefused
<1> QED BY <1>1, <1>2 DEF ChainMatchesDisk

\* resumeChainState recovers exactly the position a clean file ends at.
LEMMA BootResumes ==
    ASSUME TypeOK, CleanState, Boot
    PROVE  CleanState'
<1> SUFFICES ASSUME ~damaged'
             PROVE  CleanFile(file') /\ ChainMatchesDisk'
  BY DEF CleanState
<1>1. file' = file /\ ~damaged /\ CleanFile(file) /\ committed' = Len(file)
  BY DEF Boot, CleanState
<1> DEFINE n == Len(file)
<1>2. n \in Nat /\ n % 3 = 0
  BY <1>1 DEF TypeOK, CleanFile, RecSize
<1>3. PICK w \in 1 .. n + 1 :
         /\ Window(file, w)
         /\ LET good == {i \in IntactStarts(file) : i >= w} IN
              \/ good = {} /\ chain' = Fresh
              \/ \E i \in good :
                   /\ \A j \in good : j <= i
                   /\ chain' = [idx |-> file[i].rec.idx + 1,
                                prev |-> file[i].rec.id]
  BY DEF Boot
<1> DEFINE good == {i \in IntactStarts(file) : i >= w}
<1>4. CASE n = 0
  <2>1. file = <<>> /\ good = {}
    BY <1>4 DEF TypeOK, IntactStarts, Starts
  <2> QED BY <1>1, <1>3, <2>1 DEF ChainMatchesDisk
<1>5. CASE n > 0
  <2>1. n >= 3 /\ n - 2 \in 1 .. n /\ (n - 2) % 3 = 1
    <3> HIDE DEF n
    <3> QED BY <1>2, <1>5
  <2>2. n - 2 \in IntactStarts(file) /\ file[n - 2 + 2].rec = file[n - 2].rec
    BY <1>1, <2>1, CleanStarts DEF TypeOK, IntactStarts
  <2>3. \A i \in Starts(file) : i \in 1 .. n /\ i + 2 <= n
    <3> SUFFICES ASSUME NEW i \in Starts(file) PROVE i \in 1 .. n /\ i + 2 <= n
      OBVIOUS
    <3>1. i \in 1 .. Len(file)
      BY DEF Starts
    <3>2. i + 2 \in 1 .. Len(file)
      BY <1>1, <3>1, CleanStarts DEF TypeOK
    <3> QED BY <3>1, <3>2
  <2>4. w <= n - 2
    <3>1. CASE w = 1
      BY <3>1, <2>1, <1>2
    <3>2. CASE \E i, j \in Starts(file) : w <= i /\ i < j /\ Terminated(file, j)
      <4>1. PICK i \in Starts(file) : w <= i
        BY <3>2
      <4>2. i \in 1 .. n /\ i + 2 <= n
        BY <2>3
      <4> QED BY <4>1, <4>2, <1>2
    <3> QED BY <1>3, <3>1, <3>2 DEF Window
  <2>5. n - 2 \in good
    BY <2>1, <2>2, <2>4, <1>2
  <2>6. PICK i \in good : /\ \A j \in good : j <= i
                          /\ chain' = [idx |-> file[i].rec.idx + 1,
                                       prev |-> file[i].rec.id]
    BY <1>3, <2>5
  <2>7. i = n - 2
    <3>1. n - 2 <= i
      BY <2>5, <2>6
    <3>2. i \in 1 .. n /\ i + 2 <= n
      BY <2>3 DEF IntactStarts
    <3> QED BY <3>1, <3>2, <1>2
  <2>8. file[n].rec = file[i].rec
    <3>1. n - 2 + 2 = n
      BY <1>2
    <3> QED BY <2>2, <2>7, <3>1
  <2>9. file # <<>>
    BY <1>5
  <2> QED BY <1>1, <2>6, <2>8, <2>9 DEF ChainMatchesDisk
<1> QED BY <1>2, <1>4, <1>5

\* A death that cuts no line in two leaves the file as it was or adds one line.
LEMMA KillSame ==
    ASSUME TypeOK, CleanState, Kill, ~damaged'
    PROVE  /\ ~damaged
           /\ \/ file' = file
              \/ /\ pc # "idle" /\ nextId \in Ids
                 /\ \E missed \in Nat : file' = file \o Line(Chained(nextId, missed))
<1>1. PICK p \in 0 .. RecSize :
         /\ file' = file \o InFlight(p)
         /\ damaged' = (damaged \/ Len(file') - Len(file) \in 1 .. RecSize - 1)
  BY DEF Kill
<1>2. ~damaged
  BY <1>1
<1>3. file \in Seq(Cells) /\ InFlight(p) \in Seq(Cells) /\ file' \in Seq(Cells)
  BY <1>1, InFlightType, ConcatFacts DEF TypeOK
<1>4. CASE Len(InFlight(p)) = 0
  <2>1. Len(file') = Len(file) /\ \A i \in 1 .. Len(file) : file'[i] = file[i]
    BY <1>1, <1>3, <1>4, ConcatFacts
  <2>2. file' = file
    BY <1>3, <2>1, SeqEqual
  <2> QED BY <1>2, <2>2
<1>5. CASE Len(InFlight(p)) # 0
  <2>1. pc # "idle" /\ nextId \in Ids /\ Len(InFlight(p)) = p
    BY <1>5, InFlightType
  <2>2. Len(file') - Len(file) = p
    <3>1. Len(file \o InFlight(p)) = Len(file) + Len(InFlight(p))
      BY <1>3, ConcatFacts
    <3>2. Len(file') = Len(file) + p
      BY <1>1, <2>1, <3>1
    <3>3. Len(file) \in Nat /\ p \in Nat
      BY <1>3 DEF RecSize
    <3> QED BY <3>2, <3>3
  <2>3. p = 3
    <3>0. RecSize - 1 = 2
      BY DEF RecSize
    <3>a. ~(Len(file') - Len(file) \in 1 .. RecSize - 1)
      BY <1>1, Zenon
    <3>1. p \notin 1 .. 2
      BY <2>2, <3>0, <3>a
    <3>2. p # 0 /\ p \in 0 .. 3
      BY <1>5, <2>1 DEF RecSize
    <3> QED BY <3>1, <3>2
  <2>4. PICK missed \in Nat : missed = IF pc = "marker" THEN gap ELSE 0
    BY DEF TypeOK
  <2>5. InFlight(p) = Line(Chained(nextId, missed))
    BY <2>1, <2>3, <2>4 DEF InFlight, Line, RecSize
  <2> QED BY <1>1, <1>2, <2>1, <2>5
<1> QED BY <1>4, <1>5

\* A death leaves the file clean unless it cut a line in two.
LEMMA KillClean ==
    ASSUME TypeOK, CleanState, Kill
    PROVE  CleanState'
<1> SUFFICES ASSUME ~damaged'
             PROVE  CleanFile(file')
  BY DEF CleanState, ChainMatchesDisk, Kill
<1>1. ~damaged /\ up /\ CleanFile(file) /\ ChainMatchesDisk
  BY KillSame DEF CleanState, Kill
<1>2. CASE file' = file
  BY <1>1, <1>2
<1>3. CASE file' # file
  <2>1. PICK missed \in Nat : nextId \in Ids /\ file' = file \o Line(Chained(nextId, missed))
    BY <1>3, KillSame
  <2> DEFINE r == Chained(nextId, missed)
  <2>2. r \in Records
    BY <2>1, ChainedType
  <2>3. r.idx = Len(file) \div RecSize /\ (file # <<>> => r.prev = file[Len(file)].rec.id)
    BY <1>1, NextRecordLinks
  <2> HIDE DEF r
  <2>4. file \in Seq(Cells)
    BY DEF TypeOK
  <2>5. CleanFile(file \o Line(r))
    BY <1>1, <2>2, <2>3, <2>4, CleanAppend
  <2> QED BY <2>1, <2>5 DEF r
<1> QED BY <1>2, <1>3

LEMMA CleanStep ==
    ASSUME TypeOK, CleanState, [Next]_vars
    PROVE  CleanState'
<1>1. CASE EmitStart
  BY <1>1 DEF EmitStart, CleanState, ChainMatchesDisk
<1>2. CASE MarkerStored
  <2>1. nextId \in Ids /\ gap \in Nat /\ up /\ up'
    BY <1>2, BoundsAssumption DEF MarkerStored, TypeOK, Ids
  <2> QED BY <1>2, <2>1, StoreClean DEF MarkerStored
<1>3. CASE MarkerRefused
  <2>1. nextId \in Ids /\ gap \in Nat
    BY <1>3, BoundsAssumption DEF MarkerRefused, TypeOK, Ids
  <2>2. Chained(nextId, gap) \in Records
    BY <2>1, ChainedType
  <2> QED BY <1>3, <2>2, RefusedClean DEF MarkerRefused
<1>4. CASE RecordStored
  <2>1. nextId \in Ids /\ 0 \in Nat /\ up /\ up'
    BY <1>4, BoundsAssumption DEF RecordStored, TypeOK, Ids
  <2> QED BY <1>4, <2>1, StoreClean DEF RecordStored
<1>5. CASE RecordDropped
  <2>1. nextId \in Ids /\ 0 \in Nat
    BY <1>5, BoundsAssumption DEF RecordDropped, TypeOK, Ids
  <2>2. Chained(nextId, 0) \in Records
    BY <2>1, ChainedType
  <2> QED BY <1>5, <2>2, RefusedClean DEF RecordDropped
<1>6. CASE Kill
  BY <1>6, KillClean
<1>7. CASE Boot
  BY <1>7, BootResumes
<1>8. CASE UNCHANGED vars
  BY <1>8 DEF vars, CleanState, ChainMatchesDisk
<1> QED BY <1>1, <1>2, <1>3, <1>4, <1>5, <1>6, <1>7, <1>8 DEF Next

LEMMA InitClean == Init => CleanState
<1> SUFFICES ASSUME Init PROVE CleanState
  OBVIOUS
<1>1. file = <<>> /\ ~up
  BY DEF Init
<1>2. Len(file) = 0 /\ 0 % 3 = 0
  BY <1>1
<1>3. CleanFile(file)
  BY <1>2 DEF CleanFile, RecSize
<1> QED BY <1>1, <1>3 DEF CleanState, ChainMatchesDisk

\* A clean file passes verifyChainFile.
LEMMA CleanVerifies ==
    ASSUME NEW f \in Seq(Cells), CleanFile(f)
    PROVE  VerifyChainFile(f)
<1> DEFINE n == Len(f)
<1>1. ASSUME NEW i \in Starts(f)
      PROVE  i \in 1 .. n /\ i % 3 = 1 /\ i + 2 \in 1 .. n /\ i \in IntactStarts(f)
  <2>1. i \in 1 .. Len(f)
    BY DEF Starts
  <2> QED BY <2>1, CleanStarts DEF IntactStarts
<1>2. ASSUME NEW i \in IntactStarts(f), NEW j \in IntactStarts(f), i < j,
             ~\E k \in IntactStarts(f) : i < k /\ k < j
      PROVE  f[j].rec.idx = f[i].rec.idx + 1 /\ f[j].rec.prev = f[i].rec.id
  <2>1. /\ i \in 1 .. n /\ i % 3 = 1 /\ i + 2 \in 1 .. n
        /\ j \in 1 .. n /\ j % 3 = 1
    BY <1>1 DEF IntactStarts
  <2>2. n \in Nat
    OBVIOUS
  <2> HIDE DEF n
  <2>3. j >= i + 3 /\ i + 3 \in 1 .. n /\ (i + 3) % 3 = 1
    BY <1>2, <2>1, <2>2
  <2>4. i + 3 \in IntactStarts(f)
    BY <2>3, CleanStarts DEF n, IntactStarts
  <2>5. j = i + 3
    BY <1>2, <2>1, <2>3, <2>4
  <2>6. (j - 1) \div 3 = (i - 1) \div 3 + 1 /\ j > 3 /\ j - 3 = i
    BY <2>1, <2>5
  <2>7. f[j].rec.idx = (j - 1) \div 3 /\ f[i].rec.idx = (i - 1) \div 3
    BY <2>1 DEF CleanFile, RecSize, n
  <2>8. f[j].rec.prev = f[j - 3].rec.id
    BY <2>1, <2>6 DEF CleanFile, RecSize, n
  <2> QED BY <2>6, <2>7, <2>8
<1> QED BY <1>1, <1>2 DEF VerifyChainFile

\* While no fragment was left on the file, it verifies and the running
\* writer's chain state continues it: refused appends, rolled-back short writes,
\* deaths and restarts never look like tampering.
THEOREM CleanChain == Spec => []OneChain
<1>1. TypeOK /\ CleanState => OneChain
  BY CleanVerifies DEF CleanState, OneChain, CleanFileVerifies, ChainMatchesDisk, TypeOK
<1>2. TypeOK /\ CleanState /\ [Next]_vars => CleanState'
  BY CleanStep
<1> QED BY <1>1, <1>2, InitClean, TypeCorrect, PTL DEF Spec

-----------------------------------------------------------------------------
(* What readers are told.                                                  *)

\* The lines of a clean file, and what a further line adds to them.
LEMMA CleanLines ==
    ASSUME NEW f \in Seq(Cells), CleanFile(f)
    PROVE  /\ IntactStarts(f) = {i \in 1 .. Len(f) : i % 3 = 1}
           /\ StoredIds(f) = {f[i].rec.id : i \in IntactStarts(f)}
<1>1. \A i \in IntactStarts(f) : i \in 1 .. Len(f) /\ i \in Starts(f)
  BY DEF IntactStarts, Starts
<1>2. \A i \in 1 .. Len(f) : i \in IntactStarts(f) <=> i % 3 = 1
  <2> SUFFICES ASSUME NEW i \in 1 .. Len(f)
               PROVE  i \in IntactStarts(f) <=> i % 3 = 1
    OBVIOUS
  <2>1. /\ i \in Starts(f) <=> i % 3 = 1
        /\ i \in Starts(f) => Intact(f, i)
    BY CleanStarts
  <2> QED BY <2>1 DEF IntactStarts
<1>3. IntactStarts(f) = {i \in 1 .. Len(f) : i % 3 = 1}
  BY <1>1, <1>2
<1>4. ASSUME NEW i \in IntactStarts(f)
      PROVE  Terminated(f, i)
  <2>1. i \in 1 .. Len(f) /\ i \in Starts(f)
    BY <1>1
  <2>2. i + 2 \in 1 .. Len(f) /\ f[i + 2].part = NL
    BY <2>1, CleanStarts
  <2>3. i + 2 \in i .. Len(f)
    BY <2>1, <2>2
  <2> QED BY <2>2, <2>3 DEF Terminated
<1>5. StoredIds(f) = {f[i].rec.id : i \in IntactStarts(f)}
  BY <1>4 DEF StoredIds
<1> QED BY <1>3, <1>5

\* g is f and one line more, that of r.
Adds(f, r, g) ==
    /\ Len(f) + 1 \notin IntactStarts(f)
    /\ IntactStarts(g) = IntactStarts(f) \cup {Len(f) + 1}
    /\ \A i \in 1 .. Len(f) : g[i] = f[i]
    /\ \A i \in 1 .. Len(g) : i > Len(f) => g[i].rec = r
    /\ g[Len(f) + 1].rec = r
    /\ StoredIds(g) = StoredIds(f) \cup {r.id}

LEMMA CellsAdd ==
    ASSUME NEW f \in Seq(Cells), NEW r \in Records, NEW g \in Seq(Cells),
           NEW n \in Nat, n = Len(f), Len(g) = n + 3,
           \A i \in 1 .. n : g[i] = f[i],
           \A i \in 1 .. 3 : g[n + i].rec = r,
           CleanFile(f), CleanFile(g)
    PROVE  Adds(f, r, g)
<1>4. n % 3 = 0
  BY DEF CleanFile, RecSize
<1>5. \A i \in 1 .. n + 3 : i > n => g[i].rec = r
  <2> SUFFICES ASSUME NEW i \in 1 .. n + 3, i > n PROVE g[i].rec = r
    OBVIOUS
  <2>1. i - n \in 1 .. 3 /\ i = n + (i - n)
    OBVIOUS
  <2> QED BY <2>1
<1>6. IntactStarts(f) = {i \in 1 .. n : i % 3 = 1} /\ IntactStarts(g) = {i \in 1 .. n + 3 : i % 3 = 1}
  BY CleanLines
<1>7. /\ (n + 1) % 3 = 1
      /\ \A i \in n + 1 .. n + 3 : i % 3 = 1 => i = n + 1
  <2>1. 1 \in 1 .. 3 /\ 2 \in 1 .. 3 /\ 3 \in 1 .. 3
    OBVIOUS
  <2>2. /\ ((n + 2 - 1) % 3) + 1 = 2 /\ ((n + 3 - 1) % 3) + 1 = 3
        /\ (n + 3) % 3 = 0
    BY <1>4, <2>1, Mod3
  <2>3. (n + 1) % 3 = 1 /\ (n + 2) % 3 = 2
    BY <2>2
  <2>4. \A i \in n + 1 .. n + 3 : i = n + 1 \/ i = n + 2 \/ i = n + 3
    OBVIOUS
  <2> QED BY <2>2, <2>3, <2>4
<1>8. IntactStarts(g) = IntactStarts(f) \cup {n + 1} /\ n + 1 \notin IntactStarts(f)
  BY <1>6, <1>7
<1>9. g[n + 1].rec = r
  BY <1>5
<1>10. StoredIds(g) = StoredIds(f) \cup {r.id}
  <2>1. StoredIds(f) = {f[i].rec.id : i \in IntactStarts(f)} /\ StoredIds(g) = {g[i].rec.id : i \in IntactStarts(g)}
    BY CleanLines
  <2>2. \A i \in IntactStarts(f) : g[i] = f[i]
    BY <1>6
  <2>3. {g[i].rec.id : i \in IntactStarts(g)} = {f[i].rec.id : i \in IntactStarts(f)} \cup {r.id}
    BY <1>8, <1>9, <2>2
  <2> QED BY <2>1, <2>3
<1> QED BY <1>5, <1>8, <1>9, <1>10 DEF Adds

LEMMA LineAdds ==
    ASSUME NEW f \in Seq(Cells), NEW r \in Records, CleanFile(f), CleanFile(f \o Line(r))
    PROVE  f \o Line(r) \in Seq(Cells) /\ Adds(f, r, f \o Line(r))
<1>1. PICK t \in Seq(Cells) : /\ t = Line(r)
                             /\ Len(t) = 3
                             /\ \A i \in 1 .. 3 : t[i] = [rec |-> r, part |-> i]
  BY PrefixType DEF Line, RecSize
<1> DEFINE g == f \o t
<1>2. /\ g \in Seq(Cells)
      /\ Len(g) = Len(f) + Len(t)
      /\ \A i \in 1 .. Len(f) : g[i] = f[i]
      /\ \A i \in 1 .. Len(t) : g[Len(f) + i] = t[i]
  BY ConcatFacts, <1>1
<1>3. g = f \o Line(r)
  BY <1>1
<1> HIDE DEF g
<1>4. Len(f) \in Nat /\ Len(g) = Len(f) + 3 /\ \A i \in 1 .. 3 : g[Len(f) + i].rec = r
  BY <1>1, <1>2
<1>5. CleanFile(g)
  BY <1>3
<1>6. Adds(f, r, g)
  BY <1>2, <1>4, <1>5, CellsAdd
<1> QED BY <1>2, <1>3, <1>6

\* The records from id b on, and how many drops they declare.
Since(f, b) == {i \in IntactStarts(f) : f[i].rec.id >= b}
Told(f, b) == MapThenSumSet(LAMBDA i : f[i].rec.lost, Since(f, b))

LEMMA SinceType ==
    ASSUME NEW f \in Seq(Cells), NEW b
    PROVE  /\ IsFiniteSet(Since(f, b)) /\ Since(f, b) \subseteq 1 .. Len(f)
           /\ \A i \in Since(f, b) : f[i].rec.lost \in Nat
<1>1. Since(f, b) \subseteq 1 .. Len(f)
  BY DEF Since, IntactStarts, Starts
<1>2. IsFiniteSet(1 .. Len(f))
  BY FS_Interval
<1>3. \A i \in 1 .. Len(f) : f[i] \in Cells
  OBVIOUS
<1>4. \A i \in 1 .. Len(f) : f[i].rec.lost \in Nat
  BY <1>3 DEF Cells, Records
<1> QED BY <1>1, <1>2, <1>4, FS_Subset

LEMMA ToldIsSum ==
    ASSUME NEW f \in Seq(Cells), NEW b
    PROVE  Told(f, b) = Sum([i \in Since(f, b) |-> f[i].rec.lost], Since(f, b))
<1>1. PICK S : S = Since(f, b)
  OBVIOUS
<1>2. IsFiniteSet(S) /\ \A i \in S : f[i].rec.lost \in Nat
  BY <1>1, SinceType
<1>3. PICK F : F = [i \in S |-> f[i].rec.lost]
  OBVIOUS
<1>4. PICK g : g = CHOOSE h : h = [s \in SUBSET S |-> IF s = {} THEN 0 ELSE
                     LET x == CHOOSE y \in s : TRUE IN f[x].rec.lost + h[s \ {x}]]
  OBVIOUS
<1>5. PICK h : AddsUp(h, F, S)
  BY <1>2, <1>3, AddsUpExists
<1>6. \A s \in SUBSET S : s # {} => F[Chosen(s)] = f[Chosen(s)].rec.lost
  BY <1>3, ChosenIsIn
<1>7. h = [s \in SUBSET S |-> IF s = {} THEN 0 ELSE
              LET x == CHOOSE y \in s : TRUE IN f[x].rec.lost + h[s \ {x}]]
  BY <1>5, <1>6 DEF AddsUp, Chosen
<1>8. \E k : k = [s \in SUBSET S |-> IF s = {} THEN 0 ELSE
              LET x == CHOOSE y \in s : TRUE IN f[x].rec.lost + k[s \ {x}]]
  BY <1>7
<1>9. AddsUp(g, F, S)
  <2>1. g = [s \in SUBSET S |-> IF s = {} THEN 0 ELSE
              LET x == CHOOSE y \in s : TRUE IN f[x].rec.lost + g[s \ {x}]]
    BY <1>4, <1>8
  <2> QED BY SMTT(30), <1>6, <2>1 DEF AddsUp, Chosen
<1>10. Told(f, b) = g[S]
  BY <1>1, <1>4 DEF Told, MapThenSumSet, MapThenFoldSet
<1>11. Sum(F, S) = g[S]
  BY <1>2, <1>3, <1>9, SumOfPart
<1> QED BY <1>1, <1>3, <1>10, <1>11

LEMMA ToldType ==
    ASSUME NEW f \in Seq(Cells), NEW b
    PROVE  Told(f, b) \in Nat
<1>1. PICK S : S = Since(f, b)
  OBVIOUS
<1>2. PICK F : F = [i \in S |-> f[i].rec.lost]
  OBVIOUS
<1>3. IsFiniteSet(S) /\ \A i \in S : F[i] \in Nat
  BY <1>1, <1>2, SinceType
<1>4. Sum(F, S) \in Nat
  BY <1>3, SumType
<1> QED BY <1>1, <1>2, <1>4, ToldIsSum

LEMMA ToldNothing ==
    ASSUME NEW f \in Seq(Cells), NEW b, Since(f, b) = {}
    PROVE  Told(f, b) = 0
  BY ToldIsSum, SumEmpty

\* A further line is told once: its drops are added.
LEMMA ToldAdds ==
    ASSUME NEW f \in Seq(Cells), NEW r \in Records, NEW g \in Seq(Cells), Adds(f, r, g),
           NEW b, r.id >= b
    PROVE  Told(g, b) = Told(f, b) + r.lost
<1>1. PICK S : S = Since(f, b)
  OBVIOUS
<1>2. PICK x : x = Len(f) + 1
  OBVIOUS
<1>3. x \notin S
  BY <1>1, <1>2 DEF Adds, Since
<1>4. \A i \in S : g[i] = f[i]
  BY <1>1, SinceType DEF Adds
<1>5. \A i \in IntactStarts(f) : g[i] = f[i]
  <2>1. IntactStarts(f) \subseteq 1 .. Len(f)
    BY DEF IntactStarts, Starts
  <2> QED BY <2>1 DEF Adds
<1>6. Since(g, b) = S \cup {x}
  BY <1>1, <1>2, <1>5 DEF Adds, Since
<1>7. PICK F, G : F = [i \in S |-> f[i].rec.lost] /\ G = [i \in S \cup {x} |-> g[i].rec.lost]
  OBVIOUS
<1>8. IsFiniteSet(S) /\ \A i \in S \cup {x} : G[i] \in Nat
  BY <1>1, <1>6, <1>7, SinceType
<1>9. \A i \in S : F[i] = G[i]
  BY <1>4, <1>7
<1>10. Told(f, b) = Sum(F, S) /\ Told(g, b) = Sum(G, S \cup {x})
  BY <1>1, <1>6, <1>7, ToldIsSum
<1>11. Sum(F, S) = Sum(G, S)
  BY <1>8, <1>9, SumSame
<1>12. Sum(G, S \cup {x}) = G[x] + Sum(G, S)
  BY <1>3, <1>8, SumAdd
<1>13. G[x] = r.lost /\ G[x] \in Nat
  BY <1>2, <1>7, <1>8 DEF Adds
<1>14. Told(f, b) \in Nat
  BY ToldType
<1> QED BY <1>10, <1>11, <1>12, <1>13, <1>14

\* Ids are given out once, so what the file holds is older than the next id, and
\* a process starts with nothing dropped and nothing pending.
Accounted ==
    /\ bootId <= nextId
    /\ ~up => pc = "idle" /\ gap = 0 /\ dropped = 0
    /\ ~damaged =>
         /\ \A i \in 1 .. Len(file) : file[i].rec.id < nextId
         /\ console \subseteq StoredIds(file)
         /\ up => dropped = gap + Told(file, bootId)

\* What a step does to a file on which it leaves no fragment: nothing, or it adds
\* the line of the next record.
FileStep(missed) ==
    \/ file' = file
    \/ LET r == Chained(nextId, missed) IN
         /\ nextId \in Ids /\ nextId' = nextId + 1
         /\ r \in Records
         /\ file' \in Seq(Cells)
         /\ Adds(file, r, file')

LEMMA StoredAdds ==
    ASSUME TypeOK, CleanState, CleanState', ~damaged, ~damaged',
           nextId \in Ids, nextId' = nextId + 1, NEW missed \in Nat,
           file' = file \o Line(Chained(nextId, missed))
    PROVE  FileStep(missed)
<1>1. PICK r \in Records : r = Chained(nextId, missed)
  BY ChainedType
<1>2. file \in Seq(Cells) /\ CleanFile(file) /\ CleanFile(file')
  BY DEF TypeOK, CleanState
<1>3. file \o Line(r) \in Seq(Cells) /\ Adds(file, r, file \o Line(r))
  BY <1>1, <1>2, LineAdds
<1> QED BY <1>1, <1>3 DEF FileStep

\* The lines of a file that a step adds to stay older than the next id.
LEMMA OlderThanNext ==
    ASSUME TypeOK, TypeOK', Accounted, ~damaged, NEW missed \in Nat, FileStep(missed),
           nextId' >= nextId
    PROVE  \A i \in 1 .. Len(file') : file'[i].rec.id < nextId'
<1>1. \A i \in 1 .. Len(file) : file[i].rec.id < nextId /\ file[i].rec.id \in Nat
  <2>1. file \in Seq(Cells)
    BY DEF TypeOK
  <2>2. \A i \in 1 .. Len(file) : file[i] \in Cells
    BY <2>1
  <2> QED BY <2>2 DEF Accounted, Cells, Records, Ids
<1>2. nextId \in Nat /\ nextId' \in Nat
  BY DEF TypeOK
<1>3. CASE file' = file
  BY <1>1, <1>2, <1>3
<1>4. CASE file' # file
  <2>1. PICK r \in Records : /\ r = Chained(nextId, missed) /\ nextId' = nextId + 1
                             /\ Adds(file, r, file')
    BY <1>4 DEF FileStep
  <2>2. r.id = nextId
    BY <2>1 DEF Chained
  <2>3. \A i \in 1 .. Len(file') : i \in 1 .. Len(file) \/ i > Len(file)
    BY DEF TypeOK
  <2> QED BY <1>1, <1>2, <2>1, <2>2, <2>3 DEF Adds
<1> QED BY <1>3, <1>4

\* Readers keep what they have, and see what the file is given.
LEMMA StoredGrows ==
    ASSUME NEW missed \in Nat, FileStep(missed)
    PROVE  /\ StoredIds(file) \subseteq StoredIds(file')
           /\ file' # file => nextId \in StoredIds(file')
  BY DEF FileStep, Adds, Chained

LEMMA AccountedStore ==
    ASSUME TypeOK, TypeOK', CleanState, CleanState', Accounted, up, up',
           nextId \in Ids, nextId' = nextId + 1, NEW missed \in Nat, gap = gap' + missed,
           AppendOk(Chained(nextId, missed)), Commit(Chained(nextId, missed)),
           UNCHANGED <<dropped, bootId>>
    PROVE  Accounted'
<1>1. bootId' <= nextId'
  BY DEF Accounted, TypeOK
<1>2. SUFFICES ASSUME ~damaged'
               PROVE  /\ \A i \in 1 .. Len(file') : file'[i].rec.id < nextId'
                      /\ console' \subseteq StoredIds(file')
                      /\ dropped' = gap' + Told(file', bootId')
  BY <1>1 DEF Accounted
<1>3. ~damaged /\ file' = file \o Line(Chained(nextId, missed))
  BY <1>2 DEF AppendOk
<1>4. FileStep(missed)
  BY <1>2, <1>3, StoredAdds
<1>5. \A i \in 1 .. Len(file') : file'[i].rec.id < nextId'
  <2>1. nextId' >= nextId
    BY DEF TypeOK
  <2> QED BY <1>3, <1>4, <2>1, OlderThanNext
<1>6. PICK r \in Records : r = Chained(nextId, missed)
  BY ChainedType
<1>7. file \in Seq(Cells) /\ file' \in Seq(Cells) /\ file' # file
  <2>1. file \in Seq(Cells) /\ file' \in Seq(Cells)
    BY DEF TypeOK
  <2>2. PICK t \in Seq(Cells) : t = Line(r) /\ Len(t) = 3
    <3>1. 3 \in 0 .. RecSize
      BY DEF RecSize
    <3>2. Prefix(r, 3) \in Seq(Cells) /\ Len(Prefix(r, 3)) = 3
      BY <1>6, <3>1, PrefixType
    <3> QED BY <3>2 DEF Line, RecSize
  <2>3. Len(file') = Len(file) + 3
    <3>1. file' = file \o t
      BY <1>3, <1>6, <2>2
    <3>2. Len(file \o t) = Len(file) + Len(t)
      BY <2>1, <2>2, ConcatFacts
    <3> QED BY <2>2, <3>1, <3>2
  <2>4. Len(file) \in Nat
    BY <2>1
  <2> QED BY <2>1, <2>3, <2>4
<1>8. Adds(file, r, file')
  BY <1>4, <1>6, <1>7 DEF FileStep
<1>9. console' \subseteq StoredIds(file')
  BY <1>3, <1>6, <1>8 DEF Adds, Accounted, Commit
<1>10. r.id = nextId /\ r.lost = missed
  BY <1>6 DEF Chained
<1>11. bootId <= r.id
  BY <1>10 DEF Accounted
<1>12. bootId \in Nat /\ r.id \in Nat /\ gap \in Nat /\ gap' \in Nat
  <2>1. bootId \in Nat /\ gap \in Nat
    <3>1. bootId \in 1 .. MaxRecords + 1
      BY DEF TypeOK
    <3>2. gap \in Nat
      BY DEF TypeOK
    <3> QED BY <3>1, <3>2
  <2>3. gap' \in Nat
    BY DEF TypeOK
  <2>2. r.id \in Nat
    BY <1>6 DEF Records, Ids
  <2> QED BY <2>1, <2>2, <2>3
<1>13. Told(file', bootId) = Told(file, bootId) + missed
  BY <1>7, <1>8, <1>10, <1>11, <1>12, ToldAdds
<1>14. Told(file, bootId) \in Nat /\ dropped = gap + Told(file, bootId)
  BY <1>3, <1>7, ToldType DEF Accounted
<1>15. dropped' = gap' + Told(file', bootId')
  BY <1>12, <1>13, <1>14
<1> QED BY <1>5, <1>9, <1>15

LEMMA AccountedRefused ==
    ASSUME TypeOK, CleanState, Accounted, up, up',
           nextId' = nextId + 1, NEW r \in Records, AppendRefused(r),
           \/ UNCHANGED <<gap, dropped>>
           \/ gap' = gap + 1 /\ dropped' = dropped + 1,
           UNCHANGED <<console, bootId>>
    PROVE  Accounted'
<1>1. bootId' <= nextId'
  BY DEF Accounted, TypeOK
<1>2. SUFFICES ASSUME ~damaged'
               PROVE  /\ \A i \in 1 .. Len(file') : file'[i].rec.id < nextId'
                      /\ console' \subseteq StoredIds(file')
                      /\ dropped' = gap' + Told(file', bootId')
  BY <1>1 DEF Accounted
<1>3. ~damaged /\ file' = file
  BY <1>2, RefusedSame
<1>4. FileStep(0) /\ nextId' >= nextId
  BY <1>3 DEF FileStep, TypeOK
<1>5. file \in Seq(Cells) /\ gap \in Nat /\ dropped \in Nat
  BY DEF TypeOK
<1>6. \A i \in 1 .. Len(file) : file[i].rec.id < nextId'
  <2>1. \A i \in 1 .. Len(file) : file[i].rec.id < nextId /\ file[i].rec.id \in Nat
    <3>1. \A i \in 1 .. Len(file) : file[i] \in Cells
      BY <1>5
    <3> QED BY <1>3, <3>1 DEF Accounted, Cells, Records, Ids
  <2>2. nextId \in Nat
    BY DEF TypeOK
  <2> QED BY <2>1, <2>2
<1>7. Told(file, bootId) \in Nat /\ dropped = gap + Told(file, bootId)
  BY <1>3, <1>5, ToldType DEF Accounted
<1>8. dropped' = gap' + Told(file, bootId)
  BY <1>5, <1>7
<1> QED BY <1>3, <1>6, <1>8 DEF Accounted

LEMMA AccountedKill ==
    ASSUME TypeOK, TypeOK', CleanState, CleanState', Accounted, Kill
    PROVE  Accounted'
<1>1. /\ ~up' /\ pc' = "idle" /\ gap' = 0 /\ dropped' = 0 /\ console' = console /\ bootId' = bootId
      /\ nextId' = IF pc = "idle" THEN nextId ELSE nextId + 1
  BY DEF Kill
<1>2. nextId \in Nat /\ bootId \in Nat
  BY DEF TypeOK
<1>3. bootId' <= nextId' /\ nextId' >= nextId
  BY <1>1, <1>2 DEF Accounted
<1>4. SUFFICES ASSUME ~damaged'
               PROVE  /\ \A i \in 1 .. Len(file') : file'[i].rec.id < nextId'
                      /\ console' \subseteq StoredIds(file')
  BY <1>1, <1>3 DEF Accounted
<1>5. ~damaged
  BY <1>4, KillSame
<1>6. PICK missed \in Nat : FileStep(missed)
  <2>1. CASE file' = file
    BY <2>1 DEF FileStep
  <2>2. CASE file' # file
    <3>1. PICK missed \in Nat : pc # "idle" /\ nextId \in Ids /\ file' = file \o Line(Chained(nextId, missed))
      BY <1>4, <2>2, KillSame
    <3>2. nextId' = nextId + 1
      BY <1>1, <3>1
    <3> QED BY <1>4, <1>5, <3>1, <3>2, StoredAdds
  <2> QED BY <2>1, <2>2
<1> QED BY <1>1, <1>3, <1>5, <1>6, OlderThanNext, StoredGrows DEF Accounted

LEMMA AccountedBoot ==
    ASSUME TypeOK, Accounted, Boot
    PROVE  Accounted'
<1>1. /\ ~up /\ up' /\ file' = file /\ damaged' = damaged /\ bootId' = nextId /\ nextId' = nextId
      /\ UNCHANGED <<gap, dropped, console>>
  BY DEF Boot
<1>2. nextId \in Nat /\ file \in Seq(Cells)
  BY DEF TypeOK
<1>3. ~damaged => Told(file, nextId) = 0
  <2> SUFFICES ASSUME ~damaged PROVE Told(file, nextId) = 0
    OBVIOUS
  <2>1. \A i \in 1 .. Len(file) : file[i].rec.id < nextId /\ file[i].rec.id \in Nat
    <3>1. \A i \in 1 .. Len(file) : file[i] \in Cells
      BY <1>2
    <3> QED BY <3>1 DEF Accounted, Cells, Records, Ids
  <2>2. \A i \in Since(file, nextId) : i \in 1 .. Len(file) /\ file[i].rec.id >= nextId
    BY DEF Since, IntactStarts, Starts
  <2>3. Since(file, nextId) = {}
    BY <1>2, <2>1, <2>2
  <2> QED BY <1>2, <2>3, ToldNothing
<1> QED BY <1>1, <1>2, <1>3 DEF Accounted

LEMMA AccountedStep ==
    ASSUME TypeOK, TypeOK', CleanState, CleanState', Accounted, [Next]_vars
    PROVE  Accounted'
<1> USE BoundsAssumption
<1>1. CASE EmitStart
  BY <1>1 DEF EmitStart, Accounted
<1>2. CASE MarkerStored
  <2>1. nextId \in Ids /\ gap \in Nat /\ gap' = 0
    BY <1>2 DEF MarkerStored, TypeOK, Ids
  <2>2. /\ AppendOk(Chained(nextId, gap)) /\ Commit(Chained(nextId, gap))
        /\ up /\ up' /\ nextId' = nextId + 1 /\ UNCHANGED <<dropped, bootId>>
    BY <1>2 DEF MarkerStored
  <2>3. gap = gap' + gap
    BY <2>1
  <2> QED BY <2>1, <2>2, <2>3, AccountedStore
<1>3. CASE MarkerRefused
  <2>1. nextId \in Ids /\ gap \in Nat
    BY <1>3 DEF MarkerRefused, TypeOK, Ids
  <2>2. Chained(nextId, gap) \in Records
    BY <2>1, ChainedType
  <2> QED BY <1>3, <2>2, AccountedRefused DEF MarkerRefused
<1>4. CASE RecordStored
  <2>1. nextId \in Ids /\ gap \in Nat
    BY <1>4 DEF RecordStored, TypeOK, Ids
  <2>2. /\ AppendOk(Chained(nextId, 0)) /\ Commit(Chained(nextId, 0))
        /\ up /\ up' /\ nextId' = nextId + 1 /\ UNCHANGED <<gap, dropped, bootId>>
    BY <1>4 DEF RecordStored
  <2>3. gap = gap' + 0
    BY <2>1, <2>2
  <2> QED BY <2>1, <2>2, <2>3, AccountedStore
<1>5. CASE RecordDropped
  <2>1. nextId \in Ids
    BY <1>5 DEF RecordDropped, TypeOK, Ids
  <2>2. Chained(nextId, 0) \in Records
    BY <2>1, ChainedType
  <2> QED BY <1>5, <2>2, AccountedRefused DEF RecordDropped
<1>6. CASE Kill
  BY <1>6, AccountedKill
<1>7. CASE Boot
  BY <1>7, AccountedBoot
<1>8. CASE UNCHANGED vars
  BY <1>8 DEF vars, Accounted
<1> QED BY <1>1, <1>2, <1>3, <1>4, <1>5, <1>6, <1>7, <1>8 DEF Next

\* What a console shows is on file, and every drop since boot is declared by a
\* stored marker or pending, once, for any records, refused or short appends,
\* deaths and restarts that leave no fragment.
THEOREM ReadersStayTold == Spec => []ReadersAreTold
<1>1. Init => Accounted
  <2> SUFFICES ASSUME Init PROVE Accounted
    OBVIOUS
  <2>1. file = <<>> /\ ~up /\ pc = "idle" /\ gap = 0 /\ dropped = 0 /\ console = {} /\ bootId = 1 /\ nextId = 1
    BY DEF Init
  <2>2. Len(file) = 0
    BY <2>1
  <2> QED BY <2>1, <2>2 DEF Accounted
<1>2. Accounted => ReadersAreTold
  BY DEF Accounted, ReadersAreTold, ConsoleShowsStored, DropsAccounted, Told, Since
<1>3. TypeOK /\ TypeOK' /\ CleanState /\ CleanState' /\ Accounted /\ [Next]_vars => Accounted'
  BY AccountedStep
<1>4. TypeOK /\ CleanState /\ [Next]_vars => CleanState'
  BY CleanStep
<1> QED BY <1>1, <1>2, <1>3, <1>4, InitClean, TypeCorrect, PTL DEF Spec

\* A record that was stored stays stored: the repair of a short write, a death
\* and a restart take none away, as long as no fragment is left.
THEOREM StoredRecordsStay == Spec => StoredStaysStored
<1>1. TypeOK /\ CleanState /\ CleanState' /\ [Next]_vars
        => [~damaged' => StoredIds(file) \subseteq StoredIds(file)']_vars
  <2> SUFFICES ASSUME TypeOK, CleanState, CleanState', ~damaged', Next
               PROVE  StoredIds(file) \subseteq StoredIds(file')
    BY Zenon DEF vars
  <2>0. nextId \in Nat /\ gap \in Nat /\ 0 \in Nat
    BY DEF TypeOK
  <2>1. ASSUME NEW missed \in Nat, nextId \in Ids, nextId' = nextId + 1,
               AppendOk(Chained(nextId, missed))
        PROVE  StoredIds(file) \subseteq StoredIds(file')
    <3>1. ~damaged /\ file' = file \o Line(Chained(nextId, missed))
      BY <2>1 DEF AppendOk
    <3> QED BY <2>1, <3>1, StoredAdds, StoredGrows
  <2>2. ASSUME NEW missed \in Nat, nextId \in Ids, up, AppendRefused(Chained(nextId, missed))
        PROVE  StoredIds(file) \subseteq StoredIds(file')
    <3>1. Chained(nextId, missed) \in Records
      BY <2>2, ChainedType
    <3>2. file' = file
      BY <2>2, <3>1, RefusedSame
    <3> QED BY <3>2
  <2>3. CASE MarkerStored
    BY <2>0, <2>1, <2>3, BoundsAssumption DEF MarkerStored, TypeOK, Ids
  <2>4. CASE MarkerRefused
    BY <2>0, <2>2, <2>4, BoundsAssumption DEF MarkerRefused, TypeOK, Ids
  <2>5. CASE RecordStored
    BY <2>0, <2>1, <2>5, BoundsAssumption DEF RecordStored, TypeOK, Ids
  <2>6. CASE RecordDropped
    BY <2>0, <2>2, <2>6, BoundsAssumption DEF RecordDropped, TypeOK, Ids
  <2>7. CASE Kill
    <3>1. CASE file' = file
      BY <3>1
    <3>2. CASE file' # file
      <4>1. PICK missed \in Nat : /\ pc # "idle" /\ nextId \in Ids /\ ~damaged
                                /\ file' = file \o Line(Chained(nextId, missed))
        BY <2>7, <3>2, KillSame
      <4>2. nextId' = nextId + 1
        BY <2>7, <4>1 DEF Kill
      <4> QED BY <4>1, <4>2, StoredAdds, StoredGrows
    <3> QED BY <3>1, <3>2
  <2>8. CASE EmitStart \/ Boot
    BY <2>8 DEF EmitStart, Boot
  <2> QED BY <2>3, <2>4, <2>5, <2>6, <2>7, <2>8 DEF Next
<1>2. TypeOK /\ CleanState /\ [Next]_vars => CleanState'
  BY CleanStep
<1> QED BY <1>1, <1>2, InitClean, TypeCorrect, PTL DEF Spec, StoredStaysStored

-----------------------------------------------------------------------------
(* The writer lock.                                                        *)

Serial == ~Overlap /\ Named = Procs

\* The inductive invariant: one process at a time is in transition, the lock
\* names the writer, and a process about to write the lock has no writer beside
\* it and knows the end of the file.
OneTurning == \A p, q \in Procs : ~Steady(p) /\ ~Steady(q) => p = q
Claiming ==
    \A p \in Procs :
        /\ place[p] \in {"stamp", "take", "exiting"} => Writers = {}
        /\ place[p] = "classify" => owner[p] \in Procs /\ \A q \in Writers : owner[p] = q
        /\ place[p] \in {"open", "read", "classify", "stamp", "take"} /\ Writers = {}
             => seed[p] = Len(log)
Exclusion ==
    /\ OneTurning
    /\ LockNamesWriter
    /\ Claiming
    /\ WriterSeesTail
    /\ LogContiguous

LEMMA LockTypeStep == LockTypeOK /\ [LockNext]_lockVars => LockTypeOK'
<1> SUFFICES ASSUME LockTypeOK, [LockNext]_lockVars PROVE LockTypeOK'
  OBVIOUS
<1> USE LockAssumption DEF LockTypeOK, Stages, Goto
<1>1. ASSUME NEW p \in Procs, BootProcess(p) PROVE LockTypeOK'
  BY <1>1 DEF BootProcess
<1>2. ASSUME NEW p \in Procs, Resume(p) PROVE LockTypeOK'
  BY <1>2 DEF Resume
<1>3. ASSUME NEW p \in Procs, OpenLock(p) PROVE LockTypeOK'
  BY <1>3 DEF OpenLock
<1>4. ASSUME NEW p \in Procs, Stamp(p) PROVE LockTypeOK'
  BY <1>4 DEF Stamp
<1>5. ASSUME NEW p \in Procs, ReadLock(p) PROVE LockTypeOK'
  BY <1>5 DEF ReadLock
<1>6. ASSUME NEW p \in Procs, ClassifyAlive(p) PROVE LockTypeOK'
  BY <1>6 DEF ClassifyAlive
<1>7. ASSUME NEW p \in Procs, ClassifyDead(p) PROVE LockTypeOK'
  BY <1>7 DEF ClassifyDead
<1>8. ASSUME NEW p \in Procs, AppendRecord(p) PROVE LockTypeOK'
  BY <1>8 DEF AppendRecord
<1>9. ASSUME NEW p \in Procs, Terminate(p) PROVE LockTypeOK'
  BY <1>9 DEF Terminate
<1>10. ASSUME NEW p \in Procs, Exit(p) PROVE LockTypeOK'
  BY <1>10 DEF Exit
<1>11. ASSUME NEW p \in Procs, KillProcess(p) PROVE LockTypeOK'
  BY <1>11 DEF KillProcess
<1>12. CASE UNCHANGED lockVars
  BY <1>12 DEF lockVars
<1> QED BY <1>1, <1>2, <1>3, <1>4, <1>5, <1>6, <1>7, <1>8, <1>9, <1>10, <1>11, <1>12 DEF LockNext

LEMMA ExclusionStep ==
    ASSUME Serial, LockTypeOK, Exclusion, [LockNext]_lockVars
    PROVE  Exclusion'
<1> USE LockAssumption DEF LockTypeOK, Stages, Goto, Exclusion, OneTurning, LockNamesWriter,
        Claiming, WriterSeesTail, LogContiguous, Writers, Steady, MayTurn, Serial
<1>1. ASSUME NEW p \in Procs, BootProcess(p) PROVE Exclusion'
  BY <1>1 DEF BootProcess
<1>2. ASSUME NEW p \in Procs, Resume(p) PROVE Exclusion'
  BY <1>2 DEF Resume
<1>3. ASSUME NEW p \in Procs, OpenLock(p) PROVE Exclusion'
  <2>1. CASE lock = NoLock
    <3>1. Writers = {}
      BY <2>1
    <3>2. place[p] = "open" /\ seed[p] = Len(log)
      BY <1>3, <3>1 DEF OpenLock
    <3>3. lock' = Empty /\ place' = [place EXCEPT ![p] = "stamp"] /\ UNCHANGED <<owner, seed, log, boots>>
      BY <1>3, <2>1 DEF OpenLock
    <3>4. Writers' = {}
      BY <3>1, <3>3
    <3> QED BY <3>2, <3>3, <3>4
  <2>2. CASE lock # NoLock
    <3>1. place[p] = "open" /\ place' = [place EXCEPT ![p] = "read"]
      BY <1>3, <2>2 DEF OpenLock
    <3>2. lock' = lock /\ owner' = owner /\ seed' = seed /\ log' = log
      BY <1>3, <2>2 DEF OpenLock
    <3> QED BY <3>1, <3>2
  <2> QED BY <2>1, <2>2
<1>4. ASSUME NEW p \in Procs, Stamp(p) PROVE Exclusion'
  <2>1. place[p] \in {"stamp", "take"} /\ Writers = {} /\ seed[p] = Len(log)
    BY <1>4 DEF Stamp
  <2>2. place' = [place EXCEPT ![p] = "writer"] /\ lock' = p
    BY <1>4 DEF Stamp
  <2>3. owner' = owner /\ seed' = seed /\ log' = log
    BY <1>4 DEF Stamp
  <2>4. Writers' = {p}
    BY <2>1, <2>2
  <2> QED BY SMTT(30), <2>1, <2>2, <2>3, <2>4
<1>5. ASSUME NEW p \in Procs, ReadLock(p) PROVE Exclusion'
  BY <1>5 DEF ReadLock
<1>6. ASSUME NEW p \in Procs, ClassifyAlive(p) PROVE Exclusion'
  <2>1. place[p] = "classify" /\ owner[p] \in Named
    BY <1>6 DEF ClassifyAlive
  <2>2. place' = [place EXCEPT ![p] = "off"]
    BY <1>6, <2>1 DEF ClassifyAlive
  <2>3. lock' = lock /\ owner' = owner /\ seed' = seed /\ log' = log
    BY <1>6 DEF ClassifyAlive
  <2> QED BY <2>1, <2>2, <2>3
<1>7. ASSUME NEW p \in Procs, ClassifyDead(p) PROVE Exclusion'
  BY <1>7 DEF ClassifyDead, Alive
<1>8. ASSUME NEW p \in Procs, AppendRecord(p) PROVE Exclusion'
  BY <1>8 DEF AppendRecord
<1>9. ASSUME NEW p \in Procs, Terminate(p) PROVE Exclusion'
  BY <1>9 DEF Terminate
<1>10. ASSUME NEW p \in Procs, Exit(p) PROVE Exclusion'
  BY <1>10 DEF Exit
<1>11. ASSUME NEW p \in Procs, KillProcess(p) PROVE Exclusion'
  BY <1>11 DEF KillProcess, Alive
<1>12. CASE UNCHANGED lockVars
  BY <1>12 DEF lockVars
<1> QED BY <1>1, <1>2, <1>3, <1>4, <1>5, <1>6, <1>7, <1>8, <1>9, <1>10, <1>11, <1>12 DEF LockNext

\* Type correctness of the boot and claim protocol.
THEOREM LockTypeCorrect == LockSpec => []LockTypeOK
<1>1. LockInit => LockTypeOK
  BY LockAssumption DEF LockInit, LockTypeOK, Stages
<1> QED BY <1>1, LockTypeStep, PTL DEF LockSpec

\* With starts and stops one at a time and every argv naming agentwall, at most
\* one process ever appends, its pid is in the lock, its chain state is the
\* end of the file, and the file carries every index once, in order: a stray second start is always refused.
THEOREM OneWriter ==
    ASSUME Serial
    PROVE  LockSpec => [](AtMostOneWriter /\ LockNamesWriter /\ WriterSeesTail /\ LogContiguous)
<1>1. LockInit => Exclusion
  BY DEF LockInit, Exclusion, OneTurning, LockNamesWriter, Claiming, WriterSeesTail,
     LogContiguous, Writers, Steady
<1>2. LockTypeOK /\ Exclusion /\ [LockNext]_lockVars => Exclusion'
  BY ExclusionStep
<1>3. Exclusion => AtMostOneWriter /\ LockNamesWriter /\ WriterSeesTail /\ LogContiguous
  BY DEF Exclusion, LockNamesWriter, AtMostOneWriter
<1> QED BY <1>1, <1>2, <1>3, LockTypeCorrect, PTL DEF LockSpec

\* While the lock is exclusive, each step is one of the single writer's: a
\* process begins or ends its turn, adds the next record, or does nothing that
\* the trail shows.
LEMMA TrailStep ==
    ASSUME LockTypeOK, Exclusion, Exclusion', [LockNext]_lockVars
    PROVE  [Trail!Next]_<<Holder, log>>
<1> USE LockAssumption DEF LockTypeOK, Stages, Goto
<1>1. \A p \in Writers : Writers = {p} /\ Holder = p
  BY DEF Exclusion, LockNamesWriter, Holder, Writers
<1>2. \A p \in Writers' : Writers' = {p} /\ Holder' = p
  BY DEF Exclusion, LockNamesWriter, Holder, Writers
<1>3. Writers = {} => Holder = NoLock
  BY DEF Holder
<1>4. Writers' = {} => Holder' = NoLock
  BY DEF Holder
<1>5. Writers \subseteq Procs /\ Writers' \subseteq Procs
  BY DEF Writers
<1>6. ASSUME Writers' = Writers, log' = log PROVE UNCHANGED <<Holder, log>>
  BY <1>6 DEF Holder
<1>7. ASSUME NEW p \in Procs, Stamp(p) PROVE [Trail!Next]_<<Holder, log>>
  <2>1. Writers = {} /\ p \in Writers' /\ log' = log
    BY <1>7 DEF Stamp, Exclusion, Claiming, Writers
  <2>2. Trail!Acquire(p)
    BY <2>1, <1>2, <1>3 DEF Trail!Acquire
  <2> QED BY <2>2 DEF Trail!Next
<1>8. ASSUME NEW p \in Procs, AppendRecord(p) PROVE [Trail!Next]_<<Holder, log>>
  <2>1. p \in Writers /\ seed[p] = Len(log) /\ log' = Append(log, Len(log)) /\ place' = place
    BY <1>8 DEF AppendRecord, Exclusion, WriterSeesTail, Writers
  <2>2. Writers' = Writers
    BY <2>1 DEF Writers
  <2>3. Holder = p /\ Holder' = p /\ p # NoLock
    BY <1>1, <1>2, <2>1, <2>2
  <2>4. Trail!Extend
    BY <2>1, <2>3 DEF Trail!Extend
  <2> QED BY <2>4 DEF Trail!Next
<1>9. ASSUME NEW p \in Procs, Terminate(p) \/ Exit(p) \/ KillProcess(p)
      PROVE  [Trail!Next]_<<Holder, log>>
  <2>1. log' = log /\ place'[p] \in {"off", "exiting"} /\ \A q \in Procs \ {p} : place'[q] = place[q]
    BY <1>9 DEF Terminate, Exit, KillProcess
  <2>2. CASE p \in Writers
    <3>1. Writers = {p} /\ Holder = p /\ p # NoLock
      BY <1>1, <2>2
    <3>2. Writers' = {}
      BY <2>1, <3>1 DEF Writers
    <3>3. Trail!Release
      BY <1>4, <2>1, <3>1, <3>2 DEF Trail!Release
    <3> QED BY <3>3 DEF Trail!Next
  <2>3. CASE p \notin Writers
    <3>1. Writers' = Writers
      BY <2>1, <2>3 DEF Writers
    <3> QED BY <1>6, <2>1, <3>1
  <2> QED BY <2>2, <2>3
<1>10. ASSUME NEW p \in Procs,
              \/ BootProcess(p) \/ Resume(p) \/ OpenLock(p) \/ ReadLock(p)
              \/ ClassifyAlive(p) \/ ClassifyDead(p)
       PROVE  [Trail!Next]_<<Holder, log>>
  <2>1. log' = log /\ place[p] # "writer" /\ place'[p] # "writer" /\ \A q \in Procs \ {p} : place'[q] = place[q]
    BY <1>10 DEF BootProcess, Resume, OpenLock, ReadLock, ClassifyAlive, ClassifyDead
  <2>2. Writers' = Writers
    BY <2>1 DEF Writers
  <2> QED BY <1>6, <2>1, <2>2
<1>11. CASE UNCHANGED lockVars
  BY <1>6, <1>11 DEF lockVars, Writers
<1> QED BY <1>7, <1>8, <1>9, <1>10, <1>11 DEF LockNext

\* The boot and claim protocol implements a trail with one writer at a time:
\* however many processes start, are refused, stop or are killed, what they do
\* to the file is what a single process with hand-overs could have done.
THEOREM LockImplementsTrail ==
    ASSUME Serial
    PROVE  LockSpec => ActsAsOneWriter
<1>1. LockInit => Exclusion
  BY DEF LockInit, Exclusion, OneTurning, LockNamesWriter, Claiming, WriterSeesTail,
     LogContiguous, Writers, Steady
<1>2. LockTypeOK /\ Exclusion /\ [LockNext]_lockVars => Exclusion'
  BY ExclusionStep
<1>3. LockInit => Trail!Init
  BY DEF LockInit, Trail!Init, Holder, Writers
<1>4. LockTypeOK /\ Exclusion /\ Exclusion' /\ [LockNext]_lockVars => [Trail!Next]_<<Holder, log>>
  BY TrailStep
<1> QED BY <1>1, <1>2, <1>3, <1>4, LockTypeCorrect, PTL DEF LockSpec, ActsAsOneWriter, Trail!Spec

\* The lock makes one writer of the processes, which the next claim can find and
\* whose chain state is the end of the file.
THEOREM LockHolds ==
    ASSUME Serial
    PROVE  LockSpec => LockMakesOneWriter
  BY OneWriter, LockImplementsTrail, PTL DEF LockMakesOneWriter

-----------------------------------------------------------------------------
(* The anchor passes (Anchor).  A checkpoint and the line that keeps it    *)
(* agree in every field they share.                                        *)

Marks == Nat \X Nat
Heads == Marks \cup {Nothing}
ManifestEntries == [seg : Nat, n : Nat, prev : Heads]
Keys == Passes \cup {KeyOnFile, Nothing, Unreadable}
Checkpoints == [segments : Nat, head : Heads, tail : Heads, key : Keys, digest : Nat,
                covers : SUBSET Marks]
AnchorLines == [segments : Nat, head : Heads, tail : Heads, key : Keys, error : BOOLEAN,
                digest : Nat, covers : SUBSET Marks]
AnchorTypes ==
    /\ live \in Nat /\ closed \in Seq(Int) /\ manifest \in Seq(ManifestEntries)
    /\ key \in Keys /\ anchorLog \in Seq(AnchorLines \cup {Unreadable})
    /\ at \in [Passes -> {"idle", "seal", "open", "write", "tail", "key", "create", "wait", "append"}]
    /\ todo \in [Passes -> SUBSET Nat] /\ seen \in [Passes -> Seq(ManifestEntries)]
    /\ checkpoint \in [Passes -> Checkpoints] /\ ok \in [Passes -> BOOLEAN]
    /\ started \in Nat /\ deaths \in Nat

\* Of all passes at most p moved.
Others(p, f, g) == \A q \in Passes : q # p => g[q] = f[q]
Size(i) == IF i > Len(closed) THEN live ELSE closed[i]

LEMMA SummaryIs ==
    ASSUME AnchorTypes, NEW i \in Nat \ {0}
    PROVE  /\ Size(i) \in Int
           /\ SummarizeSegment(Directory, i) = IF Size(i) > 0 THEN <<i, Size(i)>> ELSE Nothing
           /\ SummarizeSegment(Directory, i) \in Heads
           /\ SummarizeSegment(Directory, i) # Nothing
                <=> Size(i) > 0 /\ SummarizeSegment(Directory, i) = <<i, Size(i)>>
  <1>1. Directory.closed = closed /\ Directory.live = live  BY DEF Directory
  <1>2. Size(i) \in Int
    <2>1. CASE i > Len(closed)  BY <2>1 DEF Size, AnchorTypes
    <2>2. CASE ~(i > Len(closed))
      <3>1. i \in 1 .. Len(closed)  BY <2>2 DEF AnchorTypes
      <3> QED  BY <2>2, <3>1 DEF Size, AnchorTypes
    <2> QED  BY <2>1, <2>2
  <1>3. SummarizeSegment(Directory, i) = IF Size(i) > 0 THEN <<i, Size(i)>> ELSE Nothing
    BY <1>1 DEF SummarizeSegment, Size
  <1>4. Size(i) > 0 => <<i, Size(i)>> \in Nat \X Nat  BY <1>2
  <1> QED  BY <1>2, <1>3, <1>4, EvidenceAssumption DEF Heads, Marks

LEMMA ClosedIs ==
    ASSUME AnchorTypes
    PROVE  /\ DiscoverClosedSegments(Directory) = {i \in 1 .. Len(closed) : closed[i] > 0}
           /\ Live(Directory) = Len(closed) + 1
  <1>1. Directory.closed = closed  BY DEF Directory
  <1>2. DOMAIN closed = 1 .. Len(closed) /\ Len(closed) \in Nat  BY DEF AnchorTypes
  <1>3. ASSUME NEW i \in 1 .. Len(closed)
        PROVE  SummarizeSegment(Directory, i) # Nothing <=> closed[i] > 0
    <2>1. i \in Nat \ {0} /\ Size(i) = closed[i]  BY <1>2 DEF Size
    <2> QED  BY <2>1, SummaryIs
  <1> QED  BY <1>1, <1>2, <1>3 DEF DiscoverClosedSegments, Live

LEMMA MinIsLeast ==
    ASSUME NEW S \in SUBSET Nat, S # {}
    PROVE  Min(S) \in S /\ \A j \in S : Min(S) <= j
  <1>1. \E x \in S : \A y \in S : x <= y  BY HasLeast
  <1> QED  BY <1>1 DEF Min

\* What each step of a pass does.
LEMMA StartDoes ==
    ASSUME AnchorTypes, NEW p \in Passes, Start(p)
    PROVE  /\ AnchorTypes' /\ at[p] = "idle" /\ at'[p] = "seal" /\ p \in setup.passes
           /\ \A q \in Passes : ProcessOf[q] = ProcessOf[p] => ~InStretch(q)
           /\ todo'[p] = {i \in 1 .. Len(closed) : closed[i] > 0}
           /\ Others(p, at, at') /\ Others(p, todo, todo') /\ Others(p, checkpoint, checkpoint')
           /\ UNCHANGED <<live, closed, manifest, key, anchorLog, cut, proofs, seen, ok, setup, deaths, lost>>
  <1>1. /\ at[p] = "idle" /\ p \in setup.passes /\ Turn(ProcessOf[p]) /\ started' = started + 1
        /\ at' = [at EXCEPT ![p] = "seal"]
        /\ todo' = [todo EXCEPT ![p] = DiscoverClosedSegments(Directory)]
        /\ UNCHANGED <<live, closed, manifest, key, anchorLog, cut, proofs, seen, ok, setup, deaths, lost>>
    BY DEF Start, Go, disk
  <1>2. PICK c : c = [NoCheckpoint EXCEPT !.digest = started + 1]  OBVIOUS
  <1>3. c \in Checkpoints
    <2>1. Nothing \in Heads /\ Nothing \in Keys /\ {} \in SUBSET Marks  BY DEF Heads, Keys
    <2>2. started + 1 \in Nat  BY DEF AnchorTypes
    <2>3. c = [segments |-> 0, head |-> Nothing, tail |-> Nothing, key |-> Nothing,
               digest |-> started + 1, covers |-> {}]
      BY <1>2 DEF NoCheckpoint
    <2> QED  BY <2>1, <2>2, <2>3 DEF Checkpoints
  <1>4. checkpoint' = [checkpoint EXCEPT ![p] = c]  BY <1>2 DEF Start
  <1>5. DiscoverClosedSegments(Directory) = {i \in 1 .. Len(closed) : closed[i] > 0}  BY ClosedIs
  <1>6. PICK T : T = {i \in 1 .. Len(closed) : closed[i] > 0}  OBVIOUS
  <1>7. T \in SUBSET Nat  BY <1>6 DEF AnchorTypes
  <1>8. todo' = [todo EXCEPT ![p] = T]  BY <1>1, <1>5, <1>6
  <1>9. AnchorTypes'
    <2>1. at' \in [Passes -> {"idle", "seal", "open", "write", "tail", "key", "create", "wait", "append"}]
      BY <1>1 DEF AnchorTypes
    <2>2. checkpoint' \in [Passes -> Checkpoints]  BY <1>3, <1>4 DEF AnchorTypes
    <2>3. todo' \in [Passes -> SUBSET Nat]  BY <1>7, <1>8 DEF AnchorTypes
    <2> QED  BY <1>1, <2>1, <2>2, <2>3 DEF AnchorTypes
  <1> QED  BY <1>1, <1>4, <1>6, <1>8, <1>9 DEF Others, Turn, AnchorTypes

\* The entry that a pass adds for segment i.
NextEntry(i) == [seg |-> i, n |-> Size(i), prev |-> HeadAt(manifest, Len(manifest))]
HasEntry(i) == \E k \in DOMAIN manifest : manifest[k].seg = i /\ manifest[k].n = Size(i)

LEMMA HeadAtIs ==
    ASSUME NEW m \in Seq(ManifestEntries), NEW k \in 0 .. Len(m)
    PROVE  /\ HeadAt(m, k) \in Heads
           /\ k = 0 => HeadAt(m, k) = Nothing
           /\ k > 0 => HeadAt(m, k) = <<m[k].seg, m[k].n>> /\ m[k] \in ManifestEntries
  <1>1. CASE k = 0  BY <1>1 DEF HeadAt, Heads
  <1>2. CASE k > 0
    <2>1. m[k] \in ManifestEntries  BY <1>2
    <2>2. HeadAt(m, k) = <<m[k].seg, m[k].n>>  BY <1>2 DEF HeadAt, Final
    <2>3. m[k].seg \in Nat /\ m[k].n \in Nat  BY <2>1 DEF ManifestEntries
    <2>4. HeadAt(m, k) \in Heads  BY <2>2, <2>3 DEF Heads, Marks
    <2> QED  BY <1>2, <2>1, <2>2, <2>4
  <1> QED  BY <1>1, <1>2

LEMMA SealDoes ==
    ASSUME AnchorTypes, NEW p \in Passes, SealSegment(p), 0 \notin todo[p]
    PROVE  /\ AnchorTypes' /\ at[p] = "seal"
           /\ \E i \in todo[p] :
                /\ i \in Nat \ {0} /\ \A j \in todo[p] : i <= j
                /\ todo'[p] = todo[p] \ {i} /\ Others(p, todo, todo')
                /\ \/ (Size(i) <= 0 \/ HasEntry(i)) /\ at' = at /\ seen' = seen
                   \/ /\ Size(i) > 0 /\ ~HasEntry(i) /\ Size(i) \in Nat
                      /\ at'[p] = "open" /\ seen'[p] = Append(manifest, NextEntry(i))
                      /\ NextEntry(i) \in ManifestEntries
                      /\ Others(p, at, at') /\ Others(p, seen, seen')
           /\ UNCHANGED <<live, closed, manifest, key, anchorLog, cut, proofs, checkpoint, ok, setup,
                          started, deaths, lost>>
  <1>1. PICK i : i = Min(todo[p])  OBVIOUS
  <1>2. PICK final : final = SummarizeSegment(Directory, i)  OBVIOUS
  <1>3. /\ at[p] = "seal" /\ todo[p] # {} /\ todo' = [todo EXCEPT ![p] = todo[p] \ {i}]
        /\ UNCHANGED <<live, closed, manifest, key, anchorLog, cut, proofs, checkpoint, ok, setup,
                       started, deaths, lost>>
    BY <1>1 DEF SealSegment, disk, bounds
  <1>4. IF (IF final = Nothing THEN TRUE ELSE AlreadySealed(final)) THEN seen' = seen /\ at' = at
        ELSE /\ seen' = [seen EXCEPT ![p] = Append(manifest,
                           [seg |-> i, n |-> final[2], prev |-> HeadAt(manifest, Len(manifest))])]
             /\ at' = [at EXCEPT ![p] = "open"]
    BY <1>1, <1>2 DEF SealSegment, Go
  <1>5. i \in todo[p] /\ \A j \in todo[p] : i <= j
    <2>1. todo[p] \in SUBSET Nat  BY DEF AnchorTypes
    <2> QED  BY <1>1, <1>3, <2>1, MinIsLeast
  <1>6. i \in Nat \ {0}
    <2>1. todo[p] \subseteq Nat  BY DEF AnchorTypes
    <2> QED  BY <1>5, <2>1
  <1>7. Size(i) \in Int /\ (final # Nothing <=> Size(i) > 0 /\ final = <<i, Size(i)>>)
    BY <1>2, <1>6, SummaryIs
  <1>8. Size(i) > 0 => (AlreadySealed(final) <=> HasEntry(i))
    <2>1. SUFFICES ASSUME Size(i) > 0 PROVE AlreadySealed(final) <=> HasEntry(i)  OBVIOUS
    <2>2. final = <<i, Size(i)>>
      <3>1. final = IF Size(i) > 0 THEN <<i, Size(i)>> ELSE Nothing  BY <1>2, <1>6, SummaryIs
      <3> QED  BY <2>1, <3>1
    <2>3. ASSUME NEW k \in DOMAIN manifest
          PROVE  Final(manifest[k]) = final <=> manifest[k].seg = i /\ manifest[k].n = Size(i)
      BY <2>2 DEF Final
    <2> QED  BY <2>3 DEF AlreadySealed, HasEntry
  <1>9. todo'[p] = todo[p] \ {i} /\ Others(p, todo, todo') /\ todo' \in [Passes -> SUBSET Nat]
    BY <1>3 DEF Others, AnchorTypes
  <1> DEFINE Skips == (Size(i) <= 0 \/ HasEntry(i)) /\ at' = at /\ seen' = seen
             Seals == /\ Size(i) > 0 /\ ~HasEntry(i) /\ Size(i) \in Nat
                      /\ at'[p] = "open" /\ seen'[p] = Append(manifest, NextEntry(i))
                      /\ NextEntry(i) \in ManifestEntries
                      /\ Others(p, at, at') /\ Others(p, seen, seen')
  <1>a. ASSUME Size(i) <= 0 \/ HasEntry(i) PROVE AnchorTypes' /\ Skips
    <2>1. seen' = seen /\ at' = at
      <3>1. CASE Size(i) <= 0
        <4>1. final = Nothing  BY <1>7, <3>1
        <4> QED  BY <1>4, <4>1
      <3>2. CASE Size(i) > 0 /\ HasEntry(i)
        <4>1. AlreadySealed(final)  BY <1>8, <3>2
        <4> QED  BY <1>4, <4>1
      <3> QED  BY <1>7, <1>a, <3>1, <3>2
    <2>2. AnchorTypes'  BY <1>3, <1>9, <2>1 DEF AnchorTypes
    <2> QED  BY <1>a, <2>1, <2>2
  <1>b. ASSUME Size(i) > 0, ~HasEntry(i) PROVE AnchorTypes' /\ Seals
    <2>1. final = <<i, Size(i)>> /\ final # Nothing /\ ~AlreadySealed(final)
      <3>1. final = IF Size(i) > 0 THEN <<i, Size(i)>> ELSE Nothing  BY <1>2, <1>6, SummaryIs
      <3> QED  BY <1>7, <1>8, <1>b, <3>1
    <2>2. final[2] = Size(i)  BY <2>1
    <2>3. /\ seen' = [seen EXCEPT ![p] = Append(manifest, NextEntry(i))]
          /\ at' = [at EXCEPT ![p] = "open"]
      BY <1>4, <2>1, <2>2 DEF NextEntry
    <2>4. HeadAt(manifest, Len(manifest)) \in Heads
      <3>1. Len(manifest) \in 0 .. Len(manifest)  BY DEF AnchorTypes
      <3> QED  BY <3>1, HeadAtIs DEF AnchorTypes
    <2>5. NextEntry(i) \in ManifestEntries
      <3>1. i \in Nat /\ Size(i) \in Nat  BY <1>6, <1>7, <1>b
      <3> QED  BY <2>4, <3>1 DEF NextEntry, ManifestEntries
    <2>6. PICK s : s = Append(manifest, NextEntry(i))  OBVIOUS
    <2>7. s \in Seq(ManifestEntries)  BY <2>5, <2>6 DEF AnchorTypes
    <2>8. seen' = [seen EXCEPT ![p] = s]  BY <2>3, <2>6
    <2>9. AnchorTypes'  BY <1>3, <1>9, <2>3, <2>7, <2>8 DEF AnchorTypes
    <2>a. at'[p] = "open" /\ Others(p, at, at') /\ seen'[p] = s /\ Others(p, seen, seen')
      BY <2>3, <2>8 DEF Others, AnchorTypes
    <2>b. Size(i) \in Nat  BY <1>7, <1>b
    <2> QED  BY <1>b, <2>5, <2>6, <2>9, <2>a, <2>b
  <1>c. AnchorTypes' /\ (Skips \/ Seals)  BY <1>7, <1>a, <1>b
  <1> QED  BY <1>3, <1>5, <1>6, <1>9, <1>c

LEMMA OpenDoes ==
    ASSUME AnchorTypes, NEW p \in Passes, OpenManifest(p)
    PROVE  /\ AnchorTypes' /\ at[p] = "open" /\ at'[p] = "write" /\ Others(p, at, at') /\ manifest' = <<>>
           /\ UNCHANGED <<live, closed, key, anchorLog, cut, proofs, todo, seen, checkpoint, ok, setup,
                          started, deaths, lost>>
  <1>1. /\ at[p] = "open" /\ at' = [at EXCEPT ![p] = "write"] /\ manifest' = <<>>
        /\ UNCHANGED <<live, closed, key, anchorLog, cut, proofs, todo, seen, checkpoint, ok, setup,
                       started, deaths, lost>>
    BY DEF OpenManifest, Go, bounds
  <1>2. manifest' \in Seq(ManifestEntries)  BY <1>1
  <1> QED  BY <1>1, <1>2 DEF AnchorTypes, Others

LEMMA FromEnd ==
    ASSUME NEW m \in Seq(ManifestEntries), NEW k \in Nat
    PROVE  /\ From(m, k) \in Seq(ManifestEntries)
           /\ \A j \in DOMAIN From(m, k) : k + j \in 1 .. Len(m) /\ From(m, k)[j] = m[k + j]
           /\ k <= Len(m) => Len(From(m, k)) = Len(m) - k
           /\ Len(From(m, k)) \in Nat /\ DOMAIN From(m, k) = 1 .. Len(From(m, k))
           /\ m = <<>> => From(m, k) = <<>>
  <1>1. Len(m) \in Nat /\ \A j \in 1 .. Len(m) : m[j] \in ManifestEntries  OBVIOUS
  <1>2. PICK q : q = [j \in 1 .. (Len(m) - k) |-> m[k + j]]  OBVIOUS
  <1>3. From(m, k) = q
    <2>1. SubSeq(m, k + 1, Len(m)) = [j \in 1 .. (1 + Len(m) - (k + 1)) |-> m[(k + 1) + j - 1]]
      BY <1>1
    <2>2. 1 + Len(m) - (k + 1) = Len(m) - k /\ \A j \in 1 .. (Len(m) - k) : (k + 1) + j - 1 = k + j
      BY <1>1
    <2> QED  BY <1>2, <2>1, <2>2 DEF From
  <1>4. CASE k <= Len(m)
    <2>1. Len(m) - k \in Nat  BY <1>1, <1>4
    <2>2. \A j \in 1 .. (Len(m) - k) : k + j \in 1 .. Len(m)  BY <1>1, <1>4
    <2>3. q \in Seq(ManifestEntries) /\ Len(q) = Len(m) - k /\ DOMAIN q = 1 .. (Len(m) - k)
      BY <1>1, <1>2, <2>1, <2>2
    <2>4. m = <<>> => q = <<>>
      <3>1. m = <<>> => Len(q) = 0  BY <1>4, <2>3
      <3> QED  BY <2>3, <3>1
    <2> QED  BY <1>2, <1>3, <2>1, <2>2, <2>3, <2>4
  <1>5. CASE k > Len(m)
    <2>1. 1 .. (Len(m) - k) = 1 .. 0  BY <1>1, <1>5
    <2>2. q = [j \in 1 .. 0 |-> m[k + j]]  BY <1>2, <2>1
    <2>3. q \in Seq(ManifestEntries) /\ Len(q) = 0  BY <2>2
    <2>4. q = <<>>  BY <2>3
    <2> QED  BY <1>1, <1>3, <1>5, <2>4
  <1> QED  BY <1>1, <1>4, <1>5

LEMMA WriteDoes ==
    ASSUME AnchorTypes, NEW p \in Passes, WriteManifest(p)
    PROVE  /\ AnchorTypes' /\ at[p] = "write" /\ at'[p] = "seal" /\ Others(p, at, at')
           /\ manifest' = seen[p] \o From(manifest, Len(seen[p]))
           /\ seen'[p] = <<>> /\ Others(p, seen, seen')
           /\ UNCHANGED <<live, closed, key, anchorLog, cut, proofs, todo, checkpoint, ok, setup, started,
                          deaths, lost>>
  <1>1. /\ at[p] = "write" /\ at' = [at EXCEPT ![p] = "seal"]
        /\ manifest' = seen[p] \o From(manifest, Len(seen[p])) /\ seen' = [seen EXCEPT ![p] = <<>>]
        /\ UNCHANGED <<live, closed, key, anchorLog, cut, proofs, todo, checkpoint, ok, setup, started,
                       deaths, lost>>
    BY DEF WriteManifest, Go, bounds
  <1>2. manifest' \in Seq(ManifestEntries)
    <2>1. PICK s : s = seen[p]  OBVIOUS
    <2>2. s \in Seq(ManifestEntries) /\ Len(s) \in Nat  BY <2>1 DEF AnchorTypes
    <2>3. From(manifest, Len(s)) \in Seq(ManifestEntries)  BY <2>2, FromEnd DEF AnchorTypes
    <2> QED  BY <1>1, <2>1, <2>2, <2>3
  <1>3. PICK e : e = <<>>  OBVIOUS
  <1>4. e \in Seq(ManifestEntries)  BY <1>3
  <1>5. seen' \in [Passes -> Seq(ManifestEntries)] /\ seen'[p] = <<>> /\ Others(p, seen, seen')
    BY <1>1, <1>3, <1>4 DEF AnchorTypes, Others
  <1> QED  BY <1>1, <1>2, <1>5 DEF AnchorTypes, Others

LEMMA CheckpointDoes ==
    ASSUME AnchorTypes, NEW p \in Passes, Checkpoint(p)
    PROVE  /\ AnchorTypes' /\ at[p] = "seal" /\ at'[p] = "tail" /\ Others(p, at, at') /\ todo[p] = {}
           /\ checkpoint'[p].segments = Len(manifest)
           /\ checkpoint'[p].head = HeadAt(manifest, Len(manifest))
           /\ checkpoint'[p].covers = {Final(manifest[i]) : i \in 1 .. Len(manifest)}
           /\ Others(p, checkpoint, checkpoint')
           /\ UNCHANGED <<live, closed, manifest, key, anchorLog, cut, proofs, todo, seen, ok, setup, started,
                          deaths, lost>>
  <1>1. PICK s : s = Len(manifest)  OBVIOUS
  <1>2. PICK h : h = HeadAt(manifest, s)  OBVIOUS
  <1>3. PICK v : v = {Final(manifest[i]) : i \in DOMAIN manifest}  OBVIOUS
  <1>4. /\ at[p] = "seal" /\ at' = [at EXCEPT ![p] = "tail"] /\ todo[p] = {}
        /\ checkpoint' = [checkpoint EXCEPT ![p].segments = s, ![p].head = h, ![p].covers = v]
        /\ UNCHANGED <<live, closed, manifest, key, anchorLog, cut, proofs, todo, seen, ok, setup, started,
                       deaths, lost>>
    BY <1>1, <1>2, <1>3 DEF Checkpoint, Go, disk, bounds
  <1>5. s \in Nat /\ h \in Heads
    <2>1. s \in 0 .. Len(manifest)  BY <1>1 DEF AnchorTypes
    <2> QED  BY <1>2, <2>1, HeadAtIs DEF AnchorTypes
  <1>6. v \in SUBSET Marks
    <2>1. ASSUME NEW i \in DOMAIN manifest PROVE Final(manifest[i]) \in Marks
      <3>1. manifest[i] \in ManifestEntries  BY DEF AnchorTypes
      <3> QED  BY <3>1 DEF Final, Marks, ManifestEntries
    <2> QED  BY <1>3, <2>1
  <1>7. /\ checkpoint' \in [Passes -> Checkpoints] /\ Others(p, checkpoint, checkpoint')
        /\ checkpoint'[p].segments = s /\ checkpoint'[p].head = h /\ checkpoint'[p].covers = v
    <2>1. checkpoint \in [Passes -> Checkpoints]  BY DEF AnchorTypes
    <2> QED  BY <1>4, <1>5, <1>6, <2>1 DEF Checkpoints, Others
  <1>8. AnchorTypes'  BY <1>4, <1>7 DEF AnchorTypes
  <1>d. DOMAIN manifest = 1 .. Len(manifest)  BY DEF AnchorTypes
  <1> QED  BY <1>1, <1>2, <1>3, <1>4, <1>7, <1>8, <1>d DEF Others, AnchorTypes

LEMMA LiveTailDoes ==
    ASSUME AnchorTypes, NEW p \in Passes, LiveTail(p)
    PROVE  /\ AnchorTypes' /\ at[p] = "tail" /\ at'[p] \in {"idle", "key"} /\ Others(p, at, at')
           /\ checkpoint'[p].segments = checkpoint[p].segments
           /\ checkpoint'[p].head = checkpoint[p].head
           /\ checkpoint'[p].tail = IF live > 0 THEN <<Len(closed) + 1, live>> ELSE Nothing
           /\ checkpoint'[p].covers \subseteq checkpoint[p].covers \cup {checkpoint'[p].tail}
           /\ Others(p, checkpoint, checkpoint')
           /\ UNCHANGED <<live, closed, manifest, key, anchorLog, cut, proofs, todo, seen, ok, setup, started,
                          deaths, lost>>
  <1>1. PICK t : t = SummarizeSegment(Directory, Live(Directory))  OBVIOUS
  <1>2. PICK v : v = checkpoint[p].covers \cup ({t} \ {Nothing})  OBVIOUS
  <1>3. /\ at[p] = "tail"
        /\ at' = [at EXCEPT ![p] = IF t = Nothing /\ checkpoint[p].head = Nothing THEN "idle" ELSE "key"]
        /\ checkpoint' = [checkpoint EXCEPT ![p].tail = t, ![p].covers = v]
        /\ UNCHANGED <<live, closed, manifest, key, anchorLog, cut, proofs, todo, seen, ok, setup, started,
                       deaths, lost>>
    BY <1>1, <1>2 DEF LiveTail, Go, disk, bounds
  <1>4. t = (IF live > 0 THEN <<Len(closed) + 1, live>> ELSE Nothing) /\ t \in Heads
    <2>1. Live(Directory) = Len(closed) + 1  BY ClosedIs
    <2>2. Len(closed) + 1 \in Nat \ {0} /\ Size(Len(closed) + 1) = live  BY DEF Size, AnchorTypes
    <2> QED  BY <1>1, <2>1, <2>2, SummaryIs
  <1>5. checkpoint[p] \in Checkpoints  BY DEF AnchorTypes
  <1>6. v \in SUBSET Marks
    <2>1. checkpoint[p].covers \in SUBSET Marks  BY <1>5 DEF Checkpoints
    <2> QED  BY <1>2, <1>4, <2>1 DEF Heads
  <1>7. /\ checkpoint' \in [Passes -> Checkpoints] /\ Others(p, checkpoint, checkpoint')
        /\ checkpoint'[p].segments = checkpoint[p].segments /\ checkpoint'[p].head = checkpoint[p].head
        /\ checkpoint'[p].tail = t /\ checkpoint'[p].covers = v
    <2>1. checkpoint \in [Passes -> Checkpoints]  BY DEF AnchorTypes
    <2> QED  BY <1>3, <1>4, <1>6, <2>1 DEF Checkpoints, Others
  <1>b. /\ at'[p] \in {"idle", "key"} /\ Others(p, at, at')
        /\ at' \in [Passes -> {"idle", "seal", "open", "write", "tail", "key", "create", "wait", "append"}]
    BY <1>3 DEF Others, AnchorTypes
  <1>c. AnchorTypes'  BY <1>3, <1>7, <1>b DEF AnchorTypes
  <1>d. v \subseteq checkpoint[p].covers \cup {t}  BY <1>2
  <1> QED  BY <1>3, <1>4, <1>7, <1>b, <1>c, <1>d

LEMMA LoadKeyDoes ==
    ASSUME AnchorTypes, NEW p \in Passes, LoadKey(p)
    PROVE  /\ AnchorTypes' /\ at[p] = "key" /\ Others(p, at, at')
           /\ \/ at'[p] = "create" /\ key = Nothing
              \/ at'[p] = "idle" /\ key # Nothing
              \/ at'[p] = "wait" /\ key # Nothing
           /\ checkpoint'[p].segments = checkpoint[p].segments
           /\ checkpoint'[p].head = checkpoint[p].head /\ checkpoint'[p].tail = checkpoint[p].tail
           /\ checkpoint'[p].covers = checkpoint[p].covers /\ checkpoint'[p].key = key
           /\ Others(p, checkpoint, checkpoint')
           /\ UNCHANGED <<live, closed, manifest, key, anchorLog, cut, proofs, todo, seen, ok, setup, started,
                          deaths, lost>>
  <1>1. /\ at[p] = "key" /\ checkpoint' = [checkpoint EXCEPT ![p].key = key]
        /\ at' = [at EXCEPT ![p] = IF key = Nothing THEN "create" ELSE IF key = Unreadable THEN "idle" ELSE "wait"]
        /\ UNCHANGED <<live, closed, manifest, key, anchorLog, cut, proofs, todo, seen, ok, setup, started,
                       deaths, lost>>
    BY DEF LoadKey, Go, disk, bounds
  <1>2. /\ checkpoint' \in [Passes -> Checkpoints] /\ Others(p, checkpoint, checkpoint')
        /\ checkpoint'[p].segments = checkpoint[p].segments /\ checkpoint'[p].head = checkpoint[p].head
        /\ checkpoint'[p].tail = checkpoint[p].tail /\ checkpoint'[p].covers = checkpoint[p].covers
        /\ checkpoint'[p].key = key
    <2>1. checkpoint \in [Passes -> Checkpoints] /\ key \in Keys  BY DEF AnchorTypes
    <2> QED  BY <1>1, <2>1 DEF Checkpoints, Others
  <1>3. /\ \/ at'[p] = "create" /\ key = Nothing
           \/ at'[p] = "idle" /\ key # Nothing
           \/ at'[p] = "wait" /\ key # Nothing
        /\ Others(p, at, at')
        /\ at' \in [Passes -> {"idle", "seal", "open", "write", "tail", "key", "create", "wait", "append"}]
    <2>1. at \in [Passes -> {"idle", "seal", "open", "write", "tail", "key", "create", "wait", "append"}]
      BY DEF AnchorTypes
    <2>2. CASE key = Nothing  BY <1>1, <2>1, <2>2 DEF Others
    <2>3. CASE key # Nothing /\ key = Unreadable
      <3>1. at' = [at EXCEPT ![p] = "idle"]  BY <1>1, <2>3
      <3> QED  BY <2>1, <2>3, <3>1 DEF Others
    <2>4. CASE key # Nothing /\ key # Unreadable
      <3>1. at' = [at EXCEPT ![p] = "wait"]  BY <1>1, <2>4
      <3> QED  BY <2>1, <2>4, <3>1 DEF Others
    <2> QED  BY <2>2, <2>3, <2>4
  <1>4. AnchorTypes'  BY <1>1, <1>2, <1>3 DEF AnchorTypes
  <1> QED  BY <1>1, <1>2, <1>3, <1>4

LEMMA CreateKeyDoes ==
    ASSUME AnchorTypes, NEW p \in Passes, CreateKey(p)
    PROVE  /\ AnchorTypes' /\ at[p] = "create" /\ at'[p] = "wait" /\ Others(p, at, at') /\ key' = p
           /\ checkpoint'[p].segments = checkpoint[p].segments
           /\ checkpoint'[p].head = checkpoint[p].head /\ checkpoint'[p].tail = checkpoint[p].tail
           /\ checkpoint'[p].covers = checkpoint[p].covers /\ checkpoint'[p].key = p
           /\ Others(p, checkpoint, checkpoint')
           /\ UNCHANGED <<live, closed, manifest, anchorLog, cut, proofs, todo, seen, ok, setup, started, deaths,
                          lost>>
  <1>1. /\ at[p] = "create" /\ key' = p /\ checkpoint' = [checkpoint EXCEPT ![p].key = p]
        /\ at' = [at EXCEPT ![p] = "wait"]
        /\ UNCHANGED <<live, closed, manifest, anchorLog, cut, proofs, todo, seen, ok, setup, started, deaths,
                       lost>>
    BY DEF CreateKey, Go, bounds
  <1>2. p \in Keys  BY DEF Keys
  <1>3. /\ checkpoint' \in [Passes -> Checkpoints] /\ Others(p, checkpoint, checkpoint')
        /\ checkpoint'[p].segments = checkpoint[p].segments /\ checkpoint'[p].head = checkpoint[p].head
        /\ checkpoint'[p].tail = checkpoint[p].tail /\ checkpoint'[p].covers = checkpoint[p].covers
        /\ checkpoint'[p].key = p
    <2>1. checkpoint \in [Passes -> Checkpoints]  BY DEF AnchorTypes
    <2> QED  BY <1>1, <1>2, <2>1 DEF Checkpoints, Others
  <1>4. AnchorTypes'  BY <1>1, <1>2, <1>3 DEF AnchorTypes
  <1> QED  BY <1>1, <1>3, <1>4 DEF Others, AnchorTypes

LEMMA AnswerDoes ==
    ASSUME AnchorTypes, NEW p \in Passes, NEW reached \in BOOLEAN, Answer(p, reached)
    PROVE  /\ AnchorTypes' /\ at[p] = "wait" /\ at'[p] = "append" /\ Others(p, at, at')
           /\ \A q \in Passes : ProcessOf[q] = ProcessOf[p] => ~InStretch(q)
           /\ Others(p, ok, ok') /\ proofs \subseteq proofs'
           /\ ok'[p] => checkpoint[p].digest \in proofs'
           /\ UNCHANGED <<live, closed, manifest, key, anchorLog, cut, todo, seen, checkpoint, setup, started,
                          deaths, lost>>
  <1>1. /\ at[p] = "wait" /\ Turn(ProcessOf[p]) /\ ok' = [ok EXCEPT ![p] = reached]
        /\ proofs' = (IF reached THEN proofs \cup {checkpoint[p].digest} ELSE proofs)
        /\ at' = [at EXCEPT ![p] = "append"]
        /\ UNCHANGED <<live, closed, manifest, key, anchorLog, cut, todo, seen, checkpoint, setup, started,
                       deaths, lost>>
    BY DEF Answer, Go, bounds, ProofName
  <1>2. ok' \in [Passes -> BOOLEAN] /\ Others(p, ok, ok') /\ ok'[p] = reached
    BY <1>1 DEF AnchorTypes, Others
  <1>3. AnchorTypes'  BY <1>1, <1>2 DEF AnchorTypes
  <1> QED  BY <1>1, <1>2, <1>3 DEF Others, AnchorTypes, Turn

LEMMA AppendDoes ==
    ASSUME AnchorTypes, NEW p \in Passes, AppendAnchor(p)
    PROVE  /\ AnchorTypes' /\ at[p] = "append" /\ at'[p] = "idle" /\ Others(p, at, at')
           /\ \A q \in Passes : ProcessOf[q] = ProcessOf[p] => ~InStretch(q)
           /\ \/ anchorLog' = anchorLog
              \/ anchorLog' = Append(anchorLog, AnchorLine(p))
           /\ AnchorLine(p) \in AnchorLines
           /\ UNCHANGED <<live, closed, manifest, key, proofs, todo, seen, checkpoint, ok, setup, started,
                          deaths, lost>>
  <1>1. /\ at[p] = "append" /\ Turn(ProcessOf[p]) /\ at' = [at EXCEPT ![p] = "idle"]
        /\ anchorLog' = (IF cut THEN anchorLog ELSE Append(anchorLog, AnchorLine(p)))
        /\ UNCHANGED <<live, closed, manifest, key, proofs, todo, seen, checkpoint, ok, setup, started,
                       deaths, lost>>
    BY DEF AppendAnchor, Go, bounds
  <1>2. AnchorLine(p) \in AnchorLines
    <2>1. checkpoint[p] \in Checkpoints /\ ok[p] \in BOOLEAN  BY DEF AnchorTypes
    <2> QED  BY <2>1 DEF AnchorLine, AnchorLines, Checkpoints
  <1>3. PICK a \in AnchorLines \cup {Unreadable} : a = AnchorLine(p)  BY <1>2
  <1>4. Append(anchorLog, a) \in Seq(AnchorLines \cup {Unreadable})  BY DEF AnchorTypes
  <1>5. anchorLog' \in Seq(AnchorLines \cup {Unreadable})  BY <1>1, <1>3, <1>4 DEF AnchorTypes
  <1>6. AnchorTypes'  BY <1>1, <1>5 DEF AnchorTypes
  <1> QED  BY <1>1, <1>2, <1>6 DEF Others, AnchorTypes, Turn

LEMMA KillDoes ==
    ASSUME AnchorTypes, NEW p \in Passes, KillPass(p)
    PROVE  /\ AnchorTypes' /\ at[p] # "idle" /\ deaths' = deaths + 1
           /\ \/ at[p] # "write" /\ manifest' = manifest
              \/ at[p] = "write" /\ \E k \in 0 .. Len(seen[p]) : manifest' = SubSeq(seen[p], 1, k)
           /\ key' = key \/ at[p] = "create"
           /\ anchorLog' = anchorLog \/ anchorLog' = Append(anchorLog, Unreadable)
           /\ \A q \in Passes : \/ ProcessOf[q] = ProcessOf[p] /\ at'[q] = "idle" /\ seen'[q] = <<>> /\ todo'[q] = {}
                                \/ /\ ProcessOf[q] # ProcessOf[p] /\ at'[q] = at[q] /\ seen'[q] = seen[q]
                                   /\ todo'[q] = todo[q]
           /\ UNCHANGED <<live, closed, proofs, checkpoint, ok, setup, started, lost>>
  <1>1. /\ at[p] # "idle" /\ deaths' = deaths + 1
        /\ LeftOfManifest(p) /\ LeftOfKey(p) /\ LeftOfLog(p)
        /\ at' = [q \in Passes |-> IF ProcessOf[q] = ProcessOf[p] THEN "idle" ELSE at[q]]
        /\ seen' = [q \in Passes |-> IF ProcessOf[q] = ProcessOf[p] THEN <<>> ELSE seen[q]]
        /\ todo' = [q \in Passes |-> IF ProcessOf[q] = ProcessOf[p] THEN {} ELSE todo[q]]
        /\ UNCHANGED <<live, closed, proofs, checkpoint, ok, setup, started, lost>>
    BY DEF KillPass
  <1>2. /\ \/ at[p] # "write" /\ manifest' = manifest
           \/ at[p] = "write" /\ \E k \in 0 .. Len(seen[p]) : manifest' = SubSeq(seen[p], 1, k)
        /\ key' = key \/ at[p] = "create"
        /\ key' \in {key, Unreadable}
        /\ anchorLog' = anchorLog \/ anchorLog' = Append(anchorLog, Unreadable)
    BY <1>1 DEF LeftOfManifest, LeftOfKey, LeftOfLog
  <1>3. manifest' \in Seq(ManifestEntries)
    <2>1. PICK s \in Seq(ManifestEntries) : s = seen[p]  BY DEF AnchorTypes
    <2>2. ASSUME NEW k \in 0 .. Len(s) PROVE SubSeq(s, 1, k) \in Seq(ManifestEntries)
      <3>1. Len(s) \in Nat /\ \A j \in 1 .. Len(s) : s[j] \in ManifestEntries  BY <2>1
      <3>2. \A j \in 1 .. k : s[j] \in ManifestEntries  BY <3>1
      <3> QED  BY <3>1, <3>2
    <2> QED  BY <1>2, <2>1, <2>2 DEF AnchorTypes
  <1>4. key' \in Keys  BY <1>2 DEF Keys, AnchorTypes
  <1>5. anchorLog' \in Seq(AnchorLines \cup {Unreadable})
    <2>1. PICK a \in AnchorLines \cup {Unreadable} : a = Unreadable  OBVIOUS
    <2>2. Append(anchorLog, a) \in Seq(AnchorLines \cup {Unreadable})  BY DEF AnchorTypes
    <2> QED  BY <1>2, <2>1, <2>2 DEF AnchorTypes
  <1>6. at' \in [Passes -> {"idle", "seal", "open", "write", "tail", "key", "create", "wait", "append"}]
    BY <1>1 DEF AnchorTypes
  <1>7. seen' \in [Passes -> Seq(ManifestEntries)] /\ todo' \in [Passes -> SUBSET Nat]
    <2>1. PICK e : e = <<>>  OBVIOUS
    <2>0. e \in Seq(ManifestEntries)  BY <2>1
    <2>2. PICK o \in SUBSET Nat : o = {}  OBVIOUS
    <2>3. seen' \in [Passes -> Seq(ManifestEntries)]  BY <1>1, <2>0, <2>1 DEF AnchorTypes
    <2>4. todo' \in [Passes -> SUBSET Nat]  BY <1>1, <2>2 DEF AnchorTypes
    <2> QED  BY <2>3, <2>4
  <1>8. AnchorTypes'  BY <1>1, <1>3, <1>4, <1>5, <1>6, <1>7 DEF AnchorTypes
  <1> QED  BY <1>1, <1>2, <1>8

LEMMA RecordDoes ==
    ASSUME AnchorTypes, Record
    PROVE  /\ AnchorTypes' /\ live' = live + 1
           /\ UNCHANGED <<closed, manifest, key, anchorLog, cut, proofs, at, todo, seen, checkpoint, ok, setup,
                          started, deaths, lost>>
  BY DEF AnchorTypes, Record, pass, bounds

LEMMA RotateDoes ==
    ASSUME AnchorTypes, Rotate
    PROVE  /\ AnchorTypes' /\ live > 0 /\ live' = 0 /\ closed' = Append(closed, live)
           /\ UNCHANGED <<manifest, key, anchorLog, cut, proofs, at, todo, seen, checkpoint, ok, setup,
                          started, deaths, lost>>
  BY DEF AnchorTypes, Rotate, pass, bounds

LEMMA DamageDoes ==
    ASSUME AnchorTypes, NEW i \in DOMAIN closed, NEW n \in Gone .. 1, Damage(i, n)
    PROVE  /\ AnchorTypes' /\ n < closed[i] /\ closed' = [closed EXCEPT ![i] = n] /\ lost' # {}
           /\ Len(closed') = Len(closed)
           /\ UNCHANGED <<live, manifest, key, anchorLog, cut, proofs, at, todo, seen, checkpoint, ok, setup,
                          started, deaths>>
  <1>1. /\ n < closed[i] /\ closed' = [closed EXCEPT ![i] = n] /\ lost' = lost \cup {i}
        /\ UNCHANGED <<live, manifest, key, anchorLog, cut, proofs, at, todo, seen, checkpoint, ok, setup,
                       started, deaths>>
    BY DEF Damage, pass
  <1>2. n \in Int  BY DEF Gone
  <1>3. closed' \in Seq(Int) /\ Len(closed') = Len(closed)  BY <1>1, <1>2 DEF AnchorTypes
  <1> QED  BY <1>1, <1>3 DEF AnchorTypes

\* Whatever the processes do: one pass of a process is under way, entries name segments there
\* were, and a checkpoint's tail is of a later segment than its head.
Turns ==
    /\ \A p \in Passes : at[p] # "idle" => p \in setup.passes
    /\ \A p, q \in Passes : InStretch(p) /\ InStretch(q) /\ ProcessOf[p] = ProcessOf[q] => p = q
InRange(m) == \A k \in DOMAIN m : m[k].seg \in 1 .. Len(closed) /\ m[k].n > 0
EntriesNamed ==
    /\ InRange(manifest)
    /\ \A p \in Passes : InRange(seen[p]) /\ todo[p] \subseteq 1 .. Len(closed)
HeadIsClosed(c) == c.head # Nothing => c.head[1] <= Len(closed)
TailIsLater(c) == c.head # Nothing /\ c.tail # Nothing => c.head[1] < c.tail[1]
SignedApart ==
    /\ \A i \in DOMAIN anchorLog : anchorLog[i] # Unreadable => TailIsLater(anchorLog[i])
    /\ \A p \in Passes : /\ at[p] = "tail" => HeadIsClosed(checkpoint[p])
                         /\ at[p] \in {"key", "create", "wait", "append"} => TailIsLater(checkpoint[p])
PassesInv == AnchorTypes /\ Turns /\ EntriesNamed /\ SignedApart

LEMMA TurnsOn ==
    ASSUME NEW p \in Passes, Turns, Others(p, at, at'), setup' = setup,
           at'[p] # "idle" => p \in setup.passes,
           at'[p] \notin {"idle", "wait", "append"} =>
              InStretch(p) \/ \A q \in Passes : ProcessOf[q] = ProcessOf[p] => ~InStretch(q)
    PROVE  Turns'
  <1>1. \A q \in Passes : q # p => (InStretch(q)' <=> InStretch(q))  BY DEF Others, InStretch
  <1>2. InStretch(p)' => InStretch(p) \/ \A q \in Passes : ProcessOf[q] = ProcessOf[p] => ~InStretch(q)
    BY DEF InStretch
  <1>3. \A q \in Passes : at'[q] # "idle" => q \in setup'.passes  BY DEF Turns, Others
  <1>4. \A q, r \in Passes : InStretch(q)' /\ InStretch(r)' /\ ProcessOf[q] = ProcessOf[r] => q = r
    BY <1>1, <1>2 DEF Turns
  <1> QED  BY <1>3, <1>4 DEF Turns

LEMMA InRangeAppend ==
    ASSUME NEW m \in Seq(ManifestEntries), NEW e \in ManifestEntries, closed \in Seq(Int), InRange(m),
           e.seg \in 1 .. Len(closed), e.n > 0
    PROVE  InRange(Append(m, e))
  <1>1. PICK s : s = Append(m, e)  OBVIOUS
  <1>2. /\ DOMAIN s = 1 .. Len(m) + 1 /\ s[Len(m) + 1] = e /\ \A k \in 1 .. Len(m) : s[k] = m[k]
        /\ Len(m) \in Nat /\ DOMAIN m = 1 .. Len(m)
    BY <1>1
  <1>3. ASSUME NEW k \in DOMAIN s PROVE s[k].seg \in 1 .. Len(closed) /\ s[k].n > 0
    <2>1. CASE k = Len(m) + 1  BY <1>2, <2>1
    <2>2. CASE k # Len(m) + 1
      <3>1. k \in DOMAIN m /\ s[k] = m[k]  BY <1>2, <2>2
      <3> QED  BY <3>1 DEF InRange
    <2> QED  BY <2>1, <2>2
  <1> QED  BY <1>1, <1>3 DEF InRange

\* What a rewrite leaves is a beginning of what it wrote, then what stood behind.
LEMMA JoinedIs ==
    ASSUME NEW s \in Seq(ManifestEntries), NEW t \in Seq(ManifestEntries)
    PROVE  /\ s \o t \in Seq(ManifestEntries) /\ Len(s \o t) = Len(s) + Len(t)
           /\ Len(s) \in Nat /\ Len(t) \in Nat
           /\ \A k \in 1 .. Len(s) : (s \o t)[k] = s[k]
           /\ \A k \in 1 .. Len(s) + Len(t) : k > Len(s) => (s \o t)[k] = t[k - Len(s)]
           /\ t = <<>> => s \o t = s
  OBVIOUS

LEMMA InRangeJoined ==
    ASSUME NEW s \in Seq(ManifestEntries), NEW m \in Seq(ManifestEntries), InRange(s), InRange(m)
    PROVE  InRange(s \o From(m, Len(s)))
  <1>1. PICK t : t = From(m, Len(s))  OBVIOUS
  <1>2. /\ t \in Seq(ManifestEntries) /\ DOMAIN t = 1 .. Len(t)
        /\ \A j \in DOMAIN t : Len(s) + j \in 1 .. Len(m) /\ t[j] = m[Len(s) + j]
    <2>1. Len(s) \in Nat  OBVIOUS
    <2> QED  BY <1>1, <2>1, FromEnd
  <1>3. PICK u : u = s \o t  OBVIOUS
  <1>4. /\ u \in Seq(ManifestEntries) /\ Len(u) = Len(s) + Len(t) /\ Len(s) \in Nat /\ Len(t) \in Nat
        /\ \A k \in 1 .. Len(s) : u[k] = s[k]
        /\ \A k \in 1 .. Len(s) + Len(t) : k > Len(s) => u[k] = t[k - Len(s)]
    BY <1>2, <1>3, JoinedIs
  <1>5. DOMAIN s = 1 .. Len(s) /\ DOMAIN m = 1 .. Len(m) /\ DOMAIN u = 1 .. Len(u)  BY <1>4
  <1>6. ASSUME NEW k \in DOMAIN u PROVE u[k].seg \in 1 .. Len(closed) /\ u[k].n > 0
    <2>1. CASE k <= Len(s)
      <3>1. k \in DOMAIN s /\ u[k] = s[k]  BY <1>4, <1>5, <2>1
      <3> QED  BY <3>1 DEF InRange
    <2>2. CASE k > Len(s)
      <3>1. k - Len(s) \in DOMAIN t /\ u[k] = t[k - Len(s)]  BY <1>2, <1>4, <1>5, <2>2
      <3>2. k \in DOMAIN m /\ u[k] = m[k]  BY <1>2, <1>4, <1>5, <2>2, <3>1
      <3> QED  BY <3>2 DEF InRange
    <2> QED  BY <1>4, <1>5, <2>1, <2>2
  <1> QED  BY <1>1, <1>3, <1>6 DEF InRange

\* The lines of a log that grew.
LEMMA LogGrows ==
    ASSUME NEW lines, NEW list \in Seq(lines), NEW a \in lines
    PROVE  /\ Append(list, a) \in Seq(lines) /\ Len(Append(list, a)) = Len(list) + 1 /\ Len(list) \in Nat
           /\ \A i \in DOMAIN Append(list, a) :
                 \/ i \in DOMAIN list /\ Append(list, a)[i] = list[i]
                 \/ i = Len(list) + 1 /\ Append(list, a)[i] = a
  <1>1. PICK s : s = Append(list, a)  OBVIOUS
  <1>2. /\ s \in Seq(lines) /\ Len(s) = Len(list) + 1 /\ Len(list) \in Nat /\ DOMAIN list = 1 .. Len(list)
        /\ DOMAIN s = 1 .. Len(s) /\ s[Len(list) + 1] = a /\ \A i \in 1 .. Len(list) : s[i] = list[i]
    BY <1>1
  <1>3. \A i \in DOMAIN s : i \in 1 .. Len(list) \/ i = Len(list) + 1  BY <1>2
  <1> QED  BY <1>1, <1>2, <1>3

LEMMA BeginningIs ==
    ASSUME NEW s \in Seq(ManifestEntries), NEW k \in 0 .. Len(s)
    PROVE  /\ Len(SubSeq(s, 1, k)) = k /\ DOMAIN SubSeq(s, 1, k) = 1 .. k
           /\ DOMAIN s = 1 .. Len(s) /\ Len(s) \in Nat
           /\ \A j \in 1 .. k : SubSeq(s, 1, k)[j] = s[j]
  <1>1. Len(s) \in Nat /\ DOMAIN s = 1 .. Len(s) /\ \A j \in 1 .. Len(s) : s[j] \in ManifestEntries  OBVIOUS
  <1>2. PICK q : q = [j \in 1 .. k |-> s[j]]  OBVIOUS
  <1>3. SubSeq(s, 1, k) = q
    <2>1. SubSeq(s, 1, k) = [j \in 1 .. (1 + k - 1) |-> s[1 + j - 1]]  BY <1>1
    <2>2. 1 + k - 1 = k /\ \A j \in 1 .. k : 1 + j - 1 = j  OBVIOUS
    <2> QED  BY <1>2, <2>1, <2>2
  <1>4. \A j \in 1 .. k : j \in 1 .. Len(s)  BY <1>1
  <1>5. q \in Seq(ManifestEntries) /\ Len(q) = k /\ DOMAIN q = 1 .. k  BY <1>1, <1>2, <1>4
  <1> QED  BY <1>1, <1>2, <1>3, <1>5

LEMMA PassesBegin == AnchorInit => PassesInv
  <1> SUFFICES ASSUME AnchorInit PROVE PassesInv  OBVIOUS
  <1>1. PICK c : c = NoCheckpoint  OBVIOUS
  <1>2. c \in Checkpoints
    <2>1. Nothing \in Heads /\ Nothing \in Keys /\ {} \in SUBSET Marks  BY DEF Heads, Keys
    <2> QED  BY <1>1, <2>1 DEF Checkpoints, NoCheckpoint
  <1>3. PICK e : e = <<>>  OBVIOUS
  <1>4. e \in Seq(ManifestEntries) /\ e \in Seq(Int) /\ e \in Seq(AnchorLines \cup {Unreadable}) /\ DOMAIN e = {}
    BY <1>3
  <1>5. /\ live = 0 /\ closed = e /\ manifest = e /\ anchorLog = e /\ started = 0 /\ deaths = 0
        /\ at = [p \in Passes |-> "idle"] /\ todo = [p \in Passes |-> {}] /\ seen = [p \in Passes |-> e]
        /\ checkpoint = [p \in Passes |-> c] /\ ok = [p \in Passes |-> FALSE]
    BY <1>1, <1>3 DEF AnchorInit
  <1>6. key \in Keys  BY DEF AnchorInit, Keys
  <1>7. AnchorTypes
    <2>1. todo \in [Passes -> SUBSET Nat] /\ ok \in [Passes -> BOOLEAN]  BY <1>5
    <2>2. seen \in [Passes -> Seq(ManifestEntries)] /\ checkpoint \in [Passes -> Checkpoints]  BY <1>2, <1>4, <1>5
    <2> QED  BY <1>4, <1>5, <1>6, <2>1, <2>2 DEF AnchorTypes
  <1>8. Turns  BY <1>5 DEF Turns, InStretch
  <1>9. EntriesNamed  BY <1>4, <1>5 DEF EntriesNamed, InRange
  <1>a. SignedApart  BY <1>4, <1>5 DEF SignedApart
  <1> QED  BY <1>7, <1>8, <1>9, <1>a DEF PassesInv

LEMMA PassesContinue == PassesInv /\ [AnchorNext]_anchorVars => PassesInv'
  <1> SUFFICES ASSUME PassesInv, [AnchorNext]_anchorVars PROVE PassesInv'  OBVIOUS
  <1>0. AnchorTypes /\ Turns /\ EntriesNamed /\ SignedApart  BY DEF PassesInv
  <1>1. ASSUME NEW p \in Passes, Start(p) PROVE PassesInv'
    <2>0. AnchorTypes'  BY <1>0, <1>1, StartDoes
    <2>1. /\ at[p] = "idle" /\ at'[p] = "seal" /\ p \in setup.passes
          /\ \A q \in Passes : ProcessOf[q] = ProcessOf[p] => ~InStretch(q)
          /\ todo'[p] = {i \in 1 .. Len(closed) : closed[i] > 0}
          /\ Others(p, at, at') /\ Others(p, todo, todo') /\ Others(p, checkpoint, checkpoint')
          /\ closed' = closed /\ manifest' = manifest /\ anchorLog' = anchorLog /\ seen' = seen /\ setup' = setup
      BY <1>0, <1>1, StartDoes
    <2>2. Turns'  BY <1>0, <2>1, TurnsOn
    <2>3. EntriesNamed'  BY <1>0, <2>1 DEF EntriesNamed, InRange, Others
    <2>4. SignedApart'  BY <1>0, <2>1 DEF SignedApart, TailIsLater, HeadIsClosed, Others
    <2> QED  BY <2>0, <2>2, <2>3, <2>4 DEF PassesInv
  <1>2. ASSUME NEW p \in Passes, SealSegment(p) PROVE PassesInv'
    <2>0. 0 \notin todo[p]  BY <1>0 DEF EntriesNamed
    <2>1. AnchorTypes' /\ at[p] = "seal"  BY <1>0, <1>2, <2>0, SealDoes
    <2>2. /\ closed' = closed /\ manifest' = manifest /\ anchorLog' = anchorLog /\ setup' = setup
          /\ checkpoint' = checkpoint
      BY <1>0, <1>2, <2>0, SealDoes
    <2>3. PICK i \in todo[p] :
             /\ todo'[p] = todo[p] \ {i} /\ Others(p, todo, todo')
             /\ \/ at' = at /\ seen' = seen
                \/ /\ Size(i) > 0 /\ at'[p] = "open" /\ seen'[p] = Append(manifest, NextEntry(i))
                   /\ NextEntry(i) \in ManifestEntries
                   /\ Others(p, at, at') /\ Others(p, seen, seen')
      BY <1>0, <1>2, <2>0, SealDoes
    <2>4. todo'[p] \subseteq 1 .. Len(closed) /\ i \in 1 .. Len(closed)  BY <1>0, <2>3 DEF EntriesNamed
    <2>5. \A q \in Passes : todo'[q] \subseteq 1 .. Len(closed)  BY <1>0, <2>3, <2>4 DEF EntriesNamed, Others
    <2>6. CASE at' = at /\ seen' = seen
      <3>1. Turns'  BY <1>0, <2>2, <2>6 DEF Turns, InStretch
      <3>2. EntriesNamed'  BY <1>0, <2>2, <2>5, <2>6 DEF EntriesNamed, InRange
      <3>3. SignedApart'  BY <1>0, <2>2, <2>6 DEF SignedApart, TailIsLater, HeadIsClosed
      <3> QED  BY <2>1, <3>1, <3>2, <3>3 DEF PassesInv
    <2>7. CASE /\ Size(i) > 0 /\ at'[p] = "open" /\ seen'[p] = Append(manifest, NextEntry(i))
               /\ NextEntry(i) \in ManifestEntries
               /\ Others(p, at, at') /\ Others(p, seen, seen')
      <3>1. InStretch(p) /\ p \in setup.passes  BY <1>0, <2>1 DEF InStretch, Turns
      <3>2. Turns'  BY <1>0, <2>2, <2>7, <3>1, TurnsOn
      <3>3. InRange(seen'[p])
        <4>1. NextEntry(i).seg = i /\ NextEntry(i).n = Size(i)  BY DEF NextEntry
        <4>2. manifest \in Seq(ManifestEntries) /\ closed \in Seq(Int) /\ InRange(manifest)
          BY <1>0 DEF AnchorTypes, EntriesNamed
        <4> QED  BY <2>4, <2>7, <4>1, <4>2, InRangeAppend
      <3>4. \A q \in Passes : InRange(seen'[q])  BY <1>0, <2>7, <3>3 DEF EntriesNamed, Others
      <3>5. EntriesNamed'  BY <1>0, <2>2, <2>5, <3>4 DEF EntriesNamed, InRange
      <3>6. SignedApart'  BY <1>0, <2>2, <2>7 DEF SignedApart, TailIsLater, HeadIsClosed, Others
      <3> QED  BY <2>1, <3>2, <3>5, <3>6 DEF PassesInv
    <2> QED  BY <2>3, <2>6, <2>7
  <1>3. ASSUME NEW p \in Passes, OpenManifest(p) PROVE PassesInv'
    <2>0. AnchorTypes'  BY <1>0, <1>3, OpenDoes
    <2>1. /\ at[p] = "open" /\ at'[p] = "write" /\ Others(p, at, at') /\ manifest' = <<>>
          /\ closed' = closed /\ anchorLog' = anchorLog /\ setup' = setup /\ todo' = todo /\ seen' = seen
          /\ checkpoint' = checkpoint
      BY <1>0, <1>3, OpenDoes
    <2>2. InStretch(p) /\ p \in setup.passes  BY <1>0, <2>1 DEF InStretch, Turns
    <2>3. Turns'  BY <1>0, <2>1, <2>2, TurnsOn
    <2>4. DOMAIN manifest' = {}  BY <2>1
    <2>5. EntriesNamed'  BY <1>0, <2>1, <2>4 DEF EntriesNamed, InRange
    <2>6. SignedApart'  BY <1>0, <2>1 DEF SignedApart, TailIsLater, HeadIsClosed, Others
    <2> QED  BY <2>0, <2>3, <2>5, <2>6 DEF PassesInv
  <1>4. ASSUME NEW p \in Passes, WriteManifest(p) PROVE PassesInv'
    <2>0. AnchorTypes'  BY <1>0, <1>4, WriteDoes
    <2>1. /\ at[p] = "write" /\ at'[p] = "seal" /\ Others(p, at, at')
          /\ manifest' = seen[p] \o From(manifest, Len(seen[p]))
          /\ seen'[p] = <<>> /\ Others(p, seen, seen')
          /\ closed' = closed /\ anchorLog' = anchorLog /\ setup' = setup /\ todo' = todo
          /\ checkpoint' = checkpoint
      BY <1>0, <1>4, WriteDoes
    <2>2. InStretch(p) /\ p \in setup.passes  BY <1>0, <2>1 DEF InStretch, Turns
    <2>3. Turns'  BY <1>0, <2>1, <2>2, TurnsOn
    <2>4. InRange(manifest')
      <3>1. PICK s : s = seen[p]  OBVIOUS
      <3>2. s \in Seq(ManifestEntries) /\ manifest \in Seq(ManifestEntries) /\ InRange(s) /\ InRange(manifest)
        BY <1>0, <3>1 DEF AnchorTypes, EntriesNamed
      <3>3. InRange(s \o From(manifest, Len(s)))  BY <3>2, InRangeJoined
      <3> QED  BY <2>1, <3>1, <3>3
    <2>5. \A q \in Passes : InRange(seen'[q])
      <3>1. DOMAIN seen'[p] = {}  BY <2>1
      <3>2. InRange(seen'[p])  BY <3>1 DEF InRange
      <3> QED  BY <1>0, <2>1, <3>2 DEF EntriesNamed, Others
    <2>6. EntriesNamed'  BY <1>0, <2>1, <2>4, <2>5 DEF EntriesNamed, InRange
    <2>7. SignedApart'  BY <1>0, <2>1 DEF SignedApart, TailIsLater, HeadIsClosed, Others
    <2> QED  BY <2>0, <2>3, <2>6, <2>7 DEF PassesInv
  <1>5. ASSUME NEW p \in Passes, Checkpoint(p) PROVE PassesInv'
    <2>0. AnchorTypes'  BY <1>0, <1>5, CheckpointDoes
    <2>1. /\ at[p] = "seal" /\ at'[p] = "tail" /\ Others(p, at, at')
          /\ checkpoint'[p].head = HeadAt(manifest, Len(manifest))
          /\ Others(p, checkpoint, checkpoint')
          /\ closed' = closed /\ manifest' = manifest /\ anchorLog' = anchorLog /\ setup' = setup /\ todo' = todo
          /\ seen' = seen
      BY <1>0, <1>5, CheckpointDoes
    <2>2. InStretch(p) /\ p \in setup.passes  BY <1>0, <2>1 DEF InStretch, Turns
    <2>3. Turns'  BY <1>0, <2>1, <2>2, TurnsOn
    <2>4. EntriesNamed'  BY <1>0, <2>1 DEF EntriesNamed, InRange
    <2>5. HeadIsClosed(checkpoint'[p])
      <3>1. PICK h : h = HeadAt(manifest, Len(manifest))  OBVIOUS
      <3>2. manifest \in Seq(ManifestEntries) /\ Len(manifest) \in 0 .. Len(manifest) /\ DOMAIN manifest = 1 .. Len(manifest)
        BY <1>0 DEF AnchorTypes
      <3>3. CASE Len(manifest) = 0  BY <2>1, <3>2, <3>3, HeadAtIs DEF HeadIsClosed
      <3>4. CASE Len(manifest) > 0
        <4>1. h = <<manifest[Len(manifest)].seg, manifest[Len(manifest)].n>>  BY <3>1, <3>2, <3>4, HeadAtIs
        <4>2. manifest[Len(manifest)].seg \in 1 .. Len(closed)  BY <1>0, <3>2, <3>4 DEF EntriesNamed, InRange
        <4>3. h[1] <= Len(closed)  BY <1>0, <4>1, <4>2 DEF AnchorTypes
        <4> QED  BY <2>1, <3>1, <4>3 DEF HeadIsClosed
      <3> QED  BY <3>2, <3>3, <3>4
    <2>6. SignedApart'  BY <1>0, <2>1, <2>5 DEF SignedApart, TailIsLater, HeadIsClosed, Others
    <2> QED  BY <2>0, <2>3, <2>4, <2>6 DEF PassesInv
  <1>6. ASSUME NEW p \in Passes, LiveTail(p) PROVE PassesInv'
    <2>0. AnchorTypes'  BY <1>0, <1>6, LiveTailDoes
    <2>1. /\ at[p] = "tail" /\ at'[p] \in {"idle", "key"} /\ Others(p, at, at')
          /\ checkpoint'[p].head = checkpoint[p].head
          /\ checkpoint'[p].tail = (IF live > 0 THEN <<Len(closed) + 1, live>> ELSE Nothing)
          /\ Others(p, checkpoint, checkpoint')
          /\ closed' = closed /\ manifest' = manifest /\ anchorLog' = anchorLog /\ setup' = setup /\ todo' = todo
          /\ seen' = seen
      BY <1>0, <1>6, LiveTailDoes
    <2>2. InStretch(p) /\ p \in setup.passes  BY <1>0, <2>1 DEF InStretch, Turns
    <2>3. Turns'  BY <1>0, <2>1, <2>2, TurnsOn
    <2>4. EntriesNamed'  BY <1>0, <2>1 DEF EntriesNamed, InRange
    <2>5. TailIsLater(checkpoint'[p])
      <3>1. SUFFICES ASSUME checkpoint'[p].head # Nothing, checkpoint'[p].tail # Nothing
                     PROVE  checkpoint'[p].head[1] < checkpoint'[p].tail[1]
        BY DEF TailIsLater
      <3>2. checkpoint'[p].tail = <<Len(closed) + 1, live>>  BY <2>1, <3>1
      <3>3. checkpoint'[p].tail[1] = Len(closed) + 1  BY <3>2
      <3>4. checkpoint[p].head[1] <= Len(closed)  BY <1>0, <2>1, <3>1 DEF SignedApart, HeadIsClosed
      <3>5. checkpoint[p].head \in Marks
        <4>1. checkpoint[p] \in Checkpoints  BY <1>0 DEF AnchorTypes
        <4> QED  BY <2>1, <3>1, <4>1 DEF Checkpoints, Heads
      <3>6. checkpoint[p].head[1] \in Nat /\ Len(closed) \in Nat  BY <1>0, <3>5 DEF Marks, AnchorTypes
      <3> QED  BY <2>1, <3>3, <3>4, <3>6
    <2>6. SignedApart'  BY <1>0, <2>1, <2>5 DEF SignedApart, TailIsLater, HeadIsClosed, Others
    <2> QED  BY <2>0, <2>3, <2>4, <2>6 DEF PassesInv
  <1>7. ASSUME NEW p \in Passes, LoadKey(p) PROVE PassesInv'
    <2>0. AnchorTypes'  BY <1>0, <1>7, LoadKeyDoes
    <2>1. /\ at[p] = "key" /\ at'[p] \in {"create", "idle", "wait"} /\ Others(p, at, at')
          /\ checkpoint'[p].head = checkpoint[p].head /\ checkpoint'[p].tail = checkpoint[p].tail
          /\ Others(p, checkpoint, checkpoint')
          /\ closed' = closed /\ manifest' = manifest /\ anchorLog' = anchorLog /\ setup' = setup /\ todo' = todo
          /\ seen' = seen
      BY <1>0, <1>7, LoadKeyDoes
    <2>2. InStretch(p) /\ p \in setup.passes  BY <1>0, <2>1 DEF InStretch, Turns
    <2>3. Turns'  BY <1>0, <2>1, <2>2, TurnsOn
    <2>4. EntriesNamed'  BY <1>0, <2>1 DEF EntriesNamed, InRange
    <2>6. SignedApart'  BY <1>0, <2>1 DEF SignedApart, TailIsLater, HeadIsClosed, Others
    <2> QED  BY <2>0, <2>3, <2>4, <2>6 DEF PassesInv
  <1>8. ASSUME NEW p \in Passes, CreateKey(p) PROVE PassesInv'
    <2>0. AnchorTypes'  BY <1>0, <1>8, CreateKeyDoes
    <2>1. /\ at[p] = "create" /\ at'[p] = "wait" /\ Others(p, at, at')
          /\ checkpoint'[p].head = checkpoint[p].head /\ checkpoint'[p].tail = checkpoint[p].tail
          /\ Others(p, checkpoint, checkpoint')
          /\ closed' = closed /\ manifest' = manifest /\ anchorLog' = anchorLog /\ setup' = setup /\ todo' = todo
          /\ seen' = seen
      BY <1>0, <1>8, CreateKeyDoes
    <2>2. InStretch(p) /\ p \in setup.passes  BY <1>0, <2>1 DEF InStretch, Turns
    <2>3. Turns'  BY <1>0, <2>1, <2>2, TurnsOn
    <2>4. EntriesNamed'  BY <1>0, <2>1 DEF EntriesNamed, InRange
    <2>6. SignedApart'  BY <1>0, <2>1 DEF SignedApart, TailIsLater, HeadIsClosed, Others
    <2> QED  BY <2>0, <2>3, <2>4, <2>6 DEF PassesInv
  <1>9. ASSUME NEW p \in Passes, NEW reached \in BOOLEAN, Answer(p, reached) PROVE PassesInv'
    <2>0. AnchorTypes'  BY <1>0, <1>9, AnswerDoes
    <2>1. /\ at[p] = "wait" /\ at'[p] = "append" /\ Others(p, at, at')
          /\ closed' = closed /\ manifest' = manifest /\ anchorLog' = anchorLog /\ setup' = setup /\ todo' = todo
          /\ seen' = seen /\ checkpoint' = checkpoint
      BY <1>0, <1>9, AnswerDoes
    <2>2. p \in setup.passes  BY <1>0, <2>1 DEF Turns
    <2>3. Turns'  BY <1>0, <2>1, <2>2, TurnsOn
    <2>4. EntriesNamed'  BY <1>0, <2>1 DEF EntriesNamed, InRange
    <2>6. SignedApart'  BY <1>0, <2>1 DEF SignedApart, TailIsLater, HeadIsClosed, Others
    <2> QED  BY <2>0, <2>3, <2>4, <2>6 DEF PassesInv
  <1>a. ASSUME NEW p \in Passes, AppendAnchor(p) PROVE PassesInv'
    <2>0. AnchorTypes'  BY <1>0, <1>a, AppendDoes
    <2>1. /\ at[p] = "append" /\ at'[p] = "idle" /\ Others(p, at, at')
          /\ anchorLog' = anchorLog \/ anchorLog' = Append(anchorLog, AnchorLine(p))
          /\ AnchorLine(p) \in AnchorLines
          /\ closed' = closed /\ manifest' = manifest /\ setup' = setup /\ todo' = todo
          /\ seen' = seen /\ checkpoint' = checkpoint
      BY <1>0, <1>a, AppendDoes
    <2>2. Turns'  BY <1>0, <2>1, TurnsOn
    <2>3. EntriesNamed'  BY <1>0, <2>1 DEF EntriesNamed, InRange
    <2>4. TailIsLater(AnchorLine(p))
      <3>1. TailIsLater(checkpoint[p])  BY <1>0, <2>1 DEF SignedApart
      <3>2. AnchorLine(p).head = checkpoint[p].head /\ AnchorLine(p).tail = checkpoint[p].tail  BY DEF AnchorLine
      <3> QED  BY <3>1, <3>2 DEF TailIsLater
    <2>5. \A i \in DOMAIN anchorLog' : anchorLog'[i] # Unreadable => TailIsLater(anchorLog'[i])
      <3>1. CASE anchorLog' = anchorLog  BY <1>0, <3>1 DEF SignedApart
      <3>2. CASE anchorLog' = Append(anchorLog, AnchorLine(p))  BY <1>0, <2>1, <2>4, <3>2, LogGrows DEF SignedApart, AnchorTypes
      <3> QED  BY <2>1, <3>1, <3>2
    <2>6. SignedApart'  BY <1>0, <2>1, <2>5 DEF SignedApart, TailIsLater, HeadIsClosed, Others
    <2> QED  BY <2>0, <2>2, <2>3, <2>6 DEF PassesInv
  <1>b. ASSUME NEW p \in Passes, KillPass(p) PROVE PassesInv'
    <2>0. AnchorTypes'  BY <1>0, <1>b, KillDoes
    <2>1. /\ \/ at[p] # "write" /\ manifest' = manifest
             \/ at[p] = "write" /\ \E k \in 0 .. Len(seen[p]) : manifest' = SubSeq(seen[p], 1, k)
          /\ anchorLog' = anchorLog \/ anchorLog' = Append(anchorLog, Unreadable)
          /\ \A q \in Passes : \/ ProcessOf[q] = ProcessOf[p] /\ at'[q] = "idle" /\ seen'[q] = <<>> /\ todo'[q] = {}
                               \/ /\ ProcessOf[q] # ProcessOf[p] /\ at'[q] = at[q] /\ seen'[q] = seen[q]
                                  /\ todo'[q] = todo[q]
          /\ closed' = closed /\ setup' = setup /\ checkpoint' = checkpoint
      BY <1>0, <1>b, KillDoes
    <2>2. Turns'  BY <1>0, <2>1 DEF Turns, InStretch
    <2>3. InRange(manifest')
      <3>1. CASE manifest' = manifest  BY <1>0, <3>1 DEF EntriesNamed
      <3>2. ASSUME NEW k \in 0 .. Len(seen[p]), manifest' = SubSeq(seen[p], 1, k) PROVE InRange(manifest')
        <4>1. PICK s : s = seen[p]  OBVIOUS
        <4>2. s \in Seq(ManifestEntries) /\ InRange(s) /\ k \in 0 .. Len(s) /\ manifest' = SubSeq(s, 1, k)
          BY <1>0, <3>2, <4>1 DEF AnchorTypes, EntriesNamed
        <4>3. DOMAIN manifest' = 1 .. k /\ (\A j \in 1 .. k : manifest'[j] = s[j]) /\ DOMAIN s = 1 .. Len(s)
          BY <4>2, BeginningIs
        <4> QED  BY <4>2, <4>3 DEF InRange
      <3> QED  BY <2>1, <3>1, <3>2
    <2>4. \A q \in Passes : InRange(seen'[q])
      <3>1. ASSUME NEW q \in Passes, seen'[q] = <<>> PROVE InRange(seen'[q])
        <4>1. DOMAIN seen'[q] = {}  BY <3>1
        <4> QED  BY <4>1 DEF InRange
      <3> QED  BY <1>0, <2>1, <3>1 DEF EntriesNamed
    <2>5. EntriesNamed'  BY <1>0, <2>1, <2>3, <2>4 DEF EntriesNamed, InRange
    <2>6. \A i \in DOMAIN anchorLog' : anchorLog'[i] # Unreadable => TailIsLater(anchorLog'[i])
      <3>1. CASE anchorLog' = anchorLog  BY <1>0, <3>1 DEF SignedApart
      <3>2. CASE anchorLog' = Append(anchorLog, Unreadable)  BY <1>0, <3>2, LogGrows DEF SignedApart, AnchorTypes
      <3> QED  BY <2>1, <3>1, <3>2
    <2>7. SignedApart'  BY <1>0, <2>1, <2>6 DEF SignedApart, TailIsLater, HeadIsClosed
    <2> QED  BY <2>0, <2>2, <2>5, <2>7 DEF PassesInv
  <1>c. ASSUME AnchorTypes', Len(closed) <= Len(closed'),
               UNCHANGED <<manifest, anchorLog, at, todo, seen, checkpoint, setup>>
        PROVE  PassesInv'
    <2>1. Len(closed) \in Nat /\ Len(closed') \in Nat  BY <1>0, <1>c DEF AnchorTypes
    <2>2. Turns'  BY <1>0, <1>c DEF Turns, InStretch
    <2>3. EntriesNamed'  BY <1>0, <1>c, <2>1 DEF EntriesNamed, InRange
    <2>4. SignedApart'
      <3>1. ASSUME NEW q \in Passes, at[q] = "tail" PROVE HeadIsClosed(checkpoint[q])'
        <4>1. SUFFICES ASSUME checkpoint[q].head # Nothing PROVE checkpoint[q].head[1] <= Len(closed')
          BY <1>c DEF HeadIsClosed
        <4>2. checkpoint[q].head[1] <= Len(closed)  BY <1>0, <3>1, <4>1 DEF SignedApart, HeadIsClosed
        <4>3. checkpoint[q] \in Checkpoints  BY <1>0 DEF AnchorTypes
        <4>4. checkpoint[q].head \in Marks  BY <4>1, <4>3 DEF Checkpoints, Heads
        <4>5. checkpoint[q].head[1] \in Nat  BY <4>4 DEF Marks
        <4> QED  BY <1>c, <2>1, <4>2, <4>5
      <3> QED  BY <1>0, <1>c, <3>1 DEF SignedApart, TailIsLater
    <2> QED  BY <1>c, <2>2, <2>3, <2>4 DEF PassesInv
  <1>d. ASSUME Record PROVE PassesInv'  BY <1>0, <1>c, <1>d, RecordDoes DEF AnchorTypes
  <1>e. ASSUME Rotate PROVE PassesInv'
    <2>1. /\ AnchorTypes' /\ closed' = Append(closed, live)
          /\ UNCHANGED <<manifest, anchorLog, at, todo, seen, checkpoint, setup>>
      BY <1>0, <1>e, RotateDoes
    <2>2. Len(closed) <= Len(closed')  BY <1>0, <2>1 DEF AnchorTypes
    <2> QED  BY <1>c, <2>1, <2>2
  <1>f. ASSUME NEW i \in DOMAIN closed, NEW n \in Gone .. 1, Damage(i, n) PROVE PassesInv'
    <2>1. /\ AnchorTypes' /\ Len(closed') = Len(closed)
          /\ UNCHANGED <<manifest, anchorLog, at, todo, seen, checkpoint, setup>>
      BY <1>0, <1>f, DamageDoes
    <2>2. Len(closed) <= Len(closed')  BY <1>0, <2>1 DEF AnchorTypes
    <2> QED  BY <1>c, <2>1, <2>2
  <1>g. ASSUME UNCHANGED anchorVars PROVE PassesInv'
    <2>1. UNCHANGED <<live, closed, manifest, key, anchorLog, at, todo, seen, checkpoint, ok, setup, started, deaths>>
      BY <1>g DEF anchorVars, disk, pass, bounds
    <2>2. AnchorTypes'  BY <1>0, <2>1 DEF AnchorTypes
    <2>3. Len(closed) <= Len(closed')  BY <1>0, <2>1 DEF AnchorTypes
    <2> QED  BY <1>c, <2>1, <2>2, <2>3
  <1> QED
    BY <1>1, <1>2, <1>3, <1>4, <1>5, <1>6, <1>7, <1>8, <1>9, <1>a, <1>b, <1>d, <1>e, <1>f, <1>g
       DEF AnchorNext, Step

\* The segments of the first k entries, of the others, and what these recorded.
Before(k) == {manifest[x].seg : x \in 1 .. k}
After(k) == {manifest[x].seg : x \in k + 1 .. Len(manifest)}
Recorded(k) == {Final(manifest[x]) : x \in k + 1 .. Len(manifest)}

\* The records of the files of some segments.
Tails(S) == UNION {PrefixesOf(Directory, i) : i \in S}

LEMMA TailsAre ==
    ASSUME NEW S, NEW c
    PROVE  c \in Tails(S) <=> \E i \in S : c \in PrefixesOf(Directory, i)
  BY DEF Tails

LEMMA OnDisk ==
    /\ Directory.live = live /\ Directory.closed = closed /\ Directory.manifest = manifest
    /\ Directory.torn = torn /\ Directory.log = anchorLog /\ Directory.proofs = proofs /\ Directory.key = key
  BY DEF Directory

LEMMA EntriesSplit ==
    ASSUME AnchorTypes, NEW k \in 0 .. Len(manifest)
    PROVE  /\ SegmentsOf(SubSeq(manifest, 1, k)) = Before(k)
           /\ SegmentsOf(From(manifest, k)) = After(k)
           /\ SegmentsOf(manifest) = Before(k) \cup After(k)
           /\ {Final(From(manifest, k)[i]) : i \in DOMAIN From(manifest, k)} = Recorded(k)
  <1>0. manifest \in Seq(ManifestEntries) /\ Len(manifest) \in Nat /\ DOMAIN manifest = 1 .. Len(manifest)
    BY DEF AnchorTypes
  <1>1. SegmentsOf(SubSeq(manifest, 1, k)) = Before(k)
    <2>1. PICK s : s = SubSeq(manifest, 1, k)  OBVIOUS
    <2>2. DOMAIN s = 1 .. k /\ \A j \in 1 .. k : s[j] = manifest[j]  BY <1>0, <2>1, BeginningIs
    <2> QED  BY <2>1, <2>2 DEF SegmentsOf, Before
  <1>2. PICK t : t = From(manifest, k)  OBVIOUS
  <1>3. /\ DOMAIN t = 1 .. Len(manifest) - k
        /\ \A j \in DOMAIN t : k + j \in k + 1 .. Len(manifest) /\ t[j] = manifest[k + j]
    <2>1. k \in Nat /\ k <= Len(manifest)  BY <1>0
    <2>2. /\ Len(t) = Len(manifest) - k /\ DOMAIN t = 1 .. Len(t)
          /\ \A j \in DOMAIN t : k + j \in 1 .. Len(manifest) /\ t[j] = manifest[k + j]
      BY <1>0, <1>2, <2>1, FromEnd
    <2> QED  BY <1>0, <2>1, <2>2
  <1>4. \A x \in k + 1 .. Len(manifest) : x - k \in DOMAIN t /\ t[x - k] = manifest[x]
    <2>1. SUFFICES ASSUME NEW x \in k + 1 .. Len(manifest) PROVE x - k \in DOMAIN t /\ t[x - k] = manifest[x]
      OBVIOUS
    <2>2. x - k \in DOMAIN t /\ k + (x - k) = x  BY <1>0, <1>3
    <2> QED  BY <1>3, <2>2
  <1>5. SegmentsOf(t) = After(k)
    <2>1. SegmentsOf(t) \subseteq After(k)  BY <1>3 DEF SegmentsOf, After
    <2>2. After(k) \subseteq SegmentsOf(t)  BY <1>4 DEF SegmentsOf, After
    <2> QED  BY <2>1, <2>2
  <1>6. {Final(t[i]) : i \in DOMAIN t} = Recorded(k)
    <2>1. {Final(t[i]) : i \in DOMAIN t} \subseteq Recorded(k)  BY <1>3 DEF Recorded
    <2>2. Recorded(k) \subseteq {Final(t[i]) : i \in DOMAIN t}  BY <1>4 DEF Recorded
    <2> QED  BY <2>1, <2>2
  <1>7. SegmentsOf(manifest) = Before(k) \cup After(k)
    <2>1. \A x : x \in 1 .. Len(manifest) <=> x \in 1 .. k \/ x \in k + 1 .. Len(manifest)  BY <1>0
    <2> QED  BY <1>0, <2>1 DEF SegmentsOf, Before, After
  <1> QED  BY <1>1, <1>2, <1>5, <1>6, <1>7

LEMMA PrefixesAre ==
    ASSUME AnchorTypes, NEW i \in Nat \ {0}
    PROVE  PrefixesOf(Directory, i) = {<<i, k>> : k \in 1 .. Size(i)}
  <1>1. PICK t : t = SummarizeSegment(Directory, i)  OBVIOUS
  <1>2. Size(i) \in Int /\ t = (IF Size(i) > 0 THEN <<i, Size(i)>> ELSE Nothing) /\ (t # Nothing <=> Size(i) > 0)
    BY <1>1, SummaryIs
  <1>3. CASE Size(i) > 0
    <2>1. t[2] = Size(i) /\ t # Nothing  BY <1>2, <1>3
    <2> QED  BY <1>1, <2>1 DEF PrefixesOf
  <1>4. CASE Size(i) <= 0
    <2>1. 1 .. Size(i) = {}  BY <1>2, <1>4
    <2>2. t = Nothing  BY <1>2, <1>4
    <2> QED  BY <1>1, <2>1, <2>2 DEF PrefixesOf
  <1> QED  BY <1>2, <1>3, <1>4

\* Every entry of a manifest that verifies is of a closed file that holds what it records.
LEMMA VerifiedEntries ==
    ASSUME PassesInv, VerifyManifest(Directory), NEW x \in 1 .. Len(manifest)
    PROVE  /\ manifest[x].seg \in 1 .. Len(closed) /\ manifest[x].n = closed[manifest[x].seg]
           /\ closed[manifest[x].seg] > 0 /\ Final(manifest[x]) = <<manifest[x].seg, manifest[x].n>>
           /\ manifest[x].n \in Nat \ {0} /\ Size(manifest[x].seg) = manifest[x].n
  <1>0. AnchorTypes /\ EntriesNamed  BY DEF PassesInv
  <1>1. DOMAIN manifest = 1 .. Len(manifest) /\ Len(closed) \in Nat  BY <1>0 DEF AnchorTypes
  <1>2. PICK i : i = manifest[x].seg  OBVIOUS
  <1>3. i \in 1 .. Len(closed) /\ manifest[x].n > 0  BY <1>0, <1>1, <1>2 DEF EntriesNamed, InRange
  <1>4. SummarizeSegment(Directory, i) = Final(manifest[x])  BY <1>1, <1>2, OnDisk DEF VerifyManifest
  <1>5. Final(manifest[x]) = <<i, manifest[x].n>>  BY <1>2 DEF Final
  <1>6. i \in Nat \ {0} /\ Size(i) = closed[i]  BY <1>1, <1>3 DEF Size
  <1>7. manifest[x] \in ManifestEntries  BY <1>0, <1>1 DEF AnchorTypes
  <1>8. manifest[x].n \in Nat /\ <<i, manifest[x].n>> # Nothing
    BY <1>2, <1>6, <1>7, EvidenceAssumption DEF ManifestEntries
  <1>9. Size(i) > 0 /\ <<i, Size(i)>> = <<i, manifest[x].n>>
    <2>1. SummarizeSegment(Directory, i) # Nothing  BY <1>4, <1>5, <1>8
    <2>2. Size(i) > 0 /\ SummarizeSegment(Directory, i) = <<i, Size(i)>>  BY <1>0, <1>6, <2>1, SummaryIs
    <2> QED  BY <1>4, <1>5, <2>2
  <1>a. Size(i) = manifest[x].n  BY <1>9
  <1> QED  BY <1>2, <1>3, <1>5, <1>6, <1>8, <1>9, <1>a

LEMMA CandidatesAre ==
    ASSUME AnchorTypes, NEW k \in 0 .. Len(manifest)
    PROVE  /\ LiveTailCandidates(Directory, k) =
                Tails({Len(closed) + 1} \cup (DiscoverClosedSegments(Directory) \ Before(k)) \cup After(k)) \cup Recorded(k)
           /\ PyLiveTailCandidates(Directory, k) =
                Tails({Len(closed) + 1} \cup Unsealed(Directory) \cup After(k)) \cup Recorded(k)
           /\ RsTailCandidates(Directory, k) = PyLiveTailCandidates(Directory, k)
           /\ GoTails(Directory) =
                Tails({Len(closed) + 1} \cup DiscoverClosedSegments(Directory))
                  \cup Recorded(0)
  <1>1. Live(Directory) = Len(closed) + 1  BY ClosedIs
  <1>2. /\ SegmentsOf(SubSeq(Directory.manifest, 1, k)) = Before(k)
        /\ SegmentsOf(From(Directory.manifest, k)) = After(k)
        /\ {Final(From(Directory.manifest, k)[i]) : i \in DOMAIN From(Directory.manifest, k)} = Recorded(k)
    BY EntriesSplit, OnDisk
  <1>3. {Final(Directory.manifest[i]) : i \in DOMAIN Directory.manifest} = Recorded(0)
    <2>1. DOMAIN manifest = 0 + 1 .. Len(manifest)  BY DEF AnchorTypes
    <2> QED  BY <2>1, OnDisk DEF Recorded
  <1>4. PyLiveTailCandidates(Directory, k) =
                Tails({Len(closed) + 1} \cup Unsealed(Directory) \cup After(k)) \cup Recorded(k)
    <2>1. PyLiveTailCandidates(Directory, k) =
             Tails({Live(Directory)} \cup Unsealed(Directory) \cup
                     SegmentsOf(From(Directory.manifest, k)))
               \cup {Final(From(Directory.manifest, k)[i]) : i \in DOMAIN From(Directory.manifest, k)}
      BY DEF PyLiveTailCandidates, Tails
    <2> QED  BY <1>1, <1>2, <2>1
  <1>5. LiveTailCandidates(Directory, k) =
                Tails({Len(closed) + 1} \cup (DiscoverClosedSegments(Directory) \ Before(k)) \cup After(k)) \cup Recorded(k)
    <2>1. LiveTailCandidates(Directory, k) =
             Tails({Live(Directory)} \cup
                     (DiscoverClosedSegments(Directory) \ SegmentsOf(SubSeq(Directory.manifest, 1, k))) \cup
                     SegmentsOf(From(Directory.manifest, k)))
               \cup {Final(From(Directory.manifest, k)[i]) : i \in DOMAIN From(Directory.manifest, k)}
      BY DEF LiveTailCandidates, Tails
    <2> QED  BY <1>1, <1>2, <2>1
  <1>6. RsTailCandidates(Directory, k) = PyLiveTailCandidates(Directory, k)
    BY DEF RsTailCandidates, PyLiveTailCandidates
  <1>7. GoTails(Directory) =
                Tails({Len(closed) + 1} \cup DiscoverClosedSegments(Directory))
                  \cup Recorded(0)
    <2>1. GoTails(Directory) =
             Tails({Live(Directory)} \cup DiscoverClosedSegments(Directory))
               \cup {Final(Directory.manifest[i]) : i \in DOMAIN Directory.manifest}
      BY DEF GoTails, Tails
    <2> QED  BY <1>1, <1>3, <2>1
  <1> QED  BY <1>4, <1>5, <1>6, <1>7

\* Under a manifest that verifies, no file a tail may be of and no entry names a record that is gone.
LEMMA CandidatesStand ==
    ASSUME PassesInv, VerifyManifest(Directory), NEW k \in 0 .. Len(manifest),
           NEW c \in LiveTailCandidates(Directory, k)
    PROVE  ~Missing(c)
  <1>0. AnchorTypes /\ Len(closed) \in Nat  BY DEF PassesInv, AnchorTypes
  <1>1. \A x \in 1 .. Len(manifest) : Final(manifest[x])[1] \in Nat \ {0} /\ ~Missing(Final(manifest[x]))
    <2>1. SUFFICES ASSUME NEW x \in 1 .. Len(manifest)
                   PROVE  Final(manifest[x])[1] \in Nat \ {0} /\ ~Missing(Final(manifest[x]))
      OBVIOUS
    <2>2. PICK i : i = manifest[x].seg  OBVIOUS
    <2>3. /\ i \in 1 .. Len(closed) /\ Final(manifest[x]) = <<i, manifest[x].n>>
          /\ manifest[x].n \in Nat /\ closed[i] = manifest[x].n
      BY <2>2, VerifiedEntries
    <2> QED  BY <1>0, <2>3 DEF Missing
  <1>2. ASSUME NEW i \in Nat \ {0}, c \in PrefixesOf(Directory, i) PROVE ~Missing(c)
    <2>1. PICK j \in 1 .. Size(i) : c = <<i, j>>  BY <1>0, <1>2, PrefixesAre
    <2>2. Size(i) \in Int  BY <1>0, SummaryIs
    <2> QED  BY <2>1, <2>2 DEF Missing, Size
  <1>3. CASE c \in Recorded(k)
    <2>1. PICK x \in k + 1 .. Len(manifest) : c = Final(manifest[x])  BY <1>3 DEF Recorded
    <2>2. x \in 1 .. Len(manifest)  BY <1>0 DEF AnchorTypes
    <2> QED  BY <1>1, <2>1, <2>2
  <1>4. CASE c \notin Recorded(k)
    <2>1. PICK i \in {Len(closed) + 1} \cup (DiscoverClosedSegments(Directory) \ Before(k)) \cup After(k) :
             c \in PrefixesOf(Directory, i)
      <3>1. c \in Tails({Len(closed) + 1} \cup (DiscoverClosedSegments(Directory) \ Before(k)) \cup After(k))
        BY <1>0, <1>4, CandidatesAre
      <3> QED  BY <3>1, TailsAre
    <2>2. CASE i \in After(k)
      <3>1. PICK x \in k + 1 .. Len(manifest) : i = manifest[x].seg  BY <2>2 DEF After
      <3>2. x \in 1 .. Len(manifest)  BY <1>0 DEF AnchorTypes
      <3>3. i \in Nat \ {0}  BY <3>1, <3>2, VerifiedEntries, <1>0
      <3> QED  BY <1>2, <2>1, <3>3
    <2>3. CASE i \notin After(k)
      <3>1. i \in Nat \ {0}  BY <1>0, <2>1, <2>3, ClosedIs
      <3> QED  BY <1>2, <2>1, <3>1
    <2> QED  BY <2>2, <2>3
  <1> QED  BY <1>3, <1>4

\* What a verified directory's log names is there.
LEMMA HeadAndTailStand ==
    ASSUME PassesInv, RunVerify(Directory), NEW i \in DOMAIN anchorLog
    PROVE  /\ anchorLog[i] # Unreadable /\ anchorLog[i] \in AnchorLines
           /\ anchorLog[i].segments \in 0 .. Len(manifest)
           /\ anchorLog[i].head = HeadAt(manifest, anchorLog[i].segments)
           /\ anchorLog[i].head # Nothing => ~Missing(anchorLog[i].head)
           /\ anchorLog[i].tail # Nothing => ~Missing(anchorLog[i].tail)
  <1>0. AnchorTypes /\ VerifyManifest(Directory)  BY DEF PassesInv, RunVerify
  <1>1. PICK a : a = anchorLog[i]  OBVIOUS
  <1>2. a # Unreadable /\ Rebuilds(Directory, a)  BY <1>1, OnDisk DEF RunVerify, AnchorStands
  <1>3. a \in AnchorLines  BY <1>0, <1>1, <1>2 DEF AnchorTypes
  <1>4. a.segments \in 0 .. Len(manifest)
    <2>1. a.segments \in Nat /\ a.segments <= Len(manifest)  BY <1>2, <1>3, OnDisk DEF Rebuilds, AnchorLines
    <2> QED  BY <1>0, <2>1 DEF AnchorTypes
  <1>5. a.head = HeadAt(manifest, a.segments)  BY <1>2, OnDisk DEF Rebuilds
  <1>6. a.head # Nothing => ~Missing(a.head)
    <2>1. PICK k : k = a.segments  OBVIOUS
    <2>2. CASE k = 0  BY <1>5, <2>1, <2>2 DEF HeadAt
    <2>3. CASE k # 0
      <3>1. k \in 1 .. Len(manifest)  BY <1>0, <1>4, <2>1, <2>3 DEF AnchorTypes
      <3>2. PICK s : s = manifest[k].seg  OBVIOUS
      <3>3. /\ s \in 1 .. Len(closed) /\ Final(manifest[k]) = <<s, manifest[k].n>>
            /\ manifest[k].n \in Nat /\ closed[s] = manifest[k].n
        BY <3>1, <3>2, VerifiedEntries, <1>0
      <3>4. Len(closed) \in Nat  BY <1>0 DEF AnchorTypes
      <3>5. ~Missing(Final(manifest[k]))  BY <3>3, <3>4 DEF Missing
      <3>6. a.head = Final(manifest[k])  BY <1>5, <2>1, <2>3 DEF HeadAt
      <3> QED  BY <3>5, <3>6
    <2> QED  BY <2>2, <2>3
  <1>7. a.tail # Nothing => ~Missing(a.tail)
    <2>1. a.tail \in {Nothing} \cup LiveTailCandidates(Directory, a.segments)  BY <1>2 DEF Rebuilds
    <2> QED  BY <1>0, <1>4, <2>1, CandidatesStand
  <1> QED  BY <1>1, <1>2, <1>3, <1>4, <1>5, <1>6, <1>7

\* A tail the Go verifier accepts is one the bundled one accepts, and the other way about.
LEMMA SameTails ==
    ASSUME PassesInv, VerifyManifest(Directory), Unsealed(Directory) = {}, InRotationOrder,
           NEW a \in AnchorLines, TailIsLater(a), a.segments \in 0 .. Len(manifest),
           a.head = HeadAt(manifest, a.segments)
    PROVE  /\ a.tail \in {Nothing} \cup LiveTailCandidates(Directory, a.segments)
                <=> a.tail \in {Nothing} \cup GoTails(Directory)
           /\ LiveTailCandidates(Directory, a.segments) = PyLiveTailCandidates(Directory, a.segments)
           /\ LiveTailCandidates(Directory, a.segments) = RsTailCandidates(Directory, a.segments)
  <1>0. /\ AnchorTypes /\ Len(closed) \in Nat /\ Len(manifest) \in Nat /\ DOMAIN manifest = 1 .. Len(manifest)
    BY DEF PassesInv, AnchorTypes
  <1>1. PICK k \in 0 .. Len(manifest) : k = a.segments  OBVIOUS
  <1>2. PICK D : D = DiscoverClosedSegments(Directory)  OBVIOUS
  <1>3. D = {i \in 1 .. Len(closed) : closed[i] > 0}  BY <1>0, <1>2, ClosedIs
  <1>4. Before(k) \subseteq D /\ After(k) \subseteq D
    <2>1. \A x \in 1 .. Len(manifest) : manifest[x].seg \in D  BY <1>3, VerifiedEntries
    <2>2. 1 .. k \subseteq 1 .. Len(manifest) /\ k + 1 .. Len(manifest) \subseteq 1 .. Len(manifest)  BY <1>0
    <2> QED  BY <2>1, <2>2 DEF Before, After
  <1>5. D \subseteq Before(k) \cup After(k)
    <2>1. SegmentsOf(manifest) = Before(k) \cup After(k)  BY <1>0, EntriesSplit
    <2> QED  BY <1>2, <2>1, OnDisk DEF Unsealed
  <1>6. LiveTailCandidates(Directory, k) =
          Tails({Len(closed) + 1} \cup (D \ Before(k)) \cup After(k)) \cup Recorded(k)
    BY <1>0, <1>2, CandidatesAre
  <1>7. PyLiveTailCandidates(Directory, k) = LiveTailCandidates(Directory, k)
    <2>1. {Len(closed) + 1} \cup (D \ Before(k)) \cup After(k) = {Len(closed) + 1} \cup {} \cup After(k)
      BY <1>5
    <2>2. PyLiveTailCandidates(Directory, k) =
            Tails({Len(closed) + 1} \cup {} \cup After(k)) \cup Recorded(k)
      BY <1>0, CandidatesAre
    <2> QED  BY <1>6, <2>1, <2>2
  <1>8. RsTailCandidates(Directory, k) = LiveTailCandidates(Directory, k)  BY <1>0, <1>7, CandidatesAre
  <1>9. GoTails(Directory) =
          Tails({Len(closed) + 1} \cup D) \cup Recorded(0)
    BY <1>0, <1>2, CandidatesAre
  <1>a. ASSUME NEW c \in LiveTailCandidates(Directory, k) PROVE c \in GoTails(Directory)
    <2>1. CASE c \in Recorded(k)
      <3>1. PICK x \in k + 1 .. Len(manifest) : c = Final(manifest[x])  BY <2>1 DEF Recorded
      <3>2. x \in 0 + 1 .. Len(manifest)  BY <1>0
      <3>3. c \in Recorded(0)  BY <3>1, <3>2 DEF Recorded
      <3> QED  BY <1>9, <3>3
    <2>2. CASE c \notin Recorded(k)
      <3>1. PICK i \in {Len(closed) + 1} \cup (D \ Before(k)) \cup After(k) : c \in PrefixesOf(Directory, i)
        <4>1. c \in Tails({Len(closed) + 1} \cup (D \ Before(k)) \cup After(k))  BY <1>6, <2>2
        <4>2. PICK S : S = {Len(closed) + 1} \cup (D \ Before(k)) \cup After(k)  OBVIOUS
        <4>3. \E i \in S : c \in PrefixesOf(Directory, i)  BY <4>1, <4>2 DEF Tails
        <4> QED  BY <4>2, <4>3
      <3>2. i \in {Len(closed) + 1} \cup D  BY <1>4, <3>1
      <3>3. c \in Tails({Len(closed) + 1} \cup D)  BY <3>1, <3>2, TailsAre
      <3> QED  BY <1>9, <3>3
    <2> QED  BY <2>1, <2>2
  <1>b. ASSUME a.tail # Nothing, a.tail \in GoTails(Directory)
        PROVE  a.tail \in LiveTailCandidates(Directory, k)
    <2>1. PICK c : c = a.tail  OBVIOUS
    <2>2. \A x \in 1 .. k : manifest[x].seg < c[1]
      <3>1. SUFFICES ASSUME NEW x \in 1 .. k PROVE manifest[x].seg < c[1]  OBVIOUS
      <3>2. k \in 1 .. Len(manifest) /\ x \in 1 .. Len(manifest)  BY <1>0
      <3>3. PICK h : h = manifest[k].seg  OBVIOUS
      <3>4. a.head = Final(manifest[k])  BY <1>1, <3>2 DEF HeadAt
      <3>5. Final(manifest[k]) = <<h, manifest[k].n>> /\ h \in 1 .. Len(closed) /\ manifest[k].n \in Nat
        BY <3>2, <3>3, VerifiedEntries
      <3>6. a.head # Nothing /\ a.head[1] = h
        <4>1. <<h, manifest[k].n>> \in Nat \X Nat  BY <1>0, <3>5
        <4> QED  BY <3>4, <3>5, <4>1, EvidenceAssumption
      <3>7. h < c[1]  BY <1>b, <2>1, <3>6 DEF TailIsLater
      <3>8. manifest[x].seg <= h
        <4>1. CASE x = k  BY <1>0, <3>3, <3>5, <4>1
        <4>2. CASE x # k
          <5>1. x < k  BY <1>0, <4>2
          <5>2. manifest[x].seg < manifest[k].seg  BY <1>0, <3>2, <5>1 DEF InRotationOrder
          <5>3. manifest[x].seg \in 1 .. Len(closed)  BY <3>2, VerifiedEntries
          <5> QED  BY <1>0, <3>3, <3>5, <5>2, <5>3
        <4> QED  BY <4>1, <4>2
      <3>9. manifest[x].seg \in Nat /\ h \in Nat /\ c[1] \in Nat
        <4>1. manifest[x].seg \in 1 .. Len(closed)  BY <3>2, VerifiedEntries
        <4>2. c \in Marks  BY <1>b, <2>1 DEF AnchorLines, Heads
        <4> QED  BY <1>0, <3>5, <4>1, <4>2 DEF Marks
      <3> QED  BY <3>7, <3>8, <3>9
    <2>3. c[1] \notin Before(k)
      <3>1. SUFFICES ASSUME NEW x \in 1 .. k, c[1] = manifest[x].seg PROVE FALSE  BY DEF Before
      <3>2. x \in 1 .. Len(manifest)  BY <1>0
      <3>3. manifest[x].seg \in Nat  BY <1>0, <3>2, VerifiedEntries
      <3> QED  BY <2>2, <3>1, <3>3
    <2>4. CASE c \in Recorded(0)
      <3>1. PICK x \in 0 + 1 .. Len(manifest) : c = Final(manifest[x])  BY <2>4 DEF Recorded
      <3>2. c[1] = manifest[x].seg  BY <3>1 DEF Final
      <3>3. x \notin 1 .. k  BY <2>3, <3>2 DEF Before
      <3>4. x \in k + 1 .. Len(manifest)  BY <1>0, <3>3
      <3>5. c \in Recorded(k)  BY <3>1, <3>4 DEF Recorded
      <3> QED  BY <1>6, <2>1, <3>5
    <2>5. CASE c \notin Recorded(0)
      <3>0. c \in Tails({Len(closed) + 1} \cup D)  BY <1>9, <1>b, <2>1, <2>5
      <3>1. PICK i \in {Len(closed) + 1} \cup D : c \in PrefixesOf(Directory, i)
        <4>1. PICK S : S = {Len(closed) + 1} \cup D  OBVIOUS
        <4>2. \E i \in S : c \in PrefixesOf(Directory, i)  BY <3>0, <4>1 DEF Tails
        <4> QED  BY <4>1, <4>2
      <3>2. i \in Nat \ {0}  BY <1>0, <1>3, <3>1
      <3>3. c[1] = i  BY <1>0, <3>1, <3>2, PrefixesAre
      <3>4. i \in {Len(closed) + 1} \cup (D \ Before(k)) \cup After(k)  BY <2>3, <3>1, <3>3
      <3>5. c \in Tails({Len(closed) + 1} \cup (D \ Before(k)) \cup After(k))  BY <3>1, <3>4, TailsAre
      <3> QED  BY <1>6, <2>1, <3>5
    <2> QED  BY <2>4, <2>5
  <1> QED  BY <1>1, <1>7, <1>8, <1>a, <1>b

\* What the verifiers find of one line of the log is one thing, where nothing is half done.
LEMMA LinesAgree ==
    ASSUME PassesInv, VerifyManifest(Directory), Unsealed(Directory) = {}, InRotationOrder,
           NEW i \in DOMAIN anchorLog, i \in Counted(Directory) => ~anchorLog[i].error
    PROVE  /\ AnchorStands(Directory, anchorLog[i]) <=> EvaluateAnchor(Directory, anchorLog[i])
           /\ AnchorStands(Directory, anchorLog[i]) <=> PySettle(Directory, anchorLog[i])
           /\ AnchorStands(Directory, anchorLog[i]) <=> RsCheckRecord(Directory, anchorLog[i])
  <1>0. AnchorTypes /\ SignedApart  BY DEF PassesInv
  <1>1. PICK a : a = anchorLog[i]  OBVIOUS
  <1>2. CASE a = Unreadable
    BY <1>1, <1>2 DEF AnchorStands, EvaluateAnchor, PySettle, RsCheckRecord
  <1>3. CASE a # Unreadable
    <2>1. a \in AnchorLines  BY <1>0, <1>1, <1>3 DEF AnchorTypes
    <2>2. TailIsLater(a)  BY <1>0, <1>1, <1>3 DEF SignedApart
    <2>3. ~a.error  BY <1>1, <1>3, OnDisk DEF Counted
    <2>4. a.segments \in Nat /\ Len(manifest) \in Nat  BY <1>0, <2>1 DEF AnchorLines, AnchorTypes
    <2>5. CASE ~(a.segments <= Len(manifest) /\ a.head = HeadAt(manifest, a.segments))
      BY <1>1, <2>5, OnDisk DEF AnchorStands, Rebuilds, EvaluateAnchor, GoCheck, PySettle, RsCheckRecord
    <2>6. CASE a.segments <= Len(manifest) /\ a.head = HeadAt(manifest, a.segments)
      <3>1. a.segments \in 0 .. Len(manifest)  BY <2>4, <2>6
      <3>2. /\ a.tail \in {Nothing} \cup LiveTailCandidates(Directory, a.segments)
                 <=> a.tail \in {Nothing} \cup GoTails(Directory)
            /\ LiveTailCandidates(Directory, a.segments) = PyLiveTailCandidates(Directory, a.segments)
            /\ LiveTailCandidates(Directory, a.segments) = RsTailCandidates(Directory, a.segments)
        BY <2>1, <2>2, <2>6, <3>1, SameTails
      <3>3. AnchorStands(Directory, a) <=> EvaluateAnchor(Directory, a)
        BY <1>3, <3>2 DEF AnchorStands, Rebuilds, EvaluateAnchor, GoCheck
      <3>4. AnchorStands(Directory, a) <=> PySettle(Directory, a)
        BY <1>3, <2>3, <3>2 DEF AnchorStands, Rebuilds, PySettle
      <3>5. AnchorStands(Directory, a) <=> RsCheckRecord(Directory, a)
        BY <1>3, <2>3, <3>2 DEF AnchorStands, Rebuilds, RsCheckRecord
      <3> QED  BY <1>1, <3>3, <3>4, <3>5
    <2> QED  BY <2>5, <2>6
  <1> QED  BY <1>2, <1>3

LEMMA VerdictsAgree == ASSUME PassesInv PROVE VerifiersAgree
  <1> SUFFICES ASSUME live > 0, Unsealed(Directory) = {}, ~torn, InRotationOrder,
                      key \notin {Nothing, Unreadable},
                      \A i \in Counted(Directory) : ~anchorLog[i].error
               PROVE  /\ RunVerify(Directory) <=> GoVerify(Directory)
                      /\ RunVerify(Directory) <=> PyVerify(Directory)
                      /\ RunVerify(Directory) <=> RsVerify(Directory)
    BY DEF VerifiersAgree
  <1>1. anchorLog \in Seq(AnchorLines \cup {Unreadable})  BY DEF PassesInv, AnchorTypes
  <1>2. /\ VerifyManifest(Directory) <=> PyReadManifest(Directory) /\ PyBindSegments(Directory)
        /\ VerifyManifest(Directory) <=> RsLoad(Directory) /\ RsCheckAgainstDisk(Directory)
    BY OnDisk DEF VerifyManifest, PyReadManifest, PyBindSegments, RsLoad, RsCheckAgainstDisk
  <1>3. CASE ~VerifyManifest(Directory)
    BY <1>2, <1>3 DEF RunVerify, GoVerify, PyVerify, RsVerify
  <1>4. CASE VerifyManifest(Directory)
    <2>1. \A i \in DOMAIN anchorLog :
            /\ AnchorStands(Directory, anchorLog[i]) <=> EvaluateAnchor(Directory, anchorLog[i])
            /\ AnchorStands(Directory, anchorLog[i]) <=> PySettle(Directory, anchorLog[i])
            /\ AnchorStands(Directory, anchorLog[i]) <=> RsCheckRecord(Directory, anchorLog[i])
      BY <1>4, LinesAgree
    <2>2. /\ (\A i \in DOMAIN anchorLog : AnchorStands(Directory, anchorLog[i]))
               <=> \A i \in DOMAIN anchorLog : EvaluateAnchor(Directory, anchorLog[i])
          /\ (\A i \in DOMAIN anchorLog : AnchorStands(Directory, anchorLog[i]))
               <=> \A i \in DOMAIN anchorLog : PySettle(Directory, anchorLog[i])
          /\ (\A i \in DOMAIN anchorLog : AnchorStands(Directory, anchorLog[i]))
               <=> \A i \in DOMAIN anchorLog : RsCheckRecord(Directory, anchorLog[i])
      BY <2>1
    <2>3. ASSUME \A i \in DOMAIN anchorLog : AnchorStands(Directory, anchorLog[i])
          PROVE  Reached(Directory) # {} <=> anchorLog # <<>>
      <3>1. \A i \in DOMAIN anchorLog : anchorLog[i] # Unreadable  BY <2>3 DEF AnchorStands
      <3>2. Reached(Directory) = DOMAIN anchorLog  BY <3>1, OnDisk DEF Reached, Counted
      <3>3. DOMAIN anchorLog = {} <=> anchorLog = <<>>  BY <1>1
      <3> QED  BY <3>2, <3>3
    <2>4. RunVerify(Directory) <=> /\ \A i \in DOMAIN anchorLog : AnchorStands(Directory, anchorLog[i])
                                   /\ Reached(Directory) # {}
      BY <1>4, OnDisk DEF RunVerify
    <2>5. GoVerify(Directory) <=> /\ \A i \in DOMAIN anchorLog : EvaluateAnchor(Directory, anchorLog[i])
                                  /\ Reached(Directory) # {}
      BY <1>4, OnDisk DEF GoVerify
    <2>6. PyVerify(Directory) <=> /\ \A i \in DOMAIN anchorLog : PySettle(Directory, anchorLog[i])
                                  /\ anchorLog # <<>>
      BY <1>2, <1>4, OnDisk DEF PyVerify
    <2>7. RsVerify(Directory) <=> /\ \A i \in DOMAIN anchorLog : RsCheckRecord(Directory, anchorLog[i])
                                  /\ anchorLog # <<>>
      BY <1>2, <1>4, OnDisk DEF RsVerify
    <2> QED  BY <2>2, <2>3, <2>4, <2>5, <2>6, <2>7
  <1> QED  BY <1>3, <1>4

\* While one process anchors and none has died, every segment a checkpoint covers is among the
\* entries it counts: those of the manifest, or of the one that a pass is about to write.
SealedIn(m, c) ==
    /\ c.segments <= Len(m)
    /\ \A x \in c.covers : \E k \in 1 .. c.segments : x = Final(m[k])
CoveredBy(m, c) ==
    /\ c.segments <= Len(m)
    /\ \A x \in c.covers : x = c.tail \/ \E k \in 1 .. c.segments : x = Final(m[k])
KeptIn(m) ==
    /\ \A i \in DOMAIN anchorLog : anchorLog[i] # Unreadable => CoveredBy(m, anchorLog[i])
    /\ \A p \in Passes : /\ at[p] = "tail" => SealedIn(m, checkpoint[p])
                         /\ at[p] \in {"key", "create", "wait", "append"} => CoveredBy(m, checkpoint[p])
CoversInv ==
    Alone /\ deaths = 0 =>
        /\ (\A p \in Passes : at[p] # "write") => KeptIn(manifest)
        /\ \A p \in Passes : at[p] \in {"open", "write"} => KeptIn(seen[p])
        /\ \A p \in Passes : at[p] = "write" => manifest = <<>>

LEMMA KeptOn ==
    ASSUME NEW p \in Passes, NEW m, KeptIn(m), anchorLog' = anchorLog,
           Others(p, at, at'), Others(p, checkpoint, checkpoint'),
           at'[p] = "tail" => SealedIn(m, checkpoint'[p]),
           at'[p] \in {"key", "create", "wait", "append"} => CoveredBy(m, checkpoint'[p])
    PROVE  KeptIn(m)'
  <1>1. \A i \in DOMAIN anchorLog' : anchorLog'[i] # Unreadable => CoveredBy(m, anchorLog'[i])
    BY DEF KeptIn
  <1>2. ASSUME NEW q \in Passes
        PROVE  /\ at'[q] = "tail" => SealedIn(m, checkpoint'[q])
               /\ at'[q] \in {"key", "create", "wait", "append"} => CoveredBy(m, checkpoint'[q])
    <2>1. CASE q = p  BY <2>1
    <2>2. CASE q # p
      <3>1. at'[q] = at[q] /\ checkpoint'[q] = checkpoint[q]  BY <2>2 DEF Others
      <3> QED  BY <3>1 DEF KeptIn
    <2> QED  BY <2>1, <2>2
  <1>3. KeptIn(m)' <=>
          /\ \A i \in DOMAIN anchorLog' : anchorLog'[i] # Unreadable => CoveredBy(m, anchorLog'[i])
          /\ \A q \in Passes : /\ at'[q] = "tail" => SealedIn(m, checkpoint'[q])
                               /\ at'[q] \in {"key", "create", "wait", "append"} => CoveredBy(m, checkpoint'[q])
    BY DEF KeptIn, SealedIn, CoveredBy
  <1> QED  BY <1>1, <1>2, <1>3

LEMMA CoveredOnAppend ==
    ASSUME NEW m \in Seq(ManifestEntries), NEW e \in ManifestEntries, NEW c, c.segments \in Nat
    PROVE  /\ SealedIn(m, c) => SealedIn(Append(m, e), c)
           /\ CoveredBy(m, c) => CoveredBy(Append(m, e), c)
  <1>1. PICK s : s = Append(m, e)  OBVIOUS
  <1>2. Len(s) = Len(m) + 1 /\ Len(m) \in Nat /\ \A k \in 1 .. Len(m) : s[k] = m[k]  BY <1>1
  <1>3. ASSUME c.segments <= Len(m)
        PROVE  c.segments <= Len(s) /\ \A k \in 1 .. c.segments : Final(s[k]) = Final(m[k])
    <2>1. \A k \in 1 .. c.segments : s[k] = m[k]  BY <1>2, <1>3
    <2> QED  BY <1>2, <1>3, <2>1
  <1>4. SealedIn(m, c) => SealedIn(s, c)  BY <1>3 DEF SealedIn
  <1>5. CoveredBy(m, c) => CoveredBy(s, c)  BY <1>3 DEF CoveredBy
  <1> QED  BY <1>1, <1>4, <1>5

LEMMA KeptOnAppend ==
    ASSUME AnchorTypes, NEW m \in Seq(ManifestEntries), NEW e \in ManifestEntries, KeptIn(m)
    PROVE  KeptIn(Append(m, e))
  <1>1. \A i \in DOMAIN anchorLog : anchorLog[i] # Unreadable => anchorLog[i].segments \in Nat
    <2>1. SUFFICES ASSUME NEW i \in DOMAIN anchorLog, anchorLog[i] # Unreadable
                   PROVE  anchorLog[i].segments \in Nat
      OBVIOUS
    <2>2. anchorLog[i] \in AnchorLines  BY <2>1 DEF AnchorTypes
    <2> QED  BY <2>2 DEF AnchorLines
  <1>2. \A p \in Passes : checkpoint[p].segments \in Nat
    <2>1. SUFFICES ASSUME NEW p \in Passes PROVE checkpoint[p].segments \in Nat  OBVIOUS
    <2>2. checkpoint[p] \in Checkpoints  BY DEF AnchorTypes
    <2> QED  BY <2>2 DEF Checkpoints
  <1>3. \A i \in DOMAIN anchorLog : anchorLog[i] # Unreadable => CoveredBy(Append(m, e), anchorLog[i])
    BY <1>1, CoveredOnAppend DEF KeptIn
  <1>4. \A p \in Passes :
          /\ at[p] = "tail" => SealedIn(Append(m, e), checkpoint[p])
          /\ at[p] \in {"key", "create", "wait", "append"} => CoveredBy(Append(m, e), checkpoint[p])
    BY <1>2, CoveredOnAppend DEF KeptIn
  <1> QED  BY <1>3, <1>4 DEF KeptIn

LEMMA OneStretch ==
    ASSUME PassesInv, Alone, NEW p \in Passes, InStretch(p)
    PROVE  \A q \in Passes : q # p => at[q] \notin {"seal", "open", "write", "tail", "key", "create"}
  <1>1. SUFFICES ASSUME NEW q \in Passes, at[q] \in {"seal", "open", "write", "tail", "key", "create"}
                 PROVE  q = p
    OBVIOUS
  <1>2. InStretch(q)  BY <1>1 DEF InStretch
  <1>3. p \in setup.passes /\ q \in setup.passes  BY <1>1 DEF PassesInv, Turns, InStretch
  <1>4. ProcessOf[p] = ProcessOf[q]  BY <1>3 DEF Alone
  <1> QED  BY <1>2, <1>4 DEF PassesInv, Turns

LEMMA CoversBegin == AnchorInit => CoversInv
  <1> SUFFICES ASSUME AnchorInit PROVE CoversInv  OBVIOUS
  <1>1. \A p \in Passes : at[p] = "idle"  BY DEF AnchorInit
  <1>2. DOMAIN anchorLog = {}
    <2>1. PICK e : e = <<>>  OBVIOUS
    <2>2. DOMAIN e = {} /\ anchorLog = e  BY <2>1 DEF AnchorInit
    <2> QED  BY <2>2
  <1> QED  BY <1>1, <1>2 DEF CoversInv, KeptIn

\* A step after which one text keeps what is signed, and no other text is being written.
LEMMA CoversIf ==
    ASSUME NEW m, KeptIn(m)', NEW p \in Passes,
           \/ manifest' = m /\ at'[p] \notin {"open", "write"}
           \/ manifest' = m /\ at'[p] = "open" /\ KeptIn(seen[p])'
           \/ seen'[p] = m /\ at'[p] = "write" /\ manifest' = <<>>,
           \A q \in Passes : q # p => at'[q] \notin {"open", "write"}
    PROVE  CoversInv'
  <1>1. m = manifest' => KeptIn(manifest)'  BY DEF KeptIn, SealedIn, CoveredBy
  <1>2. m = seen'[p] => KeptIn(seen[p])'  BY DEF KeptIn, SealedIn, CoveredBy
  <1>3. (\A q \in Passes : at'[q] # "write") => KeptIn(manifest)'  BY <1>1
  <1>4. at'[p] \in {"open", "write"} => KeptIn(seen[p])'  BY <1>2
  <1>5. \A q \in Passes : at'[q] \in {"open", "write"} => KeptIn(seen[q])'  BY <1>4
  <1>6. \A q \in Passes : at'[q] = "write" => manifest' = <<>>  OBVIOUS
  <1> QED  BY <1>3, <1>5, <1>6 DEF CoversInv

LEMMA CoversContinue == PassesInv /\ CoversInv /\ [AnchorNext]_anchorVars => CoversInv'
  <1> SUFFICES ASSUME PassesInv, CoversInv, [AnchorNext]_anchorVars PROVE CoversInv'  OBVIOUS
  <1>0. AnchorTypes /\ Turns /\ EntriesNamed  BY DEF PassesInv
  <1>k. ASSUME UNCHANGED <<manifest, anchorLog, at, seen, checkpoint, setup, deaths>> PROVE CoversInv'
    BY <1>k DEF CoversInv, Alone, KeptIn, SealedIn, CoveredBy
  <1>v. ASSUME setup' = setup, deaths' = deaths, ~(Alone /\ deaths = 0) PROVE CoversInv'
    BY <1>v DEF CoversInv, Alone
  <1>n. PICK m : m = manifest  OBVIOUS
  <1>s. ASSUME NEW p \in Passes, Alone, deaths = 0, InStretch(p)
        PROVE  /\ \A q \in Passes : q # p => at[q] \notin {"seal", "open", "write", "tail", "key", "create"}
               /\ at[p] # "write" => KeptIn(m)
    BY <1>s, <1>n, OneStretch DEF CoversInv
  <1>q. ASSUME NEW p \in Passes, Alone, deaths = 0, at[p] # "idle" \/ p \in setup.passes,
               \A q \in Passes : ProcessOf[q] = ProcessOf[p] => ~InStretch(q)
        PROVE  KeptIn(m) /\ \A q \in Passes : ~InStretch(q)
    <2>1. ASSUME NEW q \in Passes PROVE ~InStretch(q)
      <3>1. CASE at[q] = "idle"  BY <3>1 DEF InStretch
      <3>2. CASE at[q] # "idle"
        <4>1. p \in setup.passes /\ q \in setup.passes  BY <1>0, <1>q, <3>2 DEF Turns
        <4> QED  BY <1>q, <4>1 DEF Alone
      <3> QED  BY <3>1, <3>2
    <2>2. \A q \in Passes : at[q] # "write"  BY <2>1 DEF InStretch
    <2> QED  BY <1>n, <1>q, <2>1, <2>2 DEF CoversInv
  <1>1. ASSUME NEW p \in Passes, Start(p) PROVE CoversInv'
    <2>1. /\ at[p] = "idle" /\ at'[p] = "seal" /\ p \in setup.passes
          /\ \A q \in Passes : ProcessOf[q] = ProcessOf[p] => ~InStretch(q)
          /\ Others(p, at, at') /\ Others(p, checkpoint, checkpoint')
          /\ UNCHANGED <<manifest, anchorLog, seen, setup, deaths>>
      BY <1>0, <1>1, StartDoes
    <2>2. CASE Alone /\ deaths = 0
      <3>1. KeptIn(m) /\ \A q \in Passes : ~InStretch(q)  BY <1>q, <2>1, <2>2
      <3>2. KeptIn(m)'  BY <2>1, <3>1, KeptOn
      <3>3. \A q \in Passes : q # p => at'[q] \notin {"open", "write"}  BY <2>1, <3>1 DEF Others, InStretch
      <3> QED  BY <1>n, <2>1, <3>2, <3>3, CoversIf
    <2> QED  BY <1>v, <2>1, <2>2
  <1>2. ASSUME NEW p \in Passes, SealSegment(p) PROVE CoversInv'
    <2>0. 0 \notin todo[p]  BY <1>0 DEF EntriesNamed
    <2>1. /\ at[p] = "seal" /\ manifest' = manifest /\ anchorLog' = anchorLog /\ setup' = setup
          /\ checkpoint' = checkpoint /\ deaths' = deaths
      BY <1>0, <1>2, <2>0, SealDoes
    <2>2. PICK i \in todo[p] :
                \/ at' = at /\ seen' = seen
                \/ /\ at'[p] = "open" /\ seen'[p] = Append(manifest, NextEntry(i))
                   /\ NextEntry(i) \in ManifestEntries
                   /\ Others(p, at, at') /\ Others(p, seen, seen')
      BY <1>0, <1>2, <2>0, SealDoes
    <2>3. CASE at' = at /\ seen' = seen  BY <1>k, <2>1, <2>3
    <2>4. CASE /\ Alone /\ deaths = 0
               /\ at'[p] = "open" /\ seen'[p] = Append(manifest, NextEntry(i))
               /\ NextEntry(i) \in ManifestEntries
               /\ Others(p, at, at') /\ Others(p, seen, seen')
      <3>1. InStretch(p)  BY <2>1 DEF InStretch
      <3>2. /\ KeptIn(m)
            /\ \A q \in Passes : q # p => at[q] \notin {"seal", "open", "write", "tail", "key", "create"}
        BY <1>s, <2>1, <2>4, <3>1
      <3>3. Others(p, checkpoint, checkpoint')  BY <2>1 DEF Others
      <3>4. KeptIn(m)'  BY <2>1, <2>4, <3>2, <3>3, KeptOn
      <3>5. PICK s : s = Append(m, NextEntry(i))  OBVIOUS
      <3>6. KeptIn(s)
        <4>1. m \in Seq(ManifestEntries)  BY <1>0, <1>n DEF AnchorTypes
        <4> QED  BY <1>0, <2>4, <3>2, <3>5, <4>1, KeptOnAppend
      <3>7. KeptIn(s)'  BY <2>1, <2>4, <3>3, <3>6, KeptOn
      <3>8. KeptIn(seen[p])'
        <4>1. seen'[p] = s  BY <1>n, <2>4, <3>5
        <4> QED  BY <3>7, <4>1 DEF KeptIn, SealedIn, CoveredBy
      <3>9. \A q \in Passes : q # p => at'[q] \notin {"open", "write"}  BY <2>4, <3>2 DEF Others
      <3> QED  BY <1>n, <2>1, <2>4, <3>4, <3>8, <3>9, CoversIf
    <2> QED  BY <1>v, <2>1, <2>2, <2>3, <2>4
  <1>3. ASSUME NEW p \in Passes, OpenManifest(p) PROVE CoversInv'
    <2>1. /\ at[p] = "open" /\ at'[p] = "write" /\ Others(p, at, at') /\ manifest' = <<>>
          /\ UNCHANGED <<anchorLog, seen, checkpoint, setup, deaths>>
      BY <1>0, <1>3, OpenDoes
    <2>2. CASE Alone /\ deaths = 0
      <3>1. InStretch(p)  BY <2>1 DEF InStretch
      <3>2. \A q \in Passes : q # p => at[q] \notin {"seal", "open", "write", "tail", "key", "create"}
        BY <1>s, <2>2, <3>1
      <3>3. PICK s : s = seen[p]  OBVIOUS
      <3>4. KeptIn(s)  BY <2>1, <2>2, <3>3 DEF CoversInv
      <3>5. Others(p, checkpoint, checkpoint')  BY <2>1 DEF Others
      <3>6. KeptIn(s)'  BY <2>1, <3>4, <3>5, KeptOn
      <3>7. \A q \in Passes : q # p => at'[q] \notin {"open", "write"}  BY <2>1, <3>2 DEF Others
      <3>8. seen'[p] = s  BY <2>1, <3>3
      <3> QED  BY <2>1, <3>6, <3>7, <3>8, CoversIf
    <2> QED  BY <1>v, <2>1, <2>2
  <1>4. ASSUME NEW p \in Passes, WriteManifest(p) PROVE CoversInv'
    <2>1. /\ at[p] = "write" /\ at'[p] = "seal" /\ Others(p, at, at')
          /\ manifest' = seen[p] \o From(manifest, Len(seen[p]))
          /\ UNCHANGED <<anchorLog, checkpoint, setup, deaths>>
      BY <1>0, <1>4, WriteDoes
    <2>2. CASE Alone /\ deaths = 0
      <3>1. InStretch(p)  BY <2>1 DEF InStretch
      <3>2. \A q \in Passes : q # p => at[q] \notin {"seal", "open", "write", "tail", "key", "create"}
        BY <1>s, <2>2, <3>1
      <3>3. PICK s : s = seen[p]  OBVIOUS
      <3>4. KeptIn(s) /\ manifest = <<>>  BY <2>1, <2>2, <3>3 DEF CoversInv
      <3>5. manifest' = s
        <4>1. s \in Seq(ManifestEntries) /\ manifest \in Seq(ManifestEntries)  BY <1>0, <3>3 DEF AnchorTypes
        <4>2. Len(s) \in Nat  BY <4>1
        <4>3. PICK t : t = From(manifest, Len(s))  OBVIOUS
        <4>4. t = <<>> /\ t \in Seq(ManifestEntries)  BY <3>4, <4>1, <4>2, <4>3, FromEnd
        <4>5. manifest' = s \o t  BY <2>1, <3>3, <4>3
        <4> QED  BY <4>1, <4>4, <4>5, JoinedIs
      <3>6. Others(p, checkpoint, checkpoint')  BY <2>1 DEF Others
      <3>7. KeptIn(s)'  BY <2>1, <3>4, <3>6, KeptOn
      <3>8. \A q \in Passes : q # p => at'[q] \notin {"open", "write"}  BY <2>1, <3>2 DEF Others
      <3> QED  BY <2>1, <3>5, <3>7, <3>8, CoversIf
    <2> QED  BY <1>v, <2>1, <2>2
  <1>5. ASSUME NEW p \in Passes, Checkpoint(p) PROVE CoversInv'
    <2>1. /\ at[p] = "seal" /\ at'[p] = "tail" /\ Others(p, at, at')
          /\ checkpoint'[p].segments = Len(manifest)
          /\ checkpoint'[p].covers = {Final(manifest[i]) : i \in 1 .. Len(manifest)}
          /\ Others(p, checkpoint, checkpoint')
          /\ UNCHANGED <<manifest, anchorLog, seen, setup, deaths>>
      BY <1>0, <1>5, CheckpointDoes
    <2>2. CASE Alone /\ deaths = 0
      <3>1. InStretch(p)  BY <2>1 DEF InStretch
      <3>2. /\ KeptIn(m)
            /\ \A q \in Passes : q # p => at[q] \notin {"seal", "open", "write", "tail", "key", "create"}
        BY <1>s, <2>1, <2>2, <3>1
      <3>3. SealedIn(m, checkpoint'[p])
        <4>1. Len(m) \in Nat  BY <1>0, <1>n DEF AnchorTypes
        <4> QED  BY <1>n, <2>1, <4>1 DEF SealedIn
      <3>4. KeptIn(m)'  BY <2>1, <3>2, <3>3, KeptOn
      <3>5. \A q \in Passes : q # p => at'[q] \notin {"open", "write"}  BY <2>1, <3>2 DEF Others
      <3> QED  BY <1>n, <2>1, <3>4, <3>5, CoversIf
    <2> QED  BY <1>v, <2>1, <2>2
  <1>6. ASSUME NEW p \in Passes, LiveTail(p) PROVE CoversInv'
    <2>1. /\ at[p] = "tail" /\ at'[p] \in {"idle", "key"} /\ Others(p, at, at')
          /\ checkpoint'[p].segments = checkpoint[p].segments
          /\ checkpoint'[p].covers \subseteq checkpoint[p].covers \cup {checkpoint'[p].tail}
          /\ Others(p, checkpoint, checkpoint')
          /\ UNCHANGED <<manifest, anchorLog, seen, setup, deaths>>
      BY <1>0, <1>6, LiveTailDoes
    <2>2. CASE Alone /\ deaths = 0
      <3>1. InStretch(p)  BY <2>1 DEF InStretch
      <3>2. /\ KeptIn(m)
            /\ \A q \in Passes : q # p => at[q] \notin {"seal", "open", "write", "tail", "key", "create"}
        BY <1>s, <2>1, <2>2, <3>1
      <3>3. SealedIn(m, checkpoint[p])  BY <2>1, <3>2 DEF KeptIn
      <3>4. CoveredBy(m, checkpoint'[p])  BY <2>1, <3>3 DEF SealedIn, CoveredBy
      <3>5. KeptIn(m)'  BY <2>1, <3>2, <3>4, KeptOn
      <3>6. \A q \in Passes : q # p => at'[q] \notin {"open", "write"}  BY <2>1, <3>2 DEF Others
      <3> QED  BY <1>n, <2>1, <3>5, <3>6, CoversIf
    <2> QED  BY <1>v, <2>1, <2>2
  <1>7. ASSUME NEW p \in Passes, LoadKey(p) \/ CreateKey(p) PROVE CoversInv'
    <2>1. /\ at[p] \in {"key", "create"} /\ at'[p] \in {"create", "idle", "wait"} /\ Others(p, at, at')
          /\ checkpoint'[p].segments = checkpoint[p].segments /\ checkpoint'[p].tail = checkpoint[p].tail
          /\ checkpoint'[p].covers = checkpoint[p].covers /\ Others(p, checkpoint, checkpoint')
          /\ UNCHANGED <<manifest, anchorLog, seen, setup, deaths>>
      BY <1>0, <1>7, LoadKeyDoes, CreateKeyDoes
    <2>2. CASE Alone /\ deaths = 0
      <3>1. InStretch(p)  BY <2>1 DEF InStretch
      <3>2. /\ KeptIn(m)
            /\ \A q \in Passes : q # p => at[q] \notin {"seal", "open", "write", "tail", "key", "create"}
        BY <1>s, <2>1, <2>2, <3>1
      <3>3. CoveredBy(m, checkpoint[p])  BY <2>1, <3>2 DEF KeptIn
      <3>4. CoveredBy(m, checkpoint'[p])  BY <2>1, <3>3 DEF CoveredBy
      <3>5. KeptIn(m)'  BY <2>1, <3>2, <3>4, KeptOn
      <3>6. \A q \in Passes : q # p => at'[q] \notin {"open", "write"}  BY <2>1, <3>2 DEF Others
      <3> QED  BY <1>n, <2>1, <3>5, <3>6, CoversIf
    <2> QED  BY <1>v, <2>1, <2>2
  <1>8. ASSUME NEW p \in Passes, NEW reached \in BOOLEAN, Answer(p, reached) PROVE CoversInv'
    <2>1. /\ at[p] = "wait" /\ at'[p] = "append" /\ Others(p, at, at')
          /\ \A q \in Passes : ProcessOf[q] = ProcessOf[p] => ~InStretch(q)
          /\ UNCHANGED <<manifest, anchorLog, seen, checkpoint, setup, deaths>>
      BY <1>0, <1>8, AnswerDoes
    <2>2. CASE Alone /\ deaths = 0
      <3>1. KeptIn(m) /\ \A q \in Passes : ~InStretch(q)  BY <1>q, <2>1, <2>2
      <3>2. CoveredBy(m, checkpoint'[p])  BY <2>1, <3>1 DEF KeptIn
      <3>3. Others(p, checkpoint, checkpoint')  BY <2>1 DEF Others
      <3>4. KeptIn(m)'  BY <2>1, <3>1, <3>2, <3>3, KeptOn
      <3>5. \A q \in Passes : q # p => at'[q] \notin {"open", "write"}  BY <2>1, <3>1 DEF Others, InStretch
      <3> QED  BY <1>n, <2>1, <3>4, <3>5, CoversIf
    <2> QED  BY <1>v, <2>1, <2>2
  <1>9. ASSUME NEW p \in Passes, AppendAnchor(p) PROVE CoversInv'
    <2>1. /\ at[p] = "append" /\ at'[p] = "idle" /\ Others(p, at, at')
          /\ \A q \in Passes : ProcessOf[q] = ProcessOf[p] => ~InStretch(q)
          /\ \/ anchorLog' = anchorLog
             \/ anchorLog' = Append(anchorLog, AnchorLine(p))
          /\ AnchorLine(p) \in AnchorLines
          /\ UNCHANGED <<manifest, seen, checkpoint, setup, deaths>>
      BY <1>0, <1>9, AppendDoes
    <2>2. CASE Alone /\ deaths = 0
      <3>1. KeptIn(m) /\ \A q \in Passes : ~InStretch(q)  BY <1>q, <2>1, <2>2
      <3>2. CoveredBy(m, AnchorLine(p))  BY <2>1, <3>1 DEF KeptIn, CoveredBy, AnchorLine
      <3>3. \A i \in DOMAIN anchorLog' : anchorLog'[i] # Unreadable => CoveredBy(m, anchorLog'[i])
        <4>1. CASE anchorLog' = anchorLog  BY <3>1, <4>1 DEF KeptIn
        <4>2. CASE anchorLog' = Append(anchorLog, AnchorLine(p))
          <5>1. /\ anchorLog \in Seq(AnchorLines \cup {Unreadable})
                /\ AnchorLine(p) \in AnchorLines \cup {Unreadable}
            BY <1>0, <2>1 DEF AnchorTypes
          <5>2. \A i \in DOMAIN anchorLog' :
                   \/ i \in DOMAIN anchorLog /\ anchorLog'[i] = anchorLog[i]
                   \/ anchorLog'[i] = AnchorLine(p)
            BY <4>2, <5>1, LogGrows
          <5> QED  BY <3>1, <3>2, <5>2 DEF KeptIn
        <4> QED  BY <2>1, <4>1, <4>2
      <3>4. \A q \in Passes :
               /\ at'[q] = "tail" => SealedIn(m, checkpoint'[q])
               /\ at'[q] \in {"key", "create", "wait", "append"} => CoveredBy(m, checkpoint'[q])
        BY <2>1, <3>1 DEF KeptIn, Others
      <3>5. KeptIn(m)'  BY <3>3, <3>4 DEF KeptIn, SealedIn, CoveredBy
      <3>6. \A q \in Passes : q # p => at'[q] \notin {"open", "write"}  BY <2>1, <3>1 DEF Others, InStretch
      <3> QED  BY <1>n, <2>1, <3>5, <3>6, CoversIf
    <2> QED  BY <1>v, <2>1, <2>2
  <1>a. ASSUME NEW p \in Passes, KillPass(p) PROVE CoversInv'
    <2>1. deaths' = deaths + 1 /\ deaths \in Nat  BY <1>0, <1>a, KillDoes DEF AnchorTypes
    <2>2. deaths' # 0  BY <2>1
    <2> QED  BY <2>2 DEF CoversInv
  <1>b. ASSUME Record PROVE CoversInv'  BY <1>0, <1>b, <1>k, RecordDoes
  <1>c. ASSUME Rotate PROVE CoversInv'  BY <1>0, <1>c, <1>k, RotateDoes
  <1>d. ASSUME NEW i \in DOMAIN closed, NEW n \in Gone .. 1, Damage(i, n) PROVE CoversInv'
    BY <1>0, <1>d, <1>k, DamageDoes
  <1>e. ASSUME UNCHANGED anchorVars PROVE CoversInv'  BY <1>e, <1>k DEF anchorVars, disk, pass, bounds
  <1> QED
    BY <1>1, <1>2, <1>3, <1>4, <1>5, <1>6, <1>7, <1>8, <1>9, <1>a, <1>b, <1>c, <1>d, <1>e
       DEF AnchorNext, Step

\* A directory that verifies holds every record that its log covers.
LEMMA CoveredStand ==
    ASSUME PassesInv, CoversInv, Alone, deaths = 0, RunVerify(Directory), NEW i \in DOMAIN anchorLog,
           NEW c \in anchorLog[i].covers
    PROVE  ~Missing(c)
  <1>0. AnchorTypes /\ VerifyManifest(Directory)  BY DEF PassesInv, RunVerify
  <1>1. PICK a : a = anchorLog[i]  OBVIOUS
  <1>2. /\ a # Unreadable /\ a \in AnchorLines /\ a.segments \in 0 .. Len(manifest)
        /\ a.tail # Nothing => ~Missing(a.tail)
    BY <1>1, HeadAndTailStand
  <1>3. CASE c = a.tail
    <2>1. c \in Marks  BY <1>1, <1>2 DEF AnchorLines
    <2>2. c # Nothing  BY <2>1, EvidenceAssumption DEF Marks
    <2> QED  BY <1>2, <1>3, <2>2
  <1>4. CASE c # a.tail
    <2>1. CASE \E p \in Passes : at[p] = "write"
      <3>1. PICK p \in Passes : at[p] = "write"  BY <2>1
      <3>2. KeptIn(seen[p]) /\ manifest = <<>>  BY <3>1 DEF CoversInv
      <3>3. PICK s : s = seen[p]  OBVIOUS
      <3>4. CoveredBy(s, a)  BY <1>1, <1>2, <3>2, <3>3 DEF KeptIn
      <3>5. PICK k \in 1 .. a.segments : c = Final(s[k])  BY <1>1, <1>4, <3>4 DEF CoveredBy
      <3>6. Len(manifest) = 0
        <4>1. PICK e : e = <<>>  OBVIOUS
        <4>2. Len(e) = 0  BY <4>1
        <4> QED  BY <3>2, <4>1, <4>2
      <3> QED  BY <1>2, <3>5, <3>6
    <2>2. CASE \A p \in Passes : at[p] # "write"
      <3>1. KeptIn(manifest)  BY <2>2 DEF CoversInv
      <3>2. CoveredBy(manifest, a)  BY <1>1, <1>2, <3>1 DEF KeptIn
      <3>3. PICK k \in 1 .. a.segments : c = Final(manifest[k])  BY <1>1, <1>4, <3>2 DEF CoveredBy
      <3>4. k \in 1 .. Len(manifest) /\ Len(closed) \in Nat  BY <1>0, <1>2, <3>3 DEF AnchorTypes
      <3>5. PICK s : s = manifest[k].seg  OBVIOUS
      <3>6. s \in 1 .. Len(closed) /\ c = <<s, manifest[k].n>> /\ closed[s] = manifest[k].n
            /\ manifest[k].n \in Nat
        BY <1>0, <3>3, <3>4, <3>5, VerifiedEntries
      <3> QED  BY <3>4, <3>6 DEF Missing
    <2> QED  BY <2>1, <2>2
  <1> QED  BY <1>3, <1>4

LEMMA LossesShow == ASSUME PassesInv, CoversInv PROVE LossIsReported
  <1> SUFFICES ASSUME RunVerify(Directory), NEW i \in Counted(Directory),
                      \/ \E c \in {anchorLog[i].head, anchorLog[i].tail} \ {Nothing} : Missing(c)
                      \/ Alone /\ deaths = 0 /\ \E c \in anchorLog[i].covers : Missing(c)
               PROVE  FALSE
    BY DEF LossIsReported
  <1>1. i \in DOMAIN anchorLog  BY OnDisk DEF Counted
  <1>2. /\ anchorLog[i].head # Nothing => ~Missing(anchorLog[i].head)
        /\ anchorLog[i].tail # Nothing => ~Missing(anchorLog[i].tail)
    BY <1>1, HeadAndTailStand
  <1>3. Alone /\ deaths = 0 => \A c \in anchorLog[i].covers : ~Missing(c)  BY <1>1, CoveredStand
  <1> QED  BY <1>2, <1>3

\* Whatever passes of however many processes do to one evidence directory, in whatever order, with
\* kills inside any write and closed files lost or cut: a record that an anchor names and that is
\* gone makes the bundled verifier fail (anchor-service.ts:330 runVerify), also a record of an older
\* segment while one process anchors and none was killed; and where nothing is half done and the
\* entries stand in rotation order, the four verifiers reach one verdict (docs/audit-format.md:29).
THEOREM LossesAreTold == AnchorSpec => []VerifiersTellLoss
  <1> DEFINE Inv == PassesInv /\ CoversInv
  <1>1. AnchorInit => Inv  BY PassesBegin, CoversBegin
  <1>2. Inv /\ [AnchorNext]_anchorVars => Inv'  BY PassesContinue, CoversContinue
  <1>3. Inv => VerifiersTellLoss  BY LossesShow, VerdictsAgree DEF VerifiersTellLoss
  <1> QED  BY <1>1, <1>2, <1>3, PTL DEF AnchorSpec

\* While one process anchors and no closed file was harmed, the manifest that is there, or that a
\* pass is about to write, holds the first closed segments in their places.
InPlace(m) ==
    /\ Len(m) <= Len(closed)
    /\ \A k \in 1 .. Len(m) : m[k].seg = k /\ m[k].n = closed[k] /\ m[k].prev = HeadAt(m, k - 1)
SegmentsStand ==
    /\ \A i \in 1 .. Len(closed) : closed[i] >= 1
    /\ InPlace(manifest)
    /\ \A p \in Passes : /\ at[p] \in {"open", "write"} => InPlace(seen[p])
                         /\ at[p] = "write" => manifest = <<>>

\* A pass that seals reaches every segment behind those it has yet to seal, and every one that the log
\* counts; once it has sealed, the manifest is as long as any line of the log asks.
Text(p) == IF at[p] = "seal" THEN manifest ELSE seen[p]
Reaches(p, n) == \A j \in 1 .. n : j <= Len(Text(p)) \/ j \in todo[p]
Lines == {anchorLog[i] : i \in {j \in DOMAIN anchorLog : anchorLog[j] # Unreadable}}
SealingReaches ==
    \A p \in Passes :
        /\ at[p] \in {"seal", "open", "write"} =>
              /\ \A i \in todo[p] : Reaches(p, i)
              /\ \A a \in Lines : Reaches(p, a.segments)
        /\ at[p] \in {"tail", "key", "create"} => \A a \in Lines : a.segments <= Len(manifest)

\* What is signed is of segments there are, under the key on file, and proved unless it failed.
SignedHead(c) ==
    /\ c.segments \in 0 .. Len(closed)
    /\ c.head = IF c.segments = 0 THEN Nothing ELSE <<c.segments, closed[c.segments]>>
SignedTail(c) ==
    c.tail # Nothing => c.tail[1] \in c.segments + 1 .. Len(closed) + 1 /\ c.tail[2] \in 1 .. Size(c.tail[1])
SignedStands ==
    /\ \A a \in Lines : /\ SignedHead(a) /\ SignedTail(a) /\ a.key = key /\ key # Nothing
                        /\ a.error \/ a.digest \in proofs
    /\ \A p \in Passes :
         /\ at[p] \in {"tail", "key", "create", "wait", "append"} => SignedHead(checkpoint[p])
         /\ at[p] \in {"key", "create", "wait", "append"} => SignedTail(checkpoint[p])
         /\ at[p] \in {"wait", "append"} => checkpoint[p].key = key /\ key # Nothing
         /\ at[p] = "append" /\ ok[p] => checkpoint[p].digest \in proofs
         /\ at[p] = "create" => key = Nothing
StandInv == Alone /\ lost = {} => SegmentsStand /\ SealingReaches /\ SignedStands

LEMMA LinesAre ==
    ASSUME AnchorTypes
    PROVE  /\ \A a \in Lines : a \in AnchorLines /\ a # Unreadable
           /\ \A i \in DOMAIN anchorLog : anchorLog[i] # Unreadable => anchorLog[i] \in Lines
  <1>1. \A i \in DOMAIN anchorLog : anchorLog[i] # Unreadable => anchorLog[i] \in AnchorLines  BY DEF AnchorTypes
  <1> QED  BY <1>1 DEF Lines

\* What an action makes of the readable lines.
LEMMA LinesOn ==
    ASSUME AnchorTypes
    PROVE  /\ anchorLog' = anchorLog => Lines' = Lines
           /\ anchorLog' = Append(anchorLog, Unreadable) => Lines' \subseteq Lines
           /\ \A p \in Passes : AnchorLine(p) \in AnchorLines /\ anchorLog' = Append(anchorLog, AnchorLine(p))
                => Lines' \subseteq Lines \cup {AnchorLine(p)}
  <1>1. anchorLog \in Seq(AnchorLines \cup {Unreadable})  BY DEF AnchorTypes
  <1>2. anchorLog' = anchorLog => Lines' = Lines  BY DEF Lines
  <1>3. ASSUME NEW a \in AnchorLines \cup {Unreadable}, anchorLog' = Append(anchorLog, a)
        PROVE  Lines' \subseteq Lines \cup ({a} \ {Unreadable})
    <2>1. \A i \in DOMAIN anchorLog' : \/ i \in DOMAIN anchorLog /\ anchorLog'[i] = anchorLog[i]
                                       \/ anchorLog'[i] = a
      BY <1>1, <1>3, LogGrows
    <2> QED  BY <2>1 DEF Lines
  <1>4. anchorLog' = Append(anchorLog, Unreadable) => Lines' \subseteq Lines  BY <1>3
  <1>5. ASSUME NEW p \in Passes, AnchorLine(p) \in AnchorLines, anchorLog' = Append(anchorLog, AnchorLine(p))
        PROVE  Lines' \subseteq Lines \cup {AnchorLine(p)}
    BY <1>3, <1>5
  <1> QED  BY <1>2, <1>4, <1>5

LEMMA InPlaceOn ==
    ASSUME NEW m, InPlace(m), Len(m) \in Nat, closed \in Seq(Int),
           Len(closed) <= Len(closed'), Len(closed') \in Nat, \A i \in 1 .. Len(closed) : closed'[i] = closed[i]
    PROVE  InPlace(m)'
  <1>1. \A k \in 1 .. Len(m) : k \in 1 .. Len(closed)  BY DEF InPlace
  <1>2. Len(m) <= Len(closed')  BY DEF InPlace
  <1>3. \A k \in 1 .. Len(m) : m[k].seg = k /\ m[k].n = closed'[k] /\ m[k].prev = HeadAt(m, k - 1)
    BY <1>1 DEF InPlace
  <1> QED  BY <1>2, <1>3 DEF InPlace

LEMMA InPlacePrefix ==
    ASSUME NEW s \in Seq(ManifestEntries), InPlace(s), NEW k \in 0 .. Len(s), closed \in Seq(Int)
    PROVE  InPlace(SubSeq(s, 1, k))
  <1>1. PICK m : m = SubSeq(s, 1, k)  OBVIOUS
  <1>2. Len(m) = k /\ Len(s) \in Nat /\ \A j \in 1 .. k : m[j] = s[j]  BY <1>1, BeginningIs
  <1>3. Len(closed) \in Nat  OBVIOUS
  <1>4. \A j \in 1 .. k : j \in 1 .. Len(s) /\ HeadAt(m, j - 1) = HeadAt(s, j - 1)
    <2>1. \A j \in 1 .. k : j \in 1 .. Len(s) /\ (j - 1 # 0 => j - 1 \in 1 .. k)  BY <1>2
    <2> QED  BY <1>2, <2>1 DEF HeadAt
  <1>5. \A j \in 1 .. Len(m) : m[j].seg = j /\ m[j].n = closed[j] /\ m[j].prev = HeadAt(m, j - 1)
    BY <1>2, <1>4 DEF InPlace
  <1>6. Len(m) <= Len(closed)  BY <1>2, <1>3 DEF InPlace
  <1> QED  BY <1>1, <1>5, <1>6 DEF InPlace

LEMMA InPlaceAppend ==
    ASSUME AnchorTypes, InPlace(manifest), NextEntry(Len(manifest) + 1) \in ManifestEntries,
           Len(manifest) + 1 <= Len(closed)
    PROVE  InPlace(Append(manifest, NextEntry(Len(manifest) + 1)))
  <1>0. /\ manifest \in Seq(ManifestEntries) /\ Len(manifest) \in Nat /\ closed \in Seq(Int) /\ Len(closed) \in Nat
    BY DEF AnchorTypes
  <1>1. PICK n \in Nat : n = Len(manifest)  BY <1>0
  <1>2. PICK e \in ManifestEntries : e = NextEntry(n + 1)  BY <1>1
  <1>3. e.seg = n + 1 /\ e.n = closed[n + 1] /\ e.prev = HeadAt(manifest, n)
    <2>1. Size(n + 1) = closed[n + 1]  BY <1>0, <1>1 DEF Size
    <2> QED  BY <1>1, <1>2, <2>1 DEF NextEntry
  <1>4. PICK m : m = Append(manifest, e)  OBVIOUS
  <1>5. Len(m) = n + 1 /\ m[n + 1] = e /\ \A j \in 1 .. n : m[j] = manifest[j]  BY <1>0, <1>1, <1>4
  <1>6. \A j \in 1 .. n + 1 : HeadAt(m, j - 1) = HeadAt(manifest, j - 1)
    <2>1. \A j \in 1 .. n + 1 : j - 1 # 0 => j - 1 \in 1 .. n  BY <1>1
    <2> QED  BY <1>5, <2>1 DEF HeadAt
  <1>7. ASSUME NEW j \in 1 .. n + 1
        PROVE  m[j].seg = j /\ m[j].n = closed[j] /\ m[j].prev = HeadAt(m, j - 1)
    <2>1. CASE j = n + 1
      <3>1. j - 1 = n  BY <1>1, <2>1
      <3> QED  BY <1>3, <1>5, <1>6, <2>1, <3>1
    <2>2. CASE j # n + 1
      <3>1. j \in 1 .. n  BY <1>1, <2>2
      <3> QED  BY <1>1, <1>5, <1>6, <3>1 DEF InPlace
    <2> QED  BY <2>1, <2>2
  <1>8. InPlace(m)  BY <1>1, <1>5, <1>7 DEF InPlace
  <1> QED  BY <1>1, <1>2, <1>4, <1>8

\* The oldest segment a pass has yet to seal is in the manifest, or it is the next one.
LEMMA SealsNext ==
    ASSUME AnchorTypes, EntriesNamed, SegmentsStand, SealingReaches, NEW p \in Passes, at[p] = "seal",
           NEW i \in todo[p], \A j \in todo[p] : i <= j
    PROVE  /\ Size(i) > 0 /\ i \in 1 .. Len(closed)
           /\ HasEntry(i) => i <= Len(manifest)
           /\ ~HasEntry(i) => i = Len(manifest) + 1
  <1>0. /\ manifest \in Seq(ManifestEntries) /\ Len(manifest) \in Nat /\ DOMAIN manifest = 1 .. Len(manifest)
        /\ closed \in Seq(Int) /\ Len(closed) \in Nat
    BY DEF AnchorTypes
  <1>1. i \in 1 .. Len(closed)  BY DEF EntriesNamed
  <1>2. Size(i) = closed[i] /\ closed[i] >= 1 /\ closed[i] \in Int  BY <1>0, <1>1 DEF Size, SegmentsStand
  <1>3. \A k \in 1 .. Len(manifest) : manifest[k].seg = k /\ manifest[k].n = closed[k]
    BY DEF SegmentsStand, InPlace
  <1>4. HasEntry(i) => i <= Len(manifest)  BY <1>0, <1>3 DEF HasEntry
  <1>5. ASSUME ~HasEntry(i) PROVE i = Len(manifest) + 1
    <2>1. i > Len(manifest)
      <3>1. SUFFICES ASSUME i <= Len(manifest) PROVE FALSE  BY <1>0, <1>1
      <3>2. i \in DOMAIN manifest  BY <1>0, <1>1, <3>1
      <3> QED  BY <1>0, <1>2, <1>3, <1>5, <3>2 DEF HasEntry
    <2>2. Len(manifest) + 1 \in 1 .. i  BY <1>0, <1>1, <2>1
    <2>3. Len(manifest) + 1 <= Len(manifest) \/ Len(manifest) + 1 \in todo[p]
      BY <2>2 DEF SealingReaches, Reaches, Text
    <2>4. Len(manifest) + 1 \in todo[p]  BY <1>0, <2>3
    <2> QED  BY <1>0, <1>1, <2>1, <2>4
  <1> QED  BY <1>1, <1>2, <1>4, <1>5

LEMMA SegmentsOn ==
    ASSUME SegmentsStand, closed' = closed, manifest' = manifest, seen' = seen,
           \A q \in Passes : at'[q] \in {"open", "write"} => at'[q] = at[q]
    PROVE  SegmentsStand'
  <1>1. \A m : InPlace(m)' <=> InPlace(m)  BY DEF InPlace
  <1>2. \A i \in 1 .. Len(closed') : closed'[i] >= 1  BY DEF SegmentsStand
  <1>3. InPlace(manifest)'  BY DEF SegmentsStand, InPlace
  <1>4. ASSUME NEW q \in Passes, at'[q] \in {"open", "write"} PROVE InPlace(seen[q])'
    <2>1. at[q] \in {"open", "write"}  BY <1>4
    <2>2. PICK s : s = seen[q]  OBVIOUS
    <2>3. InPlace(s)  BY <2>1, <2>2 DEF SegmentsStand
    <2>4. InPlace(s)' /\ seen'[q] = s  BY <1>1, <2>2, <2>3
    <2> QED  BY <2>4 DEF InPlace
  <1>5. \A q \in Passes : at'[q] = "write" => manifest' = <<>>  BY DEF SegmentsStand
  <1> QED  BY <1>2, <1>3, <1>4, <1>5 DEF SegmentsStand

LEMMA SegmentsContinue ==
    ASSUME PassesInv, Alone, lost = {}, SegmentsStand, SealingReaches, [AnchorNext]_anchorVars, lost' = {}
    PROVE  SegmentsStand'
  <1>0. AnchorTypes /\ Turns /\ EntriesNamed  BY DEF PassesInv
  <1>a. /\ manifest \in Seq(ManifestEntries) /\ Len(manifest) \in Nat /\ closed \in Seq(Int) /\ Len(closed) \in Nat
        /\ \A q \in Passes : seen[q] \in Seq(ManifestEntries) /\ Len(seen[q]) \in Nat
    BY <1>0 DEF AnchorTypes
  <1>m. \A m : closed' = closed => (InPlace(m)' <=> InPlace(m))  BY DEF InPlace
  <1>1. ASSUME NEW p \in Passes, Start(p) PROVE SegmentsStand'
    <2>1. at'[p] = "seal" /\ Others(p, at, at') /\ closed' = closed /\ manifest' = manifest /\ seen' = seen
      BY <1>0, <1>1, StartDoes
    <2> QED  BY <2>1, SegmentsOn DEF Others
  <1>2. ASSUME NEW p \in Passes, SealSegment(p) PROVE SegmentsStand'
    <2>0. 0 \notin todo[p]  BY <1>0 DEF EntriesNamed
    <2>1. at[p] = "seal" /\ manifest' = manifest /\ closed' = closed  BY <1>0, <1>2, <2>0, SealDoes
    <2>2. PICK i \in todo[p] :
             /\ \A j \in todo[p] : i <= j
             /\ \/ at' = at /\ seen' = seen
                \/ /\ ~HasEntry(i) /\ at'[p] = "open" /\ seen'[p] = Append(manifest, NextEntry(i))
                   /\ NextEntry(i) \in ManifestEntries
                   /\ Others(p, at, at') /\ Others(p, seen, seen')
      BY <1>0, <1>2, <2>0, SealDoes
    <2>3. CASE at' = at /\ seen' = seen  BY <2>1, <2>3, SegmentsOn
    <2>4. CASE /\ ~HasEntry(i) /\ at'[p] = "open" /\ seen'[p] = Append(manifest, NextEntry(i))
               /\ NextEntry(i) \in ManifestEntries
               /\ Others(p, at, at') /\ Others(p, seen, seen')
      <3>1. i = Len(manifest) + 1 /\ i <= Len(closed)
        <4>1. i \in 1 .. Len(closed) /\ i = Len(manifest) + 1  BY <1>0, <2>1, <2>2, <2>4, SealsNext
        <4> QED  BY <1>a, <4>1
      <3>2. PICK s : s = Append(manifest, NextEntry(i))  OBVIOUS
      <3>3. InPlace(manifest)  BY DEF SegmentsStand
      <3>4. InPlace(s)  BY <1>0, <2>4, <3>1, <3>2, <3>3, InPlaceAppend
      <3>5. InPlace(s)' /\ seen'[p] = s  BY <1>m, <2>1, <2>4, <3>2, <3>4
      <3>6. InPlace(seen[p])'  BY <3>5 DEF InPlace
      <3>7. ASSUME NEW q \in Passes, q # p PROVE at'[q] \notin {"open", "write"}
        <4>1. InStretch(p)  BY <2>1 DEF InStretch
        <4> QED  BY <2>4, <3>7, <4>1, OneStretch DEF Others
      <3>8. \A i2 \in 1 .. Len(closed') : closed'[i2] >= 1  BY <2>1 DEF SegmentsStand
      <3>9. InPlace(manifest)'  BY <2>1, <3>3 DEF InPlace
      <3> QED  BY <2>4, <3>6, <3>7, <3>8, <3>9 DEF SegmentsStand
    <2> QED  BY <2>2, <2>3, <2>4
  <1>3. ASSUME NEW p \in Passes, OpenManifest(p) PROVE SegmentsStand'
    <2>1. /\ at[p] = "open" /\ at'[p] = "write" /\ Others(p, at, at') /\ manifest' = <<>>
          /\ closed' = closed /\ seen' = seen
      BY <1>0, <1>3, OpenDoes
    <2>2. PICK s : s = seen[p]  OBVIOUS
    <2>3. InPlace(s)' /\ seen'[p] = s  BY <1>m, <2>1, <2>2 DEF SegmentsStand
    <2>4. InPlace(seen[p])'  BY <2>3 DEF InPlace
    <2>5. ASSUME NEW q \in Passes, q # p PROVE at'[q] \notin {"open", "write"}
      <3>1. InStretch(p)  BY <2>1 DEF InStretch
      <3> QED  BY <2>1, <2>5, <3>1, OneStretch DEF Others
    <2>6. InPlace(manifest)'
      <3>1. PICK e : e = <<>>  OBVIOUS
      <3>2. Len(e) = 0  BY <3>1
      <3>3. manifest' = e  BY <2>1, <3>1
      <3> QED  BY <1>a, <2>1, <3>2, <3>3 DEF InPlace
    <2>7. \A i \in 1 .. Len(closed') : closed'[i] >= 1  BY <2>1 DEF SegmentsStand
    <2> QED  BY <2>1, <2>4, <2>5, <2>6, <2>7 DEF SegmentsStand
  <1>4. ASSUME NEW p \in Passes, WriteManifest(p) PROVE SegmentsStand'
    <2>1. /\ at[p] = "write" /\ at'[p] = "seal" /\ Others(p, at, at') /\ closed' = closed
          /\ manifest' = seen[p] \o From(manifest, Len(seen[p]))
      BY <1>0, <1>4, WriteDoes
    <2>2. PICK s : s = seen[p]  OBVIOUS
    <2>3. InPlace(s)' /\ manifest = <<>>  BY <1>m, <2>1, <2>2 DEF SegmentsStand
    <2>4. manifest' = s
      <3>1. s \in Seq(ManifestEntries) /\ Len(s) \in Nat  BY <1>a, <2>2
      <3>2. PICK t : t = From(manifest, Len(s))  OBVIOUS
      <3>3. t = <<>> /\ t \in Seq(ManifestEntries)  BY <1>a, <2>3, <3>1, <3>2, FromEnd
      <3>4. manifest' = s \o t  BY <2>1, <2>2, <3>2
      <3> QED  BY <3>1, <3>3, <3>4, JoinedIs
    <2>5. ASSUME NEW q \in Passes PROVE at'[q] \notin {"open", "write"}
      <3>1. InStretch(p)  BY <2>1 DEF InStretch
      <3> QED  BY <2>1, <2>5, <3>1, OneStretch DEF Others
    <2>6. InPlace(manifest)'  BY <2>3, <2>4 DEF InPlace
    <2>7. \A i \in 1 .. Len(closed') : closed'[i] >= 1  BY <2>1 DEF SegmentsStand
    <2> QED  BY <2>5, <2>6, <2>7 DEF SegmentsStand
  <1>5. ASSUME NEW p \in Passes, NEW reached \in BOOLEAN,
               Checkpoint(p) \/ LiveTail(p) \/ LoadKey(p) \/ CreateKey(p) \/ Answer(p, reached) \/ AppendAnchor(p)
        PROVE  SegmentsStand'
    <2>1. /\ at'[p] \notin {"open", "write"} /\ Others(p, at, at')
          /\ closed' = closed /\ manifest' = manifest /\ seen' = seen
      BY <1>0, <1>5, CheckpointDoes, LiveTailDoes, LoadKeyDoes, CreateKeyDoes, AnswerDoes, AppendDoes
    <2> QED  BY <2>1, SegmentsOn DEF Others
  <1>6. ASSUME NEW p \in Passes, KillPass(p) PROVE SegmentsStand'
    <2>1. /\ at[p] # "idle" /\ closed' = closed
          /\ \/ manifest' = manifest
             \/ at[p] = "write" /\ \E k \in 0 .. Len(seen[p]) : manifest' = SubSeq(seen[p], 1, k)
          /\ \A q \in Passes : at'[q] \in {"idle", at[q]} /\ (ProcessOf[q] = ProcessOf[p] => at'[q] = "idle")
      BY <1>0, <1>6, KillDoes
    <2>2. \A q \in Passes : at'[q] = "idle"  BY <1>0, <2>1 DEF Alone, Turns
    <2>3. InPlace(manifest)'
      <3>1. CASE manifest' = manifest  BY <2>1, <3>1 DEF InPlace, SegmentsStand
      <3>2. CASE at[p] = "write" /\ \E k \in 0 .. Len(seen[p]) : manifest' = SubSeq(seen[p], 1, k)
        <4>1. PICK s \in Seq(ManifestEntries) : s = seen[p]  BY <1>a
        <4>2. PICK k \in 0 .. Len(s) : manifest' = SubSeq(s, 1, k)  BY <3>2, <4>1
        <4>3. InPlace(s)  BY <3>2, <4>1 DEF SegmentsStand
        <4>4. PICK t : t = SubSeq(s, 1, k)  OBVIOUS
        <4>5. InPlace(t)  BY <1>a, <4>3, <4>4, InPlacePrefix
        <4>6. InPlace(t)' /\ manifest' = t  BY <1>m, <2>1, <4>2, <4>4, <4>5
        <4> QED  BY <4>6 DEF InPlace
      <3> QED  BY <2>1, <3>1, <3>2
    <2>4. \A i \in 1 .. Len(closed') : closed'[i] >= 1  BY <2>1 DEF SegmentsStand
    <2> QED  BY <2>2, <2>3, <2>4 DEF SegmentsStand
  <1>7. ASSUME Record PROVE SegmentsStand'
    <2>1. closed' = closed /\ manifest' = manifest /\ seen' = seen /\ at' = at  BY <1>0, <1>7, RecordDoes
    <2> QED  BY <2>1, SegmentsOn
  <1>8. ASSUME Rotate PROVE SegmentsStand'
    <2>1. /\ live > 0 /\ live \in Int /\ closed' = Append(closed, live)
          /\ manifest' = manifest /\ seen' = seen /\ at' = at
      BY <1>0, <1>8, RotateDoes DEF AnchorTypes
    <2>2. /\ Len(closed') = Len(closed) + 1 /\ closed'[Len(closed) + 1] = live
          /\ \A i \in 1 .. Len(closed) : closed'[i] = closed[i]
      BY <1>a, <2>1
    <2>3. ASSUME NEW i \in 1 .. Len(closed') PROVE closed'[i] >= 1
      <3>1. CASE i \in 1 .. Len(closed)  BY <2>2, <3>1 DEF SegmentsStand
      <3>2. CASE i \notin 1 .. Len(closed)
        <4>1. i = Len(closed) + 1  BY <1>a, <2>2, <3>2
        <4> QED  BY <2>1, <2>2, <4>1
      <3> QED  BY <3>1, <3>2
    <2>4. Len(closed) <= Len(closed') /\ Len(closed') \in Nat  BY <1>a, <2>2
    <2>5. \A m : InPlace(m) /\ Len(m) \in Nat => InPlace(m)'  BY <1>a, <2>2, <2>4, InPlaceOn
    <2>6. InPlace(manifest)'
      <3>1. PICK m : m = manifest  OBVIOUS
      <3>2. InPlace(m)'  BY <1>a, <2>5, <3>1 DEF SegmentsStand
      <3> QED  BY <2>1, <3>1, <3>2 DEF InPlace
    <2>7. ASSUME NEW q \in Passes, at'[q] \in {"open", "write"} PROVE InPlace(seen[q])'
      <3>1. PICK m : m = seen[q]  OBVIOUS
      <3>2. at[q] \in {"open", "write"}  BY <2>1, <2>7
      <3>3. InPlace(m) /\ Len(m) \in Nat  BY <1>a, <3>1, <3>2 DEF SegmentsStand
      <3>4. InPlace(m)' /\ seen'[q] = m  BY <2>1, <2>5, <3>1, <3>3
      <3> QED  BY <3>4 DEF InPlace
    <2>8. \A q \in Passes : at'[q] = "write" => manifest' = <<>>  BY <2>1 DEF SegmentsStand
    <2> QED  BY <2>3, <2>6, <2>7, <2>8 DEF SegmentsStand
  <1>9. ASSUME NEW i \in DOMAIN closed, NEW n \in Gone .. 1, Damage(i, n) PROVE SegmentsStand'
    BY <1>0, <1>9, DamageDoes
  <1>b. ASSUME UNCHANGED anchorVars PROVE SegmentsStand'
    <2>1. closed' = closed /\ manifest' = manifest /\ seen' = seen /\ at' = at
      BY <1>b DEF anchorVars, disk, pass, bounds
    <2> QED  BY <2>1, SegmentsOn
  <1> QED  BY <1>1, <1>2, <1>3, <1>4, <1>5, <1>6, <1>7, <1>8, <1>9, <1>b DEF AnchorNext, Step

\* A step that seals nothing, and after which no pass seals that did not before.
LEMMA ReachesOn ==
    ASSUME SealingReaches, manifest' = manifest, Lines' \subseteq Lines,
           \A q \in Passes :
              \/ at'[q] = at[q] /\ todo'[q] = todo[q] /\ seen'[q] = seen[q]
              \/ at'[q] \in {"idle", "wait", "append"}
              \/ at[q] \in {"tail", "key", "create"} /\ at'[q] \in {"tail", "key", "create"}
    PROVE  SealingReaches'
  <1>1. ASSUME NEW q \in Passes, at'[q] \in {"seal", "open", "write"}
        PROVE  /\ \A i \in todo'[q] : Reaches(q, i)'
               /\ \A a \in Lines' : Reaches(q, a.segments)'
    <2>1. at'[q] = at[q] /\ todo'[q] = todo[q] /\ seen'[q] = seen[q]  BY <1>1
    <2>2. Text(q)' = Text(q)  BY <2>1 DEF Text
    <2>3. \A n : Reaches(q, n)' <=> Reaches(q, n)  BY <2>1, <2>2 DEF Reaches
    <2>4. /\ \A i \in todo[q] : Reaches(q, i)
          /\ \A a \in Lines : Reaches(q, a.segments)
      BY <1>1, <2>1 DEF SealingReaches
    <2>5. \A a \in Lines' : Reaches(q, a.segments)  BY <2>4
    <2> QED  BY <2>1, <2>3, <2>4, <2>5
  <1>2. ASSUME NEW q \in Passes, at'[q] \in {"tail", "key", "create"}
        PROVE  \A a \in Lines' : a.segments <= Len(manifest')
    <2>1. at[q] \in {"tail", "key", "create"}  BY <1>2
    <2> QED  BY <2>1 DEF SealingReaches
  <1> QED  BY <1>1, <1>2 DEF SealingReaches

LEMMA SealingContinues ==
    ASSUME PassesInv, Alone, lost = {}, SegmentsStand, SealingReaches, SignedStands,
           [AnchorNext]_anchorVars, lost' = {}
    PROVE  SealingReaches'
  <1>0. AnchorTypes /\ Turns /\ EntriesNamed  BY DEF PassesInv
  <1>a. /\ manifest \in Seq(ManifestEntries) /\ Len(manifest) \in Nat /\ closed \in Seq(Int) /\ Len(closed) \in Nat
        /\ \A q \in Passes : seen[q] \in Seq(ManifestEntries) /\ Len(seen[q]) \in Nat
    BY <1>0 DEF AnchorTypes
  <1>l. \A a \in Lines : a.segments \in Nat
    <2>1. \A a \in Lines : a \in AnchorLines  BY <1>0, LinesAre
    <2> QED  BY <2>1 DEF AnchorLines
  <1>q. ASSUME NEW p \in Passes, at[p] # "idle" \/ p \in setup.passes,
               \A q \in Passes : ProcessOf[q] = ProcessOf[p] => ~InStretch(q)
        PROVE  \A q \in Passes : ~InStretch(q)
    <2>1. SUFFICES ASSUME NEW q \in Passes PROVE ~InStretch(q)  OBVIOUS
    <2>2. CASE at[q] = "idle"  BY <2>2 DEF InStretch
    <2>3. CASE at[q] # "idle"
      <3>1. p \in setup.passes /\ q \in setup.passes  BY <1>0, <1>q, <2>3 DEF Turns
      <3> QED  BY <1>q, <3>1 DEF Alone
    <2> QED  BY <2>2, <2>3
  \* What is left to show where p alone is in a stretch.
  <1>p. ASSUME NEW p \in Passes, InStretch(p), Others(p, at, at'),
               at'[p] \in {"seal", "open", "write"} =>
                  /\ \A i \in todo'[p] : Reaches(p, i)'
                  /\ \A a \in Lines' : Reaches(p, a.segments)',
               at'[p] \in {"tail", "key", "create"} => \A a \in Lines' : a.segments <= Len(manifest')
        PROVE  SealingReaches'
    <2>1. \A q \in Passes : q # p => at'[q] \notin {"seal", "open", "write", "tail", "key", "create"}
      BY <1>p, OneStretch DEF Others
    <2> QED  BY <1>p, <2>1 DEF SealingReaches
  <1>1. ASSUME NEW p \in Passes, Start(p) PROVE SealingReaches'
    <2>1. /\ at[p] = "idle" /\ at'[p] = "seal" /\ p \in setup.passes
          /\ \A q \in Passes : ProcessOf[q] = ProcessOf[p] => ~InStretch(q)
          /\ todo'[p] = {i \in 1 .. Len(closed) : closed[i] > 0}
          /\ Others(p, at, at') /\ closed' = closed /\ manifest' = manifest /\ anchorLog' = anchorLog
      BY <1>0, <1>1, StartDoes
    <2>2. \A q \in Passes : q # p => at'[q] \notin {"seal", "open", "write", "tail", "key", "create"}
      BY <1>q, <2>1 DEF Others, InStretch
    <2>3. todo'[p] = 1 .. Len(closed)
      <3>1. \A i \in 1 .. Len(closed) : closed[i] \in Int /\ closed[i] >= 1  BY <1>a DEF SegmentsStand
      <3> QED  BY <2>1, <3>1
    <2>4. \A n \in 0 .. Len(closed) : Reaches(p, n)'
      <3>1. \A n \in 0 .. Len(closed) : \A j \in 1 .. n : j \in 1 .. Len(closed)  BY <1>a
      <3> QED  BY <2>3, <3>1 DEF Reaches
    <2>5. \A i \in todo'[p] : Reaches(p, i)'  BY <1>a, <2>3, <2>4
    <2>6. \A a \in Lines' : Reaches(p, a.segments)'
      <3>1. \A a \in Lines : a.segments \in 0 .. Len(closed)  BY DEF SignedStands, SignedHead
      <3>2. Lines' = Lines  BY <1>0, <2>1, LinesOn
      <3> QED  BY <2>4, <3>1, <3>2
    <2> QED  BY <2>1, <2>2, <2>5, <2>6 DEF SealingReaches
  <1>2. ASSUME NEW p \in Passes, SealSegment(p) PROVE SealingReaches'
    <2>0. 0 \notin todo[p]  BY <1>0 DEF EntriesNamed
    <2>1. /\ at[p] = "seal" /\ manifest' = manifest /\ anchorLog' = anchorLog
      BY <1>0, <1>2, <2>0, SealDoes
    <2>2. PICK i \in todo[p] :
             /\ \A j \in todo[p] : i <= j
             /\ todo'[p] = todo[p] \ {i} /\ Others(p, todo, todo')
             /\ \/ (Size(i) <= 0 \/ HasEntry(i)) /\ at' = at /\ seen' = seen
                \/ /\ ~HasEntry(i) /\ at'[p] = "open" /\ seen'[p] = Append(manifest, NextEntry(i))
                   /\ NextEntry(i) \in ManifestEntries
                   /\ Others(p, at, at') /\ Others(p, seen, seen')
      BY <1>0, <1>2, <2>0, SealDoes
    <2>3. /\ Size(i) > 0 /\ i \in 1 .. Len(closed)
          /\ HasEntry(i) => i <= Len(manifest)
          /\ ~HasEntry(i) => i = Len(manifest) + 1
      BY <1>0, <2>1, <2>2, SealsNext
    <2>s. Size(i) \in Int  BY <1>0, <1>a, <2>3, SummaryIs
    <2>4. /\ at'[p] \in {"seal", "open"} /\ Others(p, at, at')
          /\ Len(manifest) <= Len(Text(p)') /\ i <= Len(Text(p)') /\ Len(Text(p)') \in Nat
      <3>1. CASE (Size(i) <= 0 \/ HasEntry(i)) /\ at' = at /\ seen' = seen
        <4>1. Text(p)' = manifest  BY <2>1, <3>1 DEF Text
        <4> QED  BY <1>a, <2>1, <2>3, <2>s, <3>1, <4>1 DEF Others
      <3>2. CASE /\ ~HasEntry(i) /\ at'[p] = "open" /\ seen'[p] = Append(manifest, NextEntry(i))
                 /\ NextEntry(i) \in ManifestEntries
                 /\ Others(p, at, at') /\ Others(p, seen, seen')
        <4>1. Text(p)' = Append(manifest, NextEntry(i))  BY <3>2 DEF Text
        <4>2. Len(Append(manifest, NextEntry(i))) = Len(manifest) + 1  BY <1>a, <3>2
        <4> QED  BY <1>a, <2>3, <3>2, <4>1, <4>2
      <3> QED  BY <2>2, <3>1, <3>2
    <2>5. ASSUME NEW n \in Nat, Reaches(p, n) PROVE Reaches(p, n)'
      <3>1. Text(p) = manifest  BY <2>1 DEF Text
      <3>2. ASSUME NEW j \in 1 .. n PROVE j <= Len(Text(p)') \/ j \in todo'[p]
        <4>1. j <= Len(manifest) \/ j \in todo[p]  BY <2>5, <3>1, <3>2 DEF Reaches
        <4>2. CASE j <= Len(manifest)  BY <1>a, <2>4, <4>2
        <4>3. CASE j \in todo[p]  BY <2>2, <2>4, <4>3
        <4> QED  BY <4>1, <4>2, <4>3
      <3> QED  BY <3>2 DEF Reaches
    <2>6. \A j \in todo'[p] : Reaches(p, j)'
      <3>1. \A j \in todo[p] : j \in Nat /\ Reaches(p, j)  BY <1>a, <1>0, <2>1 DEF EntriesNamed, SealingReaches
      <3> QED  BY <2>2, <2>5, <3>1
    <2>7. \A a \in Lines' : Reaches(p, a.segments)'
      <3>1. \A a \in Lines : Reaches(p, a.segments)  BY <2>1 DEF SealingReaches
      <3>2. Lines' = Lines  BY <1>0, <2>1, LinesOn
      <3> QED  BY <1>l, <2>5, <3>1, <3>2
    <2>8. InStretch(p)  BY <2>1 DEF InStretch
    <2> QED  BY <1>p, <2>4, <2>6, <2>7, <2>8
  <1>3. ASSUME NEW p \in Passes, OpenManifest(p) \/ WriteManifest(p) PROVE SealingReaches'
    <2>1. /\ at[p] \in {"open", "write"} /\ at'[p] \in {"write", "seal"} /\ Others(p, at, at')
          /\ anchorLog' = anchorLog /\ todo' = todo
      BY <1>0, <1>3, OpenDoes, WriteDoes
    <2>2. Text(p)' = Text(p)
      <3>1. CASE OpenManifest(p)
        <4>1. at[p] = "open" /\ at'[p] = "write" /\ seen' = seen  BY <1>0, <3>1, OpenDoes
        <4> QED  BY <4>1 DEF Text
      <3>2. CASE WriteManifest(p)
        <4>1. /\ at[p] = "write" /\ at'[p] = "seal" /\ manifest' = seen[p] \o From(manifest, Len(seen[p]))
          BY <1>0, <3>2, WriteDoes
        <4>2. PICK s : s = seen[p]  OBVIOUS
        <4>3. s \in Seq(ManifestEntries) /\ Len(s) \in Nat  BY <1>a, <4>2
        <4>4. PICK t : t = From(manifest, Len(s))  OBVIOUS
        <4>5. t = <<>> /\ t \in Seq(ManifestEntries)  BY <1>a, <4>1, <4>3, <4>4, FromEnd DEF SegmentsStand
        <4>6. manifest' = s  BY <4>1, <4>2, <4>3, <4>4, <4>5, JoinedIs
        <4> QED  BY <4>1, <4>2, <4>6 DEF Text
      <3> QED  BY <1>3, <3>1, <3>2
    <2>3. \A n : Reaches(p, n)' <=> Reaches(p, n)  BY <2>1, <2>2 DEF Reaches
    <2>4. Lines' = Lines  BY <1>0, <2>1, LinesOn
    <2>5. /\ \A i \in todo'[p] : Reaches(p, i)'
          /\ \A a \in Lines' : Reaches(p, a.segments)'
      BY <2>1, <2>3, <2>4 DEF SealingReaches
    <2>6. InStretch(p)  BY <2>1 DEF InStretch
    <2> QED  BY <1>p, <2>1, <2>5, <2>6
  <1>4. ASSUME NEW p \in Passes, Checkpoint(p) PROVE SealingReaches'
    <2>1. /\ at[p] = "seal" /\ at'[p] = "tail" /\ Others(p, at, at') /\ todo[p] = {}
          /\ anchorLog' = anchorLog /\ manifest' = manifest
      BY <1>0, <1>4, CheckpointDoes
    <2>2. ASSUME NEW a \in Lines PROVE a.segments <= Len(manifest)
      <3>1. Text(p) = manifest /\ Reaches(p, a.segments)  BY <2>1 DEF Text, SealingReaches
      <3>2. \A j \in 1 .. a.segments : j <= Len(manifest)  BY <2>1, <3>1 DEF Reaches
      <3>3. a.segments \in Nat  BY <1>l
      <3> QED  BY <1>a, <3>2, <3>3
    <2>3. Lines' = Lines  BY <1>0, <2>1, LinesOn
    <2>4. InStretch(p)  BY <2>1 DEF InStretch
    <2> QED  BY <1>p, <2>1, <2>2, <2>3, <2>4
  <1>5. ASSUME NEW p \in Passes, LiveTail(p) \/ LoadKey(p) \/ CreateKey(p) PROVE SealingReaches'
    <2>1. /\ at[p] \in {"tail", "key", "create"} /\ at'[p] \in {"idle", "key", "create", "wait"}
          /\ Others(p, at, at') /\ todo' = todo /\ seen' = seen
          /\ anchorLog' = anchorLog /\ manifest' = manifest
      BY <1>0, <1>5, LiveTailDoes, LoadKeyDoes, CreateKeyDoes
    <2>2. Lines' = Lines  BY <1>0, <2>1, LinesOn
    <2> QED  BY <2>1, <2>2, ReachesOn DEF Others
  <1>6. ASSUME NEW p \in Passes, NEW reached \in BOOLEAN, Answer(p, reached) \/ AppendAnchor(p)
        PROVE  SealingReaches'
    <2>1. /\ at[p] # "idle" /\ at'[p] \in {"idle", "append"} /\ Others(p, at, at')
          /\ \A q \in Passes : ProcessOf[q] = ProcessOf[p] => ~InStretch(q)
      BY <1>0, <1>6, AnswerDoes, AppendDoes
    <2>2. \A q \in Passes : at'[q] \notin {"seal", "open", "write", "tail", "key", "create"}
      BY <1>q, <2>1 DEF Others, InStretch
    <2> QED  BY <2>2 DEF SealingReaches
  <1>7. ASSUME NEW p \in Passes, KillPass(p) PROVE SealingReaches'
    <2>1. /\ at[p] # "idle"
          /\ \A q \in Passes : at'[q] \in {"idle", at[q]} /\ (ProcessOf[q] = ProcessOf[p] => at'[q] = "idle")
      BY <1>0, <1>7, KillDoes
    <2>2. \A q \in Passes : at'[q] = "idle"  BY <1>0, <2>1 DEF Alone, Turns
    <2> QED  BY <2>2 DEF SealingReaches
  <1>8. ASSUME UNCHANGED <<manifest, anchorLog, at, todo, seen>> PROVE SealingReaches'
    <2>1. Lines' = Lines  BY <1>0, <1>8, LinesOn
    <2> QED  BY <1>8, <2>1, ReachesOn
  <1>9. ASSUME Record PROVE SealingReaches'  BY <1>0, <1>8, <1>9, RecordDoes
  <1>b. ASSUME Rotate PROVE SealingReaches'  BY <1>0, <1>8, <1>b, RotateDoes
  <1>c. ASSUME NEW i \in DOMAIN closed, NEW n \in Gone .. 1, Damage(i, n) PROVE SealingReaches'
    BY <1>0, <1>c, DamageDoes
  <1>d. ASSUME UNCHANGED anchorVars PROVE SealingReaches'
    BY <1>8, <1>d DEF anchorVars, disk, pass, bounds
  <1> QED  BY <1>1, <1>2, <1>3, <1>4, <1>5, <1>6, <1>7, <1>9, <1>b, <1>c, <1>d DEF AnchorNext, Step

\* Files that grow or rotate hold what was signed of them.
LEMMA SignedOn ==
    ASSUME NEW c, closed \in Seq(Int), live \in Nat,
           \/ closed' = closed /\ live' \in Nat /\ live <= live'
           \/ closed' = Append(closed, live)
    PROVE  /\ c.segments \in Nat /\ SignedHead(c) => SignedHead(c)'
           /\ c.tail[2] \in Nat /\ c.segments \in Nat /\ SignedTail(c) => SignedTail(c)'
  <1>1. Len(closed) \in Nat /\ \A i \in 1 .. Len(closed) : closed[i] \in Int  OBVIOUS
  <1>2. /\ Len(closed) <= Len(closed') /\ Len(closed') \in Nat
        /\ \A i \in 1 .. Len(closed) : closed'[i] = closed[i]
        /\ closed' # closed => Len(closed') = Len(closed) + 1 /\ closed'[Len(closed) + 1] = live
    <2>1. CASE closed' = closed  BY <1>1, <2>1
    <2>2. CASE closed' = Append(closed, live)  BY <1>1, <2>2
    <2> QED  BY <2>1, <2>2
  <1>3. \A i \in 1 .. Len(closed) + 1 : Size(i) \in Int /\ Size(i)' \in Int /\ Size(i) <= Size(i)'
    <2>1. SUFFICES ASSUME NEW i \in 1 .. Len(closed) + 1
                   PROVE  Size(i) \in Int /\ Size(i)' \in Int /\ Size(i) <= Size(i)'
      OBVIOUS
    <2>2. CASE i \in 1 .. Len(closed)
      <3>1. Size(i) = closed[i] /\ Size(i)' = closed'[i]  BY <1>1, <1>2, <2>2 DEF Size
      <3> QED  BY <1>1, <1>2, <2>2, <3>1
    <2>3. CASE i \notin 1 .. Len(closed)
      <3>1. i = Len(closed) + 1  BY <1>1, <2>3
      <3>2. Size(i) = live  BY <1>1, <3>1 DEF Size
      <3>3. CASE closed' = closed
        <4>1. Size(i)' = live'  BY <1>1, <3>1, <3>3 DEF Size
        <4> QED  BY <3>2, <3>3, <4>1
      <3>4. CASE closed' # closed
        <4>1. Size(i)' = live  BY <1>1, <1>2, <3>1, <3>4 DEF Size
        <4> QED  BY <3>2, <4>1
      <3> QED  BY <3>3, <3>4
    <2> QED  BY <2>2, <2>3
  <1>4. ASSUME c.segments \in Nat, SignedHead(c) PROVE SignedHead(c)'
    <2>1. c.segments \in 0 .. Len(closed')  BY <1>1, <1>2, <1>4 DEF SignedHead
    <2>2. c.segments # 0 => closed'[c.segments] = closed[c.segments]
      <3>1. c.segments # 0 => c.segments \in 1 .. Len(closed)  BY <1>1, <1>4 DEF SignedHead
      <3> QED  BY <1>2, <3>1
    <2> QED  BY <1>4, <2>1, <2>2 DEF SignedHead
  <1>5. ASSUME c.tail[2] \in Nat, c.segments \in Nat, SignedTail(c), c.tail # Nothing
        PROVE  c.tail[1] \in c.segments + 1 .. Len(closed') + 1 /\ c.tail[2] \in 1 .. Size(c.tail[1])'
    <2>1. c.tail[1] \in c.segments + 1 .. Len(closed) + 1 /\ c.tail[2] \in 1 .. Size(c.tail[1])
      BY <1>5 DEF SignedTail
    <2>2. c.tail[1] \in 1 .. Len(closed) + 1  BY <1>1, <1>5, <2>1
    <2> QED  BY <1>1, <1>2, <1>3, <1>5, <2>1, <2>2
  <1>6. c.tail[2] \in Nat /\ c.segments \in Nat /\ SignedTail(c) => SignedTail(c)'
    BY <1>5 DEF SignedTail
  <1> QED  BY <1>4, <1>6

LEMMA SignedContinues ==
    ASSUME PassesInv, Alone, lost = {}, SegmentsStand, SealingReaches, SignedStands,
           [AnchorNext]_anchorVars, lost' = {}
    PROVE  SignedStands'
  <1>0. AnchorTypes /\ Turns /\ EntriesNamed  BY DEF PassesInv
  <1>a. /\ manifest \in Seq(ManifestEntries) /\ Len(manifest) \in Nat /\ closed \in Seq(Int) /\ Len(closed) \in Nat
        /\ live \in Nat
    BY <1>0 DEF AnchorTypes
  <1>l. \A a \in Lines : a.segments \in Nat /\ (a.tail # Nothing => a.tail[2] \in Nat)
    <2>1. SUFFICES ASSUME NEW a \in Lines PROVE a.segments \in Nat /\ (a.tail # Nothing => a.tail[2] \in Nat)
      OBVIOUS
    <2>2. a \in AnchorLines  BY <1>0, LinesAre
    <2>3. a.segments \in Nat /\ a.tail \in Heads  BY <2>2 DEF AnchorLines
    <2> QED  BY <2>3 DEF Heads, Marks
  <1>c. \A q \in Passes : /\ checkpoint[q].segments \in Nat
                          /\ checkpoint[q].tail # Nothing => checkpoint[q].tail[2] \in Nat
    <2>1. SUFFICES ASSUME NEW q \in Passes
                   PROVE  /\ checkpoint[q].segments \in Nat
                          /\ checkpoint[q].tail # Nothing => checkpoint[q].tail[2] \in Nat
      OBVIOUS
    <2>2. checkpoint[q] \in Checkpoints  BY <1>0 DEF AnchorTypes
    <2>3. checkpoint[q].segments \in Nat /\ checkpoint[q].tail \in Heads  BY <2>2 DEF Checkpoints
    <2> QED  BY <2>3 DEF Heads, Marks
  \* What is left to show of a step of pass p that leaves the files alone.
  <1>p. ASSUME NEW p \in Passes, closed' = closed, live' = live, key' = key, proofs \subseteq proofs',
               Lines' \subseteq Lines, Others(p, at, at'), Others(p, checkpoint, checkpoint'), Others(p, ok, ok'),
               at'[p] \in {"tail", "key", "create", "wait", "append"} => SignedHead(checkpoint'[p]),
               at'[p] \in {"key", "create", "wait", "append"} => SignedTail(checkpoint'[p]),
               at'[p] \in {"wait", "append"} => checkpoint'[p].key = key /\ key # Nothing,
               at'[p] = "append" /\ ok'[p] => checkpoint'[p].digest \in proofs',
               at'[p] = "create" => key = Nothing
        PROVE  SignedStands'
    <2>1. \A c : (SignedHead(c)' <=> SignedHead(c)) /\ (SignedTail(c)' <=> SignedTail(c))
      BY <1>p DEF SignedHead, SignedTail, Size
    <2>2. \A a \in Lines' : /\ SignedHead(a)' /\ SignedTail(a)' /\ a.key = key' /\ key' # Nothing
                            /\ a.error \/ a.digest \in proofs'
      BY <1>p, <2>1 DEF SignedStands
    <2>3. ASSUME NEW q \in Passes
          PROVE  /\ at'[q] \in {"tail", "key", "create", "wait", "append"} => SignedHead(checkpoint'[q])
                 /\ at'[q] \in {"key", "create", "wait", "append"} => SignedTail(checkpoint'[q])
                 /\ at'[q] \in {"wait", "append"} => checkpoint'[q].key = key /\ key # Nothing
                 /\ at'[q] = "append" /\ ok'[q] => checkpoint'[q].digest \in proofs'
                 /\ at'[q] = "create" => key = Nothing
      <3>1. CASE q = p  BY <1>p, <3>1
      <3>2. CASE q # p
        <4>1. at'[q] = at[q] /\ checkpoint'[q] = checkpoint[q] /\ ok'[q] = ok[q]  BY <1>p, <3>2 DEF Others
        <4> QED  BY <1>p, <4>1 DEF SignedStands
      <3> QED  BY <3>1, <3>2
    <2>4. ASSUME NEW q \in Passes
          PROVE  /\ at'[q] \in {"tail", "key", "create", "wait", "append"} => SignedHead(checkpoint[q])'
                 /\ at'[q] \in {"key", "create", "wait", "append"} => SignedTail(checkpoint[q])'
      <3>1. PICK c : c = checkpoint'[q]  OBVIOUS
      <3>2. SignedHead(c)' <=> SignedHead(checkpoint[q])'  BY <3>1 DEF SignedHead
      <3>3. SignedTail(c)' <=> SignedTail(checkpoint[q])'  BY <3>1 DEF SignedTail, Size
      <3> QED  BY <2>1, <2>3, <3>1, <3>2, <3>3
    <2> QED  BY <1>p, <2>2, <2>3, <2>4 DEF SignedStands
  <1>1. ASSUME NEW p \in Passes, Start(p) PROVE SignedStands'
    <2>1. /\ at'[p] = "seal" /\ Others(p, at, at') /\ Others(p, checkpoint, checkpoint')
          /\ UNCHANGED <<live, closed, key, anchorLog, proofs, ok>>
      BY <1>0, <1>1, StartDoes
    <2>2. Lines' = Lines /\ Others(p, ok, ok')  BY <1>0, <2>1, LinesOn DEF Others
    <2> QED  BY <1>p, <2>1, <2>2
  <1>2. ASSUME NEW p \in Passes, SealSegment(p) \/ OpenManifest(p) \/ WriteManifest(p) PROVE SignedStands'
    <2>0. 0 \notin todo[p]  BY <1>0 DEF EntriesNamed
    <2>1. /\ at'[p] \in {"seal", "open", "write"} /\ Others(p, at, at')
          /\ UNCHANGED <<live, closed, key, anchorLog, proofs, ok, checkpoint>>
      <3>1. CASE SealSegment(p)  BY <1>0, <2>0, <3>1, SealDoes DEF Others
      <3>2. CASE OpenManifest(p)  BY <1>0, <3>2, OpenDoes
      <3>3. CASE WriteManifest(p)  BY <1>0, <3>3, WriteDoes
      <3> QED  BY <1>2, <3>1, <3>2, <3>3
    <2>2. Lines' = Lines /\ Others(p, ok, ok') /\ Others(p, checkpoint, checkpoint')
      BY <1>0, <2>1, LinesOn DEF Others
    <2> QED  BY <1>p, <2>1, <2>2
  <1>3. ASSUME NEW p \in Passes, Checkpoint(p) PROVE SignedStands'
    <2>1. /\ at'[p] = "tail" /\ Others(p, at, at') /\ Others(p, checkpoint, checkpoint')
          /\ checkpoint'[p].segments = Len(manifest)
          /\ checkpoint'[p].head = HeadAt(manifest, Len(manifest))
          /\ UNCHANGED <<live, closed, key, anchorLog, proofs, ok>>
      BY <1>0, <1>3, CheckpointDoes
    <2>2. Lines' = Lines /\ Others(p, ok, ok')  BY <1>0, <2>1, LinesOn DEF Others
    <2>3. SignedHead(checkpoint'[p])
      <3>1. PICK n \in Nat : n = Len(manifest)  BY <1>a
      <3>2. n <= Len(closed) /\ (n # 0 => manifest[n].seg = n /\ manifest[n].n = closed[n])
        BY <1>a, <3>1 DEF SegmentsStand, InPlace
      <3>3. HeadAt(manifest, n) = IF n = 0 THEN Nothing ELSE <<n, closed[n]>>  BY <3>2 DEF HeadAt, Final
      <3> QED  BY <1>a, <2>1, <3>1, <3>2, <3>3 DEF SignedHead
    <2> QED  BY <1>p, <2>1, <2>2, <2>3
  <1>4. ASSUME NEW p \in Passes, LiveTail(p) PROVE SignedStands'
    <2>1. /\ at[p] = "tail" /\ at'[p] \in {"idle", "key"} /\ Others(p, at, at') /\ Others(p, checkpoint, checkpoint')
          /\ checkpoint'[p].segments = checkpoint[p].segments
          /\ checkpoint'[p].head = checkpoint[p].head
          /\ checkpoint'[p].tail = IF live > 0 THEN <<Len(closed) + 1, live>> ELSE Nothing
          /\ UNCHANGED <<live, closed, key, anchorLog, proofs, ok>>
      BY <1>0, <1>4, LiveTailDoes
    <2>2. Lines' = Lines /\ Others(p, ok, ok')  BY <1>0, <2>1, LinesOn DEF Others
    <2>3. SignedHead(checkpoint[p])  BY <2>1 DEF SignedStands
    <2>4. SignedHead(checkpoint'[p])  BY <2>1, <2>3 DEF SignedHead
    <2>5. SignedTail(checkpoint'[p])
      <3>1. CASE live > 0
        <4>1. checkpoint'[p].tail = <<Len(closed) + 1, live>>  BY <2>1, <3>1
        <4>2. Size(Len(closed) + 1) = live  BY <1>a DEF Size
        <4>3. Len(closed) + 1 \in checkpoint'[p].segments + 1 .. Len(closed) + 1
          BY <1>a, <2>1, <2>3 DEF SignedHead
        <4> QED  BY <1>a, <3>1, <4>1, <4>2, <4>3 DEF SignedTail
      <3>2. CASE ~(live > 0)  BY <2>1, <3>2 DEF SignedTail
      <3> QED  BY <3>1, <3>2
    <2> QED  BY <1>p, <2>1, <2>2, <2>4, <2>5
  <1>5. ASSUME NEW p \in Passes, LoadKey(p) PROVE SignedStands'
    <2>1. /\ at[p] = "key" /\ Others(p, at, at') /\ Others(p, checkpoint, checkpoint')
          /\ \/ at'[p] = "create" /\ key = Nothing
             \/ at'[p] = "idle"
             \/ at'[p] = "wait" /\ key # Nothing
          /\ checkpoint'[p].segments = checkpoint[p].segments
          /\ checkpoint'[p].head = checkpoint[p].head /\ checkpoint'[p].tail = checkpoint[p].tail
          /\ checkpoint'[p].key = key
          /\ UNCHANGED <<live, closed, key, anchorLog, proofs, ok>>
      BY <1>0, <1>5, LoadKeyDoes
    <2>2. Lines' = Lines /\ Others(p, ok, ok')  BY <1>0, <2>1, LinesOn DEF Others
    <2>3. SignedHead(checkpoint[p]) /\ SignedTail(checkpoint[p])  BY <2>1 DEF SignedStands
    <2>4. SignedHead(checkpoint'[p]) /\ SignedTail(checkpoint'[p])  BY <2>1, <2>3 DEF SignedHead, SignedTail
    <2> QED  BY <1>p, <2>1, <2>2, <2>4
  <1>6. ASSUME NEW p \in Passes, CreateKey(p) PROVE SignedStands'
    <2>1. /\ at[p] = "create" /\ at'[p] = "wait" /\ Others(p, at, at') /\ Others(p, checkpoint, checkpoint')
          /\ checkpoint'[p].segments = checkpoint[p].segments
          /\ checkpoint'[p].head = checkpoint[p].head /\ checkpoint'[p].tail = checkpoint[p].tail
          /\ checkpoint'[p].key = p /\ key' = p
          /\ UNCHANGED <<live, closed, anchorLog, proofs, ok>>
      BY <1>0, <1>6, CreateKeyDoes
    <2>2. key = Nothing /\ key' # Nothing  BY <2>1, SetupAssumption DEF SignedStands
    <2>3. Lines = {} /\ \A q \in Passes : at[q] \notin {"wait", "append"}  BY <2>2 DEF SignedStands
    <2>4. Lines' = {}  BY <1>0, <2>1, <2>3, LinesOn
    <2>5. SignedHead(checkpoint[p]) /\ SignedTail(checkpoint[p])  BY <2>1 DEF SignedStands
    <2>6. InStretch(p)  BY <2>1 DEF InStretch
    <2>7. \A q \in Passes : q # p => at'[q] \notin {"tail", "key", "create", "wait", "append"}
      BY <2>1, <2>3, <2>6, OneStretch DEF Others
    <2>8. SignedHead(checkpoint[p])' /\ SignedTail(checkpoint[p])'
      BY <2>1, <2>5 DEF SignedHead, SignedTail, Size
    <2> QED  BY <2>1, <2>2, <2>4, <2>7, <2>8 DEF SignedStands
  <1>7. ASSUME NEW p \in Passes, NEW reached \in BOOLEAN, Answer(p, reached) PROVE SignedStands'
    <2>1. /\ at[p] = "wait" /\ at'[p] = "append" /\ Others(p, at, at') /\ Others(p, ok, ok')
          /\ proofs \subseteq proofs' /\ (ok'[p] => checkpoint[p].digest \in proofs')
          /\ UNCHANGED <<live, closed, key, anchorLog, checkpoint>>
      BY <1>0, <1>7, AnswerDoes
    <2>2. Lines' = Lines /\ Others(p, checkpoint, checkpoint')  BY <1>0, <2>1, LinesOn DEF Others
    <2>3. /\ SignedHead(checkpoint'[p]) /\ SignedTail(checkpoint'[p])
          /\ checkpoint'[p].key = key /\ key # Nothing
      BY <2>1 DEF SignedStands
    <2> QED  BY <1>p, <2>1, <2>2, <2>3
  <1>8. ASSUME NEW p \in Passes, AppendAnchor(p) PROVE SignedStands'
    <2>1. /\ at[p] = "append" /\ at'[p] = "idle" /\ Others(p, at, at')
          /\ \/ anchorLog' = anchorLog
             \/ anchorLog' = Append(anchorLog, AnchorLine(p))
          /\ AnchorLine(p) \in AnchorLines
          /\ UNCHANGED <<live, closed, key, proofs, checkpoint, ok>>
      BY <1>0, <1>8, AppendDoes
    <2>2. Lines' \subseteq Lines \cup {AnchorLine(p)}  BY <1>0, <2>1, LinesOn
    <2>3. PICK a : a = AnchorLine(p)  OBVIOUS
    <2>4. /\ a.segments = checkpoint[p].segments /\ a.head = checkpoint[p].head /\ a.tail = checkpoint[p].tail
          /\ a.key = checkpoint[p].key /\ a.error = ~ok[p] /\ a.digest = checkpoint[p].digest
      BY <2>3 DEF AnchorLine
    <2>5. /\ SignedHead(checkpoint[p]) /\ SignedTail(checkpoint[p])
          /\ checkpoint[p].key = key /\ key # Nothing /\ (ok[p] => checkpoint[p].digest \in proofs)
      BY <2>1 DEF SignedStands
    <2>6. /\ SignedHead(a) /\ SignedTail(a) /\ a.key = key /\ key # Nothing
          /\ a.error \/ a.digest \in proofs
      BY <2>4, <2>5 DEF SignedHead, SignedTail
    <2>7. \A b \in Lines' : /\ SignedHead(b) /\ SignedTail(b) /\ b.key = key /\ key # Nothing
                            /\ b.error \/ b.digest \in proofs
      BY <2>2, <2>3, <2>6 DEF SignedStands
    <2>8. \A c : (SignedHead(c)' <=> SignedHead(c)) /\ (SignedTail(c)' <=> SignedTail(c))
      BY <2>1 DEF SignedHead, SignedTail, Size
    <2>9. \A q \in Passes : at'[q] # "idle" => at'[q] = at[q]  BY <2>1 DEF Others
    <2>b. ASSUME NEW q \in Passes
          PROVE  /\ at'[q] \in {"tail", "key", "create", "wait", "append"} => SignedHead(checkpoint[q])'
                 /\ at'[q] \in {"key", "create", "wait", "append"} => SignedTail(checkpoint[q])'
      <3>1. PICK c : c = checkpoint[q]  OBVIOUS
      <3>2. /\ at'[q] \in {"tail", "key", "create", "wait", "append"} => SignedHead(c)
            /\ at'[q] \in {"key", "create", "wait", "append"} => SignedTail(c)
        BY <2>9, <3>1 DEF SignedStands
      <3>3. (SignedHead(c)' <=> SignedHead(checkpoint[q])') /\ (SignedTail(c)' <=> SignedTail(checkpoint[q])')
        BY <2>1, <3>1 DEF SignedHead, SignedTail, Size
      <3> QED  BY <2>8, <3>2, <3>3
    <2> QED  BY <2>1, <2>7, <2>8, <2>9, <2>b DEF SignedStands
  <1>9. ASSUME NEW p \in Passes, KillPass(p) PROVE SignedStands'
    <2>1. /\ at[p] # "idle" /\ closed' = closed /\ live' = live /\ proofs' = proofs
          /\ key' = key \/ at[p] = "create"
          /\ anchorLog' = anchorLog \/ anchorLog' = Append(anchorLog, Unreadable)
          /\ \A q \in Passes : at'[q] \in {"idle", at[q]} /\ (ProcessOf[q] = ProcessOf[p] => at'[q] = "idle")
      BY <1>0, <1>9, KillDoes
    <2>2. \A q \in Passes : at'[q] = "idle"  BY <1>0, <2>1 DEF Alone, Turns
    <2>3. Lines' \subseteq Lines  BY <1>0, <2>1, LinesOn
    <2>4. key' # key => Lines = {}  BY <2>1 DEF SignedStands
    <2>5. \A c : (SignedHead(c)' <=> SignedHead(c)) /\ (SignedTail(c)' <=> SignedTail(c))
      BY <2>1 DEF SignedHead, SignedTail, Size
    <2>6. \A a \in Lines' : /\ SignedHead(a)' /\ SignedTail(a)' /\ a.key = key' /\ key' # Nothing
                            /\ a.error \/ a.digest \in proofs'
      BY <2>1, <2>3, <2>4, <2>5 DEF SignedStands
    <2> QED  BY <2>2, <2>6 DEF SignedStands
  <1>g. ASSUME \/ closed' = closed /\ live' \in Nat /\ live <= live'
               \/ closed' = Append(closed, live),
               UNCHANGED <<key, anchorLog, proofs, at, checkpoint, ok>>
        PROVE  SignedStands'
    <2>1. \A c : /\ c.segments \in Nat /\ SignedHead(c) => SignedHead(c)'
                 /\ c.tail[2] \in Nat /\ c.segments \in Nat /\ SignedTail(c) => SignedTail(c)'
      BY <1>a, <1>g, SignedOn
    <2>2. \A c : c.tail = Nothing => SignedTail(c)'  BY DEF SignedTail
    <2>3. Lines' = Lines  BY <1>0, <1>g, LinesOn
    <2>4. \A a \in Lines' : SignedHead(a)' /\ SignedTail(a)'  BY <1>l, <2>1, <2>2, <2>3 DEF SignedStands
    <2>5. \A a \in Lines' : a.key = key' /\ key' # Nothing /\ (a.error \/ a.digest \in proofs')
      BY <1>g, <2>3 DEF SignedStands
    <2>6. ASSUME NEW q \in Passes
          PROVE  /\ at'[q] \in {"tail", "key", "create", "wait", "append"} => SignedHead(checkpoint[q])'
                 /\ at'[q] \in {"key", "create", "wait", "append"} => SignedTail(checkpoint[q])'
      <3>1. PICK c : c = checkpoint[q]  OBVIOUS
      <3>2. /\ at[q] \in {"tail", "key", "create", "wait", "append"} => SignedHead(c)'
            /\ at[q] \in {"key", "create", "wait", "append"} => SignedTail(c)'
        BY <1>c, <2>1, <2>2, <3>1 DEF SignedStands
      <3>3. (SignedHead(c)' <=> SignedHead(checkpoint[q])') /\ (SignedTail(c)' <=> SignedTail(checkpoint[q])')
        BY <1>g, <3>1 DEF SignedHead, SignedTail, Size
      <3> QED  BY <1>g, <3>2, <3>3
    <2>7. \A q \in Passes : /\ at'[q] \in {"wait", "append"} => checkpoint'[q].key = key' /\ key' # Nothing
                            /\ at'[q] = "append" /\ ok'[q] => checkpoint'[q].digest \in proofs'
                            /\ at'[q] = "create" => key' = Nothing
      BY <1>g DEF SignedStands
    <2> QED  BY <2>4, <2>5, <2>6, <2>7 DEF SignedStands
  <1>b. ASSUME Record PROVE SignedStands'
    <2>1. live' = live + 1 /\ UNCHANGED <<closed, key, anchorLog, proofs, at, checkpoint, ok>>
      BY <1>0, <1>b, RecordDoes
    <2>2. live' \in Nat /\ live <= live'  BY <1>a, <2>1
    <2> QED  BY <1>g, <2>1, <2>2
  <1>d. ASSUME Rotate PROVE SignedStands'
    <2>1. closed' = Append(closed, live) /\ UNCHANGED <<key, anchorLog, proofs, at, checkpoint, ok>>
      BY <1>0, <1>d, RotateDoes
    <2> QED  BY <1>g, <2>1
  <1>e. ASSUME NEW i \in DOMAIN closed, NEW n \in Gone .. 1, Damage(i, n) PROVE SignedStands'
    BY <1>0, <1>e, DamageDoes
  <1>f. ASSUME UNCHANGED anchorVars PROVE SignedStands'
    <2>1. UNCHANGED <<live, closed, key, anchorLog, proofs, at, checkpoint, ok>>
      BY <1>f DEF anchorVars, disk, pass, bounds
    <2> QED  BY <1>a, <1>g, <2>1
  <1> QED  BY <1>1, <1>2, <1>3, <1>4, <1>5, <1>6, <1>7, <1>8, <1>9, <1>b, <1>d, <1>e, <1>f
           DEF AnchorNext, Step

LEMMA StandBegins == AnchorInit => StandInv
  <1> SUFFICES ASSUME AnchorInit PROVE StandInv  OBVIOUS
  <1>1. PICK e : e = <<>>  OBVIOUS
  <1>2. Len(e) = 0 /\ DOMAIN e = {}  BY <1>1
  <1>3. closed = e /\ manifest = e /\ anchorLog = e  BY <1>1 DEF AnchorInit
  <1>4. \A p \in Passes : at[p] = "idle"  BY DEF AnchorInit
  <1>5. SegmentsStand  BY <1>2, <1>3, <1>4 DEF SegmentsStand, InPlace
  <1>6. SealingReaches  BY <1>4 DEF SealingReaches
  <1>7. SignedStands  BY <1>2, <1>3, <1>4 DEF SignedStands, Lines
  <1> QED  BY <1>5, <1>6, <1>7 DEF StandInv

LEMMA StandContinues == PassesInv /\ StandInv /\ [AnchorNext]_anchorVars => StandInv'
  <1> SUFFICES ASSUME PassesInv, StandInv, [AnchorNext]_anchorVars, Alone', lost' = {}
               PROVE  SegmentsStand' /\ SealingReaches' /\ SignedStands'
    BY DEF StandInv
  <1>0. AnchorTypes /\ EntriesNamed  BY DEF PassesInv
  <1>1. setup' = setup /\ lost = {}
    <2>1. ASSUME NEW p \in Passes, Step(p) \/ KillPass(p) PROVE setup' = setup /\ lost' = lost
      BY <2>1 DEF Step, Start, SealSegment, OpenManifest, WriteManifest, Checkpoint, LiveTail, LoadKey, CreateKey,
                  Answer, AppendAnchor, KillPass, bounds
    <2>2. ASSUME Record \/ Rotate \/ UNCHANGED anchorVars PROVE setup' = setup /\ lost' = lost
      BY <2>2 DEF Record, Rotate, anchorVars, bounds
    <2>3. \A i \in DOMAIN closed : \A n \in Gone .. 1 : ~Damage(i, n)  BY <1>0, DamageDoes
    <2> QED  BY <2>1, <2>2, <2>3 DEF AnchorNext
  <1>2. Alone  BY <1>1 DEF Alone
  <1>3. SegmentsStand /\ SealingReaches /\ SignedStands  BY <1>1, <1>2 DEF StandInv
  <1> QED  BY <1>1, <1>2, <1>3, SegmentsContinue, SealingContinues, SignedContinues

LEMMA LineStands ==
    ASSUME AnchorTypes, SegmentsStand, SignedStands, NEW a \in Lines, a.segments <= Len(manifest)
    PROVE  AnchorStands(Directory, a)
  <1>0. /\ manifest \in Seq(ManifestEntries) /\ Len(manifest) \in Nat /\ closed \in Seq(Int) /\ Len(closed) \in Nat
    BY DEF AnchorTypes
  <1>1. a \in AnchorLines /\ a # Unreadable  BY LinesAre
  <1>2. PICK n \in 0 .. Len(manifest) : n = a.segments
    <2>1. a.segments \in Nat  BY <1>1 DEF AnchorLines
    <2> QED  BY <1>0, <2>1
  <1>3. /\ SignedHead(a) /\ SignedTail(a) /\ a.key = key
        /\ a.error \/ a.digest \in proofs
    BY DEF SignedStands
  <1>4. \A k \in 1 .. Len(manifest) : manifest[k].seg = k /\ manifest[k].n = closed[k]
    BY DEF SegmentsStand, InPlace
  <1>5. a.head = HeadAt(manifest, n)
    <2>1. n # 0 => n \in 1 .. Len(manifest)  BY <1>0
    <2>2. n # 0 => Final(manifest[n]) = <<n, closed[n]>>  BY <1>4, <2>1 DEF Final
    <2> QED  BY <1>2, <1>3, <2>2 DEF SignedHead, HeadAt
  <1>6. a.tail \in {Nothing} \cup LiveTailCandidates(Directory, n)
    <2>1. CASE a.tail = Nothing  BY <2>1
    <2>2. CASE a.tail # Nothing
      <3>1. PICK i, j : i = a.tail[1] /\ j = a.tail[2]  OBVIOUS
      <3>2. a.tail = <<i, j>>
        <4>1. a.tail \in Marks  BY <1>1, <2>2 DEF AnchorLines, Heads
        <4> QED  BY <3>1, <4>1 DEF Marks
      <3>3. i \in n + 1 .. Len(closed) + 1 /\ j \in 1 .. Size(i)  BY <1>2, <1>3, <2>2, <3>1 DEF SignedTail
      <3>4. i \in Nat \ {0}  BY <1>0, <3>3
      <3>5. a.tail \in PrefixesOf(Directory, i)  BY <3>2, <3>3, <3>4, PrefixesAre
      <3>6. i \in {Len(closed) + 1} \cup (DiscoverClosedSegments(Directory) \ Before(n)) \cup After(n)
        <4>1. CASE i = Len(closed) + 1  BY <4>1
        <4>2. CASE i # Len(closed) + 1
          <5>1. i \in 1 .. Len(closed)  BY <1>0, <3>3, <4>2
          <5>2. closed[i] > 0  BY <1>0, <5>1 DEF SegmentsStand
          <5>3. i \in DiscoverClosedSegments(Directory)  BY <5>1, <5>2, ClosedIs
          <5>4. i \notin Before(n)
            <6>1. \A k \in 1 .. n : k \in 1 .. Len(manifest) /\ k # i  BY <1>0, <3>3
            <6> QED  BY <1>4, <6>1 DEF Before
          <5> QED  BY <5>3, <5>4
        <4> QED  BY <4>1, <4>2
      <3>7. a.tail \in Tails({Len(closed) + 1} \cup (DiscoverClosedSegments(Directory) \ Before(n)) \cup After(n))
        BY <3>5, <3>6, TailsAre
      <3> QED  BY <3>7, CandidatesAre
    <2> QED  BY <2>1, <2>2
  <1>7. Rebuilds(Directory, a)  BY <1>2, <1>5, <1>6, OnDisk DEF Rebuilds
  <1> QED  BY <1>1, <1>3, <1>7, OnDisk DEF AnchorStands

LEMMA AllStands == ASSUME PassesInv, StandInv PROVE EvidenceStands
  <1>0. AnchorTypes  BY DEF PassesInv
  <1> SUFFICES ASSUME Alone, lost = {}
               PROVE  /\ \A i \in DOMAIN manifest :
                            /\ i \in DOMAIN closed
                            /\ manifest[i] = [seg |-> i, n |-> closed[i], prev |-> HeadAt(manifest, i - 1)]
                      /\ \A i \in Counted(Directory) :
                            anchorLog[i].segments <= Len(manifest) => AnchorStands(Directory, anchorLog[i])
                      /\ (\E p \in Passes : at[p] = "key") =>
                            \A i \in Counted(Directory) : anchorLog[i].segments <= Len(manifest)
    BY DEF EvidenceStands, SealedInOrder, AnchorsStand
  <1>1. SegmentsStand /\ SealingReaches /\ SignedStands  BY DEF StandInv
  <1>2. ASSUME NEW i \in DOMAIN manifest
        PROVE  /\ i \in DOMAIN closed
               /\ manifest[i] = [seg |-> i, n |-> closed[i], prev |-> HeadAt(manifest, i - 1)]
    <2>1. /\ i \in 1 .. Len(manifest) /\ Len(manifest) \in Nat /\ Len(closed) \in Nat
          /\ DOMAIN closed = 1 .. Len(closed) /\ manifest[i] \in ManifestEntries
      BY <1>0 DEF AnchorTypes
    <2>2. /\ Len(manifest) <= Len(closed) /\ manifest[i].seg = i /\ manifest[i].n = closed[i]
          /\ manifest[i].prev = HeadAt(manifest, i - 1)
      BY <1>1, <2>1 DEF SegmentsStand, InPlace
    <2>3. i \in DOMAIN closed  BY <2>1, <2>2
    <2>4. manifest[i] = [seg |-> manifest[i].seg, n |-> manifest[i].n, prev |-> manifest[i].prev]
      BY <2>1 DEF ManifestEntries
    <2> QED  BY <2>2, <2>3, <2>4
  <1>3. \A i \in Counted(Directory) : anchorLog[i] \in Lines  BY <1>0, LinesAre, OnDisk DEF Counted
  <1>4. \A i \in Counted(Directory) :
           anchorLog[i].segments <= Len(manifest) => AnchorStands(Directory, anchorLog[i])
    BY <1>0, <1>1, <1>3, LineStands
  <1>5. (\E p \in Passes : at[p] = "key") =>
           \A i \in Counted(Directory) : anchorLog[i].segments <= Len(manifest)
    BY <1>1, <1>3 DEF SealingReaches
  <1> QED  BY <1>2, <1>4, <1>5

\* What the anchor passes of one process leave behind stands, whatever rotates or grows between
\* their steps and wherever the process is killed: the manifest holds the first rotated segments in
\* their order, each linked to the one before (rotation.ts:158 sealSegment), and every checkpoint in
\* the log can be rebuilt from the directory, under the key on file and with its proof, as soon as
\* a pass has sealed again what a kill cost (anchor-service.ts:392 runVerify's third layer).
THEOREM EvidenceStays == AnchorSpec => []EvidenceStands
  <1> DEFINE Inv == PassesInv /\ StandInv
  <1>1. AnchorInit => Inv  BY PassesBegin, StandBegins
  <1>2. Inv /\ [AnchorNext]_anchorVars => Inv'  BY PassesContinue, StandContinues
  <1>3. Inv => EvidenceStands  BY AllStands
  <1> QED  BY <1>1, <1>2, <1>3, PTL DEF AnchorSpec
=============================================================================
