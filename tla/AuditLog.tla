------------------------------ MODULE AuditLog ------------------------------
(***************************************************************************)
(* The audit writer of one agentwall process: audit/logger.ts (chain       *)
(* state, gap accounting) on top of audit/file-sink.ts (append, roll-back  *)
(* of a short write, resume after a restart, verification).                *)
(*                                                                         *)
(* A JSONL record is three cells: the head of the JSON object, the rest of *)
(* it, and the line feed.  Three are enough to tell apart what the code    *)
(* tells apart: a fragment that does not parse (head), an object that      *)
(* parses but is not terminated (head, rest) and a complete line.  Byte    *)
(* offsets become cell offsets, so the sink's `committed` mark keeps its   *)
(* arithmetic.                                                             *)
(*                                                                         *)
(* SHA-256 is abstracted to the record's id: ids are fresh UUIDs, so two   *)
(* records share a hash only if they are the same record.                  *)
(***************************************************************************)
EXTENDS Integers, Sequences, FiniteSetsExt

CONSTANTS
    MaxRecords,     \* bound: records (gap markers included) ever chained
    MaxFaults,      \* bound: appends the storage refuses
    MaxKills,       \* bound: process deaths
    Null            \* the previousHash of the first record

ASSUME BoundsAssumption ==
    /\ MaxRecords \in Nat
    /\ MaxFaults \in Nat
    /\ MaxKills \in Nat
    /\ Null \notin Nat

VARIABLES
    file,           \* the audit file: a sequence of cells
    up,             \* is a process running?
    pc,             \* where emit() is: "idle", "marker" or "record"
    chain,          \* auditChainState
    committed,      \* the sink's length after its last complete append
    gap,            \* pendingGap.count; 0 stands for null
    dropped,        \* droppedTotal
    console,        \* ids of the records the observers were shown
    nextId,         \* the next fresh record id
    faults,         \* appends refused so far
    kills,          \* deaths so far
    bootId,         \* history: nextId when the running process booted
    damaged         \* history: has a fragment ever been left on the file?

vars == <<file, up, pc, chain, committed, gap, dropped, console, nextId,
          faults, kills, bootId, damaged>>

-----------------------------------------------------------------------------
(* Records, cells and lines.                                               *)

RecSize == 3        \* cells of one complete line
NL == 3             \* the part number of the line feed

Ids == 1 .. MaxRecords
Records == [id : Ids, idx : Nat, prev : Ids \cup {Null}, lost : Nat]
Cells == [rec : Records, part : 1 .. RecSize]

\* The state of a chain with no record.
Fresh == [idx |-> 0, prev |-> Null]

\* chainAuditEvent: stamp a payload with the chain's position.  `lost` is the
\* droppedRecords member of a gap marker, 0 for every other record.
Chained(id, lost) ==
    [id |-> id, idx |-> chain.idx, prev |-> chain.prev, lost |-> lost]

\* The first p cells of the line that carries r.
Prefix(r, p) == [i \in 1 .. p |-> [rec |-> r, part |-> i]]
Line(r) == Prefix(r, RecSize)

\* Where the lines of f start, which of them the file terminates, and which
\* hold exactly one whole JSON object, so that JSON.parse accepts them.
Starts(f) == {i \in 1 .. Len(f) : i = 1 \/ f[i - 1].part = NL}
Terminated(f, i) == \E j \in i .. Len(f) : f[j].part = NL
Intact(f, i) ==
    /\ f[i].part = 1
    /\ i + 1 \in 1 .. Len(f)
    /\ f[i + 1] = [rec |-> f[i].rec, part |-> 2]
    /\ i + 2 \in 1 .. Len(f) => f[i + 2].part = NL

IntactStarts(f) == {i \in Starts(f) : Intact(f, i)}

-----------------------------------------------------------------------------
(* The file sink.                                                          *)

\* discardPartialAppend: truncate to the mark when bytes landed past it and
\* the mark is a line boundary; `opens` is whether the repair could open the
\* file at all.
Discard(f, mark, opens) ==
    IF opens /\ Len(f) > mark /\ (mark = 0 \/ f[mark].part = NL)
      THEN SubSeq(f, 1, mark)
      ELSE f

\* Mutant: the mark is not advanced.
AppendOkStaleMark(r) ==
    /\ file' = file \o Line(r)
    /\ UNCHANGED <<committed, faults, damaged>>

\* An append the kernel completes.
AppendOk(r) ==
    /\ file' = file \o Line(r)
    /\ committed' = committed + RecSize
    /\ UNCHANGED <<faults, damaged>>

\* An append that fails after p cells, and the sink's attempt to undo them.
AppendRefused(r) ==
    /\ faults < MaxFaults
    /\ \E p \in 0 .. RecSize - 1, opens \in BOOLEAN :
         /\ file' = Discard(file \o Prefix(r, p), committed, opens)
         /\ damaged' = (damaged \/ Len(file') > Len(file))
    /\ faults' = faults + 1
    /\ UNCHANGED committed

-----------------------------------------------------------------------------
(* The logger: emit().                                                     *)

\* commit(): the chain advances past r and the observers see it.
Commit(r) ==
    /\ chain' = [idx |-> r.idx + 1, prev |-> r.id]
    /\ console' = console \cup {r.id}

\* emit() is entered; declarePendingGap() runs first.  The bound leaves room
\* for a marker and the event.
EmitStart ==
    /\ up /\ pc = "idle"
    /\ nextId < MaxRecords
    /\ pc' = IF gap = 0 THEN "record" ELSE "marker"
    /\ UNCHANGED <<file, up, chain, committed, gap, dropped, console, nextId,
                   faults, kills, bootId, damaged>>

\* declarePendingGap(): the marker reaches the file.
MarkerStored ==
    /\ up /\ pc = "marker"
    /\ LET marker == Chained(nextId, gap) IN
         /\ AppendOk(marker)
         /\ Commit(marker)
    /\ gap' = 0
    /\ nextId' = nextId + 1
    /\ pc' = "record"
    /\ UNCHANGED <<up, dropped, kills, bootId>>

\* Mutant: the pending count is cleared whether or not the marker was stored.
MarkerRefusedClearsGap ==
    /\ up /\ pc = "marker"
    /\ AppendRefused(Chained(nextId, gap))
    /\ gap' = 0
    /\ nextId' = nextId + 1
    /\ pc' = "record"
    /\ UNCHANGED <<up, chain, dropped, console, kills, bootId>>

\* declarePendingGap(): still refusing; the marker is not counted as a drop.
MarkerRefused ==
    /\ up /\ pc = "marker"
    /\ AppendRefused(Chained(nextId, gap))
    /\ nextId' = nextId + 1
    /\ pc' = "record"
    /\ UNCHANGED <<up, chain, gap, dropped, console, kills, bootId>>

\* The event itself reaches the file.
RecordStored ==
    /\ up /\ pc = "record"
    /\ LET event == Chained(nextId, 0) IN
         /\ AppendOk(event)
         /\ Commit(event)
    /\ nextId' = nextId + 1
    /\ pc' = "idle"
    /\ UNCHANGED <<up, gap, dropped, kills, bootId>>

\* Mutant: the chain advances before the sink answers.
RecordDroppedAdvances ==
    /\ up /\ pc = "record"
    /\ AppendRefused(Chained(nextId, 0))
    /\ chain' = [idx |-> chain.idx + 1, prev |-> nextId]
    /\ dropped' = dropped + 1
    /\ gap' = gap + 1
    /\ nextId' = nextId + 1
    /\ pc' = "idle"
    /\ UNCHANGED <<up, console, kills, bootId>>

\* dropRecord(): no durable sink took the event; the chain stays where it is.
RecordDropped ==
    /\ up /\ pc = "record"
    /\ AppendRefused(Chained(nextId, 0))
    /\ dropped' = dropped + 1
    /\ gap' = gap + 1
    /\ nextId' = nextId + 1
    /\ pc' = "idle"
    /\ UNCHANGED <<up, chain, console, kills, bootId>>

-----------------------------------------------------------------------------
(* Death and restart.                                                      *)

\* What an append in flight leaves behind when the process is killed: none,
\* some or all of the line's cells.
InFlight(p) ==
    IF pc = "idle" THEN <<>>
    ELSE Prefix(Chained(nextId, IF pc = "marker" THEN gap ELSE 0), p)

\* The process dies: everything in memory is lost.
Kill ==
    /\ up
    /\ kills < MaxKills
    /\ \E p \in 0 .. RecSize :
         /\ file' = file \o InFlight(p)
         /\ damaged' = (damaged \/ Len(file') - Len(file) \in 1 .. RecSize - 1)
    /\ nextId' = IF pc = "idle" THEN nextId ELSE nextId + 1
    /\ up' = FALSE
    /\ pc' = "idle"
    /\ kills' = kills + 1
    /\ chain' = Fresh
    /\ committed' = 0
    /\ gap' = 0
    /\ dropped' = 0
    /\ UNCHANGED <<console, faults, bootId>>

\* resumeChainState reads back from the end in chunks, and stops once it holds
\* three line feeds or the whole file.  Which lines that covers depends on the
\* records' sizes: at least the last two complete lines, at most all of them.
Window(f, w) ==
    \/ w = 1
    \/ \E i, j \in Starts(f) : w <= i /\ i < j /\ Terminated(f, j)

\* buildServer: resumeChainState, seedAuditChain, then createFileSink, whose
\* mark is the file's length, fragment included.
Boot ==
    /\ ~up
    /\ \E w \in 1 .. Len(file) + 1 :
         /\ Window(file, w)
         /\ LET good == {i \in IntactStarts(file) : i >= w} IN
              \/ good = {} /\ chain' = Fresh
              \/ \E i \in good :
                   /\ \A j \in good : j <= i
                   /\ chain' = [idx |-> file[i].rec.idx + 1,
                                prev |-> file[i].rec.id]
    /\ committed' = Len(file)
    /\ up' = TRUE
    /\ bootId' = nextId
    /\ UNCHANGED <<file, pc, gap, dropped, console, nextId, faults, kills,
                   damaged>>

-----------------------------------------------------------------------------
Init ==
    /\ file = <<>>
    /\ up = FALSE
    /\ pc = "idle"
    /\ chain = Fresh
    /\ committed = 0
    /\ gap = 0
    /\ dropped = 0
    /\ console = {}
    /\ nextId = 1
    /\ faults = 0
    /\ kills = 0
    /\ bootId = 1
    /\ damaged = FALSE

Next ==
    \/ EmitStart
    \/ MarkerStored
    \/ MarkerRefused
    \/ RecordStored
    \/ RecordDropped
    \/ Kill
    \/ Boot

Spec == Init /\ [][Next]_vars

-----------------------------------------------------------------------------
(* Properties.                                                             *)

\* Every variable stays in its type, and emit() never runs past its bound.
TypeOK ==
    /\ file \in Seq(Cells)
    /\ up \in BOOLEAN
    /\ pc \in {"idle", "marker", "record"}
    /\ chain \in [idx : Nat, prev : Ids \cup {Null}]
    /\ committed \in Nat
    /\ gap \in Nat
    /\ dropped \in Nat
    /\ console \subseteq Ids
    /\ nextId \in 1 .. MaxRecords + 1
    /\ faults \in 0 .. MaxFaults
    /\ kills \in 0 .. MaxKills
    /\ bootId \in 1 .. MaxRecords + 1
    /\ damaged \in BOOLEAN
    /\ pc = "marker" => nextId < MaxRecords
    /\ pc = "record" => nextId <= MaxRecords

\* verifyChainFile: an unparseable line is a problem unless it is the
\* unterminated last one, and every record must continue the one parsed
\* before it.
VerifyChainFile(f) ==
    /\ \A i \in Starts(f) \ IntactStarts(f) : ~Terminated(f, i)
    /\ \A i, j \in IntactStarts(f) :
         (i < j /\ ~\E k \in IntactStarts(f) : i < k /\ k < j)
           => /\ f[j].rec.idx = f[i].rec.idx + 1
              /\ f[j].rec.prev = f[i].rec.id

\* The records that are on f as complete lines.
StoredIds(f) ==
    {f[i].rec.id : i \in {j \in IntactStarts(f) : Terminated(f, j)}}

\* A file on which no fragment was ever left verifies, whatever mixture of
\* refused appends, rolled-back short writes, deaths between appends and
\* restarts produced it: a full disk is never reported as tampering (emit,
\* discardPartialAppend, resumeChainState).
CleanFileVerifies == ~damaged => VerifyChainFile(file)

\* While no fragment was left, the running writer's chain state is exactly the
\* successor of the last record on disk, so the next append links to it.
ChainMatchesDisk ==
    (up /\ ~damaged) =>
        /\ committed = Len(file)
        /\ file = <<>> => chain = Fresh
        /\ file # <<>> => LET last == file[Len(file)].rec IN
              chain = [idx |-> last.idx + 1, prev |-> last.id]

\* The file and the writer's memory are one chain: what is on disk verifies, and
\* the next append continues it.
OneChain == CleanFileVerifies /\ ChainMatchesDisk

\* What a console shows is what the chain contains (commit): an observer never
\* sees a record the file does not hold.
ConsoleShowsStored == ~damaged => console \subseteq StoredIds(file)

\* Every record dropped since boot is either declared by a marker this process
\* stored or still pending (auditDropStats): none is lost from the count and
\* none is declared twice.
DropsAccounted ==
    (up /\ ~damaged) =>
        dropped = gap + MapThenSumSet(LAMBDA i : file[i].rec.lost,
                            {i \in IntactStarts(file) : file[i].rec.id >= bootId})

\* Nothing a reader is shown goes beyond the file, and nothing the file misses
\* goes untold: console and drop count agree with what is stored.
ReadersAreTold == ConsoleShowsStored /\ DropsAccounted

\* What the repair of a short write may do: it never takes away a record that
\* was stored before the append it undoes (discardPartialAppend).
StoredStaysStored ==
    [][~damaged' => StoredIds(file) \subseteq StoredIds(file)']_vars

-----------------------------------------------------------------------------
(* What the code's comments and docs say and the code does not do.         *)

\* "A line that is not valid JSON, anywhere except the final line, is a
\* failure.  Nothing in normal operation produces one": deaths and restarts
\* alone never make the file fail its own verification.
RestartsKeepFileValid == VerifyChainFile(file)

\* "Any earlier loss is declared before this event joins the chain, so the
\* marker sits where the missing records were": the records a marker declares
\* were all produced after the record the marker follows.
MarkersInPlace ==
    \A j \in IntactStarts(file) :
        LET before == {i \in IntactStarts(file) : i < j}
            since == IF before = {} THEN 0 ELSE file[Max(before)].rec.id
        IN  file[j].rec.lost > 0 => file[j].rec.id - since > file[j].rec.lost

\* discardPartialAppend "only ever removes bytes this sink just wrote": no
\* record that was stored and parses is ever taken off the file.
OnlyOwnBytesRemoved ==
    [][StoredIds(file) \subseteq StoredIds(file)']_vars

=============================================================================
