----------------------------- MODULE SpillWatch -----------------------------
(***************************************************************************)
(* spill/watch.ts: an observer that reports credential material appearing  *)
(* in the files of a watched root.  It uses a native recursive watch and,   *)
(* when that is refused or dies, bounded walks of the tree on an interval;  *)
(* a file that changed is scanned after a debounce.  Agents write, and the  *)
(* file system fails, between any two awaits of the walk and of a scan.     *)
(***************************************************************************)
EXTENDS Integers, Sequences, FiniteSets

CONSTANTS Root, Subs,      \* the watched directory and the directories below it
          Files, Place,    \* the files and the directory of each
          Ignored,         \* files that an ignore pattern matches
          SpillSetups      \* bounds and circumstances, one chosen in the initial state

ASSUME TreeAssumption ==
    /\ Root \notin Subs /\ Ignored \subseteq Files
    /\ Place \in [Files -> {Root} \cup Subs]
    /\ \A s \in SpillSetups :
        /\ s.native \in {"works", "refused", "unused"}
        /\ s.closes \in BOOLEAN
        /\ {s.cap, s.writes, s.faults, s.scans} \subseteq Nat /\ s.what \subseteq {"secret", "clean", "big", "binary"}
        /\ s.first \in [Files -> {"none", "before", "lag"}]

VARIABLES spill,             \* the setup
          disk,              \* per file: what it holds, when it was written, which write it was
          blind,             \* directories that cannot be read now
          root,              \* RootState
          walk,              \* the local variables of a rescanPass in flight
          events,            \* files of which the kernel has an event to deliver
          queued,           \* files whose debounce timer is armed
          scans,             \* inspect() calls in flight
          closing,           \* "no", "closing" (close() waits) or "closed"
          reports,           \* what onFinding and the audit chain were told
          declined,          \* scans counted under skipped: file and write
          forgot,            \* ghost: a walk was cut short or met a directory it could not read
          writes, faults     \* writes and failures so far

spillVars == <<spill, disk, blind, root, walk, events, queued, scans, closing, reports, declined,
               forgot, writes, faults>>

\* isIgnoredPath answers by patterns; here the files it lets pass.
Watched == Files \ Ignored
Gone == [what |-> "none", age |-> "none", write |-> 0]
NotSeen == -1
NoWalk == [on |-> FALSE, queue |-> <<>>, left |-> {}, budget |-> 0, visited |-> {}, cut |-> FALSE,
           missed |-> FALSE]
\* rescanPass begins with the root alone in its queue and the whole entry cap.
NewWalk == [NoWalk EXCEPT !.on = TRUE, !.queue = <<Root>>, !.budget = spill.cap]
Entries(d) == {f \in Files : Place[f] = d /\ disk[f].what # "none"}
              \cup (IF d = Root THEN Subs ELSE {})

(***************************************************************************)
(* start(): a native watch, or the seeding pass of the re-scan mode.       *)
(***************************************************************************)
Watching == [mode |-> "watch", degraded |-> FALSE, cut |-> FALSE, seeded |-> FALSE, timer |-> FALSE,
             watcher |-> "live", seen |-> [f \in Files |-> NotSeen]]
Rescanning(r) == [r EXCEPT !.mode = "rescan", !.timer = TRUE, !.watcher = "none"]

\* Of an initial file only its age tells; it holds a secret, the worst case.
SpillInit ==
    /\ spill \in SpillSetups
    /\ disk = [f \in Files |-> IF spill.first[f] = "none" THEN Gone
                               ELSE [what |-> "secret", age |-> spill.first[f], write |-> 0]]
    /\ root = CASE spill.native = "works" -> Watching
                [] spill.native = "refused" -> Rescanning([Watching EXCEPT !.degraded = TRUE])
                [] OTHER -> Rescanning(Watching)
    /\ walk = IF spill.native = "works" THEN NoWalk ELSE NewWalk
    /\ blind = {} /\ events = {} /\ queued = {} /\ scans = {} /\ closing = "no"
    /\ reports = {} /\ declined = {} /\ forgot = FALSE /\ writes = 0 /\ faults = 0

(***************************************************************************)
(* The workspace: writes (a stamp may lag behind the clock that startedAt   *)
(* was read from), deletions, unreadable directories.                      *)
(***************************************************************************)
Raised(f) == IF root.watcher = "live" THEN events' = events \cup {f} ELSE UNCHANGED events
WriteFile(f) ==
    /\ writes < spill.writes /\ writes' = writes + 1
    /\ \E w \in spill.what, a \in {"lag", "fresh"} :
        disk' = [disk EXCEPT ![f] = [what |-> w, age |-> a, write |-> writes']]
    /\ Raised(f)
    /\ UNCHANGED <<spill, blind, root, walk, queued, scans, closing, reports, declined, forgot, faults>>
Delete(f) ==
    /\ faults < spill.faults /\ disk[f].what # "none"
    /\ disk' = [disk EXCEPT ![f] = Gone] /\ faults' = faults + 1
    /\ Raised(f)
    /\ UNCHANGED <<spill, blind, root, walk, queued, scans, closing, reports, declined, forgot, writes>>
GoBlind(d) ==
    /\ faults < spill.faults /\ d \notin blind
    /\ blind' = blind \cup {d} /\ faults' = faults + 1
    /\ UNCHANGED <<spill, disk, root, walk, events, queued, scans, closing, reports, declined, forgot, writes>>
SeeAgain(d) ==
    /\ d \in blind /\ blind' = blind \ {d}
    /\ UNCHANGED <<spill, disk, root, walk, events, queued, scans, closing, reports, declined, forgot, faults, writes>>

(***************************************************************************)
(* The native watch.  It can die as the tree grows; the events it had not   *)
(* delivered die with it, and its error event makes the root degrade.       *)
(***************************************************************************)
Scheduled(f) == IF closing # "no" \/ f \notin Watched THEN queued ELSE queued \cup {f}
Deliver(f) ==
    /\ f \in events /\ root.watcher = "live"
    /\ events' = events \ {f} /\ queued' = Scheduled(f)
    /\ UNCHANGED <<spill, disk, blind, root, walk, scans, closing, reports, declined, forgot, faults, writes>>
WatcherDies ==
    /\ root.watcher = "live" /\ faults < spill.faults
    /\ root' = [root EXCEPT !.watcher = "dead"] /\ events' = {} /\ faults' = faults + 1
    /\ UNCHANGED <<spill, disk, blind, walk, queued, scans, closing, reports, declined, forgot, writes>>
Degrade ==
    /\ root.watcher = "dead" /\ closing = "no"
    /\ root' = Rescanning([root EXCEPT !.degraded = TRUE]) /\ walk' = NewWalk
    /\ UNCHANGED <<spill, disk, blind, events, queued, scans, closing, reports, declined, forgot, faults, writes>>

(***************************************************************************)
(* rescanPass: one step per directory read and per entry.                   *)
(***************************************************************************)
\* The interval; while a pass is in flight it does nothing.
SpillTick ==
    /\ root.timer /\ ~walk.on
    /\ walk' = NewWalk
    /\ UNCHANGED <<spill, disk, blind, root, events, queued, scans, closing, reports, declined, forgot, faults, writes>>

ReadDirectory ==
    /\ walk.on /\ walk.left = {} /\ ~walk.cut /\ walk.queue # <<>>
    /\ walk' = CASE closing # "no" -> NoWalk
                 [] closing = "no" /\ Head(walk.queue) \in blind ->
                        [walk EXCEPT !.queue = Tail(@), !.missed = TRUE]
                 [] OTHER -> [walk EXCEPT !.queue = Tail(@), !.left = Entries(Head(walk.queue))]
    /\ UNCHANGED <<spill, disk, blind, root, events, queued, scans, closing, reports, declined, forgot, faults, writes>>

OutOfBudget ==
    /\ walk.on /\ walk.left # {} /\ walk.budget = 0
    /\ walk' = [walk EXCEPT !.left = {}, !.cut = TRUE]
    /\ UNCHANGED <<spill, disk, blind, root, events, queued, scans, closing, reports, declined, forgot, faults, writes>>

\* Mutant: the clock's lag is not allowed for.
ChangedStrictly(f) ==
    IF root.seen[f] = NotSeen THEN root.seeded \/ disk[f].age = "fresh"
    ELSE root.seen[f] # disk[f].write
\* A file is worth a scan when its fingerprint changed, or on first sight once the tree is
\* known; before that, when its time says that it was written on this watch.
ChangedFiles(f) ==
    IF root.seen[f] = NotSeen THEN root.seeded \/ disk[f].age # "before"
    ELSE root.seen[f] # disk[f].write

LookAt(e) ==
    /\ walk.on /\ e \in walk.left /\ walk.budget > 0
    /\ walk' = [walk EXCEPT !.left = @ \ {e}, !.budget = @ - 1,
                            !.queue = IF e \in Subs THEN Append(@, e) ELSE @,
                            !.visited = IF e \in Watched THEN @ \cup {e} ELSE @]
    /\ IF e \in Watched /\ disk[e].what # "none"
       THEN /\ queued' = IF ChangedFiles(e) THEN Scheduled(e) ELSE queued
            /\ root' = [root EXCEPT !.seen[e] = disk[e].write]
       ELSE UNCHANGED <<queued, root>>
    /\ UNCHANGED <<spill, disk, blind, events, scans, closing, reports, declined, forgot, faults, writes>>

\* Only a complete pass forgets files.
PassEnds ==
    /\ walk.on /\ walk.left = {} /\ (walk.cut \/ walk.queue = <<>>)
    /\ root' = [root EXCEPT !.cut = walk.cut, !.seeded = TRUE,
                    !.seen = [f \in Files |-> IF walk.cut \/ f \in walk.visited THEN @[f] ELSE NotSeen]]
    /\ forgot' = (forgot \/ walk.cut \/ walk.missed)
    /\ walk' = NoWalk
    /\ UNCHANGED <<spill, disk, blind, events, queued, scans, closing, reports, declined, faults, writes>>

(***************************************************************************)
(* inspect: the debounce timer opens the file, then its bytes are read.     *)
(***************************************************************************)
Ids == 1 .. spill.scans
Fire(f) ==
    /\ f \in queued
    /\ \E i \in Ids :
        /\ \A s \in scans : s.id # i
        /\ \A j \in 1 .. i - 1 : \E s \in scans : s.id = j
        /\ scans' = scans \cup {[id |-> i, file |-> f, saw |-> Gone]}
    /\ queued' = queued \ {f}
    /\ UNCHANGED <<spill, disk, blind, root, walk, events, closing, reports, declined, forgot, faults, writes>>

ScanDropped(s) == scans' = scans \ {s}
Declined(s) == declined' = declined \cup {[file |-> s.file, write |-> disk[s.file].write]}
\* A large file is not read, and an open (deleted, no permission, no descriptor) or a read may fail.
ScanRefused(s) ==
    /\ s \in scans
    /\ \/ s.saw = Gone /\ disk[s.file].what \in {"none", "big"} /\ UNCHANGED faults
       \/ faults < spill.faults /\ faults' = faults + 1
    /\ ScanDropped(s) /\ Declined(s)
    /\ UNCHANGED <<spill, disk, blind, root, walk, events, queued, closing, reports, forgot, writes>>
OpenFile(s) ==
    /\ s \in scans /\ s.saw = Gone /\ disk[s.file].what \notin {"none", "big"}
    /\ scans' = (scans \ {s}) \cup {[s EXCEPT !.saw = disk[s.file]]}
    /\ UNCHANGED <<spill, disk, blind, root, walk, events, queued, closing, reports, declined, forgot, faults, writes>>

\* A file written since it was opened may read as either version, or as a prefix.
Readings(s) ==
    {s.saw} \cup IF disk[s.file] = s.saw THEN {}
                 ELSE {[s.saw EXCEPT !.what = "clean"]} \cup ({disk[s.file]} \ {Gone})
ReadFile(s) ==
    /\ s \in scans /\ s.saw # Gone
    /\ \E r \in Readings(s) :
        /\ reports' = IF r.what = "secret" /\ closing = "no"
                      THEN reports \cup {[file |-> s.file, age |-> r.age, write |-> r.write]} ELSE reports
        /\ IF r.what = "binary" THEN Declined(s) ELSE UNCHANGED declined
    /\ ScanDropped(s)
    /\ UNCHANGED <<spill, disk, blind, root, walk, events, queued, closing, forgot, faults, writes>>

(***************************************************************************)
(* close(): nothing starts any more, and what is in flight is awaited.      *)
(***************************************************************************)
CloseWatch ==
    /\ closing = "no" /\ spill.closes
    /\ closing' = "closing"
    /\ root' = [root EXCEPT !.watcher = "none", !.timer = FALSE] /\ events' = {} /\ queued' = {}
    /\ UNCHANGED <<spill, disk, blind, walk, scans, reports, declined, forgot, faults, writes>>
Closed ==
    /\ closing = "closing" /\ ~walk.on /\ scans = {}
    /\ closing' = "closed"
    /\ UNCHANGED <<spill, disk, blind, root, walk, events, queued, scans, reports, declined, forgot, faults, writes>>

Walks == ReadDirectory \/ OutOfBudget \/ PassEnds \/ \E e \in Files \cup Subs : LookAt(e)
SpillNext ==
    \/ \E f \in Files : WriteFile(f) \/ Delete(f) \/ Deliver(f) \/ Fire(f)
    \/ \E d \in {Root} \cup Subs : GoBlind(d) \/ SeeAgain(d)
    \/ WatcherDies \/ Degrade \/ SpillTick \/ Walks \/ CloseWatch \/ Closed
    \/ \E s \in scans : ScanRefused(s) \/ OpenFile(s) \/ ReadFile(s)

\* The process does its own part: events and timers are delivered, awaits resume.
Inspects(i) == \E s \in scans : s.id = i /\ (ScanRefused(s) \/ OpenFile(s) \/ ReadFile(s))
SpillRuns ==
    /\ \A f \in Files : WF_spillVars(Deliver(f)) /\ WF_spillVars(Fire(f))
    /\ \A i \in 1 .. 2 : WF_spillVars(Inspects(i))
    /\ WF_spillVars(Degrade) /\ WF_spillVars(SpillTick) /\ WF_spillVars(Walks)

(***************************************************************************)
(* Properties.                                                             *)
(***************************************************************************)
\* A credential written into a watched file is reported, although the native watch dies with
\* events undelivered, the fallback starts without a snapshot, and file times lag behind the
\* clock - unless the file changes again, the scan is counted as skipped, the directory
\* cannot be read, the walk says it was truncated, or the watch is closed.
Excused(f) == closing # "no" \/ root.cut \/ f \notin Watched \/ Place[f] \in blind \/ Root \in blind
SecretIsReported ==
    \A f \in Files : \A n \in 1 .. 3 :
        (disk[f].what = "secret" /\ disk[f].write = n) ~>
            (Excused(f) \/ disk[f].write # n \/ [file |-> f, write |-> n] \in declined
             \/ \E r \in reports : r.file = f /\ r.write = n)

\* "The contents of the tree at start-up are not writes it observed": while every walk saw the
\* whole tree, a file from before the watch is never reported as a write.  And once close()
\* has resolved nothing is left that could report.
OnlyItsWatch ==
    /\ forgot \/ \A r \in reports : r.age # "before"
    /\ closing = "closed" => (queued = {} /\ scans = {} /\ ~walk.on /\ ~root.timer)

\* The watch reports what is written while it watches, and nothing else.
WatchIsTrue == []OnlyItsWatch /\ SecretIsReported

=============================================================================
