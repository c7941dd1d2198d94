---------------------------- MODULE FleetEvidence ----------------------------
(***************************************************************************)
(* What a reviewer is told of a host whose evidence directory is delivered *)
(* to an aggregator: evidence/collect.ts reads the records, scorecard.ts    *)
(* judges a session, fleet.ts a host and the fleet.                         *)
(*                                                                         *)
(* A host writes, rotates, anchors, and its operator may leave a backup    *)
(* beside the chain; deliveries copy some of the directory; what was       *)
(* delivered may be damaged.  A directory is a record of                    *)
(*   files     file name -> its records                                    *)
(*   manifest  sealed segments: name, count, first, last, final            *)
(*   log       anchors: the state signed, and how the submission ended;    *)
(*             the key and the proofs come with it                         *)
(* The n-th record of a host has the hash n; `good` says that it still      *)
(* reproduces it.  Session n % 2 wrote it.                                 *)
(***************************************************************************)
EXTENDS Integers, Sequences, FiniteSets, TLC
LOCAL INSTANCE SequencesExt

CONSTANTS
    HostSetups,     \* *bound* [records, anchors, days, parts, damages, backup, restarts, neighbour]
    StaleAfter,     \* staleAfterSeconds
    FileCap,        \* READ_LIMITS.fileBytes, in records
    RecordCap       \* READ_LIMITS.records

ASSUME EvidenceAssumption == StaleAfter \in Nat /\ FileCap \in Nat \ {0} /\ RecordCap \in Nat \ {0}

VARIABLES
    hostSetup,      \* what happens in this behaviour
    origin,         \* the directory on the host
    writer,         \* the writer's chain: records written, next index, previous hash
    copy,           \* the directory the aggregator reads
    day,
    delivery        \* ghost: "none", "part", or "whole" since nothing else touched the copy
evidenceVars == <<hostSetup, origin, writer, copy, day, delivery>>

ClosedNames == <<"audit.1", "audit.2">>
NoFiles == [f \in {} |-> <<>>]
EmptyDirectory == [files |-> NoFiles, manifest |-> <<>>, log |-> <<>>]

Put(files, f, s) == [g \in DOMAIN files \cup {f} |-> IF g = f THEN s ELSE files[g]]
Less(files, f) == [g \in DOMAIN files \ {f} |-> files[g]]
NamesOf(entries) == {entries[i].name : i \in DOMAIN entries}
From(entries, k) == SubSeq(entries, k + 1, Len(entries))

----------------------------------------------------------------------------
(* What verifies a directory: the layers of audit/anchor-service.ts.       *)

SegmentSummary(s) ==
    [count |-> Len(s), first |-> s[1].index, last |-> Last(s).index, final |-> Last(s).hash]
EntryOf(f, s) == [name |-> f] @@ SegmentSummary(s)

\* discoverClosedSegments: whatever is named after the audit file and reads as a chain.
Discovered(d) == {f \in DOMAIN d.files \ {"audit"} : d.files[f] # <<>>}

\* verifyChainFile, on records that all parse.
ChainHolds(s) ==
    /\ \A k \in DOMAIN s : s[k].good
    /\ \A k \in 2 .. Len(s) : s[k].index = s[k - 1].index + 1 /\ s[k].prev = s[k - 1].hash
    /\ s # <<>> /\ s[1].prev = 0 => s[1].index = 0

Chained(d) == \A f \in (NamesOf(d.manifest) \cup {"audit"}) \cap DOMAIN d.files : ChainHolds(d.files[f])

EntryStands(d, e) ==
    e.name \in DOMAIN d.files /\ d.files[e.name] # <<>> /\ EntryOf(e.name, d.files[e.name]) = e
Linked(d) ==
    /\ \A i \in DOMAIN d.manifest : EntryStands(d, d.manifest[i])
    /\ Discovered(d) \subseteq NamesOf(d.manifest)

HeadOf(entries, k) == IF k = 0 THEN 0 ELSE entries[k].final
TailOf(s) == IF s = <<>> THEN [hash |-> 0, count |-> 0, index |-> -1]
           ELSE [hash |-> Last(s).hash, count |-> Len(s), index |-> Last(s).index]

\* liveTailCandidates: every prefix of a file that may have been live, and the later entries' own.
TailCandidates(d, k) ==
    LET eligible == ({"audit"} \cup (Discovered(d) \ NamesOf(SubSeq(d.manifest, 1, k)))
                        \cup NamesOf(From(d.manifest, k))) \cap DOMAIN d.files
        later == From(d.manifest, k)
    IN  UNION {{TailOf(SubSeq(d.files[f], 1, n)) : n \in DOMAIN d.files[f]} : f \in eligible}
            \cup {[hash |-> later[i].final, count |-> later[i].count, index |-> later[i].last] : i \in DOMAIN later}

Reproduces(d, a) ==
    /\ a.segments <= Len(d.manifest) /\ a.head = HeadOf(d.manifest, a.segments)
    /\ a.tail.count = 0 \/ \E c \in TailCandidates(d, a.segments) : c.hash = a.tail.hash /\ c.count = a.tail.count

Anchored(d) ==
    /\ \A i \in DOMAIN d.log : Reproduces(d, d.log[i])
    /\ \E i \in DOMAIN d.log : d.log[i].outcome # "failed"

\* anchorReach: the highest chain index an anchor commits to, -1 when that is not known.
ReachOf(d, a) ==
    IF ~Reproduces(d, a) THEN -1
    ELSE LET sealed == IF a.segments = 0 THEN -1 ELSE d.manifest[a.segments].last
             tails == {c.index : c \in {c \in TailCandidates(d, a.segments) :
                                           c.hash = a.tail.hash /\ c.count = a.tail.count}}
             reaches == {sealed} \cup (IF a.tail.count = 0 THEN {} ELSE tails)
         IN  CHOOSE m \in reaches : \A r \in reaches : r <= m

----------------------------------------------------------------------------
(* collect.ts: sealed segments, then unsealed ones, then the live file,     *)
(* each within the caps of one read.                                        *)

RecordFiles(d) ==
    LET sealed == [i \in DOMAIN d.manifest |-> d.manifest[i].name]
        unsealed == Discovered(d) \ NamesOf(d.manifest)
    IN  SelectSeq(sealed \o SetToSeq(unsealed) \o <<"audit">>, LAMBDA f : f \in DOMAIN d.files)

\* The records read of each file of RecordFiles; a file that is skipped gives none.
Collected(d) ==
    LET files == RecordFiles(d)
        read[i \in 0 .. Len(files)] ==
            IF i = 0 THEN [total |-> 0, of |-> <<>>]
            ELSE LET s == d.files[files[i]]
                     room == RecordCap - read[i - 1].total
                     taken == IF Len(s) > FileCap THEN <<>>
                              ELSE SubSeq(s, 1, IF Len(s) < room THEN Len(s) ELSE room)
                 IN  [total |-> read[i - 1].total + Len(taken), of |-> Append(read[i - 1].of, taken)]
    IN  read[Len(files)].of

\* The faults collectEvidence notes on record k of what it read of a file.
Faulty(s, k) ==
    \/ ~s[k].good
    \/ k > 1 /\ (s[k].index # s[k - 1].index + 1 \/ s[k].prev # s[k - 1].hash)

\* The records shown, c being what was collected.
Shown(c) ==
    UNION {{[file |-> i, line |-> k, is |-> c[i][k], faulty |-> Faulty(c[i], k)] : k \in DOMAIN c[i]} :
              i \in DOMAIN c}

----------------------------------------------------------------------------
(* scorecard.ts: the rows of a session with records `mine` among `all`.    *)

ReceiptFor(a) == a.outcome
UsableAnchors(d) == {i \in DOMAIN d.log : ReceiptFor(d.log[i]) # "failed" /\ ReachOf(d, d.log[i]) >= 0}

AnchoredStateFor(d, through) ==
    LET covering == {ReceiptFor(d.log[i]) : i \in {j \in UsableAnchors(d) : ReachOf(d, d.log[j]) >= through}}
    IN  IF "confirmed" \in covering THEN "pass"
        ELSE IF "pending" \in covering THEN "pending"
        ELSE IF d.log # <<>> /\ UsableAnchors(d) = {} /\ \E i \in DOMAIN d.log : ReceiptFor(d.log[i]) = "failed"
             THEN "fail" ELSE "absent"

Within(mine, all) ==
    {r \in all : \E a, b \in mine : a.is.index <= r.is.index /\ r.is.index <= b.is.index}
ChainedStateFor(mine, all) == IF \E r \in Within(mine, all) : r.faulty THEN "fail" ELSE "pass"

\* `files`: the names of the files that hold the session.
LinkedStateFor(d, files) ==
    LET sealed == files \cap NamesOf(d.manifest)
    IN  IF files \ (sealed \cup {"audit"}) # {} THEN "fail"
        ELSE IF sealed = {} THEN "absent"
        ELSE IF \A i \in DOMAIN d.manifest : d.manifest[i].name \in sealed => EntryStands(d, d.manifest[i])
             THEN "pass" ELSE "fail"

----------------------------------------------------------------------------
(* fleet.ts: one host, then the fleet.                                      *)

\* Two of the files read cover one index.
Overlaps(c) ==
    \E i, j \in {k \in DOMAIN c : c[k] # <<>>} :
        i # j /\ c[i][1].index <= Last(c[j]).index /\ c[j][1].index <= Last(c[i]).index

BrokenLayers(d) ==
    {l \in {"chained", "linked", "anchored"} :
        \/ l = "chained" /\ ~Chained(d)
        \/ l = "linked" /\ ~Linked(d)
        \/ l = "anchored" /\ ~Anchored(d) /\ d.log # <<>>}

AgeOf(c, now) ==
    LET days == {r.is.day : r \in Shown(c)}
    IN  now - (CHOOSE t \in days : \A u \in days : u <= t)

\* Mutant: a broken layer is reported before the files are asked for one history.
HostAccused(d, now) ==
    LET c == Collected(d)
    IN  IF "audit" \notin DOMAIN d.files THEN "unreachable"
        ELSE IF BrokenLayers(d) # {} THEN "broken"
        ELSE IF Overlaps(c) THEN "inconclusive"
        ELSE IF Shown(c) = {} THEN "empty"
        ELSE IF AgeOf(c, now) > StaleAfter THEN "stale"
        ELSE "verified"
\* readHost: the order is the verdict.
ReadHost(d, now) ==
    LET c == Collected(d)
    IN  IF "audit" \notin DOMAIN d.files THEN "unreachable"
        ELSE IF Overlaps(c) THEN "inconclusive"
        ELSE IF BrokenLayers(d) # {} THEN "broken"
        ELSE IF Shown(c) = {} THEN "empty"
        ELSE IF AgeOf(c, now) > StaleAfter THEN "stale"
        ELSE "verified"

FleetVerdict(states) ==
    IF "broken" \in states THEN "broken"
    ELSE IF states \cap {"unreachable", "inconclusive", "stale", "empty"} # {} THEN "incomplete"
    ELSE "verified"

----------------------------------------------------------------------------
(* The host: its writer, its rotation, its anchor passes, its operator.     *)

FleetEvidenceInit ==
    /\ hostSetup \in HostSetups
    /\ origin = EmptyDirectory /\ copy = EmptyDirectory
    /\ writer = [written |-> 0, index |-> 0, prev |-> 0]
    /\ day = 0 /\ delivery = "none"

LiveOf(d) == IF "audit" \in DOMAIN d.files THEN d.files["audit"] ELSE <<>>
Closed(d) == DOMAIN d.files \cap {ClosedNames[i] : i \in DOMAIN ClosedNames}

Keep ==
    /\ delivery # "damaged" /\ writer.written < hostSetup.records
    /\ LET n == writer.written + 1
           r == [hash |-> n, index |-> writer.index, prev |-> writer.prev, good |-> TRUE, day |-> day]
       IN  /\ origin' = [origin EXCEPT !.files = Put(@, "audit", Append(LiveOf(origin), r))]
           /\ writer' = [written |-> n, index |-> writer.index + 1, prev |-> n]
    /\ UNCHANGED <<hostSetup, copy, day, delivery>>

Rotate ==
    /\ delivery # "damaged" /\ LiveOf(origin) # <<>> /\ Cardinality(Closed(origin)) < Len(ClosedNames)
    /\ LET name == ClosedNames[Cardinality(Closed(origin)) + 1]
       IN  origin' = [origin EXCEPT !.files = Put(Less(@, "audit"), name, LiveOf(origin))]
    /\ UNCHANGED <<hostSetup, writer, copy, day, delivery>>

\* resumeChainState finds no file, so the chain starts again.
RestartWriter ==
    /\ delivery # "damaged" /\ hostSetup.restarts /\ "audit" \notin DOMAIN origin.files
    /\ writer' = [writer EXCEPT !.index = 0, !.prev = 0]
    /\ UNCHANGED <<hostSetup, origin, copy, day, delivery>>

\* adoptExistingSegments, in the order of the files' times; a final hash is sealed once.
Adopted(d, order) ==
    LET seal[i \in 0 .. Len(order)] ==
            IF i = 0 THEN d.manifest
            ELSE LET e == EntryOf(order[i], d.files[order[i]])
                 IN  IF \E j \in DOMAIN seal[i - 1] : seal[i - 1][j].final = e.final
                     THEN seal[i - 1] ELSE Append(seal[i - 1], e)
    IN  seal[Len(order)]

AnchorPass(outcome) ==
    /\ delivery # "damaged" /\ "audit" \in DOMAIN origin.files /\ Len(origin.log) < hostSetup.anchors
    /\ \E order \in SetToSeqs(Discovered(origin) \ NamesOf(origin.manifest)) :
         LET manifest == Adopted(origin, order)
         IN  origin' = [origin EXCEPT
                !.manifest = manifest,
                !.log = Append(@, [segments |-> Len(manifest), head |-> HeadOf(manifest, Len(manifest)),
                                   tail |-> TailOf(LiveOf(origin)), outcome |-> outcome,
                                   upTo |-> writer.written])]
    /\ UNCHANGED <<hostSetup, writer, copy, day, delivery>>

Backup ==
    /\ hostSetup.backup /\ LiveOf(origin) # <<>> /\ "audit.bak" \notin DOMAIN origin.files
    /\ origin' = [origin EXCEPT !.files = Put(@, "audit.bak", LiveOf(origin))]
    /\ UNCHANGED <<hostSetup, writer, copy, day, delivery>>

MoveBackupAway ==
    /\ "audit.bak" \in DOMAIN origin.files
    /\ origin' = [origin EXCEPT !.files = Less(@, "audit.bak")]
    /\ UNCHANGED <<hostSetup, writer, copy, day, delivery>>

DayPasses ==
    /\ delivery # "damaged" /\ day < hostSetup.days /\ day' = day + 1
    /\ UNCHANGED <<hostSetup, origin, writer, copy, delivery>>

----------------------------------------------------------------------------
(* The way to the aggregator.                                              *)

DeliverWhole ==
    /\ delivery # "damaged" /\ copy' = origin /\ delivery' = "whole"
    /\ UNCHANGED <<hostSetup, origin, writer, day>>

\* A copy under way: one file has arrived, or the manifest, or the log.
DeliverPart ==
    /\ hostSetup.parts
    /\ \/ \E f \in DOMAIN origin.files : copy' = [copy EXCEPT !.files = Put(@, f, origin.files[f])]
       \/ copy' = [copy EXCEPT !.manifest = origin.manifest]
       \/ copy' = [copy EXCEPT !.log = origin.log]
    /\ copy' # copy /\ delivery # "damaged" /\ delivery' = "part"
    /\ UNCHANGED <<hostSetup, origin, writer, day>>

\* A record no longer reproduces, is gone, or its file is; a behaviour ends there (*bound*).
Damage ==
    /\ hostSetup.damages /\ delivery = "whole" /\ delivery' = "damaged"
    /\ \E f \in DOMAIN copy.files :
         \/ \E k \in DOMAIN copy.files[f] :
              \/ copy' = [copy EXCEPT !.files[f][k].good = FALSE]
              \/ copy' = [copy EXCEPT !.files[f] = RemoveAt(@, k)]
         \/ copy' = [copy EXCEPT !.files = Less(@, f)]
    /\ UNCHANGED <<hostSetup, origin, writer, day>>

FleetEvidenceNext ==
    \/ Keep \/ Rotate \/ RestartWriter \/ Backup \/ MoveBackupAway \/ DayPasses
    \/ \E outcome \in {"failed", "pending", "confirmed"} : AnchorPass(outcome)
    \/ DeliverWhole \/ DeliverPart \/ Damage
FleetEvidenceSpec == FleetEvidenceInit /\ [][FleetEvidenceNext]_evidenceVars
----------------------------------------------------------------------------
(* Properties.                                                             *)

HostReading == ReadHost(copy, day)
InView == Shown(Collected(copy))
HashesAt(d) ==
    UNION {{d.files[f][k].hash : k \in {n \in DOMAIN d.files[f] : d.files[f][n].good}} : f \in DOMAIN d.files}
BackupTook(d) == "audit.bak" \in DOMAIN d.files \cup NamesOf(d.manifest)
WithinCaps(d) == Collected(d) = [i \in DOMAIN RecordFiles(d) |-> d.files[RecordFiles(d)[i]]]
AllSealed(d) == Discovered(d) \subseteq NamesOf(d.manifest)
\* An index stands for one record: the chain went on at every restart.
OneNumbering == \A r \in InView : r.is.index = r.is.hash - 1

\* A host shown as verified has a record younger than the bound, and every
\* record that an anchor of the copied log was taken over is there, and good:
\* what a partial delivery or a damage took away never shows as verified
\* (evidence/fleet.ts readHost, audit/anchor-service.ts runVerify).
VerifiedMeansWhole ==
    HostReading = "verified" =>
        /\ \E r \in InView : day - r.is.day <= StaleAfter
        /\ \A i \in DOMAIN copy.log : (1 .. copy.log[i].upTo) \subseteq HashesAt(copy)

\* A host whose evidence arrived whole, with nothing left beside the chain,
\* everything closed sealed and some anchor accepted if there are any, is
\* verified or stale, by the age of its newest record (evidence/fleet.ts readHost).
HonestIsNoSuspect ==
    /\ delivery = "whole" /\ "audit" \in DOMAIN copy.files
    /\ ~BackupTook(copy) /\ AllSealed(copy) /\ WithinCaps(copy) /\ OneNumbering
    /\ (copy.log # <<>> => \E i \in DOMAIN copy.log : copy.log[i].outcome # "failed")
    => HostReading = IF day - Last(copy.files["audit"]).day > StaleAfter THEN "stale" ELSE "verified"

\* A backup beside a chain that arrived whole is never called tampering, and
\* hides nothing as clean (evidence/fleet.ts:790, tests/fleet-evidence.test.ts:475).
BackupIsNoTampering ==
    /\ delivery = "whole" /\ {"audit", "audit.bak"} \subseteq DOMAIN copy.files /\ WithinCaps(copy)
    => HostReading = "inconclusive"

\* A span shown as anchored ends in a record that an accepted anchor was taken
\* over, if an index stands for one record (evidence/scorecard.ts anchoredStateFor).
CoverIsCommitted ==
    OneNumbering =>
        \A r \in InView :
            LET shown == AnchoredStateFor(copy, r.is.index)
            IN  shown \in {"pass", "pending"} =>
                    \E i \in DOMAIN copy.log :
                        /\ copy.log[i].outcome = IF shown = "pass" THEN "confirmed" ELSE "pending"
                        /\ copy.log[i].upTo >= r.is.hash

\* A session whose chained row passes lacks no record between two of its own in
\* one file; and when every segment is as it was sealed and the linked row passes,
\* none between two of its own in sealed segments
\* (evidence/scorecard.ts chainedStateFor, linkedStateFor).
RowsVouchForOrder ==
    WithinCaps(copy) =>
        \A session \in 0 .. 1 :
            LET mine == {r \in InView : r.is.hash % 2 = session}
                NameOf(r) == RecordFiles(copy)[r.file]
                linked == Linked(copy) /\ LinkedStateFor(copy, {NameOf(r) : r \in mine}) = "pass"
                Vouched(a, b) == a.file = b.file \/ (linked /\ "audit" \notin {NameOf(a), NameOf(b)})
            IN  ChainedStateFor(mine, InView) = "pass" =>
                    \A a, b \in mine :
                        Vouched(a, b) => (a.is.hash .. b.is.hash) \subseteq HashesAt(copy)

\* The fleet is verified when every host is, and broken when any host is: a
\* host nobody could read or judge is never folded into a clean answer
\* (evidence/fleet.ts buildFleetEvidenceReport).
SilenceIsNotClean ==
    LET states == {HostReading, hostSetup.neighbour}
        verdict == FleetVerdict(states)
    IN  /\ verdict = "verified" <=> states = {"verified"}
        /\ verdict = "broken" <=> "broken" \in states

\* What a reviewer reads of a host and of the fleet is true of the evidence.
ReviewersReadTheTruth ==
    /\ VerifiedMeansWhole /\ HonestIsNoSuspect /\ BackupIsNoTampering
    /\ CoverIsCommitted /\ RowsVouchForOrder /\ SilenceIsNotClean

\* HOST_STATE_MEANING, evidence/fleet.ts: a host is empty when its evidence was
\* read and holds no records.
EmptyMeansEmpty == HostReading = "empty" => \A f \in DOMAIN copy.files : copy.files[f] = <<>>

\* readHost's comments, evidence/fleet.ts: a backup that is moved elsewhere again,
\* or an anchor that no calendar took, does not paint a host as tampered with.
NoAlarmWithoutCause ==
    delivery = "whole" /\ "audit.bak" \notin DOMAIN copy.files /\ AllSealed(copy) => HostReading # "broken"
=============================================================================
