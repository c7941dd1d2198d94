------------------------------ MODULE Evidence ------------------------------
(***************************************************************************)
(* What the four verifiers make of one evidence directory: the bundled one *)
(* (audit/anchor-service.ts, rotation.ts) and the independent ones in Go,  *)
(* Python and Rust (verifier/, verifier-py/, verifier-rs/).                *)
(*                                                                         *)
(* Segment i is the i-th file the writer ever filled; closed segment i has *)
(* a name of its own, which rotation never gives again, and the live file  *)
(* is the segment after the closed ones.  A record's hash folds in every   *)
(* record before it, so the hash of record k of segment i is <<i, k>>.     *)
(* The lines of a file are whole and link (AuditLog models what makes them *)
(* so), hence the chained layer is left with the question which file has   *)
(* to be there.  A proof file is there or not; its bytes were parsed       *)
(* before they were kept.                                                  *)
(*                                                                         *)
(* An evidence directory is a record of                                    *)
(*   live      records in the live file, 0 when there is none              *)
(*   closed    per closed segment the records in its file, or Gone         *)
(*   manifest  its entries [seg, n, prev]; torn: a cut line follows them   *)
(*   log       the anchor log: [segments, head, tail, key, error, digest]  *)
(*             or Unreadable                                               *)
(*   proofs    the digests whose proof file is there                       *)
(*   key       the checkpoint key's file                                   *)
(***************************************************************************)
EXTENDS Integers, Sequences, FiniteSets

CONSTANTS Nothing,      \* null: no head, no tail, no key
          Unreadable    \* a line, or a key file, that does not parse

\* What stands for no hash is no hash.
ASSUME EvidenceAssumption == Nothing \notin Nat \X Nat

Gone == -1

Final(entry) == <<entry.seg, entry.n>>
HeadAt(manifest, k) == IF k = 0 THEN Nothing ELSE Final(manifest[k])
SegmentsOf(entries) == {entries[i].seg : i \in DOMAIN entries}
From(manifest, k) == SubSeq(manifest, k + 1, Len(manifest))

\* summarizeSegment: a file that holds no readable record has no shape.
SummarizeSegment(e, i) ==
    IF i > Len(e.closed) THEN IF e.live > 0 THEN <<i, e.live>> ELSE Nothing
    ELSE IF e.closed[i] > 0 THEN <<i, e.closed[i]>> ELSE Nothing

DiscoverClosedSegments(e) == {i \in DOMAIN e.closed : SummarizeSegment(e, i) # Nothing}
Unsealed(e) == DiscoverClosedSegments(e) \ SegmentsOf(e.manifest)

\* Every prefix of a file is a tail a checkpoint may have committed.
PrefixesOf(e, i) ==
    IF SummarizeSegment(e, i) = Nothing THEN {}
    ELSE {<<i, k>> : k \in 1 .. SummarizeSegment(e, i)[2]}
Live(e) == Len(e.closed) + 1

\* Mutant: an entry is checked against its neighbours only.
TrustingManifest(e) ==
    \A i \in DOMAIN e.manifest : e.manifest[i].prev = HeadAt(e.manifest, i - 1)
\* Every entry links to the one before it and matches the file it names.
VerifyManifest(e) ==
    \A i \in DOMAIN e.manifest :
        /\ e.manifest[i].prev = HeadAt(e.manifest, i - 1)
        /\ SummarizeSegment(e, e.manifest[i].seg) = Final(e.manifest[i])

----------------------------------------------------------------------------
(* The bundled verifier.  It skips a manifest line that does not parse.    *)

\* liveTailCandidates: the live file, what closed after the k sealed segments,
\* and what the later entries recorded of files that may be gone.
LiveTailCandidates(e, k) ==
    LET sealedBefore == SegmentsOf(SubSeq(e.manifest, 1, k))
        eligible == {Live(e)} \cup (DiscoverClosedSegments(e) \ sealedBefore)
                        \cup SegmentsOf(From(e.manifest, k))
    IN  (UNION {PrefixesOf(e, i) : i \in eligible})
            \cup {Final(From(e.manifest, k)[i]) : i \in DOMAIN From(e.manifest, k)}

\* The composite a checkpoint signed can be rebuilt from the directory.
Rebuilds(e, a) ==
    /\ a.segments <= Len(e.manifest)
    /\ a.head = HeadAt(e.manifest, a.segments)
    /\ a.tail \in {Nothing} \cup LiveTailCandidates(e, a.segments)

\* What is found of a line of the anchor log; an error needs no proof.
AnchorStands(e, a) ==
    /\ a # Unreadable /\ a.key = e.key /\ Rebuilds(e, a)
    /\ a.error \/ a.digest \in e.proofs

Counted(e) == {i \in DOMAIN e.log : e.log[i] # Unreadable}
Reached(e) == {i \in Counted(e) : ~e.log[i].error}

RunVerify(e) ==
    /\ VerifyManifest(e) /\ Unsealed(e) = {}
    /\ e.key \notin {Nothing, Unreadable}
    /\ \A i \in DOMAIN e.log : AnchorStands(e, e.log[i])
    /\ Reached(e) # {}

----------------------------------------------------------------------------
(* The Go verifier.  It needs the live file, gives up on a manifest with a *)
(* line that does not parse, takes a tail from any file there is, and      *)
(* asks for one anchor with nothing wrong.                                 *)

GoTails(e) ==
    (UNION {PrefixesOf(e, i) : i \in {Live(e)} \cup DiscoverClosedSegments(e)})
        \cup {Final(e.manifest[i]) : i \in DOMAIN e.manifest}

GoCheck(e, a) ==
    /\ a.segments <= Len(e.manifest)
    /\ a.head = HeadAt(e.manifest, a.segments)
    /\ a.tail \in {Nothing} \cup GoTails(e)

EvaluateAnchor(e, a) ==
    /\ a # Unreadable /\ a.key = e.key /\ GoCheck(e, a)
    /\ a.error \/ a.digest \in e.proofs

GoVerify(e) ==
    /\ e.live > 0
    /\ ~e.torn /\ VerifyManifest(e) /\ Unsealed(e) = {}
    /\ \A i \in DOMAIN e.log : EvaluateAnchor(e, e.log[i])
    /\ Reached(e) # {}

----------------------------------------------------------------------------
(* The Python verifier.  A rotated file that is not sealed is a note; a    *)
(* submission that failed sinks the layer.                                 *)

PyBindSegments(e) ==
    \A i \in DOMAIN e.manifest :
        SummarizeSegment(e, e.manifest[i].seg) = Final(e.manifest[i])

PyReadManifest(e) ==
    /\ ~e.torn
    /\ \A i \in DOMAIN e.manifest : e.manifest[i].prev = HeadAt(e.manifest, i - 1)

PyLiveTailCandidates(e, k) ==
    LET later == From(e.manifest, k)
    IN  (UNION {PrefixesOf(e, i) : i \in {Live(e)} \cup Unsealed(e) \cup SegmentsOf(later)})
            \cup {Final(later[i]) : i \in DOMAIN later}

PySettle(e, a) ==
    /\ a # Unreadable /\ ~a.error /\ a.digest \in e.proofs
    /\ a.key = e.key
    /\ a.segments <= Len(e.manifest)
    /\ a.head = HeadAt(e.manifest, a.segments)
    /\ a.tail \in {Nothing} \cup PyLiveTailCandidates(e, a.segments)

PyVerify(e) ==
    /\ PyReadManifest(e) /\ PyBindSegments(e)
    /\ e.log # <<>> /\ \A i \in DOMAIN e.log : PySettle(e, e.log[i])

----------------------------------------------------------------------------
(* The Rust verifier.  As the Python one, but it needs the live file.      *)

RsLoad(e) ==
    /\ ~e.torn
    /\ \A i \in DOMAIN e.manifest : e.manifest[i].prev = HeadAt(e.manifest, i - 1)

RsCheckAgainstDisk(e) ==
    \A i \in DOMAIN e.manifest :
        SummarizeSegment(e, e.manifest[i].seg) = Final(e.manifest[i])

RsTailCandidates(e, k) ==
    LET later == From(e.manifest, k)
    IN  (UNION {PrefixesOf(e, i) : i \in {Live(e)} \cup Unsealed(e) \cup SegmentsOf(later)})
            \cup {Final(later[i]) : i \in DOMAIN later}

RsCheckRecord(e, a) ==
    /\ a # Unreadable /\ ~a.error /\ a.digest \in e.proofs
    /\ a.key = e.key
    /\ a.segments <= Len(e.manifest)
    /\ a.head = HeadAt(e.manifest, a.segments)
    /\ a.tail \in {Nothing} \cup RsTailCandidates(e, a.segments)

RsVerify(e) ==
    /\ e.live > 0
    /\ RsLoad(e) /\ RsCheckAgainstDisk(e)
    /\ e.log # <<>> /\ \A i \in DOMAIN e.log : RsCheckRecord(e, e.log[i])
=============================================================================
