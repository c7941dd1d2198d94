------------------------------- MODULE Anchor -------------------------------
(***************************************************************************)
(* Anchor passes over rotated segments: audit/anchor-service.ts            *)
(* (runAnchorPass, startAnchorSchedule), rotation.ts, signing.ts and       *)
(* anchor.ts.  Passes run on a timer and on request inside the server and  *)
(* in `agentwall anchor`, a process of its own.  A pass seals what         *)
(* rotation closed, signs a checkpoint over the manifest head and the live *)
(* tail, and waits for a calendar; only that wait lets another pass of the *)
(* same process run.  Rotation itself is external, a rename of the live    *)
(* file.  A process may be killed inside any write, and a closed file may  *)
(* be lost or cut short, as log retention does.                            *)
(*                                                                         *)
(* Segments close in the order of their mtimes, and manifest entries are   *)
(* of one length, so a write over a longer file leaves whole entries.      *)
(***************************************************************************)
EXTENDS Evidence, FiniteSetsExt

CONSTANTS Passes,       \* the passes that may be under way at a time
          Processes,
          ProcessOf,    \* the process a pass runs in
          KeyOnFile,    \* the key of a deployment that has anchored before
          Setups

\* A set-up bounds the passes started, the segments closed, the records of a
\* file, the kills and the losses, and says which passes run and if a key is there.
\* A key that a pass creates is named after it.
ASSUME SetupAssumption ==
    /\ ProcessOf \in [Passes -> Processes] /\ Nothing \notin Passes
    /\ \A s \in Setups : s.passes \subseteq Passes /\ s.keyed \in BOOLEAN
        /\ {s.started, s.segments, s.records, s.kills, s.losses} \subseteq Nat

VARIABLES setup,
          live, closed, manifest, torn, key, anchorLog, proofs,   \* the directory
          cut,          \* the last line of the log has no end
          at, todo, seen, checkpoint, ok,   \* per pass, see Step
          started, deaths, lost

disk == <<live, closed, manifest, torn, key, anchorLog, cut, proofs>>
pass == <<at, todo, seen, checkpoint, ok>>
bounds == <<setup, started, deaths, lost>>
anchorVars == <<disk, pass, bounds>>

Directory == [live |-> live, closed |-> closed, manifest |-> manifest, torn |-> torn,
              log |-> anchorLog, proofs |-> proofs, key |-> key]

Alone == \A p, q \in setup.passes : ProcessOf[p] = ProcessOf[q]
NoCheckpoint == [segments |-> 0, head |-> Nothing, tail |-> Nothing, key |-> Nothing,
                 digest |-> 0, covers |-> {}]

AnchorInit ==
    /\ setup \in Setups
    /\ live = 0 /\ closed = <<>> /\ manifest = <<>> /\ torn = FALSE
    /\ key = IF setup.keyed THEN KeyOnFile ELSE Nothing
    /\ anchorLog = <<>> /\ cut = FALSE /\ proofs = {}
    /\ at = [p \in Passes |-> "idle"] /\ todo = [p \in Passes |-> {}]
    /\ seen = [p \in Passes |-> <<>>] /\ checkpoint = [p \in Passes |-> NoCheckpoint]
    /\ ok = [p \in Passes |-> FALSE]
    /\ started = 0 /\ deaths = 0 /\ lost = {}

----------------------------------------------------------------------------
(* A pass.  Between its start and its wait nothing of its process runs.    *)

InStretch(p) == at[p] \notin {"idle", "wait", "append"}
Turn(process) == \A q \in Passes : ProcessOf[q] = process => ~InStretch(q)
Go(p, label) == at' = [at EXCEPT ![p] = label]

\* An audit file must be there; the closed files are listed once.
Start(p) ==
    /\ at[p] = "idle" /\ Turn(ProcessOf[p])
    /\ p \in setup.passes /\ started < setup.started
    /\ live > 0
    /\ todo' = [todo EXCEPT ![p] = DiscoverClosedSegments(Directory)]
    /\ checkpoint' = [checkpoint EXCEPT ![p] = [NoCheckpoint EXCEPT !.digest = started + 1]]
    /\ started' = started + 1 /\ Go(p, "seal")
    /\ UNCHANGED <<disk, seen, ok, setup, deaths, lost>>

AlreadySealed(final) == \E i \in DOMAIN manifest : Final(manifest[i]) = final

\* sealSegment, oldest file first: read the manifest, skip what is in it, and prepare the new one.
SealSegment(p) ==
    /\ at[p] = "seal" /\ todo[p] # {}
    /\ LET i == Min(todo[p])
           final == SummarizeSegment(Directory, i)
           skip == IF final = Nothing THEN TRUE ELSE AlreadySealed(final)
           entry == [seg |-> i, n |-> final[2], prev |-> HeadAt(manifest, Len(manifest))]
       IN  /\ todo' = [todo EXCEPT ![p] = @ \ {i}]
           /\ IF skip THEN UNCHANGED <<seen, at>>
              ELSE seen' = [seen EXCEPT ![p] = Append(manifest, entry)] /\ Go(p, "open")
    /\ UNCHANGED <<disk, checkpoint, ok, bounds>>

\* writeFileSync: the file is emptied, then written from its start.
OpenManifest(p) ==
    /\ at[p] = "open"
    /\ manifest' = <<>> /\ torn' = FALSE /\ Go(p, "write")
    /\ UNCHANGED <<live, closed, key, anchorLog, cut, proofs, todo, seen, checkpoint, ok, bounds>>

WriteManifest(p) ==
    /\ at[p] = "write"
    /\ manifest' = seen[p] \o From(manifest, Len(seen[p]))
    /\ seen' = [seen EXCEPT ![p] = <<>>] /\ Go(p, "seal")
    /\ UNCHANGED <<live, closed, torn, key, anchorLog, cut, proofs, todo, checkpoint, ok, bounds>>

\* verifyManifest gives the head to commit; its problems are not looked at.
Checkpoint(p) ==
    /\ at[p] = "seal" /\ todo[p] = {}
    /\ checkpoint' = [checkpoint EXCEPT
            ![p].segments = Len(manifest), ![p].head = HeadAt(manifest, Len(manifest)),
            ![p].covers = {Final(manifest[i]) : i \in DOMAIN manifest}]
    /\ Go(p, "tail")
    /\ UNCHANGED <<disk, todo, seen, ok, bounds>>

\* The live file is summarised; with no head either there is nothing to anchor.
LiveTail(p) ==
    /\ at[p] = "tail"
    /\ LET tail == SummarizeSegment(Directory, Live(Directory)) IN
       /\ checkpoint' = [checkpoint EXCEPT ![p].tail = tail,
                ![p].covers = @ \cup ({tail} \ {Nothing})]
       /\ Go(p, IF tail = Nothing /\ checkpoint[p].head = Nothing THEN "idle" ELSE "key")
    /\ UNCHANGED <<disk, todo, seen, ok, bounds>>

\* loadOrCreateKeys: a key on file that cannot be read ends the pass.
LoadKey(p) ==
    /\ at[p] = "key"
    /\ checkpoint' = [checkpoint EXCEPT ![p].key = key]
    /\ Go(p, IF key = Nothing THEN "create" ELSE IF key = Unreadable THEN "idle" ELSE "wait")
    /\ UNCHANGED <<disk, todo, seen, ok, bounds>>

CreateKey(p) ==
    /\ at[p] = "create"
    /\ key' = p /\ checkpoint' = [checkpoint EXCEPT ![p].key = p] /\ Go(p, "wait")
    /\ UNCHANGED <<live, closed, manifest, torn, anchorLog, cut, proofs, todo, seen, ok, bounds>>

\* Mutant: the proof is named after the sealed segments, not after the digest.
NamedAfterCount(c) == c.segments
ProofName(c) == c.digest

\* anchorToOpenTimestamps: a calendar answered, its proof is kept; or none did.
Answer(p, reached) ==
    /\ at[p] = "wait" /\ Turn(ProcessOf[p])
    /\ ok' = [ok EXCEPT ![p] = reached]
    /\ proofs' = IF reached THEN proofs \cup {ProofName(checkpoint[p])} ELSE proofs
    /\ Go(p, "append")
    /\ UNCHANGED <<live, closed, manifest, torn, key, anchorLog, cut, todo, seen, checkpoint, bounds>>

\* The record is appended; behind a line without an end it is part of that line.
AnchorLine(p) == [segments |-> checkpoint[p].segments, head |-> checkpoint[p].head,
            tail |-> checkpoint[p].tail, key |-> checkpoint[p].key,
            error |-> ~ok[p], digest |-> checkpoint[p].digest, covers |-> checkpoint[p].covers]
AppendAnchor(p) ==
    /\ at[p] = "append" /\ Turn(ProcessOf[p])
    /\ anchorLog' = IF cut THEN anchorLog ELSE Append(anchorLog, AnchorLine(p))
    /\ cut' = FALSE /\ Go(p, "idle")
    /\ UNCHANGED <<live, closed, manifest, torn, key, proofs, todo, seen, checkpoint, ok, bounds>>

----------------------------------------------------------------------------
(* The rest of the host.                                                   *)

\* The server appends a record: never inside a stretch of its own.
Record ==
    /\ live < setup.records
    /\ \A p \in Passes : ProcessOf[p] = "server" => ~InStretch(p)
    /\ live' = live + 1
    /\ UNCHANGED <<closed, manifest, torn, key, anchorLog, cut, proofs, pass, bounds>>

Rotate ==
    /\ live > 0 /\ Len(closed) < setup.segments
    /\ closed' = Append(closed, live) /\ live' = 0
    /\ UNCHANGED <<manifest, torn, key, anchorLog, cut, proofs, pass, bounds>>

\* A closed file is removed, or keeps its first n records only.
Damage(i, n) ==
    /\ Cardinality(lost) < setup.losses
    /\ n < closed[i]
    /\ closed' = [closed EXCEPT ![i] = n] /\ lost' = lost \cup {i}
    /\ UNCHANGED <<live, manifest, torn, key, anchorLog, cut, proofs, pass, setup, started, deaths>>

\* What a write leaves behind when its process is killed inside it.
LeftOfManifest(p) ==
    IF at[p] # "write" THEN UNCHANGED <<manifest, torn>>
    ELSE \E k \in 0 .. Len(seen[p]) :
            /\ manifest' = SubSeq(seen[p], 1, k)
            /\ torn' \in IF k < Len(seen[p]) THEN BOOLEAN ELSE {FALSE}
LeftOfKey(p) == key' \in IF at[p] = "create" THEN {key, Unreadable} ELSE {key}
LeftOfLog(p) ==
    \/ UNCHANGED <<anchorLog, cut>>
    \/ at[p] = "append" /\ anchorLog' = (IF cut THEN anchorLog ELSE Append(anchorLog, Unreadable)) /\ cut' = TRUE

\* The process dies at pass p; its other passes wait or are idle and die with it.
KillPass(p) ==
    /\ deaths < setup.kills /\ at[p] # "idle"
    /\ \A q \in Passes \ {p} : ProcessOf[q] = ProcessOf[p] => ~InStretch(q)
    /\ LeftOfManifest(p) /\ LeftOfKey(p) /\ LeftOfLog(p)
    /\ at' = [q \in Passes |-> IF ProcessOf[q] = ProcessOf[p] THEN "idle" ELSE at[q]]
    /\ seen' = [q \in Passes |-> IF ProcessOf[q] = ProcessOf[p] THEN <<>> ELSE seen[q]]
    /\ todo' = [q \in Passes |-> IF ProcessOf[q] = ProcessOf[p] THEN {} ELSE todo[q]]
    /\ deaths' = deaths + 1
    /\ UNCHANGED <<live, closed, proofs, checkpoint, ok, setup, started, lost>>

Step(p) ==
    \/ Start(p) \/ SealSegment(p) \/ OpenManifest(p) \/ WriteManifest(p)
    \/ Checkpoint(p) \/ LiveTail(p) \/ LoadKey(p) \/ CreateKey(p)
    \/ \E reached \in BOOLEAN : Answer(p, reached)
    \/ AppendAnchor(p)

AnchorNext ==
    \/ \E p \in Passes : Step(p) \/ KillPass(p)
    \/ Record \/ Rotate
    \/ \E i \in DOMAIN closed : \E n \in Gone .. 1 : Damage(i, n)

AnchorSpec == AnchorInit /\ [][AnchorNext]_anchorVars

----------------------------------------------------------------------------
\* A death inside a rewrite may shorten the manifest, and the pass that seals
\* again puts every segment back where it was: with one process and no file lost,
\* the entries are the first closed segments, in rotation order, rightly linked,
\* also while a pass rewrites them (rotation.ts:158 sealSegment).
SealedInOrder ==
    Alone /\ lost = {} => \A i \in DOMAIN manifest :
        /\ i \in DOMAIN closed
        /\ manifest[i] = [seg |-> i, n |-> closed[i], prev |-> HeadAt(manifest, i - 1)]

\* However passes overlap, records grow and files rotate, what one process logged
\* stands: the composite it signed rebuilds, its proof and its key are there,
\* unless the manifest is short; and a pass that has sealed makes it long enough
\* again (anchor-service.ts:392 runVerify's third layer).
AnchorsStand ==
    Alone /\ lost = {} =>
        /\ \A i \in Counted(Directory) :
             anchorLog[i].segments <= Len(manifest) => AnchorStands(Directory, anchorLog[i])
        /\ (\E p \in Passes : at[p] = "key") =>
             \A i \in Counted(Directory) : anchorLog[i].segments <= Len(manifest)

\* What the pipeline leaves behind stands: one manifest in order, and each anchor
\* provable by its proof.
EvidenceStands == SealedInOrder /\ AnchorsStand

\* Whatever passes, kills and other processes did, evidence an anchor names cannot
\* go missing unnoticed: once a record of the segment it names as head or tail is no
\* longer on disk the bundled verifier fails, and, while one process anchors and no
\* death has cost the manifest its entries, so it does for a record of any segment
\* sealed before (rotation.ts:216 verifyManifest, anchor-service.ts:330 runVerify).
Missing(c) == c[2] > IF c[1] > Len(closed) THEN live ELSE closed[c[1]]
LossIsReported ==
    (\E i \in Counted(Directory) :
        \/ \E c \in {anchorLog[i].head, anchorLog[i].tail} \ {Nothing} : Missing(c)
        \/ Alone /\ deaths = 0 /\ \E c \in anchorLog[i].covers : Missing(c))
    => ~RunVerify(Directory)

\* Where nothing is half done - a live file, every rotated file sealed, no cut
\* manifest line, a readable key, no submission that failed - and the entries stand in
\* the order of rotation, the bundled verifier and the Go, Python and Rust ones reach
\* one verdict, also on evidence that was damaged or written by two processes at once
\* (docs/audit-format.md:29).
InRotationOrder == \A i, j \in DOMAIN manifest : i < j => manifest[i].seg < manifest[j].seg
VerifiersAgree ==
    /\ live > 0 /\ Unsealed(Directory) = {} /\ ~torn /\ InRotationOrder
    /\ key \notin {Nothing, Unreadable}
    /\ \A i \in Counted(Directory) : ~anchorLog[i].error
    => /\ RunVerify(Directory) <=> GoVerify(Directory)
       /\ RunVerify(Directory) <=> PyVerify(Directory)
       /\ RunVerify(Directory) <=> RsVerify(Directory)

\* A reader of the evidence learns of a loss, from whichever verifier it asks.
VerifiersTellLoss == LossIsReported /\ VerifiersAgree

\* What anchor-service.ts says of the manifest, that it is append-only, hence the
\* entries after a checkpoint are those sealed since: while no pass is writing, the
\* head of every logged checkpoint is where it was (anchor-service.ts:193).
ManifestIsAppendOnly ==
    (\A p \in Passes : ~InStretch(p)) /\ deaths = 0 =>
        \A i \in Counted(Directory) :
            /\ anchorLog[i].segments <= Len(manifest)
            /\ anchorLog[i].head = HeadAt(manifest, anchorLog[i].segments)

\* That they agree in any order of entries: two processes that seal at once can leave
\* a later segment first, and then the Go verifier alone takes its records for a tail.
VerifiersAgreeAnyway ==
    /\ live > 0 /\ Unsealed(Directory) = {} /\ ~torn
    /\ key \notin {Nothing, Unreadable}
    /\ \A i \in Counted(Directory) : ~anchorLog[i].error
    => RunVerify(Directory) <=> GoVerify(Directory)

\* What rotation.ts says of anchoring: that the manifest head covers all history.
\* Records of a segment sealed before an anchor are missed whenever they are gone.
AnchorCoversHistory ==
    (\E i \in Counted(Directory) : \E c \in anchorLog[i].covers : Missing(c))
        => ~RunVerify(Directory)
=============================================================================
