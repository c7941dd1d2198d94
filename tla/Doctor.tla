-------------------------------- MODULE Doctor --------------------------------
(***************************************************************************)
(* The capture section of `agentwall doctor` (cli.ts) over what it reads of *)
(* the chain (evidence/capture.ts).  A run reads its bookmark, reads the     *)
(* chain, moves the bookmark to the end of what it read and only then says   *)
(* its verdict; the service goes on recording meanwhile, two runs may        *)
(* overlap, and each happens in a shell that may or may not hold the         *)
(* variables the fleet's credentials are read from.                         *)
(***************************************************************************)
EXTENDS Integers, Sequences, FiniteSets, SequencesExt

CONSTANTS Runs,        \* runs of doctor
          DoctorSetups, \* [shells, egress, replaced]: where runs happen, what is recorded, or whether
                        \* the chain may be replaced
          ReadCap,     \* READ_LIMITS.records
          MaxRecords   \* bound on the chain

VARIABLES doctorSetup,
          recorded,  \* the chain: its records' kinds, the n-th of chain index n - 1
          replaced,  \* how often it was replaced; the chain of a bookmark is this number
          bookmark,  \* capture-watermark.json: [index, of]
          run,       \* per run [step, shell, since, read]
          said       \* the runs that moved the bookmark: [run, of, floor, end, how, exit]

doctorVars == <<doctorSetup, recorded, replaced, bookmark, run, said>>

NoBookmark == [index |-> -1, of |-> 0]
NotRead == [kinds |-> <<>>, of |-> 0]
\* An egress record no declared agent claims: "escape" under a posture that refuses it, "permitted"
\* under one that does not, "refused" by enforcement; "declared" and "other" are not undeclared.
Undeclared == {"escape", "permitted", "refused"}
Egress == Undeclared \cup {"declared"}

(***************************************************************************)
(* evidence/capture.ts                                                     *)
(***************************************************************************)
\* readSightings: newest first, so what the cap leaves out is the oldest.
Sightings(kinds) ==
    {n \in DOMAIN kinds : /\ kinds[n] \in Egress
                          /\ Cardinality({m \in n + 1..Len(kinds) : kinds[m] \in Egress}) < ReadCap}
\* readCaptureHealth: a bookmark ahead of the chain is discarded, which leaves no previous run.
Since(since, kinds) == IF Len(kinds) > 0 /\ Len(kinds) - 1 < since THEN -1 ELSE since
\* A sighting counted since the last run, of one kind; with no fleet declared none is undeclared.
NewOnes(kind, kinds, floor, declared) ==
    {n \in Sightings(kinds) : declared /\ kinds[n] = kind /\ n - 1 > floor}

(***************************************************************************)
(* collectDoctorCapture, renderCaptureSection and commandDoctor            *)
(***************************************************************************)
\* loadDoctorFleet: the fleet is declared only to a shell that can read the whole of it.
FleetDeclared(r) == run[r].shell = "set"
Floor(r) == Since(run[r].since, run[r].read.kinds)
\* Mutant: the bookmark moves to where the chain ends now and not to the end of what was read.
EndOfChain(r) == Len(recorded) - 1
\* The highest chain index of the records read, whatever they are about.
ReadTo(r) == Len(run[r].read.kinds) - 1
New(r, kind) == NewOnes(kind, run[r].read.kinds, Floor(r), FleetDeclared(r))
\* What renderCaptureSection counts as a failure: against a previous run only.
Failed(r) == run[r].shell = "unparsable" \/ (Floor(r) >= 0 /\ New(r, "escape") # {})
\* The verdict collectDoctorCapture reaches of what was no failure.
Inconclusive(r) == (Floor(r) >= 0 /\ New(r, "permitted") # {}) \/ run[r].shell = "unset"
\* 0 clear, 1 failed, 2 inconclusive.
DoctorExit(r) == IF Failed(r) THEN 1 ELSE IF Inconclusive(r) THEN 2 ELSE 0

ReadBookmark(r, shell) ==
    /\ run[r].step = "idle"
    /\ run' = [run EXCEPT ![r] = [step |-> "since", shell |-> shell, since |-> bookmark.index, read |-> NotRead]]
    /\ UNCHANGED <<doctorSetup, recorded, replaced, bookmark, said>>
ReadChain(r) ==
    /\ run[r].step = "since" /\ Len(recorded) > 0
    /\ run' = [run EXCEPT ![r].step = "read", ![r].read = [kinds |-> recorded, of |-> replaced]]
    /\ UNCHANGED <<doctorSetup, recorded, replaced, bookmark, said>>
\* What came of the run, for the properties.
HowRead(r) == CASE Floor(r) < 0 -> "baseline" [] ~FleetDeclared(r) -> "unassessed" [] OTHER -> "assessed"
\* The bookmark is moved before anything is said.
MoveBookmark(r) ==
    /\ run[r].step = "read"
    /\ bookmark' = [index |-> ReadTo(r), of |-> run[r].read.of]
    /\ said' = said \cup {[run |-> r, of |-> run[r].read.of, floor |-> Floor(r), end |-> ReadTo(r),
                           how |-> HowRead(r), exit |-> -1]}
    /\ run' = [run EXCEPT ![r].step = "moved"]
    /\ UNCHANGED <<doctorSetup, recorded, replaced>>
SayVerdict(r) ==
    /\ run[r].step = "moved"
    /\ said' = {IF s.run = r THEN [s EXCEPT !.exit = DoctorExit(r)] ELSE s : s \in said}
    /\ run' = [run EXCEPT ![r].step = "done"]
    /\ UNCHANGED <<doctorSetup, recorded, replaced, bookmark>>
\* The bookmark cannot be written: inconclusive, unless something worse was found.
BookmarkStays(r) ==
    /\ run[r].step = "read" /\ run' = [run EXCEPT ![r].step = "done"]
    /\ UNCHANGED <<doctorSetup, recorded, replaced, bookmark, said>>

\* The service files a record; the operator replaces the chain.
ServiceFiles(kind) ==
    /\ Len(recorded) < MaxRecords /\ recorded' = Append(recorded, kind)
    /\ UNCHANGED <<doctorSetup, replaced, bookmark, run, said>>
ReplaceChain ==
    /\ doctorSetup.replaced /\ replaced = 0 /\ recorded' = <<>> /\ replaced' = 1
    /\ UNCHANGED <<doctorSetup, bookmark, run, said>>

DoctorInit ==
    /\ doctorSetup \in DoctorSetups
    /\ recorded = <<>> /\ replaced = 0 /\ bookmark = NoBookmark /\ said = {}
    /\ run = [r \in Runs |-> [step |-> "idle", shell |-> "set", since |-> -1, read |-> NotRead]]
DoctorNext ==
    \/ \E r \in Runs :
          \/ \E shell \in doctorSetup.shells : ReadBookmark(r, shell)
          \/ ReadChain(r) \/ MoveBookmark(r) \/ SayVerdict(r) \/ BookmarkStays(r)
    \/ \E kind \in doctorSetup.egress : ServiceFiles(kind)
    \/ ReplaceChain

(***************************************************************************)
(* Properties                                                              *)
(***************************************************************************)
Covers(s, n) == s.of = replaced /\ s.floor < n - 1 /\ n - 1 <= s.end
\* An escape the bookmark has passed was in what some run read of that chain after its own bookmark;
\* and a run that assessed it and lived to speak failed, however runs overlapped with each other
\* and with the recording (unless more egress than a run reads came after it).
EscapesAreAlarmed ==
    /\ \A n \in DOMAIN recorded :
          recorded[n] = "escape" /\ bookmark.of = replaced /\ n - 1 <= bookmark.index =>
              \E s \in said : Covers(s, n) \/ (s.of = replaced /\ s.floor >= 0 /\ replaced > 0)
    /\ \A s \in said : s.how = "assessed" /\ s.exit >= 0 /\ s.exit # 1 =>
          ~\E n \in DOMAIN recorded :
              /\ Covers(s, n) /\ recorded[n] = "escape"
              /\ Cardinality({m \in n + 1..s.end + 1 : recorded[m] \in Egress}) < ReadCap
\* "No agent was assessed. Re-run with the variable set to get an answer" (cli.ts): a clear run says
\* that nothing escaped since the last run that gave an answer.
RerunAnswers ==
    \A s \in said : s.exit = 0 /\ s.how = "assessed" =>
        ~\E n \in DOMAIN recorded :
            /\ recorded[n] = "escape" /\ s.of = replaced /\ n - 1 <= s.end
            /\ {q.how : q \in {t \in said : t.exit >= 0 /\ Covers(t, n)}} = {"unassessed"}
=============================================================================
