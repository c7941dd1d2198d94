------------------------------ MODULE Lockdown ------------------------------
(***************************************************************************)
(* The emergency stop (runtime/lockdown.ts): a hold per source, engaged    *)
(* and released only by the channel that owns the source.  The stop is     *)
(* active while any source holds it.  The audit record of a transition,    *)
(* which can fail without touching it, is AuditLog's matter.               *)
(***************************************************************************)
EXTENDS Integers, Sequences, FiniteSets

CONSTANTS
    MaxStops,       \* bound: requests, signals and files that engage the stop
    MaxFsErrors     \* bound: polls that meet a file system error

ASSUME LockdownAssumption ==
    MaxStops \in Nat /\ MaxFsErrors \in Nat

VARIABLES
    holds,          \* the sources that hold the stop
    since,          \* a period is open: since when is reported
    sentinel,       \* the sentinel file exists
    stops, fsErrors

lockVars == <<holds, since, sentinel, stops, fsErrors>>

Active == holds # {}

-----------------------------------------------------------------------------

\* engageLockdown: nothing at all for a source that already holds.
Engage(source) ==
    IF source \in holds THEN UNCHANGED <<holds, since>>
    ELSE /\ holds' = holds \cup {source}
         /\ since' = TRUE

\* releaseLockdown: one source's hold.
Release(source) ==
    IF source \notin holds THEN UNCHANGED <<holds, since>>
    ELSE /\ holds' = holds \ {source}
         /\ since' = (since /\ holds' # {})

\* Bound: only what can engage the stop is counted.
Counted(engages) ==
    /\ engages => stops < MaxStops
    /\ stops' = IF engages THEN stops + 1 ELSE stops

\* POST and DELETE /lockdown act as source api.
ApiEngage == Counted(TRUE) /\ Engage("api") /\ UNCHANGED <<sentinel, fsErrors>>
ApiRelease == Counted(FALSE) /\ Release("api") /\ UNCHANGED <<sentinel, fsErrors>>

\* SIGUSR1 toggles source signal.
Signal ==
    /\ Counted("signal" \notin holds)
    /\ IF "signal" \in holds THEN Release("signal") ELSE Engage("signal")
    /\ UNCHANGED <<sentinel, fsErrors>>

\* An operator creates or removes the sentinel file.
TouchSentinel ==
    /\ Counted(~sentinel)
    /\ sentinel' = ~sentinel
    /\ UNCHANGED <<holds, since, fsErrors>>

\* pollSentinel follows the file.
PollSentinel ==
    /\ sentinel # ("sentinel" \in holds)
    /\ IF sentinel THEN Engage("sentinel") ELSE Release("sentinel")
    /\ UNCHANGED <<sentinel, stops, fsErrors>>

\* A poll that cannot read the directory: existsSync answers FALSE, it does not
\* throw, so the branch that would leave the state alone is never taken.
PollSentinelError ==
    /\ sentinel /\ "sentinel" \in holds
    /\ fsErrors < MaxFsErrors
    /\ fsErrors' = fsErrors + 1
    /\ Release("sentinel")
    /\ UNCHANGED <<sentinel, stops>>

\* initLockdown: the configured hold and a first poll of the sentinel.
LockdownInit ==
    /\ sentinel \in BOOLEAN
    /\ holds \in {s \cup (IF sentinel THEN {"sentinel"} ELSE {}) : s \in {{}, {"config"}}}
    /\ since = (holds # {})
    /\ stops = 0 /\ fsErrors = 0

LockdownNext ==
    \/ ApiEngage \/ ApiRelease \/ Signal \/ TouchSentinel
    \/ PollSentinel \/ PollSentinelError

-----------------------------------------------------------------------------
(* Properties.                                                             *)

LockdownTypeOK ==
    /\ holds \subseteq {"config", "api", "signal", "sentinel"} /\ sentinel \in BOOLEAN
    /\ since = (holds # {})
    /\ stops \in 0..MaxStops /\ fsErrors \in 0..MaxFsErrors

\* A sentinel file that stays in place stops the service, whatever releases the
\* other channels send.
SentinelStops == sentinel ~> (Active \/ ~sentinel)

\* Code comment, pollSentinel: "Unknown is not absent": a hold the sentinel file
\* engaged is not lifted while the file is there.
SentinelKeepsHold ==
    [][sentinel /\ sentinel' /\ "sentinel" \in holds => "sentinel" \in holds']_lockVars

=============================================================================
