----------------------------- MODULE WriterLock -----------------------------
(***************************************************************************)
(* Who may append to the audit file: the boot sequence of every process    *)
(* that opens it (server.ts, mcp/wrap.ts), claimWriter and its release     *)
(* handlers (audit/file-sink.ts), one system call per step.                *)
(*                                                                         *)
(* A process is its pid; a pid that boots again after a death is a process *)
(* that was handed the same number, as pid 1 of a container always is.     *)
(***************************************************************************)
EXTENDS Integers, Sequences, TLC

CONSTANTS
    Procs,          \* pids that run agentwall
    Named,          \* those whose argv contains "agentwall"
    Overlap,        \* may a process start or stop while another is doing so?
    NoLock,         \* the lock file does not exist
    Empty,          \* the lock file exists and holds no pid
    MaxBoots,       \* bound: boots
    MaxAppends      \* bound: records appended

ASSUME LockAssumption ==
    /\ Named \subseteq Procs
    /\ Overlap \in BOOLEAN
    /\ NoLock \notin Procs /\ Empty \notin Procs /\ NoLock # Empty
    /\ MaxBoots \in Nat /\ MaxAppends \in Nat

VARIABLES
    place,             \* place[p]: where p is in its life, see Stages
    lock,           \* the lock file: NoLock, Empty or a pid
    owner,          \* owner[p]: what p read from the lock
    seed,           \* seed[p]: the number of records p believes are on file
    log,            \* the audit file: each record's chainIndex
    boots           \* boots so far

lockVars == <<place, lock, owner, seed, log, boots>>

\* off; resume (about to read the tail); open (about to open the lock O_EXCL);
\* stamp (created it, pid not written yet); read (O_EXCL failed); classify;
\* take (about to overwrite the lock); writer; exiting (SIGTERM handler has
\* released once, the "exit" handler has not run).
Stages == {"off", "resume", "open", "stamp", "read", "classify", "take",
           "writer", "exiting"}

Alive(p) == place[p] # "off"
Steady(p) == place[p] \in {"off", "writer"}
Writers == {p \in Procs : place[p] = "writer"}

\* Without overlap, a service manager starts or stops one process at a time;
\* a second one may still be started by hand beside a running writer.
MayTurn(p) == Overlap \/ \A q \in Procs \ {p} : Steady(q)

Goto(p, stage) == place' = [place EXCEPT ![p] = stage]

-----------------------------------------------------------------------------
BootProcess(p) ==
    /\ place[p] = "off"
    /\ boots < MaxBoots
    /\ MayTurn(p)
    /\ Goto(p, "resume")
    /\ boots' = boots + 1
    /\ UNCHANGED <<lock, owner, seed, log>>

\* resumeChainState and seedAuditChain, before createFileSink.
Resume(p) ==
    /\ place[p] = "resume"
    /\ seed' = [seed EXCEPT ![p] = Len(log)]
    /\ Goto(p, "open")
    /\ UNCHANGED <<lock, owner, log, boots>>

\* openSync(lock, "wx").
OpenLock(p) ==
    /\ place[p] = "open"
    /\ IF lock = NoLock
         THEN lock' = Empty /\ Goto(p, "stamp")
         ELSE UNCHANGED lock /\ Goto(p, "read")
    /\ UNCHANGED <<owner, seed, log, boots>>

\* writeFileSync(lock, pid): it opens with O_CREAT, whoever owns the file now.
Stamp(p) ==
    /\ place[p] \in {"stamp", "take"}
    /\ lock' = p
    /\ Goto(p, "writer")
    /\ UNCHANGED <<owner, seed, log, boots>>

\* readFileSync(lock): an unreadable or garbled lock is treated as stale.
ReadLock(p) ==
    /\ place[p] = "read"
    /\ owner' = [owner EXCEPT ![p] = lock]
    /\ Goto(p, IF lock \in Procs THEN "classify" ELSE "take")
    /\ UNCHANGED <<lock, seed, log, boots>>

\* Mutant: an unverifiable identity is taken for a stranger's.
ClassifyAliveRoundsDown(p) ==
    /\ place[p] = "classify" /\ Alive(owner[p])
    /\ \/ Goto(p, IF owner[p] \in Named THEN "off" ELSE "take")
       \/ Goto(p, "take")
    /\ UNCHANGED <<lock, owner, seed, log, boots>>

\* classifyLockOwner on a pid an agentwall still runs under: "holding" when its
\* argv names it and "recycled" when it does not, or "indeterminate" when /proc
\* cannot be read.
ClassifyAlive(p) ==
    /\ place[p] = "classify" /\ Alive(owner[p])
    /\ \/ Goto(p, IF owner[p] \in Named THEN "off" ELSE "take")
       \/ Goto(p, "off")
    /\ UNCHANGED <<lock, owner, seed, log, boots>>

\* classifyLockOwner on a pid no agentwall writer runs under: "gone", or handed
\* to another process, which may be a stranger ("recycled"), unreadable
\* ("indeterminate") or another agentwall command ("holding").
ClassifyDead(p) ==
    /\ place[p] = "classify" /\ ~Alive(owner[p])
    /\ \E stage \in {"take", "off"} : Goto(p, stage)
    /\ UNCHANGED <<lock, owner, seed, log, boots>>

-----------------------------------------------------------------------------
\* emit() on the process's own chain state.
AppendRecord(p) ==
    /\ place[p] = "writer"
    /\ Len(log) < MaxAppends
    /\ log' = Append(log, seed[p])
    /\ seed' = [seed EXCEPT ![p] = @ + 1]
    /\ UNCHANGED <<place, lock, owner, boots>>

\* The SIGINT or SIGTERM handler: release(), then process.exit().
Terminate(p) ==
    /\ place[p] = "writer"
    /\ MayTurn(p)
    /\ lock' = NoLock
    /\ Goto(p, "exiting")
    /\ UNCHANGED <<owner, seed, log, boots>>

\* The "exit" handler: release() again, whoever's lock it is by now.
Exit(p) ==
    /\ place[p] \in {"writer", "exiting"}
    /\ MayTurn(p)
    /\ lock' = NoLock
    /\ Goto(p, "off")
    /\ UNCHANGED <<owner, seed, log, boots>>

\* SIGKILL, or a crash before the handlers were installed.
KillProcess(p) ==
    /\ Alive(p)
    /\ MayTurn(p)
    /\ Goto(p, "off")
    /\ UNCHANGED <<lock, owner, seed, log, boots>>

-----------------------------------------------------------------------------
LockInit ==
    /\ place = [p \in Procs |-> "off"]
    /\ lock = NoLock
    /\ owner = [p \in Procs |-> NoLock]
    /\ seed = [p \in Procs |-> 0]
    /\ log = <<>>
    /\ boots = 0

LockNext ==
    \E p \in Procs :
        \/ BootProcess(p) \/ Resume(p) \/ OpenLock(p) \/ Stamp(p) \/ ReadLock(p)
        \/ ClassifyAlive(p) \/ ClassifyDead(p)
        \/ AppendRecord(p) \/ Terminate(p) \/ Exit(p) \/ KillProcess(p)

LockSpec == LockInit /\ [][LockNext]_lockVars

\* No process is told from another by anything but its pid.
Symmetry == Permutations(Procs)

-----------------------------------------------------------------------------
(* Properties.                                                             *)

\* Every variable stays in its type.
LockTypeOK ==
    /\ place \in [Procs -> Stages]
    /\ lock \in Procs \cup {NoLock, Empty}
    /\ owner \in [Procs -> Procs \cup {NoLock, Empty}]
    /\ seed \in [Procs -> Nat]
    /\ log \in Seq(Nat)
    /\ boots \in 0 .. MaxBoots

\* "Exactly ONE writer": claimWriter never lets a second process append.
AtMostOneWriter == \A p, q \in Writers : p = q

\* The writer's own pid is in the lock, so that the next claim can find it.
LockNamesWriter == \A p \in Writers : lock = p

\* seedAuditChain "continues the record": a writer's chain state is the end of
\* the file it appends to.
WriterSeesTail == \A p \in Writers : seed[p] = Len(log)

\* The file carries each index once, in order, whichever processes wrote it.
LogContiguous == \A i \in 1 .. Len(log) : log[i] = i - 1

\* A lone writer (nobody else is past the claim) is in step with the file.
LoneWriterSeesTail ==
    \A p \in Procs : Writers = {p} /\ lock = p => seed[p] = Len(log)

\* The processes together are one writer with hand-overs: a process starts to
\* write only when no other does, and each record carries the next index
\* ("exactly ONE writer", audit/file-sink.ts).
Holder == IF Writers = {} THEN NoLock ELSE CHOOSE p \in Writers : TRUE
Trail == INSTANCE SharedTrail WITH Nobody <- NoLock, holder <- Holder, trail <- log
ActsAsOneWriter == Trail!Spec

\* The lock makes one writer of them: the abstract trail is implemented, the next
\* claim finds the writer by the pid in the lock, and its chain state is the end
\* of the file.
LockMakesOneWriter ==
    /\ ActsAsOneWriter
    /\ [](AtMostOneWriter /\ LockNamesWriter /\ WriterSeesTail)

=============================================================================
