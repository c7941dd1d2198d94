---------------------------- MODULE Credentials ----------------------------
(***************************************************************************)
(* Who a connection is: fleet/registry.ts.  An agent is declared by        *)
(* kernel uid, process name, a digest pinned in the config file, or the    *)
(* credential store.  Each agent's uid, name and pinned secret are its     *)
(* own (assertUnambiguous), so a signal is written as the agent it names.  *)
(*                                                                         *)
(* The credential store and who reads and writes it: fleet/credentials.ts, *)
(* fleet/command.ts and index.ts.  Commands (`agentwall fleet`, the        *)
(* operator API) read the file, change it and rename a new one into place; *)
(* nothing orders two of them.  The proxy keeps a copy, looks at the       *)
(* file's stamp at most once a second and never forgets what it last       *)
(* understood.  The file may become unreadable or go away and come back.   *)
(* The clock counts half seconds.                                          *)
(***************************************************************************)
EXTENDS Integers, FiniteSets, Functions

CONSTANTS Agents,   \* every agent the config file ever declared
          Match,    \* per agent [uid, comm, pinned : BOOLEAN]
          NoOne     \* a signal the connection does not carry

CONSTANTS Commands,     \* the processes that may change the store
          Secrets,      \* the secrets that may be minted; a digest names its record
          Setups

RELOAD_CHECK == 2       \* one second
Absent == 0             \* the stamp of a file that is not there

\* A set-up gives the floor, the commands, the overlaps and the kinds of outage,
\* and bounds the clock, the commands run, the outages and the restarts.
ASSUME SetupAssumption ==
    \A s \in Setups : /\ s.minimum \in {"any", "uid", "credential"}
                      /\ s.kinds \subseteq {"bad", "absent"}
                      /\ s.commands \subseteq Commands /\ IsFiniteSet(s.commands)
                      /\ s.overlaps \subseteq Nat
                      /\ {s.time, s.runs, s.outages, s.restarts} \subseteq Nat

VARIABLES setup, clock,
          fileState, fileRecords, fileStamp,    \* "ok", "bad" or "absent"; its content
          draft,                                \* per command what it will write
          declared, records, stamp, lastCheck, loadedOnce,  \* the running proxy
          conn,                                 \* the stamp a connection is about to read behind
          runs, outages, restarts,
          fileSince, printed, tombstones, lastStamp

file == <<fileState, fileRecords, fileStamp>>
proxy == <<declared, records, stamp, lastCheck, loadedOnce, conn>>
history == <<fileSince, printed, tombstones, lastStamp>>
counts == <<setup, runs, outages, restarts>>
vars == <<clock, file, draft, proxy, history, counts>>

-----------------------------------------------------------------------------
\* The registry.

\* Credential records: [agent, expires, revoked], expires = Never for the current one.
Never == -1
CredentialState(c, now) ==
    IF c.revoked THEN "revoked"
    ELSE IF c.expires = Never THEN "active"
    ELSE IF c.expires > now THEN "overlap" ELSE "expired"

ListFor(store, a) == {s \in DOMAIN store : store[s].agent = a}

\* meetsMinimumTier
MeetsMinimumTier(signal, minimum) ==
    CASE minimum = "any" -> TRUE
      [] minimum = "credential" -> signal = "credential"
      [] minimum = "uid" -> signal \in {"credential", "uid", "uid+comm"}

\* floorBlocks: why the agent can never bind.  Any record counts as a credential,
\* whatever its state.
FloorBlocks(a, minimum, store) ==
    LET hasCredential == Match[a].pinned \/ ListFor(store, a) # {} IN
    ~hasCredential /\ ( \/ ~Match[a].uid /\ ~Match[a].comm
                        \/ minimum = "credential"
                        \/ minimum = "uid" /\ ~Match[a].uid )

Refuse(a, kind, origin) ==
    [id |-> a, matchedOn |-> "none", declared |-> FALSE, refusal |-> kind, origin |-> origin]
Unmatched ==
    [id |-> NoOne, matchedOn |-> "none", declared |-> FALSE, refusal |-> "none", origin |-> "none"]

\* accept: the floor is applied to every binding.
Accept(a, signal, minimum, store) ==
    IF MeetsMinimumTier(signal, minimum)
    THEN [id |-> a, matchedOn |-> signal, declared |-> TRUE, refusal |-> "none", origin |-> "none"]
    ELSE Refuse(a, "below-minimum-tier",
                IF FloorBlocks(a, minimum, store) THEN "operator-configuration"
                                                    ELSE "unproven-claim")

\* The uid and the name of a connection, strongest first: uid and name together,
\* the uid, the name.
ByKernel(signals, roster, minimum, store) ==
    LET uid == signals.uid
        comm == signals.comm
        rule(a, u, c) == a \in roster /\ Match[a].uid = u /\ Match[a].comm = c
    IN  IF uid = comm /\ rule(uid, TRUE, TRUE) THEN Accept(uid, "uid+comm", minimum, store)
        ELSE IF rule(uid, TRUE, FALSE) THEN Accept(uid, "uid", minimum, store)
        ELSE IF rule(comm, FALSE, TRUE) THEN Accept(comm, "comm", minimum, store)
        ELSE Unmatched

\* resolve: a secret the store holds is judged and never falls through to the
\* kernel's signals; one nobody knows does.
Resolve(signals, roster, minimum, store, now) ==
    LET s == signals.secret
        state == CredentialState(store[s], now)
        a == store[s].agent
    IN  IF s \in roster /\ Match[s].pinned THEN Accept(s, "credential", minimum, store)
        ELSE IF s \notin DOMAIN store THEN ByKernel(signals, roster, minimum, store)
        ELSE IF a \notin roster THEN Refuse(a, "credential-orphaned", "operator-configuration")
        ELSE IF state = "revoked" THEN Refuse(a, "credential-revoked", "indeterminate")
        ELSE IF state = "expired" THEN Refuse(a, "credential-expired", "indeterminate")
        ELSE Accept(a, "credential", minimum, store)

-----------------------------------------------------------------------------
Nobody == -1
NoDraft == [records |-> <<>>, printed |-> {}, tombstones |-> {}, pending |-> FALSE]

Init ==
    /\ setup \in Setups /\ clock = 0
    /\ fileState = "absent" /\ fileRecords = <<>> /\ fileStamp = Absent
    /\ draft = [c \in Commands |-> NoDraft]
    /\ declared = Agents /\ records = <<>> /\ stamp = Absent /\ lastCheck = 0
    /\ loadedOnce = FALSE /\ conn = Nobody
    /\ runs = 0 /\ outages = 0 /\ restarts = 0
    /\ fileSince = 0 /\ printed = {} /\ tombstones = {} /\ lastStamp = 0

FileStamp == IF fileState = "absent" THEN Absent ELSE fileStamp

----------------------------------------------------------------------------
(* Commands.                                                               *)

Active(held, a) == {s \in ListFor(held, a) : CredentialState(held[s], clock) = "active"}
Minted == DOMAIN fileRecords \cup printed
            \cup UNION {draft[c].printed \cup DOMAIN draft[c].records : c \in Commands}
\* The CSPRNG never repeats itself; which secret it gives does not matter.
Fresh == {s \in Secrets : s \notin Minted /\ \A t \in Secrets : t < s => t \in Minted}
Current(a) == [agent |-> a, expires |-> Never, revoked |-> FALSE]
With(held, s, c) == [t \in DOMAIN held \cup {s} |-> IF t = s THEN c ELSE held[t]]

\* requireDeclaredAgent: issue and rotate refuse an agent the config does not
\* declare or whose digest is pinned there.
Issuable(a) == a \in declared /\ ~Match[a].pinned

MayIssue(held, a) == Active(held, a) = {}

IssueTo(c, held, a) ==
    \E s \in Fresh :
        /\ Issuable(a) /\ MayIssue(held, a)
        /\ draft' = [draft EXCEPT ![c] =
                [records |-> With(held, s, Current(a)), printed |-> {s}, tombstones |-> {},
                 pending |-> TRUE]]

\* rotate: the old credential is good for the overlap, the new one at once.
RotateTo(c, held, a, overlap) ==
    \E s \in Fresh, old \in Active(held, a) :
        /\ Issuable(a)
        /\ draft' = [draft EXCEPT ![c] =
                [records |-> With([held EXCEPT ![old].expires = clock + overlap], s, Current(a)),
                 printed |-> {s}, tombstones |-> {}, pending |-> TRUE]]

\* revoke, of one credential, and revokeAgent, of all an agent has left.
RevokeAll(c, held, ids) ==
    /\ ids # {} /\ \A s \in ids : ~held[s].revoked
    /\ draft' = [draft EXCEPT ![c] =
            [records |-> [s \in DOMAIN held |->
                            IF s \in ids THEN [held[s] EXCEPT !.revoked = TRUE] ELSE held[s]],
             printed |-> {}, tombstones |-> ids, pending |-> TRUE]]
Unrevoked(held, a) == {s \in ListFor(held, a) : ~held[s].revoked}

\* readForWrite refuses a file it cannot parse; a missing one is an empty store.
Readable == fileState # "bad"

Read(c) ==
    /\ c \in setup.commands /\ runs < setup.runs /\ ~draft[c].pending
    /\ Readable
    /\ LET held == IF fileState = "ok" THEN fileRecords ELSE <<>> IN
       \/ \E a \in Agents : IssueTo(c, held, a)
       \/ \E a \in Agents, overlap \in setup.overlaps : RotateTo(c, held, a, overlap)
       \/ \E s \in DOMAIN held : RevokeAll(c, held, {s})
       \/ \E a \in Agents : RevokeAll(c, held, Unrevoked(held, a))
    /\ runs' = runs + 1
    /\ UNCHANGED <<clock, file, proxy, history, setup, outages, restarts>>

\* write: a file of its own, renamed over the store; the secret is printed then.
Write(c) ==
    /\ draft[c].pending
    /\ fileState' = "ok" /\ fileRecords' = draft[c].records
    /\ lastStamp' = lastStamp + 1 /\ fileStamp' = lastStamp + 1
    /\ fileSince' = clock
    /\ printed' = printed \cup draft[c].printed
    /\ tombstones' = tombstones \cup draft[c].tombstones
    /\ draft' = [draft EXCEPT ![c] = NoDraft]
    /\ UNCHANGED <<clock, proxy, counts>>

----------------------------------------------------------------------------
(* The proxy.                                                              *)

Reload(now) ==
    IF now = Absent
    THEN /\ stamp' = Absent /\ UNCHANGED loadedOnce
         /\ records' = IF loadedOnce THEN records ELSE <<>>
    ELSE IF fileState = "ok"
         THEN records' = fileRecords /\ stamp' = now /\ loadedOnce' = TRUE
         ELSE UNCHANGED <<records, stamp, loadedOnce>>

\* Mutant: a copy may be a second old or more.
DueLate == clock - lastCheck > RELOAD_CHECK
Due == clock - lastCheck >= RELOAD_CHECK

Signals == [secret : {NoOne} \cup Secrets \cup Agents, uid : {NoOne} \cup Agents,
            comm : {NoOne} \cup Agents]
Verdict(signals, held) == Resolve(signals, declared, setup.minimum, held, clock)

\* A connection that asks the store: with a secret, or below the floor.  One that
\* finds the copy recent, or the stamp unchanged, is answered from the copy.
Connect ==
    /\ conn = Nobody /\ Due
    /\ lastCheck' = clock
    /\ conn' = IF FileStamp = stamp THEN Nobody ELSE FileStamp
    /\ UNCHANGED <<clock, file, draft, declared, records, stamp, loadedOnce, history, counts>>

\* Otherwise the file is read behind the stamp it had.
ReadChanged ==
    /\ conn # Nobody
    /\ Reload(conn) /\ conn' = Nobody
    /\ UNCHANGED <<clock, file, draft, declared, lastCheck, history, counts>>

\* The proxy starts again, with the agents its config now declares.  A config that
\* pins the digest of an agent with issued credentials would not start.
Restart(agents) ==
    /\ restarts < setup.restarts /\ conn = Nobody
    /\ declared' = agents
    /\ records' = (IF fileState = "ok" THEN fileRecords ELSE <<>>)
    /\ \A a \in agents : Match[a].pinned => ListFor(records', a) = {}
    /\ stamp' = (IF fileState = "ok" THEN fileStamp ELSE Absent)
    /\ loadedOnce' = (fileState = "ok") /\ lastCheck' = clock
    /\ restarts' = restarts + 1
    /\ UNCHANGED <<clock, file, draft, conn, history, setup, runs, outages>>

----------------------------------------------------------------------------
(* The host.                                                               *)

Tick ==
    /\ clock < setup.time /\ conn = Nobody
    /\ clock' = clock + 1
    /\ UNCHANGED <<file, draft, proxy, history, counts>>

\* The file is half written by an editor, or its directory is not mounted.
Outage(state) ==
    /\ outages < setup.outages /\ state \in setup.kinds /\ fileState = "ok"
    /\ fileState' = state
    /\ lastStamp' = lastStamp + 1
    /\ fileStamp' = IF state = "bad" THEN lastStamp + 1 ELSE fileStamp
    /\ outages' = outages + 1 /\ fileSince' = clock
    /\ UNCHANGED <<clock, fileRecords, draft, proxy, printed, tombstones, setup, runs, restarts>>

Recover ==
    /\ fileState # "ok" /\ fileStamp # Absent
    /\ lastStamp' = lastStamp + 1
    /\ fileStamp' = IF fileState = "bad" THEN lastStamp + 1 ELSE fileStamp
    /\ fileState' = "ok" /\ fileSince' = clock
    /\ UNCHANGED <<clock, fileRecords, draft, proxy, printed, tombstones, counts>>

Next ==
    \/ \E c \in Commands : Read(c) \/ Write(c)
    \/ Connect \/ ReadChanged
    \/ \E agents \in SUBSET Agents : Restart(agents)
    \/ Tick \/ Recover
    \/ \E state \in {"bad", "absent"} : Outage(state)

Spec == Init /\ [][Next]_vars

----------------------------------------------------------------------------
\* Once the file has been readable and unchanged for a second, the proxy answers as
\* the file says: a revoked or rotated-out secret is refused whatever else the
\* connection carries, and a secret within its overlap still binds, through
\* restarts, outages and writes between a stat and its read (credentials.ts:394
\* refresh, :337 reload, registry.ts resolve).
ProxyFollowsFile ==
    /\ fileState = "ok" /\ clock - fileSince >= RELOAD_CHECK
    /\ conn = Nobody /\ (Due => FileStamp = stamp)
    => \A signals \in Signals : Verdict(signals, records) = Verdict(signals, fileRecords)

\* An outage of the store takes nobody's identity away: what a running proxy
\* knows of a secret it goes on knowing, unless a command started the store anew
\* (credentials.ts:337 reload, `lastError`).
OutageKeepsIdentity ==
    [][ \A s \in DOMAIN records :
            s \in DOMAIN records' \/ restarts' # restarts \/ s \notin DOMAIN fileRecords ]_vars

\* However commands interleave, no agent ever has two credentials without an end.
OneActive ==
    \A a \in Agents : Cardinality({s \in ListFor(fileRecords, a) :
        ~fileRecords[s].revoked /\ fileRecords[s].expires = Never}) <= 1

\* What a command reported stays so: a printed secret is in the store and a
\* tombstone is never lifted, while commands run one at a time and find a file
\* (credentials.ts:565 write, command.ts:440 commandRevoke).
CommandsStand ==
    Cardinality(setup.commands) = 1 /\ "absent" \notin setup.kinds =>
        /\ printed \subseteq DOMAIN fileRecords
        /\ \A s \in tombstones : fileRecords[s].revoked

\* Store, commands and proxy agree who a credential names, through races, outages
\* and restarts.
IdentitiesHold == [](ProxyFollowsFile /\ OneActive /\ CommandsStand) /\ OutageKeepsIdentity

\* What credentials.ts says of tombstones, whoever else runs a command: nothing an
\* operator revoked comes back.
RevokedStaysRevoked == \A s \in tombstones \cap DOMAIN fileRecords : fileRecords[s].revoked
=============================================================================
