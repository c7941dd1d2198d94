# AgentWall: a TLA+ verification project

AgentWall is a policy, audit and egress gateway for AI agents. One Node.js process
serves a decision API (`/evaluate`, `/approval/*`), a forward and a transparent proxy, a
dashboard and an operator API, and writes one hash-chained audit file. Around it stand MCP
wrappers (stdio and HTTP), commands that issue credentials, confine agents, check their
capture and onboard them, and verifiers that read what was recorded. What can go wrong in
such a program is mostly order: what was on disk when a process died, which of two timers
fired first, which ruleset was in force when a request was judged, who believed they owned
a file. This project models that.

Contents: [1 Inventory](#1-inventory), [2 Plan](#2-plan), [3 Modules](#3-modules),
[4 Runs and bounds](#4-runs-and-bounds), [5 Fairness](#5-fairness),
[6 Proofs](#6-proofs), [7 Disagreements](#7-disagreements-between-code-and-text),
[8 Not modelled](#8-what-is-not-modelled).

To check a run or a proof, in this directory:

    tlc -workers 2 -config Operations.cfg OperationsMC.tla
    tlapm AuditProofs.tla

Paths below are relative to the repository's `src/` unless they start with `docs/` or
`tests/`.

## 1 Inventory

The program is single-threaded JavaScript: a callback runs to its end before another
starts, so interleavings happen at `await`s, timers, socket events and signals, and
between processes. Every module takes one callback (or one stretch between two `await`s)
as one step, except WriterLock, where the actors are processes and a step is one system
call, and the commands, where a step is one file operation.

| Component | Code | State it keeps | Operations | Interacts with | Modules |
|---|---|---|---|---|---|
| Audit chain writer | `audit/logger.ts`, `chain.ts`, `file-sink.ts` | chain position, pending gap, drop count, the sink's `committed` length; the JSONL file | `emit`, `declarePendingGap`, append and roll-back, `resumeChainState`, `verifyChainFile` | called by every other component; observers feed dashboard and telemetry | AuditLog |
| Audit writer lock | `audit/file-sink.ts` `claimWriter`, `server.ts`, `mcp/wrap.ts` | the `.lock` file | claim, classify the owner, reclaim, release twice on a signal | decides which process may run AuditLog | WriterLock |
| Rotation and anchoring | `audit/rotation.ts`, `anchor*.ts`, `ots-proof.ts`, `signing.ts` | manifest, anchor log, proofs, keys | seal, checkpoint, submit, upgrade, verify | reads AuditLog's files | Anchor, Evidence (partly) |
| Stand-alone verifiers | `../verifier*/` (Go, Python, Rust) | none | read an evidence directory, say pass or fail | the same files | Evidence (partly) |
| Evidence, scorecard, fleet evidence | `evidence/` | none | collect, grade a session, read a host, fold a fleet | directories copied from hosts | FleetEvidence, Doctor (partly) |
| Approval gate | `approval/gate.ts`, `store.ts`, `routes/approval.ts`, part of `dashboard/state.ts` | pending map with timers, history of 100, the state file, the dashboard's 160 rows | request, respond, time out, set mode, restore | agents wait on it over HTTP; flood guard in front of it | ApprovalGate |
| Flood guard | `runtime/floodguard.ts` | sliding buckets, hourly budgets, overrides, shield | admit an evaluation, an approval request or answer | in front of `/evaluate` and the approval gate | FloodGuard |
| Policy engine and hot reload | `policy/engine.ts`, `runtime.ts`, `runtime/reload.ts`, `routes/reload.ts` and `dashboard.ts` | versioned snapshot, the runtime's file view, the coordinator's cache of what is applied | SIGHUP, `POST /reload`, watcher, dashboard writes | audit records each reload; each request pins a snapshot | PolicyReload |
| Emergency stop | `runtime/lockdown.ts`, `routes/lockdown.ts` | one hold per source | engage, release, signal toggle, sentinel poll | read on every pass of EgressGate | Lockdown |
| Egress decision and budgets | `runtime/enforcement.ts`, `fleet/budget.ts`, `policy/engine.ts` | per-agent window of rows, open tickets | `decide`, `admit`, `settle`, projections | asked by both proxies | EgressGate, EgressVerdict |
| Forward proxy | `proxy/forward-proxy.ts`, `index.ts` `recordEgress` | per-connection closures and sockets | CONNECT, plaintext exchange, peek, tear-down | EgressGate up to three times per connection | ForwardProxy |
| TLS interception | `proxy/tls-intercept.ts`, `mitm-ca.ts`, `intercept/` | CA directory, certificate cache, per-tunnel exchange | generate, load, terminate, judge request and response, stall timer | branch of the forward proxy's tunnel | TlsIntercept |
| Transparent proxy | `proxy/transparent.ts`, `tls-peek.ts`, `socket-attribution.ts` | per-connection closures | peek, name, decide, splice | EgressGate | Transparent (partly) |
| Fleet registry and credentials | `fleet/registry.ts`, `credentials.ts`, `command.ts` | credential file; the proxy's copy of it | issue, rotate with overlap, revoke, resolve | attribution of every connection | Credentials |
| MCP wrapper, gates, framing | `mcp/wrap.ts`, `gates.ts`, `stdio.ts`, `framing.ts` | calls in flight, inventory sequences, cursors, queues per direction | parse, judge a frame, forward, withhold, answer | baseline store, audit | McpSession, StdioWrap |
| MCP baseline | `mcp/baseline.ts`, `inventory.ts` | file of approved inventories, its lock | read, learn | wrappers in several processes | McpSession (partly) |
| MCP over HTTP | `mcp/http.ts` | sessions, streams | as above over HTTP | gates | McpHttp |
| Spill watch | `spill/watch.ts` | watchers, debounce timers, fingerprints | scan on write, bounded rescan | scanners, audit | SpillWatch |
| Decoy tokens | `decoy/index.ts` | token store | generate, load, export | a hit is a finding of EgressVerdict | Decoys (partly) |
| Dashboard, watchdog | `dashboard/`, `routes/dashboard.ts`, `watchdog/` | feeds, session controls, task graph, simulation | observe, control, simulate, clear | gates `/evaluate` by session | Console (partly) |
| Operator API | `auth/operator.ts`, `operator/`, `routes/operator.ts` | HTTP wrappers under management | authenticate, dispatch, wrap, stop | components it dispatches to | Operators |
| Organisation view | `org/`, `routes/dashboard.ts` | observed channels | observe, poll peers, merge | other instances | Federation |
| Capture verification | `capture/verify.ts` | one measurement | canary, fetch, settle, judge | proxy, chain | Capture |
| Perimeter | `perimeter/` | the kernel's table | install, remove, status, run | nftables | Perimeter |
| Sandbox launcher | `sandbox/`, `../native/agentwall-sandbox.c` | a profile on a pipe | render, fit, parse, confine, exec | Landlock, seccomp | Sandbox |
| Start-up and setup page | `bootstrap.ts`, `setup.ts`, `index.ts`, `config.ts` | operator files, a child process, listeners | set up, start, stop, resolve, listen | everything it starts | Startup |
| Onboarding | `onboarding.ts`, `onboard/` | configuration file and its backup | init, onboard | credentials | Onboarding |
| Doctor | `cli.ts` (capture section), `evidence/capture.ts` | a bookmark | read, move the bookmark, report | chain | Doctor |
| Policy rules, content scanners | `policy/rules.ts`, `planes/`, `policy/injection.ts` | none | evaluate a context, scan a text | engine, proxies, gates | not modelled (section 8) |
| Compliance, rationale | `compliance/`, `rationale/` | none | compute reports | chain, read-only | not modelled |
| Telemetry, CLI parsing, integrations | `telemetry/`, `cli.ts`, `integrations/` | none | emit, print, adapt | engine | not modelled |

### What makes each component correct

* **Audit writer.** A full disk, a short write or a restart must never look like
  tampering; a record is shown and chained only once it is stored; every drop is
  declared exactly once.
* **Writer lock.** One process appends; its view of the tail is the file's tail.
* **Anchoring and verifiers.** Segments stay in rotation order through deaths and
  overlapping passes; an anchor rebuilds from disk; a loss is reported by whichever of
  four verifiers is asked.
* **Fleet evidence.** What a partial copy or damage took away never shows as verified; an
  honest host is not called broken because of a backup or of age.
* **Approval gate.** A request is decided once, by whichever of operator, deadline and
  restart gets there; what the agent was told is on file; no queued request is lost; no
  waiting agent waits for ever.
* **Policy reload.** Config and policy move together or not at all; the engine, the
  coordinator and the audit chain agree about what is in force; a version names one
  ruleset.
* **Egress.** A budget is exact although connections overlap and settle late; whatever
  any pass refuses goes nowhere; the stop stops every pass; every connection ends in one
  record that is honest about what was read; a projection of monitor mode comes true.
* **Content.** An intercepted message is judged before it travels and arrives whole; no
  silent sender holds a verdict; a redirected connection reaches only what it named; a
  credential written under the spill watch is reported.
* **Flood guard.** No window lets more through than the limit in force; two routes charge
  one budget; the approval queue stays within its caps.
* **Identity.** A rotated or revoked secret stops working within the reload interval; a
  printed credential stays valid until an operator replaces it.
* **MCP.** A page of tools is judged as the answer to its own request and on top of the
  pages the client has read; only whole inventories are approved or learned; over HTTP
  each request is answered once and only what passed travels; a line is relayed once.
* **Operator side.** Nothing changes without an authorised call; a stopped session stays
  stopped; `status`, `run`, `verify-capture`, `doctor` and the setup page say what is so.

The hard behaviours, each with its line, are the `hazards` of `PROJECT.json`; all have a
property.

## 2 Plan

Done, in this order: *AuditLog*, *WriterLock* (with the abstract *SharedTrail* it
implements), *ApprovalGate*, *PolicyReload*, *Lockdown <- EgressGate <- ForwardProxy*,
*FloodGuard*, *McpSession*; then *Evidence <- Anchor*, *Credentials*, *McpHttp*,
the content side (*TlsIntercept*, *Transparent*, *SpillWatch*), and the operations side
(*Console*, *Perimeter*, *Operators*, *Sandbox*, *Decoys*, *Capture*, *EgressVerdict*,
*Startup*, *StdioWrap*, *Federation*, *Onboarding*, *Doctor*, *FleetEvidence*).

Left, most useful first:

1. An abstract approval register (`undecided -> decided`, once) and an abstract policy
   register, with ApprovalGate and PolicyReload shown to implement them.
2. FloodGuard composed with ApprovalGate's saves; EgressVerdict opened inside ForwardProxy;
   AuditLog shown to implement SharedTrail for one process.
3. The stale-lock rule of the MCP baseline; a second root of the spill watch.
4. Pure algorithms against reference definitions: the rules' matching, compliance scores.

## 3 Modules

Every module declares its bounds as CONSTANTS (marked *bound*), names the assumptions on
them, and keeps the source's names. Operators whose comment starts with *Mutant* are
wrong variants of the definition below them: they show that a property can be broken by
a plausible bug, and no specification uses them.

### AuditLog (`audit/logger.ts`, `file-sink.ts`, `chain.ts`)

| TLA+ | Code |
|---|---|
| `file` | the JSONL file, three cells per record: head, rest, line feed |
| `chain`, `gap`, `dropped` | `auditChainState`, `pendingGap.count`, `droppedTotal` |
| `committed` | the sink's mark after its last complete append |
| `console` | what the observers were told |
| `EmitStart`, `Marker*`, `Record*` | `emit`: `declarePendingGap`, then the event; each stored or refused |
| `AppendOk`, `AppendRefused`, `Discard` | `sink.append` and `discardPartialAppend` |
| `Kill`, `Boot` | death with any part of a line written; `resumeChainState`, `seedAuditChain`, `createFileSink` |
| `VerifyChainFile` | the rules of `verifyChainFile` |

A hash is the record's id. The tail window of `resumeChainState` is any window that holds
at least two complete lines: which one it is depends on record sizes. `damaged` is a ghost
that says whether a fragment was ever left on the file, `bootId` one that says which records
are this process's own.

### WriterLock (`claimWriter`, boot order of `server.ts` and `mcp/wrap.ts`)

One step per system call: `Resume` reads the tail, `OpenLock` is `O_EXCL`, `Stamp` writes
the pid, `ReadLock`/`ClassifyAlive`/`ClassifyDead` are the stale-lock path, `Terminate` and
`Exit` the two releases. `Named` is the set of processes whose command line contains
"agentwall"; `Overlap` says whether two processes may start or stop at once.

What the lock is for is stated in *SharedTrail*: a trail that processes take turns to
extend, one index at a time, as if there were one writer. `ActsAsOneWriter` maps `Holder`
(the process whose state is that of a writer) and `log` to it; reading the lock, judging
its owner and unlinking it are stutters.

### ApprovalGate (`approval/gate.ts`, `store.ts`, two routes, the dashboard's rows)

| TLA+ | Code |
|---|---|
| `pending`, `history` | the map of entries and the list of decisions, newest first |
| `expired` | `expiresAt` has passed |
| `store` | the state file (temporary file and rename: whole or not at all) |
| `caller` | what the awaiting HTTP request came to |
| `board` | the dashboard's approval rows |
| `phase`, `restoring` | the constructor's loop over the loaded entries |
| `RequestAuto`, `RequestManual`, `Respond`, `TimeOut`, `SetMode` | the gate's methods with the route and the save each ends in; a save may throw |
| `Load`, `RestoreNext`, `RestoreDone`, `Stop` | constructor, `restorePersistedState`, `close` or death |

### PolicyReload (`policy/engine.ts`, `policy/runtime.ts`, `runtime/reload.ts`, dashboard writes)

The two files are edited by other programs between any two file operations of a handler,
so a handler is the sequence of steps that `op` names. `runtime`, `engine`, `applied`,
`appliedConfig` and `config` are the five places that hold a view of the policy.
`ReloadConfig` and `ReloadRest` are SIGHUP and `POST /reload`; `WatchFires`,
`DashboardReload` and the `Upsert*` steps go through `ApplyExternal`, the coordinator's
`applyExternalReload`. `Arrive` pins a snapshot to a request (`server.ts` onRequest) and
`Evaluate` answers it. A file is its content and its hash is the content.

### Lockdown, EgressGate, ForwardProxy (composed by EXTENDS)

*Lockdown* is `runtime/lockdown.ts`: a hold per source, its channels, the polled sentinel
file. *EgressGate* is `decide` and `enforce` of `runtime/enforcement.ts` with the ledger
of `fleet/budget.ts`; what an address, a rule, an allowlist or a scanner says of a
connection is one of three sights (`clean`, `unlisted`, `refusable`), chosen freely at
each pass. *ForwardProxy* is one closure per connection (`conn[c]`) and one step per
callback: three passes of an exchange, the tunnel with its ClientHello peek, every exit.
`sent` and `got` say whether any byte went up or down; `whole`, `at`, `refused` are ghosts.

### McpSession (`mcp/wrap.ts`, `mcp/gates.ts`, `mcp/baseline.ts`)

| TLA+ | Code |
|---|---|
| `calls` | `inFlight`, one map for both directions, in insertion order |
| `listings`, `cursors` | `inventorySequences`, `cursorSequences` |
| `approved`, `store` | `ctx.approvedTools`; the baseline file's entry for this key |
| `learning` | an answer between the gate's read of the baseline and its write |
| `owed`, `hosted`, `offered`, `complete` | the two sides: open calls, and what the client has read |
| `ClientList`, `ClientListRefused`, `ClientCall`, `ClientReply` | `handleFrame`, client to server |
| `ServerRequest`, `ServerEnds`, `ServerPage`, `ServerPageRefused` | `handleFrame`, server to client, with `gateToolInventory` |
| `FinishLearn` | `McpBaselineStore.write`, then the forwarded page |

`handleFrame` awaits nothing, so a frame is one step; the write of learn mode is a second
one because wrappers are processes of their own. A refusal by any other gate is a free
choice. Setups fix mode, wrappers and the number of client requests.

### FloodGuard (`runtime/floodguard.ts`, `routes/policy.ts`, `routes/approval.ts`)

| TLA+ | Code |
|---|---|
| `buckets`, `budgets` | the maps of the same names, pruned at each use |
| `overrides`, `shieldUntil` | `sessionOverrides`, `shieldUntil` |
| `pending` | the gate's queue, as `listPending` shows it |
| `Limit`, `SessionLimit` | `adjustLimit`, `getSessionLimit`, with their rounding |
| `Evaluate*`, `Ask*`, `Answer*` | the three routes, one action per outcome: which check refused, after which buckets had been charged |
| `TimeOut`, `Restart` | the gate's timer; a new process, with the queue restored and the guard empty |
| `ShieldOn`, `SetOverride`, ... | the operator's orders |

`served` is a ghost: what was let through, with the mode in force. The properties count
its rows and never read the buckets. `named` tells a request with a session id from one
that is charged to `<agentId>:default`.

### Evidence and Anchor (`audit/anchor-service.ts`, `rotation.ts`, `signing.ts`, the three stand-alone verifiers)

*Evidence* holds no state: it says what each of the four verifiers makes of one evidence
directory (`RunVerify`, `GoVerify`, `PyVerify`, `RsVerify`), a hash being the place of its
record. *Anchor* is the directory under `Passes`, each at a position `at` in `runAnchorPass`:
only the wait for the calendar lets another pass of the same process run, while another
process may run at any step. A pass seals the set `todo` from its oldest segment on;
`anchorLog` is the log of submissions. Rotation is external (a rename); `deaths` and `lost`
are the fault model: a death inside any write, a rewritten manifest cut anywhere, a closed
file lost or cut short.

### FleetEvidence (`evidence/collect.ts`, `scorecard.ts`, `fleet.ts`)

| TLA+ | Code |
|---|---|
| `origin`, `copy` | the directory on the host, and the one an aggregator reads |
| `Collected`, `Faulty`, `Shown` | `collectEvidence`: files in order, caps, faults per record |
| `Chained`, `Linked`, `Anchored`, `ReachOf` | the layers of `runVerify`, and `anchorReach` |
| `ChainedStateFor`, `LinkedStateFor`, `AnchoredStateFor` | the rows of a session's scorecard |
| `ReadHost`, `FleetVerdict` | `readHost`, whose order is the verdict, and the fold of a fleet |
| `Keep`, `Rotate`, `RestartWriter`, `AnchorPass`, `Backup` | what goes on at the host meanwhile |
| `DeliverWhole`, `DeliverPart`, `Damage` | the way to the aggregator (environment) |

The n-th record has the hash n, so that "which record is missing" is arithmetic; a record
that no longer reproduces its hash is `good = FALSE`.

### Credentials (`fleet/registry.ts`, `credentials.ts`, `command.ts`)

A principal is resolved from what a connection shows (a secret, a uid, a process name)
under a minimum tier. A command reads the store (`Read`), and later renames a new file
into place (`Write`); the proxy stats it at most once a second
and may read behind its stat; the file may be unreadable or absent for a while, and the proxy
may restart. The clock counts half seconds.

### McpHttp (`mcp/http.ts`)

An exchange is one request to the listener; `stage` is where its handler is, `link` its
upstream connection, `waiting` a pump that waits for "drain"; `body`, `refused` and `got` are
what a client posted, what of it was refused and what the upstream was sent. The frames of a batch, an event
or a body are judged within a tick, hence in one step, with any verdict; between them the
upstream may answer, fail or end, and the client may leave or slow down. `open` and
`recorded` are the session's, shared by all exchanges; `run` is the set-up of a behaviour.

### StdioWrap (`mcp/stdio.ts`, `framing.ts`)

Bytes are read in chunks cut anywhere; `pending` and `resyncing` are the parser's, a line
longer than `MaxFrame` is skipped to its end; `chain` is the queue per direction of which one
step runs at a time; the child may exit before its output was read.

### TlsIntercept, Transparent, SpillWatch

*TlsIntercept* has three parts: the authority (`files`, `trusted`, `running`, `minted`),
the tunnel (whether to intercept, the hello, the leaf) and one exchange inside, where a body
is `MaxBody` units, `Cap` of them inspected. `Quiet` is the stall timer; every end of either
side is an action. *Transparent* is one closure per redirected connection: bytes arrive until
they name a destination or the peek gives up. *SpillWatch* has the native watch and the
bounded walk with its awaits; `age` orders file times against the walk's clock, and `lag` is
a file system whose clock runs behind.

### EgressVerdict (`runtime/enforcement.ts`, `policy/engine.ts`, egress rules)

One look at a connection, with the decision opened: principal, lists, content, rules, mode.
`ledger` records what monitor mode projected and what an enforcing mode answered; a behaviour
changes posture and rules between looks. EgressGate asks when a pass is charged, EgressVerdict
what it says.

### Console (`dashboard/state.ts`)

`desk` is RuntimeState's maps and lists, `shadow` a ghost: the same desk as if no simulation
had ever run. A method and the route that calls it are one step. `ConsoleIsTrue` compares the
two; `ContainmentHolds` is an action property on the status of sessions.

### Operators, Startup, Perimeter, Sandbox

*Operators* is the guard before every route (who, through which door, confirmed or not) with
the wrappers operators start: handlers that await a wrapper are in `pending`. *Startup* is the
setup page with its child and the events about it not yet delivered (`notices`), and
per service the order of `index.ts`: resolve, then listeners one by one. *Perimeter* models
an nftables table as two chains of rules, a packet taking the first that matches: what
`install` renders, what `status` concludes from a listing, and what operators add by hand;
`run` checks and starts in two steps. *Sandbox* follows one profile from the command line
through the pipe, cut anywhere, into the launcher and the kernel's answer.

### Decoys, Capture, Federation, Onboarding, Doctor

*Decoys* is the token file under commands that may die in the middle of a save. *Capture* is
one check: hits at the canary, records on the trail, the settling deadline and the verdict.
*Federation* is one poll over peers that go on observing; which host answers an address is the
network's choice. *Onboarding* is the configuration file and its backup, written in place and
possibly cut. *Doctor* is its capture section: bookmark, read, move the bookmark, report, with
two runs and a service that appends or whose chain is replaced.

### Compositions

*ForwardProxy* EXTENDS *EgressGate* EXTENDS *Lockdown*; *Anchor* EXTENDS *Evidence*;
*WriterLock* implements *SharedTrail*. `InspectionMC` and
`OperationsMC` put together components that share no state: `part` names the one that moves
in a behaviour while the others stay at one initial state, which is a sum and not a product
of their state spaces.

### Proof modules

`AuditProofs` (AuditLog, WriterLock, Anchor with Evidence), `ControlProofs` (ApprovalGate,
PolicyReload, Decoys), `McpProofs` (McpSession, McpHttp), `FloodGuardProofs`,
`ForwardProxyProofs`, `InspectionProofs` (TlsIntercept, Transparent, Capture, Perimeter) and
`OperationsProofs` (Operators, Startup, EgressVerdict, Doctor, Onboarding, Credentials,
Sandbox); see section 6. `Sums` has what they share: what a filter leaves of a list (`Kept`,
`KeptPlaces`, `KeptType`), and lemmas about the sum of a function over a finite set
(`MapThenSumSet`). The library's induction theorems cannot be instantiated here, so `Sums`
states induction about sets: a set of naturals that holds 0 and with each number the next
holds them all (`Counting`, from the least element of the numbers missed), and a set of
subsets that holds {} and grows by one element holds them all (`Growing`). From these come
that the sum exists, that one element more adds its value (`SumAdd`), and that a sum is no
larger than one over a set an injection takes it into (`SumLe`). The `*MC` modules give
constants their values and compose what is checked together; where plain values will do, the
run checks the component's own module.

## 4 Runs and bounds

| Run | Properties | Bounds, and why they are enough |
|---|---|---|
| `audit_log` | `OneChain`: clean files verify and the writer is in step with the disk. `ReadersAreTold`: consoles show only stored records, each drop is counted once. `StoredStaysStored`: a repair takes away nothing stored | 6 records, 2 refusals, 2 deaths: two drops, a marker refused and then stored, a death during the outage, a restart after each; the rules of the chain relate neighbouring records only |
| `writer_lock` | `LockMakesOneWriter`: one writer, named by the lock, in step with the file, behaving as SharedTrail says | 3 processes, 5 boots, 4 records: holder, challenger and successor. Symmetric in the processes, which no definition tells apart (`Named` is all of them). Starts and stops do not overlap |
| `approval_gate` | `DecidedOnce`; `ApprovalsAreKept`: file current, queue shown, nothing lost; `EveryWaitEnds` | 3 requests, caps of 2, one throwing save, two stops: a cap is passed, an answer races its deadline, a restart meets live and expired entries. The restoration itself is not cut short |
| `policy_reload` | `PolicyIsAccounted`: engine, coordinator and chain agree. `RefusedChangesNothing`. `ReloadsMeanWhatTheySay`: a version names one ruleset, unchanged means unchanged, a saved policy applies | two good and one bad content per file, 2 edits, 2 passes, one failing write, one refused record, one request: each edit can fall between any two reads of either pass |
| `forward_proxy` | `RecordsAreTrue`, `BudgetsHold`, `StopHolds`, `EarlyLeaverIsFiled` | one exchange and one tunnel, one budgeted agent and one nobody, three configurations, clock 0..2 with a window of 2: two admissions exhaust the window and one can age out; one stop, one file system error |
| `mcp_session` | `WrapperIsInStep`: pages are judged on what the client read, no listing is forgotten, one inventory per lock. `LearnedIsWhole` | two ids for the client and one for the server, two cursors, four pages (a tool in two versions); one wrapper and 5 requests for off and lock, two wrappers and 4 requests for learn; with 5 the limit of 4 open listings refuses one. Symmetric in client ids and wrappers |
| `flood_guard` | `LimitsHold`: windows, budgets, hints. `QueueHolds` | a window of 2 and an hour of 3 on a clock of 4; limits of 1 to 3; one session with 4 requests of three kinds and two orders, and two sessions with 4 requests, one order and one restart: a third entry fills the queue, a fourth is refused |
| `anchor` | `EvidenceStands`: one manifest in order, anchors rebuild and are provable. `VerifiersTellLoss`: a loss in a segment that an anchor names as head or tail is reported, and, of one process that never died, in any segment before it; where the entries stand in the order of rotation, four verifiers agree | two server passes with a death, one pass with a death and a loss, a server and a command with a loss; 2 rotations, files of at most 2 records: a second pass meets the first in its wait, between read and write of the manifest, and after its end. 1.83 million states |
| `mcp_http` | `OnlyPassedTravels`, `ExchangesBalance` | two exchanges: a batch of a call, a note and a listing beside a server stream; two listings where the session has room for one; single frames; at most 3 frames a stream, 2 moves of a client |
| `inspection` | `InterceptionHolds`, `BodyNeverHolds`, `RedirectedRowsAreTrue`, `WatchIsTrue` | five set-ups of the interception (authority's life over two generations, three kinds of host, three kinds of body of 3 units with a cap of 2); two redirected connections of 3 units with a peek of 2; five trees of two files with up to 2 writes, one fault and 2 scans |
| `operations` | `IdentitiesHold`, `ConsoleHolds`, `RunsAreContained`, `OperatorsRule`, `RunsAsToldOrRefuses`, `PlantedDecoysAreKept`, `VerdictIsTrue`, `VerdictsHold`, `StartupIsHonest`, `LinesTravelOnce`, `ViewsSpeakForTheirPeers`, `PrintedCredentialsStay`, `EscapesAreAlarmed`, `ReviewersReadTheTruth` | one property per component; set-ups in `OperationsMC`: three secrets and up to 3 commands under each kind of outage; 6 desk steps over one real and one simulated session, with caps that a behaviour passes; 4 changes of the kernel's table; every way to present oneself at each door; every kernel from no Landlock to ABI 5; three decoy commands; 3 trips; 2 looks; 2 services; lines that span chunks and exceed a frame; 3 instances; 3 credentials over 2 agents; a chain of 3 with a reader of 2; hosts of 2 to 4 records and up to 2 anchors, damaged, delivered in part, grown old, backed up or restarted. 916 thousand states |
| `lockdown_sentinel` | `SentinelKeepsHold`, violated (section 7) | the smallest instance |

Merged properties are conjunctions whose parts are stated, and commented, one by one in the
module; action and temporal parts are checked as such. `CHECK_DEADLOCK FALSE` is set
everywhere: every model stops when its bounds are used up, and the program itself may be
idle for ever.

Each property has a mutant: a wrong variant of one mapped definition under which the same
run finds that property violated.

Some definitions state what a comment or a document says and the code does not do. They are
violated by the models, and section 7 says under which instance; except for
`SentinelKeepsHold` no run checks them.

## 5 Fairness

Fairness is assumed only of what the process does by itself, and weak fairness is enough
everywhere: a due timer stays due until it runs, or what it was set for is gone.

* ApprovalGate: time passes a deadline (`Expire`) and the event loop runs a due timer
  (`TimeOut`). Nobody has to answer, stop or start. `EveryWaitEnds` excludes throwing
  saves: after one, `respond` has cleared the timer and nothing resolves the promise.
* PolicyReload: a handler between two file operations goes on (`Handler`), and an armed
  debounce timer fires (`WatchFires`). Nobody has to edit a file, and `SavedPolicyApplies`
  speaks only of a file the watcher still watches.
* ForwardProxy: the sentinel poll is an interval and the deferred teardown a timer.
  Clients, destinations and operators owe nothing (`SentinelStops`, `EarlyLeaverIsFiled`).
* TlsIntercept (`StallFires`): the stall timer of a body being read runs while nobody
  speaks. No sender has to send or hang up (`BodyNeverHolds`).
* SpillWatch (`SpillRuns`): the kernel delivers its events to a watch that lives, debounce
  timers and the walk's interval run, a scan and a walk in flight go on. Agents owe nothing,
  nor does the file system (`SecretIsReported`, inside `WatchIsTrue`). In `InspectionMC` each
  of the two assumptions stands for the behaviours of its own component only.
* The other modules state no liveness: nothing obliges a disk to recover, a service manager
  to start a process, a tool server, a calendar or a peer to answer, or an operator to come
  back.

## 6 Proofs

TLC checks the instances above; `tlapm` checks the following for every value of the
constants under the modules' named assumptions (bounds are naturals, caps are positive,
sentinels differ from what they stand beside).

* **AuditLog** (`TypeCorrect`, `CleanChain`: `Spec => []OneChain`). `CleanFileVerifies` is not
  inductive: that a file verifies says nothing of what the next append does. `CleanState` adds
  that an undamaged file consists of whole three-cell lines, each linked to the line before
  (`CleanFile`), and that a running writer's mark and chain state are those of the file's end.
  Lemmas give the shape of a file after an append, a roll-back and a restart; the step lemma
  has one case per action. No bound on records, refusals or deaths is used.
* **AuditLog, the readers** (`ReadersStayTold`: `Spec => []ReadersAreTold`, `StoredRecordsStay`:
  `Spec => StoredStaysStored`). That drops are declared once is an equation between a counter
  and a sum over the file, so `Accounted` adds what makes the sum move in step: ids are given
  once, so the file's are below the next one and no old line counts as this process's own; a
  process starts with nothing dropped and nothing pending; and `dropped` is the pending gap
  plus what this process's markers on file declare (`Told`). Where no fragment is left a step
  leaves the file as it was or adds one whole line (`FileStep`), and a line adds to the sum
  what it declares (`ToldAdds`, by `SumAdd`).
* **WriterLock** (`LockTypeCorrect`, `OneWriter`, `LockImplementsTrail`, `LockHolds`: `LockSpec =>
  LockMakesOneWriter`). Under `Serial` (`~Overlap` and `Named = Procs`) `Exclusion` says that
  one process at a time is in transition (`OneTurning`), that the lock names the writer, that
  a process about to write the lock has no writer beside it and knows the end of the file
  (`Claiming`), and that the writer does, too. `LockImplementsTrail` is the refinement: where
  `Exclusion` holds before and after a step, `Holder` is the one writer or nobody, and each
  step is an `Acquire`, an `Extend`, a `Release` or a stutter of SharedTrail (`TrailStep`).
* **PolicyReload** (`PolicyTypeCorrect`, `EngineInStep`, `RefusalIsInert`, `ChainIsPolicy`,
  `PolicyAccounted`: `ReloadSpec => []PolicyIsAccounted`). `StepShape` sorts the steps in two: those
  that leave the serving state and the chain alone (`Quiet`) and those that end one pass with
  a record that says truthfully what the step did (`Reported`). `InStep` (engine, cache and
  live config agree, in the middle of a handler too) and `Shapes` (what `op` holds at each
  place) are inductive over that split. `Replays` carries the last applied record along,
  because that a non-empty log has a last applied record would need induction over its length.
* **ApprovalGate** (`DecidedOnceAlways`). `Apart` adds to `DecidedOnce` that pending,
  still-to-restore and decided ids are disjoint in memory and on file, that none is newer
  than the last request, and that memory is empty while the service is down; the ids of a
  history are distinct and `Recorded` keeps them so, cap or no cap (`RecordedFacts`). The
  proof covers a restoration that is cut short too (`RestoreIsCut` is free): requests can
  be lost there, but never decided twice.
* **ApprovalGate, what is kept** (`FileAndBoardHold`, `ApprovalsKept`: `Spec => []ApprovalsAreKept`).
  `Current` says that the file is the queue unless a save threw, that every decision an agent
  was told is on it, and that the board lists what waits; a restored history takes the file's
  entries by rank (`Hydrated`), which is an injection, so its length is known.
  `FileAndBoardHold` covers a restoration cut short. That no request is forgotten (`Remembered`)
  is proved for `~RestoreIsCut` only, because otherwise it is false: section 7, `NoApprovalLost`.
* **ForwardProxy, EgressGate, Lockdown** (`ProxyTypeCorrect`, `RecordsStand`, `RecordsTrue`:
  `[]RecordsAreTrue`, `RequestsExact`, `BudgetsAlwaysHold`: `Spec => BudgetsHold`, `StopStops`). The
  invariant is `Typed`, `Sound` (what one closure may have done where it stands, what a refusal
  left undone, what its record may say), `Books` (a connection that was charged has one row of
  its agent's ledger, open until the record is filed and then with its bytes) and `Exact` (the
  rows of any window are no more than the ceiling). `SameCharge`, `Settles` and `Admits` say what
  a step can be to the ledger; each action of a connection is shown to be one of them.
  Requests: `Books` is an injection from the admissions of a window to its rows. Bytes: when a
  connection is admitted, what the ended ones of the window moved is a sum that the same
  injection takes into the sum over the rows that stand (`SumLe`). `RecordsTrue` assumes
  `~AnswersDie`: a destination that hangs up inside a response is the disagreement
  `PlaintextMeansWhole` of section 7; `RecordsStand` is the rest of it, without the assumption.
* **FloodGuard**, the queue (`QueueIsBounded`). `Queue` adds to the three caps that the queue is finite
  and that an override stands only for a session in `scaled`. Only `AskServed` adds an entry,
  behind all three checks; whatever else happens takes entries away (`Shrinks`), and a
  shield's factor of at most a hundred raises no limit (`ScaledDown`, integer rounding
  included).
* **FloodGuard**, the windows (`LimitsAlwaysHold`: `Spec => []LimitsHold`). The property counts
  the rows of a window that ends with a row, the code the events of the bucket at that
  moment; the bucket has been pruned at other moments before. So the invariant compares the two
  from every time the window still covers (`Counted`): since then, the rows let through are
  at most the events the bucket holds, and what they cost at most what the budget holds. A step
  leaves a list alone, prunes it or prunes and appends (`BucketAfter`, `BudgetAfter`); pruning
  drops nothing a window covers (`KeptMarks`, `KeptDues`, from the injection of the kept
  places into their ranks, `KeptPlaces`). A row's mode gives the limit in force when it was let
  through (`RowFacts`), so there was room for it (`Serves`). A restart clears buckets and
  rows alike. The hint follows from the types alone: when it has passed, the oldest event of a full
  bucket has left its window (`HintFollows`). Assumed: `FloodAssumption`, which asks of
  `None` that it is neither a session nor a factor.
* **Transparent** (`RedirectedRowsHold`: `TransparentSpec => []RedirectedRowsAreTrue`). The
  property speaks of what is open or filed and says nothing of a connection still being named,
  so it is not inductive. `Placed` says for each place in the closure how far the connection
  came: before a name nothing is asked, opened or filed; while connecting nothing is counted;
  once piped everything sent is delivered; and the row comes with the last step.
  `ClosedIsPlaced` and `FiledIsPlaced` carry every way to close.
* **TlsIntercept** (`InterceptionIsSound`: `Spec => []InterceptionHolds`). `Read` says of one message
  that until it is judged all of it was read and none sent on, and that one judged without a
  rest or a note was read to its end; `Ordered` that the response waits for the request's
  verdict; `Relayable` what a relayed answer owes; `Told` that a row claims no more reading
  than there was. `msg` and `ex` move by one side at a time, so the step lemma is one case per
  event with the other message untouched. Assumed: cap and body length are naturals
  (`InterceptAssumption`).
* **Operators** (`OperatorsRuleHolds`: `OperatorSpec => []OperatorsRule`). Assumed of the requests:
  one that may change something is not a read, and sessions are ended by the catalog or the
  dashboard. `AcceptedIsSanctioned` is the authorisation itself, case by case of what
  `resolveOperator` may find; `AllSanctioned` carries it to the handlers that wait, whose change
  comes later than their admission. That every listening wrapper is in reach wants `Fresh`: ids
  are never reused, so the entry a stop removes at its end is of a wrapper that nobody can
  have put back.
* **Startup** (`StartupStaysHonest`: `StartupInit /\ [][StartupNext]_startupVars =>
  []StartupIsHonest`). `Settled` says what a service has resolved by the stage it is at: what
  `index.ts` does before a port opens. `ChildKept` says that the page holds its one live child
  or news of that child's end is on its way, so a start is refused until the news has come.
* **EgressVerdict** (`VerdictsAlwaysHold`: `VerdictInit /\ [][VerdictNext]_verdictVars =>
  []VerdictsHold`). The property compares rows of looks, and a look is one function of posture,
  rules and connection (`Answer`), so `RowHolds` is proved of every row when it is recorded, from
  the order of the checks in `decide`. Assumed (`VerdictAssumption`): postures are records of
  their fields and modes and ways of reading are those named.
* **Doctor** (`EscapesStayAlarmed`: `DoctorInit /\ [][DoctorNext]_doctorVars => []EscapesAreAlarmed`).
  The bookmark moves before the verdict is said, so the invariant follows the escape through
  three places: ahead of the bookmark, before a run that has read it (`RunHolds`), or in a
  verdict (`SaidRightly`); `Bookmarked` says that what the bookmark passed some run assessed.
* **Onboarding** (`PrintedCredentialsStand`: assuming `Careful`, `[]PrintedCredentialsStay`).
  `UnderWay` says at each place of a run what it holds beside the file: nothing else runs, its
  update is the file with its own agent added, its backup is the file, and then the file is its
  update. Without `Careful` (one command at a time, a cut file put back) it is false: section 7.
* **Credentials** (`IdentitiesAlwaysHold`: `Spec => []IdentitiesHold`). `Follows` ties proxy and
  file through the stamps (a stamp names one content; what was the file when the proxy last
  looked it has copied or is about to read), `Stores` says that the file and every draft are
  stores in which no agent has two credentials without an end, and `Alone` that a command
  which runs by itself works on the file as it is. Assumed of a set-up, besides its shape: it
  has finitely many commands.

* **McpSession** (`SessionsStayInStep`, `OnlyWholeInventoriesAreLearned`: `Spec /\ []NoneEvicted =>
  []WrapperIsInStep` and `[]LearnedIsWhole`). `SessionInv` has two parts. `WrappersKnow`: each id
  stands once in the map and for the client's own open call (`Attributed`), an open listing holds
  the pages its client has read (`PagesAreKnown`), and one call, cursor or write under way can
  end it (`OneWayOn`), so that to close it by one way leaves nothing behind. `ReadToTheEnd`: what
  is approved, stored or about to be written is what some client read to the end. Two
  hypotheses, each of which section 7 needs to be named: `NoneEvicted`, since the map of 512
  calls forgets the oldest when it is full (`mcp/wrap.ts:49`), and `IdsApart`, since requests of
  both directions share the map (`mcp/wrap.ts:227`). The run meets both: its three ids are apart
  and cannot fill a map of four.
* **McpHttp** (`OnlyWhatPassedTravels`, `ExchangesStayBalanced`: `HttpSpec => []OnlyPassedTravels` and
  `[]ExchangesBalance`). `Exchange` says for each stage what went up, what was answered and what
  the client was sent: an id stands in `out` only if it was refused or answered, and then once,
  and in an exchange that goes well no refused id is missing, and an answered one only after a
  cut. `ListingsKept` says
  that an id is open exactly where some exchange sent its listing up and no answer came. Exchanges
  share `open` alone, and `HttpAssumption` says that clients number their requests apart, so a
  step of one exchange leaves the invariant of the others as it was.
* **Sandbox** (`SandboxKeepsItsWord`: `SandboxSpec => []RunsAsToldOrRefuses`). `SandboxInv` carries the
  profile through the pipe: what the launcher holds is a part of what was rendered (`ReadOf`), no
  launcher goes on without the last line (`WholeProfile`), and what is in force from then on is
  what was asked for, or less by what was told (`Confined`).
* **Capture** (`CaptureTellsTheTruth`: `CaptureSpec => []VerdictIsTrue`). `EachRelayedOnce` counts: the
  relayed hits are the requests under way and the records of those that arrived, so records that
  equal the hits leave none for a direct fetch; `PeersAreWhatTheyAre` says which peer a direct
  hit shows, and `JudgedAsItStands` that a verdict is that of the evidence as it stands.
* **Perimeter** (`AgentsStayContained`: `TableSpec => []RunsAreContained`). `PerimeterInv` says of a table
  that it is an earlier release's or that all its redirects are one command line's and its
  accepts for the agent are the proxy's port or were opened by hand (`RuledBy`); a check that
  finds such a table installed then decides where a packet goes. Assumed: rules added by hand
  accept or drop (`OwnRulesAcceptOrDrop`; a redirect typed by hand is outside the claim), and a
  port is not a verdict (`PortsArePorts`).
* **Decoys** (`DecoysAreKept`: `DecoySpec => []PlantedDecoysAreKept`, for `~Together`; otherwise it is
  false: section 7). `DecoyInv` adds that one command is busy at a time, and that what it is about
  to store holds every decoy that was reported as saved, wherever a death cuts it. For the names
  `FewEnough` counts tokens by the commands that began, so that an ending is free for each
  (`NameIsNew`, by an injection of the endings into the names taken). The loop over the tokens is
  a recursive function whose table is shown to exist, length by length (`BlockExists`, by
  `Counting`). Assumed: numerals are distinct and as many as the commands may need
  (`DecoyAssumption`; the code's counter has no end).
* **Anchor, the verifiers** (`LossesAreTold`: `AnchorSpec => []VerifiersTellLoss`). That a checkpoint's
  head or tail is missed follows from `PassesInv`: what a pass holds where it stands, that
  passes of one process take turns (`Turns`), and that a checkpoint's tail is of a later segment
  than its head (`SignedApart`). That older segments are missed, too, needs `CoversInv`: while one
  process anchors and none has died, every segment a signed checkpoint covers is among the
  entries of the manifest, or of the text a pass is about to write (`KeptIn`). Agreement is proved of
  every directory of the right shape: with entries in order, the manifest, the chain across
  files and the anchors fail for all four verifiers alike.
* **Anchor, the evidence** (`EvidenceStays`: `AnchorSpec => []EvidenceStands`). Of one
  process, dying or not, whose closed files were left alone, the manifest holds the first closed
  segments, each at its place (`SegmentsStand`); that the next pass continues there needs
  `SealingReaches`: a pass that seals has sealed, or has in `todo`, every segment older than one
  in `todo` and every one the log counts. `SignedStands` says of each
  checkpoint, held or logged, that the manifest rebuilds it. Assumed: `EvidenceAssumption` and
  `SetupAssumption` (`Nothing` is neither a record nor a pass).

Some definitions were restated for the proofs without changing what they describe: guards of
CASE arms that overlapped are now exclusive (Startup `OpenForwardProxy`, EgressVerdict
`Decide`), since TLA+ does not say which of two true arms is meant; ApprovalGate's `Hydrated`
takes entries by rank and not by a recursion, and so do FloodGuard's `Fresh` and `Charged`,
Sandbox's `Dedupe` and McpHttp's batches and answers (`Kept`) instead of `SelectSeq` or a fold.
Capture's CASE over the hits became IFs and its counts sets of places; Perimeter finds a rule by
its place in a chain; Decoys' `EnvBlock` is a recursive function; an anchor pass takes the
least of the set `todo` instead of the head of a sorted list.

Only model-checked, and why:

* the liveness parts: fairness and ENABLED are beyond this prover;
* what is defined by a fold or by `SelectSeq`, where a proof would be an induction over the
  data itself: StdioWrap (`LinesTravelOnce`), Federation (`ViewsSpeakForTheirPeers`), Console
  (`ConsoleHolds`) and FleetEvidence (`ReviewersReadTheTruth`);
* McpSession once a call was put out of the map: the properties are false there in part
  (`AttributionIsNoInput`), so the theorems stop at it.

## 7 Disagreements between code and text

With a run (details under `findings` in `PROJECT.json`): `lockdown_sentinel`. A poll that
meets a file system error lifts the sentinel's hold, since `existsSync` answers false and
does not throw (`runtime/lockdown.ts:254`).

The rest was met while modelling. A name is that of a definition which the model violates
under the instance given; without one, the text says what the model assumes instead.

**Audit and evidence**

* `RestartsKeepFileValid` (AuditLog): after a death in the middle of an append the restarted
  sink appends its first record onto the torn line (`audit/file-sink.ts:236`), and the file
  fails its own verification, although `docs/audit-format.md:302` says nothing in normal
  operation produces that.
* `MarkersInPlace` (AuditLog): a gap marker whose own append is refused while the event
  after it is stored ends up behind that event (`audit/logger.ts:125`).
* `OnlyOwnBytesRemoved` (AuditLog, three refusals): fragments that two repairs could not undo
  leave the mark short of the file's end; when their length is that of a line, the next repair
  cuts off a record stored since (`audit/file-sink.ts:249`).
* `AtMostOneWriter` (WriterLock): with `Overlap = TRUE` an empty lock counts as stale, and the
  second `release` of a stopping process unlinks its successor's lock (`audit/file-sink.ts:130`,
  `:162`); with a process outside `Named`, a live writer whose command line does not contain
  "agentwall" is taken for a recycled pid (`:106`). `LoneWriterSeesTail`: the tail is read
  before the lock is claimed (`server.ts:95`).
* `ManifestIsAppendOnly`, `AnchorCoversHistory` (Anchor): a command and the server sealing at
  once lose or reorder entries, though `audit/anchor-service.ts:193` calls the manifest
  append-only and `rotation.ts:27` derives coverage from it. The four verifiers differ on a
  failed submission, an unsealed rotated file, a torn manifest line and a missing live file
  (`docs/audit-format.md:24,29`). Three segments sealed by two processes can stand with a later
  one first: the Go verifier alone accepts that directory (`VerifiersAgreeAnyway`), and the loss
  of an older segment may go unnoticed. `VerifiersAgree` leaves all those states out. Two first uses at
  once may each make a key (`audit/signing.ts:63`); deployments here have one.
* `EmptyMeansEmpty` (FleetEvidence): a host whose one file exceeds the read cap is called
  "empty ... read and holds no records" (`evidence/fleet.ts:887`, `docs/fleet-evidence.md:150`).
* `NoAlarmWithoutCause` (FleetEvidence): a backup that an anchor pass sealed and that is then
  moved away as advised leaves a missing segment, and a host whose only submissions failed
  has a failing layer; both are "broken", though the comment at `evidence/fleet.ts:839` says
  an absence of external evidence is not a contradiction.
* A backup above the cap is not among the files asked for overlap (`evidence/fleet.ts:823`).
  A restart right after a rotation finds no live file and numbers from 0
  (`audit/file-sink.ts:279`), so honest segments overlap, which `evidence/fleet.ts:805` and
  `docs/fleet-evidence.md:293` say cannot be; then `anchorReach`, which compares indexes, also
  covers records no anchor was taken over (`OneNumbering` is `CoverIsCommitted`'s premise).
  That the first record of a live file is missing is seen by neither row of a session
  (`evidence/scorecard.ts:331`). A directory read while it is being delivered may be called
  broken.
* `RerunAnswers` (Doctor): "Re-run with the variable set to get an answer" (`cli.ts:645`)
  gets none, as the bookmark has moved (`cli.ts:557`). A replaced chain is taken as a baseline
  and exits 0 (`cli.ts:571`), though `docs/fleet.md:486` says everything readable counts as
  new. More records than one read takes, or a death between the bookmark and the report, lose
  an alarm; `EscapesAreAlarmed` names both exceptions.

**Approvals, policy, budgets**

* `NoApprovalLost` with `RestoreIsCut = TRUE` (ApprovalGate): a death inside
  `restorePersistedState` loses the requests the loop had not reached (`approval/gate.ts:209`),
  which `tests/approval-persistence.test.ts:23` says survive a restart.
  `PendingAlwaysShown`: the dashboard cuts its rows at 160 whatever their status
  (`dashboard/state.ts:2865`).
* `UnchangedMeansUnchanged` (PolicyReload, policies with two rules of one id): the diff keys
  rules by id, so taking one of them out of force is recorded as unchanged
  (`runtime/reload.ts:236`). The run's policies have distinct ids.
  `AdoptedHashNamesConfig`: config values and config hash come from two reads
  (`runtime/reload.ts:361`). `ViewIsEnforced`: when a profile's second upsert fails the
  dashboard shows rules that are not enforced (`routes/dashboard.ts:1270`).
  `RequestKeepsItsPolicy`: only `/evaluate` uses the pinned snapshot
  (`routes/telegram.ts:108`).
* `DeniedCostsNothing` (EgressGate): a request refused on its second or third pass keeps
  the row of its first (`runtime/enforcement.ts:1161`; `:1043` says it costs nothing).
* `EveryLaneWithinCap` (FloodGuard): pending requests of a session are counted by an id that
  the gate does not store for a request without one (`routes/approval.ts:48`,
  `docs/runtime-floodguard.md:28`).

**Proxies and content**

* `PlaintextMeansWhole` (ForwardProxy, `AnswersDie = TRUE`): a response its destination cuts
  off is recorded as plaintext (`proxy/forward-proxy.ts:676`, `docs/enforcement.md:310`).
  `UpstreamFailureIsFiled`: a destination that hangs up inside a relayed stream files no
  record until the client leaves (`proxy/forward-proxy.ts:1266`).
* `RowSaysTheWeaker` (TlsIntercept): the word for a body that cannot be decoded has no place in
  the order of words, so the row may claim the reading of the other body
  (`proxy/tls-intercept.ts:709`, comment at `:704`). A body its sender
  cuts is framed as whole, and an upstream error after the head ends the client's answer in
  order. A generated key and a certificate are two writes (`proxy/mitm-ca.ts:178`).
* Transparent: the listener does not half-close, so a client that ends its side ends the
  answer (`proxy/transparent.ts:528`). The SNI cross-check does not run on intercepted tunnels.
* SpillWatch: a directory that cannot be read for one walk forgets its files
  (`spill/watch.ts:513`), a scan that failed is not retried (`:540`), writes without a pause
  re-arm the debounce for ever (`:590`), and events without a name are dropped (`:431`);
  `SecretIsReported` names each as an exception.

**MCP**

* `LearnedIsWhole` when both sides use one id (McpSession): requests of both directions share
  one map (`mcp/wrap.ts:227`), and the first page of an answer may become the baseline
  (`docs/mcp.md:212`). The run gives the sides different ids.
  `AttributionIsNoInput` (lock mode, `MaxTracked = 1`): an answer whose call was evicted is
  compared as if its page were the whole inventory (`mcp/wrap.ts:49`). `FirstIsKept` (two
  wrappers that learn): the second write replaces the first (`mcp/gates.ts:828`,
  `docs/feature-reference.md:178`).
* `BaselineWasForwarded` (McpHttp): an answer may be learned and then not reach its client
  (`docs/mcp.md:216`). Refused requests of a batch get no error when the upstream fails
  (`mcp/http.ts:744`, `docs/mcp.md:177`); the "close" listener is attached late (`:846`); a
  failed exchange leaves its listing open, against a limit of 512 (`mcp/wrap.ts:529`).
* StdioWrap: only the first signal is relayed (`mcp/stdio.ts:349`); a grandchild that holds the
  pipes keeps the wrapper waiting.

**Operator side**

* `RevokedStaysRevoked` (Credentials, two commands at once): a command that read before
  another's revocation writes the secret back (`fleet/credentials.ts:296`,
  `docs/fleet.md:205`). A command that runs while the file is absent starts a new store.
  `floorBlocks` counts revoked records as credentials (`fleet/registry.ts:277`).
* Console: clearing a simulation drops real edges that touch a synthetic record
  (`dashboard/state.ts:1899`); only `POST /evaluate` checks a session's status
  (`docs/runtime-floodguard.md:70`).
* Perimeter: only the first exact redirect is judged (`perimeter/spec.ts:344`), a chain that is
  not hooked passes, a second agent's install replaces the first's, and `run` checks and
  starts in two steps; `RunsAreContained` speaks of the table that `run` saw.
* Operators: shutdown does not wait for a wrap under way (`routes/operator.ts:449`).
* Sandbox: `--allow-degraded` alone still refuses on a kernel without Landlock
  (`docs/sandbox.md:168`); of two grants for one path the rank decides, and exec is lost to
  write (`sandbox/profile.ts:342`).
* Decoys: two generate commands at once lose a decoy (`docs/decoy.md:34`; `Together = TRUE`).
* `CapturedMeansNothingDirect` (Capture): where peers cannot be told apart the verdict counts
  (`capture/verify.ts:797`, `docs/verify-capture.md:113`), and a direct fetch may hide behind
  a record of a request that never arrived.
* `SaidMeansBound` (Startup): "listening" is printed of a transparent listener whose port is
  taken (`index.ts:463`). A page that dies between its three files leaves a partial set-up
  (`setup.ts:111`); a forced set-up replaces the token while the old service keeps it.
* `EveryChannelIsShown` (Federation): a row's id names agent and channel but no instance
  (`dashboard/state.ts:2699`), so of two peers that report one agent's channel the second is
  dropped (`org/federation.ts:378`).
* `PostureIsTrue` (Onboarding): a config with `egress.defaultDeny` and no enforcement mode is
  reported as one that enforces, and the service runs it in monitor mode
  (`onboard/index.ts:255`, `docs/install.md:98`). With `Careful = FALSE` two commands at once
  lose an agent, and a config cut to nothing is read as an empty one whose backup is then
  overwritten (`docs/onboarding.md:124`).

## 8 What is not modelled

* **Policy rules and matching, content scanners.** Tables of patterns and pure functions over
  text; what they decide enters as a choice (a sight, a finding, a verdict) and EgressVerdict
  has their order and combination. A model of the tables would be a copy of them.
* **Compliance, rationale, telemetry, CLI parsing, integrations, benchmarks.** Read-only
  reports, wording, best-effort output, or stateless routes that ask the engine.
* **Rendering** of the dashboard, of evidence and fleet reports, roll-ups and coverage counters.
* **Formats**: bytes of a calendar proof, TLS records, HTTP headers, JSON, YAML, nftables
  syntax; each is modelled by what a reader makes of it. Hash collisions, signature schemes.
* **External systems**: kernel (Landlock, seccomp, nftables, `/proc`), calendars, certificate
  tools, peers. They are modelled from how this code uses them and answer freely.
* Power loss and `fsync`: a write the kernel took is on file. Editing of the audit file by
  others except where Anchor and FleetEvidence lose or damage files.
* Clocks stepping backwards; timers are never early. `Expire` is the deadline itself.
* The stale rule of the MCP baseline's lock; trees deeper than one level under the spill watch;
  a credential that changes between two passes of one exchange; that collection and
  verification of one evidence report read the files at two instants.
* The flood guard's telemetry, fractions in its cost weights, and its order on the dashboard.
* Liveness under failing saves, and of audit storage: nothing bounds an outage.
