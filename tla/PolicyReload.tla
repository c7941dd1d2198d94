---------------------------- MODULE PolicyReload ----------------------------
(***************************************************************************)
(* Hot reload of policy.yaml and agentwall.config.yaml: the ruleset        *)
(* snapshot of policy/engine.ts, the file reader and watcher of            *)
(* policy/runtime.ts, the coordinator of runtime/reload.ts, the rule       *)
(* writing controls of routes/dashboard.ts and the per-request pinning of  *)
(* server.ts.                                                              *)
(*                                                                         *)
(* The process runs one handler at a time, but other programs edit the two *)
(* files between any two file operations of a handler: those are the steps *)
(* of `op`.  A file is its content; its hash is the content itself.        *)
(***************************************************************************)
EXTENDS Integers, Sequences, SequencesExt, FiniteSets

CONSTANTS
    PolicyFiles,    \* policy file contents: [parses, rules], rules a sequence of [id, body]
    ConfigFiles,    \* config file contents: [parses, default, boot]
    Profile,        \* the rules one firewall profile upserts, in order
    Requests,       \* HTTP requests whose handler evaluates policy
    Pinned,         \* those whose route evaluates req.policySnapshot
    MaxEdits,       \* bound: edits of the two files by other programs
    MaxReloads,     \* bound: reloads and profile writes
    MaxUnwritten,   \* bound: failing writes of the policy file
    MaxDrops        \* bound: audit records the sink refuses

ASSUME ReloadAssumption ==
    /\ \A f \in PolicyFiles \cup ConfigFiles : f.parses \in BOOLEAN
    /\ \E f \in PolicyFiles : f.parses
    /\ \E f \in ConfigFiles : f.parses
    /\ Pinned \subseteq Requests
    /\ Len(Profile) > 0
    /\ MaxEdits \in Nat /\ MaxReloads \in Nat /\ MaxUnwritten \in Nat
    /\ MaxDrops \in Nat

VARIABLES
    policyFile, configFile,     \* the disk
    op,             \* the handler that is between two file operations
    runtime,        \* FileBackedPolicyRuntime: the file its rules came from
    engine,         \* the snapshot in force: [version, rules, default]
    applied,        \* coordinator: the policy file behind the engine's rules
    appliedConfig,  \* coordinator: hash of the config file last adopted
    config,         \* the live config object: [default, boot]
    watch,          \* [armed, alive]: debounce timer set; watching the file
    log,            \* config:reload records that reached the chain
    request,        \* per request: state, pinned and answering snapshot
    edits, reloads, unwritten, drops

reloadVars == <<policyFile, configFile, op, runtime, engine, applied, appliedConfig,
          config, watch, log, request, edits, reloads, unwritten, drops>>
files == <<policyFile, configFile>>
serving == <<runtime, engine, applied, appliedConfig, config>>

Idle == [kind |-> "idle"]

\* A request has not arrived: it carries no snapshot.
NoSnapshot == [version |-> 0, rules |-> <<>>, default |-> "deny"]

-----------------------------------------------------------------------------
(* Operators on rules and reports.                                         *)

\* Mutant: modified and removed rules do not count as a change.
DefsIdsOnly(rules) == {r.id : r \in Range(rules)}

\* diffRules compares definitions by id; a Map keeps the last of two rules that
\* share an id.
DefsOf(rules) ==
    {rules[i] : i \in {k \in DOMAIN rules :
                         \A j \in DOMAIN rules : j > k => rules[j].id # rules[k].id}}
Differs(before, after) == DefsOf(before) # DefsOf(after)

\* upsertDeclarativeRule: replace the first rule with that id, or append.
Upserted(rules, rule) ==
    LET same == {i \in DOMAIN rules : rules[i].id = rule.id}
    IN  IF same = {} THEN Append(rules, rule)
        ELSE [rules EXCEPT ![CHOOSE i \in same : \A j \in same : i <= j] = rule]

\* replaceRules: every swap makes a new version.
Swapped(e, rules) == [version |-> e.version + 1, rules |-> rules, default |-> e.default]

\* setDefaultDecision: a new version too, unless the decision is the same.
Defaulted(e, default) ==
    IF e.default = default THEN e
    ELSE [version |-> e.version + 1, rules |-> e.rules, default |-> default]

\* finish -> record -> emit: written after the change, or refused by the sink.
Report(ok, changed, before, after) ==
    \/ /\ log' = Append(log, [ok |-> ok, changed |-> changed, before |-> before,
                              after |-> after, version |-> engine'.version])
       /\ UNCHANGED drops
    \/ /\ drops < MaxDrops
       /\ drops' = drops + 1
       /\ UNCHANGED log
NoReport == UNCHANGED <<log, drops>>

-----------------------------------------------------------------------------
(* Other programs edit the files.                                          *)

Noticed == [watch EXCEPT !.armed = watch.alive \/ watch.armed]

\* Saved in place the watched inode reports the edit.  An editor that renames a
\* new file over it is reported once; fs.watch then follows the lost inode and
\* reports no later edit.
EditPolicy(f) ==
    /\ edits < MaxEdits /\ f # policyFile
    /\ edits' = edits + 1
    /\ policyFile' = f
    /\ watch' \in {Noticed, [Noticed EXCEPT !.alive = FALSE]}
    /\ UNCHANGED <<configFile, op, serving, log, request, reloads, unwritten, drops>>

EditConfig(f) ==
    /\ edits < MaxEdits /\ f # configFile
    /\ edits' = edits + 1
    /\ configFile' = f
    /\ UNCHANGED <<policyFile, op, serving, watch, log, request, reloads, unwritten, drops>>

-----------------------------------------------------------------------------
(* Reload.                                                                 *)

\* Mutants: the runtime, which has moved already, is asked for the ruleset in
\* force before; the engine moves and the coordinator's own cache does not.
ApplyExternalBeforeOfRuntime(f, ok) ==
    /\ engine' = IF ok THEN Swapped(engine, f.rules) ELSE engine
    /\ applied' = IF ok THEN f ELSE applied
    /\ Report(ok, ok /\ Differs(runtime'.rules, f.rules), runtime', f)
\* applyExternalReload: the runtime has already read file f.
ApplyExternal(f, ok) ==
    /\ engine' = IF ok THEN Swapped(engine, f.rules) ELSE engine
    /\ applied' = IF ok THEN f ELSE applied
    /\ Report(ok, ok /\ Differs(applied.rules, f.rules), applied, f)

\* FileBackedPolicyRuntime.reload: one read; compiled before any field moves.
RuntimeReads == runtime' = IF policyFile.parses THEN policyFile ELSE runtime

\* The watcher's debounce timer: reload the policy file alone.
WatchFires ==
    /\ watch.armed /\ op = Idle
    /\ watch' = [watch EXCEPT !.armed = FALSE]
    /\ RuntimeReads
    /\ ApplyExternal(policyFile, policyFile.parses)
    /\ UNCHANGED <<files, op, appliedConfig, config, request, edits, reloads, unwritten>>

\* The dashboard's reload_policy control.
DashboardReload ==
    /\ op = Idle /\ reloads < MaxReloads
    /\ reloads' = reloads + 1
    /\ RuntimeReads
    /\ ApplyExternal(policyFile, policyFile.parses)
    /\ UNCHANGED <<files, op, appliedConfig, config, watch, request, edits, unwritten>>

\* coordinator.reload (SIGHUP, POST /reload), phase 1: loadConfig reads and
\* validates the config file.  A file it refuses ends the reload.
ReloadConfig ==
    /\ op = Idle /\ reloads < MaxReloads
    /\ reloads' = reloads + 1
    /\ UNCHANGED <<files, serving, watch, request, edits, unwritten>>
    /\ \/ /\ configFile.parses
          /\ op' = [kind |-> "reload", next |-> configFile]
          /\ NoReport
       \/ /\ ~configFile.parses
          /\ UNCHANGED op
          /\ Report(FALSE, FALSE, applied, applied)

ConfigChanges(next) == next.default # config.default \/ next.boot # config.boot

\* Mutant: the new config goes live before the policy file is known good.
ReloadRestConfigFirst ==
    /\ op.kind = "reload"
    /\ op' = Idle
    /\ RuntimeReads
    /\ config' = [config EXCEPT !.default = op.next.default]
    /\ appliedConfig' = configFile
    /\ UNCHANGED <<files, watch, request, edits, reloads, unwritten>>
    /\ \/ /\ policyFile.parses
          /\ engine' = Defaulted(Swapped(engine, policyFile.rules), op.next.default)
          /\ applied' = policyFile
          /\ Report(TRUE, Differs(applied.rules, policyFile.rules) \/ ConfigChanges(op.next),
                    applied, policyFile)
       \/ /\ ~policyFile.parses
          /\ engine' = Defaulted(engine, op.next.default)
          /\ UNCHANGED applied
          /\ Report(FALSE, FALSE, applied, policyFile)

\* The rest of reload(): hash the config file by a second read, reload the
\* policy file, and only then swap rules, default decision and caches.  Keys a
\* running process cannot change stay at their boot values.
ReloadRest ==
    /\ op.kind = "reload"
    /\ op' = Idle
    /\ RuntimeReads
    /\ UNCHANGED <<files, watch, request, edits, reloads, unwritten>>
    /\ \/ /\ policyFile.parses
          /\ engine' = Defaulted(Swapped(engine, policyFile.rules), op.next.default)
          /\ applied' = policyFile
          /\ appliedConfig' = configFile
          /\ config' = [config EXCEPT !.default = op.next.default]
          /\ Report(TRUE, Differs(applied.rules, policyFile.rules) \/ ConfigChanges(op.next),
                    applied, policyFile)
       \/ /\ ~policyFile.parses
          /\ UNCHANGED <<engine, applied, appliedConfig, config>>
          /\ Report(FALSE, FALSE, applied, policyFile)

-----------------------------------------------------------------------------
(* Writing rules from the dashboard: policy-scoped-rule writes one rule,   *)
(* channel-firewall-profile the rules of Profile.                          *)

WriteStart(scoped) ==
    /\ op = Idle /\ reloads < MaxReloads
    /\ reloads' = reloads + 1
    /\ op' = [kind |-> "read", scoped |-> scoped,
              left |-> IF scoped THEN <<Head(Profile)>> ELSE Profile]
    /\ NoReport
    /\ UNCHANGED <<files, serving, watch, request, edits, unwritten>>

\* upsertDeclarativeRule failed.  The scoped rule's handler records the refusal
\* (f is the file its result names); the profile's answers 400 at once.
UpsertFails(f) ==
    /\ op' = Idle
    /\ IF op.scoped THEN ApplyExternal(f, FALSE)
       ELSE NoReport /\ UNCHANGED <<engine, applied>>

\* upsertDeclarativeRule reads the file ...
UpsertRead ==
    /\ op.kind = "read"
    /\ UNCHANGED <<files, runtime, appliedConfig, config, watch, request, edits,
                   reloads, unwritten>>
    /\ \/ /\ policyFile.parses
          /\ op' = [kind |-> "write", scoped |-> op.scoped, left |-> op.left,
                    rules |-> Upserted(policyFile.rules, Head(op.left))]
          /\ NoReport
          /\ UNCHANGED <<engine, applied>>
       \/ /\ ~policyFile.parses
          /\ UpsertFails(runtime)

\* ... writes it back, or fails to, with the file as it was or cut short ...
UpsertWrite ==
    /\ op.kind = "write"
    /\ UNCHANGED <<configFile, runtime, appliedConfig, config, request, edits, reloads>>
    /\ \/ /\ policyFile' = [parses |-> TRUE, rules |-> op.rules]
          /\ watch' = Noticed
          /\ op' = [kind |-> "reread", scoped |-> op.scoped, left |-> op.left]
          /\ NoReport
          /\ UNCHANGED <<engine, applied, unwritten>>
       \/ /\ unwritten < MaxUnwritten
          /\ unwritten' = unwritten + 1
          /\ \/ UNCHANGED <<policyFile, watch>>
             \/ policyFile' = [parses |-> FALSE, rules |-> <<>>] /\ watch' = Noticed
          /\ UpsertFails(runtime)

\* ... and reloads the runtime from it.  After the last rule one
\* applyExternalReload covers the whole profile.
UpsertReread ==
    /\ op.kind = "reread"
    /\ RuntimeReads
    /\ UNCHANGED <<files, appliedConfig, config, watch, request, edits, reloads, unwritten>>
    /\ \/ /\ policyFile.parses /\ Len(op.left) > 1
          /\ op' = [kind |-> "read", scoped |-> op.scoped, left |-> Tail(op.left)]
          /\ NoReport
          /\ UNCHANGED <<engine, applied>>
       \/ /\ policyFile.parses /\ Len(op.left) = 1
          /\ op' = Idle
          /\ ApplyExternal(policyFile, TRUE)
       \/ /\ ~policyFile.parses
          /\ UpsertFails(policyFile)

-----------------------------------------------------------------------------
(* Requests.                                                               *)

\* onRequest pins the snapshot; the handler runs once the body has arrived.
Arrive(r) ==
    /\ op = Idle /\ request[r].state = "none"
    /\ request' = [request EXCEPT
                      ![r] = [state |-> "open", pinned |-> engine, answer |-> @.answer]]
    /\ UNCHANGED <<files, op, serving, watch, log, edits, reloads, unwritten, drops>>

\* /evaluate answers from the pinned snapshot; the telegram, damage-control,
\* communication-channel, probe and dashboard-proof routes ask the engine.
Evaluate(r) ==
    /\ op = Idle /\ request[r].state = "open"
    /\ request' = [request EXCEPT
                      ![r] = [state |-> "answered", pinned |-> @.pinned,
                              answer |-> IF r \in Pinned THEN @.pinned ELSE engine]]
    /\ UNCHANGED <<files, op, serving, watch, log, edits, reloads, unwritten, drops>>

-----------------------------------------------------------------------------

\* Boot loads both files; the constructors hash what they loaded.
ReloadInit ==
    /\ policyFile \in {f \in PolicyFiles : f.parses}
    /\ configFile \in {f \in ConfigFiles : f.parses}
    /\ op = Idle
    /\ runtime = policyFile
    /\ applied = policyFile
    /\ appliedConfig = configFile
    /\ config = [default |-> configFile.default, boot |-> configFile.boot]
    /\ engine = [version |-> 1, rules |-> policyFile.rules, default |-> configFile.default]
    /\ watch = [armed |-> FALSE, alive |-> TRUE]
    /\ log = <<>>
    /\ request = [r \in Requests |->
                    [state |-> "none", pinned |-> NoSnapshot, answer |-> NoSnapshot]]
    /\ edits = 0 /\ reloads = 0 /\ unwritten = 0 /\ drops = 0

Handler == ReloadRest \/ UpsertRead \/ UpsertWrite \/ UpsertReread

ReloadNext ==
    \/ \E f \in PolicyFiles : EditPolicy(f)
    \/ \E f \in ConfigFiles : EditConfig(f)
    \/ WatchFires
    \/ DashboardReload
    \/ ReloadConfig
    \/ ReloadRest
    \/ \E scoped \in BOOLEAN : WriteStart(scoped)
    \/ UpsertRead
    \/ UpsertWrite
    \/ UpsertReread
    \/ \E r \in Requests : Arrive(r) \/ Evaluate(r)

ReloadSpec == ReloadInit /\ [][ReloadNext]_reloadVars

\* A handler runs to its end and a timer that is set fires.
ReloadFairSpec == ReloadSpec /\ WF_reloadVars(Handler) /\ WF_reloadVars(WatchFires)

-----------------------------------------------------------------------------
(* Properties.                                                             *)

OkRecords == {i \in DOMAIN log : log[i].ok}
LastOk(n) ==
    LET upto == {i \in OkRecords : i <= n}
    IN  CHOOSE i \in upto : \A j \in upto : j <= i

\* The versions, timer, counters and per-request states are what the code keeps:
\* version 0 is never a policy in force (engine.ts), counters stay in bounds.
ReloadTypeOK ==
    /\ policyFile.parses \in BOOLEAN /\ configFile \in ConfigFiles
    /\ op.kind \in {"idle", "reload", "read", "write", "reread"}
    /\ runtime.parses /\ applied.parses /\ appliedConfig \in ConfigFiles
    /\ engine.version \in Nat \ {0}
    /\ watch \in [armed : BOOLEAN, alive : BOOLEAN]
    /\ \A i \in DOMAIN log : log[i].version \in Nat \ {0}
    /\ \A r \in Requests : request[r].state \in {"none", "open", "answered"}
    /\ edits \in 0..MaxEdits /\ reloads \in 0..MaxReloads
    /\ unwritten \in 0..MaxUnwritten /\ drops \in 0..MaxDrops

\* Whatever trigger moved the policy last, between handlers the ruleset the
\* engine serves is the coordinator's cached one, with the live default.
EngineMatchesApplied ==
    op = Idle => /\ engine.rules = applied.rules
                 /\ engine.default = config.default

\* A refused reload, of either file and by any trigger, leaves the ruleset, the
\* live config and the cached hashes of both files exactly as they were.
RefusedChangesNothing ==
    [][Len(log') > Len(log) /\ ~Last(log').ok
         => UNCHANGED <<engine, applied, appliedConfig, config>>]_reloadVars

\* When no record was refused the chain replays the policy: each applied record
\* starts from the version the one before it put in force, a refused one names
\* the version still in force, and the last one applied is in force now.
ChainReplaysPolicy ==
    drops = 0 =>
        /\ \A i \in DOMAIN log :
              (\E j \in OkRecords : j < i) => log[i].before = log[LastOk(i - 1)].after
        /\ OkRecords # {} => log[LastOk(Len(log))].after = applied

\* The three places that name the policy agree: the engine serves what the
\* coordinator applied, and replaying the chain gives it.
PolicyIsAccounted == EngineMatchesApplied /\ ChainReplaysPolicy

\* A version names one ruleset: the snapshot in force and those pinned to or
\* answered by requests are the same when their versions are, and a version after
\* the first is on the chain, with the file its rules came from.
VersionNamesRuleset ==
    LET seen == {engine} \cup {request[r].pinned : r \in Requests}
                \cup {request[r].answer : r \in Requests}
    IN  \A s, t \in seen :
          /\ s.version = t.version => s = t
          /\ drops = 0 /\ s.version > 1 =>
               \E i \in OkRecords : log[i].version = s.version /\ log[i].after.rules = s.rules

\* A reload that reports that nothing changed left the ruleset and the default
\* decision as they were ("unchanged" in the record, diff empty).
UnchangedMeansUnchanged ==
    [][Len(log') > Len(log) /\ Last(log').ok /\ ~Last(log').changed
         => /\ Range(engine'.rules) = Range(engine.rules)
            /\ engine'.default = engine.default]_reloadVars

\* While the watched file is the one on disk, a good policy saved there goes
\* into force, or is overtaken by another edit, without any trigger.
SavedPolicyApplies ==
    \A f \in {g \in PolicyFiles : g.parses} :
        (policyFile = f /\ watch.alive /\ applied # f) ~> (applied = f \/ policyFile # f)

\* A reload does what it says: a version is one ruleset for every request, no
\* change is a change, and a saved policy takes effect.
ReloadsMeanWhatTheySay ==
    []VersionNamesRuleset /\ UnchangedMeansUnchanged /\ SavedPolicyApplies

\* Code comment, runtime/reload.ts: the adopted hash is that of the config file
\* as it was when its values were adopted, so the file it names has the default
\* decision in force.
AdoptedHashNamesConfig == op = Idle => appliedConfig.default = config.default

\* Code comment, policy/runtime.ts: the operator's view of the rules never shows
\* rules that are not enforcing, once no timer is left to reconcile them.
ViewIsEnforced == op = Idle /\ ~watch.armed => runtime = applied

\* Code comment, server.ts: a request that started under one policy finishes
\* under it.
RequestKeepsItsPolicy ==
    \A r \in Requests : request[r].state = "answered" => request[r].answer = request[r].pinned

=============================================================================
