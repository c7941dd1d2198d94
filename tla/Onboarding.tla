------------------------------ MODULE Onboarding ------------------------------
(***************************************************************************)
(* The operator's commands that write agentwall.config.yaml: init and setup *)
(* (onboarding.ts) start it, `agentwall onboard` (onboard/index.ts) declares *)
(* an agent in it, backs it up and prints the agent's credential once; the   *)
(* service reads it when it starts.  A file written in place may be cut      *)
(* short: nothing, or something that is no YAML.                            *)
(***************************************************************************)
EXTENDS Naturals

CONSTANTS Terminals, \* where commands run
          AgentIds,
          Careful,   \* one command at a time, and a file that was cut is put back from its backup
          MaxTokens, MaxInits \* bounds: credentials minted, starter files written

VARIABLES config,   \* the config file: [state, mode, defaultDeny, agents]
          backup,   \* its .bak, the same
          onboard,  \* per terminal: the command under way, or Idle
          shown,  \* credentials an operator was given: [id, token, posture]
          tokens, inits \* counters

onboardVars == <<config, backup, onboard, shown, tokens, inits>>

NoAgents == [id \in AgentIds |-> 0] \* 0: not declared
NoConfig == [state |-> "absent", mode |-> "unset", defaultDeny |-> FALSE, agents |-> NoAgents]
EmptyFile == [NoConfig EXCEPT !.state = "empty"] \* an empty file is an empty mapping
Unparsable == [NoConfig EXCEPT !.state = "cut"]
Modes == {"monitor", "guarded", "strict"}
Idle == [step |-> "idle", id |-> "none", token |-> 0, updated |-> NoConfig]
Quiet == \A t \in Terminals : onboard[t] = Idle
\* Whether the last write of the file was cut: what it holds was never asked for.
Cut == config.state \in {"cut", "empty"}

(***************************************************************************)
(* onboarding.ts                                                           *)
(***************************************************************************)
\* createStarterConfig, writeStarterFiles: the mode sets the default-deny of egress and, of the
\* runtime's own mode, nothing.  What was declared before is gone.
StarterFile(mode) ==
    [state |-> "whole", mode |-> "unset", defaultDeny |-> mode # "monitor", agents |-> NoAgents]
\* commandInit.
InitFiles(mode, force) ==
    /\ inits < MaxInits /\ Quiet
    /\ config.state = "absent" \/ force
    /\ inits' = inits + 1 /\ config' = StarterFile(mode) /\ shown' = {}
    /\ UNCHANGED <<backup, onboard, tokens>>
\* An operator edits the mode by hand.
EditMode(mode) ==
    /\ config.state = "whole" /\ Quiet /\ config' = [config EXCEPT !.mode = mode]
    /\ UNCHANGED <<backup, onboard, shown, tokens, inits>>

(***************************************************************************)
(* onboard/index.ts                                                        *)
(***************************************************************************)
\* renderPostureLines, of the document and not of what the service makes of it.
Posture(doc) ==
    IF (doc.mode \in {"unset", "monitor"}) /\ ~doc.defaultDeny THEN "recorded" ELSE "enforced"
\* Mutant: the other agents' entries are left behind.
WithAgentAlone(doc, id, token) ==
    [doc EXCEPT !.state = "whole", !.agents = [NoAgents EXCEPT ![id] = token]]
\* withAgent: one entry put in or replaced.
WithAgent(doc, id, token) == [doc EXCEPT !.state = "whole", !.agents[id] = token]

\* mintCredential: 32 random bytes, so every credential is a new one.
MintedCredential == tokens + 1
\* runOnboard up to readConfigDocument: a declared id needs --force.
ReadDocument(t, id, force) ==
    /\ onboard[t] = Idle /\ (Careful => Quiet /\ ~Cut)
    /\ tokens < MaxTokens /\ config.state \in {"whole", "empty"}
    /\ force \/ config.agents[id] = 0
    /\ tokens' = MintedCredential
    /\ onboard' = [onboard EXCEPT ![t] = [step |-> "read", id |-> id, token |-> tokens',
                                          updated |-> WithAgent(config, id, tokens')]]
    /\ UNCHANGED <<config, backup, shown, inits>>
CopyBackup(t) ==
    /\ onboard[t].step = "read"
    /\ backup' = config /\ onboard' = [onboard EXCEPT ![t].step = "copied"]
    /\ UNCHANGED <<config, shown, tokens, inits>>
\* writeFileSync in place; the command ends where the write does.
WriteConfig(t, outcome) ==
    /\ onboard[t].step = "copied"
    /\ CASE outcome = "whole" -> /\ config' = onboard[t].updated
                                 /\ onboard' = [onboard EXCEPT ![t].step = "written"]
         [] outcome = "empty" -> config' = EmptyFile /\ onboard' = [onboard EXCEPT ![t] = Idle]
         [] OTHER -> config' = Unparsable /\ onboard' = [onboard EXCEPT ![t] = Idle]
    /\ UNCHANGED <<backup, shown, tokens, inits>>
\* assertSecretAbsentFromDisk and renderReport; or the command dies with the secret unseen.
Report(t, seen) ==
    /\ onboard[t].step = "written"
    /\ shown' = IF ~seen THEN {p \in shown : p.id # onboard[t].id}
                  ELSE shown \cup {[id |-> onboard[t].id, token |-> onboard[t].token,
                                      posture |-> Posture(onboard[t].updated),
                                      written |-> onboard[t].updated.mode]}
    /\ onboard' = [onboard EXCEPT ![t] = Idle]
    /\ UNCHANGED <<config, backup, tokens, inits>>
\* The operator puts the backup back.
Restore ==
    /\ Cut /\ Quiet /\ backup.state # "absent" /\ config' = backup
    /\ UNCHANGED <<backup, onboard, shown, tokens, inits>>

\* loadConfig: a mode nobody set is monitor.
EffectiveMode(mode) == IF mode = "unset" THEN "monitor" ELSE mode

OnboardInit ==
    /\ config = NoConfig /\ backup = NoConfig /\ onboard = [t \in Terminals |-> Idle]
    /\ shown = {} /\ tokens = 0 /\ inits = 0
OnboardNext ==
    \/ \E mode \in Modes, force \in BOOLEAN : InitFiles(mode, force)
    \/ \E mode \in Modes : EditMode(mode)
    \/ \E t \in Terminals :
          \/ \E id \in AgentIds, force \in BOOLEAN : ReadDocument(t, id, force)
          \/ CopyBackup(t) \/ \E outcome \in {"whole", "empty", "cut"} : WriteConfig(t, outcome)
          \/ \E seen \in BOOLEAN : Report(t, seen)
    \/ Restore

(***************************************************************************)
(* Properties                                                              *)
(***************************************************************************)
Latest(p) == \A q \in shown : q.id = p.id => q.token <= p.token
\* The secret is printed once and kept nowhere, so its digest must stay: a printed credential that
\* no later command replaced is declared in the file, or the file was cut and its backup declares
\* it, however many other agents were declared after it (withAgent, the order of backup and write).
PrintedCredentialsStay ==
    \A p \in shown : Latest(p) =>
        \/ config.agents[p.id] = p.token
        \/ Cut /\ backup.agents[p.id] = p.token
        \/ \E t \in Terminals : onboard[t].step = "written" /\ onboard[t].id = p.id
\* A report that says the config enforces is about a config under which the service refuses
\* something (renderPostureLines: "Report the posture the config ACTUALLY has").
PostureIsTrue == \A p \in shown : p.posture = "enforced" => EffectiveMode(p.written) # "monitor"
=============================================================================
