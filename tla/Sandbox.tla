------------------------------- MODULE Sandbox -------------------------------
(***************************************************************************)
(* `agentwall sandbox run`: sandbox/index.ts and sandbox/profile.ts decide   *)
(* what to ask of the kernel and write it to a pipe, native/agentwall-      *)
(* sandbox.c reads the pipe, confines itself and becomes the command.  The  *)
(* kernel is external: an ABI of Landlock (0: none), filter mode or not.    *)
(***************************************************************************)
EXTENDS Integers, Sequences, SequencesExt, Sums

CONSTANTS CommandLines, \* flags: [grants, restrictNet, ports, seccomp, requireAbi,
                      \*   allowDegraded], and whether there is a launcher: helper
          Kernels,      \* [abi, filter, arch, paths]: what exists on the host, file or directory
          Runtime       \* the grants every profile starts with, <<mode, path>>

Grants == ToSet(Runtime) \cup UNION {ToSet(a.grants) : a \in CommandLines}
ASSUME SandboxAssumption ==
    /\ Runtime \in Seq(Grants) /\ \A a \in CommandLines : a.grants \in Seq(Grants)
    /\ \A k \in Kernels : k.abi \in Nat

VARIABLES asked,   \* the command line
          kernel,
          stage,   \* "asked", "written", "read", "landlocked", "filtered", "running" or "refused"
          lines,   \* the profile: as rendered, and then as the launcher has read it
          told,    \* what the operator was told is not enforced
          inForce  \* what the kernel enforces on the launcher, and on the command after it

sandboxVars == <<asked, kernel, stage, lines, told, inForce>>

\* The denylist and the two filters on arguments; a call of another ABI; the calls of a runtime.
DeniedCalls == {"mount", "ptrace", "clone newuser", "ioctl tiocsti"}
SystemCalls == DeniedCalls \cup {"x32", "openat"}
\* build_filter: what a system call gets under an action.
BuildFilter(action) == [c \in SystemCalls |->
    IF action = "off" \/ c = "openat" THEN "allow" ELSE IF c = "x32" THEN "kill" ELSE action]
Loose == [fs |-> FALSE, rights |-> {}, tcp |-> FALSE, ports |-> {}, truncate |-> FALSE,
          filter |-> BuildFilter("off")]

(***************************************************************************)
(* profile.ts                                                              *)
(***************************************************************************)
ModeRank == [read |-> 0, rwdev |-> 1, exec |-> 2, write |-> 3]
\* dedupe: one rule for a path, of the widest mode.
Dedupe(rules) == Kept(rules, {n \in DOMAIN rules :
    \A i \in DOMAIN rules : rules[i][2] = rules[n][2] => ModeRank[rules[i][1]] <= ModeRank[rules[n][1]]})
\* profileFromArgs: what runs anywhere, the private temp and the runtime's own binary with it.
RulesFromArgs(a) == Runtime \o a.grants
\* baseProfile; parseArgs: naming a port asks for restrictNet.
RestrictsNet(a) == a.restrictNet \/ a.ports # {}
BaseProfile(a) ==
    [fs |-> Dedupe(RulesFromArgs(a)), restrictNet |-> RestrictsNet(a),
     ports |-> a.ports, seccomp |-> a.seccomp,
     requireAbi |-> a.requireAbi, allowDegraded |-> a.allowDegraded]
Line(verb, arg) == [verb |-> verb, arg |-> arg]
GivenThat(condition, s) == IF condition THEN s ELSE <<>>
\* renderProfile: the last line says that the profile is whole.
RenderProfile(p) ==
    <<Line("version", 1)>>
    \o GivenThat(p.requireAbi > 0, <<Line("require-abi", p.requireAbi)>>)
    \o GivenThat(p.allowDegraded, <<Line("allow-degraded", 0)>>)
    \o [i \in 1 .. Len(p.fs) |-> Line("fs", p.fs[i])]
    \o GivenThat(p.restrictNet, <<Line("net restrict", 0), Line("net ports", p.ports)>>)
    \o <<Line("seccomp", p.seccomp), Line("end", 0)>>
\* parseProbe: what the launcher measured, in a process of its own.
ParseProbe(k) == [abi |-> k.abi, filter |-> k.filter, arch |-> k.arch]
\* fitProfileToKernel
Refusals(p, k) ==
    \/ k.abi = 0 /\ (p.requireAbi > 0 \/ ~p.allowDegraded)
    \/ p.requireAbi > k.abi
    \/ p.seccomp # "off" /\ ~(k.arch /\ k.filter)
Degradations(p, k) ==
    {d \in {"landlock", "tcp", "truncate"} :
        CASE d = "landlock" -> k.abi = 0
          [] d = "tcp" -> p.restrictNet /\ k.abi \in 1 .. 3
          [] OTHER -> k.abi \in 1 .. 2}

(***************************************************************************)
(* index.ts                                                                *)
(***************************************************************************)
RefuseToRun == stage' = "refused" /\ UNCHANGED <<asked, kernel, lines, told, inForce>>
\* commandRun up to the spawn: no launcher, no probe and an unmet requirement all end here.
CommandRun ==
    /\ stage = "asked"
    /\ LET profile == BaseProfile(asked)
           probe == ParseProbe(kernel) IN
       IF ~asked.helper \/ Refusals(profile, probe) THEN RefuseToRun
       ELSE /\ stage' = "written"
            /\ told' = Degradations(profile, probe)
            /\ lines' = RenderProfile(profile)
            /\ UNCHANGED <<asked, kernel, inForce>>

(***************************************************************************)
(* agentwall-sandbox.c                                                     *)
(***************************************************************************)
\* read_all: the writer may die before all of it is in the pipe.
ReadProfile ==
    /\ stage = "written" /\ stage' = "read"
    /\ \E n \in 0 .. Len(lines) : lines' = SubSeq(lines, 1, n)
    /\ UNCHANGED <<asked, kernel, told, inForce>>
Args(verb) == {lines[i].arg : i \in {j \in 1 .. Len(lines) : lines[j].verb = verb}}
Says(verb) == Args(verb) # {}
RequiredAbi == IF Says("require-abi") THEN CHOOSE n \in Args("require-abi") : TRUE ELSE 0
\* Without the line, parse_profile leaves SECCOMP_OFF.
SeccompAction == IF Says("seccomp") THEN CHOOSE s \in Args("seccomp") : TRUE ELSE "off"
\* Mutant: anything that begins like a profile is one.
BeginsWell == Says("version")
\* parse_profile
ParseProfile == Says("version") /\ Says("end")

\* fs_handled_for_abi and fs_rights_for_mode, the rights in the classes the rules tell apart.
HandledForAbi(abi) == {"read", "list", "execute", "write", "make"}
    \cup (IF abi >= 3 THEN {"truncate"} ELSE {}) \cup (IF abi >= 5 THEN {"ioctl"} ELSE {})
RightsForMode ==
    [read |-> {"read", "list"}, exec |-> {"read", "list", "execute"},
     write |-> {"read", "list", "write", "truncate", "make"}, rwdev |-> {"read", "write", "ioctl"}]
FileApplicable == {"execute", "write", "read", "truncate", "ioctl"}
\* One rule; a path that does not exist is skipped with a warning.
RuleRights(mode, path) ==
    IF path \notin DOMAIN kernel.paths THEN {}
    ELSE LET rights == RightsForMode[mode] \cap HandledForAbi(kernel.abi)
         IN {path} \X (IF kernel.paths[path] = "file" THEN rights \cap FileApplicable ELSE rights)
\* apply_landlock
ApplyLandlock ==
    /\ stage = "read"
    /\ IF ~ParseProfile \/ RequiredAbi > kernel.abi \/ (kernel.abi = 0 /\ ~Says("allow-degraded"))
       THEN RefuseToRun
       ELSE /\ stage' = "landlocked"
            /\ inForce' =
                 IF kernel.abi = 0 THEN inForce
                 ELSE [inForce EXCEPT
                        !.fs = TRUE, !.truncate = kernel.abi >= 3,
                        !.rights = UNION {RuleRights(r[1], r[2]) : r \in Args("fs")},
                        !.tcp = Says("net restrict") /\ kernel.abi >= 4,
                        !.ports = IF kernel.abi >= 4 THEN UNION Args("net ports") ELSE {}]
            /\ told' = told
                 \cup (IF kernel.abi = 0 THEN {"landlock"} ELSE {})
                 \cup (IF kernel.abi \in 1 .. 3 /\ Says("net restrict") THEN {"tcp"} ELSE {})
                 \cup (IF kernel.abi \in 1 .. 2 THEN {"truncate"} ELSE {})
            /\ UNCHANGED <<asked, kernel, lines>>
\* apply_seccomp with build_filter
ApplySeccomp ==
    /\ stage = "landlocked"
    /\ IF SeccompAction # "off" /\ ~(kernel.arch /\ kernel.filter) THEN RefuseToRun
       ELSE /\ stage' = "filtered" /\ inForce' = [inForce EXCEPT !.filter = BuildFilter(SeccompAction)]
            /\ UNCHANGED <<asked, kernel, lines, told>>
\* execvp: what is in force stays in force.
Exec ==
    /\ stage = "filtered" /\ stage' = "running"
    /\ UNCHANGED <<asked, kernel, lines, told, inForce>>

SandboxInit ==
    /\ asked \in CommandLines /\ kernel \in Kernels
    /\ stage = "asked" /\ lines = <<>> /\ told = {} /\ inForce = Loose
SandboxNext == CommandRun \/ ReadProfile \/ ApplyLandlock \/ ApplySeccomp \/ Exec
SandboxSpec == SandboxInit /\ [][SandboxNext]_sandboxVars

(***************************************************************************)
(* Properties                                                              *)
(***************************************************************************)
Granted(path) == UNION {RightsForMode[r[1]] : r \in {s \in ToSet(Runtime \o asked.grants) : s[2] = path}}
\* A command runs only inside what was asked for, or its operator was told what is missing: the
\* filesystem, TCP and truncation, each in force or reported; the filter exactly as asked; no right
\* on a path and no port beyond those granted.  It holds on every kernel and wherever the pipe that
\* carries the profile is cut (commandRun, fitProfileToKernel, parse_profile, apply_landlock).
RunsAsToldOrRefuses ==
    stage = "running" =>
        /\ inForce.fs \/ "landlock" \in told
        /\ RestrictsNet(asked) => inForce.tcp \/ {"tcp", "landlock"} \cap told # {}
        /\ inForce.truncate \/ {"truncate", "landlock"} \cap told # {}
        /\ asked.seccomp # "off" => \A c \in DeniedCalls : inForce.filter[c] = asked.seccomp
        /\ \A r \in inForce.rights : r[2] \in Granted(r[1])
        /\ inForce.tcp => inForce.ports = asked.ports
=============================================================================
