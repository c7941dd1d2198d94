------------------------------- MODULE Startup -------------------------------
(***************************************************************************)
(* From files to listeners: the setup page (bootstrap.ts, setup.ts) writes   *)
(* the operator's files and runs the service as a child; the service        *)
(* (index.ts, config.ts, server.ts) reads them and opens its listeners in a  *)
(* fixed order.  The operating system is external: ports others hold, a     *)
(* spawn that fails, a process that dies.                                   *)
(***************************************************************************)
EXTENDS Naturals, Sequences, FiniteSets, SequencesExt

CONSTANTS Configs,    \* [known, fleet, interception, transparent]: what a config file may say
          Machines,      \* [busy, authority]: ports others hold, and whether interception can resolve
          MaxServices \* bound: services started

VARIABLES host,
          files,    \* the config file, the policy file and the operator's environment file
          session,  \* the page's view of its child: [service, child, stopRequested, lastExit]
          services, \* every service started, in order
          notices    \* events of children not yet delivered to the page

startupVars == <<host, files, session, services, notices>>

NoFile == [known |-> "absent"]
FreshSession == [service |-> "stopped", child |-> 0, stopRequested |-> FALSE, lastExit |-> "none"]
ServicePort == "service"
Live(n) == services[n].stage # "dead"

(***************************************************************************)
(* setup.ts and bootstrap.ts                                               *)
(***************************************************************************)
\* createLocalOperatorFiles: the three files one after another; the page may die in between,
\* which forgets its child and kills nothing.
Setup(config, force, written) ==
    /\ force \/ (files.config = NoFile /\ ~files.policy /\ ~files.env)
    /\ files' = [config |-> config,
                 policy |-> files.policy \/ written >= 2, env |-> files.env \/ written >= 3]
    /\ session' = IF written = 3 THEN session ELSE FreshSession
    /\ notices' = IF written = 3 THEN notices ELSE {}
    /\ services' = IF written = 3 THEN services
                   ELSE [n \in DOMAIN services |-> [services[n] EXCEPT !.orphan = TRUE]]
    /\ UNCHANGED host
\* An operator edits the config file.
Edit(config) == /\ files.config # NoFile /\ files' = [files EXCEPT !.config = config]
                /\ UNCHANGED <<host, session, services, notices>>

\* serviceEntry and startService; the child has the environment that the page generated.
ActiveChild == session.service \in {"starting", "running"}
Start ==
    /\ ~ActiveChild /\ Len(services) < MaxServices
    /\ services' = Append(services,
         [stage |-> "spawned", config |-> NoFile, proxied |-> files.env, bound |-> {}, reads |-> FALSE,
          said |-> {}, orphan |-> FALSE])
    /\ session' = [service |-> "starting", child |-> Len(services'), stopRequested |-> FALSE,
                   lastExit |-> "none"]
    /\ UNCHANGED <<host, files, notices>>
SpawnFails ==
    /\ ~ActiveChild
    /\ session' = [FreshSession EXCEPT !.service = "failed"]
    /\ UNCHANGED <<host, files, services, notices>>
\* The child's "spawn" and "exit" events, for the child the page still holds.
OnSpawn ==
    /\ session.service = "starting"
    /\ session' = [session EXCEPT !.service = "running"]
    /\ UNCHANGED <<host, files, services, notices>>
OnExit ==
    /\ \E e \in notices :
        /\ notices' = notices \ {e}
        /\ session' = IF e.child # session.child THEN session
                      ELSE [service |-> IF session.stopRequested \/ e.code = "0" THEN "stopped" ELSE "failed",
                            child |-> 0, stopRequested |-> FALSE, lastExit |-> e.code]
    /\ UNCHANGED <<host, files, services>>

Ends(n, code) ==
    /\ services' = [services EXCEPT ![n].stage = "dead", ![n].bound = {}]
    /\ notices' = notices \cup IF session.child = n THEN {[child |-> n, code |-> code]} ELSE {}
\* The stop action signals, and a process already gone may refuse the signal; the exit is another
\* event.  Without a child it only says "stopped".
StopChild ==
    /\ \E accepted \in BOOLEAN :
        /\ (ActiveChild /\ Live(session.child)) => accepted
        /\ session' = IF ActiveChild THEN [session EXCEPT !.stopRequested = accepted]
                      ELSE [session EXCEPT !.service = "stopped"]
    /\ UNCHANGED <<host, files, services, notices>>
\* SIGTERM, or anything else that ends a service: it has no handler of its own.
ServiceDies(n) == /\ Live(n) /\ Ends(n, "signal")
           /\ UNCHANGED <<host, files, session>>

(***************************************************************************)
(* index.ts: main                                                          *)
(***************************************************************************)
Exits(n) == Ends(n, "1") /\ UNCHANGED <<host, files, session>>
Goes(n, stage, service) ==
    /\ services' = [services EXCEPT ![n] = [service EXCEPT !.stage = stage]]
    /\ UNCHANGED <<host, files, session, notices>>
\* resolveConfigSource and loadConfig: defaults without a file; a value nobody knows is refused.
Defaults == [known |-> "yes", fleet |-> "none", interception |-> FALSE, transparent |-> FALSE]
Configured(n) == IF files.config = NoFile THEN Defaults ELSE files.config
LoadConfig(n) ==
    /\ services[n].stage = "spawned"
    /\ IF Configured(n).known # "yes" THEN Exits(n)
       ELSE Goes(n, "loaded", [services[n] EXCEPT !.config = Configured(n)])
\* buildServer, then the fleet: one that cannot resolve its agents throws out of main.
BuildServer(n) ==
    /\ services[n].stage = "loaded"
    /\ IF services[n].config.fleet = "ambiguous" THEN Exits(n) ELSE Goes(n, "built", services[n])

Intercepts(n) == services[n].proxied /\ services[n].config.interception
\* Mutant: what cannot be resolved is tunnelled.
TunnelInstead(n) ==
    /\ services[n].stage = "built"
    /\ Goes(n, "resolved", [services[n] EXCEPT !.reads = Intercepts(n) /\ host.authority])
\* resolveInterceptor, before anything is bound.
ResolveInterception(n) ==
    /\ services[n].stage = "built"
    /\ IF Intercepts(n) /\ ~host.authority THEN Exits(n)
       ELSE Goes(n, "resolved", [services[n] EXCEPT !.reads = Intercepts(n)])

Taken == host.busy \cup UNION {services[n].bound : n \in DOMAIN services}
\* app.listen: a port already held rejects, and main exits.
Listen(n) ==
    /\ services[n].stage = "resolved"
    /\ IF ServicePort \in Taken THEN Exits(n)
       ELSE Goes(n, "listening", [services[n] EXCEPT !.bound = {ServicePort}])
\* createForwardProxy: its server has no error handler, so a held port ends the process, after
\* the line that says it listens.
OpenForwardProxy(n) ==
    /\ services[n].stage = "listening"
    /\ CASE ~services[n].proxied -> Goes(n, "proxying", services[n])
         [] services[n].proxied /\ "proxy" \in Taken -> Exits(n)
         [] OTHER -> Goes(n, "proxying", [services[n] EXCEPT !.bound = @ \cup {"proxy"},
                                                             !.said = @ \cup {"proxy"}])
\* createTransparentProxy: its server reports an error to a callback that drops it.
OpenTransparentProxy(n) ==
    /\ services[n].stage = "proxying"
    /\ IF ~services[n].config.transparent THEN Goes(n, "serving", services[n])
       ELSE Goes(n, "serving", [services[n] EXCEPT
                 !.bound = @ \cup ({"transparent"} \ Taken), !.said = @ \cup {"transparent"}])

StartupInit ==
    /\ host \in Machines /\ files = [config |-> NoFile, policy |-> FALSE, env |-> FALSE]
    /\ session = FreshSession /\ services = <<>> /\ notices = {}
StartupNext ==
    \/ \E c \in Configs, force \in BOOLEAN, written \in 1 .. 3 : Setup(c, force, written)
    \/ \E c \in Configs : Edit(c)
    \/ Start \/ SpawnFails \/ OnSpawn \/ OnExit \/ StopChild
    \/ \E n \in DOMAIN services :
          \/ ServiceDies(n) \/ LoadConfig(n) \/ BuildServer(n) \/ ResolveInterception(n)
          \/ Listen(n) \/ OpenForwardProxy(n) \/ OpenTransparentProxy(n)

(***************************************************************************)
(* Properties                                                              *)
(***************************************************************************)
\* What the page says of its service is so, up to an exit event on its way: it says "starting" or
\* "running" exactly while it holds a child, that child is alive or its exit is on the way, and no
\* other process that this page started is alive, whatever was started, stopped, killed or edited
\* in between (startService, the stop route and the child's events).
PageTellsTheChild ==
    /\ ActiveChild <=> session.child # 0
    /\ ActiveChild => Live(session.child) \/ \E e \in notices : e.child = session.child
    /\ \A n \in DOMAIN services : Live(n) /\ ~services[n].orphan => ActiveChild /\ n = session.child
\* A process that was told to read bodies never has a socket open without reading them, and no
\* socket is open in a process whose configuration was refused: everything that can refuse comes
\* before app.listen (main, loadConfig, resolveInterceptor).
BoundMeansResolved ==
    \A n \in DOMAIN services :
        services[n].bound # {} =>
            /\ services[n].config.known = "yes" /\ services[n].config.fleet # "ambiguous"
            /\ Intercepts(n) => services[n].reads

\* A start-up says what it did: the page its child, the ports their configuration.
StartupIsHonest == PageTellsTheChild /\ BoundMeansResolved

\* A line that says a proxy listens is true of a live process (index.ts:267).
SaidMeansBound ==
    \A n \in DOMAIN services : Live(n) => services[n].said \subseteq services[n].bound
=============================================================================
