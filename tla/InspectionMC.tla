---------------------------- MODULE InspectionMC ----------------------------
(***************************************************************************)
(* Where AgentWall looks into content: the intercepted tunnel of the forward*)
(* proxy, the connections the kernel redirects, and the files an agent      *)
(* leaves in its workspace.  They share no state, so each setup moves one.  *)
(***************************************************************************)
EXTENDS TlsIntercept, Transparent, SpillWatch, TLC

\* The authority's life without traffic; the tunnels of a host of each kind; one
\* exchange under an authority already trusted; and neither.
Authority == [cas |-> {1, 2}, declared |-> FALSE, openssl |-> TRUE, hosts |-> {}, kinds |-> {}]
Tunnels == [cas |-> {1}, declared |-> TRUE, openssl |-> TRUE, hosts |-> {"plain", "pinned", "nameless"},
            kinds |-> {}]
Exchange == [cas |-> {}, declared |-> FALSE, openssl |-> TRUE, hosts |-> {"plain"},
             kinds |-> {"readable", "opaque", "stream"}]
NoOpenssl == [Authority EXCEPT !.openssl = FALSE]
NoTunnel == [Authority EXCEPT !.openssl = FALSE, !.cas = {}]
SomeSetups == {Authority, Tunnels, Exchange, NoOpenssl, NoTunnel}
\* A file of the root and one of its subdirectory, written while the watch runs or before it.
CONSTANTS tree, sub, env, key
SomePlace == env :> tree @@ key :> sub
NewFiles == [f \in {env, key} |-> "none"]
OldFiles == [f \in {env, key} |-> IF f = env THEN "before" ELSE "lag"]
Tree(n, cap, w, f, sc, what, first, c) ==
    [native |-> n, cap |-> cap, writes |-> w, faults |-> f, scans |-> sc, what |-> what, first |-> first,
     closes |-> c]
SomeSpills == {
    Tree("works", 4, 2, 1, 1, {"secret"}, NewFiles, FALSE),
    Tree("works", 4, 1, 1, 2, {"secret"}, OldFiles, TRUE),
    Tree("refused", 3, 2, 0, 1, {"secret", "binary"}, OldFiles, FALSE),
    Tree("unused", 2, 2, 0, 2, {"secret"}, OldFiles, TRUE),
    Tree("unused", 3, 1, 1, 1, {"secret", "big"}, OldFiles, FALSE)}

VARIABLE part
MCInit ==
    /\ part \in {"interception", "redirected", "spill"}
    /\ Init /\ (part # "interception" => setup = NoTunnel)
    /\ TransparentInit
    /\ SpillInit /\ (part # "spill" => spill = CHOOSE s \in SpillSetups : TRUE)
MCNext ==
    /\ UNCHANGED part
    /\ \/ part = "interception" /\ Next /\ UNCHANGED <<link, spillVars>>
       \/ part = "redirected" /\ TransparentNext /\ UNCHANGED <<vars, spillVars>>
       \/ part = "spill" /\ SpillNext /\ UNCHANGED <<vars, link>>
MCSpec ==
    /\ MCInit /\ [][MCNext]_<<part, vars, link, spillVars>>
    /\ part = "interception" => StallFires
    /\ part = "spill" => SpillRuns
=============================================================================
