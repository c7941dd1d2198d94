----------------------------- MODULE EgressGate -----------------------------
(***************************************************************************)
(* The decision on a proxied connection (runtime/enforcement.ts) and the   *)
(* per-agent sliding window it reads and charges (fleet/budget.ts).        *)
(*                                                                         *)
(* What a pass sees is one of: "clean"; "unlisted", what only strict mode  *)
(* refuses (host or port not on the list); "refusable", what guarded mode  *)
(* refuses too (withdrawn identity, undeclared agent in a closed fleet, a  *)
(* decoy, a deny rule).  The rules may be reloaded between two passes.     *)
(***************************************************************************)
EXTENDS Lockdown, FiniteSetsExt

CONSTANTS
    Agents,         \* declared agents, each with a budget
    Nobody,         \* the principal of a connection no agent claims
    Window,         \* windowSeconds
    Setups,         \* the configurations a start may read: [mode, requests, bytes]
    MaxTime         \* bound: the clock

Modes == {"monitor", "guarded", "strict"}

ASSUME EgressAssumption ==
    /\ Nobody \notin Agents
    /\ Window \in Nat \ {0}
    /\ Setups \subseteq [mode : Modes, requests : Nat \ {0}, bytes : Nat \ {0}]
    /\ MaxTime \in Nat

VARIABLES
    setup,          \* enforcement.mode and every agent's budget, read at start-up
    now,            \* the clock
    rows,           \* per agent, every row admitted; a ticket is an index
    first,          \* per agent, the oldest row still in `entries`
    open            \* per agent, the tickets not settled yet

gateVars == <<setup, now, rows, first, open>>

Principals == Agents \cup {Nobody}
Sights == {"clean", "unlisted", "refusable"}

-----------------------------------------------------------------------------
(* The ledger.                                                             *)

InWindow(at) == at > now - Window

\* counters: the rows of the window.
Standing(a) == {t \in first[a]..Len(rows[a]) : InWindow(rows[a][t].at)}
Spent(a) == MapThenSumSet(LAMBDA t : rows[a][t].bytes, Standing(a))

\* Mutant: the byte ceiling is not read.
ExhaustedByCount(a) == a \in Agents /\ Cardinality(Standing(a)) >= setup.requests

Exhausted(a) ==
    /\ a \in Agents
    /\ \/ Cardinality(Standing(a)) >= setup.requests
       \/ Spent(a) >= setup.bytes

NoCharge == UNCHANGED <<rows, first, open>>

\* admit: drop the expired prefix, open a row.
Admit(a) ==
    LET kept == {t \in first[a]..Len(rows[a]) : InWindow(rows[a][t].at)}
        ticket == Len(rows[a]) + 1
    IN  /\ rows' = [rows EXCEPT ![a] = Append(@, [at |-> now, bytes |-> 0])]
        /\ first' = [first EXCEPT ![a] = IF kept = {} THEN ticket ELSE Min(kept)]
        /\ open' = [open EXCEPT ![a] = @ \cup {ticket}]

\* settle: the bytes of a closed connection land on the row admitted for it.
Settle(a, ticket, bytes) ==
    /\ open' = [open EXCEPT ![a] = @ \ {ticket}]
    /\ rows' = [rows EXCEPT ![a][ticket].bytes = IF ticket \in open[a] THEN @ + bytes ELSE @]
    /\ UNCHANGED first

-----------------------------------------------------------------------------
(* The decision.                                                           *)

\* enforce: TRUE when nothing refuses.  A re-decision is not judged by the window
\* its own row is in.
Enforce(how, a, sight, reDecision) ==
    /\ sight # "refusable"
    /\ ~reDecision => ~Exhausted(a)
    /\ how = "strict" => sight = "clean"

\* Mutant: a second look is not stopped.
AllowsStopOnce(a, sight, reDecision) ==
    /\ ~Active \/ reDecision
    /\ setup.mode = "monitor" \/ Enforce(setup.mode, a, sight, reDecision)

\* decide: the stop comes before the mode, and monitor gates nothing else.
Allows(a, sight, reDecision) ==
    /\ ~Active
    /\ setup.mode = "monitor" \/ Enforce(setup.mode, a, sight, reDecision)

\* A first pass that allows is charged to a declared agent, last.
Charge(a) == IF a \in Agents THEN Admit(a) ELSE NoCharge
TicketOf(a) == IF a \in Agents THEN Len(rows[a]) + 1 ELSE 0

Tick ==
    /\ now < MaxTime
    /\ now' = now + 1
    /\ UNCHANGED <<setup, rows, first, open, lockVars>>

GateInit ==
    /\ setup \in Setups
    /\ now = 0
    /\ rows = [a \in Agents |-> <<>>]
    /\ first = [a \in Agents |-> 1]
    /\ open = [a \in Agents |-> {}]

GateTypeOK ==
    /\ setup \in Setups
    /\ now \in 0..MaxTime
    /\ \A a \in Agents :
         /\ \A t \in DOMAIN rows[a] : rows[a][t].at \in 0..now /\ rows[a][t].bytes \in Nat
         /\ first[a] \in 1..(Len(rows[a]) + 1)
         /\ open[a] \subseteq DOMAIN rows[a]

=============================================================================
