------------------------------- MODULE Capture -------------------------------
(***************************************************************************)
(* `agentwall verify-capture` (capture/verify.ts): does one agent's traffic  *)
(* pass through AgentWall?  The agent fetches a canary with a token in its  *)
(* path; the check compares what reached the canary with what the audit     *)
(* chain records of it.  The agent, the proxy and /proc are external: a     *)
(* request goes around the proxy or through it, and the proxy files its     *)
(* record when the connection closes, which may be after the hit.           *)
(***************************************************************************)
EXTENDS Naturals, Sequences, FiniteSets, SequencesExt

CONSTANTS Checks,   \* command lines: [noProxy, listener, declaredTier, trips, interactive]
          Bindings  \* what a record says of its agent: [declared, tier, agent]

VARIABLES check,     \* the check under way
          driving,   \* the fetch is still being waited for
          hits,      \* what reached the canary, as the canary saw it, and whether it was direct
          underWay,  \* bindings of relayed requests whose record is not yet on the trail
          trail,     \* the records of the token: their binding, and whether the request arrived
          late,      \* the settling deadline has passed
          verdict    \* None until the evidence is judged

captureVars == <<check, driving, hits, underWay, trail, late, verdict>>

NoVerdict == [outcome |-> "none"]
Tiers == <<"none", "comm", "uid", "uid+comm", "credential">>
TierRank(tier) == CHOOSE n \in 1 .. Len(Tiers) : Tiers[n] = tier
Weakest(tiers) == CHOOSE t \in tiers : \A u \in tiers : TierRank(t) <= TierRank(u)

(***************************************************************************)
(* The agent and the proxy                                                 *)
(***************************************************************************)
Trips == Len(hits) + Len(underWay) + Cardinality({n \in DOMAIN trail : ~trail[n].arrived})
CanFetch == verdict = NoVerdict /\ Trips < check.trips
\* The canary's handler: the peer is resolved while the socket is open, or it is not at all; the
\* first presentation of the token is served, each later one is refused and recorded.
Hit(token, direct, peer) ==
    hits' = Append(hits, [token |-> token, direct |-> direct, peer |-> peer,
                          replay |-> token /\ \E n \in DOMAIN hits : hits[n].token])
FetchDirectly(peer) ==
    CanFetch /\ Hit(TRUE, TRUE, peer) /\ UNCHANGED <<check, driving, underWay, trail, late, verdict>>
\* Some other process on the port: no token.
Stray == CanFetch /\ Hit(FALSE, TRUE, "agent")
         /\ UNCHANGED <<check, driving, underWay, trail, late, verdict>>
FetchThroughProxy(binding, peer) ==
    /\ CanFetch /\ Hit(TRUE, FALSE, peer)
    /\ underWay' = Append(underWay, binding)
    /\ UNCHANGED <<check, driving, trail, late, verdict>>
FileRecord(binding, arrived) ==
    trail' = Append(trail, [arrived |-> arrived, declared |-> binding.declared,
                            tier |-> binding.tier, agent |-> binding.agent])
\* Denied by policy, or the upstream failed: on the trail, and never at the canary.
RefusedByProxy(binding) ==
    CanFetch /\ FileRecord(binding, FALSE) /\ UNCHANGED <<check, driving, hits, underWay, late, verdict>>
\* The connection closes and its record is appended; a line read half way is read as absent.
RecordIsFiled ==
    /\ verdict = NoVerdict
    /\ \E n \in DOMAIN underWay :
          /\ FileRecord(underWay[n], TRUE)
          /\ underWay' = RemoveAt(underWay, n)
    /\ UNCHANGED <<check, driving, hits, late, verdict>>

(***************************************************************************)
(* The check                                                               *)
(***************************************************************************)
\* Mutant: a replay is not a fetch.
FirstHitOnly == {n \in DOMAIN hits : hits[n].token /\ ~hits[n].replay}
TokenHits == {n \in DOMAIN hits : hits[n].token}

FetchIsOver == driving /\ driving' = FALSE /\ UNCHANGED <<check, hits, underWay, trail, late, verdict>>
\* runCaptureChild: the command exits or is killed at the timeout; what it left behind may go on.
CommandEnds == ~check.interactive /\ FetchIsOver
\* waitInteractive ends at the first hit, at a line on stdin or at the timeout.
WaitEnds == check.interactive /\ FetchIsOver
DeadlinePasses ==
    /\ ~driving /\ ~late /\ verdict = NoVerdict
    /\ late' = TRUE /\ UNCHANGED <<check, driving, hits, underWay, trail, verdict>>

\* proxyExemptionFor: an entry that covers the canary outright beats one that may.
Exemption ==
    LET entries == ToSet(check.noProxy)
    IN CASE entries \cap {"*", "host", "host:port"} # {} -> "exempted"
         [] "host:other" \in entries -> "possible"
         [] OTHER -> "none"
Exempt == Exemption = "exempted"
\* corroborate: the pids listening on the proxy's port, against the peers of the hits.
Corroboration ==
    LET peers == {hits[n].peer : n \in TokenHits}
    IN IF TokenHits = {} \/ check.listener # "visible" THEN "unavailable"
       ELSE IF "agent" \in peers THEN "contradicted"
       ELSE IF "unresolved" \in peers THEN "unavailable" ELSE "confirmed"

Bound == {r \in ToSet(trail) : r.declared /\ r.tier # "none" /\ r.agent = "this"}
OrExempt(status) == IF Exempt THEN "unproven" ELSE status
NotReached == IF TokenHits # {} THEN OrExempt("fail") ELSE "unproven"
\* evaluate, its three assertions.
ChainRecord == IF trail # <<>> THEN "pass" ELSE NotReached
AgentBinding ==
    IF Bound # {} THEN "pass" ELSE IF trail # <<>> THEN "fail" ELSE NotReached
NoBypass ==
    IF Cardinality(TokenHits) > Len(trail) \/ Corroboration = "contradicted" THEN OrExempt("fail")
    ELSE IF TokenHits = {} /\ trail = <<>> THEN "unproven" ELSE "pass"
ObservedTier == IF Bound # {} THEN Weakest({r.tier : r \in Bound})
                ELSE IF trail # <<>> THEN trail[1].tier ELSE "none"
Outcome ==
    IF NoBypass = "fail" THEN "bypass"
    ELSE IF "fail" \in {ChainRecord, AgentBinding} THEN "not-captured"
    ELSE IF "unproven" \in {ChainRecord, AgentBinding, NoBypass} THEN "inconclusive"
    ELSE "captured"
\* captureExitCode
ExitCode(outcome) == CASE outcome = "captured" -> 0 [] outcome = "inconclusive" -> 2 [] OTHER -> 1

\* The loop waits for a record for each hit; reading the trail and judging it is one step.
Settled == Len(trail) >= Cardinality(TokenHits) /\ trail # <<>>
JudgeEvidence ==
    /\ ~driving /\ verdict = NoVerdict
    /\ Settled \/ late
    /\ verdict' = [outcome |-> Outcome, exit |-> ExitCode(Outcome), tier |-> ObservedTier,
                   shortfall |-> /\ check.declaredTier # "none" /\ trail # <<>>
                                 /\ TierRank(ObservedTier) < TierRank(check.declaredTier)]
    /\ UNCHANGED <<check, driving, hits, underWay, trail, late>>

CaptureInit ==
    /\ check \in Checks /\ driving = TRUE
    /\ hits = <<>> /\ underWay = <<>> /\ trail = <<>> /\ late = FALSE /\ verdict = NoVerdict
CaptureNext ==
    \/ \E peer \in {"agent", "unresolved"} : FetchDirectly(peer)
    \/ \E b \in Bindings, peer \in {"proxy", "unresolved"} : FetchThroughProxy(b, peer)
    \/ \E b \in Bindings : RefusedByProxy(b)
    \/ Stray \/ RecordIsFiled \/ CommandEnds \/ WaitEnds \/ DeadlinePasses \/ JudgeEvidence
CaptureSpec == CaptureInit /\ [][CaptureNext]_captureVars

(***************************************************************************)
(* Properties                                                              *)
(***************************************************************************)
DirectHits == {n \in DOMAIN hits : hits[n].direct /\ hits[n].token}
WithoutHit == {n \in DOMAIN trail : ~trail[n].arrived}
\* The verdict is what happened.  "captured": this agent was bound, no fetch is known to have gone
\* around, and the fetches that did are at most as many as the records of requests that never
\* arrived (the count of evaluate can be no better where peers cannot be attributed).  "bypass":
\* some fetch did go around, or the deadline cut off a record.  And a check in which every fetch
\* was relayed, and filed in time for this agent, says "captured" (runVerifyCapture, evaluate).
VerdictIsTrue ==
    /\ verdict.outcome = "captured" =>
        /\ Bound # {}
        /\ check.listener = "visible" => \A n \in DirectHits : hits[n].peer = "unresolved"
        /\ Cardinality(DirectHits) <= Cardinality(WithoutHit)
    /\ verdict.outcome = "bypass" => DirectHits # {} \/ (late /\ underWay # <<>>)
    /\ (verdict # NoVerdict /\ DirectHits = {} /\ underWay = <<>> /\ Bound # {})
          => verdict.outcome = "captured"
\* What the command's header says of its third assertion: "captured" means that nothing reached
\* the canary without a record of its own (capture/verify.ts:34).
CapturedMeansNothingDirect == verdict.outcome = "captured" => DirectHits = {}
=============================================================================
