---------------------------- MODULE Transparent ----------------------------
(***************************************************************************)
(* The transparent listener (src/src/proxy/transparent.ts): connections    *)
(* the kernel redirects, named from their own first bytes (tls-peek.ts),   *)
(* refused or carried to the name they gave.  A connection's bytes are a   *)
(* few units; what they say so far is a member of Says.                    *)
(***************************************************************************)
EXTENDS Integers, Sequences

CONSTANTS
    Redirected,   \* redirected connections
    PeekLimit,    \* units buffered while naming the destination
    MaxUnits      \* bound: the units a client sends

ASSUME UnitAssumption == PeekLimit \in Nat /\ MaxUnits \in Nat

\* What the bytes of a connection amount to when they are all there: a TLS hello
\* with a usable name, one without, an HTTP/1 head with one Host, or anything else.
Says == {"sni", "nameless hello", "host", "noise"}
Tls(says) == says \in {"sni", "nameless hello"}

VARIABLE link     \* each connection, as handleConnection's closure holds it

NewLink == [state |-> "new", says |-> "noise", headAt |-> 1, sent |-> 0, up |-> "none", delivered |-> 0,
            counted |-> 0, decision |-> "deny", decided |-> FALSE, rows |-> <<>>, client |-> "here"]

\* peekClientHello, extractHttpHost: a name, once the record or the head is complete.
DestinationFrom(k) == k.says \in {"sni", "host"} /\ k.sent >= k.headAt

\* finish: the row is filed once, whoever closes first.
Finish(k) ==
    [k EXCEPT !.rows = IF @ = <<>>
       THEN <<[decision |-> k.decision, named |-> k.decided, up |-> k.counted]>> ELSE @]
DestroyAll(k) == [k EXCEPT !.state = "closed", !.client = "gone", !.up = IF @ = "none" THEN @ ELSE "closed"]
Becomes(c, k) == link' = [link EXCEPT ![c] = k]

Arrives(c, says, headAt) ==
    /\ link[c].state = "new" /\ says \in Says /\ headAt \in 1..MaxUnits
    /\ Becomes(c, [link[c] EXCEPT !.state = "peeking", !.says = says, !.headAt = headAt])

\* The structural refusal: decide is not asked.
Refused(k) == DestroyAll(Finish([k EXCEPT !.decision = "deny"]))

\* route: decide once, with the name; a decision that throws is a denial.
Route(k, verdict) ==
    LET d == [k EXCEPT !.decided = TRUE, !.decision = IF verdict = "throws" THEN "deny" ELSE verdict]
    IN IF d.decision = "deny"
       THEN [Finish(d) EXCEPT !.state = "refused", !.client = IF Tls(k.says) THEN "gone" ELSE "told"]
       ELSE [d EXCEPT !.state = "connecting", !.up = "connecting"]

Bytes(c, n, verdict) ==
    /\ link[c].state = "peeking" /\ link[c].sent + n <= MaxUnits
    /\ LET k == [link[c] EXCEPT !.sent = @ + n]
       IN Becomes(c, IF DestinationFrom(k) THEN Route(k, verdict)
                     ELSE IF k.sent >= PeekLimit THEN Refused(k) ELSE k)
PeekTimeout(c) == link[c].state = "peeking" /\ Becomes(c, Refused(link[c]))

\* The client sends on while nobody reads it, and after the hand-over.
SendsOn(c) ==
    /\ link[c].state \in {"connecting", "piped"} /\ link[c].client = "here" /\ link[c].sent < MaxUnits
    /\ Becomes(c, IF link[c].state = "connecting" THEN [link[c] EXCEPT !.sent = @ + 1]
                  ELSE [link[c] EXCEPT !.sent = @ + 1, !.counted = @ + 1, !.delivered = @ + 1])

\* Mutant: what was read to name the destination is not written on.
ConnectedFresh(c) ==
    /\ link[c].state = "connecting"
    /\ Becomes(c, [link[c] EXCEPT !.state = "piped", !.up = "open"])
\* The peeked bytes first, then the pipes, which read what waited meanwhile.
Connected(c) ==
    /\ link[c].state = "connecting"
    /\ Becomes(c, [link[c] EXCEPT !.state = "piped", !.up = "open", !.delivered = @ + link[c].sent,
                                  !.counted = @ + link[c].sent])

UpstreamError(c) ==
    link[c].up \in {"connecting", "open"} /\ Becomes(c, DestroyAll(Finish(link[c])))
\* The client's FIN is passed on; closing is then up to the destination.
ClientEnds(c) ==
    /\ link[c].state = "piped" /\ link[c].client = "here"
    /\ Becomes(c, [link[c] EXCEPT !.client = "ended"])
UpstreamCloses(c) ==
    /\ link[c].state = "piped"
    /\ Becomes(c, [Finish(link[c]) EXCEPT !.state = "closed", !.up = "closed", !.client = "gone"])
\* A reset, or a close before the hand-over.
ClientError(c) ==
    /\ link[c].state \in {"peeking", "piped"} /\ link[c].client = "here"
    /\ Becomes(c, DestroyAll(Finish(link[c])))
ClientCloses(c) ==
    /\ link[c].state = "peeking"
    /\ Becomes(c, [Finish(link[c]) EXCEPT !.state = "closed", !.client = "gone"])

TransparentInit == link = [c \in Redirected |-> NewLink]
TransparentNext ==
    \E c \in Redirected :
      \/ \E says \in Says, h \in 1..MaxUnits : Arrives(c, says, h)
      \/ \E n \in 1..MaxUnits, v \in {"allow", "deny", "throws"} : Bytes(c, n, v)
      \/ PeekTimeout(c) \/ SendsOn(c) \/ Connected(c) \/ UpstreamError(c)
      \/ ClientEnds(c) \/ UpstreamCloses(c) \/ ClientError(c) \/ ClientCloses(c)

TransparentSpec == TransparentInit /\ [][TransparentNext]_link

-----------------------------------------------------------------------------
\* No connection reaches a destination it did not name or that was not allowed; what
\* was read to name it is delivered with the rest, once; and its one row carries the
\* decision that was taken and the bytes that went (handleConnection, finish).
RedirectedRowsAreTrue ==
    \A c \in Redirected : LET k == link[c] IN
      /\ k.up # "none" => k.decided /\ k.decision = "allow" /\ DestinationFrom(k)
      /\ k.up = "open" => k.delivered = k.sent
      /\ k.rows # <<>> => /\ k.rows[1].decision = (IF k.up = "none" THEN "deny" ELSE "allow")
                          /\ k.rows[1].up = k.delivered /\ k.state \notin {"peeking", "connecting", "piped"}
      /\ k.state \in {"refused", "closed"} => k.rows # <<>>
=============================================================================
