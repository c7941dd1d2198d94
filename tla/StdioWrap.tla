------------------------------ MODULE StdioWrap ------------------------------
(***************************************************************************)
(* The stdio transport of an MCP wrapper (mcp/stdio.ts) over the line       *)
(* parser of mcp/framing.ts: a client, the wrapper and the server it runs   *)
(* as its child.  Each direction is a pipe that is read in chunks cut        *)
(* anywhere, a parser, and a chain of steps of which one runs at a time.     *)
(* What the gates say of a frame is any verdict.                            *)
(***************************************************************************)
EXTENDS Naturals, Sequences, FiniteSets, SequencesExt

CONSTANTS Scripts,  \* [client, server]: what each side writes, lines of [kind, size, cut]
          MaxFrame  \* maxFrameBytes, in the pieces a size counts

VARIABLES script,
          wire,     \* per direction: [left, pending, resyncing, ended], bytes not yet read first
          chain,    \* per direction: the steps queued
          draining, \* per direction: the running step waits for a full pipe
          child,    \* "running", "dead", "closed" (its "close" event was handled)
          stdinClosed, \* childStdinClosed
          handled,  \* per direction: lines whose step ran, as [line, event]
          sentOn,   \* per direction: what was written to the other side
          settled   \* the wrapper's promise resolved

stdioVars == <<script, wire, chain, draining, child, stdinClosed, handled, sentOn, settled>>

In == "client_to_server"
Out == "server_to_client"
Directions == {In, Out}
Said(d) == IF d = In THEN script.client ELSE script.server

(***************************************************************************)
(* framing.ts                                                              *)
(***************************************************************************)
\* The bytes of a script: the pieces of each line, then its newline unless the stream ends first.
BytesOf(lines) ==
    FlattenSeq([n \in DOMAIN lines |->
        [i \in 1 .. lines[n].size |-> [line |-> n, newline |-> FALSE]]
            \o (IF lines[n].cut THEN <<>> ELSE <<[line |-> n, newline |-> TRUE]>>)])
\* readLine: noise is no event, and only a JSON-RPC envelope is a frame.
ReadLine(d, n) ==
    CASE Said(d)[n].kind = "blank" -> <<>>
      [] Said(d)[n].kind = "junk" -> <<[line |-> n, event |-> "malformed"]>>
      [] OTHER -> <<[line |-> n, event |-> "frame"]>>
Malformed(n) == <<[line |-> n, event |-> "malformed"]>>

\* One byte inside push.
Take(d, p, b) ==
    CASE ~b.newline -> [p EXCEPT !.pending = @ + 1, !.at = b.line]
      [] b.newline /\ p.resyncing -> [p EXCEPT !.pending = 0, !.resyncing = FALSE]
      [] OTHER -> [p EXCEPT !.pending = 0,
                            !.events = @ \o (IF p.pending > MaxFrame THEN Malformed(b.line)
                                             ELSE ReadLine(d, b.line))]
\* The end of push: what is held without a newline and already too long is reported and dropped.
EndOfChunk(p) ==
    CASE p.resyncing -> [p EXCEPT !.pending = 0]
      [] ~p.resyncing /\ p.pending > MaxFrame ->
           [p EXCEPT !.pending = 0, !.resyncing = TRUE, !.events = @ \o Malformed(p.at)]
      [] OTHER -> p
Parser(d) == [pending |-> wire[d].pending, resyncing |-> wire[d].resyncing, at |-> 0, events |-> <<>>]
\* Mutant: the rest of a line too long is read as a line of its own.
PushedForgetful(d, chunk) ==
    [EndOfChunk(FoldLeft(LAMBDA p, b : Take(d, p, b), Parser(d), chunk)) EXCEPT !.resyncing = FALSE]
Pushed(d, chunk) == EndOfChunk(FoldLeft(LAMBDA p, b : Take(d, p, b), Parser(d), chunk))

\* flush: an unfinished line is malformed, once.
Flushed(d) ==
    IF wire[d].resyncing \/ wire[d].pending = 0 \/ Last(Said(d)).kind = "blank" THEN <<>>
    ELSE Malformed(Len(Said(d)))

(***************************************************************************)
(* stdio.ts: the streams                                                   *)
(***************************************************************************)
\* A listener of a stream is there until cleanup.
Listening(d) == ~settled /\ ~wire[d].ended
Data(d, k) ==
    /\ Listening(d) /\ k \in 1 .. Len(wire[d].left)
    /\ LET p == Pushed(d, SubSeq(wire[d].left, 1, k))
       IN /\ wire' = [wire EXCEPT ![d] = [left |-> SubSeq(@.left, k + 1, Len(@.left)),
                                          pending |-> p.pending, resyncing |-> p.resyncing,
                                          ended |-> FALSE]]
          /\ chain' = [chain EXCEPT ![d] = @ \o p.events]
    /\ UNCHANGED <<script, draining, child, stdinClosed, handled, sentOn, settled>>
\* The "end" of a stream; the client's queues the closing of the child's stdin behind its frames.
End(d) ==
    /\ Listening(d) /\ wire[d].left = <<>>
    /\ wire' = [wire EXCEPT ![d] = [@ EXCEPT !.pending = 0, !.resyncing = FALSE, !.ended = TRUE]]
    /\ chain' = [chain EXCEPT ![d] = @ \o Flushed(d) \o
                    (IF d = In THEN <<[line |-> 0, event |-> "close"]>> ELSE <<>>)]
    /\ UNCHANGED <<script, draining, child, stdinClosed, handled, sentOn, settled>>

(***************************************************************************)
(* stdio.ts: the steps of a chain                                          *)
(***************************************************************************)
\* write: the item is on its way, and a pipe that is full holds the chain until it drains.
WriteOut(d, to, item) ==
    /\ sentOn' = [sentOn EXCEPT ![to] = Append(@, item)]
    /\ draining' \in {draining, [draining EXCEPT ![d] = TRUE]}
Quietly == UNCHANGED <<sentOn, draining>>
HasId(d, n) == Said(d)[n].kind = "request"

\* handleClient, handleServer, refuse and the malformed step, for the first of the chain.  A gate
\* that throws blocks.
HandleLine(d, verdict) ==
    /\ ~settled /\ ~draining[d] /\ chain[d] # <<>>
    /\ chain' = [chain EXCEPT ![d] = Tail(@)]
    /\ LET h == Head(chain[d]) IN
       /\ handled' = [handled EXCEPT ![d] = IF h.event = "close" THEN @ ELSE Append(@, h)]
       /\ stdinClosed' = (stdinClosed \/ h.event = "close")
       /\ CASE h.event = "frame" /\ verdict = "forward" ->
                 IF d = In /\ stdinClosed THEN Quietly
                 ELSE WriteOut(d, d, [of |-> d, line |-> h.line, as |-> "frame"])
            [] h.event = "frame" /\ verdict # "forward" ->
                 IF HasId(d, h.line) THEN WriteOut(d, Out, [of |-> d, line |-> h.line, as |-> "error"])
                 ELSE Quietly
            [] h.event = "malformed" /\ d = Out ->
                 WriteOut(d, Out, [of |-> d, line |-> h.line, as |-> "error"])
            [] OTHER -> Quietly
    /\ UNCHANGED <<script, wire, child, settled>>
\* "drain", "close" or "error" of the stream a step waits for.
Drains(d) ==
    /\ draining[d] /\ draining' = [draining EXCEPT ![d] = FALSE]
    /\ UNCHANGED <<script, wire, chain, child, stdinClosed, handled, sentOn, settled>>

(***************************************************************************)
(* stdio.ts: the child                                                     *)
(***************************************************************************)
\* The server ends: by itself, by a signal the wrapper relayed, or because its stdin closed.
ChildDies ==
    /\ child = "running" /\ child' = "dead"
    /\ UNCHANGED <<script, wire, chain, draining, stdinClosed, handled, sentOn, settled>>
\* "close" or "error" of child.stdin.
StdinCloses ==
    /\ ~stdinClosed /\ child # "running" /\ stdinClosed' = TRUE
    /\ UNCHANGED <<script, wire, chain, draining, child, handled, sentOn, settled>>
\* The "close" event: the child ended and its stdout did.
ChildCloses ==
    /\ child = "dead" /\ wire[Out].ended /\ child' = "closed"
    /\ UNCHANGED <<script, wire, chain, draining, stdinClosed, handled, sentOn, settled>>
\* The wrapper resolves when no chain has anything left, and stops listening.
Settle ==
    /\ child = "closed" /\ ~settled
    /\ \A d \in Directions : chain[d] = <<>> /\ ~draining[d]
    /\ settled' = TRUE
    /\ UNCHANGED <<script, wire, chain, draining, child, stdinClosed, handled, sentOn>>

StdioInit ==
    /\ script \in Scripts
    /\ wire = [d \in Directions |-> [left |-> BytesOf(Said(d)), pending |-> 0,
                                     resyncing |-> FALSE, ended |-> FALSE]]
    /\ chain = [d \in Directions |-> <<>>] /\ draining = [d \in Directions |-> FALSE]
    /\ child = "running" /\ stdinClosed = FALSE /\ settled = FALSE
    /\ handled = [d \in Directions |-> <<>>] /\ sentOn = [d \in Directions |-> <<>>]
StdioNext ==
    \/ \E d \in Directions :
          \/ \E k \in 1 .. Len(wire[d].left) : Data(d, k)
          \/ End(d) \/ Drains(d)
          \/ \E verdict \in {"forward", "block"} : HandleLine(d, verdict)
    \/ ChildDies \/ StdinCloses \/ ChildCloses \/ Settle

(***************************************************************************)
(* Properties                                                              *)
(***************************************************************************)
\* How a line is to be read: whole, within the ceiling and an envelope, or malformed.
Reading(d) ==
    LET Event(n) == IF Said(d)[n].cut \/ Said(d)[n].size > MaxFrame \/ Said(d)[n].kind = "junk"
                    THEN "malformed" ELSE "frame"
        Counts(n) == Said(d)[n].kind # "blank" \/ Said(d)[n].size > MaxFrame
    IN SelectSeq([n \in DOMAIN Said(d) |-> [line |-> n, event |-> Event(n)]],
                 LAMBDA e : Counts(e.line))
\* However a pipe cuts its lines into chunks, each line is handled once, in the order sent, and as
\* what it is: a line too long, cut short or no envelope is never handled as a frame, and the line
\* behind it is read whole (push, flush, the chain of each direction).
EachLineIsReadOnce ==
    \A d \in Directions :
        /\ IsPrefix(handled[d], Reading(d))
        /\ \A i, j \in DOMAIN sentOn[d] :
             i < j /\ sentOn[d][i].of = sentOn[d][j].of => sentOn[d][i].line < sentOn[d][j].line
\* The wrapper ends only after every line the server wrote was handled and all that is meant for
\* the client is written, although frames are accepted while it waits (the "close" handler).
NothingIsLostAtTheEnd ==
    settled => handled[Out] = Reading(Out) /\ \A d \in Directions : ~draining[d]

\* A line travels once: read once whatever the chunks, and not lost when the child ends.
LinesTravelOnce == EachLineIsReadOnce /\ NothingIsLostAtTheEnd

=============================================================================
