----------------------------- MODULE McpHttpMC -----------------------------
(* Small instances of McpHttp. *)
EXTENDS McpHttp, TLC

CONSTANTS x1, x2

list(id) == [id |-> id, kind |-> "list"]
call(id) == [id |-> id, kind |-> "call"]
single(f) == [shape |-> "single", frames |-> <<f>>]
batch(fs) == [shape |-> "batch", frames |-> fs]

setupOf(first, second, answers, may) ==
    [bodies |-> (x1 :> first @@ x2 :> second), answers |-> answers, may |-> may]

\* A batch beside a server stream, and two exchanges that each open a listing
\* where the session has room for one.
SomeSetups ==
    {setupOf({batch(<<call(1), Note, list(2)>>), batch(<<>>)}, {Get}, {Note, Junk}, 2),
     setupOf({single(list(1))}, {single(list(2)), batch(<<list(3), call(4)>>)}, {Note}, 2),
     setupOf({single(Note)}, {single(call(2))}, {Junk}, 1)}
=============================================================================
