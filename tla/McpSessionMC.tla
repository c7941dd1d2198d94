---------------------------- MODULE McpSessionMC ----------------------------
(* Small instances of McpSession. *)
EXTENDS McpSession, TLC

CONSTANTS c1, c2, w1, w2

tool(name, body) == [name |-> name, body |-> body]
page(tools, next) == [tools |-> tools, next |-> next]

\* Two tools, one of them in two versions, spread over pages in several ways.
SomePages == {page({tool("a", 1)}, c1), page({tool("b", 1)}, c2),
              page({tool("a", 2)}, NoCursor), page({tool("b", 1)}, NoCursor)}

Locked == {tool("a", 1), tool("b", 1)}
SomeSetups ==
    [mode : {"off"}, wrappers : {{w1}, {w2}}, store : {None}, requests : {5}]
    \cup [mode : {"lock"}, wrappers : {{w1}, {w2}}, store : {Locked}, requests : {5}]
    \cup [mode : {"learn"}, wrappers : {{w1, w2}}, store : {None}, requests : {4}]
\* No definition tells ids apart, or wrappers.
Alike == Permutations(ClientIds) \cup Permutations({w1, w2})
=============================================================================
