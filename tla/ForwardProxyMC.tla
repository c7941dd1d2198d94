--------------------------- MODULE ForwardProxyMC ---------------------------
(* Small instances of ForwardProxy. *)
EXTENDS ForwardProxy

\* Every mode; a budget that the number of connections exhausts, one that their
\* bytes do.
SomeSetups == {[mode |-> "monitor", requests |-> 1, bytes |-> 9],
               [mode |-> "guarded", requests |-> 1, bytes |-> 9],
               [mode |-> "strict", requests |-> 9, bytes |-> 1]}
=============================================================================
