------------------------------ MODULE AnchorMC ------------------------------
EXTENDS Anchor, TLC

CONSTANTS s1, s2, cli, k0
SomePasses == {s1, s2, cli}
SomeProcesses == {"server", "shell"}
SomeProcessOf == [p \in SomePasses |-> IF p = cli THEN "shell" ELSE "server"]

Bounds(ps, keyed, begun, segs, n, k, l) ==
    [passes |-> ps, keyed |-> keyed, started |-> begun, segments |-> segs,
     records |-> n, kills |-> k, losses |-> l]
SomeSetups == {
    Bounds({s1, s2}, FALSE, 3, 2, 2, 1, 0),
    Bounds({s1}, TRUE, 3, 2, 2, 1, 1),
    Bounds({s1, cli}, TRUE, 2, 2, 1, 0, 1)}
=============================================================================
