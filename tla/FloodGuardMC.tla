---------------------------- MODULE FloodGuardMC ----------------------------
(* Small instances of FloodGuard. *)
EXTENDS FloodGuard

CONSTANTS s1, s2, shell

call(s, a, r) == [session |-> s, action |-> a, risky |-> r]
ask(s, n, t, r, m) == [session |-> s, named |-> n, tool |-> t, risk |-> r, manual |-> m]

\* One session that evaluates and asks; two that fill the queue and are answered.
SomeSetups ==
    {[calls |-> {call(s1, NoAction, TRUE), call(s1, shell, FALSE)},
      asks |-> {ask(s1, TRUE, FALSE, "high", FALSE)}, operators |-> {},
      scalings |-> {<<s1, 20>>, <<s1, 200>>}, lengths |-> {1, 2},
      requests |-> 4, orders |-> 2, restarts |-> 0],
     [calls |-> {}, operators |-> {"op"},
      asks |-> {ask(s1, TRUE, FALSE, "low", TRUE), ask(s2, FALSE, FALSE, "low", TRUE),
                ask(s2, TRUE, FALSE, "critical", TRUE)},
      scalings |-> {<<s1, 500>>}, lengths |-> {1},
      requests |-> 4, orders |-> 1, restarts |-> 1]}

SomeLimits == [request |-> 2, tool |-> 1, ask |-> 2, answer |-> 1,
               queue |-> 3, lane |-> 1, budget |-> 8]
SomeFactors == [request |-> 50, tool |-> 50, ask |-> 50, answer |-> 50,
                queue |-> 60, lane |-> 60, budget |-> 75]
SomeWeights == [evaluate |-> 1, ask |-> 2, manual |-> 1, tool |-> 2, high |-> 2, critical |-> 2]
=============================================================================
