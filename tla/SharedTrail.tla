---------------------------- MODULE SharedTrail ----------------------------
(***************************************************************************)
(* What the writer lock promises: an audit trail that several processes    *)
(* take turns to extend, whoever holds it adding the next index and        *)
(* nothing else, as if there were one writer.                              *)
(***************************************************************************)
EXTENDS Naturals, Sequences

CONSTANTS Procs, Nobody

VARIABLES holder, trail

Init == holder = Nobody /\ trail = <<>>

Acquire(p) == holder = Nobody /\ holder' = p /\ UNCHANGED trail
Release == holder # Nobody /\ holder' = Nobody /\ UNCHANGED trail
Extend == holder # Nobody /\ trail' = Append(trail, Len(trail)) /\ UNCHANGED holder

Next == (\E p \in Procs : Acquire(p)) \/ Release \/ Extend

Spec == Init /\ [][Next]_<<holder, trail>>
=============================================================================
