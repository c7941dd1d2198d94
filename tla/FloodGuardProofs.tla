-------------------------- MODULE FloodGuardProofs --------------------------
(***************************************************************************)
(* What FloodGuard promises, for every value of the constants.  Of the     *)
(* approval queue: the cap on the whole of it, a named session's share,    *)
(* and the room that shield mode keeps for risky requests.  Of the         *)
(* windows: what a minute and an hour let through, and the hint given to a *)
(* refused caller.                                                         *)
(*                                                                         *)
(* The windows slide by dropping what is old whenever they are asked, so   *)
(* the induction counts at every earlier time at once: from each time a    *)
(* window still covers, the rows let through since are at most the events  *)
(* it holds since.                                                         *)
(***************************************************************************)
EXTENDS FloodGuard, Sums

\* An override stands only where an operator ordered one.
Ordered ==
    /\ DOMAIN overrides = Sessions
    /\ \A s \in Sessions : overrides[s] # None => s \in scaled

\* The induction: the queue is finite, and its caps hold.
Queue ==
    /\ setup \in Setups
    /\ IsFiniteSet(pending)
    /\ Ordered
    /\ QueueWithinCap
    /\ LaneWithinCap
    /\ RiskyKeepRoom

-----------------------------------------------------------------------------
(* A factor of at most a hundred raises no limit.                          *)

LEMMA ScaledDown ==
    ASSUME NEW b \in Nat \ {0}, NEW f \in 1 .. 100
    PROVE  Scaled(b, f) \in Nat /\ Scaled(b, f) <= b
<1>1. b * f \in Nat
  OBVIOUS
<1>2. b * f <= b * 100
  OBVIOUS
<1> DEFINE x == b * f
<1>3. x \in Nat /\ x <= b * 100
  BY <1>1, <1>2
<1>4. Scaled(b, f) = Largest(1, (x + 50) \div 100)
  BY DEF Scaled
<1> HIDE DEF x
<1>5. (x + 50) \div 100 \in Nat /\ (x + 50) \div 100 <= b
  BY <1>3
<1> QED BY <1>4, <1>5 DEF Largest

LEMMA LimitInForce ==
    ASSUME NEW name \in LimitNames
    PROVE  Limit(name) \in Nat /\ Limit(name) <= Limits[name]
<1>1. Limits[name] \in Nat \ {0} /\ ShieldFactor[name] \in 1 .. 100
  BY FloodAssumption
<1>2. /\ Scaled(Limits[name], ShieldFactor[name]) \in Nat
      /\ Scaled(Limits[name], ShieldFactor[name]) <= Limits[name]
  BY <1>1, ScaledDown
<1> QED BY <1>1, <1>2 DEF Limit

\* The cap and the bar of shield mode, and their product.
ShieldCap == Scaled(Limits["queue"], ShieldFactor["queue"])

LEMMA RoomIsNat == ShieldCap \in Nat /\ PressureBar * ShieldCap \in Nat
<1>1. Limits["queue"] \in Nat \ {0} /\ ShieldFactor["queue"] \in 1 .. 100
  BY FloodAssumption DEF LimitNames
<1>2. ShieldCap \in Nat
  BY <1>1, ScaledDown DEF ShieldCap
<1> QED BY <1>2, FloodAssumption

LEMMA OneMore ==
    ASSUME NEW S, NEW x, IsFiniteSet(S)
    PROVE  /\ IsFiniteSet(S \cup {x})
           /\ Cardinality(S) \in Nat /\ Cardinality(S \cup {x}) \in Nat
           /\ Cardinality(S \cup {x}) <= Cardinality(S) + 1
<1>1. Cardinality(S) \in Nat
  BY FS_CardinalityType
<1>2. CASE x \in S
  <2>1. S \cup {x} = S
    BY <1>2
  <2>2. Cardinality(S) <= Cardinality(S) + 1
    BY <1>1
  <2>3. Cardinality(S \cup {x}) = Cardinality(S)
    BY <2>1
  <2>4. IsFiniteSet(S \cup {x})
    BY <2>1
  <2> QED BY <1>1, <2>2, <2>3, <2>4
<1>3. CASE x \notin S
  <2>1. IsFiniteSet(S \cup {x}) /\ Cardinality(S \cup {x}) = Cardinality(S) + 1
    BY <1>3, FS_AddElement
  <2> QED BY <1>1, <2>1
<1> QED BY <1>2, <1>3

-----------------------------------------------------------------------------
(* Whatever leaves the queue, the caps still hold.                         *)

LEMMA Shrinks ==
    ASSUME Queue, pending' \subseteq pending, Ordered', setup' = setup,
           scaled \subseteq scaled'
    PROVE  Queue'
<1>1. IsFiniteSet(pending') /\ Cardinality(pending') <= Cardinality(pending)
  BY FS_Subset DEF Queue
<1>2. QueueWithinCap'
  <2>1. Limits["queue"] \in Nat
    BY FloodAssumption DEF LimitNames
  <2>2. Cardinality(pending) \in Nat /\ Cardinality(pending') \in Nat
    BY <1>1, FS_CardinalityType DEF Queue
  <2> QED BY <1>1, <2>1, <2>2 DEF Queue, QueueWithinCap
<1>3. LaneWithinCap'
  <2> SUFFICES ASSUME NEW s \in Sessions \ scaled'
               PROVE  Cardinality(InLane(s)') <= Limits["lane"]
    BY DEF LaneWithinCap
  <2>1. InLane(s)' \subseteq InLane(s) /\ InLane(s) \subseteq pending
    BY DEF InLane
  <2>2. IsFiniteSet(InLane(s))
    BY <2>1, FS_Subset DEF Queue
  <2>3. IsFiniteSet(InLane(s)') /\ Cardinality(InLane(s)') <= Cardinality(InLane(s))
    BY <2>1, <2>2, FS_Subset
  <2>4. Cardinality(InLane(s)) <= Limits["lane"]
    BY DEF Queue, LaneWithinCap
  <2>5. Cardinality(InLane(s)) \in Nat /\ Cardinality(InLane(s)') \in Nat
    BY <2>2, <2>3, FS_CardinalityType
  <2>6. Limits["lane"] \in Nat
    BY FloodAssumption DEF LimitNames
  <2> QED BY <2>3, <2>4, <2>5, <2>6
<1>4. RiskyKeepRoom'
  <2> DEFINE low == {e \in pending : e.shield /\ e.risk = "low"}
             room == PressureBar * ShieldCap
  <2>1. low' \subseteq low /\ low \subseteq pending
    OBVIOUS
  <2>2. IsFiniteSet(low)
    BY <2>1, FS_Subset DEF Queue
  <2>3. IsFiniteSet(low') /\ Cardinality(low') <= Cardinality(low)
    BY <2>1, <2>2, FS_Subset
  <2>4. Cardinality(low) \in Nat /\ Cardinality(low') \in Nat
    BY <2>2, <2>3, FS_CardinalityType
  <2>5. room \in Nat
    BY RoomIsNat
  <2>6. low # {} => (Cardinality(low) - 1) * 100 < room
    BY DEF Queue, RiskyKeepRoom, ShieldCap
  <2>7. low' # {} => (Cardinality(low') - 1) * 100 < room
    <3> HIDE DEF low, room
    <3>1. low' # {} => low # {}
      BY <2>1
    <3> QED BY <2>3, <2>4, <2>5, <2>6, <3>1
  <2>8. RiskyKeepRoom' <=> (low' # {} => (Cardinality(low') - 1) * 100 < room)
    BY DEF RiskyKeepRoom, ShieldCap
  <2> QED BY <2>7, <2>8
<1> QED BY <1>1, <1>2, <1>3, <1>4 DEF Queue

\* Reading the overrides drops those that ran out and adds none.
LEMMA StandingIsOrdered ==
    ASSUME Ordered, overrides' = Standing, scaled' = scaled
    PROVE  Ordered'
BY DEF Ordered, Standing

-----------------------------------------------------------------------------
(* The one action that adds to the queue.                                  *)

LEMMA ServedKeepsQueue ==
    ASSUME Queue, NEW a \in setup.asks, AskServed(a)
    PROVE  Queue'
<1>1. /\ a \in Asks /\ a.session \in Sessions
      /\ scaled' = scaled /\ setup' = setup /\ Ordered'
  BY FloodAssumption, StandingIsOrdered DEF Queue, AskServed, OfGuard, Asks
<1>2. CASE ~a.manual
  BY <1>1, <1>2, Shrinks DEF AskServed
<1>3. CASE a.manual
  <2> DEFINE entry == [id |-> requests', session |-> a.session, named |-> a.named,
                       risk |-> a.risk, shield |-> Shielded]
  <2>1. pending' = pending \cup {entry}
    BY <1>3 DEF AskServed
  <2>2. ~Crowded(a)
    BY DEF AskServed
  <2> HIDE DEF entry
  <2>3. /\ IsFiniteSet(pending) /\ IsFiniteSet(pending')
        /\ Cardinality(pending) \in Nat /\ Cardinality(pending') \in Nat
        /\ Cardinality(pending') <= Cardinality(pending) + 1
    BY <2>1, OneMore DEF Queue
  <2>4. QueueWithinCap'
    <3>1. Cardinality(pending) < Limit("queue") /\ Limit("queue") \in Nat
      BY <2>2, <2>3, LimitInForce DEF Crowded, QueueFull, LimitNames
    <3>2. Limit("queue") <= Limits["queue"] /\ Limits["queue"] \in Nat
      BY LimitInForce, FloodAssumption DEF LimitNames
    <3> QED BY <2>3, <3>1, <3>2 DEF QueueWithinCap
  <2>5. LaneWithinCap'
    <3> SUFFICES ASSUME NEW s \in Sessions \ scaled
                 PROVE  Cardinality(InLane(s)') <= Limits["lane"]
      BY <1>1 DEF LaneWithinCap
    <3>1. IsFiniteSet(InLane(s)) /\ Cardinality(InLane(s)) \in Nat
      BY <2>3, FS_Subset, FS_CardinalityType DEF InLane
    <3>2. Limits["lane"] \in Nat
      BY FloodAssumption DEF LimitNames
    <3>3. CASE entry.session = s
      <4>1. InLane(s)' \subseteq InLane(s) \cup {entry}
        BY <2>1 DEF InLane
      <4>2. Cardinality(InLane(s) \cup {entry}) <= Cardinality(InLane(s)) + 1
        BY <3>1, OneMore
      <4>3. IsFiniteSet(InLane(s) \cup {entry})
        BY <3>1, OneMore
      <4>4. Cardinality(InLane(s)') <= Cardinality(InLane(s) \cup {entry})
        BY <4>1, <4>3, FS_Subset
      <4>5. Cardinality(InLane(s)') \in Nat /\ Cardinality(InLane(s) \cup {entry}) \in Nat
        BY <4>1, <4>3, FS_Subset, FS_CardinalityType
      <4>6. a.session = s
        BY <3>3 DEF entry
      <4>7. SessionLimit(s, "lane") = Limit("lane")
        BY DEF SessionLimit, Standing, Queue, Ordered
      <4>8. Cardinality(InLane(s)) < Limit("lane")
        BY <2>2, <3>1, <4>6, <4>7, LimitInForce DEF Crowded, LaneFull, LimitNames
      <4>9. Limit("lane") \in Nat /\ Limit("lane") <= Limits["lane"]
        BY LimitInForce DEF LimitNames
      <4> QED BY <3>1, <3>2, <4>2, <4>4, <4>5, <4>8, <4>9
    <3>4. CASE entry.session # s
      <4>1. InLane(s)' = InLane(s)
        BY <2>1, <3>4 DEF InLane
      <4> QED BY <4>1 DEF Queue, LaneWithinCap
    <3> QED BY <3>3, <3>4
  <2>6. RiskyKeepRoom'
    <3> DEFINE low == {e \in pending : e.shield /\ e.risk = "low"}
               room == PressureBar * ShieldCap
    <3>1. IsFiniteSet(low) /\ Cardinality(low) \in Nat /\ Cardinality(low) <= Cardinality(pending)
      BY <2>3, FS_Subset, FS_CardinalityType
    <3>2. room \in Nat
      BY RoomIsNat
    <3>3. RiskyKeepRoom' <=> (low' # {} => (Cardinality(low') - 1) * 100 < room)
      BY DEF RiskyKeepRoom, ShieldCap
    <3>4. CASE entry.shield /\ entry.risk = "low"
      <4>1. low' = low \cup {entry}
        BY <2>1, <3>4
      <4>2. Shielded /\ a.risk = "low"
        BY <3>4 DEF entry
      <4>3. ~Pressed(Cardinality(pending), Limit("queue")) /\ Limit("queue") = ShieldCap
        BY <2>2, <4>2 DEF Crowded, Reserved, Limit, ShieldCap
      <4> HIDE DEF low
      <4>4. Cardinality(low') \in Nat /\ Cardinality(low') <= Cardinality(low) + 1
        BY <3>1, <4>1, OneMore
      <4>5. Cardinality(pending) * 100 < room
        <5>1. ~(Cardinality(pending) * 100 >= room)
          BY <4>3 DEF Pressed
        <5> HIDE DEF room
        <5> QED BY <2>3, <3>2, <5>1
      <4> HIDE DEF room
      <4>6. (Cardinality(low') - 1) * 100 < room
        BY <2>3, <3>1, <3>2, <4>4, <4>5
      <4> QED BY <3>3, <4>6
    <3>5. CASE ~(entry.shield /\ entry.risk = "low")
      <4>1. low' = low
        BY <2>1, <3>5
      <4>2. low # {} => (Cardinality(low) - 1) * 100 < room
        BY DEF Queue, RiskyKeepRoom, ShieldCap
      <4> QED BY <3>3, <4>1, <4>2
    <3> QED BY <3>4, <3>5
  <2> QED BY <1>1, <2>3, <2>4, <2>5, <2>6 DEF Queue
<1> QED BY <1>2, <1>3

-----------------------------------------------------------------------------
(* Every step.                                                             *)

LEMMA QueueStep == Queue /\ [Next]_vars => Queue'
<1> SUFFICES ASSUME Queue, [Next]_vars PROVE Queue'
  OBVIOUS
<1>1. ASSUME OfGuard, pending' = pending PROVE Queue'
  <2>1. Ordered' /\ setup' = setup /\ scaled' = scaled
    BY <1>1, StandingIsOrdered DEF OfGuard, Queue
  <2> QED BY <1>1, <2>1, Shrinks
<1>2. ASSUME NEW c \in setup.calls, Evaluate(c) PROVE Queue'
  BY <1>1, <1>2 DEF Evaluate, EvaluateFlooded, EvaluateToolFlooded, EvaluateOverBudget,
                    EvaluateServed
<1>3. ASSUME NEW a \in setup.asks, Ask(a) PROVE Queue'
  <2>1. CASE AskServed(a)
    BY <2>1, ServedKeepsQueue
  <2>2. CASE AskCrowded(a) \/ AskFlooded(a) \/ AskOverBudget(a)
    BY <1>1, <2>2 DEF AskCrowded, AskFlooded, AskOverBudget
  <2> QED BY <1>3, <2>1, <2>2 DEF Ask
<1>4. ASSUME UNCHANGED <<setup, overrides, pending>>, scaled' = scaled PROVE Queue'
  <2>1. Ordered'
    BY <1>4 DEF Queue, Ordered
  <2> QED BY <1>4, <2>1, Shrinks
<1>5. ASSUME NEW o, AnswerFlooded(o) PROVE Queue'
  BY <1>4, <1>5 DEF AnswerFlooded
<1>6. ASSUME NEW o, NEW id, Answer(o, id) PROVE Queue'
  <2>1. /\ pending' \subseteq pending /\ setup' = setup /\ scaled' = scaled
        /\ overrides' = overrides \/ overrides' = Standing
    BY <1>6 DEF Answer
  <2>2. Ordered'
    BY <2>1, StandingIsOrdered DEF Queue, Ordered
  <2> QED BY <2>1, <2>2, Shrinks
<1>7. ASSUME NEW e, TimeOut(e) PROVE Queue'
  <2>1. Ordered' /\ pending' \subseteq pending /\ setup' = setup /\ scaled' = scaled
    BY <1>7 DEF TimeOut, Queue, Ordered
  <2> QED BY <2>1, Shrinks
<1>8. ASSUME Restart PROVE Queue'
  <2>1. Ordered' /\ pending' \subseteq pending /\ setup' = setup /\ scaled' = scaled
    BY <1>8 DEF Restart, Queue, Ordered
  <2> QED BY <2>1, Shrinks
<1>9. ASSUME NEW length, ShieldOn(length) PROVE Queue'
  BY <1>4, <1>9 DEF ShieldOn, Idle
<1>10. ASSUME ShieldOff PROVE Queue'
  BY <1>4, <1>10 DEF ShieldOff, Idle
<1>11. ASSUME NEW scaling \in setup.scalings, NEW length,
              SetOverride(scaling[1], scaling[2], length)
       PROVE  Queue'
  <2>1. setup' = setup /\ pending' = pending /\ scaled \subseteq scaled'
    BY <1>11 DEF SetOverride, Idle
  <2>2. Ordered'
    BY <1>11 DEF SetOverride, Queue, Ordered
  <2> QED BY <2>1, <2>2, Shrinks
<1>12. ASSUME NEW s \in Sessions, ClearOverride(s) PROVE Queue'
  <2>1. Ordered' /\ setup' = setup /\ pending' = pending /\ scaled' = scaled
    BY <1>12 DEF ClearOverride, Idle, Queue, Ordered
  <2> QED BY <2>1, Shrinks
<1>13. ASSUME Snapshot PROVE Queue'
  <2>1. Ordered' /\ setup' = setup /\ pending' = pending /\ scaled' = scaled
    BY <1>13, StandingIsOrdered DEF Snapshot, Queue
  <2> QED BY <2>1, Shrinks
<1>14. ASSUME Tick PROVE Queue'
  BY <1>4, <1>14 DEF Tick
<1>15. ASSUME UNCHANGED vars PROVE Queue'
  BY <1>4, <1>15 DEF vars
<1> QED BY <1>2, <1>3, <1>5, <1>6, <1>7, <1>8, <1>9, <1>10, <1>11, <1>12, <1>13, <1>14,
           <1>15 DEF Next

LEMMA QueueAtStart == Init => Queue
<1> SUFFICES ASSUME Init PROVE Queue
  OBVIOUS
<1>1. pending = {} /\ setup \in Setups /\ Ordered
  BY DEF Init, Ordered
<1>2. IsFiniteSet(pending) /\ Cardinality(pending) = 0
  BY <1>1, FS_EmptySet
<1>3. QueueWithinCap
  BY <1>2, FloodAssumption DEF QueueWithinCap, LimitNames
<1>4. LaneWithinCap
  <2>1. \A s \in Sessions : InLane(s) = {}
    BY <1>1 DEF InLane
  <2>2. 0 <= Limits["lane"]
    BY FloodAssumption DEF LimitNames
  <2>3. \A s \in Sessions : Cardinality(InLane(s)) = 0
    BY <2>1, FS_EmptySet
  <2> QED BY <2>2, <2>3 DEF LaneWithinCap
<1>5. RiskyKeepRoom
  BY <1>1 DEF RiskyKeepRoom
<1> QED BY <1>1, <1>2, <1>3, <1>4, <1>5 DEF Queue

\* No sequence of requests, refusals, answers, timeouts, restarts, shields and
\* overrides fills the queue above its cap, gives a named session more of it
\* than its share, or lets low-risk requests take the room that shield mode
\* keeps for risky ones (approvalRequest).
THEOREM QueueIsBounded == Spec => []QueueHolds
<1>1. Queue => QueueHolds
  BY DEF Queue, QueueHolds
<1> QED BY <1>1, QueueAtStart, QueueStep, PTL DEF Spec
-----------------------------------------------------------------------------
(* How many events of a bucket, and how much of a budget, are from a time on. *)

Charges == [at : Nat, units : Nat]

Marks(bucket, t) == {i \in DOMAIN bucket : bucket[i] >= t}
Dues(budget, t) == {i \in DOMAIN budget : budget[i].at >= t}
Units(budget) == [i \in DOMAIN budget |-> budget[i].units]

\* The first time that is in a window now.
Since(length) == now - length + 1

LEMMA MarksType ==
    ASSUME NEW bucket \in Seq(Nat), NEW t \in Int
    PROVE  /\ IsFiniteSet(Marks(bucket, t)) /\ Cardinality(Marks(bucket, t)) \in Nat
           /\ Marks(bucket, t) \subseteq DOMAIN bucket
<1>1. IsFiniteSet(1 .. Len(bucket)) /\ DOMAIN bucket = 1 .. Len(bucket)
  BY FS_Interval
<1>2. Marks(bucket, t) \subseteq 1 .. Len(bucket)
  BY <1>1 DEF Marks
<1> QED BY <1>1, <1>2, FS_Subset, FS_CardinalityType

LEMMA DuesType ==
    ASSUME NEW budget \in Seq(Charges), NEW t \in Int
    PROVE  /\ IsFiniteSet(Dues(budget, t)) /\ Dues(budget, t) \subseteq DOMAIN budget
           /\ \A i \in DOMAIN budget : Units(budget)[i] = budget[i].units /\ budget[i].units \in Nat
           /\ Sum(Units(budget), Dues(budget, t)) \in Nat
<1>1. IsFiniteSet(1 .. Len(budget)) /\ DOMAIN budget = 1 .. Len(budget)
  BY FS_Interval
<1>2. Dues(budget, t) \subseteq 1 .. Len(budget)
  BY <1>1 DEF Dues
<1>3. IsFiniteSet(Dues(budget, t))
  BY <1>1, <1>2, FS_Subset
<1>4. \A i \in DOMAIN budget : Units(budget)[i] = budget[i].units /\ budget[i].units \in Nat
  <2> SUFFICES ASSUME NEW i \in DOMAIN budget
               PROVE  Units(budget)[i] = budget[i].units /\ budget[i].units \in Nat
    OBVIOUS
  <2>1. budget[i] \in Charges
    BY <1>1
  <2> QED BY <2>1 DEF Units, Charges
<1>5. \A i \in Dues(budget, t) : Units(budget)[i] \in Nat
  BY <1>1, <1>2, <1>4
<1> QED BY <1>1, <1>2, <1>3, <1>4, <1>5, SumType

\* What a window drops, nobody inside it counts.
LEMMA KeptMarks ==
    ASSUME NEW bucket \in Seq(Nat), NEW low \in Int, NEW t \in Int, t >= low
    PROVE  Cardinality(Marks(bucket, t)) <= Cardinality(Marks(Kept(bucket, Marks(bucket, low)), t))
<1>1. PICK places : places = Marks(bucket, low)
  OBVIOUS
<1>2. PICK kept : kept = Kept(bucket, places)
  OBVIOUS
<1>3. places \subseteq DOMAIN bucket /\ IsFiniteSet(places) /\ places \subseteq Nat
  <2>1. places \subseteq DOMAIN bucket /\ IsFiniteSet(places)
    BY <1>1, MarksType
  <2>2. DOMAIN bucket \subseteq Nat
    OBVIOUS
  <2> QED BY <2>1, <2>2
<1>4. kept \in Seq(Nat) /\ DOMAIN kept = 1 .. Cardinality(places)
  BY <1>2, <1>3, KeptType
<1>5. PICK rank \in [places -> 1 .. Cardinality(places)] :
              /\ \A p, q \in places : rank[p] = rank[q] => p = q
              /\ \A p \in places : kept[rank[p]] = bucket[p]
  BY <1>2, <1>3, KeptPlaces
<1>6. PICK S : S = Marks(bucket, t)
  OBVIOUS
<1>7. PICK R : R = Marks(kept, t)
  OBVIOUS
<1>8. S \subseteq places
  BY <1>1, <1>6 DEF Marks
<1>9. \A p \in S : rank[p] \in R
  BY <1>4, <1>5, <1>6, <1>7, <1>8 DEF Marks
<1>10. PICK f : f = [p \in S |-> rank[p]]
  OBVIOUS
<1>11. f \in Injection(S, R)
  BY <1>5, <1>8, <1>9, <1>10 DEF Injection, IsInjective
<1>12. IsFiniteSet(R)
  BY <1>4, <1>7, MarksType
<1> QED BY <1>1, <1>2, <1>6, <1>7, <1>11, <1>12, FS_Injection

LEMMA KeptDues ==
    ASSUME NEW budget \in Seq(Charges), NEW low \in Int, NEW t \in Int, t >= low
    PROVE  LET kept == Kept(budget, Dues(budget, low))
           IN  Sum(Units(budget), Dues(budget, t)) <= Sum(Units(kept), Dues(kept, t))
<1>1. PICK places : places = Dues(budget, low)
  OBVIOUS
<1>2. PICK kept : kept = Kept(budget, places)
  OBVIOUS
<1>3. places \subseteq DOMAIN budget /\ IsFiniteSet(places) /\ places \subseteq Nat
  <2>1. places \subseteq DOMAIN budget /\ IsFiniteSet(places)
    BY <1>1, DuesType
  <2>2. DOMAIN budget \subseteq Nat
    OBVIOUS
  <2> QED BY <2>1, <2>2
<1>4. kept \in Seq(Charges) /\ DOMAIN kept = 1 .. Cardinality(places)
  BY <1>2, <1>3, KeptType
<1>5. PICK rank \in [places -> 1 .. Cardinality(places)] :
              /\ \A p, q \in places : rank[p] = rank[q] => p = q
              /\ \A p \in places : kept[rank[p]] = budget[p]
  BY <1>2, <1>3, KeptPlaces
<1>6. PICK S : S = Dues(budget, t)
  OBVIOUS
<1>7. PICK R : R = Dues(kept, t)
  OBVIOUS
<1>8. S \subseteq places /\ S \subseteq DOMAIN budget
  <2>1. \A i \in DOMAIN budget : budget[i] \in Charges
    OBVIOUS
  <2>2. \A i \in DOMAIN budget : budget[i].at \in Nat
    BY <2>1 DEF Charges
  <2> QED BY <1>1, <1>6, <2>2 DEF Dues
<1>9. \A p \in S : rank[p] \in R /\ rank[p] \in DOMAIN kept
  BY <1>4, <1>5, <1>6, <1>7, <1>8 DEF Dues
<1>10. PICK f : f = [p \in S |-> rank[p]]
  OBVIOUS
<1>11. f \in [S -> R] /\ \A p, q \in S : f[p] = f[q] => p = q
  BY <1>5, <1>8, <1>9, <1>10
<1>12. PICK F : F = Units(budget)
  OBVIOUS
<1>13. PICK G : G = Units(kept)
  OBVIOUS
<1>14. IsFiniteSet(S) /\ \A p \in S : F[p] = budget[p].units /\ F[p] \in Nat
  BY <1>6, <1>8, <1>12, DuesType
<1>15. IsFiniteSet(R) /\ (\A n \in R : n \in DOMAIN kept) /\ \A n \in DOMAIN kept : G[n] = kept[n].units /\ G[n] \in Nat
  BY <1>4, <1>7, <1>13, DuesType
<1>16. \A p \in S : F[p] <= G[f[p]]
  BY <1>5, <1>8, <1>9, <1>10, <1>14, <1>15
<1>17. Sum(F, S) <= Sum(G, R)
  BY <1>11, <1>14, <1>15, <1>16, SumLe
<1> QED BY <1>1, <1>2, <1>6, <1>7, <1>12, <1>13, <1>17

\* One event more, and one charge more.
LEMMA AppendMarks ==
    ASSUME NEW bucket \in Seq(Nat), NEW at \in Nat, NEW t \in Int
    PROVE  /\ Append(bucket, at) \in Seq(Nat)
           /\ Cardinality(Marks(Append(bucket, at), t)) =
                 Cardinality(Marks(bucket, t)) + IF at >= t THEN 1 ELSE 0
<1>0. Append(bucket, at) \in Seq(Nat)
  OBVIOUS
<1>1. PICK b \in Seq(Nat) : b = Append(bucket, at)
  BY <1>0
<1>2. /\ DOMAIN bucket = 1 .. Len(bucket) /\ DOMAIN b = 1 .. (Len(bucket) + 1)
      /\ (\A i \in 1 .. Len(bucket) : b[i] = bucket[i]) /\ b[Len(bucket) + 1] = at
  BY <1>1
<1>3. IsFiniteSet(Marks(bucket, t)) /\ Cardinality(Marks(bucket, t)) \in Nat
  BY MarksType
<1>4. Len(bucket) \in Nat /\ Len(bucket) + 1 \notin 1 .. Len(bucket)
  OBVIOUS
<1>5. CASE at >= t
  <2>1. Marks(b, t) = Marks(bucket, t) \cup {Len(bucket) + 1}
    BY <1>2, <1>4, <1>5 DEF Marks
  <2>2. Len(bucket) + 1 \notin Marks(bucket, t)
    BY <1>2, <1>4 DEF Marks
  <2>3. Cardinality(Marks(b, t)) = Cardinality(Marks(bucket, t)) + 1
    BY <1>3, <2>1, <2>2, FS_AddElement
  <2> QED BY <1>1, <1>5, <2>3
<1>6. CASE ~(at >= t)
  <2>1. Marks(b, t) = Marks(bucket, t)
    BY <1>2, <1>4, <1>6 DEF Marks
  <2> QED BY <1>1, <1>3, <1>6, <2>1
<1> QED BY <1>5, <1>6

LEMMA AppendDues ==
    ASSUME NEW budget \in Seq(Charges), NEW e \in Charges, NEW t \in Int
    PROVE  /\ Append(budget, e) \in Seq(Charges)
           /\ Sum(Units(Append(budget, e)), Dues(Append(budget, e), t)) =
                 Sum(Units(budget), Dues(budget, t)) + IF e.at >= t THEN e.units ELSE 0
<1>0. Append(budget, e) \in Seq(Charges)
  OBVIOUS
<1>1. PICK b \in Seq(Charges) : b = Append(budget, e)
  BY <1>0
<1>2. PICK n \in Nat : n = Len(budget)
  OBVIOUS
<1>3. /\ DOMAIN budget = 1 .. n /\ DOMAIN b = 1 .. (n + 1)
      /\ (\A i \in 1 .. n : b[i] = budget[i]) /\ b[n + 1] = e /\ n + 1 \notin 1 .. n
  BY <1>1, <1>2
<1>4. PICK S : S = Dues(budget, t)
  OBVIOUS
<1>5. PICK F : F = Units(budget)
  OBVIOUS
<1>6. PICK G : G = Units(b)
  OBVIOUS
<1>7. IsFiniteSet(S) /\ S \subseteq 1 .. n /\ Sum(F, S) \in Nat
  BY <1>3, <1>4, <1>5, DuesType
<1>8. \A i \in 1 .. n : F[i] = budget[i].units /\ F[i] \in Nat
  BY <1>3, <1>5, DuesType
<1>9. \A i \in 1 .. (n + 1) : G[i] = b[i].units /\ G[i] \in Nat
  BY <1>3, <1>6, DuesType
<1>10. \A i \in S : G[i] = F[i] /\ G[i] \in Nat
  BY <1>3, <1>7, <1>8, <1>9
<1>11. Sum(G, S) = Sum(F, S)
  BY <1>7, <1>10, SumSame
<1>12. CASE e.at >= t
  <2>1. Dues(b, t) = S \cup {n + 1}
    <3>1. \A i \in 1 .. n : i \in Dues(b, t) <=> i \in S
      BY <1>3, <1>4 DEF Dues
    <3>2. n + 1 \in Dues(b, t)
      BY <1>3, <1>12 DEF Dues
    <3>3. Dues(b, t) \subseteq 1 .. (n + 1) /\ S \subseteq 1 .. n
      BY <1>3, <1>7 DEF Dues
    <3>4. 1 .. (n + 1) = (1 .. n) \cup {n + 1}
      OBVIOUS
    <3> QED BY <3>1, <3>2, <3>3, <3>4
  <2>2. n + 1 \notin S /\ G[n + 1] = e.units /\ \A i \in S \cup {n + 1} : G[i] \in Nat
    <3>1. n + 1 \notin S
      BY <1>3, <1>7
    <3>2. n + 1 \in 1 .. (n + 1)
      OBVIOUS
    <3>3. G[n + 1] = e.units /\ G[n + 1] \in Nat
      BY <1>3, <1>9, <3>2
    <3> QED BY <1>10, <3>1, <3>3
  <2>3. Sum(G, S \cup {n + 1}) = G[n + 1] + Sum(G, S)
    BY <1>7, <2>2, SumAdd
  <2>4. e.units \in Nat
    BY DEF Charges
  <2> QED BY <1>1, <1>4, <1>5, <1>6, <1>7, <1>11, <1>12, <2>1, <2>2, <2>3, <2>4
<1>13. CASE ~(e.at >= t)
  <2>1. Dues(b, t) = S
    BY <1>3, <1>4, <1>13 DEF Dues
  <2> QED BY <1>1, <1>4, <1>5, <1>6, <1>7, <1>11, <1>13, <2>1
<1> QED BY <1>12, <1>13

-----------------------------------------------------------------------------
(* The induction.                                                          *)

Passes ==
    [keys : SUBSET Keys, payer : Sessions \cup {None}, units : Nat, at : Nat,
     shield : BOOLEAN, factor : Nat \cup {None}]
Scalings == [factor : Nat, until : Nat] \cup {None}

FloodTyped ==
    /\ setup \in Setups /\ now \in Nat
    /\ buckets \in [Keys -> Seq(Nat)]
    /\ budgets \in [Sessions -> Seq(Charges)]
    /\ overrides \in [Sessions -> Scalings]
    /\ shieldUntil \in Nat
    /\ served \in Seq(Passes)

\* The rows from a time on that passed a bucket, and that a session paid for.
Through(list, k, t) == {j \in DOMAIN list : k \in list[j].keys /\ list[j].at >= t}
PaidFor(list, s, t) == {j \in DOMAIN list : list[j].payer = s /\ list[j].at >= t}

\* What was let through since a time that is still in the window is in the bucket,
\* and its cost is on the budget.
Counted ==
    /\ \A k \in Keys, t \in Int : t >= Since(Window) =>
            Cardinality(Through(served, k, t)) <= Cardinality(Marks(buckets[k], t))
    /\ \A s \in Sessions, t \in Int : t >= Since(Hour) =>
            Sum(Units(served), PaidFor(served, s, t)) <= Sum(Units(budgets[s]), Dues(budgets[s], t))

\* BudgetHolds, with the sum as a sum over a function.
HourHolds ==
    \A i \in DOMAIN served : served[i].payer # None =>
        Sum(Units(served), {j \in Before(i, Hour) : served[j].payer = served[i].payer})
            <= Ceiling(served[i], "budget")

FloodInv == FloodTyped /\ Counted /\ RateHolds /\ HourHolds

\* What a step may do to the windows.
BucketAfter(b, k) == b \in {buckets[k], Fresh(k), Append(Fresh(k), now)}
BudgetAfter(b, s) ==
    \/ b \in {budgets[s], Charged(s)}
    \/ \E e \in Charges : b = Append(Charged(s), e)
Moves ==
    /\ setup' = setup /\ overrides' \in [Sessions -> Scalings] /\ shieldUntil' \in Nat
    /\ DOMAIN buckets' = Keys /\ buckets' = [k \in Keys |-> buckets'[k]]
    /\ \A k \in Keys : BucketAfter(buckets'[k], k)
    /\ DOMAIN budgets' = Sessions /\ budgets' = [s \in Sessions |-> budgets'[s]]
    /\ \A s \in Sessions : BudgetAfter(budgets'[s], s)

LEMMA WindowFacts ==
    ASSUME FloodTyped
    PROVE  /\ Window \in Nat \ {0} /\ Hour \in Nat \ {0} /\ now \in Nat
           /\ Since(Window) \in Int /\ Since(Hour) \in Int
           /\ Since(Window) <= now /\ Since(Hour) <= now
BY FloodAssumption DEF FloodTyped, Since

LEMMA FreshFacts ==
    ASSUME FloodTyped, NEW k \in Keys
    PROVE  /\ Fresh(k) = Kept(buckets[k], Marks(buckets[k], Since(Window)))
           /\ buckets[k] \in Seq(Nat) /\ Fresh(k) \in Seq(Nat)
           /\ Len(Fresh(k)) = Cardinality(Marks(buckets[k], Since(Window)))
           /\ \A n \in DOMAIN Fresh(k) :
                 \E i \in Marks(buckets[k], Since(Window)) : Fresh(k)[n] = buckets[k][i]
<1>1. buckets[k] \in Seq(Nat)
  BY DEF FloodTyped
<1>2. {i \in DOMAIN buckets[k] : buckets[k][i] + Window > now} = Marks(buckets[k], Since(Window))
  <2>1. \A i \in DOMAIN buckets[k] : buckets[k][i] \in Nat
    BY <1>1
  <2>2. Window \in Int /\ now \in Int
    BY WindowFacts
  <2>3. \A x \in Nat : x + Window > now <=> x >= now - Window + 1
    BY <2>2
  <2> QED BY <2>1, <2>3 DEF Marks, Since
<1>3. Marks(buckets[k], Since(Window)) \subseteq DOMAIN buckets[k]
  BY DEF Marks
<1>4. Fresh(k) = Kept(buckets[k], Marks(buckets[k], Since(Window)))
  BY <1>2 DEF Fresh
<1> QED BY <1>1, <1>3, <1>4, KeptType

LEMMA ChargedFacts ==
    ASSUME FloodTyped, NEW s \in Sessions
    PROVE  /\ Charged(s) = Kept(budgets[s], Dues(budgets[s], Since(Hour)))
           /\ budgets[s] \in Seq(Charges) /\ Charged(s) \in Seq(Charges)
           /\ \A n \in DOMAIN Charged(s) : Charged(s)[n].at >= Since(Hour)
<1>1. budgets[s] \in Seq(Charges)
  BY DEF FloodTyped
<1>2. {i \in DOMAIN budgets[s] : budgets[s][i].at + Hour > now} = Dues(budgets[s], Since(Hour))
  <2>1. \A i \in DOMAIN budgets[s] : budgets[s][i] \in Charges
    BY <1>1
  <2>2. \A i \in DOMAIN budgets[s] : budgets[s][i].at \in Nat
    BY <2>1 DEF Charges
  <2>3. Hour \in Int /\ now \in Int
    BY WindowFacts
  <2>4. \A x \in Nat : x + Hour > now <=> x >= now - Hour + 1
    BY <2>3
  <2> QED BY <2>2, <2>4 DEF Dues, Since
<1>3. Dues(budgets[s], Since(Hour)) \subseteq DOMAIN budgets[s]
  BY DEF Dues
<1>4. Charged(s) = Kept(budgets[s], Dues(budgets[s], Since(Hour)))
  BY <1>2 DEF Charged
<1>5. \A n \in DOMAIN Charged(s) : \E i \in Dues(budgets[s], Since(Hour)) : Charged(s)[n] = budgets[s][i]
  BY <1>1, <1>3, <1>4, KeptType
<1>6. \A i \in Dues(budgets[s], Since(Hour)) : budgets[s][i].at >= Since(Hour)
  BY DEF Dues
<1> QED BY <1>1, <1>3, <1>4, <1>5, <1>6, KeptType

\* No step takes from a bucket or a budget what its window still holds.
LEMMA BucketKeeps ==
    ASSUME FloodTyped, NEW k \in Keys, NEW b, BucketAfter(b, k)
    PROVE  /\ b \in Seq(Nat)
           /\ \A t \in Int : t >= Since(Window) =>
                 /\ Cardinality(Marks(buckets[k], t)) \in Nat /\ Cardinality(Marks(b, t)) \in Nat
                 /\ Cardinality(Marks(buckets[k], t)) <= Cardinality(Marks(b, t))
                 /\ b = Append(Fresh(k), now) /\ t <= now =>
                       Cardinality(Marks(buckets[k], t)) + 1 <= Cardinality(Marks(b, t))
<1>1. buckets[k] \in Seq(Nat) /\ Fresh(k) \in Seq(Nat) /\ now \in Nat /\ Since(Window) \in Int
  BY FreshFacts, WindowFacts
<1>2. PICK f : f = Fresh(k)
  OBVIOUS
<1>3. \A t \in Int : t >= Since(Window) => Cardinality(Marks(buckets[k], t)) <= Cardinality(Marks(f, t))
  BY <1>1, <1>2, FreshFacts, KeptMarks
<1>4. f \in Seq(Nat) /\ b \in {buckets[k], f, Append(f, now)}
  BY <1>1, <1>2 DEF BucketAfter
<1>5. CASE b = Append(f, now)
  <2>1. b \in Seq(Nat)
    BY <1>1, <1>4, <1>5
  <2>2. ASSUME NEW t \in Int, t >= Since(Window)
        PROVE  /\ Cardinality(Marks(buckets[k], t)) \in Nat /\ Cardinality(Marks(b, t)) \in Nat
               /\ Cardinality(Marks(buckets[k], t)) <= Cardinality(Marks(b, t))
               /\ t <= now => Cardinality(Marks(buckets[k], t)) + 1 <= Cardinality(Marks(b, t))
    <3>1. Cardinality(Marks(b, t)) = Cardinality(Marks(f, t)) + IF now >= t THEN 1 ELSE 0
      BY <1>1, <1>4, <1>5, AppendMarks
    <3>2. Cardinality(Marks(buckets[k], t)) \in Nat /\ Cardinality(Marks(f, t)) \in Nat
      BY <1>1, <1>4, MarksType
    <3> QED BY <1>1, <1>3, <2>2, <3>1, <3>2
  <2> QED BY <2>1, <2>2
<1>6. CASE b # Append(f, now)
  <2>1. b \in Seq(Nat) /\ b \in {buckets[k], f}
    BY <1>1, <1>4, <1>6
  <2>2. ASSUME NEW t \in Int, t >= Since(Window)
        PROVE  /\ Cardinality(Marks(buckets[k], t)) \in Nat /\ Cardinality(Marks(b, t)) \in Nat
               /\ Cardinality(Marks(buckets[k], t)) <= Cardinality(Marks(b, t))
    <3>1. Cardinality(Marks(buckets[k], t)) \in Nat /\ Cardinality(Marks(b, t)) \in Nat
      BY <1>1, <2>1, MarksType
    <3> QED BY <1>3, <2>1, <2>2, <3>1
  <2> QED BY <1>2, <1>6, <2>1, <2>2
<1> QED BY <1>5, <1>6

LEMMA BudgetKeeps ==
    ASSUME FloodTyped, NEW s \in Sessions, NEW b, BudgetAfter(b, s)
    PROVE  /\ b \in Seq(Charges)
           /\ \A t \in Int : t >= Since(Hour) =>
                 /\ Sum(Units(budgets[s]), Dues(budgets[s], t)) \in Nat /\ Sum(Units(b), Dues(b, t)) \in Nat
                 /\ Sum(Units(budgets[s]), Dues(budgets[s], t)) <= Sum(Units(b), Dues(b, t))
                 /\ \A e \in Charges : b = Append(Charged(s), e) /\ t <= e.at =>
                       Sum(Units(budgets[s]), Dues(budgets[s], t)) + e.units <= Sum(Units(b), Dues(b, t))
<1>1. budgets[s] \in Seq(Charges) /\ Charged(s) \in Seq(Charges) /\ now \in Nat /\ Since(Hour) \in Int
  BY ChargedFacts, WindowFacts
<1>2. PICK f : f = Charged(s)
  OBVIOUS
<1>3. \A t \in Int : t >= Since(Hour) => Sum(Units(budgets[s]), Dues(budgets[s], t)) <= Sum(Units(f), Dues(f, t))
  BY <1>1, <1>2, ChargedFacts, KeptDues
<1>4. f \in Seq(Charges) /\ (b \in {budgets[s], f} \/ \E e \in Charges : b = Append(f, e))
  BY <1>1, <1>2 DEF BudgetAfter
<1>5. ASSUME NEW e \in Charges, b = Append(f, e)
      PROVE  /\ b \in Seq(Charges)
             /\ \A t \in Int : t >= Since(Hour) =>
                 /\ Sum(Units(budgets[s]), Dues(budgets[s], t)) \in Nat /\ Sum(Units(b), Dues(b, t)) \in Nat
                 /\ Sum(Units(budgets[s]), Dues(budgets[s], t)) <= Sum(Units(b), Dues(b, t))
                 /\ t <= e.at => Sum(Units(budgets[s]), Dues(budgets[s], t)) + e.units <= Sum(Units(b), Dues(b, t))
  <2>1. b \in Seq(Charges) /\ e.at \in Nat /\ e.units \in Nat
    BY <1>4, <1>5 DEF Charges
  <2>2. ASSUME NEW t \in Int, t >= Since(Hour)
        PROVE  /\ Sum(Units(budgets[s]), Dues(budgets[s], t)) \in Nat /\ Sum(Units(b), Dues(b, t)) \in Nat
               /\ Sum(Units(budgets[s]), Dues(budgets[s], t)) <= Sum(Units(b), Dues(b, t))
               /\ t <= e.at => Sum(Units(budgets[s]), Dues(budgets[s], t)) + e.units <= Sum(Units(b), Dues(b, t))
    <3>1. Sum(Units(b), Dues(b, t)) = Sum(Units(f), Dues(f, t)) + IF e.at >= t THEN e.units ELSE 0
      BY <1>4, <1>5, AppendDues
    <3>2. Sum(Units(budgets[s]), Dues(budgets[s], t)) \in Nat /\ Sum(Units(f), Dues(f, t)) \in Nat
      BY <1>1, <1>4, DuesType
    <3>3. Sum(Units(budgets[s]), Dues(budgets[s], t)) <= Sum(Units(f), Dues(f, t))
      BY <1>3, <2>2
    <3> QED BY <2>1, <3>1, <3>2, <3>3
  <2> QED BY <2>1, <2>2
<1>6. CASE \A e \in Charges : b # Append(f, e)
  <2>1. b \in Seq(Charges) /\ b \in {budgets[s], f}
    BY <1>1, <1>4, <1>6
  <2>2. ASSUME NEW t \in Int, t >= Since(Hour)
        PROVE  /\ Sum(Units(budgets[s]), Dues(budgets[s], t)) \in Nat /\ Sum(Units(b), Dues(b, t)) \in Nat
               /\ Sum(Units(budgets[s]), Dues(budgets[s], t)) <= Sum(Units(b), Dues(b, t))
    <3>1. Sum(Units(budgets[s]), Dues(budgets[s], t)) \in Nat /\ Sum(Units(b), Dues(b, t)) \in Nat
      BY <1>1, <2>1, DuesType
    <3> QED BY <1>3, <2>1, <2>2, <3>1
  <2> QED BY <1>2, <1>6, <2>1, <2>2
<1>7. CASE \E e \in Charges : b = Append(f, e)
  BY <1>2, <1>5, <1>7
<1> QED BY <1>6, <1>7

-----------------------------------------------------------------------------
(* Limits.                                                                 *)

LEMMA ScaledType ==
    ASSUME NEW b \in Nat, NEW f \in Nat
    PROVE  Scaled(b, f) \in Nat \ {0}
<1>1. PICK x \in Nat : x = b * f
  OBVIOUS
<1>2. (x + 50) \div 100 \in Nat
  OBVIOUS
<1>3. Scaled(b, f) = Largest(1, (x + 50) \div 100)
  BY <1>1 DEF Scaled
<1> QED BY <1>2, <1>3 DEF Largest

LEMMA CeilingType ==
    ASSUME NEW row \in Passes, NEW name \in LimitNames
    PROVE  Ceiling(row, name) \in Nat \ {0}
<1>1. Limits[name] \in Nat \ {0} /\ ShieldFactor[name] \in Nat
  BY FloodAssumption
<1>2. PICK base : base = IF row.shield THEN Scaled(Limits[name], ShieldFactor[name]) ELSE Limits[name]
  OBVIOUS
<1>3. base \in Nat \ {0}
  BY <1>1, <1>2, ScaledType
<1>4. row.factor \in Nat \cup {None}
  BY DEF Passes
<1>5. Ceiling(row, name) = IF row.factor = None THEN base ELSE Scaled(base, row.factor)
  BY <1>2 DEF Ceiling
<1> QED BY <1>3, <1>4, <1>5, ScaledType

LEMMA LimitType ==
    ASSUME FloodTyped, NEW name \in LimitNames
    PROVE  /\ Limit(name) \in Nat \ {0}
           /\ \A s \in Sessions : SessionLimit(s, name) \in Nat \ {0}
<1>1. Limits[name] \in Nat \ {0} /\ ShieldFactor[name] \in Nat
  BY FloodAssumption
<1>2. Limit(name) \in Nat \ {0}
  BY <1>1, ScaledType DEF Limit
<1>3. ASSUME NEW s \in Sessions PROVE SessionLimit(s, name) \in Nat \ {0}
  <2>1. Standing[s] \in Scalings
    BY DEF FloodTyped, Standing, Scalings
  <2>2. CASE Standing[s] = None
    BY <1>2, <2>2 DEF SessionLimit
  <2>3. CASE Standing[s] # None
    <3>1. Standing[s].factor \in Nat
      BY <2>1, <2>3 DEF Scalings
    <3>2. SessionLimit(s, name) = Scaled(Limit(name), Standing[s].factor)
      BY <2>3 DEF SessionLimit
    <3> QED BY <1>2, <3>1, <3>2, ScaledType
  <2> QED BY <2>2, <2>3
<1> QED BY <1>2, <1>3

\* A row carries the mode it was let through in: its ceiling is the limit in force.
LEMMA RowFacts ==
    ASSUME FloodTyped, NEW keys \in SUBSET Keys, NEW payer \in Sessions \cup {None}, NEW units \in Nat
    PROVE  /\ Row(keys, payer, units) \in Passes
           /\ Row(keys, payer, units).keys = keys /\ Row(keys, payer, units).payer = payer
           /\ Row(keys, payer, units).units = units /\ Row(keys, payer, units).at = now
           /\ \A name \in LimitNames :
                 Ceiling(Row(keys, payer, units), name) =
                    IF payer = None THEN Limit(name) ELSE SessionLimit(payer, name)
<1>1. PICK row : row = Row(keys, payer, units)
  OBVIOUS
<1>2. PICK mark : mark = IF payer = None \/ overrides[payer] = None THEN None
                         ELSE IF now < overrides[payer].until THEN overrides[payer].factor ELSE None
  OBVIOUS
<1>3. row = [keys |-> keys, payer |-> payer, units |-> units, at |-> now,
             shield |-> now < shieldUntil, factor |-> mark]
  BY <1>1, <1>2 DEF Row
<1>4. now \in Nat /\ shieldUntil \in Nat /\ None \notin Sessions /\ None \notin Nat
  BY FloodAssumption DEF FloodTyped
<1>5. payer # None => overrides[payer] \in Scalings
  BY <1>4 DEF FloodTyped
<1>6. mark \in Nat \cup {None}
  BY <1>2, <1>5 DEF Scalings
<1>7. row \in Passes
  BY <1>3, <1>4, <1>6 DEF Passes
<1>8. ASSUME NEW name \in LimitNames
      PROVE  Ceiling(row, name) = IF payer = None THEN Limit(name) ELSE SessionLimit(payer, name)
  <2>1. Ceiling(row, name) = IF mark = None THEN Limit(name) ELSE Scaled(Limit(name), mark)
    <3>1. Shielded = row.shield
      BY <1>3, <1>4 DEF Shielded
    <3> QED BY <1>3, <3>1 DEF Ceiling, Limit
  <2>2. CASE payer = None
    BY <1>2, <2>1, <2>2
  <2>3. CASE payer # None
    <3>1. payer \in Sessions /\ overrides[payer] \in Scalings
      BY <1>5, <2>3
    <3>2. Standing[payer] = IF overrides[payer] # None /\ overrides[payer].until <= now
                            THEN None ELSE overrides[payer]
      BY <3>1 DEF Standing
    <3>3. CASE overrides[payer] = None
      BY <1>2, <2>1, <2>3, <3>2, <3>3 DEF SessionLimit
    <3>4. CASE overrides[payer] # None
      <4>1. overrides[payer].until \in Nat /\ overrides[payer].factor \in Nat
        BY <3>1, <3>4 DEF Scalings
      <4>2. CASE now < overrides[payer].until
        <5>1. mark = overrides[payer].factor /\ mark # None
          BY <1>2, <1>4, <2>3, <3>4, <4>1, <4>2
        <5>2. ~(overrides[payer].until <= now)
          BY <1>4, <4>1, <4>2
        <5>3. Standing[payer] = overrides[payer]
          BY <3>2, <5>2
        <5> QED BY <2>1, <2>3, <3>4, <5>1, <5>3 DEF SessionLimit
      <4>3. CASE ~(now < overrides[payer].until)
        <5>1. mark = None
          BY <1>2, <2>3, <3>4, <4>3
        <5>2. overrides[payer].until <= now
          BY <1>4, <4>1, <4>3
        <5>3. Standing[payer] = None
          BY <3>2, <3>4, <5>2
        <5> QED BY <2>1, <2>3, <5>1, <5>3 DEF SessionLimit
      <4> QED BY <4>2, <4>3
    <3> QED BY <3>3, <3>4
  <2> QED BY <2>2, <2>3
<1> QED BY <1>1, <1>3, <1>7, <1>8

-----------------------------------------------------------------------------
(* One row more.                                                           *)

LEMMA PassFacts ==
    ASSUME NEW list \in Seq(Passes)
    PROVE  /\ \A j \in DOMAIN list : list[j].at \in Nat /\ list[j].units \in Nat /\ list[j] \in Passes
           /\ \A j \in DOMAIN list : Units(list)[j] = list[j].units
           /\ IsFiniteSet(DOMAIN list)
<1>1. \A j \in DOMAIN list : list[j] \in Passes
  OBVIOUS
<1>2. IsFiniteSet(1 .. Len(list)) /\ DOMAIN list = 1 .. Len(list)
  BY FS_Interval
<1> QED BY <1>1, <1>2 DEF Passes, Units

LEMMA ThroughType ==
    ASSUME NEW list \in Seq(Passes), NEW k, NEW t \in Int
    PROVE  IsFiniteSet(Through(list, k, t)) /\ Cardinality(Through(list, k, t)) \in Nat
<1>1. Through(list, k, t) \subseteq DOMAIN list
  BY DEF Through
<1> QED BY <1>1, PassFacts, FS_Subset, FS_CardinalityType

LEMMA PaidType ==
    ASSUME NEW list \in Seq(Passes), NEW s, NEW t \in Int
    PROVE  /\ IsFiniteSet(PaidFor(list, s, t)) /\ PaidFor(list, s, t) \subseteq DOMAIN list
           /\ Sum(Units(list), PaidFor(list, s, t)) \in Nat
<1>1. PaidFor(list, s, t) \subseteq DOMAIN list
  BY DEF PaidFor
<1>2. IsFiniteSet(PaidFor(list, s, t))
  BY <1>1, PassFacts, FS_Subset
<1>3. \A j \in PaidFor(list, s, t) : Units(list)[j] \in Nat
  BY <1>1, PassFacts
<1> QED BY <1>1, <1>2, <1>3, SumType

OneRowMore(more, list, row) ==
    /\ more \in Seq(Passes) /\ Len(list) \in Nat
    /\ DOMAIN list = 1 .. Len(list) /\ DOMAIN more = 1 .. (Len(list) + 1)
    /\ DOMAIN more = DOMAIN list \cup {Len(list) + 1} /\ Len(list) + 1 \notin DOMAIN list
    /\ more[Len(list) + 1] = row
    /\ \A j \in DOMAIN list : more[j] = list[j]

LEMMA AppendFacts ==
    ASSUME NEW list \in Seq(Passes), NEW row \in Passes
    PROVE  OneRowMore(Append(list, row), list, row)
BY DEF OneRowMore

LEMMA ThroughMore ==
    ASSUME NEW list \in Seq(Passes), NEW row \in Passes, NEW more, OneRowMore(more, list, row),
           NEW k, NEW t \in Int
    PROVE  Cardinality(Through(more, k, t)) =
              Cardinality(Through(list, k, t)) + IF k \in row.keys /\ row.at >= t THEN 1 ELSE 0
<1>0. /\ DOMAIN list = 1 .. Len(list) /\ DOMAIN more = 1 .. (Len(list) + 1) /\ more \in Seq(Passes)
      /\ DOMAIN more = DOMAIN list \cup {Len(list) + 1} /\ Len(list) + 1 \notin DOMAIN list
      /\ more[Len(list) + 1] = row /\ Len(list) \in Nat
      /\ \A j \in DOMAIN list : more[j] = list[j]
  BY DEF OneRowMore
<1>1. PICK n : n = Len(list) + 1
  OBVIOUS
<1>2. /\ DOMAIN more = DOMAIN list \cup {n} /\ n \notin DOMAIN list /\ more[n] = row
      /\ \A j \in DOMAIN list : more[j] = list[j]
  BY <1>0, <1>1
<1>3. IsFiniteSet(Through(list, k, t)) /\ Cardinality(Through(list, k, t)) \in Nat
  BY ThroughType
<1>4. n \notin Through(list, k, t)
  BY <1>2 DEF Through
<1>5. CASE k \in row.keys /\ row.at >= t
  <2>1. Through(more, k, t) = Through(list, k, t) \cup {n}
    BY <1>2, <1>5 DEF Through
  <2> QED BY <1>3, <1>4, <1>5, <2>1, FS_AddElement
<1>6. CASE ~(k \in row.keys /\ row.at >= t)
  <2>1. Through(more, k, t) = Through(list, k, t)
    BY <1>2, <1>6 DEF Through
  <2> QED BY <1>3, <1>6, <2>1
<1> QED BY <1>5, <1>6

LEMMA PaidMore ==
    ASSUME NEW list \in Seq(Passes), NEW row \in Passes, NEW more, OneRowMore(more, list, row),
           NEW s, NEW t \in Int
    PROVE  Sum(Units(more), PaidFor(more, s, t)) =
              Sum(Units(list), PaidFor(list, s, t)) + IF row.payer = s /\ row.at >= t THEN row.units ELSE 0
<1>0. /\ DOMAIN list = 1 .. Len(list) /\ DOMAIN more = 1 .. (Len(list) + 1) /\ more \in Seq(Passes)
      /\ DOMAIN more = DOMAIN list \cup {Len(list) + 1} /\ Len(list) + 1 \notin DOMAIN list
      /\ more[Len(list) + 1] = row /\ Len(list) \in Nat
      /\ \A j \in DOMAIN list : more[j] = list[j]
  BY DEF OneRowMore
<1>1. PICK n : n = Len(list) + 1
  OBVIOUS
<1>2. /\ DOMAIN more = DOMAIN list \cup {n} /\ n \notin DOMAIN list /\ more[n] = row
      /\ (\A j \in DOMAIN list : more[j] = list[j]) /\ more \in Seq(Passes)
  BY <1>0, <1>1
<1>3. PICK S : S = PaidFor(list, s, t)
  OBVIOUS
<1>4. PICK F : F = Units(list)
  OBVIOUS
<1>5. PICK G : G = Units(more)
  OBVIOUS
<1>6. IsFiniteSet(S) /\ S \subseteq DOMAIN list /\ Sum(F, S) \in Nat
  BY <1>3, <1>4, PaidType
<1>7. \A j \in DOMAIN list : F[j] = list[j].units /\ F[j] \in Nat
  BY <1>4, PassFacts
<1>8. \A j \in DOMAIN more : G[j] = more[j].units /\ G[j] \in Nat
  BY <1>2, <1>5, PassFacts
<1>9. \A j \in S : G[j] = F[j] /\ F[j] \in Nat /\ G[j] \in Nat
  BY <1>2, <1>6, <1>7, <1>8
<1>10. Sum(G, S) = Sum(F, S)
  BY <1>6, <1>9, SumSame
<1>11. CASE row.payer = s /\ row.at >= t
  <2>1. PaidFor(more, s, t) = S \cup {n}
    BY <1>2, <1>3, <1>11 DEF PaidFor
  <2>2. n \notin S /\ G[n] = row.units /\ G[n] \in Nat
    BY <1>2, <1>6, <1>8
  <2>3. Sum(G, S \cup {n}) = G[n] + Sum(G, S)
    BY <1>6, <1>9, <2>2, SumAdd
  <2> QED BY <1>3, <1>4, <1>5, <1>6, <1>10, <1>11, <2>1, <2>2, <2>3
<1>12. CASE ~(row.payer = s /\ row.at >= t)
  <2>1. PaidFor(more, s, t) = S
    BY <1>2, <1>3, <1>12 DEF PaidFor
  <2> QED BY <1>3, <1>4, <1>5, <1>6, <1>10, <1>12, <2>1
<1> QED BY <1>11, <1>12

-----------------------------------------------------------------------------
(* The limits' promise, kept by every kind of step.                        *)

\* How the community module adds up is how Sum does.
LEMMA UnitsAddUp ==
    ASSUME NEW list, NEW S, IsFiniteSet(S), S \subseteq DOMAIN list, \A i \in S : list[i].units \in Nat,
           NEW g, g = CHOOSE h : h = [r \in SUBSET S |-> IF r = {} THEN 0 ELSE
                     LET x == CHOOSE y \in r : TRUE IN list[x].units + h[r \ {x}]]
    PROVE  g[S] = Sum(Units(list), S) /\ Sum(Units(list), S) \in Nat
<1>1. PICK F : F = Units(list)
  OBVIOUS
<1>2. \A i \in S : F[i] = list[i].units /\ F[i] \in Nat
  BY <1>1 DEF Units
<1>3. PICK h : AddsUp(h, F, S)
  BY <1>2, AddsUpExists
<1>4. \A r \in SUBSET S : r # {} => F[Chosen(r)] = list[Chosen(r)].units
  BY <1>2, ChosenIsIn
<1>5. h = [r \in SUBSET S |-> IF r = {} THEN 0 ELSE
              LET x == CHOOSE y \in r : TRUE IN list[x].units + h[r \ {x}]]
  BY SMTT(30), <1>3, <1>4 DEF AddsUp, Chosen
<1>6. \E k : k = [r \in SUBSET S |-> IF r = {} THEN 0 ELSE
              LET x == CHOOSE y \in r : TRUE IN list[x].units + k[r \ {x}]]
  BY <1>5
<1>7. PICK f : f = CHOOSE k : k = [r \in SUBSET S |-> IF r = {} THEN 0 ELSE
              LET x == CHOOSE y \in r : TRUE IN list[x].units + k[r \ {x}]]
  OBVIOUS
<1>8. AddsUp(f, F, S)
  <2>1. f = [r \in SUBSET S |-> IF r = {} THEN 0 ELSE
              LET x == CHOOSE y \in r : TRUE IN list[x].units + f[r \ {x}]]
    BY <1>6, <1>7
  <2> QED BY SMTT(30), <1>4, <2>1 DEF AddsUp, Chosen
<1>9. Sum(F, S) = f[S] /\ Sum(F, S) \in Nat
  BY ZenonT(60), <1>2, <1>8, SumOfPart, SumType
<1> QED BY <1>1, <1>7, <1>9

LEMMA UsedIsSum ==
    ASSUME FloodTyped, NEW s \in Sessions
    PROVE  /\ Used(s) \in Nat
           /\ Sum(Units(budgets[s]), Dues(budgets[s], Since(Hour))) <= Used(s)
<1>1. PICK f \in Seq(Charges) : f = Charged(s)
  BY ChargedFacts
<1>2. PICK S : S = DOMAIN f
  OBVIOUS
<1>3. Since(Hour) \in Int
  BY WindowFacts
<1>4. Dues(f, Since(Hour)) = S
  BY <1>1, <1>2, ChargedFacts DEF Dues
<1>5. IsFiniteSet(S) /\ \A i \in S : f[i].units \in Nat
  BY <1>2, <1>3, <1>4, DuesType
<1>6. PICK g : g = CHOOSE h : h = [r \in SUBSET S |-> IF r = {} THEN 0 ELSE
                     LET x == CHOOSE y \in r : TRUE IN f[x].units + h[r \ {x}]]
  OBVIOUS
<1>7. Used(s) = g[S]
  BY <1>1, <1>2, <1>6 DEF Used, MapThenSumSet, MapThenFoldSet
<1>8. g[S] = Sum(Units(f), S) /\ Sum(Units(f), S) \in Nat
  BY <1>2, <1>5, <1>6, UnitsAddUp
<1>9. Sum(Units(budgets[s]), Dues(budgets[s], Since(Hour))) <= Sum(Units(f), S)
  BY <1>1, <1>3, <1>4, ChargedFacts, KeptDues
<1> QED BY <1>7, <1>8, <1>9

LEMMA MovesTyped ==
    ASSUME FloodTyped, Moves, now' \in Nat, served' \in Seq(Passes)
    PROVE  FloodTyped'
<1>1. buckets' \in [Keys -> Seq(Nat)]
  <2>1. \A k \in Keys : buckets'[k] \in Seq(Nat)
    BY BucketKeeps DEF Moves
  <2> QED BY <2>1 DEF Moves
<1>2. budgets' \in [Sessions -> Seq(Charges)]
  <2>1. \A s \in Sessions : budgets'[s] \in Seq(Charges)
    BY BudgetKeeps DEF Moves
  <2> QED BY <2>1 DEF Moves
<1> QED BY <1>1, <1>2 DEF FloodTyped, Moves

\* Nothing is let through: a refusal, a tick, an order.
LEMMA Refuses ==
    ASSUME FloodInv, Moves, now' \in Nat, now' >= now, served' = served
    PROVE  FloodInv'
<1>1. FloodTyped /\ served \in Seq(Passes)
  BY DEF FloodInv, FloodTyped
<1>2. FloodTyped'
  BY <1>1, MovesTyped
<1>3. /\ Since(Window) \in Int /\ Since(Window)' \in Int /\ Since(Window)' >= Since(Window)
      /\ Since(Hour) \in Int /\ Since(Hour)' \in Int /\ Since(Hour)' >= Since(Hour)
  BY <1>1, WindowFacts DEF Since
<1>4. ASSUME NEW k \in Keys, NEW t \in Int, t >= Since(Window)'
      PROVE  Cardinality(Through(served, k, t)) <= Cardinality(Marks(buckets'[k], t))
  <2>1. t >= Since(Window)
    BY <1>3, <1>4
  <2>2. Cardinality(Through(served, k, t)) <= Cardinality(Marks(buckets[k], t))
    BY <2>1 DEF FloodInv, Counted
  <2>3. BucketAfter(buckets'[k], k)
    BY DEF Moves
  <2>4. /\ Cardinality(Marks(buckets[k], t)) \in Nat /\ Cardinality(Marks(buckets'[k], t)) \in Nat
        /\ Cardinality(Marks(buckets[k], t)) <= Cardinality(Marks(buckets'[k], t))
    BY <1>1, <2>1, <2>3, BucketKeeps
  <2> QED BY <1>1, <2>2, <2>4, ThroughType
<1>5. ASSUME NEW s \in Sessions, NEW t \in Int, t >= Since(Hour)'
      PROVE  Sum(Units(served), PaidFor(served, s, t)) <= Sum(Units(budgets'[s]), Dues(budgets'[s], t))
  <2>1. t >= Since(Hour)
    BY <1>3, <1>5
  <2>2. Sum(Units(served), PaidFor(served, s, t)) <= Sum(Units(budgets[s]), Dues(budgets[s], t))
    BY <2>1 DEF FloodInv, Counted
  <2>3. BudgetAfter(budgets'[s], s)
    BY DEF Moves
  <2>4. /\ Sum(Units(budgets[s]), Dues(budgets[s], t)) \in Nat
        /\ Sum(Units(budgets'[s]), Dues(budgets'[s], t)) \in Nat
        /\ Sum(Units(budgets[s]), Dues(budgets[s], t)) <= Sum(Units(budgets'[s]), Dues(budgets'[s], t))
    BY <1>1, <2>1, <2>3, BudgetKeeps
  <2> QED BY <1>1, <2>2, <2>4, PaidType
<1>6. Counted'
  BY <1>4, <1>5 DEF Counted
<1>7. RateHolds' /\ HourHolds'
  BY DEF FloodInv, RateHolds, HourHolds, Before
<1> QED BY <1>2, <1>6, <1>7 DEF FloodInv

\* The rows behind a row of a list, and the two promises of a list of rows.
RowsBefore(list, i, length) == {j \in 1 .. i : list[j].at + length > list[i].at}
RateOf(list) ==
    \A i \in DOMAIN list : \A k \in list[i].keys :
        Cardinality({j \in RowsBefore(list, i, Window) : k \in list[j].keys}) <= Ceiling(list[i], k[1])
HourOf(list) ==
    \A i \in DOMAIN list : list[i].payer # None =>
        Sum(Units(list), {j \in RowsBefore(list, i, Hour) : list[j].payer = list[i].payer})
            <= Ceiling(list[i], "budget")

\* A row more changes nothing for those before it, and looks back on what came since.
LEMMA RowsBeforeMore ==
    ASSUME NEW list \in Seq(Passes), NEW row \in Passes, NEW more, OneRowMore(more, list, row),
           NEW length \in Nat
    PROVE  /\ \A i \in DOMAIN list :
                 RowsBefore(more, i, length) = RowsBefore(list, i, length)
                 /\ RowsBefore(list, i, length) \subseteq DOMAIN list
           /\ RowsBefore(more, Len(list) + 1, length) =
                 {j \in DOMAIN more : more[j].at >= row.at - length + 1}
<1>0. /\ DOMAIN list = 1 .. Len(list) /\ DOMAIN more = 1 .. (Len(list) + 1) /\ more \in Seq(Passes)
      /\ DOMAIN more = DOMAIN list \cup {Len(list) + 1} /\ Len(list) + 1 \notin DOMAIN list
      /\ more[Len(list) + 1] = row /\ Len(list) \in Nat
      /\ \A j \in DOMAIN list : more[j] = list[j]
  BY DEF OneRowMore
<1>1. PICK n \in Nat : n = Len(list)
  BY <1>0
<1>2. /\ DOMAIN list = 1 .. n /\ DOMAIN more = 1 .. (n + 1) /\ more \in Seq(Passes)
      /\ more[n + 1] = row /\ \A j \in 1 .. n : more[j] = list[j]
  BY <1>0, <1>1
<1>3. ASSUME NEW i \in DOMAIN list
      PROVE  RowsBefore(more, i, length) = RowsBefore(list, i, length)
             /\ RowsBefore(list, i, length) \subseteq DOMAIN list
  <2>1. i \in 1 .. n /\ 1 .. i \subseteq 1 .. n
    BY <1>2
  <2>2. more[i] = list[i] /\ \A j \in 1 .. i : more[j] = list[j]
    BY <1>2, <2>1
  <2>3. RowsBefore(list, i, length) \subseteq 1 .. i
    BY DEF RowsBefore
  <2>4. RowsBefore(more, i, length) = RowsBefore(list, i, length)
    BY <2>2 DEF RowsBefore
  <2> QED BY <1>2, <2>1, <2>3, <2>4
<1>4. RowsBefore(more, n + 1, length) = {j \in DOMAIN more : more[j].at >= row.at - length + 1}
  <2>1. \A j \in DOMAIN more : more[j].at \in Nat
    BY <1>2, PassFacts
  <2>2. row.at \in Nat
    BY DEF Passes
  <2>3. \A x \in Nat : x + length > row.at <=> x >= row.at - length + 1
    BY <2>2
  <2> QED BY <1>2, <2>1, <2>3 DEF RowsBefore
<1> QED BY <1>1, <1>3, <1>4

LEMMA RateMore ==
    ASSUME NEW list \in Seq(Passes), NEW row \in Passes, NEW more, OneRowMore(more, list, row),
           RateOf(list), NEW t \in Int, t = row.at - Window + 1,
           \A k \in row.keys :
              k[1] \in LimitNames /\ Cardinality(Through(list, k, t)) + 1 <= Ceiling(row, k[1])
    PROVE  RateOf(more)
<1>0. /\ DOMAIN list = 1 .. Len(list) /\ DOMAIN more = 1 .. (Len(list) + 1) /\ more \in Seq(Passes)
      /\ DOMAIN more = DOMAIN list \cup {Len(list) + 1} /\ Len(list) + 1 \notin DOMAIN list
      /\ more[Len(list) + 1] = row /\ Len(list) \in Nat
      /\ \A j \in DOMAIN list : more[j] = list[j]
  BY DEF OneRowMore
<1>1. PICK n \in Nat : n = Len(list)
  BY <1>0
<1>2. /\ DOMAIN more = DOMAIN list \cup {n + 1} /\ more[n + 1] = row /\ Window \in Nat \ {0}
      /\ \A j \in DOMAIN list : more[j] = list[j]
  BY <1>0, <1>1, FloodAssumption
<1>3. row.at \in Nat
  BY DEF Passes
<1> SUFFICES ASSUME NEW i \in DOMAIN more, NEW k \in more[i].keys
             PROVE  Cardinality({j \in RowsBefore(more, i, Window) : k \in more[j].keys})
                       <= Ceiling(more[i], k[1])
  BY DEF RateOf
<1>4. CASE i \in DOMAIN list
  <2>1. RowsBefore(more, i, Window) = RowsBefore(list, i, Window)
        /\ RowsBefore(list, i, Window) \subseteq DOMAIN list
    BY <1>2, <1>4, RowsBeforeMore
  <2>2. more[i] = list[i] /\ {j \in RowsBefore(more, i, Window) : k \in more[j].keys}
                                = {j \in RowsBefore(list, i, Window) : k \in list[j].keys}
    BY <1>2, <1>4, <2>1
  <2> QED BY <1>4, <2>2 DEF RateOf
<1>5. CASE i = n + 1
  <2>1. RowsBefore(more, i, Window) = {j \in DOMAIN more : more[j].at >= t}
    BY <1>1, <1>2, <1>5, RowsBeforeMore
  <2>2. {j \in RowsBefore(more, i, Window) : k \in more[j].keys} = Through(more, k, t)
    BY <2>1 DEF Through
  <2>3. more[i] = row /\ k \in row.keys
    BY <1>2, <1>5
  <2>4. row.at >= t
    BY <1>2, <1>3
  <2>5. Cardinality(Through(more, k, t)) =
           Cardinality(Through(list, k, t)) + IF k \in row.keys /\ row.at >= t THEN 1 ELSE 0
    BY ThroughMore
  <2>6. Cardinality(Through(more, k, t)) = Cardinality(Through(list, k, t)) + 1
    BY <2>3, <2>4, <2>5
  <2> QED BY <2>2, <2>3, <2>6
<1> QED BY <1>2, <1>4, <1>5

LEMMA HourMore ==
    ASSUME NEW list \in Seq(Passes), NEW row \in Passes, NEW more, OneRowMore(more, list, row),
           HourOf(list), NEW t \in Int, t = row.at - Hour + 1,
           row.payer # None =>
              Sum(Units(list), PaidFor(list, row.payer, t)) + row.units <= Ceiling(row, "budget")
    PROVE  HourOf(more)
<1>0. /\ DOMAIN list = 1 .. Len(list) /\ DOMAIN more = 1 .. (Len(list) + 1) /\ more \in Seq(Passes)
      /\ DOMAIN more = DOMAIN list \cup {Len(list) + 1} /\ Len(list) + 1 \notin DOMAIN list
      /\ more[Len(list) + 1] = row /\ Len(list) \in Nat
      /\ \A j \in DOMAIN list : more[j] = list[j]
  BY DEF OneRowMore
<1>1. PICK n \in Nat : n = Len(list)
  BY <1>0
<1>2. /\ DOMAIN more = DOMAIN list \cup {n + 1} /\ more[n + 1] = row /\ Hour \in Nat \ {0}
      /\ more \in Seq(Passes) /\ \A j \in DOMAIN list : more[j] = list[j]
  BY <1>0, <1>1, FloodAssumption
<1>3. row.at \in Nat
  BY DEF Passes
<1> SUFFICES ASSUME NEW i \in DOMAIN more, more[i].payer # None
             PROVE  Sum(Units(more), {j \in RowsBefore(more, i, Hour) : more[j].payer = more[i].payer})
                       <= Ceiling(more[i], "budget")
  BY DEF HourOf
<1>4. CASE i \in DOMAIN list
  <2>1. RowsBefore(more, i, Hour) = RowsBefore(list, i, Hour)
        /\ RowsBefore(list, i, Hour) \subseteq DOMAIN list
    BY <1>2, <1>4, RowsBeforeMore
  <2>2. PICK S : S = {j \in RowsBefore(list, i, Hour) : list[j].payer = list[i].payer}
    OBVIOUS
  <2>3. more[i] = list[i] /\ S \subseteq DOMAIN list
        /\ {j \in RowsBefore(more, i, Hour) : more[j].payer = more[i].payer} = S
    BY <1>2, <1>4, <2>1, <2>2
  <2>4. IsFiniteSet(S)
    BY <2>3, PassFacts, FS_Subset
  <2>5. \A j \in DOMAIN list : Units(list)[j] = list[j].units /\ list[j].units \in Nat
    BY PassFacts
  <2>6. \A j \in DOMAIN more : Units(more)[j] = more[j].units
    BY <1>2, PassFacts
  <2>7. \A j \in S : Units(more)[j] = Units(list)[j] /\ Units(list)[j] \in Nat
    BY <1>2, <2>3, <2>5, <2>6
  <2>8. Sum(Units(more), S) = Sum(Units(list), S)
    BY <2>4, <2>7, SumSame
  <2>9. Sum(Units(list), S) <= Ceiling(list[i], "budget")
    BY <1>4, <2>2, <2>3 DEF HourOf
  <2> QED BY <2>3, <2>8, <2>9
<1>5. CASE i = n + 1
  <2>1. RowsBefore(more, i, Hour) = {j \in DOMAIN more : more[j].at >= t}
    BY <1>1, <1>2, <1>5, RowsBeforeMore
  <2>2. more[i] = row
    BY <1>2, <1>5
  <2>3. PICK s : s = row.payer
    OBVIOUS
  <2>4. {j \in RowsBefore(more, i, Hour) : more[j].payer = more[i].payer} = PaidFor(more, s, t)
    BY <2>1, <2>2, <2>3 DEF PaidFor
  <2>5. row.at >= t
    BY <1>2, <1>3
  <2>6. Sum(Units(more), PaidFor(more, s, t)) =
           Sum(Units(list), PaidFor(list, s, t)) + IF row.payer = s /\ row.at >= t THEN row.units ELSE 0
    BY PaidMore
  <2>7. Sum(Units(more), PaidFor(more, s, t)) = Sum(Units(list), PaidFor(list, s, t)) + row.units
    BY <2>3, <2>5, <2>6
  <2> QED BY <2>2, <2>3, <2>4, <2>7
<1> QED BY <1>2, <1>4, <1>5

\* Something is let through: it is counted where it was admitted, and there was room.
LEMMA Serves ==
    ASSUME FloodInv, Moves, now' = now, NEW row \in Passes, row.at = now, served' = Append(served, row),
           \A k \in row.keys : /\ k[1] \in LimitNames /\ buckets'[k] = Append(Fresh(k), now)
                               /\ Len(Fresh(k)) < Ceiling(row, k[1]),
           row.payer # None =>
              /\ budgets'[row.payer] = Append(Charged(row.payer), [at |-> now, units |-> row.units])
              /\ Used(row.payer) + row.units <= Ceiling(row, "budget")
    PROVE  FloodInv'
<1>1. FloodTyped /\ served \in Seq(Passes) /\ now \in Nat
  BY DEF FloodInv, FloodTyped
<1>2. row.keys \subseteq Keys /\ row.payer \in Sessions \cup {None} /\ row.units \in Nat
  BY DEF Passes
<1>3. PICK more : more = served'
  OBVIOUS
<1>4. OneRowMore(more, served, row) /\ more \in Seq(Passes)
  BY <1>1, <1>3, AppendFacts
<1>5. FloodTyped'
  BY <1>1, <1>3, <1>4, MovesTyped
<1>6. /\ Since(Window) \in Int /\ Since(Window)' = Since(Window) /\ Since(Window) <= now
      /\ Since(Hour) \in Int /\ Since(Hour)' = Since(Hour) /\ Since(Hour) <= now
      /\ Since(Window) = row.at - Window + 1 /\ Since(Hour) = row.at - Hour + 1
  BY <1>1, WindowFacts DEF Since
<1>7. ASSUME NEW k \in Keys, NEW t \in Int, t >= Since(Window)
      PROVE  Cardinality(Through(more, k, t)) <= Cardinality(Marks(buckets'[k], t))
  <2>1. Cardinality(Through(served, k, t)) <= Cardinality(Marks(buckets[k], t))
    BY <1>7 DEF FloodInv, Counted
  <2>2. BucketAfter(buckets'[k], k)
    BY DEF Moves
  <2>3. /\ Cardinality(Marks(buckets[k], t)) \in Nat /\ Cardinality(Marks(buckets'[k], t)) \in Nat
        /\ Cardinality(Marks(buckets[k], t)) <= Cardinality(Marks(buckets'[k], t))
        /\ buckets'[k] = Append(Fresh(k), now) /\ t <= now =>
              Cardinality(Marks(buckets[k], t)) + 1 <= Cardinality(Marks(buckets'[k], t))
    BY <1>1, <1>7, <2>2, BucketKeeps
  <2>4. Cardinality(Through(more, k, t)) =
              Cardinality(Through(served, k, t)) + IF k \in row.keys /\ row.at >= t THEN 1 ELSE 0
    BY <1>1, <1>4, ThroughMore
  <2>5. Cardinality(Through(served, k, t)) \in Nat
    BY <1>1, ThroughType
  <2>6. CASE k \in row.keys /\ row.at >= t
    <3>1. Cardinality(Marks(buckets[k], t)) + 1 <= Cardinality(Marks(buckets'[k], t))
      BY <1>1, <2>3, <2>6
    <3> QED BY <2>1, <2>3, <2>4, <2>5, <2>6, <3>1
  <2>7. CASE ~(k \in row.keys /\ row.at >= t)
    BY <2>1, <2>3, <2>4, <2>5, <2>7
  <2> QED BY <2>6, <2>7
<1>8. ASSUME NEW s \in Sessions, NEW t \in Int, t >= Since(Hour)
      PROVE  Sum(Units(more), PaidFor(more, s, t)) <= Sum(Units(budgets'[s]), Dues(budgets'[s], t))
  <2>1. Sum(Units(served), PaidFor(served, s, t)) <= Sum(Units(budgets[s]), Dues(budgets[s], t))
    BY <1>8 DEF FloodInv, Counted
  <2>2. BudgetAfter(budgets'[s], s)
    BY DEF Moves
  <2>3. PICK e \in Charges : e = [at |-> now, units |-> row.units]
    BY <1>1, <1>2 DEF Charges
  <2>4. /\ Sum(Units(budgets[s]), Dues(budgets[s], t)) \in Nat
        /\ Sum(Units(budgets'[s]), Dues(budgets'[s], t)) \in Nat
        /\ Sum(Units(budgets[s]), Dues(budgets[s], t)) <= Sum(Units(budgets'[s]), Dues(budgets'[s], t))
        /\ budgets'[s] = Append(Charged(s), e) /\ t <= e.at =>
              Sum(Units(budgets[s]), Dues(budgets[s], t)) + e.units <= Sum(Units(budgets'[s]), Dues(budgets'[s], t))
    BY <1>1, <1>8, <2>2, BudgetKeeps
  <2>5. Sum(Units(more), PaidFor(more, s, t)) =
           Sum(Units(served), PaidFor(served, s, t)) + IF row.payer = s /\ row.at >= t THEN row.units ELSE 0
    BY <1>1, <1>4, PaidMore
  <2>6. Sum(Units(served), PaidFor(served, s, t)) \in Nat
    BY <1>1, PaidType
  <2>7. CASE row.payer = s /\ row.at >= t
    <3>1. row.payer # None
      BY <2>7, FloodAssumption
    <3>2. e.at = now /\ e.units = row.units /\ budgets'[s] = Append(Charged(s), e)
      BY <2>3, <2>7, <3>1
    <3>3. Sum(Units(budgets[s]), Dues(budgets[s], t)) + row.units <= Sum(Units(budgets'[s]), Dues(budgets'[s], t))
      BY <1>1, <2>4, <2>7, <3>2
    <3> QED BY <1>2, <2>1, <2>4, <2>5, <2>6, <2>7, <3>3
  <2>8. CASE ~(row.payer = s /\ row.at >= t)
    BY <2>1, <2>4, <2>5, <2>6, <2>8
  <2> QED BY <2>7, <2>8
<1>9. Counted'
  BY <1>3, <1>6, <1>7, <1>8 DEF Counted
<1>10. RateOf(more)
  <2>1. RateOf(served)
    BY DEF FloodInv, RateHolds, RateOf, Before, RowsBefore
  <2>2. ASSUME NEW k \in row.keys
        PROVE  k[1] \in LimitNames
               /\ Cardinality(Through(served, k, Since(Window))) + 1 <= Ceiling(row, k[1])
    <3>1. k \in Keys
      BY <1>2
    <3>2. Cardinality(Through(served, k, Since(Window))) <= Cardinality(Marks(buckets[k], Since(Window)))
      BY <1>6, <3>1 DEF FloodInv, Counted
    <3>3. Len(Fresh(k)) = Cardinality(Marks(buckets[k], Since(Window)))
      BY <1>1, <3>1, FreshFacts
    <3>4. Cardinality(Marks(buckets[k], Since(Window))) \in Nat
      BY <1>1, <1>6, <3>1, FreshFacts, MarksType
    <3>5. Cardinality(Through(served, k, Since(Window))) \in Nat
      BY <1>1, <1>6, ThroughType
    <3>6. k[1] \in LimitNames /\ Len(Fresh(k)) < Ceiling(row, k[1])
      OBVIOUS
    <3>7. Ceiling(row, k[1]) \in Nat
      BY <3>6, CeilingType
    <3> QED BY <3>2, <3>3, <3>4, <3>5, <3>6, <3>7
  <2> QED BY <1>1, <1>4, <1>6, <2>1, <2>2, RateMore
<1>11. HourOf(more)
  <2>1. HourOf(served)
    BY DEF FloodInv, HourHolds, HourOf, Before, RowsBefore
  <2>2. ASSUME row.payer # None
        PROVE  Sum(Units(served), PaidFor(served, row.payer, Since(Hour))) + row.units <= Ceiling(row, "budget")
    <3>1. PICK s \in Sessions : s = row.payer
      BY <1>2, <2>2
    <3>2. Sum(Units(served), PaidFor(served, s, Since(Hour))) <= Sum(Units(budgets[s]), Dues(budgets[s], Since(Hour)))
      BY <1>6 DEF FloodInv, Counted
    <3>3. Sum(Units(budgets[s]), Dues(budgets[s], Since(Hour))) <= Used(s) /\ Used(s) \in Nat
      BY <1>1, UsedIsSum
    <3>4. Sum(Units(budgets[s]), Dues(budgets[s], Since(Hour))) \in Nat
      BY <1>1, <1>6, ChargedFacts, DuesType
    <3>5. Sum(Units(served), PaidFor(served, s, Since(Hour))) \in Nat
      BY <1>1, <1>6, PaidType
    <3>6. Used(s) + row.units <= Ceiling(row, "budget")
      BY <2>2, <3>1
    <3>7. Ceiling(row, "budget") \in Nat
      BY CeilingType DEF LimitNames
    <3> QED BY <1>2, <3>1, <3>2, <3>3, <3>4, <3>5, <3>6, <3>7
  <2> QED BY <1>1, <1>4, <1>6, <2>1, <2>2, HourMore
<1>12. RateHolds' /\ HourHolds'
  BY <1>3, <1>10, <1>11 DEF RateHolds, HourHolds, RateOf, HourOf, Before, RowsBefore
<1> QED BY <1>5, <1>9, <1>12 DEF FloodInv

-----------------------------------------------------------------------------
(* What the actions do to the windows.                                     *)

BucketsMove(bs) ==
    DOMAIN bs = Keys /\ bs = [k \in Keys |-> bs[k]] /\ \A k \in Keys : BucketAfter(bs[k], k)
BudgetsMove(us) ==
    DOMAIN us = Sessions /\ us = [s \in Sessions |-> us[s]] /\ \A s \in Sessions : BudgetAfter(us[s], s)

LEMMA StaysPut ==
    ASSUME FloodTyped
    PROVE  BucketsMove(buckets) /\ BudgetsMove(budgets) /\ Standing \in [Sessions -> Scalings]
<1>1. BucketsMove(buckets)
  BY DEF FloodTyped, BucketsMove, BucketAfter
<1>2. BudgetsMove(budgets)
  BY DEF FloodTyped, BudgetsMove, BudgetAfter
<1>3. Standing \in [Sessions -> Scalings]
  BY DEF FloodTyped, Standing, Scalings
<1> QED BY <1>1, <1>2, <1>3

LEMMA BucketsTaken ==
    ASSUME NEW bs, BucketsMove(bs), NEW key \in Keys
    PROVE  /\ BucketsMove(Cut(bs, key)) /\ BucketsMove(Take(bs, key))
           /\ Take(bs, key)[key] = Append(Fresh(key), now)
           /\ \A k \in Keys : k # key => Take(bs, key)[k] = bs[k]
<1>1. /\ DOMAIN Cut(bs, key) = Keys /\ Cut(bs, key) = [k \in Keys |-> Cut(bs, key)[k]]
      /\ Cut(bs, key)[key] = Fresh(key) /\ \A k \in Keys : k # key => Cut(bs, key)[k] = bs[k]
  BY DEF BucketsMove, Cut
<1>2. /\ DOMAIN Take(bs, key) = Keys /\ Take(bs, key) = [k \in Keys |-> Take(bs, key)[k]]
      /\ Take(bs, key)[key] = Append(Fresh(key), now)
      /\ \A k \in Keys : k # key => Take(bs, key)[k] = bs[k]
  BY DEF BucketsMove, Take
<1>3. \A k \in Keys : BucketAfter(bs[k], k)
  BY DEF BucketsMove
<1>4. BucketAfter(Fresh(key), key) /\ BucketAfter(Append(Fresh(key), now), key)
  BY DEF BucketAfter
<1>5. \A k \in Keys : BucketAfter(Cut(bs, key)[k], k)
  BY <1>1, <1>3, <1>4
<1>6. \A k \in Keys : BucketAfter(Take(bs, key)[k], k)
  BY <1>2, <1>3, <1>4
<1>7. BucketsMove(Cut(bs, key)) /\ BucketsMove(Take(bs, key))
  BY <1>1, <1>2, <1>5, <1>6 DEF BucketsMove
<1> QED BY <1>2, <1>7

LEMMA BudgetsCharged ==
    ASSUME FloodTyped, NEW payer \in Sessions, NEW units \in Nat
    PROVE  /\ BudgetsMove(Refuse(payer)) /\ BudgetsMove(Charge(payer, units))
           /\ Charge(payer, units)[payer] = Append(Charged(payer), [at |-> now, units |-> units])
<1>1. DOMAIN budgets = Sessions /\ now \in Nat
  BY DEF FloodTyped
<1>2. PICK e \in Charges : e = [at |-> now, units |-> units]
  BY <1>1 DEF Charges
<1>3. /\ DOMAIN Refuse(payer) = Sessions /\ Refuse(payer) = [s \in Sessions |-> Refuse(payer)[s]]
      /\ Refuse(payer)[payer] = Charged(payer)
      /\ \A s \in Sessions : s # payer => Refuse(payer)[s] = budgets[s]
  BY <1>1 DEF Refuse
<1>4. /\ DOMAIN Charge(payer, units) = Sessions
      /\ Charge(payer, units) = [s \in Sessions |-> Charge(payer, units)[s]]
      /\ Charge(payer, units)[payer] = Append(Charged(payer), e)
      /\ \A s \in Sessions : s # payer => Charge(payer, units)[s] = budgets[s]
  BY <1>1, <1>2 DEF Charge
<1>5. BudgetAfter(Charged(payer), payer) /\ BudgetAfter(Append(Charged(payer), e), payer)
  BY DEF BudgetAfter
<1>6. \A s \in Sessions : BudgetAfter(budgets[s], s)
  BY DEF BudgetAfter
<1>7. \A s \in Sessions : BudgetAfter(Refuse(payer)[s], s)
  BY <1>3, <1>5, <1>6
<1>8. \A s \in Sessions : BudgetAfter(Charge(payer, units)[s], s)
  BY <1>4, <1>5, <1>6
<1>9. BudgetsMove(Refuse(payer)) /\ BudgetsMove(Charge(payer, units))
  BY <1>3, <1>4, <1>7, <1>8 DEF BudgetsMove
<1> QED BY <1>2, <1>4, <1>9

\* A step that lets nothing through.
LEMMA NothingServed ==
    ASSUME FloodInv, setup' = setup, overrides' \in [Sessions -> Scalings], shieldUntil' \in Nat,
           BucketsMove(buckets'), BudgetsMove(budgets'), now' \in Nat, now' >= now, served' = served
    PROVE  FloodInv'
<1>1. Moves
  BY DEF Moves, BucketsMove, BudgetsMove
<1> QED BY <1>1, Refuses

\* What a request costs is a number, and its keys are keys.
LEMMA CostsAreNat ==
    /\ \A c : EvaluateUnits(c) \in Nat
    /\ \A a : AskUnits(a) \in Nat
<1>1. \A name \in {"evaluate", "ask", "manual", "tool", "high", "critical"} : Weights[name] \in Nat
  BY FloodAssumption
<1>2. ASSUME NEW yes PROVE \A name \in {"tool", "high", "critical"} : Times(yes, name) \in Nat
  BY <1>1 DEF Times
<1>3. ASSUME NEW c PROVE EvaluateUnits(c) \in Nat
  <2>1. PICK x, y, z \in Nat : /\ x = Weights["evaluate"] /\ y = Times(c.action # NoAction, "tool")
                               /\ z = Times(c.risky, "high")
    BY <1>1, <1>2
  <2>2. EvaluateUnits(c) = x * y * z
    BY <2>1 DEF EvaluateUnits
  <2> QED BY <2>2
<1>4. ASSUME NEW a PROVE AskUnits(a) \in Nat
  <2>1. PICK w, x, y, z \in Nat : /\ w = Weights["ask"] + IF a.manual THEN Weights["manual"] ELSE 0
                                  /\ x = Times(a.tool, "tool") /\ y = Times(a.risk = "high", "high")
                                  /\ z = Times(a.risk = "critical", "critical")
    BY <1>1, <1>2
  <2>2. AskUnits(a) = w * x * y * z
    BY <2>1 DEF AskUnits
  <2> QED BY <2>2
<1> QED BY <1>3, <1>4

LEMMA KeyFacts ==
    /\ \A s \in Sessions : /\ RequestKey(s) \in Keys /\ RequestKey(s)[1] = "request"
                           /\ AskKey(s) \in Keys /\ AskKey(s)[1] = "ask"
    /\ \A c \in Calls : /\ c.session \in Sessions /\ ToolKey(c) # RequestKey(c.session)
                        /\ ToolKey(c)[1] = "tool"
                        /\ c.action # NoAction => ToolKey(c) \in Keys
    /\ \A o \in Operators : AnswerKey(o) \in Keys /\ AnswerKey(o)[1] = "answer"
    /\ {"request", "ask", "tool", "answer", "budget"} \subseteq LimitNames
BY DEF RequestKey, AskKey, ToolKey, AnswerKey, Keys, Calls, LimitNames

LEMMA BothTakenFacts ==
    ASSUME FloodTyped, NEW c \in Calls
    PROVE  /\ BucketsMove(BothTaken(c)) /\ BucketsMove(Take(buckets, RequestKey(c.session)))
           /\ BothTaken(c)[RequestKey(c.session)] = Append(Fresh(RequestKey(c.session)), now)
           /\ c.action # NoAction => BothTaken(c)[ToolKey(c)] = Append(Fresh(ToolKey(c)), now)
<1>1. PICK r \in Keys : r = RequestKey(c.session)
  BY KeyFacts
<1>2. PICK taken : taken = Take(buckets, r)
  OBVIOUS
<1>3. BucketsMove(taken) /\ taken[r] = Append(Fresh(r), now)
  BY <1>2, StaysPut, BucketsTaken
<1>4. CASE c.action = NoAction
  BY <1>1, <1>2, <1>3, <1>4 DEF BothTaken
<1>5. CASE c.action # NoAction
  <2>1. PICK k \in Keys : k = ToolKey(c) /\ r # k
    BY <1>1, <1>5, KeyFacts
  <2>2. BothTaken(c) = Take(taken, k)
    BY <1>1, <1>2, <1>5, <2>1 DEF BothTaken
  <2>3. /\ BucketsMove(Take(taken, k)) /\ Take(taken, k)[k] = Append(Fresh(k), now)
        /\ Take(taken, k)[r] = taken[r]
    BY <1>3, <2>1, BucketsTaken
  <2> QED BY <1>1, <1>2, <1>3, <2>1, <2>2, <2>3
<1> QED BY <1>4, <1>5

\* A bucket with room, and a budget with room.
LEMMA Room ==
    ASSUME FloodTyped, NEW k \in Keys, NEW limit \in Nat, ~Full(k, limit)
    PROVE  Len(Fresh(k)) < limit
<1>1. Len(Fresh(k)) \in Nat
  BY FreshFacts
<1> QED BY <1>1 DEF Full

LEMMA BudgetRoom ==
    ASSUME FloodTyped, NEW s \in Sessions, NEW units \in Nat, ~OverBudget(s, units)
    PROVE  Used(s) + units <= SessionLimit(s, "budget")
<1>1. Used(s) \in Nat
  BY UsedIsSum
<1>2. SessionLimit(s, "budget") \in Nat
  BY KeyFacts, LimitType
<1> QED BY <1>1, <1>2 DEF OverBudget

-----------------------------------------------------------------------------
(* What is let through.                                                    *)

LEMMA EvaluateServedKeeps ==
    ASSUME FloodInv, NEW c \in Calls, EvaluateServed(c)
    PROVE  FloodInv'
<1>1. FloodTyped /\ now \in Nat
  BY DEF FloodInv, FloodTyped
<1>2. PICK s \in Sessions : s = c.session
  BY KeyFacts
<1>3. PICK units \in Nat : units = EvaluateUnits(c)
  BY CostsAreNat
<1>4. PICK keys : keys = {RequestKey(c.session)} \cup (IF c.action = NoAction THEN {} ELSE {ToolKey(c)})
  OBVIOUS
<1>5. \A k \in keys : k = RequestKey(s) \/ (c.action # NoAction /\ k = ToolKey(c))
  BY <1>2, <1>4
<1>6. keys \in SUBSET Keys
  BY <1>2, <1>5, KeyFacts
<1>7. PICK row : row = Row(keys, s, units)
  OBVIOUS
<1>8. /\ row \in Passes /\ row.keys = keys /\ row.payer = s /\ row.units = units /\ row.at = now
      /\ \A name \in LimitNames : Ceiling(row, name) = SessionLimit(s, name)
  <2>1. s \in Sessions \cup {None} /\ s # None
    BY FloodAssumption
  <2>2. row \in Passes /\ row.keys = keys /\ row.payer = s /\ row.units = units /\ row.at = now
    BY <1>1, <1>6, <1>7, <2>1, RowFacts
  <2>3. ASSUME NEW name \in LimitNames PROVE Ceiling(row, name) = SessionLimit(s, name)
    BY <1>1, <1>6, <1>7, <2>1, RowFacts
  <2> QED BY <2>2, <2>3
<1>9. /\ buckets' = BothTaken(c) /\ budgets' = Charge(s, units) /\ served' = Append(served, row)
      /\ overrides' = Standing /\ setup' = setup /\ now' = now /\ shieldUntil' = shieldUntil
      /\ ~RequestFlood(c) /\ ~ToolFlood(c) /\ ~OverBudget(s, units)
  BY <1>2, <1>3, <1>4, <1>7 DEF EvaluateServed, OfGuard
<1>10. Moves
  <2>1. BucketsMove(buckets')
    BY <1>1, <1>9, BothTakenFacts
  <2>2. BudgetsMove(budgets')
    BY <1>1, <1>9, BudgetsCharged
  <2>3. overrides' \in [Sessions -> Scalings] /\ shieldUntil' \in Nat
    BY <1>1, <1>9, StaysPut DEF FloodTyped
  <2> QED BY <1>9, <2>1, <2>2, <2>3 DEF Moves, BucketsMove, BudgetsMove
<1>11. ASSUME NEW k \in row.keys
       PROVE  /\ k[1] \in LimitNames /\ buckets'[k] = Append(Fresh(k), now)
              /\ Len(Fresh(k)) < Ceiling(row, k[1])
  <2>1. CASE k = RequestKey(s)
    <3>1. k \in Keys /\ k[1] = "request" /\ k[1] \in LimitNames
      BY <2>1, KeyFacts
    <3>2. ~Full(k, SessionLimit(s, "request")) /\ SessionLimit(s, "request") \in Nat
      BY <1>1, <1>2, <1>9, <2>1, <3>1, LimitType DEF RequestFlood
    <3>3. buckets'[k] = Append(Fresh(k), now)
      BY <1>1, <1>2, <1>9, <2>1, BothTakenFacts
    <3>4. Len(Fresh(k)) < SessionLimit(s, "request")
      BY <1>1, <3>1, <3>2, Room
    <3> QED BY <1>8, <3>1, <3>3, <3>4
  <2>2. CASE c.action # NoAction /\ k = ToolKey(c)
    <3>1. k \in Keys /\ k[1] = "tool" /\ k[1] \in LimitNames
      BY <2>2, KeyFacts
    <3>2. ~Full(k, SessionLimit(s, "tool")) /\ SessionLimit(s, "tool") \in Nat
      BY <1>1, <1>2, <1>9, <2>2, <3>1, LimitType DEF ToolFlood
    <3>3. buckets'[k] = Append(Fresh(k), now)
      BY <1>1, <1>9, <2>2, BothTakenFacts
    <3>4. Len(Fresh(k)) < SessionLimit(s, "tool")
      BY <1>1, <3>1, <3>2, Room
    <3> QED BY <1>8, <3>1, <3>3, <3>4
  <2> QED BY <1>5, <1>8, <2>1, <2>2
<1>12. /\ budgets'[row.payer] = Append(Charged(row.payer), [at |-> now, units |-> row.units])
       /\ Used(row.payer) + row.units <= Ceiling(row, "budget")
  BY <1>1, <1>8, <1>9, BudgetsCharged, BudgetRoom, KeyFacts
<1> QED BY <1>8, <1>9, <1>10, <1>11, <1>12, Serves

LEMMA AskServedKeeps ==
    ASSUME FloodInv, NEW a \in Asks, AskServed(a)
    PROVE  FloodInv'
<1>1. FloodTyped /\ now \in Nat
  BY DEF FloodInv, FloodTyped
<1>2. PICK s \in Sessions : s = a.session
  BY DEF Asks
<1>3. PICK units \in Nat : units = AskUnits(a)
  BY CostsAreNat
<1>4. PICK k \in Keys : k = AskKey(s) /\ k[1] = "ask" /\ k[1] \in LimitNames
  BY KeyFacts
<1>5. PICK row : row = Row({k}, s, units)
  OBVIOUS
<1>6. /\ row \in Passes /\ row.keys = {k} /\ row.payer = s /\ row.units = units /\ row.at = now
      /\ \A name \in LimitNames : Ceiling(row, name) = SessionLimit(s, name)
  <2>1. s \in Sessions \cup {None} /\ s # None /\ {k} \in SUBSET Keys
    BY FloodAssumption
  <2>2. row \in Passes /\ row.keys = {k} /\ row.payer = s /\ row.units = units /\ row.at = now
    <3>1. PICK keys \in SUBSET Keys : keys = {k} /\ row = Row(keys, s, units)
      BY <1>5, <2>1
    <3>2. row \in Passes /\ row.keys = keys /\ row.payer = s /\ row.units = units /\ row.at = now
      BY <1>1, <2>1, <3>1, RowFacts
    <3> QED BY <3>1, <3>2
  <2>3. ASSUME NEW name \in LimitNames PROVE Ceiling(row, name) = SessionLimit(s, name)
    BY <1>1, <1>5, <2>1, RowFacts
  <2> QED BY <2>2, <2>3
<1>7. /\ buckets' = Take(buckets, k) /\ budgets' = Charge(s, units) /\ served' = Append(served, row)
      /\ overrides' = Standing /\ setup' = setup /\ now' = now /\ shieldUntil' = shieldUntil
      /\ ~AskFlood(s) /\ ~OverBudget(s, units)
  BY <1>2, <1>3, <1>4, <1>5 DEF AskServed, OfGuard
<1>8. Moves
  <2>1. BucketsMove(buckets')
    BY <1>1, <1>7, StaysPut, BucketsTaken
  <2>2. BudgetsMove(budgets')
    BY <1>1, <1>7, BudgetsCharged
  <2>3. overrides' \in [Sessions -> Scalings] /\ shieldUntil' \in Nat
    BY <1>1, <1>7, StaysPut DEF FloodTyped
  <2> QED BY <1>7, <2>1, <2>2, <2>3 DEF Moves, BucketsMove, BudgetsMove
<1>9. buckets'[k] = Append(Fresh(k), now)
  BY <1>1, <1>7, StaysPut, BucketsTaken
<1>10. Len(Fresh(k)) < SessionLimit(s, "ask")
  <2>1. ~Full(k, SessionLimit(s, "ask")) /\ SessionLimit(s, "ask") \in Nat
    BY <1>1, <1>4, <1>7, LimitType DEF AskFlood
  <2> QED BY <1>1, <2>1, Room
<1>11. /\ budgets'[row.payer] = Append(Charged(row.payer), [at |-> now, units |-> row.units])
       /\ Used(row.payer) + row.units <= Ceiling(row, "budget")
  BY <1>1, <1>6, <1>7, BudgetsCharged, BudgetRoom, KeyFacts
<1> QED BY <1>4, <1>6, <1>7, <1>8, <1>9, <1>10, <1>11, Serves

LEMMA AnswerKeeps ==
    ASSUME FloodInv, NEW o \in Operators, NEW id, Answer(o, id)
    PROVE  FloodInv'
<1>1. FloodTyped /\ now \in Nat
  BY DEF FloodInv, FloodTyped
<1>2. PICK k \in Keys : k = AnswerKey(o) /\ k[1] = "answer" /\ k[1] \in LimitNames
  BY KeyFacts
<1>3. PICK row : row = Row({k}, None, 0)
  OBVIOUS
<1>4. /\ row \in Passes /\ row.keys = {k} /\ row.payer = None /\ row.at = now
      /\ \A name \in LimitNames : Ceiling(row, name) = Limit(name)
  <2>1. None \in Sessions \cup {None} /\ {k} \in SUBSET Keys /\ 0 \in Nat
    OBVIOUS
  <2>2. row \in Passes /\ row.keys = {k} /\ row.payer = None /\ row.at = now
    BY <1>1, <1>3, <2>1, RowFacts
  <2>3. ASSUME NEW name \in LimitNames PROVE Ceiling(row, name) = Limit(name)
    BY <1>1, <1>3, <2>1, RowFacts
  <2> QED BY <2>2, <2>3
<1>5. /\ buckets' = Take(buckets, k) /\ budgets' = budgets /\ served' = Append(served, row)
      /\ setup' = setup /\ now' = now /\ shieldUntil' = shieldUntil
      /\ overrides' \in {overrides, Standing} /\ ~AnswerFlood(o)
  BY <1>2, <1>3 DEF Answer
<1>6. Moves
  <2>1. BucketsMove(buckets')
    BY <1>1, <1>5, StaysPut, BucketsTaken
  <2>2. BudgetsMove(budgets')
    BY <1>1, <1>5, StaysPut
  <2>3. overrides' \in [Sessions -> Scalings] /\ shieldUntil' \in Nat
    BY <1>1, <1>5, StaysPut DEF FloodTyped
  <2> QED BY <1>5, <2>1, <2>2, <2>3 DEF Moves, BucketsMove, BudgetsMove
<1>7. buckets'[k] = Append(Fresh(k), now)
  BY <1>1, <1>5, StaysPut, BucketsTaken
<1>8. Len(Fresh(k)) < Limit("answer")
  <2>1. ~Full(k, Limit("answer")) /\ Limit("answer") \in Nat
    BY <1>1, <1>2, <1>5, LimitType DEF AnswerFlood
  <2> QED BY <1>1, <2>1, Room
<1> QED BY <1>2, <1>4, <1>5, <1>6, <1>7, <1>8, Serves

-----------------------------------------------------------------------------
(* What is refused, ordered, restored or only goes by.                     *)

LEMMA EvaluateKeeps ==
    ASSUME FloodInv, NEW c \in Calls, Evaluate(c)
    PROVE  FloodInv'
<1>1. FloodTyped /\ now \in Nat /\ shieldUntil \in Nat
  BY DEF FloodInv, FloodTyped
<1>2. PICK s \in Sessions : s = c.session
  BY KeyFacts
<1>3. EvaluateUnits(c) \in Nat
  BY CostsAreNat
<1>4. PICK r \in Keys : r = RequestKey(s)
  BY KeyFacts
<1>5. ASSUME BucketsMove(buckets'), BudgetsMove(budgets'), OfGuard, served' = served
      PROVE  FloodInv'
  BY <1>1, <1>5, StaysPut, NothingServed DEF OfGuard
<1>6. CASE EvaluateFlooded(c)
  <2>1. BucketsMove(buckets')
    BY <1>1, <1>2, <1>4, <1>6, StaysPut, BucketsTaken DEF EvaluateFlooded
  <2> QED BY <1>1, <1>5, <1>6, <2>1, StaysPut DEF EvaluateFlooded
<1>7. CASE EvaluateToolFlooded(c)
  <2>1. PICK k \in Keys : k = ToolKey(c)
    BY <1>7, KeyFacts DEF EvaluateToolFlooded, ToolFlood
  <2>2. PICK taken : taken = Take(buckets, r) /\ BucketsMove(taken)
    BY <1>1, StaysPut, BucketsTaken
  <2>3. BucketsMove(buckets')
    BY <1>2, <1>4, <1>7, <2>1, <2>2, BucketsTaken DEF EvaluateToolFlooded
  <2> QED BY <1>1, <1>5, <1>7, <2>3, StaysPut DEF EvaluateToolFlooded
<1>8. CASE EvaluateOverBudget(c)
  <2>1. BucketsMove(buckets')
    BY <1>1, <1>8, BothTakenFacts DEF EvaluateOverBudget
  <2>2. BudgetsMove(budgets')
    BY <1>1, <1>2, <1>3, <1>8, BudgetsCharged DEF EvaluateOverBudget
  <2> QED BY <1>5, <1>8, <2>1, <2>2 DEF EvaluateOverBudget
<1> QED BY <1>6, <1>7, <1>8, EvaluateServedKeeps DEF Evaluate

LEMMA AskKeeps ==
    ASSUME FloodInv, NEW a \in Asks, Ask(a)
    PROVE  FloodInv'
<1>1. FloodTyped /\ now \in Nat /\ shieldUntil \in Nat
  BY DEF FloodInv, FloodTyped
<1>2. PICK s \in Sessions : s = a.session
  BY DEF Asks
<1>3. AskUnits(a) \in Nat
  BY CostsAreNat
<1>4. PICK k \in Keys : k = AskKey(s)
  BY KeyFacts
<1>5. ASSUME BucketsMove(buckets'), BudgetsMove(budgets'), OfGuard, served' = served
      PROVE  FloodInv'
  BY <1>1, <1>5, StaysPut, NothingServed DEF OfGuard
<1>6. CASE AskCrowded(a)
  BY <1>1, <1>5, <1>6, StaysPut DEF AskCrowded
<1>7. CASE AskFlooded(a)
  <2>1. BucketsMove(buckets')
    BY <1>1, <1>2, <1>4, <1>7, StaysPut, BucketsTaken DEF AskFlooded
  <2> QED BY <1>1, <1>5, <1>7, <2>1, StaysPut DEF AskFlooded
<1>8. CASE AskOverBudget(a)
  <2>1. BucketsMove(buckets')
    BY <1>1, <1>2, <1>4, <1>8, StaysPut, BucketsTaken DEF AskOverBudget
  <2>2. BudgetsMove(budgets')
    BY <1>1, <1>2, <1>3, <1>8, BudgetsCharged DEF AskOverBudget
  <2> QED BY <1>5, <1>8, <2>1, <2>2 DEF AskOverBudget
<1> QED BY <1>6, <1>7, <1>8, AskServedKeeps DEF Ask

LEMMA AnswerFloodedKeeps ==
    ASSUME FloodInv, NEW o \in Operators, AnswerFlooded(o)
    PROVE  FloodInv'
<1>1. FloodTyped /\ now \in Nat
  BY DEF FloodInv, FloodTyped
<1>2. PICK k \in Keys : k = AnswerKey(o)
  BY KeyFacts
<1>3. BucketsMove(buckets')
  BY <1>1, <1>2, StaysPut, BucketsTaken DEF AnswerFlooded
<1>4. BudgetsMove(budgets') /\ overrides' \in [Sessions -> Scalings] /\ shieldUntil' \in Nat
  BY <1>1, StaysPut DEF AnswerFlooded, FloodTyped
<1> QED BY <1>1, <1>3, <1>4, NothingServed DEF AnswerFlooded

\* No bucket, no budget, no row: after a start, and at first.
LEMMA EmptyTypes ==
    <<>> \in Seq(Nat) /\ <<>> \in Seq(Charges) /\ <<>> \in Seq(Passes) /\ DOMAIN <<>> = {}
OBVIOUS

LEMMA EmptyWindows ==
    ASSUME NEW rows, DOMAIN rows = {}, NEW bucket, DOMAIN bucket = {}, NEW budget, DOMAIN budget = {},
           NEW t \in Int, NEW k, NEW s
    PROVE  /\ Cardinality(Through(rows, k, t)) <= Cardinality(Marks(bucket, t))
           /\ Sum(Units(rows), PaidFor(rows, s, t)) <= Sum(Units(budget), Dues(budget, t))
<1>1. /\ Through(rows, k, t) = {} /\ Marks(bucket, t) = {}
      /\ PaidFor(rows, s, t) = {} /\ Dues(budget, t) = {}
  BY DEF Through, Marks, PaidFor, Dues
<1>2. Cardinality({}) = 0
  BY FS_EmptySet
<1>3. Sum(Units(rows), {}) = 0 /\ Sum(Units(budget), {}) = 0
  BY SumEmpty
<1> QED BY <1>1, <1>2, <1>3

LEMMA RestartKeeps ==
    ASSUME FloodInv, Restart
    PROVE  FloodInv'
<1>1. FloodTyped
  BY DEF FloodInv
<1>2. <<>> \in Seq(Nat) /\ <<>> \in Seq(Charges) /\ <<>> \in Seq(Passes) /\ DOMAIN <<>> = {}
  BY EmptyTypes
<1>3. FloodTyped'
  BY <1>1, <1>2 DEF Restart, FloodTyped, Scalings
<1>4. Counted'
  <2>1. \A k \in Keys : DOMAIN buckets'[k] = {}
    BY EmptyTypes DEF Restart
  <2>2. \A s \in Sessions : DOMAIN budgets'[s] = {}
    BY EmptyTypes DEF Restart
  <2>3. DOMAIN served' = {}
    BY EmptyTypes DEF Restart
  <2> QED BY <2>1, <2>2, <2>3, EmptyWindows DEF Counted
<1>5. RateHolds' /\ HourHolds'
  BY <1>2 DEF Restart, RateHolds, HourHolds
<1> QED BY <1>3, <1>4, <1>5 DEF FloodInv

LEMMA OrdersKeep ==
    ASSUME FloodInv,
           \/ \E length \in setup.lengths : ShieldOn(length)
           \/ ShieldOff
           \/ \E scaling \in setup.scalings, length \in setup.lengths :
                 SetOverride(scaling[1], scaling[2], length)
           \/ \E s \in Sessions : ClearOverride(s)
    PROVE  FloodInv'
<1>1. FloodTyped /\ now \in Nat /\ shieldUntil \in Nat /\ overrides \in [Sessions -> Scalings]
  BY DEF FloodInv, FloodTyped
<1>2. setup.lengths \subseteq Nat /\ setup.scalings \subseteq Sessions \X Nat
  BY <1>1, FloodAssumption DEF FloodTyped
<1>3. LeastShield \in Nat /\ LeastOverride \in Nat
  BY FloodAssumption
<1>4. ASSUME Idle, overrides' \in [Sessions -> Scalings], shieldUntil' \in Nat PROVE FloodInv'
  <2>1. now' \in Nat /\ now' >= now
    BY <1>1, <1>4 DEF Idle
  <2>2. BucketsMove(buckets') /\ BudgetsMove(budgets') /\ setup' = setup /\ served' = served
    BY <1>1, <1>4, StaysPut DEF Idle
  <2> QED BY <1>4, <2>1, <2>2, NothingServed
<1>5. ASSUME NEW length \in setup.lengths, ShieldOn(length) PROVE FloodInv'
  <2>1. shieldUntil' \in Nat
    BY <1>1, <1>2, <1>3, <1>5 DEF ShieldOn, Largest
  <2> QED BY <1>1, <1>4, <1>5, <2>1 DEF ShieldOn
<1>6. CASE ShieldOff
  BY <1>1, <1>4, <1>6 DEF ShieldOff
<1>7. ASSUME NEW scaling \in setup.scalings, NEW length \in setup.lengths,
             SetOverride(scaling[1], scaling[2], length)
      PROVE  FloodInv'
  <2>1. scaling[1] \in Sessions /\ scaling[2] \in Nat
    BY <1>2
  <2>2. PICK f \in Nat : f = Held(scaling[2])
    BY <2>1 DEF Held
  <2>3. PICK u \in Nat : u = now + Largest(LeastOverride, length)
    BY <1>1, <1>2, <1>3 DEF Largest
  <2>4. [factor |-> f, until |-> u] \in Scalings
    BY DEF Scalings
  <2>5. overrides' = [overrides EXCEPT ![scaling[1]] = [factor |-> f, until |-> u]]
    BY <1>7, <2>2, <2>3 DEF SetOverride
  <2>6. overrides' \in [Sessions -> Scalings]
    BY <1>1, <2>4, <2>5
  <2> QED BY <1>1, <1>4, <1>7, <2>6 DEF SetOverride
<1>8. ASSUME NEW s \in Sessions, ClearOverride(s) PROVE FloodInv'
  <2>1. overrides' \in [Sessions -> Scalings]
    BY <1>1, <1>8 DEF ClearOverride, Scalings
  <2> QED BY <1>1, <1>4, <1>8, <2>1 DEF ClearOverride
<1> QED BY <1>5, <1>6, <1>7, <1>8

LEMMA FloodStep ==
    ASSUME FloodInv, [Next]_vars
    PROVE  FloodInv'
<1>1. /\ FloodTyped /\ now \in Nat /\ shieldUntil \in Nat /\ setup \in Setups
      /\ overrides \in [Sessions -> Scalings]
  BY DEF FloodInv, FloodTyped
<1>2. setup.calls \subseteq Calls /\ setup.asks \subseteq Asks /\ setup.operators \subseteq Operators
  BY <1>1, FloodAssumption
<1>3. BucketsMove(buckets) /\ BudgetsMove(budgets) /\ Standing \in [Sessions -> Scalings]
  BY <1>1, StaysPut
<1>4. CASE UNCHANGED vars
  <2>1. /\ setup' = setup /\ now' = now /\ buckets' = buckets /\ budgets' = budgets
        /\ overrides' = overrides /\ shieldUntil' = shieldUntil /\ served' = served
    BY <1>4 DEF vars
  <2> QED BY <1>1, <1>3, <2>1, NothingServed
<1>5. CASE \E c \in setup.calls : Evaluate(c)
  BY <1>2, <1>5, EvaluateKeeps
<1>6. CASE \E a \in setup.asks : Ask(a)
  BY <1>2, <1>6, AskKeeps
<1>7. CASE \E o \in setup.operators : AnswerFlooded(o)
  BY <1>2, <1>7, AnswerFloodedKeeps
<1>8. CASE \E o \in setup.operators, id \in 1 .. requests : Answer(o, id)
  BY <1>2, <1>8, AnswerKeeps
<1>9. CASE \E e \in pending : TimeOut(e)
  <2>1. /\ setup' = setup /\ now' = now /\ buckets' = buckets /\ budgets' = budgets
        /\ overrides' = overrides /\ shieldUntil' = shieldUntil /\ served' = served
    BY <1>9 DEF TimeOut
  <2> QED BY <1>1, <1>3, <2>1, NothingServed
<1>10. CASE Restart
  BY <1>10, RestartKeeps
<1>11. CASE \/ \E length \in setup.lengths : ShieldOn(length)
            \/ ShieldOff
            \/ \E scaling \in setup.scalings, length \in setup.lengths :
                  SetOverride(scaling[1], scaling[2], length)
            \/ \E s \in Sessions : ClearOverride(s)
  BY <1>11, OrdersKeep
<1>12. CASE Snapshot
  <2>1. /\ setup' = setup /\ now' = now /\ buckets' = buckets /\ budgets' = budgets
        /\ overrides' = Standing /\ shieldUntil' = shieldUntil /\ served' = served
    BY <1>12 DEF Snapshot
  <2> QED BY <1>1, <1>3, <2>1, NothingServed
<1>13. CASE Tick
  <2>1. /\ setup' = setup /\ now' = now + 1 /\ buckets' = buckets /\ budgets' = budgets
        /\ overrides' = overrides /\ shieldUntil' = shieldUntil /\ served' = served
    BY <1>13 DEF Tick
  <2>2. now' \in Nat /\ now' >= now
    BY <1>1, <2>1
  <2> QED BY <1>1, <1>3, <2>1, <2>2, NothingServed
<1> QED BY <1>4, <1>5, <1>6, <1>7, <1>8, <1>9, <1>10, <1>11, <1>12, <1>13 DEF Next

LEMMA FloodStart ==
    ASSUME Init
    PROVE  FloodInv
<1>1. <<>> \in Seq(Nat) /\ <<>> \in Seq(Charges) /\ <<>> \in Seq(Passes) /\ DOMAIN <<>> = {}
  BY EmptyTypes
<1>2. FloodTyped
  BY <1>1 DEF Init, FloodTyped, Scalings
<1>3. Counted
  <2>1. \A k \in Keys : DOMAIN buckets[k] = {}
    BY EmptyTypes DEF Init
  <2>2. \A s \in Sessions : DOMAIN budgets[s] = {}
    BY EmptyTypes DEF Init
  <2>3. DOMAIN served = {}
    BY EmptyTypes DEF Init
  <2> QED BY <2>1, <2>2, <2>3, EmptyWindows DEF Counted
<1>4. RateHolds /\ HourHolds
  BY <1>1 DEF Init, RateHolds, HourHolds
<1> QED BY <1>2, <1>3, <1>4 DEF FloodInv

-----------------------------------------------------------------------------
(* What follows.                                                           *)

LEMMA HintFollows ==
    ASSUME FloodTyped
    PROVE  HintIsEnough
<1> SUFFICES ASSUME NEW k \in Keys,
                    Len(Fresh(k)) = IF k[1] = "answer" THEN Limit("answer")
                                    ELSE SessionLimit(IF k[1] = "tool" THEN k[2][1] ELSE k[2], k[1])
             PROVE  Cardinality({i \in DOMAIN buckets[k] :
                                   buckets[k][i] + Window > now + RetryAfter(k)}) < Len(Fresh(k))
  BY DEF HintIsEnough
<1>1. Len(Fresh(k)) >= 1
  <2>1. CASE k[1] = "answer"
    BY <2>1, KeyFacts, LimitType
  <2>2. CASE k[1] # "answer"
    <3>1. k[1] \in {"request", "ask", "tool"} /\ (IF k[1] = "tool" THEN k[2][1] ELSE k[2]) \in Sessions
      BY <2>2 DEF Keys
    <3> QED BY <2>2, <3>1, KeyFacts, LimitType
  <2> QED BY <2>1, <2>2
<1>2. PICK b \in Seq(Nat) : b = buckets[k]
  BY DEF FloodTyped
<1>3. PICK M : M = Marks(b, Since(Window))
  OBVIOUS
<1>4. /\ IsFiniteSet(M) /\ Cardinality(M) = Len(Fresh(k)) /\ Fresh(k) \in Seq(Nat)
      /\ \A n \in DOMAIN Fresh(k) : \E i \in M : Fresh(k)[n] = b[i]
  BY <1>2, <1>3, FreshFacts, MarksType, WindowFacts
<1>5. PICK i \in M : Fresh(k)[1] = b[i]
  BY <1>1, <1>4
<1>6. PICK x \in Nat : x = b[i] /\ x >= Since(Window)
  BY <1>2, <1>3, <1>5 DEF Marks
<1>7. PICK wait \in Nat : wait = RetryAfter(k) /\ wait >= Window - (now - x)
  BY SMTT(30), <1>5, <1>6, WindowFacts DEF RetryAfter, Largest
<1>8. PICK later : later = {j \in DOMAIN b : b[j] + Window > now + wait}
  OBVIOUS
<1>9. later \subseteq M \ {i}
  <2>1. \A j \in DOMAIN b : b[j] \in Nat
    BY <1>2
  <2>2. ASSUME NEW y \in Nat, y + Window > now + wait
        PROVE  y >= Since(Window) /\ y # x
    BY SMTT(30), <1>7, <2>2, WindowFacts DEF Since
  <2> QED BY <1>3, <1>6, <1>8, <2>1, <2>2 DEF Marks
<1>10. IsFiniteSet(M \ {i}) /\ Cardinality(M \ {i}) = Cardinality(M) - 1
  BY <1>4, <1>5, FS_RemoveElement
<1>11. Cardinality(later) <= Cardinality(M \ {i}) /\ Cardinality(later) \in Nat
  BY <1>9, <1>10, FS_Subset, FS_CardinalityType
<1>12. Cardinality(M) \in Nat
  BY <1>4, FS_CardinalityType
<1> QED BY <1>2, <1>4, <1>7, <1>8, <1>10, <1>11, <1>12

LEMMA BudgetFollows ==
    ASSUME FloodTyped, HourHolds
    PROVE  BudgetHolds
<1>1. served \in Seq(Passes)
  BY DEF FloodTyped
<1> SUFFICES ASSUME NEW i \in DOMAIN served, served[i].payer # None
             PROVE  MapThenSumSet(LAMBDA j : served[j].units,
                                  {j \in Before(i, Hour) : served[j].payer = served[i].payer})
                       <= Ceiling(served[i], "budget")
  BY DEF BudgetHolds
<1>2. PICK list \in Seq(Passes) : list = served
  BY <1>1
<1>3. PICK S : S = {j \in Before(i, Hour) : served[j].payer = served[i].payer}
  OBVIOUS
<1>4. S \subseteq DOMAIN list
  <2>1. DOMAIN served = 1 .. Len(served) /\ 1 .. i \subseteq 1 .. Len(served)
    BY <1>1
  <2> QED BY <1>2, <1>3, <2>1 DEF Before
<1>5. IsFiniteSet(S) /\ \A j \in S : list[j].units \in Nat
  BY <1>4, PassFacts, FS_Subset
<1>6. PICK g : g = CHOOSE h : h = [r \in SUBSET S |-> IF r = {} THEN 0 ELSE
                     LET x == CHOOSE y \in r : TRUE IN list[x].units + h[r \ {x}]]
  OBVIOUS
<1>7. MapThenSumSet(LAMBDA j : served[j].units,
                    {j \in Before(i, Hour) : served[j].payer = served[i].payer}) = g[S]
  BY <1>2, <1>3, <1>6 DEF MapThenSumSet, MapThenFoldSet
<1>8. g[S] = Sum(Units(list), S)
  BY <1>4, <1>5, <1>6, UnitsAddUp
<1>9. Sum(Units(list), S) <= Ceiling(served[i], "budget")
  BY <1>2, <1>3 DEF HourHolds
<1> QED BY <1>7, <1>8, <1>9

\* However requests, refusals, shields, overrides and restarts follow each
\* other, no minute lets more of a session, of a tool, of approval requests or
\* of an operator's answers through than the limit in force at its last one;
\* what both routes let a session through for in an hour stays on its one
\* budget; and a caller refused at an exactly full bucket is told a wait after
\* which there is room (runtime/floodguard.ts, consumeWithinWindow,
\* consumeBudget, getSessionLimit).
THEOREM LimitsAlwaysHold == Spec => []LimitsHold
<1>1. Init => FloodInv
  BY FloodStart
<1>2. FloodInv /\ [Next]_vars => FloodInv'
  BY FloodStep
<1>3. FloodInv => LimitsHold
  BY HintFollows, BudgetFollows DEF FloodInv, LimitsHold
<1> QED BY <1>1, <1>2, <1>3, PTL DEF Spec
=============================================================================
