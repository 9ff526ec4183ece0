----------------------- MODULE TrafficSegments_proofs -----------------------
(***************************************************************************)
(* Proofs about TrafficSegments, for any number of stacks, any weights and *)
(* any number of failures.                                                 *)
(***************************************************************************)
EXTENDS TrafficSegments, TrafficWeights_proofs

(***************************************************************************)
(* Inserting a stack into the order gives an order again.                  *)
(***************************************************************************)
LEMMA InsertType ==
    ASSUME NEW seq \in Seq(Stacks), NEW d, NEW s \in Stacks
    PROVE  Insert(seq, d, s) \in Seq(Stacks)
<1> DEFINE past == MovesPast(seq, d, s)
           i == Len(seq) - Cardinality(past)
<1>1. Len(seq) \in Nat
  OBVIOUS
<1>2. /\ IsFiniteSet(1..Len(seq))
      /\ Cardinality(1..Len(seq)) = Len(seq)
  BY <1>1, FS_Interval
<1>3. past \subseteq 1..Len(seq)
  BY DEF MovesPast
<1>4. i \in 0..Len(seq)
  BY <1>1, <1>2, <1>3, FS_Subset, FS_CardinalityType
<1>5. SubSeq(seq, 1, i) \in Seq(Stacks)
  BY <1>1, <1>4
<1>6. SubSeq(seq, i + 1, Len(seq)) \in Seq(Stacks)
  BY <1>1, <1>4
<1> QED
  BY <1>5, <1>6 DEF Insert

\* What the collected and the computed limits of a stack are.
LEMMA LimitsType ==
    ASSUME TypeOK, NEW s \in Stacks
    PROVE  /\ IngressLimits(s) \in Segment
           /\ CollectedLimits(s) \in Segment
           /\ NextLimits(s) \in Segment
           /\ index + weight[s] \in Nat
<1>1. IngressLimits(s) \in Segment /\ CollectedLimits(s) \in Segment
  BY DEF TypeOK, IngressLimits, CollectedLimits, HasRouteGroupSegment, Segment, Zero, NoSegment
<1>2. weight[s] \in Nat /\ index \in Nat
  BY TotalAssumption DEF TypeOK
<1> QED
  BY <1>1, <1>2 DEF NextLimits, SetLimits, Segment, Zero

\* Laying out the next segment of a stack keeps the types.
LEMMA PlaceType ==
    ASSUME TypeOK, NEW s \in Stacks, NEW changed, Place(s, changed)
    PROVE  /\ limits' \in [Stacks -> Segment]
           /\ diff' \in [Stacks -> Int]
           /\ order' \in Seq(Stacks)
           /\ index' \in Nat
           /\ todo' \subseteq Stacks
<1> DEFINE grown == Width(NextLimits(s)) - Width(CollectedLimits(s))
           d == [diff EXCEPT ![s] = grown]
<1>1. grown \in Int
  BY LimitsType DEF Width, Segment
<1>2. order' \in Seq(Stacks)
  <2>1. order \in Seq(Stacks)
    BY DEF TypeOK
  <2>2. Insert(order, d, s) \in Seq(Stacks)
    BY <2>1, InsertType
  <2>3. order' = IF changed THEN Insert(order, d, s) ELSE order
    BY DEF Place
  <2> QED
    BY <2>1, <2>2, <2>3
<1>3. limits' \in [Stacks -> Segment] /\ index' \in Nat
  BY LimitsType DEF Place, TypeOK
<1>4. diff' \in [Stacks -> Int]
  BY <1>1 DEF Place, TypeOK
<1>5. todo' \subseteq Stacks
  BY DEF Place, TypeOK
<1> QED
  BY <1>2, <1>3, <1>4, <1>5

\* Finishing a stack keeps the types.
LEMMA ReconciledType ==
    ASSUME TypeOK, NEW s \in Stacks, Reconciled(s)
    PROVE  /\ order' \in Seq(Stacks)
           /\ pending' \subseteq Stacks
           /\ current' = NoStack
           /\ pc' = "ingress"
BY DEF Reconciled, TypeOK

\* A generated segment is a segment, or none if the stack has no such resource.
LEMMA GeneratedType ==
    ASSUME TypeOK, NEW has, NEW s \in Stacks
    PROVE  GeneratedSegment(has, s) \in Segment \union {NoSegment}
BY DEF TypeOK, GeneratedSegment

\* A failure keeps the types of its history and its counter.
LEMMA FailType ==
    ASSUME TypeOK, Fail
    PROVE  clean' \in BOOLEAN /\ failures' \in 0..MaxFailures
<1>1. clean' \in BOOLEAN
  BY Zenon DEF Fail
<1>2. failures' \in 0..MaxFailures
  BY BoundsAssumption DEF Fail, TypeOK
<1> QED
  BY <1>1, <1>2

(***************************************************************************)
(* TypeOK is an invariant: limits and the index stay natural numbers,      *)
(* whatever segments the cluster is found with.                            *)
(***************************************************************************)
THEOREM TypeCorrect == Spec => []TypeOK
<1>1. Init => TypeOK
  <2> SUFFICES ASSUME Init
               PROVE  TypeOK
    OBVIOUS
  <2>1. clean \in BOOLEAN /\ settled \in BOOLEAN
    BY Zenon DEF Init
  <2>2. order \in Seq(Stacks)
    BY DEF Init
  <2>3. weight \in [Stacks -> 0..Total]
    BY SplitsAssumption DEF Init
  <2> QED
    BY <2>1, <2>2, <2>3, BoundsAssumption
       DEF Init, TypeOK, Segment, Zero, NoSegment, NoStack, Phases
<1>2. TypeOK /\ [Next]_vars => TypeOK'
  <2> SUFFICES ASSUME TypeOK, [Next]_vars
               PROVE  TypeOK'
    OBVIOUS
  <2>1. CASE StartPass
    <3>1. PICK w \in Splits : settled' = Follows(w)
      BY <2>1 DEF StartPass
    <3>2. Follows(w) \in BOOLEAN
      BY Zenon DEF Follows
    <3>3. clean' \in BOOLEAN
      BY <2>1, Zenon DEF StartPass
    <3>4. /\ weight' \in [Stacks -> 0..Total]
          /\ switches' \in 0..MaxSwitches
          /\ order' \in Seq(Stacks)
      BY <2>1, SplitsAssumption, BoundsAssumption DEF StartPass, FreshPlan, TypeOK
    <3>5. pc' \in {"ingress", "layout"} /\ todo' \subseteq Stacks
      BY <2>1 DEF StartPass
    <3> QED
      BY <2>1, <3>1, <3>2, <3>3, <3>4, <3>5
         DEF StartPass, FreshPlan, TypeOK, Segment, Zero, NoStack, Phases, cluster
  <2>2. ASSUME NEW s \in Stacks, LayOutExisting(s)
        PROVE  TypeOK'
    BY <2>2, PlaceType DEF LayOutExisting, TypeOK, cluster, history
  <2>3. ASSUME NEW s \in Stacks, LayOutNew(s)
        PROVE  TypeOK'
    BY <2>3, PlaceType DEF LayOutNew, TypeOK, cluster, history
  <2>4. CASE EndLayout
    BY <2>4 DEF EndLayout, TypeOK, cluster, plan, queue, history, Phases
  <2>5. ASSUME NEW s \in Stacks, WriteIngressSegment(s)
        PROVE  TypeOK'
    BY <2>5, GeneratedType DEF WriteIngressSegment, TypeOK, plan, history, Phases
  <2>6. ASSUME NEW s \in Stacks, WriteRouteGroupSegment(s)
        PROVE  TypeOK'
    BY <2>6, GeneratedType, ReconciledType
       DEF WriteRouteGroupSegment, TypeOK, plan, history, Phases
  <2>7. ASSUME NEW s \in Stacks, FailIngressSegment(s)
        PROVE  TypeOK'
    <3>1. clean' \in BOOLEAN /\ failures' \in 0..MaxFailures
      BY <2>7, FailType DEF FailIngressSegment
    <3> QED
      BY <2>7, <3>1, GeneratedType, ReconciledType DEF FailIngressSegment, TypeOK, plan, Phases
  <2>8. ASSUME NEW s \in Stacks, FailRouteGroupSegment(s)
        PROVE  TypeOK'
    <3>1. clean' \in BOOLEAN /\ failures' \in 0..MaxFailures
      BY <2>8, FailType DEF FailRouteGroupSegment
    <3>2. GeneratedSegment(HasRouteGroup, s) \in Segment \union {NoSegment}
      BY GeneratedType
    <3>3. routegroup' \in [Stacks -> Segment \union {NoSegment}]
      BY <2>8, <3>2 DEF FailRouteGroupSegment, TypeOK
    <3> QED
      BY <2>8, <3>1, <3>3, ReconciledType DEF FailRouteGroupSegment, TypeOK, plan, Phases
  <2>9. CASE EndPass
    BY <2>9 DEF EndPass, TypeOK, cluster, plan, queue, history, Phases
  <2>10. CASE Crash
    <3>1. clean' \in BOOLEAN /\ failures' \in 0..MaxFailures
      BY <2>10, FailType DEF Crash
    <3>2. order' \in Seq(Stacks)
      BY <2>10 DEF Crash, FreshPlan
    <3> QED
      BY <2>10, <3>1, <3>2
         DEF Crash, FreshPlan, TypeOK, cluster, Segment, Zero, NoStack, Phases
  <2>11. ASSUME NEW s \in Stacks, ReplaceStack(s)
         PROVE  TypeOK'
    BY <2>11, BoundsAssumption DEF ReplaceStack, TypeOK, plan, queue, history, Phases
  <2>12. CASE UNCHANGED vars
    BY <2>12 DEF vars, TypeOK, cluster, plan, queue, history
  <2> QED
    BY <2>1, <2>2, <2>3, <2>4, <2>5, <2>6, <2>7, <2>8, <2>9, <2>10, <2>11, <2>12
       DEF Next, LayOut, Write, Disturb
<1> QED
  BY <1>1, <1>2, PTL DEF Spec

-----------------------------------------------------------------------------
\* The steps that leave the plan and its place in the pass alone.
KeepsPlan == UNCHANGED <<limits, index, todo>>

\* A step that leaves the plan alone keeps what is known of it.
LEMMA PlanKept ==
    ASSUME PlanInv, KeepsPlan
    PROVE  PlanInv'
BY DEF PlanInv, PlanDisjoint, PlanGapless, KeepsPlan, In

\* The plan of new containers is empty, and so has nothing wrong with it.
LEMMA PlanFresh ==
    ASSUME FreshPlan, todo' \subseteq Stacks
    PROVE  PlanInv'
BY DEF FreshPlan, PlanInv, PlanDisjoint, PlanGapless, Zero, In

(***************************************************************************)
(* One iteration of the loops of ComputeTrafficSegments: the new segment   *)
(* starts where the last one ended.                                        *)
(***************************************************************************)
LEMMA PlanExtended ==
    ASSUME TypeOK, PlanInv, NEW s \in todo, NEW changed, Place(s, changed)
    PROVE  PlanInv'
<1> DEFINE w == weight[s]
           seg == NextLimits(s)
<1>1. s \in Stacks /\ w \in Nat /\ index \in Nat /\ limits \in [Stacks -> Segment]
  BY TotalAssumption DEF TypeOK
<1>2. /\ limits' = [limits EXCEPT ![s] = seg]
      /\ index' = index + w
      /\ todo' = todo \ {s}
  BY DEF Place
<1>3. \/ w = 0 /\ seg = Zero
      \/ w > 0 /\ seg.lo = index /\ seg.hi = index + w /\ seg # Zero
  BY <1>1 DEF NextLimits, SetLimits, Zero
<1>4. \A t \in Stacks : /\ limits[t].lo \in Nat /\ limits[t].hi \in Nat
                        /\ t # s => limits'[t] = limits[t]
  BY <1>1, <1>2 DEF Segment
<1>5. limits'[s] = seg /\ limits[s] = Zero
  BY <1>1, <1>2 DEF PlanInv
<1>6. \A t \in Stacks : limits'[t].lo <= limits'[t].hi /\ limits'[t].hi <= index'
  BY <1>1, <1>2, <1>3, <1>4, <1>5 DEF PlanInv, Zero
<1>7. \A t \in todo' : limits'[t] = Zero
  BY <1>2, <1>4 DEF PlanInv, TypeOK
<1>8. PlanDisjoint'
  <2>1. \A t \in Stacks : t # s => limits[t].hi <= seg.lo \/ seg = Zero
    BY <1>1, <1>3 DEF PlanInv
  <2> QED
    BY <1>4, <1>5, <2>1 DEF PlanInv, PlanDisjoint
<1>9. PlanGapless'
  <2> SUFFICES ASSUME NEW x \in 0..(index' - 1)
               PROVE  \E t \in Stacks : In(x, limits'[t])
    BY DEF PlanGapless
  <2>1. CASE x < index
    <3>1. PICK t \in Stacks : In(x, limits[t])
      BY <1>1, <2>1 DEF PlanInv, PlanGapless
    <3>2. t # s
      BY <1>5, <3>1 DEF In, Zero
    <3> QED
      BY <1>4, <3>1, <3>2
  <2>2. CASE ~(x < index)
    <3>1. In(x, seg)
      BY <1>1, <1>2, <1>3, <2>2 DEF In
    <3> QED
      BY <1>1, <1>5, <3>1
  <2> QED
    BY <2>1, <2>2
<1> QED
  BY <1>6, <1>7, <1>8, <1>9 DEF PlanInv

(***************************************************************************)
(* The plan of every pass, whatever segments it was computed from.         *)
(***************************************************************************)
THEOREM PlanCorrect == Spec => []PlanInv
<1>1. Init => PlanInv
  BY DEF Init, PlanInv, PlanDisjoint, PlanGapless, Zero, In
<1>2. TypeOK /\ PlanInv /\ [Next]_vars => PlanInv'
  <2> SUFFICES ASSUME TypeOK, PlanInv, [Next]_vars
               PROVE  PlanInv'
    OBVIOUS
  <2>1. CASE StartPass
    <3>1. FreshPlan /\ todo' \subseteq Stacks
      BY <2>1 DEF StartPass
    <3> QED
      BY <3>1, PlanFresh
  <2>2. ASSUME NEW s \in Stacks, LayOutExisting(s) \/ LayOutNew(s)
        PROVE  PlanInv'
    <3>1. s \in todo /\ \E changed : Place(s, changed)
      BY <2>2 DEF LayOutExisting, LayOutNew
    <3> QED
      BY <3>1, PlanExtended
  <2>3. CASE EndLayout \/ EndPass
    BY <2>3, PlanKept DEF EndLayout, EndPass, plan, KeepsPlan
  <2>4. ASSUME NEW s \in Stacks,
               \/ WriteIngressSegment(s) \/ WriteRouteGroupSegment(s)
               \/ FailIngressSegment(s) \/ FailRouteGroupSegment(s) \/ ReplaceStack(s)
        PROVE  PlanInv'
    BY <2>4, PlanKept
       DEF WriteIngressSegment, WriteRouteGroupSegment, FailIngressSegment,
           FailRouteGroupSegment, ReplaceStack, plan, KeepsPlan
  <2>5. CASE Crash
    <3>1. FreshPlan /\ todo' \subseteq Stacks
      BY <2>5 DEF Crash
    <3> QED
      BY <3>1, PlanFresh
  <2>6. CASE UNCHANGED vars
    BY <2>6, PlanKept DEF vars, plan, KeepsPlan
  <2> QED
    BY <2>1, <2>2, <2>3, <2>4, <2>5, <2>6 DEF Next, LayOut, Write, Disturb
<1> QED
  BY <1>1, <1>2, TypeCorrect, PTL DEF Spec

\* No two segments of a plan overlap, and it has no gap below its end.
THEOREM PlanIsSound == Spec => []PlanSound
<1>1. PlanInv => PlanSound
  BY DEF PlanInv, PlanSound
<1> QED
  BY <1>1, PlanCorrect, PTL

-----------------------------------------------------------------------------
\* Outside of the layout loops nothing is claimed of positions.
LEMMA PositionIdle ==
    ASSUME pc' # "layout"
    PROVE  PositionInv'
BY DEF PositionInv, KeepsPosition

\* What is collected of the cluster only depends on the cluster.
LEMMA CollectedKept ==
    ASSUME UNCHANGED cluster
    PROVE  \A t \in Stacks : /\ CollectedLimits(t)' = CollectedLimits(t)
                            /\ Active(t)' = Active(t)
BY DEF cluster, CollectedLimits, HasRouteGroupSegment, IngressLimits, Active

(***************************************************************************)
(* Laying out stack s, before which no other stack in todo comes: what is  *)
(* laid out already ends at or before index, where the segment of s        *)
(* starts, and none of the stacks laid out comes after s.                  *)
(***************************************************************************)
LEMMA PositionExtended ==
    ASSUME TypeOK, PlanInv, PositionInv, NEW s \in todo,
           pc = "layout", UNCHANGED cluster,
           LayOutExisting(s) \/ LayOutNew(s)
    PROVE  PositionInv'
<1> DEFINE CL(t) == CollectedLimits(t)
<1>1. /\ s \in Stacks
      /\ limits' = [limits EXCEPT ![s] = NextLimits(s)]
      /\ todo' = todo \ {s}
      /\ index \in Nat /\ weight[s] \in Nat
      /\ limits \in [Stacks -> Segment]
  BY TotalAssumption DEF LayOutExisting, LayOutNew, Place, TypeOK
<1>2. \A t \in Stacks : CL(t)' = CL(t) /\ (Active(t)' <=> Active(t))
  BY CollectedKept
<1>3. \A t \in Stacks : t # s => limits'[t] = limits[t]
  BY <1>1
<1>4. limits'[s] = NextLimits(s)
  BY <1>1
<1>5. \A t \in Stacks : CL(t).lo \in Nat /\ CL(t).hi \in Nat
  BY LimitsType DEF Segment
<1>6. \A t \in todo : Active(t) => Active(s) /\ ~Less(CL(t), CL(s))
  BY DEF LayOutExisting, LayOutNew
<1>7. ASSUME NEW t \in Stacks, NEW u \in todo', limits'[t] # Zero, Active(u)'
      PROVE  Active(t)' /\ ~Less(CL(u), CL(t))'
  <2>1. u \in todo /\ u \in Stacks /\ Active(u)
    BY <1>1, <1>2, <1>7 DEF TypeOK
  <2>2. Active(t) /\ ~Less(CL(u), CL(t))
    <3>1. CASE t = s
      BY <1>6, <2>1, <3>1
    <3>2. CASE t # s
      BY <1>3, <1>7, <2>1, <3>2 DEF PositionInv
    <3> QED
      BY <3>1, <3>2
  <2> QED
    BY <1>2, <2>1, <2>2 DEF Less
<1>8. ASSUME NEW t \in Stacks, NEW u \in Stacks,
             Active(t), Less(CL(t), CL(u)), limits'[t] # Zero, limits'[u] # Zero
      PROVE  limits'[t].hi <= limits'[u].lo
  <2>1. CASE t # s /\ u # s
    BY <1>3, <1>8, <2>1 DEF PositionInv, KeepsPosition
  <2>2. CASE u = s
    <3>1. t # s
      BY <1>5, <1>8, <2>2 DEF Less
    <3>2. limits'[t].hi <= index
      BY <1>3, <3>1 DEF PlanInv
    <3>3. limits'[u].lo = index
      BY <1>1, <1>4, <1>8, <2>2 DEF NextLimits, SetLimits
    <3> QED
      BY <3>2, <3>3
  <2>3. CASE t = s /\ u # s
    <3>1. limits[u] # Zero
      BY <1>3, <1>8, <2>3
    <3>2. ~Less(CL(s), CL(u))
      BY <1>8, <2>3, <3>1 DEF PositionInv
    <3> QED
      BY <1>8, <2>3, <3>2
  <2> QED
    BY <2>1, <2>2, <2>3
<1>9. KeepsPosition'
  BY <1>2, <1>8 DEF KeepsPosition, Less
<1> QED
  BY <1>7, <1>9 DEF PositionInv

(***************************************************************************)
(* The stacks that had traffic keep their relative position.               *)
(***************************************************************************)
THEOREM PositionCorrect == Spec => []PositionInv
<1>1. Init => PositionInv
  BY DEF Init, PositionInv, KeepsPosition
<1>2. TypeOK /\ PlanInv /\ PositionInv /\ [Next]_vars => PositionInv'
  <2> SUFFICES ASSUME TypeOK, PlanInv, PositionInv, [Next]_vars
               PROVE  PositionInv'
    OBVIOUS
  <2>1. CASE StartPass
    BY <2>1 DEF StartPass, FreshPlan, PositionInv, KeepsPosition
  <2>2. ASSUME NEW s \in Stacks, LayOutExisting(s) \/ LayOutNew(s)
        PROVE  PositionInv'
    <3>1. s \in todo /\ pc = "layout" /\ UNCHANGED cluster
      BY <2>2 DEF LayOutExisting, LayOutNew
    <3> QED
      BY <2>2, <3>1, PositionExtended
  <2>3. CASE EndLayout \/ EndPass \/ Crash
    BY <2>3, PositionIdle DEF EndLayout, EndPass, Crash
  <2>4. ASSUME NEW s \in Stacks,
               \/ WriteIngressSegment(s) \/ WriteRouteGroupSegment(s)
               \/ FailIngressSegment(s) \/ FailRouteGroupSegment(s) \/ ReplaceStack(s)
        PROVE  PositionInv'
    BY <2>4, PositionIdle
       DEF WriteIngressSegment, WriteRouteGroupSegment, FailIngressSegment,
           FailRouteGroupSegment, ReplaceStack, Reconciled
  <2>5. CASE UNCHANGED vars
    <3>1. UNCHANGED <<cluster, pc, limits, todo>>
      BY <2>5 DEF vars, plan
    <3>2. todo \subseteq Stacks
      BY DEF TypeOK
    <3> QED
      BY <3>1, <3>2, CollectedKept DEF PositionInv, KeepsPosition, Less
  <2> QED
    BY <2>1, <2>2, <2>3, <2>4, <2>5 DEF Next, LayOut, Write, Disturb
<1> QED
  BY <1>1, <1>2, TypeCorrect, PlanCorrect, PTL DEF Spec

\* Stacks that had traffic keep their relative position.
THEOREM PositionIsKept == Spec => []KeepsPosition
<1>1. PositionInv => KeepsPosition
  BY DEF PositionInv
<1> QED
  BY <1>1, PositionCorrect, PTL

-----------------------------------------------------------------------------
\* The steps after which nothing is claimed: something went wrong.
LEMMA WrittenNotClean ==
    ASSUME clean' = FALSE
    PROVE  WrittenInv'
BY DEF WrittenInv

\* The next segment is as wide as the weight of its stack.
LEMMA WidthOfNext ==
    ASSUME TypeOK, NEW s \in Stacks
    PROVE  Width(NextLimits(s)) = weight[s]
<1>1. weight[s] \in Nat /\ index \in Nat
  BY TotalAssumption DEF TypeOK
<1> QED
  BY <1>1 DEF NextLimits, SetLimits, Width, Zero

\* Laying out a segment gives its stack the width of its weight.
LEMMA WrittenByLayout ==
    ASSUME TypeOK, WrittenInv, NEW s \in Stacks, LayOutExisting(s) \/ LayOutNew(s)
    PROVE  WrittenInv'
<1> SUFFICES ASSUME clean
             PROVE  \A t \in Stacks \ todo' : Width(limits'[t]) = weight'[t]
  BY DEF WrittenInv, LayOutExisting, LayOutNew, history
<1>1. /\ limits' = [limits EXCEPT ![s] = NextLimits(s)]
      /\ todo' = todo \ {s}
      /\ weight' = weight
      /\ limits \in [Stacks -> Segment]
  BY DEF LayOutExisting, LayOutNew, Place, TypeOK
<1>2. \A t \in Stacks \ todo : Width(limits[t]) = weight[t]
  BY DEF WrittenInv
<1>3. Width(NextLimits(s)) = weight[s]
  BY WidthOfNext
<1> QED
  BY <1>1, <1>2, <1>3

\* Writing the two segments of a stack leaves it with what was laid out for it.
LEMMA WrittenByWrite ==
    ASSUME TypeOK, WrittenInv, NEW s \in Stacks,
           WriteIngressSegment(s) \/ WriteRouteGroupSegment(s)
    PROVE  WrittenInv'
<1> SUFFICES ASSUME clean
             PROVE  WrittenInv'
  BY DEF WrittenInv, WriteIngressSegment, WriteRouteGroupSegment, history
<1>1. /\ UNCHANGED <<weight, limits, todo>>
      /\ pc \in {"ingress", "routegroup"} /\ pc' \in {"ingress", "routegroup"}
  BY DEF WriteIngressSegment, WriteRouteGroupSegment, Reconciled, plan
<1>2. CASE WriteIngressSegment(s)
  <2>1. /\ ingress' = [ingress EXCEPT ![s] = GeneratedSegment(HasIngress, s)]
        /\ UNCHANGED <<routegroup, pending>> /\ current' = s
    BY <1>2 DEF WriteIngressSegment
  <2>2. ingress \in [Stacks -> Segment \union {NoSegment}]
    BY DEF TypeOK
  <2>3. ingress'[s] = GeneratedSegment(HasIngress, s)
    BY <2>1, <2>2
  <2>4. \A t \in Stacks : t # s => ingress'[t] = ingress[t]
    BY <2>1, <2>2
  <2> QED
    BY <1>1, <2>1, <2>3, <2>4 DEF WrittenInv, Holds, GeneratedSegment
<1>3. CASE WriteRouteGroupSegment(s)
  <2>1. /\ routegroup' = [routegroup EXCEPT ![s] = GeneratedSegment(HasRouteGroup, s)]
        /\ UNCHANGED ingress /\ s = current
        /\ pc = "routegroup" /\ pc' = "ingress" /\ pending' = pending \ {s}
    BY <1>3 DEF WriteRouteGroupSegment, Reconciled
  <2>2. routegroup \in [Stacks -> Segment \union {NoSegment}]
    BY DEF TypeOK
  <2>3. routegroup'[s] = GeneratedSegment(HasRouteGroup, s)
    BY <2>1, <2>2
  <2>4. \A t \in Stacks : t # s => routegroup'[t] = routegroup[t]
    BY <2>1, <2>2
  <2>5. Holds(ingress, HasIngress, s)
    BY <2>1 DEF WrittenInv
  <2> QED
    BY <1>1, <2>1, <2>3, <2>4, <2>5 DEF WrittenInv, Holds, GeneratedSegment
<1> QED
  BY <1>2, <1>3

\* A stack that takes the place of one without traffic needs no segment to be right.
LEMMA WrittenByReplace ==
    ASSUME TypeOK, WrittenInv, NEW s \in Stacks, ReplaceStack(s)
    PROVE  WrittenInv'
<1> SUFFICES ASSUME clean
             PROVE  WrittenInv'
  BY DEF WrittenInv, ReplaceStack, history
<1>1. /\ UNCHANGED <<weight, limits, todo, pending, pc>>
      /\ pc = "idle" /\ weight[s] = 0
      /\ ingress' = [ingress EXCEPT ![s] = NoSegment]
      /\ routegroup' = [routegroup EXCEPT ![s] = NoSegment]
  BY DEF ReplaceStack, plan, queue
<1>2. \A t \in Stacks : /\ ingress'[t] = IF t = s THEN NoSegment ELSE ingress[t]
                        /\ routegroup'[t] = IF t = s THEN NoSegment ELSE routegroup[t]
  BY <1>1 DEF TypeOK
<1> QED
  BY <1>1, <1>2 DEF WrittenInv, Holds, GeneratedSegment

(***************************************************************************)
(* While nothing goes wrong, the stacks a pass is done with have the       *)
(* segments laid out for them: the invariant behind CleanPassExact.        *)
(***************************************************************************)
THEOREM WrittenCorrect == Spec => []WrittenInv
<1>1. Init => WrittenInv
  BY DEF Init, WrittenInv
<1>2. TypeOK /\ WrittenInv /\ [Next]_vars => WrittenInv'
  <2> SUFFICES ASSUME TypeOK, WrittenInv, [Next]_vars
               PROVE  WrittenInv'
    OBVIOUS
  <2>1. CASE StartPass
    <3>1. CASE \E s \in Stacks : Mismatch(s)
      BY <2>1, <3>1, WrittenNotClean DEF StartPass
    <3>2. CASE ~\E s \in Stacks : Mismatch(s)
      <4>1. /\ pc' = "layout" /\ pending' = Stacks /\ limits' = [s \in Stacks |-> Zero]
            /\ todo' = {s \in Stacks : Active(s) \/ weight'[s] > 0}
            /\ weight' \in [Stacks -> 0..Total]
        BY <2>1, <3>2, SplitsAssumption DEF StartPass, FreshPlan
      <4>2. \A s \in Stacks \ todo' : Width(limits'[s]) = weight'[s]
        BY <4>1, TotalAssumption DEF Width, Zero
      <4> QED
        BY <4>1, <4>2 DEF WrittenInv
    <3> QED
      BY <3>1, <3>2
  <2>2. ASSUME NEW s \in Stacks, LayOutExisting(s) \/ LayOutNew(s)
        PROVE  WrittenInv'
    BY <2>2, WrittenByLayout
  <2>3. CASE EndLayout
    <3>1. /\ UNCHANGED <<cluster, weight, limits, todo, pending, clean>>
          /\ pc' = "ingress" /\ todo = {}
      BY <2>3 DEF EndLayout, plan, queue, history
    <3>2. clean => pending = Stacks
      BY <2>3 DEF EndLayout, WrittenInv
    <3> QED
      BY <3>1, <3>2 DEF WrittenInv
  <2>4. CASE EndPass
    BY <2>4 DEF EndPass, WrittenInv, Holds, GeneratedSegment, cluster, plan, queue, history
  <2>5. ASSUME NEW s \in Stacks, WriteIngressSegment(s) \/ WriteRouteGroupSegment(s)
        PROVE  WrittenInv'
    BY <2>5, WrittenByWrite
  <2>6. ASSUME NEW s \in Stacks, FailIngressSegment(s) \/ FailRouteGroupSegment(s)
        PROVE  WrittenInv'
    BY <2>6, WrittenNotClean DEF FailIngressSegment, FailRouteGroupSegment, Fail
  <2>7. CASE Crash
    BY <2>7, WrittenNotClean DEF Crash, Fail
  <2>8. ASSUME NEW s \in Stacks, ReplaceStack(s)
        PROVE  WrittenInv'
    BY <2>8, WrittenByReplace
  <2>9. CASE UNCHANGED vars
    BY <2>9 DEF vars, WrittenInv, Holds, GeneratedSegment, cluster, plan, queue, history
  <2> QED
    BY <2>1, <2>2, <2>3, <2>4, <2>5, <2>6, <2>7, <2>8, <2>9
       DEF Next, LayOut, Write, Disturb
<1> QED
  BY <1>1, <1>2, TypeCorrect, PTL DEF Spec

(***************************************************************************)
(* After a pass in which nothing went wrong no request can reach two       *)
(* stacks, and every stack has the share its weight says: what the cluster *)
(* holds is what was laid out (WrittenInv), and that is disjoint.          *)
(***************************************************************************)
THEOREM CleanPassIsExact == Spec => []CleanPassExact
<1>1. TypeOK /\ PlanInv /\ WrittenInv => CleanPassExact
  <2> SUFFICES ASSUME TypeOK, PlanInv, WrittenInv, pc = "idle", clean
               PROVE  Exact(weight)
    BY DEF CleanPassExact
  <2>1. \A s \in Stacks : /\ Holds(ingress, HasIngress, s)
                          /\ Holds(routegroup, HasRouteGroup, s)
                          /\ Width(limits[s]) = weight[s]
    BY DEF WrittenInv
  <2>2. \A s \in HasIngress : Width(ingress[s]) = weight[s]
    BY <2>1, KindsAssumption DEF Holds, GeneratedSegment, Width, NoSegment
  <2>3. \A s \in HasRouteGroup : Width(routegroup[s]) = weight[s]
    BY <2>1, KindsAssumption DEF Holds, GeneratedSegment, Width, NoSegment
  <2>4. ASSUME NEW x \in 0..(Total - 1), NEW s \in Serving(x)
        PROVE  s \in Stacks /\ In(x, limits[s])
    BY <2>1, <2>4, TotalAssumption DEF Serving, Holds, GeneratedSegment, In, NoSegment
  <2>5. ASSUME NEW x \in 0..(Total - 1), NEW s \in Serving(x), NEW t \in Serving(x)
        PROVE  s = t
    <3>1. /\ s \in Stacks /\ limits[s] \in Segment /\ In(x, limits[s])
          /\ t \in Stacks /\ limits[t] \in Segment /\ In(x, limits[t])
      BY <2>4 DEF TypeOK
    <3>2. x \in Nat
      BY TotalAssumption
    <3> QED
      BY <3>1, <3>2 DEF PlanInv, PlanDisjoint, In, Segment, Zero
  <2> QED
    BY <2>2, <2>3, <2>5 DEF Exact
<1> QED
  BY <1>1, TypeCorrect, PlanCorrect, WrittenCorrect, PTL

-----------------------------------------------------------------------------
(***************************************************************************)
(* A cluster in sync stays so.                                             *)
(*                                                                         *)
(* Traffic is only given to stacks that have an ingress or a routegroup of *)
(* their own.  (A StackSet with an external ingress gives it to others as  *)
(* well; then there is nothing that their segments could route.)           *)
(***************************************************************************)
Routable ==
    \A w \in Splits : \A s \in Stacks : w[s] > 0 => s \in HasIngress \union HasRouteGroup

\* A segment that routes something routes no more than the whole.
Proper(seg) == seg = Zero \/ (seg \in Segment /\ seg.lo < seg.hi /\ seg.hi <= Total)

\* What is laid out and what is not yet make up the whole.
WholeInv ==
    /\ weight \in Splits
    /\ index <= Total
    /\ pc = "layout" => index + SumOver(weight, todo) = Total
    /\ pc # "layout" /\ clean => index = Total

\* So all segments, planned or in the cluster, are parts of it.
ClusterInv ==
    \A s \in Stacks : /\ Proper(limits[s])
                      /\ ingress[s] = NoSegment \/ Proper(ingress[s])
                      /\ routegroup[s] = NoSegment \/ Proper(routegroup[s])

\* A pass that finds the cluster in sync lays out what is there.
Relaid(s) ==
    IF weight[s] = 0
    THEN limits[s] = Zero
    ELSE /\ s \in HasIngress => ingress[s] = CollectedLimits(s)
         /\ s \in HasRouteGroup => routegroup[s] = CollectedLimits(s)
         /\ s \notin todo => limits[s] = CollectedLimits(s)

SettledInv ==
    settled /\ pc # "idle" =>
        /\ InSync
        /\ pc # "layout" => todo = {}
        /\ \A s \in todo : weight[s] > 0
        /\ \A s \in Stacks : Relaid(s)

\* The numbers of a state.
LEMMA Numbers ==
    ASSUME TypeOK
    PROVE  /\ IsFiniteSet(Stacks) /\ Total \in Nat \ {0} /\ index \in Nat
           /\ \A s \in Stacks : /\ weight[s] \in Nat
                                /\ limits[s] \in Segment /\ CollectedLimits(s) \in Segment
           /\ todo \in SUBSET Stacks
BY StacksAssumption, TotalAssumption, LimitsType DEF TypeOK

\* The whole is the sum of the weights.
LEMMA SplitIsWhole ==
    ASSUME NEW w \in Splits
    PROVE  /\ w \in [Stacks -> 0..Total] /\ SumOver(w, Stacks) = Total
           /\ \A s \in Stacks : w[s] \in Nat
<1>1. w \in [Stacks -> 0..Total] /\ SumOf(w) = Total
  BY SplitsAssumption
<1>2. SumOf(w) = SumOver(w, DOMAIN w)
  BY DEF SumOf, SumOver
<1>3. \A s \in Stacks : w[s] \in Nat
  BY <1>1, TotalAssumption
<1> QED BY <1>1, <1>2, <1>3

\* Disjoint sets have as many elements as their numbers of elements add up to.
LEMMA CountDisjoint ==
    ASSUME NEW S, IsFiniteSet(S), NEW c, NEW w,
           \A s \in S : IsFiniteSet(c[s]) /\ Cardinality(c[s]) = w[s],
           \A s \in S, t \in S : s # t => c[s] \intersect c[t] = {}
    PROVE  Cardinality(UNION {c[s] : s \in S}) = SumOver(w, S)
<1> DEFINE all(U) == UNION {c[s] : s \in U}
           P == {U \in SUBSET S : IsFiniteSet(all(U)) /\ Cardinality(all(U)) = SumOver(w, U)}
<1>1. {} \in P
  <2>1. all({}) = {}
    OBVIOUS
  <2> QED BY <2>1, FS_EmptySet, SumEmpty
<1>2. ASSUME NEW U \in SUBSET S, NEW x \in S, U \in P, x \notin U PROVE U \union {x} \in P
  <2>1. IsFiniteSet(U) /\ \A s \in S : w[s] \in Int
    <3>1. \A s \in S : w[s] \in Nat
      BY FS_CardinalityType
    <3> QED BY <3>1, FS_Subset
  <2>2. all(U \union {x}) = all(U) \union c[x] /\ all(U) \intersect c[x] = {}
    BY <1>2
  <2>3. IsFiniteSet(all(U)) /\ Cardinality(all(U)) = SumOver(w, U)
    BY <1>2
  <2> HIDE DEF all
  <2>4. /\ IsFiniteSet(all(U) \union c[x])
        /\ Cardinality(all(U) \union c[x])
              = Cardinality(all(U)) + Cardinality(c[x]) - Cardinality({})
    <3>1. IsFiniteSet(c[x])
      OBVIOUS
    <3> QED BY <2>2, <2>3, <3>1, FS_Union
  <2>5. SumOver(w, U \union {x}) = w[x] + SumOver(w, U) /\ SumOver(w, U) \in Int
    <3>1. \A s \in U \union {x} : w[s] \in Int
      BY <2>1
    <3> QED BY <1>2, <2>1, <3>1, SumAdd, SumInt
  <2>6. Cardinality({}) = 0 /\ Cardinality(c[x]) = w[x] /\ w[x] \in Int
    BY <2>1, FS_EmptySet
  <2>7. U \union {x} \in SUBSET S
    OBVIOUS
  <2>8. IsFiniteSet(all(U \union {x}))
    BY <2>2, <2>4
  <2>9. Cardinality(all(U \union {x})) = Cardinality(all(U)) + Cardinality(c[x]) - Cardinality({})
    BY <2>2, <2>4
  <2>10. Cardinality(all(U \union {x})) = SumOver(w, U) + w[x]
    BY <2>3, <2>5, <2>6, <2>9
  <2>11. Cardinality(all(U \union {x})) = SumOver(w, U \union {x})
    BY <2>5, <2>6, <2>10
  <2> QED BY <2>7, <2>8, <2>11
<1>3. S \in P
  <2> HIDE DEF P
  <2> QED BY <1>1, <1>2, FiniteInduction
<1> QED BY <1>3

\* The slices of a segment.
Slices(seg) == {x \in 0..(Total - 1) : In(x, seg)}

\* A proper segment has as many slices as it is wide.
LEMMA SlicesOfSegment ==
    ASSUME NEW seg, Proper(seg)
    PROVE  /\ IsFiniteSet(Slices(seg)) /\ Cardinality(Slices(seg)) = Width(seg)
           /\ Width(seg) = 0 <=> seg = Zero
<1>1. seg.lo \in Nat /\ seg.hi \in Nat /\ seg.lo <= seg.hi /\ seg.hi <= Total /\ Total \in Nat
  BY TotalAssumption DEF Proper, Zero, Segment
<1>2. Slices(seg) = (seg.lo)..(seg.hi - 1)
  BY <1>1 DEF Slices, In
<1> DEFINE a == seg.lo
           b == seg.hi - 1
<1>3. a \in Int /\ b \in Int
  BY <1>1
<1>4. Slices(seg) = a..b
  BY <1>2
<1> HIDE DEF a, b
<1>5. IsFiniteSet(a..b) /\ Cardinality(a..b) = IF a > b THEN 0 ELSE b - a + 1
  BY <1>3, FS_Interval
<1>6. (IF a > b THEN 0 ELSE b - a + 1) = Width(seg)
  BY <1>1 DEF a, b, Width
<1>7. Width(seg) = 0 <=> seg = Zero
  BY <1>1 DEF Width, Proper, Zero
<1> QED BY <1>4, <1>5, <1>6, <1>7

(***************************************************************************)
(* If the segments of a cluster are in sync with weights, then the two     *)
(* resources of a stack with traffic agree: the segments that count for    *)
(* the stacks are disjoint and make up the whole, so there is no slice     *)
(* left for another one.                                                   *)
(***************************************************************************)
LEMMA SyncedAgree ==
    ASSUME TypeOK, ClusterInv, NEW w \in Splits, Routable, Follows(w), NEW s \in Stacks
    PROVE  /\ Width(CollectedLimits(s)) = w[s]
           /\ ~Mismatch(s)
           /\ w[s] > 0 => /\ s \in HasIngress => ingress[s] = CollectedLimits(s)
                          /\ s \in HasRouteGroup => routegroup[s] = CollectedLimits(s)
<1> DEFINE C(t) == CollectedLimits(t)
           c == [t \in Stacks |-> Slices(C(t))]
<1>1. /\ w \in [Stacks -> 0..Total] /\ SumOver(w, Stacks) = Total
      /\ \A t \in Stacks : w[t] \in Nat
  BY SplitIsWhole
<1>2. /\ \A t \in HasIngress : Width(ingress[t]) = w[t]
      /\ \A t \in HasRouteGroup : Width(routegroup[t]) = w[t]
  BY DEF Follows, Exact
<1>3. \A t \in Stacks :
        /\ Width(C(t)) = w[t] /\ Proper(C(t))
        /\ w[t] > 0 => \/ t \in HasIngress /\ ingress[t] = C(t)
                       \/ t \in HasRouteGroup /\ routegroup[t] = C(t)
        /\ w[t] > 0 /\ t \in HasRouteGroup => routegroup[t] = C(t)
        /\ w[t] > 0 /\ t \in HasIngress /\ t \notin HasRouteGroup => ingress[t] = C(t)
  <2> SUFFICES ASSUME NEW t \in Stacks
               PROVE  /\ Width(C(t)) = w[t] /\ Proper(C(t))
                      /\ w[t] > 0 => \/ t \in HasIngress /\ ingress[t] = C(t)
                                     \/ t \in HasRouteGroup /\ routegroup[t] = C(t)
                      /\ w[t] > 0 /\ t \in HasRouteGroup => routegroup[t] = C(t)
                      /\ w[t] > 0 /\ t \in HasIngress /\ t \notin HasRouteGroup => ingress[t] = C(t)
    OBVIOUS
  <2>1. w[t] > 0 => t \in HasIngress \union HasRouteGroup
    BY DEF Routable
  <2>2. Width(NoSegment) = 0 /\ Width(Zero) = 0 /\ Proper(Zero)
    BY DEF Width, NoSegment, Zero, Proper
  <2>3. /\ ingress[t] = NoSegment \/ Proper(ingress[t])
        /\ routegroup[t] = NoSegment \/ Proper(routegroup[t])
    BY DEF ClusterInv
  <2>4. w[t] \in Nat
    BY <1>1
  <2>5. C(t) = IF t \in HasRouteGroup /\ routegroup[t] # NoSegment THEN routegroup[t]
               ELSE IF t \in HasIngress /\ ingress[t] # NoSegment THEN ingress[t] ELSE Zero
    BY DEF CollectedLimits, HasRouteGroupSegment, IngressLimits
  <2>6. \A seg : Proper(seg) => (Width(seg) = 0 <=> seg = Zero)
    BY SlicesOfSegment
  <2> HIDE DEF C
  <2>7. CASE t \in HasRouteGroup /\ routegroup[t] # NoSegment
    BY <1>2, <2>3, <2>5, <2>7
  <2>8. CASE ~(t \in HasRouteGroup /\ routegroup[t] # NoSegment)
    <3>1. t \in HasRouteGroup => w[t] = 0
      BY <1>2, <2>2, <2>8
    <3>2. CASE t \in HasIngress /\ ingress[t] # NoSegment
      BY <1>2, <2>3, <2>5, <2>8, <3>1, <3>2
    <3>3. CASE ~(t \in HasIngress /\ ingress[t] # NoSegment)
      <4>1. w[t] = 0
        BY <1>2, <2>1, <2>2, <2>4, <3>1, <3>3
      <4> QED BY <2>2, <2>5, <2>8, <3>3, <4>1
    <3> QED BY <3>2, <3>3
  <2> QED BY <2>7, <2>8
<1> HIDE DEF C
<1>4. \A t \in Stacks : IsFiniteSet(c[t]) /\ Cardinality(c[t]) = w[t]
  BY <1>3, SlicesOfSegment
<1>5. \A t \in Stacks, x \in 0..(Total - 1) : x \in c[t] => t \in Serving(x)
  <2> SUFFICES ASSUME NEW t \in Stacks, NEW x \in 0..(Total - 1), x \in c[t]
               PROVE  t \in Serving(x)
    OBVIOUS
  <2>1. In(x, C(t))
    BY DEF Slices
  <2>2. w[t] > 0
    <3> SUFFICES ASSUME w[t] = 0 PROVE FALSE
      BY <1>1
    <3>1. Width(C(t)) = 0 /\ Proper(C(t))
      BY <1>3
    <3>2. C(t) = Zero
      BY <3>1, SlicesOfSegment
    <3> QED BY <2>1, <3>2, TotalAssumption DEF In, Zero
  <2> QED BY <1>3, <2>1, <2>2 DEF Serving
<1>6. \A t \in Stacks, u \in Stacks : t # u => c[t] \intersect c[u] = {}
  <2> SUFFICES ASSUME NEW t \in Stacks, NEW u \in Stacks, NEW x, x \in c[t], x \in c[u]
               PROVE  t = u
    OBVIOUS
  <2>1. x \in 0..(Total - 1)
    BY DEF Slices
  <2>2. t \in Serving(x) /\ u \in Serving(x)
    BY <1>5, <2>1
  <2> QED BY <2>1, <2>2 DEF Follows, Exact
<1>7. UNION {c[t] : t \in Stacks} = 0..(Total - 1)
  <2> DEFINE all == UNION {c[t] : t \in Stacks}
  <2>1. all \in SUBSET (0..(Total - 1))
    BY DEF Slices
  <2>2. Cardinality(all) = Total
    <3> HIDE DEF c
    <3> QED BY <1>1, <1>4, <1>6, CountDisjoint, StacksAssumption
  <2>3. IsFiniteSet(0..(Total - 1)) /\ Cardinality(0..(Total - 1)) = Total
    BY NumbersBelow, TotalAssumption
  <2> HIDE DEF all
  <2> DEFINE whole == 0..(Total - 1)
  <2>4. all \in SUBSET whole /\ IsFiniteSet(whole) /\ Cardinality(whole) = Cardinality(all)
    BY <2>1, <2>2, <2>3
  <2> HIDE DEF whole
  <2>5. whole = all
    BY <2>4, FS_Subset
  <2> QED BY <2>5 DEF all, whole
<1>8. ASSUME w[s] > 0, s \in HasIngress, s \in HasRouteGroup PROVE ingress[s] = routegroup[s]
  <2> DEFINE a == ingress[s]
             b == routegroup[s]
  <2>1. Width(a) = w[s] /\ Width(b) = w[s] /\ b = C(s)
    BY <1>2, <1>3, <1>8
  <2>2. /\ a \in Segment /\ a.lo < a.hi /\ a.hi <= Total
        /\ b \in Segment /\ b.lo < b.hi /\ b.hi <= Total
    BY <1>8, <2>1 DEF ClusterInv, Proper, NoSegment, Zero, Width
  <2> SUFFICES ASSUME a # b PROVE FALSE
    OBVIOUS
  <2> HIDE DEF a, b
  <2>3. /\ a.lo \in Nat /\ a.hi \in Nat /\ b.lo \in Nat /\ b.hi \in Nat /\ Total \in Nat
        /\ a.hi - a.lo = b.hi - b.lo /\ a.lo # b.lo
    <3>1. a = [lo |-> a.lo, hi |-> a.hi] /\ b = [lo |-> b.lo, hi |-> b.hi]
      BY <2>2 DEF Segment
    <3>2. /\ a.lo \in Nat /\ a.hi \in Nat /\ b.lo \in Nat /\ b.hi \in Nat /\ Total \in Nat
          /\ a.hi - a.lo = b.hi - b.lo
      BY <2>1, <2>2, TotalAssumption DEF Segment, Width
    <3>3. a.lo # b.lo
      <4> SUFFICES ASSUME a.lo = b.lo PROVE FALSE
        OBVIOUS
      <4>1. a.hi = b.hi
        BY <3>2
      <4> QED BY <3>1, <4>1
    <3> QED BY <3>2, <3>3
  <2>4. PICK x \in 0..(Total - 1) : In(x, a) /\ ~In(x, b)
    <3>1. CASE a.lo < b.lo
      BY <2>2, <2>3, <3>1 DEF In
    <3>2. CASE b.lo < a.lo
      <4> DEFINE y == a.hi - 1
      <4>1. y \in 0..(Total - 1) /\ In(y, a) /\ ~In(y, b)
        BY <2>2, <2>3, <3>2 DEF In
      <4> QED BY <4>1
    <3> QED BY <2>3, <3>1, <3>2
  <2>5. PICK u \in Stacks : x \in c[u]
    BY <1>7
  <2>6. u \in Serving(x) /\ s \in Serving(x)
    BY <1>5, <1>8, <2>4, <2>5 DEF Serving, a
  <2>7. u = s
    BY <2>6 DEF Follows, Exact
  <2>8. In(x, C(s))
    BY <2>5, <2>7 DEF Slices
  <2> QED BY <2>1, <2>4, <2>8
<1>9. ~Mismatch(s)
  <2> SUFFICES ASSUME s \in HasRouteGroup, routegroup[s] # NoSegment, s \in HasIngress
               PROVE  IngressLimits(s) = routegroup[s]
    BY DEF Mismatch, HasRouteGroupSegment
  <2>1. CASE w[s] > 0
    <3>1. ingress[s] = routegroup[s]
      BY <1>8, <2>1
    <3> QED BY <3>1 DEF IngressLimits
  <2>2. CASE w[s] = 0
    <3>1. Width(routegroup[s]) = 0 /\ Width(ingress[s]) = 0
      BY <1>2, <2>2
    <3>2. routegroup[s] = Zero
      BY <3>1, SlicesOfSegment DEF ClusterInv
    <3>3. ingress[s] = NoSegment \/ ingress[s] = Zero
      BY <3>1, SlicesOfSegment DEF ClusterInv
    <3> QED BY <3>2, <3>3 DEF IngressLimits
  <2> QED BY <1>1, <2>1, <2>2
<1>10. ASSUME w[s] > 0, s \in HasIngress PROVE ingress[s] = C(s)
  BY <1>3, <1>8, <1>10
<1> QED BY <1>3, <1>9, <1>10 DEF C

\* A pass starts with everything to lay out; stacks that have no weight do not count.
LEMMA WholeAtStart ==
    ASSUME TypeOK, StartPass, pc' = "layout"
    PROVE  index' + SumOver(weight', todo') = Total
<1>1. PICK w \in Splits : weight' = w
  BY DEF StartPass
<1>2. SumOver(w, Stacks) = Total /\ (\A s \in Stacks : w[s] \in Nat)
  BY SplitIsWhole
<1>3. todo' \in SUBSET Stacks /\ (\A s \in Stacks : w[s] > 0 => s \in todo') /\ index' = 0
  BY <1>1 DEF StartPass, FreshPlan
<1>4. SumOver(w, Stacks) = SumOver(w, todo')
  <2>1. (\A s \in Stacks : w[s] \in Int) /\ (\A s \in Stacks \ todo' : w[s] = 0)
    BY <1>2, <1>3
  <2> DEFINE T == todo'
  <2>2. T \in SUBSET Stacks /\ \A s \in Stacks \ T : w[s] = 0
    BY <1>3, <2>1
  <2> HIDE DEF T
  <2>3. SumOver(w, Stacks) = SumOver(w, T)
    BY <2>1, <2>2, StacksAssumption, SumSupport
  <2> QED BY <2>3 DEF T
<1> QED BY <1>1, <1>2, <1>3, <1>4, TotalAssumption

\* What is laid out is taken from what is left, which is enough for it.
LEMMA WholeExtended ==
    ASSUME TypeOK, WholeInv, pc = "layout", NEW s \in todo, NEW changed, Place(s, changed),
           weight' = weight
    PROVE  /\ index' + SumOver(weight', todo') = Total /\ index' <= Total
           /\ index' = index + weight[s]
<1>1. IsFiniteSet(todo) /\ (\A t \in todo : weight[t] \in Nat /\ weight[t] \in Int)
  <2>1. \A t \in todo : weight[t] \in Nat
    BY Numbers
  <2>2. IsFiniteSet(todo)
    BY Numbers, FS_Subset
  <2> QED BY <2>1, <2>2
<1>2. SumOver(weight, todo) = weight[s] + SumOver(weight, todo \ {s})
  BY <1>1, SumRemove
<1>3. SumOver(weight, todo \ {s}) \in Nat
  <2>1. IsFiniteSet(todo \ {s}) /\ \A t \in todo \ {s} : weight[t] \in Nat
    BY <1>1, FS_Subset
  <2> QED BY <2>1, SumNat
<1>4. index' = index + weight[s] /\ todo' = todo \ {s}
  BY DEF Place
<1>5. index + SumOver(weight, todo) = Total /\ index \in Nat /\ weight[s] \in Nat
  BY <1>1, Numbers DEF WholeInv
<1>6. index' + SumOver(weight, todo \ {s}) = Total
  BY <1>2, <1>3, <1>4, <1>5
<1>7. index' <= Total
  BY <1>3, <1>4, <1>5, <1>6
<1> QED BY <1>4, <1>6, <1>7

\* Steps that leave the plan and the weights alone.
LEMMA WholeKept ==
    ASSUME WholeInv, UNCHANGED <<weight, index, todo>>,
           pc' = "layout" => pc = "layout",
           pc' # "layout" /\ clean' => index = Total
    PROVE  WholeInv'
BY DEF WholeInv

\* What is laid out and what is not yet make up the whole, at every step.
LEMMA WholeCorrect == Spec => []WholeInv
<1>1. Init => WholeInv
  BY TotalAssumption DEF Init, WholeInv
<1>2. TypeOK /\ WholeInv /\ [Next]_vars => WholeInv'
  <2> SUFFICES ASSUME TypeOK, WholeInv, [Next]_vars PROVE WholeInv'
    OBVIOUS
  <2>1. CASE StartPass
    <3>1. weight' \in Splits /\ index' = 0 /\ (pc' # "layout" => ~clean')
      BY <2>1 DEF StartPass, FreshPlan
    <3> QED BY <2>1, <3>1, WholeAtStart, TotalAssumption DEF WholeInv
  <2>2. ASSUME NEW s \in Stacks, LayOutExisting(s) \/ LayOutNew(s) PROVE WholeInv'
    <3>1. /\ s \in todo /\ pc = "layout" /\ pc' = "layout" /\ weight' = weight
          /\ \E changed : Place(s, changed)
      BY <2>2 DEF LayOutExisting, LayOutNew
    <3> QED BY <3>1, WholeExtended DEF WholeInv
  <2>3. CASE EndLayout
    <3>1. todo = {} /\ pc = "layout" /\ pc' # "layout" /\ UNCHANGED <<weight, index, todo>>
      BY <2>3 DEF EndLayout, plan
    <3>2. index = Total
      BY <3>1, SumEmpty, Numbers DEF WholeInv
    <3> QED BY <3>1, <3>2, WholeKept
  <2>4. CASE Crash
    <3>1. ~clean' /\ index' = 0 /\ pc' = "idle" /\ weight' = weight
      BY <2>4 DEF Crash, Fail, FreshPlan
    <3> QED BY <3>1, TotalAssumption DEF WholeInv
  <2>5. ASSUME NEW s \in Stacks,
               \/ WriteIngressSegment(s) \/ WriteRouteGroupSegment(s)
               \/ FailIngressSegment(s) \/ FailRouteGroupSegment(s) \/ ReplaceStack(s)
        PROVE  WholeInv'
    <3>1. /\ UNCHANGED <<weight, index, todo>>
          /\ pc # "layout" /\ pc' # "layout" /\ (clean' => clean)
      BY <2>5
         DEF WriteIngressSegment, WriteRouteGroupSegment, FailIngressSegment,
             FailRouteGroupSegment, ReplaceStack, Reconciled, Fail, plan, history
    <3> QED BY <3>1, WholeKept DEF WholeInv
  <2>6. CASE EndPass \/ UNCHANGED vars
    BY <2>6, WholeKept DEF EndPass, vars, plan, history, WholeInv
  <2> QED BY <2>1, <2>2, <2>3, <2>4, <2>5, <2>6 DEF Next, LayOut, Write, Disturb
<1> QED BY <1>1, <1>2, TypeCorrect, PTL DEF Spec

\* What is written is what was laid out, or nothing.
LEMMA ClusterWritten ==
    ASSUME ClusterInv, UNCHANGED limits,
           \A s \in Stacks :
               /\ ingress'[s] \in {ingress[s], NoSegment, GeneratedSegment(HasIngress, s)}
               /\ routegroup'[s] \in {routegroup[s], NoSegment, GeneratedSegment(HasRouteGroup, s)}
    PROVE  ClusterInv'
<1> SUFFICES ASSUME NEW s \in Stacks
             PROVE  /\ Proper(limits'[s])
                    /\ ingress'[s] = NoSegment \/ Proper(ingress'[s])
                    /\ routegroup'[s] = NoSegment \/ Proper(routegroup'[s])
  BY DEF ClusterInv, Proper, Zero, NoSegment, Segment
<1>1. /\ Proper(limits[s])
      /\ ingress[s] = NoSegment \/ Proper(ingress[s])
      /\ routegroup[s] = NoSegment \/ Proper(routegroup[s])
  BY DEF ClusterInv
<1>2. \A has : GeneratedSegment(has, s) \in {limits[s], NoSegment}
  BY DEF GeneratedSegment
<1> QED BY <1>1, <1>2

\* Segments that are reset or laid out are parts of the whole.
LEMMA ClusterPlanned ==
    ASSUME ClusterInv, UNCHANGED cluster, \A s \in Stacks : Proper(limits'[s])
    PROVE  ClusterInv'
BY DEF ClusterInv, cluster, Proper, Zero, NoSegment, Segment

\* All segments, planned or in the cluster, are parts of the whole.
LEMMA ClusterCorrect == Spec => []ClusterInv
<1>1. Init => ClusterInv
  BY DEF Init, ClusterInv, Proper
<1>2. TypeOK /\ WholeInv /\ ClusterInv /\ [Next]_vars => ClusterInv'
  <2> SUFFICES ASSUME TypeOK, WholeInv, ClusterInv, [Next]_vars PROVE ClusterInv'
    OBVIOUS
  <2>1. CASE StartPass \/ Crash
    BY <2>1, ClusterPlanned DEF StartPass, Crash, FreshPlan, Proper
  <2>2. ASSUME NEW s \in Stacks, LayOutExisting(s) \/ LayOutNew(s) PROVE ClusterInv'
    <3>1. /\ s \in todo /\ pc = "layout" /\ weight' = weight /\ UNCHANGED cluster
          /\ limits' = [limits EXCEPT ![s] = NextLimits(s)]
          /\ \E changed : Place(s, changed)
      BY <2>2 DEF LayOutExisting, LayOutNew, Place
    <3>2. index' = index + weight[s] /\ index' <= Total
      BY <3>1, WholeExtended
    <3>3. Proper(NextLimits(s))
      <4>1. index \in Nat /\ weight[s] \in Nat /\ NextLimits(s) \in Segment
        BY Numbers, LimitsType
      <4> QED BY <3>2, <4>1 DEF NextLimits, SetLimits, Proper
    <3>4. \A t \in Stacks : limits'[t] = IF t = s THEN NextLimits(s) ELSE limits[t]
      BY <3>1 DEF TypeOK
    <3>5. \A t \in Stacks : Proper(limits'[t])
      BY <3>3, <3>4 DEF ClusterInv
    <3> QED BY <3>1, <3>5, ClusterPlanned
  <2>3. CASE EndLayout \/ EndPass \/ UNCHANGED vars
    BY <2>3, ClusterWritten DEF EndLayout, EndPass, vars, cluster, plan
  <2>4. ASSUME NEW s \in Stacks,
               \/ WriteIngressSegment(s) \/ WriteRouteGroupSegment(s)
               \/ FailIngressSegment(s) \/ FailRouteGroupSegment(s) \/ ReplaceStack(s)
        PROVE  ClusterInv'
    <3>1. UNCHANGED limits
      BY <2>4
         DEF WriteIngressSegment, WriteRouteGroupSegment, FailIngressSegment,
             FailRouteGroupSegment, ReplaceStack, plan
    <3>2. \A t \in Stacks :
            /\ ingress'[t] \in {ingress[t], NoSegment, GeneratedSegment(HasIngress, t)}
            /\ routegroup'[t] \in {routegroup[t], NoSegment, GeneratedSegment(HasRouteGroup, t)}
      BY <2>4
         DEF WriteIngressSegment, WriteRouteGroupSegment, FailIngressSegment,
             FailRouteGroupSegment, ReplaceStack, TypeOK
    <3> QED BY <3>1, <3>2, ClusterWritten
  <2> QED BY <2>1, <2>2, <2>3, <2>4 DEF Next, LayOut, Write, Disturb
<1> QED BY <1>1, <1>2, TypeCorrect, WholeCorrect, PTL DEF Spec

\* A cluster in which every resource routes the same slices is as much in sync.
LEMMA SyncKept ==
    ASSUME NEW w, Follows(w), weight' = w,
           \A t \in HasIngress :
               /\ Width(ingress'[t]) = Width(ingress[t])
               /\ \A x \in 0..(Total - 1) : In(x, ingress'[t]) <=> In(x, ingress[t]),
           \A t \in HasRouteGroup :
               /\ Width(routegroup'[t]) = Width(routegroup[t])
               /\ \A x \in 0..(Total - 1) : In(x, routegroup'[t]) <=> In(x, routegroup[t])
    PROVE  InSync'
<1>1. \A x \in 0..(Total - 1) : Serving(x)' = Serving(x)
  BY DEF Serving, In
<1>2. NoGap'
  BY <1>1 DEF Follows, NoGap
<1>3. Exact(weight)'
  BY <1>1 DEF Follows, Exact, Width
<1> QED BY <1>2, <1>3 DEF InSync, Follows

\* A pass that finds the cluster in sync lays out the stacks with traffic.
LEMMA SettledAtStart ==
    ASSUME TypeOK, ClusterInv, Routable, StartPass, settled'
    PROVE  SettledInv'
<1>1. PICK w \in Splits : weight' = w /\ settled' = Follows(w)
  BY DEF StartPass
<1>2. Follows(w) /\ UNCHANGED cluster
  BY <1>1 DEF StartPass
<1>3. \A s \in Stacks :
        /\ Width(CollectedLimits(s)) = w[s]
        /\ ~Mismatch(s)
        /\ w[s] > 0 => /\ s \in HasIngress => ingress[s] = CollectedLimits(s)
                       /\ s \in HasRouteGroup => routegroup[s] = CollectedLimits(s)
  BY <1>2, SyncedAgree
<1>4. /\ pc' = "layout" /\ todo' = {s \in Stacks : Active(s) \/ weight'[s] > 0}
      /\ limits' = [s \in Stacks |-> Zero]
  BY <1>3 DEF StartPass, FreshPlan
<1>5. \A s \in Stacks : w[s] \in Nat
  BY SplitIsWhole
<1>6. \A s \in todo' : weight'[s] > 0
  BY <1>1, <1>3, <1>4, <1>5 DEF Active
<1>7. InSync'
  <2>1. ingress' = ingress /\ routegroup' = routegroup
    BY <1>2 DEF cluster
  <2> QED BY <1>1, <1>2, <2>1, SyncKept
<1>8. \A s \in Stacks : CollectedLimits(s)' = CollectedLimits(s)
  BY <1>2, CollectedKept
<1>9. ASSUME NEW s \in Stacks PROVE Relaid(s)'
  <2>1. CASE w[s] = 0
    BY <1>1, <1>4, <2>1 DEF Relaid
  <2>2. CASE w[s] > 0
    BY <1>1, <1>2, <1>3, <1>4, <1>8, <2>2 DEF Relaid, cluster
  <2> QED BY <1>5, <2>1, <2>2
<1> QED BY <1>4, <1>6, <1>7, <1>9 DEF SettledInv

\* The next segment it lays out is the one that is there: the slice at index is
\* routed to the first of the stacks that are left, and to no stack laid out.
LEMMA NextIsThere ==
    ASSUME TypeOK, PlanInv, WholeInv, ClusterInv, SettledInv, Routable, settled,
           pc = "layout", NEW s \in todo, LayOutExisting(s) \/ LayOutNew(s)
    PROVE  NextLimits(s) = CollectedLimits(s) /\ weight[s] > 0
<1> DEFINE C(t) == CollectedLimits(t)
<1>1. /\ weight \in Splits /\ Follows(weight) /\ weight[s] > 0 /\ s \in Stacks
      /\ \A t \in Stacks : Relaid(t)
  BY DEF SettledInv, InSync, WholeInv, TypeOK
<1>2. /\ Total \in Nat /\ index \in Nat
      /\ \A t \in Stacks : /\ weight[t] \in Nat /\ Width(C(t)) = weight[t]
                           /\ C(t).lo \in Nat /\ C(t).hi \in Nat
                           /\ C(t) = [lo |-> C(t).lo, hi |-> C(t).hi]
  <2>1. \A t \in Stacks : Width(C(t)) = weight[t]
    BY <1>1, SyncedAgree
  <2> QED BY <2>1, Numbers DEF Segment
<1>3. index + weight[s] <= Total
  <2>1. PICK changed : Place(s, changed)
    BY DEF LayOutExisting, LayOutNew
  <2>2. weight' = weight
    BY DEF LayOutExisting, LayOutNew
  <2> QED BY <2>1, <2>2, WholeExtended
<1>4. \A t \in Stacks : Active(t) <=> weight[t] > 0
  BY <1>2 DEF Active
<1>5. LayOutExisting(s)
  BY <1>1, <1>4 DEF LayOutNew
<1>6. \A t \in Stacks : weight[t] > 0 =>
        /\ t \in HasIngress \union HasRouteGroup
        /\ t \in HasIngress => ingress[t] = C(t)
        /\ t \in HasRouteGroup => routegroup[t] = C(t)
        /\ t \notin todo => limits[t] = C(t)
  BY <1>1 DEF Relaid, Routable
<1>7. \A t \in Stacks, x \in 0..(Total - 1) :
        /\ weight[t] > 0 /\ In(x, C(t)) => t \in Serving(x)
        /\ t \in Serving(x) => weight[t] > 0 /\ In(x, C(t))
  <2> SUFFICES ASSUME NEW t \in Stacks, NEW x \in 0..(Total - 1)
               PROVE  /\ weight[t] > 0 /\ In(x, C(t)) => t \in Serving(x)
                      /\ t \in Serving(x) => weight[t] > 0 /\ In(x, C(t))
    OBVIOUS
  <2>1. weight[t] > 0 /\ In(x, C(t)) => t \in Serving(x)
    BY <1>6 DEF Serving
  <2>2. ASSUME t \in Serving(x) PROVE weight[t] > 0
    <3>1. \/ t \in HasIngress /\ In(x, ingress[t]) /\ Width(ingress[t]) = weight[t]
          \/ t \in HasRouteGroup /\ In(x, routegroup[t]) /\ Width(routegroup[t]) = weight[t]
      BY <1>1, <2>2 DEF Serving, Follows, Exact
    <3>2. /\ ingress[t].lo \in Int /\ ingress[t].hi \in Int
          /\ routegroup[t].lo \in Int /\ routegroup[t].hi \in Int
      <4>1. \A seg \in Segment \union {NoSegment} : seg.lo \in Int /\ seg.hi \in Int
        BY DEF Segment, NoSegment
      <4>2. /\ ingress[t] \in Segment \union {NoSegment}
            /\ routegroup[t] \in Segment \union {NoSegment}
        BY DEF TypeOK
      <4> QED BY <4>1, <4>2
    <3> QED BY <1>2, <3>1, <3>2 DEF In, Width
  <2>3. ASSUME t \in Serving(x) PROVE In(x, C(t))
    BY <1>6, <2>2, <2>3 DEF Serving
  <2> QED BY <2>1, <2>2, <2>3
<1>8. \A x \in 0..(Total - 1) : \A t, u \in Serving(x) : t = u
  BY <1>1 DEF Follows, Exact
<1> HIDE DEF C
<1>9. C(s).lo <= index
  <2>1. index \in 0..(Total - 1)
    BY <1>1, <1>2, <1>3
  <2>2. PICK t \in Serving(index) : TRUE
    BY <1>1, <2>1 DEF Follows, NoGap
  <2>3. t \in Stacks
    BY DEF Serving
  <2>4. weight[t] > 0 /\ In(index, C(t))
    BY <1>7, <2>1, <2>2, <2>3
  <2>5. t \in todo
    <3> SUFFICES ASSUME t \notin todo PROVE FALSE
      OBVIOUS
    <3>1. limits[t] = C(t) /\ limits[t].hi <= index
      BY <1>6, <2>3, <2>4 DEF PlanInv
    <3> QED BY <1>2, <2>3, <2>4, <3>1 DEF In
  <2>6. ~Less(C(t), C(s))
    BY <1>4, <1>5, <2>3, <2>4, <2>5 DEF LayOutExisting, C
  <2> QED BY <1>1, <1>2, <2>3, <2>4, <2>6 DEF Less, In
<1>10. C(s).lo >= index
  <2> SUFFICES ASSUME C(s).lo < index PROVE FALSE
    BY <1>1, <1>2
  <2> DEFINE y == C(s).lo
  <2>1. y \in 0..(index - 1) /\ y \in 0..(Total - 1)
    BY <1>1, <1>2, <1>3
  <2>2. In(y, C(s))
    BY <1>1, <1>2 DEF In, Width
  <2> HIDE DEF y
  <2>3. PICK u \in Stacks : In(y, limits[u])
    BY <2>1 DEF PlanInv, PlanGapless
  <2>4. limits[u] # Zero
    BY <1>2, <2>1, <2>3 DEF In, Zero
  <2>5. u \notin todo /\ weight[u] > 0
    BY <1>1, <1>2, <2>4 DEF PlanInv, Relaid
  <2>6. u \in Serving(y) /\ s \in Serving(y)
    BY <1>1, <1>6, <1>7, <2>1, <2>2, <2>3, <2>5
  <2> QED BY <1>8, <2>1, <2>5, <2>6
<1>11. C(s).lo = index /\ C(s).hi = index + weight[s]
  BY <1>1, <1>2, <1>9, <1>10 DEF Width
<1>12. NextLimits(s) = [lo |-> index, hi |-> index + weight[s]]
  BY <1>1, <1>2 DEF NextLimits, SetLimits
<1>13. C(s) = [lo |-> index, hi |-> index + weight[s]]
  BY <1>1, <1>2, <1>11
<1> QED BY <1>1, <1>12, <1>13 DEF C

\* Laying it out changes nothing for the stack, and nothing for the others.
LEMMA SettledByLayout ==
    ASSUME TypeOK, PlanInv, WholeInv, ClusterInv, SettledInv, Routable, settled,
           NEW s \in Stacks, LayOutExisting(s) \/ LayOutNew(s)
    PROVE  SettledInv'
<1>1. /\ pc = "layout" /\ pc' = "layout" /\ s \in todo
      /\ UNCHANGED <<ingress, routegroup, weight>>
      /\ limits' = [limits EXCEPT ![s] = NextLimits(s)] /\ todo' = todo \ {s}
  BY DEF LayOutExisting, LayOutNew, Place, cluster
<1>2. NextLimits(s) = CollectedLimits(s) /\ weight[s] > 0
  BY <1>1, NextIsThere
<1>3. InSync'
  BY <1>1, SyncKept DEF SettledInv, InSync
<1>4. \A t \in Stacks : CollectedLimits(t)' = CollectedLimits(t)
  BY <1>1, CollectedKept DEF cluster
<1>5. ASSUME NEW t \in Stacks PROVE Relaid(t)'
  <2>1. Relaid(t) /\ Relaid(s)
    BY <1>1 DEF SettledInv
  <2>2. limits'[t] = IF t = s THEN NextLimits(s) ELSE limits[t]
    BY <1>1 DEF TypeOK
  <2>3. weight[s] # 0
    BY <1>2, Numbers
  <2> QED BY <1>1, <1>2, <1>4, <2>1, <2>2, <2>3 DEF Relaid
<1> QED BY <1>1, <1>3, <1>5 DEF SettledInv

\* Nor does writing it: with traffic a resource has it already, and without it
\* an empty segment is as good as none.
LEMMA SettledByWrite ==
    ASSUME TypeOK, SettledInv, settled, pc # "idle", todo = {},
           UNCHANGED <<weight, limits, todo>>,
           \A s \in Stacks :
               /\ ingress'[s] \in {ingress[s], GeneratedSegment(HasIngress, s)}
               /\ routegroup'[s] \in {routegroup[s], GeneratedSegment(HasRouteGroup, s)}
    PROVE  SettledInv'
<1>1. Follows(weight) /\ \A s \in Stacks : Relaid(s)
  BY DEF SettledInv, InSync
<1>2. HasIngress \subseteq Stacks /\ HasRouteGroup \subseteq Stacks
  BY KindsAssumption
<1>3. \A s \in Stacks : weight[s] # 0 =>
        /\ s \in HasIngress => ingress'[s] = ingress[s]
        /\ s \in HasRouteGroup => routegroup'[s] = routegroup[s]
  BY <1>1 DEF Relaid, GeneratedSegment
<1>4. \A s \in HasIngress : ingress'[s] = ingress[s] \/ (weight[s] = 0 /\ ingress'[s] = Zero)
  BY <1>1, <1>2, <1>3 DEF Relaid, GeneratedSegment
<1>5. \A s \in HasRouteGroup :
        routegroup'[s] = routegroup[s] \/ (weight[s] = 0 /\ routegroup'[s] = Zero)
  BY <1>1, <1>2, <1>3 DEF Relaid, GeneratedSegment
<1>6. \A seg \in Segment \union {NoSegment} :
        Width(seg) = 0 => /\ Width(Zero) = Width(seg)
                          /\ \A x \in 0..(Total - 1) : In(x, Zero) <=> In(x, seg)
  BY TotalAssumption DEF Width, Zero, In, Segment, NoSegment
<1>7. \A t \in HasIngress :
        /\ Width(ingress'[t]) = Width(ingress[t])
        /\ \A x \in 0..(Total - 1) : In(x, ingress'[t]) <=> In(x, ingress[t])
  <2> SUFFICES ASSUME NEW t \in HasIngress, ingress'[t] # ingress[t]
               PROVE  /\ Width(ingress'[t]) = Width(ingress[t])
                      /\ \A x \in 0..(Total - 1) : In(x, ingress'[t]) <=> In(x, ingress[t])
    OBVIOUS
  <2>1. ingress'[t] = Zero /\ Width(ingress[t]) = 0
    BY <1>1, <1>4 DEF Follows, Exact
  <2>2. ingress[t] \in Segment \union {NoSegment}
    BY <1>2 DEF TypeOK
  <2> QED BY <1>6, <2>1, <2>2
<1>8. \A t \in HasRouteGroup :
        /\ Width(routegroup'[t]) = Width(routegroup[t])
        /\ \A x \in 0..(Total - 1) : In(x, routegroup'[t]) <=> In(x, routegroup[t])
  <2> SUFFICES ASSUME NEW t \in HasRouteGroup, routegroup'[t] # routegroup[t]
               PROVE  /\ Width(routegroup'[t]) = Width(routegroup[t])
                      /\ \A x \in 0..(Total - 1) : In(x, routegroup'[t]) <=> In(x, routegroup[t])
    OBVIOUS
  <2>1. routegroup'[t] = Zero /\ Width(routegroup[t]) = 0
    BY <1>1, <1>5 DEF Follows, Exact
  <2>2. routegroup[t] \in Segment \union {NoSegment}
    BY <1>2 DEF TypeOK
  <2> QED BY <1>6, <2>1, <2>2
<1>9. InSync'
  BY <1>1, <1>7, <1>8, SyncKept
<1>10. ASSUME NEW s \in Stacks PROVE Relaid(s)'
  <2>1. Relaid(s)
    BY <1>1
  <2>2. CASE weight[s] = 0
    BY <2>1, <2>2 DEF Relaid
  <2>3. CASE weight[s] # 0
    <3>1. /\ s \in HasIngress => ingress'[s] = ingress[s]
          /\ s \in HasRouteGroup => routegroup'[s] = routegroup[s]
      BY <1>3, <2>3
    <3>2. CollectedLimits(s)' = CollectedLimits(s)
      BY <3>1 DEF CollectedLimits, HasRouteGroupSegment, IngressLimits
    <3> QED BY <2>1, <2>3, <3>1, <3>2 DEF Relaid
  <2> QED BY <2>2, <2>3
<1> QED BY <1>9, <1>10 DEF SettledInv

\* A pass that finds the cluster in sync lays out what is there, at every step.
LEMMA SettledCorrect == ASSUME Routable PROVE Spec => []SettledInv
<1>1. Init => SettledInv
  BY DEF Init, SettledInv
<1>2. TypeOK /\ PlanInv /\ WholeInv /\ ClusterInv /\ SettledInv /\ [Next]_vars => SettledInv'
  <2> SUFFICES ASSUME TypeOK, PlanInv, WholeInv, ClusterInv, SettledInv, [Next]_vars,
                      settled', pc' # "idle"
               PROVE  SettledInv'
    BY DEF SettledInv
  <2>1. CASE StartPass
    BY <2>1, SettledAtStart
  <2>2. CASE ~StartPass
    <3>1. settled /\ pc # "idle"
      BY <2>2
         DEF Next, LayOut, Write, Disturb, LayOutExisting, LayOutNew, EndLayout,
             WriteIngressSegment, WriteRouteGroupSegment, FailIngressSegment,
             FailRouteGroupSegment, EndPass, Crash, ReplaceStack, vars, history
    <3>2. ASSUME NEW s \in Stacks, LayOutExisting(s) \/ LayOutNew(s) PROVE SettledInv'
      BY <3>1, <3>2, SettledByLayout
    <3>3. ASSUME NEW s \in Stacks,
                 \/ WriteIngressSegment(s) \/ WriteRouteGroupSegment(s)
                 \/ FailIngressSegment(s) \/ FailRouteGroupSegment(s)
          PROVE  SettledInv'
      <4>1. pc # "layout" /\ UNCHANGED <<weight, limits, todo>>
        BY <3>3
           DEF WriteIngressSegment, WriteRouteGroupSegment, FailIngressSegment,
               FailRouteGroupSegment, plan
      <4>2. todo = {}
        BY <3>1, <4>1 DEF SettledInv
      <4>3. \A t \in Stacks :
               /\ ingress'[t] \in {ingress[t], GeneratedSegment(HasIngress, t)}
               /\ routegroup'[t] \in {routegroup[t], GeneratedSegment(HasRouteGroup, t)}
        BY <3>3
           DEF WriteIngressSegment, WriteRouteGroupSegment, FailIngressSegment,
               FailRouteGroupSegment, TypeOK
      <4> QED BY <3>1, <4>1, <4>2, <4>3, SettledByWrite
    <3>4. CASE EndLayout
      <4>1. todo = {} /\ UNCHANGED <<ingress, routegroup, weight, limits, todo>>
        BY <3>4 DEF EndLayout, plan, cluster
      <4> QED BY <3>1, <4>1, SettledByWrite
    <3>5. CASE UNCHANGED vars
      <4>1. UNCHANGED <<pc, todo, ingress, routegroup, weight, limits, settled>>
        BY <3>5 DEF vars, plan, cluster, history
      <4>2. InSync'
        BY <3>1, <4>1, SyncKept DEF SettledInv, InSync
      <4>3. \A t \in Stacks : CollectedLimits(t)' = CollectedLimits(t)
        BY <4>1, CollectedKept DEF cluster
      <4>4. \A t \in Stacks : Relaid(t)'
        BY <3>1, <4>1, <4>3 DEF SettledInv, Relaid
      <4> QED BY <3>1, <4>1, <4>2, <4>4 DEF SettledInv
    <3>6. CASE EndPass \/ Crash \/ \E s \in Stacks : ReplaceStack(s)
      BY <3>1, <3>6 DEF EndPass, Crash, ReplaceStack
    <3> QED
      BY <2>2, <3>2, <3>3, <3>4, <3>5, <3>6 DEF Next, LayOut, Write, Disturb
  <2> QED BY <2>1, <2>2
<1> QED
  BY <1>1, <1>2, TypeCorrect, PlanCorrect, WholeCorrect, ClusterCorrect, PTL DEF Spec

(***************************************************************************)
(* After a pass in which nothing went wrong every request reaches exactly  *)
(* the stack its slice is laid out for, and a pass that finds the cluster  *)
(* in sync keeps it so at every step, whatever write fails and wherever    *)
(* the process stops: ComputeTrafficSegments starts from the segments it   *)
(* finds and lays out the very same ones again.                            *)
(***************************************************************************)
THEOREM InSyncIsKept == ASSUME Routable PROVE Spec => []StaysInSync
<1>1. TypeOK /\ PlanInv /\ WrittenInv /\ WholeInv /\ CleanPassExact /\ SettledInv => StaysInSync
  <2> SUFFICES ASSUME TypeOK, PlanInv, WrittenInv, WholeInv, CleanPassExact, SettledInv,
                      pc = "idle", clean
               PROVE  NoGap
    BY DEF StaysInSync, SettledInv, CleanPassExact, InSync, Follows
  <2> SUFFICES ASSUME NEW x \in 0..(Total - 1) PROVE Serving(x) # {}
    BY DEF NoGap
  <2>1. index = Total /\ weight \in Splits
    BY DEF WholeInv
  <2>2. PICK s \in Stacks : In(x, limits[s])
    BY <2>1 DEF PlanInv, PlanGapless
  <2>3. Width(limits[s]) = weight[s]
    BY DEF WrittenInv
  <2>4. weight[s] > 0
    <3>1. limits[s].lo \in Nat /\ limits[s].hi \in Nat
      BY DEF TypeOK, Segment
    <3> QED BY <2>2, <2>3, <3>1, TotalAssumption DEF In, Width
  <2>5. s \in HasIngress \union HasRouteGroup
    BY <2>1, <2>4 DEF Routable
  <2>6. /\ s \in HasIngress => ingress[s] = limits[s]
        /\ s \in HasRouteGroup => routegroup[s] = limits[s]
    BY <2>4 DEF WrittenInv, Holds, GeneratedSegment
  <2> QED BY <2>2, <2>5, <2>6 DEF Serving
<1> QED
  BY <1>1, TypeCorrect, PlanCorrect, WrittenCorrect, WholeCorrect, CleanPassIsExact,
     SettledCorrect, PTL

=============================================================================
