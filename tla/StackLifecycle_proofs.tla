----------------------- MODULE StackLifecycle_proofs -----------------------
(***************************************************************************)
(* Proofs about StackLifecycle, for any stacks, any traffic, any limit and *)
(* TTL, and any number of edits and failures.                              *)
(***************************************************************************)
EXTENDS StackLifecycle, TrafficWeights_proofs

\* The stack whose deployment comes next has had its segment written in this pass.
THEOREM SegmentBeforeDeployment == Spec => []SegmentFirst
<1>1. Init => SegmentFirst
  <2> SUFFICES ASSUME Init PROVE SegmentFirst
    OBVIOUS
  <2>1. DOMAIN routed = Stacks
    BY DEF Init
  <2>2. replicas \in [Stacks -> {0, 1}] /\ plan = NoPlan /\ pc = "idle"
    BY DEF Init
  <2> QED BY <2>1, <2>2 DEF SegmentFirst
<1>2. SegmentFirst /\ [Next]_vars => SegmentFirst'
  <2> SUFFICES ASSUME SegmentFirst, [Next]_vars PROVE SegmentFirst'
    OBVIOUS
  <2> USE DEF SegmentFirst
  <2>1. ASSUME Collect PROVE SegmentFirst'
    <3>1. PICK p \in ManageTraffic : \E r \in ExpiredStacks(p) :
              plan' = [p EXCEPT !.removal = r]
      BY <2>1 DEF Collect
    <3>2. DOMAIN p = DOMAIN NoPlan
      <4>1. ASSUME NEW fd, NEW fa PROVE DOMAIN Planned(fd, fa) = DOMAIN NoPlan
        BY DEF Planned, NoPlan
      <4>2. DOMAIN [NoPlan EXCEPT !.stackset = store] = DOMAIN NoPlan
        OBVIOUS
      <4> QED BY <4>1, <4>2 DEF ManageTraffic
    <3>3. DOMAIN plan' = DOMAIN p
      BY <3>1
    <3> QED BY <2>1, <3>2, <3>3 DEF Collect, kube
  <2>2. ASSUME UpdateDesiredTraffic PROVE SegmentFirst'
    BY <2>2 DEF UpdateDesiredTraffic
  <2>3. ASSUME EndCleanup PROVE SegmentFirst'
    BY <2>3 DEF EndCleanup, kube
  <2>4. ASSUME WriteStackSetStatus PROVE SegmentFirst'
    BY <2>4 DEF WriteStackSetStatus, EndPass
  <2>5. ASSUME NEW s \in Stacks, WriteSegment(s) PROVE SegmentFirst'
    BY <2>5 DEF WriteSegment, SetRouted
  <2>6. ASSUME NEW s \in Stacks, WriteDeployment(s) PROVE SegmentFirst'
    BY <2>6 DEF WriteDeployment, SetReplicas, DesiredReplicas, NextStack
  <2>7. ASSUME NEW s \in Stacks, CleanupOldStacks(s) PROVE SegmentFirst'
    BY <2>7 DEF CleanupOldStacks, Delete
  <2>8. ASSUME NEW s \in Stacks, WriteStackStatus(s) PROVE SegmentFirst'
    BY <2>8 DEF WriteStackStatus
  <2>9. ASSUME NEW s \in Stacks, DeletedStackStatus(s) PROVE SegmentFirst'
    BY <2>9 DEF DeletedStackStatus, EndPass, kube
  <2>10. ASSUME Crash PROVE SegmentFirst'
    BY <2>10 DEF Crash, EndPass, kube
  <2>11. ASSUME NEW s \in Stacks, FailSegment(s) PROVE SegmentFirst'
    BY <2>11 DEF FailSegment, SetRouted, NextStack
  <2>12. ASSUME NEW s \in Stacks, FailDeployment(s) PROVE SegmentFirst'
    BY <2>12 DEF FailDeployment, SetReplicas, DesiredReplicas, NextStack
  <2>13. ASSUME NEW s \in Stacks, FailCleanup(s) PROVE SegmentFirst'
    BY <2>13 DEF FailCleanup, kube
  <2>14. ASSUME NEW s \in Stacks, PodsFail(s) PROVE SegmentFirst'
    BY <2>14 DEF PodsFail
  <2>15. ASSUME UserSwitchesTraffic PROVE SegmentFirst'
    BY <2>15 DEF UserSwitchesTraffic
  <2>16. ASSUME Deliver PROVE SegmentFirst'
    BY <2>16 DEF Deliver, kube
  <2>17. ASSUME Tick PROVE SegmentFirst'
    <3>1. DOMAIN plan' = DOMAIN plan
      BY <2>17 DEF Tick
    <3>2. plan'.actual = plan.actual
      BY <2>17 DEF Tick, NoPlan
    <3> QED BY <2>17, <3>1, <3>2 DEF Tick
  <2>18. ASSUME NEW s \in Stacks, StackCreated(s) PROVE SegmentFirst'
    BY <2>18 DEF StackCreated
  <2>19. ASSUME NEW s \in Stacks, PodsReady(s) PROVE SegmentFirst'
    BY <2>19 DEF PodsReady
  <2>20. CASE UNCHANGED vars
    BY <2>20 DEF vars, kube
  <2> QED
    BY <2>1, <2>2, <2>3, <2>4, <2>5, <2>6, <2>7, <2>8, <2>9, <2>10, <2>11, <2>12, <2>13,
       <2>14, <2>15, <2>16, <2>17, <2>18, <2>19, <2>20
    DEF Next, Pass, Failure, Environment
<1> QED BY <1>1, <1>2, PTL DEF Spec

\* A deployment is set to a lower number of replicas only if the pass gives the
\* stack no traffic, which its segment then says as well.
LEMMA ScaledDownUnrouted ==
    ASSUME SegmentFirst, NEW s \in Stacks, pc = "deployment", s = current, SetReplicas(s),
           NEW t \in Stacks, replicas'[t] < replicas[t]
    PROVE  ~(routed[t] > 0)
<1>1. CASE t # s
  <2>1. replicas'[t] = replicas[t] /\ replicas[t] \in {0, 1}
    BY <1>1 DEF SetReplicas, SegmentFirst
  <2> QED BY <2>1
<1>2. CASE t = s
  <2>1. CASE ScaledDown(plan, s)
    <3>1. ~(plan.actual[s] > 0)
      BY <2>1 DEF ScaledDown, HasTraffic
    <3> QED BY <1>2, <3>1 DEF SegmentFirst
  <2>2. CASE ~ScaledDown(plan, s)
    <3>1. replicas'[t] = 1 /\ replicas[t] \in {0, 1}
      BY <1>2, <2>2 DEF SetReplicas, DesiredReplicas, SegmentFirst
    <3> QED BY <3>1
  <2> QED BY <2>1, <2>2
<1> QED BY <1>1, <1>2

(***************************************************************************)
(* ReconcileStackResources writes the segment before the deployment and    *)
(* returns when that fails; so whatever fails, no deployment is scaled     *)
(* down while the segment of its stack still routes traffic to it.         *)
(***************************************************************************)
THEOREM ScalesDownOnlyUnrouted == Spec => ScalesDownUnrouted
<1> DEFINE Safe == \A s \in Stacks :
                     s \in exists' /\ replicas'[s] < replicas[s] => ~(routed[s] > 0)
<1>1. SegmentFirst /\ [Next]_vars => [Safe]_vars
  <2> SUFFICES ASSUME SegmentFirst, Next,
                      NEW t \in Stacks, t \in exists', replicas'[t] < replicas[t]
               PROVE  ~(routed[t] > 0)
    OBVIOUS
  <2>1. replicas[t] \in {0, 1}
    BY DEF SegmentFirst
  <2>2. ASSUME NEW s \in Stacks, WriteDeployment(s) PROVE ~(routed[t] > 0)
    BY <2>2, ScaledDownUnrouted DEF WriteDeployment
  <2>3. ASSUME NEW s \in Stacks, FailDeployment(s) PROVE ~(routed[t] > 0)
    BY <2>1, <2>3, ScaledDownUnrouted DEF FailDeployment
  <2>4. ASSUME NEW s \in Stacks, CleanupOldStacks(s) PROVE FALSE
    BY <2>1, <2>4 DEF CleanupOldStacks, Delete, SegmentFirst
  <2>5. replicas' # replicas
    BY <2>1
  <2>6. CASE \E s \in Stacks : \/ WriteDeployment(s) \/ FailDeployment(s)
                               \/ CleanupOldStacks(s)
    BY <2>2, <2>3, <2>4, <2>6
  <2>7. CASE ~\E s \in Stacks : \/ WriteDeployment(s) \/ FailDeployment(s)
                                \/ CleanupOldStacks(s)
    BY <2>5, <2>7
    DEF Next, Pass, Failure, Environment, Collect, UpdateDesiredTraffic, EndCleanup,
        WriteStackSetStatus, WriteSegment, WriteStackStatus, DeletedStackStatus, Crash,
        FailSegment, FailCleanup, PodsFail, UserSwitchesTraffic, Deliver, Tick,
        StackCreated, PodsReady, kube
  <2> QED BY <2>6, <2>7
<1> QED BY <1>1, SegmentBeforeDeployment, PTL DEF Spec, ScalesDownUnrouted

-----------------------------------------------------------------------------
(***************************************************************************)
(* Types, and what a pass plans.                                           *)
(***************************************************************************)
\* The containers of a pass.
PlanType ==
    [stackset : [desired : Weights, actual : Weights], members : SUBSET Stacks,
     desired : Weights, actual : Weights, since : [Stacks -> Stamp], removal : SUBSET Stacks]

\* What the constants are.
LEMMA Constants ==
    /\ IsFiniteSet(Stacks) /\ Stacks \subseteq Nat /\ OwnIngress \subseteq Stacks
    /\ Total \in Nat \ {0} /\ Limit \in Nat \ {0}
    /\ Now \in Nat /\ Now >= 2 /\ Stamp = 0..Now
    /\ NoTraffic \in Weights /\ NoStamp \in [Stacks -> Stamp] /\ NoPlan \in PlanType
    /\ \A s \in Stacks : NoPlan.actual[s] = 0 /\ NoPlan.since[s] = 0
    /\ NoPlan.members = {} /\ NoPlan.removal = {}
    /\ \A s \in Stacks : Only(s) \in Weights
    /\ MaxEdits \in Nat /\ MaxFailures \in Nat /\ MaxLag \in Nat /\ MaxSlow \in Nat
<1>1. Total \in Nat \ {0} /\ Now \in Nat /\ Now >= 2 /\ Stamp = 0..Now /\ TTL \in Nat
  BY TotalAssumption, LifecycleAssumption DEF Now, Stamp
<1>2. NoTraffic \in Weights /\ NoStamp \in [Stacks -> Stamp]
  BY <1>1 DEF NoTraffic, Weights, NoStamp
<1>3. NoPlan \in PlanType /\ NoPlan.members = {} /\ NoPlan.removal = {}
  BY <1>2 DEF NoPlan, PlanType
<1>4. \A s \in Stacks : NoPlan.actual[s] = 0 /\ NoPlan.since[s] = 0
  BY DEF NoPlan, NoTraffic, NoStamp
<1>5. \A s \in Stacks : Only(s) \in Weights
  BY <1>1, <1>2 DEF Only, Weights
<1> QED
  BY <1>1, <1>2, <1>3, <1>4, <1>5, StacksAssumption, LifecycleAssumption, BoundsAssumption

\* A weight is a natural number.
LEMMA WeightType ==
    ASSUME NEW w \in Weights, NEW s \in Stacks
    PROVE  w[s] \in Nat
<1>1. w[s] \in 0..Total
  BY DEF Weights
<1> QED BY <1>1, TotalAssumption

(***************************************************************************)
(* The weights of a pass are weights of the stacks that exist, one of them *)
(* at least has some, and a stack has none that had none before, unless    *)
(* none of them had.                                                       *)
(***************************************************************************)
LEMMA ManagedIs ==
    ASSUME TypeOK, NEW w \in Weights, NEW f \in exists
    PROVE  /\ Managed(w, f) \in Weights
           /\ \E s \in exists : Managed(w, f)[s] > 0
           /\ \A s \in Stacks : Managed(w, f)[s] > 0 => s \in exists
           /\ \A s \in exists :
                Managed(w, f)[s] > 0 => w[s] > 0 \/ \A t \in exists : w[t] = 0
<1> DEFINE v == [s \in exists |-> w[s]]
           m == ManagedWeights(v, f)
<1>1. exists \in SUBSET Stacks /\ IsFiniteSet(exists) /\ \A s \in exists : w[s] \in Nat
  <2>1. exists \in SUBSET Stacks
    BY DEF TypeOK
  <2>2. \A s \in exists : w[s] \in Nat
    BY <2>1, WeightType
  <2> QED BY <2>1, <2>2, Constants, FS_Subset
<1>2. IsWeights(v) /\ DOMAIN v = exists
  BY <1>1, Constants DEF IsWeights
<1>3. \A s \in Stacks : Managed(w, f)[s] = IF s \in exists THEN m[s] ELSE 0
  BY DEF Managed
<1>4. Managed(w, f) = [s \in Stacks |-> IF s \in exists THEN m[s] ELSE 0]
  BY DEF Managed
<1>5. AllZero(v) => \A t \in exists : w[t] = 0
  BY DEF AllZero
<1>6. \A s \in exists : v[s] = w[s]
  OBVIOUS
<1> HIDE DEF v
<1>7. m \in [exists -> 0..Total] /\ SumOf(m) = Total
  BY <1>2, ManagedIsWhole
<1>8. \A s \in exists : m[s] # 0 => v[s] > 0 \/ AllZero(v)
  BY <1>2, ManagedOnlyWeighted
<1> HIDE DEF m
<1>9. \A s \in exists : m[s] \in Nat
  BY <1>7, Constants
<1>10. \E s \in exists : m[s] > 0
  <2> SUFFICES ASSUME \A s \in exists : ~(m[s] > 0) PROVE FALSE
    OBVIOUS
  <2>1. (\A s \in exists : m[s] \in Int) /\ (\A s \in exists \ {} : m[s] = 0)
    BY <1>9
  <2>2. SumOver(m, exists) = SumOver(m, {})
    BY <1>1, <2>1, SumSupport
  <2>3. SumOf(m) = SumOver(m, exists)
    BY <1>7 DEF SumOf, SumOver
  <2> QED BY <1>7, <2>2, <2>3, SumEmpty, Constants
<1>11. Managed(w, f) \in Weights
  BY <1>4, <1>7, Constants DEF Weights
<1> QED BY <1>1, <1>3, <1>5, <1>6, <1>8, <1>9, <1>10, <1>11

\* A fallback stack exists.
LEMMA FallbackExists == Fallbacks \subseteq exists
BY DEF Fallbacks, FallbackStacks

\* A pass plans for the stacks that exist and the StackSet it knows.
LEMMA PlannedIs ==
    ASSUME TypeOK, NEW p \in ManageTraffic
    PROVE  \/ /\ exists = {}
              /\ p = [NoPlan EXCEPT !.stackset = store]
           \/ \E fd \in exists, fa \in exists :
                p = [stackset |-> store, members |-> exists,
                     desired |-> Managed(store.desired, fd),
                     actual |-> Switched(Managed(store.desired, fd), Managed(store.actual, fa)),
                     since |-> p.since, removal |-> {}]
              /\ p.since = NoTrafficSince(p)
<1>1. CASE exists = {}
  BY <1>1 DEF ManageTraffic
<1>2. CASE exists # {}
  <2>1. PICK fd \in exists, fa \in exists : p = Planned(fd, fa)
    BY <1>2, FallbackExists DEF ManageTraffic
  <2> DEFINE desired == Managed(store.desired, fd)
             actual == Switched(desired, Managed(store.actual, fa))
             q == [desired |-> desired, actual |-> actual]
  <2>2. p = [stackset |-> store, members |-> exists, desired |-> desired, actual |-> actual,
             since |-> NoTrafficSince(q), removal |-> {}]
    BY <2>1 DEF Planned
  <2> HIDE DEF desired, actual
  <2>3. p.desired = q.desired /\ p.actual = q.actual
    BY <2>2
  <2>4. NoTrafficSince(p) = NoTrafficSince(q)
    BY <2>3 DEF NoTrafficSince, HasTraffic
  <2> QED BY <2>2, <2>4 DEF desired, actual
<1> QED BY <1>1, <1>2

(***************************************************************************)
(* What the plan says of a stack: whether it has traffic, and since when   *)
(* it has none.                                                            *)
(***************************************************************************)
LEMMA PlanIs ==
    ASSUME TypeOK, NEW p \in ManageTraffic
    PROVE  /\ p \in PlanType
           /\ p.members = exists /\ p.removal = {} /\ p.stackset = store
           /\ exists # {} => /\ \E s \in exists : p.desired[s] > 0
                             /\ \E s \in exists : p.actual[s] > 0
           /\ \A s \in Stacks : p.actual[s] > 0 =>
                /\ s \in exists
                /\ s \in ready \/ store.actual[s] > 0 \/ \A t \in exists : store.actual[t] = 0
           /\ \A s \in Stacks : p.since[s] > 0 =>
                /\ s \in exists /\ p.actual[s] = 0
                /\ p.since[s] = Now \/ p.since[s] = since[s]
<1>1. store \in [desired : Weights, actual : Weights] /\ store.desired \in Weights
      /\ store.actual \in Weights /\ exists \subseteq Stacks /\ since \in [Stacks -> Stamp]
  BY DEF TypeOK
<1>2. CASE exists = {} /\ p = [NoPlan EXCEPT !.stackset = store]
  <2>1. p = [stackset |-> store, members |-> {}, desired |-> NoTraffic, actual |-> NoTraffic,
             since |-> NoStamp, removal |-> {}]
    BY <1>2 DEF NoPlan
  <2>2. p \in PlanType
    BY <1>1, <2>1, Constants DEF PlanType
  <2>3. \A s \in Stacks : p.actual[s] = 0 /\ p.since[s] = 0
    BY <2>1 DEF NoTraffic, NoStamp
  <2> QED BY <1>2, <2>1, <2>2, <2>3
<1>3. ASSUME exists # {},
             NEW fd \in exists, NEW fa \in exists,
             p = [stackset |-> store, members |-> exists,
                  desired |-> Managed(store.desired, fd),
                  actual |-> Switched(Managed(store.desired, fd), Managed(store.actual, fa)),
                  since |-> p.since, removal |-> {}],
             p.since = NoTrafficSince(p)
      PROVE  /\ p \in PlanType
             /\ p.members = exists /\ p.removal = {} /\ p.stackset = store
             /\ \E s \in exists : p.desired[s] > 0
             /\ \E s \in exists : p.actual[s] > 0
             /\ \A s \in Stacks : p.actual[s] > 0 =>
                  /\ s \in exists
                  /\ s \in ready \/ store.actual[s] > 0 \/ \A t \in exists : store.actual[t] = 0
             /\ \A s \in Stacks : p.since[s] > 0 =>
                  /\ s \in exists /\ p.actual[s] = 0
                  /\ p.since[s] = Now \/ p.since[s] = since[s]
  <2> DEFINE d == Managed(store.desired, fd)
             a == Managed(store.actual, fa)
  <2>1. /\ d \in Weights /\ \E s \in exists : d[s] > 0
        /\ \A s \in Stacks : d[s] > 0 => s \in exists
    BY <1>1, ManagedIs
  <2>2. /\ a \in Weights /\ \E s \in exists : a[s] > 0
        /\ \A s \in Stacks : a[s] > 0 => s \in exists
        /\ \A s \in exists :
             a[s] > 0 => store.actual[s] > 0 \/ \A t \in exists : store.actual[t] = 0
    BY <1>1, ManagedIs
  <2>3. p.desired = d /\ p.actual = Switched(d, a) /\ p.members = exists /\ p.removal = {}
        /\ p.stackset = store
    BY <1>3
  <2> HIDE DEF d, a
  <2>4. p.actual \in {d, a}
    BY <2>3 DEF Switched
  <2>5. \A s \in exists : p.actual[s] > 0 => s \in ready \/ a[s] > 0
    <3> SUFFICES ASSUME NEW s \in exists, p.actual[s] > 0, s \notin ready PROVE a[s] > 0
      OBVIOUS
    <3>1. d[s] \in Nat /\ a[s] \in Nat
      BY <1>1, <2>1, <2>2, WeightType
    <3> QED BY <2>3, <3>1 DEF Switched
  <2>6. p.since = [s \in Stacks |->
                     IF s \notin exists \/ HasTraffic(p, s) THEN 0
                     ELSE IF since[s] = 0 THEN Now ELSE since[s]]
    BY <1>3 DEF NoTrafficSince
  <2>7. p.since \in [Stacks -> Stamp]
    BY <1>1, <2>6, Constants
  <2>8. \A s \in Stacks : p.since[s] > 0 =>
                  /\ s \in exists /\ p.actual[s] = 0
                  /\ p.since[s] = Now \/ p.since[s] = since[s]
    <3>1. \A s \in Stacks : p.actual[s] \in Nat
      BY <2>1, <2>2, <2>4, WeightType
    <3> QED BY <2>6, <3>1 DEF HasTraffic
  <2>9. p \in PlanType
    <3>1. p = [stackset |-> p.stackset, members |-> p.members, desired |-> p.desired,
               actual |-> p.actual, since |-> p.since, removal |-> p.removal]
      BY <1>3, <2>3
    <3>2. p.desired \in Weights /\ p.actual \in Weights
      BY <2>1, <2>2, <2>3, <2>4
    <3> QED BY <1>1, <2>3, <2>7, <3>1, <3>2 DEF PlanType
  <2> QED BY <2>1, <2>2, <2>3, <2>4, <2>5, <2>8, <2>9
<1>4. CASE exists = {}
  BY <1>2, <1>4, PlannedIs
<1>5. CASE exists # {}
  BY <1>3, <1>5, PlannedIs
<1> QED BY <1>4, <1>5

(***************************************************************************)
(* What is to be removed are candidates; if every stack has segments of    *)
(* its own, only stacks that are scaled down are, and more than the limit  *)
(* are left, as one stack at least is to have traffic.                     *)
(***************************************************************************)
LEMMA RemovalIs ==
    ASSUME TypeOK, NEW p \in ManageTraffic, NEW r \in ExpiredStacks(p)
    PROVE  /\ r \subseteq exists
           /\ OwnIngress = Stacks =>
                /\ \A s \in r : ScaledDown(p, s)
                /\ r # {} => Cardinality(exists \ r) > Limit
<1> DEFINE candidates == {s \in p.members : s \notin OwnIngress \/ ScaledDown(p, s)}
           k == Cardinality(candidates) - Limit
<1>1. p.members = exists /\ exists \in SUBSET Stacks /\ IsFiniteSet(exists)
  <2>1. p.members = exists /\ exists \in SUBSET Stacks
    BY PlanIs DEF TypeOK
  <2> QED BY <2>1, Constants, FS_Subset
<1>2. candidates \in SUBSET exists /\ IsFiniteSet(candidates) /\ Cardinality(candidates) \in Nat
  <2>1. candidates \in SUBSET exists
    BY <1>1
  <2> QED BY <1>1, <2>1, FS_Subset, FS_CardinalityType
<1>3. /\ r \in SUBSET candidates
      /\ r # {} => Cardinality(r) = k
  <2>1. CASE Cardinality(candidates) <= Limit
    BY <2>1 DEF ExpiredStacks
  <2>2. CASE ~(Cardinality(candidates) <= Limit)
    <3>1. r \in kSubset(k, candidates)
      BY <2>2 DEF ExpiredStacks
    <3> QED BY <3>1 DEF kSubset
  <2> QED BY <2>1, <2>2
<1>4. ASSUME OwnIngress = Stacks PROVE \A s \in r : ScaledDown(p, s)
  BY <1>1, <1>2, <1>3, <1>4
<1>5. ASSUME OwnIngress = Stacks, r # {} PROVE Cardinality(exists \ r) > Limit
  <2>1. exists # {}
    BY <1>2, <1>3, <1>5
  <2>2. PICK s \in exists : p.desired[s] > 0
    BY <2>1, PlanIs
  <2>3. s \notin candidates
    BY <1>1, <1>5, <2>2 DEF ScaledDown, HasTraffic
  <2> HIDE DEF candidates
  <2>4. candidates \union {s} \in SUBSET exists
    BY <1>2
  <2>5. Cardinality(candidates \union {s}) = Cardinality(candidates) + 1
    BY <1>2, <2>3, FS_AddElement
  <2>6. Cardinality(candidates \union {s}) <= Cardinality(exists)
    BY <1>1, <2>4, FS_Subset
  <2>7. r \in SUBSET exists /\ IsFiniteSet(r) /\ IsFiniteSet(exists \ r)
    <3>1. r \in SUBSET exists /\ exists \ r \in SUBSET exists
      BY <1>2, <1>3
    <3> QED BY <1>1, <3>1, FS_Subset
  <2>8. Cardinality(exists \ r) = Cardinality(exists) - Cardinality(r)
    <3>1. exists \intersect r = r
      BY <2>7
    <3>2. Cardinality(exists \ r) = Cardinality(exists) - Cardinality(exists \intersect r)
      BY <1>1, FS_Difference
    <3> QED BY <3>1, <3>2
  <2>9. /\ Cardinality(exists) \in Nat /\ Cardinality(r) \in Nat /\ Limit \in Nat
        /\ Cardinality(exists \ r) \in Nat
    BY <1>1, <2>7, Constants, FS_CardinalityType
  <2> QED BY <1>2, <1>3, <1>5, <2>5, <2>6, <2>8, <2>9
<1> QED BY <1>2, <1>3, <1>4, <1>5

-----------------------------------------------------------------------------
(***************************************************************************)
(* Types.                                                                  *)
(***************************************************************************)
\* A stamp that ages stays a stamp, and is not set or cleared by that.
LEMMA AgedIs ==
    ASSUME NEW t \in Stamp
    PROVE  /\ Aged(t) \in Stamp /\ Aged(t) <= t /\ (Aged(t) > 0 <=> t > 0)
           /\ \A u \in Stamp : t <= u => Aged(t) <= Aged(u)
BY Constants DEF Aged

\* So for the stamps of all stacks.
LEMMA AgedStampsAre ==
    ASSUME NEW f \in [Stacks -> Stamp]
    PROVE  /\ AgedStamps(f) \in [Stacks -> Stamp]
           /\ \A s \in Stacks : AgedStamps(f)[s] = Aged(f[s])
<1>1. \A s \in Stacks : f[s] \in Stamp /\ Aged(f[s]) \in Stamp
  BY AgedIs
<1> QED BY <1>1 DEF AgedStamps

\* The initial states have the types.
LEMMA InitTyped == Init => TypeOK
<1> SUFFICES ASSUME Init PROVE TypeOK
  OBVIOUS
<1>1. PICK s \in exists :
         /\ stackset = [desired |-> Only(s), actual |-> Only(s)]
         /\ routed = [t \in Stacks |-> IF t \in OwnIngress THEN Only(s)[t] ELSE 0]
         /\ since = [t \in Stacks |-> IF t \in exists \ {s} THEN Now ELSE 0]
         /\ ready = {s}
  BY DEF Init
<1>2. exists \subseteq Stacks /\ s \in Stacks /\ Only(s) \in Weights
  BY Constants DEF Init
<1>3. ready \subseteq exists /\ proven \subseteq exists
  BY <1>1 DEF Init
<1>4. 0 \in Stamp /\ 1 \in Stamp /\ Now \in Stamp
  BY Constants
<1>5. /\ created \in [Stacks -> Stamp] /\ since \in [Stacks -> Stamp]
      /\ served \in [Stacks -> Stamp]
  BY <1>1, <1>4 DEF Init
<1>6. replicas \in [Stacks -> {0, 1}]
  BY DEF Init
<1>7. routed \in Weights
  <2>1. \A t \in Stacks : Only(s)[t] \in 0..Total /\ 0 \in 0..Total
    BY <1>2, Constants DEF Weights
  <2> QED BY <1>1, <2>1 DEF Weights
<1>8. /\ stackset \in [desired : Weights, actual : Weights]
      /\ store \in [desired : Weights, actual : Weights]
  BY <1>1, <1>2 DEF Init
<1>9. plan \in PlanType /\ plan.removal \subseteq plan.members
  BY Constants DEF Init
<1>10. /\ edits \in 0..MaxEdits /\ failures \in 0..MaxFailures
       /\ lags \in 0..MaxLag /\ slow \in 0..MaxSlow
  BY Constants DEF Init
<1>11. /\ pc \in {"idle", "segment", "deployment", "cleanup", "status"}
       /\ todo \subseteq Stacks /\ current \in Stacks \union {NoStack} /\ cut \in BOOLEAN
  BY DEF Init
<1> QED
  BY <1>2, <1>3, <1>5, <1>6, <1>7, <1>8, <1>9, <1>10, <1>11 DEF TypeOK, PlanType

\* What is said of the cluster ...
KubeOK ==
    /\ exists \subseteq Stacks /\ ready \subseteq exists /\ proven \subseteq exists
    /\ created \in [Stacks -> Stamp] /\ since \in [Stacks -> Stamp]
    /\ served \in [Stacks -> Stamp]
    /\ replicas \in [Stacks -> {0, 1}]
    /\ routed \in Weights
    /\ stackset \in [desired : Weights, actual : Weights]

\* ... of the pass ...
PassOK ==
    /\ store \in [desired : Weights, actual : Weights]
    /\ pc \in {"idle", "segment", "deployment", "cleanup", "status"}
    /\ todo \subseteq Stacks
    /\ current \in Stacks \union {NoStack}
    /\ plan \in PlanType
    /\ plan.removal \subseteq plan.members
    /\ cut \in BOOLEAN

\* ... and of the bounds.
BoundsOK ==
    /\ edits \in 0..MaxEdits /\ failures \in 0..MaxFailures
    /\ lags \in 0..MaxLag /\ slow \in 0..MaxSlow

\* The type invariant is these three.
LEMMA TypeParts == TypeOK <=> KubeOK /\ PassOK /\ BoundsOK
BY DEF TypeOK, KubeOK, PassOK, BoundsOK, PlanType

\* A pass ends with nothing planned.
LEMMA EndPassTyped ==
    ASSUME TypeOK, EndPass, store' \in {store, stackset}, cut' \in {cut, TRUE}
    PROVE  PassOK'
<1>1. PassOK /\ KubeOK
  BY TypeParts
<1> QED BY <1>1, Constants DEF PassOK, KubeOK, EndPass, PlanType, Weights, Stamp, Now

\* A counter that is below its bound may be counted up.
LEMMA FailTyped == ASSUME TypeOK, Fail PROVE failures' \in 0..MaxFailures
BY Constants DEF TypeOK, Fail

\* What a pass plans has the types.
LEMMA CollectTyped == ASSUME TypeOK, Collect PROVE TypeOK'
<1>1. KubeOK /\ PassOK /\ BoundsOK
  BY TypeParts
<1>2. PICK p \in ManageTraffic : \E r \in ExpiredStacks(p) : plan' = [p EXCEPT !.removal = r]
  BY DEF Collect
<1> PICK r \in ExpiredStacks(p) : plan' = [p EXCEPT !.removal = r]
  BY <1>2
<1>3. p \in PlanType /\ p.members = exists
  BY PlanIs
<1>4. r \subseteq exists
  BY RemovalIs
<1>5. plan' \in PlanType /\ plan'.members = exists /\ plan'.removal = r
  BY <1>1, <1>3, <1>4 DEF PlanType, KubeOK
<1>6. PassOK'
  <2>1. UNCHANGED <<store, current, cut>> /\ pc' = "segment" /\ todo' = exists
    BY DEF Collect, history
  <2>2. plan'.removal \subseteq plan'.members
    BY <1>4, <1>5
  <2> HIDE DEF PlanType
  <2> QED
    BY <1>1, <1>5, <2>1, <2>2
    DEF PassOK, KubeOK, PlanType, Weights, Stamp, Now
<1>7. KubeOK'
  BY <1>1 DEF Collect, KubeOK, kube, history, Weights, Stamp, Now
<1>8. BoundsOK'
  <2>1. lags' \in 0..MaxLag
    BY <1>1, Constants DEF Collect, BoundsOK
  <2> QED BY <1>1, <2>1 DEF Collect, BoundsOK
<1> QED BY <1>6, <1>7, <1>8 DEF TypeOK, KubeOK, PassOK, BoundsOK, PlanType, Weights, Stamp, Now

\* The steps of a pass on one stack.
LEMMA StackStepTyped ==
    ASSUME TypeOK, NEW s \in Stacks,
           \/ WriteSegment(s) \/ WriteDeployment(s) \/ CleanupOldStacks(s)
           \/ WriteStackStatus(s) \/ DeletedStackStatus(s)
    PROVE  TypeOK'
<1>1. KubeOK /\ PassOK /\ BoundsOK
  BY TypeParts
<1> USE DEF PlanType
<1>2. 0 \in Stamp /\ Now \in Stamp /\ 0 \in 0..Total
  BY Constants
<1>3. CASE WriteSegment(s)
  <2>1. routed' \in Weights
    <3>1. plan.actual[s] \in 0..Total
      BY <1>1 DEF PassOK, Weights
    <3> QED BY <1>1, <1>2, <1>3, <3>1 DEF WriteSegment, SetRouted, KubeOK, Weights
  <2>2. served' \in [Stacks -> Stamp]
    BY <1>1, <1>2, <1>3 DEF WriteSegment, Serve, KubeOK
  <2> QED
    BY <1>1, <1>3, <2>1, <2>2
    DEF WriteSegment, TypeOK, KubeOK, PassOK, BoundsOK, bounds, Weights, Stamp, Now
<1>4. CASE WriteDeployment(s)
  <2>1. replicas' \in [Stacks -> {0, 1}] /\ ready' \subseteq ready
    BY <1>1, <1>4 DEF WriteDeployment, SetReplicas, DesiredReplicas, KubeOK
  <2> QED
    BY <1>1, <1>4, <2>1
    DEF WriteDeployment, NextStack, TypeOK, KubeOK, PassOK, BoundsOK, bounds, history,
        Weights, Stamp, Now
<1>5. CASE CleanupOldStacks(s)
  <2>1. KubeOK'
    BY <1>1, <1>2, <1>5 DEF CleanupOldStacks, Delete, KubeOK, Weights
  <2> QED
    BY <1>1, <1>5, <2>1
    DEF CleanupOldStacks, TypeOK, KubeOK, PassOK, BoundsOK, bounds, Weights, Stamp, Now
<1>6. CASE WriteStackStatus(s)
  <2>1. since' \in [Stacks -> Stamp]
    BY <1>1, <1>6 DEF WriteStackStatus, KubeOK, PassOK
  <2> QED
    BY <1>1, <1>6, <2>1
    DEF WriteStackStatus, TypeOK, KubeOK, PassOK, BoundsOK, bounds, history,
        Weights, Stamp, Now
<1>7. CASE DeletedStackStatus(s)
  <2>1. UNCHANGED <<kube, store, served, proven, bounds>>
    BY <1>7 DEF DeletedStackStatus
  <2>2. PassOK'
    <3>1. CASE todo' = todo \ {s} /\ UNCHANGED <<pc, current, plan, cut>>
      BY <1>1, <2>1, <3>1 DEF PassOK, Weights, Stamp, Now
    <3>2. CASE EndPass /\ cut' = TRUE
      BY <2>1, <3>2, EndPassTyped
    <3> QED BY <1>7, <3>1, <3>2 DEF DeletedStackStatus
  <2> QED
    BY <1>1, <2>1, <2>2
    DEF TypeOK, KubeOK, PassOK, BoundsOK, kube, bounds, Weights, Stamp, Now
<1> QED BY <1>3, <1>4, <1>5, <1>6, <1>7

\* The other steps of a pass.
LEMMA PassStepTyped ==
    ASSUME TypeOK, UpdateDesiredTraffic \/ EndCleanup \/ WriteStackSetStatus
    PROVE  TypeOK'
<1>1. KubeOK /\ PassOK /\ BoundsOK
  BY TypeParts
<1>2. \A w \in Weights : Kept(w) \in Weights
  BY Constants DEF Kept, Weights
<1> USE DEF PlanType
<1>3. CASE UpdateDesiredTraffic
  <2>1. stackset' \in [desired : Weights, actual : Weights]
    BY <1>1, <1>2, <1>3 DEF UpdateDesiredTraffic, KubeOK, PassOK
  <2> QED
    BY <1>1, <1>3, <2>1
    DEF UpdateDesiredTraffic, TypeOK, KubeOK, PassOK, BoundsOK, history, bounds,
        Weights, Stamp, Now
<1>4. CASE EndCleanup
  BY <1>1, <1>4
  DEF EndCleanup, TypeOK, KubeOK, PassOK, BoundsOK, kube, history, bounds, Weights, Stamp, Now
<1>5. CASE WriteStackSetStatus
  <2>1. stackset' \in [desired : Weights, actual : Weights]
    BY <1>1, <1>2, <1>5 DEF WriteStackSetStatus, KubeOK, PassOK
  <2>2. PassOK'
    BY <1>5, EndPassTyped DEF WriteStackSetStatus, history
  <2> QED
    BY <1>1, <1>5, <2>1, <2>2
    DEF WriteStackSetStatus, TypeOK, KubeOK, PassOK, BoundsOK, history, bounds,
        Weights, Stamp, Now
<1> QED BY <1>3, <1>4, <1>5

\* What a failed call or a crash leaves has the types.
LEMMA FailureTyped == ASSUME TypeOK, Failure PROVE TypeOK'
<1>1. KubeOK /\ PassOK /\ BoundsOK
  BY TypeParts
<1> USE DEF PlanType
<1>2. CASE Crash
  <2>1. PassOK'
    <3>1. store' \in {store, stackset} /\ cut' = cut
      BY <1>2 DEF Crash, history
    <3> QED BY <1>2, <3>1, EndPassTyped DEF Crash
  <2>2. failures' \in 0..MaxFailures
    BY <1>2, FailTyped DEF Crash
  <2> QED
    BY <1>1, <1>2, <2>1, <2>2
    DEF Crash, TypeOK, KubeOK, PassOK, BoundsOK, kube, history, Weights, Stamp, Now
<1>3. ASSUME NEW s \in Stacks, FailSegment(s) PROVE TypeOK'
  <2>1. routed' \in Weights
    <3>1. plan.actual[s] \in 0..Total /\ 0 \in 0..Total
      BY <1>1, Constants DEF PassOK, Weights
    <3> QED BY <1>1, <1>3, <3>1 DEF FailSegment, SetRouted, KubeOK, Weights
  <2>2. served' \in [Stacks -> Stamp]
    BY <1>1, <1>3, Constants DEF FailSegment, Serve, KubeOK
  <2>3. failures' \in 0..MaxFailures
    BY <1>3, FailTyped DEF FailSegment
  <2> QED
    BY <1>1, <1>3, <2>1, <2>2, <2>3
    DEF FailSegment, NextStack, TypeOK, KubeOK, PassOK, BoundsOK, Weights, Stamp, Now
<1>4. ASSUME NEW s \in Stacks, FailDeployment(s) PROVE TypeOK'
  <2>1. replicas' \in [Stacks -> {0, 1}] /\ ready' \subseteq ready
    BY <1>1, <1>4 DEF FailDeployment, SetReplicas, DesiredReplicas, KubeOK
  <2>2. failures' \in 0..MaxFailures
    BY <1>4, FailTyped DEF FailDeployment
  <2> QED
    BY <1>1, <1>4, <2>1, <2>2
    DEF FailDeployment, NextStack, TypeOK, KubeOK, PassOK, BoundsOK, history,
        Weights, Stamp, Now
<1>5. ASSUME NEW s \in Stacks, FailCleanup(s) PROVE TypeOK'
  <2>1. failures' \in 0..MaxFailures
    BY <1>5, FailTyped DEF FailCleanup
  <2> QED
    BY <1>1, <1>5, <2>1
    DEF FailCleanup, TypeOK, KubeOK, PassOK, BoundsOK, kube, history, Weights, Stamp, Now
<1>6. ASSUME NEW s \in Stacks, PodsFail(s) PROVE TypeOK'
  <2>1. failures' \in 0..MaxFailures
    BY <1>6, FailTyped DEF PodsFail
  <2> QED
    BY <1>1, <1>6, <2>1
    DEF PodsFail, TypeOK, KubeOK, PassOK, BoundsOK, history, Weights, Stamp, Now
<1> QED BY <1>2, <1>3, <1>4, <1>5, <1>6 DEF Failure

\* What goes on around the passes.
LEMMA EnvironmentTyped == ASSUME TypeOK, Environment PROVE TypeOK'
<1>1. KubeOK /\ PassOK /\ BoundsOK
  BY TypeParts
<1> USE DEF PlanType
<1>2. CASE UserSwitchesTraffic
  <2>1. PICK w \in Weights : stackset' = [stackset EXCEPT !.desired = w]
    BY <1>2 DEF UserSwitchesTraffic
  <2>2. stackset' \in [desired : Weights, actual : Weights]
    BY <1>1, <2>1 DEF KubeOK
  <2>3. edits' \in 0..MaxEdits
    BY <1>1, <1>2, Constants DEF UserSwitchesTraffic, BoundsOK
  <2> QED
    BY <1>1, <1>2, <2>2, <2>3
    DEF UserSwitchesTraffic, TypeOK, KubeOK, PassOK, BoundsOK, history, Weights, Stamp, Now
<1>3. CASE Deliver
  BY <1>1, <1>3
  DEF Deliver, TypeOK, KubeOK, PassOK, BoundsOK, kube, history, bounds, Weights, Stamp, Now
<1>4. CASE Tick
  <2>1. created' \in [Stacks -> Stamp] /\ since' \in [Stacks -> Stamp]
    BY <1>1, <1>4, AgedStampsAre DEF Tick, KubeOK
  <2>2. served' \in [Stacks -> Stamp]
    BY <1>1, <1>4, AgedIs, Constants DEF Tick, KubeOK
  <2>3. plan' \in PlanType /\ plan'.removal \subseteq plan'.members
    <3>1. AgedStamps(plan.since) \in [Stacks -> Stamp]
      BY <1>1, AgedStampsAre DEF PassOK
    <3> QED BY <1>1, <1>4, <3>1 DEF Tick, PassOK
  <2>4. slow' \in 0..MaxSlow
    BY <1>1, <1>4, Constants DEF Tick, BoundsOK
  <2> QED
    BY <1>1, <1>4, <2>1, <2>2, <2>3, <2>4
    DEF Tick, TypeOK, KubeOK, PassOK, BoundsOK, Weights, Stamp, Now
<1>5. ASSUME NEW s \in Stacks, StackCreated(s) PROVE TypeOK'
  <2>1. created' \in [Stacks -> Stamp]
    BY <1>1, <1>5, Constants DEF StackCreated, KubeOK
  <2>2. edits' \in 0..MaxEdits
    BY <1>1, <1>5, Constants DEF StackCreated, BoundsOK
  <2> QED
    BY <1>1, <1>5, <2>1, <2>2
    DEF StackCreated, TypeOK, KubeOK, PassOK, BoundsOK, history, Weights, Stamp, Now
<1>6. ASSUME NEW s \in Stacks, PodsReady(s) PROVE TypeOK'
  BY <1>1, <1>6
  DEF PodsReady, TypeOK, KubeOK, PassOK, BoundsOK, bounds, Weights, Stamp, Now
<1> QED BY <1>2, <1>3, <1>4, <1>5, <1>6 DEF Environment

\* Every step keeps the types.
LEMMA NextTyped == TypeOK /\ [Next]_vars => TypeOK'
<1>1. ASSUME TypeOK, UNCHANGED vars PROVE TypeOK'
  BY <1>1 DEF TypeOK, vars, kube, history, bounds, Weights, Stamp, Now
<1> QED
  BY <1>1, CollectTyped, StackStepTyped, PassStepTyped, FailureTyped, EnvironmentTyped
  DEF Next, Pass

(***************************************************************************)
(* In particular stacks are ready or proven only while they exist, and the *)
(* weights a pass plans are shares of the whole, whatever the StackSet it  *)
(* starts from says.                                                       *)
(***************************************************************************)
THEOREM TypeCorrect == Spec => []TypeOK
BY InitTyped, NextTyped, PTL DEF Spec

-----------------------------------------------------------------------------
(***************************************************************************)
(* What a pass knows of the stacks.                                        *)
(***************************************************************************)
\* A pass sticks to its plan: only the stamps in it age.
LEMMA PlanKept ==
    ASSUME TypeOK, [Next]_vars, pc' # "idle", ~Collect
    PROVE  /\ pc # "idle"
           /\ plan'.members = plan.members /\ plan'.removal = plan.removal
           /\ plan'.actual = plan.actual /\ plan'.desired = plan.desired
           /\ plan'.stackset = plan.stackset
           /\ ~Tick => plan' = plan
<1>1. plan \in PlanType
  BY DEF TypeOK, PlanType
<1>2. CASE UNCHANGED vars
  BY <1>2 DEF vars
<1>3. CASE Pass
  BY <1>3
  DEF Pass, UpdateDesiredTraffic, EndCleanup, WriteStackSetStatus, WriteSegment,
      WriteDeployment, NextStack, CleanupOldStacks, WriteStackStatus, DeletedStackStatus,
      EndPass
<1>4. CASE Failure
  BY <1>4 DEF Failure, Crash, FailSegment, FailDeployment, NextStack, FailCleanup, PodsFail, EndPass
<1>5. CASE Environment
  <2>1. CASE Tick
    BY <1>1, <2>1 DEF Tick, PlanType
  <2> QED
    BY <1>5, <2>1 DEF Environment, UserSwitchesTraffic, Deliver, StackCreated, PodsReady
<1> QED BY <1>2, <1>3, <1>4, <1>5 DEF Next

\* What is gone has no status and no deployment, and what is ready is scaled up.
ClusterTidy ==
    /\ \A s \in Stacks \ exists : since[s] = 0 /\ replicas[s] = 0
    /\ ready \subseteq proven
    /\ \A s \in ready : replicas[s] = 1

\* The stacks of a pass are those that exist, but for what it deletes.
PassKnowsStacks ==
    /\ pc # "idle" => plan.members \ plan.removal \subseteq exists /\ exists \subseteq plan.members
    /\ pc \in {"segment", "deployment"} => exists = plan.members /\ todo \subseteq exists
    /\ pc = "deployment" => current \in exists
    /\ pc = "cleanup" => todo \subseteq plan.removal

Members == TypeOK /\ ClusterTidy /\ PassKnowsStacks

\* It holds in the beginning.
LEMMA InitMembers == Init => Members
<1> SUFFICES ASSUME Init PROVE Members
  OBVIOUS
<1>1. TypeOK
  BY InitTyped
<1>2. PassKnowsStacks
  BY DEF Init, PassKnowsStacks
<1>3. ClusterTidy
  BY <1>1 DEF Init, ClusterTidy, TypeOK
<1> QED BY <1>1, <1>2, <1>3 DEF Members

\* The stacks a pass plans for exist, and only its cleanup deletes them.
LEMMA NextPassKnows == ASSUME Members, [Next]_vars PROVE PassKnowsStacks'
<1>1. TypeOK /\ PassKnowsStacks
  BY DEF Members
<1>2. CASE pc' = "idle"
  BY <1>2 DEF PassKnowsStacks
<1>3. CASE Collect
  <2>1. PICK p \in ManageTraffic : \E r \in ExpiredStacks(p) : plan' = [p EXCEPT !.removal = r]
    BY <1>3 DEF Collect
  <2> PICK r \in ExpiredStacks(p) : plan' = [p EXCEPT !.removal = r]
    BY <2>1
  <2>2. p \in PlanType /\ p.members = exists
    BY <1>1, PlanIs
  <2>3. plan'.members = exists
    BY <2>2 DEF PlanType
  <2>4. exists' = exists /\ todo' = exists /\ pc' = "segment"
    BY <1>3 DEF Collect, kube
  <2> QED BY <2>3, <2>4 DEF PassKnowsStacks
<1>4. CASE pc' # "idle" /\ ~Collect
  <2>1. pc # "idle" /\ plan'.members = plan.members /\ plan'.removal = plan.removal
    BY <1>1, <1>4, PlanKept
  <2> USE <1>1, <2>1 DEF PassKnowsStacks
  <2>2. CASE UNCHANGED vars
    BY <2>2 DEF vars, kube
  <2>3. ASSUME NEW s \in Stacks, WriteSegment(s) PROVE PassKnowsStacks'
    BY <2>3 DEF WriteSegment
  <2>4. ASSUME NEW s \in Stacks, WriteDeployment(s) PROVE PassKnowsStacks'
    BY <2>4 DEF WriteDeployment, NextStack
  <2>5. CASE UpdateDesiredTraffic
    BY <2>5 DEF UpdateDesiredTraffic
  <2>6. ASSUME NEW s \in Stacks, CleanupOldStacks(s) PROVE PassKnowsStacks'
    BY <2>6 DEF CleanupOldStacks, Delete
  <2>7. CASE EndCleanup
    BY <2>7 DEF EndCleanup, kube
  <2>8. ASSUME NEW s \in Stacks, WriteStackStatus(s) PROVE PassKnowsStacks'
    BY <2>8 DEF WriteStackStatus
  <2>9. ASSUME NEW s \in Stacks, DeletedStackStatus(s) PROVE PassKnowsStacks'
    BY <1>4, <2>9 DEF DeletedStackStatus, EndPass, kube
  <2>10. CASE WriteStackSetStatus
    BY <1>4, <2>10 DEF WriteStackSetStatus, EndPass
  <2>11. CASE Crash
    BY <1>4, <2>11 DEF Crash, EndPass
  <2>12. ASSUME NEW s \in Stacks, FailSegment(s) PROVE PassKnowsStacks'
    BY <2>12 DEF FailSegment, NextStack
  <2>13. ASSUME NEW s \in Stacks, FailDeployment(s) PROVE PassKnowsStacks'
    BY <2>13 DEF FailDeployment, NextStack
  <2>14. ASSUME NEW s \in Stacks, FailCleanup(s) PROVE PassKnowsStacks'
    BY <2>14 DEF FailCleanup, kube
  <2>15. ASSUME NEW s \in Stacks, PodsFail(s) PROVE PassKnowsStacks'
    BY <2>15 DEF PodsFail
  <2>16. CASE UserSwitchesTraffic \/ Deliver \/ Tick
    BY <2>16 DEF UserSwitchesTraffic, Deliver, kube, Tick
  <2>17. ASSUME NEW s \in Stacks, StackCreated(s) \/ PodsReady(s) PROVE PassKnowsStacks'
    BY <2>17 DEF StackCreated, PodsReady
  <2> QED
    BY <1>4, <2>2, <2>3, <2>4, <2>5, <2>6, <2>7, <2>8, <2>9, <2>10, <2>11, <2>12, <2>13,
       <2>14, <2>15, <2>16, <2>17
    DEF Next, Pass, Failure, Environment
<1> QED BY <1>2, <1>3, <1>4

\* A deployment is written for a stack that exists, and what it says decides
\* whether pods can be ready.
LEMMA DeploymentTidy ==
    ASSUME Members, pc = "deployment", SetReplicas(current),
           UNCHANGED <<exists, since, proven>>
    PROVE  ClusterTidy'
<1>1. /\ current \in exists /\ current \in Stacks
      /\ replicas \in [Stacks -> {0, 1}] /\ ready \subseteq Stacks
  BY DEF Members, PassKnowsStacks, TypeOK
<1>2. DesiredReplicas(current) \in {0, 1}
  BY DEF DesiredReplicas
<1>3. /\ replicas' = [replicas EXCEPT ![current] = DesiredReplicas(current)]
      /\ ready' = IF DesiredReplicas(current) = 0 THEN ready \ {current} ELSE ready
  BY DEF SetReplicas
<1>4. ClusterTidy
  BY DEF Members
<1> QED BY <1>1, <1>2, <1>3, <1>4 DEF ClusterTidy

\* Every step leaves the cluster tidy.
LEMMA NextTidy == ASSUME Members, [Next]_vars PROVE ClusterTidy'
<1>1. TypeOK /\ ClusterTidy
  BY DEF Members
<1> USE <1>1 DEF ClusterTidy
<1>2. CASE UNCHANGED <<exists, since, replicas, ready, proven>>
  BY <1>2
<1>3. ASSUME NEW s \in Stacks, WriteDeployment(s) PROVE ClusterTidy'
  <2>1. /\ pc = "deployment" /\ s = current
        /\ SetReplicas(current) /\ UNCHANGED <<exists, since, proven>>
    BY <1>3 DEF WriteDeployment, history
  <2> QED BY <2>1, DeploymentTidy
<1>4. ASSUME NEW s \in Stacks, FailDeployment(s) PROVE ClusterTidy'
  <2>1. CASE SetReplicas(s)
    <3>1. pc = "deployment" /\ s = current /\ UNCHANGED <<exists, since, proven>>
      BY <1>4 DEF FailDeployment, history
    <3> QED BY <2>1, <3>1, DeploymentTidy
  <2> QED BY <1>2, <1>4, <2>1 DEF FailDeployment, history
<1>5. ASSUME NEW s \in Stacks, CleanupOldStacks(s) PROVE ClusterTidy'
  BY <1>5 DEF CleanupOldStacks, Delete, TypeOK
<1>6. ASSUME NEW s \in Stacks, WriteStackStatus(s) PROVE ClusterTidy'
  BY <1>6 DEF WriteStackStatus, history, TypeOK
<1>7. ASSUME NEW s \in Stacks, PodsFail(s) PROVE ClusterTidy'
  BY <1>7 DEF PodsFail, history
<1>8. ASSUME NEW s \in Stacks, PodsReady(s) PROVE ClusterTidy'
  BY <1>8 DEF PodsReady
<1>9. ASSUME NEW s \in Stacks, StackCreated(s) PROVE ClusterTidy'
  BY <1>9 DEF StackCreated, history
<1>10. CASE Tick
  <2>1. \A s \in Stacks : since'[s] = Aged(since[s])
    BY <1>10, AgedStampsAre DEF Tick, TypeOK
  <2>2. Aged(0) = 0
    BY DEF Aged
  <2> QED BY <1>10, <2>1, <2>2 DEF Tick
<1>11. CASE Collect \/ UpdateDesiredTraffic \/ EndCleanup \/ WriteStackSetStatus \/ Crash
  BY <1>11
  DEF Collect, UpdateDesiredTraffic, EndCleanup, WriteStackSetStatus, Crash, kube, history
<1>12. ASSUME NEW s \in Stacks,
              WriteSegment(s) \/ DeletedStackStatus(s) \/ FailSegment(s) \/ FailCleanup(s)
       PROVE  ClusterTidy'
  BY <1>12 DEF WriteSegment, DeletedStackStatus, FailSegment, FailCleanup, kube, history
<1>13. CASE UserSwitchesTraffic \/ Deliver \/ UNCHANGED vars
  BY <1>13 DEF UserSwitchesTraffic, Deliver, kube, history, vars
<1> QED
  BY <1>3, <1>4, <1>5, <1>6, <1>7, <1>8, <1>9, <1>10, <1>11, <1>12, <1>13
  DEF Next, Pass, Failure, Environment

\* So all of it is an invariant.
LEMMA AlwaysMembers == Spec => []Members
<1>1. Members /\ [Next]_vars => Members'
  BY NextTyped, NextPassKnows, NextTidy DEF Members
<1> QED BY <1>1, InitMembers, PTL DEF Spec

-----------------------------------------------------------------------------
(***************************************************************************)
(* Cleaning up.                                                            *)
(***************************************************************************)
\* A pass that removes stacks plans to leave more than the limit.
EnoughLeft ==
    pc # "idle" /\ OwnIngress = Stacks /\ plan.removal # {} =>
        Cardinality(plan.members \ plan.removal) > Limit

\* It is decided when the pass begins, and the pass sticks to it.
LEMMA NextEnoughLeft == TypeOK /\ EnoughLeft /\ [Next]_vars => EnoughLeft'
<1> SUFFICES ASSUME TypeOK, EnoughLeft, [Next]_vars, pc' # "idle", OwnIngress = Stacks,
                    plan'.removal # {}
             PROVE  Cardinality(plan'.members \ plan'.removal) > Limit
  BY DEF EnoughLeft
<1>1. CASE Collect
  <2>1. PICK p \in ManageTraffic : \E r \in ExpiredStacks(p) : plan' = [p EXCEPT !.removal = r]
    BY <1>1 DEF Collect
  <2> PICK r \in ExpiredStacks(p) : plan' = [p EXCEPT !.removal = r]
    BY <2>1
  <2>2. p \in PlanType /\ p.members = exists
    BY PlanIs
  <2>3. plan'.members = exists /\ plan'.removal = r
    BY <2>2 DEF PlanType
  <2> QED BY <2>3, RemovalIs
<1>2. CASE ~Collect
  BY <1>2, PlanKept DEF EnoughLeft
<1> QED BY <1>1, <1>2

(***************************************************************************)
(* CleanupOldStacks deletes stack by stack what MarkExpiredStacks marked,  *)
(* and may fail half-way.  Every deletion of every pass leaves more stacks *)
(* than the limit, if all of them have segments of their own: the marked   *)
(* ones are those beyond the limit among the stacks without traffic, and   *)
(* ManageTraffic gives traffic to at least one stack besides.              *)
(***************************************************************************)
THEOREM KeepsLimit == Spec => LimitKept
<1> DEFINE Kept1 == /\ OwnIngress = Stacks
                    /\ exists' # exists /\ exists' \subseteq exists
                    => Cardinality(exists') > Limit
<1>1. Init => EnoughLeft
  BY DEF Init, EnoughLeft
<1>2. Members /\ EnoughLeft /\ [Next]_vars => [Kept1]_vars
  <2> SUFFICES ASSUME Members, EnoughLeft, Next, OwnIngress = Stacks,
                      exists' # exists, exists' \subseteq exists
               PROVE  Cardinality(exists') > Limit
    OBVIOUS
  <2>1. ASSUME NEW s \in Stacks, CleanupOldStacks(s) PROVE Cardinality(exists') > Limit
    <3> DEFINE left == plan.members \ plan.removal
    <3>1. /\ pc = "cleanup" /\ s \in plan.removal /\ exists' = exists \ {s}
          /\ left \subseteq exists /\ exists \in SUBSET Stacks
      BY <2>1 DEF CleanupOldStacks, Delete, Members, PassKnowsStacks, TypeOK
    <3>2. Cardinality(left) > Limit
      BY <3>1 DEF EnoughLeft
    <3>3. exists' \in SUBSET Stacks /\ left \in SUBSET exists'
      BY <3>1
    <3>4. IsFiniteSet(exists')
      BY <3>3, Constants, FS_Subset
    <3> HIDE DEF left
    <3>5. IsFiniteSet(left) /\ Cardinality(left) <= Cardinality(exists')
      BY <3>3, <3>4, FS_Subset
    <3>6. Cardinality(left) \in Nat /\ Cardinality(exists') \in Nat /\ Limit \in Nat
      BY <3>4, <3>5, FS_CardinalityType, Constants
    <3> QED BY <3>2, <3>5, <3>6
  <2>2. ASSUME NEW s \in Stacks, StackCreated(s) PROVE FALSE
    BY <2>2 DEF StackCreated
  <2>3. CASE \A s \in Stacks : ~CleanupOldStacks(s) /\ ~StackCreated(s)
    BY <2>3
    DEF Next, Pass, Failure, Environment, Collect, UpdateDesiredTraffic, EndCleanup,
        WriteStackSetStatus, WriteSegment, WriteDeployment, WriteStackStatus,
        DeletedStackStatus, Crash, FailSegment, FailDeployment, FailCleanup, PodsFail,
        UserSwitchesTraffic, Deliver, Tick, PodsReady, kube
  <2> QED BY <2>1, <2>2, <2>3
<1>3. Spec => []EnoughLeft
  BY <1>1, NextEnoughLeft, TypeCorrect, PTL DEF Spec
<1> QED BY <1>2, <1>3, AlwaysMembers, PTL DEF Spec, LimitKept

-----------------------------------------------------------------------------
(***************************************************************************)
(* Traffic goes to stacks that were ready.                                 *)
(***************************************************************************)
Proven(s) == s \in proven /\ replicas[s] = 1

\* Every stack has segments of its own, nothing failed, no pass started on an
\* outdated StackSet or was cut short.
Smooth == OwnIngress = Stacks /\ failures = 0 /\ lags = 0 /\ ~cut

(***************************************************************************)
(* Between passes the status of the StackSet gives traffic to some stack,  *)
(* and only to stacks that were ready and are scaled up; during a pass the *)
(* same holds of the plan, which removes none of them and was made for the *)
(* traffic the status still has.                                           *)
(***************************************************************************)
TrafficGrounded ==
    Smooth =>
        IF pc = "idle"
        THEN /\ \E s \in Stacks : stackset.actual[s] > 0
             /\ \A s \in Stacks : stackset.actual[s] > 0 => Proven(s)
        ELSE /\ \E s \in Stacks : plan.actual[s] > 0
             /\ \A s \in Stacks :
                  plan.actual[s] > 0 => s \in plan.members \ plan.removal /\ Proven(s)
             /\ plan.stackset.actual = stackset.actual

\* The counters only grow.
LEMMA SmoothBefore ==
    ASSUME TypeOK, [Next]_vars, Smooth'
    PROVE  /\ Smooth /\ UNCHANGED failures /\ UNCHANGED cut
           /\ Collect => store = stackset
<1>1. /\ failures \in Nat /\ lags \in Nat /\ cut \in BOOLEAN
      /\ MaxFailures \in Nat /\ MaxLag \in Nat
  BY Constants DEF TypeOK
<1>2. failures' = 0 /\ lags' = 0 /\ ~cut'
  BY DEF Smooth
<1>3. ~Fail
  BY <1>1, <1>2 DEF Fail
<1>4. Collect => lags = 0 /\ store = stackset
  BY <1>1, <1>2 DEF Collect
<1>5. failures' = failures /\ cut' = cut /\ (lags' = lags \/ Collect)
  BY <1>2, <1>3
  DEF Next, Pass, Failure, Environment, Collect, UpdateDesiredTraffic, EndCleanup,
      WriteStackSetStatus, WriteSegment, WriteDeployment, CleanupOldStacks,
      WriteStackStatus, DeletedStackStatus, Crash, FailSegment, FailDeployment,
      FailCleanup, PodsFail, UserSwitchesTraffic, Deliver, Tick, StackCreated, PodsReady,
      vars, history, bounds
<1> QED BY <1>2, <1>4, <1>5 DEF Smooth

\* The first StackSet gives its traffic to a stack that is ready.
LEMMA InitGrounded == Init => TrafficGrounded
<1> SUFFICES ASSUME Init PROVE TrafficGrounded
  OBVIOUS
<1>1. PICK s \in exists : stackset = [desired |-> Only(s), actual |-> Only(s)] /\ ready = {s}
  BY DEF Init
<1>2. s \in Stacks /\ Total \in Nat /\ Total > 0
  BY Constants DEF Init
<1>3. stackset.actual = [t \in Stacks |-> IF t = s THEN Total ELSE 0]
  BY <1>1, <1>2 DEF Only, NoTraffic
<1>4. Proven(s) /\ pc = "idle"
  BY <1>1, <1>2 DEF Init, Proven
<1> QED BY <1>2, <1>3, <1>4 DEF TrafficGrounded

\* A pass that does not fail neither removes nor scales down a stack it gives traffic.
LEMMA ProvenKept ==
    ASSUME Members, [Next]_vars, UNCHANGED failures, NEW s \in Stacks, Proven(s),
           pc # "idle" => plan.actual[s] > 0 /\ s \notin plan.removal
    PROVE  Proven(s)'
<1>1. TypeOK /\ PassKnowsStacks
  BY DEF Members
<1>2. ~Fail
  BY <1>1, Constants DEF Fail, TypeOK
<1>3. ASSUME NEW t \in Stacks, WriteDeployment(t) PROVE Proven(s)'
  <2>1. plan.actual[s] > 0
    BY <1>3 DEF WriteDeployment
  <2>2. DesiredReplicas(s) = 1
    BY <2>1 DEF DesiredReplicas, ScaledDown, HasTraffic
  <2> QED BY <1>1, <1>3, <2>2 DEF WriteDeployment, SetReplicas, history, Proven, TypeOK
<1>4. ASSUME NEW t \in Stacks, CleanupOldStacks(t) PROVE Proven(s)'
  <2>1. t \in plan.removal /\ s # t
    BY <1>1, <1>4 DEF CleanupOldStacks, PassKnowsStacks
  <2> QED BY <1>1, <1>4, <2>1 DEF CleanupOldStacks, Delete, Proven, TypeOK
<1>5. ASSUME NEW t \in Stacks, PodsReady(t) PROVE Proven(s)'
  BY <1>5 DEF PodsReady, Proven
<1>6. CASE \A t \in Stacks : ~WriteDeployment(t) /\ ~CleanupOldStacks(t) /\ ~PodsReady(t)
  <2>1. UNCHANGED <<proven, replicas>>
    BY <1>2, <1>6
    DEF Next, Pass, Failure, Environment, Collect, UpdateDesiredTraffic, EndCleanup,
        WriteStackSetStatus, WriteSegment, WriteStackStatus, DeletedStackStatus, Crash,
        FailSegment, FailDeployment, FailCleanup, PodsFail, UserSwitchesTraffic, Deliver,
        Tick, StackCreated, vars, kube, history
  <2> QED BY <2>1 DEF Proven
<1> QED BY <1>3, <1>4, <1>5, <1>6

\* A pass that begins gives traffic to what has it or is ready, and keeps that.
LEMMA CollectGrounded ==
    ASSUME Members, TrafficGrounded, Smooth, Collect, store = stackset
    PROVE  TrafficGrounded'
<1>1. TypeOK /\ ClusterTidy
  BY DEF Members
<1>2. PICK p \in ManageTraffic : \E r \in ExpiredStacks(p) : plan' = [p EXCEPT !.removal = r]
  BY DEF Collect
<1> PICK r \in ExpiredStacks(p) : plan' = [p EXCEPT !.removal = r]
  BY <1>2
<1>3. p \in PlanType /\ p.members = exists /\ p.stackset = stackset
  BY <1>1, PlanIs
<1>4. /\ plan'.members = exists /\ plan'.removal = r /\ plan'.actual = p.actual
      /\ plan'.stackset = stackset'
  BY <1>3 DEF PlanType, Collect, kube
<1>5. /\ \E s \in Stacks : stackset.actual[s] > 0
      /\ \A s \in Stacks : stackset.actual[s] > 0 => Proven(s)
  BY DEF TrafficGrounded, Collect
<1>6. \A s \in Stacks : stackset.actual[s] > 0 => s \in exists
  BY <1>1, <1>5 DEF Proven, TypeOK
<1>7. \E s \in Stacks : p.actual[s] > 0
  <2>1. exists # {} /\ exists \subseteq Stacks
    BY <1>1, <1>5, <1>6 DEF TypeOK
  <2> QED BY <1>1, <2>1, PlanIs
<1>8. \A s \in Stacks : p.actual[s] > 0 => s \in exists \ r /\ Proven(s)
  <2> SUFFICES ASSUME NEW s \in Stacks, p.actual[s] > 0 PROVE s \in exists \ r /\ Proven(s)
    OBVIOUS
  <2>1. /\ s \in exists
        /\ s \in ready \/ stackset.actual[s] > 0 \/ \A t \in exists : stackset.actual[t] = 0
    BY <1>1, PlanIs
  <2>2. ~\A t \in exists : stackset.actual[t] = 0
    BY <1>5, <1>6
  <2>3. Proven(s)
    BY <1>1, <1>5, <2>1, <2>2 DEF ClusterTidy, Proven
  <2>4. s \notin r
    <3>1. OwnIngress = Stacks
      BY DEF Smooth
    <3>2. \A t \in r : ScaledDown(p, t)
      BY <1>1, <3>1, RemovalIs
    <3> QED BY <3>2 DEF ScaledDown, HasTraffic
  <2> QED BY <2>1, <2>3, <2>4
<1>9. \A s \in Stacks : Proven(s) => Proven(s)'
  BY DEF Collect, kube, history, Proven
<1>10. pc' # "idle"
  BY DEF Collect
<1> QED BY <1>4, <1>7, <1>8, <1>9, <1>10 DEF TrafficGrounded

\* The status of the StackSet is what the pass planned, written or not.
LEMMA StatusGrounded ==
    ASSUME Members, TrafficGrounded, Smooth, WriteStackSetStatus
    PROVE  TrafficGrounded'
<1>1. pc = "status" /\ pc' = "idle"
  BY DEF WriteStackSetStatus, EndPass
<1>2. stackset'.actual = Kept(plan.actual)
  <2>1. CASE stackset' = [stackset EXCEPT !.actual = Kept(plan.actual)]
    BY <2>1 DEF Members, TypeOK
  <2>2. CASE Kept(plan.actual) = plan.stackset.actual /\ UNCHANGED stackset
    BY <1>1, <2>2 DEF TrafficGrounded
  <2> QED BY <2>1, <2>2 DEF WriteStackSetStatus
<1>3. /\ \E s \in Stacks : plan.actual[s] > 0
      /\ \A s \in Stacks :
           plan.actual[s] > 0 => s \in plan.members \ plan.removal /\ Proven(s)
  BY <1>1 DEF TrafficGrounded
<1>4. \A s \in Stacks : stackset'.actual[s] =
          IF s \in plan.members \ plan.removal THEN plan.actual[s] ELSE 0
  BY <1>2 DEF Kept
<1>5. \A s \in Stacks : stackset'.actual[s] > 0 <=> plan.actual[s] > 0
  BY <1>3, <1>4
<1>6. \A s \in Stacks : Proven(s) => Proven(s)'
  BY DEF WriteStackSetStatus, history, Proven
<1> QED BY <1>1, <1>3, <1>5, <1>6 DEF TrafficGrounded

\* Every step keeps that traffic is grounded.
LEMMA NextGrounded == Members /\ TrafficGrounded /\ [Next]_vars => TrafficGrounded'
<1> SUFFICES ASSUME Members, TrafficGrounded, [Next]_vars, Smooth' PROVE TrafficGrounded'
  BY DEF TrafficGrounded
<1>1. TypeOK
  BY DEF Members
<1>2. Smooth /\ UNCHANGED failures /\ UNCHANGED cut /\ (Collect => store = stackset)
  BY <1>1, SmoothBefore
<1>3. ~cut /\ ~cut' /\ ~Fail
  BY <1>1, <1>2, Constants DEF Smooth, Fail, TypeOK
<1>4. CASE Collect
  BY <1>2, <1>4, CollectGrounded
<1>5. CASE WriteStackSetStatus
  BY <1>2, <1>5, StatusGrounded
<1>6. CASE ~Collect /\ ~WriteStackSetStatus
  <2>1. pc' = "idle" <=> pc = "idle"
    BY <1>3, <1>6
    DEF Next, Pass, Failure, Environment, UpdateDesiredTraffic, EndCleanup, WriteSegment,
        WriteDeployment, NextStack, CleanupOldStacks, WriteStackStatus, DeletedStackStatus,
        Crash, FailSegment, FailDeployment, FailCleanup, PodsFail, UserSwitchesTraffic,
        Deliver, Tick, StackCreated, PodsReady, vars
  <2>2. stackset'.actual = stackset.actual
    BY <1>1, <1>3, <1>6
    DEF Next, Pass, Failure, Environment, UpdateDesiredTraffic, EndCleanup, WriteSegment,
        WriteDeployment, CleanupOldStacks, WriteStackStatus, DeletedStackStatus, Crash,
        FailSegment, FailDeployment, FailCleanup, PodsFail, UserSwitchesTraffic, Deliver,
        Tick, StackCreated, PodsReady, vars, kube, TypeOK
  <2>3. CASE pc = "idle"
    <3>1. /\ \E s \in Stacks : stackset.actual[s] > 0
          /\ \A s \in Stacks : stackset.actual[s] > 0 => Proven(s)
      BY <1>2, <2>3 DEF TrafficGrounded
    <3>2. \A s \in Stacks : Proven(s) => Proven(s)'
      BY <1>2, <2>3, ProvenKept
    <3> QED BY <2>1, <2>2, <2>3, <3>1, <3>2 DEF TrafficGrounded
  <2>4. CASE pc # "idle"
    <3>1. /\ \E s \in Stacks : plan.actual[s] > 0
          /\ \A s \in Stacks :
               plan.actual[s] > 0 => s \in plan.members \ plan.removal /\ Proven(s)
      BY <1>2, <2>4 DEF TrafficGrounded
    <3>2. /\ plan'.members = plan.members /\ plan'.removal = plan.removal
          /\ plan'.actual = plan.actual /\ plan'.stackset = plan.stackset
      BY <1>1, <1>6, <2>1, <2>4, PlanKept
    <3>3. \A s \in Stacks : plan.actual[s] > 0 => Proven(s)'
      BY <1>2, <3>1, ProvenKept
    <3>4. plan'.stackset.actual = stackset'.actual
      BY <1>2, <2>2, <2>4, <3>2 DEF TrafficGrounded
    <3> QED BY <2>1, <2>4, <3>1, <3>2, <3>3, <3>4 DEF TrafficGrounded
  <2> QED BY <2>3, <2>4
<1> QED BY <1>4, <1>5, <1>6

(***************************************************************************)
(* SimpleTrafficReconciler switches once the stacks that gain are ready,   *)
(* compared with weights that earlier passes wrote.  As long as passes are *)
(* neither failing, nor outdated, nor cut short, no stack gains traffic    *)
(* that was never ready or is scaled down by then.                         *)
(***************************************************************************)
THEOREM GainsWhenReady == Spec => RoutesToReady
<1> DEFINE Gains == Smooth =>
                      \A s \in Stacks : routed'[s] > routed[s] => s \in proven /\ replicas[s] = 1
<1>1. Members /\ TrafficGrounded /\ [Next]_vars => [Gains]_vars
  <2> SUFFICES ASSUME Members, TrafficGrounded, Next, Smooth,
                      NEW s \in Stacks, routed'[s] > routed[s]
               PROVE  Proven(s)
    BY DEF Proven
  <2>1. TypeOK /\ routed[s] \in Nat
    BY WeightType DEF Members, TypeOK
  <2>2. ASSUME NEW t \in Stacks, pc = "segment", SetRouted(t) PROVE Proven(s)
    <3>1. plan.actual[s] \in Nat
      BY <2>1, WeightType DEF TypeOK
    <3>2. s = t /\ plan.actual[s] > 0
      <4>1. routed \in [Stacks -> 0..Total]
        BY <2>1 DEF TypeOK, Weights
      <4> QED BY <2>1, <2>2, <3>1, <4>1 DEF SetRouted
    <3> QED BY <2>2, <3>2 DEF TrafficGrounded
  <2>3. ASSUME NEW t \in Stacks, WriteSegment(t) PROVE Proven(s)
    BY <2>2, <2>3 DEF WriteSegment
  <2>4. ASSUME NEW t \in Stacks, FailSegment(t) PROVE Proven(s)
    BY <2>1, <2>2, <2>4 DEF FailSegment
  <2>5. ASSUME NEW t \in Stacks, CleanupOldStacks(t) PROVE FALSE
    BY <2>1, <2>5 DEF CleanupOldStacks, Delete, TypeOK, Weights
  <2>6. CASE \A t \in Stacks : ~WriteSegment(t) /\ ~FailSegment(t) /\ ~CleanupOldStacks(t)
    <3>1. UNCHANGED routed
      BY <2>6
      DEF Next, Pass, Failure, Environment, Collect, UpdateDesiredTraffic, EndCleanup,
          WriteStackSetStatus, WriteDeployment, WriteStackStatus, DeletedStackStatus, Crash,
          FailDeployment, FailCleanup, PodsFail, UserSwitchesTraffic, Deliver, Tick,
          StackCreated, PodsReady, kube
    <3> QED BY <2>1, <3>1
  <2> QED BY <2>3, <2>4, <2>5, <2>6
<1>2. Spec => []TrafficGrounded
  BY InitGrounded, NextGrounded, AlwaysMembers, PTL DEF Spec
<1>3. Members /\ TrafficGrounded /\ [Next]_vars =>
        [OwnIngress = Stacks /\ failures = 0 /\ lags = 0 /\ ~cut =>
           \A s \in Stacks : routed'[s] > routed[s] => s \in proven /\ replicas[s] = 1]_vars
  BY <1>1 DEF Smooth
<1> QED BY <1>2, <1>3, AlwaysMembers, PTL DEF Spec, RoutesToReady

-----------------------------------------------------------------------------
(***************************************************************************)
(* Stacks are scaled down when they had no traffic for long enough.        *)
(***************************************************************************)
\* The pass has dealt with the segments of s.
Written(s) ==
    \/ pc \in {"cleanup", "status"}
    \/ pc \in {"segment", "deployment"} /\ s \notin todo
    \/ pc = "deployment" /\ s = current

\* Nothing failed, and no pass was slow or cut short.
Steady == failures = 0 /\ slow = 0 /\ ~cut

\* What the status of a stack says: it has had no traffic since.
StatusHonest(s) == since[s] > 0 => routed[s] = 0 /\ served[s] <= since[s]

\* What the plan says of it: traffic that it still has is from now, and is gone
\* once its segments are written.
PlanHonest(s) ==
    plan.since[s] > 0 =>
        /\ plan.actual[s] = 0
        /\ served[s] <= plan.since[s]
        /\ plan.since[s] = Now \/ routed[s] = 0
        /\ Written(s) => routed[s] = 0

\* The stamps are honest, and what is written of them is what was planned.
StampsHonest ==
    Steady =>
        IF pc = "idle"
        THEN \A s \in Stacks : StatusHonest(s)
        ELSE /\ \A s \in Stacks : PlanHonest(s)
             /\ pc = "status" => \A s \in exists \ todo : since[s] = plan.since[s]

\* The first statuses are.
LEMMA InitHonest == Init => StampsHonest
<1> SUFFICES ASSUME Init, NEW t \in Stacks, since[t] > 0
             PROVE  routed[t] = 0 /\ served[t] <= since[t]
  BY DEF StampsHonest, StatusHonest, Init
<1>1. PICK s \in exists :
         /\ routed = [u \in Stacks |-> IF u \in OwnIngress THEN Only(s)[u] ELSE 0]
         /\ since = [u \in Stacks |-> IF u \in exists \ {s} THEN Now ELSE 0]
  BY DEF Init
<1>2. t # s /\ since[t] = Now
  BY <1>1
<1>3. routed[t] = 0
  BY <1>1, <1>2 DEF Only, NoTraffic
<1>4. served[t] = 0
  BY <1>3 DEF Init
<1> QED BY <1>2, <1>3, <1>4, Constants

\* The counters only grow.
LEMMA SteadyBefore ==
    ASSUME TypeOK, [Next]_vars, Steady'
    PROVE  Steady /\ ~Fail /\ ~cut' /\ (Tick => pc = "idle")
<1>1. /\ failures \in Nat /\ slow \in Nat /\ cut \in BOOLEAN
      /\ MaxFailures \in Nat /\ MaxSlow \in Nat
  BY Constants DEF TypeOK
<1>2. failures' = 0 /\ slow' = 0 /\ ~cut'
  BY DEF Steady
<1>3. ~Fail
  BY <1>1, <1>2 DEF Fail
<1>4. Tick => slow = 0 /\ pc = "idle"
  BY <1>1, <1>2 DEF Tick
<1>5. failures' = failures /\ cut' = cut /\ (slow' = slow \/ Tick)
  BY <1>2, <1>3
  DEF Next, Pass, Failure, Environment, Collect, UpdateDesiredTraffic, EndCleanup,
      WriteStackSetStatus, WriteSegment, WriteDeployment, CleanupOldStacks,
      WriteStackStatus, DeletedStackStatus, Crash, FailSegment, FailDeployment,
      FailCleanup, PodsFail, UserSwitchesTraffic, Deliver, Tick, StackCreated, PodsReady,
      vars, history, bounds
<1> QED BY <1>2, <1>3, <1>4, <1>5 DEF Steady

\* A pass that begins takes over the stamps, or sets them to now.
LEMMA CollectHonest ==
    ASSUME Members, StampsHonest, Steady, Collect
    PROVE  StampsHonest'
<1>1. TypeOK
  BY DEF Members
<1>2. PICK p \in ManageTraffic : \E r \in ExpiredStacks(p) : plan' = [p EXCEPT !.removal = r]
  BY DEF Collect
<1> PICK r \in ExpiredStacks(p) : plan' = [p EXCEPT !.removal = r]
  BY <1>2
<1>3. p \in PlanType
  BY <1>1, PlanIs
<1>4. plan'.actual = p.actual /\ plan'.since = p.since
  BY <1>3 DEF PlanType
<1>5. /\ pc = "idle" /\ pc' = "segment" /\ todo' = exists
      /\ UNCHANGED <<routed, served>>
  BY DEF Collect, kube, history
<1> SUFFICES ASSUME NEW s \in Stacks PROVE PlanHonest(s)'
  BY <1>5 DEF StampsHonest
<1>6. StatusHonest(s)
  BY <1>5 DEF StampsHonest
<1>7. p.since[s] > 0 =>
        /\ s \in exists /\ p.actual[s] = 0
        /\ p.since[s] = Now \/ p.since[s] = since[s]
  BY <1>1, PlanIs
<1>8. served[s] <= Now
  BY <1>1, Constants DEF TypeOK
<1>9. Now' = Now
  BY DEF Now
<1>10. Written(s)' <=> s \notin exists
  BY <1>5 DEF Written
<1> QED BY <1>4, <1>5, <1>6, <1>7, <1>8, <1>9, <1>10 DEF PlanHonest, StatusHonest

\* Writing the segments of a stack takes the traffic from it that it has lost.
LEMMA SegmentHonest ==
    ASSUME Members, StampsHonest, Steady, NEW s \in Stacks, WriteSegment(s)
    PROVE  StampsHonest'
<1>1. TypeOK
  BY DEF Members
<1>2. /\ pc = "segment" /\ pc' = "deployment" /\ s \in todo /\ current' = s
      /\ UNCHANGED <<todo, plan>> /\ SetRouted(s) /\ Serve
  BY DEF WriteSegment
<1> SUFFICES ASSUME NEW t \in Stacks PROVE PlanHonest(t)'
  BY <1>2 DEF StampsHonest
<1>3. PlanHonest(t)
  BY <1>2 DEF StampsHonest
<1>4. routed'[t] = IF t = s THEN IF s \in OwnIngress THEN plan.actual[s] ELSE 0 ELSE routed[t]
  BY <1>1, <1>2 DEF SetRouted, TypeOK, Weights
<1>5. served'[t] = IF routed[t] > 0 \/ routed'[t] > 0 THEN Now ELSE served[t]
  BY <1>2 DEF Serve
<1>6. Now' = Now /\ Now \in Nat /\ routed[t] \in Nat
  BY <1>1, Constants, WeightType DEF Now, TypeOK
<1>7. Written(t)' <=> t \notin todo \/ t = s
  BY <1>2 DEF Written
<1>8. Written(t) <=> t \notin todo
  BY <1>2 DEF Written
<1> QED BY <1>2, <1>3, <1>4, <1>5, <1>6, <1>7, <1>8 DEF PlanHonest

\* Steps that leave the plan and the traffic alone, and deal with the same segments.
LEMMA QuietHonest ==
    ASSUME Members, StampsHonest, Steady, pc # "idle", pc' # "idle", plan' = plan,
           \A s \in Stacks :
               \/ /\ Written(s)' => Written(s)
                  /\ routed'[s] = routed[s] /\ served'[s] = served[s]
               \/ routed'[s] = 0 /\ served'[s] = 0,
           pc' = "status" => \A s \in exists' \ todo' : since'[s] = plan.since[s]
    PROVE  StampsHonest'
<1> SUFFICES ASSUME NEW s \in Stacks PROVE PlanHonest(s)'
  BY DEF StampsHonest
<1>1. PlanHonest(s)
  BY DEF StampsHonest
<1>2. Now' = Now
  BY DEF Now
<1>3. plan \in PlanType /\ plan.since[s] \in Nat
  <2>1. plan \in PlanType
    BY DEF Members, TypeOK, PlanType
  <2>2. plan.since[s] \in Stamp
    BY <2>1 DEF PlanType
  <2> QED BY <2>1, <2>2, Constants
<1>4. CASE routed'[s] = 0 /\ served'[s] = 0
  BY <1>1, <1>2, <1>3, <1>4 DEF PlanHonest
<1>5. CASE (Written(s)' => Written(s)) /\ routed'[s] = routed[s] /\ served'[s] = served[s]
  BY <1>1, <1>2, <1>5 DEF PlanHonest
<1> QED BY <1>4, <1>5

\* The stamps in the statuses of the stacks are those of the plan when a pass ends.
LEMMA EndHonest ==
    ASSUME Members, StampsHonest, Steady, WriteStackSetStatus
    PROVE  StampsHonest'
<1>1. /\ pc = "status" /\ todo = {} /\ pc' = "idle"
      /\ UNCHANGED <<since, routed, served>>
  BY DEF WriteStackSetStatus, EndPass, history
<1>2. \A s \in Stacks : StatusHonest(s)
  <2> SUFFICES ASSUME NEW s \in Stacks, since[s] > 0 PROVE routed[s] = 0 /\ served[s] <= since[s]
    BY DEF StatusHonest
  <2>1. s \in exists
    BY DEF Members, ClusterTidy
  <2>2. since[s] = plan.since[s] /\ PlanHonest(s)
    BY <1>1, <2>1 DEF StampsHonest
  <2>3. Written(s)
    BY <1>1 DEF Written
  <2> QED BY <2>2, <2>3 DEF PlanHonest
<1>3. \A s \in Stacks : StatusHonest(s)'
  BY <1>1, <1>2 DEF StatusHonest
<1> QED BY <1>1, <1>3 DEF StampsHonest

\* A tick ages all stamps alike.
LEMMA TickHonest ==
    ASSUME Members, StampsHonest, Steady, Tick, pc = "idle"
    PROVE  StampsHonest'
<1>1. TypeOK
  BY DEF Members
<1> SUFFICES ASSUME NEW s \in Stacks, since'[s] > 0
             PROVE  routed'[s] = 0 /\ served'[s] <= since'[s]
  BY DEF StampsHonest, StatusHonest, Tick
<1>2. since'[s] = Aged(since[s]) /\ since[s] \in Stamp /\ served[s] \in Stamp
  BY <1>1, AgedStampsAre DEF Tick, TypeOK
<1>3. since[s] > 0
  BY <1>2, AgedIs
<1>4. routed[s] = 0 /\ served[s] <= since[s]
  BY <1>3 DEF StampsHonest, StatusHonest
<1>5. served'[s] = Aged(served[s]) /\ routed' = routed
  BY <1>4 DEF Tick
<1> QED BY <1>2, <1>4, <1>5, AgedIs

\* Every step keeps the stamps honest.
LEMMA NextHonest == Members /\ StampsHonest /\ [Next]_vars => StampsHonest'
<1> SUFFICES ASSUME Members, StampsHonest, [Next]_vars, Steady' PROVE StampsHonest'
  BY DEF StampsHonest
<1>1. TypeOK /\ PassKnowsStacks
  BY DEF Members
<1>2. Steady /\ ~Fail /\ ~cut' /\ (Tick => pc = "idle")
  BY <1>1, SteadyBefore
<1>3. CASE Collect \/ WriteStackSetStatus \/ Tick \/ \E s \in Stacks : WriteSegment(s)
  BY <1>2, <1>3, CollectHonest, EndHonest, TickHonest, SegmentHonest
<1>4. ASSUME NEW s \in Stacks, WriteDeployment(s) PROVE StampsHonest'
  <2>1. pc = "deployment" /\ pc' = "segment" /\ plan' = plan /\ UNCHANGED <<routed, served>>
    BY <1>4 DEF WriteDeployment, NextStack, history
  <2>2. \A t \in Stacks : Written(t)' => Written(t)
    BY <1>4 DEF WriteDeployment, NextStack, Written
  <2> QED BY <1>2, <2>1, <2>2, QuietHonest
<1>5. CASE UpdateDesiredTraffic
  <2>1. /\ pc = "segment" /\ pc' = "cleanup" /\ todo = {}
        /\ plan' = plan /\ UNCHANGED <<routed, served>>
    BY <1>5 DEF UpdateDesiredTraffic, history
  <2>2. \A t \in Stacks : Written(t)' => Written(t)
    BY <2>1 DEF Written
  <2> QED BY <1>2, <2>1, <2>2, QuietHonest
<1>6. ASSUME NEW s \in Stacks, CleanupOldStacks(s) PROVE StampsHonest'
  <2>1. pc = "cleanup" /\ pc' = "cleanup" /\ plan' = plan
    BY <1>6 DEF CleanupOldStacks
  <2>2. \A t \in Stacks : IF t = s THEN routed'[t] = 0 /\ served'[t] = 0
                          ELSE routed'[t] = routed[t] /\ served'[t] = served[t]
    BY <1>1, <1>6 DEF CleanupOldStacks, Delete, TypeOK, Weights
  <2>3. \A t \in Stacks : Written(t)
    BY <2>1 DEF Written
  <2> QED BY <1>2, <2>1, <2>2, <2>3, QuietHonest
<1>7. CASE EndCleanup
  <2>1. /\ pc = "cleanup" /\ pc' = "status" /\ plan' = plan /\ todo' = plan.members
        /\ UNCHANGED <<routed, served, exists>>
    BY <1>7 DEF EndCleanup, kube, history
  <2>2. exists' \ todo' = {}
    BY <1>1, <2>1 DEF PassKnowsStacks
  <2>3. \A t \in Stacks : Written(t)
    BY <2>1 DEF Written
  <2> QED BY <1>2, <2>1, <2>2, <2>3, QuietHonest
<1>8. ASSUME NEW s \in Stacks, WriteStackStatus(s) PROVE StampsHonest'
  <2>1. /\ pc = "status" /\ pc' = "status" /\ plan' = plan /\ todo' = todo \ {s}
        /\ since' = [since EXCEPT ![s] = plan.since[s]]
        /\ UNCHANGED <<routed, served, exists>>
    BY <1>8 DEF WriteStackStatus, history
  <2>2. \A t \in exists' \ todo' : since'[t] = plan.since[t]
    BY <1>1, <1>2, <2>1 DEF StampsHonest, TypeOK
  <2>3. \A t \in Stacks : Written(t)
    BY <2>1 DEF Written
  <2> QED BY <1>2, <2>1, <2>2, <2>3, QuietHonest
<1>9. ASSUME NEW s \in Stacks, DeletedStackStatus(s) PROVE StampsHonest'
  <2>1. /\ pc = "status" /\ pc' = "status" /\ plan' = plan /\ todo' = todo \ {s}
        /\ s \notin exists /\ UNCHANGED <<routed, served, exists, since>>
    BY <1>2, <1>9 DEF DeletedStackStatus, kube
  <2>2. \A t \in exists' \ todo' : since'[t] = plan.since[t]
    BY <1>2, <2>1 DEF StampsHonest
  <2>3. \A t \in Stacks : Written(t)
    BY <2>1 DEF Written
  <2> QED BY <1>2, <2>1, <2>2, <2>3, QuietHonest
<1>10. CASE \/ UserSwitchesTraffic \/ Deliver \/ UNCHANGED vars
            \/ \E s \in Stacks : StackCreated(s) \/ PodsReady(s)
  <2>1. /\ UNCHANGED <<pc, todo, current, plan, routed, served, since>>
        /\ pc # "idle" => exists' = exists
    BY <1>10
    DEF UserSwitchesTraffic, Deliver, StackCreated, PodsReady, vars, kube, history
  <2>2. \A t \in Stacks : Written(t)' => Written(t)
    BY <2>1 DEF Written
  <2>3. CASE pc = "idle"
    BY <1>2, <2>1, <2>3 DEF StampsHonest, StatusHonest
  <2>4. CASE pc # "idle"
    BY <1>2, <2>1, <2>2, <2>4, QuietHonest DEF StampsHonest
  <2> QED BY <2>3, <2>4
<1> QED
  BY <1>2, <1>3, <1>4, <1>5, <1>6, <1>7, <1>8, <1>9, <1>10
  DEF Next, Pass, Failure, Environment, Crash, FailSegment, FailDeployment, FailCleanup,
      PodsFail

(***************************************************************************)
(* "scaleDownTTLSeconds defines for how many seconds a stack should not    *)
(* receive traffic before it's scaled down": the time a stack lost its     *)
(* traffic goes from one pass to the next through its status, and as long  *)
(* as no pass fails, is slow or is cut short, a stack that is scaled down  *)
(* has not been served for longer than the TTL.                            *)
(***************************************************************************)
THEOREM ScalesDownAfterTTL == Spec => ScaleDownWaits
<1> DEFINE Waits == Steady =>
                      \A s \in exists' : replicas'[s] < replicas[s] => served[s] \in {0, 1}
<1>1. Members /\ StampsHonest /\ [Next]_vars => [Waits]_vars
  <2> SUFFICES ASSUME Members, StampsHonest, Next, Steady,
                      NEW s \in exists', replicas'[s] < replicas[s]
               PROVE  served[s] \in {0, 1}
    OBVIOUS
  <2>1. TypeOK /\ replicas \in [Stacks -> {0, 1}]
    BY DEF Members, TypeOK
  <2>2. s \in Stacks
    BY <2>1, NextTyped DEF TypeOK
  <2>3. served[s] \in Nat /\ replicas[s] \in {0, 1}
    BY <2>1, <2>2, Constants DEF TypeOK
  <2>4. ASSUME pc = "deployment", NEW t \in Stacks, SetReplicas(t) PROVE served[s] \in {0, 1}
    <3>1. s = t /\ ScaledDown(plan, s)
      BY <2>1, <2>2, <2>3, <2>4 DEF SetReplicas, DesiredReplicas
    <3>2. plan.since[s] = 1 /\ PlanHonest(s)
      BY <2>2, <2>4, <3>1 DEF ScaledDown, Expired, StampsHonest
    <3> QED BY <2>3, <3>2 DEF PlanHonest
  <2>5. ASSUME NEW t \in Stacks, WriteDeployment(t) PROVE served[s] \in {0, 1}
    BY <2>4, <2>5 DEF WriteDeployment
  <2>6. ASSUME NEW t \in Stacks, FailDeployment(t) PROVE served[s] \in {0, 1}
    BY <2>3, <2>4, <2>6 DEF FailDeployment
  <2>7. ASSUME NEW t \in Stacks, CleanupOldStacks(t) PROVE FALSE
    BY <2>1, <2>2, <2>3, <2>7 DEF CleanupOldStacks, Delete
  <2>8. CASE \A t \in Stacks : ~WriteDeployment(t) /\ ~FailDeployment(t) /\ ~CleanupOldStacks(t)
    <3>1. UNCHANGED replicas
      BY <2>8
      DEF Next, Pass, Failure, Environment, Collect, UpdateDesiredTraffic, EndCleanup,
          WriteStackSetStatus, WriteSegment, WriteStackStatus, DeletedStackStatus, Crash,
          FailSegment, FailCleanup, PodsFail, UserSwitchesTraffic, Deliver, Tick,
          StackCreated, PodsReady, kube
    <3> QED BY <2>3, <3>1
  <2> QED BY <2>5, <2>6, <2>7, <2>8
<1>2. Spec => []StampsHonest
  BY InitHonest, NextHonest, AlwaysMembers, PTL DEF Spec
<1>3. Members /\ StampsHonest /\ [Next]_vars =>
        [failures = 0 /\ slow = 0 /\ ~cut =>
           \A s \in exists' : replicas'[s] < replicas[s] => served[s] \in {0, 1}]_vars
  BY <1>1 DEF Steady
<1> QED BY <1>2, <1>3, AlwaysMembers, PTL DEF Spec, ScaleDownWaits

=============================================================================
