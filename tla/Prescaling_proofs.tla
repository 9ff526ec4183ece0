-------------------------- MODULE Prescaling_proofs --------------------------
(***************************************************************************)
(* Proofs about Prescaling, for any stacks, any traffic, any limits of the *)
(* autoscalers, any timeout and any number of edits and failures.          *)
(***************************************************************************)
EXTENDS Prescaling, TrafficWeights_proofs

-----------------------------------------------------------------------------
(***************************************************************************)
(* Arithmetic.                                                             *)
(***************************************************************************)
\* The smaller and the larger of two numbers.
LEMMA OfTwo ==
    ASSUME NEW a \in Int, NEW b \in Int
    PROVE  /\ Min({a, b}) = IF a <= b THEN a ELSE b
           /\ Max({a, b}) = IF a >= b THEN a ELSE b
BY DEF Min, Max

\* No more than an autoscaler allows.
LEMMA AtMostMaxType ==
    ASSUME NEW n \in Nat
    PROVE  /\ AtMostMax(n) \in 0..SpecMax
           /\ AtMostMax(n) <= n
           /\ \A m \in Nat : n <= m => AtMostMax(n) <= AtMostMax(m)
<1>1. SpecMax \in Nat /\ \A m \in Nat : AtMostMax(m) = IF m <= SpecMax THEN m ELSE SpecMax
  BY ReplicasAssumption, OfTwo DEF AtMostMax
<1> QED BY <1>1

\* Rounding a quotient up gives a natural number.
LEMMA CeilType ==
    ASSUME NEW a \in Nat, NEW b \in Nat \ {0}
    PROVE  Ceil(a, b) \in Nat
<1>1. a + b - 1 \in Nat
  OBVIOUS
<1> QED BY <1>1, DivMod DEF Ceil

\* The product of natural numbers is one.
LEMMA ProductType == ASSUME NEW a \in Nat, NEW b \in Nat PROVE a * b \in Nat
OBVIOUS

-----------------------------------------------------------------------------
(***************************************************************************)
(* Types.  Traffic is divided by what the stacks count for, which is not   *)
(* nothing: the actual traffic is whole, and a stack is prescaled for some *)
(* traffic only.                                                           *)
(***************************************************************************)
Whole ==
    /\ desired \in Splits
    /\ SumOf(actual) = Total
    /\ pc # "idle" => SumOf(plan.actual) = Total

Weighed ==
    \A s \in Stacks :
        /\ Active(prescaling[s]) => prescaling[s].weight > 0
        /\ Active(plan.prescaling[s]) => plan.prescaling[s].weight > 0

Typed == TypeOK /\ Whole /\ Weighed

\* What the constants are.
LEMMA Constants ==
    /\ IsFiniteSet(Stacks) /\ Total \in Nat \ {0}
    /\ SpecMin \in Nat \ {0} /\ SpecMax \in Nat /\ SpecMin <= SpecMax
    /\ StackReplicas \in 1..SpecMax
    /\ Now \in Nat /\ Now >= 2 /\ 0 \in Stamp /\ Now \in Stamp
    /\ NoPrescaling \in PrescalingStatus /\ ~Active(NoPrescaling)
    /\ NoPrescaling.replicas = 0 /\ NoPrescaling.last = 0
    /\ NoPlan \in [actual : [Stacks -> 0..Total], prescaling : [Stacks -> PrescalingStatus],
                 need : [Stacks -> 0..SpecMax]]
    /\ \A s \in Stacks : NoPlan.prescaling[s] = NoPrescaling
    /\ MaxEdits \in Nat /\ MaxScalings \in Nat /\ MaxFailures \in Nat
<1>1. Now \in Nat /\ Now >= 2 /\ 0 \in Stamp /\ Now \in Stamp
  BY BoundsAssumption DEF Now, Stamp
<1>2. NoPrescaling \in PrescalingStatus
  BY <1>1, ReplicasAssumption, TotalAssumption DEF NoPrescaling, PrescalingStatus
<1>3. NoPlan \in [actual : [Stacks -> 0..Total], prescaling : [Stacks -> PrescalingStatus],
                 need : [Stacks -> 0..SpecMax]]
  BY <1>2, TotalAssumption, ReplicasAssumption DEF NoPlan
<1>4. \A s \in Stacks : NoPlan.prescaling[s] = NoPrescaling
  BY DEF NoPlan
<1>5. ~Active(NoPrescaling) /\ NoPrescaling.replicas = 0 /\ NoPrescaling.last = 0
  BY DEF Active, NoPrescaling
<1> QED
  BY <1>1, <1>2, <1>3, <1>4, <1>5, TrafficAssumption, TotalAssumption, ReplicasAssumption,
     BoundsAssumption

\* The sum over all stacks of what they are given.
LEMMA SumOfStacks ==
    ASSUME NEW w, DOMAIN w = Stacks, \A s \in Stacks : w[s] \in Nat
    PROVE  /\ SumOf(w) = SumOver(w, Stacks)
           /\ SumOf(w) \in Nat
           /\ \A s \in Stacks : w[s] <= SumOf(w)
<1>1. SumOf(w) = SumOver(w, Stacks)
  BY DEF SumOf, SumOver
<1>2. SumOver(w, Stacks) \in Nat /\ \A s \in Stacks : w[s] <= SumOver(w, Stacks)
  BY SumNat, TrafficAssumption
<1> QED BY <1>1, <1>2

\* What a stack counts for.
LEMMA SampleType ==
    ASSUME Typed, NEW s \in Stacks
    PROVE  /\ Sample(s).replicas \in Nat /\ Sample(s).traffic \in Nat
           /\ actual[s] > 0 => Sample(s).traffic > 0
<1>1. /\ prescaling[s] \in PrescalingStatus /\ replicas[s] \in Nat /\ actual[s] \in Nat
      /\ Active(prescaling[s]) => prescaling[s].weight > 0
  BY Constants DEF Typed, TypeOK, Weighed
<1>2. prescaling[s].replicas \in Nat /\ prescaling[s].weight \in Nat
  BY <1>1, Constants DEF PrescalingStatus
<1> QED BY <1>1, <1>2 DEF Sample, Captured

\* All together they count for some traffic.
LEMMA TrafficPositive ==
    ASSUME Typed
    PROVE  TotalReplicas \in Nat /\ TotalTraffic \in Nat \ {0}
<1> DEFINE r == [s \in Stacks |-> Sample(s).replicas]
           t == [s \in Stacks |-> Sample(s).traffic]
<1>1. DOMAIN r = Stacks /\ DOMAIN t = Stacks /\ \A s \in Stacks : r[s] \in Nat /\ t[s] \in Nat
  BY SampleType
<1>2. TotalReplicas = SumOf(r) /\ TotalTraffic = SumOf(t)
  BY DEF TotalReplicas, TotalTraffic
<1>3. \A s \in Stacks : actual[s] > 0 => t[s] > 0
  BY SampleType
<1> HIDE DEF r, t
<1>4. SumOf(r) \in Nat /\ SumOf(t) \in Nat /\ \A s \in Stacks : t[s] <= SumOf(t)
  BY <1>1, SumOfStacks
<1>5. \E s \in Stacks : actual[s] > 0
  <2> SUFFICES ASSUME \A s \in Stacks : ~(actual[s] > 0) PROVE FALSE
    OBVIOUS
  <2>1. DOMAIN actual = Stacks /\ \A s \in Stacks : actual[s] \in Nat
    BY Constants DEF Typed, TypeOK
  <2>2. \A s \in Stacks \ {} : actual[s] = 0
    BY <2>1
  <2>3. SumOver(actual, Stacks) = SumOver(actual, {})
    BY <2>1, <2>2, Constants, SumSupport
  <2>4. SumOf(actual) = SumOver(actual, Stacks)
    BY <2>1, SumOfStacks
  <2> QED BY <2>3, <2>4, SumEmpty, TotalAssumption DEF Typed, Whole
<1> QED BY <1>1, <1>2, <1>3, <1>4, <1>5

\* The pods a stack needs by what the others count for.
ByCount(s) == Ceil(desired[s] * TotalReplicas, TotalTraffic)
\* The pods a stack needs by those that serve.
ByServing(s) == Ceil(desired[s] * SumOf([t \in Serving |-> replicas[t]]), Total)

\* Both are natural numbers.
LEMMA ByCountType ==
    ASSUME Typed, NEW s \in Stacks
    PROVE  ByCount(s) \in Nat
<1>1. desired[s] \in Nat
  BY Constants DEF Typed, TypeOK
<1> QED BY <1>1, TrafficPositive, ProductType, CeilType DEF ByCount

\* Pods that serve are pods of finitely many stacks.
LEMMA ByServingType ==
    ASSUME Typed, NEW s \in Stacks
    PROVE  ByServing(s) \in Nat
<1> DEFINE r == [t \in Serving |-> replicas[t]]
<1>1. desired[s] \in Nat /\ \A t \in Serving : r[t] \in Nat
  BY Constants DEF Typed, TypeOK, Serving
<1>2. IsFiniteSet(Serving)
  <2>1. Serving \in SUBSET Stacks
    BY DEF Serving
  <2> QED BY <2>1, Constants, FS_Subset
<1>3. SumOf(r) = SumOver(r, Serving)
  BY DEF SumOf, SumOver
<1>4. SumOf(r) \in Nat
  <2> HIDE DEF r
  <2> QED BY <1>1, <1>2, <1>3, SumNat
<1> QED BY <1>1, <1>4, ProductType, CeilType, Constants DEF ByServing

\* A stack is prescaled to at most what its autoscaler allows.
LEMMA TargetType ==
    ASSUME Typed, NEW s \in Stacks
    PROVE  Target(s) \in 0..SpecMax /\ AtMostMax(ByCount(s)) <= Target(s)
<1>1. ByCount(s) \in Nat /\ StackReplicas \in Nat
  BY ByCountType, Constants
<1>2. Target(s) = AtMostMax(IF ByCount(s) = 0 THEN StackReplicas ELSE ByCount(s))
  BY DEF Target, ByCount
<1> QED BY <1>1, <1>2, AtMostMaxType

\* What a pass decides on the prescaling of a stack.
LEMMA PrescaledType ==
    ASSUME Typed, NEW s \in Stacks
    PROVE  /\ Prescaled(s) \in PrescalingStatus
           /\ Active(Prescaled(s)) => Prescaled(s).weight > 0
<1>1. /\ prescaling[s] \in PrescalingStatus /\ desired[s] \in 0..Total /\ actual[s] \in 0..Total
      /\ Active(prescaling[s]) => prescaling[s].weight > 0
  BY DEF Typed, TypeOK, Weighed
<1>2. CASE Starts(s)
  <2>1. Increased(s) = [replicas |-> Target(s), weight |-> desired[s], last |-> Now]
    BY <1>2 DEF Increased
  <2>2. Increased(s) \in PrescalingStatus /\ Increased(s).weight > 0
    BY <1>1, <1>2, <2>1, TargetType, Constants DEF PrescalingStatus, Starts, Gains
  <2> QED BY <2>2, Constants DEF Prescaled
<1>3. CASE ~Starts(s) /\ Gains(s)
  <2>1. Increased(s) = [prescaling[s] EXCEPT !.last = Now]
    BY <1>3 DEF Increased
  <2>2. Active(prescaling[s])
    BY <1>3 DEF Starts
  <2>3. Increased(s) \in PrescalingStatus /\ Increased(s).weight > 0
    BY <1>1, <2>1, <2>2, Constants DEF PrescalingStatus
  <2> QED BY <2>3, Constants DEF Prescaled
<1>4. CASE ~Starts(s) /\ ~Gains(s)
  <2>1. Increased(s) = prescaling[s]
    BY <1>4 DEF Increased
  <2> QED BY <1>1, <2>1, Constants DEF Prescaled
<1> QED BY <1>2, <1>3, <1>4

\* What a stack needs is at most what its autoscaler allows.
LEMMA NeededType ==
    ASSUME Typed, NEW s \in Stacks
    PROVE  Needed(s) \in 0..SpecMax
<1>1. AtMostMax(ByServing(s)) \in 0..SpecMax
  BY ByServingType, AtMostMaxType
<1>2. Needed(s) \in {0, AtMostMax(ByServing(s)), need[s]}
  BY DEF Needed, ByServing
<1>3. need[s] \in 0..SpecMax
  BY DEF Typed, TypeOK
<1> QED BY <1>1, <1>2, <1>3, Constants

\* At first the traffic is as desired and nothing is prescaled.
LEMMA InitTyped == Init => Typed
<1> SUFFICES ASSUME Init PROVE Typed
  OBVIOUS
<1>1. desired \in [Stacks -> 0..Total] /\ SumOf(desired) = Total /\ desired \in Splits
  BY TrafficAssumption DEF Init
<1>2. replicas \in [Stacks -> 0..SpecMax]
  BY Constants DEF Init
<1>3. minReplicas \in [Stacks -> 0..SpecMax]
  BY <1>2, Constants DEF Init
<1>4. \A s \in Stacks : pods[s] <= replicas[s]
  BY <1>2, Constants DEF Init
<1>5. TypeOK
  <2>1. prescaling \in [Stacks -> PrescalingStatus] /\ gained \in [Stacks -> Stamp]
        /\ need \in [Stacks -> 0..SpecMax]
    BY Constants DEF Init
  <2>2. plan \in [actual : [Stacks -> 0..Total], prescaling : [Stacks -> PrescalingStatus],
                 need : [Stacks -> 0..SpecMax]]
    BY Constants DEF Init
  <2>3. edits \in 0..MaxEdits /\ scalings \in 0..MaxScalings /\ failures \in 0..MaxFailures
    BY Constants DEF Init
  <2> QED BY <1>1, <1>2, <1>3, <1>4, <2>1, <2>2, <2>3 DEF Init, TypeOK
<1>6. Whole
  BY <1>1 DEF Init, Whole
<1>7. Weighed
  BY Constants DEF Init, Weighed
<1> QED BY <1>5, <1>6, <1>7 DEF Typed

\* What the first step of a pass does.
LEMMA CollectTyped ==
    ASSUME Typed, Collect
    PROVE  Typed'
<1>1. Switched \in [Stacks -> 0..Total] /\ SumOf(Switched) = Total
  BY TrafficAssumption DEF Typed, TypeOK, Whole, Switched
<1>2. plan' = [actual |-> Switched, prescaling |-> [s \in Stacks |-> Prescaled(s)],
               need |-> [s \in Stacks |-> Needed(s)]]
  BY DEF Collect
<1>3. plan' \in [actual : [Stacks -> 0..Total], prescaling : [Stacks -> PrescalingStatus],
                 need : [Stacks -> 0..SpecMax]]
  BY <1>1, <1>2, PrescaledType, NeededType
<1>5. TypeOK'
  BY <1>3 DEF Typed, TypeOK, Collect, kube, bounds
<1>6. Whole'
  BY <1>1, <1>2 DEF Typed, Whole, Collect, kube
<1>7. Weighed'
  <2>1. \A s \in Stacks : plan'.prescaling[s] = Prescaled(s)
    BY <1>2
  <2>2. prescaling' = prescaling
    BY DEF Collect, kube
  <2> QED BY <2>1, <2>2, PrescaledType DEF Typed, Weighed, Active
<1> QED BY <1>5, <1>6, <1>7 DEF Typed

\* Routing, deployment and autoscaler of a stack keep their types.
LEMMA WritesTyped ==
    ASSUME Typed, NEW s \in Stacks
    PROVE  /\ SetRouted(s) => routed' \in [Stacks -> 0..Total] /\ gained' \in [Stacks -> Stamp]
           /\ SetReplicas(s) => /\ replicas' \in [Stacks -> 0..SpecMax]
                                /\ \A t \in Stacks : replicas[t] <= replicas'[t]
           /\ SetMinReplicas(s) =>
                /\ minReplicas' \in [Stacks -> 0..SpecMax]
                /\ minReplicas'[s] >= plan.prescaling[s].replicas
                /\ \A t \in Stacks \ {s} : minReplicas'[t] = minReplicas[t]
<1>1. /\ plan.actual[s] \in 0..Total /\ plan.prescaling[s] \in PrescalingStatus
      /\ plan.prescaling[s].replicas \in 0..SpecMax
  <2>1. plan.actual[s] \in 0..Total /\ plan.prescaling[s] \in PrescalingStatus
    BY DEF Typed, TypeOK
  <2> QED BY <2>1 DEF PrescalingStatus
<1>2. ASSUME SetRouted(s) PROVE routed' \in [Stacks -> 0..Total] /\ gained' \in [Stacks -> Stamp]
  <2>1. routed' \in [Stacks -> 0..Total]
    BY <1>1, <1>2 DEF SetRouted, Typed, TypeOK
  <2>2. gained' \in [Stacks -> Stamp]
    BY <1>2, Constants DEF SetRouted, Typed, TypeOK
  <2> QED BY <2>1, <2>2
<1>3. ASSUME SetReplicas(s)
      PROVE  /\ replicas' \in [Stacks -> 0..SpecMax]
             /\ \A t \in Stacks : replicas[t] <= replicas'[t]
  <2>1. replicas \in [Stacks -> 0..SpecMax]
    BY DEF Typed, TypeOK
  <2> DEFINE n == IF Active(plan.prescaling[s]) THEN plan.prescaling[s].replicas
                                               ELSE StackReplicas
  <2>2. n \in 0..SpecMax
    BY <1>1, Constants
  <2>3. \/ replicas' = [replicas EXCEPT ![s] = n] /\ replicas[s] = 0
        \/ replicas' = replicas
    BY <1>3 DEF SetReplicas
  <2> HIDE DEF n
  <2>4. CASE replicas' = [replicas EXCEPT ![s] = n] /\ replicas[s] = 0
    BY <2>1, <2>2, <2>4
  <2>5. CASE replicas' = replicas
    BY <2>1, <2>5
  <2> QED BY <2>3, <2>4, <2>5
<1>4. ASSUME SetMinReplicas(s)
      PROVE  /\ minReplicas' \in [Stacks -> 0..SpecMax]
             /\ minReplicas'[s] >= plan.prescaling[s].replicas
             /\ \A t \in Stacks \ {s} : minReplicas'[t] = minReplicas[t]
  <2> DEFINE n == Max({SpecMin, plan.prescaling[s].replicas})
  <2>1. n \in 0..SpecMax /\ n >= plan.prescaling[s].replicas
    <3>1. SpecMin \in Int /\ plan.prescaling[s].replicas \in Int /\ SpecMin \in 0..SpecMax
      BY <1>1, Constants
    <3>2. n = IF SpecMin >= plan.prescaling[s].replicas THEN SpecMin
                                                       ELSE plan.prescaling[s].replicas
      BY <3>1, OfTwo
    <3> HIDE DEF n
    <3> QED BY <1>1, <3>1, <3>2
  <2>2. minReplicas' = [minReplicas EXCEPT ![s] = n]
    BY <1>4 DEF SetMinReplicas
  <2>3. minReplicas \in [Stacks -> 0..SpecMax]
    BY DEF Typed, TypeOK
  <2> QED BY <2>1, <2>2, <2>3
<1> QED BY <1>2, <1>3, <1>4

\* A deployment that is scaled has no more pods than replicas.
LEMMA ScaleTyped ==
    ASSUME Typed, NEW s \in Stacks, NEW n \in 0..SpecMax, Scale(s, n)
    PROVE  /\ replicas' \in [Stacks -> 0..SpecMax] /\ pods' \in [Stacks -> 0..SpecMax]
           /\ \A t \in Stacks : pods'[t] <= replicas'[t]
<1>1. /\ replicas \in [Stacks -> 0..SpecMax] /\ pods \in [Stacks -> 0..SpecMax]
      /\ \A t \in Stacks : pods[t] <= replicas[t]
  BY DEF Typed, TypeOK
<1>2. Min({pods[s], n}) \in 0..SpecMax /\ Min({pods[s], n}) <= n
  BY <1>1, OfTwo, Constants
<1>3. replicas' = [replicas EXCEPT ![s] = n] /\ pods' = [pods EXCEPT ![s] = Min({pods[s], n})]
  BY DEF Scale
<1> QED BY <1>1, <1>2, <1>3

\* Every step of a pass keeps the types.
LEMMA PassTyped ==
    ASSUME Typed, Pass
    PROVE  Typed'
<1>1. ASSUME Collect PROVE Typed'
  BY <1>1, CollectTyped
<1>2. ASSUME StartStatuses PROVE Typed'
  BY <1>2 DEF StartStatuses, Typed, TypeOK, Whole, Weighed, Active, kube, history, bounds
<1>3. ASSUME WriteStackSetStatus PROVE Typed'
  <2>1. plan' = NoPlan /\ pc' = "idle" /\ actual' = plan.actual /\ SumOf(plan.actual) = Total
    BY <1>3 DEF WriteStackSetStatus, EndPass, Typed, Whole
  <2>2. TypeOK'
    BY <1>3, <2>1, Constants DEF WriteStackSetStatus, EndPass, Typed, TypeOK, history, bounds
  <2>3. Whole'
    BY <1>3, <2>1 DEF WriteStackSetStatus, Typed, Whole
  <2>4. Weighed'
    BY <1>3, <2>1, Constants DEF WriteStackSetStatus, Typed, Weighed, Active
  <2> QED BY <2>2, <2>3, <2>4 DEF Typed
<1>4. ASSUME NEW s \in Stacks, WriteSegment(s) PROVE Typed'
  <2>1. routed' \in [Stacks -> 0..Total] /\ gained' \in [Stacks -> Stamp]
    BY <1>4, WritesTyped DEF WriteSegment
  <2> QED BY <1>4, <2>1 DEF WriteSegment, Typed, TypeOK, Whole, Weighed, Active, bounds
<1>5. ASSUME NEW s \in Stacks, WriteDeployment(s) PROVE Typed'
  <2>1. /\ replicas' \in [Stacks -> 0..SpecMax]
        /\ \A t \in Stacks : replicas[t] <= replicas'[t]
    BY <1>5, WritesTyped DEF WriteDeployment
  <2>2. \A t \in Stacks : pods'[t] <= replicas'[t]
    BY <1>5, <2>1, Constants DEF WriteDeployment, Typed, TypeOK
  <2> QED BY <1>5, <2>1, <2>2
          DEF WriteDeployment, Typed, TypeOK, Whole, Weighed, Active, history, bounds
<1>6. ASSUME NEW s \in Stacks, WriteHPA(s) PROVE Typed'
  <2>1. minReplicas' \in [Stacks -> 0..SpecMax]
    BY <1>6, WritesTyped DEF WriteHPA
  <2> QED BY <1>6, <2>1
          DEF WriteHPA, NextStack, Typed, TypeOK, Whole, Weighed, Active, history, bounds
<1>7. ASSUME NEW s \in Stacks, WriteStackStatus(s) PROVE Typed'
  <2>1. prescaling' \in [Stacks -> PrescalingStatus]
    BY <1>7 DEF WriteStackStatus, Typed, TypeOK
  <2>2. \A t \in Stacks : prescaling'[t] \in {prescaling[t], plan.prescaling[t]}
    BY <1>7 DEF WriteStackStatus, Typed, TypeOK
  <2>3. Weighed'
    BY <1>7, <2>2 DEF WriteStackStatus, Typed, Weighed, Active
  <2> QED BY <1>7, <2>1, <2>3 DEF WriteStackStatus, Typed, TypeOK, Whole, history, bounds
<1> QED BY <1>1, <1>2, <1>3, <1>4, <1>5, <1>6, <1>7 DEF Pass

\* A failure keeps the types.
LEMMA FailureTyped ==
    ASSUME Typed, Failure
    PROVE  Typed'
<1>1. ASSUME Crash PROVE Typed'
  <2>1. plan' = NoPlan /\ pc' = "idle" /\ failures' \in 0..MaxFailures
    BY <1>1, Constants DEF Crash, EndPass, Fail, Typed, TypeOK
  <2>2. TypeOK'
    BY <1>1, <2>1, Constants DEF Crash, EndPass, Fail, Typed, TypeOK, kube
  <2>3. Whole' /\ Weighed'
    BY <1>1, <2>1, Constants DEF Crash, Typed, Whole, Weighed, Active, kube
  <2> QED BY <2>2, <2>3 DEF Typed
<1>2. ASSUME NEW s \in Stacks, FailSegment(s) PROVE Typed'
  <2>1. routed' \in [Stacks -> 0..Total] /\ gained' \in [Stacks -> Stamp]
    BY <1>2, WritesTyped DEF FailSegment, Typed, TypeOK
  <2>2. failures' \in 0..MaxFailures
    BY <1>2, Constants DEF FailSegment, Fail, Typed, TypeOK
  <2> QED BY <1>2, <2>1, <2>2
          DEF FailSegment, NextStack, Fail, Typed, TypeOK, Whole, Weighed, Active
<1>3. ASSUME NEW s \in Stacks, FailDeployment(s) PROVE Typed'
  <2>1. replicas' \in [Stacks -> 0..SpecMax]
    BY <1>3, WritesTyped DEF FailDeployment, Typed, TypeOK
  <2>2. \A t \in Stacks : replicas[t] <= replicas'[t]
    <3>1. \A t \in Stacks : replicas[t] \in Int
      BY Constants DEF Typed, TypeOK
    <3> QED BY <1>3, <3>1, WritesTyped DEF FailDeployment
  <2>3. \A t \in Stacks : pods'[t] <= replicas'[t]
    BY <1>3, <2>1, <2>2, Constants DEF FailDeployment, Typed, TypeOK
  <2>4. failures' \in 0..MaxFailures
    BY <1>3, Constants DEF FailDeployment, Fail, Typed, TypeOK
  <2> QED BY <1>3, <2>1, <2>3, <2>4
          DEF FailDeployment, NextStack, Fail, Typed, TypeOK, Whole, Weighed, Active
<1>4. ASSUME NEW s \in Stacks, FailHPA(s) PROVE Typed'
  <2>1. minReplicas' \in [Stacks -> 0..SpecMax]
    BY <1>4, WritesTyped DEF FailHPA, Typed, TypeOK
  <2>2. failures' \in 0..MaxFailures
    BY <1>4, Constants DEF FailHPA, Fail, Typed, TypeOK
  <2> QED BY <1>4, <2>1, <2>2
          DEF FailHPA, NextStack, Fail, Typed, TypeOK, Whole, Weighed, Active
<1> QED BY <1>1, <1>2, <1>3, <1>4 DEF Failure

\* A stamp that ages is a stamp, and no stamp becomes none or the other way round.
LEMMA AgedType ==
    ASSUME NEW t \in Stamp
    PROVE  /\ Aged(t) \in Stamp
           /\ Aged(t) = 0 <=> t = 0
           /\ Aged(t) > 1 => t > 1
           /\ \A u \in Stamp : t <= u => Aged(t) <= Aged(u)
<1>1. Stamp = 0..Now /\ Now \in Nat
  BY Constants DEF Stamp
<1> QED BY <1>1 DEF Aged

\* What goes on around the passes keeps the types.
LEMMA EnvironmentTyped ==
    ASSUME Typed, Environment
    PROVE  Typed'
<1>1. ASSUME UserSwitchesTraffic PROVE Typed'
  <2>1. desired' \in Splits /\ desired' \in [Stacks -> 0..Total] /\ edits' \in 0..MaxEdits
    BY <1>1, TrafficAssumption, Constants DEF UserSwitchesTraffic, Typed, TypeOK
  <2> QED BY <1>1, <2>1
          DEF UserSwitchesTraffic, Typed, TypeOK, Whole, Weighed, Active, pass, history
<1>2. ASSUME Tick PROVE Typed'
  <2>1. \A s \in Stacks : /\ prescaling[s] \in PrescalingStatus /\ prescaling[s].last \in Stamp
                          /\ gained[s] \in Stamp
    BY DEF Typed, TypeOK, PrescalingStatus
  <2>2. \A s \in Stacks :
          /\ prescaling'[s] = [prescaling[s] EXCEPT !.last = Aged(prescaling[s].last)]
          /\ gained'[s] = Aged(gained[s])
    BY <1>2 DEF Tick
  <2>3. \A s \in Stacks :
          /\ [prescaling[s] EXCEPT !.last = Aged(prescaling[s].last)] \in PrescalingStatus
          /\ Aged(gained[s]) \in Stamp
    BY <2>1, AgedType DEF PrescalingStatus
  <2>4. prescaling' \in [Stacks -> PrescalingStatus] /\ gained' \in [Stacks -> Stamp]
    BY <1>2, <2>3 DEF Tick
  <2>5. \A s \in Stacks : prescaling'[s].weight = prescaling[s].weight
                          /\ (Active(prescaling'[s]) <=> Active(prescaling[s]))
    BY <2>1, <2>2, AgedType DEF PrescalingStatus, Active
  <2>6. Weighed'
    BY <1>2, <2>5 DEF Tick, Typed, Weighed, Active, pass
  <2> QED BY <1>2, <2>4, <2>6 DEF Tick, Typed, TypeOK, Whole, pass, bounds
<1>3. ASSUME NEW s \in Stacks, FollowLoad(s) PROVE Typed'
  <2>1. PICK n \in minReplicas[s]..SpecMax : Scale(s, n)
    BY <1>3 DEF FollowLoad
  <2>2. n \in 0..SpecMax /\ scalings' \in 0..MaxScalings
    BY <1>3, Constants DEF FollowLoad, Typed, TypeOK
  <2>3. /\ replicas' \in [Stacks -> 0..SpecMax] /\ pods' \in [Stacks -> 0..SpecMax]
        /\ \A t \in Stacks : pods'[t] <= replicas'[t]
    BY <2>1, <2>2, ScaleTyped
  <2> QED BY <1>3, <2>2, <2>3
          DEF FollowLoad, Typed, TypeOK, Whole, Weighed, Active, pass, history
<1>4. ASSUME NEW s \in Stacks, KeepMinimum(s) PROVE Typed'
  <2>1. minReplicas[s] \in 0..SpecMax
    BY DEF Typed, TypeOK
  <2>2. /\ replicas' \in [Stacks -> 0..SpecMax] /\ pods' \in [Stacks -> 0..SpecMax]
        /\ \A t \in Stacks : pods'[t] <= replicas'[t]
    BY <1>4, <2>1, ScaleTyped DEF KeepMinimum
  <2> QED BY <1>4, <2>2
          DEF KeepMinimum, Typed, TypeOK, Whole, Weighed, Active, pass, history, bounds
<1>5. ASSUME NEW s \in Stacks, PodReady(s) PROVE Typed'
  <2>1. pods' \in [Stacks -> 0..SpecMax] /\ \A t \in Stacks : pods'[t] <= replicas[t]
    BY <1>5, Constants DEF PodReady, Typed, TypeOK
  <2> QED BY <1>5, <2>1
          DEF PodReady, Typed, TypeOK, Whole, Weighed, Active, pass, history, bounds
<1>6. ASSUME NEW s \in Stacks, PodLost(s) PROVE Typed'
  <2>1. /\ pods' \in [Stacks -> 0..SpecMax] /\ scalings' \in 0..MaxScalings
        /\ \A t \in Stacks : pods'[t] <= replicas[t]
    BY <1>6, Constants DEF PodLost, Typed, TypeOK
  <2> QED BY <1>6, <2>1 DEF PodLost, Typed, TypeOK, Whole, Weighed, Active, pass, history
<1> QED BY <1>1, <1>2, <1>3, <1>4, <1>5, <1>6 DEF Environment

\* Every step keeps the types.
LEMMA NextTyped == Typed /\ [Next]_vars => Typed'
<1>1. ASSUME Typed, UNCHANGED vars PROVE Typed'
  BY <1>1 DEF vars, kube, pass, history, bounds, Typed, TypeOK, Whole, Weighed, Active
<1> QED BY <1>1, PassTyped, FailureTyped, EnvironmentTyped DEF Next

(***************************************************************************)
(* No count leaves its range: pods, replicas and minimum stay within the   *)
(* limits of the autoscaler, whatever stacks are prescaled to.             *)
(***************************************************************************)
THEOREM TypeCorrect == Spec => []TypeOK
<1>1. Typed => TypeOK
  BY DEF Typed
<1> QED BY <1>1, InitTyped, NextTyped, PTL DEF Spec

-----------------------------------------------------------------------------
(***************************************************************************)
(* Capacity.  A stack that is prescaled is prescaled to as many pods as it *)
(* needs, in its status as well as in the plan of the pass: the two differ *)
(* after a failure.                                                        *)
(***************************************************************************)
Enough ==
    \A s \in Stacks :
        /\ Active(prescaling[s]) => need[s] <= prescaling[s].replicas
        /\ pc # "idle" => plan.need[s] <= plan.prescaling[s].replicas

\* As long as no stack counts for its prescaling, what stacks count for is what serves.
LEMMA CountIsServing ==
    ASSUME Typed, \A t \in Stacks : ~Captured(t), NEW s \in Stacks
    PROVE  ByCount(s) = ByServing(s)
<1> DEFINE r == [t \in Stacks |-> Sample(t).replicas]
           w == [t \in Stacks |-> Sample(t).traffic]
           v == [t \in Serving |-> replicas[t]]
<1>1. /\ DOMAIN actual = Stacks /\ Serving \in SUBSET Stacks /\ IsFiniteSet(Stacks)
      /\ \A t \in Stacks : actual[t] \in Nat /\ replicas[t] \in Nat
  BY Constants DEF Typed, TypeOK, Serving
<1>2. IsFiniteSet(Serving)
  BY <1>1, FS_Subset
<1>3. \A t \in Stacks : /\ Sample(t).replicas = IF t \in Serving THEN replicas[t] ELSE 0
                        /\ Sample(t).traffic = actual[t]
  BY <1>1 DEF Sample, Serving
<1>4. TotalReplicas = SumOf(v)
  <2>1. TotalReplicas = SumOver(r, Stacks) /\ SumOf(v) = SumOver(v, Serving)
    BY DEF TotalReplicas, SumOf, SumOver
  <2>2. /\ \A t \in Stacks : r[t] \in Int
        /\ \A t \in Stacks \ Serving : r[t] = 0
        /\ \A t \in Serving : r[t] = v[t]
    BY <1>1, <1>3
  <2> HIDE DEF r, v
  <2>3. SumOver(r, Stacks) = SumOver(r, Serving)
    BY <1>1, <2>2, SumSupport
  <2>4. SumOver(r, Serving) = SumOver(v, Serving)
    BY <1>2, <2>2, SumEqual
  <2> QED BY <2>1, <2>3, <2>4
<1>5. TotalTraffic = Total
  <2>1. TotalTraffic = SumOver(w, Stacks) /\ SumOf(actual) = SumOver(actual, Stacks)
    BY <1>1 DEF TotalTraffic, SumOf, SumOver
  <2>2. \A t \in Stacks : w[t] = actual[t]
    BY <1>3
  <2> HIDE DEF w
  <2>3. SumOver(w, Stacks) = SumOver(actual, Stacks)
    BY <1>1, <2>2, SumEqual
  <2> QED BY <2>1, <2>3 DEF Typed, Whole
<1> QED BY <1>4, <1>5 DEF ByCount, ByServing

\* What a pass decides is enough for the pods a stack then needs.
LEMMA PrescaledEnough ==
    ASSUME Typed, Enough, NEW s \in Stacks
    PROVE  Needed(s) <= Prescaled(s).replicas
<1>1. /\ prescaling[s] \in PrescalingStatus /\ prescaling[s].replicas \in Nat
      /\ Prescaled(s) \in PrescalingStatus /\ Prescaled(s).replicas \in Nat
      /\ need[s] \in Nat
  <2>1. prescaling[s] \in PrescalingStatus /\ need[s] \in Nat
    BY Constants DEF Typed, TypeOK
  <2>2. Prescaled(s) \in PrescalingStatus
    BY PrescaledType
  <2> QED BY <2>1, <2>2, Constants DEF PrescalingStatus
<1>2. CASE Starts(s) /\ \E t \in Stacks : Captured(t)
  BY <1>1, <1>2 DEF Needed
<1>3. CASE Starts(s) /\ ~(\E t \in Stacks : Captured(t))
  <2>1. Needed(s) = AtMostMax(ByServing(s))
    BY <1>3 DEF Needed, ByServing
  <2>2. Prescaled(s).replicas = Target(s)
    BY <1>3, Constants DEF Prescaled, Increased
  <2> QED BY <1>3, <2>1, <2>2, CountIsServing, TargetType
<1>4. CASE ~Starts(s)
  <2>1. Needed(s) = IF Active(Prescaled(s)) THEN need[s] ELSE 0
    BY <1>4 DEF Needed
  <2>2. ASSUME Active(Prescaled(s))
        PROVE  Active(prescaling[s]) /\ Prescaled(s).replicas = prescaling[s].replicas
    <3>1. Prescaled(s) = Increased(s)
      BY <2>2, Constants DEF Prescaled
    <3>2. CASE Gains(s)
      <4>1. Increased(s) = [prescaling[s] EXCEPT !.last = Now]
        BY <1>4, <3>2 DEF Increased
      <4>2. Increased(s).replicas = prescaling[s].replicas
        BY <1>1, <4>1 DEF PrescalingStatus
      <4> QED BY <1>4, <3>1, <3>2, <4>2 DEF Starts
    <3>3. CASE ~Gains(s)
      BY <1>4, <2>2, <3>1, <3>3 DEF Increased
    <3> QED BY <3>2, <3>3
  <2> QED BY <1>1, <2>1, <2>2 DEF Enough
<1> QED BY <1>2, <1>3, <1>4

\* At first no stack is prescaled.
LEMMA InitEnough == Init => Enough
BY Constants DEF Init, Enough

\* Steps that do not touch prescaling, plan and need keep what is enough.
LEMMA QuietEnough ==
    ASSUME Enough, UNCHANGED <<prescaling, plan, need>>, pc' # "idle" => pc # "idle"
    PROVE  Enough'
BY DEF Enough, Active

\* Every step keeps what is enough.
LEMMA NextEnough == Typed /\ Enough /\ [Next]_vars => Enough'
<1> SUFFICES ASSUME Typed, Enough, [Next]_vars PROVE Enough'
  OBVIOUS
<1>1. ASSUME Collect PROVE Enough'
  <2>1. /\ prescaling' = prescaling
        /\ UNCHANGED need
        /\ \A s \in Stacks :
             plan'.need[s] = Needed(s) /\ plan'.prescaling[s] = Prescaled(s)
    BY <1>1 DEF Collect, kube
  <2> QED BY <2>1, PrescaledEnough DEF Enough, Active
<1>2. ASSUME NEW s \in Stacks, WriteStackStatus(s) PROVE Enough'
  <2>1. /\ pc = "status" /\ UNCHANGED <<pc, plan>>
        /\ \A t \in Stacks :
             \/ prescaling'[t] = prescaling[t] /\ need'[t] = need[t]
             \/ prescaling'[t] = plan.prescaling[t] /\ need'[t] = plan.need[t]
    BY <1>2 DEF WriteStackStatus, Typed, TypeOK
  <2> QED BY <2>1 DEF Enough, Active
<1>3. ASSUME Tick PROVE Enough'
  <2>1. /\ pc = "idle" /\ UNCHANGED <<pc, need, plan>>
        /\ \A s \in Stacks :
             prescaling'[s] = [prescaling[s] EXCEPT !.last = Aged(prescaling[s].last)]
    BY <1>3 DEF Tick, pass
  <2>2. \A s \in Stacks : prescaling[s] \in PrescalingStatus /\ prescaling[s].last \in Stamp
    BY DEF Typed, TypeOK, PrescalingStatus
  <2>3. \A s \in Stacks : /\ prescaling'[s].replicas = prescaling[s].replicas
                          /\ prescaling'[s].last = Aged(prescaling[s].last)
    BY <2>1, <2>2 DEF PrescalingStatus
  <2> QED BY <2>1, <2>2, <2>3, AgedType DEF Enough, Active
<1>4. ASSUME StartStatuses PROVE Enough'
  BY <1>4, QuietEnough DEF StartStatuses, kube, history
<1>5. ASSUME WriteStackSetStatus PROVE Enough'
  BY <1>5 DEF WriteStackSetStatus, EndPass, history, Enough, Active
<1>6. ASSUME Crash PROVE Enough'
  BY <1>6 DEF Crash, EndPass, kube, Enough, Active
<1>7. ASSUME NEW s \in Stacks,
             \/ WriteSegment(s) \/ WriteDeployment(s) \/ WriteHPA(s)
             \/ FailSegment(s) \/ FailDeployment(s) \/ FailHPA(s)
      PROVE  Enough'
  BY <1>7, QuietEnough DEF WriteSegment, WriteDeployment, WriteHPA, FailSegment, FailDeployment,
     FailHPA, NextStack, SetRouted, history
<1>8. ASSUME UserSwitchesTraffic PROVE Enough'
  BY <1>8, QuietEnough DEF UserSwitchesTraffic, pass, history
<1>9. ASSUME NEW s \in Stacks, FollowLoad(s) \/ KeepMinimum(s) \/ PodReady(s) \/ PodLost(s)
      PROVE  Enough'
  BY <1>9, QuietEnough DEF FollowLoad, KeepMinimum, PodReady, PodLost, pass, history
<1>10. ASSUME UNCHANGED vars PROVE Enough'
  BY <1>10, QuietEnough DEF vars, kube, pass, history
<1> QED
  BY <1>1, <1>2, <1>3, <1>4, <1>5, <1>6, <1>7, <1>8, <1>9, <1>10
  DEF Next, Pass, Failure, Environment

(***************************************************************************)
(* A pass gives a stack more traffic only if as many of its pods are ready *)
(* as it needs, whatever failures, edits and losses of pods there were     *)
(* since its prescaling began.                                             *)
(***************************************************************************)
THEOREM TrafficOnlyWithCapacity == Spec => SwitchesWithCapacity
<1>1. ASSUME Typed, Enough, [Next]_vars, pc = "idle", pc' = "segment"
      PROVE  \A s \in Stacks : plan'.actual[s] > actual[s] => pods[s] >= plan'.need[s]
  <2>1. Collect
    BY <1>1 DEF Next, Pass, Failure, Environment, StartStatuses, WriteStackSetStatus,
       WriteSegment, WriteDeployment, WriteHPA, WriteStackStatus, Crash, EndPass, FailSegment,
       FailDeployment, FailHPA, UserSwitchesTraffic, Tick, FollowLoad, KeepMinimum, PodReady,
       PodLost, pass, vars
  <2> SUFFICES ASSUME NEW s \in Stacks, plan'.actual[s] > actual[s] PROVE pods[s] >= plan'.need[s]
    OBVIOUS
  <2>2. Switched[s] > actual[s] /\ plan'.need[s] = Needed(s)
    BY <2>1 DEF Collect
  <2>3. actual[s] \in Int /\ pods[s] \in Int
    BY <1>1, Constants DEF Typed, TypeOK
  <2>4. Switched = desired /\ ScaledUp(s)
    <3>1. Switched # actual
      BY <2>2, <2>3
    <3>2. Switched = desired /\ \A t \in Stacks : Gains(t) => ScaledUp(t)
      BY <3>1 DEF Switched
    <3> QED BY <2>2, <3>2 DEF Gains
  <2>5. pods[s] >= Prescaled(s).replicas
    BY <2>4 DEF ScaledUp
  <2>6. Needed(s) <= Prescaled(s).replicas
    BY <1>1, PrescaledEnough
  <2>7. Needed(s) \in Int /\ Prescaled(s).replicas \in Int
    <3>1. Prescaled(s) \in PrescalingStatus /\ Needed(s) \in 0..SpecMax
      BY <1>1, PrescaledType, NeededType
    <3> QED BY <3>1 DEF PrescalingStatus
  <2> QED BY <2>2, <2>3, <2>5, <2>6, <2>7
<1>2. Typed /\ Enough /\ [Next]_vars =>
        [pc = "idle" /\ pc' = "segment" =>
           \A s \in Stacks : plan'.actual[s] > actual[s] => pods[s] >= plan'.need[s]]_vars
  BY <1>1
<1> QED
  BY <1>2, InitTyped, NextTyped, InitEnough, NextEnough, PTL DEF Spec, SwitchesWithCapacity

-----------------------------------------------------------------------------
(***************************************************************************)
(* Holding on.  A stack that has gained traffic is prescaled for it, since *)
(* no earlier than it gained, unless the status of the StackSet does not   *)
(* show the gain yet: then the pass that will report it prescales it, or   *)
(* takes the traffic back.                                                 *)
(***************************************************************************)
Held(s) == prescaling[s].last >= gained[s]
HeldByPlan(s) == plan.prescaling[s].last >= gained[s]

\* The segment of stack s is still to be written in this pass.
Unwritten(s) ==
    /\ s \in todo
    /\ pc = "segment" \/ (pc \in {"deployment", "hpa"} /\ s # current)

Remembered ==
    \A s \in Stacks : gained[s] > 1 =>
        /\ Held(s) \/ routed[s] > actual[s]
        /\ pc # "idle" => HeldByPlan(s) \/ (routed[s] > actual[s] /\ routed[s] > plan.actual[s])
        /\ pc # "idle" /\ clean => HeldByPlan(s) \/ Unwritten(s)

\* A pass that gives a stack more traffic renews its prescaling.
Renewed ==
    pc # "idle" => \A s \in Stacks : plan.actual[s] > actual[s] => plan.prescaling[s].last = Now

\* What the statuses tell once they are written.
Reported == pc = "status" => \A s \in Stacks \ todo : prescaling[s] = plan.prescaling[s]

\* Without failures an autoscaler has its minimum once it is written.
Minimum ==
    pc # "idle" /\ clean =>
        \A s \in Stacks :
            pc = "status" \/ s \notin todo => minReplicas[s] >= plan.prescaling[s].replicas

Holding == Remembered /\ Renewed /\ Reported /\ Minimum /\ HeldUntilTimeout

\* The numbers that are compared are numbers.
LEMMA Numbers ==
    ASSUME Typed, NEW s \in Stacks
    PROVE  /\ prescaling[s] \in PrescalingStatus /\ plan.prescaling[s] \in PrescalingStatus
           /\ prescaling[s].last \in Stamp /\ prescaling[s].replicas \in Nat
           /\ plan.prescaling[s].last \in Stamp /\ plan.prescaling[s].replicas \in Nat
           /\ gained[s] \in Stamp /\ minReplicas[s] \in Nat
           /\ routed[s] \in Nat /\ actual[s] \in Nat /\ plan.actual[s] \in Nat
           /\ desired[s] \in Nat
           /\ Stamp = 0..Now /\ Now \in Nat /\ Now >= 2
<1>1. /\ prescaling[s] \in PrescalingStatus /\ plan.prescaling[s] \in PrescalingStatus
      /\ gained[s] \in Stamp /\ minReplicas[s] \in 0..SpecMax
      /\ routed[s] \in 0..Total /\ actual[s] \in 0..Total /\ plan.actual[s] \in 0..Total
      /\ desired[s] \in 0..Total
  BY DEF Typed, TypeOK
<1> QED BY <1>1, Constants DEF PrescalingStatus, Stamp

\* At first no stack has gained traffic.
LEMMA InitHolding == Init => Holding
BY Constants DEF Init, Holding, Remembered, Renewed, Reported, Minimum, HeldUntilTimeout

\* A pass goes on prescaling for as long as it is not too long ago, and renews it on a gain.
LEMMA PrescaledHolds ==
    ASSUME Typed, NEW s \in Stacks
    PROVE  /\ prescaling[s].last > 1 => Prescaled(s).last >= prescaling[s].last
           /\ Switched[s] > actual[s] => Prescaled(s).last = Now
<1>1. prescaling[s] \in PrescalingStatus /\ prescaling[s].last \in 0..Now
      /\ Now \in Nat /\ Now >= 2 /\ actual[s] \in Nat /\ desired[s] \in Nat
  BY Numbers
<1>2. Gains(s) => Increased(s).last = Now
  <2>1. ASSUME Gains(s), ~Starts(s) PROVE Increased(s) = [prescaling[s] EXCEPT !.last = Now]
    BY <2>1 DEF Increased
  <2> QED BY <1>1, <2>1 DEF Increased, PrescalingStatus
<1>3. ~Gains(s) => Increased(s) = prescaling[s]
  BY DEF Increased, Starts
<1>4. Increased(s).last > 1 => Prescaled(s) = Increased(s)
  BY DEF Prescaled
<1>5. Switched[s] > actual[s] => Gains(s)
  BY <1>1 DEF Switched, Gains
<1> QED BY <1>1, <1>2, <1>3, <1>4, <1>5

\* The pass starts.
LEMMA CollectHolding ==
    ASSUME Typed, Typed', Holding, Collect
    PROVE  Holding'
<1>1. /\ pc' = "segment" /\ todo' = Stacks /\ clean' = TRUE
      /\ UNCHANGED <<actual, routed, prescaling, gained>>
      /\ \A s \in Stacks : /\ plan'.actual[s] = Switched[s]
                           /\ plan'.prescaling[s] = Prescaled(s)
  <2>1. DOMAIN Switched = Stacks
    BY DEF Switched, Typed, TypeOK
  <2> QED BY <2>1 DEF Collect, kube
<1>2. ASSUME NEW s \in Stacks, gained[s] > 1
      PROVE  \/ plan'.prescaling[s].last >= gained[s]
             \/ routed[s] > actual[s] /\ routed[s] > plan'.actual[s]
  <2>1. plan'.actual[s] \in Nat /\ plan'.prescaling[s].last \in Nat
    BY DEF Typed, TypeOK, PrescalingStatus, Stamp
  <2>2. /\ prescaling[s].last \in 0..Now /\ gained[s] \in 0..Now /\ Now \in Nat
        /\ routed[s] \in Nat /\ actual[s] \in Nat
    BY Numbers
  <2>3. Held(s) \/ routed[s] > actual[s]
    BY <1>2 DEF Holding, Remembered
  <2> QED BY <1>1, <1>2, <2>1, <2>2, <2>3, PrescaledHolds DEF Held
<1>3. Remembered'
  <2> SUFFICES ASSUME NEW s \in Stacks, gained[s] > 1
               PROVE  /\ (Held(s) \/ routed[s] > actual[s])'
                      /\ (HeldByPlan(s) \/ (routed[s] > actual[s] /\ routed[s] > plan.actual[s]))'
                      /\ Unwritten(s)'
    BY <1>1 DEF Remembered
  <2>1. Held(s) \/ routed[s] > actual[s]
    BY DEF Holding, Remembered
  <2> QED BY <1>1, <1>2, <2>1 DEF Held, HeldByPlan, Unwritten
<1>4. Renewed'
  BY <1>1, PrescaledHolds DEF Renewed
<1>5. Reported' /\ Minimum' /\ HeldUntilTimeout'
  BY <1>1 DEF Reported, Minimum, HeldUntilTimeout
<1> QED BY <1>3, <1>4, <1>5 DEF Holding

(***************************************************************************)
(* A segment is written: the stack is prescaled by the plan if it still    *)
(* counts as having gained traffic.                                        *)
(***************************************************************************)
LEMMA RoutedHolds ==
    ASSUME Typed, Holding, pc # "idle", NEW s \in Stacks, SetRouted(s), gained'[s] > 1
    PROVE  /\ plan.prescaling[s].last >= gained'[s]
           /\ prescaling[s].last >= gained'[s] \/ routed'[s] > actual[s]
<1>1. /\ prescaling[s].last \in Nat /\ plan.prescaling[s].last \in Nat /\ gained[s] \in Nat
      /\ routed[s] \in Nat /\ actual[s] \in Nat /\ plan.actual[s] \in Nat /\ Now \in Nat
  BY Numbers
<1>2. /\ routed'[s] = plan.actual[s]
      /\ gained'[s] = IF plan.actual[s] > routed[s] /\ plan.actual[s] > actual[s] THEN Now
                      ELSE IF plan.actual[s] < routed[s] THEN 0 ELSE gained[s]
  BY DEF SetRouted, Typed, TypeOK
<1>3. plan.actual[s] > actual[s] => plan.prescaling[s].last = Now
  BY DEF Holding, Renewed
<1>4. gained[s] > 1 =>
        /\ prescaling[s].last >= gained[s] \/ routed[s] > actual[s]
        /\ plan.prescaling[s].last >= gained[s] \/ routed[s] > plan.actual[s]
  BY DEF Holding, Remembered, Held, HeldByPlan
<1> QED BY <1>1, <1>2, <1>3, <1>4

\* For the other stacks nothing changes.
LEMMA OthersRouted ==
    ASSUME Typed, NEW s \in Stacks, SetRouted(s), NEW t \in Stacks \ {s}
    PROVE  gained'[t] = gained[t] /\ routed'[t] = routed[t]
BY DEF SetRouted, Typed, TypeOK

\* The segment of a stack is written.
LEMMA SegmentHolding ==
    ASSUME Typed, Holding, NEW s \in Stacks, WriteSegment(s)
    PROVE  Holding'
<1>1. /\ pc = "segment" /\ s \in todo /\ SetRouted(s) /\ pc' = "deployment" /\ current' = s
      /\ UNCHANGED <<todo, actual, prescaling, plan, clean, minReplicas>>
  BY DEF WriteSegment
<1>2. Remembered'
  <2> SUFFICES ASSUME NEW t \in Stacks, gained'[t] > 1
               PROVE  /\ Held(t)' \/ routed'[t] > actual[t]
                      /\ HeldByPlan(t)' \/ (routed'[t] > actual[t] /\ routed'[t] > plan.actual[t])
                      /\ clean => HeldByPlan(t)' \/ Unwritten(t)'
    BY <1>1 DEF Remembered
  <2>1. CASE t = s
    BY <1>1, <2>1, RoutedHolds DEF Held, HeldByPlan
  <2>2. CASE t # s
    <3>1. gained'[t] = gained[t] /\ routed'[t] = routed[t]
      BY <1>1, <2>2, OthersRouted
    <3>2. Unwritten(t) => Unwritten(t)'
      BY <1>1, <2>2 DEF Unwritten
    <3> QED BY <1>1, <3>1, <3>2 DEF Holding, Remembered, Held, HeldByPlan
  <2> QED BY <2>1, <2>2
<1>3. Renewed' /\ Reported' /\ Minimum' /\ HeldUntilTimeout'
  BY <1>1 DEF Holding, Renewed, Reported, Minimum, HeldUntilTimeout
<1> QED BY <1>2, <1>3 DEF Holding

\* It may have been written although the call fails.
LEMMA FailedSegmentHolding ==
    ASSUME Typed, Holding, NEW s \in Stacks, FailSegment(s)
    PROVE  Holding'
<1>1. /\ pc = "segment" /\ pc' = "segment" /\ clean' = FALSE
      /\ SetRouted(s) \/ UNCHANGED <<routed, gained>>
      /\ UNCHANGED <<actual, prescaling, plan>>
  BY DEF FailSegment, NextStack, Fail
<1>2. Remembered'
  <2> SUFFICES ASSUME NEW t \in Stacks, gained'[t] > 1
               PROVE  /\ Held(t)' \/ routed'[t] > actual[t]
                      /\ HeldByPlan(t)' \/ (routed'[t] > actual[t] /\ routed'[t] > plan.actual[t])
    BY <1>1 DEF Remembered
  <2>1. CASE t = s /\ SetRouted(s)
    BY <1>1, <2>1, RoutedHolds DEF Held, HeldByPlan
  <2>2. CASE ~(t = s /\ SetRouted(s))
    <3>1. gained'[t] = gained[t] /\ routed'[t] = routed[t]
      BY <1>1, <2>2, OthersRouted
    <3> QED BY <1>1, <3>1 DEF Holding, Remembered, Held, HeldByPlan
  <2> QED BY <2>1, <2>2
<1>3. Renewed' /\ Reported' /\ Minimum' /\ HeldUntilTimeout'
  BY <1>1 DEF Holding, Renewed, Reported, Minimum, HeldUntilTimeout
<1> QED BY <1>2, <1>3 DEF Holding

\* Deployment and autoscaler are written; then the autoscaler has its minimum.
LEMMA ScalingHolding ==
    ASSUME Typed, Holding, NEW s \in Stacks, WriteDeployment(s) \/ WriteHPA(s)
    PROVE  Holding'
<1>1. CASE WriteDeployment(s)
  <2>1. /\ pc = "deployment" /\ pc' = "hpa"
        /\ UNCHANGED <<todo, current, routed, gained, actual, prescaling, plan, clean, minReplicas>>
    BY <1>1 DEF WriteDeployment, history
  <2>2. \A t \in Stacks : Unwritten(t) => Unwritten(t)'
    BY <2>1 DEF Unwritten
  <2>3. Remembered'
    BY <2>1, <2>2 DEF Holding, Remembered, Held, HeldByPlan
  <2>4. Renewed' /\ Reported' /\ Minimum' /\ HeldUntilTimeout'
    BY <2>1 DEF Holding, Renewed, Reported, Minimum, HeldUntilTimeout
  <2> QED BY <2>3, <2>4 DEF Holding
<1>2. CASE WriteHPA(s)
  <2>1. /\ pc = "hpa" /\ s = current /\ SetMinReplicas(s) /\ pc' = "segment"
        /\ todo' = todo \ {s}
        /\ UNCHANGED <<routed, gained, actual, prescaling, plan, clean>>
    BY <1>2 DEF WriteHPA, NextStack, history
  <2>2. \A t \in Stacks : Unwritten(t) => Unwritten(t)'
    BY <2>1 DEF Unwritten
  <2>3. Remembered'
    BY <2>1, <2>2 DEF Holding, Remembered, Held, HeldByPlan
  <2>4. Minimum'
    BY <2>1, WritesTyped DEF Holding, Minimum
  <2>5. Renewed' /\ Reported' /\ HeldUntilTimeout'
    BY <2>1 DEF Holding, Renewed, Reported, HeldUntilTimeout
  <2> QED BY <2>3, <2>4, <2>5 DEF Holding
<1> QED BY <1>1, <1>2

\* After a failure nothing is promised for this pass.
LEMMA FailedScalingHolding ==
    ASSUME Typed, Holding, NEW s \in Stacks, FailDeployment(s) \/ FailHPA(s)
    PROVE  Holding'
<1>1. /\ pc # "idle" /\ pc' = "segment" /\ clean' = FALSE
      /\ UNCHANGED <<routed, gained, actual, prescaling, plan>>
  BY DEF FailDeployment, FailHPA, NextStack, Fail
<1>2. Remembered'
  BY <1>1 DEF Holding, Remembered, Held, HeldByPlan
<1> QED BY <1>1, <1>2 DEF Holding, Renewed, Reported, Minimum, HeldUntilTimeout

\* The statuses are written.
LEMMA StatusHolding ==
    ASSUME Typed, Holding,
           \/ StartStatuses \/ WriteStackSetStatus
           \/ \E s \in Stacks : WriteStackStatus(s)
    PROVE  Holding'
<1>1. CASE StartStatuses
  <2>1. /\ pc = "segment" /\ todo = {} /\ pc' = "status" /\ todo' = Stacks
        /\ UNCHANGED <<routed, gained, actual, prescaling, plan, clean, minReplicas>>
    BY <1>1 DEF StartStatuses, kube, history
  <2>2. Remembered'
    BY <2>1 DEF Holding, Remembered, Held, HeldByPlan, Unwritten
  <2> QED BY <2>1, <2>2 DEF Holding, Renewed, Reported, Minimum, HeldUntilTimeout
<1>2. ASSUME NEW s \in Stacks, WriteStackStatus(s) PROVE Holding'
  <2>1. /\ pc = "status" /\ pc' = "status" /\ todo' = todo \ {s}
        /\ prescaling' = [prescaling EXCEPT ![s] = plan.prescaling[s]]
        /\ UNCHANGED <<routed, gained, actual, plan, clean, minReplicas>>
    BY <1>2 DEF WriteStackStatus, history
  <2>2. /\ prescaling'[s] = plan.prescaling[s]
        /\ \A t \in Stacks \ {s} : prescaling'[t] = prescaling[t]
    BY <2>1 DEF Typed, TypeOK
  <2>3. Remembered'
    BY <2>1, <2>2 DEF Holding, Remembered, Held, HeldByPlan, Unwritten
  <2>4. Reported'
    BY <2>1, <2>2 DEF Holding, Reported
  <2>5. Renewed' /\ Minimum' /\ HeldUntilTimeout'
    BY <2>1 DEF Holding, Renewed, Minimum, HeldUntilTimeout
  <2> QED BY <2>3, <2>4, <2>5 DEF Holding
<1>3. CASE WriteStackSetStatus
  <2>1. /\ pc = "status" /\ todo = {} /\ pc' = "idle" /\ actual' = plan.actual
        /\ UNCHANGED <<routed, gained, prescaling, clean, minReplicas>>
    BY <1>3 DEF WriteStackSetStatus, EndPass, history
  <2>2. \A s \in Stacks : prescaling[s] = plan.prescaling[s]
    BY <2>1 DEF Holding, Reported
  <2>3. Remembered'
    BY <2>1, <2>2 DEF Holding, Remembered, Held, HeldByPlan
  <2>4. HeldUntilTimeout'
    BY <2>1, <2>2
    DEF Holding, Remembered, Held, HeldByPlan, Unwritten, Minimum, HeldUntilTimeout
  <2>5. Renewed' /\ Reported' /\ Minimum'
    BY <2>1 DEF Renewed, Reported, Minimum
  <2> QED BY <2>3, <2>4, <2>5 DEF Holding
<1> QED BY <1>1, <1>2, <1>3

\* Time passes for the traffic gained and for the prescaling alike.
LEMMA TickHolding ==
    ASSUME Typed, Holding, Tick
    PROVE  Holding'
<1>1. /\ pc = "idle" /\ pc' = "idle" /\ UNCHANGED <<routed, actual, clean, minReplicas>>
      /\ \A s \in Stacks :
           /\ gained'[s] = Aged(gained[s])
           /\ prescaling'[s] = [prescaling[s] EXCEPT !.last = Aged(prescaling[s].last)]
  BY DEF Tick, pass
<1>2. ASSUME NEW s \in Stacks
      PROVE  /\ prescaling'[s].last = Aged(prescaling[s].last)
             /\ prescaling'[s].replicas = prescaling[s].replicas
             /\ gained'[s] > 1 => gained[s] > 1
             /\ gained[s] <= prescaling[s].last => gained'[s] <= prescaling'[s].last
  <2>1. /\ prescaling[s] \in PrescalingStatus /\ prescaling[s].last \in Stamp
        /\ gained[s] \in Stamp
    BY Numbers
  <2>2. /\ prescaling'[s].last = Aged(prescaling[s].last)
        /\ prescaling'[s].replicas = prescaling[s].replicas
    BY <1>1, <2>1 DEF PrescalingStatus
  <2> QED BY <1>1, <2>1, <2>2, AgedType
<1>3. ASSUME NEW s \in Stacks
      PROVE  /\ prescaling[s].last \in Int /\ gained[s] \in Int
             /\ prescaling'[s].last \in Int /\ gained'[s] \in Int
  <2>1. prescaling[s].last \in Stamp /\ gained[s] \in Stamp /\ Stamp = 0..Now
    BY Numbers
  <2>2. Aged(prescaling[s].last) \in Stamp /\ Aged(gained[s]) \in Stamp
    BY <2>1, AgedType
  <2>3. \A t \in Stamp : t \in Int
    BY <2>1, Constants
  <2> QED BY <1>1, <1>2, <2>1, <2>2, <2>3
<1>4. \A s \in Stacks : Held(s) => Held(s)'
  BY <1>2, <1>3 DEF Held
<1>5. Remembered'
  BY <1>1, <1>2, <1>4 DEF Holding, Remembered
<1>6. HeldUntilTimeout'
  BY <1>1, <1>2, <1>3 DEF Holding, HeldUntilTimeout
<1>7. Renewed' /\ Reported' /\ Minimum'
  BY <1>1 DEF Renewed, Reported, Minimum
<1> QED BY <1>5, <1>6, <1>7 DEF Holding

\* Users and autoscalers do not change what is compared.
LEMMA QuietHolding ==
    ASSUME Holding,
           UNCHANGED <<routed, gained, actual, prescaling, plan, clean, minReplicas,
                       pc, todo, current>>
    PROVE  Holding'
<1>1. Remembered'
  BY DEF Holding, Remembered, Held, HeldByPlan, Unwritten
<1> QED BY <1>1 DEF Holding, Renewed, Reported, Minimum, HeldUntilTimeout

\* Every step keeps what holds stacks up.
LEMMA NextHolding == Typed /\ Typed' /\ Holding /\ [Next]_vars => Holding'
<1> SUFFICES ASSUME Typed, Typed', Holding, [Next]_vars PROVE Holding'
  OBVIOUS
<1>1. ASSUME Crash PROVE Holding'
  <2>1. /\ pc # "idle" /\ pc' = "idle" /\ clean' = FALSE
        /\ UNCHANGED <<routed, gained, actual, prescaling>>
    BY <1>1 DEF Crash, EndPass, Fail, kube
  <2>2. Remembered'
    BY <2>1 DEF Holding, Remembered, Held
  <2> QED BY <2>1, <2>2 DEF Holding, Renewed, Reported, Minimum, HeldUntilTimeout
<1>2. ASSUME UserSwitchesTraffic PROVE Holding'
  BY <1>2, QuietHolding DEF UserSwitchesTraffic, pass, history
<1>3. ASSUME NEW s \in Stacks, FollowLoad(s) \/ KeepMinimum(s) \/ PodReady(s) \/ PodLost(s)
      PROVE  Holding'
  BY <1>3, QuietHolding DEF FollowLoad, KeepMinimum, PodReady, PodLost, pass, history
<1>4. ASSUME UNCHANGED vars PROVE Holding'
  BY <1>4, QuietHolding DEF vars, kube, pass, history
<1>5. ASSUME Pass PROVE Holding'
  BY <1>5, CollectHolding, SegmentHolding, ScalingHolding, StatusHolding DEF Pass
<1>6. ASSUME Failure PROVE Holding'
  BY <1>1, <1>6, FailedSegmentHolding, FailedScalingHolding DEF Failure
<1>7. ASSUME Environment PROVE Holding'
  BY <1>2, <1>3, <1>7, TickHolding DEF Environment
<1> QED BY <1>4, <1>5, <1>6, <1>7 DEF Next

(***************************************************************************)
(* After it has gained traffic, and until that is longer ago than the      *)
(* timeout, a stack is prescaled and its autoscaler keeps the pods, at the *)
(* end of every pass without failures, whatever failed before.             *)
(***************************************************************************)
THEOREM PodsHeldUntilTimeout == Spec => []HeldUntilTimeout
<1>1. Holding => HeldUntilTimeout
  BY DEF Holding
<1> QED BY <1>1, InitTyped, NextTyped, InitHolding, NextHolding, PTL DEF Spec

=============================================================================
