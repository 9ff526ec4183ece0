------------------------------ MODULE Prescaling ------------------------------
(***************************************************************************)
(* Switching traffic with prescaling: before a stack gains traffic its     *)
(* autoscaler is made to run as many pods as its share of the traffic now  *)
(* needs elsewhere, and for some time after the switch it keeps them.      *)
(*                                                                         *)
(* A pass reads the deployments, decides (PrescalingTrafficReconciler),    *)
(* writes segment, deployment and autoscaler of every stack, and at its    *)
(* end the statuses, which is where the next pass finds the prescaling of  *)
(* a stack and the actual traffic.  Meanwhile autoscalers follow the load. *)
(*                                                                         *)
(* All stacks exist, are autoscaled and are used recently enough not to be *)
(* scaled down; minReadyPercent is 100.  Times are stamps: 0 for none, Now *)
(* for the present, 1 for longer ago than the timeout.                     *)
(***************************************************************************)
EXTENDS TrafficWeights

CONSTANTS
    Stacks,         \* the stacks
    Splits,         \* the desired traffic a user may ask for
    StackReplicas,  \* spec.replicas of the stacks
    SpecMin,        \* autoscaler.minReplicas of the stacks
    SpecMax,        \* autoscaler.maxReplicas of the stacks
    Timeout,        \* ResetHPAMinReplicasTimeout, in ticks
    MaxEdits,       \* bound: edits of the desired traffic
    MaxScalings,    \* bound: autoscalers following the load, and pods lost
    MaxFailures     \* bound: failed calls and crashes

ASSUME TrafficAssumption ==
    /\ IsFiniteSet(Stacks)
    /\ Splits \subseteq {w \in [Stacks -> 0..Total] : SumOf(w) = Total}
ASSUME ReplicasAssumption ==
    /\ SpecMin \in Nat \ {0} /\ SpecMax \in Nat /\ SpecMin <= SpecMax
    /\ StackReplicas \in 1..SpecMax
ASSUME BoundsAssumption ==
    Timeout \in Nat /\ MaxEdits \in Nat /\ MaxScalings \in Nat /\ MaxFailures \in Nat

VARIABLES
    desired,      \* spec.traffic of the StackSet
    actual,       \* the traffic in its status
    routed,       \* the traffic the segments route
    prescaling,   \* the prescaling part of the statuses of the stacks
    replicas,     \* the replicas of the deployments, 0 for no deployment
    minReplicas,  \* minReplicas of the autoscalers, 0 for no autoscaler
    pods,         \* how many pods are ready
    pc,           \* the call the pass makes next
    todo,         \* the stacks it still has to make it for
    current,      \* the stack whose deployment or autoscaler comes next
    plan,         \* the containers of the pass after ManageTraffic (need is history)
    need,         \* history: the pods a stack needs for what its status says it is prescaled for
    gained,       \* history: when a stack last gained traffic and kept it
    clean,        \* history: nothing went wrong in the current or last pass
    edits, scalings, failures

kube == <<desired, actual, routed, prescaling, replicas, minReplicas, pods>>
pass == <<pc, todo, current, plan>>
history == <<need, gained, clean>>
bounds == <<edits, scalings, failures>>
vars == <<kube, pass, history, bounds>>

Now == Timeout + 2
Stamp == 0..Now
Aged(t) == IF t > 1 THEN t - 1 ELSE t

NoStack == -1
NoPrescaling == [replicas |-> 0, weight |-> 0, last |-> 0]
PrescalingStatus == [replicas : 0..SpecMax, weight : 0..Total, last : Stamp]
NoPlan == [actual |-> [s \in Stacks |-> 0], prescaling |-> [s \in Stacks |-> NoPrescaling],
           need |-> [s \in Stacks |-> 0]]

Active(p) == p.last # 0

Ceil(a, b) == (a + b - 1) \div b
AtMostMax(n) == Min({n, SpecMax})

\* No switch goes on; stacks without traffic have been used before or are new.
Init ==
    /\ desired \in Splits
    /\ replicas \in [Stacks -> {0} \union SpecMin..SpecMax]
    /\ \A s \in Stacks : desired[s] > 0 => replicas[s] > 0
    /\ actual = desired
    /\ routed = desired
    /\ prescaling = [s \in Stacks |-> NoPrescaling]
    /\ minReplicas = [s \in Stacks |-> IF replicas[s] = 0 THEN 0 ELSE SpecMin]
    /\ pods = replicas
    /\ pc = "idle"
    /\ todo = {}
    /\ current = NoStack
    /\ plan = NoPlan
    /\ need = [s \in Stacks |-> 0]
    /\ gained = [s \in Stacks |-> 0]
    /\ clean = FALSE
    /\ edits = 0 /\ scalings = 0 /\ failures = 0

-----------------------------------------------------------------------------
(***************************************************************************)
(* PrescalingTrafficReconciler.                                            *)
(***************************************************************************)
Gains(s) == desired[s] > actual[s]

\* Its autoscaler is held by the prescaling and tells nothing of the load.
Captured(s) == Active(prescaling[s]) /\ replicas[s] <= prescaling[s].replicas

\* What a stack counts for: what it was prescaled for, unless it has grown beyond that.
Sample(s) ==
    IF Captured(s)
    THEN [replicas |-> prescaling[s].replicas, traffic |-> prescaling[s].weight]
    ELSE IF actual[s] > 0
         THEN [replicas |-> replicas[s], traffic |-> actual[s]]
         ELSE [replicas |-> 0, traffic |-> 0]

TotalReplicas == SumOf([s \in Stacks |-> Sample(s).replicas])
TotalTraffic == SumOf([s \in Stacks |-> Sample(s).traffic])

\* Mutant: the maximum of the autoscaler is not heeded.
TargetUnlimited(s) ==
    LET n == Ceil(desired[s] * TotalReplicas, TotalTraffic)
    IN  IF n = 0 THEN StackReplicas ELSE n

\* The replicas stack s needs for its desired traffic.
Target(s) ==
    LET n == Ceil(desired[s] * TotalReplicas, TotalTraffic)
    IN  AtMostMax(IF n = 0 THEN StackReplicas ELSE n)

\* Prescaling starts, or starts over because the stack is to get even more.
Starts(s) == Gains(s) /\ (~Active(prescaling[s]) \/ prescaling[s].weight < desired[s])

\* Mutant: the time counts from the start of prescaling, not from the increase of traffic.
IncreasedOnce(s) ==
    IF Starts(s)
    THEN [replicas |-> Target(s), weight |-> desired[s], last |-> Now]
    ELSE prescaling[s]

\* Mutant: the time is renewed for as long as the stack is to have traffic.
IncreasedAlways(s) ==
    IF Starts(s)
    THEN [replicas |-> Target(s), weight |-> desired[s], last |-> Now]
    ELSE IF Active(prescaling[s]) /\ desired[s] > 0
         THEN [prescaling[s] EXCEPT !.last = Now]
         ELSE prescaling[s]

\* prescalingLastTrafficIncrease is renewed until the traffic has arrived ...
Increased(s) ==
    IF Starts(s)
    THEN [replicas |-> Target(s), weight |-> desired[s], last |-> Now]
    ELSE IF Gains(s) THEN [prescaling[s] EXCEPT !.last = Now] ELSE prescaling[s]

\* ... and once it is longer ago than the timeout, prescaling ends.
Prescaled(s) == IF Increased(s).last = 1 THEN NoPrescaling ELSE Increased(s)

\* IsReady, which also takes an autoscaler.
IsReady(s) == replicas[s] > 0 /\ minReplicas[s] > 0 /\ pods[s] >= replicas[s]

\* Mutant: a stack whose deployment is ready is taken to be scaled up.
ScaledUpSoon(s) == IsReady(s)

\* A stack may gain traffic once it has the replicas it is prescaled to.
ScaledUp(s) == IsReady(s) /\ pods[s] >= Prescaled(s).replicas

\* The weights change together or not at all.
Switched == IF \A s \in Stacks : Gains(s) => ScaledUp(s) THEN desired ELSE actual

\* The stacks with traffic, as far as the status of the StackSet tells.
Serving == {s \in Stacks : actual[s] > 0}

\* A stack needs its share of the pods that serve when its prescaling starts (over).
\* Nothing is claimed if a stack, this or another, then counts for more than it serves.
Needed(s) ==
    IF Starts(s)
    THEN IF \E t \in Stacks : Captured(t)
         THEN 0
         ELSE AtMostMax(Ceil(desired[s] * SumOf([t \in Serving |-> replicas[t]]), Total))
    ELSE IF Active(Prescaled(s)) THEN need[s] ELSE 0

\* A pass starts: the resources are listed and ManageTraffic decides.
Collect ==
    /\ pc = "idle"
    /\ plan' = [actual |-> Switched, prescaling |-> [s \in Stacks |-> Prescaled(s)],
                need |-> [s \in Stacks |-> Needed(s)]]
    /\ pc' = "segment"
    /\ todo' = Stacks
    /\ clean' = TRUE
    /\ UNCHANGED <<kube, current, need, gained, bounds>>

-----------------------------------------------------------------------------
(***************************************************************************)
(* ReconcileStackResources: segment, deployment and autoscaler of a stack. *)
(***************************************************************************)
SetRouted(s) ==
    /\ routed' = [routed EXCEPT ![s] = plan.actual[s]]
    /\ gained' = [gained EXCEPT ![s] =
                     IF plan.actual[s] > routed[s] /\ plan.actual[s] > actual[s] THEN Now
                     ELSE IF plan.actual[s] < routed[s] THEN 0 ELSE @]

\* GenerateDeployment: a deployment that exists is left to the autoscaler.
SetReplicas(s) ==
    replicas' = IF replicas[s] = 0
                THEN [replicas EXCEPT ![s] = IF Active(plan.prescaling[s])
                                             THEN plan.prescaling[s].replicas
                                             ELSE StackReplicas]
                ELSE replicas

\* GenerateHPA: at least as many replicas as the stack is prescaled to.
SetMinReplicas(s) ==
    minReplicas' = [minReplicas EXCEPT ![s] = Max({SpecMin, plan.prescaling[s].replicas})]

NextStack(s) == pc' = "segment" /\ todo' = todo \ {s} /\ current' = NoStack

WriteSegment(s) ==
    /\ pc = "segment"
    /\ s \in todo
    /\ SetRouted(s)
    /\ pc' = "deployment"
    /\ current' = s
    /\ UNCHANGED <<desired, actual, prescaling, replicas, minReplicas, pods, todo, plan,
                   need, clean, bounds>>

WriteDeployment(s) ==
    /\ pc = "deployment"
    /\ s = current
    /\ SetReplicas(s)
    /\ pc' = "hpa"
    /\ UNCHANGED <<desired, actual, routed, prescaling, minReplicas, pods, todo, current,
                   plan, history, bounds>>

WriteHPA(s) ==
    /\ pc = "hpa"
    /\ s = current
    /\ SetMinReplicas(s)
    /\ NextStack(s)
    /\ UNCHANGED <<desired, actual, routed, prescaling, replicas, pods, plan, history, bounds>>

Fail ==
    /\ failures < MaxFailures
    /\ failures' = failures + 1
    /\ clean' = FALSE
    /\ UNCHANGED <<edits, scalings>>

\* A call fails, or only its reply: the rest of the stack is left for the next pass.
FailSegment(s) ==
    /\ pc = "segment"
    /\ s \in todo
    /\ Fail
    /\ SetRouted(s) \/ UNCHANGED <<routed, gained>>
    /\ NextStack(s)
    /\ UNCHANGED <<desired, actual, prescaling, replicas, minReplicas, pods, plan, need>>

FailDeployment(s) ==
    /\ pc = "deployment"
    /\ s = current
    /\ Fail
    /\ SetReplicas(s) \/ UNCHANGED replicas
    /\ NextStack(s)
    /\ UNCHANGED <<desired, actual, routed, prescaling, minReplicas, pods, plan, need, gained>>

FailHPA(s) ==
    /\ pc = "hpa"
    /\ s = current
    /\ Fail
    /\ SetMinReplicas(s) \/ UNCHANGED minReplicas
    /\ NextStack(s)
    /\ UNCHANGED <<desired, actual, routed, prescaling, replicas, pods, plan, need, gained>>

-----------------------------------------------------------------------------
(***************************************************************************)
(* ReconcileStatuses.                                                      *)
(***************************************************************************)
StartStatuses ==
    /\ pc = "segment"
    /\ todo = {}
    /\ pc' = "status"
    /\ todo' = Stacks
    /\ UNCHANGED <<kube, current, plan, history, bounds>>

WriteStackStatus(s) ==
    /\ pc = "status"
    /\ s \in todo
    /\ prescaling' = [prescaling EXCEPT ![s] = plan.prescaling[s]]
    /\ need' = [need EXCEPT ![s] = plan.need[s]]
    /\ todo' = todo \ {s}
    /\ UNCHANGED <<desired, actual, routed, replicas, minReplicas, pods, pc, current, plan,
                   gained, clean, bounds>>

EndPass == pc' = "idle" /\ todo' = {} /\ current' = NoStack /\ plan' = NoPlan

WriteStackSetStatus ==
    /\ pc = "status"
    /\ todo = {}
    /\ actual' = plan.actual
    /\ EndPass
    /\ UNCHANGED <<desired, routed, prescaling, replicas, minReplicas, pods, history, bounds>>

\* A status update fails, which ends the pass, or the process stops, which ends it anywhere.
Crash ==
    /\ pc # "idle"
    /\ Fail
    /\ EndPass
    /\ UNCHANGED <<kube, need, gained>>

-----------------------------------------------------------------------------
(***************************************************************************)
(* What goes on around the passes.                                         *)
(***************************************************************************)
UserSwitchesTraffic ==
    /\ edits < MaxEdits
    /\ edits' = edits + 1
    /\ desired' \in Splits \ {desired}
    /\ UNCHANGED <<actual, routed, prescaling, replicas, minReplicas, pods, pass, history,
                   scalings, failures>>

\* Pods beyond the replicas are stopped at once.
Scale(s, n) ==
    /\ replicas' = [replicas EXCEPT ![s] = n]
    /\ pods' = [pods EXCEPT ![s] = Min({@, n})]

\* The autoscaler follows the load, within its limits.
FollowLoad(s) ==
    /\ replicas[s] > 0 /\ minReplicas[s] > 0
    /\ scalings < MaxScalings
    /\ scalings' = scalings + 1
    /\ \E n \in minReplicas[s]..SpecMax : n # replicas[s] /\ Scale(s, n)
    /\ UNCHANGED <<desired, actual, routed, prescaling, minReplicas, pass, history,
                   edits, failures>>

\* It scales up to its minimum whatever the load.
KeepMinimum(s) ==
    /\ 0 < replicas[s] /\ replicas[s] < minReplicas[s]
    /\ Scale(s, minReplicas[s])
    /\ UNCHANGED <<desired, actual, routed, prescaling, minReplicas, pass, history, bounds>>

PodReady(s) ==
    /\ pods[s] < replicas[s]
    /\ pods' = [pods EXCEPT ![s] = @ + 1]
    /\ UNCHANGED <<desired, actual, routed, prescaling, replicas, minReplicas, pass, history,
                   bounds>>

PodLost(s) ==
    /\ pods[s] > 0
    /\ scalings < MaxScalings
    /\ scalings' = scalings + 1
    /\ pods' = [pods EXCEPT ![s] = @ - 1]
    /\ UNCHANGED <<desired, actual, routed, prescaling, replicas, minReplicas, pass, history,
                   edits, failures>>

\* Time passes, between passes.
Tick ==
    /\ pc = "idle"
    /\ prescaling' = [s \in Stacks |-> [prescaling[s] EXCEPT !.last = Aged(@)]]
    /\ gained' = [s \in Stacks |-> Aged(gained[s])]
    /\ UNCHANGED <<desired, actual, routed, replicas, minReplicas, pods, pass, need, clean,
                   bounds>>

Pass ==
    \/ Collect \/ StartStatuses \/ WriteStackSetStatus
    \/ \E s \in Stacks :
         WriteSegment(s) \/ WriteDeployment(s) \/ WriteHPA(s) \/ WriteStackStatus(s)

Failure == Crash \/ \E s \in Stacks : FailSegment(s) \/ FailDeployment(s) \/ FailHPA(s)

Environment ==
    \/ UserSwitchesTraffic \/ Tick
    \/ \E s \in Stacks : FollowLoad(s) \/ KeepMinimum(s) \/ PodReady(s) \/ PodLost(s)

Next == Pass \/ Failure \/ Environment

Spec == Init /\ [][Next]_vars

(***************************************************************************)
(* Passes run one after the other and time goes on between them.           *)
(* Autoscalers scale up to their minimum, and pods become ready.           *)
(***************************************************************************)
FairSpec ==
    /\ Spec
    /\ WF_vars(Pass)
    /\ SF_vars(Tick)
    /\ \A s \in Stacks : WF_vars(KeepMinimum(s)) /\ WF_vars(PodReady(s))

-----------------------------------------------------------------------------
(***************************************************************************)
(* Properties.                                                             *)
(***************************************************************************)
\* Type invariant.
TypeOK ==
    /\ desired \in [Stacks -> 0..Total] /\ actual \in [Stacks -> 0..Total]
    /\ routed \in [Stacks -> 0..Total]
    /\ prescaling \in [Stacks -> PrescalingStatus]
    /\ replicas \in [Stacks -> 0..SpecMax] /\ minReplicas \in [Stacks -> 0..SpecMax]
    /\ pods \in [Stacks -> 0..SpecMax] /\ \A s \in Stacks : pods[s] <= replicas[s]
    /\ pc \in {"idle", "segment", "deployment", "hpa", "status"}
    /\ todo \subseteq Stacks
    /\ current \in Stacks \union {NoStack}
    /\ plan \in [actual : [Stacks -> 0..Total], prescaling : [Stacks -> PrescalingStatus],
                need : [Stacks -> 0..SpecMax]]
    /\ need \in [Stacks -> 0..SpecMax] /\ gained \in [Stacks -> Stamp] /\ clean \in BOOLEAN
    /\ edits \in 0..MaxEdits /\ scalings \in 0..MaxScalings /\ failures \in 0..MaxFailures

(***************************************************************************)
(* A pass gives a stack more traffic only if the stack has as many pods    *)
(* ready as its share of the pods that served when its prescaling began or *)
(* began over, passes ago and with failures in between.  (Unless the share *)
(* was then taken of something else: of what a stack, this one or another, *)
(* was prescaled to already and had not grown beyond.  And not as many on  *)
(* top of those it has, as docs/howtos.md:384-386 has it.)                 *)
(***************************************************************************)
SwitchesWithCapacity ==
    [][pc = "idle" /\ pc' = "segment" =>
         \A s \in Stacks : plan'.actual[s] > actual[s] => pods[s] >= plan'.need[s]]_vars

(***************************************************************************)
(* After it has gained traffic, and until that is longer ago than the      *)
(* timeout, a stack is prescaled and its autoscaler keeps the pods.        *)
(***************************************************************************)
HeldUntilTimeout ==
    pc = "idle" /\ clean =>
        \A s \in Stacks : gained[s] > 1 =>
            /\ prescaling[s].last >= gained[s]
            /\ minReplicas[s] >= prescaling[s].replicas

(***************************************************************************)
(* Once edits, failures and changes of the load stop, the traffic is       *)
(* switched as desired, prescaling ends and autoscalers get back the       *)
(* minimum of their stack.                                                 *)
(***************************************************************************)
SwitchEnds ==
    <>[](/\ routed = desired
         /\ \A s \in Stacks : ~Active(prescaling[s]) /\ minReplicas[s] = SpecMin)
=============================================================================
