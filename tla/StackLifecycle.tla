--------------------------- MODULE StackLifecycle ---------------------------
(***************************************************************************)
(* The life of the stacks of a StackSet as reconciliation passes see it:   *)
(* traffic is switched once the stacks that gain are ready, stacks without *)
(* traffic are scaled down after a time and deleted beyond a limit.        *)
(*                                                                         *)
(* What a pass decides depends on what earlier passes persisted: the       *)
(* weights in the status of the StackSet, the time a stack lost its        *)
(* traffic in the status of the stack.  A pass writes segments and         *)
(* deployments stack by stack, then deletes stacks, then writes the        *)
(* statuses; each write may fail and the process may stop between any two. *)
(*                                                                         *)
(* Times are stamps: 0 for none, Now for the present, 1 for longer ago     *)
(* than the TTL.  A stack is the rank of its name, a deployment is scaled  *)
(* up (1) or down (0).  Prescaling is off.                                 *)
(***************************************************************************)
EXTENDS TrafficWeights

CONSTANTS
    Stacks,        \* the names of possible stacks
    OwnIngress,    \* the stacks created when the StackSet had an ingress
    Limit,         \* stackLifecycle.limit
    TTL,           \* stackLifecycle.scaledownTTLSeconds, in ticks
    MaxEdits,      \* bound: edits of the desired traffic and new stacks
    MaxFailures,   \* bound: failed calls, crashes and stacks losing their pods
    MaxLag,        \* bound: passes that start on an outdated StackSet
    MaxSlow        \* bound: ticks during passes

ASSUME StacksAssumption ==
    Stacks \subseteq Nat /\ IsFiniteSet(Stacks) /\ OwnIngress \subseteq Stacks
ASSUME LifecycleAssumption == Limit \in Nat \ {0} /\ TTL \in Nat
ASSUME BoundsAssumption ==
    MaxEdits \in Nat /\ MaxFailures \in Nat /\ MaxLag \in Nat /\ MaxSlow \in Nat

VARIABLES
    exists,      \* cluster: the stacks
    created,     \* cluster: their creation timestamps
    since,       \* cluster: noTrafficSince in their statuses
    replicas,    \* cluster: the replicas of their deployments
    ready,       \* cluster: the stacks whose pods are ready
    routed,      \* cluster: the share of traffic their segments route to them
    stackset,    \* cluster: desired traffic (spec) and actual traffic (status)
    store,       \* the controller's copy of the StackSet
    pc,          \* what the pass does next
    todo,        \* the stacks it still has to do that for
    current,     \* the stack whose deployment comes next
    plan,        \* the containers of the pass after ManageTraffic
    served,      \* history: when a stack was last routed traffic
    proven,      \* history: the stacks that were ready at some time
    cut,         \* history: a pass ended at the status of a stack it had deleted
    edits, failures, lags, slow

kube == <<exists, created, since, replicas, ready, routed, stackset>>
bounds == <<edits, failures, lags, slow>>
history == <<served, proven, cut>>
vars == <<kube, store, pc, todo, current, plan, history, bounds>>

Now == TTL + 2
Stamp == 0..Now
Aged(t) == IF t > 1 THEN t - 1 ELSE t
Expired(t) == t = 1     \* the time since t is greater than the TTL

NoTraffic == [s \in Stacks |-> 0]
NoStamp == [s \in Stacks |-> 0]
NoStack == -1
Weights == [Stacks -> 0..Total]
Only(s) == [NoTraffic EXCEPT ![s] = Total]

NoPlan == [stackset |-> [desired |-> NoTraffic, actual |-> NoTraffic], members |-> {},
           desired |-> NoTraffic, actual |-> NoTraffic, since |-> NoStamp, removal |-> {}]

\* A StackSet whose traffic goes to one stack, as a former pass left it.
Init ==
    /\ exists \in SUBSET Stacks
    /\ \E s \in exists :
         /\ stackset = [desired |-> Only(s), actual |-> Only(s)]
         /\ routed = [t \in Stacks |-> IF t \in OwnIngress THEN Only(s)[t] ELSE 0]
         /\ since = [t \in Stacks |-> IF t \in exists \ {s} THEN Now ELSE 0]
         /\ ready = {s}
    /\ created = [s \in Stacks |-> IF s \in exists THEN 1 ELSE 0]
    /\ replicas = [s \in Stacks |-> IF s \in exists THEN 1 ELSE 0]
    /\ store = stackset
    /\ pc = "idle"
    /\ todo = {}
    /\ current = NoStack
    /\ plan = NoPlan
    /\ served = [s \in Stacks |-> IF routed[s] > 0 THEN Now ELSE 0]
    /\ proven = ready
    /\ cut = FALSE
    /\ edits = 0 /\ failures = 0 /\ lags = 0 /\ slow = 0

-----------------------------------------------------------------------------
(***************************************************************************)
(* What a pass finds and decides.                                          *)
(***************************************************************************)
\* Mutant: the fallback stack gets the whole traffic on top of what there is.
ManagedOnTop(w, f) == [s \in Stacks |-> IF s = f THEN w[s] + Total ELSE w[s]]

\* ManageTraffic's weights for weights w of the StackSet and fallback stack f.
Managed(w, f) ==
    LET m == ManagedWeights([s \in exists |-> w[s]], f)
    IN  [s \in Stacks |-> IF s \in exists THEN m[s] ELSE 0]

Fallbacks == FallbackStacks([s \in exists |-> created[s]], [s \in exists |-> since[s]])

\* Mutant: traffic is switched whether stacks are ready or not.
SwitchedAtOnce(desired, actual) == desired

\* SimpleTrafficReconciler: all traffic as desired, once every stack that gains is ready.
Switched(desired, actual) ==
    IF \E s \in exists : desired[s] > actual[s] /\ s \notin ready
    THEN actual
    ELSE desired

\* Mutant: a stack that is only about to get traffic does not count.
HasActualTraffic(p, s) == p.actual[s] > 0

HasTraffic(p, s) == p.actual[s] > 0 \/ p.desired[s] > 0
ScaledDown(p, s) == ~HasTraffic(p, s) /\ Expired(p.since[s])

\* A stack without traffic keeps the time it lost it, which is now if it has none.
NoTrafficSince(p) ==
    [s \in Stacks |->
        IF s \notin exists \/ HasTraffic(p, s) THEN 0 ELSE IF since[s] = 0 THEN Now ELSE since[s]]

\* The containers after ManageTraffic, if fd is the fallback stack for the desired
\* traffic and fa the one for the actual traffic.
Planned(fd, fa) ==
    LET desired == Managed(store.desired, fd)
        actual == Switched(desired, Managed(store.actual, fa))
    IN  [stackset |-> store, members |-> exists, desired |-> desired, actual |-> actual,
         since |-> NoTrafficSince([desired |-> desired, actual |-> actual]), removal |-> {}]

\* None of it happens without stacks.
ManageTraffic ==
    IF exists = {}
    THEN {[NoPlan EXCEPT !.stackset = store]}
    ELSE {Planned(fd, fa) : fd \in Fallbacks, fa \in Fallbacks}

LastUse(p, s) == IF p.since[s] = 0 THEN created[s] ELSE p.since[s]

\* Mutant: once the limit is exceeded, one stack too many is removed.
ExpiredTooMany(p) ==
    LET candidates == {s \in p.members : s \notin OwnIngress \/ ScaledDown(p, s)}
    IN  IF Cardinality(candidates) <= Limit
        THEN {{}}
        ELSE kSubset(Cardinality(candidates) - Limit + 1, candidates)

\* MarkExpiredStacks: the candidates beyond the limit, those longest without traffic.
ExpiredStacks(p) ==
    LET candidates == {s \in p.members : s \notin OwnIngress \/ ScaledDown(p, s)}
    IN  IF Cardinality(candidates) <= Limit
        THEN {{}}
        ELSE {r \in kSubset(Cardinality(candidates) - Limit, candidates) :
                \A s \in r, t \in candidates \ r : LastUse(p, s) <= LastUse(p, t)}

Collect ==
    /\ pc = "idle"
    /\ store # stackset => lags < MaxLag
    /\ lags' = IF store # stackset THEN lags + 1 ELSE lags
    /\ \E p \in ManageTraffic : \E r \in ExpiredStacks(p) :
         plan' = [p EXCEPT !.removal = r]
    /\ pc' = "segment"
    /\ todo' = exists
    /\ UNCHANGED <<kube, store, current, history, edits, failures, slow>>

-----------------------------------------------------------------------------
(***************************************************************************)
(* ReconcileStackResources, in any order of the stacks: the segment, and   *)
(* if that succeeds the deployment.                                        *)
(***************************************************************************)
SetRouted(s) ==
    routed' = [routed EXCEPT ![s] = IF s \in OwnIngress THEN plan.actual[s] ELSE 0]

\* Mutant: a stack that is no longer to have traffic is scaled down right away.
ReplicasAsDesired(s) == IF plan.desired[s] > 0 THEN 1 ELSE 0

\* GenerateDeployment's replicas: ScaledDown compares with the time it is by now.
DesiredReplicas(s) == IF ScaledDown(plan, s) THEN 0 ELSE 1

SetReplicas(s) ==
    /\ replicas' = [replicas EXCEPT ![s] = DesiredReplicas(s)]
    /\ ready' = IF DesiredReplicas(s) = 0 THEN ready \ {s} ELSE ready

NextStack(s) == pc' = "segment" /\ todo' = todo \ {s} /\ current' = NoStack

\* A stack that is routed traffic is served now.
Serve == served' = [s \in Stacks |-> IF routed[s] > 0 \/ routed'[s] > 0 THEN Now ELSE served[s]]

WriteSegment(s) ==
    /\ pc = "segment"
    /\ s \in todo
    /\ SetRouted(s)
    /\ Serve
    /\ pc' = "deployment"
    /\ current' = s
    /\ UNCHANGED <<exists, created, since, replicas, ready, stackset, store, todo, plan,
                   proven, cut, bounds>>

WriteDeployment(s) ==
    /\ pc = "deployment"
    /\ s = current
    /\ SetReplicas(s)
    /\ NextStack(s)
    /\ UNCHANGED <<exists, created, since, routed, stackset, store, plan, history, bounds>>

Fail == failures < MaxFailures /\ failures' = failures + 1

\* The write of a segment fails, or only its reply: the deployment is left alone.
FailSegment(s) ==
    /\ pc = "segment"
    /\ s \in todo
    /\ Fail
    /\ SetRouted(s) \/ UNCHANGED routed
    /\ Serve
    /\ NextStack(s)
    /\ UNCHANGED <<exists, created, since, replicas, ready, stackset, store, plan, proven,
                   cut, edits, lags, slow>>

FailDeployment(s) ==
    /\ pc = "deployment"
    /\ s = current
    /\ Fail
    /\ SetReplicas(s) \/ UNCHANGED <<replicas, ready>>
    /\ NextStack(s)
    /\ UNCHANGED <<exists, created, since, routed, stackset, store, plan, history,
                   edits, lags, slow>>

-----------------------------------------------------------------------------
(***************************************************************************)
(* The rest of the pass: desired traffic, cleanup, statuses.               *)
(***************************************************************************)
\* GenerateStackSetTraffic and GenerateStackSetStatus leave out what is to be removed.
Kept(w) == [s \in Stacks |-> IF s \in plan.members \ plan.removal THEN w[s] ELSE 0]

\* ReconcileStackSetDesiredTraffic: refused if the StackSet has changed since.  (A
\* resource version tells more changes than the value does: one that was taken back
\* is not noticed here.  DesiredTraffic has the version.)
UpdateDesiredTraffic ==
    /\ pc = "segment"
    /\ todo = {}
    /\ pc' = "cleanup"
    /\ todo' = plan.removal
    /\ stackset' = IF stackset = plan.stackset
                   THEN [stackset EXCEPT !.desired = Kept(plan.desired)]
                   ELSE stackset
    /\ UNCHANGED <<exists, created, since, replicas, ready, routed, store, current, plan,
                   history, bounds>>

\* A stack is deleted, and its deployment and its segments with it.
Delete(s) ==
    /\ exists' = exists \ {s}
    /\ created' = [created EXCEPT ![s] = 0]
    /\ since' = [since EXCEPT ![s] = 0]
    /\ replicas' = [replicas EXCEPT ![s] = 0]
    /\ ready' = ready \ {s}
    /\ routed' = [routed EXCEPT ![s] = 0]
    /\ served' = [served EXCEPT ![s] = 0]
    /\ proven' = proven \ {s}

CleanupOldStacks(s) ==
    /\ pc = "cleanup"
    /\ s \in todo
    /\ Delete(s)
    /\ todo' = todo \ {s}
    /\ UNCHANGED <<stackset, store, pc, current, plan, cut, bounds>>

\* One deletion fails: the others are left for the next pass.
FailCleanup(s) ==
    /\ pc = "cleanup"
    /\ s \in todo
    /\ Fail
    /\ todo' = plan.members
    /\ pc' = "status"
    /\ UNCHANGED <<kube, store, current, plan, history, edits, lags, slow>>

EndCleanup ==
    /\ pc = "cleanup"
    /\ todo = {}
    /\ todo' = plan.members
    /\ pc' = "status"
    /\ UNCHANGED <<kube, store, current, plan, history, bounds>>

EndPass == pc' = "idle" /\ todo' = {} /\ current' = NoStack /\ plan' = NoPlan

\* ReconcileStatuses, the status of a stack.
WriteStackStatus(s) ==
    /\ pc = "status"
    /\ s \in todo \intersect exists
    /\ since' = [since EXCEPT ![s] = plan.since[s]]
    /\ todo' = todo \ {s}
    /\ UNCHANGED <<exists, created, replicas, ready, routed, stackset, store, pc, current,
                   plan, history, bounds>>

(***************************************************************************)
(* The status of a stack that this pass has deleted: if it is still the    *)
(* same there is nothing to write, if it differs (in a count of pods, say) *)
(* the stack is not found and that ends the pass.                          *)
(***************************************************************************)
DeletedStackStatus(s) ==
    /\ pc = "status"
    /\ s \in todo \ exists
    /\ \/ todo' = todo \ {s} /\ UNCHANGED <<pc, current, plan, cut>>
       \/ EndPass /\ cut' = TRUE
    /\ UNCHANGED <<kube, store, served, proven, bounds>>

(***************************************************************************)
(* ReconcileStatuses, the status of the StackSet: written over whatever it *)
(* is by then, unless it is that of the pass's copy, outdated or not.      *)
(* (Counts of stacks are a part of it, too: with the same traffic it may   *)
(* be written or not.)                                                     *)
(***************************************************************************)
WriteStackSetStatus ==
    /\ pc = "status"
    /\ todo = {}
    /\ \/ stackset' = [stackset EXCEPT !.actual = Kept(plan.actual)]
       \/ Kept(plan.actual) = plan.stackset.actual /\ UNCHANGED stackset
    /\ EndPass
    /\ UNCHANGED <<exists, created, since, replicas, ready, routed, store, history, bounds>>

\* A status update fails, which ends the pass, or the process stops, which ends it anywhere.
Crash ==
    /\ pc # "idle"
    /\ Fail
    /\ store' \in {store, stackset}
    /\ EndPass
    /\ UNCHANGED <<kube, history, edits, lags, slow>>

-----------------------------------------------------------------------------
(***************************************************************************)
(* What goes on around the passes.                                         *)
(***************************************************************************)
\* A user sets the desired traffic, for stacks that exist or not.
UserSwitchesTraffic ==
    /\ edits < MaxEdits
    /\ edits' = edits + 1
    /\ \E w \in Weights :
         /\ SumOf(w) \in {0, Total}
         /\ w # stackset.desired
         /\ stackset' = [stackset EXCEPT !.desired = w]
    /\ UNCHANGED <<exists, created, since, replicas, ready, routed, store, pc, todo, current,
                   plan, history, failures, lags, slow>>

\* CreateCurrentStack; its deployment is left to the passes.
StackCreated(s) ==
    /\ pc = "idle"
    /\ s \notin exists
    /\ edits < MaxEdits
    /\ edits' = edits + 1
    /\ exists' = exists \union {s}
    /\ created' = [created EXCEPT ![s] = Now]
    /\ UNCHANGED <<since, replicas, ready, routed, stackset, store, pc, todo, current, plan,
                   history, failures, lags, slow>>

Deliver ==
    /\ pc = "idle"
    /\ store # stackset
    /\ store' = stackset
    /\ UNCHANGED <<kube, pc, todo, current, plan, history, bounds>>

\* The pods of a scaled-up deployment become ready ...
PodsReady(s) ==
    /\ s \in exists \ ready
    /\ replicas[s] = 1
    /\ ready' = ready \union {s}
    /\ proven' = proven \union {s}
    /\ UNCHANGED <<exists, created, since, replicas, routed, stackset, store, pc, todo,
                   current, plan, served, cut, bounds>>

\* ... or fail.
PodsFail(s) ==
    /\ s \in ready
    /\ Fail
    /\ ready' = ready \ {s}
    /\ UNCHANGED <<exists, created, since, replicas, routed, stackset, store, pc, todo,
                   current, plan, history, edits, lags, slow>>

AgedStamps(f) == [s \in Stacks |-> Aged(f[s])]

\* Time passes.
Tick ==
    /\ created' = AgedStamps(created)
    /\ since' = AgedStamps(since)
    /\ plan' = [plan EXCEPT !.since = AgedStamps(plan.since)]
    /\ served' = [s \in Stacks |-> IF routed[s] > 0 THEN Now ELSE Aged(served[s])]
    /\ pc # "idle" => slow < MaxSlow
    /\ slow' = IF pc # "idle" THEN slow + 1 ELSE slow
    /\ UNCHANGED <<exists, replicas, ready, routed, stackset, store, pc, todo, current,
                   proven, cut, edits, failures, lags>>

Pass ==
    \/ Collect \/ UpdateDesiredTraffic \/ EndCleanup \/ WriteStackSetStatus
    \/ \E s \in Stacks :
         \/ WriteSegment(s) \/ WriteDeployment(s)
         \/ CleanupOldStacks(s) \/ WriteStackStatus(s) \/ DeletedStackStatus(s)

Failure ==
    \/ Crash
    \/ \E s \in Stacks : FailSegment(s) \/ FailDeployment(s) \/ FailCleanup(s) \/ PodsFail(s)

Environment ==
    \/ UserSwitchesTraffic \/ Deliver \/ Tick
    \/ \E s \in Stacks : StackCreated(s) \/ PodsReady(s)

Next == Pass \/ Failure \/ Environment

Spec == Init /\ [][Next]_vars

(***************************************************************************)
(* Passes run one after the other, time passes and events are delivered    *)
(* between them, and pods that are started become ready.  That every pass  *)
(* ends and is followed by another is what WF_vars(Pass) amounts to here:  *)
(* a pass is always able to go on, and only a bounded number of other      *)
(* steps can come in between.  TLC checks it ten times as fast.            *)
(***************************************************************************)
FairSpec ==
    /\ Spec
    /\ []<>(pc = "idle") /\ []<>(pc # "idle")
    /\ SF_vars(Deliver)
    /\ SF_vars(pc = "idle" /\ Tick)
    /\ \A s \in Stacks : WF_vars(PodsReady(s))

-----------------------------------------------------------------------------
(***************************************************************************)
(* Properties.                                                             *)
(***************************************************************************)
\* Type invariant.
TypeOK ==
    /\ exists \subseteq Stacks /\ ready \subseteq exists /\ proven \subseteq exists
    /\ created \in [Stacks -> Stamp] /\ since \in [Stacks -> Stamp]
    /\ served \in [Stacks -> Stamp]
    /\ replicas \in [Stacks -> {0, 1}]
    /\ routed \in Weights
    /\ stackset \in [desired : Weights, actual : Weights]
    /\ store \in [desired : Weights, actual : Weights]
    /\ pc \in {"idle", "segment", "deployment", "cleanup", "status"}
    /\ todo \subseteq Stacks
    /\ current \in Stacks \union {NoStack}
    /\ plan \in [stackset : [desired : Weights, actual : Weights], members : SUBSET Stacks,
                desired : Weights, actual : Weights, since : [Stacks -> Stamp],
                removal : SUBSET Stacks]
    /\ plan.removal \subseteq plan.members
    /\ cut \in BOOLEAN
    /\ edits \in 0..MaxEdits /\ failures \in 0..MaxFailures
    /\ lags \in 0..MaxLag /\ slow \in 0..MaxSlow

(***************************************************************************)
(* However calls fail, a stack is not scaled down while its segments still *)
(* route traffic to it.                                                    *)
(***************************************************************************)
ScalesDownUnrouted ==
    [][\A s \in Stacks :
          s \in exists' /\ replicas'[s] < replicas[s] => ~(routed[s] > 0)]_vars

\* Its inductive strengthening: the segment of the stack whose deployment comes
\* next routes to it what the pass has decided.
SegmentFirst ==
    /\ replicas \in [Stacks -> {0, 1}]
    /\ DOMAIN routed = Stacks /\ DOMAIN plan = DOMAIN NoPlan
    /\ pc = "deployment" =>
          /\ current \in Stacks
          /\ routed[current] = IF current \in OwnIngress THEN plan.actual[current] ELSE 0

(***************************************************************************)
(* "limit: maximum number of scaled down stacks to keep" (README.md:72) is *)
(* what cleaning up does: it leaves as many as the limit says, besides one *)
(* with traffic, over passes that fail half-way.  EnforcesLimit below is   *)
(* the other reading, by which stacks with traffic are counted.            *)
(***************************************************************************)
LimitKept ==
    [][/\ OwnIngress = Stacks
       /\ exists' # exists /\ exists' \subseteq exists
       => Cardinality(exists') > Limit]_vars

(***************************************************************************)
(* A stack only gains traffic when it has been ready and is scaled up: the *)
(* pass compares with weights that earlier passes wrote as they ended.     *)
(* (If two passes end before they write the status of the StackSet, a      *)
(* stack may be scaled down that the status still gives all the traffic;   *)
(* switching back to it then takes no wait.  So without failures, outdated *)
(* copies and passes cut short.  Stacks without segments of their own are  *)
(* deleted with traffic, which then falls back to any stack.)              *)
(***************************************************************************)
RoutesToReady ==
    [][OwnIngress = Stacks /\ failures = 0 /\ lags = 0 /\ ~cut =>
         \A s \in Stacks : routed'[s] > routed[s] => s \in proven /\ replicas[s] = 1]_vars

(***************************************************************************)
(* "scaleDownTTLSeconds defines for how many seconds a stack should not    *)
(* receive traffic before it's scaled down."  A pass that ends before its  *)
(* statuses are written forgets when a stack had traffic, and time that    *)
(* goes by during a pass counts: so without failures, passes cut short and *)
(* slow passes.                                                            *)
(***************************************************************************)
ScaleDownWaits ==
    [][failures = 0 /\ slow = 0 /\ ~cut =>
         \A s \in exists' : replicas'[s] < replicas[s] => served[s] \in {0, 1}]_vars

(***************************************************************************)
(* Once edits and failures stop, traffic is routed as desired, stacks      *)
(* without traffic are scaled down, and no more of them than the limit are *)
(* kept.                                                                   *)
(***************************************************************************)
Idle == {s \in exists : stackset.desired[s] = 0}

SwitchSettles ==
    <>[](/\ exists # {} => routed = stackset.desired /\ SumOf(routed) = Total
         /\ Cardinality(Idle) <= Limit
         /\ \A s \in Idle : replicas[s] = 0)

(***************************************************************************)
(* "limit defines the total number of stacks to keep.  [...] if you set a  *)
(* limit of 1 and have two stacks [and] switch to 100% traffic for one of  *)
(* the stacks then the other will be deleted" (README.md:168-175): in the  *)
(* end there are no more stacks than the limit, or none without traffic.   *)
(***************************************************************************)
EnforcesLimit == <>[](Cardinality(exists) <= Limit \/ Idle = {})
=============================================================================
