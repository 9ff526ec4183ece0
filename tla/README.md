# Verification of the StackSet controller

This directory holds TLA+ models of the StackSet controller, configurations
that check them with TLC, and proofs checked by TLAPS. The source is the
reference: every definition that stands for code is listed in `PROJECT.json`
under `map` with the lines it models.

## The system

A `StackSet` is a Kubernetes resource for an application of which several
versions, *stacks*, run side by side. The user edits the template of the
StackSet (a new version gives a new stack) and its desired traffic (weights per
stack). The controller makes the cluster follow.

One process watches all StackSets (`startWatch`) and runs a loop (`Run` in
`src/controller/stackset.go`) that either takes one watch event into
`stacksetStore` or, every interval, makes a *pass* over all StackSets: it lists
all resources of the cluster once (`collectResources`), and reconciles every
StackSet (`ReconcileStackSet`) in this order:

1. `CreateCurrentStack`: create the stack of a new version; record the version.
2. `UpdateFromResources`: read the state of every stack into its container.
3. `ManageTraffic`: normalise and round desired and actual weights, let a
   traffic reconciler decide on new actual weights, maintain `noTrafficSince`.
4. `MarkExpiredStacks`: choose what to delete.
5. `ComputeTrafficSegments`: lay out disjoint segments of the traffic for the
   stacks, and order the stacks whose segment changes.
6. `ReconcileStackResources` for every stack, those first: ingress segment,
   routegroup segment, then deployment, autoscaler, service.
7. `ReconcileStackSetDesiredTraffic`: write the desired traffic back.
8. `CleanupOldStacks`: delete the stacks chosen in 4.
9. `ReconcileStatuses`: the statuses of the stacks, then of the StackSet.

The steps communicate only through the containers of the pass and through the
API server, and passes communicate only through what they wrote there. Most
errors are logged and the pass goes on; a few end it. Users, other clients, the
deployment controller (pods) and skipper (which routes a request by the
segment it falls into) act at the same time.

### Components

| component | state | operations | what is hard | what makes it correct |
|---|---|---|---|---|
| Traffic segments (`core/traffic.go`, `controller/stack_resources.go`) | segments in ingresses and routegroups; limits in containers | collect, lay out, order, write | many calls, each may fail; two resources per stack; layout starts from whatever is there | disjoint and gapless layout, kept positions, sync is reached and kept |
| Traffic weights (`core/traffic.go`) | none | normalise, round, fall back | ties, repeated rounding | exact total, fairness, order, stability |
| Desired traffic (`core/types.go`, `core/stackset.go`) | `spec.traffic` | user's edit, controller's rewrite | read-modify-write from an old copy | a user's request is not lost |
| Creation of stacks (`core/stackset.go`, `controller/stackset.go`) | template, `status.observedStackVersion` | create, record, status update with retry | two calls; conflicts; outdated copies; restarts | each version gets a stack; observed means created |
| Lifecycle of stacks (`core/traffic_simple.go`, `core/stackset.go`, `core/types.go`) | actual weights, `noTrafficSince`, replicas | switch, scale down, expire, clean up, statuses | decisions persist only at the end of a pass; time | traffic only to ready stacks; no scale-down under traffic; limit; progress |
| Main loop, ownership, watch (`controller/stackset.go`, `cmd/stackset-controller/main.go`) | store, event channel, informer cache | watch events, passes with their workers, ownership by annotation | interleaving, missed deletions, two controllers, a name used again | the store is what the controller owns; every StackSet ends with its owner and gets its stack |
| Prescaling (`core/traffic_prescaling.go`) | prescaling part of the stack status | start, extend, end by timeout | timeouts renewed while traffic still rises | replicas kept until traffic arrived |
| Resources of a stack (`core/stack_resources.go`, `controller/stack_resources.go`) | deployment, HPA, service, ingress, routegroup, their generation annotation | generate, compare, create, update, delete | written from what was read before; autoscaler and users in between; a failure half way | resources follow the stack, replicas belong to the autoscaler, traffic goes to what is up to date |
| ConfigMap, Secret, PlatformCredentialsSet references (`controller/stack_resources.go`) | owner references | read, check owner, write | read and update in two calls | one owner; no deployment without them |
| Traffic command (`pkg/traffic`, `cmd/traffic`) | an annotation | list, read all weights, write all weights | no version: lost updates | what was asked for last is in effect, the rest keeps its proportions |
| Autoscaler metrics (`core/autoscaler.go`) | none | sort, convert, name | optional fields in comparator and conversion; names that meet | the same HPA for any order; metrics find their own details |
| Traffic switch events, metrics, health, API types, e2e | - | - | - | - |

## Modules

| module | models |
|---|---|
| `TrafficWeights` | the arithmetic of `normalizeWeights`, `roundWeights`, `findFallbackStack` as operators |
| `TrafficSwitcher` | the traffic command, several at a time |
| `AutoscalerMetrics` | how metrics are sorted, converted and named, as operators |
| `Calculations` | behaviours of the three above: weights managed by pass after pass, commands, lists of metrics |
| `TrafficWeights_proofs` | sums over finite sets, and its theorems; the proofs about modules that use weights extend it |
| `TrafficSegments` | steps 5 and 6 of the pass for segments; uses the sum and `Total` of `TrafficWeights` |
| `TrafficSegments_proofs` | its theorems |
| `DesiredTraffic` | steps 1, 3 and 7 as far as `spec.traffic` is concerned; uses `TrafficWeights` |
| `UserRequests_proofs` | the theorems of `DesiredTraffic` and `Calculations`: what is made of what users ask for |
| `Rollout` | what a StackSet promises about versions, stacks and the observed version, without a controller |
| `StackVersions` | steps 1 and 9 as far as the observed version is concerned, with the watch; implements `Rollout` |
| `StackVersions_proofs` | its theorems |
| `StackLifecycle` | the whole pass for a StackSet whose stacks exist: traffic, replicas, cleanup, statuses; uses `TrafficWeights` |
| `StackLifecycle_proofs` | its theorems |
| `Prescaling` | steps 2, 3, 6 and 9 for a StackSet with the prescaling annotation, with autoscalers and pods; uses `TrafficWeights` |
| `Prescaling_proofs` | its theorems |
| `StackResources` | step 6 for all kinds of resources and the readiness of step 2, with users, autoscaler and pods |
| `StackResources_proofs` | its theorems |
| `ControllerLoop` | the loop around the pass: watch, store, owners, workers; steps 1 and 9 for a StackSet that is made again |
| `ControllerLoop_proofs` | its theorems |
| `MCCalculations`, `MCTrafficSegments`, `MCDesiredTraffic`, `MCStackVersions`, `MCStackLifecycle`, `MCPrescaling`, `MCStackResources`, `MCControllerLoop` | small instances for TLC |

Operators named in a comment "Mutant: ..." are wrong variants of the definition
that follows them. No module uses them; put in place of that definition, each
breaks one of the properties, which shows that the property depends on it.

### TrafficSegments

`ingress` and `routegroup` are the predicates in the cluster; a stack may have
either, both or none (`HasIngress`, `HasRouteGroup`). `limits`, `diff`, `index`
and `order` are what `ComputeTrafficSegments` builds; `todo`, `pending` and
`current` say where its loops and those of `ReconcileStackSet` are.

`StartPass` is the collection of segments with the error path of
`newTrafficSegment`: when the two segments of a stack disagree, the error is
only logged and the pass goes on to write the zero limits of its new
containers. `LayOutExisting` and `LayOutNew` are the two loops that set limits,
one stack a step. `WriteIngressSegment` and `WriteRouteGroupSegment` are the
two calls of `ReconcileStackResources`, each with a failing variant that has or
has not taken effect. `Crash` ends a pass anywhere. `ReplaceStack` deletes a
stack without traffic and gives its name to a new one.

Limits and weights are multiples of 1/`Total`. The code adds floating point
numbers and reads them back with two decimals; whole percents survive that,
except that a segment that stays as it is may compare as changed. `Changed`
leaves that open. The comparator of the sort is not an order (see
*Disagreements*), so its result depends on the sorting algorithm:
`sort.SliceStable` is an insertion sort up to 20 elements, and that is what
`Insert` does. More than 20 changed segments are not modelled. The order in
which the remaining stacks and the new ones are visited is the order of a Go
map, hence any. Ties that floating point differences break are not modelled.

### TrafficWeights

A normalised weight is kept as an integer part and a remainder over the sum of
the weights, which makes the arithmetic exact; the code's floating point sums
can differ in the order of two nearly equal fractions.

### TrafficSwitcher

The command that gives one stack a share and scales the others. `List`, `Read`
and `Write` are its three calls; commands, failures and stacks that come and go
interleave. It writes the annotation `zalando.org/stack-traffic-weights` of an
ingress that has the name of the StackSet. Nothing in the controller reads that
annotation today, so the module stands by itself. Weights are fractions without
common factors, exact where the code computes with floating point: two weights
are equal if they are the same number. A stack that does not exist may be asked
for; with all the traffic, that makes every weight zero, which the next reader
takes for equal weights. A command that has ended does nothing more, hence no
check for deadlock in `Calculations`.

### AutoscalerMetrics

`Less` is the comparator, `SortedMetrics` the insertion sort that `sort.Sort` is
up to 12 elements (more are not modelled), `Converted` the loop of
`convertCustomMetrics` with the outcomes converted, error and panic. A metric has
only the fields its type uses: the average or utilization, a container, a target
(queue, endpoint, check, schedule, hosts) and a detail that stands for the rest
(`MetricsOf`); what users are offered (`Offered`) is any such metrics. Fields that are
compared stand for what the comparator makes of them: it knows an average by its
unscaled digits.
Two metrics for requests per second get the same name, that of the stack, and
overwrite one another's annotations, and so do two for the same endpoint;
`OwnAnnotations` says that nothing else meets.

### DesiredTraffic

`spec` and `version` are `spec.traffic` and the resource version in the API
server, `store` is the controller's copy, `seen` the container. `UpdateSpec` is
refused when `version` has moved on. It suffices that `store` jumps to the
current value when events are delivered, as an update from any outdated copy is
refused alike. `UpdateStatus` and the creation of a stack change the version;
so do other edits.

### StackVersions

`stackset` is the StackSet in the API server (template, observed version, the
rest of the status as one number), `events` the watch events on the way,
`store` the controller's copy and `seen` that of the container.
`CreateCurrentStack` is two actions, `CreateStack` and `ObserveVersion`, with a
conflict as an outcome of the second and a failure, with or without effect, of
each (`CreateFails`, `ObserveFails`): a call may take effect and its reply be lost,
and the pass then goes on with the copy it had. `ReconcileStatuses` is one action: `retryUpdate` repeats until the object
it has read is the one it overwrites. `PassFails` covers what ends a pass
before it: a failed call or a stack that is gone by then.

`Rollout` says what a user may rely on, in five variables and four actions: a
version is asked for, gets a stack, loses it, is observed. No step does two of
these, a stack is only made for a version that was asked for, and only versions
that had a stack are ever observed. `Promise` is the instance with the template
and status of `stackset` for `template` and `observed`; everything else in
StackVersions (events, copies, conflicts, restarts) is stuttering. `asked` is a
history variable kept for that; `behind` remembers that the pass began on an
outdated copy or lost the reply of its own update. Rollout promises no progress; `FirstCreation`
and `ObservedMovesOn` do.

### StackLifecycle

`desired` and `actual` of `stackset` are spec and status traffic. `Collect` is
the reading part of a pass: it lists the stacks and computes `plan`, with
`Managed`, `Switched` (`SimpleTrafficReconciler`), `NoTrafficSince` and
`ExpiredStacks`. Then come `WriteSegment` and `WriteDeployment` for every stack
in any order, `UpdateDesiredTraffic`, `CleanupOldStacks`, `WriteStackStatus` and
`WriteStackSetStatus`, which leaves the status alone if it is the one of the pass's
copy, outdated or not. Failures follow the code: a failed segment skips the
deployment of its stack, a failed deletion skips the remaining ones, a failed
status ends the pass (`Crash`), a stack deleted by this very pass may end it
too (`DeletedStackStatus`).

Times are stamps that count down: 0 for none, `Now` for the present, 1 for
longer ago than the TTL. Ticks happen between passes, and `MaxSlow` of them
during a pass. Replicas are 0 or 1; readiness is a set that pods enter and
leave. `served`, `proven` and `cut` remember what properties need: when a stack was
last routed traffic, whether it was ever ready, and whether a pass has ended at the
status of a stack it had deleted. `OwnIngress` is the set of
stacks that have a segment of their own; one that was created before its
StackSet had an ingress has none. The StackSet is compared by value, where the
code compares resource versions; DesiredTraffic has those.

### Prescaling

The other traffic reconciler. `Collect` is the reading part of a pass:
`Sample`, `TotalReplicas` and `TotalTraffic` are its first loop, `Target`,
`Increased` and `Prescaled` the second, `ScaledUp` and `Switched` the third. Then
`WriteSegment`, `WriteDeployment` and `WriteHPA` follow for every stack, the
statuses, and `Crash` or a failed call anywhere. `prescaling` and `actual` are
the statuses, `routed`, `replicas` and `minReplicas` the cluster: the reconciler
decides from the former what is to be done to the latter, and the two are apart
after a pass that did not come to its end. Autoscalers and pods act at any time:
`FollowLoad` scales within the limits, `KeepMinimum` up to the minimum,
`PodReady` and `PodLost` change how many pods are ready.

The stamp `last` doubles as the flag that prescaling is active, which the code
keeps beside it: it is set whenever the flag is. Every stack exists, has an
autoscaler, has its resources up to date once it has deployment and autoscaler,
and needs all pods to be ready (`minReadyPercent` 100). A segment is one write;
TrafficSegments has its parts, and what a switch does while some are written.
The lists a pass begins with are current. Ticks happen between passes.

`need` remembers, with the status of a stack, the pods it has to have to take
over its traffic: its share of the pods of the stacks getting traffic when
prescaling starts. (That is not what `src/docs/howtos.md` describes, see
*Disagreements*.) It is 0, nothing is claimed, when some stack, this or another, then
counts for what it was prescaled to (`Captured`): the code counts a stack that is
prescaled but does not serve yet among those that do, with the replicas and the
weight of its prescaling, and what it computes may be less than that share. `gained`
remembers when a stack gained traffic and has not lost any since.

### StackResources

`objects` are the resources of every stack, each with the generation annotation
it was written with (`gen`) and what is generated from something else than the
spec of the stack: forwarding (annotation of the stack), weight, an annotation
copied from the StackSet (`note`), and replicas. `changed` is an edit by hand that
leaves the annotations as they are. `New` is what the `Generate...`
functions return, `NeedsUpdate` what each reconcile function compares. Service,
deployment, HPA and ingress are compared by annotations only, routegroups and
credentials also by their spec, so an edit by hand is repaired in the latter and
stays in the former until the next generation.

`Collect` takes everything into `plan`, and switches traffic to the desired stack
if it is ready (`IsReady`, from `updateFromResources`). For every stack, in any
order, the steps of `ReconcileStackResources` follow; those at which there is
nothing to do are passed over (`Proceed`), since what a pass knows does not
change. `CreateObject`, `UpdateObject` and `DeleteObject` are the calls; an update is
refused when the resource has changed since (`touched`). `EndOnError` is what ends
a stack: a resource that cannot be generated or a write that is refused.
`FailWrite` fails with or without effect, `Crash` ends everything, and so does
`Panic`, which `ReconcileStackSet` recovers from at its very end.

ConfigMaps and Secrets are handled alike and are one set, `Configs`: the name must
have that of the stack as a prefix (`Named`), and `ReadConfig` and `AttachConfig`
are the two calls that take one over. `UserWritesConfig` makes, edits and deletes
them at any time.

Between the calls, users edit and delete resources, the autoscaler changes
replicas, pods come and go. Edits of what a pass only reads as it begins happen
between passes, where an edit during the pass has the same effect. All traffic
goes to one stack: StackLifecycle and TrafficSegments have shares. The TTL of
deleted ingresses and routegroups is not modelled, as stacks do not lose them.

### ControllerLoop

There is one name. A StackSet of that name may be deleted and made again, and an
incarnation is its UID: the store is indexed by UIDs, the API server by names.
`events` is what the informer has to tell the main loop, from its own buffer
through the channel; of successive updates of one incarnation only the last is
kept (`Waiting`), since it alone decides what the store has after all of them.
`TakeEvent` is the branch of the loop for events, `Collect` the other one, and the
workers of `Worker` run per StackSet and in any order; the pass is over when all are
done. Several StackSets share nothing else, so a second name would add nothing.

`Interrupt` and `Relist` are a watch that is lost and comes back: the informer lists
and compares names, a StackSet that is gone is told as a tombstone, which `del`
ignores, and one that was made again as an update. `Restart` loses what a process
knows. `CollectGarbage` is the cluster deleting the stack of a StackSet that is gone;
until then its name is taken.

`stray` and `missed` remember two things the code does not guard against: a status
written, after a conflict, to another StackSet of the same name (`retryUpdate` reads
by name), and a deletion that a watch did not see.

### How they fit together

The modules look at one pass from different sides and share its order of calls.
What one abstracts, another has: TrafficSegments takes any weights
(`Splits`), StackLifecycle computes them but takes a stack's two segments as
one share; StackLifecycle lets stacks be created between passes, StackVersions
has the calls; ControllerLoop has what goes on around the passes. StackResources has
the calls for every resource, where StackLifecycle and Prescaling have one for
routing and one or two for scaling. All weights come from TrafficWeights.

## Runs

| run | instance | shows |
|---|---|---|
| `SegmentsThree` | 3 stacks, all with an ingress, two also with a routegroup; thirds; 2 changes, 2 failures | the layout is disjoint, gapless and keeps positions from whatever a failure left; a pass without failures gives every stack its share and ends in sync; sync is kept by every step of later passes; it is reached in the end, contradictory segments included |
| `Calculations` | 4 stacks, all weights up to 7, `Total` 10; 3 names of stacks, 2 commands, 1 change; lists of up to 3 metrics | fair rounding, order kept, stable over passes; the last command is in effect and an undisturbed one keeps proportions; an HPA does not depend on the order of its metrics |
| `Desired` | 2 stacks, weights up to 2, 3 edits, 1 failure | a user's request is kept, and desired traffic settles |
| `Versions` | 2 versions, 3 edits, 2 passes on outdated copies, 2 failures | every version a user settles on gets its stack; an observed version was created; a pass that is not behind only moves it on; `Rollout` is implemented |
| `Life` | 3 stacks, traffic in halves, limit 1, 1 edit, 1 failure, 1 outdated copy | no scale-down under traffic or before its time, traffic only to stacks that were ready, cleanup leaves no fewer scaled-down stacks than the limit; a switch ends as desired, idle stacks end scaled down and no more than the limit |
| `Prescale` | 2 stacks, traffic in halves, up to 3 replicas, 1 edit, 1 failure, 1 change of load or lost pod, timeout of 1 tick | traffic only goes where the pods for it are; the autoscaler keeps them until the timeout; the switch and prescaling end |
| `Resources` | 2 stacks (ingress with hostname; routegroup and credentials), 4 templates, 1 configuration resource both names fit, 1 edit, 1 fault | the autoscaler keeps its say, configuration resources their owner, no deployment without them, traffic to what is up to date; resources converge, also those the spec does not decide, whatever is wrong with the other stack |
| `Loop` | 2 controllers, 2 incarnations, 1 change of owner, 1 failure, restart or interruption | the stores are what the controllers own; an observed version was created for this incarnation; a StackSet ends with its owner only and gets its stack |
| `SegmentsGrowingFirst`, `VersionsRecreated`, `LifeLimit`, `ResourcesProceed` | smallest instances | what a comment or the README says and the code does not do (below) |

### Bounds

Each bound is a constant in the guard of the actions it bounds. Three stacks are the
fewest among which a stack can be between two others, so that a hole or an overlap
in the middle exists. One failure already leaves any subset of the segments written
and any of the two segments of a stack behind; the second lets a pass that begins
from contradictory segments fail again. Thirds, or halves, let segments shrink,
grow, vanish and move. In the weights, `Total` 10 with weights up to 7 gives
fractions that tie, nearly tie and that leave 0 to 3 units to distribute. In
StackVersions three edits allow there, back and a removal. In StackLifecycle a TTL
of one tick separates "not yet" from "expired"; limit 1 with three stacks makes the
choice of whom to delete matter. In Prescaling up to 3 replicas make rounding up and
the maximum of the autoscaler matter (one unit of traffic may need 3/2 pods, and two
more than 3); as the run starts from every settled split, its one edit is any
switch, and a timeout of one tick separates "not yet" from "expired". In the traffic
command three stacks are the fewest with a proportion between two others, and thirds
make weights that are no multiples of one another; two commands overwrite each
other, and the second finds the unequal weights the first has made of equal ones.
Three metrics are the fewest for which an order can fail to be transitive. In
StackResources two stacks can want one configuration resource, and the one fault is
an autoscaler, a user or a failed call between any two steps; the templates are one
without and one with everything and two flawed ones, so that a flaw can appear, hide
and vanish by an edit: one whose autoscaler is refused, and one that ends the pass.
(The remaining flaws refuse another resource in the way the first does.) In
ControllerLoop two incarnations are a name used again; passes start with all events
taken, since a pass on an older copy is what StackVersions is about and since events
come in during the pass. Unbounded edits or failures would only repeat these.

### Fairness

The main loop starts a pass every interval and runs it to its end, so passes
have weak fairness. Events and the timer are chosen by `select`, at random when
both are ready, and events only between passes: strong fairness on taking an
event. In StackLifecycle the clock goes on between passes (strong, since
`pc = "idle"` comes and goes), and pods of a scaled-up deployment become ready
at some time (weak). In Prescaling an autoscaler scales up to its minimum and pods
become ready (weak), and the clock goes on (strong, as before). In StackResources
passes follow one another and pods come up; in ControllerLoop passes begin and end,
events are taken, watches come back (the informer retries) and orphaned stacks are
collected (a part of Kubernetes). There fairness is stated of states that come back
(`[]<>`), which says the same as fairness of the actions in these modules and is
cheaper to check. In ControllerLoop that the channel is emptied again and again
holds because nothing but users and the passes themselves fills it, and `select`
does not prefer the timer. Nothing is assumed of users, failures and crashes; they
are bounded, which is how the liveness properties, all of the form "once
disturbances stop", are stated.

## Conditions under which properties hold

Some properties do not hold without their condition, and the runs show the
condition to suffice:

- `ObservedMovesOn` is about passes that start on the current StackSet and get the
  reply of their own update. A pass on an older copy generates its status from
  that copy, and `retryUpdate` writes it over the newer one after a conflict; the
  observed version goes back. So it does when `UpdateStatus` records the version and
  only its reply is lost: `CreateCurrentStack` returns before it takes over the
  result (`controller/stackset.go:793-798`), and the pass goes on with the version
  from before. Passes before and after may do either.
- `ScaleDownWaits` needs passes that come to their end in time. `noTrafficSince` is
  written last, so a pass that stops before leaves the stamp from before the
  stack had traffic, and the stack may be scaled down as soon as it loses it. No call
  has to fail for that: a pass that deletes a stack and then finds its status changed
  (a pod has come up, say) ends there (`ReconcileStatuses`,
  `controller/stackset.go:717`), with the statuses of other stacks unwritten. The
  order of statuses is that of a Go map. The proof of `ScalesDownAfterTTL` does not go
  through without excluding this (`~cut`), and a search with four stacks, a limit of
  one and two switches finds such a scale-down; the instance of `Life` is too small for
  it.
- `RoutesToReady` needs passes without failures, on the current StackSet, and not cut
  short in that way. Two passes that stop before the status of the StackSet is written
  leave one that still gives a stack traffic it no longer has; the stack is scaled
  down, and switching back to it takes no wait. The fallback of `ManageTraffic`, which
  chooses a stack without asking whether it is ready, needs such a pass too: otherwise
  some stack with traffic is always left (`TrafficGrounded`).
- `StaysInSync` is about splits that give traffic only to stacks with a segment of
  their own (`Routable` in its theorem). With an external ingress other stacks have a
  weight as well, which no segment is there to route.
- `LimitKept` is about StackSets all of whose stacks have their own ingress. It counts
  as the code does, scaled-down stacks only, so one with traffic is left besides as
  many as the limit.
- `SwitchesWithCapacity` claims nothing of a stack whose prescaling starts while some
  stack counts for what it was prescaled to.
- `StoreCoherent` and `EndsWithOwner` need that no deletion was missed. A StackSet
  deleted while the watch was interrupted stays in the store until the process is
  restarted; passes for it go on and fail, or write to a StackSet of the same name.
- `ObservedUnlessStray` and the last part of `EndsWithOwner` need that no status was written to another
  incarnation. One that says "observed" keeps the new StackSet from getting its
  first stack.
- `Converges` of StackResources is about stacks whose own spec is without a flaw, whose
  configuration resources are free or theirs, and beside which no stack makes the
  pass panic.
- `AnyOrder` is about metrics every two of which differ in a field that both give and
  the comparator looks at, and which have no fields their type does not use
  (`IsMetric`). The comparator looks at those, too: of three checks with equal averages,
  two of which have a container, the first can be less than the second, the second
  less than the third and the third less than the first, and the HPA depends on the
  order in which they are listed.
- `ShareInEffect` is about stacks that exist, and stacks that neither come nor go
  between listing and writing.

## Disagreements between code and comments

- `SegmentsGrowingFirst`: the comparator at `core/traffic.go:449-455` falls
  through to the UIDs also when the difference is smaller, so shrinking
  segments may come before growing ones.
- `VersionsRecreated`: a version whose recording met a conflict is not recorded
  later, and its stack is created again after its removal.
- `LifeLimit`: the repository says two things of the limit. In `src/README.md:168-175` it is
  "the total number of stacks to keep", and of two stacks with a limit of one the
  one that loses its traffic "will be deleted"; `v1/types.go:169-171` too
  speaks of "the number of Stacks". In `src/README.md:72-74` it is the "maximum number
  of scaled down stacks to keep". The code does the latter (`core/stackset.go:143`):
  the run shows that those two stacks are kept for good. So `LimitKept` says that a
  cleanup leaves more stacks than the limit, and `SwitchSettles` bounds idle stacks
  only.
- `ResourcesProceed`: `ReconcileStackSet` says it proceeds on errors, but a metric for
  pods without an endpoint is dereferenced before it is checked
  (`core/autoscaler.go:280`), and the panic skips the remaining stacks and all statuses
  in every pass. (The example of such a metric in `src/docs/howtos.md:216-226` has an
  endpoint without a name, which is refused with an error.)

Two more are not shown by a run:

- `src/README.md:168-171` says that only stacks without traffic are cleaned up. A stack
  made before its StackSet had an ingress has none of its own and is a candidate
  whatever traffic it has (`core/stackset.go:137-139`); setting `OwnIngress` to fewer
  stacks than `Stacks` lets TLC delete one with all the traffic.
- `src/docs/howtos.md:384-390` has prescaling before a step of a switch put the share of
  the pods on top of those the stack has: for 25% of 40 pods and a stack of 20, 20 + 10
  = 30. `core/traffic_prescaling.go:59` computes the share alone, 10, and the autoscaler
  keeps its own minimum of 20 (`core/stack_resources.go`, `GenerateHPA`). `need`, hence
  `SwitchesWithCapacity`, is about the share alone.

Not a disagreement, but worth knowing: when the two segments of a stack disagree,
which takes one failed write, computing segments fails, the error is only logged, and
the pass writes the zero limits of its new containers: for that pass nothing is
routed. The next one lays out anew, and `Converges` of TrafficSegments covers it.

## Proofs

Every invariant that a passing run checks, and every action property, is proved for all
values of the constants; only liveness is left to TLC. The assumptions on the
constants are in the modules: finitely many stacks, versions and incarnations; stacks as
natural numbers for the order of names; whole splits; templates with their fields;
bounds as natural numbers. Finite sets and splits that add up to the whole are what the
code has, a list of stacks and weights that `ManageTraffic` has rounded. Each
inductive invariant below was checked as an invariant of the module's run before it was
proved.

`TrafficWeights_proofs`, of the operators that four other modules are built from:

- The sum of a function over a finite set (`MapThenSumSet`) is a recursive function on
  subsets. That it is defined, and that any element can be taken out of it, is shown
  by looking at a smallest subset for which it would not be so (`Minimal`, from the
  well-foundedness of inclusion); `FiniteInduction` packs that argument, with the set of
  subsets for which a statement holds in place of a predicate. From it follow the
  laws of sums (`SumPlus`, `SumTimes`, `SumLeq`, `SumCount`, `SumSupport`).
- `RoundingKeepsWhole`: what the integer parts leave is the sum of the fractions over the
  sum of the weights, so it is less than the number of stacks with a fraction
  (`LeftoverBounds`), and the order of `roundWeights` is a strict order, of which as
  many stacks come first as one likes (`FirstOnes`).
- `RoundingFair` and `ManagedIsFair` say the rest of `FairlyRounded`;
  `RoundingIdempotent` and `ManagedIsKept` that later passes change nothing.
  `RoundingIgnoresUnweighted` lets stacks without traffic come and go.

`TrafficSegments_proofs`:

- `TypeCorrect`. The first theorem the others use.
- `PlanCorrect` proves `PlanInv`, and from it `PlanIsSound`. Disjointness alone is not inductive: a new segment is
  disjoint from the others because it starts at `index`, where all others have
  ended, so the invariant bounds every segment by `index` and says that stacks
  still to be laid out have none. Nothing is assumed of the cluster, which is
  what makes the layout safe after any failure.
- `PositionCorrect` proves `PositionInv`, hence `PositionIsKept`: what is still
  to be laid out does not come before what is, and the next segment starts
  where the others end.
- `WrittenCorrect` proves `WrittenInv`, hence `CleanPassIsExact`: while nothing goes
  wrong, every stack done with holds the segment laid out for it, whose width is
  its weight.
- `InSyncIsKept` proves `StaysInSync`. `WholeInv` says that `index` and the weights still
  to be laid out add up to the whole, `ClusterInv` that all segments are parts of it,
  and `SettledInv` that a pass that finds the cluster in sync lays out what is there:
  the next stack in order has the segment at `index` (`NextIsThere`). The step from
  "disjoint, and the widths add up to the whole" to "no gap" is counting
  (`CountDisjoint`).

`UserRequests_proofs`:

- `TypeCorrect` and `RequestIsKept`, of DesiredTraffic. A copy with the version of
  the StackSet is not outdated (`Known`), and a pass on such a copy has listed the
  stacks of the request (`Present`); so what it writes is the request, rounded, of which
  other stacks are no part (`RoundingIgnoresUnweighted`) and which is rounded no further
  (`RoundingIdempotent`).
- `RoundingStaysFair` and `RoundingIsStable` prove `FairRounding` and `Idempotent` for any
  number of passes: after the first, weights add up to the whole (`WeighingInv`).
- `LastCommandInEffect` proves `ShareInEffect`. Commands do not exclude each other, so
  `SwitcherInv` says what one that is under way may still rely on: its weights are of
  the stacks it listed (`UnderWay`), and as long as nobody else has written they are in
  the proportions of the annotation (`ReadIsCurrent`), so that one that finds
  nothing to write is in effect, too (`EffectOfSame`). Weights are reduced fractions;
  the proofs need only that what they are reduced by divides them (`ReducedDivides`).
- `ProportionsKept` proves `OthersKeepProportions`: normalising and scaling multiply
  the weights of all others alike (`WriteScales`).
- `AnnotationsAreOwn` proves `OwnAnnotations`: two names that are equal are of metrics of
  one type that do not carry their position (`SameName`).
- `OrderDoesNotMatter` proves `AnyOrder`. The sort is a fold, and that a fold is what it
  should be is again shown by looking at a smallest part of the list (`SortUnique`,
  `SortExists`, `Upwards`). The comparator is a strict, total order only among metrics
  whose types all have values (`LessIsBefore`, `BeforeTotal`); among the others it is one
  of types alone. Both survive every insertion (`InOrder`, `InsertInOrder`), since metrics
  that have no value are beside their like. If no metric is refused, all have values and
  there is one sorted list (`OneOrder`). If some are, nothing is converted, and a
  metric that makes the controller panic is the first to be refused in every order
  (`OnePanics`): it would not differ from one of its type without a value.

`StackVersions_proofs`: `TypeCorrect`; `ObservedCorrect` proves `ObservedInv`, which
adds to `ObservedWasCreated` that a version about to be recorded has its stack;
all copies (events, store, container) are part of it, since the status
update may write any of them back. `AskedCorrect` is the invariant that what a pass
creates was asked for, in every copy. `RolloutImplemented` combines the two: `Init`
implies Rollout's, and every action is one of Rollout's or leaves its variables alone.
`ObservedGoesForward` proves `ObservedMovesOn` from `CopyIsCurrent`: the events that wait
lead to the StackSet as it is, so a pass that is not behind has its observed version,
which only the pass itself changes. Losing the reply of its own update is the one way
for a pass to fall behind after it has begun.

`StackLifecycle_proofs`:

- `TypeCorrect`. That shares stay between nothing and the whole is `ManagedIsWhole`.
- `SegmentBeforeDeployment` proves `SegmentFirst`: between the two calls of a stack, its
  segments route what the pass decided. `ScalesDownOnlyUnrouted` follows: a deployment
  is scaled down only if its stack has no actual traffic in the plan.
- `AlwaysMembers` relates the stacks of a pass to those that exist while it deletes
  some of them. `KeepsLimit` adds that the pass planned to leave more than the limit
  (`EnoughLeft`).
- `GainsWhenReady` proves `RoutesToReady`: the status of the StackSet, and during a
  pass the plan, give traffic to some stack, only to stacks that were ready and are
  scaled up, and to none that is removed (`TrafficGrounded`). The plan is made for the
  traffic the status still has at the end of the pass, so not writing it then leaves
  what the pass decided.
- `ScalesDownAfterTTL` proves `ScaleDownWaits`: a stamp in a status, or in the plan once
  the segments are written, is of a stack that routes nothing, and no older than
  its last traffic (`StampsHonest`).

`Prescaling_proofs`:

- `TypeCorrect`, with `Whole` and `Weighed`: the pods of a stack are a share of what all
  count for, and the division needs that not to be nothing.
- `TrafficOnlyWithCapacity` proves `SwitchesWithCapacity`: what a stack is prescaled to is
  enough for its share, in its status and in the plan of the pass (`Enough`); traffic is only given
  when the pods that are ready are no fewer than that, and both are rounded up.
- `PodsHeldUntilTimeout` proves `HeldUntilTimeout`: a stack that gained traffic is held
  by its status, or its status still says less traffic than it is routed, in which case
  the next pass renews its prescaling (`Remembered`, `Renewed`). Failures may repeat
  the latter any number of times.

`StackResources_proofs`:

- `TypeCorrect`, with the type of what the pass has collected (`TypeInv`): the
  objects it writes are generated from that.
- `ConfigsInv` adds that a configuration resource that was read and is not outdated
  has no owner, and that those of the template already behind the pass belong to
  the stack or were replaced by a user. `OwnersKept` follows from the former,
  `DeploymentsWithConfigs` from the latter: the deployment comes after the references
  in `Steps`, and `Proceed` does not pass over references there are (`ProceedNext`).
- `PlanInv` says that what the pass has yet to come to is as collected unless
  touched (`Intact`), that nobody else creates it, and that a stack traffic is
  switched to was found updated (`Switched`). `SwitchesOnlyToUpdated` follows, since
  segments come before deployment and service; `AutoscaledKept` follows, since the
  replicas written are those collected and the write of a touched deployment is
  refused.

`ControllerLoop_proofs`:

- `TypeCorrect`, with `HasContainer`: a worker has a StackSet of its own incarnation.
- `StoresCohere` proves `StoreCoherent`. The store lags behind the informer by the events
  that wait, so the invariant is about those (`InStep`): deletions and additions
  alternate, the last event leads to what the informer has seen, and the store is what
  comes before the first. An update takes the place of the one that waits before it,
  and the store of an incarnation whose deletion was seen is empty when the next is
  added.
- `ObservedIsCreated` proves `ObservedUnlessStray`: nothing that is known anywhere, in the
  cluster, the events, a store or a container, counts as observed unless its stack was
  created (`NothingStrayed`).

Only model-checked are the liveness properties (`Converges` of TrafficSegments and
StackResources, `Settles`, `FirstCreation`, `SwitchSettles`, `SwitchEnds`,
`EndsWithOwner`), since the prover does not do fairness, and the four disagreements
that are shown by counterexamples.

## Not modelled

- A StackSet without ingress and routegroup (no traffic at all) and one with an
  external ingress, in StackLifecycle.
- In Prescaling: stacks without an autoscaler, scaling down, `minReadyPercent`
  below 100, stacks that forward traffic.
- `AddUpdateStackSetIngress` and `AddUpdateStackSetRouteGroup`
  (`controller/stackset.go:831-958`) and what generates their objects
  (`core/stackset.go:169-337`): nothing calls them.
- The delay by which removed ingresses and routegroups are deleted, since stacks of
  StackResources keep theirs; names and selectors of resources.
- Backend ports that differ between ingress, routegroup and external ingress: reading
  the stacks then fails in every pass until the StackSet is edited, deletions and
  scaling included. `PassFails` stands for one such pass.
- `NewStack` writes the forward annotation into the template of the pass's StackSet
  (`core/stackset.go:89-94`). If a call of `CreateCurrentStack` then fails, the pass goes on
  with that StackSet, and `ReconcileStackSetDesiredTraffic`, which updates all of it, can
  write the annotation into the user's template.
- Floating point: sums off by rounding errors, ties such errors break. The models are
  exact.
- More than 20 changed segments or 12 metrics, beyond which the sorting algorithm of
  the library is another one; the order of metrics that all have values does not
  depend on the algorithm (`OneOrder`).
- Metrics with fields their type does not use.
- Traffic switch events, Prometheus metrics, health endpoint, API types, generated
  clients, end-to-end tests, build tools: no state the program reads.

## Plan

Done, in order of importance: segments, weights, versions, desired traffic,
lifecycle, prescaling, resources and references, the main loop, the traffic command,
metrics, and the refinement of Rollout, with the proofs above. Next:

1. An abstract specification of a traffic split (one step changes what one stack
   serves; no request reaches two stacks once it settles), implemented by
   `TrafficSegments`.
2. Prescaling with stacks without an autoscaler; StackLifecycle without any ingress.

## Running

`tlc -config <run>.cfg <module>` with the module `PROJECT.json` names for the
run; `tlapm <module>_proofs.tla` for the proofs. Every run ends within three minutes on two
cores.
