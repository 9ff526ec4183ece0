--------------------------- MODULE StackResources ---------------------------
(***************************************************************************)
(* The resources of the stacks of a StackSet.  A pass collects stacks and  *)
(* resources, decides on the traffic, and goes through the stacks: hostname *)
(* ingress, ingress segment, routegroup, routegroup segment, references to *)
(* ConfigMaps and Secrets, PlatformCredentialsSet, deployment, HPA,        *)
(* service.  The first error ends what it does for that stack.             *)
(*                                                                         *)
(* A resource is updated if the generation it was made for is not that of  *)
(* the stack, and for some kinds if what does not come from the spec of    *)
(* the stack differs.  Users edit stacks and resources and the autoscaler  *)
(* scales deployments at any time; a write on an outdated copy is refused. *)
(*                                                                         *)
(* All traffic goes to one stack, stacks are neither created nor deleted,  *)
(* passes start on an up-to-date StackSet, and a ConfigMap or a Secret is  *)
(* a member of Configs.                                                    *)
(***************************************************************************)
EXTENDS Integers, Sequences

CONSTANTS
    Stacks,         \* the stacks
    HasIngress,     \* those with an ingress
    HasRouteGroup,  \* those with a routegroup
    HasHostname,    \* those with a hostname of their own for either
    HasCredentials, \* those with a PlatformCredentialsSet
    Templates,      \* what the spec of a stack may be
    Initial,        \* the specs the stacks begin with
    Configs,        \* the names of ConfigMaps and Secrets
    Named,          \* <<s, c>> if the name of stack s is a prefix of the name c
    MaxReplicas,    \* the most pods the autoscaler asks for
    MaxEdits,       \* bound: edits of stacks, annotations, traffic, new configs
    MaxFaults       \* bound: failures, and what others do to the resources

Flaws == {"none", "backend", "tokens", "metric", "endpoint", "port"}

ASSUME StacksAssumption ==
    /\ Stacks \subseteq Nat \ {0}
    /\ HasIngress \subseteq Stacks /\ HasRouteGroup \subseteq Stacks
    /\ HasHostname \subseteq Stacks /\ HasCredentials \subseteq Stacks
ASSUME TemplatesAssumption ==
    \A t \in Templates :
        /\ DOMAIN t = {"replicas", "autoscaled", "flaw", "refs"}
        /\ t.replicas \in Nat /\ t.autoscaled \in BOOLEAN
        /\ t.flaw \in Flaws /\ t.refs \subseteq Configs
ASSUME InitialAssumption == Initial \in [Stacks -> Templates]
ASSUME ConfigsAssumption == Configs \subseteq STRING \ {"no copy", "outdated"}
ASSUME BoundsAssumption == MaxReplicas \in Nat /\ MaxEdits \in Nat /\ MaxFaults \in Nat

VARIABLES
    generation,  \* cluster: the generation of each stack
    template,    \* cluster: its spec
    forward,     \* cluster: the stacks with the forward-backend annotation
    note,        \* cluster: an annotation of the StackSet to synchronise, 0 for none
    desired,     \* cluster: the stack all traffic is to go to (spec)
    actual,      \* cluster: the stack it goes to (status)
    expired,     \* cluster: the stacks without traffic for longer than the TTL
    objects,     \* cluster: the resources of each stack
    up,          \* cluster: the stacks whose pods are as their deployment says
    configs,     \* cluster: the owner of each ConfigMap or Secret
    pc,          \* what the pass does next
    todo,        \* the stacks still to come
    current,     \* the stack whose resources are reconciled
    step,        \* the next of Steps for it
    refs,        \* the references it still has to look at
    copy,        \* the ConfigMap or Secret it has read
    plan,        \* what the pass has collected and decided
    touched,     \* what others have changed since of the stacks still to come
    replaced,    \* the configs others have created or deleted since
    edits, faults

stackVars == <<generation, template, forward, note, desired>>
statusVars == <<actual, expired>>
passVars == <<pc, todo, current, step, refs, copy, plan>>
bounds == <<edits, faults>>
vars == <<stackVars, statusVars, objects, up, configs, passVars, touched, replaced, bounds>>

Steps == <<"ingress", "ingressSegment", "routeGroup", "routeGroupSegment", "configs",
           "credentials", "deployment", "hpa", "service">>
Kinds == {"ingress", "ingressSegment", "routeGroup", "routeGroupSegment",
          "credentials", "deployment", "hpa", "service"}

NoStack == -1
Absent == -1      \* a ConfigMap that does not exist
Unowned == 0      \* one without an owner
NoCopy == "no copy"
Outdated == "outdated"
NoObject == [gen |-> 0, forward |-> FALSE, weight |-> 0, note |-> 0, replicas |-> 0,
             changed |-> FALSE]
NoObjects == [s \in Stacks |-> [k \in Kinds |-> NoObject]]
NoTemplate == [replicas |-> 0, autoscaled |-> FALSE, flaw |-> "none", refs |-> {}]
NoPlan == [generation |-> [s \in Stacks |-> 0], template |-> [s \in Stacks |-> NoTemplate],
           forward |-> {}, note |-> 0, desired |-> NoStack, actual |-> NoStack,
           expired |-> {}, objects |-> NoObjects]

\* New stacks, the traffic on one of them.
Init ==
    /\ generation = [s \in Stacks |-> 1]
    /\ template = Initial
    /\ forward = {}
    /\ note = 0
    /\ desired \in Stacks
    /\ actual = desired
    /\ expired = {}
    /\ objects = NoObjects
    /\ up = {}
    /\ configs = [c \in Configs |-> Unowned]
    /\ pc = "idle" /\ todo = {} /\ plan = NoPlan
    /\ current = NoStack /\ step = 0 /\ refs = {} /\ copy = NoCopy
    /\ touched = {} /\ replaced = {}
    /\ edits = 0 /\ faults = 0

-----------------------------------------------------------------------------
(***************************************************************************)
(* What the controller generates for a stack, from what it has collected.  *)
(* The fields of an object a kind does not have are as in NoObject.        *)
(***************************************************************************)
HasTraffic(s) == s \in {plan.desired, plan.actual}
ScaledDown(s) == ~HasTraffic(s) /\ s \in plan.expired
Weight(s) == IF plan.actual = s THEN 1 ELSE 0

ObjectMeta(s) == [NoObject EXCEPT !.gen = plan.generation[s]]
Forwarding(s) == [ObjectMeta(s) EXCEPT !.forward = s \in plan.forward]

\* A segment carries the weight and the synchronised annotation besides.
Segment(s) == [Forwarding(s) EXCEPT !.weight = Weight(s), !.note = plan.note]

Replicas(s) ==
    LET wanted == plan.template[s].replicas
        present == plan.objects[s]["deployment"].replicas
    IN  IF wanted = 0 \/ ScaledDown(s) THEN 0
        ELSE IF present = 0 \/ ~plan.template[s].autoscaled THEN wanted
        ELSE present

GenerateIngress(s) ==
    IF s \in HasIngress \intersect HasHostname THEN Forwarding(s) ELSE NoObject
GenerateIngressSegment(s) == IF s \in HasIngress THEN Segment(s) ELSE NoObject
GenerateRouteGroup(s) ==
    IF s \in HasRouteGroup \intersect HasHostname THEN Forwarding(s) ELSE NoObject
GenerateRouteGroupSegment(s) == IF s \in HasRouteGroup THEN Segment(s) ELSE NoObject
GeneratePlatformCredentialsSet(s) ==
    IF s \in HasCredentials THEN ObjectMeta(s) ELSE NoObject
GenerateDeployment(s) ==
    IF s \in plan.forward
    THEN NoObject
    ELSE [ObjectMeta(s) EXCEPT !.replicas = Replicas(s)]
\* Every autoscaler has a metric for external requests, scaled by the weight of the stack.
GenerateHPA(s) ==
    IF s \in plan.forward \/ ~plan.template[s].autoscaled \/ ScaledDown(s)
    THEN NoObject
    ELSE [ObjectMeta(s) EXCEPT !.weight = Weight(s)]
GenerateService(s) == ObjectMeta(s)

\* The generator that is passed along with each kind of resource.
New(s, k) ==
    CASE k = "ingress" -> GenerateIngress(s)
      [] k = "ingressSegment" -> GenerateIngressSegment(s)
      [] k = "routeGroup" -> GenerateRouteGroup(s)
      [] k = "routeGroupSegment" -> GenerateRouteGroupSegment(s)
      [] k = "credentials" -> GeneratePlatformCredentialsSet(s)
      [] k = "deployment" -> GenerateDeployment(s)
      [] k = "hpa" -> GenerateHPA(s)
      [] k = "service" -> GenerateService(s)

(***************************************************************************)
(* What a flawed template makes fail.                                      *)
(***************************************************************************)
Flawed(s, flaw) == plan.template[s].flaw = flaw

\* An additional backend has the name of the stack.
OverlappingBackend(s, k) == Flawed(s, "backend") /\ k \in {"routeGroup", "routeGroupSegment"}

\* Credentials without tokens.
NoTokens(s, k) == Flawed(s, "tokens") /\ k = "credentials"

\* A metric without its target.
NoTarget(s, k) == Flawed(s, "metric") /\ k = "hpa"

\* getServicePorts: no port is the one of the ingress or routegroup, if there is one.
NoBackendPort(s, k) == Flawed(s, "port") /\ k = "service"

Refused(s, k) ==
    /\ OverlappingBackend(s, k) \/ NoTokens(s, k) \/ NoTarget(s, k) \/ NoBackendPort(s, k)
    /\ New(s, k) # NoObject

\* A metric for pods without an endpoint: read through a nil pointer before it is checked.
Panics(s, k) ==
    k = "hpa" /\ Flawed(s, "endpoint") /\ GenerateHPA(s) # NoObject

IsResourceUpToDate(old, new) == old.gen = new.gen

\* AreAnnotationsUpToDate: what a resource is generated with besides.  (In a routegroup the
\* weight and the forwarding are in its spec, which is compared as well.)
AreAnnotationsUpToDate(old, new) ==
    old.forward = new.forward /\ old.weight = new.weight /\ old.note = new.note

\* What each kind of resource is compared by if it exists.
SameDeployment(old, new) == IsResourceUpToDate(old, new) /\ old.replicas = new.replicas
SameService(old, new) == IsResourceUpToDate(old, new)
SameHPA(old, new) == IsResourceUpToDate(old, new) /\ AreAnnotationsUpToDate(old, new)
SameIngress(old, new) == IsResourceUpToDate(old, new) /\ AreAnnotationsUpToDate(old, new)
SameRouteGroup(old, new) ==
    IsResourceUpToDate(old, new) /\ AreAnnotationsUpToDate(old, new) /\ ~old.changed
SameCredentials(old, new) ==
    IsResourceUpToDate(old, new) /\ AreAnnotationsUpToDate(old, new) /\ ~old.changed

\* Mutant: a resource only depends on the generation of its stack.
OldGeneration(k, old, new) == old.gen # new.gen

NeedsUpdate(k, old, new) ==
    CASE k = "deployment" -> ~SameDeployment(old, new)
      [] k = "service" -> ~SameService(old, new)
      [] k = "hpa" -> ~SameHPA(old, new)
      [] k \in {"ingress", "ingressSegment"} -> ~SameIngress(old, new)
      [] k \in {"routeGroup", "routeGroupSegment"} -> ~SameRouteGroup(old, new)
      [] k = "credentials" -> ~SameCredentials(old, new)

\* updateFromResources: whether a stack that should have a resource has it, of its generation.
UpToDate(s, k) == objects[s][k] # NoObject /\ objects[s][k].gen = generation[s]
Unexpected(s, k) == objects[s][k] = NoObject

ResourcesUpdated(s) ==
    /\ UpToDate(s, "deployment") /\ UpToDate(s, "service")
    /\ IF s \in HasIngress
       THEN /\ UpToDate(s, "ingressSegment")
            /\ UpToDate(s, "ingress") \/ (s \notin HasHostname /\ Unexpected(s, "ingress"))
       ELSE Unexpected(s, "ingress") /\ Unexpected(s, "ingressSegment")
    /\ IF s \in HasRouteGroup
       THEN /\ UpToDate(s, "routeGroupSegment")
            /\ UpToDate(s, "routeGroup") \/ (s \notin HasHostname /\ Unexpected(s, "routeGroup"))
       ELSE Unexpected(s, "routeGroup") /\ Unexpected(s, "routeGroupSegment")
    /\ IF template[s].autoscaled THEN UpToDate(s, "hpa") ELSE Unexpected(s, "hpa")

\* Mutant: pods are all that counts.
IsReadyWithPods(s) == s \in forward \/ s \in up

IsReady(s) ==
    s \in forward \/ (ResourcesUpdated(s) /\ s \in up /\ objects[s]["deployment"].replicas > 0)

-----------------------------------------------------------------------------
(***************************************************************************)
(* The pass.                                                               *)
(***************************************************************************)
\* All stacks and resources are listed, and traffic goes to the desired stack if it is ready.
Collect ==
    /\ pc = "idle"
    /\ pc' = "next"
    /\ todo' = Stacks
    /\ plan' = [generation |-> generation, template |-> template, forward |-> forward,
                note |-> note, desired |-> desired,
                actual |-> IF IsReady(desired) THEN desired ELSE actual,
                expired |-> expired, objects |-> objects]
    /\ touched' = {}
    /\ replaced' = {}
    /\ UNCHANGED <<stackVars, statusVars, objects, up, configs, current, step, refs, copy,
                   bounds>>

At(k) == pc = "stack" /\ Steps[step] = k

\* Nothing else than the resources of the current stack changes.
PassStep == UNCHANGED <<stackVars, statusVars, todo, plan, touched, replaced>>

Existing(s, k) == plan.objects[s][k]

\* What a pass does about a resource.
Creates(s, k) == Existing(s, k) = NoObject /\ New(s, k) # NoObject
Updates(s, k) ==
    /\ Existing(s, k) # NoObject /\ New(s, k) # NoObject
    /\ NeedsUpdate(k, Existing(s, k), New(s, k))
Deletes(s, k) == Existing(s, k) # NoObject /\ New(s, k) = NoObject

(***************************************************************************)
(* The steps at which there is something to do for a stack.  The others    *)
(* only look at what has been collected and are passed over.               *)
(***************************************************************************)
Busy(s, k) ==
    IF k = "configs"
    THEN plan.template[s].refs # {}
    ELSE Refused(s, k) \/ Panics(s, k) \/ Creates(s, k) \/ Updates(s, k) \/ Deletes(s, k)

\* Mutant: the next stack goes on where this one has ended.
EndStackInPlace ==
    pc' = "next" /\ current' = NoStack /\ refs' = {} /\ copy' = NoCopy /\ UNCHANGED step

EndStack == pc' = "next" /\ current' = NoStack /\ step' = 0 /\ refs' = {} /\ copy' = NoCopy

\* On to the next step there is for s after step i.
Proceed(s, i) ==
    LET left == {n \in i + 1..Len(Steps) : Busy(s, Steps[n])}
    IN  IF left = {}
        THEN EndStack
        ELSE /\ step' = CHOOSE n \in left : \A m \in left : n <= m
             /\ pc' = "stack" /\ current' = s /\ refs' = plan.template[s].refs /\ copy' = NoCopy

\* The next stack, in any order.
StartStack(s) ==
    /\ pc = "next"
    /\ s \in todo
    /\ todo' = todo \ {s}
    /\ Proceed(s, 0)
    /\ UNCHANGED <<stackVars, statusVars, objects, up, configs, plan, touched, replaced, bounds>>

Advance == Proceed(current, step)

\* The pods of a deployment that is changed are not as it says until they are again.
Write(k, new) ==
    /\ objects' = [objects EXCEPT ![current][k] = new]
    /\ IF k # "deployment" THEN up' = up
       ELSE IF new.replicas # objects[current][k].replicas THEN up' = up \ {current}
       ELSE up' \in {up, up \ {current}}

CreateObject(k) ==
    /\ At(k) /\ ~Refused(current, k) /\ ~Panics(current, k)
    /\ Creates(current, k)
    /\ Write(k, New(current, k))
    /\ Advance
    /\ PassStep /\ UNCHANGED <<configs, bounds>>

\* Mutant: whatever the resource is by now is overwritten.
UpdatableAlways(k) == objects[current][k] # NoObject

\* The version collected is still the current one.
Updatable(k) == <<current, k>> \notin touched

UpdateObject(k) ==
    /\ At(k) /\ ~Refused(current, k) /\ ~Panics(current, k)
    /\ Updates(current, k)
    /\ Updatable(k)
    /\ Write(k, New(current, k))
    /\ Advance
    /\ PassStep /\ UNCHANGED <<configs, bounds>>

DeleteObject(k) ==
    /\ At(k) /\ ~Refused(current, k) /\ ~Panics(current, k)
    /\ Deletes(current, k)
    /\ objects[current][k] # NoObject
    /\ Write(k, NoObject)
    /\ Advance
    /\ PassStep /\ UNCHANGED <<configs, bounds>>

\* A resource cannot be generated, or its write is refused: the rest is left alone.
EndOnError(k) ==
    /\ At(k)
    /\ \/ Refused(current, k)
       \/ Updates(current, k) /\ ~Panics(current, k) /\ ~Updatable(k)
       \/ Deletes(current, k) /\ objects[current][k] = NoObject
    /\ EndStack
    /\ PassStep /\ UNCHANGED <<objects, up, configs, bounds>>

EndPass ==
    /\ pc' = "idle" /\ todo' = {} /\ plan' = NoPlan
    /\ current' = NoStack /\ step' = 0 /\ refs' = {} /\ copy' = NoCopy
    /\ touched' = {} /\ replaced' = {}

\* The panic is recovered from where the pass began: it is over for all stacks.
Panic ==
    /\ At("hpa") /\ Panics(current, "hpa")
    /\ EndPass
    /\ UNCHANGED <<stackVars, statusVars, objects, up, configs, bounds>>

(***************************************************************************)
(* ReconcileStackConfigMapRefs, ReconcileStackSecretRefs: each reference   *)
(* is read, checked for an owner, and written with the stack as its owner. *)
(***************************************************************************)
\* Mutant: a ConfigMap that has an owner is taken over.
AvailableAnyway(c) == configs[c] # Absent

Available(c) == configs[c] = Unowned

ReadConfig(c) ==
    /\ At("configs") /\ copy = NoCopy
    /\ c \in refs
    /\ IF <<current, c>> \in Named /\ configs[c] = current
       THEN refs' = refs \ {c} /\ UNCHANGED <<pc, current, step, copy>>
       ELSE IF <<current, c>> \in Named /\ Available(c)
       THEN copy' = c /\ UNCHANGED <<pc, current, step, refs>>
       ELSE EndStack
    /\ PassStep /\ UNCHANGED <<objects, up, configs, bounds>>

AttachConfig ==
    /\ At("configs") /\ copy # NoCopy
    /\ IF copy = Outdated
       THEN EndStack /\ UNCHANGED configs
       ELSE /\ configs' = [configs EXCEPT ![copy] = current]
            /\ refs' = refs \ {copy}
            /\ copy' = NoCopy
            /\ UNCHANGED <<pc, current, step>>
    /\ PassStep /\ UNCHANGED <<objects, up, bounds>>

\* Mutant: what cannot be attached does not keep the deployment from being written.
ConfigsTried == copy = NoCopy

ConfigsDone == refs = {} /\ copy = NoCopy

EndConfigs ==
    /\ At("configs") /\ ConfigsDone
    /\ Advance
    /\ PassStep /\ UNCHANGED <<objects, up, configs, bounds>>

\* The statuses: the traffic that is routed, and which stacks are without.
WriteStatus ==
    /\ pc = "next" /\ todo = {}
    /\ actual' = plan.actual
    /\ expired' = expired \ {plan.desired, plan.actual}
    /\ EndPass
    /\ UNCHANGED <<stackVars, objects, up, configs, bounds>>

Fault == faults < MaxFaults /\ faults' = faults + 1 /\ edits' = edits

\* A call fails, with or without its effect, and ends what is done for the stack ...
FailWrite(k) ==
    /\ At(k)
    /\ Fault
    /\ \/ UNCHANGED <<objects, up>>
       \/ /\ ~Refused(current, k) /\ ~Panics(current, k)
          /\ \/ Creates(current, k)
             \/ Updates(current, k) /\ Updatable(k)
             \/ Deletes(current, k) /\ objects[current][k] # NoObject
          /\ Write(k, New(current, k))
    /\ EndStack
    /\ PassStep /\ UNCHANGED configs

FailConfig ==
    /\ At("configs")
    /\ Fault
    /\ \/ UNCHANGED configs
       \/ copy \notin {NoCopy, Outdated} /\ configs' = [configs EXCEPT ![copy] = current]
    /\ EndStack
    /\ PassStep /\ UNCHANGED <<objects, up>>

\* ... or the process stops.
Crash ==
    /\ pc # "idle"
    /\ Fault
    /\ EndPass
    /\ UNCHANGED <<stackVars, statusVars, objects, up, configs>>

-----------------------------------------------------------------------------
(***************************************************************************)
(* What others do meanwhile.                                               *)
(***************************************************************************)
\* What users say of stacks and the StackSet is read as a pass begins, and by nothing
\* else: an edit during a pass is the same as one after it.
Edit == edits < MaxEdits /\ edits' = edits + 1 /\ faults' = faults
EditBetweenPasses == pc = "idle" /\ Edit

UserEditsStack(s) ==
    /\ EditBetweenPasses
    /\ \E t \in Templates \ {template[s]} : template' = [template EXCEPT ![s] = t]
    /\ generation' = [generation EXCEPT ![s] = generation[s] + 1]
    /\ UNCHANGED <<forward, note, desired, statusVars, objects, up, configs, passVars,
                   touched, replaced>>

\* An annotation is no part of the generation of the stack, nor is what the StackSet says.
UserTogglesForwarding(s) ==
    /\ EditBetweenPasses
    /\ forward' = IF s \in forward THEN forward \ {s} ELSE forward \union {s}
    /\ UNCHANGED <<generation, template, note, desired, statusVars, objects, up, configs,
                   passVars, touched, replaced>>

UserAnnotatesStackSet ==
    /\ EditBetweenPasses
    /\ note' = 1 - note
    /\ UNCHANGED <<generation, template, forward, desired, statusVars, objects, up, configs,
                   passVars, touched, replaced>>

UserSwitchesTraffic(s) ==
    /\ EditBetweenPasses
    /\ s # desired
    /\ desired' = s
    /\ UNCHANGED <<generation, template, forward, note, statusVars, objects, up, configs,
                   passVars, touched, replaced>>

\* A ConfigMap is created, edited or deleted.
UserWritesConfig(c) ==
    /\ \/ Edit /\ configs[c] = Absent /\ configs' = [configs EXCEPT ![c] = Unowned]
       \/ Fault /\ configs[c] # Absent /\ configs' \in {configs, [configs EXCEPT ![c] = Absent]}
    /\ copy' = IF copy = c THEN Outdated ELSE copy
    /\ replaced' = IF pc = "idle" THEN {} ELSE replaced \union {c}
    /\ UNCHANGED <<stackVars, statusVars, objects, up, pc, todo, current, step, refs, plan,
                   touched>>

\* It matters if the stack is still to come or to be completed.
Touch(s, k) ==
    touched' = IF s \in todo \union {current} THEN touched \union {<<s, k>>} ELSE touched

\* A resource is changed or deleted by hand.
UserWritesObject(s, k) ==
    /\ Fault
    /\ objects[s][k] # NoObject
    /\ \/ objects' = [objects EXCEPT ![s][k].changed = TRUE]
       \/ objects' = [objects EXCEPT ![s][k] = NoObject]
    /\ up' = IF k = "deployment" THEN up \ {s} ELSE up
    /\ Touch(s, k)
    /\ UNCHANGED <<stackVars, statusVars, configs, passVars, replaced>>

Autoscale(s) ==
    /\ Fault
    /\ objects[s]["hpa"] # NoObject /\ objects[s]["deployment"].replicas > 0
    /\ \E n \in 1..MaxReplicas \ {objects[s]["deployment"].replicas} :
         objects' = [objects EXCEPT ![s]["deployment"].replicas = n]
    /\ up' = up \ {s}
    /\ Touch(s, "deployment")
    /\ UNCHANGED <<stackVars, statusVars, configs, passVars, replaced>>

\* The pods of a deployment change, and with them its status.
PodsReady(s) ==
    /\ s \notin up /\ objects[s]["deployment"].replicas > 0
    /\ up' = up \union {s}
    /\ Touch(s, "deployment")
    /\ UNCHANGED <<stackVars, statusVars, objects, configs, passVars, replaced, bounds>>

PodsFail(s) ==
    /\ Fault
    /\ s \in up
    /\ up' = up \ {s}
    /\ Touch(s, "deployment")
    /\ UNCHANGED <<stackVars, statusVars, objects, configs, passVars, replaced>>

\* Time passes.
Expire(s) ==
    /\ pc = "idle"
    /\ s \notin expired \union {desired, actual}
    /\ expired' = expired \union {s}
    /\ UNCHANGED <<stackVars, actual, objects, up, configs, passVars, touched, replaced, bounds>>

Pass ==
    \/ Collect \/ AttachConfig \/ EndConfigs \/ Panic \/ WriteStatus
    \/ \E s \in Stacks : StartStack(s)
    \/ \E c \in Configs : ReadConfig(c)
    \/ \E k \in Kinds :
         CreateObject(k) \/ UpdateObject(k) \/ DeleteObject(k) \/ EndOnError(k)

Failure == Crash \/ FailConfig \/ \E k \in Kinds : FailWrite(k)

Environment ==
    \/ UserAnnotatesStackSet
    \/ \E c \in Configs : UserWritesConfig(c)
    \/ \E s \in Stacks :
         \/ UserEditsStack(s) \/ UserTogglesForwarding(s) \/ UserSwitchesTraffic(s)
         \/ Autoscale(s) \/ PodsReady(s) \/ PodsFail(s) \/ Expire(s)
         \/ \E k \in Kinds : UserWritesObject(s, k)

Next == Pass \/ Failure \/ Environment

ResourcesSpec == Init /\ [][Next]_vars

(***************************************************************************)
(* Passes follow one another, and pods of a deployment come up.  (That a   *)
(* pass ends is weak fairness of its steps: only a bounded number of other *)
(* steps can come in between.)                                             *)
(***************************************************************************)
FairSpec ==
    /\ ResourcesSpec
    /\ []<>(pc = "idle") /\ []<>(pc # "idle")
    /\ \A s \in Stacks : WF_vars(PodsReady(s))

-----------------------------------------------------------------------------
(***************************************************************************)
(* Properties.                                                             *)
(***************************************************************************)
Objects == [gen : Nat, forward : BOOLEAN, weight : {0, 1}, note : {0, 1}, replicas : Nat,
            changed : BOOLEAN]

\* Type invariant.
TypeOK ==
    /\ generation \in [Stacks -> Nat \ {0}]
    /\ template \in [Stacks -> Templates]
    /\ forward \subseteq Stacks /\ expired \subseteq Stacks /\ up \subseteq Stacks
    /\ note \in {0, 1}
    /\ desired \in Stacks /\ actual \in Stacks
    /\ objects \in [Stacks -> [Kinds -> Objects]]
    /\ configs \in [Configs -> Stacks \union {Absent, Unowned}]
    /\ pc \in {"idle", "next", "stack"}
    /\ todo \subseteq Stacks
    /\ IF pc = "stack" THEN current \in Stacks /\ step \in 1..Len(Steps)
                       ELSE current = NoStack /\ step = 0
    /\ refs \subseteq Configs
    /\ copy \in Configs \union {NoCopy, Outdated}
    /\ touched \subseteq Stacks \X Kinds /\ replaced \subseteq Configs
    /\ edits \in 0..MaxEdits /\ faults \in 0..MaxFaults

(***************************************************************************)
(* The number of pods belongs to the autoscaler: the controller scales the *)
(* deployment of an autoscaled stack from and to none, and otherwise keeps *)
(* what is there, however late its write comes.                            *)
(***************************************************************************)
KeepsAutoscaled ==
    [][\A s \in Stacks :
          LET before == objects[s]["deployment"].replicas
              after == objects'[s]["deployment"].replicas
          IN  pc = "stack" /\ faults' = faults /\ plan.template[s].autoscaled
                 /\ before > 0 /\ after > 0 => after = before]_vars

(***************************************************************************)
(* A ConfigMap that belongs to a stack is never taken over by another one, *)
(* also if the name of the one is a prefix of the name of the other.       *)
(***************************************************************************)
OwnerKept ==
    [][\A c \in Configs : configs[c] \in Stacks => configs'[c] \in {configs[c], Absent}]_vars

(***************************************************************************)
(* A deployment is only written for a generation when all configuration    *)
(* resources of that generation belong to the stack, or did until a user   *)
(* replaced one.                                                           *)
(***************************************************************************)
DeployedWithConfigs ==
    [][\A s \in Stacks :
          objects'[s]["deployment"].gen > objects[s]["deployment"].gen =>
             \A c \in plan.template[s].refs : configs[c] = s \/ c \in replaced]_vars

(***************************************************************************)
(* A stack that is newly routed traffic has a deployment with pods, and a  *)
(* service, for the generation the pass has found, unless others have      *)
(* changed them since or the traffic is forwarded to another cluster.      *)
(***************************************************************************)
SwitchesToUpdated ==
    [][\A s \in Stacks, k \in {"ingressSegment", "routeGroupSegment"} :
          objects'[s][k].weight > objects[s][k].weight =>
             \/ actual = s
             \/ s \in plan.forward
             \/ \A r \in {"deployment", "service"} :
                  \/ <<s, r>> \in touched
                  \/ /\ objects[s][r].gen = plan.generation[s]
                     /\ r = "deployment" => objects[s][r].replicas > 0]_vars

(***************************************************************************)
(* "Reconcile stack resources. Proceed on errors.": a pass gets to the     *)
(* statuses after it has been through all stacks.                          *)
(***************************************************************************)
ProceedsOnErrors ==
    [][pc # "idle" /\ pc' = "idle" /\ faults' = faults => pc = "next" /\ todo = {}]_vars

(***************************************************************************)
(* Once edits and faults stop, the resources of a stack without a flaw and *)
(* with its configuration resources are those of its last generation, also *)
(* in what does not come from its spec, whatever is wrong with others      *)
(* (unless it ends every pass).                                            *)
(***************************************************************************)
Reconcilable(s) ==
    /\ template[s].flaw = "none"
    /\ \A t \in Stacks : template[t].flaw # "endpoint"
    /\ \A c \in template[s].refs : <<s, c>> \in Named /\ configs[c] \in {Unowned, s}

Current(s, k) == objects[s][k].gen = generation[s]
Gone(s, k) == objects[s][k] = NoObject
Down(s) == s \in expired \ {desired, actual}

RoutesSynced(s) ==
    /\ \A k \in {"ingress", "routeGroup", "ingressSegment", "routeGroupSegment"} :
         objects[s][k] # NoObject => Current(s, k) /\ objects[s][k].forward = (s \in forward)
    /\ \A k \in {"ingressSegment", "routeGroupSegment"} :
         objects[s][k] # NoObject =>
            /\ objects[s][k].weight = (IF actual = s THEN 1 ELSE 0)
            /\ objects[s][k].note = note
    /\ s \in HasIngress => ~Gone(s, "ingressSegment")
    /\ s \in HasRouteGroup => ~Gone(s, "routeGroupSegment")
    /\ \A k \in {"routeGroup", "routeGroupSegment", "credentials"} : ~objects[s][k].changed

PodsSynced(s) ==
    /\ Current(s, "service")
    /\ IF s \in forward
       THEN Gone(s, "deployment") /\ Gone(s, "hpa")
       ELSE /\ Current(s, "deployment")
            /\ (objects[s]["deployment"].replicas > 0) = (template[s].replicas > 0 /\ ~Down(s))
            /\ IF template[s].autoscaled /\ ~Down(s)
               THEN Current(s, "hpa") /\ objects[s]["hpa"].weight = (IF actual = s THEN 1 ELSE 0)
               ELSE Gone(s, "hpa")

Synced(s) ==
    /\ RoutesSynced(s) /\ PodsSynced(s)
    /\ desired = s /\ template[s].replicas > 0 => actual = s

Converges == \A s \in Stacks : <>[](Reconcilable(s) => Synced(s))
=============================================================================
