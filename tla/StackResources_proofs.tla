----------------------- MODULE StackResources_proofs -----------------------
(***************************************************************************)
(* Proofs about StackResources, for any stacks, templates, configuration   *)
(* resources and bounds: the types, that a configuration resource keeps    *)
(* its owner, that no generation is deployed without its own, that traffic *)
(* is only switched to what was found updated, and that the number of pods *)
(* is left to the autoscaler.                                              *)
(***************************************************************************)
EXTENDS StackResources, TLAPS

Plans == [generation : [Stacks -> Nat], template : [Stacks -> Templates \union {NoTemplate}],
          forward : SUBSET Stacks, note : {0, 1}, desired : Stacks \union {NoStack},
          actual : Stacks \union {NoStack}, expired : SUBSET Stacks,
          objects : [Stacks -> [Kinds -> Objects]]]

\* TypeOK with the type of what the pass has collected, from which it generates the objects;
\* by then it has decided where the traffic goes.
TypeInv == TypeOK /\ plan \in Plans /\ (pc # "idle" => plan.actual \in Stacks)

\* The steps for a stack: configs is the fifth, the deployment comes after it.
LEMMA StepsAre ==
    /\ Len(Steps) = 9
    /\ \A n \in 1..9 : /\ Steps[n] \in Kinds \union {"configs"}
                       /\ Steps[n] = "configs" <=> n = 5
                       /\ Steps[n] = "deployment" => n > 5
BY DEF Steps, Kinds

\* Of some of the steps one is the first.
LEMMA LeastStep ==
    ASSUME NEW S, S \subseteq 1..9, S # {}
    PROVE  \E n \in S : \A m \in S : n <= m
<1>1. CASE S \intersect 1..3 # {}
  <2>1. CASE 1 \in S BY <2>1
  <2>2. CASE 1 \notin S /\ 2 \in S BY <2>2
  <2>3. CASE 1 \notin S /\ 2 \notin S BY <1>1, <2>3
  <2> QED BY <2>1, <2>2, <2>3
<1>2. CASE S \intersect 1..3 = {} /\ S \intersect 4..6 # {}
  <2>0. \A m \in S : m >= 4 BY <1>2
  <2>1. CASE 4 \in S BY <2>0, <2>1
  <2>2. CASE 4 \notin S /\ 5 \in S BY <2>0, <2>2
  <2>3. CASE 4 \notin S /\ 5 \notin S BY <1>2, <2>0, <2>3
  <2> QED BY <2>1, <2>2, <2>3
<1>3. CASE S \intersect 1..6 = {}
  <2>0. \A m \in S : m >= 7 BY <1>3
  <2>1. CASE 7 \in S BY <2>0, <2>1
  <2>2. CASE 7 \notin S /\ 8 \in S BY <2>0, <2>2
  <2>3. CASE 7 \notin S /\ 8 \notin S
    <3>1. \A m \in S : m = 9 BY <2>0, <2>3
    <3>2. PICK n \in S : TRUE
      OBVIOUS
    <3> QED BY <3>1, <3>2
  <2> QED BY <2>1, <2>2, <2>3
<1>4. S \intersect 1..6 # {} => S \intersect 1..3 # {} \/ S \intersect 4..6 # {}
  OBVIOUS
<1> QED BY <1>1, <1>2, <1>3, <1>4

\* No object has the fields of an object.
LEMMA NoObjectType == NoObject \in Objects
BY DEF NoObject, Objects

\* An object stays one when its forward annotation changes.
LEMMA ForwardType ==
    ASSUME NEW o \in Objects, NEW b \in BOOLEAN
    PROVE  [o EXCEPT !.forward = b] \in Objects
BY DEF Objects

\* A resource that is changed is still one.
LEMMA ChangedType ==
    ASSUME NEW o \in Objects, NEW n \in Nat
    PROVE  [o EXCEPT !.changed = TRUE] \in Objects /\ [o EXCEPT !.replicas = n] \in Objects
BY DEF Objects

\* One resource of one stack is replaced.
LEMMA ReplacedType ==
    ASSUME NEW all \in [Stacks -> [Kinds -> Objects]], NEW s \in Stacks, NEW k \in Kinds,
           NEW o \in Objects
    PROVE  [all EXCEPT ![s][k] = o] \in [Stacks -> [Kinds -> Objects]]
<1>1. [all[s] EXCEPT ![k] = o] \in [Kinds -> Objects]
  OBVIOUS
<1>2. [all EXCEPT ![s] = [all[s] EXCEPT ![k] = o]] \in [Stacks -> [Kinds -> Objects]]
  BY <1>1
<1> QED BY <1>2

\* A pass that has collected nothing has the fields of a plan.
LEMMA NoPlanType == NoPlan \in Plans
<1>1. NoObjects \in [Stacks -> [Kinds -> Objects]]
  BY NoObjectType DEF NoObjects
<1> QED BY <1>1 DEF NoPlan, Plans

\* A template has its fields, also when nothing has been collected.
LEMMA TemplateType ==
    ASSUME NEW t \in Templates \union {NoTemplate}
    PROVE  t.replicas \in Nat /\ t.refs \subseteq Configs
<1>1. CASE t \in Templates
  BY <1>1, TemplatesAssumption
<1>2. CASE t = NoTemplate
  BY <1>2 DEF NoTemplate
<1> QED BY <1>1, <1>2

\* What is generated for a stack are objects.
LEMMA NewType ==
    ASSUME TypeInv, NEW s \in Stacks, NEW k \in Kinds
    PROVE  New(s, k) \in Objects
<1>1. plan.generation[s] \in Nat
  BY DEF TypeInv, Plans
<1>2. ObjectMeta(s) \in Objects
  BY <1>1, NoObjectType DEF ObjectMeta, Objects
<1>3. Forwarding(s) \in Objects
  <2>1. (s \in plan.forward) \in BOOLEAN
    OBVIOUS
  <2>2. [ObjectMeta(s) EXCEPT !.forward = s \in plan.forward] \in Objects
    BY <1>2, <2>1, ForwardType
  <2> QED BY <2>2 DEF Forwarding
<1>4. Weight(s) \in {0, 1} /\ plan.note \in {0, 1}
  BY DEF Weight, TypeInv, Plans
<1>5. Segment(s) \in Objects
  BY <1>3, <1>4 DEF Segment, Objects
<1>6. Replicas(s) \in Nat
  <2>1. plan.template[s].replicas \in Nat
    BY TemplateType DEF TypeInv, Plans
  <2>2. plan.objects[s]["deployment"].replicas \in Nat
    <3>1. "deployment" \in Kinds
      BY DEF Kinds
    <3>2. plan.objects[s]["deployment"] \in Objects
      BY <3>1 DEF TypeInv, Plans
    <3> QED BY <3>2 DEF Objects
  <2> QED BY <2>1, <2>2 DEF Replicas
<1>7. GenerateDeployment(s) \in Objects
  BY <1>2, <1>6, NoObjectType DEF GenerateDeployment, Objects
<1>8. GenerateHPA(s) \in Objects
  BY <1>2, <1>4, NoObjectType DEF GenerateHPA, Objects
<1>9. /\ GenerateIngress(s) \in Objects /\ GenerateIngressSegment(s) \in Objects
      /\ GenerateRouteGroup(s) \in Objects /\ GenerateRouteGroupSegment(s) \in Objects
      /\ GeneratePlatformCredentialsSet(s) \in Objects /\ GenerateService(s) \in Objects
  BY <1>2, <1>3, <1>5, NoObjectType
  DEF GenerateIngress, GenerateIngressSegment, GenerateRouteGroup, GenerateRouteGroupSegment,
      GeneratePlatformCredentialsSet, GenerateService
<1> QED BY <1>7, <1>8, <1>9 DEF New, Kinds

(***************************************************************************)
(* Going on to the next step: it is a later one, and it does not pass over *)
(* references there are.                                                   *)
(***************************************************************************)
LEMMA ProceedNext ==
    ASSUME TypeInv, NEW s \in Stacks, NEW i \in 0..9, Proceed(s, i)
    PROVE  /\ copy' = NoCopy /\ refs' \subseteq Configs
           /\ \/ pc' = "next" /\ current' = NoStack /\ step' = 0
              \/ /\ pc' = "stack" /\ current' = s /\ step' \in (i + 1)..9
                 /\ refs' = plan.template[s].refs
                 /\ i < 5 => step' <= 5 \/ refs' = {}
<1> DEFINE left == {n \in i + 1..Len(Steps) : Busy(s, Steps[n])}
<1>1. plan.template[s].refs \subseteq Configs
  BY TemplateType DEF TypeInv, Plans
<1>2. CASE left = {}
  BY <1>2 DEF Proceed, EndStack
<1>3. CASE left # {}
  <2> DEFINE first == CHOOSE n \in left : \A m \in left : n <= m
  <2>1. left \subseteq 1..9
    BY StepsAre
  <2>2. \E n \in left : \A m \in left : n <= m
    <3> HIDE DEF left
    <3> QED BY <1>3, <2>1, LeastStep
  <2>3. first \in left /\ \A m \in left : first <= m
    <3> HIDE DEF left
    <3> QED BY <2>2
  <2>4. /\ pc' = "stack" /\ current' = s /\ step' = first
        /\ refs' = plan.template[s].refs /\ copy' = NoCopy
    BY <1>3 DEF Proceed
  <2>5. i < 5 /\ plan.template[s].refs # {} => 5 \in left
    BY StepsAre DEF Busy
  <2>6. first \in (i + 1)..9
    BY <2>3, StepsAre
  <2>7. i < 5 => first <= 5 \/ plan.template[s].refs = {}
    <3> HIDE DEF left
    <3> QED BY <2>3, <2>5
  <2> HIDE DEF first
  <2> QED BY <1>1, <2>4, <2>6, <2>7
<1> QED BY <1>2, <1>3

\* What concerns the progress of the pass in the types.
ProgressType ==
    /\ pc \in {"idle", "next", "stack"}
    /\ IF pc = "stack" THEN current \in Stacks /\ step \in 1..9 ELSE current = NoStack /\ step = 0
    /\ refs \subseteq Configs
    /\ copy \in Configs \union {NoCopy, Outdated}

\* The types but for those of the progress, the resources and the configuration resources.
RestType ==
    /\ generation \in [Stacks -> Nat \ {0}] /\ template \in [Stacks -> Templates]
    /\ forward \subseteq Stacks /\ expired \subseteq Stacks
    /\ note \in {0, 1} /\ desired \in Stacks /\ actual \in Stacks
    /\ todo \subseteq Stacks /\ plan \in Plans
    /\ touched \subseteq Stacks \X Kinds /\ replaced \subseteq Configs
    /\ edits \in 0..MaxEdits /\ faults \in 0..MaxFaults
    /\ pc # "idle" => plan.actual \in Stacks

ObjectsType == objects \in [Stacks -> [Kinds -> Objects]] /\ up \subseteq Stacks
ConfigsType == configs \in [Configs -> Stacks \union {Absent, Unowned}]

\* The types, by what the steps of a pass change together.
LEMMA TypeParts == TypeInv <=> ProgressType /\ RestType /\ ObjectsType /\ ConfigsType
BY StepsAre DEF TypeInv, TypeOK, ProgressType, RestType, ObjectsType, ConfigsType

\* The same after a step.
LEMMA TypePartsNext == TypeInv' <=> ProgressType' /\ RestType' /\ ObjectsType' /\ ConfigsType'
BY StepsAre DEF TypeInv, TypeOK, ProgressType, RestType, ObjectsType, ConfigsType

\* The progress of a pass keeps its type as it goes on ...
LEMMA ProceedType ==
    ASSUME TypeInv, NEW s \in Stacks, NEW i \in 0..9, Proceed(s, i)
    PROVE  ProgressType'
<1>1. PICK n : n = i + 1 /\ n \in 1..10
  OBVIOUS
<1>2. n..9 \subseteq 1..9
  BY <1>1
<1> QED BY ProceedNext, <1>1, <1>2 DEF ProgressType

\* ... or ends.
LEMMA EndType ==
    ASSUME EndStack \/ EndPass
    PROVE  ProgressType'
BY DEF EndStack, EndPass, ProgressType

\* What is written to a resource is an object.
LEMMA WriteType ==
    ASSUME TypeInv, pc = "stack", NEW k \in Kinds, NEW new \in Objects, Write(k, new)
    PROVE  ObjectsType'
<1>1. current \in Stacks /\ ObjectsType
  BY TypeParts DEF ProgressType
<1>2. objects' \in [Stacks -> [Kinds -> Objects]]
  BY <1>1 DEF Write, ObjectsType
<1>3. up' \subseteq Stacks
  BY <1>1 DEF Write, ObjectsType
<1> QED BY <1>2, <1>3 DEF ObjectsType

\* A step about the resources of a stack leaves the rest alone but for the bounds.
LEMMA PassStepType ==
    ASSUME TypeInv, pc = "stack", PassStep, UNCHANGED bounds \/ Fault
    PROVE  RestType'
BY TypeParts, BoundsAssumption
DEF RestType, PassStep, stackVars, statusVars, bounds, Fault

\* A failed call, or none.
LEMMA ObjectsKept ==
    ASSUME TypeInv, UNCHANGED <<objects, up>>
    PROVE  ObjectsType'
BY TypeParts DEF ObjectsType

\* The types of the configs, when they stay as they are.
LEMMA ConfigsKept ==
    ASSUME TypeInv, UNCHANGED configs
    PROVE  ConfigsType'
BY TypeParts DEF ConfigsType

(***************************************************************************)
(* The types are kept by every step of a pass ...                          *)
(***************************************************************************)
LEMMA PassType ==
    ASSUME TypeInv, Pass
    PROVE  TypeInv'
<1> USE TypeParts
<1>0. pc = "stack" => current \in Stacks /\ step \in 1..9 /\ step \in 0..9
  BY DEF ProgressType
<1>1. CASE Collect
  <2>1. plan' \in Plans
    <3>1. \A s \in Stacks : generation[s] \in Nat /\ template[s] \in Templates
      BY DEF RestType
    <3>2. generation \in [Stacks -> Nat] /\ template \in [Stacks -> Templates \union {NoTemplate}]
      BY <3>1 DEF RestType
    <3>3. (IF IsReady(desired) THEN desired ELSE actual) \in Stacks \union {NoStack}
      BY DEF RestType
    <3>4. /\ forward \in SUBSET Stacks /\ note \in {0, 1} /\ desired \in Stacks \union {NoStack}
          /\ expired \in SUBSET Stacks /\ objects \in [Stacks -> [Kinds -> Objects]]
      BY DEF RestType, ObjectsType
    <3> HIDE TypeParts
    <3> QED BY <1>1, <3>2, <3>3, <3>4 DEF Collect, Plans
  <2>2. RestType'
    <3>1. plan'.actual \in Stacks
      BY <1>1 DEF Collect, RestType
    <3> QED BY <1>1, <2>1, <3>1 DEF Collect, RestType, stackVars, statusVars, bounds
  <2>3. ProgressType'
    BY <1>1 DEF Collect, ProgressType
  <2>4. ObjectsType' /\ ConfigsType'
    BY <1>1, ObjectsKept, ConfigsKept DEF Collect
  <2> QED BY <2>2, <2>3, <2>4, TypePartsNext
<1>2. CASE AttachConfig
  <2>1. ProgressType'
    <3>1. CASE copy = Outdated
      BY <1>2, <3>1, EndType DEF AttachConfig
    <3>2. CASE copy # Outdated
      BY <1>2, <3>2 DEF AttachConfig, ProgressType
    <3> QED BY <3>1, <3>2
  <2>2. ConfigsType'
    BY <1>0, <1>2 DEF AttachConfig, ConfigsType, ProgressType, At
  <2>3. RestType' /\ ObjectsType'
    BY <1>2, PassStepType, ObjectsKept DEF AttachConfig, At
  <2> QED BY <2>1, <2>2, <2>3, TypePartsNext
<1>3. CASE EndConfigs
  BY <1>0, <1>3, ProceedType, PassStepType, ObjectsKept, ConfigsKept, TypePartsNext
  DEF EndConfigs, Advance, At
<1>4. CASE Panic
  <2>1. RestType'
    BY <1>4, NoPlanType, EndType DEF Panic, EndPass, RestType, stackVars, statusVars, bounds
  <2> QED BY <1>4, <2>1, EndType, ObjectsKept, ConfigsKept, TypePartsNext DEF Panic
<1>5. CASE WriteStatus
  <2>1. RestType'
    BY <1>5, NoPlanType DEF WriteStatus, EndPass, RestType, stackVars, bounds
  <2>2. ProgressType'
    BY <1>5, EndType DEF WriteStatus
  <2> QED BY <1>5, <2>1, <2>2, ObjectsKept, ConfigsKept, TypePartsNext DEF WriteStatus
<1>6. ASSUME NEW s \in Stacks, StartStack(s)
      PROVE  TypeInv'
  <2>1. RestType'
    BY <1>6 DEF StartStack, RestType, stackVars, statusVars, bounds
  <2>2. ProgressType'
    BY <1>6, ProceedType DEF StartStack
  <2> QED BY <1>6, <2>1, <2>2, ObjectsKept, ConfigsKept, TypePartsNext DEF StartStack
<1>7. ASSUME NEW c \in Configs, ReadConfig(c)
      PROVE  TypeInv'
  <2>1. ProgressType'
    BY <1>7, EndType DEF ReadConfig, ProgressType
  <2> QED BY <1>7, <2>1, PassStepType, ObjectsKept, ConfigsKept, TypePartsNext DEF ReadConfig, At
<1>8. ASSUME NEW k \in Kinds, CreateObject(k) \/ UpdateObject(k) \/ DeleteObject(k)
      PROVE  TypeInv'
  <2>1. pc = "stack" /\ PassStep /\ UNCHANGED <<configs, bounds>> /\ Proceed(current, step)
    BY <1>8 DEF CreateObject, UpdateObject, DeleteObject, At, Advance
  <2>2. \E new \in Objects : Write(k, new)
    <3>1. New(current, k) \in Objects
      BY <1>0, <2>1, NewType
    <3> QED BY <1>8, <3>1, NoObjectType DEF CreateObject, UpdateObject, DeleteObject
  <2> QED BY <1>0, <2>1, <2>2, WriteType, ProceedType, PassStepType, ConfigsKept, TypePartsNext
<1>9. ASSUME NEW k \in Kinds, EndOnError(k)
      PROVE  TypeInv'
  BY <1>9, EndType, PassStepType, ObjectsKept, ConfigsKept, TypePartsNext DEF EndOnError, At
<1> QED BY <1>1, <1>2, <1>3, <1>4, <1>5, <1>6, <1>7, <1>8, <1>9 DEF Pass

(***************************************************************************)
(* ... by failures ...                                                     *)
(***************************************************************************)
LEMMA FailureType ==
    ASSUME TypeInv, Failure
    PROVE  TypeInv'
<1> USE TypeParts
<1>0. pc = "stack" => current \in Stacks
  BY DEF ProgressType
<1>1. CASE Crash
  <2>1. RestType'
    BY <1>1, NoPlanType, BoundsAssumption
    DEF Crash, EndPass, Fault, RestType, stackVars, statusVars
  <2>2. ProgressType'
    BY <1>1, EndType DEF Crash
  <2> QED BY <1>1, <2>1, <2>2, ObjectsKept, ConfigsKept, TypePartsNext DEF Crash
<1>2. CASE FailConfig
  <2>1. ConfigsType'
    BY <1>0, <1>2 DEF FailConfig, ConfigsType, ProgressType, At
  <2> QED BY <1>2, <2>1, EndType, PassStepType, ObjectsKept, TypePartsNext DEF FailConfig, At
<1>3. ASSUME NEW k \in Kinds, FailWrite(k)
      PROVE  TypeInv'
  <2>1. pc = "stack" /\ PassStep /\ Fault /\ UNCHANGED configs /\ EndStack
    BY <1>3 DEF FailWrite, At
  <2>2. New(current, k) \in Objects
    BY <1>0, <2>1, NewType
  <2>3. UNCHANGED <<objects, up>> \/ Write(k, New(current, k))
    BY <1>3 DEF FailWrite
  <2>4. ObjectsType'
    BY <2>1, <2>2, <2>3, WriteType, ObjectsKept
  <2> QED BY <2>1, <2>4, EndType, PassStepType, ConfigsKept, TypePartsNext
<1> QED BY <1>1, <1>2, <1>3 DEF Failure

\* What others do leaves the progress of the pass alone.
LEMMA PassVarsKept ==
    ASSUME TypeInv, UNCHANGED passVars
    PROVE  ProgressType'
BY TypeParts DEF ProgressType, passVars

(***************************************************************************)
(* ... and by what others do.                                              *)
(***************************************************************************)
LEMMA EnvironmentType ==
    ASSUME TypeInv, Environment
    PROVE  TypeInv'
<1> USE TypeParts, BoundsAssumption
<1>1. CASE UserAnnotatesStackSet
  <2>1. RestType'
    BY <1>1 DEF UserAnnotatesStackSet, EditBetweenPasses, Edit, RestType, statusVars, passVars
  <2> QED BY <1>1, <2>1, PassVarsKept, ObjectsKept, ConfigsKept, TypePartsNext
      DEF UserAnnotatesStackSet
<1>2. ASSUME NEW c \in Configs, UserWritesConfig(c)
      PROVE  TypeInv'
  <2>1. RestType'
    BY <1>2 DEF UserWritesConfig, Edit, Fault, RestType, stackVars, statusVars
  <2>2. ConfigsType'
    BY <1>2 DEF UserWritesConfig, ConfigsType
  <2>3. ProgressType'
    BY <1>2 DEF UserWritesConfig, ProgressType
  <2> QED BY <1>2, <2>1, <2>2, <2>3, ObjectsKept, TypePartsNext DEF UserWritesConfig
<1>3. ASSUME NEW s \in Stacks, UserEditsStack(s)
      PROVE  TypeInv'
  <2>1. RestType'
    BY <1>3 DEF UserEditsStack, EditBetweenPasses, Edit, RestType, statusVars, passVars
  <2> QED BY <1>3, <2>1, PassVarsKept, ObjectsKept, ConfigsKept, TypePartsNext
      DEF UserEditsStack
<1>4. ASSUME NEW s \in Stacks, UserTogglesForwarding(s)
      PROVE  TypeInv'
  <2>1. RestType'
    BY <1>4 DEF UserTogglesForwarding, EditBetweenPasses, Edit, RestType, statusVars, passVars
  <2> QED BY <1>4, <2>1, PassVarsKept, ObjectsKept, ConfigsKept, TypePartsNext
      DEF UserTogglesForwarding
<1>5. ASSUME NEW s \in Stacks, UserSwitchesTraffic(s)
      PROVE  TypeInv'
  <2>1. RestType'
    BY <1>5 DEF UserSwitchesTraffic, EditBetweenPasses, Edit, RestType, statusVars, passVars
  <2> QED BY <1>5, <2>1, PassVarsKept, ObjectsKept, ConfigsKept, TypePartsNext
      DEF UserSwitchesTraffic
<1>6. ASSUME NEW s \in Stacks, NEW k \in Kinds, Touch(s, k)
      PROVE  touched' \subseteq Stacks \X Kinds
  BY <1>6 DEF Touch, RestType
<1>7. "deployment" \in Kinds
  BY DEF Kinds
<1>8. ASSUME NEW s \in Stacks, Autoscale(s)
      PROVE  TypeInv'
  <2>1. RestType'
    BY <1>6, <1>7, <1>8 DEF Autoscale, Fault, RestType, stackVars, statusVars, passVars
  <2>2. ObjectsType'
    <3>1. PICK n \in 1..MaxReplicas :
            objects' = [objects EXCEPT ![s]["deployment"].replicas = n]
      BY <1>8 DEF Autoscale
    <3>2. n \in Nat
      OBVIOUS
    <3>3. objects[s]["deployment"] \in Objects
      BY <1>7 DEF ObjectsType
    <3>4. [objects[s]["deployment"] EXCEPT !.replicas = n] \in Objects
      BY <3>2, <3>3, ChangedType
    <3>5. objects' =
            [objects EXCEPT ![s]["deployment"] = [objects[s]["deployment"] EXCEPT !.replicas = n]]
      BY <3>1
    <3>6. objects' \in [Stacks -> [Kinds -> Objects]]
      BY <1>7, <3>4, <3>5, ReplacedType DEF ObjectsType
    <3> QED BY <1>8, <3>6 DEF Autoscale, ObjectsType
  <2> QED BY <1>8, <2>1, <2>2, PassVarsKept, ConfigsKept, TypePartsNext DEF Autoscale
<1>9. ASSUME NEW s \in Stacks, PodsReady(s) \/ PodsFail(s)
      PROVE  TypeInv'
  <2>1. RestType'
    BY <1>6, <1>7, <1>9
    DEF PodsReady, PodsFail, Fault, RestType, stackVars, statusVars, passVars, bounds
  <2>2. ObjectsType'
    BY <1>9 DEF PodsReady, PodsFail, ObjectsType
  <2> QED BY <1>9, <2>1, <2>2, PassVarsKept, ConfigsKept, TypePartsNext DEF PodsReady, PodsFail
<1>10. ASSUME NEW s \in Stacks, Expire(s)
       PROVE  TypeInv'
  <2>1. RestType'
    BY <1>10 DEF Expire, RestType, stackVars, passVars, bounds
  <2> QED BY <1>10, <2>1, PassVarsKept, ObjectsKept, ConfigsKept, TypePartsNext DEF Expire
<1>11. ASSUME NEW s \in Stacks, NEW k \in Kinds, UserWritesObject(s, k)
       PROVE  TypeInv'
  <2>1. RestType'
    BY <1>6, <1>11 DEF UserWritesObject, Fault, RestType, stackVars, statusVars, passVars
  <2>2. ObjectsType'
    <3>1. objects[s][k] \in Objects
      BY DEF ObjectsType
    <3>2. \E o \in Objects : objects' = [objects EXCEPT ![s][k] = o]
      <4>1. [objects EXCEPT ![s][k].changed = TRUE] =
              [objects EXCEPT ![s][k] = [objects[s][k] EXCEPT !.changed = TRUE]]
        OBVIOUS
      <4>2. [objects[s][k] EXCEPT !.changed = TRUE] \in Objects
        BY <3>1, ChangedType
      <4> QED BY <1>11, <4>1, <4>2, NoObjectType DEF UserWritesObject
    <3>4. objects' \in [Stacks -> [Kinds -> Objects]]
      BY <3>2, ReplacedType DEF ObjectsType
    <3>3. up' \subseteq Stacks
      BY <1>11 DEF UserWritesObject, ObjectsType
    <3> QED BY <3>3, <3>4 DEF ObjectsType
  <2> QED BY <1>11, <2>1, <2>2, PassVarsKept, ConfigsKept, TypePartsNext DEF UserWritesObject
<1> QED BY <1>1, <1>2, <1>3, <1>4, <1>5, <1>8, <1>9, <1>10, <1>11 DEF Environment

\* The types in the initial states.
LEMMA InitType == Init => TypeInv
<1> SUFFICES ASSUME Init
             PROVE  TypeInv
  OBVIOUS
<1>1. RestType
  BY NoPlanType, InitialAssumption, BoundsAssumption DEF Init, RestType
<1>2. ObjectsType
  BY NoObjectType DEF Init, ObjectsType, NoObjects
<1>3. ProgressType /\ ConfigsType
  BY DEF Init, ProgressType, ConfigsType
<1> QED BY <1>1, <1>2, <1>3, TypeParts

\* The types are kept by every step.
LEMMA TypeNext ==
    ASSUME TypeInv, [Next]_vars
    PROVE  TypeInv'
<1>1. CASE UNCHANGED vars
  BY <1>1 DEF vars, stackVars, statusVars, passVars, bounds, TypeInv, TypeOK
<1> QED BY <1>1, PassType, FailureType, EnvironmentType DEF Next

(***************************************************************************)
(* The types hold for all stacks, templates, configs and bounds.           *)
(***************************************************************************)
THEOREM TypeCorrect == ResourcesSpec => []TypeOK
<1>1. TypeInv /\ [Next]_vars => TypeInv'
  BY TypeNext
<1>2. TypeInv => TypeOK
  BY DEF TypeInv
<1> QED BY <1>1, <1>2, InitType, PTL DEF ResourcesSpec

-----------------------------------------------------------------------------
(***************************************************************************)
(* What a pass knows of the configuration resources: the one it has read   *)
(* and not found outdated has no owner, and those of the template it has   *)
(* behind it belong to the stack or have been replaced.                    *)
(***************************************************************************)
CopyFree == copy \in Configs => configs[copy] = Unowned

Attached ==
    pc = "stack" =>
       \A c \in plan.template[current].refs :
          step > 5 \/ (step = 5 /\ c \notin refs) => configs[c] = current \/ c \in replaced

ConfigsInv == TypeInv /\ CopyFree /\ Attached

\* The marks of a config without copy are no configs.
LEMMA NoCopies == NoCopy \notin Configs /\ Outdated \notin Configs
BY ConfigsAssumption DEF NoCopy, Outdated

\* Nothing is claimed of a stack that has been left ...
LEMMA EndAttached ==
    ASSUME EndStack \/ EndPass
    PROVE  CopyFree' /\ Attached'
BY NoCopies DEF EndStack, EndPass, CopyFree, Attached

\* ... of one that is begun, whose references are all to come ...
LEMMA BeginAttached ==
    ASSUME TypeInv, NEW s \in Stacks, NEW i \in 0..4, Proceed(s, i), plan' = plan
    PROVE  CopyFree' /\ Attached'
<1>1. i \in 0..9 /\ i < 5
  OBVIOUS
<1>2. \/ pc' = "next"
      \/ /\ pc' = "stack" /\ current' = s /\ step' \in (i + 1)..9
         /\ refs' = plan.template[s].refs
         /\ step' <= 5 \/ refs' = {}
  BY <1>1, ProceedNext
<1>3. copy' = NoCopy
  BY <1>1, ProceedNext
<1> QED BY <1>2, <1>3, NoCopies DEF CopyFree, Attached

\* ... and what holds after the references holds for the rest of the stack.
LEMMA ProceedAttached ==
    ASSUME ConfigsInv, pc = "stack", Proceed(current, step), step = 5 => refs = {},
           UNCHANGED <<plan, configs, replaced>>
    PROVE  CopyFree' /\ Attached'
<1>1. current \in Stacks /\ step \in 1..9
  BY TypeParts DEF ConfigsInv, ProgressType
<1>2. CASE step < 5
  <2>1. step \in 0..4
    BY <1>1, <1>2
  <2> QED BY <1>1, <2>1, BeginAttached DEF ConfigsInv
<1>3. CASE step >= 5
  <2>1. copy' = NoCopy
    BY <1>1, ProceedNext DEF ConfigsInv
  <2>2. pc' = "stack" => current' = current
    BY <1>1, ProceedNext DEF ConfigsInv
  <2>3. \A c \in plan.template[current].refs : configs[c] = current \/ c \in replaced
    <3>1. step > 5 \/ (step = 5 /\ refs = {})
      BY <1>1, <1>3
    <3> QED BY <3>1 DEF ConfigsInv, Attached
  <2> QED BY <2>1, <2>2, <2>3, NoCopies DEF CopyFree, Attached
<1> QED BY <1>1, <1>2, <1>3

\* A step for a resource is one of the stack, and not the one for the configs.
LEMMA StepIs ==
    ASSUME TypeInv, NEW k \in Kinds, At(k)
    PROVE  pc = "stack" /\ step # 5 /\ (k = "deployment" => step > 5)
<1>1. pc = "stack" /\ step \in 1..9 /\ Steps[step] = k
  BY TypeParts DEF At, ProgressType
<1>2. k # "configs"
  BY DEF Kinds
<1> QED BY <1>1, <1>2, StepsAre

\* The step for the configs is the fifth.
LEMMA ConfigsStep ==
    ASSUME TypeInv, At("configs")
    PROVE  pc = "stack" /\ step = 5
<1>1. pc = "stack" /\ step \in 1..9 /\ Steps[step] = "configs"
  BY TypeParts DEF At, ProgressType
<1> QED BY <1>1, StepsAre

(***************************************************************************)
(* The invariant is inductive.                                             *)
(***************************************************************************)
LEMMA ConfigsNext ==
    ASSUME ConfigsInv, [Next]_vars
    PROVE  CopyFree' /\ Attached'
<1>0. TypeInv
  BY DEF ConfigsInv
<1>1. CASE UNCHANGED vars
  BY <1>1 DEF ConfigsInv, CopyFree, Attached, vars, passVars
\* Steps that leave the pass and the configuration resources where they are.
<1>2. ASSUME UNCHANGED <<pc, plan, current, step, refs, copy, configs>>,
             pc = "stack" => UNCHANGED replaced
      PROVE  CopyFree' /\ Attached'
  BY <1>2 DEF ConfigsInv, CopyFree, Attached
<1>3. CASE Collect
  BY <1>3 DEF Collect, ConfigsInv, CopyFree, Attached
<1>4. CASE AttachConfig
  <2>1. pc = "stack" /\ step = 5 /\ current \in Stacks
    BY <1>0, <1>4, ConfigsStep, TypeParts DEF AttachConfig, ProgressType
  <2>2. CASE copy = Outdated
    BY <1>4, <2>2, EndAttached DEF AttachConfig
  <2>3. CASE copy # Outdated
    <3>1. copy \in Configs /\ configs \in [Configs -> Stacks \union {Absent, Unowned}]
      BY <1>0, <1>4, <2>3, TypeParts DEF AttachConfig, ProgressType, ConfigsType
    <3>2. /\ configs' = [configs EXCEPT ![copy] = current] /\ refs' = refs \ {copy}
          /\ copy' = NoCopy
          /\ UNCHANGED <<pc, current, step, plan, replaced>>
      BY <1>4, <2>3 DEF AttachConfig, PassStep
    <3>3. plan.template[current].refs \subseteq Configs
      BY <1>0, <2>1, TemplateType, TypeParts DEF RestType, Plans
    <3>4. \A c \in Configs : configs'[c] = IF c = copy THEN current ELSE configs[c]
      BY <3>1, <3>2
    <3> QED BY <2>1, <3>2, <3>3, <3>4, NoCopies DEF ConfigsInv, CopyFree, Attached
  <2> QED BY <2>2, <2>3
<1>5. CASE EndConfigs
  BY <1>0, <1>5, ConfigsStep, ProceedAttached DEF EndConfigs, ConfigsDone, Advance, PassStep
<1>6. CASE Panic \/ WriteStatus \/ Crash
  BY <1>6, EndAttached DEF Panic, WriteStatus, Crash
<1>7. ASSUME NEW s \in Stacks, StartStack(s)
      PROVE  CopyFree' /\ Attached'
  BY <1>0, <1>7, BeginAttached DEF StartStack
<1>8. ASSUME NEW c \in Configs, ReadConfig(c)
      PROVE  CopyFree' /\ Attached'
  <2>1. pc = "stack" /\ step = 5
    BY <1>0, <1>8, ConfigsStep DEF ReadConfig
  <2>2. UNCHANGED <<plan, configs, replaced>>
    BY <1>8 DEF ReadConfig, PassStep
  <2>3. \/ EndStack
        \/ configs[c] = current /\ refs' = refs \ {c} /\ UNCHANGED <<pc, current, step, copy>>
        \/ configs[c] = Unowned /\ copy' = c /\ UNCHANGED <<pc, current, step, refs>>
    BY <1>8 DEF ReadConfig, Available
  <2> QED BY <2>1, <2>2, <2>3, EndAttached DEF ConfigsInv, CopyFree, Attached
<1>9. ASSUME NEW k \in Kinds, CreateObject(k) \/ UpdateObject(k) \/ DeleteObject(k)
      PROVE  CopyFree' /\ Attached'
  <2>1. At(k) /\ PassStep /\ UNCHANGED configs /\ Proceed(current, step)
    BY <1>9 DEF CreateObject, UpdateObject, DeleteObject, Advance
  <2> QED BY <1>0, <2>1, StepIs, ProceedAttached DEF PassStep
<1>10. ASSUME NEW k \in Kinds, EndOnError(k) \/ FailWrite(k)
       PROVE  CopyFree' /\ Attached'
  BY <1>10, EndAttached DEF EndOnError, FailWrite
<1>11. CASE FailConfig
  BY <1>11, EndAttached DEF FailConfig
<1>12. ASSUME NEW c \in Configs, UserWritesConfig(c)
       PROVE  CopyFree' /\ Attached'
  <2>1. /\ UNCHANGED <<pc, current, step, refs, plan>>
        /\ copy' = IF copy = c THEN Outdated ELSE copy
        /\ pc = "stack" => replaced' = replaced \union {c}
    BY <1>12 DEF UserWritesConfig
  <2>2. \A d \in Configs \ {c} : configs'[d] = configs[d]
    BY <1>0, <1>12, TypeParts DEF UserWritesConfig, ConfigsType
  <2>3. CopyFree'
    BY <2>1, <2>2, NoCopies DEF ConfigsInv, CopyFree
  <2>4. pc = "stack" => plan.template[current].refs \subseteq Configs
    BY <1>0, TemplateType, TypeParts DEF RestType, Plans, ProgressType
  <2>5. Attached'
    BY <2>1, <2>2, <2>4 DEF ConfigsInv, Attached
  <2> QED BY <2>3, <2>5
<1>13. ASSUME NEW s \in Stacks,
              \/ UserEditsStack(s) \/ UserTogglesForwarding(s) \/ UserSwitchesTraffic(s)
              \/ Autoscale(s) \/ PodsReady(s) \/ PodsFail(s) \/ Expire(s)
              \/ \E k \in Kinds : UserWritesObject(s, k)
       PROVE  CopyFree' /\ Attached'
  BY <1>2, <1>13
  DEF UserEditsStack, UserTogglesForwarding, UserSwitchesTraffic, Autoscale, PodsReady, PodsFail,
      Expire, UserWritesObject, passVars
<1>14. CASE UserAnnotatesStackSet
  BY <1>2, <1>14 DEF UserAnnotatesStackSet, passVars
<1> QED BY <1>1, <1>3, <1>4, <1>5, <1>6, <1>7, <1>8, <1>9, <1>10, <1>11, <1>12, <1>13, <1>14
    DEF Next, Pass, Failure, Environment

\* The configs of a stack are attached before its deployment is written, always.
LEMMA ConfigsInvCorrect == ResourcesSpec => []ConfigsInv
<1>1. Init => ConfigsInv
  BY InitType, NoCopies DEF Init, ConfigsInv, CopyFree, Attached
<1>2. ConfigsInv /\ [Next]_vars => ConfigsInv'
  <2> SUFFICES ASSUME ConfigsInv, [Next]_vars
               PROVE  ConfigsInv'
    OBVIOUS
  <2>1. TypeInv'
    BY TypeNext DEF ConfigsInv
  <2> QED BY <2>1, ConfigsNext DEF ConfigsInv
<1> QED BY <1>1, <1>2, PTL DEF ResourcesSpec

\* The steps of Next by what they do to the ConfigMaps and Secrets.
LEMMA ConfigsChange ==
    ASSUME Next
    PROVE  \/ UNCHANGED configs
           \/ At("configs") /\ copy \notin {NoCopy, Outdated}
              /\ configs' = [configs EXCEPT ![copy] = current]
           \/ \E c \in Configs : UserWritesConfig(c)
<1>1. CASE Pass
  BY <1>1
  DEF Pass, Collect, AttachConfig, EndConfigs, Panic, WriteStatus, StartStack, ReadConfig,
      CreateObject, UpdateObject, DeleteObject, EndOnError
<1>2. CASE Failure
  BY <1>2 DEF Failure, Crash, FailConfig, FailWrite
<1>3. CASE Environment
  BY <1>3
  DEF Environment, UserAnnotatesStackSet, UserEditsStack, UserTogglesForwarding,
      UserSwitchesTraffic, Autoscale, PodsReady, PodsFail, Expire, UserWritesObject
<1> QED BY <1>1, <1>2, <1>3 DEF Next

(***************************************************************************)
(* A ConfigMap or a Secret that belongs to a stack keeps its owner until   *)
(* it is deleted: the one a pass writes itself to had no owner when it was *)
(* read, and has none still, or the write would be refused.                *)
(***************************************************************************)
THEOREM OwnersKept == ResourcesSpec => OwnerKept
<1>1. ASSUME ConfigsInv, Next, NEW c \in Configs, configs[c] \in Stacks
      PROVE  configs'[c] \in {configs[c], Absent}
  <2>1. /\ configs \in [Configs -> Stacks \union {Absent, Unowned}]
        /\ copy \in Configs \union {NoCopy, Outdated}
    BY <1>1, TypeParts DEF ConfigsInv, ProgressType, ConfigsType
  <2>2. configs[c] \notin {Absent, Unowned}
    BY <1>1, StacksAssumption DEF Absent, Unowned
  <2>3. CASE /\ At("configs") /\ copy \notin {NoCopy, Outdated}
             /\ configs' = [configs EXCEPT ![copy] = current]
    BY <1>1, <2>1, <2>2, <2>3 DEF ConfigsInv, CopyFree
  <2>4. ASSUME NEW d \in Configs, UserWritesConfig(d)
        PROVE  configs'[c] \in {configs[c], Absent}
    BY <2>1, <2>2, <2>4 DEF UserWritesConfig
  <2> QED BY <1>1, <2>3, <2>4, ConfigsChange
<1>2. ConfigsInv /\ [Next]_vars =>
        [\A c \in Configs : configs[c] \in Stacks => configs'[c] \in {configs[c], Absent}]_vars
  BY <1>1
<1> QED BY <1>2, ConfigsInvCorrect, PTL DEF ResourcesSpec, OwnerKept

\* A write of the pass is about the resource it is at.
LEMMA WriteOne ==
    ASSUME TypeInv, NEW k \in Kinds, NEW o, At(k), Write(k, o),
           NEW s \in Stacks, NEW r \in Kinds
    PROVE  objects'[s][r] = IF s = current /\ r = k THEN o ELSE objects[s][r]
<1>1. current \in Stacks /\ objects \in [Stacks -> [Kinds -> Objects]]
  BY TypeParts DEF At, ProgressType, ObjectsType
<1>2. objects' = [objects EXCEPT ![current] = [objects[current] EXCEPT ![k] = o]]
  BY DEF Write
<1>3. CASE s = current
  <2>1. objects'[s] = [objects[s] EXCEPT ![k] = o]
    BY <1>1, <1>2, <1>3
  <2> QED BY <1>1, <1>3, <2>1
<1>4. CASE s # current
  BY <1>1, <1>2, <1>4
<1> QED BY <1>3, <1>4

\* The ways a resource changes.
ChangedByOthers(s, k) ==
    \/ objects'[s][k] = objects[s][k]
    \/ objects'[s][k] = NoObject
    \/ objects'[s][k] = [objects[s][k] EXCEPT !.changed = TRUE]
    \/ /\ k = "deployment" /\ faults' # faults
       /\ \E n \in Nat : objects'[s][k] = [objects[s][k] EXCEPT !.replicas = n]

WrittenByPass(s, k) ==
    /\ At(k) /\ s = current
    /\ objects'[s][k] = New(s, k)
    /\ faults' # faults \/ Creates(s, k) \/ (Updates(s, k) /\ Updatable(k))

\* A resource changes by other hands, or by the step of the pass that writes it.
LEMMA ResourceChange ==
    ASSUME TypeInv, Next, NEW s \in Stacks, NEW k \in Kinds
    PROVE  ChangedByOthers(s, k) \/ WrittenByPass(s, k)
<1>1. objects \in [Stacks -> [Kinds -> Objects]] /\ faults \in Nat
  BY TypeParts, BoundsAssumption DEF ObjectsType, RestType
<1>2. CASE objects' = objects
  BY <1>2 DEF ChangedByOthers
<1>3. ASSUME NEW r \in Kinds, NEW o, At(r), Write(r, o), s # current \/ k # r
      PROVE  ChangedByOthers(s, k)
  BY <1>3, WriteOne DEF ChangedByOthers
<1>4. ASSUME NEW r \in Kinds, CreateObject(r) \/ UpdateObject(r)
      PROVE  ChangedByOthers(s, k) \/ WrittenByPass(s, k)
  <2>1. At(r) /\ Write(r, New(current, r))
    BY <1>4 DEF CreateObject, UpdateObject
  <2>2. CASE s = current /\ k = r
    <3>1. objects'[s][k] = New(s, k)
      BY <2>1, <2>2, WriteOne
    <3> QED BY <1>4, <2>1, <2>2, <3>1 DEF CreateObject, UpdateObject, WrittenByPass
  <2> QED BY <1>3, <2>1, <2>2
<1>5. ASSUME NEW r \in Kinds, DeleteObject(r)
      PROVE  ChangedByOthers(s, k)
  BY <1>3, <1>5, WriteOne DEF DeleteObject, ChangedByOthers
<1>6. ASSUME NEW r \in Kinds, FailWrite(r)
      PROVE  ChangedByOthers(s, k) \/ WrittenByPass(s, k)
  <2>1. At(r) /\ faults' # faults
    BY <1>1, <1>6 DEF FailWrite, Fault
  <2>2. CASE Write(r, New(current, r))
    <3>1. CASE s = current /\ k = r
      <4>1. objects'[s][k] = New(s, k)
        BY <2>1, <2>2, <3>1, WriteOne
      <4> QED BY <2>1, <3>1, <4>1 DEF WrittenByPass
    <3> QED BY <1>3, <2>1, <2>2, <3>1
  <2> QED BY <1>2, <1>6, <2>2 DEF FailWrite
<1>7. ASSUME NEW t \in Stacks, NEW r \in Kinds, UserWritesObject(t, r)
      PROVE  ChangedByOthers(s, k)
  <2>1. CASE objects' = [objects EXCEPT ![t][r].changed = TRUE]
    BY <1>1, <2>1 DEF ChangedByOthers
  <2>2. CASE objects' = [objects EXCEPT ![t][r] = NoObject]
    BY <1>1, <2>2 DEF ChangedByOthers
  <2> QED BY <1>7, <2>1, <2>2 DEF UserWritesObject
<1>8. ASSUME NEW t \in Stacks, Autoscale(t)
      PROVE  ChangedByOthers(s, k)
  <2>1. PICK n \in 1..MaxReplicas : objects' = [objects EXCEPT ![t]["deployment"].replicas = n]
    BY <1>8 DEF Autoscale
  <2>2. n \in Nat /\ faults' # faults
    BY <1>1, <1>8 DEF Autoscale, Fault
  <2>3. CASE s = t /\ k = "deployment"
    <3>1. objects'[s][k] = [objects[s][k] EXCEPT !.replicas = n]
      BY <1>1, <2>1, <2>3
    <3> QED BY <2>2, <2>3, <3>1 DEF ChangedByOthers
  <2>4. CASE ~(s = t /\ k = "deployment")
    <3>1. objects'[s][k] = objects[s][k]
      BY <1>1, <2>1, <2>4
    <3> QED BY <3>1 DEF ChangedByOthers
  <2> QED BY <2>3, <2>4
<1>9. CASE Pass
  BY <1>2, <1>4, <1>5, <1>9
  DEF Pass, Collect, AttachConfig, EndConfigs, Panic, WriteStatus, StartStack, ReadConfig,
      EndOnError
<1>10. CASE Failure
  BY <1>2, <1>6, <1>10 DEF Failure, Crash, FailConfig
<1>11. CASE Environment
  BY <1>2, <1>7, <1>8, <1>11
  DEF Environment, UserAnnotatesStackSet, UserWritesConfig, UserEditsStack,
      UserTogglesForwarding, UserSwitchesTraffic, PodsReady, PodsFail, Expire
<1> QED BY <1>9, <1>10, <1>11 DEF Next

\* The generation a resource is for and its weight are the pass's own.
LEMMA OthersKeep ==
    ASSUME TypeInv, NEW s \in Stacks, NEW k \in Kinds, ChangedByOthers(s, k)
    PROVE  /\ ~(objects'[s][k].gen > objects[s][k].gen)
           /\ ~(objects'[s][k].weight > objects[s][k].weight)
<1>1. objects[s][k] \in Objects
  BY TypeParts DEF ObjectsType
<1>2. objects[s][k].gen \in Nat /\ objects[s][k].weight \in {0, 1}
  BY <1>1 DEF Objects
<1>3. \/ objects'[s][k] = NoObject
      \/ objects'[s][k].gen = objects[s][k].gen /\ objects'[s][k].weight = objects[s][k].weight
  BY <1>1 DEF ChangedByOthers, Objects
<1> QED BY <1>2, <1>3 DEF NoObject

(***************************************************************************)
(* A deployment of a later generation is only written when the ConfigMaps  *)
(* and Secrets of that generation belong to the stack, or did until a user *)
(* replaced one: the deployment comes after the references, and the first  *)
(* of them that fails ends what is done for the stack.                     *)
(***************************************************************************)
THEOREM DeploymentsWithConfigs == ResourcesSpec => DeployedWithConfigs
<1>1. ASSUME ConfigsInv, Next, NEW s \in Stacks,
             objects'[s]["deployment"].gen > objects[s]["deployment"].gen,
             NEW c \in plan.template[s].refs
      PROVE  configs[c] = s \/ c \in replaced
  <2>1. TypeInv
    BY <1>1 DEF ConfigsInv
  <2>2. "deployment" \in Kinds
    BY DEF Kinds
  <2>3. At("deployment") /\ s = current
    BY <1>1, <2>1, <2>2, ResourceChange, OthersKeep DEF WrittenByPass
  <2>4. pc = "stack" /\ step > 5
    BY <2>1, <2>2, <2>3, StepIs
  <2> QED BY <1>1, <2>3, <2>4 DEF ConfigsInv, Attached
<1>2. ConfigsInv /\ [Next]_vars =>
        [\A s \in Stacks :
            objects'[s]["deployment"].gen > objects[s]["deployment"].gen =>
               \A c \in plan.template[s].refs : configs[c] = s \/ c \in replaced]_vars
  BY <1>1
<1> QED BY <1>2, ConfigsInvCorrect, PTL DEF ResourcesSpec, DeployedWithConfigs

-----------------------------------------------------------------------------
(***************************************************************************)
(* What a pass still has to come to is as it was collected, unless others  *)
(* have touched it; nobody else creates it.  And it only switches traffic  *)
(* to a stack it has found updated.                                        *)
(***************************************************************************)
Pending(s, k) ==
    \/ pc # "idle" /\ s \in todo
    \/ pc = "stack" /\ s = current /\ \E n \in step..9 : Steps[n] = k

Intact ==
    \A s \in Stacks, k \in Kinds :
       Pending(s, k) =>
          /\ <<s, k>> \notin touched => objects[s][k] = plan.objects[s][k]
          /\ plan.objects[s][k] = NoObject => objects[s][k] = NoObject

FoundUpdated(s) ==
    /\ plan.objects[s]["deployment"].gen = plan.generation[s]
    /\ plan.objects[s]["deployment"].replicas > 0
    /\ plan.objects[s]["service"].gen = plan.generation[s]

Switched == pc # "idle" /\ plan.actual # actual =>
               plan.actual \in plan.forward \/ FoundUpdated(plan.actual)

PlanInv == TypeInv /\ Intact /\ Switched /\ (pc = "stack" => current \notin todo)

\* Later steps are about other kinds.
LEMMA StepsDiffer ==
    ASSUME NEW i \in 1..9, NEW j \in (i + 1)..9
    PROVE  Steps[i] # Steps[j]
<1>1. \A m, n \in 1..9 : m < n => Steps[m] # Steps[n]
  BY DEF Steps
<1> QED BY <1>1

\* What is pending after a step was so before, but for what the step was about.
LEMMA PendingNext ==
    ASSUME TypeInv, pc = "stack", Proceed(current, step) \/ EndStack, UNCHANGED todo,
           NEW s \in Stacks, NEW k \in Kinds, Pending(s, k)', current \notin todo
    PROVE  Pending(s, k) /\ ~(s = current /\ At(k))
<1>1. current \in Stacks /\ step \in 1..9
  BY TypeParts DEF ProgressType
<1>2. CASE s \in todo
  BY <1>2 DEF Pending
<1>3. CASE s \notin todo
  <2>1. pc' = "stack" /\ s = current' /\ \E n \in step'..9 : Steps[n] = k
    BY <1>3 DEF Pending
  <2>2. ~EndStack
    BY <2>1 DEF EndStack
  <2>3. current' = current /\ step' \in (step + 1)..9
    BY <1>1, <2>1, <2>2, ProceedNext
  <2>4. PICK n \in step'..9 : Steps[n] = k
    BY <2>1
  <2>5. n \in (step + 1)..9 /\ n \in step..9
    BY <1>1, <2>3
  <2>6. Steps[step] # k
    BY <1>1, <2>4, <2>5, StepsDiffer
  <2> QED BY <2>1, <2>3, <2>4, <2>5, <2>6 DEF Pending, At
<1> QED BY <1>2, <1>3

(***************************************************************************)
(* A step of the pass for a stack.                                         *)
(***************************************************************************)
LEMMA StackStepIntact ==
    ASSUME PlanInv, pc = "stack", PassStep, Proceed(current, step) \/ EndStack,
           UNCHANGED objects \/ (\E k \in Kinds : \E o : At(k) /\ Write(k, o))
    PROVE  Intact' /\ Switched' /\ (pc' = "stack" => current' \notin todo')
<1>0. TypeInv /\ current \in Stacks /\ step \in 0..9 /\ current \notin todo
  BY TypeParts DEF PlanInv, ProgressType
<1>1. UNCHANGED <<todo, plan, touched, actual>>
  BY DEF PassStep, statusVars
<1>2. Switched'
  BY <1>1 DEF PlanInv, Switched, FoundUpdated
<1>3. pc' = "stack" => current' = current
  BY <1>0, ProceedNext DEF EndStack
<1>4. ASSUME NEW s \in Stacks, NEW k \in Kinds, Pending(s, k)'
      PROVE  objects'[s][k] = objects[s][k] /\ Pending(s, k)
  <2>1. Pending(s, k) /\ ~(s = current /\ At(k))
    BY <1>0, <1>1, <1>4, PendingNext
  <2>2. ASSUME NEW r \in Kinds, NEW o, At(r), Write(r, o)
        PROVE  objects'[s][k] = objects[s][k]
    BY <1>0, <2>1, <2>2, WriteOne
  <2> QED BY <2>1, <2>2
<1>5. Intact'
  BY <1>1, <1>4 DEF PlanInv, Intact
<1> QED BY <1>0, <1>1, <1>2, <1>3, <1>5

\* Between passes nothing is claimed.
LEMMA EndIntact ==
    ASSUME EndPass
    PROVE  Intact' /\ Switched' /\ (pc' = "stack" => current' \notin todo')
BY DEF EndPass, Intact, Pending, Switched

\* What others do to a resource is noticed.
LEMMA TouchIntact ==
    ASSUME PlanInv, NEW t \in Stacks, NEW r \in Kinds, Touch(t, r),
           UNCHANGED <<statusVars, passVars>>,
           \A s \in Stacks, k \in Kinds :
              objects'[s][k] = objects[s][k] \/ (s = t /\ k = r /\ objects[s][k] # NoObject)
    PROVE  Intact' /\ Switched' /\ (pc' = "stack" => current' \notin todo')
<1>1. UNCHANGED <<pc, todo, current, step, plan, actual>>
  BY DEF statusVars, passVars
<1>2. Switched' /\ (pc' = "stack" => current' \notin todo')
  BY <1>1 DEF PlanInv, Switched, FoundUpdated
<1>3. ASSUME NEW s \in Stacks, NEW k \in Kinds, Pending(s, k)'
      PROVE  /\ <<s, k>> \notin touched' => objects'[s][k] = plan'.objects[s][k]
             /\ plan'.objects[s][k] = NoObject => objects'[s][k] = NoObject
  <2>1. Pending(s, k) /\ s \in todo \union {current}
    BY <1>1, <1>3 DEF Pending
  <2>2. touched \subseteq touched'
    BY DEF Touch
  <2>3. <<s, k>> \notin touched => objects[s][k] = plan.objects[s][k]
    BY <2>1 DEF PlanInv, Intact
  <2>4. plan.objects[s][k] = NoObject => objects[s][k] = NoObject
    BY <2>1 DEF PlanInv, Intact
  <2>5. CASE objects'[s][k] = objects[s][k]
    BY <1>1, <2>2, <2>3, <2>4, <2>5
  <2>6. CASE s = t /\ k = r /\ objects[s][k] # NoObject
    <3>1. <<s, k>> \in touched'
      BY <2>1, <2>6 DEF Touch
    <3> QED BY <1>1, <2>4, <2>6, <3>1
  <2> QED BY <2>5, <2>6
<1> QED BY <1>2, <1>3 DEF Intact

(***************************************************************************)
(* The invariant is inductive.                                             *)
(***************************************************************************)
LEMMA PlanNext ==
    ASSUME PlanInv, [Next]_vars
    PROVE  Intact' /\ Switched' /\ (pc' = "stack" => current' \notin todo')
<1> DEFINE Goal == Intact' /\ Switched' /\ (pc' = "stack" => current' \notin todo')
<1>0. TypeInv /\ (pc = "stack" => current \in Stacks /\ step \in 0..9)
  BY TypeParts DEF PlanInv, ProgressType
<1>1. ASSUME UNCHANGED <<pc, todo, current, step, plan, actual, objects>>,
             pc # "idle" => UNCHANGED touched
      PROVE  Goal
  BY <1>1 DEF PlanInv, Intact, Pending, Switched, FoundUpdated
<1>2. CASE UNCHANGED vars
  BY <1>1, <1>2 DEF vars, statusVars, passVars
<1>3. CASE Collect
  <2>1. /\ pc' = "next" /\ UNCHANGED <<objects, actual>> /\ touched' = {}
        /\ plan'.objects = objects /\ plan'.generation = generation /\ plan'.forward = forward
        /\ plan'.actual = IF IsReady(desired) THEN desired ELSE actual
    BY <1>3 DEF Collect, statusVars
  <2>2. Intact'
    BY <2>1 DEF Intact
  <2>3. IsReady(desired) => desired \in forward
          \/ (UpToDate(desired, "deployment") /\ UpToDate(desired, "service")
              /\ objects[desired]["deployment"].replicas > 0)
    BY DEF IsReady, ResourcesUpdated
  <2>4. Switched'
    BY <2>1, <2>3 DEF Switched, FoundUpdated, UpToDate
  <2> QED BY <2>1, <2>2, <2>4
<1>4. CASE Panic \/ WriteStatus \/ Crash
  BY <1>4, EndIntact DEF Panic, WriteStatus, Crash
<1>5. ASSUME NEW s \in Stacks, StartStack(s)
      PROVE  Goal
  <2>1. /\ pc = "next" /\ todo' = todo \ {s} /\ s \in todo
        /\ UNCHANGED <<objects, plan, touched, actual>>
    BY <1>5 DEF StartStack, statusVars
  <2>2. pc' = "next" \/ (pc' = "stack" /\ current' = s)
    <3>1. 0 \in 0..9
      OBVIOUS
    <3> QED BY <1>0, <1>5, <3>1, ProceedNext DEF StartStack
  <2>3. ASSUME NEW t \in Stacks, NEW k \in Kinds, Pending(t, k)'
        PROVE  Pending(t, k)
    BY <2>1, <2>2, <2>3 DEF Pending
  <2> QED BY <2>1, <2>2, <2>3 DEF PlanInv, Intact, Switched, FoundUpdated
<1>6. CASE AttachConfig
  <2>1. CASE copy = Outdated
    BY <1>6, <2>1, StackStepIntact DEF AttachConfig, At
  <2>2. CASE copy # Outdated
    BY <1>1, <1>6, <2>2 DEF AttachConfig, PassStep, statusVars
  <2> QED BY <2>1, <2>2
<1>7. CASE EndConfigs
  BY <1>7, StackStepIntact DEF EndConfigs, Advance, At
<1>8. ASSUME NEW c \in Configs, ReadConfig(c)
      PROVE  Goal
  <2>1. pc = "stack" /\ PassStep /\ UNCHANGED objects
    BY <1>8 DEF ReadConfig, At
  <2>2. EndStack \/ UNCHANGED <<pc, current, step>>
    BY <1>8 DEF ReadConfig
  <2>3. CASE UNCHANGED <<pc, current, step>>
    BY <1>1, <2>1, <2>3 DEF PassStep, statusVars
  <2> QED BY <2>1, <2>2, <2>3, StackStepIntact
<1>9. ASSUME NEW k \in Kinds, CreateObject(k) \/ UpdateObject(k) \/ DeleteObject(k)
      PROVE  Goal
  BY <1>9, StackStepIntact DEF CreateObject, UpdateObject, DeleteObject, Advance, At
<1>10. ASSUME NEW k \in Kinds, EndOnError(k) \/ FailWrite(k)
       PROVE  Goal
  BY <1>10, StackStepIntact DEF EndOnError, FailWrite, At
<1>11. CASE FailConfig
  BY <1>11, StackStepIntact DEF FailConfig, At
<1>12. ASSUME NEW c \in Configs, UserWritesConfig(c)
       PROVE  Goal
  BY <1>1, <1>12 DEF UserWritesConfig, statusVars
<1>13. ASSUME NEW s \in Stacks,
              \/ UserEditsStack(s) \/ UserTogglesForwarding(s) \/ UserSwitchesTraffic(s)
              \/ Expire(s)
       PROVE  Goal
  BY <1>1, <1>13
  DEF UserEditsStack, UserTogglesForwarding, UserSwitchesTraffic, Expire, EditBetweenPasses,
      statusVars, passVars
<1>14. CASE UserAnnotatesStackSet
  BY <1>1, <1>14 DEF UserAnnotatesStackSet, EditBetweenPasses, statusVars, passVars
<1>15. "deployment" \in Kinds /\ objects \in [Stacks -> [Kinds -> Objects]]
  BY <1>0, TypeParts DEF Kinds, ObjectsType
<1>16. ASSUME NEW s \in Stacks, PodsReady(s) \/ PodsFail(s)
       PROVE  Goal
  BY <1>15, <1>16, TouchIntact DEF PodsReady, PodsFail
<1>17. ASSUME NEW s \in Stacks, Autoscale(s)
       PROVE  Goal
  <2>1. objects[s]["deployment"] # NoObject
    BY <1>17 DEF Autoscale, NoObject
  <2>2. PICK n : objects' = [objects EXCEPT ![s]["deployment"].replicas = n]
    BY <1>17 DEF Autoscale
  <2>3. \A t \in Stacks, k \in Kinds :
           objects'[t][k] = objects[t][k] \/ (t = s /\ k = "deployment")
    BY <1>15, <2>2
  <2> QED BY <1>15, <1>17, <2>1, <2>3, TouchIntact DEF Autoscale
<1>18. ASSUME NEW s \in Stacks, NEW k \in Kinds, UserWritesObject(s, k)
       PROVE  Goal
  <2>1. \A t \in Stacks, r \in Kinds :
           objects'[t][r] = objects[t][r] \/ (t = s /\ r = k)
    BY <1>15, <1>18 DEF UserWritesObject
  <2> QED BY <1>18, <2>1, TouchIntact DEF UserWritesObject
<1> QED BY <1>2, <1>3, <1>4, <1>5, <1>6, <1>7, <1>8, <1>9, <1>10, <1>11, <1>12, <1>13, <1>14,
           <1>16, <1>17, <1>18
    DEF Next, Pass, Failure, Environment

\* What a pass has planned holds until it is over, always.
LEMMA PlanInvCorrect == ResourcesSpec => []PlanInv
<1>1. Init => PlanInv
  BY InitType DEF Init, PlanInv, Intact, Pending, Switched
<1>2. PlanInv /\ [Next]_vars => PlanInv'
  <2> SUFFICES ASSUME PlanInv, [Next]_vars
               PROVE  PlanInv'
    OBVIOUS
  <2>1. TypeInv'
    BY TypeNext DEF PlanInv
  <2> QED BY <2>1, PlanNext DEF PlanInv
<1> QED BY <1>1, <1>2, PTL DEF ResourcesSpec

(***************************************************************************)
(* A stack that is newly routed traffic is one the pass has found updated, *)
(* or forwards it; until its segments are written the deployment and the   *)
(* service are as they were found, unless others have touched them.        *)
(***************************************************************************)
THEOREM SwitchesOnlyToUpdated == ResourcesSpec => SwitchesToUpdated
<1> DEFINE Fine(s) ==
             \/ actual = s
             \/ s \in plan.forward
             \/ \A r \in {"deployment", "service"} :
                  \/ <<s, r>> \in touched
                  \/ /\ objects[s][r].gen = plan.generation[s]
                     /\ r = "deployment" => objects[s][r].replicas > 0
<1>1. ASSUME PlanInv, Next, NEW s \in Stacks, NEW k \in {"ingressSegment", "routeGroupSegment"},
             objects'[s][k].weight > objects[s][k].weight
      PROVE  Fine(s)
  <2>1. TypeInv /\ k \in Kinds
    BY <1>1 DEF PlanInv, Kinds
  <2>2. At(k) /\ s = current /\ objects'[s][k] = New(s, k)
    BY <1>1, <2>1, ResourceChange, OthersKeep DEF WrittenByPass
  <2>3. objects[s][k].weight \in {0, 1}
    <3>1. objects[s][k] \in Objects
      BY <2>1, TypeParts DEF ObjectsType
    <3> QED BY <3>1 DEF Objects
  <2>4. plan.actual = s
    <3>1. New(s, k).weight # 0
      BY <1>1, <2>2, <2>3
    <3>2. New(s, k) = NoObject \/ New(s, k) = Segment(s)
      BY DEF New, GenerateIngressSegment, GenerateRouteGroupSegment
    <3>3. Segment(s).weight = Weight(s)
      BY DEF Segment, Forwarding, ObjectMeta, NoObject
    <3> QED BY <3>1, <3>2, <3>3 DEF Weight, NoObject
  <2>5. CASE actual # s /\ s \notin plan.forward
    <3>1. pc = "stack" /\ step \in 1..9 /\ Steps[step] = k
      BY <2>1, <2>2, TypeParts DEF At, ProgressType
    <3>2. FoundUpdated(s)
      BY <1>1, <2>4, <2>5, <3>1 DEF PlanInv, Switched
    <3>3. \A r \in {"deployment", "service"} : Pending(s, r)
      <4>1. step \in {2, 4}
        BY <3>1 DEF Steps
      <4>2. Steps[7] = "deployment" /\ Steps[9] = "service"
        BY DEF Steps
      <4> QED BY <2>2, <3>1, <4>1, <4>2 DEF Pending
    <3>4. \A r \in {"deployment", "service"} :
             <<s, r>> \in touched \/ objects[s][r] = plan.objects[s][r]
      BY <1>1, <3>3 DEF PlanInv, Intact, Kinds
    <3> QED BY <3>2, <3>4 DEF FoundUpdated
  <2> QED BY <2>5
<1>2. PlanInv /\ [Next]_vars =>
        [\A s \in Stacks, k \in {"ingressSegment", "routeGroupSegment"} :
            objects'[s][k].weight > objects[s][k].weight => Fine(s)]_vars
  BY <1>1
<1> QED BY <1>2, PlanInvCorrect, PTL DEF ResourcesSpec, SwitchesToUpdated

(***************************************************************************)
(* The controller never changes the number of pods of an autoscaled stack  *)
(* but from and to none: it writes the number it has collected, and the    *)
(* write is refused if the deployment has changed since.                   *)
(***************************************************************************)
THEOREM AutoscaledKept == ResourcesSpec => KeepsAutoscaled
<1>1. ASSUME PlanInv, Next, NEW s \in Stacks, pc = "stack", faults' = faults,
             plan.template[s].autoscaled,
             objects[s]["deployment"].replicas > 0, objects'[s]["deployment"].replicas > 0
      PROVE  objects'[s]["deployment"].replicas = objects[s]["deployment"].replicas
  <2>1. TypeInv /\ "deployment" \in Kinds
    BY <1>1 DEF PlanInv, Kinds
  <2>2. objects[s]["deployment"] \in Objects
    BY <2>1, TypeParts DEF ObjectsType
  <2>3. CASE ChangedByOthers(s, "deployment")
    BY <1>1, <2>2, <2>3 DEF ChangedByOthers, NoObject, Objects
  <2>4. CASE WrittenByPass(s, "deployment")
    <3>1. At("deployment") /\ s = current
      BY <2>4 DEF WrittenByPass
    <3>2. Pending(s, "deployment")
      <4>1. pc = "stack" /\ step \in 1..9 /\ Steps[step] = "deployment"
        BY <2>1, <3>1, TypeParts DEF At, ProgressType
      <4> QED BY <3>1, <4>1 DEF Pending
    <3>3. plan.objects[s]["deployment"] # NoObject
      <4>1. objects[s]["deployment"] # NoObject
        BY <1>1 DEF NoObject
      <4> QED BY <1>1, <2>1, <3>2, <4>1 DEF PlanInv, Intact
    <3>4. Updatable("deployment")
      BY <1>1, <2>4, <3>3 DEF WrittenByPass, Creates, Existing
    <3>5. objects[s]["deployment"] = plan.objects[s]["deployment"]
      BY <1>1, <2>1, <3>1, <3>2, <3>4 DEF Updatable, PlanInv, Intact
    <3>6. objects'[s]["deployment"] = GenerateDeployment(s)
      BY <2>4 DEF WrittenByPass, New
    <3>7. objects'[s]["deployment"].replicas = Replicas(s)
      BY <1>1, <3>6 DEF GenerateDeployment, ObjectMeta, NoObject
    <3> QED BY <1>1, <3>5, <3>7 DEF Replicas
  <2> QED BY <1>1, <2>1, <2>3, <2>4, ResourceChange
<1>2. PlanInv /\ [Next]_vars =>
        [\A s \in Stacks :
            LET before == objects[s]["deployment"].replicas
                after == objects'[s]["deployment"].replicas
            IN  pc = "stack" /\ faults' = faults /\ plan.template[s].autoscaled
                   /\ before > 0 /\ after > 0 => after = before]_vars
  BY <1>1
<1> QED BY <1>2, PlanInvCorrect, PTL DEF ResourcesSpec, KeepsAutoscaled
=============================================================================
