------------------------ MODULE StackVersions_proofs ------------------------
(***************************************************************************)
(* Proofs about StackVersions, for any versions and any bounds: the types; *)
(* that a version is not observed before its stack was created; that the   *)
(* observed version only moves on in a pass that starts in time and gets   *)
(* the reply of its own update; and that StackVersions implements Rollout. *)
(***************************************************************************)
EXTENDS StackVersions, FiniteSetTheorems, TLAPS

\* Storing a StackSet keeps the types of the StackSet and of the watch events.
LEMMA StoreType ==
    ASSUME TypeOK, NEW ss \in StackSet, Store(ss)
    PROVE  stackset' \in StackSet /\ events' \in Seq(StackSet)
<1> DEFINE new == [ss EXCEPT !.version = stackset.version + 1]
<1>1. stackset.version + 1 \in Nat
  BY DEF TypeOK, StackSet
<1>2. new \in StackSet
  BY <1>1 DEF StackSet
<1>3. stackset' = new /\ events' = Append(events, new)
  BY DEF Store
<1> HIDE DEF new
<1> QED BY <1>2, <1>3 DEF TypeOK

\* The stacks of a container can be counted.
LEMMA CountType == ASSUME TypeOK PROVE Cardinality(listed) \in Nat
<1>1. IsFiniteSet(listed)
  BY VersionsAssumption, FS_Subset DEF TypeOK
<1> QED BY <1>1, FS_CardinalityType

\* What CreateCurrentStack writes: the StackSet with the version of the pass.
LEMMA Recorded ==
    ASSUME TypeOK, RecordVersion
    PROVE  \E new \in StackSet : /\ Store(new)
                                /\ new.template = stackset.template
                                /\ new.observed = seen.template
<1> DEFINE new == [stackset EXCEPT !.observed = seen.template]
<1>1. /\ new \in StackSet
      /\ new.template = stackset.template /\ new.observed = seen.template
  BY DEF TypeOK, StackSet
<1>2. Store(new)
  BY DEF RecordVersion
<1> HIDE DEF new
<1> QED BY <1>1, <1>2

\* Type correctness: the states of StackVersions have the types of TypeOK.
THEOREM TypeCorrect == Spec => []TypeOK
<1>1. Init => TypeOK
  <2> SUFFICES ASSUME Init PROVE TypeOK
    OBVIOUS
  <2>1. stackset \in StackSet
    BY DEF Init, StackSet
  <2>2. events \in Seq(StackSet)
    BY DEF Init
  <2>3. behind \in BOOLEAN
    BY Zenon DEF Init
  <2>4. /\ store = stackset /\ seen = stackset /\ asked = {stackset.template}
        /\ stacks = {} /\ listed = {} /\ created = {} /\ pc = "idle" /\ latest = NoVersion
        /\ edits = 0 /\ lags = 0 /\ failures = 0
    BY DEF Init
  <2>5. stackset.template \in Versions
    BY <2>1 DEF StackSet
  <2> QED BY <2>1, <2>2, <2>3, <2>4, <2>5, BoundsAssumption DEF TypeOK
<1>2. TypeOK /\ [Next]_vars => TypeOK'
  <2> SUFFICES ASSUME TypeOK, [Next]_vars PROVE TypeOK'
    OBVIOUS
  <2> USE VersionsAssumption, BoundsAssumption
  <2>1. ASSUME NEW v \in Versions, UserSetsVersion(v) PROVE TypeOK'
    <3>1. [stackset EXCEPT !.template = v] \in StackSet
      BY DEF TypeOK, StackSet
    <3>2. stackset' \in StackSet /\ events' \in Seq(StackSet)
      BY <2>1, <3>1, StoreType DEF UserSetsVersion
    <3> QED BY <2>1, <3>2 DEF UserSetsVersion, Edit, TypeOK, pass, history
  <2>2. ASSUME UserEditsOther PROVE TypeOK'
    <3>1. stackset' \in StackSet /\ events' \in Seq(StackSet)
      BY <2>2, StoreType DEF UserEditsOther, TypeOK
    <3> QED BY <2>2, <3>1 DEF UserEditsOther, Edit, TypeOK, pass, history
  <2>3. ASSUME NEW v \in Versions, StackRemoved(v) PROVE TypeOK'
    BY <2>3 DEF StackRemoved, Edit, TypeOK, pass, history
  <2>4. ASSUME TakeEvent PROVE TypeOK'
    <3>1. store' \in StackSet /\ events' \in Seq(StackSet)
      BY <2>4 DEF TakeEvent, TypeOK
    <3> QED BY <2>4, <3>1 DEF TakeEvent, TypeOK, pass, history, bounds
  <2>5. ASSUME Collect PROVE TypeOK'
    BY <2>5 DEF Collect, TypeOK, cluster, history
  <2>6. ASSUME NoNewStack PROVE TypeOK'
    BY <2>6 DEF NoNewStack, TypeOK, cluster, pass, history, bounds
  <2>7. ASSUME CreateStack PROVE TypeOK'
    <3>1. seen.template \in Versions
      BY DEF TypeOK, StackSet
    <3> QED BY <2>7, <3>1 DEF CreateStack, StackAppears, TypeOK, pass, bounds
  <2>8. ASSUME ObserveVersion PROVE TypeOK'
    <3>1. seen.template \in Versions
      BY DEF TypeOK, StackSet
    <3>2. stackset' \in StackSet /\ events' \in Seq(StackSet)
          /\ seen' \in StackSet /\ listed' \subseteq Versions
      <4>1. CASE UpToDate
        <5>1. stackset' \in StackSet /\ events' \in Seq(StackSet)
          BY <2>8, <4>1, Recorded, StoreType DEF ObserveVersion
        <5> QED BY <2>8, <3>1, <4>1, <5>1 DEF ObserveVersion, TypeOK
      <4>2. CASE ~UpToDate
        BY <2>8, <4>2 DEF ObserveVersion, TypeOK, pass
      <4> QED BY <4>1, <4>2
    <3> QED BY <2>8, <3>2 DEF ObserveVersion, TypeOK, history, bounds
  <2>9. ASSUME ReconcileStatuses PROVE TypeOK'
    <3>1. WithStatus(stackset) \in StackSet
      BY CountType DEF TypeOK, StackSet, WithStatus
    <3>2. stackset' \in StackSet /\ events' \in Seq(StackSet)
      <4>1. CASE UNCHANGED <<stackset, events>>
        BY <4>1 DEF TypeOK
      <4>2. CASE Store(WithStatus(stackset))
        BY <3>1, <4>2, StoreType
      <4> QED BY <2>9, <4>1, <4>2 DEF ReconcileStatuses
    <3> QED BY <2>9, <3>2 DEF ReconcileStatuses, TypeOK, pass, history, bounds
  <2>10. ASSUME CreateFails PROVE TypeOK'
    <3>1. seen.template \in Versions
      BY DEF TypeOK, StackSet
    <3> QED BY <2>10, <3>1 DEF CreateFails, Fail, StackAppears, TypeOK, pass
  <2>11. ASSUME ObserveFails PROVE TypeOK'
    <3>1. stackset' \in StackSet /\ events' \in Seq(StackSet) /\ behind' \in BOOLEAN
      <4>1. CASE RecordVersion /\ behind' = TRUE
        BY <4>1, Recorded, StoreType
      <4>2. CASE UNCHANGED <<stackset, events, behind>>
        BY <4>2 DEF TypeOK
      <4> QED BY <2>11, <4>1, <4>2 DEF ObserveFails
    <3> QED BY <2>11, <3>1 DEF ObserveFails, Fail, TypeOK, pass
  <2>12. ASSUME PassFails PROVE TypeOK'
    BY <2>12 DEF PassFails, Fail, TypeOK, cluster, pass, history
  <2>13. ASSUME Restart PROVE TypeOK'
    <3>1. events' \in Seq(StackSet)
      BY <2>13 DEF Restart
    <3> QED BY <2>13, <3>1 DEF Restart, Fail, TypeOK, pass, history
  <2>14. CASE UNCHANGED vars
    BY <2>14 DEF vars, TypeOK, cluster, pass, history, bounds
  <2> QED
    BY <2>1, <2>2, <2>3, <2>4, <2>5, <2>6, <2>7, <2>8, <2>9, <2>10, <2>11, <2>12, <2>13, <2>14
    DEF Next, Pass, Failure, Environment
<1> QED BY <1>1, <1>2, PTL DEF Spec

\* A StackSet whose observed version was created is stored without harm.
LEMMA StoreCreated ==
    ASSUME TypeOK, ObservedWasCreated, NEW ss \in StackSet, Store(ss),
           created \subseteq created', ss.observed \in created \union {NoVersion},
           store' = store
    PROVE  /\ Created(stackset)'
           /\ \A i \in 1..Len(events') : Created(events[i])'
<1> DEFINE new == [ss EXCEPT !.version = stackset.version + 1]
<1>1. new.observed = ss.observed
  BY DEF StackSet
<1>2. stackset' = new /\ events' = Append(events, new)
  BY DEF Store
<1>3. new.observed \in created' \union {NoVersion}
  BY <1>1
<1> HIDE DEF new
<1>4. ASSUME NEW i \in 1..Len(events') PROVE Created(events[i])'
  <2>1. CASE i \in 1..Len(events)
    <3>1. events'[i] = events[i]
      BY <1>2, <2>1 DEF TypeOK
    <3> QED BY <2>1, <3>1 DEF ObservedWasCreated, Created
  <2>2. CASE i = Len(events) + 1
    <3>1. events'[i] = new
      BY <1>2, <2>2 DEF TypeOK
    <3> QED BY <1>3, <3>1 DEF Created
  <2>3. Len(events') = Len(events) + 1
    BY <1>2 DEF TypeOK
  <2>4. Len(events) \in Nat
    BY DEF TypeOK
  <2> QED BY <2>1, <2>2, <2>3, <2>4
<1> QED BY <1>2, <1>3, <1>4 DEF Created

(***************************************************************************)
(* The observed version, in the API server and in every copy of the        *)
(* StackSet the controller may come to work on, is one whose stack was     *)
(* created: CreateCurrentStack writes it only after the stack.             *)
(***************************************************************************)
THEOREM ObservedCorrect == Spec => []ObservedInv
<1>1. Init => ObservedInv
  BY DEF Init, ObservedInv, ObservedWasCreated, Created
<1>2. TypeOK /\ ObservedInv /\ [Next]_vars => ObservedInv'
  <2> SUFFICES ASSUME TypeOK, ObservedInv, [Next]_vars PROVE ObservedInv'
    OBVIOUS
  <2> USE DEF ObservedInv
  <2>1. ASSUME NEW v \in Versions, UserSetsVersion(v) PROVE ObservedInv'
    <3>1. /\ [stackset EXCEPT !.template = v] \in StackSet
          /\ [stackset EXCEPT !.template = v].observed \in created \union {NoVersion}
      BY DEF TypeOK, StackSet, ObservedWasCreated, Created
    <3> QED
      BY <2>1, <3>1, StoreCreated DEF UserSetsVersion, ObservedWasCreated, Created, pass, history
  <2>2. ASSUME UserEditsOther PROVE ObservedInv'
    <3>1. stackset \in StackSet /\ stackset.observed \in created \union {NoVersion}
      BY DEF TypeOK, ObservedWasCreated, Created
    <3> QED
      BY <2>2, <3>1, StoreCreated
      DEF UserEditsOther, ObservedWasCreated, Created, pass, history
  <2>3. ASSUME NEW v \in Versions, StackRemoved(v) PROVE ObservedInv'
    BY <2>3 DEF StackRemoved, ObservedWasCreated, Created, pass, history
  <2>4. ASSUME TakeEvent PROVE ObservedInv'
    <3>1. Len(events) \in Nat /\ Len(events) > 0
      BY <2>4 DEF TakeEvent, TypeOK
    <3>2. Created(store)'
      BY <2>4, <3>1 DEF TakeEvent, TypeOK, ObservedWasCreated, Created, history
    <3>3. ASSUME NEW i \in 1..Len(events') PROVE Created(events[i])'
      <4>1. i + 1 \in 1..Len(events) /\ events'[i] = events[i + 1]
        BY <2>4, <3>1 DEF TakeEvent, TypeOK
      <4> QED BY <2>4, <4>1 DEF TakeEvent, ObservedWasCreated, Created, history
    <3> QED
      BY <2>4, <3>2, <3>3 DEF TakeEvent, ObservedWasCreated, Created, pass, history
  <2>5. ASSUME Collect PROVE ObservedInv'
    BY <2>5 DEF Collect, ObservedWasCreated, Created, cluster, history
  <2>6. ASSUME NoNewStack PROVE ObservedInv'
    BY <2>6 DEF NoNewStack, ObservedWasCreated, Created, cluster, pass, history
  <2>7. ASSUME CreateStack PROVE ObservedInv'
    BY <2>7 DEF CreateStack, StackAppears, ObservedWasCreated, Created, pass
  <2>8. ASSUME ObserveVersion PROVE ObservedInv'
    <3>1. CASE UpToDate
      <4>1. /\ Created(stackset)'
            /\ \A i \in 1..Len(events') : Created(events[i])'
        BY <2>8, <3>1, Recorded, StoreCreated DEF ObserveVersion, history
      <4> QED
        BY <2>8, <3>1, <4>1 DEF ObserveVersion, ObservedWasCreated, Created, history
    <3>2. CASE ~UpToDate
      BY <2>8, <3>2 DEF ObserveVersion, ObservedWasCreated, Created, pass, history
    <3> QED BY <3>1, <3>2
  <2>9. ASSUME ReconcileStatuses PROVE ObservedInv'
    <3>1. /\ WithStatus(stackset) \in StackSet
          /\ WithStatus(stackset).observed \in created \union {NoVersion}
      BY CountType DEF TypeOK, StackSet, WithStatus, ObservedWasCreated, Created
    <3>2. CASE UNCHANGED <<stackset, events>>
      BY <2>9, <3>2 DEF ReconcileStatuses, ObservedWasCreated, Created, pass, history
    <3>3. CASE Store(WithStatus(stackset))
      BY <2>9, <3>1, <3>3, StoreCreated
      DEF ReconcileStatuses, ObservedWasCreated, Created, pass, history
    <3> QED BY <2>9, <3>2, <3>3 DEF ReconcileStatuses
  <2>10. ASSUME CreateFails PROVE ObservedInv'
    BY <2>10 DEF CreateFails, StackAppears, ObservedWasCreated, Created, pass
  <2>11. ASSUME ObserveFails PROVE ObservedInv'
    <3>1. CASE RecordVersion
      <4>1. /\ Created(stackset)'
            /\ \A i \in 1..Len(events') : Created(events[i])'
        BY <2>11, <3>1, Recorded, StoreCreated DEF ObserveFails
      <4> QED BY <2>11, <4>1 DEF ObserveFails, ObservedWasCreated, Created, pass
    <3>2. CASE UNCHANGED <<stackset, events>>
      BY <2>11, <3>2 DEF ObserveFails, ObservedWasCreated, Created, pass
    <3> QED BY <2>11, <3>1, <3>2 DEF ObserveFails
  <2>12. ASSUME PassFails PROVE ObservedInv'
    BY <2>12 DEF PassFails, ObservedWasCreated, Created, cluster, pass, history
  <2>13. ASSUME Restart PROVE ObservedInv'
    BY <2>13 DEF Restart, ObservedWasCreated, Created, pass, history
  <2>14. CASE UNCHANGED vars
    BY <2>14 DEF vars, ObservedWasCreated, Created, cluster, pass, history
  <2> QED
    BY <2>1, <2>2, <2>3, <2>4, <2>5, <2>6, <2>7, <2>8, <2>9, <2>10, <2>11, <2>12, <2>13, <2>14
    DEF Next, Pass, Failure, Environment
<1> QED BY <1>1, <1>2, TypeCorrect, PTL DEF Spec

\* No version counts as observed, anywhere, before its stack was created.
THEOREM ObservedAfterCreation == Spec => []ObservedWasCreated
<1>1. ObservedInv => ObservedWasCreated
  BY DEF ObservedInv
<1> QED BY <1>1, ObservedCorrect, PTL

(***************************************************************************)
(* What makes the observed version move on: the controller's copy and the  *)
(* events that wait lead to the StackSet as it is, so a pass that is not   *)
(* behind has its observed version, which no one else changes while the    *)
(* pass goes on; what the pass comes to observe is its own stack.          *)
(***************************************************************************)
CopyIsCurrent ==
    /\ IF events = <<>> THEN store = stackset ELSE events[Len(events)] = stackset
    /\ ~behind /\ pc # "idle" => seen.observed = stackset.observed
    /\ pc = "observe" => seen.template = latest

\* What is stored is the last event.
LEMMA StoreIsLast ==
    ASSUME TypeOK, NEW ss \in StackSet, Store(ss)
    PROVE  /\ stackset'.observed = ss.observed
           /\ events' # <<>> /\ events'[Len(events')] = stackset'
<1> DEFINE new == [ss EXCEPT !.version = stackset.version + 1]
<1>1. new.observed = ss.observed
  BY DEF StackSet
<1>2. stackset' = new /\ events' = Append(events, new) /\ events \in Seq(StackSet)
  BY DEF Store, TypeOK
<1> HIDE DEF new
<1> QED BY <1>1, <1>2

\* Every step keeps the copy current.
LEMMA NextCurrent == TypeOK /\ CopyIsCurrent /\ [Next]_vars => CopyIsCurrent'
<1> SUFFICES ASSUME TypeOK, CopyIsCurrent, [Next]_vars PROVE CopyIsCurrent'
  OBVIOUS
<1>1. ASSUME NEW v \in Versions, UserSetsVersion(v) PROVE CopyIsCurrent'
  <2> DEFINE new == [stackset EXCEPT !.template = v]
  <2>1. new \in StackSet /\ new.observed = stackset.observed
    BY DEF TypeOK, StackSet
  <2>2. Store(new) /\ UNCHANGED <<seen, pc, latest, behind>>
    BY <1>1 DEF UserSetsVersion, pass
  <2> HIDE DEF new
  <2> QED BY <2>1, <2>2, StoreIsLast DEF CopyIsCurrent
<1>2. ASSUME UserEditsOther PROVE CopyIsCurrent'
  <2>1. stackset \in StackSet
    BY DEF TypeOK
  <2> QED BY <1>2, <2>1, StoreIsLast DEF UserEditsOther, CopyIsCurrent, pass, history
<1>3. ASSUME NEW v \in Versions, StackRemoved(v) PROVE CopyIsCurrent'
  BY <1>3 DEF StackRemoved, CopyIsCurrent, pass, history
<1>4. ASSUME TakeEvent PROVE CopyIsCurrent'
  <2>1. /\ events \in Seq(StackSet) /\ events # <<>> /\ pc' = "idle"
        /\ store' = Head(events) /\ events' = Tail(events) /\ stackset' = stackset
        /\ events[Len(events)] = stackset
    BY <1>4 DEF TakeEvent, TypeOK, CopyIsCurrent
  <2>2. CASE Len(events) = 1
    <3>1. events' = <<>> /\ store' = stackset'
      BY <2>1, <2>2
    <3> QED BY <2>1, <3>1 DEF CopyIsCurrent
  <2>3. CASE Len(events) # 1
    <3>1. Len(events) \in Nat /\ Len(events) > 1
      BY <2>1, <2>3
    <3>2. Len(events') = Len(events) - 1 /\ events' # <<>>
      <4>1. Len(Tail(events)) = Len(events) - 1
        BY <2>1
      <4>2. Len(<<>>) = 0
        OBVIOUS
      <4> QED BY <2>1, <3>1, <4>1, <4>2
    <3>3. events'[Len(events')] = events[Len(events)]
      BY <2>1, <3>1, <3>2
    <3> QED BY <2>1, <3>2, <3>3 DEF CopyIsCurrent
  <2> QED BY <2>2, <2>3
<1>5. ASSUME Collect PROVE CopyIsCurrent'
  BY <1>5 DEF Collect, CopyIsCurrent, cluster
<1>6. ASSUME NoNewStack PROVE CopyIsCurrent'
  BY <1>6 DEF NoNewStack, CopyIsCurrent, cluster, pass, history, bounds
<1>7. ASSUME CreateStack PROVE CopyIsCurrent'
  BY <1>7 DEF CreateStack, StackAppears, CopyIsCurrent, pass, bounds
<1>8. ASSUME ObserveVersion PROVE CopyIsCurrent'
  <2>1. CASE UpToDate
    <3>1. RecordVersion /\ seen' = stackset' /\ pc' = "status"
      BY <1>8, <2>1 DEF ObserveVersion
    <3> QED BY <3>1, Recorded, StoreIsLast DEF CopyIsCurrent
  <2>2. CASE ~UpToDate
    BY <1>8, <2>2 DEF ObserveVersion, CopyIsCurrent, pass, history, bounds
  <2> QED BY <2>1, <2>2
<1>9. ASSUME ReconcileStatuses PROVE CopyIsCurrent'
  <2>1. WithStatus(stackset) \in StackSet
    BY CountType DEF TypeOK, StackSet, WithStatus
  <2>2. CASE UNCHANGED <<stackset, events>>
    BY <1>9, <2>2 DEF ReconcileStatuses, CopyIsCurrent
  <2>3. CASE Store(WithStatus(stackset))
    BY <1>9, <2>1, <2>3, StoreIsLast DEF ReconcileStatuses, CopyIsCurrent
  <2> QED BY <1>9, <2>2, <2>3 DEF ReconcileStatuses
<1>10. ASSUME CreateFails PROVE CopyIsCurrent'
  BY <1>10 DEF CreateFails, CopyIsCurrent, pass
<1>11. ASSUME ObserveFails PROVE CopyIsCurrent'
  <2>1. CASE RecordVersion /\ behind' = TRUE
    BY <1>11, <2>1, Recorded, StoreIsLast DEF ObserveFails, CopyIsCurrent
  <2>2. CASE UNCHANGED <<stackset, events, behind>>
    BY <1>11, <2>2 DEF ObserveFails, CopyIsCurrent, pass
  <2> QED BY <1>11, <2>1, <2>2 DEF ObserveFails
<1>12. ASSUME PassFails PROVE CopyIsCurrent'
  BY <1>12 DEF PassFails, CopyIsCurrent, cluster
<1>13. ASSUME Restart PROVE CopyIsCurrent'
  BY <1>13 DEF Restart, CopyIsCurrent
<1>14. CASE UNCHANGED vars
  BY <1>14 DEF vars, CopyIsCurrent, cluster, pass, history, bounds
<1> QED
  BY <1>1, <1>2, <1>3, <1>4, <1>5, <1>6, <1>7, <1>8, <1>9, <1>10, <1>11, <1>12, <1>13, <1>14
  DEF Next, Pass, Failure, Environment

(***************************************************************************)
(* A pass that started in time and did not lose the reply of its own       *)
(* update moves the observed version on to the version whose stack was     *)
(* created last, although ReconcileStatuses writes over whatever it finds  *)
(* and whatever went wrong in the passes before.                           *)
(***************************************************************************)
THEOREM ObservedGoesForward == Spec => ObservedMovesOn
<1>1. Init => CopyIsCurrent
  BY DEF Init, CopyIsCurrent
<1>2. TypeOK /\ CopyIsCurrent /\ [Next]_vars
      => [~behind /\ stackset'.observed # stackset.observed
          => stackset'.observed = latest]_vars
  <2> SUFFICES ASSUME TypeOK, CopyIsCurrent, Next, ~behind,
                      stackset'.observed # stackset.observed
               PROVE  stackset'.observed = latest
    BY DEF vars, cluster
  <2>1. CASE Environment
    <3>1. ASSUME NEW v \in Versions, UserSetsVersion(v) PROVE FALSE
      <4>1. /\ [stackset EXCEPT !.template = v] \in StackSet
            /\ [stackset EXCEPT !.template = v].observed = stackset.observed
        BY DEF TypeOK, StackSet
      <4> QED BY <3>1, <4>1, StoreIsLast DEF UserSetsVersion
    <3>2. ASSUME UserEditsOther PROVE FALSE
      <4>1. stackset \in StackSet
        BY DEF TypeOK
      <4> QED BY <3>2, <4>1, StoreIsLast DEF UserEditsOther
    <3>3. ASSUME NEW v \in Versions, StackRemoved(v) PROVE FALSE
      BY <3>3 DEF StackRemoved
    <3> QED BY <2>1, <3>1, <3>2, <3>3 DEF Environment
  <2>2. CASE ObserveVersion \/ ObserveFails
    <3>1. seen.template = latest /\ RecordVersion
      BY <2>2 DEF ObserveVersion, ObserveFails, CopyIsCurrent
    <3> QED BY <3>1, Recorded, StoreIsLast
  <2>3. CASE ReconcileStatuses
    <3>1. /\ WithStatus(stackset) \in StackSet
          /\ WithStatus(stackset).observed = seen.observed
      BY CountType DEF TypeOK, StackSet, WithStatus
    <3>2. seen.observed = stackset.observed
      BY <2>3 DEF ReconcileStatuses, CopyIsCurrent
    <3> QED BY <2>3, <3>1, <3>2, StoreIsLast DEF ReconcileStatuses
  <2>4. CASE \/ TakeEvent \/ Collect \/ NoNewStack \/ CreateStack
             \/ CreateFails \/ PassFails \/ Restart
    BY <2>4 DEF TakeEvent, Collect, NoNewStack, CreateStack, CreateFails, PassFails,
                Restart, cluster
  <2> QED BY <2>1, <2>2, <2>3, <2>4 DEF Next, Pass, Failure
<1> QED BY <1>1, <1>2, NextCurrent, TypeCorrect, PTL DEF Spec, ObservedMovesOn

(***************************************************************************)
(* StackVersions implements Rollout.                                       *)
(***************************************************************************)
\* Storing a StackSet with a version that was asked for keeps all copies such.
LEMMA StoreAsked ==
    ASSUME TypeOK, AskedInv, NEW ss \in StackSet, Store(ss),
           asked \subseteq asked', ss.template \in asked'
    PROVE  /\ stackset'.template = ss.template /\ stackset'.observed = ss.observed
           /\ \A i \in 1..Len(events') : events'[i].template \in asked'
<1> DEFINE new == [ss EXCEPT !.version = stackset.version + 1]
<1>1. new.template = ss.template /\ new.observed = ss.observed
  BY DEF StackSet
<1>2. stackset' = new /\ events' = Append(events, new)
  BY DEF Store
<1> HIDE DEF new
<1>3. ASSUME NEW i \in 1..Len(events') PROVE events'[i].template \in asked'
  <2>1. Len(events) \in Nat /\ Len(events') = Len(events) + 1
    BY <1>2 DEF TypeOK
  <2>2. CASE i \in 1..Len(events)
    <3>1. events'[i] = events[i]
      BY <1>2, <2>2 DEF TypeOK
    <3> QED BY <2>2, <3>1 DEF AskedInv
  <2>3. CASE i = Len(events) + 1
    <3>1. events'[i] = new
      BY <1>2, <2>3 DEF TypeOK
    <3> QED BY <1>1, <3>1
  <2> QED BY <2>1, <2>2, <2>3
<1> QED BY <1>1, <1>2, <1>3

\* The controller's copies only have versions the user has asked for.
THEOREM AskedCorrect == Spec => []AskedInv
<1>1. Init => AskedInv
  BY DEF Init, AskedInv
<1>2. TypeOK /\ AskedInv /\ [Next]_vars => AskedInv'
  <2> SUFFICES ASSUME TypeOK, AskedInv, [Next]_vars PROVE AskedInv'
    OBVIOUS
  <2>1. ASSUME NEW v \in Versions, UserSetsVersion(v) PROVE AskedInv'
    <3> DEFINE new == [stackset EXCEPT !.template = v]
    <3>1. new \in StackSet /\ new.template = v
      BY DEF TypeOK, StackSet
    <3>2. Store(new) /\ asked' = asked \union {v} /\ UNCHANGED <<store, seen>>
      BY <2>1 DEF UserSetsVersion, pass
    <3> HIDE DEF new
    <3>3. /\ stackset'.template = new.template
          /\ \A i \in 1..Len(events') : events'[i].template \in asked'
      BY <3>1, <3>2, StoreAsked
    <3> QED BY <3>1, <3>2, <3>3 DEF AskedInv
  <2>2. ASSUME UserEditsOther PROVE AskedInv'
    <3>1. stackset \in StackSet
      BY DEF TypeOK
    <3> QED BY <2>2, <3>1, StoreAsked DEF UserEditsOther, AskedInv, pass, history
  <2>3. ASSUME NEW v \in Versions, StackRemoved(v) PROVE AskedInv'
    BY <2>3 DEF StackRemoved, AskedInv, pass, history
  <2>4. ASSUME TakeEvent PROVE AskedInv'
    <3>1. Len(events) \in Nat /\ Len(events) > 0
      BY <2>4 DEF TakeEvent, TypeOK
    <3>2. store'.template \in asked'
      BY <2>4, <3>1 DEF TakeEvent, TypeOK, AskedInv, history
    <3>3. ASSUME NEW i \in 1..Len(events') PROVE events'[i].template \in asked'
      <4>1. i + 1 \in 1..Len(events) /\ events'[i] = events[i + 1]
        BY <2>4, <3>1 DEF TakeEvent, TypeOK
      <4> QED BY <2>4, <4>1 DEF TakeEvent, AskedInv, history
    <3> QED BY <2>4, <3>2, <3>3 DEF TakeEvent, AskedInv, pass, history
  <2>5. ASSUME Collect PROVE AskedInv'
    BY <2>5 DEF Collect, AskedInv, cluster, history
  <2>6. ASSUME NoNewStack PROVE AskedInv'
    BY <2>6 DEF NoNewStack, AskedInv, cluster, pass, history
  <2>7. ASSUME CreateStack PROVE AskedInv'
    BY <2>7 DEF CreateStack, AskedInv, pass
  <2>8. ASSUME ObserveVersion PROVE AskedInv'
    <3>1. CASE UpToDate
      <4>1. /\ RecordVersion /\ seen' = stackset'
            /\ asked' = asked /\ store' = store /\ stackset.template \in asked'
        BY <2>8, <3>1 DEF ObserveVersion, AskedInv, history
      <4>2. /\ stackset'.template = stackset.template
            /\ \A i \in 1..Len(events') : events'[i].template \in asked'
        BY <4>1, Recorded, StoreAsked
      <4> QED BY <4>1, <4>2 DEF AskedInv
    <3>2. CASE ~UpToDate
      BY <2>8, <3>2 DEF ObserveVersion, AskedInv, pass, history
    <3> QED BY <3>1, <3>2
  <2>9. ASSUME ReconcileStatuses PROVE AskedInv'
    <3>1. /\ WithStatus(stackset) \in StackSet
          /\ WithStatus(stackset).template = stackset.template
      BY CountType DEF TypeOK, StackSet, WithStatus
    <3>2. CASE UNCHANGED <<stackset, events>>
      BY <2>9, <3>2 DEF ReconcileStatuses, AskedInv, pass, history
    <3>3. CASE Store(WithStatus(stackset))
      BY <2>9, <3>1, <3>3, StoreAsked DEF ReconcileStatuses, AskedInv, pass, history
    <3> QED BY <2>9, <3>2, <3>3 DEF ReconcileStatuses
  <2>10. ASSUME CreateFails PROVE AskedInv'
    BY <2>10 DEF CreateFails, AskedInv, pass
  <2>11. ASSUME ObserveFails PROVE AskedInv'
    <3>1. CASE RecordVersion
      <4>1. /\ UNCHANGED <<asked, store, seen>> /\ stackset.template \in asked'
        BY <2>11 DEF ObserveFails, AskedInv, pass
      <4>2. /\ stackset'.template = stackset.template
            /\ \A i \in 1..Len(events') : events'[i].template \in asked'
        BY <3>1, <4>1, Recorded, StoreAsked
      <4> QED BY <4>1, <4>2 DEF AskedInv
    <3>2. CASE UNCHANGED <<stackset, events>>
      BY <2>11, <3>2 DEF ObserveFails, AskedInv, pass
    <3> QED BY <2>11, <3>1, <3>2 DEF ObserveFails
  <2>12. ASSUME PassFails PROVE AskedInv'
    BY <2>12 DEF PassFails, AskedInv, cluster, pass, history
  <2>13. ASSUME Restart PROVE AskedInv'
    BY <2>13 DEF Restart, AskedInv, pass, history
  <2>14. CASE UNCHANGED vars
    BY <2>14 DEF vars, AskedInv, cluster, pass, history
  <2> QED
    BY <2>1, <2>2, <2>3, <2>4, <2>5, <2>6, <2>7, <2>8, <2>9, <2>10, <2>11, <2>12, <2>13, <2>14
    DEF Next, Pass, Failure, Environment
<1> QED BY <1>1, <1>2, TypeCorrect, PTL DEF Spec

(***************************************************************************)
(* Every behaviour of the controller is one of Rollout: each step maps to  *)
(* one thing that is promised there, or to none.  Recording the version    *)
(* observes it, whether the reply arrives or not.                          *)
(***************************************************************************)
THEOREM RolloutImplemented == Spec => ImplementsRollout
<1>1. Init => Promise!Init
  BY DEF Init, Promise!Init
<1>2. TypeOK /\ ObservedInv /\ AskedInv /\ [Next]_vars => [Promise!Next]_Promise!vars
  <2> SUFFICES ASSUME TypeOK, ObservedInv, AskedInv, [Next]_vars
               PROVE  Promise!Next \/ UNCHANGED Promise!vars
    OBVIOUS
  <2> USE DEF Promise!vars
  <2>0. seen.template \in Versions /\ seen.template \in asked
    BY DEF TypeOK, StackSet, AskedInv
  <2>record. ASSUME pc = "observe", RecordVersion, UNCHANGED <<stacks, asked, created, latest>>
             PROVE  Promise!Next
    <3>1. stackset.template \in asked'
      BY <2>record DEF AskedInv
    <3>2. stackset'.template = stackset.template /\ stackset'.observed = seen.template
      BY <2>record, <3>1, Recorded, StoreAsked
    <3>3. Promise!Observe(seen.template)
      BY <2>record, <3>2 DEF ObservedInv, Promise!Observe
    <3> QED BY <2>0, <3>3 DEF Promise!Next
  <2>1. ASSUME NEW v \in Versions, UserSetsVersion(v) PROVE Promise!Next
    <3> DEFINE new == [stackset EXCEPT !.template = v]
    <3>1. new \in StackSet /\ new.template = v /\ new.observed = stackset.observed
      BY DEF TypeOK, StackSet
    <3>2. Store(new) /\ asked' = asked \union {v} /\ UNCHANGED <<stacks, created>>
      BY <2>1 DEF UserSetsVersion
    <3> HIDE DEF new
    <3>3. stackset'.template = new.template /\ stackset'.observed = new.observed
      BY <3>1, <3>2, StoreAsked
    <3>4. Promise!Ask(v)
      BY <3>1, <3>2, <3>3 DEF Promise!Ask
    <3> QED BY <3>4 DEF Promise!Next
  <2>2. ASSUME UserEditsOther PROVE UNCHANGED Promise!vars
    <3>1. stackset \in StackSet /\ stackset.template \in asked
      BY DEF TypeOK, AskedInv
    <3> QED BY <2>2, <3>1, StoreAsked DEF UserEditsOther, history
  <2>3. ASSUME NEW v \in Versions, StackRemoved(v) PROVE Promise!Next
    <3>1. Promise!Remove(v)
      BY <2>3 DEF StackRemoved, Promise!Remove, history
    <3> QED BY <3>1 DEF Promise!Next
  <2>4. ASSUME TakeEvent PROVE UNCHANGED Promise!vars
    BY <2>4 DEF TakeEvent, history
  <2>5. ASSUME Collect PROVE UNCHANGED Promise!vars
    BY <2>5 DEF Collect, cluster, history
  <2>6. ASSUME NoNewStack PROVE UNCHANGED Promise!vars
    BY <2>6 DEF NoNewStack, cluster, history
  <2>7. ASSUME CreateStack PROVE Promise!Next
    <3>1. Promise!Create(seen.template)
      BY <2>0, <2>7 DEF CreateStack, StackAppears, Promise!Create
    <3> QED BY <2>0, <3>1 DEF Promise!Next
  <2>8. ASSUME ObserveVersion PROVE Promise!Next \/ UNCHANGED Promise!vars
    <3>1. CASE UpToDate
      BY <2>8, <2>record, <3>1 DEF ObserveVersion, history
    <3>2. CASE ~UpToDate
      BY <2>8, <3>2 DEF ObserveVersion, history
    <3> QED BY <3>1, <3>2
  <2>9. ASSUME ReconcileStatuses PROVE Promise!Next \/ UNCHANGED Promise!vars
    <3>1. CASE UNCHANGED <<stackset, events>>
      BY <2>9, <3>1 DEF ReconcileStatuses, history
    <3>2. CASE Store(WithStatus(stackset))
      <4>1. /\ WithStatus(stackset) \in StackSet
            /\ WithStatus(stackset).template = stackset.template
            /\ WithStatus(stackset).observed = seen.observed
        BY CountType DEF TypeOK, StackSet, WithStatus
      <4>2. stackset'.template = stackset.template /\ stackset'.observed = seen.observed
        BY <2>9, <3>2, <4>1, StoreAsked DEF ReconcileStatuses, AskedInv, history
      <4>3. seen.observed \in created \union {NoVersion}
            /\ seen.observed \in Versions \union {NoVersion}
        BY DEF ObservedInv, ObservedWasCreated, Created, TypeOK, StackSet
      <4>4. Promise!Observe(seen.observed)
        BY <2>9, <4>2, <4>3 DEF ReconcileStatuses, Promise!Observe, history
      <4> QED BY <4>3, <4>4 DEF Promise!Next
    <3> QED BY <2>9, <3>1, <3>2 DEF ReconcileStatuses
  <2>10. ASSUME CreateFails PROVE Promise!Next \/ UNCHANGED Promise!vars
    <3>1. CASE StackAppears
      <4>1. Promise!Create(seen.template)
        BY <2>0, <2>10, <3>1 DEF CreateFails, StackAppears, Promise!Create
      <4> QED BY <2>0, <4>1 DEF Promise!Next
    <3>2. CASE UNCHANGED <<stacks, created, latest>>
      BY <2>10, <3>2 DEF CreateFails
    <3> QED BY <2>10, <3>1, <3>2 DEF CreateFails
  <2>11. ASSUME ObserveFails PROVE Promise!Next \/ UNCHANGED Promise!vars
    <3>1. CASE RecordVersion
      BY <2>11, <2>record, <3>1 DEF ObserveFails
    <3>2. CASE UNCHANGED <<stackset, events>>
      BY <2>11, <3>2 DEF ObserveFails
    <3> QED BY <2>11, <3>1, <3>2 DEF ObserveFails
  <2>12. ASSUME PassFails PROVE UNCHANGED Promise!vars
    BY <2>12 DEF PassFails, cluster, history
  <2>13. ASSUME Restart PROVE UNCHANGED Promise!vars
    BY <2>13 DEF Restart, history
  <2>14. CASE UNCHANGED vars
    BY <2>14 DEF vars, cluster, history
  <2> QED
    BY <2>1, <2>2, <2>3, <2>4, <2>5, <2>6, <2>7, <2>8, <2>9, <2>10, <2>11, <2>12, <2>13, <2>14
    DEF Next, Pass, Failure, Environment
<1> QED
  BY <1>1, <1>2, TypeCorrect, ObservedCorrect, AskedCorrect, PTL
  DEF Spec, ImplementsRollout, Promise!Spec
=============================================================================
