--------------------------- MODULE StackVersions ---------------------------
(***************************************************************************)
(* How a StackSet gets its stacks: a stack is created once for every       *)
(* version the user writes into the template, and status.observedStackVersion *)
(* is to keep a stack that was removed from being created again.           *)
(*                                                                         *)
(* The controller works on a copy of the StackSet that the events of a     *)
(* watch bring up to date, one by one, between two passes.  Updates of the *)
(* status carry the resource version of the copy: CreateCurrentStack gives *)
(* up when it is outdated, ReconcileStatuses reads the StackSet again and  *)
(* overwrites its whole status.                                            *)
(***************************************************************************)
EXTENDS Integers, Sequences, FiniteSets

CONSTANTS
    Versions,     \* the versions a user may ask for
    NoVersion,    \* an empty observedStackVersion
    MaxEdits,     \* bound: edits of the StackSet and removals of stacks
    MaxLag,       \* bound: passes that start on an outdated copy
    MaxFailures   \* bound: failed calls and crashes

ASSUME VersionsAssumption == IsFiniteSet(Versions) /\ NoVersion \notin Versions
ASSUME BoundsAssumption == MaxEdits \in Nat /\ MaxLag \in Nat /\ MaxFailures \in Nat

VARIABLES
    stackset,   \* the StackSet in the API server
    stacks,     \* the versions whose stack exists
    events,     \* watch events not yet taken by the main loop
    store,      \* stacksetStore: the controller's copy of the StackSet
    seen,       \* the StackSet of the pass's container
    listed,     \* the stacks of the pass's container
    pc,         \* the call the pass makes next
    asked,      \* history: the versions the user has asked for
    created,    \* history: the versions for which a stack was created
    latest,     \* history: the version whose stack was created last
    behind,     \* history: the pass started late, or lost the reply of its own update
    edits, lags, failures

cluster == <<stackset, stacks, events>>
pass == <<seen, listed>>
history == <<asked, created, latest, behind>>
bounds == <<edits, lags, failures>>
vars == <<cluster, store, pass, pc, history, bounds>>

\* status.stacks stands for the part of the status other than the version.
StackSet == [template : Versions, observed : Versions \union {NoVersion},
             counted : Nat, version : Nat]

Status(ss) == <<ss.observed, ss.counted>>

Init ==
    /\ stackset \in [template : Versions, observed : {NoVersion}, counted : {0}, version : {0}]
    /\ stacks = {}
    /\ events = <<>>
    /\ store = stackset
    /\ seen = stackset
    /\ listed = {}
    /\ pc = "idle"
    /\ asked = {stackset.template}
    /\ created = {}
    /\ latest = NoVersion
    /\ behind = FALSE
    /\ edits = 0 /\ lags = 0 /\ failures = 0

\* The API server stores the StackSet under a new resource version and notifies the watch.
Store(ss) ==
    LET new == [ss EXCEPT !.version = stackset.version + 1]
    IN  stackset' = new /\ events' = Append(events, new)

Edit == edits < MaxEdits /\ edits' = edits + 1
Fail == failures < MaxFailures /\ failures' = failures + 1

-----------------------------------------------------------------------------
\* A user writes another version into the template.
UserSetsVersion(v) ==
    /\ Edit
    /\ v # stackset.template
    /\ Store([stackset EXCEPT !.template = v])
    /\ asked' = asked \union {v}
    /\ UNCHANGED <<stacks, store, pass, pc, created, latest, behind, lags, failures>>

\* Another part of the StackSet is edited, such as the desired traffic.
UserEditsOther ==
    /\ Edit
    /\ Store(stackset)
    /\ UNCHANGED <<stacks, store, pass, pc, history, lags, failures>>

\* A stack is removed, by CleanupOldStacks or by a user.
StackRemoved(v) ==
    /\ Edit
    /\ v \in stacks
    /\ stacks' = stacks \ {v}
    /\ UNCHANGED <<stackset, events, store, pass, pc, history, lags, failures>>

\* The main loop takes an event, between two passes.
TakeEvent ==
    /\ pc = "idle"
    /\ events # <<>>
    /\ store' = Head(events)
    /\ events' = Tail(events)
    /\ UNCHANGED <<stackset, stacks, pass, pc, history, bounds>>

\* A pass starts; it is late if events are still waiting.
Collect ==
    /\ pc = "idle"
    /\ events # <<>> => lags < MaxLag
    /\ lags' = IF events # <<>> THEN lags + 1 ELSE lags
    /\ seen' = store
    /\ listed' = stacks
    /\ pc' = "create"
    /\ behind' = (events # <<>>)
    /\ UNCHANGED <<cluster, store, asked, created, latest, edits, failures>>

\* Mutant: only the first version gets a stack.
MissingAtFirst == seen.template \notin listed /\ seen.observed = NoVersion

\* NewStack: the current stack does not exist and was not created before.
Missing == seen.template \notin listed /\ seen.observed # seen.template

NoNewStack ==
    /\ pc = "create"
    /\ ~Missing
    /\ pc' = "status"
    /\ UNCHANGED <<cluster, store, pass, history, bounds>>

StackAppears ==
    /\ stacks' = stacks \union {seen.template}
    /\ created' = created \union {seen.template}
    /\ latest' = seen.template

\* CreateCurrentStack, the first of its two calls: the stack.
CreateStack ==
    /\ pc = "create"
    /\ Missing
    /\ StackAppears
    /\ pc' = "observe"
    /\ UNCHANGED <<stackset, events, store, pass, asked, behind, bounds>>

\* The second: ObservedStackVersion, refused if the StackSet has changed since.
UpToDate == seen.version = stackset.version
RecordVersion == Store([stackset EXCEPT !.observed = seen.template])

\* After it the container has the StackSet that was written, and the stack.
ObserveVersion ==
    /\ pc = "observe"
    /\ pc' = "status"
    /\ IF UpToDate
       THEN /\ RecordVersion
            /\ seen' = stackset'
            /\ listed' = listed \union {seen.template}
       ELSE UNCHANGED <<stackset, events, pass>>
    /\ UNCHANGED <<stacks, store, history, bounds>>

\* Mutant: the generated status has no observed version.
WithoutObserved(ss) == [ss EXCEPT !.observed = NoVersion, !.counted = Cardinality(listed)]

\* Mutant: the generated status has the version of the template as observed.
WithTemplate(ss) == [ss EXCEPT !.observed = seen.template, !.counted = Cardinality(listed)]

\* Mutant: what is read again after a conflict is overwritten as a whole.
WithCopy(ss) == [seen EXCEPT !.counted = Cardinality(listed), !.version = ss.version]

\* Mutant: the current stack is not counted.
WithOthers(ss) == [ss EXCEPT !.observed = seen.observed, !.counted = Cardinality(listed) - 1]

\* The status ReconcileStatuses generates, for a StackSet ss of the API server.
WithStatus(ss) == [ss EXCEPT !.observed = seen.observed, !.counted = Cardinality(listed)]

(***************************************************************************)
(* ReconcileStatuses: nothing to do if the generated status is the one of  *)
(* the pass's StackSet; else it is written, after a conflict over the      *)
(* status of the StackSet as it is by then.                                *)
(***************************************************************************)
ReconcileStatuses ==
    /\ pc = "status"
    /\ pc' = "idle"
    /\ IF Status(WithStatus(stackset)) \in {Status(seen), Status(stackset)}
       THEN UNCHANGED <<stackset, events>>
       ELSE Store(WithStatus(stackset))
    /\ UNCHANGED <<stacks, store, pass, history, bounds>>

\* The stack is not created, or it is and the reply is lost; the pass goes on without it.
CreateFails ==
    /\ pc = "create"
    /\ Missing
    /\ Fail
    /\ pc' = "status"
    /\ StackAppears \/ UNCHANGED <<stacks, created, latest>>
    /\ UNCHANGED <<stackset, events, store, pass, asked, behind, edits, lags>>

\* The observed version is not written for a reason other than a conflict, or it
\* is and the reply is lost; either way the pass goes on with the copy it had.
ObserveFails ==
    /\ pc = "observe"
    /\ Fail
    /\ pc' = "status"
    /\ \/ UpToDate /\ RecordVersion /\ behind' = TRUE
       \/ UNCHANGED <<stackset, events, behind>>
    /\ UNCHANGED <<stacks, store, pass, asked, created, latest, edits, lags>>

\* The rest of the pass fails and no status of the StackSet is written, which
\* takes no failed call if a stack of the container is gone by then.
PassFails ==
    /\ pc = "status"
    /\ Fail \/ (listed \ stacks # {} /\ UNCHANGED failures)
    /\ pc' = "idle"
    /\ UNCHANGED <<cluster, store, pass, history, edits, lags>>

\* The process stops; the next one starts with a list of the StackSets.
Restart ==
    /\ Fail
    /\ pc' = "idle"
    /\ store' = stackset
    /\ events' = <<>>
    /\ UNCHANGED <<stackset, stacks, pass, history, edits, lags>>

Pass == Collect \/ NoNewStack \/ CreateStack \/ ObserveVersion \/ ReconcileStatuses
Failure == CreateFails \/ ObserveFails \/ PassFails \/ Restart
Environment == UserEditsOther \/ \E v \in Versions : UserSetsVersion(v) \/ StackRemoved(v)

Next == TakeEvent \/ Pass \/ Failure \/ Environment

Spec == Init /\ [][Next]_vars

(***************************************************************************)
(* The main loop runs pass after pass, and takes every event at some time  *)
(* between two of them.                                                    *)
(***************************************************************************)
FairSpec == Spec /\ WF_vars(Pass) /\ SF_vars(TakeEvent)

-----------------------------------------------------------------------------
(***************************************************************************)
(* Properties.                                                             *)
(***************************************************************************)
\* Type invariant.
TypeOK ==
    /\ stackset \in StackSet /\ store \in StackSet /\ seen \in StackSet
    /\ events \in Seq(StackSet)
    /\ stacks \subseteq Versions /\ listed \subseteq Versions
    /\ pc \in {"idle", "create", "observe", "status"}
    /\ asked \subseteq Versions /\ created \subseteq Versions
    /\ latest \in Versions \union {NoVersion} /\ behind \in BOOLEAN
    /\ edits \in 0..MaxEdits /\ lags \in 0..MaxLag /\ failures \in 0..MaxFailures

Created(ss) == ss.observed \in created \union {NoVersion}

(***************************************************************************)
(* No version counts as observed before its stack was created, not in any  *)
(* copy of the StackSet either: otherwise that stack would never be made.  *)
(***************************************************************************)
ObservedWasCreated ==
    /\ Created(stackset) /\ Created(store) /\ Created(seen)
    /\ \A i \in 1..Len(events) : Created(events[i])

\* Its inductive strengthening: nor is a version about to be observed too early.
ObservedInv == ObservedWasCreated /\ (pc = "observe" => seen.template \in created)

(***************************************************************************)
(* Every version a user settles on gets a stack, whatever failed before,   *)
(* and the status comes to count the stacks there are.                     *)
(***************************************************************************)
FirstCreation ==
    <>[](stackset.template \in created /\ stackset.counted = Cardinality(stacks))

(***************************************************************************)
(* A pass changes the observed version only to the version whose stack was *)
(* created last, although ReconcileStatuses overwrites what it finds and   *)
(* passes before it may have taken it back.  (A pass that starts on an     *)
(* outdated copy, or whose own update took effect without its knowing,     *)
(* writes back the version of its copy after the conflict.)                *)
(***************************************************************************)
ObservedMovesOn ==
    [][~behind /\ stackset'.observed # stackset.observed
       => stackset'.observed = latest]_vars

(***************************************************************************)
(* "We shouldn't recreate it if it was removed for any reason": the stack  *)
(* that was created last is not created again after its removal.           *)
(***************************************************************************)
NotRecreated ==
    [][\A v \in stacks' \ stacks : v # latest]_vars

\* No copy of the StackSet has a version the user has not asked for.
AskedInv ==
    /\ {stackset.template, store.template, seen.template} \subseteq asked
    /\ \A i \in 1..Len(events) : events[i].template \in asked

(***************************************************************************)
(* The controller implements Rollout: whatever its copies, conflicts and   *)
(* failures, each of its writes does one of the things that are promised   *)
(* there; none undoes what the user asked for.                             *)
(***************************************************************************)
Promise == INSTANCE Rollout WITH template <- stackset.template, observed <- stackset.observed

ImplementsRollout == Promise!Spec
=============================================================================
