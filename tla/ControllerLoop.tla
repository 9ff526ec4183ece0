--------------------------- MODULE ControllerLoop ---------------------------
(***************************************************************************)
(* The main loop of controllers that share a cluster: which StackSets each *)
(* keeps in its stacksetStore, and what passes do for them.                *)
(*                                                                         *)
(* There is one name, and a StackSet of that name may be deleted and made  *)
(* again: an incarnation is its UID.  The store of a controller is indexed *)
(* by UIDs, but the API server is asked by name, and it is by name that    *)
(* the informer tells what has changed while its watch was interrupted.    *)
(*                                                                         *)
(* Of a StackSet there is the controller annotation, and of its status     *)
(* whether the (only) version has been observed and how many stacks it     *)
(* counts.  A resource version is compared by value: an edit that was      *)
(* taken back is not noticed here.                                         *)
(***************************************************************************)
EXTENDS Integers, FiniteSets, SequencesExt

CONSTANTS
    Controllers,   \* the controller IDs, "" for none
    UIDs,          \* the incarnations of the StackSet, in their order
    MaxEdits,      \* bound: changes of the controller annotation
    MaxLag,        \* bound: events waiting as a pass starts
    MaxFailures    \* bound: failed calls, restarts, interruptions of a watch

ASSUME ControllersAssumption == IsFiniteSet(Controllers) /\ Controllers # {}
ASSUME UIDsAssumption == UIDs \subseteq Nat \ {0} /\ IsFiniteSet(UIDs) /\ UIDs # {}
ASSUME BoundsAssumption ==
    /\ MaxEdits \in Nat /\ MaxLag \in Nat /\ MaxFailures \in Nat

VARIABLES
    stackset,  \* cluster: the StackSet, or NoStackSet
    latest,    \* cluster: its last incarnation
    stack,     \* cluster: the UID of the StackSet that owns the stack of that name, 0 for none
    watching,  \* the controllers whose watch is not interrupted
    cache,     \* the StackSet as each informer has last seen it
    events,    \* what each informer has to tell its main loop
    store,     \* the stacksetStore of each controller
    pc,        \* what each worker does next for an incarnation
    seen,      \* the StackSet of its container
    listed,    \* whether its container has the stack
    created,   \* history: the incarnations for which the stack was created
    stray,     \* history: a status was written to another incarnation
    missed,    \* history: a deletion was not seen by some watch
    edits, failures

cluster == <<stackset, latest, stack>>
informers == <<watching, cache, events>>
pass == <<pc, seen, listed>>
history == <<created, stray, missed>>
bounds == <<edits, failures>>
vars == <<cluster, informers, store, pass, history, bounds>>

NoStackSet == [uid |-> 0, owner |-> "", observed |-> FALSE, counted |-> 0]
StackSets == [uid : UIDs, owner : Controllers, observed : BOOLEAN, counted : {0, 1}]
New(u, owner) == [uid |-> u, owner |-> owner, observed |-> FALSE, counted |-> 0]
NoStack == 0
First == CHOOSE u \in UIDs : \A v \in UIDs : u <= v

Outside == [u \in UIDs |-> "out"]
Nothing == [u \in UIDs |-> NoStackSet]
BetweenPasses(c) == pc[c] = Outside

-----------------------------------------------------------------------------
\* hasOwnership: the annotation is the ID of the controller, or there is neither.
HasOwnership(c, ss) == ss.owner = c

Added(ss) == [deleted |-> FALSE, stackset |-> ss]
Deleted(ss) == [deleted |-> TRUE, stackset |-> ss]

\* startWatch: the informer lists the StackSets and tells each as added.
Listed(ss) == IF ss = NoStackSet THEN <<>> ELSE <<Added(ss)>>

Init ==
    /\ stackset \in {New(First, c) : c \in Controllers}
    /\ latest = First
    /\ stack = NoStack
    /\ watching = Controllers
    /\ cache = [c \in Controllers |-> stackset]
    /\ events = [c \in Controllers |-> Listed(stackset)]
    /\ store = [c \in Controllers |-> Nothing]
    /\ pc = [c \in Controllers |-> Outside]
    /\ seen = [c \in Controllers |-> Nothing]
    /\ listed = [c \in Controllers |-> {}]
    /\ created = {} /\ stray = FALSE /\ missed = FALSE
    /\ edits = 0 /\ failures = 0

(***************************************************************************)
(* The API server stores a StackSet, and those who watch are told: the     *)
(* handlers add, update and del put an event into the channel, one by one. *)
(* Of successive updates of one incarnation that wait only the last stays, *)
(* for it alone decides what is in the store after all of them.            *)
(***************************************************************************)
Waiting(queue, event) ==
    IF queue # <<>> /\ ~Last(queue).deleted /\ ~event.deleted
       /\ Last(queue).stackset.uid = event.stackset.uid
    THEN Append(Front(queue), event)
    ELSE Append(queue, event)

Notify(event, ss) ==
    /\ cache' = [c \in Controllers |-> IF c \in watching THEN ss ELSE cache[c]]
    /\ events' = [c \in Controllers |->
                    IF c \in watching THEN Waiting(events[c], event) ELSE events[c]]
    /\ UNCHANGED watching

Store(ss) == stackset' = ss /\ Notify(Added(ss), ss)

-----------------------------------------------------------------------------
(***************************************************************************)
(* The main loop.                                                          *)
(***************************************************************************)
\* Mutant: a StackSet that now belongs to another controller stays in the store.
TakenKeeping(c, event) ==
    LET ss == event.stackset
        known == store[c][ss.uid] # NoStackSet
    IN  IF event.deleted THEN NoStackSet
        ELSE IF known \/ HasOwnership(c, ss) THEN ss ELSE NoStackSet

\* What the store of controller c has of a StackSet after an event about it.
Taken(c, event) ==
    LET ss == event.stackset
        known == store[c][ss.uid] # NoStackSet
    IN  IF known /\ event.deleted THEN NoStackSet
        ELSE IF HasOwnership(c, ss) THEN ss
        ELSE NoStackSet

TakeEvent(c) ==
    /\ BetweenPasses(c)
    /\ events[c] # <<>>
    /\ LET e == Head(events[c])
       IN  store' = [store EXCEPT ![c][e.stackset.uid] = Taken(c, e)]
    /\ events' = [events EXCEPT ![c] = Tail(@)]
    /\ UNCHANGED <<cluster, watching, cache, pass, history, bounds>>

\* NewStack: the stack does not exist and was not created before.
Missing(ss, has) == ~has /\ ~ss.observed

(***************************************************************************)
(* collectResources: a container for every StackSet in the store, with its *)
(* stack if it has one.  Then the workers start, any number at a time.     *)
(***************************************************************************)
Collect(c) ==
    /\ BetweenPasses(c)
    /\ store[c] # Nothing
    /\ Len(events[c]) <= MaxLag
    /\ seen' = [seen EXCEPT ![c] = store[c]]
    /\ listed' = [listed EXCEPT ![c] = {u \in UIDs : stack = u}]
    /\ pc' = [pc EXCEPT ![c] = [u \in UIDs |->
                IF store[c][u] = NoStackSet THEN "done"
                ELSE IF Missing(store[c][u], stack = u) THEN "create" ELSE "status"]]
    /\ UNCHANGED <<cluster, informers, store, history, bounds>>

Working(c) == {u \in UIDs : pc[c][u] \in {"create", "observe", "status"}}
Goto(c, u, label) == pc' = [pc EXCEPT ![c][u] = label]

\* A pass waits for all its workers.
Finish(c, u) ==
    LET pcs == [pc[c] EXCEPT ![u] = "done"]
        last == \A v \in UIDs : pcs[v] = "done"
    IN  /\ pc' = [pc EXCEPT ![c] = IF last THEN Outside ELSE pcs]
        /\ seen' = [seen EXCEPT ![c] = IF last THEN Nothing ELSE @]
        /\ listed' = [listed EXCEPT ![c] = IF last THEN {} ELSE @]

StackAppears(u) == stack' = u /\ created' = created \union {u}

\* Mutant: that there is a stack of that name already is taken for success.
CreateStackTolerant(c, u) ==
    /\ pc[c][u] = "create"
    /\ IF stack = NoStack THEN StackAppears(u) ELSE UNCHANGED <<stack, created>>
    /\ Goto(c, u, "observe")
    /\ UNCHANGED <<stackset, latest, informers, store, seen, listed, stray, missed, bounds>>

\* CreateCurrentStack: refused as long as there is a stack of that name.
CreateStack(c, u) ==
    /\ pc[c][u] = "create"
    /\ IF stack = NoStack
       THEN StackAppears(u) /\ Goto(c, u, "observe")
       ELSE UNCHANGED <<stack, created>> /\ Goto(c, u, "status")
    /\ UNCHANGED <<stackset, latest, informers, store, seen, listed, stray, missed, bounds>>

\* Its second call: refused if the StackSet has changed or is another one by now.
RecordVersion(c, u) == seen[c][u] = stackset /\ Store([stackset EXCEPT !.observed = TRUE])

ObserveVersion(c, u) ==
    /\ pc[c][u] = "observe"
    /\ IF seen[c][u] = stackset
       THEN /\ RecordVersion(c, u)
            /\ seen' = [seen EXCEPT ![c][u] = stackset']
            /\ listed' = [listed EXCEPT ![c] = @ \union {u}]
       ELSE UNCHANGED <<stackset, informers, seen, listed>>
    /\ Goto(c, u, "status")
    /\ UNCHANGED <<latest, stack, store, history, bounds>>

\* Mutant: the stacks are counted on top of those in the status.
WithStatusCountingOn(c, u, ss) ==
    [ss EXCEPT !.observed = seen[c][u].observed, !.counted = IF u \in listed[c] THEN @ + 1 ELSE 0]

\* The status that is generated for u, on the StackSet ss.
WithStatus(c, u, ss) ==
    [ss EXCEPT !.observed = seen[c][u].observed, !.counted = IF u \in listed[c] THEN 1 ELSE 0]

(***************************************************************************)
(* ReconcileStatuses: a status that differs from the one in the container  *)
(* is written.  If the StackSet has changed or is another one, that is a   *)
(* conflict: the StackSet of that name is read and its status overwritten. *)
(***************************************************************************)
ReconcileStatuses(c, u) ==
    /\ pc[c][u] = "status"
    /\ IF \/ WithStatus(c, u, seen[c][u]) = seen[c][u]
          \/ stackset = NoStackSet
          \/ WithStatus(c, u, stackset) = stackset
       THEN UNCHANGED <<stackset, informers, stray>>
       ELSE /\ Store(WithStatus(c, u, stackset))
            /\ stray' = (stray \/ stackset.uid # u)
    /\ Finish(c, u)
    /\ UNCHANGED <<latest, stack, store, created, missed, bounds>>

-----------------------------------------------------------------------------
(***************************************************************************)
(* Failures.                                                               *)
(***************************************************************************)
Fail == failures < MaxFailures /\ failures' = failures + 1 /\ edits' = edits

\* A stack is not created, or it is and the reply is lost.
CreateFails(c, u) ==
    /\ pc[c][u] = "create"
    /\ Fail
    /\ (stack = NoStack /\ StackAppears(u)) \/ UNCHANGED <<stack, created>>
    /\ Goto(c, u, "status")
    /\ UNCHANGED <<stackset, latest, informers, store, seen, listed, stray, missed>>

\* The version is not recorded, or it is and the reply is lost.
ObserveFails(c, u) ==
    /\ pc[c][u] = "observe"
    /\ Fail
    /\ RecordVersion(c, u) \/ UNCHANGED <<stackset, informers>>
    /\ Goto(c, u, "status")
    /\ UNCHANGED <<latest, stack, store, seen, listed, history>>

\* The rest of a pass fails for one StackSet.
PassFails(c, u) ==
    /\ u \in Working(c)
    /\ Fail
    /\ Finish(c, u)
    /\ UNCHANGED <<cluster, informers, store, history>>

\* The process stops and starts anew: what it knew is lost.
Restart(c) ==
    /\ Fail
    /\ store' = [store EXCEPT ![c] = Nothing]
    /\ cache' = [cache EXCEPT ![c] = stackset]
    /\ events' = [events EXCEPT ![c] = Listed(stackset)]
    /\ watching' = watching \union {c}
    /\ pc' = [pc EXCEPT ![c] = Outside]
    /\ seen' = [seen EXCEPT ![c] = Nothing]
    /\ listed' = [listed EXCEPT ![c] = {}]
    /\ UNCHANGED <<cluster, history>>

Interrupt(c) ==
    /\ Fail
    /\ c \in watching
    /\ watching' = watching \ {c}
    /\ UNCHANGED <<cluster, cache, events, store, pass, history>>

(***************************************************************************)
(* A watch that comes back lists the StackSets and compares names: what is *)
(* there is told as added or updated, with a UID that may be another one;  *)
(* what is gone as a tombstone, which del ignores.                         *)
(***************************************************************************)
Relist(c) ==
    /\ c \notin watching
    /\ watching' = watching \union {c}
    /\ cache' = [cache EXCEPT ![c] = stackset]
    /\ events' = IF stackset = NoStackSet THEN events
                 ELSE [events EXCEPT ![c] = Waiting(@, Added(stackset))]
    /\ missed' = (missed \/ (cache[c] # NoStackSet /\ cache[c].uid # stackset.uid))
    /\ UNCHANGED <<cluster, store, pass, created, stray, bounds>>

-----------------------------------------------------------------------------
(***************************************************************************)
(* What users and the cluster do.                                          *)
(***************************************************************************)
UserDeletes ==
    /\ stackset # NoStackSet
    /\ stackset' = NoStackSet
    /\ Notify(Deleted(stackset), NoStackSet)
    /\ UNCHANGED <<latest, stack, store, pass, history, bounds>>

UserCreates(u, c) ==
    /\ stackset = NoStackSet
    /\ u = latest + 1
    /\ latest' = u
    /\ Store(New(u, c))
    /\ UNCHANGED <<stack, store, pass, history, bounds>>

UserChangesOwner(c) ==
    /\ edits < MaxEdits /\ edits' = edits + 1
    /\ stackset # NoStackSet /\ stackset.owner # c
    /\ Store([stackset EXCEPT !.owner = c])
    /\ UNCHANGED <<latest, stack, store, pass, history, failures>>

\* A stack whose StackSet is gone is deleted.
CollectGarbage ==
    /\ stack \notin {NoStack, stackset.uid}
    /\ stack' = NoStack
    /\ UNCHANGED <<stackset, latest, informers, store, pass, history, bounds>>

Worker(c, u) == CreateStack(c, u) \/ ObserveVersion(c, u) \/ ReconcileStatuses(c, u)
Pass(c) == Collect(c) \/ \E u \in UIDs : Worker(c, u)

Failure(c) ==
    \/ Restart(c) \/ Interrupt(c)
    \/ \E u \in UIDs : CreateFails(c, u) \/ ObserveFails(c, u) \/ PassFails(c, u)

Environment ==
    \/ UserDeletes \/ CollectGarbage
    \/ \E c \in Controllers : UserChangesOwner(c) \/ Relist(c) \/ \E u \in UIDs : UserCreates(u, c)

Next == Environment \/ \E c \in Controllers : TakeEvent(c) \/ Pass(c) \/ Failure(c)

Spec == Init /\ [][Next]_vars

(***************************************************************************)
(* Every controller with something in its store runs pass after pass, and  *)
(* catches up with its events again and again; watches come back, orphans  *)
(* are deleted.  (Stated of states: that is cheaper to check than WF and   *)
(* SF of the actions, and says the same of this specification.)            *)
(***************************************************************************)
FairSpec ==
    /\ Spec
    /\ \A c \in Controllers :
        /\ []<>BetweenPasses(c)
        /\ []<>(~BetweenPasses(c) \/ store[c] = Nothing)
        /\ []<>(events[c] = <<>>)
        /\ []<>(c \in watching)
    /\ []<>(stack \in {NoStack, stackset.uid})

-----------------------------------------------------------------------------
(***************************************************************************)
(* Properties.                                                             *)
(***************************************************************************)
StackSetsOrNone == StackSets \union {NoStackSet}

\* Type invariant.
TypeOK ==
    /\ stackset \in StackSetsOrNone /\ latest \in UIDs /\ stack \in UIDs \union {NoStack}
    /\ watching \subseteq Controllers
    /\ cache \in [Controllers -> StackSetsOrNone]
    /\ events \in [Controllers -> Seq([deleted : BOOLEAN, stackset : StackSets])]
    /\ store \in [Controllers -> [UIDs -> StackSetsOrNone]]
    /\ pc \in [Controllers -> [UIDs -> {"out", "create", "observe", "status", "done"}]]
    /\ seen \in [Controllers -> [UIDs -> StackSetsOrNone]]
    /\ listed \in [Controllers -> SUBSET UIDs]
    /\ created \subseteq UIDs /\ stray \in BOOLEAN /\ missed \in BOOLEAN
    /\ edits \in 0..MaxEdits /\ failures \in 0..MaxFailures

(***************************************************************************)
(* A controller that watches, has taken all events and missed no deletion  *)
(* has the StackSet as it is if it owns it, and nothing else: also after   *)
(* it changed hands, was replaced, or the watch was interrupted.           *)
(***************************************************************************)
StoreCoherent ==
    \A c \in Controllers :
        c \in watching /\ events[c] = <<>> /\ ~missed =>
            \A u \in UIDs :
                store[c][u] = IF stackset.uid = u /\ stackset.owner = c THEN stackset ELSE NoStackSet

\* The version counts as observed when the stack was created for this incarnation.
ObservedIsOwn == stackset.observed => stackset.uid \in created

(***************************************************************************)
(* Only a status that was meant for another incarnation can break that,    *)
(* not two controllers at work on the StackSet as it changes hands.        *)
(***************************************************************************)
ObservedUnlessStray == ~stray => ObservedIsOwn

(***************************************************************************)
(* In the end, unless a deletion was missed, a StackSet is in the store of *)
(* its owner and in no other and a stack of that name is its own; and it   *)
(* has got its stack, although the name may still have been taken and      *)
(* controllers failed and handed over, unless a status has strayed.        *)
(***************************************************************************)
EndsWithOwner ==
    <>[](\/ missed
         \/ /\ \A c \in Controllers, u \in UIDs :
                 store[c][u] # NoStackSet <=> stackset.uid = u /\ stackset.owner = c
            /\ stack \in {NoStack, stackset.uid}
            /\ stackset # NoStackSet /\ ~stray => stack = stackset.uid /\ stackset.counted = 1)
=============================================================================
