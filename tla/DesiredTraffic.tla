--------------------------- MODULE DesiredTraffic ---------------------------
(***************************************************************************)
(* The desired traffic of one StackSet: spec.traffic is edited by users    *)
(* and rewritten by the controller, which replaces it by the normalised    *)
(* and rounded weights of the stacks that exist.                           *)
(*                                                                         *)
(* The controller works on a copy that watch events keep up to date, late  *)
(* at times, and on a list of the stacks made when the pass starts.  Its   *)
(* update carries the resource version of its copy, so the API server      *)
(* refuses it if anything has changed the StackSet since; the error is     *)
(* logged and the next pass starts over.                                   *)
(***************************************************************************)
EXTENDS TrafficWeights

CONSTANTS
    Stacks,      \* the names of possible stacks
    MaxWeight,   \* bound: the largest weight a user writes
    MaxEdits,    \* bound: edits, creations, deletions and status changes
    MaxFailures  \* bound: failed passes

ASSUME StacksAssumption == Stacks \subseteq Nat /\ IsFiniteSet(Stacks)
ASSUME BoundsAssumption == MaxWeight \in Nat /\ MaxEdits \in Nat /\ MaxFailures \in Nat

VARIABLES
    spec,       \* StackSet.spec.traffic: a weight per name, 0 if it has no entry
    version,    \* the resource version of the StackSet
    stacks,     \* the stacks that exist
    store,      \* the controller's copy of the StackSet: spec and version
    seen,       \* the copy and the list of stacks the pass works on
    pc,         \* the call the pass makes next
    request,    \* history: the last weights a user wrote
    intact,     \* history: the stacks of that request have existed ever since
    edits,      \* edits so far
    failures    \* failed passes so far

vars == <<spec, version, stacks, store, seen, pc, request, intact, edits, failures>>

NoTraffic == [s \in Stacks |-> 0]
Requested(w) == {s \in Stacks : w[s] > 0}

Init ==
    /\ spec = NoTraffic
    /\ version = 0
    /\ stacks \in SUBSET Stacks
    /\ store = [spec |-> spec, version |-> version]
    /\ seen = [spec |-> spec, version |-> version, stacks |-> stacks]
    /\ pc = "idle"
    /\ request = NoTraffic
    /\ intact = TRUE
    /\ edits = 0
    /\ failures = 0

Edit == edits < MaxEdits /\ edits' = edits + 1

\* A user replaces the desired traffic; weights need not add up to anything.
UserSetsTraffic ==
    /\ Edit
    /\ \E w \in [Stacks -> 0..MaxWeight] :
         /\ w # spec
         /\ spec' = w
         /\ request' = w
         /\ intact' = (Requested(w) \subseteq stacks)
    /\ version' = version + 1
    /\ UNCHANGED <<stacks, store, seen, pc, failures>>

\* A stack goes, by CleanupOldStacks or by a user.
StackDeleted(s) ==
    /\ Edit
    /\ s \in stacks
    /\ stacks' = stacks \ {s}
    /\ intact' = (intact /\ request[s] = 0)
    /\ UNCHANGED <<spec, version, store, seen, pc, request, failures>>

\* A watch event reaches the controller's copy, between two passes.
Deliver ==
    /\ pc = "idle"
    /\ store.version # version
    /\ store' = [spec |-> spec, version |-> version]
    /\ UNCHANGED <<spec, version, stacks, seen, pc, request, intact, edits, failures>>

\* The StackSet is taken from the store, and its stacks are listed.
Collect ==
    /\ pc = "idle"
    /\ pc' = "create"
    /\ seen' = [spec |-> store.spec, version |-> store.version, stacks |-> stacks]
    /\ UNCHANGED <<spec, version, stacks, store, request, intact, edits, failures>>

\* No stack is to be created.
NoNewStack ==
    /\ pc = "create"
    /\ pc' = "write"
    /\ UNCHANGED <<spec, version, stacks, store, seen, request, intact, edits, failures>>

(***************************************************************************)
(* CreateCurrentStack: the new stack joins the pass once the StackSet's    *)
(* status is updated, which is refused if the pass's copy is outdated; the *)
(* stack exists all the same, and the pass goes on without it.             *)
(***************************************************************************)
CreateCurrentStack(s) ==
    /\ pc = "create"
    /\ pc' = "write"
    /\ Edit
    /\ s \notin stacks
    /\ stacks' = stacks \union {s}
    /\ IF version = seen.version
       THEN /\ version' = version + 1
            /\ seen' = [seen EXCEPT !.version = version', !.stacks = @ \union {s}]
       ELSE UNCHANGED <<version, seen>>
    /\ UNCHANGED <<spec, store, request, intact, failures>>

\* updateDesiredTraffic: entries for stacks that do not exist are dropped.
Filtered == [s \in seen.stacks |-> seen.spec[s]]

\* Mutant: the entries of stacks that do not exist are left as they are.
GeneratedKeeping ==
    IF seen.stacks = {}
    THEN {NoTraffic}
    ELSE {[s \in Stacks |-> IF s \in seen.stacks THEN ManagedWeights(Filtered, f)[s]
                            ELSE seen.spec[s]] : f \in seen.stacks}

\* Mutant: only the stacks of the container get an entry.
GeneratedPartial ==
    IF seen.stacks = {}
    THEN {NoTraffic}
    ELSE {ManagedWeights(Filtered, f) : f \in seen.stacks}

(***************************************************************************)
(* GenerateStackSetTraffic after ManageTraffic.  Without stacks            *)
(* ManageTraffic fails and the list is empty; which stack is the fallback  *)
(* depends on times not modelled here.                                     *)
(***************************************************************************)
Generated ==
    IF seen.stacks = {}
    THEN {NoTraffic}
    ELSE {[s \in Stacks |-> IF s \in seen.stacks THEN ManagedWeights(Filtered, f)[s] ELSE 0] :
            f \in seen.stacks}

\* Mutant: the update does not carry the resource version.
UpdateSpecBlindly ==
    /\ pc = "write"
    /\ pc' = "status"
    /\ \E w \in Generated :
         IF w # seen.spec
         THEN spec' = w /\ version' = version + 1
         ELSE UNCHANGED <<spec, version>>
    /\ UNCHANGED <<stacks, store, seen, request, intact, edits, failures>>

(***************************************************************************)
(* ReconcileStackSetDesiredTraffic: no update if nothing changes; an       *)
(* outdated update is refused.                                             *)
(***************************************************************************)
UpdateSpec ==
    /\ pc = "write"
    /\ pc' = "status"
    /\ \E w \in Generated :
         IF w # seen.spec /\ version = seen.version
         THEN spec' = w /\ version' = version + 1
         ELSE UNCHANGED <<spec, version>>
    /\ UNCHANGED <<stacks, store, seen, request, intact, edits, failures>>

\* ReconcileStatuses leaves the status of the StackSet as it is ...
KeepStatus ==
    /\ pc = "status"
    /\ pc' = "idle"
    /\ UNCHANGED <<spec, version, stacks, store, seen, request, intact, edits, failures>>

\* ... or updates it, again and again until the API server accepts it.
UpdateStatus ==
    /\ pc = "status"
    /\ pc' = "idle"
    /\ Edit
    /\ version' = version + 1
    /\ UNCHANGED <<spec, stacks, store, seen, request, intact, failures>>

\* A call fails for another reason, or the process stops: the next pass starts over.
PassFails ==
    /\ pc # "idle"
    /\ failures < MaxFailures
    /\ failures' = failures + 1
    /\ pc' = "idle"
    /\ UNCHANGED <<spec, version, stacks, store, seen, request, intact, edits>>

Pass == Collect \/ NoNewStack \/ UpdateSpec \/ KeepStatus

Next ==
    \/ UserSetsTraffic
    \/ \E s \in Stacks : CreateCurrentStack(s) \/ StackDeleted(s)
    \/ Deliver \/ Pass \/ UpdateStatus \/ PassFails

Spec == Init /\ [][Next]_vars

\* The informer delivers what happened, and the main loop runs pass after pass.
FairSpec == Spec /\ SF_vars(Deliver) /\ WF_vars(Pass)

-----------------------------------------------------------------------------
\* Type invariant; a spec holds a user's weights or the controller's.
TypeOK ==
    /\ spec \in [Stacks -> Nat]
    /\ version \in Nat
    /\ stacks \subseteq Stacks
    /\ store \in [spec : [Stacks -> Nat], version : Nat]
    /\ seen \in [spec : [Stacks -> Nat], version : Nat, stacks : SUBSET Stacks]
    /\ pc \in {"idle", "create", "write", "status"}
    /\ request \in [Stacks -> 0..MaxWeight]
    /\ intact \in BOOLEAN
    /\ edits \in 0..MaxEdits
    /\ failures \in 0..MaxFailures

(***************************************************************************)
(* The request of a user is not lost.  As long as the stacks it names      *)
(* exist, spec.traffic is the request or what normalising and rounding     *)
(* makes of it: the controller neither overwrites it with weights computed *)
(* from an outdated copy, nor does it drift from pass to pass or when      *)
(* stacks without traffic come and go.                                     *)
(***************************************************************************)
RequestKept ==
    intact /\ Requested(request) # {} =>
        \/ spec = request
        \/ \A s \in Stacks :
             spec[s] = IF s \in Requested(request)
                       THEN RoundWeights([t \in Requested(request) |-> request[t]])[s]
                       ELSE 0

(***************************************************************************)
(* Once edits and failures stop, the desired traffic adds up to the whole, *)
(* names only stacks that exist, and is left alone.                        *)
(***************************************************************************)
Settled == stacks # {} => Requested(spec) \subseteq stacks /\ SumOf(spec) = Total

Settles == <>[](Settled /\ spec = store.spec) /\ <>[][UNCHANGED spec]_vars
=============================================================================
