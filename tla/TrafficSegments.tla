-------------------------- MODULE TrafficSegments --------------------------
(***************************************************************************)
(* How the controller turns the actual traffic weights of the stacks of    *)
(* one StackSet into TrafficSegment predicates and writes them, stack by   *)
(* stack, to the ingress and the routegroup of every stack.                *)
(*                                                                         *)
(* A reconciliation pass lists the segment resources, lays the new         *)
(* segments out one after the other (ComputeTrafficSegments), orders the   *)
(* stacks whose segment changed, and reconciles every stack in that order: *)
(* first its ingress segment, then its routegroup segment.  A write may    *)
(* fail, its reply may be lost, and the process may stop at any step.      *)
(*                                                                         *)
(* Limits and weights are multiples of 1/Total (the code's weights are     *)
(* whole percents, printed with two decimals).  A stack is the rank of its *)
(* UID, the order the code breaks ties with.                               *)
(***************************************************************************)
EXTENDS TrafficWeights, Sequences, FiniteSets

CONSTANTS
    Stacks,         \* the stacks of the StackSet
    HasIngress,     \* the stacks with an ingressSpec
    HasRouteGroup,  \* the stacks with a routeGroupSpec
    Splits,         \* the weights ManageTraffic may decide on
    MaxSwitches,    \* bound: changes of the weights
    MaxFailures     \* bound: failed writes and crashes

ASSUME StacksAssumption == Stacks \subseteq Nat /\ IsFiniteSet(Stacks)
ASSUME KindsAssumption == HasIngress \subseteq Stacks /\ HasRouteGroup \subseteq Stacks
ASSUME SplitsAssumption == \A w \in Splits : w \in [Stacks -> 0..Total] /\ SumOf(w) = Total
ASSUME BoundsAssumption == MaxSwitches \in Nat /\ MaxFailures \in Nat

VARIABLES
    ingress,      \* cluster: the predicate of every stack's ingress segment
    routegroup,   \* cluster: the predicate of every stack's routegroup segment
    weight,       \* actual traffic weight of every stack
    pc,           \* where the pass is
    limits,       \* segmentLowerLimit and segmentUpperLimit of the containers
    diff,         \* weightDiffs
    index,        \* the end of the last segment laid out
    todo,         \* stacks that still need a segment laid out
    order,        \* changed stacks, in the order they are to be written
    pending,      \* stacks this pass has not reconciled yet
    current,      \* the stack whose routegroup segment comes next
    clean,        \* history: nothing went wrong in the current or last pass
    settled,      \* history: the cluster was in sync when the pass started
    switches,     \* weight changes so far
    failures      \* failures so far

cluster == <<ingress, routegroup>>
plan == <<limits, diff, index, todo>>
history == <<clean, settled>>
queue == <<order, pending, current>>
vars == <<cluster, weight, pc, plan, queue, history, switches, failures>>

Phases == {"idle", "layout", "ingress", "routegroup"}
Segment == [lo : Nat, hi : Nat]
NoSegment == [lo |-> -1, hi |-> -1]      \* the resource does not exist
Zero == [lo |-> 0, hi |-> 0]             \* TrafficSegment(0.00, 0.00)
NoStack == -1

-----------------------------------------------------------------------------
(***************************************************************************)
(* Reading the cluster: what newTrafficSegment finds for a stack.          *)
(***************************************************************************)
\* The ingress predicate of a stack; the container starts with zero limits.
IngressLimits(s) ==
    IF s \in HasIngress /\ ingress[s] # NoSegment THEN ingress[s] ELSE Zero

HasRouteGroupSegment(s) == s \in HasRouteGroup /\ routegroup[s] # NoSegment

\* The limits of a stack: an existing routegroup segment has the last word.
CollectedLimits(s) ==
    IF HasRouteGroupSegment(s) THEN routegroup[s] ELSE IngressLimits(s)

\* newTrafficSegment fails when the two resources of a stack disagree.
Mismatch(s) ==
    /\ HasRouteGroupSegment(s)
    /\ s \in HasIngress
    /\ IngressLimits(s) # routegroup[s]

Width(seg) == seg.hi - seg.lo

Active(s) == Width(CollectedLimits(s)) # 0

\* The order of segmentList: by lower limit, then by upper limit.
Less(a, b) == a.lo < b.lo \/ (a.lo = b.lo /\ a.hi < b.hi)

-----------------------------------------------------------------------------
(***************************************************************************)
(* What the cluster does with the segments.                                *)
(***************************************************************************)
\* Slice x of the traffic lies in a segment.
In(x, seg) == seg.lo <= x /\ x < seg.hi

\* The stacks a request in slice x may be routed to.
Serving(x) ==
    {s \in Stacks : \/ s \in HasIngress /\ In(x, ingress[s])
                    \/ s \in HasRouteGroup /\ In(x, routegroup[s])}

\* Every slice has a stack to go to.
NoGap == \A x \in 0..(Total - 1) : Serving(x) # {}

(***************************************************************************)
(* No slice has two stacks, and every stack serves, through each of its    *)
(* resources, as many slices as weights w give it.                         *)
(***************************************************************************)
Exact(w) ==
    /\ \A x \in 0..(Total - 1) : \A s, t \in Serving(x) : s = t
    /\ \A s \in HasIngress : Width(ingress[s]) = w[s]
    /\ \A s \in HasRouteGroup : Width(routegroup[s]) = w[s]

\* The segments in the cluster route the traffic as weights w say.
Follows(w) == NoGap /\ Exact(w)

InSync == Follows(weight)

-----------------------------------------------------------------------------
(***************************************************************************)
(* Laying out and ordering.                                                *)
(***************************************************************************)
\* Mutant: an empty segment is left without limits.
SetLimitsUnset(lower, upper) ==
    IF lower = upper THEN NoSegment ELSE [lo |-> lower, hi |-> upper]

\* Mutant: a segment of one unit counts as empty.
SetLimitsTooNarrow(lower, upper) ==
    IF upper - lower <= 1 THEN Zero ELSE [lo |-> lower, hi |-> upper]

\* setLimits: an empty segment is written as (0, 0).
SetLimits(lower, upper) ==
    IF lower = upper THEN Zero ELSE [lo |-> lower, hi |-> upper]

\* The comparator of sort.SliceStable over the changed segments.
Precedes(d, s, t) == d[s] > d[t] \/ s < t

(***************************************************************************)
(* Up to 20 elements SliceStable is an insertion sort: an element moves    *)
(* left for as long as it precedes its left neighbour.  Inserting each     *)
(* changed stack into the sorted prefix when it is appended gives the same *)
(* sequence as sorting at the end.                                         *)
(***************************************************************************)
MovesPast(seq, d, s) ==
    {n \in 1..Len(seq) : \A j \in n..Len(seq) : Precedes(d, s, seq[j])}

Insert(seq, d, s) ==
    LET i == Len(seq) - Cardinality(MovesPast(seq, d, s))
    IN  SubSeq(seq, 1, i) \o <<s>> \o SubSeq(seq, i + 1, Len(seq))

-----------------------------------------------------------------------------
Init ==
    /\ ingress = [s \in Stacks |-> NoSegment]
    /\ routegroup = [s \in Stacks |-> NoSegment]
    /\ weight \in Splits
    /\ pc = "idle"
    /\ limits = [s \in Stacks |-> Zero]
    /\ diff = [s \in Stacks |-> 0]
    /\ index = 0
    /\ todo = {}
    /\ order = <<>>
    /\ pending = {}
    /\ current = NoStack
    /\ clean = FALSE
    /\ settled = FALSE
    /\ switches = 0
    /\ failures = 0

\* The containers of a pass are new: their limits are zero until they are assigned.
FreshPlan ==
    /\ limits' = [s \in Stacks |-> Zero]
    /\ diff' = [s \in Stacks |-> 0]
    /\ index' = 0
    /\ order' = <<>>
    /\ current' = NoStack

\* Mutant: a mismatch ends the pass.
StartPassAborts ==
    /\ pc = "idle"
    /\ \E w \in Splits :
         /\ weight' = w
         /\ w # weight => switches < MaxSwitches
         /\ switches' = IF w = weight THEN switches ELSE switches + 1
         /\ settled' = Follows(w)
    /\ FreshPlan
    /\ pending' = Stacks
    /\ IF \E s \in Stacks : Mismatch(s)
       THEN pc' = "idle" /\ todo' = {} /\ clean' = FALSE
       ELSE /\ pc' = "layout"
            /\ todo' = {s \in Stacks : Active(s) \/ weight'[s] > 0}
            /\ clean' = TRUE
    /\ UNCHANGED <<cluster, failures>>

(***************************************************************************)
(* A pass starts: the resources are listed, ManageTraffic has decided on   *)
(* the weights (w), and ComputeTrafficSegments collects the active         *)
(* segments.  On a mismatch it returns an error, which is only logged: the *)
(* pass goes on, with no order and with the zero limits of new containers. *)
(***************************************************************************)
StartPass ==
    /\ pc = "idle"
    /\ \E w \in Splits :
         /\ weight' = w
         /\ w # weight => switches < MaxSwitches
         /\ switches' = IF w = weight THEN switches ELSE switches + 1
         /\ settled' = Follows(w)
    /\ FreshPlan
    /\ pending' = Stacks
    /\ IF \E s \in Stacks : Mismatch(s)
       THEN pc' = "ingress" /\ todo' = {} /\ clean' = FALSE
       ELSE /\ pc' = "layout"
            /\ todo' = {s \in Stacks : Active(s) \/ weight'[s] > 0}
            /\ clean' = TRUE
    /\ UNCHANGED <<cluster, failures>>

\* Mutant: every segment starts at zero.
NextLimitsAtZero(s) == SetLimits(0, weight[s])

\* The next segment, from the end of the last one.
NextLimits(s) == SetLimits(index, index + weight[s])

\* Mutant: only the stacks whose segment changes get their limits.
PlaceChangedOnly(s, changed) ==
    LET grown == Width(NextLimits(s)) - Width(CollectedLimits(s))
        d == [diff EXCEPT ![s] = grown]
    IN  /\ limits' = IF changed THEN [limits EXCEPT ![s] = NextLimits(s)] ELSE limits
        /\ diff' = d
        /\ order' = IF changed THEN Insert(order, d, s) ELSE order
        /\ index' = index + weight[s]
        /\ todo' = todo \ {s}

\* Stack s gets the next segment and joins the order if that changes something.
Place(s, changed) ==
    LET grown == Width(NextLimits(s)) - Width(CollectedLimits(s))
        d == [diff EXCEPT ![s] = grown]
    IN  /\ limits' = [limits EXCEPT ![s] = NextLimits(s)]
        /\ diff' = d
        /\ order' = IF changed THEN Insert(order, d, s) ELSE order
        /\ index' = index + weight[s]
        /\ todo' = todo \ {s}

(***************************************************************************)
(* Whether a segment changes is decided on floating point numbers: the sum *)
(* of weights may differ from the same limit read back from the cluster,   *)
(* and then a segment that stays the same joins the order as well.         *)
(***************************************************************************)
Changed(s) == IF NextLimits(s) # CollectedLimits(s) THEN {TRUE} ELSE BOOLEAN

\* Mutant: the active segments are not sorted.
LayOutUnsorted(s) ==
    /\ pc = "layout"
    /\ s \in todo /\ Active(s)
    /\ \E changed \in Changed(s) : Place(s, changed)
    /\ UNCHANGED <<cluster, weight, pc, pending, current, history, switches, failures>>

\* The active segments come first, in the order of their current limits.
LayOutExisting(s) ==
    /\ pc = "layout"
    /\ s \in todo /\ Active(s)
    /\ \A t \in todo : Active(t) => ~Less(CollectedLimits(t), CollectedLimits(s))
    /\ \E changed \in Changed(s) : Place(s, changed)
    /\ UNCHANGED <<cluster, weight, pc, pending, current, history, switches, failures>>

\* Then the stacks that had no traffic, in the order Go iterates over a map.
LayOutNew(s) ==
    /\ pc = "layout"
    /\ s \in todo
    /\ \A t \in todo : ~Active(t)
    /\ Place(s, TRUE)
    /\ UNCHANGED <<cluster, weight, pc, pending, current, history, switches, failures>>

EndLayout ==
    /\ pc = "layout"
    /\ todo = {}
    /\ pc' = "ingress"
    /\ UNCHANGED <<cluster, weight, plan, queue, history, switches, failures>>

-----------------------------------------------------------------------------
(***************************************************************************)
(* Writing: the loops over segsInOrder and over the remaining stacks.      *)
(***************************************************************************)
\* The stacks that may be reconciled next.
Upcoming == IF order # <<>> THEN {Head(order)} ELSE pending

\* The pass is done with stack s.
Reconciled(s) ==
    /\ pc' = "ingress"
    /\ order' = IF order # <<>> THEN Tail(order) ELSE order
    /\ pending' = pending \ {s}
    /\ current' = NoStack

\* GenerateIngressSegment and GenerateRouteGroupSegment.
GeneratedSegment(has, s) == IF s \in has THEN limits[s] ELSE NoSegment

(***************************************************************************)
(* ReconcileStackIngress on the segment of the next stack: created or      *)
(* updated if it differs, and then the routegroup of that stack is next.   *)
(***************************************************************************)
WriteIngressSegment(s) ==
    /\ pc = "ingress"
    /\ s \in Upcoming
    /\ ingress' = [ingress EXCEPT ![s] = GeneratedSegment(HasIngress, s)]
    /\ pc' = "routegroup"
    /\ current' = s
    /\ UNCHANGED <<routegroup, weight, plan, order, pending, history, switches, failures>>

\* ReconcileStackRouteGroup on the segment of the same stack.
WriteRouteGroupSegment(s) ==
    /\ pc = "routegroup"
    /\ s = current
    /\ routegroup' = [routegroup EXCEPT ![s] = GeneratedSegment(HasRouteGroup, s)]
    /\ Reconciled(s)
    /\ UNCHANGED <<ingress, weight, plan, history, switches, failures>>

Fail ==
    /\ failures < MaxFailures
    /\ failures' = failures + 1
    /\ clean' = FALSE

(***************************************************************************)
(* A write fails: ReconcileStackResources returns, which skips what is     *)
(* left of this stack, and the pass goes on with the next one.  If only    *)
(* the reply was lost, the write has taken effect.  A failure of the       *)
(* stack's other ingress counts as one of its ingress segment, a failure   *)
(* of the other routegroup as one of the routegroup segment.               *)
(***************************************************************************)
FailIngressSegment(s) ==
    /\ pc = "ingress"
    /\ s \in Upcoming
    /\ Fail
    /\ ingress' \in {ingress, [ingress EXCEPT ![s] = GeneratedSegment(HasIngress, s)]}
    /\ Reconciled(s)
    /\ UNCHANGED <<routegroup, weight, plan, settled, switches>>

FailRouteGroupSegment(s) ==
    /\ pc = "routegroup"
    /\ s = current
    /\ Fail
    /\ routegroup' \in {routegroup,
                        [routegroup EXCEPT ![s] = GeneratedSegment(HasRouteGroup, s)]}
    /\ Reconciled(s)
    /\ UNCHANGED <<ingress, weight, plan, settled, switches>>

\* Every stack has been reconciled.
EndPass ==
    /\ pc = "ingress"
    /\ pending = {}
    /\ pc' = "idle"
    /\ UNCHANGED <<cluster, weight, plan, queue, history, switches, failures>>

\* The process stops, or the pass panics: what was in memory is gone.
Crash ==
    /\ pc # "idle"
    /\ Fail
    /\ pc' = "idle"
    /\ FreshPlan
    /\ todo' = {}
    /\ pending' = {}
    /\ UNCHANGED <<cluster, weight, settled, switches>>

\* A stack without traffic is deleted, its resources with it, and a new one takes its place.
ReplaceStack(s) ==
    /\ pc = "idle"
    /\ weight[s] = 0
    /\ switches < MaxSwitches
    /\ switches' = switches + 1
    /\ ingress' = [ingress EXCEPT ![s] = NoSegment]
    /\ routegroup' = [routegroup EXCEPT ![s] = NoSegment]
    /\ UNCHANGED <<weight, pc, plan, queue, history, failures>>

LayOut == EndLayout \/ \E s \in Stacks : LayOutExisting(s) \/ LayOutNew(s)
Write == EndPass \/ \E s \in Stacks : WriteIngressSegment(s) \/ WriteRouteGroupSegment(s)
Disturb ==
    \/ Crash
    \/ \E s \in Stacks :
         FailIngressSegment(s) \/ FailRouteGroupSegment(s) \/ ReplaceStack(s)

Next == StartPass \/ LayOut \/ Write \/ Disturb

Spec == Init /\ [][Next]_vars

(***************************************************************************)
(* The main loop starts a pass every interval and runs it to its end.      *)
(***************************************************************************)
FairSpec == Spec /\ WF_vars(StartPass \/ LayOut \/ Write)

-----------------------------------------------------------------------------
(***************************************************************************)
(* Properties.                                                             *)
(***************************************************************************)
\* Type invariant of the cluster's segments, the pass and its plan.
TypeOK ==
    /\ ingress \in [Stacks -> Segment \union {NoSegment}]
    /\ routegroup \in [Stacks -> Segment \union {NoSegment}]
    /\ weight \in [Stacks -> 0..Total]
    /\ pc \in Phases
    /\ limits \in [Stacks -> Segment]
    /\ diff \in [Stacks -> Int]
    /\ index \in Nat
    /\ todo \subseteq Stacks
    /\ order \in Seq(Stacks)
    /\ pending \subseteq Stacks
    /\ current \in Stacks \union {NoStack}
    /\ pc = "routegroup" => current \in Stacks
    /\ clean \in BOOLEAN
    /\ settled \in BOOLEAN
    /\ switches \in 0..MaxSwitches
    /\ failures \in 0..MaxFailures

PlanDisjoint ==
    \A s, t \in Stacks : s # t =>
        limits[s].hi <= limits[t].lo \/ limits[t].hi <= limits[s].lo
                                    \/ limits[s] = Zero \/ limits[t] = Zero

PlanGapless ==
    \A x \in 0..(index - 1) : \E s \in Stacks : In(x, limits[s])

(***************************************************************************)
(* Whatever state failed writes have left the cluster in, overlapping      *)
(* segments and holes included, the segments ComputeTrafficSegments lays   *)
(* out never overlap and leave no gap between 0 and the end of the last    *)
(* one.                                                                    *)
(***************************************************************************)
PlanSound ==
    /\ PlanDisjoint
    /\ PlanGapless

(***************************************************************************)
(* Two stacks that had traffic keep their relative position, so that the   *)
(* traffic of a stack moves only as far as the weights require.            *)
(***************************************************************************)
KeepsPosition ==
    pc = "layout" =>
        \A s, t \in Stacks :
            /\ Active(s) /\ Less(CollectedLimits(s), CollectedLimits(t))
            /\ limits[s] # Zero /\ limits[t] # Zero
            => limits[s].hi <= limits[t].lo

(***************************************************************************)
(* After a pass in which nothing went wrong no request can reach two       *)
(* stacks, and every stack has the share its weight says.                  *)
(***************************************************************************)
CleanPassExact == pc = "idle" /\ clean => Exact(weight)

(***************************************************************************)
(* After such a pass every request also reaches a stack, as the weights    *)
(* add up to the whole traffic, and a pass that finds the cluster in sync  *)
(* keeps it so at every step, through failed writes and up to a crash: the *)
(* layout of a cluster in sync is the cluster's own.                       *)
(***************************************************************************)
StaysInSync == (pc = "idle" /\ clean) \/ (pc # "idle" /\ settled) => InSync

(***************************************************************************)
(* Once failures and weight changes stop, the cluster gets in sync and     *)
(* stays so, also from segments that a partly failed pass left             *)
(* contradictory.                                                          *)
(***************************************************************************)
Converges == <>[]InSync

-----------------------------------------------------------------------------
(***************************************************************************)
(* Inductive strengthenings, for the proofs.                               *)
(***************************************************************************)
\* What is laid out lies between 0 and index, and nothing else is laid out.
PlanInv ==
    /\ \A s \in Stacks : limits[s].lo <= limits[s].hi /\ limits[s].hi <= index
    /\ \A s \in todo : limits[s] = Zero
    /\ PlanDisjoint
    /\ PlanGapless

\* The stacks still to be laid out do not come before those that are.
PositionInv ==
    /\ pc = "layout" =>
         \A s \in Stacks, t \in todo :
             limits[s] # Zero /\ Active(t) =>
                 Active(s) /\ ~Less(CollectedLimits(t), CollectedLimits(s))
    /\ KeepsPosition

\* Resource res of the stacks in has holds what was laid out for stack s.
Holds(res, has, s) ==
    res[s] = GeneratedSegment(has, s) \/ (res[s] = NoSegment /\ weight[s] = 0)

\* While nothing goes wrong, the stacks done with have what was laid out for them.
WrittenInv ==
    clean =>
        /\ \A s \in Stacks \ todo : Width(limits[s]) = weight[s]
        /\ pc # "layout" =>
              /\ todo = {}
              /\ \A s \in Stacks \ pending :
                    Holds(ingress, HasIngress, s) /\ Holds(routegroup, HasRouteGroup, s)
        /\ pc = "routegroup" => Holds(ingress, HasIngress, current)
        /\ pc = "layout" => pending = Stacks
        /\ pc = "idle" => pending = {}

-----------------------------------------------------------------------------
(***************************************************************************)
(* What the comments of the source say of the order of the writes.         *)
(***************************************************************************)
(***************************************************************************)
(* "Sorts descending by weight diff, to make sure we apply growing         *)
(* segments first": no shrinking segment is written before a growing one.  *)
(***************************************************************************)
GrowingFirst ==
    \A i, j \in 1..Len(order) :
        i < j => ~(diff[order[i]] < 0 /\ diff[order[j]] > 0)
=============================================================================
