---------------------------- MODULE Calculations ----------------------------
(***************************************************************************)
(* What is calculated rather than negotiated with the cluster, each part   *)
(* in behaviours of its own.                                               *)
(*                                                                         *)
(* The controller: weights, normalised and rounded again and again as      *)
(* passes do it, against a definition of fair rounding.                    *)
(*                                                                         *)
(* The traffic command: several at a time.                                 *)
(*                                                                         *)
(* Autoscaler metrics: every list of those a user chooses from.            *)
(***************************************************************************)
EXTENDS TrafficWeights, TrafficSwitcher, AutoscalerMetrics

CONSTANTS
    Ranks,       \* the stacks whose weights are managed
    Heaviest,    \* bound: the largest weight given
    Offered,     \* the metrics users choose from
    MaxMetrics   \* bound: metrics of a stack

ASSUME RanksAssumption == Ranks \subseteq Nat /\ IsFiniteSet(Ranks) /\ Ranks # {}
ASSUME OfferedAssumption == \A m \in Offered : IsMetric(m)
ASSUME CalculationsBoundsAssumption == Heaviest \in Nat /\ MaxMetrics \in Nat

VARIABLES given, managed   \* the controller's weights at first, and after some passes
VARIABLE metrics           \* the metrics of a stack, as the user wrote them
weights == <<given, managed>>
calculationVars == <<weights, switcherVars, metrics>>

NoWeighing == [s \in {} |-> 0]   \* no weights: the behaviour is not one of the controller's

NoCommands ==
    /\ existing = {} /\ annotation = NoWeights
    /\ call = [c \in Commands |-> "end"]
    /\ asked = [c \in Commands |-> CHOOSE r \in Requests : TRUE]
    /\ listed = [c \in Commands |-> {}]
    /\ read = [c \in Commands |-> NoWeights]
    /\ done = {} /\ current = {} /\ changes = MaxChanges

CalculationsInit ==
    /\ \/ given \in [Ranks -> 0..Heaviest] /\ NoCommands /\ metrics = <<>>
       \/ given = NoWeighing /\ SwitcherInit /\ metrics = <<>>
       \/ given = NoWeighing /\ NoCommands /\ metrics \in UNION {[1..n -> Offered] : n \in 1..MaxMetrics}
    /\ managed = given

Manage ==
    /\ given # NoWeighing
    /\ \E f \in Ranks : managed' = ManagedWeights(managed, f)
    /\ UNCHANGED given
    /\ UNCHANGED <<switcherVars, metrics>>

CalculationsNext == Manage \/ (SwitcherNext /\ UNCHANGED <<weights, metrics>>)

CalculationsSpec == CalculationsInit /\ [][CalculationsNext]_calculationVars

(***************************************************************************)
(* Weights stay a fair rounding of those that were given, also when every  *)
(* pass manages again what the one before has made of them.                *)
(***************************************************************************)
FairRounding == managed # given => FairlyRounded(given, managed)

\* Weights that were rounded once are left alone by every later pass.
Idempotent == [][SumOf(managed) = Total => managed' = managed]_weights

(***************************************************************************)
(* A metric finds its own details under its name in the annotations of the *)
(* HPA, unless a later one took the name: that can only be another for the *)
(* requests of the stack, or for the same endpoint.                        *)
(***************************************************************************)
OwnAnnotations ==
    LET sorted == SortedMetrics(metrics)
        hpa == Converted(metrics)
    IN  hpa.outcome = "converted" =>
            \A i \in DOMAIN sorted :
                \/ sorted[i].type \notin Annotated
                \/ hpa.annotations[hpa.metrics[i].name] = Described(sorted[i])
                \/ \E j \in (i + 1)..Len(sorted) :
                      /\ sorted[j].type = sorted[i].type
                      /\ \/ sorted[i].type = "RequestsPerSecond"
                         \/ sorted[i].type = "PodJSON" /\ sorted[j].target = sorted[i].target

\* Metrics of different types, or that differ in a field both give and the comparator knows.
Differ(m, n) == m.type # n.type \/ \E f \in {"value", "container", "target"} : Told(m, n, f)

(***************************************************************************)
(* The HPA does not depend on the order in which the user lists metrics,   *)
(* which the comparator is there for: not if every two of them differ.     *)
(***************************************************************************)
AnyOrder ==
    LET places == DOMAIN metrics
    IN  (\A i, j \in places : i # j => Differ(metrics[i], metrics[j])) =>
            \A p \in Bijection(places, places) :
                Converted([i \in places |-> metrics[p[i]]]) = Converted(metrics)
=============================================================================
