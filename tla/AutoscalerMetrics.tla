------------------------- MODULE AutoscalerMetrics -------------------------
(***************************************************************************)
(* How the metrics of a stack become those of its HPA: they are sorted and *)
(* converted one by one.  Some leave their details in annotations of the   *)
(* HPA, under a name that the metrics adapter finds them by.               *)
(*                                                                         *)
(* A metric has the fields its type uses: value is the average, or the     *)
(* utilization of CPU and Memory; target the name of the queue, endpoint,  *)
(* check, hosts or schedule; detail what else is said of it.  Names are    *)
(* numbers, in the order of strings; None is a field that is not given.    *)
(***************************************************************************)
EXTENDS Integers, SequencesExt

None == 0         \* not given; an empty container
Incomplete == 1   \* a target with an empty name or without another field it must have

\* The types in the order of their names.
Types == <<"AmazonSQS", "CPU", "ClusterScalingSchedule", "Ingress", "Memory", "PodJSON",
           "RequestsPerSecond", "RouteGroup", "ScalingSchedule", "ZMON">>
Rank(type) == CHOOSE i \in DOMAIN Types : Types[i] = type

OfResource == {"CPU", "Memory"}
OfRequests == {"Ingress", "RouteGroup"}
Annotated == {"PodJSON", "RequestsPerSecond", "ZMON"}
Numbered == {"AmazonSQS", "ZMON"}

\* A metric gives the fields its type uses.
MetricsOf(type) ==
    [type : {type},
     value : Nat,
     container : IF type \in OfResource THEN Nat ELSE {None},
     target : IF type \in OfResource \union OfRequests THEN {None} ELSE Nat,
     detail : Nat]
IsMetric(m) == m.type \in Range(Types) /\ m \in MetricsOf(m.type)

\* A field that both give, and differently.
Told(m, n, field) == m[field] # None /\ n[field] # None /\ m[field] # n[field]

\* Mutant: metrics of a type are only told apart by value and container.
LessByValue(m, n) ==
    \/ Rank(m.type) < Rank(n.type)
    \/ m.type = n.type /\ Told(m, n, "value") /\ m.value < n.value
    \/ m.type = n.type /\ ~Told(m, n, "value") /\ Told(m, n, "container") /\ m.container < n.container

\* The comparator: the first field that tells two metrics apart.
Less(m, n) ==
    \/ Rank(m.type) < Rank(n.type)
    \/ /\ m.type = n.type
       /\ IF Told(m, n, "value") THEN m.value < n.value
          ELSE IF m.container # None /\ n.container # None THEN m.container < n.container
          ELSE Told(m, n, "target") /\ m.target < n.target

\* sort.Sort, which is an insertion sort up to 12 metrics.
Insert(sorted, m) ==
    LET i == Max({0} \union {j \in DOMAIN sorted : ~Less(m, sorted[j])})
    IN  InsertAt(sorted, i + 1, m)

SortedMetrics(metrics) == FoldLeft(Insert, <<>>, metrics)

\* The functions for the types return an error.
RefusedMetric(m) ==
    \/ m.value = None
    \/ m.type \notin OfResource \union OfRequests /\ m.target = None
    \/ m.type \notin OfResource \union OfRequests \union {"ZMON"} /\ m.target = Incomplete

\* podJsonMetric reads the name of an endpoint before it knows there is one.
PanickingMetric(m) == m.type = "PodJSON" /\ m.value # None /\ m.target = None

\* Mutant: checks are not numbered.
NameWithoutPosition(m, i) == [type |-> m.type, target |-> 0]

\* The name of the i-th metric; that of requests per second is the stack's.
Name(m, i) ==
    [type |-> m.type,
     target |-> CASE m.type \in Numbered -> i
                  [] m.type \in OfResource -> m.container
                  [] m.type \in OfRequests \union {"RequestsPerSecond"} -> 0
                  [] OTHER -> m.target]

\* What the HPA itself says of a metric: requests and pods have it in annotations only.
Selector(m) ==
    IF m.type \in {"AmazonSQS", "ZMON", "ClusterScalingSchedule"} THEN <<m.target, m.detail>> ELSE <<>>

Described(m) == <<m.target, m.detail>>

(***************************************************************************)
(* convertCustomMetrics: the first metric that cannot be converted decides; *)
(* annotations of the same name overwrite one another.                     *)
(***************************************************************************)
Converted(metrics) ==
    LET sorted == SortedMetrics(metrics)
        failed == {i \in DOMAIN sorted : RefusedMetric(sorted[i])}
        annotated == {i \in DOMAIN sorted : sorted[i].type \in Annotated}
        NameAt(i) == Name(sorted[i], i)
        LastOf(name) == Max({i \in annotated : NameAt(i) = name})
    IN  IF failed # {}
        THEN [outcome |-> IF PanickingMetric(sorted[Min(failed)]) THEN "panic" ELSE "error",
              metrics |-> <<>>, annotations |-> <<>>]
        ELSE [outcome |-> "converted",
              metrics |-> [i \in DOMAIN sorted |->
                              [name |-> NameAt(i), selector |-> Selector(sorted[i]), value |-> sorted[i].value]],
              annotations |-> [name \in {NameAt(i) : i \in annotated} |-> Described(sorted[LastOf(name)])]]
=============================================================================
