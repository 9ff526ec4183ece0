--------------------------- MODULE MCCalculations ---------------------------
\* A small instance of Calculations: metrics that differ in little.
EXTENDS Calculations

Metric(type, values, containers, targets, details) ==
    [type : {type}, value : values, container : containers, target : targets, detail : details]

\* Of every kind of conversion; those with annotations, and checks and queues, in more variants.
MCOffered ==
    UNION {Metric("CPU", {None, 1, 2}, {None, 1, 2}, {None}, {1}),
           Metric("Ingress", {1, 2}, {None}, {None}, {1}),
           Metric("PodJSON", {None, 1}, {None}, {None, Incomplete, 2, 3}, {1, 2}),
           Metric("RequestsPerSecond", {1, 2}, {None}, {2, 3}, {1}),
           Metric("ScalingSchedule", {1}, {None}, {Incomplete, 2}, {1}),
           Metric("ZMON", {1, 2}, {None}, {None, Incomplete, 2}, {1, 2})}
=============================================================================
