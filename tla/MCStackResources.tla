-------------------------- MODULE MCStackResources --------------------------
\* Small instances of StackResources: two stacks that begin with an autoscaler and a
\* configuration resource both names are a prefix of.
EXTENDS StackResources

Template(autoscaled, flaw, r) ==
    [replicas |-> 1, autoscaled |-> autoscaled, flaw |-> flaw, refs |-> r]

Plain == Template(FALSE, "none", {})
Autoscaled == Template(TRUE, "none", {})
Configured == Template(TRUE, "none", Configs)
BadMetric == Template(TRUE, "metric", {})
NoEndpoint == Template(TRUE, "endpoint", {})

Mixed == {Plain, Configured, BadMetric, NoEndpoint}
AllConfigured == [s \in Stacks |-> Configured]
Mistaken == {Plain, NoEndpoint}
AllPlain == [s \in Stacks |-> Plain]
Everyone == Stacks \X Configs
=============================================================================
