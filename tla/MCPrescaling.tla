---------------------------- MODULE MCPrescaling ----------------------------
\* Small instances of Prescaling: every split of the traffic over the stacks.
EXTENDS Prescaling

AllSplits == {w \in [Stacks -> 0..Total] : SumOf(w) = Total}
=============================================================================
