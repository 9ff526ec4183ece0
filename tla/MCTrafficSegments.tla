------------------------- MODULE MCTrafficSegments -------------------------
(***************************************************************************)
(* Small instances of TrafficSegments: every split of the traffic over     *)
(* two or three stacks in units of 1/Total.                                *)
(***************************************************************************)
EXTENDS TrafficSegments

AllSplits == {w \in [Stacks -> 0..Total] : SumOf(w) = Total}
=============================================================================
