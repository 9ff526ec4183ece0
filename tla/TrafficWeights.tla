--------------------------- MODULE TrafficWeights ---------------------------
(***************************************************************************)
(* The arithmetic on traffic weights: normalisation, rounding and the      *)
(* choice of a fallback stack.                                             *)
(*                                                                         *)
(* Weights are a function from stacks to natural numbers.  The code uses   *)
(* floating point; here a normalised weight w[s] / sum * Total is kept as  *)
(* an integer part and a remainder over the sum, both exact.  A stack is   *)
(* the rank of its name.                                                   *)
(***************************************************************************)
EXTENDS Integers, FiniteSetsExt

CONSTANT Total   \* the whole traffic, 100 in the code

ASSUME TotalAssumption == Total \in Nat \ {0}

\* Mutant: one stack without weight is enough.
SomeZero(w) == \E s \in DOMAIN w : w[s] = 0

\* No stack has any weight.
AllZero(w) == \A s \in DOMAIN w : w[s] = 0

SumOf(w) == MapThenSumSet(LAMBDA s : w[s], DOMAIN w)

(***************************************************************************)
(* normalizeWeights, up to the factor Total / sum that the operators below *)
(* apply: equal weights if there are none, else the weights themselves.    *)
(***************************************************************************)
NormalizeWeights(w) == IF AllZero(w) THEN [s \in DOMAIN w |-> 1] ELSE w

\* The integer part and the fraction (over the sum) of a normalised weight.
Floor(w, s) == (w[s] * Total) \div SumOf(w)
Fraction(w, s) == (w[s] * Total) % SumOf(w)

\* Mutant: the smallest fraction comes first.
ServedBySmallest(w, s, t) ==
    \/ Fraction(w, s) < Fraction(w, t)
    \/ Fraction(w, s) = Fraction(w, t) /\ s < t

\* The order of roundWeights: biggest fraction, biggest integer, name.
ServedBefore(w, s, t) ==
    \/ Fraction(w, s) > Fraction(w, t)
    \/ /\ Fraction(w, s) = Fraction(w, t)
       /\ Floor(w, s) > Floor(w, t) \/ (Floor(w, s) = Floor(w, t) /\ s < t)

\* What the integer parts leave to distribute.
Leftover(w) == Total - SumOf([s \in DOMAIN w |-> Floor(w, s)])

\* roundWeights: the first stacks of that order get one more.
RoundWeights(w) ==
    [s \in DOMAIN w |->
        IF Cardinality({t \in DOMAIN w : ServedBefore(w, t, s)}) < Leftover(w)
        THEN Floor(w, s) + 1
        ELSE Floor(w, s)]

(***************************************************************************)
(* findFallbackStack among the stacks of the domain of created: the most   *)
(* recently used one, or else the earliest.  Equal times are decided by    *)
(* the order of a Go map, so this is the set of possible choices.          *)
(***************************************************************************)
FallbackStacks(created, noTrafficSince) ==
    LET stacks == DOMAIN created
        used == {s \in stacks : noTrafficSince[s] # 0}
    IN  IF used # {}
        THEN {s \in used : \A t \in used : noTrafficSince[t] <= noTrafficSince[s]}
        ELSE {s \in stacks : \A t \in stacks : created[s] <= created[t]}

(***************************************************************************)
(* What ManageTraffic makes of the desired or the actual weights: all to   *)
(* the fallback stack if there are none, else normalised and rounded.      *)
(***************************************************************************)
ManagedWeights(w, fallback) ==
    IF AllZero(w)
    THEN [s \in DOMAIN w |-> IF s = fallback THEN Total ELSE 0]
    ELSE RoundWeights(NormalizeWeights(w))

-----------------------------------------------------------------------------
(***************************************************************************)
(* "rounds all the weights to whole numbers while ensuring they still add  *)
(* up to 100": r is a fair rounding of the weights w.  Its weights add up  *)
(* to Total, none is a whole unit away from its exact share, a stack       *)
(* without weight gets nothing, and none is rounded up past one with more  *)
(* weight.                                                                 *)
(***************************************************************************)
FairlyRounded(w, r) ==
    /\ SumOf(r) = Total
    /\ ~AllZero(w) =>
         \A s \in DOMAIN w :
             /\ r[s] * SumOf(w) - w[s] * Total < SumOf(w)
             /\ w[s] * Total - r[s] * SumOf(w) < SumOf(w)
             /\ w[s] = 0 => r[s] = 0
             /\ \A t \in DOMAIN w : w[s] < w[t] => r[s] <= r[t]
=============================================================================
