------------------------------ MODULE Rollout ------------------------------
(***************************************************************************)
(* What a StackSet promises to its users, without the controller: versions *)
(* are asked for, get stacks, lose them, and count as observed.            *)
(*                                                                         *)
(* No step does two of these things.  A stack is only made for a version   *)
(* that was asked for, a version only counts as observed once its stack    *)
(* was made, and nobody but the user decides what is asked for.            *)
(***************************************************************************)
CONSTANTS
    Versions,    \* the versions a user may ask for
    NoVersion    \* none is observed

VARIABLES
    template,    \* the version asked for
    asked,       \* all that were ever asked for
    stacks,      \* the versions that have a stack
    created,     \* all for which one was ever made
    observed     \* status.observedStackVersion

vars == <<template, asked, stacks, created, observed>>

Init ==
    /\ template \in Versions
    /\ asked = {template}
    /\ stacks = {}
    /\ created = {}
    /\ observed = NoVersion

\* The user writes a version into the template.
Ask(v) ==
    /\ template' = v
    /\ asked' = asked \union {v}
    /\ UNCHANGED <<stacks, created, observed>>

\* A version gets its stack.
Create(v) ==
    /\ v \in asked
    /\ stacks' = stacks \union {v}
    /\ created' = created \union {v}
    /\ UNCHANGED <<template, asked, observed>>

\* A version loses its stack.
Remove(v) ==
    /\ stacks' = stacks \ {v}
    /\ UNCHANGED <<template, asked, created, observed>>

\* The status changes; it may go back, to what an outdated copy had.
Observe(v) ==
    /\ v \in created \union {NoVersion}
    /\ observed' = v
    /\ UNCHANGED <<template, asked, stacks, created>>

Next ==
    \/ \E v \in Versions : Ask(v) \/ Create(v) \/ Remove(v)
    \/ \E v \in Versions \union {NoVersion} : Observe(v)

Spec == Init /\ [][Next]_vars
=============================================================================
