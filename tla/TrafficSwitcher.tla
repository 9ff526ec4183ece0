-------------------------- MODULE TrafficSwitcher --------------------------
(***************************************************************************)
(* The traffic command: it gives one stack of a StackSet a share of the    *)
(* traffic and scales the shares of the others so that they keep their     *)
(* proportions.                                                            *)
(*                                                                         *)
(* Weights are an annotation of an ingress with the name of the StackSet.  *)
(* A command lists the stacks, reads the annotation and writes all of it   *)
(* back, with no version: commands that run at the same time, and stacks   *)
(* that come and go, may get in between.                                   *)
(*                                                                         *)
(* The weight of stack s is num[s] / den of the whole traffic, exact where *)
(* the code computes with floating point.                                  *)
(***************************************************************************)
EXTENDS Integers, FiniteSetsExt

CONSTANTS
    Names,        \* the names of stacks
    Commands,     \* the commands users run
    Whole,        \* the whole traffic, 100 in the code, for what users ask
    MaxInitial,   \* bound: weights in the annotation at first
    MaxChanges    \* bound: stacks created and deleted

ASSUME NamesAssumption == IsFiniteSet(Names) /\ Names # {}
ASSUME WholeAssumption == Whole \in Nat \ {0}
ASSUME SwitcherBoundsAssumption == MaxInitial \in 0..Whole /\ MaxChanges \in Nat

VARIABLES
    existing,    \* cluster: the names of the stacks
    annotation,  \* cluster: zalando.org/stack-traffic-weights
    call,        \* what each command does next
    asked,       \* the stack and the weight it was started with (no matter before the start)
    listed,      \* the stacks it has listed
    read,        \* the weights it has read
    done,        \* history: the command that had its way last, if no stack came or went
    current,     \* history: the commands since whose reading nobody has written
    changes

command == <<call, asked, listed, read>>
switcherVars == <<existing, annotation, command, done, current, changes>>

Requests == [stack : Names, weight : 0..Whole]

SumWeights(num, names) == MapThenSumSet(LAMBDA s : num[s], names)

\* The same weights.
Same(a, b) == \A s \in Names : a.num[s] * b.den = b.num[s] * a.den

\* Without common factors, so that equal weights are equal.
Reduced(ratio) ==
    LET d == Max({e \in 1..ratio.den : ratio.den % e = 0 /\ \A s \in Names : ratio.num[s] % e = 0})
    IN  [num |-> [s \in Names |-> ratio.num[s] \div d], den |-> ratio.den \div d]

NoWeights == [num |-> [s \in Names |-> 0], den |-> 1]

SwitcherInit ==
    /\ existing \in SUBSET Names
    /\ annotation \in {Reduced([num |-> num, den |-> Whole]) : num \in [Names -> 0..MaxInitial]}
    /\ call = [c \in Commands |-> "start"]
    /\ asked = [c \in Commands |-> CHOOSE r \in Requests : TRUE]
    /\ listed = [c \in Commands |-> {}]
    /\ read = [c \in Commands |-> NoWeights]
    /\ done = {} /\ current = {}
    /\ changes = 0

\* The first call of getStacks: a list of the stacks.  Without any there is nothing to do.
List(c, request) ==
    /\ call[c] = "start"
    /\ asked' = [asked EXCEPT ![c] = request]
    /\ listed' = [listed EXCEPT ![c] = existing]
    /\ call' = [call EXCEPT ![c] = IF existing = {} THEN "end" ELSE "read"]
    /\ UNCHANGED <<existing, annotation, read, done, current, changes>>

\* The second, getIngressTraffic: the weights of the listed stacks.
Read(c) ==
    /\ call[c] = "read"
    /\ read' = [read EXCEPT ![c] =
                    Reduced([num |-> [s \in Names |-> IF s \in listed[c] THEN annotation.num[s] ELSE 0],
                             den |-> annotation.den])]
    /\ call' = [call EXCEPT ![c] = "write"]
    /\ current' = current \union {c}
    /\ UNCHANGED <<existing, annotation, asked, listed, done, changes>>

\* Mutant: the weights are taken as they are.
AsTheyAre(c) == read[c]

\* normalizeWeights: equal weights if there are none, else their shares of the whole.
Normalized(c) ==
    IF SumWeights(read[c].num, Names) = 0
    THEN [num |-> [s \in Names |-> IF s \in listed[c] THEN 1 ELSE 0],
          den |-> Cardinality(listed[c])]
    ELSE [num |-> read[c].num, den |-> SumWeights(read[c].num, Names)]

\* Less is asked for the only stack that has any: setWeightForStacks returns an error.
OnlyOne(c) ==
    /\ Normalized(c).num[asked[c].stack] >= Normalized(c).den
    /\ asked[c].weight < Whole

\* Mutant: what is left is distributed equally.
NewWeightsEqual(c) ==
    LET others == listed[c] \ {asked[c].stack}
        n == IF others = {} THEN 1 ELSE Cardinality(others)
    IN  Reduced([num |-> [t \in Names |-> IF t \notin listed[c] THEN 0
                                          ELSE IF t \notin others THEN asked[c].weight * n
                                          ELSE Whole - asked[c].weight],
                 den |-> Whole * n])

(***************************************************************************)
(* setWeightForStacks: the stack gets its weight, if it is one of those    *)
(* listed, and the others are scaled to what is left.                      *)
(***************************************************************************)
NewWeights(c) ==
    LET w == Normalized(c)
        s == asked[c].stack
        others == Max({w.den - w.num[s], 1})
    IN  Reduced([num |-> [t \in Names |-> IF t # s THEN w.num[t] * (Whole - asked[c].weight)
                                          ELSE IF s \in listed[c] THEN asked[c].weight * others ELSE 0],
                 den |-> Whole * others])

Ends(c) ==
    /\ call' = [call EXCEPT ![c] = "end"]
    /\ listed' = [listed EXCEPT ![c] = {}]
    /\ read' = [read EXCEPT ![c] = NoWeights]

\* Switch: the annotation is written unless the weights are those that were read.
Write(c) ==
    /\ call[c] = "write"
    /\ Ends(c)
    /\ \/ OnlyOne(c) /\ UNCHANGED <<annotation, done, current>>
       \/ /\ ~OnlyOne(c) /\ Same(NewWeights(c), read[c])
          /\ done' = IF c \in current /\ listed[c] = existing THEN {c} ELSE done
          /\ UNCHANGED <<annotation, current>>
       \/ /\ ~OnlyOne(c) /\ ~Same(NewWeights(c), read[c])
          /\ annotation' = NewWeights(c)
          /\ done' = IF listed[c] = existing THEN {c} ELSE {}
          /\ current' = {}
    /\ UNCHANGED <<existing, asked, changes>>

\* One of the calls fails; the command ends.
Fails(c) ==
    /\ call[c] \in {"read", "write"}
    /\ Ends(c)
    /\ UNCHANGED <<existing, annotation, asked, done, current, changes>>

\* A stack is created or deleted; the annotation is left as it is.
StacksChange(s) ==
    /\ changes < MaxChanges
    /\ changes' = changes + 1
    /\ existing' = IF s \in existing THEN existing \ {s} ELSE existing \union {s}
    /\ done' = {}
    /\ UNCHANGED <<annotation, command, current>>

SwitcherNext ==
    \/ \E c \in Commands : Read(c) \/ Write(c) \/ Fails(c) \/ \E r \in Requests : List(c, r)
    \/ \E s \in Names : StacksChange(s)

SwitcherSpec == SwitcherInit /\ [][SwitcherNext]_switcherVars

-----------------------------------------------------------------------------
(***************************************************************************)
(* Commands overwrite one another, but never end in a mixture: the one     *)
(* that had its way last has its stack at the share it asked for, of       *)
(* weights that are the whole, also if it found nothing to write.          *)
(***************************************************************************)
ShareInEffect ==
    \A c \in done : asked[c].stack \in existing =>
        /\ SumWeights(annotation.num, existing) = annotation.den
        /\ annotation.num[asked[c].stack] * Whole = asked[c].weight * annotation.den

(***************************************************************************)
(* "adjusts the other stack weights relatively": a command nobody got in   *)
(* the way of leaves the proportions of all other stacks as they were,     *)
(* also if its own stack does not exist.                                   *)
(***************************************************************************)
OthersKeepProportions ==
    [][\A c \in current : annotation' # annotation /\ call[c] = "write" /\ call'[c] = "end" =>
          \A s, t \in listed[c] \ {asked[c].stack} :
              annotation.num[s] * annotation'.num[t] = annotation.num[t] * annotation'.num[s]]_switcherVars
=============================================================================
