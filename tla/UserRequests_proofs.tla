------------------------- MODULE UserRequests_proofs -------------------------
(***************************************************************************)
(* Proofs about what users ask for and what is made of it: the traffic in  *)
(* a StackSet, which the controller keeps; weights that every pass manages *)
(* again; the traffic command; and the metrics of a stack, in whatever     *)
(* order they are written.  For any stacks, weights, commands and lists of *)
(* metrics.                                                                *)
(*                                                                         *)
(* What a fold computes is shown by looking at a smallest part of the list *)
(* for which it would be something else, as for sums.                      *)
(***************************************************************************)
EXTENDS DesiredTraffic, Calculations, TrafficWeights_proofs, SequenceTheorems

\* A finite set of integers has a greatest and a smallest element.
LEMMA Extremes ==
    ASSUME NEW S, IsFiniteSet(S), S \subseteq Int, S # {}
    PROVE  /\ Max(S) \in S /\ \A y \in S : Max(S) >= y
           /\ Min(S) \in S /\ \A y \in S : Min(S) <= y
<1> DEFINE P == {T \in SUBSET S : T # {} => /\ \E x \in T : \A y \in T : x >= y
                                            /\ \E x \in T : \A y \in T : x <= y}
<1>1. {} \in P
  OBVIOUS
<1>2. ASSUME NEW T \in SUBSET S, NEW z \in S, T \in P, z \notin T PROVE T \union {z} \in P
  <2>1. CASE T = {}
    BY <2>1
  <2>2. CASE T # {}
    <3>1. PICK a \in T : \A y \in T : a >= y
      BY <1>2, <2>2
    <3>2. PICK b \in T : \A y \in T : b <= y
      BY <1>2, <2>2
    <3>3. \E x \in T \union {z} : \A y \in T \union {z} : x >= y
      <4>1. CASE z >= a
        BY <3>1, <4>1
      <4>2. CASE ~(z >= a)
        BY <3>1, <4>2
      <4> QED BY <4>1, <4>2
    <3>4. \E x \in T \union {z} : \A y \in T \union {z} : x <= y
      <4>1. CASE z <= b
        BY <3>2, <4>1
      <4>2. CASE ~(z <= b)
        BY <3>2, <4>2
      <4> QED BY <4>1, <4>2
    <3> QED BY <3>3, <3>4
  <2> QED BY <2>1, <2>2
<1>3. S \in P
  <2> HIDE DEF P
  <2> QED BY <1>1, <1>2, FiniteInduction
<1>4. \E x \in S : \A y \in S : x >= y
  BY <1>3
<1>5. \E x \in S : \A y \in S : x <= y
  BY <1>3
<1> QED BY <1>4, <1>5 DEF Max, Min

-----------------------------------------------------------------------------
(***************************************************************************)
(* The traffic a user asks for in the StackSet.                            *)
(***************************************************************************)
\* What a pass writes when f is the fallback stack.
Spread(f) == [s \in Stacks |-> IF s \in seen.stacks THEN ManagedWeights(Filtered, f)[s] ELSE 0]

\* The weights requested, and what rounding makes of them.
RequestedWeights == [s \in Requested(request) |-> request[s]]
RoundedRequest ==
    [s \in Stacks |-> IF s \in Requested(request) THEN RoundWeights(RequestedWeights)[s] ELSE 0]

\* The weights of the stacks listed are weights of finitely many stacks.
LEMMA FilteredIsWeights ==
    ASSUME TypeOK
    PROVE  IsWeights(Filtered) /\ DOMAIN Filtered = seen.stacks
<1>1. seen.stacks \in SUBSET Stacks /\ seen.spec \in [Stacks -> Nat]
  BY DEF TypeOK
<1>2. IsFiniteSet(seen.stacks) /\ seen.stacks \subseteq Nat
  BY <1>1, StacksAssumption, FS_Subset
<1> QED BY <1>1, <1>2 DEF IsWeights, Filtered

\* Without stacks there is no traffic, else one of them is the fallback.
LEMMA GeneratedIs ==
    ASSUME NEW w \in Generated
    PROVE  \/ seen.stacks = {} /\ w = NoTraffic
           \/ \E f \in seen.stacks : w = Spread(f)
BY DEF Generated, Spread

\* Whatever a pass writes is weights for all the stacks there may be.
LEMMA GeneratedType ==
    ASSUME TypeOK, NEW w \in Generated
    PROVE  w \in [Stacks -> Nat]
<1>1. CASE w = NoTraffic
  BY <1>1 DEF NoTraffic
<1>2. ASSUME NEW f \in seen.stacks, w = Spread(f) PROVE w \in [Stacks -> Nat]
  <2>1. IsWeights(Filtered) /\ DOMAIN Filtered = seen.stacks
    BY FilteredIsWeights
  <2>2. ManagedWeights(Filtered, f) \in [seen.stacks -> 0..Total]
    BY <2>1, ManagedIsWhole
  <2>3. \A s \in seen.stacks : ManagedWeights(Filtered, f)[s] \in Nat
    BY <2>2, TotalAssumption
  <2> QED BY <1>2, <2>3 DEF Spread
<1> QED BY <1>1, <1>2, GeneratedIs

\* At first nobody has asked for any traffic.
LEMMA InitTyped == Init => TypeOK
<1> SUFFICES ASSUME Init PROVE TypeOK
  OBVIOUS
<1> QED BY BoundsAssumption DEF Init, TypeOK, NoTraffic

\* Every step keeps the types.
LEMMA NextTyped == TypeOK /\ [Next]_vars => TypeOK'
<1> SUFFICES ASSUME TypeOK, [Next]_vars PROVE TypeOK'
  OBVIOUS
<1> USE DEF TypeOK
<1>1. CASE UserSetsTraffic
  <2>1. PICK w \in [Stacks -> 0..MaxWeight] : spec' = w /\ request' = w
                                              /\ intact' = (Requested(w) \subseteq stacks)
    BY <1>1 DEF UserSetsTraffic
  <2>2. w \in [Stacks -> Nat]
    BY BoundsAssumption
  <2>3. intact' \in BOOLEAN
    BY <2>1
  <2> QED BY <1>1, <2>1, <2>2, <2>3, BoundsAssumption DEF UserSetsTraffic, Edit
<1>2. ASSUME NEW s \in Stacks, StackDeleted(s) PROVE TypeOK'
  <2>1. intact' \in BOOLEAN
    BY <1>2 DEF StackDeleted
  <2> QED BY <1>2, <2>1, BoundsAssumption DEF StackDeleted, Edit
<1>3. ASSUME NEW s \in Stacks, CreateCurrentStack(s) PROVE TypeOK'
  <2>1. /\ version' \in Nat
        /\ seen' \in [spec : [Stacks -> Nat], version : Nat, stacks : SUBSET Stacks]
    <3>1. CASE version = seen.version
      <4>1. seen' = [seen EXCEPT !.version = version + 1, !.stacks = @ \union {s}]
            /\ version' = version + 1
        BY <1>3, <3>1 DEF CreateCurrentStack
      <4>2. seen' = [spec |-> seen.spec, version |-> version + 1,
                     stacks |-> seen.stacks \union {s}]
        BY <4>1
      <4> QED BY <4>1, <4>2
    <3>2. CASE version # seen.version
      BY <1>3, <3>2 DEF CreateCurrentStack
    <3> QED BY <3>1, <3>2
  <2> QED BY <1>3, <2>1, BoundsAssumption DEF CreateCurrentStack, Edit
<1>4. CASE Deliver
  BY <1>4 DEF Deliver
<1>5. CASE Collect
  BY <1>5 DEF Collect
<1>6. CASE NoNewStack
  BY <1>6 DEF NoNewStack
<1>7. CASE UpdateSpec
  <2>1. spec' \in [Stacks -> Nat] /\ version' \in Nat
    BY <1>7, GeneratedType DEF UpdateSpec
  <2> QED BY <1>7, <2>1 DEF UpdateSpec
<1>8. CASE KeepStatus
  BY <1>8 DEF KeepStatus
<1>9. CASE UpdateStatus
  BY <1>9, BoundsAssumption DEF UpdateStatus, Edit
<1>10. CASE PassFails
  BY <1>10, BoundsAssumption DEF PassFails
<1>11. CASE UNCHANGED vars
  BY <1>11 DEF vars
<1> QED
  BY <1>1, <1>2, <1>3, <1>4, <1>5, <1>6, <1>7, <1>8, <1>9, <1>10, <1>11 DEF Next, Pass

\* The specification stays weights for the possible stacks, whatever is written.
THEOREM TypeCorrect == Spec => []TypeOK
BY InitTyped, NextTyped, PTL DEF Spec

-----------------------------------------------------------------------------
(***************************************************************************)
(* A copy that carries the version of the StackSet is not outdated.        *)
(***************************************************************************)
Known ==
    /\ store.version <= version
    /\ store.version = version => store.spec = spec
    /\ seen.version <= version
    /\ seen.version = version => seen.spec = spec

(***************************************************************************)
(* As long as the stacks of the request exist, a pass whose copy is not    *)
(* outdated has listed them: the request is older than the copy.           *)
(***************************************************************************)
Present ==
    intact =>
        /\ Requested(request) \subseteq stacks
        /\ seen.version = version => Requested(request) \subseteq seen.stacks

Kept == Known /\ Present /\ RequestKept

\* RequestKept, with what rounding makes of the request as weights of all stacks.
LEMMA KeptIs ==
    ASSUME TypeOK
    PROVE  RequestKept <=>
             (intact /\ Requested(request) # {} => spec = request \/ spec = RoundedRequest)
<1>1. (\A s \in Stacks :
         spec[s] = IF s \in Requested(request)
                   THEN RoundWeights([t \in Requested(request) |-> request[t]])[s]
                   ELSE 0) <=> spec = RoundedRequest
  <2>1. spec \in [Stacks -> Nat]
    BY DEF TypeOK
  <2> QED BY <2>1 DEF RoundedRequest, RequestedWeights
<1> QED BY <1>1 DEF RequestKept

\* A request for some stacks is weights, not all zero.
LEMMA RequestIsWeights ==
    ASSUME TypeOK, Requested(request) # {}
    PROVE  IsWeights(RequestedWeights) /\ ~AllZero(RequestedWeights)
<1>1. Requested(request) \in SUBSET Stacks /\ request \in [Stacks -> Nat]
  BY BoundsAssumption DEF TypeOK, Requested
<1>2. IsFiniteSet(Requested(request)) /\ Requested(request) \subseteq Nat
  BY <1>1, StacksAssumption, FS_Subset
<1>3. IsWeights(RequestedWeights)
  BY <1>1, <1>2 DEF IsWeights, RequestedWeights
<1>4. ~AllZero(RequestedWeights)
  <2>1. PICK s \in Requested(request) : request[s] > 0
    BY DEF Requested
  <2>2. RequestedWeights[s] # 0 /\ s \in DOMAIN RequestedWeights
    BY <1>1, <2>1 DEF RequestedWeights
  <2> QED BY <2>2 DEF AllZero
<1> QED BY <1>3, <1>4

(***************************************************************************)
(* A pass that knows the request makes of it, or of what it has been made  *)
(* into already, the same rounded weights.                                 *)
(***************************************************************************)
LEMMA RequestRounded ==
    ASSUME TypeOK, Requested(request) # {}, Requested(request) \subseteq seen.stacks,
           seen.spec = request, NEW f \in seen.stacks
    PROVE  Spread(f) = RoundedRequest
<1> DEFINE v == RequestedWeights
<1>1. IsWeights(Filtered) /\ DOMAIN Filtered = seen.stacks
  BY FilteredIsWeights
<1>2. seen.stacks \subseteq Stacks /\ request \in [Stacks -> Nat]
  BY BoundsAssumption DEF TypeOK
<1>3. /\ DOMAIN v \subseteq DOMAIN Filtered
      /\ \A s \in DOMAIN v : v[s] = Filtered[s]
      /\ \A s \in (DOMAIN Filtered) \ (DOMAIN v) : Filtered[s] = 0
  BY <1>1, <1>2 DEF RequestedWeights, Filtered, Requested
<1>4. ~AllZero(Filtered)
  BY <1>1, <1>2 DEF AllZero, Filtered, Requested
<1>5. ManagedWeights(Filtered, f) = RoundWeights(Filtered)
  BY <1>4 DEF ManagedWeights, NormalizeWeights
<1>6. \A s \in DOMAIN v : RoundWeights(v)[s] = RoundWeights(Filtered)[s]
  <2> HIDE DEF v
  <2> QED BY <1>1, <1>3, <1>4, RoundingIgnoresUnweighted
<1>7. \A s \in (DOMAIN Filtered) \ (DOMAIN v) : RoundWeights(Filtered)[s] = 0
  BY <1>1, <1>3, <1>4, UnweightedGetsNothing
<1>8. DOMAIN v = Requested(request)
  BY DEF RequestedWeights
<1> QED BY <1>1, <1>2, <1>5, <1>6, <1>7, <1>8 DEF Spread, RoundedRequest

\* Rounded weights are left alone, whatever stacks without traffic there are.
LEMMA RoundedKept ==
    ASSUME TypeOK, Requested(request) # {}, Requested(request) \subseteq seen.stacks,
           seen.spec = RoundedRequest, NEW f \in seen.stacks
    PROVE  Spread(f) = RoundedRequest
<1> DEFINE v == RequestedWeights
           r == RoundWeights(v)
           T == Requested(request)
<1>1. IsWeights(Filtered) /\ DOMAIN Filtered = seen.stacks
  BY FilteredIsWeights
<1>2. seen.stacks \subseteq Stacks /\ T \subseteq Stacks
  BY DEF TypeOK, Requested
<1>3. IsWeights(v) /\ ~AllZero(v) /\ DOMAIN v = T
  BY RequestIsWeights DEF RequestedWeights
<1>4. SumOf(r) = Total /\ DOMAIN r = T
  BY <1>3, RoundingKeepsWhole DEF RoundWeights
<1>5. \A s \in seen.stacks : Filtered[s] = IF s \in T THEN r[s] ELSE 0
  BY <1>2 DEF Filtered, RoundedRequest
<1>6. SumOf(Filtered) = Total
  <2> HIDE DEF v, r, T
  <2>1. IsFiniteSet(seen.stacks) /\ \A s \in seen.stacks : Filtered[s] \in Int
    BY <1>1 DEF IsWeights
  <2>2. T \in SUBSET seen.stacks /\ IsFiniteSet(T)
    BY <2>1, FS_Subset DEF T
  <2>3. SumOver(Filtered, seen.stacks) = SumOver(Filtered, T)
    BY <1>5, <2>1, <2>2, SumSupport
  <2>4. SumOver(Filtered, T) = SumOver(r, T)
    BY <1>5, <2>2, SumEqual
  <2>5. SumOf(Filtered) = SumOver(Filtered, seen.stacks) /\ SumOf(r) = SumOver(r, T)
    BY <1>1, <1>4 DEF SumOf, SumOver
  <2> QED BY <1>4, <2>3, <2>4, <2>5
<1>7. ManagedWeights(Filtered, f) = [s \in seen.stacks |-> Filtered[s]]
  BY <1>1, <1>6, ManagedIsKept
<1> QED BY <1>2, <1>5, <1>7 DEF Spread, RoundedRequest

\* What has been made of the request is left as it is.
LEMMA SpreadKept ==
    ASSUME TypeOK, Kept, intact, Requested(request) # {}, seen.version = version,
           NEW f \in seen.stacks
    PROVE  Spread(f) = RoundedRequest
<1>1. seen.spec = request \/ seen.spec = RoundedRequest
  BY KeptIs DEF Kept, Known
<1>2. Requested(request) \subseteq seen.stacks
  BY DEF Kept, Present
<1> QED BY <1>1, <1>2, RequestRounded, RoundedKept

\* At first there is no request.
LEMMA InitKept == Init => Kept
<1> SUFFICES ASSUME Init PROVE Kept
  OBVIOUS
<1>1. Requested(request) = {}
  BY DEF Init, Requested, NoTraffic
<1> QED BY <1>1 DEF Init, Kept, Known, Present, RequestKept

(***************************************************************************)
(* A pass's update keeps the request: it is refused unless the pass knows  *)
(* the request and its stacks, and then it writes the rounded request.     *)
(***************************************************************************)
LEMMA UpdateKept ==
    ASSUME TypeOK, TypeOK', Kept, UpdateSpec
    PROVE  Kept'
<1>1. UNCHANGED <<stacks, store, seen, request, intact>>
  BY DEF UpdateSpec
<1>2. CASE UNCHANGED <<spec, version>>
  BY <1>1, <1>2 DEF Kept, Known, Present, RequestKept
<1>3. CASE ~UNCHANGED <<spec, version>>
  <2>1. PICK w \in Generated :
            w # seen.spec /\ version = seen.version /\ spec' = w /\ version' = version + 1
    BY <1>3 DEF UpdateSpec
  <2>2. version \in Nat /\ store.version \in Nat /\ seen.version \in Nat
    BY DEF TypeOK
  <2>3. Known'
    BY <1>1, <2>1, <2>2 DEF Kept, Known
  <2>4. Present'
    BY <1>1, <2>1, <2>2 DEF Kept, Present
  <2>5. ASSUME intact', Requested(request') # {} PROVE spec' = RoundedRequest'
    <3>1. intact /\ Requested(request) # {} /\ Requested(request) \subseteq seen.stacks
      BY <1>1, <2>1, <2>5 DEF Kept, Present
    <3>2. PICK f \in seen.stacks : w = Spread(f)
      BY <3>1, GeneratedIs
    <3>3. w = RoundedRequest
      BY <2>1, <3>1, <3>2, SpreadKept
    <3>4. RoundedRequest' = RoundedRequest
      BY <1>1 DEF RoundedRequest, RequestedWeights, Requested
    <3> QED BY <2>1, <3>3, <3>4
  <2>6. RequestKept'
    BY <2>5 DEF RequestKept, RoundedRequest, RequestedWeights, Requested
  <2> QED BY <2>3, <2>4, <2>6 DEF Kept
<1> QED BY <1>2, <1>3

\* Every step keeps copies, stacks and request together.
LEMMA NextKept == TypeOK /\ TypeOK' /\ Kept /\ [Next]_vars => Kept'
<1> SUFFICES ASSUME TypeOK, TypeOK', Kept, [Next]_vars PROVE Kept'
  OBVIOUS
<1>1. /\ version \in Nat /\ store.version \in Nat /\ seen.version \in Nat
      /\ seen \in [spec : [Stacks -> Nat], version : Nat, stacks : SUBSET Stacks]
      /\ request \in [Stacks -> Nat]
  BY BoundsAssumption DEF TypeOK
<1>2. CASE UserSetsTraffic
  <2>1. spec' = request' /\ version' = version + 1 /\ UNCHANGED <<stacks, store, seen>>
        /\ intact' = (Requested(request') \subseteq stacks)
    BY <1>2 DEF UserSetsTraffic
  <2>2. RequestKept'
    BY <2>1 DEF RequestKept
  <2>3. Known'
    BY <1>1, <2>1 DEF Kept, Known
  <2>4. Present'
    <3>1. seen'.version # version'
      BY <1>1, <2>1 DEF Kept, Known
    <3>2. Requested(request)' = Requested(request')
      BY DEF Requested
    <3> QED BY <2>1, <3>1, <3>2 DEF Present
  <2> QED BY <2>2, <2>3, <2>4 DEF Kept
<1>3. ASSUME NEW s \in Stacks, StackDeleted(s) PROVE Kept'
  <2>1. /\ UNCHANGED <<spec, version, store, seen, request>>
        /\ stacks' = stacks \ {s} /\ intact' = (intact /\ request[s] = 0)
    BY <1>3 DEF StackDeleted
  <2>2. request[s] = 0 => s \notin Requested(request)
    BY DEF Requested
  <2> QED BY <1>1, <2>1, <2>2 DEF Kept, Known, Present, RequestKept, Requested
<1>4. ASSUME NEW s \in Stacks, CreateCurrentStack(s) PROVE Kept'
  <2>1. UNCHANGED <<spec, store, request, intact>> /\ stacks' = stacks \union {s}
    BY <1>4 DEF CreateCurrentStack
  <2>2. CASE version = seen.version
    <3>1. /\ seen' = [seen EXCEPT !.version = version + 1, !.stacks = @ \union {s}]
          /\ version' = version + 1
      BY <1>4, <2>2 DEF CreateCurrentStack
    <3>2. seen'.version = version + 1 /\ seen'.spec = seen.spec
          /\ seen'.stacks = seen.stacks \union {s}
      BY <1>1, <3>1
    <3> QED BY <1>1, <2>1, <2>2, <3>1, <3>2 DEF Kept, Known, Present, RequestKept, Requested
  <2>3. CASE version # seen.version
    <3>1. UNCHANGED <<version, seen>>
      BY <1>4, <2>3 DEF CreateCurrentStack
    <3> QED BY <1>1, <2>1, <2>3, <3>1 DEF Kept, Known, Present, RequestKept, Requested
  <2> QED BY <2>2, <2>3
<1>5. CASE Deliver
  BY <1>1, <1>5 DEF Deliver, Kept, Known, Present, RequestKept, Requested
<1>6. CASE Collect
  BY <1>1, <1>6 DEF Collect, Kept, Known, Present, RequestKept, Requested
<1>7. CASE NoNewStack
  BY <1>7 DEF NoNewStack, Kept, Known, Present, RequestKept, Requested
<1>8. CASE UpdateSpec
  BY <1>8, UpdateKept
<1>9. CASE KeepStatus
  BY <1>9 DEF KeepStatus, Kept, Known, Present, RequestKept, Requested
<1>10. CASE UpdateStatus
  BY <1>1, <1>10 DEF UpdateStatus, Kept, Known, Present, RequestKept, Requested
<1>11. CASE PassFails
  BY <1>11 DEF PassFails, Kept, Known, Present, RequestKept, Requested
<1>12. CASE UNCHANGED vars
  BY <1>12 DEF vars, Kept, Known, Present, RequestKept, Requested
<1> QED
  BY <1>2, <1>3, <1>4, <1>5, <1>6, <1>7, <1>8, <1>9, <1>10, <1>11, <1>12 DEF Next, Pass

(***************************************************************************)
(* The request of a user is not lost: as long as its stacks exist, the     *)
(* specification is the request or what rounding makes of it, whatever     *)
(* passes, outdated copies, edits and failures come between.               *)
(***************************************************************************)
THEOREM RequestIsKept == Spec => []RequestKept
<1>1. Kept => RequestKept
  BY DEF Kept
<1> QED BY <1>1, InitTyped, NextTyped, InitKept, NextKept, PTL DEF Spec

-----------------------------------------------------------------------------
(***************************************************************************)
(* The weights the controller manages.                                     *)
(***************************************************************************)

\* After the first pass the weights are managed, of those that were given.
WeighingInv ==
    /\ given = NoWeighing \/ given \in [Ranks -> Nat]
    /\ managed = given \/ (managed \in [Ranks -> Nat] /\ SumOf(managed) = Total)
    /\ FairRounding

\* A pass manages what there is.
LEMMA ManageKeepsFair ==
    ASSUME WeighingInv, given # NoWeighing, NEW f \in Ranks, managed' = ManagedWeights(managed, f), given' = given
    PROVE  WeighingInv' /\ (SumOf(managed) = Total => managed' = managed)
<1>1. managed \in [Ranks -> Nat] /\ given \in [Ranks -> Nat]
  BY DEF WeighingInv
<1>2. IsWeights(managed) /\ DOMAIN managed = Ranks /\ managed = [s \in Ranks |-> managed[s]]
  BY <1>1, RanksAssumption DEF IsWeights
<1>3. SumOf(managed) = Total => managed' = managed
  BY <1>2, ManagedIsKept
<1>4. managed' \in [Ranks -> Nat] /\ SumOf(managed') = Total
  <2>1. managed' \in [Ranks -> 0..Total] /\ SumOf(managed') = Total
    BY <1>2, ManagedIsWhole
  <2> QED BY <2>1, TotalAssumption
<1>5. FairRounding'
  <2>1. CASE managed = given
    BY <1>2, <2>1, ManagedIsFair DEF FairRounding
  <2>2. CASE managed # given
    BY <1>3, <2>2 DEF WeighingInv, FairRounding
  <2> QED BY <2>1, <2>2
<1> QED BY <1>1, <1>3, <1>4, <1>5 DEF WeighingInv

\* Weights as they are given are of none of the passes yet.
LEMMA InitWeighing == CalculationsInit => WeighingInv
<1> SUFFICES ASSUME CalculationsInit PROVE WeighingInv
  OBVIOUS
<1>1. managed = given /\ (given = NoWeighing \/ given \in [Ranks -> 0..Heaviest])
  BY DEF CalculationsInit
<1> QED BY <1>1, CalculationsBoundsAssumption DEF WeighingInv, FairRounding

\* No step but that of a pass touches them.
LEMMA NextWeighing ==
    ASSUME WeighingInv, [CalculationsNext]_calculationVars
    PROVE  WeighingInv' /\ (SumOf(managed) = Total => managed' = managed)
<1>1. CASE Manage
  BY <1>1, ManageKeepsFair DEF Manage
<1>2. CASE UNCHANGED weights
  BY <1>2 DEF weights, WeighingInv, FairRounding
<1> QED BY <1>1, <1>2 DEF CalculationsNext, calculationVars

(***************************************************************************)
(* However many passes manage them, weights are a fair rounding of those   *)
(* given: whole, each less than a unit off, in the order they were.        *)
(***************************************************************************)
THEOREM RoundingStaysFair == CalculationsSpec => []FairRounding
<1>1. WeighingInv => FairRounding
  BY DEF WeighingInv
<1> QED BY <1>1, InitWeighing, NextWeighing, PTL DEF CalculationsSpec

(***************************************************************************)
(* Weights that add up to the whole are not changed by any pass.           *)
(***************************************************************************)
THEOREM RoundingIsStable == CalculationsSpec => Idempotent
<1>1. ASSUME WeighingInv, [CalculationsNext]_calculationVars
      PROVE  [SumOf(managed) = Total => managed' = managed]_weights
  BY <1>1, NextWeighing
<1> QED BY <1>1, InitWeighing, NextWeighing, PTL DEF CalculationsSpec, Idempotent

-----------------------------------------------------------------------------
(***************************************************************************)
(* The traffic command.                                                    *)
(***************************************************************************)

\* Weights of a whole.
Ratios == [num : [Names -> Nat], den : Nat \ {0}]

\* Products of three and four factors, in any order.
LEMMA Products ==
    ASSUME NEW a \in Int, NEW b \in Int, NEW c \in Int
    PROVE  a * (b * c) = (a * b) * c /\ a * b = b * a /\ a * (b * c) = b * (a * c)
OBVIOUS

\* The common factors of weights, of which the greatest is taken.
Factors(r) == {e \in 1..r.den : r.den % e = 0 /\ \A s \in Names : r.num[s] % e = 0}

\* A factor divides without rest.
LEMMA FactorDivides ==
    ASSUME NEW n \in Nat, NEW d \in Nat \ {0}, n % d = 0
    PROVE  n \div d \in Nat /\ n = d * (n \div d)
<1> DEFINE q == n \div d
<1>1. q \in Nat /\ n = d * q + (n % d)
  BY DivMod
<1> HIDE DEF q
<1>2. d * q \in Int
  BY <1>1
<1>3. n = d * q
  BY <1>1, <1>2
<1> QED BY <1>1, <1>3 DEF q

\* Reduced weights are the same, divided by a common factor.
LEMMA ReducedDivides ==
    ASSUME NEW r \in Ratios
    PROVE  /\ Reduced(r) \in Ratios
           /\ \E d \in Nat \ {0} :
                 /\ r.den = d * Reduced(r).den
                 /\ \A s \in Names : r.num[s] = d * Reduced(r).num[s]
<1> DEFINE d == Max(Factors(r))
<1>1. r.den \in Nat \ {0} /\ \A s \in Names : r.num[s] \in Nat
  BY DEF Ratios
<1>2. 1 \in Factors(r)
  BY <1>1 DEF Factors
<1>3. d \in Factors(r)
  <2>1. Factors(r) \in SUBSET (1..r.den)
    BY DEF Factors
  <2>2. IsFiniteSet(1..r.den)
    BY <1>1, FS_Interval
  <2>3. IsFiniteSet(Factors(r)) /\ Factors(r) \subseteq Int
    BY <1>1, <2>1, <2>2, FS_Subset
  <2> QED BY <1>2, <2>3, Extremes
<1> HIDE DEF d
<1>4. d \in Nat \ {0} /\ r.den % d = 0 /\ \A s \in Names : r.num[s] % d = 0
  BY <1>1, <1>3 DEF Factors
<1>5. Reduced(r) = [num |-> [s \in Names |-> r.num[s] \div d], den |-> r.den \div d]
  BY DEF Reduced, Factors, d
<1>6. r.den \div d \in Nat /\ r.den = d * (r.den \div d)
  BY <1>1, <1>4, FactorDivides
<1>7. \A s \in Names : r.num[s] \div d \in Nat /\ r.num[s] = d * (r.num[s] \div d)
  BY <1>1, <1>4, FactorDivides
<1>8. r.den \div d # 0
  <2>1. d * 0 = 0
    BY <1>4
  <2> SUFFICES ASSUME r.den \div d = 0 PROVE r.den = 0
    BY <1>1
  <2> QED BY <1>6, <2>1
<1>9. Reduced(r) \in Ratios
  <2>1. [s \in Names |-> r.num[s] \div d] \in [Names -> Nat]
    BY <1>7
  <2>2. r.den \div d \in Nat \ {0}
    BY <1>6, <1>8
  <2> QED BY <1>5, <2>1, <2>2 DEF Ratios
<1> QED BY <1>4, <1>5, <1>6, <1>7, <1>9

\* The stack asked for has its share, of weights that are the whole.
InEffect(ratio, S, wanted) ==
    wanted.stack \in S =>
        /\ SumOver(ratio.num, S) = ratio.den
        /\ ratio.num[wanted.stack] * Whole = wanted.weight * ratio.den

\* Among the same weights it does not matter which.
LEMMA EffectOfSame ==
    ASSUME NEW a \in Ratios, NEW b \in Ratios, NEW S \in SUBSET Names, NEW q \in Requests,
           \A s \in S : a.num[s] * b.den = b.num[s] * a.den,
           InEffect(a, S, q)
    PROVE  InEffect(b, S, q)
<1> SUFFICES ASSUME q.stack \in S
             PROVE  SumOver(b.num, S) = b.den /\ b.num[q.stack] * Whole = q.weight * b.den
  BY DEF InEffect
<1> DEFINE A == a.den
           B == b.den
           x == a.num[q.stack]
           y == b.num[q.stack]
           w == q.weight
           all == [s \in S |-> a.num[s] * B]
<1>1. /\ IsFiniteSet(S) /\ A \in Nat \ {0} /\ B \in Nat \ {0}
      /\ \A s \in S : a.num[s] \in Nat /\ b.num[s] \in Nat
  BY NamesAssumption, FS_Subset DEF Ratios
<1>2. SumOver(a.num, S) = A /\ x * Whole = w * A /\ x * B = y * A
  BY DEF InEffect
<1>3. SumOver(all, S) = B * SumOver(a.num, S)
  <2>1. \A s \in S : a.num[s] \in Int /\ all[s] = B * a.num[s]
    BY <1>1, Products
  <2> HIDE DEF all, B
  <2> QED BY <1>1, <2>1, SumTimes
<1>4. SumOver(all, S) = A * SumOver(b.num, S)
  <2>1. \A s \in S : b.num[s] \in Int /\ all[s] = A * b.num[s]
    BY <1>1, Products
  <2> HIDE DEF all, A
  <2> QED BY <1>1, <2>1, SumTimes
<1>5. SumOver(b.num, S) = B
  <2>1. SumOver(b.num, S) \in Int
    BY <1>1, SumInt
  <2>2. A * SumOver(b.num, S) = A * B
    BY <1>1, <1>2, <1>3, <1>4, Products
  <2> HIDE DEF A, B
  <2> QED BY <1>1, <2>1, <2>2, TimesOrder
<1>6. y * Whole = w * B
  <2>1. x \in Int /\ y \in Int /\ w \in Int /\ Whole \in Int
    BY <1>1, WholeAssumption DEF Requests
  <2> HIDE DEF A, B, x, y, w
  <2>2. A * (y * Whole) = (x * B) * Whole
    BY <1>1, <1>2, <2>1, Products
  <2>3. (x * B) * Whole = B * (x * Whole)
    BY <1>1, <2>1, Products
  <2>4. B * (w * A) = A * (w * B)
    BY <1>1, <2>1, Products
  <2>5. A * (y * Whole) = A * (w * B)
    BY <1>2, <2>2, <2>3, <2>4
  <2>6. y * Whole \in Int /\ w * B \in Int
    BY <1>1, <2>1
  <2> QED BY <1>1, <2>5, <2>6, TimesOrder
<1> QED BY <1>5, <1>6

\* What a command has read are weights of the stacks it has listed.
HasRead(c) ==
    /\ read[c] \in Ratios
    /\ listed[c] \subseteq Names /\ listed[c] # {}
    /\ \A s \in Names \ listed[c] : read[c].num[s] = 0

\* Normalised, they are the whole, of the stacks that were listed.
LEMMA NormalizedIsWhole ==
    ASSUME NEW c \in Commands, HasRead(c)
    PROVE  LET w == Normalized(c)
           IN  /\ w \in Ratios
               /\ \A s \in Names \ listed[c] : w.num[s] = 0
               /\ SumOver(w.num, listed[c]) = w.den
               /\ \/ w.num = read[c].num
                  \/ \A s \in Names : read[c].num[s] = 0
<1> DEFINE S == listed[c]
           r == read[c].num
           sum == SumOver(r, Names)
           ones == [s \in Names |-> IF s \in S THEN 1 ELSE 0]
<1>1. /\ IsFiniteSet(Names) /\ S \in SUBSET Names /\ IsFiniteSet(S) /\ S # {}
      /\ r \in [Names -> Nat] /\ \A s \in Names \ S : r[s] = 0
  BY NamesAssumption, FS_Subset DEF HasRead, Ratios
<1>2. sum \in Nat /\ \A s \in Names : r[s] <= sum
  BY <1>1, SumNat
<1>3. SumWeights(r, Names) = sum
  BY DEF SumWeights, SumOver
<1>4. CASE sum = 0
  <2>1. Normalized(c) = [num |-> ones, den |-> Cardinality(S)]
    BY <1>3, <1>4 DEF Normalized
  <2>2. Cardinality(S) \in Nat \ {0}
    BY <1>1, FS_CardinalityType, FS_EmptySet
  <2>3. SumOver(ones, S) = Cardinality(S)
    <3>1. S \in SUBSET S /\ \A s \in S : ones[s] = IF s \in S THEN 1 ELSE 0
      BY <1>1
    <3> HIDE DEF ones
    <3> QED BY <1>1, <3>1, SumCount
  <2>4. ones \in [Names -> Nat] /\ \A s \in Names \ S : ones[s] = 0
    OBVIOUS
  <2>5. \A s \in Names : r[s] = 0
    BY <1>1, <1>2, <1>4
  <2> HIDE DEF ones
  <2> QED BY <2>1, <2>2, <2>3, <2>4, <2>5 DEF Ratios
<1>5. CASE sum # 0
  <2>1. Normalized(c) = [num |-> r, den |-> sum]
    BY <1>3, <1>5 DEF Normalized
  <2>2. SumOver(r, Names) = SumOver(r, S)
    <3>1. \A s \in Names : r[s] \in Int
      BY <1>1
    <3> HIDE DEF r, S
    <3> QED BY <1>1, <3>1, SumSupport
  <2> QED BY <1>1, <1>2, <1>5, <2>1, <2>2 DEF Ratios
<1> QED BY <1>4, <1>5

\* The new weights before they are reduced.
Unreduced(c) ==
    LET w == Normalized(c)
        s == asked[c].stack
        others == Max({w.den - w.num[s], 1})
    IN  [num |-> [t \in Names |-> IF t # s THEN w.num[t] * (Whole - asked[c].weight)
                                  ELSE IF s \in listed[c] THEN asked[c].weight * others ELSE 0],
         den |-> Whole * others]

\* The greater of a number and one.
LEMMA AtLeastOne ==
    ASSUME NEW n \in Int
    PROVE  Max({n, 1}) = IF n >= 1 THEN n ELSE 1
BY DEF Max

\* The stack asked for gets its share of the whole, if it gets any.
LEMMA UnreducedInEffect ==
    ASSUME NEW c \in Commands, HasRead(c), asked[c] \in Requests, ~OnlyOne(c)
    PROVE  Unreduced(c) \in Ratios /\ InEffect(Unreduced(c), listed[c], asked[c])
<1> DEFINE S == listed[c]
           w == Normalized(c)
           s == asked[c].stack
           p == asked[c].weight
           k == Whole - p
           others == Max({w.den - w.num[s], 1})
           u == Unreduced(c)
<1>1. /\ IsFiniteSet(S) /\ S \in SUBSET Names
      /\ s \in Names /\ p \in 0..Whole /\ Whole \in Nat \ {0} /\ k \in Nat
  BY NamesAssumption, WholeAssumption, FS_Subset DEF HasRead, Requests
<1>2. /\ w.num \in [Names -> Nat] /\ w.den \in Nat \ {0} /\ SumOver(w.num, S) = w.den
      /\ \A t \in Names \ S : w.num[t] = 0
  BY NormalizedIsWhole DEF Ratios
<1>3. others = (IF w.den - w.num[s] >= 1 THEN w.den - w.num[s] ELSE 1) /\ others \in Nat \ {0}
  BY <1>1, <1>2, AtLeastOne
<1>4. /\ u.den = Whole * others
      /\ DOMAIN u.num = Names
      /\ \A t \in Names : u.num[t] = IF t # s THEN w.num[t] * k
                                     ELSE IF s \in S THEN p * others ELSE 0
      /\ u = [num |-> u.num, den |-> u.den] /\ u.num = [t \in Names |-> u.num[t]]
  BY DEF Unreduced
<1>5. ~(w.num[s] >= w.den /\ p < Whole)
  BY DEF OnlyOne
<1> HIDE DEF u, w, others
<1>6. u \in Ratios
  <2>1. Whole * others \in Nat \ {0}
    BY <1>1, <1>3
  <2>2. \A t \in Names : w.num[t] * k \in Nat /\ p * others \in Nat
    BY <1>1, <1>2, <1>3
  <2> HIDE DEF k, p
  <2>3. \A t \in Names : u.num[t] \in Nat
    BY <1>4, <2>2
  <2> QED BY <1>4, <2>1, <2>3 DEF Ratios
<1>7. ASSUME s \in S PROVE SumOver(u.num, S) = u.den /\ u.num[s] * Whole = p * u.den
  <2> DEFINE T == S \ {s}
             rest == SumOver(w.num, T)
  <2>1. IsFiniteSet(T) /\ T \subseteq S /\ \A t \in S : w.num[t] \in Int /\ u.num[t] \in Int
    BY <1>1, <1>2, <1>6, FS_Subset DEF Ratios
  <2>2. w.den = w.num[s] + rest /\ rest \in Nat
    BY <1>1, <1>2, <1>7, <2>1, SumRemove, SumNat
  <2>3. SumOver(u.num, T) = k * rest
    <3>1. \A t \in T : w.num[t] \in Int /\ u.num[t] = k * w.num[t]
      BY <1>1, <1>2, <1>4, <2>1, Products
    <3> HIDE DEF k, T
    <3> QED BY <1>1, <2>1, <3>1, SumTimes
  <2>4. SumOver(u.num, S) = p * others + k * rest
    <3>1. SumOver(u.num, S) = u.num[s] + SumOver(u.num, T)
      BY <1>1, <1>7, <2>1, SumRemove
    <3>2. u.num[s] = p * others
      BY <1>1, <1>4, <1>7
    <3> QED BY <2>3, <3>1, <3>2
  <2> DEFINE a == w.num[s]
             b == w.den
  <2>7. a \in Nat /\ b \in Nat /\ b = a + rest /\ ~(a >= b /\ p < Whole)
        /\ others = IF b - a >= 1 THEN b - a ELSE 1
    BY <1>1, <1>2, <1>3, <1>5, <2>2
  <2> HIDE DEF rest, a, b
  <2>5. p * others + k * rest = Whole * others
    <3>1. CASE b - a >= 1
      <4>1. others = rest
        BY <2>2, <2>7, <3>1
      <4> HIDE DEF p
      <4> QED BY <1>1, <2>2, <4>1
    <3>2. CASE ~(b - a >= 1)
      <4>1. rest = 0 /\ others = 1 /\ p = Whole
        BY <1>1, <2>2, <2>7, <3>2
      <4> HIDE DEF p
      <4> QED BY <1>1, <4>1
    <3> QED BY <3>1, <3>2
  <2>6. u.num[s] * Whole = p * u.den
    <3>1. u.num[s] = p * others
      BY <1>1, <1>4, <1>7
    <3>2. p \in Int /\ others \in Int /\ Whole \in Int
      BY <1>1, <1>3
    <3> HIDE DEF p
    <3>3. (p * others) * Whole = p * (others * Whole) /\ others * Whole = Whole * others
      BY <3>2, Products
    <3> QED BY <1>4, <3>1, <3>3
  <2> QED BY <1>4, <2>4, <2>5, <2>6
<1>8. InEffect(u, S, asked[c])
  BY <1>7 DEF InEffect
<1> QED BY <1>6, <1>8 DEF u

\* So does it once they are reduced.
LEMMA NewInEffect ==
    ASSUME NEW c \in Commands, HasRead(c), asked[c] \in Requests, ~OnlyOne(c)
    PROVE  NewWeights(c) \in Ratios /\ InEffect(NewWeights(c), listed[c], asked[c])
<1> DEFINE u == Unreduced(c)
           r == Reduced(u)
<1>1. NewWeights(c) = r
  BY DEF NewWeights, Unreduced
<1>2. u \in Ratios /\ InEffect(u, listed[c], asked[c])
  BY UnreducedInEffect
<1> HIDE DEF u
<1>3. r \in Ratios
  BY <1>2, ReducedDivides
<1>4. PICK d \in Nat \ {0} : u.den = d * r.den /\ \A s \in Names : u.num[s] = d * r.num[s]
  BY <1>2, ReducedDivides
<1> HIDE DEF r
<1>5. ASSUME NEW s \in Names PROVE u.num[s] * r.den = r.num[s] * u.den
  <2> DEFINE x == r.num[s]
             y == r.den
  <2>1. x \in Int /\ y \in Int /\ u.num[s] = d * x /\ u.den = d * y
    BY <1>3, <1>4 DEF Ratios
  <2> HIDE DEF x, y
  <2>2. (d * x) * y = x * (d * y)
    BY <2>1, Products
  <2> QED BY <2>1, <2>2 DEF x, y
<1>6. listed[c] \in SUBSET Names
  BY DEF HasRead
<1>7. InEffect(r, listed[c], asked[c])
  BY <1>2, <1>3, <1>5, <1>6, EffectOfSame
<1> QED BY <1>1, <1>3, <1>7

-----------------------------------------------------------------------------
\* The types of what commands know.
SwitcherTyped ==
    /\ existing \subseteq Names
    /\ annotation \in Ratios
    /\ call \in [Commands -> {"start", "read", "write", "end"}]
    /\ asked \in [Commands -> Requests]
    /\ listed \in [Commands -> SUBSET Names]
    /\ read \in [Commands -> Ratios]
    /\ done \subseteq Commands /\ current \subseteq Commands

\* A command that is under way has listed stacks, and the weights of no others.
UnderWay ==
    \A c \in Commands :
        /\ call[c] \in {"read", "write"} => listed[c] # {}
        /\ call[c] = "write" => HasRead(c)

\* What a command nobody got in the way of has read is what there is.
ReadIsCurrent ==
    \A c \in current :
        /\ call[c] \in {"write", "end"}
        /\ call[c] = "write" =>
              \A s \in listed[c] : read[c].num[s] * annotation.den = annotation.num[s] * read[c].den

\* The command that had its way last has ended, with its share in effect.
DoneInEffect ==
    \A c \in done : call[c] = "end" /\ InEffect(annotation, existing, asked[c])

SwitcherInv == SwitcherTyped /\ UnderWay /\ ReadIsCurrent /\ DoneInEffect

\* No weights are weights, and there is something to ask for.
LEMMA SomeRequest ==
    NoWeights \in Ratios /\ (CHOOSE r \in Requests : TRUE) \in Requests
<1>1. PICK n \in Names : TRUE
  BY NamesAssumption
<1>2. [stack |-> n, weight |-> 0] \in Requests
  BY WholeAssumption DEF Requests
<1> QED BY <1>2 DEF NoWeights, Ratios

\* Before the first call nobody has read anything.
LEMMA InitSwitcher == CalculationsInit => SwitcherInv
<1> SUFFICES ASSUME CalculationsInit PROVE SwitcherInv
  OBVIOUS
<1>1. CASE NoCommands
  BY <1>1, SomeRequest DEF NoCommands, SwitcherInv, SwitcherTyped, UnderWay, ReadIsCurrent, DoneInEffect
<1>2. CASE SwitcherInit
  <2>1. annotation \in Ratios
    <3>1. PICK num \in [Names -> 0..MaxInitial] : annotation = Reduced([num |-> num, den |-> Whole])
      BY <1>2 DEF SwitcherInit
    <3>2. [num |-> num, den |-> Whole] \in Ratios
      BY WholeAssumption, SwitcherBoundsAssumption DEF Ratios
    <3> QED BY <3>1, <3>2, ReducedDivides
  <2> QED BY <1>2, <2>1, SomeRequest
          DEF SwitcherInit, SwitcherInv, SwitcherTyped, UnderWay, ReadIsCurrent, DoneInEffect
<1> QED BY <1>1, <1>2 DEF CalculationsInit

\* A command begins: it lists the stacks, or finds none and ends.
LEMMA ListKeeps ==
    ASSUME SwitcherInv, NEW c \in Commands, NEW r \in Requests, List(c, r)
    PROVE  SwitcherInv'
<1> USE DEF SwitcherInv, List
<1>1. SwitcherTyped'
  BY DEF SwitcherTyped
<1>2. ASSUME NEW d \in Commands, d # c
      PROVE  call'[d] = call[d] /\ listed'[d] = listed[d] /\ asked'[d] = asked[d]
  BY <1>2 DEF SwitcherTyped
<1>3. /\ call'[c] = IF existing = {} THEN "end" ELSE "read"
      /\ listed'[c] = existing
  BY DEF SwitcherTyped
<1>4. UnderWay'
  BY <1>2, <1>3 DEF UnderWay, HasRead, SwitcherTyped
<1>5. c \notin current /\ c \notin done
  BY DEF ReadIsCurrent, DoneInEffect
<1>6. ReadIsCurrent'
  BY <1>2, <1>5 DEF ReadIsCurrent, SwitcherTyped
<1>7. DoneInEffect'
  BY <1>2, <1>5 DEF DoneInEffect, SwitcherTyped, InEffect
<1> QED BY <1>1, <1>4, <1>6, <1>7

\* The weights of the listed stacks, before they are reduced.
Restricted(c) ==
    [num |-> [s \in Names |-> IF s \in listed[c] THEN annotation.num[s] ELSE 0],
     den |-> annotation.den]

\* It reads what there is.
LEMMA ReadKeeps ==
    ASSUME SwitcherInv, NEW c \in Commands, Read(c)
    PROVE  SwitcherInv'
<1> USE DEF SwitcherInv, Read
<1> DEFINE u == Restricted(c)
           r == Reduced(u)
<1>1. u \in Ratios
  BY DEF SwitcherTyped, Ratios, Restricted
<1>2. r \in Ratios
  BY <1>1, ReducedDivides
<1>3. PICK d \in Nat \ {0} : u.den = d * r.den /\ \A s \in Names : u.num[s] = d * r.num[s]
  BY <1>1, ReducedDivides
<1>4. read' = [read EXCEPT ![c] = r]
  BY DEF Restricted
<1>5. /\ u.den = annotation.den
      /\ \A s \in Names : u.num[s] = IF s \in listed[c] THEN annotation.num[s] ELSE 0
  BY DEF Restricted
<1>6. listed[c] \subseteq Names /\ listed[c] # {}
  BY DEF SwitcherTyped, UnderWay
<1> HIDE DEF u, r
<1>7. SwitcherTyped'
  BY <1>2, <1>4 DEF SwitcherTyped
<1>8. /\ read'[c] = r /\ call'[c] = "write"
      /\ \A e \in Commands : e # c => read'[e] = read[e] /\ call'[e] = call[e]
  BY <1>4 DEF SwitcherTyped
<1>9. ASSUME NEW s \in Names \ listed[c] PROVE r.num[s] = 0
  <2> DEFINE x == r.num[s]
  <2>1. x \in Nat /\ d * x = 0
    BY <1>2, <1>3, <1>5 DEF Ratios
  <2> HIDE DEF x
  <2>2. x = 0
    BY <2>1
  <2> QED BY <2>2 DEF x
<1>10. UnderWay'
  <2>1. HasRead(c)'
    BY <1>2, <1>6, <1>8, <1>9 DEF HasRead
  <2> QED BY <1>8, <2>1 DEF UnderWay, HasRead
<1>11. ASSUME NEW s \in listed[c]
       PROVE  r.num[s] * annotation.den = annotation.num[s] * r.den
  <2> DEFINE x == r.num[s]
             y == r.den
  <2>1. x \in Int /\ y \in Int /\ annotation.num[s] = d * x /\ annotation.den = d * y
    BY <1>2, <1>3, <1>5, <1>6 DEF Ratios
  <2> HIDE DEF x, y
  <2>2. x * (d * y) = (d * x) * y
    BY <2>1, Products
  <2> QED BY <2>1, <2>2 DEF x, y
<1>12. ReadIsCurrent'
  BY <1>8, <1>11 DEF ReadIsCurrent, SwitcherTyped
<1>13. DoneInEffect'
  BY <1>8 DEF DoneInEffect, InEffect, SwitcherTyped
<1> QED BY <1>7, <1>10, <1>12, <1>13

\* The last step of a command, whatever it has written.
LEMMA EndKeeps ==
    ASSUME SwitcherInv, NEW c \in Commands, Ends(c), UNCHANGED <<existing, asked>>,
           annotation' \in Ratios, done' \subseteq Commands, current' \subseteq current,
           annotation' = annotation \/ current' = {},
           \A d \in done' : call'[d] = "end" /\ InEffect(annotation', existing, asked[d])
    PROVE  SwitcherInv'
<1> USE DEF SwitcherInv, Ends
<1>1. SwitcherTyped'
  BY SomeRequest DEF SwitcherTyped
<1>2. /\ call'[c] = "end"
      /\ \A e \in Commands : e # c => read'[e] = read[e] /\ call'[e] = call[e] /\ listed'[e] = listed[e]
  BY DEF SwitcherTyped
<1>3. UnderWay'
  BY <1>2 DEF UnderWay, HasRead
<1>4. ReadIsCurrent'
  <2>1. CASE current' = {}
    BY <2>1 DEF ReadIsCurrent
  <2>2. CASE annotation' = annotation
    BY <1>2, <2>2 DEF ReadIsCurrent, SwitcherTyped
  <2> QED BY <2>1, <2>2
<1>5. DoneInEffect'
  BY DEF DoneInEffect, InEffect
<1> QED BY <1>1, <1>3, <1>4, <1>5

\* A command that finds nothing to write has its way all the same.
LEMMA NothingToWrite ==
    ASSUME SwitcherInv, NEW c \in Commands, call[c] = "write", ~OnlyOne(c),
           Same(NewWeights(c), read[c]), c \in current, listed[c] = existing
    PROVE  InEffect(annotation, existing, asked[c])
<1>1. HasRead(c) /\ asked[c] \in Requests /\ read[c] \in Ratios /\ annotation \in Ratios
      /\ existing \in SUBSET Names
  BY DEF SwitcherInv, SwitcherTyped, UnderWay
<1>2. NewWeights(c) \in Ratios /\ InEffect(NewWeights(c), existing, asked[c])
  BY <1>1, NewInEffect
<1>3. InEffect(read[c], existing, asked[c])
  BY <1>1, <1>2, EffectOfSame DEF Same
<1>4. \A s \in existing : read[c].num[s] * annotation.den = annotation.num[s] * read[c].den
  BY DEF SwitcherInv, ReadIsCurrent
<1> QED BY <1>1, <1>3, <1>4, EffectOfSame

\* It writes, or leaves the annotation as it is.
LEMMA WriteKeeps ==
    ASSUME SwitcherInv, NEW c \in Commands, Write(c)
    PROVE  SwitcherInv'
<1>1. /\ call[c] = "write" /\ Ends(c) /\ UNCHANGED <<existing, asked>>
      /\ HasRead(c) /\ asked[c] \in Requests /\ annotation \in Ratios
      /\ done \subseteq Commands /\ current \subseteq Commands
  BY DEF Write, SwitcherInv, SwitcherTyped, UnderWay
<1>2. /\ call'[c] = "end"
      /\ \A d \in done : call'[d] = "end" /\ InEffect(annotation, existing, asked[d])
  BY <1>1 DEF Ends, SwitcherInv, SwitcherTyped, DoneInEffect
<1>3. CASE OnlyOne(c) /\ UNCHANGED <<annotation, done, current>>
  BY <1>1, <1>2, <1>3, EndKeeps
<1>4. CASE /\ ~OnlyOne(c) /\ Same(NewWeights(c), read[c])
           /\ done' = IF c \in current /\ listed[c] = existing THEN {c} ELSE done
           /\ UNCHANGED <<annotation, current>>
  <2>1. \A d \in done' : call'[d] = "end" /\ InEffect(annotation, existing, asked[d])
    <3>1. CASE c \in current /\ listed[c] = existing
      BY <1>1, <1>2, <1>4, <3>1, NothingToWrite
    <3>2. CASE ~(c \in current /\ listed[c] = existing)
      BY <1>2, <1>4, <3>2
    <3> QED BY <3>1, <3>2
  <2>2. done' \subseteq Commands /\ annotation' = annotation /\ current' = current
    BY <1>1, <1>4
  <2> QED BY <1>1, <2>1, <2>2, EndKeeps
<1>5. CASE /\ ~OnlyOne(c) /\ annotation' = NewWeights(c)
           /\ done' = IF listed[c] = existing THEN {c} ELSE {}
           /\ current' = {}
  <2>1. annotation' \in Ratios /\ InEffect(annotation', listed[c], asked[c])
    BY <1>1, <1>5, NewInEffect
  <2> QED BY <1>1, <1>2, <1>5, <2>1, EndKeeps
<1> QED BY <1>1, <1>3, <1>4, <1>5 DEF Write

\* No step of a command, or of a stack that comes or goes, breaks the invariant.
LEMMA NextSwitcher ==
    ASSUME SwitcherInv, [CalculationsNext]_calculationVars
    PROVE  SwitcherInv'
<1>1. ASSUME NEW c \in Commands, NEW r \in Requests, List(c, r) PROVE SwitcherInv'
  BY <1>1, ListKeeps
<1>2. ASSUME NEW c \in Commands, Read(c) PROVE SwitcherInv'
  BY <1>2, ReadKeeps
<1>3. ASSUME NEW c \in Commands, Write(c) PROVE SwitcherInv'
  BY <1>3, WriteKeeps
<1>4. ASSUME NEW c \in Commands, Fails(c) PROVE SwitcherInv'
  <2>1. annotation \in Ratios /\ done \subseteq Commands
        /\ \A d \in done : call[d] = "end" /\ InEffect(annotation, existing, asked[d])
    BY DEF SwitcherInv, SwitcherTyped, DoneInEffect
  <2>2. \A d \in done : call'[d] = "end"
    BY <1>4, <2>1 DEF Fails, Ends, SwitcherInv, SwitcherTyped
  <2> QED BY <1>4, <2>1, <2>2, EndKeeps DEF Fails
<1>5. ASSUME NEW s \in Names, StacksChange(s) PROVE SwitcherInv'
  <2>1. UNCHANGED <<annotation, call, asked, listed, read, current>> /\ done' = {}
        /\ existing' \subseteq Names
    BY <1>5 DEF StacksChange, command, SwitcherInv, SwitcherTyped
  <2> QED BY <2>1 DEF SwitcherInv, SwitcherTyped, UnderWay, HasRead, ReadIsCurrent, DoneInEffect
<1>6. CASE UNCHANGED switcherVars
  BY <1>6 DEF switcherVars, command, SwitcherInv, SwitcherTyped, UnderWay, HasRead, ReadIsCurrent,
              DoneInEffect, InEffect
<1> QED BY <1>1, <1>2, <1>3, <1>4, <1>5, <1>6
        DEF CalculationsNext, SwitcherNext, Manage, calculationVars

(***************************************************************************)
(* However commands overlap and fail, the one that had its way last has    *)
(* its stack at exactly the share it asked for, of weights that are the    *)
(* whole, until stacks come or go.                                         *)
(***************************************************************************)
THEOREM LastCommandInEffect == CalculationsSpec => []ShareInEffect
<1>1. SwitcherInv => ShareInEffect
  BY DEF SwitcherInv, DoneInEffect, InEffect, ShareInEffect, SumWeights, SumOver
<1> QED BY <1>1, InitSwitcher, NextSwitcher, PTL DEF CalculationsSpec

\* Two stacks a command only scales.
LEMMA WriteScales ==
    ASSUME SwitcherInv, NEW c \in current, call[c] = "write", ~OnlyOne(c),
           NEW s \in listed[c] \ {asked[c].stack}, NEW t \in listed[c] \ {asked[c].stack}
    PROVE  annotation.num[s] * NewWeights(c).num[t] = annotation.num[t] * NewWeights(c).num[s]
<1> DEFINE w == Normalized(c).num
           r == read[c].num
           u == Unreduced(c)
           n == NewWeights(c).num
           k == Whole - asked[c].weight
           A == annotation.den
           R == read[c].den
           x == annotation.num[s]
           y == annotation.num[t]
<1>1. /\ c \in Commands /\ HasRead(c) /\ asked[c] \in Requests /\ s \in Names /\ t \in Names
      /\ annotation \in Ratios /\ listed[c] \subseteq Names
  BY DEF SwitcherInv, SwitcherTyped, UnderWay
<1>2. /\ x \in Nat /\ y \in Nat /\ A \in Nat \ {0} /\ R \in Nat \ {0}
      /\ r[s] \in Nat /\ r[t] \in Nat
  BY <1>1 DEF HasRead, Ratios
<1>3. r[s] * A = x * R /\ r[t] * A = y * R
  BY DEF SwitcherInv, ReadIsCurrent
<1>4. k \in Int
  BY <1>1, WholeAssumption DEF Requests
<1>5. w[s] \in Nat /\ w[t] \in Nat /\ (w = r \/ (r[s] = 0 /\ r[t] = 0))
  BY <1>1, NormalizedIsWhole DEF Ratios
<1>6. u \in Ratios /\ u.num[s] = w[s] * k /\ u.num[t] = w[t] * k
  BY <1>1, UnreducedInEffect DEF Unreduced
<1>7. NewWeights(c) = Reduced(u) /\ Reduced(u) \in Ratios
  BY <1>6, ReducedDivides DEF NewWeights, Unreduced
<1>8. PICK d \in Nat \ {0} : \A z \in Names : u.num[z] = d * Reduced(u).num[z]
  BY <1>6, ReducedDivides
<1>9. /\ n[s] \in Int /\ n[t] \in Int
      /\ d * n[s] = w[s] * k /\ d * n[t] = w[t] * k
  BY <1>1, <1>6, <1>7, <1>8 DEF Ratios
<1> HIDE DEF w, r, u, n, k, A, R, x, y
<1>10. ASSUME w = r PROVE x * n[t] = y * n[s]
  <2> DEFINE a == r[s]
             b == r[t]
             m == n[s]
             o == n[t]
  <2>1. /\ x \in Int /\ y \in Int /\ a \in Int /\ b \in Int /\ m \in Int /\ o \in Int
        /\ A \in Int /\ R \in Nat \ {0}
    BY <1>2, <1>9
  <2>2. a * A = x * R /\ b * A = y * R /\ d * m = a * k /\ d * o = b * k
    BY <1>3, <1>9, <1>10
  <2> HIDE DEF a, b, m, o
  <2>3. (R * d) * (x * o) = (x * R) * (d * o) /\ (R * d) * (y * m) = (y * R) * (d * m)
    BY <2>1
  <2>4. (a * A) * (b * k) = (b * A) * (a * k)
    BY <1>4, <2>1
  <2>5. (R * d) * (x * o) = (R * d) * (y * m)
    BY <2>2, <2>3, <2>4
  <2>6. R * d \in Nat \ {0} /\ x * o \in Int /\ y * m \in Int
    BY <2>1
  <2>7. x * o = y * m
    BY <2>5, <2>6, TimesOrder
  <2> QED BY <2>7 DEF m, o
<1>11. ASSUME r[s] = 0, r[t] = 0 PROVE x * n[t] = y * n[s]
  <2>1. x = 0 /\ y = 0
    <3>1. x * R = 0 /\ y * R = 0
      BY <1>2, <1>3, <1>11
    <3> QED BY <1>2, <3>1
  <2> QED BY <1>9, <2>1
<1>12. x * n[t] = y * n[s]
  BY <1>5, <1>10, <1>11
<1> QED BY <1>12 DEF n, x, y

(***************************************************************************)
(* A command nobody got in the way of keeps the proportions of all stacks  *)
(* but its own, however unequal they are and whether or not its own stack  *)
(* exists.                                                                 *)
(***************************************************************************)
THEOREM ProportionsKept == CalculationsSpec => OthersKeepProportions
<1> DEFINE Scaled(c) ==
        annotation' # annotation /\ call[c] = "write" /\ call'[c] = "end" =>
            \A s, t \in listed[c] \ {asked[c].stack} :
                annotation.num[s] * annotation'.num[t] = annotation.num[t] * annotation'.num[s]
<1>1. ASSUME SwitcherInv, [CalculationsNext]_calculationVars, NEW c \in current PROVE Scaled(c)
  <2> SUFFICES ASSUME annotation' # annotation, call[c] = "write", call'[c] = "end"
               PROVE  \A s, t \in listed[c] \ {asked[c].stack} :
                          annotation.num[s] * annotation'.num[t] = annotation.num[t] * annotation'.num[s]
    OBVIOUS
  <2>1. PICK d \in Commands : Write(d)
    BY <1>1 DEF CalculationsNext, SwitcherNext, Manage, calculationVars, switcherVars,
                List, Read, Fails, StacksChange
  <2>2. d = c
    BY <1>1, <2>1 DEF Write, Ends, SwitcherInv, SwitcherTyped
  <2>3. ~OnlyOne(c) /\ annotation' = NewWeights(c)
    BY <2>1, <2>2 DEF Write
  <2> QED BY <1>1, <2>3, WriteScales
<1>2. ASSUME SwitcherInv, [CalculationsNext]_calculationVars
      PROVE  [\A c \in current : Scaled(c)]_switcherVars
  BY <1>1, <1>2
<1> QED BY <1>2, InitSwitcher, NextSwitcher, PTL DEF CalculationsSpec, OthersKeepProportions

-----------------------------------------------------------------------------
(***************************************************************************)
(* Autoscaler metrics.                                                     *)
(***************************************************************************)

\* Places in a list.
Places(S) == IsFiniteSet(S) /\ S \subseteq Int
But(S) == S \ {Max(S)}
\* g sorts the metrics at the places of every subset of S.
IsSort(g, l, S) == g = [s \in SUBSET S |-> IF s = {} THEN <<>> ELSE Insert(g[But(s)], l[Max(s)])]

\* Places of a list without the last.
LEMMA ButSmaller ==
    ASSUME NEW S, Places(S), NEW s \in SUBSET S, s # {}
    PROVE  /\ Max(s) \in s /\ But(s) \subseteq s /\ But(s) # s
           /\ IsFiniteSet(s) /\ IsFiniteSet(But(s))
<1>1. IsFiniteSet(s) /\ s \subseteq Int
  BY FS_Subset DEF Places
<1>2. Max(s) \in s
  BY <1>1, Extremes
<1> QED BY <1>1, <1>2, FS_Subset DEF But

\* What sorts the metrics of a list sorts those of any part of it.
LEMMA SortUnique ==
    ASSUME NEW S, Places(S), NEW T \in SUBSET S, NEW l, NEW g, NEW h,
           IsSort(g, l, S), IsSort(h, l, T)
    PROVE  \A U \in SUBSET T : g[U] = h[U]
<1> DEFINE C == {U \in SUBSET T : g[U] # h[U]}
<1> SUFFICES ASSUME C # {} PROVE FALSE
  OBVIOUS
<1>1. IsFiniteSet(T)
  BY FS_Subset DEF Places
<1>2. PICK x \in C : \A y \in C : ~(y \subseteq x /\ y # x)
  <2>1. C \subseteq SUBSET T /\ C # {}
    OBVIOUS
  <2> HIDE DEF C
  <2> QED BY <1>1, <2>1, Minimal
<1>3. x \in SUBSET T /\ x \in SUBSET S /\ g[x] # h[x]
  OBVIOUS
<1>4. g[x] = IF x = {} THEN <<>> ELSE Insert(g[But(x)], l[Max(x)])
  BY <1>3 DEF IsSort
<1>5. h[x] = IF x = {} THEN <<>> ELSE Insert(h[But(x)], l[Max(x)])
  BY <1>3 DEF IsSort
<1>6. x # {}
  BY <1>3, <1>4, <1>5
<1>7. But(x) \in SUBSET T /\ But(x) \notin C
  BY <1>2, <1>3, <1>6, ButSmaller
<1>8. g[But(x)] = h[But(x)]
  BY <1>7
<1> QED BY <1>3, <1>4, <1>5, <1>6, <1>8

\* Every list can be sorted.
LEMMA SortExists ==
    ASSUME NEW S, Places(S), NEW l
    PROVE  \E g : IsSort(g, l, S)
<1> DEFINE C == {T \in SUBSET S : ~\E g : IsSort(g, l, T)}
<1>1. CASE C = {}
  BY <1>1
<1>2. CASE C # {}
  <2>1. PICK x \in C : \A y \in C : ~(y \subseteq x /\ y # x)
    <3>1. C \subseteq SUBSET S /\ C # {}
      BY <1>2
    <3> HIDE DEF C
    <3>2. IsFiniteSet(S)
      BY DEF Places
    <3> QED BY <3>1, <3>2, Minimal
  <2> DEFINE G(U) == CHOOSE g : IsSort(g, l, U)
             g == [s \in SUBSET x |-> IF s = {} THEN <<>> ELSE Insert(G(But(s))[But(s)], l[Max(s)])]
  <2>2. x \in SUBSET S /\ ~\E f : IsSort(f, l, x)
    OBVIOUS
  <2>3. ASSUME NEW U \in SUBSET x, U # x
        PROVE  IsSort(G(U), l, U) /\ Places(U)
    <3>1. U \in SUBSET S /\ U \notin C
      BY <2>1, <2>2, <2>3
    <3>2. \E f : IsSort(f, l, U)
      BY <3>1
    <3> QED BY <3>1, <3>2, FS_Subset DEF Places
  <2>4. ASSUME NEW s \in SUBSET x, s # {}
        PROVE  G(But(s))[But(s)] = g[But(s)]
    <3> DEFINE r == But(s)
    <3>1. r \in SUBSET x /\ r # x
      <4>1. s \in SUBSET S
        BY <2>2
      <4>2. Max(s) \in s /\ r \subseteq s
        BY <2>4, <4>1, ButSmaller
      <4>3. Max(s) \notin r
        BY DEF But
      <4> HIDE DEF r
      <4> QED BY <4>2, <4>3
    <3>2. IsSort(G(r), l, r) /\ Places(r)
      BY <2>3, <3>1
    <3>3. CASE r = {}
      BY <3>1, <3>2, <3>3 DEF IsSort
    <3>4. CASE r # {}
      <4>1. But(r) \in SUBSET r /\ But(r) \in SUBSET x /\ But(r) # x
        BY <3>1, <3>2, <3>4, ButSmaller
      <4>2. IsSort(G(But(r)), l, But(r))
        BY <2>3, <4>1
      <4>3. G(r)[But(r)] = G(But(r))[But(r)]
        <5> HIDE DEF G
        <5> QED BY <3>2, <4>1, <4>2, SortUnique
      <4>4. G(r)[r] = Insert(G(r)[But(r)], l[Max(r)])
        <5> HIDE DEF G
        <5> QED BY <3>2, <3>4 DEF IsSort
      <4>5. g[r] = Insert(G(But(r))[But(r)], l[Max(r)])
        BY <3>1, <3>4
      <4> HIDE DEF G, g
      <4> QED BY <4>3, <4>4, <4>5
    <3> QED BY <3>3, <3>4
  <2>5. IsSort(g, l, x)
    <3> SUFFICES g = [s \in SUBSET x |-> IF s = {} THEN <<>> ELSE Insert(g[But(s)], l[Max(s)])]
      BY DEF IsSort
    <3>1. ASSUME NEW s \in SUBSET x
          PROVE  g[s] = IF s = {} THEN <<>> ELSE Insert(g[But(s)], l[Max(s)])
      <4>1. g[s] = IF s = {} THEN <<>> ELSE Insert(G(But(s))[But(s)], l[Max(s)])
        OBVIOUS
      <4> HIDE DEF g, G
      <4> QED BY <2>4, <4>1
    <3>2. g = [s \in SUBSET x |-> g[s]]
      OBVIOUS
    <3> HIDE DEF g, G
    <3> QED BY <3>1, <3>2
  <2> QED BY <2>2, <2>5
<1> QED BY <1>1, <1>2

\* The fold of the library is one.
LEMMA SortIs ==
    ASSUME NEW n \in Nat, NEW l, DOMAIN l = 1..n
    PROVE  \E g : IsSort(g, l, 1..n) /\ SortedMetrics(l) = g[1..n]
<1>1. SortedMetrics(l) = (CHOOSE g : IsSort(g, l, 1..n))[1..n]
  BY DEF SortedMetrics, FoldLeft, MapThenFoldSet, IsSort, But
<1>2. Places(1..n)
  BY FS_Interval DEF Places
<1> QED BY <1>1, <1>2, SortExists

\* What holds at first and is kept from each number to the next holds up to n.
LEMMA Upwards ==
    ASSUME NEW n \in Nat, NEW K, 0 \in K, \A k \in 0..(n - 1) : k \in K => (k + 1) \in K
    PROVE  0..n \subseteq K
<1> DEFINE C == (0..n) \ K
<1> SUFFICES ASSUME C # {} PROVE FALSE
  OBVIOUS
<1>1. IsFiniteSet(C) /\ C \subseteq Int
  <2>1. IsFiniteSet(0..n) /\ C \subseteq 0..n
    BY FS_Interval
  <2> HIDE DEF C
  <2>2. IsFiniteSet(C)
    BY <2>1, FS_Subset
  <2> QED BY <2>1, <2>2
<1>2. PICK k \in C : \A j \in C : k <= j
  <2> HIDE DEF C
  <2> QED BY <1>1, Extremes
<1>3. k \in 1..n /\ (k - 1) \in 0..(n - 1) /\ (k - 1) \notin C
  BY <1>2
<1>4. (k - 1) \in K
  BY <1>3
<1> QED BY <1>2, <1>3, <1>4

\* A list is sorted by inserting its metrics one after the other.
LEMMA SortSteps ==
    ASSUME NEW n \in Nat, NEW l, DOMAIN l = 1..n
    PROVE  \E f : /\ f[0] = <<>>
                  /\ \A k \in 0..(n - 1) : f[k + 1] = Insert(f[k], l[k + 1])
                  /\ SortedMetrics(l) = f[n]
<1>1. PICK g : IsSort(g, l, 1..n) /\ SortedMetrics(l) = g[1..n]
  BY SortIs
<1> DEFINE f == [k \in 0..n |-> g[1..k]]
<1>2. f[0] = <<>>
  <2>1. f[0] = g[{}]
    BY 1..0 = {}
  <2>2. g[{}] = <<>>
    BY <1>1 DEF IsSort
  <2> QED BY <2>1, <2>2
<1>3. ASSUME NEW k \in 0..(n - 1)
      PROVE  f[k + 1] = Insert(f[k], l[k + 1])
  <2> DEFINE s == 1..(k + 1)
  <2>1. s \in SUBSET (1..n) /\ k + 1 \in s
    OBVIOUS
  <2>2. Max(s) = k + 1
    <3>1. IsFiniteSet(s) /\ s \subseteq Int /\ s # {}
      <4>1. k + 1 \in Int /\ 1 \in Int
        OBVIOUS
      <4>2. IsFiniteSet(s)
        BY <4>1, FS_Interval
      <4> QED BY <2>1, <4>2
    <3>2. Max(s) \in s /\ Max(s) >= k + 1
      <4> HIDE DEF s
      <4> QED BY <2>1, <3>1, Extremes
    <3> QED BY <3>2
  <2>3. But(s) = 1..k
    BY <2>2 DEF But
  <2>4. g[s] = Insert(g[But(s)], l[Max(s)])
    <3> HIDE DEF s
    <3> QED BY <1>1, <2>1 DEF IsSort
  <2>5. f[k + 1] = g[s] /\ f[k] = g[1..k]
    OBVIOUS
  <2> HIDE DEF f, s
  <2> QED BY <2>2, <2>3, <2>4, <2>5
<1>4. SortedMetrics(l) = f[n]
  BY <1>1
<1> HIDE DEF f
<1> QED BY <1>2, <1>3, <1>4

\* A metric is inserted behind the last that it is not less than.
LEMMA Inserted ==
    ASSUME NEW M, NEW s \in Seq(M), NEW m \in M
    PROVE  /\ Insert(s, m) \in Seq(M) /\ Len(Insert(s, m)) = Len(s) + 1
           /\ \E i \in 0..Len(s) :
                 /\ \A j \in 1..(Len(s) + 1) :
                       Insert(s, m)[j] = IF j <= i THEN s[j] ELSE IF j = i + 1 THEN m ELSE s[j - 1]
                 /\ i > 0 => ~Less(m, s[i])
                 /\ \A j \in (i + 1)..Len(s) : Less(m, s[j])
<1>1. PICK n \in Nat : n = Len(s) /\ DOMAIN s = 1..n /\ \A j \in 1..n : s[j] \in M
  BY LenProperties, ElementOfSeq
<1> DEFINE C == {j \in DOMAIN s : ~Less(m, s[j])}
           D == {0} \union C
<1>2. Max(D) \in D /\ \A j \in C : Max(D) >= j
  <2>1. IsFiniteSet(D) /\ D \subseteq Int /\ D # {}
    <3>1. IsFiniteSet(0..n) /\ D \subseteq 0..n
      <4>1. IsFiniteSet(0..n)
        BY FS_Interval
      <4>2. D \subseteq 0..n
        BY <1>1
      <4> QED BY <4>1, <4>2
    <3>2. IsFiniteSet(D)
      <4> HIDE DEF D
      <4> QED BY <3>1, FS_Subset
    <3> QED BY <3>1, <3>2
  <2>2. Max(D) \in D /\ \A j \in D : Max(D) >= j
    <3> HIDE DEF D
    <3> QED BY <2>1, Extremes
  <2> QED BY <2>2
<1>3. PICK i \in 0..n :
         /\ i = Max(D)
         /\ i > 0 => ~Less(m, s[i])
         /\ \A j \in (i + 1)..n : Less(m, s[j])
  <2>1. Max(D) \in 0..n
    BY <1>1, <1>2
  <2>2. Max(D) > 0 => ~Less(m, s[Max(D)])
    BY <1>1, <1>2
  <2>3. ASSUME NEW j \in (Max(D) + 1)..n
        PROVE  Less(m, s[j])
    <3>1. j \in 1..n /\ ~(Max(D) >= j)
      <4> HIDE DEF D
      <4> QED BY <2>1
    <3> QED BY <1>1, <1>2, <3>1
  <2> HIDE DEF D
  <2> QED BY <2>1, <2>2, <2>3
<1> DEFINE a == SubSeq(s, 1, i)
           b == SubSeq(s, i + 1, n)
<1>4. Insert(s, m) = (a \o <<m>>) \o b
  <2>1. Insert(s, m) = InsertAt(s, i + 1, m)
    BY <1>3 DEF Insert
  <2>2. (i + 1) - 1 = i
    BY <1>3
  <2>3. InsertAt(s, i + 1, m) = SubSeq(s, 1, (i + 1) - 1) \o <<m>> \o SubSeq(s, i + 1, Len(s))
    BY DEF InsertAt
  <2> QED BY <1>1, <2>1, <2>2, <2>3
<1> HIDE DEF C, D
<1>5. a \in Seq(M) /\ Len(a) = i /\ \A j \in 1..i : a[j] = s[j]
  <2>1. \A j \in 1..i : s[j] \in M
    BY <1>1, <1>3
  <2> QED BY <1>3, <2>1, SubSeqProperties
<1>6. b \in Seq(M) /\ Len(b) = n - i /\ \A j \in 1..(n - i) : b[j] = s[i + j]
  <2>1. \A j \in (i + 1)..n : s[j] \in M
    BY <1>1, <1>3
  <2>2. /\ b \in Seq(M) /\ Len(b) = IF i + 1 <= n THEN n - (i + 1) + 1 ELSE 0
        /\ \A j \in 1..(n - (i + 1) + 1) : b[j] = s[(i + 1) + j - 1]
    BY <1>1, <1>3, <2>1, SubSeqProperties
  <2>3. \A j \in 1..(n - i) : (i + 1) + j - 1 = i + j
    BY <1>1, <1>3
  <2>4. n - (i + 1) + 1 = n - i /\ (i + 1 <= n <=> n - i > 0) /\ n - i >= 0
    BY <1>1, <1>3
  <2> HIDE DEF b
  <2> QED BY <2>2, <2>3, <2>4
<1>7. <<m>> \in Seq(M) /\ Len(<<m>>) = 1 /\ <<m>>[1] = m
  OBVIOUS
<1> HIDE DEF a, b
<1>8. /\ a \o <<m>> \in Seq(M) /\ Len(a \o <<m>>) = i + 1
      /\ \A j \in 1..(i + 1) : (a \o <<m>>)[j] = IF j <= i THEN a[j] ELSE <<m>>[j - i]
  <2> DEFINE e == <<m>>
  <2>1. /\ a \o e \in Seq(M) /\ Len(a \o e) = Len(a) + Len(e)
        /\ \A j \in 1..(Len(a) + Len(e)) : (a \o e)[j] = IF j <= Len(a) THEN a[j] ELSE e[j - Len(a)]
    <3> HIDE DEF e
    <3> QED BY <1>5, <1>7, ConcatProperties DEF e
  <2> QED BY <1>5, <1>7, <2>1
<1>9. /\ Insert(s, m) \in Seq(M) /\ Len(Insert(s, m)) = (i + 1) + (n - i)
      /\ \A j \in 1..((i + 1) + (n - i)) :
            Insert(s, m)[j] = IF j <= i + 1 THEN (a \o <<m>>)[j] ELSE b[j - (i + 1)]
  <2> DEFINE c == a \o <<m>>
  <2>1. c \in Seq(M) /\ Len(c) = i + 1
    BY <1>8
  <2>2. /\ c \o b \in Seq(M) /\ Len(c \o b) = Len(c) + Len(b)
        /\ \A j \in 1..(Len(c) + Len(b)) : (c \o b)[j] = IF j <= Len(c) THEN c[j] ELSE b[j - Len(c)]
    <3> HIDE DEF c
    <3> QED BY <1>6, <2>1, ConcatProperties
  <2> HIDE DEF c
  <2> QED BY <1>4, <1>6, <2>1, <2>2 DEF c
<1>10. ASSUME NEW j \in 1..(n + 1)
       PROVE  Insert(s, m)[j] = IF j <= i THEN s[j] ELSE IF j = i + 1 THEN m ELSE s[j - 1]
  <2>1. CASE j <= i
    BY <1>1, <1>3, <1>5, <1>8, <1>9, <2>1
  <2>2. CASE j = i + 1
    <3>1. Insert(s, m)[j] = (a \o <<m>>)[i + 1]
      <4>1. i + 1 \in 1..((i + 1) + (n - i)) /\ i + 1 <= i + 1
        BY <1>1, <1>3
      <4> QED BY <1>9, <2>2, <4>1
    <3>2. (a \o <<m>>)[i + 1] = <<m>>[(i + 1) - i] /\ (i + 1) - i = 1 /\ ~(i + 1 <= i)
      <4>1. i + 1 \in 1..(i + 1) /\ (i + 1) - i = 1 /\ ~(i + 1 <= i)
        BY i \in Nat
      <4> QED BY <1>8, <4>1
    <3> QED BY <1>7, <2>2, <3>1, <3>2
  <2>3. CASE j > i + 1
    <3>1. Insert(s, m)[j] = b[j - (i + 1)] /\ j - (i + 1) \in 1..(n - i)
      BY <1>1, <1>3, <1>9, <2>3
    <3>2. b[j - (i + 1)] = s[i + (j - (i + 1))]
      BY <1>6, <3>1
    <3>3. i + (j - (i + 1)) = j - 1 /\ ~(j <= i) /\ j # i + 1
      BY <1>1, <1>3, <2>3
    <3> QED BY <3>1, <3>2, <3>3
  <2> QED BY <1>1, <1>3, <2>1, <2>2, <2>3
<1>11. (i + 1) + (n - i) = n + 1
  BY <1>1, <1>3
<1> QED BY <1>1, <1>3, <1>9, <1>10, <1>11

\* Metrics of the users' choice stay so when they are sorted.
LEMMA SortedTyped ==
    ASSUME NEW M, NEW l \in Seq(M)
    PROVE  SortedMetrics(l) \in Seq(M) /\ Len(SortedMetrics(l)) = Len(l)
<1>1. PICK n \in Nat : n = Len(l) /\ DOMAIN l = 1..n /\ \A k \in 1..n : l[k] \in M
  BY LenProperties, ElementOfSeq
<1>2. PICK f : /\ f[0] = <<>>
               /\ \A k \in 0..(n - 1) : f[k + 1] = Insert(f[k], l[k + 1])
               /\ SortedMetrics(l) = f[n]
  BY <1>1, SortSteps
<1> DEFINE K == {k \in 0..n : f[k] \in Seq(M) /\ Len(f[k]) = k}
<1>3. 0 \in K
  <2>1. <<>> \in Seq(M) /\ Len(<<>>) = 0
    BY EmptySeq
  <2>2. f[0] = <<>> /\ 0 \in 0..n
    BY <1>2
  <2> QED BY <2>1, <2>2
<1>4. ASSUME NEW k \in 0..(n - 1), k \in K
      PROVE  (k + 1) \in K
  <2>1. l[k + 1] \in M /\ f[k + 1] = Insert(f[k], l[k + 1]) /\ f[k] \in Seq(M) /\ Len(f[k]) = k
    BY <1>1, <1>2, <1>4
  <2>2. \A s \in Seq(M), m \in M : Insert(s, m) \in Seq(M) /\ Len(Insert(s, m)) = Len(s) + 1
    BY Inserted
  <2>3. f[k + 1] \in Seq(M) /\ Len(f[k + 1]) = k + 1
    BY <2>1, <2>2
  <2> QED BY <2>3
<1>5. n \in K
  <2> HIDE DEF K
  <2>1. 0..n \subseteq K
    BY <1>3, <1>4, Upwards
  <2> QED BY <2>1
<1> QED BY <1>1, <1>2, <1>5

(***************************************************************************)
(* What a metric leaves in the annotations.                                *)
(***************************************************************************)
\* Annotations of one name are of metrics of one type, and only those that may share it.
LEMMA SameName ==
    ASSUME NEW a, NEW b, NEW i \in Nat, NEW j \in Nat, i # j,
           a.type \in Annotated, Name(a, i) = Name(b, j)
    PROVE  /\ b.type = a.type
           /\ \/ a.type = "RequestsPerSecond"
              \/ a.type = "PodJSON" /\ b.target = a.target
<1>1. Name(a, i).type = a.type /\ Name(b, j).type = b.type
  BY DEF Name
<1>2. b.type = a.type
  BY <1>1
<1>3. CASE a.type = "RequestsPerSecond"
  BY <1>2, <1>3
<1>4. CASE a.type = "PodJSON"
  <2>1. Name(a, i).target = a.target /\ Name(b, j).target = b.target
    BY <1>2, <1>4 DEF Name, Numbered, OfResource, OfRequests
  <2> QED BY <1>2, <1>4, <2>1
<1>5. CASE a.type = "ZMON"
  <2>1. Name(a, i).target = i /\ Name(b, j).target = j
    BY <1>2, <1>5 DEF Name, Numbered, OfResource, OfRequests
  <2> QED BY <2>1
<1> QED BY <1>3, <1>4, <1>5 DEF Annotated

\* The users' choice, in any order and number.
MetricsInv == metrics \in Seq(Offered)

\* Metrics find their own details.
LEMMA AnnotationsOwn ==
    ASSUME MetricsInv
    PROVE  OwnAnnotations
<1> DEFINE s == SortedMetrics(metrics)
           h == Converted(metrics)
           failed == {i \in DOMAIN s : RefusedMetric(s[i])}
           annotated == {i \in DOMAIN s : s[i].type \in Annotated}
           NameAt(i) == Name(s[i], i)
           Ones(name) == {i \in annotated : NameAt(i) = name}
<1>1. PICK n \in Nat : n = Len(s) /\ DOMAIN s = 1..n
  BY SortedTyped, LenProperties DEF MetricsInv
<1> SUFFICES ASSUME h.outcome = "converted", NEW i \in DOMAIN s, s[i].type \in Annotated
             PROVE  \/ h.annotations[h.metrics[i].name] = Described(s[i])
                    \/ \E j \in (i + 1)..Len(s) :
                          /\ s[j].type = s[i].type
                          /\ \/ s[i].type = "RequestsPerSecond"
                             \/ s[i].type = "PodJSON" /\ s[j].target = s[i].target
  BY DEF OwnAnnotations
<1>2. /\ h.metrics = [j \in DOMAIN s |->
                        [name |-> NameAt(j), selector |-> Selector(s[j]), value |-> s[j].value]]
      /\ h.annotations = [name \in {NameAt(j) : j \in annotated} |-> Described(s[Max(Ones(name))])]
  <2>1. failed = {}
    BY DEF Converted
  <2> QED BY <2>1 DEF Converted
<1>3. h.metrics[i].name = NameAt(i) /\ i \in annotated
  BY <1>2
<1> DEFINE L == Max(Ones(NameAt(i)))
<1>4. h.annotations[NameAt(i)] = Described(s[L])
  BY <1>2, <1>3
<1>5. L \in Ones(NameAt(i)) /\ L >= i
  <2> DEFINE O == Ones(NameAt(i))
  <2>1. IsFiniteSet(O) /\ O \subseteq Int /\ i \in O
    <3>1. IsFiniteSet(1..n)
      BY FS_Interval
    <3>2. O \subseteq 1..n /\ i \in O
      BY <1>1, <1>3
    <3> HIDE DEF O
    <3>3. IsFiniteSet(O)
      BY <3>1, <3>2, FS_Subset
    <3> QED BY <3>2, <3>3
  <2>2. Max(O) \in O /\ Max(O) >= i
    <3> HIDE DEF O
    <3> QED BY <2>1, Extremes
  <2> QED BY <2>2
<1>6. CASE L = i
  BY <1>3, <1>4, <1>6
<1>7. CASE L # i
  <2>1. L \in 1..n /\ i \in 1..n /\ L \in (i + 1)..n /\ Name(s[i], i) = Name(s[L], L)
    BY <1>1, <1>5, <1>7
  <2> HIDE DEF L, s
  <2>2. /\ s[L].type = s[i].type
        /\ \/ s[i].type = "RequestsPerSecond"
           \/ s[i].type = "PodJSON" /\ s[L].target = s[i].target
    BY <1>7, <2>1, SameName
  <2> QED BY <1>1, <2>1, <2>2
<1> QED BY <1>6, <1>7

(***************************************************************************)
(* The order of metrics.                                                   *)
(***************************************************************************)
\* The field that tells metrics of a type and a value apart.
Key(a) == IF a.type \in OfResource THEN a.container ELSE a.target
\* By type, value and that field: the order of the comparator, where it is one.
Before(a, b) ==
    \/ Rank(a.type) < Rank(b.type)
    \/ a.type = b.type /\ (a.value < b.value \/ (a.value = b.value /\ Key(a) < Key(b)))
\* Metrics, every two of which the comparator can tell apart.
Distinct(M) == \A a \in M : IsMetric(a) /\ \A b \in M : a # b => Differ(a, b)
\* Those of the types of which every metric has a value.
Valued(M) == {a \in M : \A b \in M : b.type = a.type => b.value # None}

\* Types have ranks of their own.
LEMMA RankInjective ==
    ASSUME NEW t \in Range(Types), NEW u \in Range(Types)
    PROVE  Rank(t) \in Int /\ (Rank(t) = Rank(u) => t = u)
<1>1. ASSUME NEW v \in Range(Types)
      PROVE  Rank(v) \in DOMAIN Types /\ Types[Rank(v)] = v
  <2>1. \E i \in DOMAIN Types : Types[i] = v
    BY DEF Range
  <2> QED BY <2>1 DEF Rank
<1>2. DOMAIN Types \subseteq Int
  BY DEF Types
<1> QED BY <1>1, <1>2

\* What a metric consists of.
LEMMA MetricFields ==
    ASSUME NEW a, IsMetric(a)
    PROVE  /\ a.type \in Range(Types) /\ a.value \in Nat /\ a.container \in Nat /\ a.target \in Nat
           /\ a.type \notin OfResource => a.container = None
           /\ a.type \in OfResource => a.target = None
           /\ Key(a) \in Nat
<1>1. a \in MetricsOf(a.type) /\ a.type \in Range(Types)
  BY DEF IsMetric
<1>2. None \in Nat
  BY DEF None
<1> QED BY <1>1, <1>2 DEF MetricsOf, Key

\* Where metrics have values the comparator is that order.
LEMMA LessIsBefore ==
    ASSUME NEW M, Distinct(M), NEW a \in Valued(M), NEW b \in Valued(M)
    PROVE  Less(a, b) <=> Before(a, b)
<1>1. a \in M /\ b \in M /\ IsMetric(a) /\ IsMetric(b) /\ a.value # None /\ b.value # None
  BY DEF Valued, Distinct
<1>2. /\ a.value \in Nat /\ b.value \in Nat /\ Key(a) \in Nat /\ Key(b) \in Nat
      /\ a.container \in Nat /\ b.container \in Nat /\ a.target \in Nat /\ b.target \in Nat
  BY <1>1, MetricFields
<1>3. Told(a, b, "value") <=> a.value # b.value
  BY <1>1 DEF Told
<1>4. CASE a.type # b.type
  BY <1>4 DEF Less, Before
<1>5. CASE a.type = b.type /\ a.value # b.value
  BY <1>2, <1>3, <1>5 DEF Less, Before
<1>6. CASE a = b
  BY <1>2, <1>6 DEF Less, Before, Told
<1>7. CASE a # b /\ a.type = b.type /\ a.value = b.value
  <2>1. Told(a, b, "container") \/ Told(a, b, "target")
    <3>1. Differ(a, b)
      BY <1>1, <1>7 DEF Distinct
    <3> QED BY <1>3, <1>7, <3>1 DEF Differ
  <2>2. CASE a.type \in OfResource
    <3>1. a.target = None /\ b.target = None
      BY <1>1, <1>7, <2>2, MetricFields
    <3>2. Told(a, b, "container") /\ a.container # None /\ b.container # None
      BY <2>1, <3>1 DEF Told
    <3> QED BY <1>2, <1>3, <1>7, <2>2, <3>2 DEF Less, Before, Key
  <2>3. CASE a.type \notin OfResource
    <3>1. a.container = None /\ b.container = None
      BY <1>1, <1>7, <2>3, MetricFields
    <3>2. Told(a, b, "target")
      BY <2>1, <3>1 DEF Told
    <3> QED BY <1>2, <1>3, <1>7, <2>3, <3>1, <3>2 DEF Less, Before, Key
  <2> QED BY <2>2, <2>3
<1> QED BY <1>4, <1>5, <1>6, <1>7

\* The order of metrics is strict.
LEMMA BeforeStrict ==
    ASSUME NEW a, NEW b, NEW c, IsMetric(a), IsMetric(b), IsMetric(c)
    PROVE  /\ ~Before(a, a)
           /\ Before(a, b) => ~Before(b, a)
           /\ Before(a, b) /\ Before(b, c) => Before(a, c)
<1>1. /\ a.value \in Nat /\ Key(a) \in Nat /\ a.type \in Range(Types)
      /\ b.value \in Nat /\ Key(b) \in Nat /\ b.type \in Range(Types)
      /\ c.value \in Nat /\ Key(c) \in Nat /\ c.type \in Range(Types)
  BY MetricFields
<1>2. Rank(a.type) \in Int /\ Rank(b.type) \in Int /\ Rank(c.type) \in Int
  BY <1>1, RankInjective
<1> QED BY <1>1, <1>2 DEF Before

\* Metrics that differ and have values are before or after one another.
LEMMA BeforeTotal ==
    ASSUME NEW M, Distinct(M), NEW a \in Valued(M), NEW b \in Valued(M), a # b, ~Before(a, b)
    PROVE  Before(b, a)
<1>1. a \in M /\ b \in M /\ IsMetric(a) /\ IsMetric(b) /\ Differ(a, b)
  BY DEF Valued, Distinct
<1>2. /\ a.value \in Nat /\ Key(a) \in Nat /\ a.type \in Range(Types)
      /\ b.value \in Nat /\ Key(b) \in Nat /\ b.type \in Range(Types)
  BY <1>1, MetricFields
<1>3. CASE a.type # b.type
  <2>1. Rank(a.type) \in Int /\ Rank(b.type) \in Int /\ Rank(a.type) # Rank(b.type)
    BY <1>2, <1>3, RankInjective
  <2> QED BY <2>1 DEF Before
<1>4. CASE a.type = b.type /\ a.value # b.value
  BY <1>2, <1>4 DEF Before
<1>5. CASE a.type = b.type /\ a.value = b.value
  <2>1. Key(a) # Key(b)
    <3>1. Told(a, b, "container") \/ Told(a, b, "target")
      BY <1>1, <1>5 DEF Differ, Told
    <3>2. CASE a.type \in OfResource
      <4>1. a.target = None /\ b.target = None
        BY <1>1, <1>5, <3>2, MetricFields
      <4> QED BY <1>5, <3>1, <3>2, <4>1 DEF Told, Key
    <3>3. CASE a.type \notin OfResource
      <4>1. a.container = None /\ b.container = None
        BY <1>1, <1>5, <3>3, MetricFields
      <4> QED BY <1>5, <3>1, <3>3, <4>1 DEF Told, Key
    <3> QED BY <3>2, <3>3
  <2> QED BY <1>2, <1>5, <2>1 DEF Before
<1> QED BY <1>3, <1>4, <1>5

\* A list in order: by type, and where metrics have values by all of the order.
OrderedPair(a, b, M) ==
    /\ Rank(a.type) <= Rank(b.type)
    /\ a \in Valued(M) /\ b \in Valued(M) => Before(a, b)
InOrder(s, M) == \A i, j \in 1..Len(s) : i < j => OrderedPair(s[i], s[j], M)

\* What a metric is not less than comes before it, and so does what comes before that.
LEMMA NotLess ==
    ASSUME NEW M, Distinct(M), NEW m \in M, NEW a \in M, NEW b \in M,
           ~Less(m, a), m # a, b = a \/ OrderedPair(b, a, M)
    PROVE  OrderedPair(b, m, M)
<1>1. /\ IsMetric(m) /\ IsMetric(a) /\ IsMetric(b)
      /\ m.type \in Range(Types) /\ a.type \in Range(Types) /\ b.type \in Range(Types)
  BY MetricFields DEF Distinct
<1>2. Rank(m.type) \in Int /\ Rank(a.type) \in Int /\ Rank(b.type) \in Int
  BY <1>1, RankInjective
<1>3. Rank(a.type) <= Rank(m.type)
  BY <1>2 DEF Less
<1>4. Rank(b.type) <= Rank(a.type)
  BY <1>2 DEF OrderedPair
<1>5. Rank(b.type) <= Rank(m.type)
  BY <1>2, <1>3, <1>4
<1>6. ASSUME b \in Valued(M), m \in Valued(M)
      PROVE  Before(b, m)
  <2>1. CASE Rank(b.type) < Rank(m.type)
    BY <2>1 DEF Before
  <2>2. CASE Rank(b.type) = Rank(m.type)
    <3>1. Rank(a.type) = Rank(m.type)
      BY <1>2, <1>3, <1>4, <2>2
    <3>2. a.type = m.type
      BY <1>1, <3>1, RankInjective
    <3>3. a \in Valued(M)
      BY <1>6, <3>2 DEF Valued
    <3>4. ~Before(m, a)
      BY <1>6, <3>3, LessIsBefore
    <3>5. Before(a, m)
      BY <1>6, <3>3, <3>4, BeforeTotal
    <3>6. b = a \/ Before(b, a)
      BY <1>6, <3>3 DEF OrderedPair
    <3> QED BY <1>1, <3>5, <3>6, BeforeStrict
  <2> QED BY <1>2, <1>5, <2>1, <2>2
<1> QED BY <1>5, <1>6 DEF OrderedPair

\* What a metric is less than comes after it.
LEMMA IsLess ==
    ASSUME NEW M, Distinct(M), NEW m \in M, NEW a \in M, Less(m, a)
    PROVE  OrderedPair(m, a, M)
<1>1. m.type \in Range(Types) /\ a.type \in Range(Types)
  BY MetricFields DEF Distinct
<1>2. Rank(m.type) \in Int /\ Rank(a.type) \in Int
  BY <1>1, RankInjective
<1>3. Rank(m.type) <= Rank(a.type)
  BY <1>2 DEF Less
<1> QED BY <1>3, LessIsBefore DEF OrderedPair

\* Inserting another metric keeps a list in order.
LEMMA InsertInOrder ==
    ASSUME NEW M, Distinct(M), NEW s \in Seq(M), InOrder(s, M),
           NEW m \in M, \A j \in 1..Len(s) : s[j] # m
    PROVE  InOrder(Insert(s, m), M)
<1>1. PICK n \in Nat : n = Len(s) /\ \A j \in 1..n : s[j] \in M
  BY LenProperties, ElementOfSeq
<1> DEFINE t == Insert(s, m)
<1>2. Len(t) = n + 1
  BY <1>1, Inserted
<1>3. PICK i \in 0..n :
         /\ \A j \in 1..(n + 1) : t[j] = IF j <= i THEN s[j] ELSE IF j = i + 1 THEN m ELSE s[j - 1]
         /\ i > 0 => ~Less(m, s[i])
         /\ \A j \in (i + 1)..n : Less(m, s[j])
  BY <1>1, Inserted
<1>4. ASSUME NEW j \in 1..n, j <= i
      PROVE  OrderedPair(s[j], m, M)
  <2>1. i \in 1..n /\ s[i] \in M /\ s[j] \in M /\ ~Less(m, s[i]) /\ m # s[i]
    BY <1>1, <1>3, <1>4
  <2>2. s[j] = s[i] \/ OrderedPair(s[j], s[i], M)
    BY <1>1, <1>4, <2>1 DEF InOrder
  <2> QED BY <2>1, <2>2, NotLess
<1>5. ASSUME NEW j \in 1..n, j > i
      PROVE  OrderedPair(m, s[j], M)
  <2>1. s[j] \in M /\ Less(m, s[j])
    BY <1>1, <1>3, <1>5
  <2> QED BY <2>1, IsLess
<1>6. ASSUME NEW j \in 1..n, NEW k \in 1..n, j < k
      PROVE  OrderedPair(s[j], s[k], M)
  BY <1>1, <1>6 DEF InOrder
<1>7. ASSUME NEW j \in 1..(n + 1), NEW k \in 1..(n + 1), j < k
      PROVE  OrderedPair(t[j], t[k], M)
  <2> HIDE DEF t
  <2>1. CASE k <= i
    <3>1. t[j] = s[j] /\ t[k] = s[k] /\ j \in 1..n /\ k \in 1..n
      BY <1>3, <1>7, <2>1
    <3> QED BY <1>6, <1>7, <3>1
  <2>2. CASE k = i + 1
    <3>1. t[j] = s[j] /\ t[k] = m /\ j \in 1..n /\ j <= i
      BY <1>3, <1>7, <2>2
    <3> QED BY <1>4, <3>1
  <2>3. CASE k > i + 1 /\ j <= i
    <3>1. t[j] = s[j] /\ t[k] = s[k - 1] /\ j \in 1..n /\ k - 1 \in 1..n /\ j < k - 1
      BY <1>3, <1>7, <2>3
    <3> QED BY <1>6, <3>1
  <2>4. CASE k > i + 1 /\ j = i + 1
    <3>1. t[j] = m /\ t[k] = s[k - 1] /\ k - 1 \in 1..n /\ k - 1 > i
      BY <1>3, <1>7, <2>4
    <3> QED BY <1>5, <3>1
  <2>5. CASE k > i + 1 /\ j > i + 1
    <3>1. t[j] = s[j - 1] /\ t[k] = s[k - 1] /\ j - 1 \in 1..n /\ k - 1 \in 1..n /\ j - 1 < k - 1
      BY <1>3, <1>7, <2>5
    <3> QED BY <1>6, <3>1
  <2> QED BY <1>3, <1>7, <2>1, <2>2, <2>3, <2>4, <2>5
<1> QED BY <1>2, <1>7 DEF InOrder

\* What is in a list, up to a place of it.
Upto(s, k) == {s[j] : j \in 1..k}
\* A list has each of the metrics once.
Lists(l, M) ==
    /\ l \in Seq(M)
    /\ M = Upto(l, Len(l))
    /\ \A i, j \in 1..Len(l) : i # j => l[i] # l[j]

\* Inserting a metric loses none.
LEMMA InsertKeepsAll ==
    ASSUME NEW M, NEW s \in Seq(M), NEW m \in M
    PROVE  Upto(Insert(s, m), Len(s) + 1) = Upto(s, Len(s)) \union {m}
<1>1. PICK k \in Nat : k = Len(s)
  BY LenProperties
<1> DEFINE t == Insert(s, m)
<1>2. PICK i \in 0..k :
         /\ \A j \in 1..(k + 1) : t[j] = IF j <= i THEN s[j] ELSE IF j = i + 1 THEN m ELSE s[j - 1]
         /\ i > 0 => ~Less(m, s[i])
         /\ \A j \in (i + 1)..k : Less(m, s[j])
  BY <1>1, Inserted
<1> HIDE DEF t
<1>3. ASSUME NEW j \in 1..(k + 1)
      PROVE  t[j] \in Upto(s, k) \union {m}
  BY <1>2 DEF Upto
<1>4. ASSUME NEW j \in 1..k
      PROVE  s[j] \in Upto(t, k + 1)
  <2>1. CASE j <= i
    <3>1. t[j] = s[j] /\ j \in 1..(k + 1)
      BY <1>2, <2>1
    <3> QED BY <3>1 DEF Upto
  <2>2. CASE j > i
    <3>1. t[j + 1] = s[(j + 1) - 1] /\ (j + 1) - 1 = j /\ j + 1 \in 1..(k + 1)
      BY <1>2, <2>2
    <3> QED BY <3>1 DEF Upto
  <2> QED BY <2>1, <2>2
<1>5. m \in Upto(t, k + 1)
  <2>1. t[i + 1] = m /\ i + 1 \in 1..(k + 1)
    BY <1>2
  <2> QED BY <2>1 DEF Upto
<1>6. Upto(t, k + 1) = Upto(s, k) \union {m}
  <2>1. Upto(t, k + 1) \subseteq Upto(s, k) \union {m}
    BY <1>3 DEF Upto
  <2>2. Upto(s, k) \subseteq Upto(t, k + 1)
    BY <1>4 DEF Upto
  <2> QED BY <1>5, <2>1, <2>2
<1> QED BY <1>1, <1>6 DEF t

\* A part of the list that was sorted, as it should be.
Sorted(s, l, k, M) == s \in Seq(M) /\ Len(s) = k /\ Upto(s, k) = Upto(l, k) /\ InOrder(s, M)

\* A list that is sorted stays so with the next metric inserted.
LEMMA SortsOneMore ==
    ASSUME NEW M, Distinct(M), NEW l, Lists(l, M), NEW k \in 0..(Len(l) - 1), NEW s, Sorted(s, l, k, M)
    PROVE  Sorted(Insert(s, l[k + 1]), l, k + 1, M)
<1>1. PICK n \in Nat : n = Len(l) /\ \A j \in 1..n : l[j] \in M
  BY LenProperties, ElementOfSeq DEF Lists
<1>2. k \in Nat /\ k + 1 \in 1..n /\ \A j \in 1..k : j \in 1..n /\ j # k + 1
  BY <1>1
<1>3. s \in Seq(M) /\ Len(s) = k /\ l[k + 1] \in M
  BY <1>1, <1>2 DEF Sorted
<1>4. \A j \in 1..k : l[j] # l[k + 1]
  BY <1>1, <1>2 DEF Lists
<1>5. \A j \in 1..k : s[j] # l[k + 1]
  BY <1>4 DEF Sorted, Upto
<1>6. InOrder(Insert(s, l[k + 1]), M)
  BY <1>3, <1>5, InsertInOrder DEF Sorted
<1>7. Upto(Insert(s, l[k + 1]), k + 1) = Upto(l, k + 1)
  <2>1. Upto(Insert(s, l[k + 1]), k + 1) = Upto(s, k) \union {l[k + 1]}
    BY <1>3, InsertKeepsAll
  <2>2. Upto(l, k + 1) = Upto(l, k) \union {l[k + 1]}
    BY <1>2 DEF Upto
  <2> QED BY <2>1, <2>2 DEF Sorted
<1>8. Insert(s, l[k + 1]) \in Seq(M) /\ Len(Insert(s, l[k + 1])) = k + 1
  <2>1. \A m \in M : Insert(s, m) \in Seq(M) /\ Len(Insert(s, m)) = Len(s) + 1
    BY <1>3, Inserted
  <2> QED BY <1>3, <2>1
<1> QED BY <1>6, <1>7, <1>8 DEF Sorted

\* Sorting leaves metrics in order and loses none.
LEMMA SortedInOrder ==
    ASSUME NEW M, Distinct(M), NEW l, Lists(l, M)
    PROVE  Sorted(SortedMetrics(l), l, Len(l), M)
<1>1. PICK n \in Nat : n = Len(l) /\ DOMAIN l = 1..n
  BY LenProperties DEF Lists
<1>2. PICK f : /\ f[0] = <<>>
               /\ \A k \in 0..(n - 1) : f[k + 1] = Insert(f[k], l[k + 1])
               /\ SortedMetrics(l) = f[n]
  BY <1>1, SortSteps
<1> DEFINE K == {k \in 0..n : Sorted(f[k], l, k, M)}
<1>3. 0 \in K
  <2>1. <<>> \in Seq(M) /\ Len(<<>>) = 0 /\ 1..0 = {}
    BY EmptySeq
  <2>2. InOrder(<<>>, M)
    BY <2>1 DEF InOrder
  <2>3. Upto(<<>>, 0) = Upto(l, 0)
    BY <2>1 DEF Upto
  <2>4. f[0] = <<>> /\ 0 \in 0..n
    BY <1>2
  <2> QED BY <2>1, <2>2, <2>3, <2>4 DEF Sorted
<1>4. ASSUME NEW k \in 0..(n - 1), k \in K
      PROVE  (k + 1) \in K
  <2>1. Sorted(f[k], l, k, M) /\ k + 1 \in 0..n /\ f[k + 1] = Insert(f[k], l[k + 1])
    BY <1>2, <1>4
  <2>2. Sorted(Insert(f[k], l[k + 1]), l, k + 1, M)
    BY <1>1, <2>1, SortsOneMore
  <2> QED BY <2>1, <2>2
<1>5. n \in K
  <2> HIDE DEF K
  <2>1. 0..n \subseteq K
    BY <1>3, <1>4, Upwards
  <2> QED BY <2>1
<1> QED BY <1>1, <1>2, <1>5

\* All metrics in order.
Arranged(s, n, M) == s \in Seq(M) /\ Len(s) = n /\ M = Upto(s, n) /\ InOrder(s, M)

\* All metrics of which have values, a list has them in one order only.
LEMMA OneOrder ==
    ASSUME NEW M, Distinct(M), \A a \in M : a.value # None,
           NEW n \in Nat, NEW s, NEW t,
           Arranged(s, n, M), Arranged(t, n, M)
    PROVE  s = t
<1>0. /\ s \in Seq(M) /\ Len(s) = n /\ M = Upto(s, n) /\ InOrder(s, M)
      /\ t \in Seq(M) /\ Len(t) = n /\ M = Upto(t, n) /\ InOrder(t, M)
  BY DEF Arranged
<1> DEFINE C == {j \in 1..n : s[j] # t[j]}
<1>1. M = Valued(M) /\ \A a \in M : IsMetric(a)
  BY DEF Valued, Distinct
<1>2. \A j, k \in 1..n : j < k => Before(s[j], s[k]) /\ Before(t[j], t[k])
  <2> SUFFICES ASSUME NEW j \in 1..n, NEW k \in 1..n, j < k
               PROVE  Before(s[j], s[k]) /\ Before(t[j], t[k])
    OBVIOUS
  <2>1. s[j] \in M /\ s[k] \in M /\ t[j] \in M /\ t[k] \in M
    BY <1>0, ElementOfSeq
  <2> QED BY <1>0, <1>1, <2>1 DEF InOrder, OrderedPair
<1>3. CASE C # {}
  <2>1. IsFiniteSet(C) /\ C \subseteq Int
    <3>1. IsFiniteSet(1..n) /\ C \subseteq 1..n
      BY FS_Interval
    <3> HIDE DEF C
    <3>2. IsFiniteSet(C)
      BY <3>1, FS_Subset
    <3> QED BY <3>1, <3>2
  <2>2. PICK j \in C : \A k \in C : j <= k
    <3> HIDE DEF C
    <3> QED BY <1>3, <2>1, Extremes
  <2>3. j \in 1..n /\ s[j] # t[j] /\ \A k \in 1..n : k < j => s[k] = t[k]
    BY <2>2
  <2>4. s[j] \in M /\ t[j] \in M
    BY <1>0, <2>3, ElementOfSeq
  <2>5. PICK k \in 1..n : t[k] = s[j]
    BY <1>0, <2>4 DEF Upto
  <2>6. PICK i \in 1..n : s[i] = t[j]
    BY <1>0, <2>4 DEF Upto
  <2>7. k > j
    <3>1. CASE k < j
      BY <1>1, <1>2, <2>3, <2>4, <2>5, <3>1, BeforeStrict
    <3>2. k # j
      BY <2>3, <2>5
    <3> QED BY <2>3, <3>1, <3>2
  <2>8. i > j
    <3>1. CASE i < j
      BY <1>1, <1>2, <2>3, <2>4, <2>6, <3>1, BeforeStrict
    <3>2. i # j
      BY <2>3, <2>6
    <3> QED BY <2>3, <3>1, <3>2
  <2>9. Before(t[j], s[j]) /\ Before(s[j], t[j])
    BY <1>2, <2>3, <2>5, <2>6, <2>7, <2>8
  <2> QED BY <1>1, <2>4, <2>9, BeforeStrict
<1>4. CASE C = {}
  <2>1. \A j \in 1..n : s[j] = t[j]
    BY <1>4
  <2> QED BY <1>0, <2>1, SeqEqual
<1> QED BY <1>3, <1>4

\* The first place of a metric that is refused.
FirstRefused(s) == Min({i \in DOMAIN s : RefusedMetric(s[i])})

\* It is one, and no other is before it.
LEMMA FirstIsFirst ==
    ASSUME NEW M, NEW n \in Nat, NEW s \in Seq(M), Len(s) = n, NEW k \in 1..n, RefusedMetric(s[k])
    PROVE  FirstRefused(s) \in 1..n /\ RefusedMetric(s[FirstRefused(s)]) /\ FirstRefused(s) <= k
<1> DEFINE C == {i \in DOMAIN s : RefusedMetric(s[i])}
<1>1. DOMAIN s = 1..n
  BY LenProperties
<1>2. IsFiniteSet(C) /\ C \subseteq Int /\ k \in C
  <2>1. IsFiniteSet(1..n)
    BY FS_Interval
  <2>2. C \subseteq 1..n /\ k \in C
    BY <1>1
  <2> HIDE DEF C
  <2>3. IsFiniteSet(C)
    BY <2>1, <2>2, FS_Subset
  <2> QED BY <2>2, <2>3
<1>3. Min(C) \in C /\ Min(C) <= k
  <2> HIDE DEF C
  <2> QED BY <1>2, Extremes
<1> QED BY <1>1, <1>3 DEF FirstRefused

\* If the first that is refused makes the controller panic, it is the first in every order.
LEMMA OnePanics ==
    ASSUME NEW M, Distinct(M), NEW n \in Nat, NEW s, NEW t,
           Arranged(s, n, M), Arranged(t, n, M),
           NEW r \in M, RefusedMetric(r),
           PanickingMetric(s[FirstRefused(s)])
    PROVE  t[FirstRefused(t)] = s[FirstRefused(s)]
<1>0. /\ s \in Seq(M) /\ Len(s) = n /\ M = Upto(s, n) /\ InOrder(s, M)
      /\ t \in Seq(M) /\ Len(t) = n /\ M = Upto(t, n) /\ InOrder(t, M)
  BY DEF Arranged
<1> DEFINE a == s[FirstRefused(s)]
           b == t[FirstRefused(t)]
<1>1. FirstRefused(s) \in 1..n /\ RefusedMetric(a) /\ a \in M
  <2>1. PICK k \in 1..n : s[k] = r
    BY <1>0 DEF Upto
  <2>2. FirstRefused(s) \in 1..n /\ RefusedMetric(a)
    BY <1>0, <2>1, FirstIsFirst
  <2> QED BY <1>0, <2>2, ElementOfSeq
<1>2. FirstRefused(t) \in 1..n /\ RefusedMetric(b) /\ b \in M
  <2>1. PICK k \in 1..n : t[k] = r
    BY <1>0 DEF Upto
  <2>2. FirstRefused(t) \in 1..n /\ RefusedMetric(b)
    BY <1>0, <2>1, FirstIsFirst
  <2> QED BY <1>0, <2>2, ElementOfSeq
<1> SUFFICES ASSUME a # b PROVE FALSE
  OBVIOUS
<1>3. PICK k \in 1..n : t[k] = a
  BY <1>0, <1>1 DEF Upto
<1>4. PICK i \in 1..n : s[i] = b
  BY <1>0, <1>2 DEF Upto
<1>5. FirstRefused(t) <= k /\ FirstRefused(s) <= i
  BY <1>0, <1>1, <1>2, <1>3, <1>4, FirstIsFirst
<1> HIDE DEF a, b
<1>6. OrderedPair(b, a, M)
  <2>1. k # FirstRefused(t)
    BY <1>3 DEF b
  <2>2. FirstRefused(t) < k
    BY <1>2, <1>3, <1>5, <2>1
  <2> QED BY <1>0, <1>2, <1>3, <2>2 DEF InOrder, b
<1>7. OrderedPair(a, b, M)
  <2>1. i # FirstRefused(s)
    BY <1>4 DEF a
  <2>2. FirstRefused(s) < i
    BY <1>1, <1>4, <1>5, <2>1
  <2> QED BY <1>0, <1>1, <1>4, <2>2 DEF InOrder, a
<1>8. IsMetric(a) /\ IsMetric(b) /\ a.type \in Range(Types) /\ b.type \in Range(Types)
  BY <1>1, <1>2, MetricFields DEF Distinct
<1>9. a.type = b.type
  <2>1. Rank(a.type) \in Int /\ Rank(b.type) \in Int
    BY <1>8, RankInjective
  <2>2. Rank(a.type) = Rank(b.type)
    BY <1>6, <1>7, <2>1 DEF OrderedPair
  <2> QED BY <1>8, <2>2, RankInjective
<1>10. a \in Valued(M)
  <2>1. a.type = "PodJSON" /\ a.value # None /\ a.target = None
    BY DEF PanickingMetric, a
  <2> SUFFICES ASSUME NEW c \in M, c.type = a.type, c.value = None
               PROVE  FALSE
    BY <1>1 DEF Valued
  <2>2. Differ(a, c)
    BY <1>1, <2>1 DEF Distinct
  <2>3. a.container = None
    BY <1>8, <2>1, MetricFields DEF OfResource
  <2> QED BY <2>1, <2>2, <2>3 DEF Differ, Told
<1>11. b \in Valued(M)
  BY <1>2, <1>9, <1>10 DEF Valued
<1> QED BY <1>6, <1>7, <1>8, <1>10, <1>11, BeforeStrict DEF OrderedPair

\* Metrics in another order are converted to the same.
LEMMA SameConverted ==
    ASSUME NEW M, Distinct(M), NEW l, Lists(l, M), NEW o, Lists(o, M), Len(o) = Len(l)
    PROVE  Converted(o) = Converted(l)
<1> DEFINE s == SortedMetrics(l)
           t == SortedMetrics(o)
<1>1. PICK n \in Nat : n = Len(l)
  BY LenProperties DEF Lists
<1>2. /\ Arranged(s, n, M) /\ M = Upto(s, n) /\ DOMAIN s = 1..n
      /\ Arranged(t, n, M) /\ M = Upto(t, n) /\ DOMAIN t = 1..n
  <2>1. Sorted(s, l, n, M) /\ Sorted(t, o, n, M) /\ M = Upto(l, n) /\ M = Upto(o, n)
    BY <1>1, SortedInOrder DEF Lists
  <2> HIDE DEF s, t
  <2>2. /\ s \in Seq(M) /\ Len(s) = n /\ M = Upto(s, n) /\ InOrder(s, M)
        /\ t \in Seq(M) /\ Len(t) = n /\ M = Upto(t, n) /\ InOrder(t, M)
    BY <2>1 DEF Sorted
  <2> QED BY <2>2, LenProperties DEF Arranged
<1>3. CASE \E r \in M : RefusedMetric(r)
  <2> DEFINE Outcome(x) ==
               [outcome |-> IF PanickingMetric(x[FirstRefused(x)]) THEN "panic" ELSE "error",
                metrics |-> <<>>, annotations |-> <<>>]
  <2>1. PICK r \in M : RefusedMetric(r)
    BY <1>3
  <2>2. Converted(l) = Outcome(s)
    <3>1. PICK k \in 1..n : s[k] = r
      BY <1>2, <2>1 DEF Upto
    <3>2. {i \in DOMAIN s : RefusedMetric(s[i])} # {}
      BY <1>2, <2>1, <3>1
    <3> QED BY <3>2 DEF Converted, FirstRefused
  <2>3. Converted(o) = Outcome(t)
    <3>1. PICK k \in 1..n : t[k] = r
      BY <1>2, <2>1 DEF Upto
    <3>2. {i \in DOMAIN t : RefusedMetric(t[i])} # {}
      BY <1>2, <2>1, <3>1
    <3> QED BY <3>2 DEF Converted, FirstRefused
  <2> HIDE DEF s, t
  <2>4. ASSUME PanickingMetric(s[FirstRefused(s)])
        PROVE  PanickingMetric(t[FirstRefused(t)])
    <3>1. t[FirstRefused(t)] = s[FirstRefused(s)]
      BY <1>2, <2>1, <2>4, OnePanics
    <3> QED BY <2>4, <3>1
  <2>5. ASSUME PanickingMetric(t[FirstRefused(t)])
        PROVE  PanickingMetric(s[FirstRefused(s)])
    <3>1. s[FirstRefused(s)] = t[FirstRefused(t)]
      BY <1>2, <2>1, <2>5, OnePanics
    <3> QED BY <2>5, <3>1
  <2>6. Outcome(s) = Outcome(t)
    BY <2>4, <2>5
  <2> QED BY <2>2, <2>3, <2>6
<1>4. CASE \A r \in M : ~RefusedMetric(r)
  <2>1. \A a \in M : a.value # None
    BY <1>4 DEF RefusedMetric
  <2>2. s = t
    <3> HIDE DEF s, t
    <3> QED BY <1>2, <2>1, OneOrder
  <2> QED BY <2>2, Zenon DEF Converted
<1> QED BY <1>3, <1>4

\* The order of the users' choice does not matter.
LEMMA OrderFree ==
    ASSUME MetricsInv
    PROVE  AnyOrder
<1> DEFINE places == DOMAIN metrics
           M == Upto(metrics, Len(metrics))
<1> SUFFICES ASSUME \A i, j \in places : i # j => Differ(metrics[i], metrics[j]),
                    NEW p \in Bijection(places, places)
             PROVE  Converted([i \in places |-> metrics[p[i]]]) = Converted(metrics)
  BY DEF AnyOrder
<1> DEFINE o == [i \in places |-> metrics[p[i]]]
<1>1. PICK n \in Nat : n = Len(metrics) /\ places = 1..n /\ \A k \in 1..n : metrics[k] \in Offered
  BY LenProperties, ElementOfSeq DEF MetricsInv
<1>2. Distinct(M)
  <2>1. \A a \in M : IsMetric(a)
    BY <1>1, OfferedAssumption DEF Upto
  <2>2. ASSUME NEW a \in M, NEW b \in M, a # b
        PROVE  Differ(a, b)
    <3>1. PICK i \in 1..n : a = metrics[i]
      BY <1>1 DEF Upto
    <3>2. PICK j \in 1..n : b = metrics[j]
      BY <1>1 DEF Upto
    <3> QED BY <1>1, <2>2, <3>1, <3>2
  <2> HIDE DEF M
  <2> QED BY <2>1, <2>2 DEF Distinct
<1>3. \A i, j \in 1..n : i # j => metrics[i] # metrics[j]
  BY <1>1 DEF Differ, Told
<1>4. \A k \in 1..n : metrics[k] \in M
  BY <1>1 DEF Upto
<1>5. Lists(metrics, M)
  <2>1. metrics \in Seq(M)
    <3>1. metrics = [k \in 1..n |-> metrics[k]]
      BY <1>1 DEF MetricsInv
    <3> HIDE DEF M
    <3> QED BY <1>4, <3>1
  <2> QED BY <1>1, <1>3, <2>1 DEF Lists
<1>6. /\ \A i \in 1..n : p[i] \in 1..n
      /\ \A i, j \in 1..n : i # j => p[i] # p[j]
      /\ \A k \in 1..n : \E i \in 1..n : p[i] = k
  BY <1>1 DEF Bijection, Injection, Surjection, IsInjective
<1>7. o \in Seq(M) /\ Len(o) = n /\ \A i \in 1..n : o[i] = metrics[p[i]]
  <2>1. o = [i \in 1..n |-> metrics[p[i]]] /\ \A i \in 1..n : metrics[p[i]] \in M
    BY <1>1, <1>4, <1>6
  <2> HIDE DEF M, o
  <2> QED BY <2>1
<1>8. Lists(o, M)
  <2>1. M = Upto(o, n)
    <3>1. ASSUME NEW a \in M
          PROVE  a \in Upto(o, n)
      <4>1. PICK k \in 1..n : a = metrics[k]
        BY <1>1 DEF Upto
      <4>2. PICK i \in 1..n : p[i] = k
        BY <1>6
      <4> HIDE DEF M, o
      <4> QED BY <1>7, <4>1, <4>2 DEF Upto
    <3>2. \A i \in 1..n : o[i] \in M
      <4> HIDE DEF M, o
      <4> QED BY <1>4, <1>6, <1>7
    <3> HIDE DEF M, o
    <3> QED BY <3>1, <3>2 DEF Upto
  <2>2. \A i, j \in 1..n : i # j => o[i] # o[j]
    <3> SUFFICES ASSUME NEW i \in 1..n, NEW j \in 1..n, i # j
                 PROVE  o[i] # o[j]
      OBVIOUS
    <3>1. p[i] \in 1..n /\ p[j] \in 1..n /\ p[i] # p[j]
      BY <1>6
    <3> HIDE DEF o
    <3> QED BY <1>3, <1>7, <3>1
  <2> HIDE DEF M, o
  <2> QED BY <1>7, <2>1, <2>2 DEF Lists
<1> HIDE DEF M, o
<1> QED BY <1>1, <1>2, <1>5, <1>7, <1>8, SameConverted DEF o

\* Metrics are given at first.
LEMMA InitMetrics ==
    ASSUME CalculationsInit
    PROVE  MetricsInv
<1>1. CASE metrics = <<>>
  BY <1>1, EmptySeq DEF MetricsInv
<1>2. CASE metrics \in UNION {[1..n -> Offered] : n \in 1..MaxMetrics}
  <2>1. PICK n \in 1..MaxMetrics : metrics \in [1..n -> Offered]
    BY <1>2
  <2> QED BY <2>1, CalculationsBoundsAssumption DEF MetricsInv
<1> QED BY <1>1, <1>2 DEF CalculationsInit

\* No step changes the metrics of a stack.
LEMMA NextMetrics ==
    ASSUME MetricsInv, [CalculationsNext]_calculationVars
    PROVE  MetricsInv'
<1>1. metrics' = metrics
  BY DEF CalculationsNext, Manage, calculationVars
<1> QED BY <1>1 DEF MetricsInv

(***************************************************************************)
(* Every metric that is converted finds its own details in the annotations *)
(* of the HPA, unless one that may share the name has overwritten them:    *)
(* for any lists of any metrics.                                           *)
(***************************************************************************)
THEOREM AnnotationsAreOwn == CalculationsSpec => []OwnAnnotations
<1>1. CalculationsInit => MetricsInv
  BY InitMetrics
<1>2. MetricsInv /\ [CalculationsNext]_calculationVars => MetricsInv'
  BY NextMetrics
<1>3. MetricsInv => OwnAnnotations
  BY AnnotationsOwn
<1> QED BY <1>1, <1>2, <1>3, PTL DEF CalculationsSpec

(***************************************************************************)
(* The HPA, or the failure to make one, is the same in whatever order the  *)
(* user lists metrics every two of which the comparator can tell apart:    *)
(* for lists of any length.                                                *)
(***************************************************************************)
THEOREM OrderDoesNotMatter == CalculationsSpec => []AnyOrder
<1>1. CalculationsInit => MetricsInv
  BY InitMetrics
<1>2. MetricsInv /\ [CalculationsNext]_calculationVars => MetricsInv'
  BY NextMetrics
<1>3. MetricsInv => AnyOrder
  BY OrderFree
<1> QED BY <1>1, <1>2, <1>3, PTL DEF CalculationsSpec
=============================================================================
