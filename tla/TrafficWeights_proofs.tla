------------------------ MODULE TrafficWeights_proofs ------------------------
(***************************************************************************)
(* Proofs about the arithmetic on traffic weights, for any number of       *)
(* stacks and any weights: sums over finite sets, and with them that       *)
(* roundWeights keeps the whole, is fair, and leaves alone what it has     *)
(* rounded before.                                                         *)
(*                                                                         *)
(* MapThenSumSet is a recursive function on the subsets of a set.  That it *)
(* is defined for a finite set is shown here from scratch, by looking at a *)
(* smallest subset for which it would not be.                              *)
(***************************************************************************)
EXTENDS TrafficWeights, FiniteSetTheorems, TLAPS

-----------------------------------------------------------------------------
(***************************************************************************)
(* Sums over finite sets.                                                  *)
(***************************************************************************)
SumOver(w, S) == MapThenSumSet(LAMBDA s : w[s], S)

Elem(S) == CHOOSE x \in S : TRUE
Rest(S) == S \ {Elem(S)}
\* g sums up w over every subset of S
IsSum(g, w, S) == g = [s \in SUBSET S |-> IF s = {} THEN 0 ELSE w[Elem(s)] + g[Rest(s)]]

\* Among subsets of a finite set there is a smallest.
LEMMA Minimal ==
    ASSUME NEW S, IsFiniteSet(S), NEW C, C \subseteq SUBSET S, C # {}
    PROVE  \E m \in C : \A y \in C : ~(y \subseteq m /\ y # m)
<1>1. IsWellFoundedOn(StrictSubsetOrdering(S), SUBSET S)
  BY FS_FiniteSubsetsOfFinite, FS_StrictSubsetOrderingWellFounded, Zenon
<1>2. \E m \in C : \A y \in C : ~(<<y, m>> \in StrictSubsetOrdering(S))
  BY <1>1, WFMin
<1> QED BY <1>2 DEF StrictSubsetOrdering

\* An element chosen from a set leaves a smaller one.
LEMMA RestSmaller ==
    ASSUME NEW S, S # {}
    PROVE  Elem(S) \in S /\ Rest(S) \subseteq S /\ Rest(S) # S
BY DEF Elem, Rest

\* Sums over a set and over a part of it agree on the part.
LEMMA SumUnique ==
    ASSUME NEW S, IsFiniteSet(S), NEW T \in SUBSET S, NEW w, NEW g, NEW h,
           IsSum(g, w, S), IsSum(h, w, T)
    PROVE  \A U \in SUBSET T : g[U] = h[U]
<1> DEFINE C == {U \in SUBSET T : g[U] # h[U]}
<1> SUFFICES ASSUME C # {} PROVE FALSE
  OBVIOUS
<1>1. IsFiniteSet(T)
  BY FS_Subset
<1>2. PICK m \in C : \A y \in C : ~(y \subseteq m /\ y # m)
  <2>1. C \subseteq SUBSET T /\ C # {}
    OBVIOUS
  <2> HIDE DEF C
  <2> QED BY <1>1, <2>1, Minimal
<1>3. m \in SUBSET T /\ m \in SUBSET S /\ g[m] # h[m]
  OBVIOUS
<1>4. g[m] = IF m = {} THEN 0 ELSE w[Elem(m)] + g[Rest(m)]
  BY <1>3 DEF IsSum
<1>5. h[m] = IF m = {} THEN 0 ELSE w[Elem(m)] + h[Rest(m)]
  BY <1>3 DEF IsSum
<1>6. m # {}
  BY <1>3, <1>4, <1>5
<1>7. Rest(m) \in SUBSET T /\ Rest(m) \notin C
  BY <1>2, <1>3, <1>6, RestSmaller
<1>8. g[Rest(m)] = h[Rest(m)]
  BY <1>7
<1> QED BY <1>3, <1>4, <1>5, <1>6, <1>8

\* Every finite set can be summed up.
LEMMA SumExists ==
    ASSUME NEW S, IsFiniteSet(S), NEW w
    PROVE  \E g : IsSum(g, w, S)
<1> DEFINE C == {T \in SUBSET S : ~\E g : IsSum(g, w, T)}
<1>1. CASE C = {}
  BY <1>1
<1>2. CASE C # {}
  <2>1. PICK m \in C : \A y \in C : ~(y \subseteq m /\ y # m)
    <3>1. C \subseteq SUBSET S /\ C # {}
      BY <1>2
    <3> HIDE DEF C
    <3> QED BY <3>1, Minimal
  <2> DEFINE G(U) == CHOOSE g : IsSum(g, w, U)
             g == [s \in SUBSET m |-> IF s = {} THEN 0 ELSE w[Elem(s)] + G(Rest(s))[Rest(s)]]
  <2>2. m \in SUBSET S /\ ~\E f : IsSum(f, w, m)
    OBVIOUS
  <2>3. ASSUME NEW U \in SUBSET m, U # m PROVE IsSum(G(U), w, U) /\ IsFiniteSet(U)
    <3>1. U \in SUBSET S /\ U \notin C
      BY <2>1, <2>2, <2>3
    <3>2. \E f : IsSum(f, w, U)
      BY <3>1
    <3> QED BY <3>1, <3>2, FS_Subset
  <2>4. ASSUME NEW s \in SUBSET m, s # {}
        PROVE  G(Rest(s))[Rest(s)] = g[Rest(s)]
    <3> DEFINE r == Rest(s)
    <3>1. r \in SUBSET m /\ r # m
      BY <2>4, RestSmaller
    <3>2. IsSum(G(r), w, r) /\ IsFiniteSet(r)
      BY <2>3, <3>1
    <3>3. CASE r = {}
      BY <3>1, <3>2, <3>3 DEF IsSum
    <3>4. CASE r # {}
      <4>1. Rest(r) \in SUBSET r /\ Rest(r) \in SUBSET m /\ Rest(r) # m
        BY <3>1, <3>4, RestSmaller
      <4>2. IsSum(G(Rest(r)), w, Rest(r))
        BY <2>3, <4>1
      <4>3. G(r)[Rest(r)] = G(Rest(r))[Rest(r)]
        <5> HIDE DEF G
        <5> QED BY <3>2, <4>1, <4>2, SumUnique
      <4>4. G(r)[r] = w[Elem(r)] + G(r)[Rest(r)]
        <5> HIDE DEF G
        <5> QED BY <3>2, <3>4 DEF IsSum
      <4>5. g[r] = w[Elem(r)] + G(Rest(r))[Rest(r)]
        BY <3>1, <3>4
      <4> HIDE DEF G, g
      <4> QED BY <4>3, <4>4, <4>5
    <3> QED BY <3>3, <3>4
  <2>5. IsSum(g, w, m)
    <3> SUFFICES g = [s \in SUBSET m |-> IF s = {} THEN 0 ELSE w[Elem(s)] + g[Rest(s)]]
      BY DEF IsSum
    <3>1. ASSUME NEW s \in SUBSET m
          PROVE  g[s] = IF s = {} THEN 0 ELSE w[Elem(s)] + g[Rest(s)]
      <4>1. g[s] = IF s = {} THEN 0 ELSE w[Elem(s)] + G(Rest(s))[Rest(s)]
        OBVIOUS
      <4> HIDE DEF g, G
      <4> QED BY <2>4, <4>1
    <3>2. g = [s \in SUBSET m |-> g[s]]
      OBVIOUS
    <3> HIDE DEF g, G
    <3> QED BY <3>1, <3>2
  <2> QED BY <2>2, <2>5
<1> QED BY <1>1, <1>2

\* The sum of the library is one.
LEMMA SumIs ==
    ASSUME NEW S, IsFiniteSet(S), NEW w
    PROVE  \E g : IsSum(g, w, S) /\ SumOver(w, S) = g[S]
<1>1. SumOver(w, S) = (CHOOSE g : IsSum(g, w, S))[S]
  BY DEF SumOver, MapThenSumSet, MapThenFoldSet, IsSum, Elem, Rest
<1> QED BY <1>1, SumExists

\* A sum is what is chosen first and the sum of the rest.
LEMMA SumUnfold ==
    ASSUME NEW S, IsFiniteSet(S), NEW w
    PROVE  SumOver(w, S) = IF S = {} THEN 0 ELSE w[Elem(S)] + SumOver(w, Rest(S))
<1>1. PICK g : IsSum(g, w, S) /\ SumOver(w, S) = g[S]
  BY SumIs
<1>2. g[S] = IF S = {} THEN 0 ELSE w[Elem(S)] + g[Rest(S)]
  BY <1>1 DEF IsSum
<1>3. CASE S # {}
  <2>1. Rest(S) \in SUBSET S /\ IsFiniteSet(Rest(S))
    BY <1>3, RestSmaller, FS_Subset
  <2>2. PICK h : IsSum(h, w, Rest(S)) /\ SumOver(w, Rest(S)) = h[Rest(S)]
    BY <2>1, SumIs
  <2>3. g[Rest(S)] = h[Rest(S)]
    BY <1>1, <2>1, <2>2, SumUnique
  <2> QED BY <1>1, <1>2, <1>3, <2>2, <2>3
<1> QED BY <1>1, <1>2, <1>3

\* Induction over the subsets of a finite set.
LEMMA FiniteInduction ==
    ASSUME NEW S, IsFiniteSet(S), NEW P, {} \in P,
           \A T \in SUBSET S, x \in S : T \in P /\ x \notin T => T \union {x} \in P
    PROVE  S \in P
<1> DEFINE C == {T \in SUBSET S : T \notin P}
<1> SUFFICES ASSUME S \notin P PROVE FALSE
  OBVIOUS
<1>1. PICK m \in C : \A y \in C : ~(y \subseteq m /\ y # m)
  <2>1. C \subseteq SUBSET S /\ C # {}
    OBVIOUS
  <2> HIDE DEF C
  <2> QED BY <2>1, Minimal
<1>2. m \in SUBSET S /\ m \notin P /\ m # {}
  OBVIOUS
<1>3. Elem(m) \in m /\ Rest(m) \subseteq m /\ Rest(m) # m
  BY <1>2, RestSmaller
<1>4. Rest(m) \in P
  BY <1>1, <1>2, <1>3
<1>5. Rest(m) \in SUBSET S /\ Elem(m) \in S /\ Elem(m) \notin Rest(m)
  BY <1>2, <1>3 DEF Rest
<1>6. Rest(m) \union {Elem(m)} = m
  BY <1>3 DEF Rest
<1> QED BY <1>2, <1>4, <1>5, <1>6

\* Nothing sums up to zero.
LEMMA SumEmpty == ASSUME NEW w PROVE SumOver(w, {}) = 0
BY SumUnfold, FS_EmptySet

\* A sum of integers is one.
LEMMA SumInt ==
    ASSUME NEW S, IsFiniteSet(S), NEW w, \A s \in S : w[s] \in Int
    PROVE  SumOver(w, S) \in Int
<1> DEFINE C == {T \in SUBSET S : SumOver(w, T) \notin Int}
<1> SUFFICES ASSUME C # {} PROVE FALSE
  OBVIOUS
<1>1. PICK m \in C : \A y \in C : ~(y \subseteq m /\ y # m)
  <2>1. C \subseteq SUBSET S /\ C # {}
    OBVIOUS
  <2> HIDE DEF C
  <2> QED BY <2>1, Minimal
<1>2. m \in SUBSET S /\ IsFiniteSet(m) /\ SumOver(w, m) \notin Int
  BY FS_Subset
<1>3. m # {}
  BY <1>2, SumEmpty
<1>4. Rest(m) \in SUBSET S /\ SumOver(w, Rest(m)) \in Int /\ Elem(m) \in S
  BY <1>1, <1>2, <1>3, RestSmaller
<1> QED BY <1>2, <1>3, <1>4, SumUnfold

\* Any element may be taken out of a sum, not just the chosen one.
LEMMA SumRemove ==
    ASSUME NEW S, IsFiniteSet(S), NEW w, \A s \in S : w[s] \in Int, NEW x \in S
    PROVE  SumOver(w, S) = w[x] + SumOver(w, S \ {x})
<1> DEFINE C == {T \in SUBSET S : \E y \in T : SumOver(w, T) # w[y] + SumOver(w, T \ {y})}
<1> SUFFICES ASSUME C # {} PROVE FALSE
  OBVIOUS
<1>1. PICK m \in C : \A y \in C : ~(y \subseteq m /\ y # m)
  <2>1. C \subseteq SUBSET S /\ C # {}
    OBVIOUS
  <2> HIDE DEF C
  <2> QED BY <2>1, Minimal
<1>2. m \in SUBSET S /\ IsFiniteSet(m)
  BY FS_Subset
<1>3. PICK y \in m : SumOver(w, m) # w[y] + SumOver(w, m \ {y})
  OBVIOUS
<1> DEFINE e == Elem(m)
<1>4. e \in m /\ SumOver(w, m) = w[e] + SumOver(w, m \ {e})
  BY <1>2, <1>3, SumUnfold, RestSmaller DEF Rest
<1>5. y # e
  BY <1>3, <1>4
<1>6. SumOver(w, m \ {e}) = w[y] + SumOver(w, (m \ {e}) \ {y})
  <2>1. m \ {e} \in SUBSET S /\ m \ {e} \notin C /\ y \in m \ {e}
    BY <1>1, <1>2, <1>4, <1>5
  <2> QED BY <2>1
<1>7. SumOver(w, m \ {y}) = w[e] + SumOver(w, (m \ {y}) \ {e})
  <2>1. m \ {y} \in SUBSET S /\ m \ {y} \notin C /\ e \in m \ {y}
    BY <1>1, <1>2, <1>4, <1>5
  <2> QED BY <2>1
<1>8. (m \ {e}) \ {y} = (m \ {y}) \ {e} /\ (m \ {e}) \ {y} \in SUBSET S
  BY <1>2
<1>9. SumOver(w, (m \ {e}) \ {y}) \in Int /\ w[e] \in Int /\ w[y] \in Int
  BY <1>2, <1>4, <1>8, SumInt, FS_Subset
<1>10. SumOver(w, (m \ {e}) \ {y}) = SumOver(w, (m \ {y}) \ {e})
  BY <1>8
<1>11. SumOver(w, m) = w[e] + (w[y] + SumOver(w, (m \ {e}) \ {y}))
  BY <1>4, <1>6
<1>12. w[y] + SumOver(w, m \ {y}) = w[y] + (w[e] + SumOver(w, (m \ {e}) \ {y}))
  BY <1>7, <1>10
<1> HIDE DEF e
<1> DEFINE r == SumOver(w, (m \ {e}) \ {y})
<1>13. w[e] + (w[y] + r) = w[y] + (w[e] + r)
  <2>1. r \in Int
    BY <1>9
  <2> HIDE DEF r
  <2> QED BY <1>9, <2>1
<1> QED BY <1>3, <1>11, <1>12, <1>13

\* One element more.
LEMMA SumAdd ==
    ASSUME NEW S, IsFiniteSet(S), NEW w, NEW x, x \notin S, \A s \in S \union {x} : w[s] \in Int
    PROVE  SumOver(w, S \union {x}) = w[x] + SumOver(w, S)
<1>1. IsFiniteSet(S \union {x}) /\ (S \union {x}) \ {x} = S
  BY FS_AddElement
<1> QED BY <1>1, SumRemove

\* A sum only depends on the values for the elements.
LEMMA SumEqual ==
    ASSUME NEW S, IsFiniteSet(S), NEW v, NEW w, \A s \in S : v[s] = w[s]
    PROVE  SumOver(v, S) = SumOver(w, S)
<1> DEFINE C == {T \in SUBSET S : SumOver(v, T) # SumOver(w, T)}
<1> SUFFICES ASSUME C # {} PROVE FALSE
  OBVIOUS
<1>1. PICK m \in C : \A y \in C : ~(y \subseteq m /\ y # m)
  <2>1. C \subseteq SUBSET S /\ C # {}
    OBVIOUS
  <2> HIDE DEF C
  <2> QED BY <2>1, Minimal
<1>2. m \in SUBSET S /\ IsFiniteSet(m) /\ SumOver(v, m) # SumOver(w, m)
  BY FS_Subset
<1>3. m # {}
  BY <1>2, SumEmpty
<1>4. Rest(m) \in SUBSET S /\ Rest(m) \notin C /\ Elem(m) \in S
  BY <1>1, <1>2, <1>3, RestSmaller
<1> QED BY <1>2, <1>3, <1>4, SumUnfold

\* Elements without value do not count.
LEMMA SumSupport ==
    ASSUME NEW S, IsFiniteSet(S), NEW w, NEW T \in SUBSET S,
           \A s \in S : w[s] \in Int, \A s \in S \ T : w[s] = 0
    PROVE  SumOver(w, S) = SumOver(w, T)
<1> DEFINE P == {U \in SUBSET S : SumOver(w, U) = SumOver(w, U \intersect T)}
<1>1. {} \in P
  OBVIOUS
<1>2. ASSUME NEW U \in SUBSET S, NEW x \in S, U \in P, x \notin U PROVE U \union {x} \in P
  <2>1. IsFiniteSet(U) /\ IsFiniteSet(U \intersect T)
    BY FS_Subset
  <2>2. SumOver(w, U \union {x}) = w[x] + SumOver(w, U) /\ SumOver(w, U) \in Int
    BY <1>2, <2>1, SumAdd, SumInt
  <2>3. CASE x \in T
    <3>1. (U \union {x}) \intersect T = (U \intersect T) \union {x}
      BY <2>3
    <3>2. SumOver(w, (U \intersect T) \union {x}) = w[x] + SumOver(w, U \intersect T)
      BY <1>2, <2>1, SumAdd
    <3> QED BY <1>2, <2>2, <3>1, <3>2
  <2>4. CASE x \notin T
    <3>1. (U \union {x}) \intersect T = U \intersect T /\ w[x] = 0
      BY <2>4
    <3>2. SumOver(w, U \union {x}) = SumOver(w, U)
      BY <2>2, <3>1
    <3>3. SumOver(w, U) = SumOver(w, (U \union {x}) \intersect T)
      BY <1>2, <3>1
    <3> QED BY <3>2, <3>3
  <2> QED BY <2>3, <2>4
<1>3. S \in P
  <2> HIDE DEF P
  <2> QED BY <1>1, <1>2, FiniteInduction
<1>4. S \intersect T = T
  OBVIOUS
<1> QED BY <1>3, <1>4

\* Smaller values have the smaller sum.
LEMMA SumLeq ==
    ASSUME NEW S, IsFiniteSet(S), NEW v, NEW w,
           \A s \in S : v[s] \in Int /\ w[s] \in Int /\ v[s] <= w[s]
    PROVE  SumOver(v, S) <= SumOver(w, S)
<1> DEFINE P == {U \in SUBSET S : SumOver(v, U) <= SumOver(w, U)}
<1>1. {} \in P
  BY SumEmpty
<1>2. ASSUME NEW U \in SUBSET S, NEW x \in S, U \in P, x \notin U PROVE U \union {x} \in P
  <2>1. IsFiniteSet(U)
    BY FS_Subset
  <2>2. SumOver(v, U \union {x}) = v[x] + SumOver(v, U) /\ SumOver(v, U) \in Int
    BY <1>2, <2>1, SumAdd, SumInt
  <2>3. SumOver(w, U \union {x}) = w[x] + SumOver(w, U) /\ SumOver(w, U) \in Int
    BY <1>2, <2>1, SumAdd, SumInt
  <2> QED BY <1>2, <2>2, <2>3
<1>3. S \in P
  <2> HIDE DEF P
  <2> QED BY <1>1, <1>2, FiniteInduction
<1> QED BY <1>3

\* The sum of sums.
LEMMA SumPlus ==
    ASSUME NEW S, IsFiniteSet(S), NEW u, NEW v, NEW w,
           \A s \in S : v[s] \in Int /\ w[s] \in Int /\ u[s] = v[s] + w[s]
    PROVE  SumOver(u, S) = SumOver(v, S) + SumOver(w, S)
<1> DEFINE P == {U \in SUBSET S : SumOver(u, U) = SumOver(v, U) + SumOver(w, U)}
<1>1. {} \in P
  BY SumEmpty
<1>2. ASSUME NEW U \in SUBSET S, NEW x \in S, U \in P, x \notin U PROVE U \union {x} \in P
  <2>1. IsFiniteSet(U)
    BY FS_Subset
  <2>2. SumOver(v, U \union {x}) = v[x] + SumOver(v, U) /\ SumOver(v, U) \in Int
    BY <1>2, <2>1, SumAdd, SumInt
  <2>3. SumOver(w, U \union {x}) = w[x] + SumOver(w, U) /\ SumOver(w, U) \in Int
    BY <1>2, <2>1, SumAdd, SumInt
  <2>4. SumOver(u, U \union {x}) = u[x] + SumOver(u, U)
    <3>1. \A s \in S : u[s] \in Int
      OBVIOUS
    <3> QED BY <1>2, <2>1, <3>1, SumAdd
  <2>5. SumOver(u, U) = SumOver(v, U) + SumOver(w, U) /\ u[x] = v[x] + w[x]
    BY <1>2
  <2>6. \A a, b, c, d \in Int : (a + b) + (c + d) = (a + c) + (b + d)
    OBVIOUS
  <2>7. (v[x] + w[x]) + (SumOver(v, U) + SumOver(w, U))
          = (v[x] + SumOver(v, U)) + (w[x] + SumOver(w, U))
    BY <2>2, <2>3, <2>6
  <2>8. U \union {x} \in SUBSET S
    BY <1>2
  <2> QED BY <2>2, <2>3, <2>4, <2>5, <2>7, <2>8
<1>3. S \in P
  <2> HIDE DEF P
  <2> QED BY <1>1, <1>2, FiniteInduction
<1> QED BY <1>3

\* The sum of multiples.
LEMMA SumTimes ==
    ASSUME NEW S, IsFiniteSet(S), NEW v, NEW w, NEW k \in Int,
           \A s \in S : w[s] \in Int /\ v[s] = k * w[s]
    PROVE  SumOver(v, S) = k * SumOver(w, S)
<1> DEFINE P == {U \in SUBSET S : SumOver(v, U) = k * SumOver(w, U)}
<1>1. {} \in P
  BY SumEmpty
<1>2. ASSUME NEW U \in SUBSET S, NEW x \in S, U \in P, x \notin U PROVE U \union {x} \in P
  <2>1. IsFiniteSet(U)
    BY FS_Subset
  <2>2. SumOver(w, U \union {x}) = w[x] + SumOver(w, U) /\ SumOver(w, U) \in Int
    BY <1>2, <2>1, SumAdd, SumInt
  <2>3. SumOver(v, U \union {x}) = v[x] + SumOver(v, U)
    <3>1. \A s \in S : v[s] \in Int
      OBVIOUS
    <3> QED BY <1>2, <2>1, <3>1, SumAdd
  <2>4. \A a, b \in Int : k * (a + b) = k * a + k * b
    OBVIOUS
  <2>5. k * (w[x] + SumOver(w, U)) = k * w[x] + k * SumOver(w, U)
    BY <2>2, <2>4
  <2>6. SumOver(v, U) = k * SumOver(w, U) /\ v[x] = k * w[x]
    BY <1>2
  <2>7. U \union {x} \in SUBSET S
    BY <1>2
  <2> QED BY <2>2, <2>3, <2>5, <2>6, <2>7
<1>3. S \in P
  <2> HIDE DEF P
  <2> QED BY <1>1, <1>2, FiniteInduction
<1> QED BY <1>3

\* A sum of natural numbers is one, and no less than any of them.
LEMMA SumNat ==
    ASSUME NEW S, IsFiniteSet(S), NEW w, \A s \in S : w[s] \in Nat
    PROVE  /\ SumOver(w, S) \in Nat
           /\ \A s \in S : w[s] <= SumOver(w, S)
<1>1. ASSUME NEW T \in SUBSET S PROVE SumOver(w, T) \in Int /\ SumOver(w, T) >= 0
  <2> DEFINE z == [s \in T |-> 0]
  <2>1. IsFiniteSet(T) /\ \A s \in T : w[s] \in Int /\ z[s] \in Int /\ z[s] <= w[s]
    BY FS_Subset
  <2>2. SumOver(z, T) <= SumOver(w, T) /\ SumOver(w, T) \in Int
    <3> HIDE DEF z
    <3> QED BY <2>1, SumLeq, SumInt
  <2>3. SumOver(z, T) = 0
    <3>1. \A s \in T : z[s] = 0 /\ z[s] \in Int
      OBVIOUS
    <3> HIDE DEF z
    <3>2. SumOver(z, T) = SumOver(z, {})
      BY <2>1, <3>1, SumSupport
    <3> QED BY <3>2, SumEmpty
  <2> QED BY <2>2, <2>3
<1>2. ASSUME NEW s \in S PROVE w[s] <= SumOver(w, S)
  <2>1. SumOver(w, S) = w[s] + SumOver(w, S \ {s})
    BY SumRemove
  <2>2. SumOver(w, S \ {s}) \in Int /\ SumOver(w, S \ {s}) >= 0
    BY <1>1
  <2> QED BY <2>1, <2>2
<1> QED BY <1>1, <1>2

\* A sum of zeros and ones is the number of ones.
LEMMA SumCount ==
    ASSUME NEW S, IsFiniteSet(S), NEW w, NEW T \in SUBSET S,
           \A s \in S : w[s] = IF s \in T THEN 1 ELSE 0
    PROVE  SumOver(w, S) = Cardinality(T)
<1>1. IsFiniteSet(T) /\ \A s \in S : w[s] \in Int
  BY FS_Subset
<1>2. SumOver(w, S) = SumOver(w, T)
  BY <1>1, SumSupport
<1> DEFINE P == {U \in SUBSET T : SumOver(w, U) = Cardinality(U)}
<1>3. {} \in P
  BY SumEmpty, FS_EmptySet
<1>4. ASSUME NEW U \in SUBSET T, NEW x \in T, U \in P, x \notin U PROVE U \union {x} \in P
  <2>1. IsFiniteSet(U)
    BY <1>1, FS_Subset
  <2>2. SumOver(w, U \union {x}) = w[x] + SumOver(w, U) /\ w[x] = 1
    BY <1>1, <1>4, <2>1, SumAdd
  <2>3. Cardinality(U \union {x}) = Cardinality(U) + 1 /\ Cardinality(U) \in Nat
    BY <1>4, <2>1, FS_AddElement, FS_CardinalityType
  <2> QED BY <1>4, <2>2, <2>3
<1>5. T \in P
  <2> HIDE DEF P
  <2> QED BY <1>1, <1>3, <1>4, FiniteInduction
<1> QED BY <1>2, <1>5

-----------------------------------------------------------------------------
(***************************************************************************)
(* Ranks.                                                                  *)
(***************************************************************************)
\* The elements of S that come before s in the order R.
Earlier(R, S, s) == {t \in S : <<t, s>> \in R}

IsStrictOrder(R, S) ==
    /\ \A s \in S : <<s, s>> \notin R
    /\ \A s, t \in S : s # t => <<s, t>> \in R \/ <<t, s>> \in R
    /\ \A s, t, u \in S : <<s, t>> \in R /\ <<t, u>> \in R => <<s, u>> \in R

\* There are m numbers below m.
LEMMA NumbersBelow ==
    ASSUME NEW m \in Nat
    PROVE  IsFiniteSet(0..(m-1)) /\ Cardinality(0..(m-1)) = m
<1>1. 0 \in Int /\ m - 1 \in Int
  OBVIOUS
<1>2. /\ IsFiniteSet(0..(m-1))
      /\ Cardinality(0..(m-1)) = IF 0 > m - 1 THEN 0 ELSE (m - 1) - 0 + 1
  BY <1>1, FS_Interval
<1> QED BY <1>2

\* Of a finite set in a strict order, as many as one likes come first.
LEMMA FirstOnes ==
    ASSUME NEW S, IsFiniteSet(S), NEW R, IsStrictOrder(R, S), NEW k \in 0..Cardinality(S)
    PROVE  Cardinality({s \in S : Cardinality(Earlier(R, S, s)) < k}) = k
<1> DEFINE n == Cardinality(S)
           rank(s) == Cardinality(Earlier(R, S, s))
           f == [s \in S |-> rank(s)]
<1>1. n \in Nat
  BY FS_CardinalityType
<1>2. ASSUME NEW s \in S PROVE IsFiniteSet(Earlier(R, S, s)) /\ rank(s) \in 0..(n-1)
  <2>1. Earlier(R, S, s) \in SUBSET S /\ s \notin Earlier(R, S, s)
    BY DEF Earlier, IsStrictOrder
  <2>2. IsFiniteSet(Earlier(R, S, s)) /\ rank(s) \in Nat
    BY <2>1, FS_Subset, FS_CardinalityType
  <2>3. rank(s) <= n /\ rank(s) # n
    BY <2>1, FS_Subset
  <2> QED BY <1>1, <2>2, <2>3
<1>3. ASSUME NEW s \in S, NEW t \in S, <<s, t>> \in R PROVE rank(s) < rank(t)
  <2>1. Earlier(R, S, s) \subseteq Earlier(R, S, t) /\ s \in Earlier(R, S, t)
        /\ s \notin Earlier(R, S, s)
    BY <1>3 DEF Earlier, IsStrictOrder
  <2>2. rank(s) <= rank(t) /\ rank(s) # rank(t)
    BY <1>2, <2>1, FS_Subset
  <2> QED BY <1>2, <2>2
<1>4. f \in Injection(S, 0..(n-1))
  <2>1. f \in [S -> 0..(n-1)]
    BY <1>2
  <2>2. ASSUME NEW s \in S, NEW t \in S, f[s] = f[t] PROVE s = t
    <3> SUFFICES ASSUME s # t PROVE FALSE
      OBVIOUS
    <3>1. rank(s) = rank(t) /\ rank(s) \in Int /\ rank(t) \in Int
      BY <1>2, <2>2
    <3>2. <<s, t>> \in R \/ <<t, s>> \in R
      BY DEF IsStrictOrder
    <3> HIDE DEF rank
    <3> QED BY <1>3, <3>1, <3>2
  <2> HIDE DEF f
  <2> QED BY <2>1, <2>2 DEF Injection, IsInjective
<1>5. f \in Surjection(S, 0..(n-1))
  <2>1. IsFiniteSet(0..(n-1)) /\ Cardinality(0..(n-1)) = n
    BY <1>1, NumbersBelow
  <2> HIDE DEF f
  <2> QED BY <1>4, <2>1, FS_Injection
<1> DEFINE T == {s \in S : rank(s) < k}
           g == [s \in T |-> rank(s)]
<1>6. g \in Bijection(T, 0..(k-1))
  <2>1. g \in [T -> 0..(k-1)]
    <3>1. ASSUME NEW s \in T PROVE rank(s) \in 0..(k-1)
      BY <1>1, <1>2
    <3> QED BY <3>1
  <2>2. \A s, t \in T : g[s] = g[t] => s = t
    BY <1>4 DEF Injection, IsInjective
  <2>3. ASSUME NEW i \in 0..(k-1) PROVE \E s \in T : g[s] = i
    <3>1. i \in 0..(n-1) /\ i < k
      BY <1>1
    <3>2. PICK s \in S : f[s] = i
      BY <1>5, <3>1 DEF Surjection
    <3>3. rank(s) = i
      BY <3>2
    <3> QED BY <3>1, <3>3
  <2> HIDE DEF g, T
  <2> QED BY <2>1, <2>2, <2>3 DEF Bijection, Injection, Surjection, IsInjective
<1>7. IsFiniteSet(T)
  BY FS_Subset
<1>8. ExistsBijection(T, 0..(k-1))
  <2> HIDE DEF g, T
  <2> QED BY <1>6 DEF ExistsBijection
<1>9. Cardinality(0..(k-1)) = k
  BY <1>1, NumbersBelow
<1> QED
  <2> HIDE DEF T
  <2>1. Cardinality(T) = k
    BY <1>7, <1>8, <1>9, FS_Bijection
  <2> QED BY <2>1 DEF T

-----------------------------------------------------------------------------
(***************************************************************************)
(* Division: the whole part and the rest.                                  *)
(***************************************************************************)
LEMMA DivMod ==
    ASSUME NEW n \in Nat, NEW d \in Nat \ {0}
    PROVE  /\ n \div d \in Nat /\ n % d \in 0..(d-1)
           /\ n = d * (n \div d) + (n % d)
<1>1. n % d \in 0..(d-1)
  OBVIOUS
<1>2. n \div d \in Int /\ n \div d >= 0
  OBVIOUS
<1>3. n = d * (n \div d) + (n % d)
  OBVIOUS
<1> QED BY <1>1, <1>2, <1>3

\* Multiplication by a positive number keeps the order.
LEMMA TimesOrder ==
    ASSUME NEW a \in Int, NEW b \in Int, NEW d \in Nat \ {0}
    PROVE  (d * a <= d * b <=> a <= b) /\ (d * a = d * b <=> a = b)
<1>1. d * a <= d * b => a <= b
  OBVIOUS
<1>2. a <= b => d * a <= d * b
  OBVIOUS
<1>3. d * b <= d * a => b <= a
  OBVIOUS
<1>4. d * a \in Int /\ d * b \in Int
  OBVIOUS
<1> QED BY <1>1, <1>2, <1>3, <1>4

-----------------------------------------------------------------------------
(***************************************************************************)
(* Rounding.                                                               *)
(***************************************************************************)
\* Weights of finitely many stacks, known by the ranks of their names.
IsWeights(w) ==
    /\ IsFiniteSet(DOMAIN w) /\ DOMAIN w \subseteq Nat
    /\ \A s \in DOMAIN w : w[s] \in Nat

\* Weights that are not all zero have a positive sum.
LEMMA SumPositive ==
    ASSUME NEW w, IsWeights(w), ~AllZero(w)
    PROVE  SumOf(w) \in Nat \ {0} /\ DOMAIN w # {}
<1>1. PICK s \in DOMAIN w : w[s] # 0
  BY DEF AllZero
<1>2. SumOf(w) = SumOver(w, DOMAIN w)
  BY DEF SumOf, SumOver
<1>3. SumOver(w, DOMAIN w) \in Nat /\ w[s] <= SumOver(w, DOMAIN w) /\ w[s] \in Nat
  BY SumNat DEF IsWeights
<1> QED BY <1>1, <1>2, <1>3

\* A weight of the whole: its integer part and the fraction over the sum.
LEMMA Parts ==
    ASSUME NEW w, IsWeights(w), ~AllZero(w), NEW s \in DOMAIN w
    PROVE  /\ Floor(w, s) \in Nat /\ Fraction(w, s) \in 0..(SumOf(w) - 1)
           /\ w[s] * Total = SumOf(w) * Floor(w, s) + Fraction(w, s)
           /\ w[s] = 0 => Floor(w, s) = 0 /\ Fraction(w, s) = 0
<1> DEFINE n == w[s] * Total
           d == SumOf(w)
<1>1. d \in Nat \ {0}
  BY SumPositive
<1>2. n \in Nat
  BY TotalAssumption DEF IsWeights
<1>3. Floor(w, s) = n \div d /\ Fraction(w, s) = n % d
  BY DEF Floor, Fraction
<1>4. n \div d \in Nat /\ n % d \in 0..(d-1) /\ n = d * (n \div d) + (n % d)
  <2> HIDE DEF n, d
  <2> QED BY <1>1, <1>2, DivMod
<1>5. ASSUME w[s] = 0 PROVE Floor(w, s) = 0 /\ Fraction(w, s) = 0
  <2>1. n = 0
    BY <1>5, TotalAssumption
  <2> DEFINE q == n \div d
             r == n % d
  <2>2. q \in Nat /\ r \in Nat /\ 0 = d * q + r
    BY <1>1, <1>4, <2>1
  <2> HIDE DEF q, r, n, d
  <2>3. d * q >= 0
    BY <1>1, <2>2
  <2>4. d * q \in Int /\ d * 0 = 0
    BY <1>1, <2>2
  <2>5. d * q = d * 0 /\ r = 0
    BY <2>2, <2>3, <2>4
  <2>6. q = 0
    BY <1>1, <2>2, <2>5, TimesOrder
  <2> QED BY <1>3, <2>5, <2>6 DEF q, r
<1> QED BY <1>3, <1>4, <1>5

Weighted(w) == {s \in DOMAIN w : Fraction(w, s) > 0}
Served(w, s) == {t \in DOMAIN w : ServedBefore(w, t, s)}
ServedPairs(w) == {p \in (DOMAIN w) \X (DOMAIN w) : ServedBefore(w, p[1], p[2])}
RoundedUp(w) == {s \in DOMAIN w : Cardinality(Served(w, s)) < Leftover(w)}

\* What is left over is the sum of the fractions, so there are no more left than stacks
\* with a fraction.
LEMMA LeftoverBounds ==
    ASSUME NEW w, IsWeights(w), ~AllZero(w)
    PROVE  /\ Leftover(w) \in Nat /\ IsFiniteSet(Weighted(w))
           /\ Leftover(w) <= Cardinality(Weighted(w))
<1> DEFINE S == DOMAIN w
           d == SumOf(w)
           floors == [s \in S |-> Floor(w, s)]
           fractions == [s \in S |-> Fraction(w, s)]
           wholes == [s \in S |-> d * Floor(w, s)]
           shares == [s \in S |-> Total * w[s]]
           ones == [s \in S |-> IF s \in Weighted(w) THEN 1 ELSE 0]
           bounds == [s \in S |-> d * ones[s]]
           F == SumOver(floors, S)
           R == SumOver(fractions, S)
           m == Cardinality(Weighted(w))
<1>1. IsFiniteSet(S) /\ d \in Nat \ {0} /\ d = SumOver(w, S) /\ Total \in Nat \ {0}
  BY SumPositive, TotalAssumption DEF IsWeights, SumOf, SumOver
<1>2. ASSUME NEW s \in S
      PROVE  /\ w[s] \in Int /\ Floor(w, s) \in Nat /\ Fraction(w, s) \in 0..(d-1)
             /\ Total * w[s] = d * Floor(w, s) + Fraction(w, s)
  <2>1. w[s] \in Nat /\ w[s] * Total = Total * w[s]
    BY <1>1 DEF IsWeights
  <2> QED BY <2>1, Parts
<1>3. F \in Int /\ R \in Int /\ R >= 0
  <2>1. \A s \in S : floors[s] \in Int /\ fractions[s] \in Nat
    <3>1. ASSUME NEW s \in S PROVE floors[s] \in Int /\ fractions[s] \in Nat
      <4>1. floors[s] = Floor(w, s) /\ fractions[s] = Fraction(w, s)
        OBVIOUS
      <4> QED BY <1>1, <1>2, <4>1
    <3> QED BY <3>1
  <2> HIDE DEF floors, fractions
  <2> QED BY <1>1, <2>1, SumInt, SumNat
<1>4. SumOver(shares, S) = Total * d
  <2>1. \A s \in S : w[s] \in Int /\ shares[s] = Total * w[s]
    BY <1>2
  <2>2. Total \in Int
    BY <1>1
  <2>3. SumOver(shares, S) = Total * SumOver(w, S)
    <3> HIDE DEF shares
    <3> QED BY <1>1, <2>1, <2>2, SumTimes
  <2> QED BY <1>1, <2>3
<1>5. SumOver(wholes, S) = d * F
  <2>1. \A s \in S : floors[s] \in Int /\ wholes[s] = d * floors[s]
    BY <1>2
  <2>2. d \in Int
    BY <1>1
  <2> HIDE DEF wholes, floors, d
  <2> QED BY <1>1, <2>1, <2>2, SumTimes
<1>6. SumOver(shares, S) = SumOver(wholes, S) + R
  <2>1. ASSUME NEW s \in S
        PROVE  /\ wholes[s] \in Int /\ fractions[s] \in Int
               /\ shares[s] = wholes[s] + fractions[s]
    <3>1. wholes[s] = d * Floor(w, s) /\ fractions[s] = Fraction(w, s)
          /\ shares[s] = Total * w[s]
      OBVIOUS
    <3>2. d * Floor(w, s) \in Int /\ Fraction(w, s) \in Int
      BY <1>1, <1>2
    <3> QED BY <1>2, <3>1, <3>2
  <2> HIDE DEF wholes, fractions, shares
  <2> QED BY <1>1, <2>1, SumPlus
<1>7. Leftover(w) = Total - F
  BY DEF Leftover, SumOf, SumOver
<1>8. R = d * Leftover(w) /\ Leftover(w) \in Int
  <2>1. d * (Total - F) = d * Total - d * F
    BY <1>1, <1>3
  <2>2. Total * d = d * F + R /\ Total * d = d * Total
    BY <1>1, <1>3, <1>4, <1>5, <1>6
  <2>3. d * F \in Int /\ d * Total \in Int
    BY <1>1, <1>3
  <2> HIDE DEF d, F, R
  <2> QED BY <1>1, <1>3, <1>7, <2>1, <2>2, <2>3
<1>9. Weighted(w) \in SUBSET S /\ IsFiniteSet(Weighted(w)) /\ m \in Nat
  <2>1. Weighted(w) \in SUBSET S
    BY DEF Weighted
  <2> QED BY <1>1, <2>1, FS_Subset, FS_CardinalityType
<1>10. SumOver(bounds, S) = d * m
  <2>1. SumOver(ones, S) = m
    <3>1. \A s \in S : ones[s] = IF s \in Weighted(w) THEN 1 ELSE 0
      OBVIOUS
    <3> HIDE DEF ones
    <3> QED BY <1>1, <1>9, <3>1, SumCount
  <2>2. \A s \in S : ones[s] \in Int /\ bounds[s] = d * ones[s]
    OBVIOUS
  <2>3. d \in Int
    BY <1>1
  <2> HIDE DEF bounds, ones, d
  <2> QED BY <1>1, <2>1, <2>2, <2>3, SumTimes
<1>11. R <= d * m
  <2>1. ASSUME NEW s \in S
        PROVE  fractions[s] \in Int /\ bounds[s] \in Int /\ fractions[s] <= bounds[s]
    <3>1. fractions[s] = Fraction(w, s) /\ Fraction(w, s) \in 0..(d-1)
      BY <1>2
    <3>2. CASE s \in Weighted(w)
      <4>1. bounds[s] = d * 1 /\ d * 1 = d
        BY <1>1, <3>2
      <4> QED BY <1>1, <3>1, <4>1
    <3>3. CASE s \notin Weighted(w)
      <4>1. bounds[s] = d * 0 /\ d * 0 = 0
        BY <1>1, <3>3
      <4>2. ~(Fraction(w, s) > 0)
        BY <3>3 DEF Weighted
      <4> QED BY <1>1, <3>1, <4>1, <4>2
    <3> QED BY <3>2, <3>3
  <2>2. R <= SumOver(bounds, S)
    <3> HIDE DEF bounds, fractions
    <3> QED BY <1>1, <2>1, SumLeq
  <2> QED BY <1>10, <2>2
<1>12. Leftover(w) <= m
  <2> HIDE DEF d, m, R
  <2> QED BY <1>1, <1>8, <1>9, <1>11, TimesOrder
<1>13. Leftover(w) >= 0
  <2>1. d * 0 = 0 /\ 0 \in Int
    BY <1>1
  <2>2. d * 0 <= d * Leftover(w)
    BY <1>3, <1>8, <2>1
  <2> HIDE DEF d
  <2> QED BY <1>1, <1>8, <2>1, <2>2, TimesOrder
<1> QED BY <1>8, <1>9, <1>12, <1>13

\* The order of roundWeights is strict and total: there is one outcome.
LEMMA ServedOrder ==
    ASSUME NEW w, IsWeights(w), ~AllZero(w)
    PROVE  /\ IsStrictOrder(ServedPairs(w), DOMAIN w)
           /\ \A s \in DOMAIN w : Served(w, s) = Earlier(ServedPairs(w), DOMAIN w, s)
<1> DEFINE S == DOMAIN w
           R == ServedPairs(w)
<1>1. \A s, t \in S : <<s, t>> \in R <=> ServedBefore(w, s, t)
  BY DEF ServedPairs
<1>2. \A s \in S : s \in Int /\ Floor(w, s) \in Int /\ Fraction(w, s) \in Int
  <2>1. \A s \in S : s \in Int /\ SumOf(w) \in Int
    BY SumPositive DEF IsWeights
  <2> QED BY <2>1, Parts
<1> HIDE DEF R
<1>3. \A s \in S : <<s, s>> \notin R
  BY <1>1, <1>2 DEF ServedBefore
<1>4. \A s, t \in S : s # t => <<s, t>> \in R \/ <<t, s>> \in R
  <2>1. \A s, t \in S : s # t => ServedBefore(w, s, t) \/ ServedBefore(w, t, s)
    BY <1>2 DEF ServedBefore
  <2> QED BY <1>1, <2>1
<1>5. \A s, t, u \in S : <<s, t>> \in R /\ <<t, u>> \in R => <<s, u>> \in R
  <2>1. \A s, t, u \in S :
          ServedBefore(w, s, t) /\ ServedBefore(w, t, u) => ServedBefore(w, s, u)
    BY <1>2 DEF ServedBefore
  <2> QED BY <1>1, <2>1
<1>6. \A s \in S : Served(w, s) = Earlier(R, S, s)
  BY <1>1 DEF Served, Earlier
<1> QED BY <1>3, <1>4, <1>5, <1>6 DEF R, IsStrictOrder

\* As many stacks get one more as is left over, and all of them have a fraction.
LEMMA RoundedUpOnes ==
    ASSUME NEW w, IsWeights(w), ~AllZero(w)
    PROVE  /\ RoundedUp(w) \subseteq Weighted(w)
           /\ Cardinality(RoundedUp(w)) = Leftover(w)
<1> DEFINE S == DOMAIN w
           R == ServedPairs(w)
           k == Leftover(w)
<1>1. IsFiniteSet(S) /\ Weighted(w) \in SUBSET S
  BY DEF IsWeights, Weighted
<1>2. k \in 0..Cardinality(S)
  <2>1. k \in Nat /\ k <= Cardinality(Weighted(w)) /\ IsFiniteSet(Weighted(w))
    BY LeftoverBounds
  <2>2. Cardinality(Weighted(w)) <= Cardinality(S)
    BY <1>1, FS_Subset
  <2>3. Cardinality(S) \in Nat /\ Cardinality(Weighted(w)) \in Nat
    BY <1>1, <2>1, FS_CardinalityType
  <2> HIDE DEF k
  <2> QED BY <2>1, <2>2, <2>3
<1>3. IsStrictOrder(R, S) /\ \A s \in S : Served(w, s) = Earlier(R, S, s)
  BY ServedOrder
<1>4. RoundedUp(w) = {s \in S : Cardinality(Earlier(R, S, s)) < k}
  BY <1>3 DEF RoundedUp
<1>5. Cardinality(RoundedUp(w)) = k
  <2> HIDE DEF R, k, S
  <2> QED BY <1>1, <1>2, <1>3, <1>4, FirstOnes
<1>6. ASSUME NEW s \in S, s \notin Weighted(w) PROVE s \notin RoundedUp(w)
  <2>1. SumOf(w) \in Nat /\ \A t \in S : Fraction(w, t) \in 0..(SumOf(w) - 1)
    BY Parts, SumPositive
  <2>2. Weighted(w) \subseteq Served(w, s)
    BY <1>6, <2>1 DEF Weighted, Served, ServedBefore
  <2>3. IsFiniteSet(Served(w, s))
    <3>1. Served(w, s) \in SUBSET S
      BY DEF Served
    <3> QED BY <1>1, <3>1, FS_Subset
  <2>4. Cardinality(Weighted(w)) <= Cardinality(Served(w, s))
    BY <2>2, <2>3, FS_Subset
  <2>5. Leftover(w) \in Nat /\ Leftover(w) <= Cardinality(Weighted(w))
        /\ IsFiniteSet(Weighted(w))
    BY LeftoverBounds
  <2>6. Cardinality(Weighted(w)) \in Nat /\ Cardinality(Served(w, s)) \in Nat
    BY <2>3, <2>5, FS_CardinalityType
  <2>7. ~(Cardinality(Served(w, s)) < Leftover(w))
    BY <2>4, <2>5, <2>6
  <2> QED BY <2>7 DEF RoundedUp
<1> QED BY <1>5, <1>6 DEF RoundedUp

\* A stack gets its integer part, or one more if it is rounded up.
LEMMA RoundedIs ==
    ASSUME NEW w, NEW s \in DOMAIN w
    PROVE  RoundWeights(w)[s] = IF s \in RoundedUp(w) THEN Floor(w, s) + 1 ELSE Floor(w, s)
BY DEF RoundWeights, RoundedUp, Served

\* A stack that comes before another is rounded up if the other is.
LEMMA RoundedUpFirst ==
    ASSUME NEW w, IsWeights(w), ~AllZero(w), NEW s \in RoundedUp(w), NEW t \in DOMAIN w,
           ServedBefore(w, t, s)
    PROVE  t \in RoundedUp(w)
<1> DEFINE S == DOMAIN w
           R == ServedPairs(w)
<1>1. IsFiniteSet(S) /\ s \in S /\ Cardinality(Served(w, s)) < Leftover(w)
      /\ Leftover(w) \in Nat
  BY LeftoverBounds DEF IsWeights, RoundedUp
<1>2. <<t, s>> \in R
  BY <1>1 DEF ServedPairs
<1>3. Earlier(R, S, t) \subseteq Earlier(R, S, s)
  BY <1>1, <1>2, ServedOrder DEF IsStrictOrder, Earlier
<1>4. Served(w, t) \in SUBSET Served(w, s)
  BY <1>1, <1>3, ServedOrder
<1>5. IsFiniteSet(Served(w, s)) /\ IsFiniteSet(Served(w, t))
  <2>1. Served(w, s) \in SUBSET S /\ Served(w, t) \in SUBSET S
    BY DEF Served
  <2> QED BY <1>1, <2>1, FS_Subset
<1>6. Cardinality(Served(w, t)) <= Cardinality(Served(w, s))
  BY <1>4, <1>5, FS_Subset
<1>7. Cardinality(Served(w, t)) \in Nat /\ Cardinality(Served(w, s)) \in Nat
  BY <1>5, FS_CardinalityType
<1> QED BY <1>1, <1>6, <1>7 DEF RoundedUp

(***************************************************************************)
(* roundWeights "rounds all the weights to whole numbers while ensuring    *)
(* they still add up to 100": whatever the weights, unless all are zero.   *)
(***************************************************************************)
THEOREM RoundingKeepsWhole ==
    ASSUME NEW w, IsWeights(w), ~AllZero(w)
    PROVE  SumOf(RoundWeights(w)) = Total
<1> DEFINE S == DOMAIN w
           r == RoundWeights(w)
           floors == [s \in S |-> Floor(w, s)]
           ones == [s \in S |-> IF s \in RoundedUp(w) THEN 1 ELSE 0]
<1>1. IsFiniteSet(S) /\ DOMAIN r = S /\ RoundedUp(w) \in SUBSET S
  BY DEF IsWeights, RoundWeights, RoundedUp
<1>2. ASSUME NEW s \in S
      PROVE  floors[s] \in Int /\ ones[s] \in Int /\ r[s] = floors[s] + ones[s]
  <2>1. floors[s] = Floor(w, s) /\ Floor(w, s) \in Nat
    BY Parts
  <2>2. r[s] = IF s \in RoundedUp(w) THEN Floor(w, s) + 1 ELSE Floor(w, s)
    BY RoundedIs
  <2>3. ones[s] = IF s \in RoundedUp(w) THEN 1 ELSE 0
    OBVIOUS
  <2> HIDE DEF r, floors, ones
  <2> QED BY <2>1, <2>2, <2>3
<1>3. SumOver(r, S) = SumOver(floors, S) + SumOver(ones, S)
  <2> HIDE DEF r, floors, ones
  <2> QED BY <1>1, <1>2, SumPlus
<1>4. SumOver(ones, S) = Leftover(w)
  <2>1. \A s \in S : ones[s] = IF s \in RoundedUp(w) THEN 1 ELSE 0
    OBVIOUS
  <2> HIDE DEF ones
  <2>2. SumOver(ones, S) = Cardinality(RoundedUp(w))
    BY <1>1, <2>1, SumCount
  <2> QED BY <2>2, RoundedUpOnes
<1>5. Leftover(w) = Total - SumOver(floors, S) /\ SumOver(floors, S) \in Int
  <2>1. Leftover(w) = Total - SumOver(floors, S)
    BY DEF Leftover, SumOf, SumOver
  <2>2. \A s \in S : floors[s] \in Int
    BY <1>2
  <2> HIDE DEF floors
  <2> QED BY <1>1, <2>1, <2>2, SumInt
<1>6. SumOf(r) = SumOver(r, S)
  BY <1>1 DEF SumOf, SumOver
<1>7. \A f \in Int : f + (Total - f) = Total
  BY TotalAssumption
<1> HIDE DEF r, floors, ones
<1> QED BY <1>3, <1>4, <1>5, <1>6, <1>7 DEF r

(***************************************************************************)
(* No rounded weight is a whole unit away from the exact share of its      *)
(* stack, a stack without weight gets nothing, and none is rounded up past *)
(* one with more weight.                                                   *)
(***************************************************************************)
THEOREM RoundingFair ==
    ASSUME NEW w, IsWeights(w), ~AllZero(w), NEW s \in DOMAIN w
    PROVE  LET r == RoundWeights(w)
           IN  /\ r[s] \in Nat
               /\ r[s] * SumOf(w) - w[s] * Total < SumOf(w)
               /\ w[s] * Total - r[s] * SumOf(w) < SumOf(w)
               /\ w[s] = 0 => r[s] = 0
               /\ \A t \in DOMAIN w : w[s] < w[t] => r[s] <= r[t]
<1> DEFINE r == RoundWeights(w)
           d == SumOf(w)
<1>1. d \in Nat \ {0} /\ Total \in Nat \ {0}
  BY SumPositive, TotalAssumption
<1>2. ASSUME NEW t \in DOMAIN w
      PROVE  /\ Floor(w, t) \in Nat /\ Fraction(w, t) \in 0..(d-1) /\ w[t] \in Nat
             /\ w[t] * Total = d * Floor(w, t) + Fraction(w, t)
             /\ r[t] = IF t \in RoundedUp(w) THEN Floor(w, t) + 1 ELSE Floor(w, t)
             /\ t \in RoundedUp(w) => Fraction(w, t) > 0
  BY Parts, RoundedIs, RoundedUpOnes DEF IsWeights, Weighted
<1> HIDE DEF r, d
<1>3. r[s] \in Nat
  BY <1>2
<1>4. r[s] * d - w[s] * Total < d /\ w[s] * Total - r[s] * d < d
  <2> DEFINE f == Floor(w, s)
             e == Fraction(w, s)
  <2>1. d * f \in Int /\ (f + 1) * d = d * f + d /\ f * d = d * f
    BY <1>1, <1>2
  <2>2. CASE s \in RoundedUp(w)
    <3>1. r[s] * d = d * f + d /\ w[s] * Total = d * f + e /\ e \in 1..(d-1)
      BY <1>1, <1>2, <2>1, <2>2
    <3> HIDE DEF f, e
    <3> QED BY <1>1, <2>1, <3>1
  <2>3. CASE s \notin RoundedUp(w)
    <3>1. r[s] * d = d * f /\ w[s] * Total = d * f + e /\ e \in 0..(d-1)
      BY <1>1, <1>2, <2>1, <2>3
    <3> HIDE DEF f, e
    <3> QED BY <1>1, <2>1, <3>1
  <2> QED BY <2>2, <2>3
<1>5. ASSUME w[s] = 0 PROVE r[s] = 0
  BY <1>2, <1>5, Parts
<1>6. ASSUME NEW t \in DOMAIN w, w[s] < w[t] PROVE r[s] <= r[t]
  <2>1. w[s] * Total <= w[t] * Total /\ w[s] * Total # w[t] * Total
    <3>1. Total * w[s] <= Total * w[t] /\ Total * w[s] # Total * w[t]
      BY <1>1, <1>2, <1>6, TimesOrder
    <3> QED BY <1>1, <1>2, <3>1
  <2> DEFINE f == Floor(w, s)
             g == Floor(w, t)
             e == Fraction(w, s)
             h == Fraction(w, t)
  <2>2. /\ f \in Nat /\ g \in Nat /\ e \in 0..(d-1) /\ h \in 0..(d-1)
        /\ d * f + e <= d * g + h /\ d * f + e # d * g + h
    BY <1>2, <2>1
  <2>3. CASE f < g
    BY <1>2, <2>2, <2>3
  <2>4. CASE f = g
    <3>1. e < h
      <4>1. d * g \in Int /\ d * f = d * g
        BY <1>1, <2>2, <2>4
      <4> HIDE DEF e, f, g, h
      <4> QED BY <1>1, <2>2, <4>1
    <3>2. ServedBefore(w, t, s)
      BY <2>2, <3>1 DEF ServedBefore
    <3>3. s \in RoundedUp(w) => t \in RoundedUp(w)
      BY <3>2, RoundedUpFirst
    <3> QED BY <1>2, <2>2, <2>4, <3>3
  <2>5. CASE g < f
    <3> HIDE DEF e, f, g, h
    <3>1. d * (g + 1) <= d * f
      BY <1>1, <2>2, <2>5, TimesOrder
    <3>2. d * (g + 1) = d * g + d /\ d * g \in Int /\ d * f \in Int
      BY <1>1, <2>2
    <3> QED BY <1>1, <2>2, <3>1, <3>2
  <2> QED BY <2>2, <2>3, <2>4, <2>5
<1> QED BY <1>3, <1>4, <1>5, <1>6 DEF r, d

(***************************************************************************)
(* Weights that add up to the whole are left alone: a later pass does not  *)
(* move traffic that an earlier one has rounded.                           *)
(***************************************************************************)
THEOREM RoundingIdempotent ==
    ASSUME NEW w, IsWeights(w), SumOf(w) = Total
    PROVE  ~AllZero(w) /\ RoundWeights(w) = [s \in DOMAIN w |-> w[s]]
<1>1. ~AllZero(w)
  <2> SUFFICES ASSUME AllZero(w) PROVE FALSE
    OBVIOUS
  <2>1. \A s \in (DOMAIN w) \ {} : w[s] = 0 /\ w[s] \in Int
    BY DEF AllZero
  <2>2. SumOver(w, DOMAIN w) = SumOver(w, {})
    BY <2>1, SumSupport DEF IsWeights
  <2>3. SumOf(w) = SumOver(w, DOMAIN w)
    BY DEF SumOf, SumOver
  <2> QED BY <2>2, <2>3, SumEmpty, TotalAssumption
<1>2. ASSUME NEW s \in DOMAIN w PROVE RoundWeights(w)[s] = w[s]
  <2> DEFINE f == Floor(w, s)
             e == Fraction(w, s)
             v == w[s]
  <2>1. /\ f \in Nat /\ e \in 0..(Total-1) /\ v \in Nat /\ Total \in Nat \ {0}
        /\ v * Total = Total * f + e
    BY <1>1, Parts, TotalAssumption DEF IsWeights
  <2> HIDE DEF f, e, v
  <2>2. /\ v * Total = Total * v /\ Total * f \in Int /\ Total * v \in Int
        /\ Total * (f + 1) = Total * f + Total
    BY <2>1
  <2>3. f <= v
    BY <2>1, <2>2, TimesOrder
  <2>4. ~(f + 1 <= v)
    <3> SUFFICES ASSUME f + 1 <= v PROVE FALSE
      OBVIOUS
    <3>1. Total * (f + 1) <= Total * v
      BY <2>1, TimesOrder
    <3> QED BY <2>1, <2>2, <3>1
  <2>5. f = v
    BY <2>1, <2>3, <2>4
  <2>6. e = 0
    BY <2>1, <2>2, <2>5
  <2>7. s \notin RoundedUp(w)
    BY <1>1, <2>6, RoundedUpOnes DEF e, Weighted
  <2> QED BY <2>5, <2>7, RoundedIs DEF f, v
<1>3. RoundWeights(w) = [s \in DOMAIN w |-> RoundWeights(w)[s]]
  BY DEF RoundWeights
<1> QED BY <1>1, <1>2, <1>3

\* A stack without weight gets nothing.
LEMMA UnweightedGetsNothing ==
    ASSUME NEW w, IsWeights(w), ~AllZero(w), NEW s \in DOMAIN w, w[s] = 0
    PROVE  RoundWeights(w)[s] = 0
<1>1. Floor(w, s) = 0 /\ Fraction(w, s) = 0
  BY Parts
<1>2. s \notin RoundedUp(w)
  BY <1>1, RoundedUpOnes DEF Weighted
<1> QED BY <1>1, <1>2, RoundedIs

(***************************************************************************)
(* Stacks without weight make no difference: leaving some of them out      *)
(* changes nothing for the others, so stacks may come and go while the     *)
(* traffic stays where it is.                                              *)
(***************************************************************************)
THEOREM RoundingIgnoresUnweighted ==
    ASSUME NEW w, IsWeights(w), ~AllZero(w),
           NEW v, DOMAIN v \subseteq DOMAIN w,
           \A s \in DOMAIN v : v[s] = w[s],
           \A s \in (DOMAIN w) \ (DOMAIN v) : w[s] = 0
    PROVE  /\ IsWeights(v) /\ ~AllZero(v)
           /\ SumOf(v) = SumOf(w)
           /\ \A s \in DOMAIN v : RoundWeights(v)[s] = RoundWeights(w)[s]
<1> DEFINE S == DOMAIN w
           T == DOMAIN v
           fw == [s \in S |-> Floor(w, s)]
           fv == [s \in T |-> Floor(v, s)]
<1>1. IsWeights(v) /\ ~AllZero(v)
  <2>1. IsFiniteSet(T)
    BY FS_Subset DEF IsWeights
  <2> QED BY <2>1 DEF IsWeights, AllZero
<1>2. SumOf(v) = SumOf(w)
  <2>1. T \in SUBSET S /\ IsFiniteSet(S) /\ IsFiniteSet(T) /\ \A s \in S : w[s] \in Int
    BY <1>1 DEF IsWeights
  <2>2. SumOver(w, S) = SumOver(w, T)
    BY <2>1, SumSupport
  <2>3. SumOver(v, T) = SumOver(w, T)
    BY <2>1, SumEqual
  <2> QED BY <2>2, <2>3 DEF SumOf, SumOver
<1>3. ASSUME NEW s \in T PROVE Floor(v, s) = Floor(w, s) /\ Fraction(v, s) = Fraction(w, s)
  BY <1>2 DEF Floor, Fraction
<1>4. ASSUME NEW s \in S \ T PROVE Floor(w, s) = 0 /\ Fraction(w, s) = 0
  BY Parts
<1>5. Leftover(v) = Leftover(w)
  <2>1. T \in SUBSET S /\ IsFiniteSet(S) /\ IsFiniteSet(T)
    BY <1>1 DEF IsWeights
  <2>2. \A s \in S : fw[s] \in Int
    BY Parts
  <2>3. \A s \in S \ T : fw[s] = 0
    BY <1>4
  <2>4. \A s \in T : fv[s] = fw[s]
    BY <1>3
  <2>5. DOMAIN fw = S /\ DOMAIN fv = T
    OBVIOUS
  <2>6. SumOf(fw) = SumOver(fw, S) /\ SumOf(fv) = SumOver(fv, T)
    BY <2>5 DEF SumOf, SumOver
  <2>7. Leftover(v) = Total - SumOf(fv) /\ Leftover(w) = Total - SumOf(fw)
    BY DEF Leftover
  <2> HIDE DEF fw, fv
  <2>8. SumOver(fw, S) = SumOver(fw, T)
    BY <2>1, <2>2, <2>3, SumSupport
  <2>9. SumOver(fv, T) = SumOver(fw, T)
    BY <2>1, <2>4, SumEqual
  <2> QED BY <2>6, <2>7, <2>8, <2>9
<1>6. ASSUME NEW s \in T PROVE RoundWeights(v)[s] = RoundWeights(w)[s]
  <2>1. CASE w[s] = 0
    <3>1. v[s] = 0
      BY <2>1
    <3>2. RoundWeights(v)[s] = 0
      BY <1>1, <3>1, UnweightedGetsNothing
    <3>3. RoundWeights(w)[s] = 0
      BY <2>1, UnweightedGetsNothing
    <3> QED BY <3>2, <3>3
  <2>2. CASE w[s] # 0
    <3>1. /\ Floor(w, s) \in Nat /\ Fraction(w, s) \in Nat /\ w[s] \in Nat \ {0}
          /\ SumOf(w) \in Nat /\ Total \in Nat \ {0}
          /\ w[s] * Total = SumOf(w) * Floor(w, s) + Fraction(w, s)
      BY <2>2, Parts, SumPositive, TotalAssumption DEF IsWeights
    <3>2. Floor(w, s) > 0 \/ Fraction(w, s) > 0
      <4>1. w[s] * Total > 0
        <5> DEFINE x == w[s]
        <5>1. x \in Nat \ {0} /\ Total \in Nat \ {0}
          BY <3>1
        <5> HIDE DEF x
        <5>2. x * Total > 0
          BY <5>1
        <5> QED BY <5>2 DEF x
      <4> QED BY <3>1, <4>1
    <3>3. ASSUME NEW t \in S \ T PROVE ~ServedBefore(w, t, s)
      BY <1>4, <3>1, <3>2 DEF ServedBefore
    <3>4. \A t \in T : ServedBefore(v, t, s) <=> ServedBefore(w, t, s)
      BY <1>3 DEF ServedBefore
    <3>5. Served(v, s) = Served(w, s)
      BY <3>3, <3>4 DEF Served
    <3>6. s \in RoundedUp(v) <=> s \in RoundedUp(w)
      BY <1>5, <3>5 DEF RoundedUp
    <3>7. RoundWeights(v)[s] = IF s \in RoundedUp(v) THEN Floor(v, s) + 1 ELSE Floor(v, s)
      BY RoundedIs
    <3>8. RoundWeights(w)[s] = IF s \in RoundedUp(w) THEN Floor(w, s) + 1 ELSE Floor(w, s)
      BY RoundedIs
    <3> QED BY <1>3, <3>6, <3>7, <3>8
  <2> QED BY <2>1, <2>2
<1> QED BY <1>1, <1>2, <1>6

(***************************************************************************)
(* What ManageTraffic gives the stacks is whole, whatever it starts from:  *)
(* every weight is between nothing and all, and together they are all.     *)
(***************************************************************************)
THEOREM ManagedIsWhole ==
    ASSUME NEW w, IsWeights(w), NEW f \in DOMAIN w
    PROVE  /\ ManagedWeights(w, f) \in [DOMAIN w -> 0..Total]
           /\ SumOf(ManagedWeights(w, f)) = Total
<1> DEFINE S == DOMAIN w
           r == ManagedWeights(w, f)
<1>1. IsFiniteSet(S) /\ Total \in Nat \ {0}
  BY TotalAssumption DEF IsWeights
<1>2. CASE AllZero(w)
  <2>1. r = [s \in S |-> IF s = f THEN Total ELSE 0]
    BY <1>2 DEF ManagedWeights
  <2> HIDE DEF r
  <2>2. \A s \in S : r[s] \in Int /\ (s # f => r[s] = 0)
    BY <1>1, <2>1
  <2>3. SumOver(r, S) = SumOver(r, {f})
    BY <1>1, <2>2, SumSupport
  <2>4. SumOver(r, {f}) = r[f] + SumOver(r, {f} \ {f}) /\ {f} \ {f} = {}
    <3>1. IsFiniteSet({f}) /\ \A s \in {f} : r[s] \in Int
      BY <2>2, FS_Singleton
    <3> QED BY <3>1, SumRemove
  <2>5. SumOver(r, {f}) = Total
    BY <1>1, <2>1, <2>4, SumEmpty
  <2>6. SumOf(r) = SumOver(r, S)
    <3>1. DOMAIN r = S
      BY <2>1
    <3> QED BY <3>1 DEF SumOf, SumOver
  <2>7. r \in [S -> 0..Total]
    BY <1>1, <2>1
  <2> QED BY <2>3, <2>5, <2>6, <2>7 DEF r
<1>3. CASE ~AllZero(w)
  <2>1. NormalizeWeights(w) = w
    BY <1>3 DEF NormalizeWeights
  <2>2. r = RoundWeights(w)
    BY <1>3, <2>1 DEF ManagedWeights
  <2> HIDE DEF r
  <2>3. SumOf(r) = Total /\ DOMAIN r = S /\ r = [s \in S |-> r[s]]
    BY <1>3, <2>2, RoundingKeepsWhole DEF RoundWeights
  <2>4. \A s \in S : r[s] \in Nat
    BY <1>3, <2>2, RoundingFair
  <2>5. SumOf(r) = SumOver(r, S)
    BY <2>3 DEF SumOf, SumOver
  <2>6. \A s \in S : r[s] <= Total
    BY <1>1, <2>3, <2>4, <2>5, SumNat
  <2>7. \A s \in S : r[s] \in 0..Total
    BY <1>1, <2>4, <2>6
  <2> QED BY <2>3, <2>7 DEF r
<1> QED BY <1>2, <1>3

(***************************************************************************)
(* Managed once more they stay as they are, whatever the fallback is.      *)
(***************************************************************************)
THEOREM ManagedIsKept ==
    ASSUME NEW w, IsWeights(w), SumOf(w) = Total, NEW f
    PROVE  ManagedWeights(w, f) = [s \in DOMAIN w |-> w[s]]
<1>1. ~AllZero(w) /\ RoundWeights(w) = [s \in DOMAIN w |-> w[s]]
  BY RoundingIdempotent
<1> QED BY <1>1 DEF ManagedWeights, NormalizeWeights

(***************************************************************************)
(* Managed weights are a fair rounding, and still are after the next pass, *)
(* which leaves them as they are: FairRounding and Idempotent of           *)
(* Calculations for any weights.                                           *)
(***************************************************************************)
THEOREM ManagedIsFair ==
    ASSUME NEW w, IsWeights(w), NEW f \in DOMAIN w, NEW g
    PROVE  LET r == ManagedWeights(w, f)
           IN  FairlyRounded(w, r) /\ ManagedWeights(r, g) = r
<1> DEFINE r == ManagedWeights(w, f)
<1>1. r \in [DOMAIN w -> 0..Total] /\ SumOf(r) = Total
  BY ManagedIsWhole
<1>2. IsWeights(r) /\ r = [s \in DOMAIN r |-> r[s]]
  <2> HIDE DEF r
  <2>1. 0..Total \subseteq Nat
    BY TotalAssumption
  <2> QED BY <1>1, <2>1 DEF IsWeights
<1>3. ~AllZero(w) => r = RoundWeights(w)
  BY DEF ManagedWeights, NormalizeWeights
<1> HIDE DEF r
<1>4. FairlyRounded(w, r)
  BY <1>1, <1>3, RoundingFair DEF FairlyRounded
<1>5. ManagedWeights(r, g) = r
  BY <1>1, <1>2, ManagedIsKept
<1> QED BY <1>4, <1>5 DEF r

(***************************************************************************)
(* A stack without weight gets none, unless no stack has any and it is the *)
(* fallback.                                                               *)
(***************************************************************************)
THEOREM ManagedOnlyWeighted ==
    ASSUME NEW w, IsWeights(w), NEW f \in DOMAIN w, NEW s \in DOMAIN w,
           ManagedWeights(w, f)[s] # 0
    PROVE  w[s] > 0 \/ (AllZero(w) /\ s = f)
<1>1. CASE AllZero(w)
  BY <1>1 DEF ManagedWeights
<1>2. CASE ~AllZero(w)
  <2>1. ManagedWeights(w, f) = RoundWeights(w)
    BY <1>2 DEF ManagedWeights, NormalizeWeights
  <2>2. w[s] # 0 /\ w[s] \in Nat
    BY <1>2, <2>1, RoundingFair DEF IsWeights
  <2> QED BY <2>2
<1> QED BY <1>1, <1>2
=============================================================================
