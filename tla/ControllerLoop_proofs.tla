------------------------ MODULE ControllerLoop_proofs ------------------------
(***************************************************************************)
(* Proofs about the main loop, for any number of controllers, incarnations *)
(* and failures: its type invariant; that the store of a controller agrees *)
(* with the cluster once it has taken all events; and that only a stray    *)
(* status makes a version count as observed without its stack.             *)
(***************************************************************************)
EXTENDS ControllerLoop, SequenceTheorems, WellFoundedInduction, TLAPS

Events == [deleted : BOOLEAN, stackset : StackSets]

\* A worker has a StackSet of its own incarnation.
HasContainer ==
    \A c \in Controllers, u \in UIDs :
        /\ store[c][u] \in {ss \in StackSets : ss.uid = u} \union {NoStackSet}
        /\ seen[c][u] \in {ss \in StackSets : ss.uid = u} \union {NoStackSet}
        /\ pc[c][u] \in {"create", "observe", "status"} => seen[c][u] # NoStackSet

(***************************************************************************)
(* What a controller that missed no deletion knows: the events that wait   *)
(* alternate between a StackSet that is there and its deletion, the last   *)
(* of them leads to what the informer has seen, and the store is what      *)
(* comes before the first.                                                 *)
(***************************************************************************)
Alternating(q) ==
    \A i \in 1..(Len(q) - 1) :
        IF q[i].deleted THEN ~q[i + 1].deleted ELSE q[i + 1] = Deleted(q[i].stackset)

\* The store of controller c if there is but the StackSet ss.
Owned(c, ss) == [u \in UIDs |-> IF ss.uid = u /\ ss.owner = c THEN ss ELSE NoStackSet]

LeadsTo(q, cached) ==
    IF cached = NoStackSet THEN q[Len(q)].deleted ELSE q[Len(q)] = Added(cached)

ComesBefore(c, st, e) ==
    IF e.deleted THEN st = Owned(c, e.stackset)
    ELSE \A u \in UIDs : u # e.stackset.uid => st[u] = NoStackSet

InStep(c, q, cached, st) ==
    /\ Alternating(q)
    /\ q = <<>> => st = Owned(c, cached)
    /\ q # <<>> => LeadsTo(q, cached) /\ ComesBefore(c, st, q[1])

Coherence ==
    \A c \in Controllers :
        /\ c \in watching => cache[c] = stackset
        /\ ~missed => InStep(c, events[c], cache[c], store[c])

\* Nothing that a controller knows counts as observed unless its stack was created.
OnlyOwn(ss) == ss.observed => ss.uid \in created
NothingStrayed ==
    ~stray =>
        /\ OnlyOwn(stackset)
        /\ \A c \in Controllers :
            /\ \A i \in 1..Len(events[c]) : OnlyOwn(events[c][i].stackset)
            /\ \A u \in UIDs :
                /\ OnlyOwn(store[c][u]) /\ OnlyOwn(seen[c][u])
                /\ pc[c][u] = "observe" => u \in created

-----------------------------------------------------------------------------
(***************************************************************************)
(* Constants.                                                              *)
(***************************************************************************)
\* No incarnation has the UID of none.
LEMMA NoneIsOut ==
    /\ 0 \notin UIDs /\ NoStackSet \notin StackSets /\ NoStackSet.uid = 0
    /\ NoStackSet.observed = FALSE
    /\ \A ss \in StackSets : ss.uid \in UIDs /\ ss # NoStackSet /\ ss.uid # 0
<1>1. 0 \notin UIDs /\ \A ss \in StackSets : ss.uid \in UIDs
  BY UIDsAssumption DEF StackSets
<1>2. NoStackSet.uid = 0 /\ NoStackSet.observed = FALSE
  BY DEF NoStackSet
<1> QED BY <1>1, <1>2

\* There is a first incarnation.
LEMMA FirstIs == First \in UIDs
<1>1. \E u \in UIDs : \A v \in UIDs : u <= v
  <2>1. IsWellFoundedOn(OpToRel(<, Nat), Nat)
    BY NatLessThanWellFounded
  <2>2. PICK u \in UIDs : \A v \in UIDs : ~(<<v, u>> \in OpToRel(<, Nat))
    BY <2>1, UIDsAssumption, WFMin
  <2>3. \A m, n \in Nat : <<m, n>> \in OpToRel(<, Nat) <=> m < n
    BY DEF OpToRel
  <2>4. \A v \in UIDs : ~(v < u) /\ v \in Nat /\ u \in Nat
    BY <2>2, <2>3, UIDsAssumption
  <2> QED BY <2>4
<1> QED BY <1>1 DEF First

\* A new incarnation is a StackSet with the given UID, of which no version is observed.
LEMMA NewIs ==
    ASSUME NEW u \in UIDs, NEW c \in Controllers
    PROVE  New(u, c) \in StackSets /\ New(u, c).uid = u /\ New(u, c).observed = FALSE
BY DEF New, StackSets

\* Nobody owns no StackSet.
LEMMA OwnedNothing == ASSUME NEW c PROVE Owned(c, NoStackSet) = Nothing
BY NoneIsOut DEF Owned, Nothing

-----------------------------------------------------------------------------
(***************************************************************************)
(* The queue of events.                                                    *)
(***************************************************************************)
\* The last event that waits gives way, or else none.
Merges(q, e) ==
    /\ q # <<>> /\ ~q[Len(q)].deleted /\ ~e.deleted
    /\ q[Len(q)].stackset.uid = e.stackset.uid

Staying(q, e) == IF Merges(q, e) THEN Len(q) - 1 ELSE Len(q)

\* An event that comes is the last to wait, after those that stay.
LEMMA WaitingIs ==
    ASSUME NEW q \in Seq(Events), NEW e \in Events
    PROVE  /\ Waiting(q, e) \in Seq(Events)
           /\ Len(Waiting(q, e)) = Staying(q, e) + 1
           /\ Waiting(q, e)[Staying(q, e) + 1] = e
           /\ \A i \in 1..Staying(q, e) : Waiting(q, e)[i] = q[i]
           /\ Staying(q, e) \in Nat /\ Staying(q, e) <= Len(q)
<1>1. CASE Merges(q, e)
  <2>1. Waiting(q, e) = Append(SubSeq(q, 1, Len(q) - 1), e)
    BY <1>1 DEF Merges, Waiting, Last, Front
  <2> DEFINE n == Len(q) - 1
             f == SubSeq(q, 1, n)
  <2>2. n \in Nat /\ n + 1 = Len(q) /\ Staying(q, e) = n
    BY <1>1, EmptySeq DEF Merges, Staying
  <2>3. f \in Seq(Events) /\ Len(f) = n /\ \A i \in 1..n : f[i] = q[i]
    <3>1. \A i \in 1..n : q[i] \in Events
      BY <2>2
    <3> HIDE DEF n
    <3>2. f \in Seq(Events) /\ Len(f) = IF 1 <= n THEN n - 1 + 1 ELSE 0
      BY <2>2, <3>1, SubSeqProperties
    <3>3. \A i \in 1..(n - 1 + 1) : f[i] = q[1 + i - 1]
      BY <2>2, <3>1, SubSeqProperties
    <3> QED BY <2>2, <3>2, <3>3
  <2> HIDE DEF f, n
  <2> QED BY <2>1, <2>2, <2>3, AppendProperties DEF f, n
<1>2. CASE ~Merges(q, e)
  <2>1. Waiting(q, e) = Append(q, e)
    BY <1>2 DEF Merges, Waiting, Last
  <2> QED BY <1>2, <2>1, AppendProperties DEF Staying
<1> QED BY <1>1, <1>2

\* A StackSet is added, or updated: a controller that was in step with the one before is so.
LEMMA InStepAdded ==
    ASSUME NEW c \in Controllers, NEW q \in Seq(Events), NEW x \in StackSetsOrNone, NEW st,
           NEW ss \in StackSets, x = NoStackSet \/ x.uid = ss.uid, InStep(c, q, x, st)
    PROVE  InStep(c, Waiting(q, Added(ss)), ss, st)
<1> DEFINE e == Added(ss)
           w == Waiting(q, e)
           n == Staying(q, e)
<1>1. e \in Events
  BY DEF Added, Events
<1>2. ~e.deleted
  BY DEF Added
<1>3. e.stackset = ss
  BY DEF Added
<1>4. ss # NoStackSet
  BY NoneIsOut
<1>5. /\ w \in Seq(Events) /\ Len(w) = n + 1 /\ w[n + 1] = e
      /\ n \in Nat /\ n <= Len(q) /\ Len(q) \in Nat
      /\ \A i \in 1..n : w[i] = q[i]
  <2> HIDE DEF e
  <2>1. /\ Waiting(q, e) \in Seq(Events)
        /\ Len(Waiting(q, e)) = Staying(q, e) + 1
        /\ Waiting(q, e)[Staying(q, e) + 1] = e
        /\ \A i \in 1..Staying(q, e) : Waiting(q, e)[i] = q[i]
        /\ Staying(q, e) \in Nat /\ Staying(q, e) <= Len(q)
    BY <1>1, WaitingIs
  <2>2. Len(q) \in Nat
    OBVIOUS
  <2> QED BY <2>1, <2>2
<1>6. w # <<>> /\ w[Len(w)] = e
  <2> HIDE DEF w, n, e
  <2> QED BY <1>5, EmptySeq
<1>7. LeadsTo(w, ss)
  <2> HIDE DEF w, e
  <2> QED BY <1>4, <1>6 DEF LeadsTo, e
\* a StackSet is told after its deletion, or in the place of what it was before
<1>8. n > 0 => Alternating(q) /\ q[n].deleted /\ ComesBefore(c, st, q[1])
  <2> SUFFICES ASSUME n > 0 PROVE Alternating(q) /\ q[n].deleted /\ ComesBefore(c, st, q[1])
    OBVIOUS
  <2>1. q # <<>>
    <3> HIDE DEF n
    <3> QED BY <1>5, EmptySeq
  <2>2. Alternating(q) /\ ComesBefore(c, st, q[1]) /\ LeadsTo(q, x)
    BY <2>1 DEF InStep
  <2>3. CASE x = NoStackSet
    <3>1. q[Len(q)].deleted
      BY <2>2, <2>3 DEF LeadsTo
    <3>2. n = Len(q)
      BY <3>1 DEF Staying, Merges
    <3> QED BY <2>2, <3>1, <3>2
  <2>4. CASE x # NoStackSet
    <3>1. q[Len(q)] = Added(x)
      BY <2>2, <2>4 DEF LeadsTo
    <3>2. ~q[Len(q)].deleted
      BY <3>1 DEF Added
    <3>3. q[Len(q)].stackset = x
      BY <3>1 DEF Added
    <3>4. n = Len(q) - 1
      BY <1>2, <1>3, <2>1, <2>4, <3>2, <3>3 DEF Staying, Merges
    <3>5. n \in 1..(Len(q) - 1) /\ n + 1 = Len(q)
      <4> HIDE DEF n
      <4> QED BY <1>5, <3>4
    <3>6. IF q[n].deleted THEN ~q[n + 1].deleted ELSE q[n + 1] = Deleted(q[n].stackset)
      <4> HIDE DEF n
      <4> QED BY <2>2, <3>5 DEF Alternating
    <3>7. q[n].deleted
      <4> SUFFICES ASSUME ~q[n].deleted PROVE FALSE
        OBVIOUS
      <4>1. q[Len(q)] = Deleted(q[n].stackset)
        BY <3>5, <3>6
      <4>2. q[Len(q)].deleted
        BY <4>1 DEF Deleted
      <4> QED BY <3>2, <4>2
    <3> QED BY <2>2, <3>7
  <2> QED BY <2>3, <2>4
<1>9. Alternating(w)
  <2> SUFFICES ASSUME NEW i \in 1..(Len(w) - 1)
               PROVE  IF w[i].deleted THEN ~w[i + 1].deleted
                      ELSE w[i + 1] = Deleted(w[i].stackset)
    BY DEF Alternating
  <2> HIDE DEF w, n, e
  <2>1. i \in 1..n /\ w[i] = q[i] /\ n > 0
    BY <1>5
  <2>2. CASE i = n
    <3>1. w[i + 1] = e
      BY <1>5, <2>2
    <3> QED BY <1>2, <1>8, <2>1, <2>2, <3>1
  <2>3. CASE i # n
    <3>1. i \in 1..(Len(q) - 1) /\ w[i + 1] = q[i + 1]
      BY <1>5, <2>1, <2>3
    <3> QED BY <1>8, <2>1, <3>1 DEF Alternating
  <2> QED BY <2>2, <2>3
<1>10. ComesBefore(c, st, w[1])
  <2>1. CASE n > 0
    <3>1. w[1] = q[1]
      <4> HIDE DEF w, n
      <4> QED BY <1>5, <2>1
    <3> QED BY <1>8, <2>1, <3>1
  <2>2. CASE ~(n > 0)
    <3>1. n = 0 /\ w[1] = e
      <4> HIDE DEF w, n
      <4> QED BY <1>5, <2>2
    <3>2. \A u \in UIDs : u # ss.uid => st[u] = NoStackSet
      <4>1. CASE q = <<>>
        <5>1. st = Owned(c, x)
          BY <4>1 DEF InStep
        <5> QED BY <5>1, NoneIsOut DEF Owned
      <4>2. CASE q # <<>>
        <5>1. Merges(q, e) /\ Len(q) = 1
          <6>1. Len(q) \in Nat \ {0}
            BY <4>2, EmptySeq
          <6> QED BY <3>1, <6>1 DEF Staying
        <5>2. ComesBefore(c, st, q[1])
          BY <4>2 DEF InStep
        <5>3. ~q[1].deleted
          BY <5>1 DEF Merges
        <5>4. q[1].stackset.uid = ss.uid
          BY <1>3, <5>1 DEF Merges
        <5> QED BY <5>2, <5>3, <5>4 DEF ComesBefore
      <4> QED BY <4>1, <4>2
    <3> HIDE DEF w, e, n
    <3> QED BY <1>2, <1>3, <3>1, <3>2 DEF ComesBefore
  <2> QED BY <2>1, <2>2
<1> QED
  <2> HIDE DEF w, e, n
  <2>1. InStep(c, w, ss, st)
    BY <1>6, <1>7, <1>9, <1>10 DEF InStep
  <2> QED BY <2>1 DEF w, e

\* The StackSet that a controller was in step with is deleted.
LEMMA InStepDeleted ==
    ASSUME NEW c \in Controllers, NEW q \in Seq(Events), NEW x \in StackSets, NEW st,
           InStep(c, q, x, st)
    PROVE  InStep(c, Waiting(q, Deleted(x)), NoStackSet, st)
<1> DEFINE e == Deleted(x)
           w == Waiting(q, e)
           n == Len(q)
<1>1. e \in Events
  BY DEF Deleted, Events
<1>2. e.deleted
  BY DEF Deleted
<1>3. e.stackset = x /\ x # NoStackSet
  BY NoneIsOut DEF Deleted
<1>4. Staying(q, e) = n
  BY <1>2 DEF Staying, Merges
<1>5. /\ w \in Seq(Events) /\ Len(w) = n + 1 /\ w[n + 1] = e /\ n \in Nat
      /\ \A i \in 1..n : w[i] = q[i]
  <2> HIDE DEF e
  <2>1. /\ Waiting(q, e) \in Seq(Events)
        /\ Len(Waiting(q, e)) = Staying(q, e) + 1
        /\ Waiting(q, e)[Staying(q, e) + 1] = e
        /\ \A i \in 1..Staying(q, e) : Waiting(q, e)[i] = q[i]
        /\ Staying(q, e) \in Nat /\ Staying(q, e) <= Len(q)
    BY <1>1, WaitingIs
  <2> QED BY <1>4, <2>1
<1>6. w # <<>> /\ w[Len(w)] = e
  <2> HIDE DEF w, n, e
  <2> QED BY <1>5, EmptySeq
<1>7. LeadsTo(w, NoStackSet)
  <2> HIDE DEF w, e
  <2> QED BY <1>2, <1>6 DEF LeadsTo
<1>8. n > 0 => Alternating(q) /\ q[n] = Added(x) /\ ComesBefore(c, st, q[1])
  <2> SUFFICES ASSUME n > 0
               PROVE  Alternating(q) /\ q[n] = Added(x) /\ ComesBefore(c, st, q[1])
    OBVIOUS
  <2>1. q # <<>>
    BY EmptySeq
  <2> QED BY <1>3, <2>1 DEF InStep, LeadsTo
<1>9. Alternating(w)
  <2> SUFFICES ASSUME NEW i \in 1..(Len(w) - 1)
               PROVE  IF w[i].deleted THEN ~w[i + 1].deleted
                      ELSE w[i + 1] = Deleted(w[i].stackset)
    BY DEF Alternating
  <2>1. i \in 1..n /\ w[i] = q[i] /\ n > 0
    <3> HIDE DEF w, n, e
    <3> QED BY <1>5
  <2>2. CASE i = n
    <3>1. w[i + 1] = Deleted(x)
      <4> HIDE DEF w, n
      <4> QED BY <1>5, <2>2
    <3>2. w[i] = Added(x)
      BY <1>8, <2>1, <2>2
    <3>3. ~w[i].deleted
      BY <3>2 DEF Added
    <3>4. w[i].stackset = x
      BY <3>2 DEF Added
    <3> QED BY <3>1, <3>3, <3>4
  <2>3. CASE i # n
    <3>1. i \in 1..(n - 1) /\ w[i + 1] = q[i + 1]
      <4> HIDE DEF w, n, e
      <4> QED BY <1>5, <2>1, <2>3
    <3> QED BY <1>8, <2>1, <3>1 DEF Alternating
  <2> QED BY <2>2, <2>3
<1>10. ComesBefore(c, st, w[1])
  <2>1. CASE n > 0
    <3>1. w[1] = q[1]
      <4> HIDE DEF w, n
      <4> QED BY <1>5, <2>1
    <3> QED BY <1>8, <2>1, <3>1
  <2>2. CASE ~(n > 0)
    <3>1. w[1] = e
      <4> HIDE DEF w, n
      <4> QED BY <1>5, <2>2
    <3>2. q = <<>>
      <4>1. n = 0
        <5> HIDE DEF n
        <5> QED BY <1>5, <2>2
      <4> QED BY <4>1, EmptySeq
    <3>3. st = Owned(c, x)
      BY <3>2 DEF InStep
    <3> HIDE DEF w, e
    <3> QED BY <1>2, <1>3, <3>1, <3>3 DEF ComesBefore
  <2> QED BY <2>1, <2>2
<1> QED
  <2> HIDE DEF w, e, n
  <2>1. InStep(c, w, NoStackSet, st)
    BY <1>6, <1>7, <1>9, <1>10 DEF InStep
  <2> QED BY <2>1 DEF w, e

-----------------------------------------------------------------------------
(***************************************************************************)
(* What the actions have in common.                                        *)
(***************************************************************************)
\* The informers that watch see a change, the others do not.
LEMMA Told ==
    ASSUME TypeOK, NEW e \in Events, NEW ss \in StackSetsOrNone, Notify(e, ss)
    PROVE  /\ cache' \in [Controllers -> StackSetsOrNone]
           /\ events' \in [Controllers -> Seq(Events)]
           /\ watching' = watching
           /\ \A c \in watching : cache'[c] = ss /\ events'[c] = Waiting(events[c], e)
           /\ \A c \in Controllers \ watching :
                cache'[c] = cache[c] /\ events'[c] = events[c]
           /\ \A c \in Controllers : \A i \in 1..Len(events'[c]) :
                events'[c][i] = e \/ \E j \in 1..Len(events[c]) : events'[c][i] = events[c][j]
<1>1. /\ watching' = watching /\ watching \subseteq Controllers
      /\ cache' = [c \in Controllers |-> IF c \in watching THEN ss ELSE cache[c]]
      /\ events' = [c \in Controllers |->
                      IF c \in watching THEN Waiting(events[c], e) ELSE events[c]]
  BY DEF Notify, TypeOK
<1>2. cache \in [Controllers -> StackSetsOrNone] /\ events \in [Controllers -> Seq(Events)]
  BY DEF TypeOK, Events
<1>3. ASSUME NEW c \in Controllers
      PROVE  /\ events'[c] \in Seq(Events)
             /\ \A i \in 1..Len(events'[c]) :
                  events'[c][i] = e \/ \E j \in 1..Len(events[c]) : events'[c][i] = events[c][j]
  <2> DEFINE q == events[c]
             w == events'[c]
             n == Staying(q, e)
  <2>1. q \in Seq(Events)
    BY <1>2
  <2>2. CASE c \in watching
    <3>1. w = Waiting(q, e)
      BY <1>1, <2>2
    <3> HIDE DEF q, w
    <3>2. /\ Waiting(q, e) \in Seq(Events)
          /\ Len(Waiting(q, e)) = n + 1
          /\ Waiting(q, e)[n + 1] = e
          /\ \A i \in 1..n : Waiting(q, e)[i] = q[i]
          /\ n \in Nat /\ n <= Len(q)
      BY <2>1, WaitingIs
    <3> HIDE DEF n
    <3>3. Len(q) \in Nat
      BY <2>1
    <3>4. ASSUME NEW i \in 1..Len(w)
          PROVE  w[i] = e \/ \E j \in 1..Len(q) : w[i] = q[j]
      <4>1. CASE i = n + 1
        BY <3>1, <3>2, <4>1
      <4>2. CASE i # n + 1
        <5>1. i \in 1..n /\ i \in 1..Len(q)
          BY <3>1, <3>2, <3>3, <4>2
        <5> QED BY <3>1, <3>2, <5>1
      <4> QED BY <4>1, <4>2
    <3> QED BY <3>1, <3>2, <3>4 DEF w, q
  <2>3. CASE c \notin watching
    BY <1>1, <2>1, <2>3
  <2> QED BY <2>2, <2>3
<1> QED BY <1>1, <1>2, <1>3

\* A StackSet is stored by the API server, as one that was not there or in the place of
\* the same incarnation.
LEMMA StoredCoherently ==
    ASSUME TypeOK, Coherence, NEW ss \in StackSets, Store(ss),
           stackset = NoStackSet \/ stackset.uid = ss.uid, UNCHANGED <<store, missed>>
    PROVE  Coherence'
<1>1. Added(ss) \in Events /\ ss \in StackSetsOrNone
  BY DEF Added, Events, StackSetsOrNone
<1>2. Notify(Added(ss), ss) /\ stackset' = ss
  BY DEF Store
<1> SUFFICES ASSUME NEW c \in Controllers
             PROVE  /\ c \in watching' => cache'[c] = stackset'
                    /\ ~missed' => InStep(c, events'[c], cache'[c], store'[c])
  BY DEF Coherence
<1>3. stackset \in StackSetsOrNone /\ events[c] \in Seq(Events)
  BY DEF TypeOK, Events
<1>4. CASE c \in watching
  <2>1. cache'[c] = ss /\ events'[c] = Waiting(events[c], Added(ss)) /\ cache[c] = stackset
    BY <1>1, <1>2, <1>4, Told DEF Coherence
  <2>2. ASSUME ~missed PROVE InStep(c, Waiting(events[c], Added(ss)), ss, store[c])
    <3>1. InStep(c, events[c], stackset, store[c])
      BY <2>1, <2>2 DEF Coherence
    <3> QED BY <1>3, <3>1, InStepAdded
  <2> QED BY <1>2, <2>1, <2>2
<1>5. CASE c \notin watching
  <2>1. cache'[c] = cache[c] /\ events'[c] = events[c] /\ c \notin watching'
    BY <1>1, <1>2, <1>5, Told
  <2> QED BY <2>1 DEF Coherence
<1> QED BY <1>4, <1>5

\* Nothing strays with a StackSet that counts as observed only if its stack was created.
LEMMA StoredWithoutStraying ==
    ASSUME TypeOK, NothingStrayed, NEW ss \in StackSets, Store(ss), ~stray, OnlyOwn(ss),
           created' = created
    PROVE  /\ OnlyOwn(stackset)'
           /\ \A c \in Controllers : \A i \in 1..Len(events'[c]) :
                events'[c][i].stackset.observed => events'[c][i].stackset.uid \in created'
<1>1. Added(ss) \in Events /\ ss \in StackSetsOrNone
  BY DEF Added, Events, StackSetsOrNone
<1>2. Notify(Added(ss), ss) /\ stackset' = ss
  BY DEF Store
<1>3. Added(ss).stackset = ss
  BY DEF Added
<1>4. ASSUME NEW c \in Controllers, NEW i \in 1..Len(events'[c])
      PROVE  events'[c][i].stackset.observed => events'[c][i].stackset.uid \in created'
  <2>1. \/ events'[c][i] = Added(ss)
        \/ \E j \in 1..Len(events[c]) : events'[c][i] = events[c][j]
    BY <1>1, <1>2, Told
  <2>2. \A j \in 1..Len(events[c]) : OnlyOwn(events[c][j].stackset)
    BY DEF NothingStrayed
  <2> QED BY <1>3, <2>1, <2>2 DEF OnlyOwn
<1> QED BY <1>2, <1>4 DEF OnlyOwn

\* A worker that has finished leaves what it knew, or all do as the pass ends.
LEMMA Finished ==
    ASSUME TypeOK, HasContainer, NEW c \in Controllers, NEW u \in UIDs, Finish(c, u)
    PROVE  /\ pc' \in [Controllers -> [UIDs -> {"out", "create", "observe", "status", "done"}]]
           /\ seen' \in [Controllers -> [UIDs -> StackSetsOrNone]]
           /\ listed' \in [Controllers -> SUBSET UIDs]
           /\ \A d \in Controllers, v \in UIDs :
                /\ seen'[d][v] \in {seen[d][v], NoStackSet}
                /\ pc'[d][v] \in {"create", "observe", "status"} =>
                     pc'[d][v] = pc[d][v] /\ seen'[d][v] = seen[d][v]
<1> DEFINE pcs == [pc[c] EXCEPT ![u] = "done"]
           labels == {"out", "create", "observe", "status", "done"}
           last == \A v \in UIDs : pcs[v] = "done"
<1>1. /\ pc \in [Controllers -> [UIDs -> labels]]
      /\ seen \in [Controllers -> [UIDs -> StackSetsOrNone]]
      /\ listed \in [Controllers -> SUBSET UIDs]
  BY DEF TypeOK
<1>2. /\ pcs \in [UIDs -> labels] /\ Outside \in [UIDs -> labels]
      /\ \A v \in UIDs : pcs[v] \in {pc[c][v], "done"}
      /\ Nothing \in [UIDs -> StackSetsOrNone]
  BY <1>1 DEF Outside, Nothing, StackSetsOrNone
<1>3. /\ pc' = [pc EXCEPT ![c] = IF last THEN Outside ELSE pcs]
      /\ seen' = [seen EXCEPT ![c] = IF last THEN Nothing ELSE @]
      /\ listed' = [listed EXCEPT ![c] = IF last THEN {} ELSE @]
  BY DEF Finish
<1> HIDE DEF pcs, last, labels
<1>4. /\ pc' \in [Controllers -> [UIDs -> labels]]
      /\ seen' \in [Controllers -> [UIDs -> StackSetsOrNone]]
      /\ listed' \in [Controllers -> SUBSET UIDs]
  BY <1>1, <1>2, <1>3
<1>5. ASSUME NEW d \in Controllers, NEW v \in UIDs
      PROVE  /\ seen'[d][v] \in {seen[d][v], NoStackSet}
             /\ pc'[d][v] \in {"create", "observe", "status"} =>
                  pc'[d][v] = pc[d][v] /\ seen'[d][v] = seen[d][v]
  BY <1>1, <1>2, <1>3 DEF Outside, Nothing
<1> QED BY <1>4, <1>5 DEF labels

-----------------------------------------------------------------------------
(***************************************************************************)
(* The type invariant, with what it rests on.                              *)
(***************************************************************************)
Typed == TypeOK /\ HasContainer

\* What an event makes of the store of an incarnation is nothing or the StackSet it tells.
LEMMA TakenIs ==
    ASSUME NEW c, NEW e
    PROVE  Taken(c, e) \in {e.stackset, NoStackSet}
BY DEF Taken

\* A list of the StackSets makes a queue of events.
LEMMA ListedTyped == ASSUME NEW ss \in StackSetsOrNone PROVE Listed(ss) \in Seq(Events)
<1>1. \A e \in Events : <<e>> \in Seq(Events)
  OBVIOUS
<1>2. CASE ss = NoStackSet
  BY <1>2, EmptySeq DEF Listed
<1>3. CASE ss # NoStackSet
  <2>1. Added(ss) \in Events
    BY <1>3 DEF Added, Events, StackSetsOrNone
  <2> QED BY <1>1, <1>3, <2>1 DEF Listed
<1> QED BY <1>2, <1>3

\* The types in the initial states.
LEMMA InitTyped == Init => Typed
<1> SUFFICES ASSUME Init PROVE Typed
  OBVIOUS
<1>1. First \in UIDs
  BY FirstIs
<1>2. stackset \in StackSets
  BY <1>1, NewIs DEF Init
<1>3. stackset \in StackSetsOrNone /\ Listed(stackset) \in Seq(Events)
  BY <1>2, ListedTyped DEF StackSetsOrNone
<1>4. events \in [Controllers -> Seq(Events)]
  BY <1>3 DEF Init
<1>5. Nothing \in [UIDs -> StackSetsOrNone] /\ \A u \in UIDs : Nothing[u] = NoStackSet
  BY DEF Nothing, StackSetsOrNone
<1>6. Outside \in [UIDs -> {"out", "create", "observe", "status", "done"}]
      /\ \A u \in UIDs : Outside[u] = "out"
  BY DEF Outside
<1>7. TypeOK
  <2>1. stackset \in StackSetsOrNone /\ latest \in UIDs /\ stack \in UIDs \union {NoStack}
        /\ watching \subseteq Controllers /\ cache \in [Controllers -> StackSetsOrNone]
    BY <1>1, <1>3 DEF Init
  <2>2. /\ store \in [Controllers -> [UIDs -> StackSetsOrNone]]
        /\ seen \in [Controllers -> [UIDs -> StackSetsOrNone]]
        /\ pc \in [Controllers -> [UIDs -> {"out", "create", "observe", "status", "done"}]]
        /\ listed \in [Controllers -> SUBSET UIDs]
    BY <1>5, <1>6 DEF Init
  <2>3. /\ created \subseteq UIDs /\ stray \in BOOLEAN /\ missed \in BOOLEAN
        /\ edits \in 0..MaxEdits /\ failures \in 0..MaxFailures
    <3>1. 0 \in 0..MaxEdits /\ 0 \in 0..MaxFailures
      BY BoundsAssumption
    <3> QED BY <3>1 DEF Init
  <2> QED BY <1>4, <2>1, <2>2, <2>3 DEF TypeOK, Events
<1>8. HasContainer
  BY <1>5, <1>6 DEF Init, HasContainer
<1> QED BY <1>7, <1>8 DEF Typed

\* The types when an event is taken.
LEMMA EventTyped ==
    ASSUME Typed, NEW c \in Controllers, TakeEvent(c)
    PROVE  Typed'
<1> DEFINE e == Head(events[c])
           u == e.stackset.uid
<1>1. events[c] \in Seq(Events) /\ events[c] # <<>>
      /\ events \in [Controllers -> Seq(Events)]
  BY DEF TakeEvent, Typed, TypeOK, Events
<1>2. e \in Events /\ Tail(events[c]) \in Seq(Events)
  BY <1>1, HeadTailProperties
<1>3. e.stackset \in StackSets
  BY <1>2 DEF Events
<1>4. u \in UIDs /\ Taken(c, e) \in {ss \in StackSets : ss.uid = u} \union {NoStackSet}
  <2>1. Taken(c, e) \in {e.stackset, NoStackSet}
    BY TakenIs
  <2> QED BY <1>3, <2>1, NoneIsOut
<1>5. store' = [store EXCEPT ![c][u] = Taken(c, e)]
      /\ events' = [events EXCEPT ![c] = Tail(@)]
      /\ UNCHANGED <<stackset, latest, stack, watching, cache, pc, seen, listed, created,
                     stray, missed, edits, failures>>
  BY DEF TakeEvent, cluster, pass, history, bounds
<1> HIDE DEF e, u
<1>6. events' \in [Controllers -> Seq(Events)]
  BY <1>1, <1>2, <1>5
<1>7. store \in [Controllers -> [UIDs -> StackSetsOrNone]]
  BY DEF Typed, TypeOK
<1>8. store' \in [Controllers -> [UIDs -> StackSetsOrNone]]
  BY <1>4, <1>5, <1>7 DEF StackSetsOrNone
<1>9. \A d \in Controllers, v \in UIDs :
        store'[d][v] \in {ss \in StackSets : ss.uid = v} \union {NoStackSet}
  BY <1>4, <1>5, <1>7 DEF Typed, HasContainer
<1>10. TypeOK'
  BY <1>5, <1>6, <1>8 DEF Typed, TypeOK, Events
<1>11. HasContainer'
  BY <1>5, <1>9 DEF Typed, HasContainer
<1> QED BY <1>10, <1>11 DEF Typed

\* The types when a pass collects.
LEMMA CollectTyped ==
    ASSUME Typed, NEW c \in Controllers, Collect(c)
    PROVE  Typed'
<1> DEFINE label(u) == IF store[c][u] = NoStackSet THEN "done"
                       ELSE IF Missing(store[c][u], stack = u) THEN "create" ELSE "status"
           labels == {"out", "create", "observe", "status", "done"}
<1>1. /\ seen' = [seen EXCEPT ![c] = store[c]]
      /\ listed' = [listed EXCEPT ![c] = {u \in UIDs : stack = u}]
      /\ pc' = [pc EXCEPT ![c] = [u \in UIDs |-> label(u)]]
      /\ UNCHANGED <<stackset, latest, stack, watching, cache, events, store, created,
                     stray, missed, edits, failures>>
  BY DEF Collect, cluster, informers, history, bounds
<1>2. \A u \in UIDs : label(u) \in labels /\ (store[c][u] = NoStackSet => label(u) = "done")
  OBVIOUS
<1> HIDE DEF label
<1>3. TypeOK'
  BY <1>1, <1>2 DEF Typed, TypeOK
<1>4. HasContainer'
  BY <1>1, <1>2 DEF Typed, TypeOK, HasContainer
<1> QED BY <1>3, <1>4 DEF Typed

\* The types when a stack is created, or fails to be.
LEMMA CreateTyped ==
    ASSUME Typed, NEW c \in Controllers, NEW u \in UIDs,
           CreateStack(c, u) \/ CreateFails(c, u)
    PROVE  Typed'
<1>1. /\ pc[c][u] = "create"
      /\ pc' = [pc EXCEPT ![c][u] = "observe"] \/ pc' = [pc EXCEPT ![c][u] = "status"]
      /\ stack' \in {stack, u} /\ created' \in {created, created \union {u}}
      /\ UNCHANGED <<stackset, latest, watching, cache, events, store, seen, listed, stray,
                     missed>>
  BY DEF CreateStack, CreateFails, StackAppears, Goto, informers
<1>2. edits' \in 0..MaxEdits /\ failures' \in 0..MaxFailures
  BY BoundsAssumption DEF CreateStack, CreateFails, Fail, bounds, Typed, TypeOK
<1>3. PICK label \in {"observe", "status"} : pc' = [pc EXCEPT ![c][u] = label]
  BY <1>1
<1>4. pc \in [Controllers -> [UIDs -> {"out", "create", "observe", "status", "done"}]]
  BY DEF Typed, TypeOK
<1>5. pc' \in [Controllers -> [UIDs -> {"out", "create", "observe", "status", "done"}]]
  BY <1>3, <1>4
<1>6. stack' \in UIDs \union {NoStack} /\ created' \subseteq UIDs
  BY <1>1 DEF Typed, TypeOK
<1>7. TypeOK'
  BY <1>1, <1>2, <1>5, <1>6 DEF Typed, TypeOK
<1>8. \A d \in Controllers, v \in UIDs :
        pc'[d][v] \in {"create", "observe", "status"} => seen[d][v] # NoStackSet
  BY <1>1, <1>3, <1>4 DEF Typed, HasContainer
<1>9. HasContainer'
  BY <1>1, <1>8 DEF Typed, HasContainer
<1> QED BY <1>7, <1>9 DEF Typed

\* The types when the observed version is written.
LEMMA ObserveTyped ==
    ASSUME Typed, NEW c \in Controllers, NEW u \in UIDs, ObserveVersion(c, u)
    PROVE  Typed'
<1> DEFINE ss == [stackset EXCEPT !.observed = TRUE]
<1>1. /\ pc[c][u] = "observe"
      /\ pc' = [pc EXCEPT ![c][u] = "status"]
      /\ UNCHANGED <<latest, stack, store, created, stray, missed, edits, failures>>
  BY DEF ObserveVersion, Goto, history, bounds
<1>2. seen[c][u] \in StackSets /\ seen[c][u].uid = u
  BY <1>1 DEF Typed, HasContainer
<1>3. CASE seen[c][u] = stackset
  <2>1. /\ Store(ss) /\ seen' = [seen EXCEPT ![c][u] = stackset']
        /\ listed' = [listed EXCEPT ![c] = @ \union {u}]
    BY <1>3 DEF ObserveVersion, RecordVersion
  <2>2. ss \in StackSets /\ ss.uid = u
    BY <1>2, <1>3 DEF StackSets
  <2>3. stackset' = ss /\ Notify(Added(ss), ss) /\ Added(ss) \in Events
        /\ ss \in StackSetsOrNone
    BY <2>1, <2>2 DEF Store, Added, Events, StackSetsOrNone
  <2> HIDE DEF ss
  <2>4. /\ cache' \in [Controllers -> StackSetsOrNone]
        /\ events' \in [Controllers -> Seq(Events)] /\ watching' = watching
    BY <2>3, Told DEF Typed
  <2>5. TypeOK'
    BY <1>1, <2>1, <2>3, <2>4 DEF Typed, TypeOK, Events
  <2>6. HasContainer'
    <3>1. ss # NoStackSet
      BY <2>2, NoneIsOut
    <3>2. seen \in [Controllers -> [UIDs -> StackSetsOrNone]]
          /\ pc \in [Controllers -> [UIDs -> {"out", "create", "observe", "status", "done"}]]
      BY DEF Typed, TypeOK
    <3>3. ASSUME NEW d \in Controllers, NEW v \in UIDs
          PROVE  /\ seen'[d][v] = IF d = c /\ v = u THEN ss ELSE seen[d][v]
                 /\ pc'[d][v] = IF d = c /\ v = u THEN "status" ELSE pc[d][v]
      BY <1>1, <2>1, <2>3, <3>2
    <3> QED BY <1>1, <2>2, <3>1, <3>3 DEF Typed, HasContainer
  <2> QED BY <2>5, <2>6 DEF Typed
<1>4. CASE seen[c][u] # stackset
  <2>1. UNCHANGED <<stackset, watching, cache, events, seen, listed>>
    BY <1>4 DEF ObserveVersion, informers
  <2>2. TypeOK'
    BY <1>1, <2>1 DEF Typed, TypeOK
  <2>3. HasContainer'
    BY <1>1, <2>1 DEF Typed, TypeOK, HasContainer
  <2> QED BY <2>2, <2>3 DEF Typed
<1> QED BY <1>3, <1>4

\* What is recorded is the StackSet of the pass, which is still there.
LEMMA RecordIs ==
    ASSUME Typed, NEW c \in Controllers, NEW u \in UIDs, pc[c][u] = "observe",
           RecordVersion(c, u)
    PROVE  \E ss \in StackSets : ss.uid = u /\ stackset.uid = u /\ Store(ss)
<1> DEFINE ss == [stackset EXCEPT !.observed = TRUE]
<1>1. seen[c][u] \in StackSets /\ seen[c][u].uid = u /\ seen[c][u] = stackset /\ Store(ss)
  BY DEF RecordVersion, Typed, HasContainer
<1>2. ss \in StackSets /\ ss.uid = u
  BY <1>1 DEF StackSets
<1> HIDE DEF ss
<1> QED BY <1>1, <1>2

\* The types when recording the version fails, with or without effect.
LEMMA ObserveFailsTyped ==
    ASSUME Typed, NEW c \in Controllers, NEW u \in UIDs, ObserveFails(c, u)
    PROVE  Typed'
<1>1. /\ pc[c][u] = "observe" /\ pc' = [pc EXCEPT ![c][u] = "status"] /\ Fail
      /\ UNCHANGED <<latest, stack, store, seen, listed, created, stray, missed>>
  BY DEF ObserveFails, Goto, history
<1>2. edits' \in 0..MaxEdits /\ failures' \in 0..MaxFailures
  BY <1>1, BoundsAssumption DEF Fail, Typed, TypeOK
<1>3. /\ stackset' \in StackSetsOrNone /\ watching' = watching
      /\ cache' \in [Controllers -> StackSetsOrNone]
      /\ events' \in [Controllers -> Seq(Events)]
  <2>1. CASE RecordVersion(c, u)
    <3>1. PICK ss \in StackSets : Store(ss)
      BY <1>1, <2>1, RecordIs
    <3>2. stackset' = ss /\ Notify(Added(ss), ss) /\ Added(ss) \in Events
          /\ ss \in StackSetsOrNone
      BY <3>1 DEF Store, Added, Events, StackSetsOrNone
    <3> QED BY <3>2, Told DEF Typed
  <2>2. CASE UNCHANGED <<stackset, informers>>
    BY <2>2 DEF informers, Typed, TypeOK, Events
  <2> QED BY <2>1, <2>2 DEF ObserveFails
<1>4. TypeOK'
  BY <1>1, <1>2, <1>3 DEF Typed, TypeOK, Events
<1>5. HasContainer'
  <2>1. pc \in [Controllers -> [UIDs -> {"out", "create", "observe", "status", "done"}]]
    BY DEF Typed, TypeOK
  <2>2. \A d \in Controllers, v \in UIDs :
          pc'[d][v] = IF d = c /\ v = u THEN "status" ELSE pc[d][v]
    BY <1>1, <2>1
  <2> QED BY <1>1, <2>2 DEF Typed, HasContainer
<1> QED BY <1>4, <1>5 DEF Typed

\* A status is written for a StackSet that is there.
LEMMA StatusIs ==
    ASSUME Typed, NEW c \in Controllers, NEW u \in UIDs, pc[c][u] = "status",
           NEW ss \in StackSets
    PROVE  /\ WithStatus(c, u, ss) \in StackSets
           /\ WithStatus(c, u, ss).uid = ss.uid
           /\ WithStatus(c, u, ss).observed = seen[c][u].observed
<1>1. seen[c][u] \in StackSets
  BY DEF Typed, HasContainer
<1>2. seen[c][u].observed \in BOOLEAN
  BY <1>1 DEF StackSets
<1> QED BY <1>2 DEF WithStatus, StackSets

\* The types when the status of a StackSet is written.
LEMMA StatusTyped ==
    ASSUME Typed, NEW c \in Controllers, NEW u \in UIDs, ReconcileStatuses(c, u)
    PROVE  Typed'
<1> DEFINE ss == WithStatus(c, u, stackset)
<1>1. /\ pc[c][u] = "status" /\ Finish(c, u)
      /\ UNCHANGED <<latest, stack, store, created, missed, edits, failures>>
  BY DEF ReconcileStatuses, bounds
<1>2. /\ stackset' \in StackSetsOrNone /\ watching' = watching /\ stray' \in BOOLEAN
      /\ cache' \in [Controllers -> StackSetsOrNone]
      /\ events' \in [Controllers -> Seq(Events)]
  <2>1. CASE UNCHANGED <<stackset, informers, stray>>
    BY <2>1 DEF informers, Typed, TypeOK, Events
  <2>2. CASE /\ stackset # NoStackSet /\ Store(ss)
             /\ stray' = (stray \/ stackset.uid # u)
    <3>1. stackset \in StackSets /\ stray \in BOOLEAN
      BY <2>2 DEF Typed, TypeOK, StackSetsOrNone
    <3>2. ss \in StackSets
      BY <1>1, <3>1, StatusIs
    <3> HIDE DEF ss
    <3>3. stackset' = ss /\ Notify(Added(ss), ss) /\ Added(ss) \in Events
          /\ ss \in StackSetsOrNone
      BY <2>2, <3>2 DEF Store, Added, Events, StackSetsOrNone
    <3> QED BY <2>2, <3>1, <3>3, Told DEF Typed
  <2> QED BY <2>1, <2>2 DEF ReconcileStatuses
<1>3. TypeOK'
  BY <1>1, <1>2, Finished DEF Typed, TypeOK, Events
<1>4. HasContainer'
  BY <1>1, Finished DEF Typed, HasContainer
<1> QED BY <1>3, <1>4 DEF Typed

\* The types when a controller restarts, loses its watch, or fails in a pass.
LEMMA FailureTyped ==
    ASSUME Typed, NEW c \in Controllers,
           Restart(c) \/ Interrupt(c) \/ \E u \in UIDs : PassFails(c, u)
    PROVE  Typed'
<1>1. edits' \in 0..MaxEdits /\ failures' \in 0..MaxFailures
  BY BoundsAssumption DEF Restart, Interrupt, PassFails, Fail, Typed, TypeOK
<1>2. CASE Restart(c)
  <2>1. Listed(stackset) \in Seq(Events)
    BY ListedTyped DEF Typed, TypeOK
  <2>2. events \in [Controllers -> Seq(Events)]
    BY DEF Typed, TypeOK, Events
  <2>3. events' \in [Controllers -> Seq(Events)]
    BY <1>2, <2>1, <2>2 DEF Restart
  <2>4. Nothing \in [UIDs -> StackSetsOrNone] /\ \A u \in UIDs : Nothing[u] = NoStackSet
    BY DEF Nothing, StackSetsOrNone
  <2>5. Outside \in [UIDs -> {"out", "create", "observe", "status", "done"}]
        /\ \A u \in UIDs : Outside[u] = "out"
    BY DEF Outside
  <2>6. TypeOK'
    BY <1>1, <1>2, <2>3, <2>4, <2>5 DEF Restart, cluster, history, Typed, TypeOK, Events
  <2>7. HasContainer'
    BY <1>2, <2>4, <2>5 DEF Restart, Typed, TypeOK, HasContainer
  <2> QED BY <2>6, <2>7 DEF Typed
<1>3. CASE Interrupt(c)
  <2>1. TypeOK'
    BY <1>1, <1>3 DEF Interrupt, cluster, pass, history, Typed, TypeOK
  <2>2. HasContainer'
    BY <1>3 DEF Interrupt, pass, Typed, HasContainer
  <2> QED BY <2>1, <2>2 DEF Typed
<1>4. ASSUME NEW u \in UIDs, PassFails(c, u) PROVE Typed'
  <2>1. /\ Finish(c, u)
        /\ UNCHANGED <<stackset, latest, stack, watching, cache, events, store, created,
                       stray, missed>>
    BY <1>4 DEF PassFails, cluster, informers, history
  <2>2. TypeOK'
    BY <1>1, <2>1, Finished DEF Typed, TypeOK
  <2>3. HasContainer'
    BY <2>1, Finished DEF Typed, HasContainer
  <2> QED BY <2>2, <2>3 DEF Typed
<1> QED BY <1>2, <1>3, <1>4

\* The types when users write, the garbage is collected, or a watch starts again.
LEMMA EnvironmentTyped ==
    ASSUME Typed, Environment
    PROVE  Typed'
<1>1. CASE UserDeletes
  <2>1. /\ stackset \in StackSets /\ stackset' = NoStackSet
        /\ Notify(Deleted(stackset), NoStackSet)
        /\ UNCHANGED <<latest, stack, store, pc, seen, listed, created, stray, missed, edits,
                       failures>>
    BY <1>1 DEF UserDeletes, pass, history, bounds, Typed, TypeOK, StackSetsOrNone
  <2>2. Deleted(stackset) \in Events /\ NoStackSet \in StackSetsOrNone
    BY <2>1 DEF Deleted, Events, StackSetsOrNone
  <2>3. /\ cache' \in [Controllers -> StackSetsOrNone]
        /\ events' \in [Controllers -> Seq(Events)] /\ watching' = watching
    BY <2>1, <2>2, Told DEF Typed
  <2>4. TypeOK'
    BY <2>1, <2>2, <2>3 DEF Typed, TypeOK, Events
  <2>5. HasContainer'
    BY <2>1 DEF Typed, HasContainer
  <2> QED BY <2>4, <2>5 DEF Typed
<1>2. CASE CollectGarbage
  <2>1. /\ stack' = NoStack
        /\ UNCHANGED <<stackset, latest, watching, cache, events, store, pc, seen, listed,
                       created, stray, missed, edits, failures>>
    BY <1>2 DEF CollectGarbage, informers, pass, history, bounds
  <2>2. TypeOK'
    BY <2>1 DEF Typed, TypeOK
  <2>3. HasContainer'
    BY <2>1 DEF Typed, HasContainer
  <2> QED BY <2>2, <2>3 DEF Typed
<1>3. ASSUME NEW ss \in StackSets, Store(ss), latest' \in UIDs, edits' \in 0..MaxEdits,
             UNCHANGED <<stack, store, pc, seen, listed, created, stray, missed, failures>>
      PROVE  Typed'
  <2>1. /\ stackset' = ss /\ Notify(Added(ss), ss) /\ Added(ss) \in Events
        /\ ss \in StackSetsOrNone
    BY <1>3 DEF Store, Added, Events, StackSetsOrNone
  <2>2. /\ cache' \in [Controllers -> StackSetsOrNone]
        /\ events' \in [Controllers -> Seq(Events)] /\ watching' = watching
    BY <2>1, Told DEF Typed
  <2>3. TypeOK'
    BY <1>3, <2>1, <2>2 DEF Typed, TypeOK, Events
  <2>4. HasContainer'
    BY <1>3 DEF Typed, HasContainer
  <2> QED BY <2>3, <2>4 DEF Typed
<1>4. ASSUME NEW c \in Controllers, UserChangesOwner(c) PROVE Typed'
  <2>1. [stackset EXCEPT !.owner = c] \in StackSets
    BY <1>4 DEF UserChangesOwner, Typed, TypeOK, StackSetsOrNone, StackSets
  <2>2. edits' \in 0..MaxEdits /\ latest' \in UIDs
    BY <1>4, BoundsAssumption DEF UserChangesOwner, Typed, TypeOK
  <2> QED BY <1>3, <1>4, <2>1, <2>2 DEF UserChangesOwner, pass, history
<1>5. ASSUME NEW c \in Controllers, NEW u \in UIDs, UserCreates(u, c) PROVE Typed'
  <2>1. New(u, c) \in StackSets
    BY NewIs
  <2>2. edits' \in 0..MaxEdits /\ latest' \in UIDs
    BY <1>5 DEF UserCreates, bounds, Typed, TypeOK
  <2> QED BY <1>3, <1>5, <2>1, <2>2 DEF UserCreates, pass, history, bounds
<1>6. ASSUME NEW c \in Controllers, Relist(c) PROVE Typed'
  <2>1. events \in [Controllers -> Seq(Events)]
    BY DEF Typed, TypeOK, Events
  <2>2. events' \in [Controllers -> Seq(Events)]
    <3>1. CASE stackset = NoStackSet
      BY <1>6, <2>1, <3>1 DEF Relist
    <3>2. CASE stackset # NoStackSet
      <4>1. Added(stackset) \in Events
        BY <3>2 DEF Typed, TypeOK, StackSetsOrNone, Added, Events
      <4>2. Waiting(events[c], Added(stackset)) \in Seq(Events)
        BY <2>1, <4>1, WaitingIs
      <4>3. events' = [events EXCEPT ![c] = Waiting(@, Added(stackset))]
        BY <1>6, <3>2 DEF Relist
      <4> QED BY <2>1, <4>2, <4>3
    <3> QED BY <3>1, <3>2
  <2>3. missed' \in BOOLEAN
    BY <1>6 DEF Relist, Typed, TypeOK
  <2>4. TypeOK'
    BY <1>6, <2>2, <2>3 DEF Relist, cluster, pass, bounds, Typed, TypeOK, Events
  <2>5. HasContainer'
    BY <1>6 DEF Relist, pass, Typed, HasContainer
  <2> QED BY <2>4, <2>5 DEF Typed
<1> QED BY <1>1, <1>2, <1>4, <1>5, <1>6 DEF Environment

\* The types are kept by every step.
LEMMA NextTyped == Typed /\ [Next]_vars => Typed'
<1> SUFFICES ASSUME Typed, [Next]_vars PROVE Typed'
  OBVIOUS
<1>1. CASE UNCHANGED vars
  BY <1>1 DEF vars, cluster, informers, pass, history, bounds, Typed, TypeOK, HasContainer
<1>2. CASE Environment
  BY <1>2, EnvironmentTyped
<1>3. ASSUME NEW c \in Controllers, TakeEvent(c) \/ Pass(c) \/ Failure(c) PROVE Typed'
  BY <1>3, EventTyped, CollectTyped, CreateTyped, ObserveTyped, ObserveFailsTyped,
     StatusTyped, FailureTyped
     DEF Pass, Worker, Failure
<1> QED BY <1>1, <1>2, <1>3 DEF Next

(***************************************************************************)
(* Type correctness of the main loop.                                      *)
(***************************************************************************)
THEOREM TypeCorrect == Spec => []TypeOK
<1>1. Typed => TypeOK
  BY DEF Typed
<1> QED BY <1>1, InitTyped, NextTyped, PTL DEF Spec

-----------------------------------------------------------------------------
(***************************************************************************)
(* Stores.                                                                 *)
(***************************************************************************)
\* What the informer lists puts a controller that knows nothing in step.
LEMMA ListedInStep ==
    ASSUME NEW c \in Controllers, NEW ss \in StackSetsOrNone
    PROVE  InStep(c, Listed(ss), ss, Nothing)
<1>1. CASE ss = NoStackSet
  <2>1. Listed(ss) = <<>> /\ Alternating(<<>>)
    BY <1>1 DEF Listed, Alternating
  <2> QED BY <1>1, <2>1, OwnedNothing DEF InStep
<1>2. CASE ss # NoStackSet
  <2> DEFINE q == <<Added(ss)>>
  <2>1. Listed(ss) = q
    BY <1>2 DEF Listed
  <2>2. Len(q) = 1 /\ q # <<>> /\ q[1] = Added(ss)
    OBVIOUS
  <2> HIDE DEF q
  <2>3. 1..(Len(q) - 1) = {}
    BY <2>2
  <2>4. Alternating(q)
    BY <2>3 DEF Alternating
  <2>5. ComesBefore(c, Nothing, Added(ss))
    BY DEF ComesBefore, Added, Nothing
  <2> QED BY <1>2, <2>1, <2>2, <2>4, <2>5 DEF InStep, LeadsTo
<1> QED BY <1>1, <1>2

\* The first event is taken.
LEMMA InStepTaken ==
    ASSUME NEW c \in Controllers, NEW q \in Seq(Events), q # <<>>, NEW x \in StackSetsOrNone,
           store[c] \in [UIDs -> StackSetsOrNone], InStep(c, q, x, store[c])
    PROVE  InStep(c, Tail(q), x,
                  [store[c] EXCEPT ![Head(q).stackset.uid] = Taken(c, Head(q))])
<1> DEFINE e == Head(q)
           u == e.stackset.uid
           t == Tail(q)
           st == [store[c] EXCEPT ![u] = Taken(c, e)]
<1>1. /\ e = q[1] /\ e \in Events /\ t \in Seq(Events) /\ Len(q) \in Nat \ {0}
      /\ Len(t) = Len(q) - 1
      /\ \A i \in 1..Len(t) : t[i] = q[i + 1]
  BY HeadTailProperties, EmptySeq
<1>2. Alternating(q) /\ LeadsTo(q, x) /\ ComesBefore(c, store[c], e)
  BY <1>1 DEF InStep
<1>3. u \in UIDs /\ e.stackset \in StackSets
  BY <1>1 DEF Events, StackSets
<1> HIDE DEF e, t
<1>4. Alternating(t)
  <2> SUFFICES ASSUME NEW i \in 1..(Len(t) - 1)
               PROVE  IF t[i].deleted THEN ~t[i + 1].deleted
                      ELSE t[i + 1] = Deleted(t[i].stackset)
    BY DEF Alternating
  <2>1. t[i] = q[i + 1] /\ t[i + 1] = q[(i + 1) + 1] /\ i + 1 \in 1..(Len(q) - 1)
    BY <1>1
  <2> QED BY <1>2, <2>1 DEF Alternating
\* after the event the store is of the StackSet that it tells, or of none
<1>5. st = IF e.deleted THEN Nothing ELSE Owned(c, e.stackset)
  <2>1. CASE e.deleted
    <3>1. store[c] = Owned(c, e.stackset)
      BY <1>2, <2>1 DEF ComesBefore
    <3>2. Taken(c, e) = NoStackSet
      <4>1. CASE e.stackset.owner = c
        <5>1. store[c][u] # NoStackSet
          BY <1>3, <3>1, <4>1, NoneIsOut DEF Owned
        <5> QED BY <2>1, <5>1 DEF Taken
      <4>2. CASE e.stackset.owner # c
        BY <4>2 DEF Taken, HasOwnership
      <4> QED BY <4>1, <4>2
    <3>3. \A v \in UIDs : v # u => store[c][v] = NoStackSet
      BY <3>1 DEF Owned
    <3>4. st = [v \in UIDs |-> NoStackSet]
      <4> HIDE DEF u
      <4> QED BY <1>3, <3>2, <3>3
    <3> QED BY <2>1, <3>4 DEF Nothing
  <2>2. CASE ~e.deleted
    <3>1. \A v \in UIDs : v # u => store[c][v] = NoStackSet
      BY <1>2, <2>2 DEF ComesBefore
    <3>2. Taken(c, e) = IF e.stackset.owner = c THEN e.stackset ELSE NoStackSet
      BY <2>2 DEF Taken, HasOwnership
    <3>3. \A v \in UIDs : st[v] = Owned(c, e.stackset)[v]
      BY <1>3, <3>1, <3>2 DEF Owned
    <3>4. st = [v \in UIDs |-> st[v]]
      OBVIOUS
    <3>5. Owned(c, e.stackset) = [v \in UIDs |-> Owned(c, e.stackset)[v]]
      BY DEF Owned
    <3> HIDE DEF st
    <3> QED BY <2>2, <3>3, <3>4, <3>5
  <2> QED BY <2>1, <2>2
<1> HIDE DEF st
<1>6. CASE t = <<>>
  <2>1. Len(q) = 1
    BY <1>1, <1>6, EmptySeq
  <2>2. IF x = NoStackSet THEN e.deleted ELSE e = Added(x)
    BY <1>1, <1>2, <2>1 DEF LeadsTo
  <2>3. st = Owned(c, x)
    <3>1. CASE x = NoStackSet
      BY <1>5, <2>2, <3>1, OwnedNothing
    <3>2. CASE x # NoStackSet
      <4>1. ~e.deleted
        BY <2>2, <3>2 DEF Added
      <4>2. e.stackset = x
        BY <2>2, <3>2 DEF Added
      <4> QED BY <1>5, <4>1, <4>2
    <3> QED BY <3>1, <3>2
  <2>4. InStep(c, t, x, st)
    BY <1>4, <1>6, <2>3 DEF InStep
  <2> QED BY <2>4 DEF st, t, e
<1>7. CASE t # <<>>
  <2>1. Len(t) \in Nat \ {0}
    BY <1>1, <1>7, EmptySeq
  <2>2. t[1] = q[2] /\ t[Len(t)] = q[Len(q)] /\ 1 \in 1..(Len(q) - 1)
    BY <1>1, <2>1
  <2>3. LeadsTo(t, x)
    BY <1>2, <2>2 DEF LeadsTo
  <2>4. IF e.deleted THEN ~q[1 + 1].deleted ELSE q[1 + 1] = Deleted(e.stackset)
    BY <1>1, <1>2, <2>2 DEF Alternating
  <2>5. ComesBefore(c, st, t[1])
    <3>1. CASE e.deleted
      <4>1. ~t[1].deleted
        BY <2>2, <2>4, <3>1
      <4>2. st = Nothing
        BY <1>5, <3>1
      <4> QED BY <4>1, <4>2 DEF ComesBefore, Nothing
    <3>2. CASE ~e.deleted
      <4>1. t[1] = Deleted(e.stackset)
        BY <2>2, <2>4, <3>2
      <4>2. t[1].deleted
        BY <4>1 DEF Deleted
      <4>3. t[1].stackset = e.stackset
        BY <4>1 DEF Deleted
      <4> QED BY <1>5, <3>2, <4>2, <4>3 DEF ComesBefore
    <3> QED BY <3>1, <3>2
  <2>6. InStep(c, t, x, st)
    BY <1>4, <1>7, <2>3, <2>5 DEF InStep
  <2> QED BY <2>6 DEF st, t, e
<1> QED BY <1>6, <1>7

\* At first a controller has the StackSet of its list to come.
LEMMA InitCoherent == Init => Coherence
<1> SUFFICES ASSUME Init, NEW c \in Controllers
             PROVE  /\ c \in watching => cache[c] = stackset
                    /\ InStep(c, events[c], cache[c], store[c])
  BY DEF Coherence
<1>1. cache[c] = stackset /\ events[c] = Listed(stackset) /\ store[c] = Nothing
  BY DEF Init
<1>2. stackset \in StackSetsOrNone
  BY InitTyped DEF Typed, TypeOK
<1>3. InStep(c, Listed(stackset), stackset, Nothing)
  BY <1>2, ListedInStep
<1> QED BY <1>1, <1>3

\* A controller stays in step when it takes an event.
LEMMA EventCoherent ==
    ASSUME Typed, Coherence, NEW c \in Controllers, TakeEvent(c)
    PROVE  Coherence'
<1> DEFINE q == events[c]
           e == Head(q)
           u == e.stackset.uid
<1>1. q \in Seq(Events) /\ q # <<>>
  BY DEF TakeEvent, Typed, TypeOK, Events
<1>2. /\ store' = [store EXCEPT ![c][u] = Taken(c, e)]
      /\ events' = [events EXCEPT ![c] = Tail(q)]
      /\ UNCHANGED <<stackset, watching, cache, missed>>
  BY DEF TakeEvent, cluster, history
<1>3. /\ store \in [Controllers -> [UIDs -> StackSetsOrNone]]
      /\ events \in [Controllers -> Seq([deleted : BOOLEAN, stackset : StackSets])]
  BY DEF Typed, TypeOK
<1>4. ASSUME InStep(c, q, cache[c], store[c])
      PROVE  InStep(c, Tail(q), cache[c], [store[c] EXCEPT ![u] = Taken(c, e)])
  <2>1. cache[c] \in StackSetsOrNone /\ store[c] \in [UIDs -> StackSetsOrNone]
    BY <1>3 DEF Typed, TypeOK
  <2> HIDE DEF q
  <2> QED BY <1>1, <1>4, <2>1, InStepTaken
<1>5. events'[c] = Tail(q) /\ store'[c] = [store[c] EXCEPT ![u] = Taken(c, e)]
  BY <1>2, <1>3
<1>6. \A d \in Controllers \ {c} : events'[d] = events[d] /\ store'[d] = store[d]
  BY <1>2, <1>3
<1> HIDE DEF q, e, u
<1> QED BY <1>2, <1>4, <1>5, <1>6 DEF Coherence, q

\* A controller is in step after another list, unless it missed a deletion.
LEMMA RelistCoherent ==
    ASSUME Typed, Coherence, NEW c \in Controllers, Relist(c)
    PROVE  Coherence'
<1>1. /\ watching' = watching \union {c} /\ cache' = [cache EXCEPT ![c] = stackset]
      /\ missed' = (missed \/ (cache[c] # NoStackSet /\ cache[c].uid # stackset.uid))
      /\ UNCHANGED <<stackset, store>>
  BY DEF Relist, cluster
<1>2. /\ cache \in [Controllers -> StackSetsOrNone] /\ stackset \in StackSetsOrNone
      /\ events \in [Controllers -> Seq(Events)] /\ missed \in BOOLEAN
  BY DEF Typed, TypeOK, Events
<1>3. cache'[c] = stackset /\ \A d \in Controllers \ {c} : cache'[d] = cache[d]
  BY <1>1, <1>2
<1>4. \A d \in Controllers \ {c} : events'[d] = events[d]
  BY <1>2 DEF Relist
<1>5. ASSUME ~missed' PROVE InStep(c, events'[c], stackset, store[c])
  <2>1. ~missed /\ (cache[c] = NoStackSet \/ cache[c].uid = stackset.uid)
    BY <1>1, <1>5
  <2>2. InStep(c, events[c], cache[c], store[c])
    BY <2>1 DEF Coherence
  <2>3. CASE stackset = NoStackSet
    <3>1. cache[c] = NoStackSet
      BY <1>2, <2>1, <2>3, NoneIsOut DEF StackSetsOrNone
    <3>2. events' = events
      BY <2>3 DEF Relist
    <3> QED BY <2>2, <2>3, <3>1, <3>2
  <2>4. CASE stackset # NoStackSet
    <3>1. events'[c] = Waiting(events[c], Added(stackset))
      BY <1>2, <2>4 DEF Relist
    <3>2. stackset \in StackSets
      BY <1>2, <2>4 DEF StackSetsOrNone
    <3> QED BY <1>2, <2>1, <2>2, <3>1, <3>2, InStepAdded
  <2> QED BY <2>3, <2>4
<1> SUFFICES ASSUME NEW d \in Controllers
             PROVE  /\ d \in watching' => cache'[d] = stackset'
                    /\ ~missed' => InStep(d, events'[d], cache'[d], store'[d])
  BY DEF Coherence
<1>6. ~missed' => ~missed
  BY <1>1
<1> QED BY <1>1, <1>3, <1>4, <1>5, <1>6 DEF Coherence

\* A controller is in step after a restart.
LEMMA RestartCoherent ==
    ASSUME Typed, Coherence, NEW c \in Controllers, Restart(c)
    PROVE  Coherence'
<1>1. /\ watching' = watching \union {c} /\ cache' = [cache EXCEPT ![c] = stackset]
      /\ events' = [events EXCEPT ![c] = Listed(stackset)]
      /\ store' = [store EXCEPT ![c] = Nothing]
      /\ UNCHANGED <<stackset, missed>>
  BY DEF Restart, cluster, history
<1>2. /\ cache \in [Controllers -> StackSetsOrNone] /\ stackset \in StackSetsOrNone
      /\ events \in [Controllers -> Seq([deleted : BOOLEAN, stackset : StackSets])]
      /\ store \in [Controllers -> [UIDs -> StackSetsOrNone]]
  BY DEF Typed, TypeOK
<1>3. cache'[c] = stackset /\ events'[c] = Listed(stackset) /\ store'[c] = Nothing
  BY <1>1, <1>2
<1>4. \A d \in Controllers \ {c} :
        cache'[d] = cache[d] /\ events'[d] = events[d] /\ store'[d] = store[d]
  BY <1>1, <1>2
<1>5. InStep(c, Listed(stackset), stackset, Nothing)
  BY <1>2, ListedInStep
<1> QED BY <1>1, <1>3, <1>4, <1>5 DEF Coherence

\* Every step keeps the controllers in step.
LEMMA NextCoherent == Typed /\ Coherence /\ [Next]_vars => Coherence'
<1> SUFFICES ASSUME Typed, Coherence, [Next]_vars PROVE Coherence'
  OBVIOUS
<1>1. ASSUME UNCHANGED <<stackset, cache, events, store, missed>>, watching' \subseteq watching
      PROVE  Coherence'
  BY <1>1 DEF Coherence
<1>2. CASE UNCHANGED vars
  BY <1>1, <1>2 DEF vars, cluster, informers, history
<1>3. CASE UserDeletes
  <2>1. /\ stackset \in StackSets /\ stackset' = NoStackSet
        /\ Notify(Deleted(stackset), NoStackSet) /\ UNCHANGED <<store, missed>>
    BY <1>3 DEF UserDeletes, history, Typed, TypeOK, StackSetsOrNone
  <2>2. Deleted(stackset) \in Events /\ NoStackSet \in StackSetsOrNone
    BY <2>1 DEF Deleted, Events, StackSetsOrNone
  <2>3. events \in [Controllers -> Seq(Events)]
    BY DEF Typed, TypeOK, Events
  <2> SUFFICES ASSUME NEW c \in Controllers
               PROVE  /\ c \in watching' => cache'[c] = stackset'
                      /\ ~missed' => InStep(c, events'[c], cache'[c], store'[c])
    BY DEF Coherence
  <2>4. CASE c \in watching
    <3>1. /\ cache'[c] = NoStackSet /\ cache[c] = stackset
          /\ events'[c] = Waiting(events[c], Deleted(stackset))
      BY <2>1, <2>2, <2>4, Told DEF Typed, Coherence
    <3>2. ASSUME ~missed
          PROVE  InStep(c, Waiting(events[c], Deleted(stackset)), NoStackSet, store[c])
      <4>1. InStep(c, events[c], stackset, store[c]) /\ events[c] \in Seq(Events)
        BY <2>3, <3>1, <3>2 DEF Coherence
      <4> QED BY <2>1, <4>1, InStepDeleted
    <3> QED BY <2>1, <3>1, <3>2
  <2>5. CASE c \notin watching
    <3>1. cache'[c] = cache[c] /\ events'[c] = events[c] /\ c \notin watching'
      BY <2>1, <2>2, <2>5, Told DEF Typed
    <3> QED BY <2>1, <3>1 DEF Coherence
  <2> QED BY <2>4, <2>5
<1>4. CASE CollectGarbage
  BY <1>1, <1>4 DEF CollectGarbage, informers, history
<1>5. ASSUME NEW c \in Controllers, UserChangesOwner(c) PROVE Coherence'
  <2>1. [stackset EXCEPT !.owner = c] \in StackSets
        /\ [stackset EXCEPT !.owner = c].uid = stackset.uid
    BY <1>5 DEF UserChangesOwner, Typed, TypeOK, StackSetsOrNone, StackSets
  <2> QED BY <1>5, <2>1, StoredCoherently DEF UserChangesOwner, history, Typed
<1>6. ASSUME NEW c \in Controllers, NEW u \in UIDs, UserCreates(u, c) PROVE Coherence'
  BY <1>6, NewIs, StoredCoherently DEF UserCreates, history, Typed
<1>7. ASSUME NEW c \in Controllers, NEW u \in UIDs, ObserveVersion(c, u) PROVE Coherence'
  <2>1. CASE seen[c][u] = stackset
    <3>1. seen[c][u] \in StackSets
      BY <1>7 DEF ObserveVersion, Typed, HasContainer
    <3>2. [stackset EXCEPT !.observed = TRUE] \in StackSets
          /\ [stackset EXCEPT !.observed = TRUE].uid = stackset.uid
      BY <2>1, <3>1 DEF StackSets
    <3> QED
      BY <1>7, <2>1, <3>2, StoredCoherently DEF ObserveVersion, RecordVersion, history, Typed
  <2>2. CASE seen[c][u] # stackset
    BY <1>1, <1>7, <2>2 DEF ObserveVersion, informers, history
  <2> QED BY <2>1, <2>2
<1>8. ASSUME NEW c \in Controllers, NEW u \in UIDs, ReconcileStatuses(c, u) PROVE Coherence'
  <2>1. CASE UNCHANGED <<stackset, informers, stray>>
    BY <1>1, <1>8, <2>1 DEF ReconcileStatuses, informers
  <2>2. CASE stackset # NoStackSet /\ Store(WithStatus(c, u, stackset))
    <3>1. stackset \in StackSets /\ pc[c][u] = "status"
      BY <1>8, <2>2 DEF ReconcileStatuses, Typed, TypeOK, StackSetsOrNone
    <3>2. WithStatus(c, u, stackset) \in StackSets
          /\ WithStatus(c, u, stackset).uid = stackset.uid
      BY <3>1, StatusIs
    <3> QED BY <1>8, <2>2, <3>2, StoredCoherently DEF ReconcileStatuses, Typed
  <2> QED BY <1>8, <2>1, <2>2 DEF ReconcileStatuses
<1>9. ASSUME NEW c \in Controllers,
             \/ Collect(c) \/ Interrupt(c)
             \/ \E u \in UIDs : CreateStack(c, u) \/ CreateFails(c, u) \/ PassFails(c, u)
      PROVE  Coherence'
  BY <1>1, <1>9 DEF Collect, Interrupt, CreateStack, CreateFails, PassFails, cluster,
                    informers, history
<1>10. ASSUME NEW c \in Controllers, NEW u \in UIDs, ObserveFails(c, u) PROVE Coherence'
  <2>1. CASE RecordVersion(c, u)
    <3>1. PICK ss \in StackSets : ss.uid = stackset.uid /\ Store(ss)
      BY <1>10, <2>1, RecordIs DEF ObserveFails
    <3> QED BY <1>10, <3>1, StoredCoherently DEF ObserveFails, history, Typed
  <2>2. CASE UNCHANGED <<stackset, informers>>
    BY <1>1, <1>10, <2>2 DEF ObserveFails, informers, history
  <2> QED BY <1>10, <2>1, <2>2 DEF ObserveFails
<1>11. CASE Environment
  BY <1>3, <1>4, <1>5, <1>6, <1>11, RelistCoherent DEF Environment
<1>12. ASSUME NEW c \in Controllers, TakeEvent(c) \/ Pass(c) \/ Failure(c) PROVE Coherence'
  BY <1>7, <1>8, <1>9, <1>10, <1>12, EventCoherent, RestartCoherent DEF Pass, Worker, Failure
<1> QED BY <1>2, <1>11, <1>12 DEF Next

(***************************************************************************)
(* A controller that watches, has taken all events and missed no deletion  *)
(* has the StackSet in its store if it owns it, and nothing else.          *)
(***************************************************************************)
THEOREM StoresCohere == Spec => []StoreCoherent
<1>1. Init => Typed /\ Coherence
  BY InitTyped, InitCoherent
<1>2. Typed /\ Coherence /\ [Next]_vars => Typed' /\ Coherence'
  BY NextTyped, NextCoherent
<1>3. Typed /\ Coherence => StoreCoherent
  <2> SUFFICES ASSUME Typed, Coherence, NEW c \in Controllers,
                      c \in watching, events[c] = <<>>, ~missed, NEW u \in UIDs
               PROVE  store[c][u] = IF stackset.uid = u /\ stackset.owner = c
                                    THEN stackset ELSE NoStackSet
    BY DEF StoreCoherent
  <2>1. cache[c] = stackset /\ InStep(c, <<>>, stackset, store[c])
    BY DEF Coherence
  <2>2. store[c] = Owned(c, stackset)
    BY <2>1 DEF InStep
  <2> QED BY <2>2 DEF Owned
<1> QED BY <1>1, <1>2, <1>3, PTL DEF Spec

-----------------------------------------------------------------------------
(***************************************************************************)
(* Observed versions.                                                      *)
(***************************************************************************)
LEMMA InitUnstrayed == Init => NothingStrayed
<1> SUFFICES ASSUME Init PROVE NothingStrayed
  OBVIOUS
<1>1. OnlyOwn(stackset) /\ OnlyOwn(NoStackSet)
  BY FirstIs, NewIs, NoneIsOut DEF Init, OnlyOwn
<1>2. ASSUME NEW c \in Controllers, NEW i \in 1..Len(events[c])
      PROVE  OnlyOwn(events[c][i].stackset)
  <2>1. events[c] = Listed(stackset)
    BY DEF Init
  <2>2. CASE stackset = NoStackSet
    <3>1. Len(<<>>) = 0
      OBVIOUS
    <3> QED BY <2>1, <2>2, <3>1 DEF Listed
  <2>3. CASE stackset # NoStackSet
    <3>1. events[c] = <<Added(stackset)>>
      BY <2>1, <2>3 DEF Listed
    <3>2. events[c][i] = Added(stackset)
      BY <3>1
    <3>3. events[c][i].stackset = stackset
      BY <3>2 DEF Added
    <3> QED BY <1>1, <3>3
  <2> QED BY <2>2, <2>3
<1>3. ASSUME NEW c \in Controllers, NEW u \in UIDs
      PROVE  store[c][u] = NoStackSet /\ seen[c][u] = NoStackSet /\ pc[c][u] = "out"
  BY DEF Init, Nothing, Outside
<1> QED BY <1>1, <1>2, <1>3 DEF NothingStrayed

\* A step that tells the informers nothing new, and lets workers know no more than before.
LEMMA QuietStep ==
    ASSUME NothingStrayed, stray' = stray, created \subseteq created', stackset' = stackset,
           events' = events,
           \A c \in Controllers, u \in UIDs :
               /\ store'[c][u] \in {store[c][u], NoStackSet}
               /\ seen'[c][u] \in {seen[c][u], store[c][u], NoStackSet}
               /\ pc'[c][u] = "observe" => pc[c][u] = "observe" \/ u \in created'
    PROVE  NothingStrayed'
<1>1. OnlyOwn(NoStackSet)'
  BY NoneIsOut DEF OnlyOwn
<1> QED BY <1>1 DEF NothingStrayed, OnlyOwn

\* A StackSet is stored and the workers know no more than it.
LEMMA StoringStep ==
    ASSUME Typed, NothingStrayed, NEW ss \in StackSets, Store(ss),
           ~stray' => ~stray /\ OnlyOwn(ss), created' = created, store' = store,
           \A c \in Controllers, u \in UIDs :
               /\ seen'[c][u] \in {seen[c][u], ss, NoStackSet}
               /\ pc'[c][u] = "observe" => pc[c][u] = "observe"
    PROVE  NothingStrayed'
<1> SUFFICES ASSUME ~stray'
             PROVE  /\ OnlyOwn(stackset)'
                    /\ \A c \in Controllers :
                        /\ \A i \in 1..Len(events'[c]) : OnlyOwn(events[c][i].stackset)'
                        /\ \A u \in UIDs :
                            /\ OnlyOwn(store[c][u])' /\ OnlyOwn(seen[c][u])'
                            /\ pc'[c][u] = "observe" => u \in created'
  BY DEF NothingStrayed
<1>1. /\ OnlyOwn(stackset)'
      /\ \A c \in Controllers : \A i \in 1..Len(events'[c]) :
           events'[c][i].stackset.observed => events'[c][i].stackset.uid \in created'
  BY StoredWithoutStraying DEF Typed
<1>2. OnlyOwn(NoStackSet)
  BY NoneIsOut DEF OnlyOwn
<1> QED BY <1>1, <1>2 DEF NothingStrayed, OnlyOwn

\* An event brings nothing into the store that has strayed.
LEMMA EventUnstrayed ==
    ASSUME Typed, NothingStrayed, NEW c \in Controllers, TakeEvent(c)
    PROVE  NothingStrayed'
<1> DEFINE q == events[c]
           e == Head(q)
           u == e.stackset.uid
<1>1. q \in Seq(Events) /\ q # <<>>
  BY DEF TakeEvent, Typed, TypeOK, Events
<1>2. /\ store' = [store EXCEPT ![c][u] = Taken(c, e)]
      /\ events' = [events EXCEPT ![c] = Tail(q)]
      /\ UNCHANGED <<stackset, pc, seen, created, stray>>
  BY DEF TakeEvent, cluster, pass, history
<1>3. /\ store \in [Controllers -> [UIDs -> StackSetsOrNone]]
      /\ events \in [Controllers -> Seq([deleted : BOOLEAN, stackset : StackSets])]
  BY DEF Typed, TypeOK
<1> SUFFICES ASSUME ~stray PROVE NothingStrayed'
  BY <1>2 DEF NothingStrayed
<1>4. \A i \in 1..Len(q) : OnlyOwn(q[i].stackset)
  BY DEF NothingStrayed
<1>5. OnlyOwn(e.stackset) /\ \A i \in 1..Len(Tail(q)) : OnlyOwn(Tail(q)[i].stackset)
  <2> HIDE DEF q
  <2>1. e = q[1] /\ Len(q) \in Nat \ {0} /\ Len(Tail(q)) = Len(q) - 1
        /\ \A i \in 1..Len(Tail(q)) : Tail(q)[i] = q[i + 1]
    BY <1>1, HeadTailProperties, EmptySeq
  <2>2. \A i \in 1..Len(Tail(q)) : i + 1 \in 1..Len(q)
    BY <2>1
  <2> QED BY <1>4, <2>1, <2>2
<1>6. OnlyOwn(Taken(c, e))
  <2>1. Taken(c, e) \in {e.stackset, NoStackSet} /\ OnlyOwn(NoStackSet)
    BY TakenIs, NoneIsOut DEF OnlyOwn
  <2> QED BY <1>5, <2>1
<1>7. \A d \in Controllers, v \in UIDs : OnlyOwn(store'[d][v])
  <2>1. ASSUME NEW d \in Controllers, NEW v \in UIDs
        PROVE  store'[d][v] \in {store[d][v], Taken(c, e)}
    <3> HIDE DEF e, u
    <3> QED BY <1>2, <1>3
  <2>2. \A d \in Controllers, v \in UIDs : OnlyOwn(store[d][v])
    BY DEF NothingStrayed
  <2> QED BY <1>6, <2>1, <2>2
<1>8. \A d \in Controllers : \A i \in 1..Len(events'[d]) : OnlyOwn(events'[d][i].stackset)
  <2>1. events'[c] = Tail(q) /\ \A d \in Controllers \ {c} : events'[d] = events[d]
    BY <1>2, <1>3
  <2> HIDE DEF q
  <2> QED BY <1>5, <2>1 DEF NothingStrayed
<1> HIDE DEF q, e, u
<1> QED BY <1>2, <1>7, <1>8 DEF NothingStrayed, OnlyOwn

\* Nor does a list of the StackSets, after an interruption or a restart.
LEMMA RelistUnstrayed ==
    ASSUME Typed, NothingStrayed, NEW c \in Controllers, Relist(c) \/ Restart(c)
    PROVE  NothingStrayed'
<1>1. /\ UNCHANGED <<stackset, created, stray>>
      /\ \A d \in Controllers, u \in UIDs :
           /\ store'[d][u] \in {store[d][u], NoStackSet}
           /\ seen'[d][u] \in {seen[d][u], NoStackSet}
           /\ pc'[d][u] = "observe" => pc[d][u] = "observe"
  <2>1. CASE Relist(c)
    BY <2>1 DEF Relist, cluster, pass
  <2>2. CASE Restart(c)
    BY <2>2 DEF Restart, cluster, history, Nothing, Outside, Typed, TypeOK
  <2> QED BY <2>1, <2>2
<1> SUFFICES ASSUME ~stray PROVE NothingStrayed'
  BY <1>1 DEF NothingStrayed
<1>2. OnlyOwn(stackset) /\ OnlyOwn(NoStackSet)
  BY NoneIsOut DEF NothingStrayed, OnlyOwn
<1>3. /\ events \in [Controllers -> Seq([deleted : BOOLEAN, stackset : StackSets])]
      /\ events[c] \in Seq(Events) /\ stackset \in StackSetsOrNone
  BY DEF Typed, TypeOK, Events
<1>4. \A i \in 1..Len(events[c]) : OnlyOwn(events[c][i].stackset)
  BY DEF NothingStrayed
<1>5. \A i \in 1..Len(events'[c]) : OnlyOwn(events'[c][i].stackset)
  <2>1. CASE Restart(c)
    <3>1. events'[c] = Listed(stackset)
      BY <1>3, <2>1 DEF Restart
    <3>2. CASE stackset = NoStackSet
      <4>1. Len(<<>>) = 0
        OBVIOUS
      <4> QED BY <3>1, <3>2, <4>1 DEF Listed
    <3>3. CASE stackset # NoStackSet
      <4>1. events'[c] = <<Added(stackset)>>
        BY <3>1, <3>3 DEF Listed
      <4>2. \A i \in 1..Len(events'[c]) : events'[c][i] = Added(stackset)
        BY <4>1
      <4>3. Added(stackset).stackset = stackset
        BY DEF Added
      <4> QED BY <1>2, <4>2, <4>3
    <3> QED BY <3>2, <3>3
  <2>2. CASE Relist(c) /\ stackset = NoStackSet
    BY <1>4, <2>2 DEF Relist
  <2>3. CASE Relist(c) /\ stackset # NoStackSet
    <3> DEFINE q == events[c]
               e == Added(stackset)
               w == Waiting(q, e)
               n == Staying(q, e)
    <3>1. events'[c] = w
      BY <1>3, <2>3 DEF Relist
    <3>2. e \in Events
      BY <1>3, <2>3 DEF StackSetsOrNone, Added, Events
    <3>3. e.stackset = stackset
      BY DEF Added
    <3> HIDE DEF e
    <3>4. /\ Waiting(q, e) \in Seq(Events)
          /\ Len(Waiting(q, e)) = Staying(q, e) + 1
          /\ Waiting(q, e)[Staying(q, e) + 1] = e
          /\ \A i \in 1..Staying(q, e) : Waiting(q, e)[i] = q[i]
          /\ Staying(q, e) \in Nat /\ Staying(q, e) <= Len(q)
      BY <1>3, <3>2, WaitingIs
    <3>5. Len(q) \in Nat
      BY <1>3
    <3>6. ASSUME NEW i \in 1..Len(w) PROVE OnlyOwn(w[i].stackset)
      <4> HIDE DEF q
      <4>1. CASE i = n + 1
        BY <1>2, <3>3, <3>4, <4>1
      <4>2. CASE i # n + 1
        <5>1. i \in 1..n /\ i \in 1..Len(q)
          BY <3>4, <3>5, <4>2
        <5> QED BY <1>4, <3>4, <5>1 DEF q
      <4> QED BY <4>1, <4>2
    <3> QED BY <3>1, <3>6
  <2> QED BY <2>1, <2>2, <2>3
<1>6. \A d \in Controllers \ {c} : events'[d] = events[d]
  BY <1>3 DEF Relist, Restart
<1>7. \A d \in Controllers : \A i \in 1..Len(events'[d]) : OnlyOwn(events'[d][i].stackset)
  BY <1>5, <1>6 DEF NothingStrayed
<1> QED BY <1>1, <1>2, <1>7 DEF NothingStrayed, OnlyOwn

\* Every step keeps it so, unless it writes a stray status.
LEMMA NextUnstrayed == Typed /\ NothingStrayed /\ [Next]_vars => NothingStrayed'
<1> SUFFICES ASSUME Typed, NothingStrayed, [Next]_vars PROVE NothingStrayed'
  OBVIOUS
<1>1. CASE UNCHANGED vars
  BY <1>1, QuietStep DEF vars, cluster, informers, pass, history
<1>2. CASE UserDeletes
  <2>1. /\ stackset \in StackSets /\ stackset' = NoStackSet
        /\ Notify(Deleted(stackset), NoStackSet)
        /\ UNCHANGED <<store, seen, pc, created, stray>>
    BY <1>2 DEF UserDeletes, pass, history, Typed, TypeOK, StackSetsOrNone
  <2>2. Deleted(stackset) \in Events /\ NoStackSet \in StackSetsOrNone
    BY <2>1 DEF Deleted, Events, StackSetsOrNone
  <2>3. Deleted(stackset).stackset = stackset
    BY DEF Deleted
  <2>4. \A c \in Controllers : \A i \in 1..Len(events'[c]) :
          \/ events'[c][i] = Deleted(stackset)
          \/ \E j \in 1..Len(events[c]) : events'[c][i] = events[c][j]
    BY <2>1, <2>2, Told DEF Typed
  <2> SUFFICES ASSUME ~stray PROVE NothingStrayed'
    BY <2>1 DEF NothingStrayed
  <2>5. \A c \in Controllers : \A i \in 1..Len(events'[c]) : OnlyOwn(events'[c][i].stackset)
    BY <2>3, <2>4 DEF NothingStrayed
  <2>6. OnlyOwn(NoStackSet)
    BY NoneIsOut DEF OnlyOwn
  <2> QED BY <2>1, <2>5, <2>6 DEF NothingStrayed, OnlyOwn
<1>3. CASE CollectGarbage
  BY <1>3, QuietStep DEF CollectGarbage, informers, pass, history
<1>4. ASSUME NEW c \in Controllers, UserChangesOwner(c) PROVE NothingStrayed'
  <2> DEFINE ss == [stackset EXCEPT !.owner = c]
  <2>1. stackset \in StackSets /\ Store(ss) /\ UNCHANGED <<store, seen, pc, created, stray>>
    BY <1>4 DEF UserChangesOwner, pass, history, Typed, TypeOK, StackSetsOrNone
  <2>2. ss \in StackSets /\ ss.uid = stackset.uid /\ ss.observed = stackset.observed
    BY <2>1 DEF StackSets
  <2> HIDE DEF ss
  <2>3. ~stray => OnlyOwn(ss)
    BY <2>2 DEF NothingStrayed, OnlyOwn
  <2> QED BY <2>1, <2>2, <2>3, StoringStep
<1>5. ASSUME NEW c \in Controllers, NEW u \in UIDs, UserCreates(u, c) PROVE NothingStrayed'
  <2>1. Store(New(u, c)) /\ UNCHANGED <<store, seen, pc, created, stray>>
    BY <1>5 DEF UserCreates, pass, history
  <2>2. New(u, c) \in StackSets /\ OnlyOwn(New(u, c))
    BY NewIs DEF OnlyOwn
  <2> QED BY <2>1, <2>2, StoringStep
<1>6. ASSUME NEW c \in Controllers, Collect(c) PROVE NothingStrayed'
  <2>1. /\ seen' = [seen EXCEPT ![c] = store[c]]
        /\ \A u \in UIDs : pc'[c][u] # "observe"
        /\ \A d \in Controllers \ {c} : pc'[d] = pc[d]
        /\ UNCHANGED <<stackset, events, store, created, stray>>
    BY <1>6 DEF Collect, cluster, informers, history, Typed, TypeOK
  <2>2. \A d \in Controllers, u \in UIDs :
          /\ seen'[d][u] \in {seen[d][u], store[d][u]}
          /\ pc'[d][u] = "observe" => pc[d][u] = "observe"
    BY <2>1 DEF Typed, TypeOK
  <2> QED BY <2>1, <2>2, QuietStep
<1>7. ASSUME NEW c \in Controllers, NEW u \in UIDs, CreateStack(c, u) PROVE NothingStrayed'
  <2>1. /\ UNCHANGED <<stackset, events, store, seen, stray>>
        /\ \/ created' = created \union {u} /\ pc' = [pc EXCEPT ![c][u] = "observe"]
           \/ created' = created /\ pc' = [pc EXCEPT ![c][u] = "status"]
    BY <1>7 DEF CreateStack, StackAppears, Goto, informers
  <2>2. \A d \in Controllers, v \in UIDs :
          pc'[d][v] = "observe" => pc[d][v] = "observe" \/ v \in created'
    BY <2>1 DEF Typed, TypeOK
  <2> QED BY <2>1, <2>2, QuietStep
<1>8. ASSUME NEW c \in Controllers, NEW u \in UIDs, CreateFails(c, u) PROVE NothingStrayed'
  <2>1. /\ UNCHANGED <<stackset, events, store, seen, stray>>
        /\ created' \in {created, created \union {u}} /\ pc' = [pc EXCEPT ![c][u] = "status"]
    BY <1>8 DEF CreateFails, StackAppears, Goto, informers
  <2>2. \A d \in Controllers, v \in UIDs : pc'[d][v] = "observe" => pc[d][v] = "observe"
    BY <2>1 DEF Typed, TypeOK
  <2> QED BY <2>1, <2>2, QuietStep
<1>9. ASSUME NEW c \in Controllers, NEW u \in UIDs, ObserveVersion(c, u)
      PROVE  NothingStrayed'
  <2> DEFINE ss == [stackset EXCEPT !.observed = TRUE]
  <2>1. /\ pc[c][u] = "observe" /\ pc' = [pc EXCEPT ![c][u] = "status"]
        /\ UNCHANGED <<store, created, stray>>
    BY <1>9 DEF ObserveVersion, Goto, history
  <2>2. \A d \in Controllers, v \in UIDs : pc'[d][v] = "observe" => pc[d][v] = "observe"
    BY <2>1 DEF Typed, TypeOK
  <2>3. CASE seen[c][u] = stackset
    <3>1. Store(ss) /\ stackset' = ss /\ seen' = [seen EXCEPT ![c][u] = stackset']
      BY <1>9, <2>3 DEF ObserveVersion, RecordVersion, Store
    <3>2. seen[c][u] \in StackSets /\ seen[c][u].uid = u
      BY <2>1 DEF Typed, HasContainer
    <3>3. ss \in StackSets /\ ss.uid = u
      BY <2>3, <3>2 DEF StackSets
    <3> HIDE DEF ss
    <3>4. ~stray => OnlyOwn(ss)
      BY <2>1, <3>3 DEF NothingStrayed, OnlyOwn
    <3>5. \A d \in Controllers, v \in UIDs : seen'[d][v] \in {seen[d][v], ss}
      BY <3>1 DEF Typed, TypeOK
    <3> QED BY <2>1, <2>2, <3>1, <3>3, <3>4, <3>5, StoringStep
  <2>4. CASE seen[c][u] # stackset
    <3>1. UNCHANGED <<stackset, events, seen>>
      BY <1>9, <2>4 DEF ObserveVersion, informers
    <3> QED BY <2>1, <2>2, <3>1, QuietStep
  <2> QED BY <2>3, <2>4
<1>10. ASSUME NEW c \in Controllers, NEW u \in UIDs, ReconcileStatuses(c, u)
       PROVE  NothingStrayed'
  <2> DEFINE ss == WithStatus(c, u, stackset)
  <2>1. /\ pc[c][u] = "status" /\ Finish(c, u) /\ UNCHANGED <<store, created>>
    BY <1>10 DEF ReconcileStatuses
  <2>2. \A d \in Controllers, v \in UIDs :
          /\ seen'[d][v] \in {seen[d][v], NoStackSet}
          /\ pc'[d][v] = "observe" => pc[d][v] = "observe"
    BY <2>1, Finished DEF Typed
  <2>3. CASE UNCHANGED <<stackset, informers, stray>>
    BY <2>1, <2>2, <2>3, QuietStep DEF informers
  <2>4. CASE stackset # NoStackSet /\ Store(ss) /\ stray' = (stray \/ stackset.uid # u)
    <3>1. stackset \in StackSets
      BY <2>4 DEF Typed, TypeOK, StackSetsOrNone
    <3>2. ss \in StackSets /\ ss.uid = stackset.uid /\ ss.observed = seen[c][u].observed
      BY <2>1, <3>1, StatusIs
    <3>3. seen[c][u].uid = u
      BY <2>1 DEF Typed, HasContainer
    <3> HIDE DEF ss
    <3>4. ~stray' => ~stray /\ OnlyOwn(ss)
      BY <2>4, <3>2, <3>3 DEF NothingStrayed, OnlyOwn
    <3> QED BY <2>1, <2>2, <2>4, <3>2, <3>4, StoringStep
  <2> QED BY <1>10, <2>3, <2>4 DEF ReconcileStatuses
<1>11. ASSUME NEW c \in Controllers, NEW u \in UIDs, PassFails(c, u) PROVE NothingStrayed'
  <2>1. Finish(c, u) /\ UNCHANGED <<stackset, events, store, created, stray>>
    BY <1>11 DEF PassFails, cluster, informers, history
  <2>2. \A d \in Controllers, v \in UIDs :
          /\ seen'[d][v] \in {seen[d][v], NoStackSet}
          /\ pc'[d][v] = "observe" => pc[d][v] = "observe"
    BY <2>1, Finished DEF Typed
  <2> QED BY <2>1, <2>2, QuietStep
<1>12. ASSUME NEW c \in Controllers, Interrupt(c) PROVE NothingStrayed'
  BY <1>12, QuietStep DEF Interrupt, cluster, pass, history
<1>13. ASSUME NEW c \in Controllers, NEW u \in UIDs, ObserveFails(c, u)
       PROVE  NothingStrayed'
  <2>1. /\ pc[c][u] = "observe" /\ pc' = [pc EXCEPT ![c][u] = "status"]
        /\ UNCHANGED <<store, seen, created, stray>>
    BY <1>13 DEF ObserveFails, Goto, history
  <2>2. \A d \in Controllers, v \in UIDs : pc'[d][v] = "observe" => pc[d][v] = "observe"
    BY <2>1 DEF Typed, TypeOK
  <2>3. CASE RecordVersion(c, u)
    <3>1. PICK ss \in StackSets : ss.uid = u /\ Store(ss)
      BY <2>1, <2>3, RecordIs
    <3>2. ~stray => OnlyOwn(ss)
      BY <2>1, <3>1 DEF NothingStrayed, OnlyOwn
    <3> QED BY <2>1, <2>2, <3>1, <3>2, StoringStep
  <2>4. CASE UNCHANGED <<stackset, informers>>
    BY <2>1, <2>2, <2>4, QuietStep DEF informers
  <2> QED BY <1>13, <2>3, <2>4 DEF ObserveFails
<1>14. CASE Environment
  BY <1>2, <1>3, <1>4, <1>5, <1>14, RelistUnstrayed DEF Environment
<1>15. ASSUME NEW c \in Controllers, TakeEvent(c) \/ Pass(c) \/ Failure(c)
       PROVE  NothingStrayed'
  BY <1>6, <1>7, <1>8, <1>9, <1>10, <1>11, <1>12, <1>13, <1>15, EventUnstrayed,
     RelistUnstrayed
     DEF Pass, Worker, Failure
<1> QED BY <1>1, <1>14, <1>15 DEF Next

(***************************************************************************)
(* A version counts as observed only once its stack was created for this   *)
(* incarnation, whatever fails and whoever takes over, as long as no       *)
(* status was written to another incarnation.                              *)
(***************************************************************************)
THEOREM ObservedIsCreated == Spec => []ObservedUnlessStray
<1>1. Init => Typed /\ NothingStrayed
  BY InitTyped, InitUnstrayed
<1>2. Typed /\ NothingStrayed /\ [Next]_vars => Typed' /\ NothingStrayed'
  BY NextTyped, NextUnstrayed
<1>3. NothingStrayed => ObservedUnlessStray
  BY DEF NothingStrayed, OnlyOwn, ObservedUnlessStray, ObservedIsOwn
<1> QED BY <1>1, <1>2, <1>3, PTL DEF Spec
=============================================================================
