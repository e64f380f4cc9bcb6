------------------------ MODULE CircuitBreakerProofs ------------------------
(***************************************************************************)
(* Proofs, for every set of nodes, window length and bound, that the ring  *)
(* buffer of the circuit breaker is consistent and files every cordon in   *)
(* the right second.                                                       *)
(***************************************************************************)
EXTENDS CircuitBreaker, FiniteSetTheorems, TLAPS

(* The buffer is never ahead of the clock.                                  *)
NotAhead(w, t) == w.startTime <= t

IInv ==
  /\ TypeOK
  /\ WindowConsistent
  /\ NotAhead(win, now)
  /\ WindowExact

-----------------------------------------------------------------------------
(* slideWindow and AddCordonEvent.                                         *)

(* A window's fields have their types.                                      *)
LEMMA WindowFields ==
  ASSUME NEW w \in Window
  PROVE  /\ w.startTime \in Nat
         /\ w.buckets \in [Bucket -> Nat]
         /\ w.indexToNodes \in [Bucket -> SUBSET Nodes]
         /\ DOMAIN w.nodeToIndex \subseteq Nodes
         /\ \A n \in DOMAIN w.nodeToIndex : w.nodeToIndex[n] \in Bucket
         /\ w.nodeToIndex = [n \in DOMAIN w.nodeToIndex |-> w.nodeToIndex[n]]
<1>1. PICK S \in SUBSET Nodes : w.nodeToIndex \in [S -> Bucket]
  BY DEF Window, Placement
<1> QED
  BY <1>1 DEF Window

(* A window built field by field.                                           *)
LEMMA WindowIntro ==
  ASSUME NEW s \in Nat, NEW b \in [Bucket -> Nat], NEW S \in SUBSET Nodes,
         NEW p \in [S -> Bucket], NEW q \in [Bucket -> SUBSET Nodes]
  PROVE  [startTime |-> s, buckets |-> b, nodeToIndex |-> p,
          indexToNodes |-> q] \in Window
<1>1. p \in Placement
  BY DEF Placement
<1> QED
  BY <1>1 DEF Window

(* NewSlidingWindowBreaker and slideWindow's clearing branch build a        *)
(* consistent empty window.                                                 *)
LEMMA EmptyOK ==
  ASSUME NEW t \in Nat
  PROVE  /\ EmptyWindow(t) \in Window
         /\ MapsAgree(EmptyWindow(t))
         /\ Counted(EmptyWindow(t))
         /\ EmptyWindow(t).startTime = t
         /\ DOMAIN EmptyWindow(t).nodeToIndex = {}
<1>1. [i \in Bucket |-> 0] \in [Bucket -> Nat]
  OBVIOUS
<1>2. [n \in {} |-> 0] \in [{} -> Bucket]
  OBVIOUS
<1>3. [i \in Bucket |-> {}] \in [Bucket -> SUBSET Nodes]
  OBVIOUS
<1>4. EmptyWindow(t) \in Window
  BY <1>1, <1>2, <1>3, WindowIntro DEF EmptyWindow
<1>5. Cardinality({}) = 0
  BY FS_EmptySet
<1> QED
  BY <1>4, <1>5 DEF EmptyWindow, MapsAgree, Counted

(* Shifting keeps the window consistent, moves every surviving node down by *)
(* k and forgets exactly the nodes of the k oldest buckets.                 *)
LEMMA ShiftOK ==
  ASSUME NEW w \in Window, NEW k \in Nat, k < NumBuckets,
         MapsAgree(w), Counted(w)
  PROVE  /\ Shift(w, k) \in Window
         /\ MapsAgree(Shift(w, k))
         /\ Counted(Shift(w, k))
         /\ Shift(w, k).startTime = w.startTime + 2 * k
         /\ \A n \in Nodes :
              /\ n \in DOMAIN Shift(w, k).nodeToIndex <=>
                   n \in DOMAIN w.nodeToIndex /\ w.nodeToIndex[n] >= k
              /\ n \in DOMAIN Shift(w, k).nodeToIndex =>
                   Shift(w, k).nodeToIndex[n] = w.nodeToIndex[n] - k
<1> DEFINE expired == UNION {w.indexToNodes[i] : i \in 0 .. k - 1}
           D == (DOMAIN w.nodeToIndex) \ expired
           s == w.startTime + k * TicksPerBucket
           b == [i \in Bucket |->
                   IF i + k \in Bucket THEN w.buckets[i + k] ELSE 0]
           p == [n \in D |-> w.nodeToIndex[n] - k]
           q == [i \in Bucket |->
                   IF i + k \in Bucket THEN w.indexToNodes[i + k] ELSE {}]
<1> USE BucketsPositive
<1>0. /\ w.startTime \in Nat
      /\ w.buckets \in [Bucket -> Nat]
      /\ w.indexToNodes \in [Bucket -> SUBSET Nodes]
      /\ DOMAIN w.nodeToIndex \subseteq Nodes
      /\ \A n \in DOMAIN w.nodeToIndex : w.nodeToIndex[n] \in Bucket
  BY WindowFields
<1>1. Shift(w, k) = [startTime |-> s, buckets |-> b, nodeToIndex |-> p,
                     indexToNodes |-> q]
  BY DEF Shift
<1>2. \A n \in Nodes : n \in D <=> n \in DOMAIN w.nodeToIndex /\ w.nodeToIndex[n] >= k
  <2> SUFFICES ASSUME NEW n \in Nodes, n \in DOMAIN w.nodeToIndex
               PROVE  n \in expired <=> ~(w.nodeToIndex[n] >= k)
    OBVIOUS
  <2>1. w.nodeToIndex[n] \in Bucket
    BY <1>0
  <2>2. \A i \in 0 .. k - 1 : i \in Bucket
    BY DEF Bucket
  <2>3. n \in expired <=> \E i \in 0 .. k - 1 : n \in w.indexToNodes[i]
    OBVIOUS
  <2>4. \A i \in 0 .. k - 1 : n \in w.indexToNodes[i] <=> w.nodeToIndex[n] = i
    BY <2>2 DEF MapsAgree
  <2>5. n \in expired <=> \E i \in 0 .. k - 1 : w.nodeToIndex[n] = i
    BY <2>3, <2>4
  <2> HIDE DEF expired
  <2> QED
    BY <2>1, <2>5 DEF Bucket
<1> HIDE DEF expired
<1>3. D \in SUBSET Nodes
  BY <1>0
<1>4. s \in Nat /\ s = w.startTime + 2 * k
  BY <1>0 DEF TicksPerBucket
<1>5. b \in [Bucket -> Nat]
  BY <1>0
<1>6. q \in [Bucket -> SUBSET Nodes]
  BY <1>0
<1>7. \A n \in D : w.nodeToIndex[n] - k \in Bucket
  <2> SUFFICES ASSUME NEW n \in D PROVE w.nodeToIndex[n] - k \in Bucket
    OBVIOUS
  <2>1. w.nodeToIndex[n] \in Bucket /\ w.nodeToIndex[n] >= k
    BY <1>2, <1>3, <1>0
  <2> QED
    BY <2>1 DEF Bucket
<1>8. p \in [D -> Bucket]
  BY <1>7
<1>9. Shift(w, k) \in Window
  <2> HIDE DEF s, b, D, p, q
  <2> QED
    BY <1>1, <1>3, <1>4, <1>5, <1>6, <1>8, WindowIntro
<1>10. MapsAgree(Shift(w, k))
  <2>0. /\ Shift(w, k).indexToNodes = q
        /\ Shift(w, k).nodeToIndex = p
        /\ DOMAIN p = D
    BY <1>1
  <2> SUFFICES ASSUME NEW n \in Nodes, NEW i \in Bucket
               PROVE  n \in q[i] <=> n \in D /\ p[n] = i
    <3> HIDE DEF p, q, D
    <3> QED
      BY <2>0 DEF MapsAgree
  <2>1. i \in Int /\ i >= 0
    BY DEF Bucket
  <2>2. CASE i + k \in Bucket
    <3>1. n \in q[i] <=> n \in DOMAIN w.nodeToIndex /\ w.nodeToIndex[n] = i + k
      BY <2>2 DEF MapsAgree
    <3>2. ASSUME n \in D PROVE p[n] = i <=> w.nodeToIndex[n] = i + k
      <4>1. p[n] = w.nodeToIndex[n] - k
        BY <3>2
      <4>2. w.nodeToIndex[n] \in Int
        BY <3>2, <1>0 DEF Bucket
      <4> QED
        BY <4>1, <4>2, <2>1
    <3>3. n \in DOMAIN w.nodeToIndex /\ w.nodeToIndex[n] = i + k => n \in D
      BY <1>2, <2>1
    <3> QED
      BY <3>1, <3>2, <3>3
  <2>3. CASE i + k \notin Bucket
    <3>1. q[i] = {}
      BY <2>3
    <3>2. ASSUME n \in D, p[n] = i PROVE FALSE
      <4>1. w.nodeToIndex[n] \in Bucket /\ w.nodeToIndex[n] - k = i
        BY <3>2, <1>3, <1>0
      <4> QED
        BY <4>1, <2>1, <2>3 DEF Bucket
    <3> QED
      BY <3>1, <3>2
  <2> QED
    BY <2>2, <2>3
<1>11. Counted(Shift(w, k))
  <2>1. Cardinality({}) = 0
    BY FS_EmptySet
  <2> QED
    BY <1>1, <2>1 DEF Counted
<1> QED
  BY <1>1, <1>2, <1>4, <1>9, <1>10, <1>11

(* slideWindow brings the last bucket to the current second and files every *)
(* node rightly if it was filed rightly before.                             *)
LEMMA SlideOK ==
  ASSUME NEW w \in Window, NEW t \in Nat, NotAhead(w, t),
         MapsAgree(w), Counted(w)
  PROVE  /\ SlideWindow(w, t) \in Window
         /\ MapsAgree(SlideWindow(w, t))
         /\ Counted(SlideWindow(w, t))
         /\ NotAhead(SlideWindow(w, t), t)
         /\ t < SlideWindow(w, t).startTime + 2
         /\ \A n \in Nodes, c \in Nat \cup {Never} :
              FiledRight(w, n, c, t) => FiledRight(SlideWindow(w, t), n, c, t)
<1> DEFINE steps == (t - w.startTime) \div TicksPerBucket
           v == SlideWindow(w, t)
<1> USE BucketsPositive
<1>0. /\ w.startTime \in Nat
      /\ DOMAIN w.nodeToIndex \subseteq Nodes
      /\ \A n \in DOMAIN w.nodeToIndex : w.nodeToIndex[n] \in Bucket
  BY WindowFields
<1>1. /\ steps \in Nat
      /\ w.startTime + 2 * steps <= t
      /\ t < w.startTime + 2 * steps + 2
  BY <1>0 DEF NotAhead, TicksPerBucket
<1>2. CASE t <= w.startTime
  <2>1. v = w
    BY <1>2 DEF SlideWindow
  <2>2. t = w.startTime
    BY <1>0, <1>2 DEF NotAhead
  <2> QED
    BY <1>0, <2>1, <2>2
<1>3. CASE ~(t <= w.startTime) /\ steps >= NumBuckets
  <2> DEFINE e == t - (t % TicksPerBucket)
  <2>1. v = EmptyWindow(e)
    BY <1>3 DEF SlideWindow
  <2>2. e \in Nat /\ e <= t /\ t < e + 2
    BY DEF TicksPerBucket
  <2> HIDE DEF e
  <2>3. /\ v \in Window /\ MapsAgree(v) /\ Counted(v)
        /\ v.startTime = e
        /\ DOMAIN v.nodeToIndex = {}
    BY <2>1, <2>2, EmptyOK
  <2>4. ASSUME NEW n \in Nodes, NEW c \in Nat \cup {Never}, FiledRight(w, n, c, t)
        PROVE  FiledRight(v, n, c, t)
    <3>1. CASE n \in DOMAIN w.nodeToIndex
      <4>1. c < w.startTime - (Last - w.nodeToIndex[n]) * 2 + 2
        BY <2>4, <3>1 DEF FiledRight, TicksPerBucket
      <4>2. w.nodeToIndex[n] \in Int /\ w.nodeToIndex[n] <= Last
        BY <1>0, <3>1 DEF Bucket, Last
      <4>3. c \in Int
        BY DEF Never
      <4>4. t - c > Last * 2
        BY <1>0, <1>1, <1>3, <4>1, <4>2, <4>3 DEF Last
      <4> QED
        BY <2>3, <4>4 DEF FiledRight, TicksPerBucket
    <3>2. CASE n \notin DOMAIN w.nodeToIndex
      BY <2>3, <2>4, <3>2 DEF FiledRight
    <3> QED
      BY <3>1, <3>2
  <2> QED
    BY <2>2, <2>3, <2>4 DEF NotAhead
<1>4. CASE ~(t <= w.startTime) /\ ~(steps >= NumBuckets)
  <2>1. v = Shift(w, steps)
    BY <1>4 DEF SlideWindow
  <2> HIDE DEF steps
  <2>2. steps < NumBuckets
    BY <1>1, <1>4
  <2>3. /\ v \in Window /\ MapsAgree(v) /\ Counted(v)
        /\ v.startTime = w.startTime + 2 * steps
        /\ \A n \in Nodes :
              /\ n \in DOMAIN v.nodeToIndex <=>
                   n \in DOMAIN w.nodeToIndex /\ w.nodeToIndex[n] >= steps
              /\ n \in DOMAIN v.nodeToIndex =>
                   v.nodeToIndex[n] = w.nodeToIndex[n] - steps
    BY <1>1, <2>1, <2>2, ShiftOK
  <2>4. ASSUME NEW n \in Nodes, NEW c \in Nat \cup {Never}, FiledRight(w, n, c, t)
        PROVE  FiledRight(v, n, c, t)
    <3>0. c \in Int /\ Last \in Int
      BY DEF Never, Last
    <3>1. CASE n \in DOMAIN w.nodeToIndex
      <4>1. /\ w.startTime - (Last - w.nodeToIndex[n]) * 2 <= c
            /\ c < w.startTime - (Last - w.nodeToIndex[n]) * 2 + 2
        BY <2>4, <3>1 DEF FiledRight, TicksPerBucket
      <4>2. w.nodeToIndex[n] \in Int
        BY <1>0, <3>1 DEF Bucket
      <4>3. CASE n \in DOMAIN v.nodeToIndex
        <5>1. v.startTime - (Last - v.nodeToIndex[n]) * 2
                = w.startTime - (Last - w.nodeToIndex[n]) * 2
          BY <1>0, <1>1, <2>3, <3>0, <4>2, <4>3
        <5> QED
          BY <4>1, <4>3, <5>1 DEF FiledRight, TicksPerBucket
      <4>4. CASE n \notin DOMAIN v.nodeToIndex
        <5>1. ~(w.nodeToIndex[n] >= steps)
          BY <2>3, <3>1, <4>4
        <5>2. t - c > Last * 2
          BY <1>0, <1>1, <3>0, <4>1, <4>2, <5>1
        <5> QED
          BY <4>4, <5>2 DEF FiledRight, TicksPerBucket
      <4> QED
        BY <4>3, <4>4
    <3>2. CASE n \notin DOMAIN w.nodeToIndex
      BY <2>3, <2>4, <3>2 DEF FiledRight
    <3> QED
      BY <3>1, <3>2
  <2> QED
    BY <1>0, <1>1, <2>3, <2>4 DEF NotAhead
<1> QED
  BY <1>2, <1>3, <1>4

(* AddCordonEvent, after the slide, files node n in the last bucket, leaves *)
(* every other node where it is, and keeps the counters right even when n   *)
(* was filed in the last bucket already.                                    *)
LEMMA RecordOK ==
  ASSUME NEW w \in Window, NEW n \in Nodes, MapsAgree(w), Counted(w)
  PROVE  /\ Record(w, n) \in Window
         /\ MapsAgree(Record(w, n))
         /\ Counted(Record(w, n))
         /\ Record(w, n).startTime = w.startTime
         /\ DOMAIN Record(w, n).nodeToIndex = DOMAIN w.nodeToIndex \cup {n}
         /\ Record(w, n).nodeToIndex[n] = Last
         /\ \A m \in DOMAIN w.nodeToIndex \ {n} :
              Record(w, n).nodeToIndex[m] = w.nodeToIndex[m]
<1> DEFINE seen  == n \in DOMAIN w.nodeToIndex
           old   == w.nodeToIndex[n]
           nodes == IF seen THEN [w.indexToNodes EXCEPT ![old] = @ \ {n}]
                            ELSE w.indexToNodes
           count == IF seen THEN [w.buckets EXCEPT ![old] = @ - 1] ELSE w.buckets
           b == [count EXCEPT ![Last] = @ + 1]
           D == (DOMAIN w.nodeToIndex) \cup {n}
           p == [m \in D |-> IF m = n THEN Last ELSE w.nodeToIndex[m]]
           q == [nodes EXCEPT ![Last] = @ \cup {n}]
<1> USE BucketsPositive
<1>0. /\ w.startTime \in Nat
      /\ w.buckets \in [Bucket -> Nat]
      /\ w.indexToNodes \in [Bucket -> SUBSET Nodes]
      /\ DOMAIN w.nodeToIndex \subseteq Nodes
      /\ \A m \in DOMAIN w.nodeToIndex : w.nodeToIndex[m] \in Bucket
  BY WindowFields
<1>1. Record(w, n) = [startTime |-> w.startTime, buckets |-> b,
                      nodeToIndex |-> p, indexToNodes |-> q]
  BY DEF Record
<1>2. Last \in Bucket
  BY DEF Last, Bucket
<1>3. \A i \in Bucket : /\ w.indexToNodes[i] \in SUBSET Nodes
                        /\ IsFiniteSet(w.indexToNodes[i])
  BY <1>0, NodesFinite, FS_Subset
<1>4. \A i \in Bucket : nodes[i] = w.indexToNodes[i] \ {n}
  <2> SUFFICES ASSUME NEW i \in Bucket PROVE nodes[i] = w.indexToNodes[i] \ {n}
    OBVIOUS
  <2>1. n \in w.indexToNodes[i] <=> seen /\ old = i
    BY DEF MapsAgree
  <2> QED
    BY <1>0, <2>1
<1>5. nodes \in [Bucket -> SUBSET Nodes]
  BY <1>0
<1>6. \A i \in Bucket : count[i] = Cardinality(nodes[i]) /\ count[i] \in Nat
  <2> SUFFICES ASSUME NEW i \in Bucket
               PROVE  count[i] = Cardinality(nodes[i]) /\ count[i] \in Nat
    OBVIOUS
  <2>1. n \in w.indexToNodes[i] <=> seen /\ old = i
    BY DEF MapsAgree
  <2>2. w.buckets[i] = Cardinality(w.indexToNodes[i]) /\ w.buckets[i] \in Nat
    BY <1>0 DEF Counted
  <2>3. Cardinality(w.indexToNodes[i] \ {n})
          = IF n \in w.indexToNodes[i]
              THEN Cardinality(w.indexToNodes[i]) - 1
              ELSE Cardinality(w.indexToNodes[i])
    BY <1>3, FS_RemoveElement
  <2>4. count[i] = IF seen /\ old = i THEN w.buckets[i] - 1 ELSE w.buckets[i]
    BY <1>0
  <2>5. Cardinality(w.indexToNodes[i] \ {n}) \in Nat
    BY <1>3, FS_Subset, FS_CardinalityType
  <2> HIDE DEF seen, old, nodes, count
  <2> QED
    BY <1>4, <2>1, <2>2, <2>3, <2>4, <2>5
<1>7. DOMAIN count = Bucket
  BY <1>0
<1>8. \A i \in Bucket : q[i] = IF i = Last THEN (w.indexToNodes[i] \ {n}) \cup {n}
                                            ELSE w.indexToNodes[i] \ {n}
  <2> HIDE DEF nodes
  <2> QED
    BY <1>2, <1>4, <1>5
<1>9. q \in [Bucket -> SUBSET Nodes]
  <2> HIDE DEF nodes
  <2> QED
    BY <1>2, <1>5
<1>10. \A i \in Bucket : b[i] = Cardinality(q[i]) /\ b[i] \in Nat
  <2> HIDE DEF nodes, count
  <2>1. SUFFICES ASSUME NEW i \in Bucket
                 PROVE  b[i] = Cardinality(q[i]) /\ b[i] \in Nat
    OBVIOUS
  <2>2. b[i] = IF i = Last THEN count[i] + 1 ELSE count[i]
    BY <1>2, <1>7
  <2>3. IsFiniteSet(nodes[i]) /\ n \notin nodes[i]
    BY <1>3, <1>4, FS_Subset
  <2>4. Cardinality(nodes[i] \cup {n}) = Cardinality(nodes[i]) + 1
    BY <2>3, FS_AddElement
  <2>5. q[i] = IF i = Last THEN nodes[i] \cup {n} ELSE nodes[i]
    BY <1>2, <1>5
  <2> HIDE DEF b, q
  <2> QED
    BY <1>6, <2>2, <2>4, <2>5
<1>11. DOMAIN b = Bucket /\ b = [i \in Bucket |-> b[i]]
  <2> HIDE DEF count
  <2> QED
    BY <1>7
<1>12. b \in [Bucket -> Nat]
  <2> HIDE DEF b
  <2> QED
    BY <1>10, <1>11
<1>13. D \in SUBSET Nodes /\ p \in [D -> Bucket] /\ DOMAIN p = D
  BY <1>0, <1>2
<1>14. Record(w, n) \in Window
  <2> HIDE DEF b, D, p, q
  <2> QED
    BY <1>0, <1>1, <1>9, <1>12, <1>13, WindowIntro
<1>15. MapsAgree(Record(w, n))
  <2> SUFFICES ASSUME NEW m \in Nodes, NEW i \in Bucket
               PROVE  m \in q[i] <=> m \in D /\ p[m] = i
    <3> HIDE DEF b, D, p, q
    <3> QED
      BY <1>1, <1>13 DEF MapsAgree
  <2>1. m \in w.indexToNodes[i] <=> m \in DOMAIN w.nodeToIndex /\ w.nodeToIndex[m] = i
    BY DEF MapsAgree
  <2>2. m \in q[i] <=> IF m = n THEN i = Last ELSE m \in w.indexToNodes[i]
    <3> HIDE DEF q
    <3> QED
      BY <1>8
  <2> HIDE DEF q
  <2> QED
    BY <2>1, <2>2
<1>16. Counted(Record(w, n))
  <2> HIDE DEF b, q
  <2> QED
    BY <1>1, <1>10 DEF Counted
<1> HIDE DEF b, q
<1> QED
  BY <1>1, <1>14, <1>15, <1>16

-----------------------------------------------------------------------------
(* The inductive invariant.                                                *)

(* A filed node stays filed rightly while the clock moves on.               *)
LEMMA TickOK ==
  ASSUME NEW w \in Window, NEW n \in Nodes, NEW c \in Nat \cup {Never},
         NEW t \in Nat, FiledRight(w, n, c, t)
  PROVE  FiledRight(w, n, c, t + 1)
<1>1. c \in Int /\ Last \in Int
  BY BucketsPositive DEF Never, Last
<1> QED
  BY <1>1 DEF FiledRight, TicksPerBucket

(* The initial state and a new pod: an empty window, no recorded cordon.    *)
LEMMA FreshOK ==
  ASSUME NEW t \in Nat
  PROVE  /\ NotAhead(EmptyWindow(t), t)
         /\ \A n \in Nodes : FiledRight(EmptyWindow(t), n, Never, t)
BY EmptyOK DEF NotAhead, FiledRight

\* A new breaker with its empty window satisfies the inductive invariant.
LEMMA InitIInv == Init => IInv
<1> SUFFICES ASSUME Init PROVE IInv
  OBVIOUS
<1>1. now \in Nat
  BY DEF Init, TicksPerBucket
<1>2. /\ win \in Window /\ MapsAgree(win) /\ Counted(win)
      /\ NotAhead(win, now)
      /\ \A n \in Nodes : FiledRight(win, n, Never, now)
  BY <1>1, EmptyOK, FreshOK DEF Init
<1>3. TypeOK
  BY <1>1, <1>2 DEF Init, TypeOK
<1>4. WindowExact
  BY <1>2 DEF Init, WindowExact
<1> QED
  BY <1>2, <1>3, <1>4 DEF IInv, WindowConsistent

\* Every step of clock, event loop, informer, operator and restart keeps it.
LEMMA NextIInv == IInv /\ [Next]_vars => IInv'
<1> SUFFICES ASSUME IInv, [Next]_vars PROVE IInv'
  OBVIOUS
<1> USE DEF IInv, WindowConsistent
<1>0. /\ now \in Nat /\ win \in Window
      /\ cordonedAt \in [Nodes -> Nat \cup {Never}]
      /\ \A n \in Nodes : FiledRight(win, n, cordonedAt[n], now)
  BY DEF TypeOK, WindowExact
<1> DEFINE slid == SlideWindow(win, now)
<1>S. /\ slid \in Window /\ MapsAgree(slid) /\ Counted(slid)
      /\ NotAhead(slid, now)
      /\ now < slid.startTime + 2
      /\ \A n \in Nodes : FiledRight(slid, n, cordonedAt[n], now)
  BY <1>0, SlideOK
<1> HIDE DEF slid
<1>Q. ASSUME UNCHANGED <<now, win, cordonedAt>>, TypeOK' PROVE IInv'
  BY <1>Q DEF WindowExact
<1>1. CASE Tick
  <2>1. TypeOK'
    BY <1>1 DEF Tick, TypeOK
  <2>2. NotAhead(win, now)'
    <3>1. win.startTime \in Nat
      BY <1>0, WindowFields
    <3> QED
      BY <1>0, <1>1, <3>1 DEF Tick, NotAhead
  <2>3. WindowExact'
    BY <1>0, <1>1, TickOK DEF Tick, WindowExact
  <2> QED
    BY <1>1, <2>1, <2>2, <2>3 DEF Tick
<1>2. CASE HaltTripped \/ HaltNoNodeCount \/ SkipEvent
  BY <1>2, <1>Q DEF HaltTripped, HaltNoNodeCount, SkipEvent, TypeOK
<1>3. ASSUME NEW total \in FleetSizes,
             HaltNoCordonCount(total) \/ Trip(total) \/ Pass(total)
      PROVE  IInv'
  <2>1. win' = slid /\ UNCHANGED <<now, cordonedAt>>
    BY <1>3 DEF HaltNoCordonCount, Trip, Pass, slid
  <2>2. TypeOK'
    BY <1>3, <1>S, <2>1 DEF HaltNoCordonCount, Trip, Pass, TypeOK
  <2> QED
    BY <1>S, <2>1, <2>2 DEF WindowExact
<1>4. ASSUME NEW n \in Nodes, Cordon(n) PROVE IInv'
  <2>1. /\ win' = Record(slid, n)
        /\ cordonedAt' = [cordonedAt EXCEPT ![n] = now]
        /\ now' = now
    BY <1>4 DEF Cordon, AddCordonEvent, slid
  <2>2. /\ win' \in Window /\ MapsAgree(win') /\ Counted(win')
        /\ win'.startTime = slid.startTime
        /\ DOMAIN win'.nodeToIndex = DOMAIN slid.nodeToIndex \cup {n}
        /\ win'.nodeToIndex[n] = Last
        /\ \A m \in DOMAIN slid.nodeToIndex \ {n} :
             win'.nodeToIndex[m] = slid.nodeToIndex[m]
    BY <1>S, <2>1, RecordOK
  <2>3. TypeOK'
    BY <1>0, <1>4, <2>1, <2>2 DEF Cordon, SeenAfter, TypeOK
  <2>4. slid.startTime \in Nat /\ slid.startTime <= now /\ Last \in Int
    <3>1. slid.startTime \in Nat
      BY <1>S, WindowFields
    <3> QED
      BY <1>S, <3>1, BucketsPositive DEF NotAhead, Last
  <2>5. ASSUME NEW m \in Nodes PROVE FiledRight(win', m, cordonedAt'[m], now')
    <3>1. CASE m = n
      <4>1. cordonedAt'[m] = now /\ m \in DOMAIN win'.nodeToIndex
        BY <1>0, <2>1, <2>2, <3>1
      <4>2. win'.startTime - (Last - win'.nodeToIndex[m]) * 2 = slid.startTime
        BY <2>2, <2>4, <3>1
      <4> QED
        BY <1>0, <1>S, <2>4, <4>1, <4>2 DEF FiledRight, TicksPerBucket
    <3>2. CASE m # n
      <4>1. cordonedAt'[m] = cordonedAt[m] /\ FiledRight(slid, m, cordonedAt[m], now)
        BY <1>0, <1>S, <2>1, <3>2
      <4> QED
        BY <2>1, <2>2, <3>2, <4>1 DEF FiledRight
    <3> QED
      BY <3>1, <3>2
  <2>6. NotAhead(win', now') /\ WindowExact'
    BY <2>1, <2>2, <2>4, <2>5 DEF NotAhead, WindowExact
  <2> QED
    BY <2>2, <2>3, <2>6 DEF MapsAgree, Counted, NotAhead
<1>5. ASSUME NEW n \in Nodes, ForcedCordon(n) \/ Recover(n) PROVE IInv'
  BY <1>5, <1>Q DEF ForcedCordon, Recover, SeenAfter, TypeOK
<1>6. ASSUME NEW n \in Nodes, ManualUncordon(n) \/ InformerUpdate(n) PROVE IInv'
  BY <1>6, <1>Q DEF ManualUncordon, InformerUpdate, SeenAfter, TypeOK
<1>7. CASE OperatorReset
  BY <1>7, <1>Q DEF OperatorReset, TypeOK
<1>8. CASE Restart
  <2>1. /\ win' = EmptyWindow(now)
        /\ cordonedAt' = [n \in Nodes |-> Never]
        /\ now' = now
    BY <1>8 DEF Restart, NewSlidingWindowBreaker
  <2>2. /\ win' \in Window /\ MapsAgree(win') /\ Counted(win')
        /\ NotAhead(win', now')
        /\ \A n \in Nodes : FiledRight(win', n, Never, now')
    BY <1>0, <2>1, EmptyOK, FreshOK
  <2>3. TypeOK'
    BY <1>8, <2>1, <2>2 DEF Restart, NewSlidingWindowBreaker, TypeOK
  <2>4. WindowExact'
    BY <2>1, <2>2 DEF WindowExact
  <2> QED
    BY <2>2, <2>3, <2>4 DEF MapsAgree, Counted, NotAhead
<1>9. CASE UNCHANGED vars
  BY <1>9, <1>Q DEF vars, TypeOK
<1> QED
  BY <1>1, <1>2, <1>3, <1>4, <1>5, <1>6, <1>7, <1>8, <1>9 DEF Next

(* In every reachable state of the breaker every variable has its type, for *)
(* every fleet, window length, bound and fault pattern.                     *)
THEOREM TypeCorrect == Spec => []TypeOK
BY InitIInv, NextIInv, PTL DEF Spec, IInv

(* The ring buffer's maps and counters agree in every reachable state, so   *)
(* that sumBuckets counts each recently cordoned node exactly once.         *)
THEOREM WindowStaysConsistent == Spec => []WindowConsistent
BY InitIInv, NextIInv, PTL DEF Spec, IInv

(* slideWindow forgets a cordon exactly when it leaves the window.          *)
THEOREM WindowStaysExact == Spec => []WindowExact
BY InitIInv, NextIInv, PTL DEF Spec, IInv

-----------------------------------------------------------------------------
(* What a trip and the standing bound guarantee, and when.                 *)

(* A trip that is persisted and read back is known everywhere.              *)
Remembered ==
  latched => state = "TRIPPED" /\ configMap = "TRIPPED" /\ pc # "apply"

(* While the ConfigMap can be written and read, a trip holds across         *)
(* restarts until an operator resets it: no node is cordoned meanwhile.     *)
THEOREM PersistedTripHolds ==
  ASSUME ReadFaults = FALSE, WriteFaults = FALSE
  PROVE  Spec => TripHolds
<1>1. Init => Remembered
  BY DEF Init, Remembered
<1>2. Remembered /\ [Next]_vars => Remembered'
  <2> SUFFICES ASSUME Remembered, [Next]_vars PROVE Remembered'
    OBVIOUS
  <2> USE DEF Remembered
  <2>1. CASE Tick \/ HaltTripped \/ HaltNoNodeCount \/ SkipEvent \/ OperatorReset
    BY <2>1 DEF Tick, HaltTripped, HaltNoNodeCount, SkipEvent, OperatorReset
  <2>2. ASSUME NEW total \in FleetSizes,
               HaltNoCordonCount(total) \/ Trip(total) \/ Pass(total)
        PROVE  Remembered'
    BY <2>2 DEF HaltNoCordonCount, Trip, Pass
  <2>3. ASSUME NEW n \in Nodes, Cordon(n) \/ ForcedCordon(n) \/ Recover(n)
        PROVE  Remembered'
    BY <2>3 DEF Cordon, ForcedCordon, Recover
  <2>4. ASSUME NEW n \in Nodes, ManualUncordon(n) \/ InformerUpdate(n)
        PROVE  Remembered'
    BY <2>4 DEF ManualUncordon, InformerUpdate
  <2>5. CASE Restart
    BY <2>5 DEF Restart, NewSlidingWindowBreaker
  <2>6. CASE UNCHANGED vars
    BY <2>6 DEF vars
  <2> QED
    BY <2>1, <2>2, <2>3, <2>4, <2>5, <2>6 DEF Next
<1>3. Remembered /\ [Next]_vars => [latched => held' \subseteq held]_vars
  <2> SUFFICES ASSUME latched, pc # "apply", [Next]_vars PROVE held' \subseteq held
    BY DEF Remembered
  <2>1. CASE Tick \/ HaltTripped \/ HaltNoNodeCount \/ OperatorReset \/ Restart
    BY <2>1 DEF Tick, HaltTripped, HaltNoNodeCount, OperatorReset, Restart
  <2>2. ASSUME NEW total \in FleetSizes,
               HaltNoCordonCount(total) \/ Trip(total) \/ Pass(total)
        PROVE  held' \subseteq held
    BY <2>2 DEF HaltNoCordonCount, Trip, Pass
  <2>3. ASSUME NEW n \in Nodes, ManualUncordon(n) \/ InformerUpdate(n)
        PROVE  held' \subseteq held
    BY <2>3 DEF ManualUncordon, InformerUpdate
  <2> QED
    BY <2>1, <2>2, <2>3 DEF Next, vars, Cordon, ForcedCordon, Recover, SkipEvent
<1> QED
  BY <1>1, <1>2, <1>3, PTL DEF Spec, TripHolds

(* A configured node count is never exceeded by the resolved bound.         *)
LEMMA StandingThresholdBound ==
  ASSUME TripMaxCordonedNodes > 0, NEW total \in Nat
  PROVE  StandingThreshold(total) \in 1 .. TripMaxCordonedNodes
<1> DEFINE product == total * TripMaxCordonedPercentage
<1>1. product \in Nat
  BY BoundsNatural
<1> HIDE DEF product
<1>2. (product + 99) \div 100 \in Nat
  BY <1>1
<1> QED
  BY <1>2, BoundsNatural DEF StandingThreshold, ResolveThreshold, product

(* The check passed on the true number of quarantined nodes.                *)
RoomLeft ==
  /\ cachedHeld = held
  /\ pc = "apply" => Cardinality(held) < TripMaxCordonedNodes

(* With an informer that does not lag and a fleet whose nodes are counted,  *)
(* the standing bound caps the nodes held at once.                          *)
THEOREM FreshStandingCap ==
  ASSUME CacheLag = FALSE, TripMaxCordonedNodes > 0, 0 \notin FleetSizes
  PROVE  Spec => StandingCap
<1> USE BoundsNatural
<1>0. TypeOK => /\ IsFiniteSet(held) /\ Cardinality(held) \in Nat
                /\ \A n \in Nodes : /\ IsFiniteSet(held \ {n})
                                    /\ Cardinality(held \ {n}) \in Nat
                                    /\ Cardinality(held \ {n}) <= Cardinality(held)
  BY NodesFinite, FS_Subset, FS_CardinalityType DEF TypeOK
<1>1. Init => RoomLeft
  BY DEF Init, RoomLeft
<1>2. TypeOK /\ RoomLeft /\ [Next]_vars => RoomLeft'
  <2> SUFFICES ASSUME TypeOK, RoomLeft, [Next]_vars PROVE RoomLeft'
    OBVIOUS
  <2> USE DEF RoomLeft
  <2>1. CASE Tick \/ HaltTripped \/ HaltNoNodeCount \/ SkipEvent \/ OperatorReset
    BY <2>1 DEF Tick, HaltTripped, HaltNoNodeCount, SkipEvent, OperatorReset
  <2>2. ASSUME NEW total \in FleetSizes, Pass(total) PROVE RoomLeft'
    <3>1. total \in Nat /\ total > 0
      BY FleetNatural
    <3>2. StandingThreshold(total) \in 1 .. TripMaxCordonedNodes
      BY <3>1, StandingThresholdBound
    <3>3. Cardinality(held) < StandingThreshold(total)
      BY <1>0, <2>2, <3>1, <3>2 DEF Pass, StandingBoundReached
    <3> QED
      BY <1>0, <2>2, <3>2, <3>3 DEF Pass
  <2>3. ASSUME NEW total \in FleetSizes, HaltNoCordonCount(total) \/ Trip(total)
        PROVE  RoomLeft'
    BY <2>3 DEF HaltNoCordonCount, Trip
  <2>4. ASSUME NEW n \in Nodes, Cordon(n) \/ ForcedCordon(n) \/ Recover(n)
        PROVE  RoomLeft'
    BY <2>4 DEF Cordon, ForcedCordon, Recover, SeenAfter
  <2>5. ASSUME NEW n \in Nodes, ManualUncordon(n) \/ InformerUpdate(n)
        PROVE  RoomLeft'
    BY <1>0, <2>5 DEF ManualUncordon, InformerUpdate, SeenAfter
  <2>6. CASE Restart
    BY <2>6 DEF Restart
  <2>7. CASE UNCHANGED vars
    BY <2>7 DEF vars
  <2> QED
    BY <2>1, <2>2, <2>3, <2>4, <2>5, <2>6, <2>7 DEF Next
<1>3. TypeOK /\ RoomLeft =>
        [\A n \in Nodes : Cordon(n) /\ n \notin held =>
           Cardinality(held') <= TripMaxCordonedNodes]_vars
  <2> SUFFICES ASSUME TypeOK, RoomLeft, NEW n \in Nodes, Cordon(n), n \notin held
               PROVE  Cardinality(held') <= TripMaxCordonedNodes
    OBVIOUS
  <2>1. Cardinality(held \cup {n}) = Cardinality(held) + 1
    BY <1>0, FS_AddElement
  <2>2. Cardinality(held) \in Nat /\ Cardinality(held) < TripMaxCordonedNodes
    BY <1>0 DEF Cordon, RoomLeft
  <2>3. held' = held \/ held' = held \cup {n}
    BY DEF Cordon
  <2> QED
    BY <2>1, <2>2, <2>3
<1> QED
  BY <1>1, <1>2, <1>3, TypeCorrect, PTL DEF Spec, StandingCap

=============================================================================
