--------------------------- MODULE CircuitBreaker ---------------------------
(***************************************************************************)
(* The sliding-window circuit breaker of fault-quarantine                  *)
(* (fault-quarantine/pkg/breaker) together with the part of the reconciler *)
(* that consults it before every health event and feeds it on every        *)
(* cordon.  Time is counted in half seconds, so that a step of the window  *)
(* (one bucket, one second) can be reached at two different phases.        *)
(***************************************************************************)
EXTENDS Integers, FiniteSets, Functions

CONSTANTS
  Nodes,                      \* nodes that health events name
  NumBuckets,                 \* ceil(Window / 1s)
  TripPercentage,             \* window bound, percent of the GPU fleet, 0 = off
  TripMaxNodes,               \* window bound, node count, 0 = off
  TripMaxCordonedPercentage,  \* standing bound, percent, 0 = off
  TripMaxCordonedNodes,       \* standing bound, node count, 0 = off
  FleetSizes,                 \* GPU node counts the informer may report
  MaxTime,                    \* bound: half seconds explored
  MaxRestarts,                \* bound: crashes of the fault-quarantine pod
  CacheLag,                   \* TRUE: the informer may lag the API server
  ReadFaults,                 \* TRUE: the ConfigMap read at start may fail
  WriteFaults                 \* TRUE: the ConfigMap write of a trip may fail

ASSUME NodesFinite == IsFiniteSet(Nodes)
ASSUME BucketsPositive == NumBuckets \in Nat \ {0}
ASSUME BoundsNatural ==
  /\ TripPercentage \in Nat
  /\ TripMaxNodes \in Nat
  /\ TripMaxCordonedPercentage \in Nat
  /\ TripMaxCordonedNodes \in Nat
ASSUME FleetNatural == FleetSizes \subseteq Nat
ASSUME ModelBounds == MaxTime \in Nat /\ MaxRestarts \in Nat

TicksPerBucket == 2
Bucket == 0 .. NumBuckets - 1
Last == NumBuckets - 1
Never == -1

VARIABLES
  now,         \* the clock
  win,         \* the ring buffer: startTime, buckets, nodeToIndex, indexToNodes
  state,       \* breaker state in memory
  configMap,   \* breaker state persisted in the ConfigMap
  pc,          \* event loop: starting, idle, apply (check passed), halted
  held,        \* nodes that carry the quarantine annotation (API server)
  cachedHeld,  \* the same set as the informer sees it
  restarts,    \* crashes so far
  cordonedAt,  \* history: last recorded cordon of a node, this incarnation
  latched      \* history: tripped and not yet reset by an operator

vars == <<now, win, state, configMap, pc, held, cachedHeld, restarts,
          cordonedAt, latched>>

-----------------------------------------------------------------------------
(* The ring buffer.                                                        *)

EmptyWindow(start) ==
  [startTime    |-> start,
   buckets      |-> [i \in Bucket |-> 0],
   nodeToIndex  |-> [n \in {} |-> 0],
   indexToNodes |-> [i \in Bucket |-> {}]]

(* Seeded fault: the nodes of the expired buckets stay in nodeToIndex.      *)
ShiftKeepsExpired(w, k) ==
  [startTime    |-> w.startTime + k * TicksPerBucket,
   buckets      |-> [i \in Bucket |->
                       IF i + k \in Bucket THEN w.buckets[i + k] ELSE 0],
   nodeToIndex  |-> [n \in DOMAIN w.nodeToIndex |-> w.nodeToIndex[n] - k],
   indexToNodes |-> [i \in Bucket |->
                       IF i + k \in Bucket THEN w.indexToNodes[i + k] ELSE {}]]

(* Shifting k buckets at once: the nodes of the k oldest buckets are        *)
(* forgotten, every other index moves down by k.                            *)
Shift(w, k) ==
  LET expired == UNION {w.indexToNodes[i] : i \in 0 .. k - 1}
  IN  [startTime    |-> w.startTime + k * TicksPerBucket,
       buckets      |-> [i \in Bucket |->
                           IF i + k \in Bucket THEN w.buckets[i + k] ELSE 0],
       nodeToIndex  |-> [n \in (DOMAIN w.nodeToIndex) \ expired |->
                           w.nodeToIndex[n] - k],
       indexToNodes |-> [i \in Bucket |->
                           IF i + k \in Bucket THEN w.indexToNodes[i + k] ELSE {}]]

(* Seeded fault: the window is cleared one second too early.                *)
SlideClearsEarly(w, t) ==
  LET steps == (t - w.startTime) \div TicksPerBucket
  IN  IF t <= w.startTime THEN w
      ELSE IF steps >= NumBuckets - 1 THEN EmptyWindow(t - (t % TicksPerBucket))
      ELSE Shift(w, steps)

SlideWindow(w, t) ==
  LET steps == (t - w.startTime) \div TicksPerBucket
  IN  IF t <= w.startTime THEN w
      ELSE IF steps >= NumBuckets THEN EmptyWindow(t - (t % TicksPerBucket))
      ELSE Shift(w, steps)

(* Seeded fault: a node cordoned again is not taken out of its old bucket.  *)
RecordTwice(w, n) ==
  [w EXCEPT !.buckets[Last] = @ + 1,
            !.nodeToIndex = [m \in (DOMAIN w.nodeToIndex) \cup {n} |->
                               IF m = n THEN Last ELSE w.nodeToIndex[m]],
            !.indexToNodes[Last] = @ \cup {n}]

(* AddCordonEvent after the slide: a node already in the window moves from  *)
(* its old bucket to the last one.                                          *)
Record(w, n) ==
  LET seen  == n \in DOMAIN w.nodeToIndex
      old   == w.nodeToIndex[n]
      nodes == IF seen
                 THEN [w.indexToNodes EXCEPT ![old] = @ \ {n}]
                 ELSE w.indexToNodes
      count == IF seen THEN [w.buckets EXCEPT ![old] = @ - 1] ELSE w.buckets
  IN  [startTime    |-> w.startTime,
       buckets      |-> [count EXCEPT ![Last] = @ + 1],
       nodeToIndex  |-> [m \in (DOMAIN w.nodeToIndex) \cup {n} |->
                           IF m = n THEN Last ELSE w.nodeToIndex[m]],
       indexToNodes |-> [nodes EXCEPT ![Last] = @ \cup {n}]]

AddCordonEvent(w, n, t) == Record(SlideWindow(w, t), n)

SumBuckets(w) == FoldFunction(LAMBDA a, b : a + b, 0, w.buckets)

(* The limit a percentage and an absolute bound resolve to, 0 when neither  *)
(* is configured (boundNone).  Percentages round up and stop at the fleet.  *)
ResolveThreshold(total, percentage, maxNodes) ==
  LET scaled == (total * percentage + 99) \div 100
      pct    == IF scaled > total THEN total ELSE scaled
  IN  IF maxNodes > 0 /\ (pct = 0 \/ maxNodes < pct) THEN maxNodes ELSE pct

TripThreshold(total) ==
  LET limit == ResolveThreshold(total, TripPercentage, TripMaxNodes)
  IN  IF limit > total THEN total ELSE limit

StandingThreshold(total) ==
  ResolveThreshold(total, TripMaxCordonedPercentage, TripMaxCordonedNodes)

(* Seeded fault: the breaker trips only above the limit.                    *)
WindowTripsAbove(w, total) ==
  IF total = 0
    THEN SumBuckets(w) > 0
    ELSE TripThreshold(total) > 0 /\ SumBuckets(w) > TripThreshold(total)

(* With no GPU node counted, any recent cordon trips.                       *)
WindowTrips(w, total) ==
  IF total = 0
    THEN SumBuckets(w) > 0
    ELSE TripThreshold(total) > 0 /\ SumBuckets(w) >= TripThreshold(total)

(* Seeded fault: the standing bound is compared with > as well.             *)
StandingBoundPassed(total) ==
  /\ total > 0
  /\ StandingThreshold(total) > 0
  /\ Cardinality(cachedHeld) > StandingThreshold(total)

StandingBoundReached(total) ==
  /\ total > 0
  /\ StandingThreshold(total) > 0
  /\ Cardinality(cachedHeld) >= StandingThreshold(total)

-----------------------------------------------------------------------------
Init ==
  /\ now \in 0 .. TicksPerBucket - 1
  /\ win = EmptyWindow(now)
  /\ state = "CLOSED"
  /\ configMap = "CLOSED"
  /\ pc = "starting"
  /\ held = {}
  /\ cachedHeld = {}
  /\ restarts = 0
  /\ cordonedAt = [n \in Nodes |-> Never]
  /\ latched = FALSE

Tick ==
  /\ now < MaxTime
  /\ now' = now + 1
  /\ UNCHANGED <<win, state, configMap, pc, held, cachedHeld, restarts,
                 cordonedAt, latched>>

(* IsTripped, at startup and before every health event.  A breaker already  *)
(* tripped, and a node count that cannot be read, halt the event loop.      *)
HaltTripped ==
  /\ pc \in {"starting", "idle"}
  /\ state = "TRIPPED"
  /\ pc' = "halted"
  /\ UNCHANGED <<now, win, state, configMap, held, cachedHeld, restarts,
                 cordonedAt, latched>>

HaltNoNodeCount ==
  /\ pc \in {"starting", "idle"}
  /\ state = "CLOSED"
  /\ pc' = "halted"
  /\ UNCHANGED <<now, win, state, configMap, held, cachedHeld, restarts,
                 cordonedAt, latched>>

(* The window has slid when the count of quarantined nodes cannot be read.  *)
HaltNoCordonCount(total) ==
  /\ pc \in {"starting", "idle"}
  /\ state = "CLOSED"
  /\ total > 0 /\ StandingThreshold(total) > 0
  /\ win' = SlideWindow(win, now)
  /\ ~WindowTrips(win', total)
  /\ pc' = "halted"
  /\ UNCHANGED <<now, state, configMap, held, cachedHeld, restarts, cordonedAt,
                 latched>>

(* The check trips the breaker: memory first, then the ConfigMap.           *)
Trip(total) ==
  /\ pc \in {"starting", "idle"}
  /\ state = "CLOSED"
  /\ LET w == SlideWindow(win, now)
     IN  /\ WindowTrips(w, total) \/ StandingBoundReached(total)
         /\ win' = w
  /\ state' = "TRIPPED"
  /\ latched' = TRUE
  /\ \/ configMap' = "TRIPPED"
     \/ WriteFaults /\ UNCHANGED configMap
  /\ pc' = "halted"
  /\ UNCHANGED <<now, held, cachedHeld, restarts, cordonedAt>>

Pass(total) ==
  /\ pc \in {"starting", "idle"}
  /\ state = "CLOSED"
  /\ LET w == SlideWindow(win, now)
     IN  /\ ~WindowTrips(w, total)
         /\ ~StandingBoundReached(total)
         /\ win' = w
  /\ pc' = IF pc = "starting" THEN "idle" ELSE "apply"
  /\ UNCHANGED <<now, state, configMap, held, cachedHeld, restarts,
                 cordonedAt, latched>>

(* What the informer sees after the API server's set became h.              *)
SeenAfter(h) == IF CacheLag THEN cachedHeld ELSE h

(* applyQuarantine: the cordon is recorded before the node is patched, so   *)
(* it counts even when the patch then fails.  A forced event is not counted.*)
Cordon(n) ==
  /\ pc = "apply"
  /\ win' = AddCordonEvent(win, n, now)
  /\ cordonedAt' = [cordonedAt EXCEPT ![n] = now]
  /\ held' \in {held, held \cup {n}}
  /\ cachedHeld' = SeenAfter(held')
  /\ pc' = "idle"
  /\ UNCHANGED <<now, state, configMap, restarts, latched>>

ForcedCordon(n) ==
  /\ pc = "apply"
  /\ held' = held \cup {n}
  /\ cachedHeld' = SeenAfter(held')
  /\ pc' = "idle"
  /\ UNCHANGED <<now, win, state, configMap, restarts, cordonedAt, latched>>

(* An event that matches no rule, or whose patch fails uncounted.           *)
SkipEvent ==
  /\ pc = "apply"
  /\ pc' = "idle"
  /\ UNCHANGED <<now, win, state, configMap, held, cachedHeld, restarts,
                 cordonedAt, latched>>

(* A healthy event that ends the node's session.                            *)
Recover(n) ==
  /\ pc = "apply"
  /\ n \in held
  /\ held' = held \ {n}
  /\ cachedHeld' = SeenAfter(held')
  /\ pc' = "idle"
  /\ UNCHANGED <<now, win, state, configMap, restarts, cordonedAt, latched>>

(* An operator's kubectl uncordon, handled by the informer callback.        *)
ManualUncordon(n) ==
  /\ n \in held
  /\ held' = held \ {n}
  /\ cachedHeld' = SeenAfter(held')
  /\ UNCHANGED <<now, win, state, configMap, pc, restarts, cordonedAt, latched>>

InformerUpdate(n) ==
  /\ (n \in held) # (n \in cachedHeld)
  /\ cachedHeld' = IF n \in held THEN cachedHeld \cup {n} ELSE cachedHeld \ {n}
  /\ UNCHANGED <<now, win, state, configMap, pc, held, restarts, cordonedAt,
                 latched>>

(* The operator patches the ConfigMap back to CLOSED; it is read only by    *)
(* the next start.                                                          *)
OperatorReset ==
  /\ configMap = "TRIPPED"
  /\ configMap' = "CLOSED"
  /\ latched' = FALSE
  /\ UNCHANGED <<now, win, state, pc, held, cachedHeld, restarts, cordonedAt>>

(* Seeded fault: the persisted state is not restored.                       *)
NewBreakerForgets ==
  /\ win' = EmptyWindow(now)
  /\ state' = "CLOSED"

(* A new pod builds a new breaker: an empty window, and the persisted state *)
(* unless it cannot be read, in which case the state stays CLOSED.          *)
NewSlidingWindowBreaker ==
  /\ win' = EmptyWindow(now)
  /\ \/ state' = configMap
     \/ ReadFaults /\ state' = "CLOSED"

Restart ==
  /\ restarts < MaxRestarts
  /\ restarts' = restarts + 1
  /\ NewSlidingWindowBreaker
  /\ cachedHeld' = held
  /\ cordonedAt' = [n \in Nodes |-> Never]
  /\ pc' = "starting"
  /\ UNCHANGED <<now, configMap, held, latched>>

Next ==
  \/ Tick
  \/ HaltTripped
  \/ HaltNoNodeCount
  \/ \E total \in FleetSizes : \/ HaltNoCordonCount(total)
                               \/ Trip(total)
                               \/ Pass(total)
  \/ SkipEvent
  \/ \E n \in Nodes : \/ Cordon(n)
                      \/ ForcedCordon(n)
                      \/ Recover(n)
                      \/ ManualUncordon(n)
                      \/ InformerUpdate(n)
  \/ OperatorReset
  \/ Restart

Spec == Init /\ [][Next]_vars

-----------------------------------------------------------------------------
Placement == UNION {[S -> Bucket] : S \in SUBSET Nodes}

Window == [startTime : Nat, buckets : [Bucket -> Nat],
           nodeToIndex : Placement, indexToNodes : [Bucket -> SUBSET Nodes]]

(* Every variable has its type.                                             *)
TypeOK ==
  /\ now \in Nat
  /\ win \in Window
  /\ state \in {"CLOSED", "TRIPPED"}
  /\ configMap \in {"CLOSED", "TRIPPED"}
  /\ pc \in {"starting", "idle", "apply", "halted"}
  /\ held \in SUBSET Nodes
  /\ cachedHeld \in SUBSET Nodes
  /\ restarts \in Nat
  /\ cordonedAt \in [Nodes -> Nat \cup {Never}]
  /\ latched \in BOOLEAN

(* The maps are inverse to each other.                                      *)
MapsAgree(w) ==
  \A n \in Nodes, i \in Bucket :
    n \in w.indexToNodes[i] <=>
      n \in DOMAIN w.nodeToIndex /\ w.nodeToIndex[n] = i

(* The counters count.                                                      *)
Counted(w) ==
  \A i \in Bucket : w.buckets[i] = Cardinality(w.indexToNodes[i])

(* The two maps of the ring buffer stay inverse to each other and each      *)
(* bucket counter equals the number of nodes filed in that bucket, through  *)
(* every interleaving of slideWindow's shifts and AddCordonEvent's moves.   *)
WindowConsistent == MapsAgree(win) /\ Counted(win)

(* Node n, last cordoned at c, is filed where it belongs at time t.         *)
FiledRight(w, n, c, t) ==
  LET opens == w.startTime - (Last - w.nodeToIndex[n]) * TicksPerBucket
  IN  IF n \in DOMAIN w.nodeToIndex
        THEN opens <= c /\ c < opens + TicksPerBucket
        ELSE c # Never => t - c > Last * TicksPerBucket

(* A node is filed in the bucket of the second in which it was last         *)
(* cordoned, and a node cordoned at most NumBuckets - 1 seconds ago is      *)
(* never missing from the window: slideWindow neither forgets a recent      *)
(* cordon nor keeps one past the window.                                    *)
WindowExact == \A n \in Nodes : FiledRight(win, n, cordonedAt[n], now)

(* Within one incarnation of the pod, the distinct nodes cordoned without   *)
(* force in any NumBuckets - 1 seconds never exceed the window limit, even  *)
(* while the fleet size reported by the informer changes between checks.    *)
LargestWindowLimit ==
  LET limits == {IF f = 0 THEN 1 ELSE TripThreshold(f) : f \in FleetSizes}
  IN  CHOOSE m \in limits : \A k \in limits : k <= m

RecentlyCordoned ==
  {n \in Nodes : /\ cordonedAt[n] # Never
                 /\ now - cordonedAt[n] <= Last * TicksPerBucket}

BlastRadius == Cardinality(RecentlyCordoned) <= LargestWindowLimit

(* The standing bound caps the nodes held at once: no unforced cordon takes *)
(* the number of quarantined nodes above the configured maximum.            *)
StandingCap ==
  [][\A n \in Nodes : Cordon(n) /\ n \notin held =>
       Cardinality(held') <= TripMaxCordonedNodes]_vars

(* Once tripped the breaker does not reset itself: until an operator resets *)
(* it, no node is cordoned, across restarts of the pod.                     *)
TripHolds == [][latched => held' \subseteq held]_vars

=============================================================================
