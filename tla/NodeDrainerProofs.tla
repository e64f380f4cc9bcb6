------------------------- MODULE NodeDrainerProofs -------------------------
(***************************************************************************)
(* Proofs about node-drainer for any number of events, any entities and    *)
(* modes, any number of crashes, with or without failing writes: types,    *)
(* and, as long as the node informer does not lag, that no fault of the    *)
(* open session is given up and that a drained status means no pod.        *)
(***************************************************************************)
EXTENDS NodeDrainer, FiniteSetTheorems, SequenceTheorems, TLAPS

-----------------------------------------------------------------------------
(* Type correctness.                                                       *)

(* The updates of a set of events form a sequence of events.                *)
LEMMA InOrderType ==
  ASSUME NEW S \in SUBSET Events, NEW q \in InOrder(S)
  PROVE  q \in Seq(S) /\ q \in Seq(Events)
<1>1. IsFiniteSet(Events)
  BY DrainerAssumption, FS_Interval DEF Events
<1>2. Cardinality(S) \in Nat
  BY <1>1, FS_Subset, FS_CardinalityType
<1>3. q \in [1..Cardinality(S) -> S]
  BY DEF InOrder
<1>4. q \in Seq(S)
  BY <1>2, <1>3
<1>5. q \in [1..Cardinality(S) -> Events]
  BY <1>3
<1> QED
  BY <1>2, <1>4, <1>5

\* A freshly started node-drainer is well typed.
LEMMA TypeInit == Init => TypeOK
<1> SUFFICES ASSUME Init PROVE TypeOK
  OBVIOUS
<1> USE DrainerAssumption DEF Init
<1>1. StoreTypeOK
  BY DEF StoreTypeOK, Statuses, Evictions
<1>2. NodeTypeOK
  BY DEF NodeTypeOK
<1>3. WatchTypeOK
  <2>1. stream \in Seq(Events) /\ Len(stream) = 0
    BY EmptySeq
  <2>2. inbox \in [e: Events \cup {0}, quar: Statuses, evict: Evictions]
    BY DEF NoChange, Statuses, Evictions
  <2>3. pos = 0 /\ token = 0
    OBVIOUS
  <2> HIDE DEF Init
  <2> QED
    BY <2>1, <2>2, <2>3 DEF WatchTypeOK
<1>4. ProcessTypeOK
  <2>1. w \in [stage: {"idle", "fetched", "cancelling", "checked", "decided", "evicting"},
               e: Events \cup {0}, quar: Statuses, evict: Evictions, act: Actions]
    BY DEF Idle, Statuses, Evictions, Actions
  <2>2. w.stage = "idle"
    BY DEF Idle
  <2>3. tracked \in [Events -> {"none", "InProgress", "Cancelled"}]
    OBVIOUS
  <2>4. up = TRUE /\ crashes = 0 /\ cutoff = 0 /\ queue = {} /\ ended = {}
    OBVIOUS
  <2> HIDE DEF Init
  <2> QED
    BY <2>1, <2>2, <2>3, <2>4 DEF ProcessTypeOK
<1> QED
  BY <1>1, <1>2, <1>3, <1>4 DEF TypeOK

(* fault-quarantine extends the stream and leaves the process alone.        *)
LEMMA TypeFaultQuarantine ==
  ASSUME TypeOK, FaultQuarantine
  PROVE  TypeOK'
<1> USE DrainerAssumption
<1>0. StoreTypeOK /\ NodeTypeOK /\ WatchTypeOK /\ ProcessTypeOK
  BY DEF TypeOK
<1>w. /\ stream \in Seq(Events) /\ Len(stream) \in Nat
      /\ pos \in Nat /\ pos <= Len(stream) /\ token \in Nat /\ token <= pos
  BY <1>0, LenProperties DEF WatchTypeOK
<1>1. ASSUME NEW e \in Events, NEW k \in Kinds, NEW s \in Scopes, Quarantine(e, k, s)
      PROVE  TypeOK'
  <2>1. stream' \in Seq(Events) /\ Len(stream') = Len(stream) + 1
    BY <1>1, <1>w, AppendProperties DEF Quarantine
  <2>2. WatchTypeOK'
    BY <2>1, <1>w, <1>0, <1>1 DEF Quarantine, WatchTypeOK
  <2>3. NodeTypeOK'
    BY <1>0, <1>1 DEF Quarantine, NodeTypeOK, Annotate
  <2>4. StoreTypeOK'
    BY <1>0, <1>1 DEF Quarantine, StoreTypeOK, Statuses, Active
  <2>5. ProcessTypeOK'
    BY <1>0, <1>1 DEF Quarantine, ProcessTypeOK, process
  <2> QED
    BY <2>2, <2>3, <2>4, <2>5 DEF TypeOK
<1>2. ASSUME NEW e \in Events, NEW f \in Events, PartialRecovery(e, f)
      PROVE  TypeOK'
  <2>1. stream' \in Seq(Events) /\ Len(stream') = Len(stream) + 1
    BY <1>2, <1>w, AppendProperties DEF PartialRecovery
  <2>2. WatchTypeOK'
    BY <2>1, <1>w, <1>0, <1>2 DEF PartialRecovery, WatchTypeOK
  <2>3. NodeTypeOK'
    BY <1>0, <1>2 DEF PartialRecovery, NodeTypeOK, Annotate
  <2>4. StoreTypeOK'
    BY <1>0, <1>2 DEF PartialRecovery, StoreTypeOK, Statuses, Active
  <2>5. ProcessTypeOK'
    BY <1>0, <1>2 DEF PartialRecovery, ProcessTypeOK, process
  <2> QED
    BY <2>2, <2>3, <2>4, <2>5 DEF TypeOK
<1>3. ASSUME NEW e \in Events, Unquarantine(e)
      PROVE  TypeOK'
  <2>1. stream' \in Seq(Events) /\ Len(stream') = Len(stream) + 1
    BY <1>3, <1>w, AppendProperties DEF Unquarantine
  <2>2. WatchTypeOK'
    BY <2>1, <1>w, <1>0, <1>3 DEF Unquarantine, WatchTypeOK
  <2>3. NodeTypeOK'
    BY <1>0, <1>3 DEF Unquarantine, NodeTypeOK, Annotate
  <2>4. StoreTypeOK'
    BY <1>0, <1>3 DEF Unquarantine, StoreTypeOK, Statuses, Active
  <2>5. ProcessTypeOK'
    BY <1>0, <1>3 DEF Unquarantine, ProcessTypeOK, process
  <2> QED
    BY <2>2, <2>3, <2>4, <2>5 DEF TypeOK
<1>4. ASSUME ManualUncordon
      PROVE  TypeOK'
  <2>0. PICK q \in InOrder(LatestSession) : stream' = stream \o q
    BY <1>4 DEF ManualUncordon
  <2>q. q \in Seq(Events) /\ Len(q) \in Nat
    BY <2>0, InOrderType, LenProperties DEF LatestSession
  <2>1. stream' \in Seq(Events) /\ Len(stream') = Len(stream) + Len(q)
    BY <2>0, <2>q, <1>w, ConcatProperties
  <2>2. WatchTypeOK'
    BY <2>1, <2>q, <1>w, <1>0, <1>4 DEF ManualUncordon, WatchTypeOK
  <2>3. NodeTypeOK'
    BY <1>0, <1>4 DEF ManualUncordon, NodeTypeOK, Annotate
  <2>4. StoreTypeOK'
    BY <1>0, <1>4 DEF ManualUncordon, StoreTypeOK, Statuses
  <2>5. ProcessTypeOK'
    BY <1>0, <1>4 DEF ManualUncordon, ProcessTypeOK, process
  <2> QED
    BY <2>2, <2>3, <2>4, <2>5 DEF TypeOK
<1> QED
  BY <1>1, <1>2, <1>3, <1>4 DEF FaultQuarantine

(* Pods, the informer and the change-stream goroutine.                      *)
LEMMA TypeWatcher ==
  ASSUME TypeOK,
         \/ PodsArrive \/ (\E g \in Entities : PodExits(g)) \/ CacheSync \/ Watcher
  PROVE  TypeOK'
<1> USE DrainerAssumption
<1>0. StoreTypeOK /\ NodeTypeOK /\ WatchTypeOK /\ ProcessTypeOK
  BY DEF TypeOK
<1>n. NoChange \in [e: Events \cup {0}, quar: Statuses, evict: Evictions]
  BY DEF NoChange, Statuses, Evictions
<1>1. CASE PodsArrive \/ (\E g \in Entities : PodExits(g)) \/ CacheSync
  <2>1. NodeTypeOK'
    BY <1>0, <1>1 DEF PodsArrive, PodExits, CacheSync, NodeTypeOK
  <2>2. UNCHANGED <<store, watch, process, ended>>
    BY <1>1 DEF PodsArrive, PodExits, CacheSync
  <2> QED
    BY <1>0, <2>1, <2>2 DEF TypeOK, StoreTypeOK, WatchTypeOK, ProcessTypeOK, store, watch, process
<1>2. CASE Receive
  <2>1. stream[pos + 1] \in Events /\ pos + 1 \in 0..Len(stream) /\ token \in 0..(pos + 1)
    BY <1>0, <1>2, LenProperties DEF Receive, WatchTypeOK
  <2>2. inbox' \in [e: Events \cup {0}, quar: Statuses, evict: Evictions]
    BY <1>0, <1>2, <2>1 DEF Receive, StoreTypeOK
  <2>3. WatchTypeOK'
    BY <1>0, <1>2, <2>1, <2>2 DEF Receive, WatchTypeOK
  <2> QED
    BY <1>0, <1>2, <2>3 DEF Receive, TypeOK, StoreTypeOK, NodeTypeOK, ProcessTypeOK, store, node, process
<1>3. CASE SkipTerminal \/ PreprocessCancelled \/ PreprocessAndEnqueueEvent \/ PreprocessFails
  <2>0. inbox.e \in Events
    BY <1>0, <1>3 DEF SkipTerminal, PreprocessCancelled, PreprocessAndEnqueueEvent,
                      PreprocessFails, WatchTypeOK
  <2>1. stream' = stream /\ pos' = pos /\ inbox' = NoChange /\ token' \in {token, pos}
    BY <1>3 DEF SkipTerminal, PreprocessCancelled, PreprocessAndEnqueueEvent,
                PreprocessFails, MarkProcessed
  <2>2. WatchTypeOK'
    BY <1>0, <1>n, <2>1, LenProperties DEF WatchTypeOK
  <2>3. NodeTypeOK'
    BY <1>0, <1>3 DEF SkipTerminal, PreprocessCancelled, PreprocessAndEnqueueEvent,
                      PreprocessFails, NodeTypeOK, node
  <2>4. StoreTypeOK'
    BY <1>0, <1>3, <2>0 DEF SkipTerminal, PreprocessCancelled, PreprocessAndEnqueueEvent,
                            PreprocessFails, StoreTypeOK, store, Evictions
  <2>5. /\ tracked' \in [Events -> {"none", "InProgress", "Cancelled"}]
        /\ cutoff' \in 0..NumEvents /\ ended' \subseteq Events
    <3>1. CASE SkipTerminal
      BY <1>0, <3>1 DEF SkipTerminal, process, ProcessTypeOK
    <3>2. CASE handleEventCancellation
      BY <1>0, <3>2, <2>0 DEF handleEventCancellation, handleUnQuarantinedCancellation,
                              ProcessTypeOK, Events
    <3> QED
      BY <1>3, <3>1, <3>2 DEF PreprocessCancelled, PreprocessAndEnqueueEvent, PreprocessFails
  <2>6. up' = up /\ crashes' = crashes /\ w' = w /\ queue' \subseteq queue \cup {inbox.e}
    BY <1>3 DEF SkipTerminal, PreprocessCancelled, PreprocessAndEnqueueEvent,
                PreprocessFails, process
  <2>7. ProcessTypeOK'
    BY <1>0, <2>0, <2>5, <2>6 DEF ProcessTypeOK
  <2> QED
    BY <2>2, <2>3, <2>4, <2>7 DEF TypeOK
<1> QED
  BY <1>1, <1>2, <1>3 DEF Watcher

(* The worker: what any of its steps can do to each variable.               *)
LEMMA TypeWorker ==
  ASSUME TypeOK, (\E e \in Events : Get(e)) \/ Pass
  PROVE  TypeOK'
<1> USE DrainerAssumption
<1>0. StoreTypeOK /\ NodeTypeOK /\ WatchTypeOK /\ ProcessTypeOK
  BY DEF TypeOK
<1> DEFINE Worker == [stage: {"idle", "fetched", "cancelling", "checked", "decided", "evicting"},
                      e: Events \cup {0}, quar: Statuses, evict: Evictions, act: Actions]
<1>i. Idle \in Worker /\ Idle.stage = "idle"
  BY DEF Idle, Statuses, Evictions, Actions
<1>1. ASSUME NEW e \in Events, Get(e)
      PROVE  TypeOK'
  <2>1. w' \in Worker /\ w'.e = e
    BY <1>0, <1>1 DEF Get, StoreTypeOK, Actions
  <2>2. w'.e # 0
    BY <2>1 DEF Events
  <2>3. ProcessTypeOK'
    BY <1>0, <1>1, <2>1, <2>2 DEF Get, ProcessTypeOK
  <2> QED
    BY <1>0, <1>1, <2>3 DEF Get, TypeOK, StoreTypeOK, NodeTypeOK, WatchTypeOK, store, node, watch
<1>2. ASSUME Pass
      PROVE  TypeOK'
  <2>0. w \in Worker /\ w.e \in Events /\ w.e # 0
    BY <1>0, <1>2 DEF ProcessTypeOK, Pass, At, isEventCancelled, handleCancelledEvent, ProcessEvent,
         executeSkip, executeMarkAlreadyDrained, executeCancelStatus, executeUpdateStatus, executeWait,
         executeImmediateEviction, executeCheckCompletion, executeTimeoutEviction, finishTimeoutEviction
  <2>1. WatchTypeOK'
    <3>1. UNCHANGED watch
      BY <1>2 DEF Pass, isEventCancelled, handleCancelledEvent, ProcessEvent,
         executeSkip, executeMarkAlreadyDrained, executeCancelStatus, executeUpdateStatus, executeWait,
         executeImmediateEviction, executeCheckCompletion, executeTimeoutEviction, finishTimeoutEviction
    <3> QED
      BY <1>0, <3>1 DEF watch, WatchTypeOK
  <2>2. StoreTypeOK'
    <3>1. UNCHANGED <<kind, scope, quar>>
      BY <1>2 DEF store, Pass, isEventCancelled, handleCancelledEvent, ProcessEvent,
         executeSkip, executeMarkAlreadyDrained, executeCancelStatus, executeUpdateStatus, executeWait,
         executeImmediateEviction, executeCheckCompletion, executeTimeoutEviction, finishTimeoutEviction
    <3>2. evict' = evict \/ \E t \in Terminal : evict' = [evict EXCEPT ![w.e] = t]
      BY <1>2 DEF store, Terminal, Drained, WriteStatus, Pass, isEventCancelled, handleCancelledEvent,
         ProcessEvent, executeSkip, executeMarkAlreadyDrained, executeCancelStatus, executeUpdateStatus,
         executeWait, executeImmediateEviction, executeCheckCompletion, executeTimeoutEviction,
         finishTimeoutEviction
    <3>3. evict' \in [Events -> Evictions]
      <4>1. Terminal \subseteq Evictions /\ evict \in [Events -> Evictions]
        BY <1>0 DEF StoreTypeOK, Evictions
      <4> QED
        BY <3>2, <4>1
    <3> QED
      BY <1>0, <3>1, <3>3 DEF StoreTypeOK
  <2>3. NodeTypeOK'
    BY <1>0, <1>2 DEF NodeTypeOK, node, SetLabel, Pass, isEventCancelled, handleCancelledEvent,
         ProcessEvent, executeSkip, executeMarkAlreadyDrained, executeCancelStatus, executeUpdateStatus,
         executeWait, executeImmediateEviction, executeCheckCompletion, executeTimeoutEviction,
         finishTimeoutEviction
  <2>4. UNCHANGED <<up, crashes, cutoff, ended>>
    BY <1>2 DEF Pass, isEventCancelled, handleCancelledEvent, ProcessEvent,
         executeSkip, executeMarkAlreadyDrained, executeCancelStatus, executeUpdateStatus, executeWait,
         executeImmediateEviction, executeCheckCompletion, executeTimeoutEviction, finishTimeoutEviction
  <2>5. \/ tracked' = tracked
        \/ \E m \in {"none", "InProgress", "Cancelled"} : tracked' = [tracked EXCEPT ![w.e] = m]
    BY <1>0, <1>2, <2>0 DEF ProcessTypeOK, clearEventStatus, Pass, isEventCancelled, handleCancelledEvent,
         ProcessEvent, executeSkip, executeMarkAlreadyDrained, executeCancelStatus, executeUpdateStatus,
         executeWait, executeImmediateEviction, executeCheckCompletion, executeTimeoutEviction,
         finishTimeoutEviction
  <2>6. /\ queue' \subseteq queue \cup {w.e}
        /\ \/ w' = Idle
           \/ \E t \in {"cancelling", "checked", "evicting"} : w' = [w EXCEPT !.stage = t]
           \/ \E a \in Actions : w' = [w EXCEPT !.stage = "decided", !.act = a]
    <3>1. CASE isEventCancelled \/ executeTimeoutEviction \/ finishTimeoutEviction
      BY <3>1 DEF isEventCancelled, executeTimeoutEviction, finishTimeoutEviction, Forget, Requeue
    <3>2. CASE ProcessEvent
      <4>1. EvaluateEvent(w.e) \subseteq Actions
        <5>1. getAction(w.e) \subseteq Actions
          BY DEF getAction, Actions
        <5>2. ASSUME NEW r \in IsNodeDrained(w.e)
              PROVE  r \in {"yes", "error", "no"}
          BY <5>2 DEF IsNodeDrained
        <5>3. handleAlreadyQuarantined(w.e) \subseteq Actions
          BY <5>1, <5>2 DEF handleAlreadyQuarantined, Actions
        <5> QED
          BY <5>1, <5>3 DEF EvaluateEvent, Actions
      <4> QED
        BY <3>2, <4>1 DEF ProcessEvent
    <3>3. CASE ~(isEventCancelled \/ executeTimeoutEviction \/ finishTimeoutEviction \/ ProcessEvent)
      BY <1>2, <3>3 DEF Pass, Forget, Requeue, WriteStatus, handleCancelledEvent,
           executeSkip, executeMarkAlreadyDrained, executeCancelStatus, executeUpdateStatus, executeWait,
           executeImmediateEviction, executeCheckCompletion
    <3> QED
      BY <3>1, <3>2, <3>3
  <2>7. w' \in Worker /\ (w'.stage # "idle" => w'.e # 0)
    BY <1>i, <2>0, <2>6
  <2>8. tracked' \in [Events -> {"none", "InProgress", "Cancelled"}]
    BY <1>0, <2>5 DEF ProcessTypeOK
  <2>9. queue' \subseteq Events
    BY <1>0, <2>0, <2>6 DEF ProcessTypeOK
  <2>10. ProcessTypeOK'
    BY <1>0, <2>4, <2>7, <2>8, <2>9 DEF ProcessTypeOK
  <2> QED
    BY <2>1, <2>2, <2>3, <2>10 DEF TypeOK
<1> QED
  BY <1>1, <1>2

(* A crash forgets the memory; a restart rebuilds the queue from the store. *)
LEMMA TypeRestart ==
  ASSUME TypeOK, Crash \/ Restart
  PROVE  TypeOK'
<1> USE DrainerAssumption
<1>0. StoreTypeOK /\ NodeTypeOK /\ WatchTypeOK /\ ProcessTypeOK
  BY DEF TypeOK
<1>1. CASE Crash
  <2>1. WatchTypeOK'
    <3>1. inbox' \in [e: Events \cup {0}, quar: Statuses, evict: Evictions]
      BY <1>1 DEF Crash, NoChange, Statuses, Evictions
    <3>2. stream' = stream /\ token' = token /\ pos' = token
      BY <1>1 DEF Crash
    <3> QED
      BY <1>0, <3>1, <3>2, LenProperties DEF WatchTypeOK
  <2>2. w' \in [stage: {"idle", "fetched", "cancelling", "checked", "decided", "evicting"},
                e: Events \cup {0}, quar: Statuses, evict: Evictions, act: Actions]
        /\ w'.stage = "idle"
    BY <1>1 DEF Crash, Idle, Statuses, Evictions, Actions
  <2>3. crashes' \in 0..MaxCrashes
    BY <1>0, <1>1 DEF Crash, ProcessTypeOK
  <2>t. tracked' \in [Events -> {"none", "InProgress", "Cancelled"}]
    BY <1>1 DEF Crash
  <2>u. up' \in BOOLEAN /\ cutoff' = 0 /\ queue' = {} /\ ended' = ended
    BY <1>1 DEF Crash
  <2>4. ProcessTypeOK'
    BY <1>0, <2>2, <2>3, <2>t, <2>u DEF ProcessTypeOK
  <2> QED
    BY <1>0, <1>1, <2>1, <2>4 DEF Crash, TypeOK, StoreTypeOK, NodeTypeOK, store, node
<1>2. CASE Restart
  <2>1. StoreTypeOK'
    BY <1>0, <1>2 DEF Restart, StoreTypeOK, Evictions, Terminal
  <2>2. ProcessTypeOK'
    BY <1>0, <1>2 DEF Restart, ProcessTypeOK, coldStartQuery
  <2> QED
    BY <1>0, <1>2, <2>1, <2>2 DEF Restart, TypeOK, NodeTypeOK, WatchTypeOK, node, watch
<1> QED
  BY <1>1, <1>2

\* Every step keeps the types, by the lemmas on the groups of actions above.
LEMMA TypeStep == TypeOK /\ [Next]_vars => TypeOK'
<1> SUFFICES ASSUME TypeOK, [Next]_vars PROVE TypeOK'
  OBVIOUS
<1>1. CASE UNCHANGED vars
  BY <1>1 DEF vars, store, node, watch, process, TypeOK, StoreTypeOK, NodeTypeOK, WatchTypeOK,
              ProcessTypeOK
<1>2. CASE Next
  BY <1>2, TypeFaultQuarantine, TypeWatcher, TypeWorker, TypeRestart DEF Next
<1> QED
  BY <1>1, <1>2

(* Types, the positions of the stream and the worker's hold on an event, in *)
(* every reachable state, crashes and failed writes included.               *)
THEOREM TypeCorrect == Spec => []TypeOK
  BY TypeInit, TypeStep, PTL DEF Spec

-----------------------------------------------------------------------------
(* The two safety invariants.                                              *)

IInv ==
  /\ TypeOK
  /\ Announced
  /\ OpenSession
  /\ CancelJustified
  /\ DrainJustified
  /\ DrainedMeansEmpty
  /\ OpenFaultNotCancelled

\* Before any event the inductive invariant holds.
LEMMA SafetyInit == Init => IInv
<1> SUFFICES ASSUME Init PROVE IInv
  OBVIOUS
<1>1. TypeOK
  BY TypeInit
<1>2. Announced
  <2>2. stream \in Seq({e \in Events : quar[e] # "unset"})
    BY EmptySeq DEF Init
  <2> QED
    BY <2>2 DEF Init, Announced, NoChange, Idle
<1>3. OpenSession /\ DrainedMeansEmpty /\ OpenFaultNotCancelled
  BY DEF Init, OpenSession, DrainedMeansEmpty, OpenFaultNotCancelled
<1>4. CancelJustified
  BY DEF Init, CancelJustified, NoChange, Idle
<1>5. DrainJustified
  BY DEF Init, DrainJustified, Idle
<1> QED
  BY <1>1, <1>2, <1>3, <1>4, <1>5 DEF IInv

(* What fault-quarantine may do: session ends are final, only an event      *)
(* without a status gets into the annotation, reports do not change, and    *)
(* the session that an event joins is open.                                 *)
LEMMA EnvironmentEffects ==
  ASSUME IInv, FaultQuarantine, NEW e \in Events
  PROVE  /\ quar[e] # "unset" => quar'[e] # "unset"
         /\ quar[e] \in {"UnQuarantined", "Cancelled"} => quar'[e] = quar[e]
         /\ (e \in annot' /\ e \notin annot) => (quar[e] = "unset" /\ kind'[e] \in {"fault", "skip"})
         /\ e \in annot' => quar'[e] \in Active
         /\ quar[e] # "unset" => (kind'[e] = kind[e] /\ scope'[e] = scope[e])
         /\ UNCHANGED <<evict, pods, inbox, process>>
<1> USE DEF IInv, TypeOK, StoreTypeOK, Annotate, Active
<1>1. ASSUME NEW f \in Events, NEW k \in Kinds, NEW s \in Scopes, Quarantine(f, k, s)
      PROVE  /\ quar[e] # "unset" => quar'[e] # "unset"
             /\ quar[e] \in {"UnQuarantined", "Cancelled"} => quar'[e] = quar[e]
             /\ (e \in annot' /\ e \notin annot) => (quar[e] = "unset" /\ kind'[e] \in {"fault", "skip"})
             /\ e \in annot' => quar'[e] \in Active
             /\ quar[e] # "unset" => (kind'[e] = kind[e] /\ scope'[e] = scope[e])
             /\ UNCHANGED <<evict, pods, inbox, process>>
  BY <1>1, DrainerAssumption DEF Quarantine, IsNext, OpenSession
<1>2. ASSUME NEW f \in Events, NEW g \in Events, PartialRecovery(f, g)
      PROVE  /\ quar[e] # "unset" => quar'[e] # "unset"
             /\ quar[e] \in {"UnQuarantined", "Cancelled"} => quar'[e] = quar[e]
             /\ annot' \subseteq annot
             /\ e \in annot' => quar'[e] \in Active
             /\ UNCHANGED <<kind, scope, evict, pods, inbox, process>>
  BY <1>2 DEF PartialRecovery, IsNext, OpenSession
<1>3. ASSUME NEW f \in Events, Unquarantine(f)
      PROVE  /\ quar[e] # "unset" => quar'[e] # "unset"
             /\ quar[e] \in {"UnQuarantined", "Cancelled"} => quar'[e] = quar[e]
             /\ annot' = {}
             /\ UNCHANGED <<kind, scope, evict, pods, inbox, process>>
  BY <1>3 DEF Unquarantine, IsNext
<1>4. ASSUME ManualUncordon
      PROVE  /\ quar[e] # "unset" => quar'[e] # "unset"
             /\ quar[e] \in {"UnQuarantined", "Cancelled"} => quar'[e] = quar[e]
             /\ annot' = {}
             /\ UNCHANGED <<kind, scope, evict, pods, inbox, process>>
  BY <1>4 DEF ManualUncordon, LatestSession
<1> QED
  BY <1>1, <1>2, <1>3, <1>4 DEF FaultQuarantine

(* New updates concern events that have been given a status.                *)
LEMMA EnvironmentStream ==
  ASSUME IInv, FaultQuarantine
  PROVE  stream' \in Seq({e \in Events : quar'[e] # "unset"})
<1> DEFINE G == {e \in Events : quar[e] # "unset"}
           H == {e \in Events : quar'[e] # "unset"}
<1>q. quar \in [Events -> Statuses]
  BY DEF IInv, TypeOK, StoreTypeOK
<1>h. G \subseteq H
  BY EnvironmentEffects
<1>0. stream \in Seq(H)
  <2>1. stream \in Seq(G)
    BY DEF IInv, Announced
  <2> HIDE DEF G, H
  <2> QED
    BY <1>h, <2>1
<1>1. ASSUME NEW f \in H, stream' = Append(stream, f)
      PROVE  stream' \in Seq(H)
  <2> HIDE DEF H
  <2> QED
    BY <1>0, <1>1, AppendProperties
<1>2. CASE \E f \in Events, k \in Kinds, s \in Scopes : Quarantine(f, k, s)
  <2>1. PICK f \in Events, k \in Kinds, s \in Scopes : Quarantine(f, k, s)
    BY <1>2
  <2>2. stream' = Append(stream, f) /\ f \in H
    BY <2>1, <1>q DEF Quarantine
  <2> QED
    BY <1>1, <2>2
<1>3. CASE \E f, g \in Events : PartialRecovery(f, g)
  <2>1. PICK f \in Events, g \in Events : PartialRecovery(f, g)
    BY <1>3
  <2>2. stream' = Append(stream, f) /\ f \in H
    BY <2>1, <1>q DEF PartialRecovery
  <2> QED
    BY <1>1, <2>2
<1>4. CASE \E f \in Events : Unquarantine(f)
  <2>1. PICK f \in Events : Unquarantine(f)
    BY <1>4
  <2>2. stream' = Append(stream, f) /\ f \in H
    BY <2>1, <1>q DEF Unquarantine
  <2> QED
    BY <1>1, <2>2
<1>5. CASE ManualUncordon
  <2>1. PICK q \in InOrder(LatestSession) : stream' = stream \o q
    BY <1>5 DEF ManualUncordon
  <2>2. q \in Seq(LatestSession)
    BY <2>1, InOrderType DEF LatestSession
  <2>3. LatestSession \subseteq H
    BY <1>5, <1>q DEF ManualUncordon, LatestSession
  <2> HIDE DEF H
  <2>4. q \in Seq(H)
    BY <2>2, <2>3
  <2>5. stream \o q \in Seq(H)
    BY <1>0, <2>4, ConcatProperties
  <2>6. stream' \in Seq(H)
    BY <2>1, <2>5
  <2> QED
    BY <2>6 DEF H
<1> QED
  BY <1>2, <1>3, <1>4, <1>5 DEF FaultQuarantine

(* Statuses are still given in creation order, and a new end of a session   *)
(* is newer than every event of the open one only when the annotation goes. *)
LEMMA EnvironmentOrder ==
  ASSUME IInv, FaultQuarantine
  PROVE  /\ \A f, g \in Events : (quar'[f] # "unset" /\ g < f) => quar'[g] # "unset"
         /\ OpenSession'
<1>a. Announced /\ OpenSession /\ quar \in [Events -> Statuses]
  BY DEF IInv, TypeOK, StoreTypeOK
<1>i. Events \subseteq Int
  BY DEF Events
<1>k. \A e \in Events : quar[e] # "unset" => quar'[e] # "unset"
  BY EnvironmentEffects
<1>1. ASSUME NEW f \in Events, IsNext(f), \A e \in Events : e # f => quar'[e] = quar[e],
             quar'[f] \notin {"UnQuarantined", "Cancelled"} \/ annot' = {}
      PROVE  /\ \A h, g \in Events : (quar'[h] # "unset" /\ g < h) => quar'[g] # "unset"
             /\ OpenSession'
  <2>1. ASSUME NEW g \in Events, g < f PROVE quar[g] # "unset"
    <3>1. g \in 1..(f - 1)
      BY <2>1, DrainerAssumption DEF Events
    <3> QED
      BY <1>1, <3>1 DEF IsNext
  <2>2. \A g \in Events : g > f => quar[g] = "unset"
    BY <1>1, <1>a, <1>i DEF IsNext, Announced
  <2>3. ASSUME NEW h \in Events, NEW g \in Events, quar'[h] # "unset", g < h
        PROVE  quar'[g] # "unset"
    BY <1>1, <1>a, <1>i, <1>k, <2>1, <2>2, <2>3 DEF Announced
  <2>4. ASSUME NEW e \in annot', annot' # {}
        PROVE  quar'[e] \in Active /\ kind'[e] \in {"fault", "skip"} /\ ~SessionOver(e)'
    <3>1. e \in Events
      BY TypeFaultQuarantine DEF IInv, TypeOK, NodeTypeOK
    <3>2. quar'[e] \in Active /\ kind'[e] \in {"fault", "skip"}
      BY <1>a, <2>4, <3>1, EnvironmentEffects DEF OpenSession, Active
    <3>3. ASSUME NEW u \in Events, u >= e, quar'[u] \in {"UnQuarantined", "Cancelled"}
          PROVE  FALSE
      <4>1. u # f /\ quar[u] \in {"UnQuarantined", "Cancelled"}
        BY <1>1, <2>4, <3>3
      <4>2. CASE e \in annot
        BY <1>a, <3>3, <4>1, <4>2 DEF OpenSession, SessionOver
      <4>3. CASE e \notin annot
        <5>1. quar[e] = "unset"
          BY <2>4, <3>1, <4>3, EnvironmentEffects
        <5>3. u # e
          BY <4>1, <5>1
        <5>2. u > e
          BY <1>i, <3>1, <3>3, <5>3
        <5> QED
          BY <1>a, <1>i, <3>1, <4>1, <5>1, <5>2 DEF Announced
      <4> QED
        BY <4>2, <4>3
    <3> QED
      BY <3>2, <3>3 DEF SessionOver
  <2> QED
    BY <2>3, <2>4 DEF OpenSession
<1>2. CASE \E f \in Events, k \in Kinds, s \in Scopes : Quarantine(f, k, s)
  <2>1. PICK f \in Events, k \in Kinds, s \in Scopes : Quarantine(f, k, s)
    BY <1>2
  <2> QED
    BY <2>1, <1>1, <1>a DEF Quarantine
<1>3. CASE \E f, g \in Events : PartialRecovery(f, g)
  <2>1. PICK f \in Events, g \in Events : PartialRecovery(f, g)
    BY <1>3
  <2> QED
    BY <2>1, <1>1, <1>a DEF PartialRecovery
<1>4. CASE \E f \in Events : Unquarantine(f)
  <2>1. PICK f \in Events : Unquarantine(f)
    BY <1>4
  <2> QED
    BY <2>1, <1>1, <1>a DEF Unquarantine, Annotate
<1>5. CASE ManualUncordon
  <2>1. annot' = {}
    BY <1>5 DEF ManualUncordon, Annotate
  <2>2. \A e \in Events : quar'[e] # "unset" => quar[e] # "unset"
    BY <1>5, <1>a DEF ManualUncordon, LatestSession, Active
  <2> QED
    BY <1>a, <1>k, <2>1, <2>2 DEF Announced, OpenSession
<1> QED
  BY <1>2, <1>3, <1>4, <1>5 DEF FaultQuarantine

\* What fault-quarantine writes keeps the evidence for statuses and cancellations.
LEMMA EnvironmentStep ==
  ASSUME IInv, CacheLag = FALSE, FaultQuarantine
  PROVE  IInv'
<1>t. TypeOK /\ TypeOK'
  BY TypeFaultQuarantine DEF IInv
<1>k. \A e \in Events : quar[e] # "unset" => quar'[e] # "unset"
  BY EnvironmentEffects
<1>u. UNCHANGED <<evict, pods, inbox, process>>
  <2>1. 1 \in Events
    BY DrainerAssumption DEF Events
  <2> QED
    BY <2>1, EnvironmentEffects
<1>v. evict' = evict /\ pods' = pods /\ inbox' = inbox /\ queue' = queue /\ w' = w
         /\ tracked' = tracked /\ cutoff' = cutoff
  BY <1>u DEF process
<1>p. /\ w.stage # "idle" => w.e \in Events
      /\ inbox.e # 0 => inbox.e \in Events
      /\ cutoff # 0 => cutoff \in Events
      /\ queue \subseteq Events /\ annot \subseteq Events /\ annot' \subseteq Events
  BY <1>t, DrainerAssumption DEF TypeOK, ProcessTypeOK, WatchTypeOK, NodeTypeOK, Events
<1>o. \A e \in Events : SessionOver(e) => SessionOver(e)'
  BY EnvironmentEffects DEF SessionOver
<1>n. \A e \in Events : (e \in annot' /\ e \notin annot) => quar[e] = "unset"
  BY EnvironmentEffects
<1>s. \A e \in Events : quar[e] # "unset" => (kind'[e] = kind[e] /\ scope'[e] = scope[e])
  BY EnvironmentEffects
<1>1. Announced'
  BY <1>k, <1>v, <1>p, EnvironmentStream, EnvironmentOrder DEF Announced, IInv
<1>2. OpenSession'
  BY EnvironmentOrder
<1>3. CancelJustified'
  <2>1. cutoff # 0 => quar'[cutoff] = "UnQuarantined"
    BY <1>p, EnvironmentEffects DEF IInv, CancelJustified
  <2>2. \A e \in Events : tracked[e] = "Cancelled" => SessionOver(e)'
    BY <1>o DEF IInv, CancelJustified
  <2>3. /\ (inbox.e # 0 /\ inbox.quar = "Cancelled") => SessionOver(inbox.e)'
        /\ (w.stage # "idle" /\ w.quar = "UnQuarantined") => SessionOver(w.e)'
        /\ w.stage = "cancelling" => SessionOver(w.e)'
    BY <1>o, <1>p, <1>v DEF IInv, CancelJustified
  <2>5. (inbox.e # 0 /\ inbox.quar = "UnQuarantined") => quar'[inbox.e] = "UnQuarantined"
    BY <1>p, EnvironmentEffects DEF IInv, CancelJustified
  <2>4. (w.stage = "decided" /\ w.act = "cancel") => w.e \notin annot'
    BY <1>n, <1>p DEF IInv, CancelJustified, Announced
  <2> QED
    BY <1>v, <2>1, <2>2, <2>3, <2>4, <2>5 DEF CancelJustified
<1>4. DrainJustified'
  <2>1. seen' = annot'
    BY DEF IInv, DrainJustified, FaultQuarantine, Quarantine, PartialRecovery, Unquarantine,
           ManualUncordon, Annotate
  <2>2. \A e \in annot' : kind'[e] = "skip" => evict[e] # "Succeeded"
    BY <1>n, <1>s, <1>p DEF IInv, DrainJustified, Announced, OpenSession, Active
  <2>3. w.stage = "decided" =>
         /\ w.act = "succeed" => kind'[w.e] = "fault"
         /\ (w.act \in {"succeed", "already"} /\ w.e \in annot' /\ kind'[w.e] = "fault")
              => Targets(scope'[w.e]) \cap pods = {}
    BY <1>n, <1>s, <1>p DEF IInv, DrainJustified, Announced
  <2> QED
    BY <1>v, <2>1, <2>2, <2>3 DEF DrainJustified, Targets
<1>5. DrainedMeansEmpty'
  <2>1. ASSUME NEW e \in annot', kind'[e] = "fault", evict[e] \in Drained
        PROVE  Targets(scope'[e]) \cap pods = {}
    <3>1. e \in Events /\ evict[e] # "unset"
      BY <1>p, <2>1 DEF Drained
    <3>2. quar[e] # "unset" /\ e \in annot
      BY <1>n, <3>1, <2>1 DEF IInv, Announced
    <3> QED
      BY <1>s, <2>1, <3>1, <3>2 DEF IInv, DrainedMeansEmpty
  <2> QED
    BY <1>v, <2>1 DEF DrainedMeansEmpty, Targets
<1>6. OpenFaultNotCancelled'
  BY <1>n, <1>v, <1>p DEF IInv, OpenFaultNotCancelled, Announced
<1> QED
  BY <1>t, <1>1, <1>2, <1>3, <1>4, <1>5, <1>6 DEF IInv

(* Pods come only to a node without a quarantine.                           *)
LEMMA PodStep ==
  ASSUME IInv, PodsArrive \/ \E g \in Entities : PodExits(g)
  PROVE  IInv'
<1>t. TypeOK'
  BY TypeWatcher DEF IInv
<1>1. UNCHANGED <<kind, scope, quar, evict, annot, seen, label, watch, process, ended>>
  BY DEF PodsArrive, PodExits, store
<1>2. annot = {} \/ pods' \subseteq pods
  BY DEF PodsArrive, PodExits
<1>3. Announced' /\ OpenSession' /\ CancelJustified' /\ OpenFaultNotCancelled'
  BY <1>1 DEF IInv, watch, process, Announced, OpenSession, CancelJustified, SessionOver,
              OpenFaultNotCancelled
<1>4. DrainedMeansEmpty'
  BY <1>1, <1>2 DEF IInv, DrainedMeansEmpty, Targets
<1>5. DrainJustified'
  <2>1. w' = w /\ kind' = kind /\ scope' = scope /\ evict' = evict /\ annot' = annot /\ seen' = seen
    BY <1>1 DEF process
  <2> QED
    BY <1>2, <2>1 DEF IInv, DrainJustified, Targets
<1> QED
  BY <1>t, <1>3, <1>4, <1>5 DEF IInv

(* An informer that does not lag has nothing to catch up with.              *)
LEMMA NoCacheStep ==
  ASSUME IInv PROVE ~CacheSync
  BY DEF IInv, DrainJustified, CacheSync

(* The change-stream goroutine: what it takes from a looked-up document is  *)
(* still true of the store, because session ends are final.                 *)
LEMMA WatcherStep ==
  ASSUME IInv, Watcher
  PROVE  IInv'
<1>t. TypeOK /\ TypeOK'
  BY TypeWatcher DEF IInv
<1>p. /\ annot \subseteq Events /\ (inbox.e # 0 => inbox.e \in Events)
      /\ quar \in [Events -> Statuses] /\ evict \in [Events -> Evictions]
      /\ tracked \in [Events -> {"none", "InProgress", "Cancelled"}]
  BY <1>t DEF TypeOK, NodeTypeOK, WatchTypeOK, StoreTypeOK, ProcessTypeOK
<1>1. CASE Receive
  <2>1. UNCHANGED <<store, node, stream, process>>
    BY <1>1 DEF Receive
  <2>2. stream[pos + 1] \in {e \in Events : quar[e] # "unset"}
    <3>1. stream \in Seq({e \in Events : quar[e] # "unset"})
      BY DEF IInv, Announced
    <3>2. pos + 1 \in 1..Len(stream)
      BY <1>1, <1>t, <3>1, LenProperties DEF Receive, TypeOK, WatchTypeOK
    <3> QED
      BY <3>1, <3>2, ElementOfSeq
  <2>3. inbox' = [e |-> stream[pos + 1], quar |-> quar[stream[pos + 1]], evict |-> evict[stream[pos + 1]]]
    BY <1>1 DEF Receive
  <2>4. inbox'.e = stream[pos + 1] /\ inbox'.quar = quar[inbox'.e]
    BY <2>3
  <2>5. Announced' /\ OpenSession' /\ OpenFaultNotCancelled' /\ DrainedMeansEmpty' /\ DrainJustified'
    BY <2>1, <2>2, <2>4 DEF IInv, store, node, process, Announced, OpenSession, SessionOver,
                OpenFaultNotCancelled, DrainedMeansEmpty, DrainJustified, Targets
  <2>6. CancelJustified'
    <3>1. quar[inbox'.e] = "Cancelled" => SessionOver(inbox'.e)
      BY <2>2, <2>4 DEF SessionOver, Events
    <3> QED
      BY <2>1, <2>4, <3>1 DEF IInv, store, node, process, CancelJustified, SessionOver
  <2> QED
    BY <1>t, <2>5, <2>6 DEF IInv
<1>2. CASE SkipTerminal \/ PreprocessCancelled \/ PreprocessAndEnqueueEvent \/ PreprocessFails
  <2>0. inbox.e \in Events /\ inbox.e # 0
    BY <1>2, <1>p DEF SkipTerminal, PreprocessCancelled, PreprocessAndEnqueueEvent, PreprocessFails
  <2>1. /\ UNCHANGED <<kind, scope, quar, annot, seen, pods, stream, w>>
        /\ inbox' = NoChange
        /\ queue' \subseteq queue \cup {inbox.e}
        /\ evict' = evict \/ evict' = [evict EXCEPT ![inbox.e] = "InProgress"]
        /\ UNCHANGED <<tracked, cutoff>> \/ handleEventCancellation
    BY <1>2 DEF SkipTerminal, PreprocessCancelled, PreprocessAndEnqueueEvent, PreprocessFails,
                MarkProcessed, store, node, process
  <2>2. Announced'
    BY <1>p, <2>0, <2>1 DEF IInv, Announced, NoChange
  <2>3. OpenSession'
    BY <2>1 DEF IInv, OpenSession, SessionOver
  <2>4. \A e \in Events : evict'[e] = evict[e] \/ evict'[e] = "InProgress"
    BY <1>p, <2>1
  <2>5. OpenFaultNotCancelled' /\ DrainedMeansEmpty'
    BY <1>p, <2>1, <2>4 DEF IInv, OpenFaultNotCancelled, DrainedMeansEmpty, Targets, Drained
  <2>6. DrainJustified'
    BY <1>p, <2>1, <2>4 DEF IInv, DrainJustified, Targets
  <2>7. /\ cutoff' # 0 => quar[cutoff'] = "UnQuarantined"
        /\ \A e \in Events : tracked'[e] = "Cancelled" => SessionOver(e)
    <3>1. CASE UNCHANGED <<tracked, cutoff>>
      BY <3>1 DEF IInv, CancelJustified
    <3>2. CASE handleEventCancellation /\ inbox.quar = "Cancelled"
      BY <1>p, <2>0, <3>2 DEF handleEventCancellation, IInv, CancelJustified
    <3>3. CASE handleEventCancellation /\ inbox.quar = "UnQuarantined"
      <4>1. quar[inbox.e] = "UnQuarantined"
        BY <2>0, <3>3 DEF IInv, CancelJustified
      <4>2. cutoff' = inbox.e
        BY <3>3 DEF handleEventCancellation, handleUnQuarantinedCancellation
      <4>3. ASSUME NEW e \in Events, tracked'[e] = "Cancelled", tracked[e] # "Cancelled"
            PROVE  e <= inbox.e
        BY <3>3, <4>3 DEF handleEventCancellation, handleUnQuarantinedCancellation,
                          eventAtOrBeforeCutoff
      <4>4. ASSUME NEW e \in Events, e <= inbox.e PROVE SessionOver(e)
        BY <2>0, <4>1, <4>4 DEF SessionOver, Events
      <4> QED
        BY <4>1, <4>2, <4>3, <4>4 DEF IInv, CancelJustified
    <3>4. CASE handleEventCancellation /\ inbox.quar \notin {"Cancelled", "UnQuarantined"}
      BY <3>4 DEF handleEventCancellation, IInv, CancelJustified
    <3> QED
      BY <2>1, <3>1, <3>2, <3>3, <3>4
  <2>8. CancelJustified'
    BY <2>1, <2>7 DEF IInv, CancelJustified, SessionOver, NoChange
  <2> QED
    BY <1>t, <2>2, <2>3, <2>5, <2>6, <2>8 DEF IInv
<1> QED
  BY <1>1, <1>2 DEF Watcher

(* What an earlier drain proves: a covering drain of the open session that  *)
(* was not skipped left the scope of this event empty.                      *)
LEMMA EarlierDrain ==
  ASSUME IInv, NEW e \in Events, "yes" \in IsNodeDrained(e)
  PROVE  Targets(scope[e]) \cap pods = {}
<1>1. PICK f \in annot : didDrainCompleteForEvent(f) /\ doesDrainCoverPartialEntity(f, e)
  BY DEF IsNodeDrained, IInv, DrainJustified
<1>2. kind[f] \in {"fault", "skip"} /\ (kind[f] = "skip" => evict[f] # "Succeeded")
  BY DEF IInv, OpenSession, DrainJustified
<1>3. kind[f] = "fault" /\ evict[f] \in Drained
  BY <1>1, <1>2 DEF didDrainCompleteForEvent, Drained
<1>4. Targets(scope[f]) \cap pods = {}
  BY <1>3 DEF IInv, DrainedMeansEmpty
<1>5. pods \subseteq Entities
  BY DEF IInv, TypeOK, NodeTypeOK
<1> QED
  BY <1>1, <1>4, <1>5 DEF doesDrainCoverPartialEntity, Targets

(* The evaluator's decisions are justified when they are taken.             *)
LEMMA DecisionJustified ==
  ASSUME IInv, NEW e \in Events, NEW a \in EvaluateEvent(e)
  PROVE  /\ a = "cancel" => e \notin annot
         /\ a = "succeed" => kind[e] = "fault"
         /\ (a \in {"succeed", "already"} /\ kind[e] = "fault") => Targets(scope[e]) \cap pods = {}
<1>1. \A b \in getAction(e) : /\ b \notin {"cancel", "already"}
                              /\ b = "succeed" => Targets(scope[e]) \cap pods = {}
  BY DrainerAssumption DEF getAction
<1>2. ASSUME NEW b \in handleAlreadyQuarantined(e)
      PROVE  /\ b = "cancel" => e \notin annot
             /\ b \in {"succeed", "already"} => Targets(scope[e]) \cap pods = {}
  <2>1. CASE seen = {}
    BY <1>2, <2>1 DEF handleAlreadyQuarantined, IInv, DrainJustified
  <2>2. CASE seen # {}
    <3>1. PICK r \in IsNodeDrained(e) :
            b \in (CASE r = "yes" -> {"already"} [] r = "error" -> {"wait"} [] r = "no" -> getAction(e))
      BY <1>2, <2>2 DEF handleAlreadyQuarantined
    <3>2. r \in {"yes", "error", "no"}
      BY <3>1 DEF IsNodeDrained
    <3>3. CASE r = "yes"
      BY <3>1, <3>3, EarlierDrain
    <3>4. CASE r = "error"
      BY <3>1, <3>4
    <3>5. CASE r = "no"
      BY <1>1, <3>1, <3>5
    <3> QED
      BY <3>2, <3>3, <3>4, <3>5
  <2> QED
    BY <2>1, <2>2
<1> QED
  BY <1>1, <1>2 DEF EvaluateEvent

(* The worker up to its decision.                                           *)
LEMMA DecideStep ==
  ASSUME IInv, (\E e \in Events : Get(e)) \/ isEventCancelled \/ ProcessEvent
  PROVE  IInv'
<1>t. TypeOK /\ TypeOK'
  <2>1. (\E e \in Events : Get(e)) \/ Pass
    BY DEF Pass
  <2> QED
    BY <2>1, TypeWorker DEF IInv
<1>p. /\ queue \subseteq Events /\ quar \in [Events -> Statuses] /\ cutoff \in 0..NumEvents
      /\ (w.stage # "idle" => w.e \in Events)
      /\ tracked \in [Events -> {"none", "InProgress", "Cancelled"}]
  BY <1>t DEF TypeOK, StoreTypeOK, ProcessTypeOK
<1>w. DOMAIN w = {"stage", "e", "quar", "evict", "act"}
  BY <1>t DEF TypeOK, ProcessTypeOK
<1>u. UNCHANGED <<kind, scope, quar, evict, annot, seen, pods, stream, inbox, cutoff>>
  BY DEF Get, isEventCancelled, ProcessEvent, store, node, watch
<1>f. OpenSession' /\ DrainedMeansEmpty' /\ OpenFaultNotCancelled'
  BY <1>u DEF IInv, OpenSession, SessionOver, DrainedMeansEmpty, OpenFaultNotCancelled, Targets
<1>1. CASE \E e \in Events : Get(e)
  <2>1. PICK e \in Events : Get(e)
    BY <1>1
  <2>2. /\ w'.stage = "fetched" /\ w'.e = e /\ w'.quar = quar[e]
        /\ e \in queue /\ queue' \subseteq queue /\ tracked' = tracked
    BY <2>1 DEF Get
  <2>3. Announced'
    BY <1>u, <2>2 DEF IInv, Announced
  <2>4. CancelJustified'
    <3>1. quar[e] = "UnQuarantined" => SessionOver(e)
      BY DEF SessionOver, Events
    <3> QED
      BY <1>u, <2>2, <3>1 DEF IInv, CancelJustified, SessionOver
  <2>5. DrainJustified'
    BY <1>u, <2>2 DEF IInv, DrainJustified
  <2> QED
    BY <1>t, <1>f, <2>3, <2>4, <2>5 DEF IInv
<1>2. CASE isEventCancelled
  <2>0. w.stage = "fetched" /\ w.e \in Events
    BY <1>2, <1>p DEF isEventCancelled, At
  <2>1. eventAtOrBeforeCutoff(w.e, cutoff) => SessionOver(w.e)
    <3>1. SUFFICES ASSUME cutoff # 0, w.e <= cutoff PROVE SessionOver(w.e)
      BY DEF eventAtOrBeforeCutoff
    <3>2. cutoff \in Events /\ cutoff >= w.e
      BY <1>p, <2>0, <3>1, DrainerAssumption DEF Events
    <3> QED
      BY <3>1, <3>2 DEF IInv, CancelJustified, SessionOver
  <2>2. /\ w'.e = w.e /\ w'.quar = w.quar /\ w'.stage \in {"cancelling", "checked"}
        /\ w'.stage = "cancelling" => (tracked[w.e] = "Cancelled" \/ eventAtOrBeforeCutoff(w.e, cutoff))
        /\ queue' = queue
    BY <1>2, <1>w DEF isEventCancelled
  <2>3. \A e \in Events : tracked'[e] = "Cancelled" => SessionOver(e)
    BY <1>2, <1>p, <2>0, <2>1 DEF isEventCancelled, IInv, CancelJustified
  <2>4. Announced'
    BY <1>u, <2>0, <2>2 DEF IInv, Announced
  <2>5. w'.stage = "cancelling" => SessionOver(w.e)
    BY <2>0, <2>1, <2>2 DEF IInv, CancelJustified
  <2>6. CancelJustified'
    BY <1>u, <2>0, <2>2, <2>3, <2>5 DEF IInv, CancelJustified, SessionOver
  <2>7. DrainJustified'
    BY <1>u, <2>2 DEF IInv, DrainJustified
  <2> QED
    BY <1>t, <1>f, <2>4, <2>6, <2>7 DEF IInv
<1>3. CASE ProcessEvent
  <2>0. w.stage = "checked" /\ w.e \in Events
    BY <1>3, <1>p DEF ProcessEvent, At
  <2>1. PICK a \in EvaluateEvent(w.e) : w' = [w EXCEPT !.stage = "decided", !.act = a]
    BY <1>3 DEF ProcessEvent
  <2>2. w'.stage = "decided" /\ w'.e = w.e /\ w'.quar = w.quar /\ w'.act = a
    BY <1>w, <2>1
  <2>3. /\ a = "cancel" => w.e \notin annot
        /\ a = "succeed" => kind[w.e] = "fault"
        /\ (a \in {"succeed", "already"} /\ kind[w.e] = "fault") => Targets(scope[w.e]) \cap pods = {}
    BY <2>0, <2>1, DecisionJustified
  <2>4. queue' = queue /\ \A e \in Events : tracked'[e] = "Cancelled" => tracked[e] = "Cancelled"
    BY <1>3, <1>p DEF ProcessEvent
  <2>5. Announced'
    BY <1>u, <2>0, <2>2, <2>4 DEF IInv, Announced
  <2>6. CancelJustified'
    BY <1>u, <2>0, <2>2, <2>3, <2>4 DEF IInv, CancelJustified, SessionOver
  <2>7. DrainJustified'
    BY <1>u, <2>2, <2>3 DEF IInv, DrainJustified, Targets
  <2> QED
    BY <1>t, <1>f, <2>5, <2>6, <2>7 DEF IInv
<1> QED
  BY <1>1, <1>2, <1>3

(* The worker once it has decided.                                          *)
Act ==
  \/ handleCancelledEvent \/ executeSkip \/ executeMarkAlreadyDrained \/ executeCancelStatus
  \/ executeUpdateStatus \/ executeWait \/ executeImmediateEviction
  \/ executeCheckCompletion \/ executeTimeoutEviction \/ finishTimeoutEviction

(* A status is written only on a justified decision.                        *)
LEMMA WriteJustified ==
  ASSUME IInv, Act, evict' # evict
  PROVE  \E t \in Terminal :
            /\ evict' = [evict EXCEPT ![w.e] = t]
            /\ t = "Cancelled" => w.e \notin annot
            /\ (t = "Succeeded" /\ w.e \in annot) => kind[w.e] = "fault"
            /\ (t \in Drained /\ w.e \in annot /\ kind[w.e] = "fault")
                 => Targets(scope[w.e]) \cap pods = {}
<1> USE DEF Terminal, Drained
<1>o. SessionOver(w.e) => w.e \notin annot
  BY DEF IInv, OpenSession
<1>1. CASE handleCancelledEvent
  BY <1>1, <1>o DEF handleCancelledEvent, At, IInv, CancelJustified
<1>2. CASE executeSkip
  BY <1>2, <1>o DEF executeSkip, At, IInv, CancelJustified
<1>3. CASE executeMarkAlreadyDrained
  BY <1>3 DEF executeMarkAlreadyDrained, WriteStatus, At, IInv, DrainJustified
<1>4. CASE executeCancelStatus
  BY <1>4 DEF executeCancelStatus, WriteStatus, At, IInv, CancelJustified
<1>5. CASE executeUpdateStatus
  BY <1>5 DEF executeUpdateStatus, WriteStatus, At, IInv, DrainJustified
<1>6. CASE executeWait \/ executeImmediateEviction \/ executeCheckCompletion
             \/ executeTimeoutEviction \/ finishTimeoutEviction
  BY <1>6 DEF executeWait, executeImmediateEviction, executeCheckCompletion,
              executeTimeoutEviction, finishTimeoutEviction, store
<1> QED
  BY <1>1, <1>2, <1>3, <1>4, <1>5, <1>6 DEF Act

\* Every execute... action of the worker writes only statuses its evidence justifies.
LEMMA ActStep ==
  ASSUME IInv, Act
  PROVE  IInv'
<1>t. TypeOK /\ TypeOK'
  <2>1. Pass
    BY DEF Pass, Act
  <2> QED
    BY <2>1, TypeWorker DEF IInv
<1>p. /\ queue \subseteq Events /\ annot \subseteq Events /\ evict \in [Events -> Evictions]
      /\ (w.stage # "idle" => w.e \in Events)
      /\ tracked \in [Events -> {"none", "InProgress", "Cancelled"}]
  BY <1>t DEF TypeOK, NodeTypeOK, StoreTypeOK, ProcessTypeOK
<1>w. DOMAIN w = {"stage", "e", "quar", "evict", "act"}
  BY <1>t DEF TypeOK, ProcessTypeOK
<1>u. UNCHANGED <<kind, scope, quar, annot, seen, stream, inbox, cutoff>>
  BY DEF Act, handleCancelledEvent, executeSkip, executeMarkAlreadyDrained, executeCancelStatus,
           executeUpdateStatus, executeWait, executeImmediateEviction, executeCheckCompletion,
           executeTimeoutEviction, finishTimeoutEviction, store, node, watch
<1>0. w.stage # "idle" /\ w.e \in Events
  <2>1. w.stage # "idle"
    BY DEF At, Act, handleCancelledEvent, executeSkip, executeMarkAlreadyDrained, executeCancelStatus,
             executeUpdateStatus, executeWait, executeImmediateEviction, executeCheckCompletion,
             executeTimeoutEviction, finishTimeoutEviction
  <2> QED
    BY <1>p, <2>1
<1>1. pods' \subseteq pods
  BY DEF Act, handleCancelledEvent, executeSkip, executeMarkAlreadyDrained, executeCancelStatus,
           executeUpdateStatus, executeWait, executeImmediateEviction, executeCheckCompletion,
           executeTimeoutEviction, finishTimeoutEviction, node
<1>2. \A e \in Events : tracked'[e] = "Cancelled" => tracked[e] = "Cancelled"
  <2>1. tracked' = tracked \/ clearEventStatus
    BY DEF Act, handleCancelledEvent, executeSkip, executeMarkAlreadyDrained, executeCancelStatus,
             executeUpdateStatus, executeWait, executeImmediateEviction, executeCheckCompletion,
             executeTimeoutEviction, finishTimeoutEviction
  <2> QED
    BY <1>p, <2>1 DEF clearEventStatus
<1>3. queue' \subseteq queue \cup {w.e} /\ (w' = Idle \/ w' = [w EXCEPT !.stage = "evicting"])
  BY DEF Forget, Requeue, WriteStatus, Act, handleCancelledEvent, executeSkip, executeMarkAlreadyDrained, executeCancelStatus,
           executeUpdateStatus, executeWait, executeImmediateEviction, executeCheckCompletion,
           executeTimeoutEviction, finishTimeoutEviction
<1>4. /\ w'.stage \in {"idle", "evicting"}
      /\ w'.stage # "idle" => (w'.e = w.e /\ w'.quar = w.quar)
  BY <1>3, <1>w DEF Idle
<1>5. Announced'
  <2>1. \A e \in Events : evict'[e] # "unset" => quar[e] # "unset"
    BY <1>0, <1>p, WriteJustified DEF IInv, Announced
  <2> QED
    BY <1>u, <1>0, <1>3, <1>4, <2>1 DEF IInv, Announced
<1>6. OpenSession'
  BY <1>u DEF IInv, OpenSession, SessionOver
<1>7. CancelJustified'
  BY <1>u, <1>0, <1>2, <1>4 DEF IInv, CancelJustified, SessionOver
<1>8. OpenFaultNotCancelled'
  BY <1>u, <1>0, <1>p, WriteJustified DEF IInv, OpenFaultNotCancelled
<1>9. DrainedMeansEmpty'
  <2>1. ASSUME NEW e \in annot, kind[e] = "fault", evict'[e] \in Drained
        PROVE  Targets(scope[e]) \cap pods = {}
    BY <1>0, <1>p, <2>1, WriteJustified DEF IInv, DrainedMeansEmpty
  <2> QED
    BY <1>u, <1>1, <2>1 DEF DrainedMeansEmpty, Targets
<1>10. DrainJustified'
  <2>1. \A e \in annot : kind[e] = "skip" => evict'[e] # "Succeeded"
    BY <1>0, <1>p, WriteJustified DEF IInv, DrainJustified
  <2> QED
    BY <1>u, <1>4, <2>1 DEF IInv, DrainJustified
<1> QED
  BY <1>t, <1>5, <1>6, <1>7, <1>8, <1>9, <1>10 DEF IInv

(* A cold start tombstones only events of sessions that have ended.         *)
LEMMA RestartStep ==
  ASSUME IInv, Crash \/ Restart
  PROVE  IInv'
<1>t. TypeOK /\ TypeOK'
  BY TypeRestart DEF IInv
<1>p. annot \subseteq Events /\ evict \in [Events -> Evictions]
  BY <1>t DEF TypeOK, NodeTypeOK, StoreTypeOK
<1>u. UNCHANGED <<kind, scope, quar, annot, seen, pods, stream>>
  BY DEF Crash, Restart, store, node, watch
<1>1. CASE Crash
  <2>1. /\ evict' = evict /\ inbox'.e = 0 /\ cutoff' = 0 /\ queue' = {} /\ w'.stage = "idle"
        /\ \A e \in Events : tracked'[e] = "none"
    BY <1>1 DEF Crash, NoChange, Idle, store
  <2>2. Announced' /\ OpenSession' /\ OpenFaultNotCancelled' /\ DrainedMeansEmpty'
    BY <1>u, <2>1 DEF IInv, Announced, OpenSession, SessionOver, OpenFaultNotCancelled,
                      DrainedMeansEmpty, Targets
  <2>3. CancelJustified' /\ DrainJustified'
    BY <1>u, <2>1 DEF IInv, CancelJustified, DrainJustified
  <2> QED
    BY <1>t, <2>2, <2>3 DEF IInv
<1>2. CASE Restart
  <2>1. inbox' = inbox /\ tracked' = tracked /\ cutoff' = cutoff /\ w' = w
        /\ queue' \subseteq coldStartQuery
    BY <1>2 DEF Restart, watch
  <2>2. ASSUME NEW e \in Events
        PROVE  \/ evict'[e] = evict[e]
               \/ evict'[e] = "Cancelled" /\ e \notin annot /\ quar[e] # "unset"
    <3>1. CASE e \in coldStartQuery /\ skipStaleColdStartEvent(e)
      <4>1. SessionOver(e) /\ quar[e] # "unset"
        BY <3>1 DEF skipStaleColdStartEvent, quarantineSessionEnded, SessionOver, Active, Events
      <4> QED
        BY <1>2, <1>p, <3>1, <4>1 DEF Restart, IInv, OpenSession
    <3>2. CASE ~(e \in coldStartQuery /\ skipStaleColdStartEvent(e))
      BY <1>2, <1>p, <3>2 DEF Restart
    <3> QED
      BY <3>1, <3>2
  <2>3. Announced'
    <3>1. \A e \in coldStartQuery : quar[e] # "unset"
      BY DEF coldStartQuery, IInv, Announced, Active
    <3> QED
      BY <1>u, <2>1, <2>2, <3>1 DEF IInv, Announced
  <2>4. OpenSession' /\ OpenFaultNotCancelled' /\ DrainedMeansEmpty'
    BY <1>u, <1>p, <2>2 DEF IInv, OpenSession, SessionOver, OpenFaultNotCancelled,
                            DrainedMeansEmpty, Targets, Drained
  <2>5. CancelJustified'
    BY <1>u, <2>1 DEF IInv, CancelJustified, SessionOver
  <2>6. DrainJustified'
    BY <1>u, <1>p, <2>1, <2>2 DEF IInv, DrainJustified, Targets
  <2> QED
    BY <1>t, <2>3, <2>4, <2>5, <2>6 DEF IInv
<1> QED
  BY <1>1, <1>2

\* Every step keeps the inductive invariant while the informer does not lag.
LEMMA SafetyStep ==
  ASSUME CacheLag = FALSE
  PROVE  IInv /\ [Next]_vars => IInv'
<1> SUFFICES ASSUME IInv, [Next]_vars PROVE IInv'
  OBVIOUS
<1>1. CASE UNCHANGED vars
  <2>1. TypeOK'
    BY <1>1, TypeStep DEF IInv
  <2>2. Announced' /\ OpenSession' /\ CancelJustified'
    BY <1>1 DEF vars, store, node, watch, process, IInv, Announced, OpenSession,
                CancelJustified, SessionOver
  <2>3. DrainJustified' /\ DrainedMeansEmpty' /\ OpenFaultNotCancelled'
    BY <1>1 DEF vars, store, node, watch, process, IInv, DrainJustified, DrainedMeansEmpty,
                OpenFaultNotCancelled, Targets
  <2> QED
    BY <2>1, <2>2, <2>3 DEF IInv
<1>2. CASE Next
  <2>1. CASE FaultQuarantine
    BY <2>1, EnvironmentStep
  <2>2. CASE PodsArrive \/ \E g \in Entities : PodExits(g)
    BY <2>2, PodStep
  <2>3. CASE Watcher
    BY <2>3, WatcherStep
  <2>4. CASE (\E e \in Events : Get(e)) \/ isEventCancelled \/ ProcessEvent
    BY <2>4, DecideStep
  <2>5. CASE Act
    BY <2>5, ActStep
  <2>6. CASE Crash \/ Restart
    BY <2>6, RestartStep
  <2> QED
    BY <1>2, <2>1, <2>2, <2>3, <2>4, <2>5, <2>6, NoCacheStep DEF Next, Pass, Act
<1> QED
  BY <1>1, <1>2

(* With an informer that shows the node as it is, a fault of the open       *)
(* session whose stored status says drained has no user pod left on what it *)
(* drains: no crash, retry, replay or failed write lets the evaluator rely  *)
(* on a drain that was narrower, skipped, or of an earlier session.         *)
THEOREM DrainedStatusSound ==
  ASSUME CacheLag = FALSE
  PROVE  Spec => []DrainedMeansEmpty
<1>1. Init => IInv
  BY SafetyInit
<1>2. IInv /\ [Next]_vars => IInv'
  BY SafetyStep
<1>3. IInv => DrainedMeansEmpty
  BY DEF IInv
<1> QED
  BY <1>1, <1>2, <1>3, PTL DEF Spec

(* With such an informer, no fault of the open session is given up as       *)
(* Cancelled by a cutoff, a mark, a tombstone or the evaluator.             *)
THEOREM OpenFaultKept ==
  ASSUME CacheLag = FALSE
  PROVE  Spec => []OpenFaultNotCancelled
<1>1. Init => IInv
  BY SafetyInit
<1>2. IInv /\ [Next]_vars => IInv'
  BY SafetyStep
<1>3. IInv => OpenFaultNotCancelled
  BY DEF IInv
<1> QED
  BY <1>1, <1>2, <1>3, PTL DEF Spec

=============================================================================
