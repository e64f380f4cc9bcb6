------------------------ MODULE FaultQuarantineProofs ------------------------
(***************************************************************************)
(* Type correctness of FaultQuarantine and, from it, that no node patch is *)
(* computed from quarantine annotations that are not the node's own.       *)
(***************************************************************************)
EXTENDS FaultQuarantine, TLAPS

-----------------------------------------------------------------------------
(* What a node update may do to the versions                               *)

\* The oldest version a patch may still be computed from.
OldestBase == IF pending = 0 THEN cached ELSE pending

SameAnnotations(v, w) ==
    /\ v.ann = w.ann /\ v.rec = w.rec /\ v.pre = w.pre /\ v.manual = w.manual

\* Every version from there on carries the current annotations: what came
\* after fault-quarantine's last write changed only the cordon.
AnnotationsSettled ==
    \A i \in OldestBase..Len(versions) : SameAnnotations(versions[i], ApiNode)

\* The effect of a node update, whatever its mutation: nothing, or at most one
\* new version with the write remembered as pending.
Updated ==
    \/ versions' = versions /\ pending' \in {pending, 0} /\ (pending' # pending => pending = cached)
    \/ versions' = versions /\ pending' = Len(versions)
    \/ \E v \in NodeVersion : versions' = Append(versions, v) /\ pending' = Len(versions) + 1

\* The node, its cached copy and the copy a patch starts from are nodes.
LEMMA NodesTyped ==
    ASSUME NodeTypeOK
    PROVE  /\ ApiNode \in NodeVersion /\ CachedNode \in NodeVersion
           /\ currentNode \in 1..Len(versions) /\ versions[currentNode] \in NodeVersion
BY DEF NodeTypeOK, ApiNode, CachedNode, currentNode

\* A merge patch yields a node, and an empty one the node as it is.
LEMMA MergeTyped ==
    ASSUME NodeTypeOK, NEW base \in NodeVersion, NEW want \in NodeVersion
    PROVE  /\ NodeMergePatch(base, want) \in NodeVersion
           /\ want = base => NodeMergePatch(base, want) = ApiNode
<1>1. ApiNode \in NodeVersion
  BY NodesTyped
<1> QED
  BY <1>1 DEF NodeMergePatch, NodeVersion

\* Starting or extending a session turns a node into a node.
LEMMA MutationsTyped ==
    ASSUME NEW n \in NodeVersion, NEW m \in NodeVersion, NEW c \in Checks, NEW b \in BOOLEAN
    PROVE  /\ QuarantineNode(n, c, b) \in NodeVersion
           /\ addSessionCordon(n, c, m) \in NodeVersion
BY DEF QuarantineNode, addSessionCordon, NodeVersion

\* So does ending one, by recovery or after a manual uncordon.
LEMMA ReleasesTyped ==
    ASSUME NEW n \in NodeVersion, NEW m \in NodeVersion
    PROVE  /\ UnQuarantineNode(n, m) \in NodeVersion
           /\ ManualUncordonCleanup(n, m) \in NodeVersion
BY DEF UnQuarantineNode, ManualUncordonCleanup, NodeVersion

\* UpdateNode for a base and its mutation: nothing happens, or one version
\* is added and remembered as pending.
LEMMA WriteEffect ==
    ASSUME NodeTypeOK, NEW base \in NodeVersion, NEW want \in NodeVersion,
           WritePatch(base, want)
    PROVE  Updated
<1> DEFINE new == NodeMergePatch(base, want)
<1>1. new \in NodeVersion /\ (want = base => new = ApiNode)
  BY MergeTyped
<1>2. versions \in Seq(NodeVersion)
  BY DEF NodeTypeOK
<1> HIDE DEF new
<1>3. CASE want = base
  BY <1>1, <1>3 DEF Updated, new, WritePatch
<1>4. CASE want # base /\ new = ApiNode
  BY <1>4 DEF Updated, new, WritePatch
<1>5. CASE want # base /\ new # ApiNode
  <2>1. versions' = Append(versions, new) /\ pending' = Len(versions')
    BY <1>5 DEF new, WritePatch
  <2>2. Len(versions') = Len(versions) + 1
    BY <2>1, <1>1, <1>2
  <2> QED
    BY <2>1, <2>2, <1>1 DEF Updated
<1> QED
  BY <1>3, <1>4, <1>5

\* Every node update of the event loop is an instance of WriteEffect.
LEMMA LoopUpdates ==
    ASSUME TypeOK,
           \/ CleanupManualAnnotation \/ ApplyQuarantine \/ AddEventToAnnotation
           \/ ApplyRuleActions \/ RemoveEventFromAnnotation \/ PerformUncordon
    PROVE  Updated
<1> DEFINE c == Check(loop.event)
<1>1. NodeTypeOK /\ ApiNode \in NodeVersion /\ CachedNode \in NodeVersion
      /\ versions[currentNode] \in NodeVersion
  BY NodesTyped DEF TypeOK
<1>2. up /\ loop.stage # "idle"
  BY DEF CleanupManualAnnotation, ApplyQuarantine, AddEventToAnnotation, ApplyRuleActions,
         RemoveEventFromAnnotation, PerformUncordon, At
<1>3. c \in Checks /\ loop.node \in NodeVersion /\ getNode \in NodeVersion
  <2>1. loop.event \in 1..Len(events) /\ loop.node \in NodeVersion
    BY <1>2 DEF TypeOK, LoopTypeOK, LoopRecord, Stored
  <2>2. events[loop.event] \in EventRecord
    BY <2>1 DEF TypeOK, StoreTypeOK
  <2> QED
    BY <1>1, <2>1, <2>2 DEF Check, getNode, EventRecord
<1>4. getNode.uns \in BOOLEAN
  BY <1>3 DEF NodeVersion
<1> HIDE DEF c
<1>5. CASE CleanupManualAnnotation
  <2> DEFINE mutate(n) == [n EXCEPT !.manual = FALSE]
             base == BaseOf(mutate)
  <2>1. CASE loop.node.manual
    <3>1. base \in NodeVersion /\ mutate(base) \in NodeVersion
      BY <1>1 DEF BaseOf, PatchBase, NodeVersion
    <3>2. UpdateNode(mutate)
      BY <1>5, <2>1 DEF CleanupManualAnnotation
    <3> QED
      BY <3>1, <3>2, <1>1, WriteEffect DEF UpdateNode
  <2>2. CASE ~loop.node.manual
    BY <1>5, <2>2 DEF CleanupManualAnnotation, KeepNode, api, Updated
  <2> QED
    BY <2>1, <2>2
<1>6. CASE ApplyQuarantine
  <2> DEFINE mutate(n) == QuarantineNode(n, c, getNode.uns)
             base == BaseOf(mutate)
  <2>1. base \in NodeVersion
    BY <1>1 DEF BaseOf, PatchBase
  <2>2. mutate(base) \in NodeVersion
    BY <2>1, <1>3, <1>4, MutationsTyped
  <2>3. UpdateNode(mutate)
    BY <1>6 DEF ApplyQuarantine, c
  <2> QED
    BY <2>1, <2>2, <2>3, <1>1, WriteEffect DEF UpdateNode
<1>7. CASE AddEventToAnnotation
  <2> DEFINE mutate(n) == [n EXCEPT !.ann = @ \cup {c}]
             base == BaseOf(mutate)
  <2>1. base \in NodeVersion
    BY <1>1 DEF BaseOf, PatchBase
  <2>2. mutate(base) \in NodeVersion
    BY <2>1, <1>3 DEF NodeVersion
  <2>3. UpdateNode(mutate)
    BY <1>7 DEF AddEventToAnnotation, c
  <2> QED
    BY <2>1, <2>2, <2>3, <1>1, WriteEffect DEF UpdateNode
<1>8. CASE ApplyRuleActions
  <2> DEFINE mutate(n) == addSessionCordon(n, c, getNode)
             base == BaseOf(mutate)
  <2>1. base \in NodeVersion
    BY <1>1 DEF BaseOf, PatchBase
  <2>2. mutate(base) \in NodeVersion
    BY <2>1, <1>3, <1>4, MutationsTyped
  <2>3. UpdateNode(mutate)
    BY <1>8 DEF ApplyRuleActions, c
  <2> QED
    BY <2>1, <2>2, <2>3, <1>1, WriteEffect DEF UpdateNode
<1>9. CASE RemoveEventFromAnnotation
  <2> DEFINE mutate(n) == IF n.ann \ {c} = {} THEN n ELSE [n EXCEPT !.ann = n.ann \ {c}]
             base == BaseOf(mutate)
  <2>1. base \in NodeVersion
    BY <1>1 DEF BaseOf, PatchBase
  <2>2. mutate(base) \in NodeVersion
    BY <2>1, <1>3 DEF NodeVersion
  <2>3. UpdateNode(mutate)
    BY <1>9 DEF RemoveEventFromAnnotation, c
  <2> QED
    BY <2>1, <2>2, <2>3, <1>1, WriteEffect DEF UpdateNode
<1>10. CASE PerformUncordon
  <2> DEFINE mutate(n) == UnQuarantineNode(n, loop.node)
             base == BaseOf(mutate)
  <2>1. base \in NodeVersion
    BY <1>1 DEF BaseOf, PatchBase
  <2>2. mutate(base) \in NodeVersion
    BY <2>1, <1>3, ReleasesTyped
  <2>3. UpdateNode(mutate)
    BY <1>10 DEF PerformUncordon
  <2> QED
    BY <2>1, <2>2, <2>3, <1>1, WriteEffect DEF UpdateNode
<1> QED
  BY <1>5, <1>6, <1>7, <1>8, <1>9, <1>10

\* So is the update of the manual-uncordon handler.
LEMMA HandlerUpdate ==
    ASSUME TypeOK, HandleManualUncordon
    PROVE  Updated
<1> DEFINE mutate(n) == ManualUncordonCleanup(n, CachedNode)
           base == BaseOf(mutate)
<1>1. NodeTypeOK /\ ApiNode \in NodeVersion /\ CachedNode \in NodeVersion
      /\ versions[currentNode] \in NodeVersion
  BY NodesTyped DEF TypeOK
<1>2. base \in NodeVersion
  BY <1>1 DEF BaseOf, PatchBase
<1>3. mutate(base) \in NodeVersion
  BY <1>1, <1>2, ReleasesTyped
<1>4. UpdateNode(mutate)
  BY DEF HandleManualUncordon
<1> QED
  BY <1>1, <1>2, <1>3, <1>4, WriteEffect DEF UpdateNode

-----------------------------------------------------------------------------
(* Type correctness, part by part                                          *)

\* Steps by which the loop, the handler or a failure leave the node alone.
NodeUntouched == UNCHANGED <<versions, pending>>

\* What any step does to the node: an update, a step of the informer, an
\* operator's cordon change, or the fresh start of the informer.
NodeStep ==
    \/ Updated /\ UNCHANGED <<cached, notified>>
    \/ NodeUntouched /\ UNCHANGED <<cached, notified>>
    \/ NodeUntouched /\ cached < Len(versions) /\ cached' = cached + 1 /\ notified' = notified
    \/ NodeUntouched /\ cached' = cached /\ notified < cached /\ notified' = notified + 1
    \/ \E b \in BOOLEAN : /\ versions' = Append(versions, [ApiNode EXCEPT !.uns = b])
                          /\ UNCHANGED <<pending, cached, notified>>
    \/ versions' = <<ApiNode>> /\ cached' = 1 /\ notified' = 1 /\ pending' = 0

\* Every step of the specification is one of these.
LEMMA StepsOnNode == TypeOK /\ [Next]_vars => NodeStep
<1> SUFFICES ASSUME TypeOK, [Next]_vars PROVE NodeStep
  OBVIOUS
<1> USE DEF api, informer, progress, store
<1>1. CASE Loop
  <2>1. CASE \/ CleanupManualAnnotation \/ ApplyQuarantine \/ AddEventToAnnotation
             \/ ApplyRuleActions \/ RemoveEventFromAnnotation \/ PerformUncordon
    <3>1. Updated
      BY <2>1, LoopUpdates
    <3>2. UNCHANGED <<cached, notified>>
      BY <2>1 DEF CleanupManualAnnotation, ApplyQuarantine, AddEventToAnnotation,
                  ApplyRuleActions, RemoveEventFromAnnotation, PerformUncordon, Keep
    <3> QED
      BY <3>1, <3>2 DEF NodeStep
  <2>2. CASE \/ TakeEvent \/ ShouldProcess \/ HandleQuarantinedNode \/ WriteStatus
             \/ CompleteSkipped \/ RecoverStoredEvent \/ ColdStartEnds
    BY <2>2 DEF TakeEvent, ShouldProcess, HandleQuarantinedNode, WriteStatus, CompleteSkipped,
                RecoverStoredEvent, ColdStartEnds, Keep, KeepNode, NodeStep, NodeUntouched
  <2> QED
    BY <1>1, <2>1, <2>2 DEF Loop
<1>2. CASE Handler
  <2>1. CASE HandleManualUncordon
    <3>1. Updated
      BY <2>1, HandlerUpdate
    <3> QED
      BY <2>1, <3>1 DEF HandleManualUncordon, NodeStep
  <2>2. CASE Notify \/ FindLatestQuarantining \/ CancelQuarantining
    BY <2>2 DEF Notify, FindLatestQuarantining, CancelQuarantining, NodeStep, NodeUntouched
  <2> QED
    BY <1>2, <2>1, <2>2 DEF Handler
<1>3. CASE Failure
  BY <1>3 DEF Failure, FaultUpdateFails, RecoveryUpdateFails, CompletionFails, HandlerFails,
              Crash, GiveUp, NodeStep, NodeUntouched
<1>4. CASE Environment
  BY <1>4 DEF Environment, StoreEvent, OperatorCordon, OperatorUncordon, NodeStep, NodeUntouched
<1>5. CASE CacheAdvances
  BY <1>5 DEF CacheAdvances, NodeStep, NodeUntouched
<1>6. CASE Restart
  BY <1>6 DEF Restart, NodeStep
<1>7. CASE UNCHANGED vars
  BY <1>7 DEF vars, NodeStep, NodeUntouched
<1> QED
  BY <1>1, <1>2, <1>3, <1>4, <1>5, <1>6, <1>7 DEF Next

\* The versions stay nodes and the informer's positions stay among them.
LEMMA NodeTypeStep == TypeOK /\ [Next]_vars => NodeTypeOK'
<1> SUFFICES ASSUME NodeTypeOK, ApiNode \in NodeVersion, NodeStep PROVE NodeTypeOK'
  BY StepsOnNode, NodesTyped DEF TypeOK
<1>1. CASE Updated /\ UNCHANGED <<cached, notified>>
  BY <1>1 DEF Updated, NodeTypeOK
<1>2. ASSUME NEW b \in BOOLEAN, versions' = Append(versions, [ApiNode EXCEPT !.uns = b]),
             UNCHANGED <<pending, cached, notified>>
      PROVE  NodeTypeOK'
  <2>1. [ApiNode EXCEPT !.uns = b] \in NodeVersion
    BY DEF NodeVersion
  <2> QED
    BY <1>2, <2>1 DEF NodeTypeOK
<1>3. CASE versions' = <<ApiNode>> /\ cached' = 1 /\ notified' = 1 /\ pending' = 0
  BY <1>3 DEF NodeTypeOK
<1>4. CASE NodeUntouched /\ UNCHANGED <<cached, notified>>
  BY <1>4 DEF NodeUntouched, NodeTypeOK
<1>5. CASE NodeUntouched /\ cached < Len(versions) /\ cached' = cached + 1 /\ notified' = notified
  BY <1>5 DEF NodeUntouched, NodeTypeOK
<1>6. CASE NodeUntouched /\ cached' = cached /\ notified < cached /\ notified' = notified + 1
  BY <1>6 DEF NodeUntouched, NodeTypeOK
<1> QED
  BY <1>1, <1>2, <1>3, <1>4, <1>5, <1>6 DEF NodeStep

\* The annotations settle: what follows the last own write changes only the
\* cordon, so every version a patch may start from has the node's own.
LEMMA SettledStep == TypeOK /\ AnnotationsSettled /\ [Next]_vars => AnnotationsSettled'
<1> SUFFICES ASSUME NodeTypeOK, ApiNode \in NodeVersion, AnnotationsSettled, NodeStep
             PROVE  AnnotationsSettled'
  BY StepsOnNode, NodesTyped DEF TypeOK
<1>1. CASE Updated /\ UNCHANGED <<cached, notified>>
  BY <1>1 DEF Updated, NodeTypeOK, AnnotationsSettled, OldestBase, SameAnnotations, ApiNode
<1>2. ASSUME NEW b \in BOOLEAN, versions' = Append(versions, [ApiNode EXCEPT !.uns = b]),
             UNCHANGED <<pending, cached, notified>>
      PROVE  AnnotationsSettled'
  <2> DEFINE new == [ApiNode EXCEPT !.uns = b]
  <2>1. new \in NodeVersion /\ SameAnnotations(ApiNode, new)
    BY DEF NodeVersion, SameAnnotations
  <2> HIDE DEF new
  <2>2. /\ Len(versions') = Len(versions) + 1 /\ ApiNode' = new
        /\ \A i \in 1..Len(versions) : versions'[i] = versions[i]
    BY <1>2, <2>1 DEF NodeTypeOK, ApiNode, new
  <2>3. OldestBase \in 1..Len(versions) /\ OldestBase' = OldestBase
    BY <1>2 DEF OldestBase, NodeTypeOK
  <2> QED
    BY <2>1, <2>2, <2>3 DEF AnnotationsSettled, SameAnnotations, NodeTypeOK, ApiNode
<1>3. CASE versions' = <<ApiNode>> /\ cached' = 1 /\ notified' = 1 /\ pending' = 0
  BY <1>3 DEF AnnotationsSettled, OldestBase, SameAnnotations, ApiNode
<1>4. CASE NodeUntouched /\ UNCHANGED <<cached, notified>>
  BY <1>4 DEF NodeUntouched, AnnotationsSettled, OldestBase, ApiNode
<1>5. CASE NodeUntouched /\ cached < Len(versions) /\ cached' = cached + 1 /\ notified' = notified
  <2>1. OldestBase' >= OldestBase /\ OldestBase \in Int /\ OldestBase' \in Int
    BY <1>5 DEF NodeUntouched, NodeTypeOK, OldestBase
  <2> QED
    BY <1>5, <2>1 DEF NodeUntouched, NodeTypeOK, AnnotationsSettled, ApiNode
<1>6. CASE NodeUntouched /\ cached' = cached /\ notified < cached /\ notified' = notified + 1
  BY <1>6 DEF NodeUntouched, AnnotationsSettled, OldestBase, ApiNode
<1> QED
  BY <1>1, <1>2, <1>3, <1>4, <1>5, <1>6 DEF NodeStep

\* The store: events are appended, statuses and markers go to stored events.
LEMMA StoreTypeStep == TypeOK /\ [Next]_vars => StoreTypeOK'
<1> SUFFICES ASSUME TypeOK, [Next]_vars PROVE StoreTypeOK'
  OBVIOUS
<1>1. CASE StoreEvent
  <2>1. PICK f \in BOOLEAN, c \in Checks : events' = Append(events, [fault |-> f, check |-> c])
    BY <1>1 DEF StoreEvent
  <2>2. [fault |-> f, check |-> c] \in EventRecord
    BY DEF EventRecord
  <2>3. events' \in Seq(EventRecord) /\ Len(events') = Len(events) + 1 /\ Len(events) \in Nat
    BY <2>1, <2>2 DEF TypeOK, StoreTypeOK
  <2> QED
    BY <1>1, <2>3, BoundsAssumption DEF StoreEvent, TypeOK, StoreTypeOK, Stored, EventIds
<1>2. CASE WriteStatus
  BY <1>2 DEF WriteStatus, At, TypeOK, StoreTypeOK, LoopTypeOK, LoopRecord, Stored, EventIds
<1>3. CASE CompleteSkipped
  BY <1>3 DEF CompleteSkipped, At, TypeOK, StoreTypeOK, LoopTypeOK, Stored, EventIds
<1>4. CASE CancelQuarantining
  BY <1>4 DEF CancelQuarantining, TypeOK, StoreTypeOK, Stored, EventIds, QuarantineStatus,
              ActiveStatus
<1>5. CASE UNCHANGED store
  BY <1>5 DEF store, TypeOK, StoreTypeOK, Stored
<1> QED
  BY <1>1, <1>2, <1>3, <1>4, <1>5
  DEF Next, Loop, Handler, Failure, Environment, TakeEvent, CleanupManualAnnotation,
      ApplyQuarantine, ShouldProcess, HandleQuarantinedNode, AddEventToAnnotation,
      ApplyRuleActions, RemoveEventFromAnnotation, PerformUncordon, RecoverStoredEvent,
      ColdStartEnds, Notify, HandleManualUncordon, FindLatestQuarantining, FaultUpdateFails,
      RecoveryUpdateFails, CompletionFails, HandlerFails, Crash, OperatorCordon,
      OperatorUncordon, CacheAdvances, Restart, GiveUp, Keep, vars, store

\* A loop record is one at each of its stages, for a stored event.
LoopOK(l) == l \in LoopRecord /\ (l.stage # "idle" => l.event \in Stored)

\* The idle loop, which every event ends in (WriteStatus, GiveUp, Restart).
LEMMA IdleTyped == LoopOK(Idle)
<1>1. CleanNode \in NodeVersion
  BY DEF CleanNode, NodeVersion
<1> QED
  BY <1>1, BoundsAssumption DEF LoopOK, Idle, LoopRecord, LoopStages, QuarantineStatus

\* A stored event has a number, a kind and a check.
LEMMA StoredTyped ==
    ASSUME TypeOK, NEW e \in Stored
    PROVE  e \in EventIds /\ IsFault(e) \in BOOLEAN /\ Check(e) \in Checks
<1>1. e \in EventIds
  BY BoundsAssumption DEF TypeOK, StoreTypeOK, Stored, EventIds
<1>2. events[e] \in EventRecord
  BY DEF TypeOK, StoreTypeOK, Stored
<1> QED
  BY <1>1, <1>2 DEF IsFault, Check, EventRecord

\* Taking a stored event leads to one of handleEvent's three branches.
LEMMA HandleEventTyped ==
    ASSUME TypeOK, NEW e \in Stored, NEW r \in BOOLEAN, NEW n \in NodeVersion,
           handleEvent(e, r, n)
    PROVE  loop' \in LoopRecord /\ loop'.event \in Stored
<1>1. e \in 0..NumEvents
  BY StoredTyped, BoundsAssumption DEF EventIds
<1>2. IsFault(e) \in BOOLEAN
  BY StoredTyped
<1>3. PICK st \in {"eligible", "fresh", "skip"} :
        loop' = [stage |-> st, event |-> e, recovery |-> r, node |-> n, status |-> "unset"]
  BY DEF handleEvent
<1> QED
  BY <1>1, <1>3 DEF LoopRecord, LoopStages, QuarantineStatus

\* Moving a busy loop to another stage keeps its event.
LEMMA StageTyped ==
    ASSUME TypeOK, up, loop.stage # "idle", NEW st \in LoopStages, NEW x \in QuarantineStatus,
           NEW n \in NodeVersion
    PROVE  /\ LoopOK([loop EXCEPT !.stage = st])
           /\ LoopOK([loop EXCEPT !.stage = st, !.status = x])
           /\ LoopOK([loop EXCEPT !.node = n, !.stage = st])
<1>1. loop \in LoopRecord /\ loop.event \in Stored
  BY DEF TypeOK, LoopTypeOK
<1> QED
  BY <1>1 DEF LoopOK, LoopRecord

\* What any step does to the loop: it ends, moves on, or starts on an event.
LEMMA LoopRecordStep == TypeOK /\ [Next]_vars => LoopOK(loop') \/ loop' = loop
<1> SUFFICES ASSUME TypeOK, [Next]_vars PROVE LoopOK(loop') \/ loop' = loop
  OBVIOUS
<1> USE DEF At, Goto, Resolve
<1>1. CASE TakeEvent
  <2>1. taken + 1 \in Stored /\ CachedNode \in NodeVersion
    BY <1>1, NodesTyped DEF TakeEvent, TypeOK, LoopTypeOK, StoreTypeOK, Stored
  <2> QED
    BY <1>1, <2>1, HandleEventTyped DEF TakeEvent, LoopOK
<1>2. CASE RecoverStoredEvent
  <2>1. PICK e \in EventIds :
          /\ MayReplay(e)
          /\ \/ loop' = [Idle EXCEPT !.stage = "skip", !.event = e, !.recovery = TRUE]
             \/ handleEvent(e, TRUE, ApiNode)
    BY <1>2 DEF RecoverStoredEvent
  <2>2. e \in Stored /\ ApiNode \in NodeVersion
    BY <2>1, NodesTyped DEF MayReplay, coldStartQuery, TypeOK, LoopTypeOK, StoreTypeOK, Stored
  <2>3. CASE loop' = [Idle EXCEPT !.stage = "skip", !.event = e, !.recovery = TRUE]
    <3>1. Idle \in LoopRecord /\ e \in 0..NumEvents
      BY IdleTyped DEF LoopOK, EventIds
    <3> QED
      BY <2>2, <2>3, <3>1 DEF LoopOK, LoopRecord, LoopStages
  <2>4. CASE handleEvent(e, TRUE, ApiNode)
    BY <2>2, <2>4, HandleEventTyped DEF LoopOK
  <2> QED
    BY <2>1, <2>3, <2>4
<1>3. CASE \/ CleanupManualAnnotation \/ ApplyQuarantine \/ ShouldProcess \/ AddEventToAnnotation
           \/ ApplyRuleActions \/ RemoveEventFromAnnotation \/ PerformUncordon
  <2>1. up /\ loop.stage # "idle"
    BY <1>3 DEF CleanupManualAnnotation, ApplyQuarantine, ShouldProcess, AddEventToAnnotation,
                ApplyRuleActions, RemoveEventFromAnnotation, PerformUncordon
  <2>2. \/ \E st \in LoopStages : loop' = [loop EXCEPT !.stage = st]
        \/ \E x \in QuarantineStatus : loop' = [loop EXCEPT !.stage = "status", !.status = x]
    BY <1>3 DEF CleanupManualAnnotation, ApplyQuarantine, ShouldProcess, AddEventToAnnotation,
                ApplyRuleActions, RemoveEventFromAnnotation, PerformUncordon,
                LoopStages, QuarantineStatus, ActiveStatus
  <2>3. "status" \in LoopStages /\ CleanNode \in NodeVersion
    BY DEF LoopStages, CleanNode, NodeVersion
  <2> QED
    BY <2>1, <2>2, <2>3, StageTyped DEF QuarantineStatus
<1>4. CASE HandleQuarantinedNode
  <2>1. getNode \in NodeVersion
    BY NodesTyped DEF getNode, TypeOK, LoopTypeOK, LoopRecord
  <2>2. up /\ loop.stage # "idle"
    BY <1>4 DEF HandleQuarantinedNode
  <2>3. IsFault(loop.event) \in BOOLEAN
    BY <2>2, StoredTyped DEF TypeOK, LoopTypeOK
  <2>4. \/ \E x \in QuarantineStatus : loop' = [loop EXCEPT !.stage = "status", !.status = x]
        \/ \E st \in LoopStages : loop' = [loop EXCEPT !.node = getNode, !.stage = st]
    BY <1>4, <2>3 DEF HandleQuarantinedNode, QuarantineStatus, ActiveStatus, LoopStages
  <2>5. "status" \in LoopStages
    BY DEF LoopStages
  <2> QED
    BY <2>1, <2>2, <2>4, <2>5, StageTyped DEF QuarantineStatus
<1>5. CASE WriteStatus \/ CompleteSkipped \/ FaultUpdateFails \/ Restart
  BY <1>5, IdleTyped DEF WriteStatus, CompleteSkipped, FaultUpdateFails, GiveUp, Restart
<1>6. CASE RecoveryUpdateFails \/ CompletionFails
  <2>1. up /\ loop.stage # "idle"
    BY <1>6 DEF RecoveryUpdateFails, CompletionFails
  <2>2. \/ loop' = Idle \/ loop' = loop
        \/ loop' = [loop EXCEPT !.stage = "status", !.status = "AlreadyQuarantined"]
    BY <1>6 DEF RecoveryUpdateFails, CompletionFails, GiveUp
  <2>3. /\ "status" \in LoopStages /\ CleanNode \in NodeVersion
        /\ "AlreadyQuarantined" \in QuarantineStatus
    BY DEF LoopStages, CleanNode, NodeVersion, QuarantineStatus, ActiveStatus
  <2> QED
    BY <2>1, <2>2, <2>3, IdleTyped, StageTyped
<1> QED
  BY <1>1, <1>2, <1>3, <1>4, <1>5, <1>6
  DEF Next, Loop, Handler, Failure, Environment, ColdStartEnds, Notify, HandleManualUncordon,
      FindLatestQuarantining, CancelQuarantining, HandlerFails, Crash, StoreEvent,
      OperatorCordon, OperatorUncordon, CacheAdvances, vars

\* The loop, its position in the stream and the progress of cold start.
LEMMA LoopTypeStep == TypeOK /\ [Next]_vars => LoopTypeOK'
<1> SUFFICES ASSUME TypeOK, [Next]_vars PROVE LoopTypeOK'
  OBVIOUS
<1>1. Stored \subseteq Stored' /\ Len(events) \in Nat /\ Len(events') \in Nat
      /\ Len(events) <= Len(events')
  <2>1. CASE StoreEvent
    <3>1. PICK f \in BOOLEAN, c \in Checks : events' = Append(events, [fault |-> f, check |-> c])
      BY <2>1 DEF StoreEvent
    <3>2. [fault |-> f, check |-> c] \in EventRecord
      BY DEF EventRecord
    <3>3. Len(events') = Len(events) + 1 /\ Len(events) \in Nat
      BY <3>1, <3>2 DEF TypeOK, StoreTypeOK
    <3> QED
      BY <3>3 DEF Stored
  <2>2. CASE events' = events
    BY <2>2 DEF Stored, TypeOK, StoreTypeOK
  <2> QED
    BY <2>1, <2>2
    DEF Next, Loop, Handler, Failure, Environment, TakeEvent, CleanupManualAnnotation,
        ApplyQuarantine, ShouldProcess, HandleQuarantinedNode, AddEventToAnnotation,
        ApplyRuleActions, RemoveEventFromAnnotation, PerformUncordon, RecoverStoredEvent,
        ColdStartEnds, Notify, HandleManualUncordon, FindLatestQuarantining, FaultUpdateFails,
        RecoveryUpdateFails, CompletionFails, HandlerFails, Crash, OperatorCordon,
        OperatorUncordon, CacheAdvances, Restart, GiveUp, Keep, vars, store, WriteStatus,
        CompleteSkipped, CancelQuarantining
<1>2. loop' \in LoopRecord /\ (loop'.stage # "idle" => loop'.event \in Stored')
  BY <1>1, LoopRecordStep DEF LoopOK, TypeOK, LoopTypeOK
<1>3. up' \in BOOLEAN /\ taken' \in 0..Len(events')
      /\ cold' \in [on : BOOLEAN, tried : SUBSET EventIds, failed : BOOLEAN]
  <2> USE DEF TypeOK, LoopTypeOK, progress
  <2>1. CASE TakeEvent
    BY <2>1, <1>1 DEF TakeEvent, store
  <2>2. CASE RecoverStoredEvent
    BY <2>2, <1>1 DEF RecoverStoredEvent, EventIds
  <2>3. CASE ColdStartEnds
    <3>1. up' = ~cold.failed /\ taken' = taken /\ cold' = [cold EXCEPT !.on = FALSE]
      BY <2>3 DEF ColdStartEnds
    <3>2. up' \in BOOLEAN
      BY <3>1
    <3>3. cold' \in [on : BOOLEAN, tried : SUBSET EventIds, failed : BOOLEAN]
      BY <3>1
    <3> QED
      BY <3>1, <3>2, <3>3, <1>1
  <2>4. CASE FaultUpdateFails \/ RecoveryUpdateFails \/ CompletionFails
    <3>1. /\ up' = up \/ up' = FALSE
          /\ taken' = taken
          /\ cold' = cold \/ cold' = [cold EXCEPT !.failed = cold.failed \/ loop.recovery]
      BY <2>4 DEF FaultUpdateFails, RecoveryUpdateFails, CompletionFails, GiveUp
    <3>2. (cold.failed \/ loop.recovery) \in BOOLEAN
      OBVIOUS
    <3>3. cold' \in [on : BOOLEAN, tried : SUBSET EventIds, failed : BOOLEAN]
      BY <3>1, <3>2
    <3>4. up' \in BOOLEAN
      BY <3>1
    <3>5. taken' \in 0..Len(events')
      BY <3>1, <1>1
    <3> QED
      BY <3>3, <3>4, <3>5
  <2>5. CASE Crash \/ Restart
    <3>1. /\ up' = TRUE \/ up' = FALSE
          /\ taken' = taken \/ taken' = Len(events)
          /\ events' = events
          /\ cold' = cold \/ cold' = [on |-> TRUE, tried |-> {}, failed |-> FALSE]
      BY <2>5 DEF Crash, Restart, store
    <3>2. up' \in BOOLEAN
      BY <3>1
    <3>3. taken' \in 0..Len(events')
      BY <3>1, <1>1
    <3>4. cold' \in [on : BOOLEAN, tried : SUBSET EventIds, failed : BOOLEAN]
      <4>1. CASE cold' = cold
        BY <4>1
      <4>2. CASE cold' = [on |-> TRUE, tried |-> {}, failed |-> FALSE]
        BY <4>2
      <4> QED
        BY <3>1, <4>1, <4>2
    <3> QED
      BY <3>2, <3>3, <3>4
  <2>6. CASE UNCHANGED progress
    BY <2>6, <1>1
  <2> QED
    BY <2>1, <2>2, <2>3, <2>4, <2>5, <2>6
    DEF Next, Loop, Handler, Failure, Environment, CleanupManualAnnotation,
        ApplyQuarantine, ShouldProcess, HandleQuarantinedNode, AddEventToAnnotation,
        ApplyRuleActions, RemoveEventFromAnnotation, PerformUncordon, WriteStatus,
        CompleteSkipped, Notify, HandleManualUncordon, FindLatestQuarantining,
        CancelQuarantining, HandlerFails, StoreEvent, OperatorCordon,
        OperatorUncordon, CacheAdvances, Keep, vars
<1> QED
  BY <1>2, <1>3 DEF LoopTypeOK

\* The handler, the counts of what struck, and the operator's claim.
LEMMA HandlerTypeStep == TypeOK /\ [Next]_vars => HandlerTypeOK'
<1> SUFFICES ASSUME TypeOK, [Next]_vars PROVE HandlerTypeOK'
  OBVIOUS
<1> USE DEF TypeOK, HandlerTypeOK
<1>1. CASE FindLatestQuarantining
  <2>1. SessionMarks \subseteq EventIds
    BY StoredTyped DEF SessionMarks
  <2>2. handler' \in [stage : {"idle", "cleanup", "find", "cancel"}, first : 0..NumEvents]
    <3>1. CASE \E e \in SessionMarks : quar[e] = "Quarantined" /\ \A f \in SessionMarks : f <= e
      <4>1. PICK d \in SessionMarks : handler' = [stage |-> "cancel", first |-> d]
        BY <1>1, <3>1 DEF FindLatestQuarantining
      <4> QED
        BY <2>1, <4>1, BoundsAssumption DEF EventIds
    <3>2. CASE ~\E e \in SessionMarks : quar[e] = "Quarantined" /\ \A f \in SessionMarks : f <= e
      BY <1>1, <3>2, BoundsAssumption DEF FindLatestQuarantining, HandlerIdle
    <3> QED
      BY <3>1, <3>2
  <2> QED
    BY <1>1, <2>2 DEF FindLatestQuarantining
<1>2. CASE Notify \/ HandleManualUncordon \/ CancelQuarantining
  BY <1>2, BoundsAssumption DEF Notify, HandleManualUncordon, CancelQuarantining, HandlerIdle
<1>3. CASE FaultUpdateFails \/ RecoveryUpdateFails \/ CompletionFails \/ HandlerFails \/ Crash
  BY <1>3, BoundsAssumption
  DEF FaultUpdateFails, RecoveryUpdateFails, CompletionFails, HandlerFails, Crash, MayFail,
      GiveUp, HandlerIdle
<1>4. CASE OperatorCordon \/ OperatorUncordon
  <2>1. theirs' \in BOOLEAN
    BY <1>4 DEF OperatorCordon, OperatorUncordon
  <2>2. used' \in [ops : 0..MaxOps, crashes : 0..MaxCrashes, faults : 0..MaxFaults]
    BY <1>4, BoundsAssumption DEF OperatorCordon, OperatorUncordon
  <2> QED
    BY <1>4, <2>1, <2>2 DEF OperatorCordon, OperatorUncordon
<1>5. CASE Restart
  BY <1>5, BoundsAssumption DEF Restart, HandlerIdle
<1>6. CASE UNCHANGED <<handler, used, theirs>>
  BY <1>6
<1> QED
  BY <1>1, <1>2, <1>3, <1>4, <1>5, <1>6
  DEF Next, Loop, Handler, Failure, Environment, TakeEvent, CleanupManualAnnotation,
      ApplyQuarantine, ShouldProcess, HandleQuarantinedNode, AddEventToAnnotation,
      ApplyRuleActions, RemoveEventFromAnnotation, PerformUncordon, WriteStatus,
      CompleteSkipped, RecoverStoredEvent, ColdStartEnds, StoreEvent, CacheAdvances, Keep, vars

-----------------------------------------------------------------------------
(* The theorems                                                            *)

\* The state of fault-quarantine is well formed in every behaviour.
THEOREM TypeCorrect == Spec => []TypeOK
<1>1. Init => TypeOK
  <2> SUFFICES ASSUME Init PROVE TypeOK
    OBVIOUS
  <2>1. CleanNode \in NodeVersion
    BY DEF CleanNode, NodeVersion
  <2>2. NodeTypeOK
    BY <2>1 DEF Init, NodeTypeOK
  <2>3. StoreTypeOK
    BY BoundsAssumption DEF Init, StoreTypeOK, Stored, EventIds, QuarantineStatus
  <2>4. LoopTypeOK
    BY IdleTyped DEF Init, LoopTypeOK, LoopOK
  <2>5. HandlerTypeOK
    <3>1. MaxOps \in Nat /\ MaxCrashes \in Nat /\ MaxFaults \in Nat /\ NumEvents \in Nat
      BY BoundsAssumption
    <3>2. used \in [ops : 0..MaxOps, crashes : 0..MaxCrashes, faults : 0..MaxFaults]
      BY <3>1 DEF Init
    <3>3. handler \in [stage : {"idle", "cleanup", "find", "cancel"}, first : 0..NumEvents]
      BY <3>1 DEF Init, HandlerIdle
    <3> QED
      BY <3>2, <3>3 DEF Init, HandlerTypeOK
  <2> QED
    BY <2>2, <2>3, <2>4, <2>5 DEF TypeOK
<1>2. TypeOK /\ [Next]_vars => TypeOK'
  BY NodeTypeStep, StoreTypeStep, LoopTypeStep, HandlerTypeStep DEF TypeOK
<1> QED
  BY <1>1, <1>2, PTL DEF Spec

\* Whatever the informer lags, the operators do and the process suffers, a
\* node patch is computed from the quarantine annotations the API server has
\* (NodePatcher.currentNode): no session change of fault-quarantine is undone
\* by a later patch of its own.
THEOREM PatchesStartCurrent == Spec => []PatchBaseCurrent
<1>1. Init => AnnotationsSettled
  BY DEF Init, AnnotationsSettled, OldestBase, SameAnnotations, ApiNode
<1>2. TypeOK /\ AnnotationsSettled => PatchBaseCurrent
  <2> SUFFICES ASSUME TypeOK, AnnotationsSettled PROVE PatchBaseCurrent
    OBVIOUS
  <2>1. currentNode \in OldestBase..Len(versions)
    BY DEF TypeOK, NodeTypeOK, currentNode, OldestBase
  <2> QED
    BY <2>1 DEF AnnotationsSettled, SameAnnotations, PatchBaseCurrent
<1> QED
  BY <1>1, <1>2, SettledStep, TypeCorrect, PTL DEF Spec

=============================================================================
