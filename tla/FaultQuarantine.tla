--------------------------- MODULE FaultQuarantine ---------------------------
(***************************************************************************)
(* Fault-quarantine on one node: the event loop that turns health events   *)
(* into a quarantine session on the Kubernetes node, the informer handler  *)
(* that ends a session an operator uncordoned by hand, and cold start.     *)
(*                                                                         *)
(* The API server's node is the last element of `versions`.  The informer  *)
(* cache holds versions[cached] and its handlers have been told of the     *)
(* versions up to `notified`; both only move forward.  Every read of the   *)
(* node by the event loop is a read of the cache, at a moment of its own,  *)
(* except in cold start, where one API read serves the whole event.        *)
(*                                                                         *)
(* An event identity (agent, component class, check, entity and error      *)
(* code) is a member of Checks, and events of one identity carry the same  *)
(* entity and code.  A rule set matches every fault; for the checks in     *)
(* CordonChecks it cordons, for the others it only taints or labels, which *)
(* is left out here along with validation requests and dry run.            *)
(***************************************************************************)
EXTENDS Integers, Sequences, FiniteSets

CONSTANTS
    NumEvents,        \* health events the store receives
    Checks,           \* event identities
    CordonChecks,     \* those whose rule set cordons the node
    MaxOps,           \* cordons and uncordons by an operator
    MaxCrashes,       \* crashes of the fault-quarantine process
    MaxFaults,        \* API-server or store calls that fail after their retries
    InformerSettles   \* the cache has caught up when an event is taken

ASSUME BoundsAssumption ==
    /\ NumEvents \in Nat \ {0}
    /\ {MaxOps, MaxCrashes, MaxFaults} \subseteq Nat
ASSUME ChecksAssumption == IsFiniteSet(Checks) /\ CordonChecks \subseteq Checks
ASSUME SettlesAssumption == InformerSettles \in BOOLEAN

VARIABLES
    events,     \* stored events in creation order: [fault, check]
    quar,       \* healtheventstatus.nodequarantined of each event
    done,       \* events with the recovery-completed marker
    versions,   \* versions of the node, the last one current
    cached,     \* version in the informer cache
    notified,   \* last version the informer handlers were told of
    pending,    \* NodePatcher.pendingVersions: own last write, 0 if none
    up,         \* the process runs
    taken,      \* last event taken from the change stream
    cold,       \* cold-start recovery: [on, tried, failed]
    loop,       \* the event loop: [stage, event, recovery, node, status]
    handler,    \* the informer handler: [stage, first]
    used,       \* how often the environment struck: [ops, crashes, faults]
    theirs      \* an operator cordoned the node before any session did

store == <<events, quar, done>>
api == <<versions, pending>>
informer == <<cached, notified>>
progress == <<up, taken, cold>>
vars == <<store, api, informer, progress, loop, handler, used, theirs>>

EventIds == 1..NumEvents
Stored == 1..Len(events)
ActiveStatus == {"Quarantined", "AlreadyQuarantined"}
QuarantineStatus == {"unset", "UnQuarantined", "Cancelled"} \cup ActiveStatus

\* The part of the node fault-quarantine reads and writes: the quarantine,
\* is-cordoned, pre-existing-cordon and manual-uncordon annotations and
\* spec.unschedulable.
NodeVersion ==
    [ann : SUBSET Checks, rec : BOOLEAN, pre : BOOLEAN, manual : BOOLEAN, uns : BOOLEAN]
EventRecord == [fault : BOOLEAN, check : Checks]
CleanNode == [ann |-> {}, rec |-> FALSE, pre |-> FALSE, manual |-> FALSE, uns |-> FALSE]

ApiNode == versions[Len(versions)]
CachedNode == versions[cached]

Idle == [stage |-> "idle", event |-> 0, recovery |-> FALSE, node |-> CleanNode, status |-> "unset"]
HandlerIdle == [stage |-> "idle", first |-> 0]

Check(e) == events[e].check
IsFault(e) == events[e].fault
Terminal(e) == quar[e] # "unset" \/ e \in done

Init ==
    /\ events = << >>
    /\ quar = [e \in EventIds |-> "unset"]
    /\ done = {}
    /\ versions = <<CleanNode>>
    /\ cached = 1 /\ notified = 1 /\ pending = 0
    /\ up = TRUE /\ taken = 0
    /\ cold = [on |-> FALSE, tried |-> {}, failed |-> FALSE]
    /\ loop = Idle
    /\ handler = HandlerIdle
    /\ used = [ops |-> 0, crashes |-> 0, faults |-> 0]
    /\ theirs = FALSE

-----------------------------------------------------------------------------
(* The environment                                                         *)

\* A health monitor's event reaches the store.
StoreEvent ==
    /\ Len(events) < NumEvents
    /\ \E f \in BOOLEAN, c \in Checks : events' = Append(events, [fault |-> f, check |-> c])
    /\ UNCHANGED <<quar, done, api, informer, progress, loop, handler, used, theirs>>

\* An operator cordons or uncordons the node.
OperatorCordon ==
    /\ used.ops < MaxOps /\ ~ApiNode.uns
    /\ versions' = Append(versions, [ApiNode EXCEPT !.uns = TRUE])
    /\ used' = [used EXCEPT !.ops = @ + 1]
    /\ theirs' = (loop.stage = "idle" /\ ~ApiNode.rec)
    /\ UNCHANGED <<store, pending, informer, progress, loop, handler>>

OperatorUncordon ==
    /\ used.ops < MaxOps /\ ApiNode.uns
    /\ versions' = Append(versions, [ApiNode EXCEPT !.uns = FALSE])
    /\ used' = [used EXCEPT !.ops = @ + 1]
    /\ theirs' = FALSE
    /\ UNCHANGED <<store, pending, informer, progress, loop, handler>>

\* The informer's watch delivers the next version to the cache.
CacheAdvances ==
    /\ up /\ cached < Len(versions)
    /\ cached' = cached + 1
    /\ UNCHANGED <<store, api, notified, progress, loop, handler, used, theirs>>

-----------------------------------------------------------------------------
(* Patching the node                                                       *)

\* Seeded fault: an own write the cache has not seen yet is ignored.
CacheAlways == cached

\* NodePatcher.currentNode: the cache, unless an own write is not in it yet.
currentNode == IF pending \in {0, cached} THEN cached ELSE Len(versions)

\* The merge patch of the differences between a base and its mutation,
\* applied to the API server's node.
NodeMergePatch(base, want) ==
    [ann |-> IF want.ann # base.ann THEN want.ann ELSE ApiNode.ann,
     rec |-> IF want.rec # base.rec THEN want.rec ELSE ApiNode.rec,
     pre |-> IF want.pre # base.pre THEN want.pre ELSE ApiNode.pre,
     manual |-> IF want.manual # base.manual THEN want.manual ELSE ApiNode.manual,
     uns |-> IF want.uns # base.uns THEN want.uns ELSE ApiNode.uns]

\* A patch that changes the spec carries the resource version of its base,
\* so on a base that is not current it conflicts and is computed again.
Conflicts(want) ==
    /\ currentNode # Len(versions)
    /\ want.uns # versions[currentNode].uns

\* The node that a patch which took effect was computed from, when the first
\* attempt wanted `want`.
PatchBase(want) == IF Conflicts(want) THEN ApiNode ELSE versions[currentNode]

\* The patch of a base is written and its version remembered; without a
\* difference nothing is sent, and an own write the cache shows is forgotten.
WritePatch(base, want) ==
    LET new == NodeMergePatch(base, want)
    IN /\ versions' = IF new = ApiNode THEN versions ELSE Append(versions, new)
       /\ pending' = IF want # base THEN Len(versions')
                     ELSE IF pending = cached THEN 0 ELSE pending

\* UpdateNode (NodePatcher.Patch): one serialised read, mutation and patch.
BaseOf(mutate(_)) == PatchBase(mutate(versions[currentNode]))
UpdateNode(mutate(_)) == WritePatch(BaseOf(mutate), mutate(BaseOf(mutate)))

-----------------------------------------------------------------------------
(* The event loop                                                          *)

\* Reconciler.getNode: the cache, or in cold start the event's API snapshot.
getNode == IF loop.recovery THEN loop.node ELSE CachedNode

At(stage) == up /\ loop.stage = stage
Goto(stage) == loop' = [loop EXCEPT !.stage = stage]
Resolve(status) == loop' = [loop EXCEPT !.stage = "status", !.status = status]
Keep == UNCHANGED <<store, informer, progress, handler, used, theirs>>
KeepNode == UNCHANGED api

\* handleEvent up to its first branch: the annotation decides between a new
\* session, the session that exists, and nothing to do for a recovery.
handleEvent(e, recovery, node) ==
    loop' = [stage |-> CASE node.ann # {} -> "eligible"
                         [] node.ann = {} /\ IsFault(e) -> "fresh"
                         [] OTHER -> "skip",
             event |-> e, recovery |-> recovery, node |-> node, status |-> "unset"]

\* watchEvents and processEvent: take the next live event; one that cold
\* start already brought to an end is passed over.
TakeEvent ==
    /\ up /\ ~cold.on /\ loop.stage = "idle" /\ taken < Len(events)
    /\ InformerSettles => cached = Len(versions)
    /\ taken' = taken + 1
    /\ IF Terminal(taken + 1) THEN loop' = loop ELSE handleEvent(taken + 1, FALSE, CachedNode)
    /\ UNCHANGED <<store, api, informer, up, cold, handler, used, theirs>>

\* cleanupManualAnnotation before a new session.
CleanupManualAnnotation ==
    /\ At("fresh")
    /\ IF loop.node.manual
       THEN LET mutate(n) == [n EXCEPT !.manual = FALSE] IN UpdateNode(mutate)
       ELSE KeepNode
    /\ Goto("quarantine") /\ Keep

\* QuarantineNodeAndSetAnnotations with the annotations prepareAnnotations
\* builds: the event is merged into the tracked ones, and a cordon found in
\* the node that was read is recorded as pre-existing.
QuarantineNode(node, c, preexisting) ==
    [node EXCEPT !.ann = @ \cup {c},
                 !.rec = @ \/ c \in CordonChecks,
                 !.pre = @ \/ (c \in CordonChecks /\ preexisting),
                 !.uns = @ \/ c \in CordonChecks]

\* prepareAnnotations and applyQuarantine.
ApplyQuarantine ==
    LET c == Check(loop.event)
        mutate(n) == QuarantineNode(n, c, getNode.uns)
    IN /\ At("quarantine")
       /\ UpdateNode(mutate)
       /\ Resolve(IF BaseOf(mutate).ann # {} THEN "AlreadyQuarantined" ELSE "Quarantined")
       /\ Keep

\* shouldProcessAlreadyQuarantinedEvent: a second read of the annotation.
ShouldProcess ==
    /\ At("eligible")
    /\ Goto(IF getNode.ann = {} \/ (~IsFault(loop.event) /\ Check(loop.event) \notin getNode.ann)
            THEN "skip" ELSE "handle")
    /\ KeepNode /\ Keep

\* handleQuarantinedNode: a third read, whose annotations the release uses.
HandleQuarantinedNode ==
    LET tracked == getNode.ann
        c == Check(loop.event)
        seen == [loop EXCEPT !.node = getNode]
    IN /\ At("handle")
       /\ loop' = CASE tracked = {} -> [loop EXCEPT !.stage = "status", !.status = "UnQuarantined"]
                    [] tracked # {} /\ IsFault(loop.event) ->
                         [seen EXCEPT !.stage = IF c \in tracked THEN "actions" ELSE "track"]
                    [] OTHER ->
                         IF c \in tracked
                         THEN [seen EXCEPT !.stage = "untrack"]
                         ELSE [loop EXCEPT !.stage = "status", !.status = "AlreadyQuarantined"]
       /\ KeepNode /\ Keep

\* addEventToAnnotation.
AddEventToAnnotation ==
    LET mutate(n) == [n EXCEPT !.ann = @ \cup {Check(loop.event)}]
    IN At("track") /\ UpdateNode(mutate) /\ Goto("actions") /\ Keep

\* buildSessionActionUpdate and addSessionCordon: a later event of a session
\* adds the cordon its rule set requires when no earlier one recorded it.
addSessionCordon(node, c, seen) ==
    IF c \notin CordonChecks \/ seen.rec THEN node
    ELSE [node EXCEPT !.rec = TRUE, !.pre = @ \/ seen.uns, !.uns = @ \/ ~seen.uns]

\* applyRuleActionsForEvent.
ApplyRuleActions ==
    LET mutate(n) == addSessionCordon(n, Check(loop.event), getNode)
    IN At("actions") /\ UpdateNode(mutate) /\ Resolve("AlreadyQuarantined") /\ Keep

\* Seeded fault: the recovery of the last tracked event counts as partial.
LastRecoveryPartial ==
    LET mutate(n) == IF n.ann \ {Check(loop.event)} = {} THEN n
                     ELSE [n EXCEPT !.ann = @ \ {Check(loop.event)}]
    IN At("untrack") /\ UpdateNode(mutate) /\ Resolve("AlreadyQuarantined") /\ Keep

\* removeEventFromAnnotation: the last tracked event stays on the node.
RemoveEventFromAnnotation ==
    LET left(n) == n.ann \ {Check(loop.event)}
        mutate(n) == IF left(n) = {} THEN n ELSE [n EXCEPT !.ann = left(n)]
    IN /\ At("untrack")
       /\ UpdateNode(mutate)
       /\ IF left(BaseOf(mutate)) = {} THEN Goto("release") ELSE Resolve("AlreadyQuarantined")
       /\ Keep

\* Seeded fault: the release ignores that the cordon was there before.
ReleaseAnyCordon(node, seen) ==
    [node EXCEPT !.ann = {}, !.rec = @ /\ ~seen.rec, !.pre = @ /\ ~(seen.rec /\ seen.pre),
                 !.uns = @ /\ ~seen.rec]

\* prepareUncordonParams and UnQuarantineNodeAndRemoveAnnotations: what the
\* third read found recorded is removed, and a cordon of the session undone.
UnQuarantineNode(node, seen) ==
    [node EXCEPT !.ann = {}, !.rec = @ /\ ~seen.rec, !.pre = @ /\ ~(seen.rec /\ seen.pre),
                 !.uns = @ /\ ~(seen.rec /\ ~seen.pre)]

\* performUncordon.
PerformUncordon ==
    LET mutate(n) == UnQuarantineNode(n, loop.node)
    IN At("release") /\ UpdateNode(mutate) /\ Resolve("UnQuarantined") /\ Keep

-----------------------------------------------------------------------------
(* The end of an event, and calls that fail                                *)

\* updateNodeQuarantineStatus.
WriteStatus ==
    /\ At("status")
    /\ quar' = [quar EXCEPT ![loop.event] = loop.status]
    /\ loop' = Idle
    /\ UNCHANGED <<events, done, api, informer, progress, handler, used, theirs>>

\* completeLiveEventIfSkipped, or CompleteStoredEvents in cold start: an
\* event with nothing to do is marked, so that no later start replays it.
CompleteSkipped ==
    /\ At("skip")
    /\ done' = done \cup {loop.event}
    /\ loop' = Idle
    /\ UNCHANGED <<events, quar, api, informer, progress, handler, used, theirs>>

MayFail ==
    /\ used.faults < MaxFaults
    /\ used' = [used EXCEPT !.faults = @ + 1]

\* The event is given up without a status: cold start will replay it.
GiveUp ==
    /\ loop' = Idle
    /\ cold' = [cold EXCEPT !.failed = @ \/ loop.recovery]
    /\ UNCHANGED <<store, api, informer, up, taken, handler, theirs>>

\* A read of the node, a node update for a fault, or any status write fails
\* (errQuarantinedNodeNotUpdated, the error returns of handleEvent,
\* applyQuarantine and processHealthEvent).
FaultUpdateFails ==
    /\ up /\ loop.stage \in {"fresh", "quarantine", "eligible", "track", "actions", "status"}
    /\ MayFail
    /\ GiveUp

\* A node update of a recovery fails: the node stays quarantined, and the
\* live path writes that as the status; cold start withholds it.  Keeping
\* the last tracked event calls the API server only for a base not cached.
RecoveryUpdateFails ==
    /\ up /\ loop.stage \in {"untrack", "release"}
    /\ loop.stage = "untrack" =>
         pending \notin {0, cached} \/ ~(CachedNode.ann \subseteq {Check(loop.event)})
    /\ MayFail
    /\ IF loop.recovery THEN GiveUp
       ELSE /\ Resolve("AlreadyQuarantined")
            /\ UNCHANGED <<store, api, informer, progress, handler, theirs>>

\* The marker of a skipped event cannot be written: a live one stops the
\* process before its checkpoint, a stored one fails the start-up.
CompletionFails ==
    /\ At("skip")
    /\ MayFail
    /\ IF loop.recovery THEN GiveUp
       ELSE /\ up' = FALSE
            /\ UNCHANGED <<store, api, informer, taken, cold, loop, handler, theirs>>

-----------------------------------------------------------------------------
(* The informer handler                                                    *)

\* Seeded fault: the handler is told of a version before the cache has it.
NotifyAhead ==
    /\ up /\ handler.stage = "idle" /\ notified < Len(versions)
    /\ notified' = notified + 1
    /\ UNCHANGED <<store, api, cached, progress, loop, handler, used, theirs>>

\* handleUpdateNode and detectAndHandleManualUncordon.
Notify ==
    /\ up /\ handler.stage = "idle" /\ notified < cached
    /\ notified' = notified + 1
    /\ handler' = IF /\ versions[notified].uns
                     /\ ~versions[notified + 1].uns
                     /\ versions[notified + 1].rec
                  THEN [handler EXCEPT !.stage = "cleanup"] ELSE handler
    /\ UNCHANGED <<store, api, cached, progress, loop, used, theirs>>

\* HandleManualUncordonCleanup: the annotations found in the cache go.
ManualUncordonCleanup(node, seen) ==
    [node EXCEPT !.ann = IF seen.ann # {} THEN {} ELSE @,
                 !.rec = @ /\ ~seen.rec, !.pre = @ /\ ~seen.pre, !.manual = TRUE]

\* handleManualUncordon up to the cancellation.
HandleManualUncordon ==
    LET mutate(n) == ManualUncordonCleanup(n, CachedNode)
    IN /\ up /\ handler.stage = "cleanup"
       /\ UpdateNode(mutate)
       /\ handler' = [handler EXCEPT !.stage = "find"]
       /\ UNCHANGED <<store, informer, progress, loop, used, theirs>>

\* CancelLatestQuarantiningEvents: find the event the session began with...
SessionMarks == {e \in Stored : quar[e] \in {"Quarantined", "UnQuarantined"}}

FindLatestQuarantining ==
    /\ up /\ handler.stage = "find"
    /\ handler' = IF \E e \in SessionMarks :
                       quar[e] = "Quarantined" /\ \A f \in SessionMarks : f <= e
                  THEN [stage |-> "cancel",
                        first |-> CHOOSE e \in SessionMarks : \A f \in SessionMarks : f <= e]
                  ELSE HandlerIdle
    /\ UNCHANGED <<store, api, informer, progress, loop, used, theirs>>

\* ... and cancel it with all that followed.
CancelQuarantining ==
    /\ up /\ handler.stage = "cancel"
    /\ quar' = [e \in EventIds |-> IF e >= handler.first /\ quar[e] \in ActiveStatus
                                   THEN "Cancelled" ELSE quar[e]]
    /\ handler' = HandlerIdle
    /\ UNCHANGED <<events, done, api, informer, progress, loop, used, theirs>>

\* A call of the handler fails: it is logged and never tried again.
HandlerFails ==
    /\ up /\ handler.stage # "idle"
    /\ MayFail
    /\ handler' = HandlerIdle
    /\ UNCHANGED <<store, api, informer, progress, loop, theirs>>

-----------------------------------------------------------------------------
(* Crash, restart and cold start                                           *)

Crash ==
    /\ up /\ used.crashes < MaxCrashes
    /\ used' = [used EXCEPT !.crashes = @ + 1]
    /\ up' = FALSE
    /\ UNCHANGED <<store, api, informer, taken, cold, loop, handler, theirs>>

\* The informer syncs, and its ADD event shows a node uncordoned meanwhile
\* (checkStaleUncordonState).  The overlap cutoff is the present.
Restart ==
    /\ ~up
    /\ up' = TRUE
    /\ versions' = <<ApiNode>>
    /\ cached' = 1 /\ notified' = 1 /\ pending' = 0
    /\ taken' = Len(events)
    /\ cold' = [on |-> TRUE, tried |-> {}, failed |-> FALSE]
    /\ loop' = Idle
    /\ handler' = IF ApiNode.rec /\ ~ApiNode.uns
                  THEN [HandlerIdle EXCEPT !.stage = "cleanup"] ELSE HandlerIdle
    /\ UNCHANGED <<store, used, theirs>>

\* Seeded fault: the replay passes over unfinished recoveries.
FaultsOnly == {e \in 1..taken : ~Terminal(e) /\ e \notin cold.tried /\ IsFault(e)}

\* coldStartQuery: events no earlier run brought to an end.
coldStartQuery == {e \in 1..taken : ~Terminal(e) /\ e \notin cold.tried}

\* Faults are replayed before recoveries, each in creation order; a fault
\* that failed keeps the phase of the recoveries from starting.
MayReplay(e) ==
    /\ e \in coldStartQuery
    /\ \A f \in coldStartQuery :
         /\ IsFault(e) = IsFault(f) => e <= f
         /\ IsFault(f) => IsFault(e)
    /\ cold.failed => IsFault(e) \/ \E h \in cold.tried : ~IsFault(h)

\* Seeded fault: an older event is replayed over a newer one.
NeverSuperseded(e) == FALSE

\* supersessionResolver.resolve: a newer event of the identity is stored.
superseded(e) == \E f \in (e + 1)..taken : Check(f) = Check(e)

\* recoverStoredEvent and ProcessStoredEvent.
RecoverStoredEvent ==
    /\ up /\ cold.on /\ loop.stage = "idle"
    /\ \E e \in EventIds :
         /\ MayReplay(e)
         /\ cold' = [cold EXCEPT !.tried = @ \cup {e}]
         /\ IF superseded(e)
            THEN loop' = [Idle EXCEPT !.stage = "skip", !.event = e, !.recovery = TRUE]
            ELSE handleEvent(e, TRUE, ApiNode)
    /\ UNCHANGED <<store, api, informer, up, taken, handler, used, theirs>>

\* The end of coldstart.Handle: the live stream, or a failed start-up.
ColdStartEnds ==
    /\ up /\ cold.on /\ loop.stage = "idle"
    /\ \A e \in EventIds : ~MayReplay(e)
    /\ cold' = [cold EXCEPT !.on = FALSE]
    /\ up' = ~cold.failed
    /\ UNCHANGED <<store, api, informer, taken, loop, handler, used, theirs>>

-----------------------------------------------------------------------------
Loop ==
    \/ TakeEvent \/ CleanupManualAnnotation \/ ApplyQuarantine \/ ShouldProcess
    \/ HandleQuarantinedNode \/ AddEventToAnnotation \/ ApplyRuleActions
    \/ RemoveEventFromAnnotation \/ PerformUncordon \/ WriteStatus \/ CompleteSkipped
    \/ RecoverStoredEvent \/ ColdStartEnds

Handler == Notify \/ HandleManualUncordon \/ FindLatestQuarantining \/ CancelQuarantining

Failure == FaultUpdateFails \/ RecoveryUpdateFails \/ CompletionFails \/ HandlerFails \/ Crash

Environment == StoreEvent \/ OperatorCordon \/ OperatorUncordon

Next == Loop \/ Handler \/ Failure \/ Environment \/ CacheAdvances \/ Restart

Spec == Init /\ [][Next]_vars

\* The loop and the handler are goroutines, the informer's watch is live, and
\* the kubelet restarts the process.
FairSpec ==
    /\ Spec
    /\ WF_vars(Loop) /\ WF_vars(Handler) /\ WF_vars(CacheAdvances) /\ WF_vars(Restart)

-----------------------------------------------------------------------------
(* Properties                                                              *)

\* The state is well formed: statuses, stages and versions stay in the sets
\* the event loop, the handler and the API server work with.
StoreTypeOK ==
    /\ events \in Seq(EventRecord) /\ Len(events) <= NumEvents
    /\ quar \in [EventIds -> QuarantineStatus]
    /\ done \subseteq Stored
    /\ \A e \in EventIds \ Stored : quar[e] = "unset"

NodeTypeOK ==
    /\ versions \in Seq(NodeVersion) /\ Len(versions) > 0
    /\ cached \in 1..Len(versions) /\ notified \in 1..cached
    /\ pending \in 0..Len(versions)

LoopStages == {"idle", "fresh", "quarantine", "eligible", "handle", "track", "actions",
               "untrack", "release", "status", "skip"}

LoopRecord ==
    [stage : LoopStages, event : 0..NumEvents, recovery : BOOLEAN,
     node : NodeVersion, status : QuarantineStatus]

LoopTypeOK ==
    /\ loop \in LoopRecord
    /\ loop.stage # "idle" => loop.event \in Stored
    /\ up \in BOOLEAN /\ taken \in 0..Len(events)
    /\ cold \in [on : BOOLEAN, tried : SUBSET EventIds, failed : BOOLEAN]

HandlerTypeOK ==
    /\ handler \in [stage : {"idle", "cleanup", "find", "cancel"}, first : 0..NumEvents]
    /\ used \in [ops : 0..MaxOps, crashes : 0..MaxCrashes, faults : 0..MaxFaults]
    /\ theirs \in BOOLEAN

TypeOK == StoreTypeOK /\ NodeTypeOK /\ LoopTypeOK /\ HandlerTypeOK

Newest(e) == e \in Stored /\ \A f \in Stored : f > e => Check(f) # Check(e)

\* The node the next patch is computed from carries the quarantine
\* annotations of the API server's node: an annotation-only merge patch has
\* no resource version, so a base older than an own write would silently
\* undo it (NodePatcher.currentNode and its pending version).
PatchBaseCurrent ==
    LET base == versions[currentNode]
    IN /\ base.ann = ApiNode.ann /\ base.rec = ApiNode.rec
       /\ base.pre = ApiNode.pre /\ base.manual = ApiNode.manual

\* While no operator touches the node, a fault that is the newest word on
\* its check and was given an active status is tracked on the node, and the
\* node is cordoned if its rule set cordons - through failed calls, crashes
\* and replays (handleEvent, applyRuleActionsForEvent, cold start).
ActiveFaultHeld ==
    used.ops = 0 =>
      \A e \in Stored :
        Newest(e) /\ IsFault(e) /\ quar[e] \in ActiveStatus =>
          /\ Check(e) \in ApiNode.ann
          /\ Check(e) \in CordonChecks => ApiNode.uns /\ ApiNode.rec

AppliedIfResolved(e) == Newest(e) /\ ~IsFault(e) /\ Terminal(e) => Check(e) \notin ApiNode.ann

\* A recovery that is the newest word on its check and has been brought to
\* an end took its check off the node, when no call fails and no operator
\* interferes: neither the skip of a live recovery nor cold start's order of
\* replay loses it (shouldProcessAlreadyQuarantinedEvent, recoverStoredEvent).
RecoveryApplied ==
    used.ops = 0 /\ used.faults = 0 => \A e \in Stored : AppliedIfResolved(e)

\* "Keep the final tracked event until the single unquarantine update
\* succeeds. If that API call fails transiently, recovery can retry the same
\* healthy event": a recovery that was not applied is not brought to an end
\* (removeEventFromAnnotation).
FailedReleaseRetried == used.ops = 0 => \A e \in Stored : AppliedIfResolved(e)

\* A cordon an operator put on a node no session had cordoned outlives every
\* session on it (prepareAnnotations, addSessionCordon, prepareUncordonParams).
OperatorCordonKept == theirs => ApiNode.uns

\* A manual uncordon "Cleans up quarantine state" and "Returns the node to
\* normal operation": no session's cordon is left on a node that tracks no
\* event, where no recovery would ever release it (handleManualUncordon).
NoOrphanedCordon == ApiNode.ann = {} => ~(ApiNode.rec /\ ApiNode.uns)

Recovered == \A e \in Stored : Newest(e) => ~IsFault(e)

\* Once the newest event of every check is a recovery, the session ends and
\* the node is schedulable, unless a new fault arrives, an operator acts or a
\* call fails (handleQuarantinedNode, performUncordon, cold start).
RecoveryReleases ==
    Recovered ~> \/ ~Recovered
                 \/ used.ops > 0 \/ used.faults > 0
                 \/ ApiNode.ann = {} /\ ~ApiNode.uns

=============================================================================
