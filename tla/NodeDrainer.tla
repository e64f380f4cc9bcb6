---------------------------- MODULE NodeDrainer ----------------------------
(***************************************************************************)
(* node-drainer, seen from one node: its health events in the store, the   *)
(* change stream that announces quarantine statuses, the in-memory         *)
(* cancellation state, the work queue with its single worker, the drain    *)
(* itself, and the cold start that rebuilds the queue after a restart.     *)
(*                                                                         *)
(* Events are numbered in creation order, so an event's number is its      *)
(* createdAt.  All in-memory state of the reconciler is keyed by node, and *)
(* nodes meet only in the queue, so one node is enough.                    *)
(* fault-quarantine is the environment: it gives each event its quarantine *)
(* status in creation order and owns the node's quarantine annotation.     *)
(***************************************************************************)
EXTENDS Integers, Sequences, FiniteSets

CONSTANTS
    NumEvents,      \* health events of the node, created in the order 1..NumEvents
    Entities,       \* what a pod can occupy on the node (GPUs)
    Kinds,          \* kinds of unhealthy event that occur: "fault", "skip" (DrainOverrides.Skip)
    Scopes,         \* drain scopes that occur: "full", an entity, "unsupported"
    Modes,          \* eviction modes configured: "immediate", "timeout", "completion"
    MaxCrashes,     \* how often the process may crash
    WriteFaults,    \* may a store or label write fail?
    CacheLag        \* may the node informer lag behind the API server?

ASSUME DrainerAssumption ==
    /\ NumEvents \in Nat \ {0}
    /\ Kinds \subseteq {"fault", "skip"}
    /\ Scopes \subseteq {"full", "unsupported"} \cup Entities
    /\ {"full", "unsupported"} \cap Entities = {}
    /\ Modes \subseteq {"immediate", "timeout", "completion"}
    /\ MaxCrashes \in Nat
    /\ WriteFaults \in BOOLEAN
    /\ CacheLag \in BOOLEAN

VARIABLES
    kind, scope,    \* what each event reports (immutable once it has a status)
    quar,           \* store: healtheventstatus.nodequarantined
    evict,          \* store: healtheventstatus.userpodsevictionstatus.status
    annot,          \* events in the node's quarantine annotation, {} when there is none
    seen,           \* the annotation in node-drainer's informer cache
    label,          \* the node's nvsentinel-state label
    pods,           \* entities with an evictable user pod
    stream,         \* updates the change stream matches, oldest first
    pos, token,     \* position of the open stream; position saved as resume token
    inbox,          \* update read from the stream, with its looked-up document
    up,             \* is the process running?
    crashes,
    tracked,        \* nodeEventsMap[node]
    cutoff,         \* cancelledNodes[node], 0 when absent
    queue,          \* events waiting in the work queue
    w,              \* the worker: stage, event, fetched document, chosen action
    ended           \* history: UnQuarantined and Cancelled updates ever consumed

store    == <<kind, scope, quar, evict>>
node     == <<annot, seen, label, pods>>
watch    == <<stream, pos, token, inbox>>
process  == <<up, crashes, tracked, cutoff, queue, w>>
vars     == <<store, node, watch, process, ended>>

Events   == 1..NumEvents
Active   == {"Quarantined", "AlreadyQuarantined"}
Statuses == {"unset", "UnQuarantined", "Cancelled"} \cup Active
Drained  == {"Succeeded", "AlreadyDrained"}
Terminal == Drained \cup {"Failed", "Cancelled"}

NoChange == [e |-> 0, quar |-> "unset", evict |-> "unset"]
Idle     == [stage |-> "idle", e |-> 0, quar |-> "unset", evict |-> "unset", act |-> "none"]

Evictions == {"unset", "InProgress"} \cup Terminal
Actions   == {"none", "skip", "wait", "already", "cancel", "succeed", "fail",
              "immediate", "timeout", "completion"}

StoreTypeOK ==
    /\ kind \in [Events -> {"fault", "skip", "healthy"}]
    /\ scope \in [Events -> {"full", "unsupported"} \cup Entities]
    /\ quar \in [Events -> Statuses]
    /\ evict \in [Events -> Evictions]

NodeTypeOK ==
    /\ annot \subseteq Events /\ seen \subseteq Events
    /\ label \in {"none", "quarantined", "draining", "drain-succeeded", "drain-failed"}
    /\ pods \subseteq Entities

WatchTypeOK ==
    /\ stream \in Seq(Events) /\ pos \in 0..Len(stream) /\ token \in 0..pos
    /\ inbox \in [e: Events \cup {0}, quar: Statuses, evict: Evictions]

ProcessTypeOK ==
    /\ up \in BOOLEAN /\ crashes \in 0..MaxCrashes
    /\ tracked \in [Events -> {"none", "InProgress", "Cancelled"}]
    /\ cutoff \in 0..NumEvents /\ queue \subseteq Events /\ ended \subseteq Events
    /\ w \in [stage: {"idle", "fetched", "cancelling", "checked", "decided", "evicting"},
              e: Events \cup {0}, quar: Statuses, evict: Evictions, act: Actions]
    /\ (w.stage # "idle") => (w.e # 0)

\* Types; a saved position is one the open stream has passed, that is one of
\* an update that was written, and a busy worker holds an event.
TypeOK == StoreTypeOK /\ NodeTypeOK /\ WatchTypeOK /\ ProcessTypeOK

Init ==
    /\ kind = [e \in Events |-> "healthy"] /\ scope = [e \in Events |-> "full"]
    /\ quar = [e \in Events |-> "unset"] /\ evict = [e \in Events |-> "unset"]
    /\ annot = {} /\ seen = {} /\ label = "none" /\ pods = Entities
    /\ stream = <<>> /\ pos = 0 /\ token = 0 /\ inbox = NoChange
    /\ up = TRUE /\ crashes = 0
    /\ tracked = [e \in Events |-> "none"] /\ cutoff = 0
    /\ queue = {} /\ w = Idle /\ ended = {}

(***************************************************************************)
(* fault-quarantine and the cluster.                                       *)
(***************************************************************************)

\* The node's events are given a status one after the other.
IsNext(e) == quar[e] = "unset" /\ \A f \in 1..(e - 1) : quar[f] # "unset"

Annotate(a) ==
    /\ annot' = a
    /\ seen' = IF CacheLag THEN seen ELSE a

\* A fault opens a quarantine session, or joins the one that is open.
Quarantine(e, k, s) ==
    /\ IsNext(e)
    /\ kind' = [kind EXCEPT ![e] = k] /\ scope' = [scope EXCEPT ![e] = s]
    /\ quar' = [quar EXCEPT ![e] = IF annot = {} THEN "Quarantined" ELSE "AlreadyQuarantined"]
    /\ stream' = Append(stream, e)
    /\ Annotate(annot \cup {e})
    /\ label' = IF annot = {} THEN "quarantined" ELSE label
    /\ UNCHANGED <<evict, pods, pos, token, inbox, process, ended>>

\* A recovery of one tracked fault while others keep the node quarantined.
PartialRecovery(e, f) ==
    /\ IsNext(e) /\ f \in annot /\ annot # {f}
    /\ quar' = [quar EXCEPT ![e] = "AlreadyQuarantined"]
    /\ stream' = Append(stream, e)
    /\ Annotate(annot \ {f})
    /\ UNCHANGED <<kind, scope, evict, label, pods, pos, token, inbox, process, ended>>

\* The recovery of the last tracked fault ends the session.
Unquarantine(e) ==
    /\ IsNext(e) /\ Cardinality(annot) = 1
    /\ quar' = [quar EXCEPT ![e] = "UnQuarantined"]
    /\ stream' = Append(stream, e)
    /\ Annotate({}) /\ label' = "none"
    /\ UNCHANGED <<kind, scope, evict, pods, pos, token, inbox, process, ended>>

\* The sequence of a set's events in creation order: UpdateMany walks its
\* matches in the order in which they were inserted.
InOrder(S) ==
    {q \in [1..Cardinality(S) -> S] : \A i, j \in DOMAIN q : i < j => q[i] < q[j]}

\* What CancelLatestQuarantiningEvents matches: the active events from the
\* newest Quarantined one on.
LatestSession ==
    LET first == CHOOSE e \in Events :
                     /\ quar[e] = "Quarantined"
                     /\ \A f \in Events : f > e => quar[f] # "Quarantined"
    IN  {e \in Events : e >= first /\ quar[e] \in Active}

\* An operator uncordons the node, and the session's events become Cancelled.
ManualUncordon ==
    /\ annot # {}
    /\ quar' = [e \in Events |-> IF e \in LatestSession THEN "Cancelled" ELSE quar[e]]
    /\ \E q \in InOrder(LatestSession) : stream' = stream \o q
    /\ Annotate({}) /\ label' = "none"
    /\ UNCHANGED <<kind, scope, evict, pods, pos, token, inbox, process, ended>>

\* Pods are scheduled on the node only while it is not quarantined.
PodsArrive ==
    /\ annot = {} /\ pods' = Entities /\ pods # Entities
    /\ UNCHANGED <<store, annot, seen, label, watch, process, ended>>

PodExits(g) ==
    /\ g \in pods /\ pods' = pods \ {g}
    /\ UNCHANGED <<store, annot, seen, label, watch, process, ended>>

CacheSync ==
    /\ seen # annot /\ seen' = annot
    /\ UNCHANGED <<store, annot, label, pods, watch, process, ended>>

(***************************************************************************)
(* The change-stream goroutine.                                            *)
(***************************************************************************)

\* Seeded fault: the position runs ahead of the update that was read.
ReceiveRunsAhead ==
    /\ up /\ inbox = NoChange /\ pos < Len(stream)
    /\ LET e == stream[pos + 1] IN inbox' = [e |-> e, quar |-> quar[e], evict |-> evict[e]]
    /\ pos' = pos + 2
    /\ UNCHANGED <<store, node, stream, token, process, ended>>

\* The stream delivers an update with the document as it is when looked up.
Receive ==
    /\ up /\ inbox = NoChange /\ pos < Len(stream)
    /\ LET e == stream[pos + 1] IN inbox' = [e |-> e, quar |-> quar[e], evict |-> evict[e]]
    /\ pos' = pos + 1
    /\ UNCHANGED <<store, node, stream, token, process, ended>>

\* Seeded fault: events of every age fall under the cutoff.
CutoffIgnoresAge(e, c) == c # 0

eventAtOrBeforeCutoff(e, c) == c # 0 /\ e <= c

\* Seeded fault: the recovery cancels only what is tracked, and leaves no cutoff.
CancelTrackedOnly(e) ==
    /\ tracked' = [f \in Events |->
                     IF tracked[f] # "none" /\ eventAtOrBeforeCutoff(f, e) THEN "Cancelled" ELSE tracked[f]]
    /\ UNCHANGED cutoff

\* UnQuarantined: remember the cutoff and cancel the tracked events before it.
handleUnQuarantinedCancellation(e) ==
    /\ cutoff' = e
    /\ tracked' = [f \in Events |->
                     IF tracked[f] # "none" /\ eventAtOrBeforeCutoff(f, e) THEN "Cancelled" ELSE tracked[f]]

handleEventCancellation ==
    /\ ended' = ended \cup (IF inbox.quar \in Active THEN {} ELSE {inbox.e})
    /\ CASE inbox.quar = "Cancelled" ->
                tracked' = [tracked EXCEPT ![inbox.e] = "Cancelled"] /\ UNCHANGED cutoff
         [] inbox.quar = "UnQuarantined" -> handleUnQuarantinedCancellation(inbox.e)
         [] OTHER -> UNCHANGED <<tracked, cutoff>>

\* The resume token may fail to be saved, or the process dies before it is;
\* it is read again only after a crash.
MarkProcessed ==
    /\ inbox' = NoChange
    /\ token' \in IF crashes < MaxCrashes THEN {token, pos} ELSE {pos}

\* An update whose document is already terminal is only checkpointed.
SkipTerminal ==
    /\ up /\ inbox.e # 0 /\ inbox.evict \in Terminal
    /\ MarkProcessed
    /\ UNCHANGED <<store, node, stream, pos, process, ended>>

\* A Cancelled update leaves a mark for the worker and is not enqueued.
PreprocessCancelled ==
    /\ up /\ inbox.e # 0 /\ inbox.evict \notin Terminal /\ inbox.quar = "Cancelled"
    /\ handleEventCancellation
    /\ MarkProcessed
    /\ UNCHANGED <<store, node, stream, pos, up, crashes, queue, w>>

\* Any other update is set InProgress, whatever status was written since its
\* document was looked up, and enqueued.
PreprocessAndEnqueueEvent ==
    /\ up /\ inbox.e # 0 /\ inbox.evict \notin Terminal /\ inbox.quar # "Cancelled"
    /\ handleEventCancellation
    /\ evict' = [evict EXCEPT ![inbox.e] = "InProgress"]
    /\ queue' = queue \cup {inbox.e}
    /\ MarkProcessed
    /\ UNCHANGED <<kind, scope, quar, node, stream, pos, up, crashes, w>>

\* The status write fails: the error is logged and the loop goes on without
\* saving the token; a later event's token covers this one as well.
PreprocessFails ==
    /\ WriteFaults
    /\ up /\ inbox.e # 0 /\ inbox.evict \notin Terminal /\ inbox.quar # "Cancelled"
    /\ handleEventCancellation
    /\ inbox' = NoChange
    /\ UNCHANGED <<store, node, stream, pos, token, up, crashes, queue, w>>

(***************************************************************************)
(* The worker.  One event at a time; any waiting event may come next.      *)
(***************************************************************************)

At(stage) == up /\ w.stage = stage

Get(e) ==
    /\ At("idle") /\ e \in queue
    /\ queue' = queue \ {e}
    /\ w' = [stage |-> "fetched", e |-> e, quar |-> quar[e], evict |-> evict[e], act |-> "none"]
    /\ UNCHANGED <<store, node, watch, up, crashes, tracked, cutoff, ended>>

\* isEventCancelled: a recovery's own event is exempt from the cutoff.
isEventCancelled ==
    LET covered == w.quar # "UnQuarantined" /\ eventAtOrBeforeCutoff(w.e, cutoff)
    IN  /\ At("fetched")
        /\ tracked' = [tracked EXCEPT ![w.e] =
                         IF covered /\ @ = "none" THEN "Cancelled" ELSE @]
        /\ w' = [w EXCEPT !.stage =
                   IF covered \/ tracked[w.e] = "Cancelled" THEN "cancelling" ELSE "checked"]
        /\ UNCHANGED <<store, node, watch, up, crashes, cutoff, queue, ended>>

\* Ends of a pass: the item is forgotten, or added back with a delay.
Forget  == w' = Idle /\ UNCHANGED queue
Requeue == w' = Idle /\ queue' = queue \cup {w.e}

clearEventStatus == tracked' = [tracked EXCEPT ![w.e] = "none"]

\* The pass ends with a status write, or with an error and a retry.
WriteStatus(s) ==
    \/ evict' = [evict EXCEPT ![w.e] = s] /\ Forget
    \/ WriteFaults /\ UNCHANGED evict /\ Requeue

SetLabel(l) == label' \in {l} \cup (IF WriteFaults THEN {label} ELSE {})

\* The in-memory mark is dropped first; label removal errors are only logged.
handleCancelledEvent ==
    /\ At("cancelling")
    /\ clearEventStatus
    /\ \/ evict' = [evict EXCEPT ![w.e] = "Cancelled"] /\ SetLabel("none") /\ Forget
       \/ WriteFaults /\ UNCHANGED <<evict, label>> /\ Requeue
    /\ UNCHANGED <<kind, scope, quar, annot, seen, pods, watch, up, crashes, cutoff, ended>>

Targets(s) == IF s = "full" THEN Entities ELSE {s}

\* Seeded fault: any completed drain counts, whatever it covered.
CoversAnything(f, e) == scope[f] # "unsupported" /\ scope[e] # "unsupported"

doesDrainCoverPartialEntity(f, e) == scope[f] \in {"full", scope[e]}

\* Seeded fault: a drain that was skipped by override counts as completed.
SkippedCounts(f) == evict[f] \in Drained

didDrainCompleteForEvent(f) ==
    evict[f] = "Succeeded" \/ (evict[f] = "AlreadyDrained" /\ kind[f] # "skip")

\* An earlier drain of the session makes this one unnecessary.  The events of
\* the annotation are examined in map order, so an event whose scope cannot be
\* resolved may be met before the proof.
IsNodeDrained(e) ==
    LET others == seen \ {e}
        proof  == \E f \in others : scope[f] # "unsupported" /\ didDrainCompleteForEvent(f)
                                                             /\ doesDrainCoverPartialEntity(f, e)
        broken == \E f \in others : scope[f] = "unsupported"
    IN  (IF proof THEN {"yes"} ELSE {}) \cup (IF broken THEN {"error"} ELSE {})
            \cup (IF proof \/ broken THEN {} ELSE {"no"})

\* Pods in scope are drained by some configured mode; without pods the drain succeeded.
getAction(e) == IF Targets(scope[e]) \cap pods = {} THEN {"succeed"} ELSE Modes

handleAlreadyQuarantined(e) ==
    IF seen = {} THEN {"cancel"}
    ELSE UNION {CASE r = "yes" -> {"already"} [] r = "error" -> {"wait"} [] r = "no" -> getAction(e)
                  : r \in IsNodeDrained(e)}

\* Which actions the evaluator may return for the fetched document.
EvaluateEvent(e) ==
    IF w.quar \in {"unset", "UnQuarantined"} \/ w.evict \in Terminal THEN {"skip"}
    ELSE IF kind[e] # "fault" THEN {"already"}
    ELSE IF scope[e] = "unsupported" THEN {"fail"}
    ELSE IF w.quar = "AlreadyQuarantined" THEN handleAlreadyQuarantined(e)
    ELSE getAction(e)

\* markEventInProgress overwrites whatever mark the event has, in a critical
\* section of its own, and the evaluator picks the action.
ProcessEvent ==
    /\ At("checked")
    /\ tracked' = [tracked EXCEPT ![w.e] = "InProgress"]
    /\ \E a \in EvaluateEvent(w.e) : w' = [w EXCEPT !.stage = "decided", !.act = a]
    /\ UNCHANGED <<store, node, watch, up, crashes, cutoff, queue, ended>>

\* A recovery's event is marked Succeeded so that fault-remediation sees it.
executeSkip ==
    /\ At("decided") /\ w.act = "skip"
    /\ clearEventStatus
    /\ IF w.quar = "UnQuarantined"
       THEN \/ evict' = [evict EXCEPT ![w.e] = "Succeeded"] /\ SetLabel("none") /\ Forget
            \/ WriteFaults /\ UNCHANGED <<evict, label>> /\ Requeue
       ELSE UNCHANGED <<evict, label>> /\ Forget
    /\ UNCHANGED <<kind, scope, quar, annot, seen, pods, watch, up, crashes, cutoff, ended>>

executeMarkAlreadyDrained ==
    /\ At("decided") /\ w.act = "already"
    /\ clearEventStatus
    /\ WriteStatus("AlreadyDrained")
    /\ UNCHANGED <<kind, scope, quar, node, watch, up, crashes, cutoff, ended>>

executeCancelStatus ==
    /\ At("decided") /\ w.act = "cancel"
    /\ clearEventStatus
    /\ WriteStatus("Cancelled")
    /\ UNCHANGED <<kind, scope, quar, node, watch, up, crashes, cutoff, ended>>

\* The label is written before the status; a label that was not written is retried.
executeUpdateStatus ==
    /\ At("decided") /\ w.act \in {"succeed", "fail"}
    /\ clearEventStatus
    /\ \/ /\ label' = IF w.act = "succeed" THEN "drain-succeeded" ELSE "drain-failed"
          /\ WriteStatus(IF w.act = "succeed" THEN "Succeeded" ELSE "Failed")
       \/ WriteFaults /\ UNCHANGED <<label, evict>> /\ Requeue
    /\ UNCHANGED <<kind, scope, quar, annot, seen, pods, watch, up, crashes, cutoff, ended>>

executeWait ==
    /\ At("decided") /\ w.act = "wait"
    /\ Requeue
    /\ UNCHANGED <<store, node, watch, up, crashes, tracked, cutoff, ended>>

\* Immediate eviction removes pods in scope, or is refused by the API; the
\* event is requeued to verify it.
executeImmediateEviction ==
    /\ At("decided") /\ w.act = "immediate"
    /\ SetLabel("draining")
    /\ pods' \in {pods, pods \ Targets(scope[w.e])}
    /\ Requeue
    /\ UNCHANGED <<store, annot, seen, watch, up, crashes, tracked, cutoff, ended>>

\* A completion check only looks at the pods, and requeues.
executeCheckCompletion ==
    /\ At("decided") /\ w.act = "completion"
    /\ SetLabel("draining")
    /\ Requeue
    /\ UNCHANGED <<store, annot, seen, pods, watch, up, crashes, tracked, cutoff, ended>>

isTimeoutEvictionCancelled == tracked[w.e] = "Cancelled" \/ eventAtOrBeforeCutoff(w.e, cutoff)

\* Deadline-based eviction asks for a cancellation before it deletes ...
executeTimeoutEviction ==
    /\ At("decided") /\ w.act = "timeout"
    /\ SetLabel("draining")
    /\ IF isTimeoutEvictionCancelled
       THEN Forget /\ UNCHANGED pods
       ELSE /\ pods' \in {pods, pods \ Targets(scope[w.e])}
            /\ w' = [w EXCEPT !.stage = "evicting"] /\ UNCHANGED queue
    /\ UNCHANGED <<store, annot, seen, watch, up, crashes, tracked, cutoff, ended>>

\* ... and again after an incomplete deletion.
finishTimeoutEviction ==
    /\ At("evicting")
    /\ IF isTimeoutEvictionCancelled THEN Forget ELSE Requeue
    /\ UNCHANGED <<store, node, watch, up, crashes, tracked, cutoff, ended>>

(***************************************************************************)
(* Crash, restart and cold start.                                          *)
(***************************************************************************)

Crash ==
    /\ up /\ crashes < MaxCrashes
    /\ up' = FALSE /\ crashes' = crashes + 1
    /\ inbox' = NoChange /\ pos' = token
    /\ tracked' = [e \in Events |-> "none"] /\ cutoff' = 0
    /\ queue' = {} /\ w' = Idle
    /\ UNCHANGED <<store, node, stream, token, ended>>

\* Seeded fault: drains that had started are not looked for.
QueryUnstarted == {e \in Events : quar[e] \in Active /\ evict[e] = "unset"}

coldStartQuery ==
    {e \in Events : evict[e] = "InProgress" \/ (quar[e] \in Active /\ evict[e] = "unset")}

\* The newest session end of the node is strictly newer than the event.
quarantineSessionEnded(e) == \E f \in Events : f > e /\ quar[f] \in {"UnQuarantined", "Cancelled"}

skipStaleColdStartEvent(e) == quar[e] \in Active /\ quarantineSessionEnded(e)

\* Stale quarantine records are tombstoned, the rest is queued again.  A failed
\* tombstone write is only logged.
Restart ==
    LET stale == {e \in coldStartQuery : skipStaleColdStartEvent(e)}
    IN  /\ ~up /\ up' = TRUE
        /\ \/ evict' = [e \in Events |-> IF e \in stale THEN "Cancelled" ELSE evict[e]]
           \/ WriteFaults /\ UNCHANGED evict
        /\ queue' = coldStartQuery \ stale
        /\ UNCHANGED <<kind, scope, quar, node, watch, crashes, tracked, cutoff, w, ended>>

FaultQuarantine ==
    \/ \E e \in Events, k \in Kinds, s \in Scopes : Quarantine(e, k, s)
    \/ \E e, f \in Events : PartialRecovery(e, f)
    \/ \E e \in Events : Unquarantine(e)
    \/ ManualUncordon

Watcher ==
    Receive \/ SkipTerminal \/ PreprocessCancelled \/ PreprocessAndEnqueueEvent \/ PreprocessFails

Pass ==
    \/ isEventCancelled \/ handleCancelledEvent \/ ProcessEvent
    \/ executeSkip \/ executeMarkAlreadyDrained \/ executeCancelStatus \/ executeUpdateStatus
    \/ executeWait \/ executeImmediateEviction \/ executeCheckCompletion
    \/ executeTimeoutEviction \/ finishTimeoutEviction

Next ==
    \/ FaultQuarantine
    \/ PodsArrive \/ (\E g \in Entities : PodExits(g)) \/ CacheSync
    \/ Watcher
    \/ (\E e \in Events : Get(e)) \/ Pass
    \/ Crash \/ Restart

Spec == Init /\ [][Next]_vars

\* The goroutines keep running, the queue hands out every waiting event again
\* and again (it is first-in first-out within a lane), user pods end or are
\* removed, and a crashed pod is restarted.
FairSpec ==
    /\ Spec
    /\ WF_vars(Receive) /\ WF_vars(SkipTerminal) /\ WF_vars(PreprocessCancelled)
    /\ WF_vars(PreprocessAndEnqueueEvent) /\ WF_vars(Restart) /\ WF_vars(Pass)
    /\ \A e \in Events : SF_vars(Get(e))
    /\ \A g \in Entities : WF_vars(PodExits(g))

(***************************************************************************)
(* Properties.                                                             *)
(***************************************************************************)

\* A fault of the open session whose store status says drained (which is what
\* releases fault-remediation) has no user pod left on what it drains: a
\* Succeeded or AlreadyDrained status rests on a drain of this session that
\* covers the event's scope, never on an older or a narrower one.
DrainedMeansEmpty ==
    \A e \in annot :
        (kind[e] = "fault" /\ evict[e] \in Drained) => (Targets(scope[e]) \cap pods = {})

\* A fault of the open session is never given up as Cancelled: neither the
\* cutoff of an earlier recovery, nor a cold-start tombstone, nor the
\* evaluator's "no annotation" verdict hits an event of the current session.
OpenFaultNotCancelled == \A e \in annot : evict[e] # "Cancelled"

\* The worker lets the fetched event through to the drain.
PassesCheck == w.stage = "fetched" /\ w'.stage = "checked" /\ w.evict \notin Terminal

\* Once the end of a session has been consumed from the stream, the worker
\* starts no drain of a quarantined event older than it, restarts included:
\* the in-memory cutoff and, after a restart, the cold-start tombstones keep
\* every such event from passing the cancellation check unfinished.
SessionEndStopsDrain ==
    [][ (PassesCheck /\ w.quar \in Active)
            => \A u \in ended : quar[u] = "UnQuarantined" => u < w.e ]_vars

\* Every fault whose session stays open reaches a terminal drain status,
\* whatever crashes in between: an event lost with the queue is found again by
\* the cold start.
DrainConcludes == \A e \in Events : (e \in annot) ~> (e \notin annot \/ evict[e] \in Terminal)

\* What docs/cancelling-breakfix.md promises of a manual uncordon: the workflow
\* stops.  Once the Cancelled update of an event has been consumed from the
\* stream, the worker starts no pass that drains for this event.
CancelStopsDrain == [][ PassesCheck => ~(w.quar = "Cancelled" /\ w.e \in ended) ]_vars

(***************************************************************************)
(* Why the two safety invariants hold when the informer does not lag: the  *)
(* parts of the inductive invariant of NodeDrainerProofs.                  *)
(***************************************************************************)

\* The session that e belongs to has ended.
SessionOver(e) == \E u \in Events : u >= e /\ quar[u] \in {"UnQuarantined", "Cancelled"}

\* Whatever is in flight concerns events that already have a quarantine status.
Announced ==
    /\ \A f, g \in Events : (quar[f] # "unset" /\ g < f) => quar[g] # "unset"
    /\ \A e \in Events : evict[e] # "unset" => quar[e] # "unset"
    /\ stream \in Seq({e \in Events : quar[e] # "unset"})
    /\ inbox.e # 0 => quar[inbox.e] # "unset"
    /\ \A e \in queue : quar[e] # "unset"
    /\ w.stage # "idle" => quar[w.e] # "unset"

\* The annotation holds faults of a session that has not ended.
OpenSession ==
    \A e \in annot : quar[e] \in Active /\ kind[e] \in {"fault", "skip"} /\ ~SessionOver(e)

\* Every cancellation in memory goes back to the end of the event's session.
CancelJustified ==
    /\ cutoff # 0 => quar[cutoff] = "UnQuarantined"
    /\ \A e \in Events : tracked[e] = "Cancelled" => SessionOver(e)
    /\ (inbox.e # 0 /\ inbox.quar = "Cancelled") => SessionOver(inbox.e)
    /\ (inbox.e # 0 /\ inbox.quar = "UnQuarantined") => quar[inbox.e] = "UnQuarantined"
    /\ (w.stage # "idle" /\ w.quar = "UnQuarantined") => SessionOver(w.e)
    /\ w.stage = "cancelling" => SessionOver(w.e)
    /\ (w.stage = "decided" /\ w.act = "cancel") => w.e \notin annot

\* Every decision that a drain is done goes back to an empty scope.
DrainJustified ==
    /\ seen = annot
    /\ \A e \in annot : kind[e] = "skip" => evict[e] # "Succeeded"
    /\ w.stage = "decided" =>
         /\ w.act = "succeed" => kind[w.e] = "fault"
         /\ (w.act \in {"succeed", "already"} /\ w.e \in annot /\ kind[w.e] = "fault")
              => Targets(scope[w.e]) \cap pods = {}

=============================================================================
