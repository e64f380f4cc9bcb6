------------------------------ MODULE NodeLock ------------------------------
(***************************************************************************)
(* The per-node maintenance lock (commons/pkg/distributedlock) as the      *)
(* janitor's controllers use it, with the RebootNode controller as the     *)
(* client (janitor/pkg/controller).  One node; requests are the            *)
(* maintenance resources that name it.  A request of any kind follows the  *)
(* same Reconcile skeleton: take the lease, work, write the status, and    *)
(* give the lease back on a reconcile after completion.                    *)
(*                                                                         *)
(* The janitor's client answers every Get from the manager's informer      *)
(* cache (janitor/pkg/cacheconfig), the lease's included, so the model     *)
(* keeps what the API server holds apart from what the cache shows.        *)
(***************************************************************************)
EXTENDS Naturals, Sequences

CONSTANTS
    Requests,      \* maintenance resources for the node
    Kinds,         \* their kinds: RebootNode, TerminateNode, GPUReset
    Kind,          \* the kind of each request
    NoOne,         \* no lease, or no holder
    TimerSettles,  \* a RequeueAfter (2 s or more) outlasts the informers' lag
    MaxFaults      \* bound: failed or unanswered calls and janitor restarts

ASSUME RequestsAssumption == NoOne \notin Requests
ASSUME KindAssumption == Kind \in [Requests -> Kinds]
ASSUME TimerAssumption == TimerSettles \in BOOLEAN
ASSUME BoundsAssumption == MaxFaults \in Nat

VARIABLES
    cr,          \* status of each request in the API server
    seen,        \* the same in the informer cache
    queue,       \* why each request is in its controller's work queue
    task,        \* the Reconcile call in progress for each request
    lease,       \* holder of the node's lease in the API server
    leaseCache,  \* the holder the informer cache shows
    feed,        \* lease versions the informer has still to deliver
    signalled,   \* requests whose reboot signal the provider accepted
    dupOf,       \* the holder a request was completed as a duplicate of
    lagged,      \* a stale read decided an unlock or a status write
    faults       \* failed or unanswered calls and restarts so far

vars == <<cr, seen, queue, task, lease, leaseCache, feed, signalled, dupOf, lagged, faults>>

Holders == Requests \cup {NoOne}

\* "started": conditions initialised, no signal sent; "sent": signal sent;
\* "done": CompletionTime set.
Phases == {"absent", "new", "started", "sent", "done"}

\* event: a watch event; retry: a rate-limited requeue after an error;
\* timer: RequeueAfter.
Reasons == {"event", "retry", "timer"}

Stages == {"idle", "lock", "create", "contend", "work", "write", "unlock", "delete"}

Tasks == [at : Stages, read : Phases, want : Phases, dup : Holders]

Idle == [at |-> "idle", read |-> "absent", want |-> "absent", dup |-> NoOne]

TypeOK ==
    /\ cr \in [Requests -> Phases]
    /\ seen \in [Requests -> Phases]
    /\ queue \in [Requests -> SUBSET Reasons]
    /\ task \in [Requests -> Tasks]
    /\ lease \in Holders
    /\ leaseCache \in Holders
    /\ feed \in Seq(Holders)
    /\ signalled \subseteq Requests
    /\ dupOf \in [Requests -> Holders]
    /\ lagged \in BOOLEAN
    /\ faults \in 0..MaxFaults

Init ==
    /\ cr = [c \in Requests |-> "absent"]
    /\ seen = [c \in Requests |-> "absent"]
    /\ queue = [c \in Requests |-> {}]
    /\ task = [c \in Requests |-> Idle]
    /\ lease = NoOne
    /\ leaseCache = NoOne
    /\ feed = <<>>
    /\ signalled = {}
    /\ dupOf = [c \in Requests |-> NoOne]
    /\ lagged = FALSE
    /\ faults = 0

-----------------------------------------------------------------------------
(* Helpers *)

At(c, stage) == task[c].at = stage

Goto(c, stage) == task' = [task EXCEPT ![c].at = stage]

\* Reconcile returns; why = the requeue it asks for, if any.
Return(c, why) ==
    /\ task' = [task EXCEPT ![c] = Idle]
    /\ queue' = [queue EXCEPT ![c] = @ \cup why]

ToWrite(c, phase, holder) ==
    task' = [task EXCEPT ![c].at = "write", ![c].want = phase, ![c].dup = holder]

SetLease(holder) ==
    /\ lease' = holder
    /\ feed' = Append(feed, holder)

KeepLease == UNCHANGED <<lease, feed>>

Fault ==
    /\ faults < MaxFaults
    /\ faults' = faults + 1

\* controller-runtime gives every controller one worker.
ControllerFree(c) == \A d \in Requests : Kind[d] = Kind[c] => At(d, "idle")

Settled(c) == seen[c] = cr[c] /\ feed = <<>>

-----------------------------------------------------------------------------
(* The environment: fault-remediation or an operator creates requests; the *)
(* informers deliver what the API server holds.                            *)

CreateRequest(c) ==
    /\ cr[c] = "absent"
    /\ cr' = [cr EXCEPT ![c] = "new"]
    /\ UNCHANGED <<seen, queue, task, lease, leaseCache, feed, signalled, dupOf, lagged, faults>>

DeliverRequest(c) ==
    /\ seen[c] # cr[c]
    /\ seen' = [seen EXCEPT ![c] = cr[c]]
    /\ queue' = [queue EXCEPT ![c] = @ \cup {"event"}]
    /\ UNCHANGED <<cr, task, lease, leaseCache, feed, signalled, dupOf, lagged, faults>>

DeliverLease ==
    /\ feed # <<>>
    /\ leaseCache' = Head(feed)
    /\ feed' = Tail(feed)
    /\ UNCHANGED <<cr, seen, queue, task, lease, signalled, dupOf, lagged, faults>>

-----------------------------------------------------------------------------
(* Reconcile *)

\* The work queue holds a request once: a timer or retry that comes due
\* while an event is pending merges with it.
StartReconcile(c) ==
    /\ At(c, "idle")
    /\ ControllerFree(c)
    /\ \/ /\ "event" \in queue[c]
          /\ queue' = [queue EXCEPT ![c] = @ \ {"event"}]
       \/ /\ "retry" \in queue[c]
          /\ queue' = [queue EXCEPT ![c] = @ \ {"event", "retry"}]
       \/ /\ "timer" \in queue[c]
          /\ TimerSettles => Settled(c)
          /\ queue' = [queue EXCEPT ![c] = {}]
    /\ task' = [task EXCEPT ![c] =
                  [at |-> IF seen[c] = "done" THEN "unlock" ELSE "lock",
                   read |-> seen[c], want |-> seen[c], dup |-> NoOne]]
    /\ UNCHANGED <<cr, seen, lease, leaseCache, feed, signalled, dupOf, lagged, faults>>

LockNode(c) ==
    /\ At(c, "lock")
    /\ Goto(c, CASE leaseCache = c -> "work"
                 [] leaseCache = NoOne -> "create"
                 [] OTHER -> "contend")
    /\ UNCHANGED <<cr, seen, queue, lease, leaseCache, feed, signalled, dupOf, lagged, faults>>

\* Seeded fault: AlreadyExists is taken for success.
CreateLeaseTolerant(c) ==
    /\ At(c, "create")
    /\ Goto(c, "work")
    /\ IF lease = NoOne THEN SetLease(c) ELSE KeepLease
    /\ UNCHANGED <<cr, seen, queue, leaseCache, signalled, dupOf, lagged, faults>>

CreateLease(c) ==
    /\ At(c, "create")
    /\ IF lease = NoOne
       THEN Goto(c, "work") /\ SetLease(c)
       ELSE Goto(c, "contend") /\ KeepLease
    /\ UNCHANGED <<cr, seen, queue, leaseCache, signalled, dupOf, lagged, faults>>

\* Create returns an error; the API server may have executed it all the same.
CreateLeaseFails(c) ==
    /\ At(c, "create")
    /\ Fault
    /\ Goto(c, "contend")
    /\ KeepLease \/ (lease = NoOne /\ SetLease(c))
    /\ UNCHANGED <<cr, seen, queue, leaseCache, signalled, dupOf, lagged>>

\* activeSameKindHolder, from the cache.
ActiveHolder(c) ==
    /\ leaseCache # NoOne
    /\ Kind[leaseCache] = Kind[c]
    /\ seen[leaseCache] \notin {"absent", "done"}

\* Seeded fault: the holder's kind is recorded in place of its name.
HandleLockContentionNamesKind(c) ==
    /\ At(c, "contend")
    /\ IF ActiveHolder(c)
       THEN ToWrite(c, "done", Kind[leaseCache]) /\ UNCHANGED queue
       ELSE Return(c, {"timer"})
    /\ UNCHANGED <<cr, seen, lease, leaseCache, feed, signalled, dupOf, lagged, faults>>

HandleLockContention(c) ==
    /\ At(c, "contend")
    /\ IF ActiveHolder(c)
       THEN ToWrite(c, "done", leaseCache) /\ UNCHANGED queue
       ELSE Return(c, {"timer"})
    /\ UNCHANGED <<cr, seen, lease, leaseCache, feed, signalled, dupOf, lagged, faults>>

SendSignal(c) ==
    /\ At(c, "work") /\ task[c].read \in {"new", "started"}
    /\ signalled' = signalled \cup {c}
    /\ ToWrite(c, "sent", NoOne)
    /\ UNCHANGED <<cr, seen, queue, lease, leaseCache, feed, dupOf, lagged, faults>>

\* A transient error may follow a signal that got through.  Only the first
\* attempt has initial conditions to write.
SendSignalTransient(c) ==
    /\ At(c, "work") /\ task[c].read \in {"new", "started"}
    /\ Fault
    /\ signalled' \in {signalled, signalled \cup {c}}
    /\ IF task[c].read = "new"
       THEN ToWrite(c, "started", NoOne) /\ UNCHANGED queue
       ELSE Return(c, {"timer"})
    /\ UNCHANGED <<cr, seen, lease, leaseCache, feed, dupOf, lagged>>

SendSignalFails(c) ==
    /\ At(c, "work") /\ task[c].read \in {"new", "started"}
    /\ Fault
    /\ ToWrite(c, "done", NoOne)
    /\ UNCHANGED <<cr, seen, queue, lease, leaseCache, feed, signalled, dupOf, lagged>>

\* Node Get or provider dial error.
ReconcileFails(c) ==
    /\ At(c, "work")
    /\ Fault
    /\ Return(c, {"retry"})
    /\ UNCHANGED <<cr, seen, lease, leaseCache, feed, signalled, dupOf, lagged>>

\* Not ready yet, or a transient error asking.
NodeNotReady(c) ==
    /\ At(c, "work") /\ task[c].read = "sent"
    /\ Return(c, {"timer"})
    /\ UNCHANGED <<cr, seen, lease, leaseCache, feed, signalled, dupOf, lagged, faults>>

\* Ready, timed out, or a permanent error asking.
RebootEnds(c) ==
    /\ At(c, "work") /\ task[c].read = "sent"
    /\ ToWrite(c, "done", NoOne)
    /\ UNCHANGED <<cr, seen, queue, lease, leaseCache, feed, signalled, dupOf, lagged, faults>>

\* The status computed from task.read replaces the status of the object the
\* cache shows now; the API server refuses it unless that object is current.
\* Writing an unchanged phase is still a new version, hence an event.
Persist(c) ==
    /\ cr' = [cr EXCEPT ![c] = task[c].want]
    /\ dupOf' = [dupOf EXCEPT ![c] = IF task[c].dup = NoOne THEN @ ELSE task[c].dup]
    /\ lagged' = (lagged \/ task[c].read # cr[c])

WriteStatus(c) ==
    /\ At(c, "write")
    /\ IF seen[c] = cr[c]
       THEN /\ Persist(c)
            /\ Return(c, (IF task[c].dup = NoOne THEN {"timer"} ELSE {}) \cup
                         (IF task[c].want = cr[c] THEN {"event"} ELSE {}))
       ELSE Return(c, {"retry"}) /\ UNCHANGED <<cr, dupOf, lagged>>
    /\ UNCHANGED <<seen, lease, leaseCache, feed, signalled, faults>>

WriteStatusFails(c) ==
    /\ At(c, "write")
    /\ Fault
    /\ \/ UNCHANGED <<cr, dupOf, lagged>>
       \/ seen[c] = cr[c] /\ Persist(c)
    /\ Return(c, {"retry"})
    /\ UNCHANGED <<seen, lease, leaseCache, feed, signalled>>

\* Seeded fault: the owner of the lease is not compared.
CheckUnlockAnyOwner(c) ==
    /\ At(c, "unlock")
    /\ IF leaseCache # NoOne
       THEN Goto(c, "delete") /\ UNCHANGED queue
       ELSE Return(c, {})
    /\ lagged' = (lagged \/ (leaseCache = c) # (lease = c))
    /\ UNCHANGED <<cr, seen, lease, leaseCache, feed, signalled, dupOf, faults>>

CheckUnlock(c) ==
    /\ At(c, "unlock")
    /\ IF leaseCache = c
       THEN Goto(c, "delete") /\ UNCHANGED queue
       ELSE Return(c, {})
    /\ lagged' = (lagged \/ (leaseCache = c) # (lease = c))
    /\ UNCHANGED <<cr, seen, lease, leaseCache, feed, signalled, dupOf, faults>>

\* Delete names the lease and carries no precondition.
DeleteLease(c) ==
    /\ At(c, "delete")
    /\ IF lease # NoOne THEN SetLease(NoOne) ELSE KeepLease
    /\ Return(c, {})
    /\ UNCHANGED <<cr, seen, leaseCache, signalled, dupOf, lagged, faults>>

\* Seeded fault: a failed Delete is not retried.
DeleteLeaseGivesUp(c) ==
    /\ At(c, "delete")
    /\ Fault
    /\ KeepLease \/ (lease # NoOne /\ SetLease(NoOne))
    /\ Return(c, {})
    /\ UNCHANGED <<cr, seen, leaseCache, signalled, dupOf, lagged>>

DeleteLeaseFails(c) ==
    /\ At(c, "delete")
    /\ Fault
    /\ KeepLease \/ (lease # NoOne /\ SetLease(NoOne))
    /\ Return(c, {"timer"})
    /\ UNCHANGED <<cr, seen, leaseCache, signalled, dupOf, lagged>>

\* The janitor restarts: its informers list afresh and report every request.
Crash ==
    /\ Fault
    /\ task' = [c \in Requests |-> Idle]
    /\ seen' = cr
    /\ queue' = [c \in Requests |-> IF cr[c] = "absent" THEN {} ELSE {"event"}]
    /\ leaseCache' = lease
    /\ feed' = <<>>
    /\ UNCHANGED <<cr, lease, signalled, dupOf, lagged>>

Next ==
    \/ \E c \in Requests :
          \/ CreateRequest(c) \/ DeliverRequest(c) \/ StartReconcile(c)
          \/ LockNode(c) \/ CreateLease(c) \/ CreateLeaseFails(c)
          \/ HandleLockContention(c)
          \/ SendSignal(c) \/ SendSignalTransient(c) \/ SendSignalFails(c)
          \/ ReconcileFails(c) \/ NodeNotReady(c) \/ RebootEnds(c)
          \/ WriteStatus(c) \/ WriteStatusFails(c)
          \/ CheckUnlock(c) \/ DeleteLease(c) \/ DeleteLeaseFails(c)
    \/ DeliverLease
    \/ Crash

Spec == Init /\ [][Next]_vars

-----------------------------------------------------------------------------
(* Properties *)

\* Two requests never talk to the provider about the node at the same time,
\* unless a CheckUnlock or a status write went by a cache that lagged: the
\* lease that LockNode creates is given back by its owner alone.
MutualExclusion ==
    lagged \/ \A c, d \in Requests : c # d => ~(At(c, "work") /\ At(d, "work"))

\* From the signal of one request to its completion no other request works on
\* the node, over however many Reconcile calls and restarts the wait takes,
\* under the same proviso.
RebootExclusive ==
    lagged \/ \A c, d \in Requests : c # d /\ cr[c] = "sent" => ~At(d, "work")

\* handleRebootLockContention sets a request aside as a duplicate only in
\* favour of another request.
DuplicateOfAnother ==
    \A c \in Requests : dupOf[c] # c

\* A Reconcile call of the request is queued, running or about to be queued.
Attended(c) == queue[c] # {} \/ ~At(c, "idle") \/ seen[c] # cr[c]

\* No request is forgotten: whatever fails, one that has not completed, or has
\* completed and still holds the lease, has a Reconcile call ahead of it
\* (unless its CheckUnlock was shown an old lease and took it for released).
NeverForgotten ==
    \A c \in Requests :
        \/ Attended(c)
        \/ cr[c] = "absent"
        \/ cr[c] = "done" /\ (lease = c => lagged)

=============================================================================
