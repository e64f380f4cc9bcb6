--------------------------- MODULE NodeLockProofs ---------------------------
(***************************************************************************)
(* Proofs about the node lock for any requests and kinds, any number of    *)
(* faults and restarts, and whether or not timers outlast the informers'   *)
(* lag: types, and the two exclusion properties.                           *)
(***************************************************************************)
EXTENDS NodeLock, TLAPS

-----------------------------------------------------------------------------
(* Type correctness.                                                       *)

\* A task between two Reconcile calls is a task.
LEMMA IdleTyped == Idle \in Tasks
  BY DEF Tasks, Idle, Stages, Phases, Holders

\* Moving a task to another stage keeps its type.
LEMMA GotoTyped ==
  ASSUME TypeOK, NEW c \in Requests, NEW stage \in Stages, Goto(c, stage)
  PROVE  task' \in [Requests -> Tasks]
<1>1. [task[c] EXCEPT !.at = stage] \in Tasks
  BY DEF TypeOK, Tasks
<1>2. task' = [task EXCEPT ![c] = [task[c] EXCEPT !.at = stage]]
  BY DEF Goto
<1> QED
  BY <1>1, <1>2 DEF TypeOK

\* So does handing it a status to write.
LEMMA ToWriteTyped ==
  ASSUME TypeOK, NEW c \in Requests, NEW phase \in Phases, NEW holder \in Holders,
         ToWrite(c, phase, holder)
  PROVE  task' \in [Requests -> Tasks]
<1>1. [task[c] EXCEPT !.at = "write", !.want = phase, !.dup = holder] \in Tasks
  BY DEF TypeOK, Tasks, Stages
<1>2. task' = [task EXCEPT ![c] =
                 [task[c] EXCEPT !.at = "write", !.want = phase, !.dup = holder]]
  BY DEF ToWrite, TypeOK, Tasks
<1> QED
  BY <1>1, <1>2 DEF TypeOK

\* The return of a Reconcile call keeps the types of tasks and queues.
LEMMA ReturnTyped ==
  ASSUME TypeOK, NEW c \in Requests, NEW why \in SUBSET Reasons, Return(c, why)
  PROVE  task' \in [Requests -> Tasks] /\ queue' \in [Requests -> SUBSET Reasons]
  BY IdleTyped DEF Return, TypeOK

\* Creating, deleting or leaving the lease keeps the types of lease and feed.
LEMMA LeaseTyped ==
  ASSUME TypeOK, NEW holder \in Holders, SetLease(holder) \/ KeepLease
  PROVE  lease' \in Holders /\ feed' \in Seq(Holders)
  BY DEF TypeOK, SetLease, KeepLease

\* A fault is counted within its bound.
LEMMA FaultTyped == TypeOK /\ Fault => faults' \in 0..MaxFaults
  BY BoundsAssumption DEF TypeOK, Fault

\* A status update the API server accepts keeps the types of what it writes.
LEMMA PersistTyped ==
  ASSUME TypeOK, NEW c \in Requests, Persist(c)
  PROVE  /\ cr' \in [Requests -> Phases]
         /\ dupOf' \in [Requests -> Holders]
         /\ lagged' \in BOOLEAN
<1>1. task[c].want \in Phases /\ task[c].dup \in Holders
  BY DEF TypeOK, Tasks
<1>2. cr' \in [Requests -> Phases]
  BY <1>1 DEF TypeOK, Persist
<1>3. dupOf' \in [Requests -> Holders]
  BY <1>1 DEF TypeOK, Persist
<1>4. lagged' \in BOOLEAN
  BY Zenon DEF Persist
<1> QED
  BY <1>2, <1>3, <1>4

\* A janitor with nothing to do is well typed.
LEMMA TypeInit == Init => TypeOK
<1> SUFFICES ASSUME Init PROVE TypeOK
  OBVIOUS
<1>1. task \in [Requests -> Tasks]
  BY IdleTyped DEF Init
<1>2. feed \in Seq(Holders)
  BY DEF Init
<1>3. /\ cr \in [Requests -> Phases] /\ seen \in [Requests -> Phases]
      /\ queue \in [Requests -> SUBSET Reasons]
      /\ lease \in Holders /\ leaseCache \in Holders
      /\ signalled \subseteq Requests
      /\ dupOf \in [Requests -> Holders]
  BY DEF Init, Phases, Holders
<1>4. faults \in 0..MaxFaults
  BY BoundsAssumption DEF Init
<1>5. lagged \in BOOLEAN
  BY DEF Init
<1> QED
  BY <1>1, <1>2, <1>3, <1>4, <1>5 DEF TypeOK

\* Every step of Reconcile, the informers and the environment keeps the types.
LEMMA TypeStep == TypeOK /\ [Next]_vars => TypeOK'
<1> SUFFICES ASSUME TypeOK, [Next]_vars PROVE TypeOK'
  OBVIOUS
<1>1. ASSUME NEW c \in Requests, CreateRequest(c) PROVE TypeOK'
  BY <1>1 DEF CreateRequest, TypeOK, Phases
<1>2. ASSUME NEW c \in Requests, DeliverRequest(c) PROVE TypeOK'
  BY <1>2 DEF DeliverRequest, TypeOK, Reasons
<1>3. ASSUME NEW c \in Requests, StartReconcile(c) PROVE TypeOK'
  <2>1. [at |-> IF seen[c] = "done" THEN "unlock" ELSE "lock",
         read |-> seen[c], want |-> seen[c], dup |-> NoOne] \in Tasks
    BY DEF TypeOK, Tasks, Stages, Holders
  <2>2. task' \in [Requests -> Tasks]
    BY <1>3, <2>1 DEF StartReconcile, TypeOK
  <2>3. queue' \in [Requests -> SUBSET Reasons]
    BY <1>3 DEF StartReconcile, TypeOK
  <2> QED
    BY <1>3, <2>2, <2>3 DEF StartReconcile, TypeOK
<1>4. ASSUME NEW c \in Requests, LockNode(c) PROVE TypeOK'
  <2>1. task' \in [Requests -> Tasks]
    BY <1>4, GotoTyped DEF LockNode, Stages
  <2> QED
    BY <1>4, <2>1 DEF LockNode, TypeOK
<1>5. ASSUME NEW c \in Requests, CreateLease(c) PROVE TypeOK'
  <2>1. task' \in [Requests -> Tasks]
    BY <1>5, GotoTyped DEF CreateLease, Stages
  <2>2. lease' \in Holders /\ feed' \in Seq(Holders)
    BY <1>5, LeaseTyped DEF CreateLease, Holders
  <2> QED
    BY <1>5, <2>1, <2>2 DEF CreateLease, TypeOK
<1>6. ASSUME NEW c \in Requests, CreateLeaseFails(c) PROVE TypeOK'
  <2>1. task' \in [Requests -> Tasks]
    BY <1>6, GotoTyped DEF CreateLeaseFails, Stages
  <2>2. lease' \in Holders /\ feed' \in Seq(Holders)
    BY <1>6, LeaseTyped DEF CreateLeaseFails, Holders
  <2>3. faults' \in 0..MaxFaults
    BY <1>6, FaultTyped DEF CreateLeaseFails
  <2> QED
    BY <1>6, <2>1, <2>2, <2>3 DEF CreateLeaseFails, TypeOK
<1>7. ASSUME NEW c \in Requests, HandleLockContention(c) PROVE TypeOK'
  <2>1. "done" \in Phases /\ leaseCache \in Holders /\ {"timer"} \in SUBSET Reasons
    BY DEF TypeOK, Phases, Reasons
  <2>2. CASE ActiveHolder(c)
    <3>1. task' \in [Requests -> Tasks]
      BY <1>7, <2>1, <2>2, ToWriteTyped DEF HandleLockContention
    <3> QED
      BY <1>7, <2>2, <3>1 DEF HandleLockContention, TypeOK
  <2>3. CASE ~ActiveHolder(c)
    <3>1. task' \in [Requests -> Tasks] /\ queue' \in [Requests -> SUBSET Reasons]
      BY <1>7, <2>1, <2>3, ReturnTyped DEF HandleLockContention
    <3> QED
      BY <1>7, <3>1 DEF HandleLockContention, TypeOK
  <2> QED
    BY <2>2, <2>3
<1>8. ASSUME NEW c \in Requests, SendSignal(c) PROVE TypeOK'
  <2>1. task' \in [Requests -> Tasks]
    BY <1>8, ToWriteTyped DEF SendSignal, Phases, Holders
  <2> QED
    BY <1>8, <2>1 DEF SendSignal, TypeOK
<1>9. ASSUME NEW c \in Requests, SendSignalTransient(c) PROVE TypeOK'
  <2>1. "started" \in Phases /\ NoOne \in Holders /\ {"timer"} \in SUBSET Reasons
    BY DEF Phases, Holders, Reasons
  <2>2. faults' \in 0..MaxFaults
    BY <1>9, FaultTyped DEF SendSignalTransient
  <2>3. signalled' \subseteq Requests
    BY <1>9 DEF SendSignalTransient, TypeOK
  <2>4. CASE task[c].read = "new"
    <3>1. task' \in [Requests -> Tasks]
      BY <1>9, <2>1, <2>4, ToWriteTyped DEF SendSignalTransient
    <3> QED
      BY <1>9, <2>2, <2>3, <2>4, <3>1 DEF SendSignalTransient, TypeOK
  <2>5. CASE task[c].read # "new"
    <3>1. task' \in [Requests -> Tasks] /\ queue' \in [Requests -> SUBSET Reasons]
      BY <1>9, <2>1, <2>5, ReturnTyped DEF SendSignalTransient
    <3> QED
      BY <1>9, <2>2, <2>3, <3>1 DEF SendSignalTransient, TypeOK
  <2> QED
    BY <2>4, <2>5
<1>10. ASSUME NEW c \in Requests, SendSignalFails(c) PROVE TypeOK'
  <2>1. task' \in [Requests -> Tasks]
    BY <1>10, ToWriteTyped DEF SendSignalFails, Phases, Holders
  <2>2. faults' \in 0..MaxFaults
    BY <1>10, FaultTyped DEF SendSignalFails
  <2> QED
    BY <1>10, <2>1, <2>2 DEF SendSignalFails, TypeOK
<1>11. ASSUME NEW c \in Requests, ReconcileFails(c) PROVE TypeOK'
  <2>1. task' \in [Requests -> Tasks] /\ queue' \in [Requests -> SUBSET Reasons]
    BY <1>11, ReturnTyped DEF ReconcileFails, Reasons
  <2>2. faults' \in 0..MaxFaults
    BY <1>11, FaultTyped DEF ReconcileFails
  <2> QED
    BY <1>11, <2>1, <2>2 DEF ReconcileFails, TypeOK
<1>12. ASSUME NEW c \in Requests, NodeNotReady(c) PROVE TypeOK'
  <2>1. task' \in [Requests -> Tasks] /\ queue' \in [Requests -> SUBSET Reasons]
    BY <1>12, ReturnTyped DEF NodeNotReady, Reasons
  <2> QED
    BY <1>12, <2>1 DEF NodeNotReady, TypeOK
<1>13. ASSUME NEW c \in Requests, RebootEnds(c) PROVE TypeOK'
  <2>1. task' \in [Requests -> Tasks]
    BY <1>13, ToWriteTyped DEF RebootEnds, Phases, Holders
  <2> QED
    BY <1>13, <2>1 DEF RebootEnds, TypeOK
<1>14. ASSUME NEW c \in Requests, WriteStatus(c) PROVE TypeOK'
  <2>1. task' \in [Requests -> Tasks] /\ queue' \in [Requests -> SUBSET Reasons]
    <3> DEFINE why == (IF task[c].dup = NoOne THEN {"timer"} ELSE {}) \cup
                      (IF task[c].want = cr[c] THEN {"event"} ELSE {})
    <3>1. why \in SUBSET Reasons /\ {"retry"} \in SUBSET Reasons
      BY DEF Reasons
    <3>2. Return(c, why) \/ Return(c, {"retry"})
      BY <1>14 DEF WriteStatus
    <3> HIDE DEF why
    <3> QED
      BY <3>1, <3>2, ReturnTyped
  <2>2. cr' \in [Requests -> Phases] /\ dupOf' \in [Requests -> Holders] /\ lagged' \in BOOLEAN
    <3>1. CASE Persist(c)
      BY <3>1, PersistTyped
    <3>2. CASE UNCHANGED <<cr, dupOf, lagged>>
      BY <3>2 DEF TypeOK
    <3> QED
      BY <1>14, <3>1, <3>2 DEF WriteStatus
  <2> QED
    BY <1>14, <2>1, <2>2 DEF WriteStatus, TypeOK
<1>15. ASSUME NEW c \in Requests, WriteStatusFails(c) PROVE TypeOK'
  <2>1. task' \in [Requests -> Tasks] /\ queue' \in [Requests -> SUBSET Reasons]
    BY <1>15, ReturnTyped DEF WriteStatusFails, Reasons
  <2>2. cr' \in [Requests -> Phases] /\ dupOf' \in [Requests -> Holders] /\ lagged' \in BOOLEAN
    <3>1. CASE Persist(c)
      BY <3>1, PersistTyped
    <3>2. CASE UNCHANGED <<cr, dupOf, lagged>>
      BY <3>2 DEF TypeOK
    <3> QED
      BY <1>15, <3>1, <3>2 DEF WriteStatusFails
  <2>3. faults' \in 0..MaxFaults
    BY <1>15, FaultTyped DEF WriteStatusFails
  <2> QED
    BY <1>15, <2>1, <2>2, <2>3 DEF WriteStatusFails, TypeOK
<1>16. ASSUME NEW c \in Requests, CheckUnlock(c) PROVE TypeOK'
  <2>1. task' \in [Requests -> Tasks] /\ queue' \in [Requests -> SUBSET Reasons]
    <3>1. CASE leaseCache = c
      BY <1>16, <3>1, GotoTyped DEF CheckUnlock, Stages, TypeOK
    <3>2. CASE leaseCache # c
      BY <1>16, <3>2, ReturnTyped DEF CheckUnlock
    <3> QED
      BY <3>1, <3>2
  <2>2. lagged' \in BOOLEAN
    BY <1>16, Zenon DEF CheckUnlock
  <2> QED
    BY <1>16, <2>1, <2>2 DEF CheckUnlock, TypeOK
<1>17. ASSUME NEW c \in Requests, DeleteLease(c) PROVE TypeOK'
  <2>1. task' \in [Requests -> Tasks] /\ queue' \in [Requests -> SUBSET Reasons]
    BY <1>17, ReturnTyped DEF DeleteLease, Reasons
  <2>2. lease' \in Holders /\ feed' \in Seq(Holders)
    BY <1>17, LeaseTyped DEF DeleteLease, Holders
  <2> QED
    BY <1>17, <2>1, <2>2 DEF DeleteLease, TypeOK
<1>18. ASSUME NEW c \in Requests, DeleteLeaseFails(c) PROVE TypeOK'
  <2>1. task' \in [Requests -> Tasks] /\ queue' \in [Requests -> SUBSET Reasons]
    BY <1>18, ReturnTyped DEF DeleteLeaseFails, Reasons
  <2>2. faults' \in 0..MaxFaults
    BY <1>18, FaultTyped DEF DeleteLeaseFails
  <2>3. lease' \in Holders /\ feed' \in Seq(Holders)
    BY <1>18, LeaseTyped DEF DeleteLeaseFails, Holders
  <2> QED
    BY <1>18, <2>1, <2>2, <2>3 DEF DeleteLeaseFails, TypeOK
<1>19. CASE DeliverLease
  BY <1>19 DEF DeliverLease, TypeOK
<1>20. CASE Crash
  <2>1. task' \in [Requests -> Tasks]
    BY <1>20, IdleTyped DEF Crash
  <2>2. queue' \in [Requests -> SUBSET Reasons]
    BY <1>20 DEF Crash, Reasons
  <2>3. faults' \in 0..MaxFaults
    BY <1>20, FaultTyped DEF Crash
  <2>4. feed' \in Seq(Holders)
    BY <1>20 DEF Crash
  <2> QED
    BY <1>20, <2>1, <2>2, <2>3, <2>4 DEF Crash, TypeOK
<1>21. CASE UNCHANGED vars
  BY <1>21 DEF vars, TypeOK
<1> QED
  BY <1>1, <1>2, <1>3, <1>4, <1>5, <1>6, <1>7, <1>8, <1>9, <1>10, <1>11, <1>12,
     <1>13, <1>14, <1>15, <1>16, <1>17, <1>18, <1>19, <1>20, <1>21 DEF Next

\* Every variable keeps its type through all of Reconcile, its failures and
\* restarts.
THEOREM TypeCorrect == Spec => []TypeOK
<1>1. Init => TypeOK
  BY TypeInit
<1>2. TypeOK /\ [Next]_vars => TypeOK'
  BY TypeStep
<1> QED
  BY <1>1, <1>2, PTL DEF Spec

-----------------------------------------------------------------------------
(* Exclusion.  The inductive invariant, for as long as no unlock or status *)
(* write was decided by a stale read.                                      *)

\* Some lease version the cache shows or will show names the request.
Announced(c) == leaseCache = c \/ \E i \in DOMAIN feed : feed[i] = c

\* Work, the write that follows it, the wait for the reboot and the Delete all
\* happen under the lease.
UnderLease(c) ==
  \/ At(c, "work")
  \/ At(c, "write") /\ task[c].dup = NoOne
  \/ At(c, "delete")
  \/ cr[c] = "sent"

\* The branch of Reconcile agrees with the status it read, and a completion
\* that was delivered is never withdrawn.
BranchSound(c) ==
  /\ At(c, "write") /\ task[c].dup # NoOne => task[c].want = "done"
  /\ task[c].at \in {"lock", "create", "contend", "work", "write"} => task[c].read # "done"
  /\ task[c].at \in {"unlock", "delete"} => seen[c] = "done"
  /\ seen[c] = "done" => cr[c] = "done"

\* A cached lease that is gone belongs to a request that has completed and
\* will not take it for its own again.
CacheSound(c) ==
  Announced(c) => \/ lease = c
                  \/ seen[c] = "done" /\ task[c].at \in {"idle", "unlock", "delete"}

Sound(c) ==
  /\ UnderLease(c) => lease = c
  /\ BranchSound(c)
  /\ CacheSound(c)

LockInv == lagged \/ \A c \in Requests : Sound(c)

\* Setting the lease announces its new holder and nobody else.
LEMMA AnnouncedSet ==
  ASSUME TypeOK, NEW h \in Holders, NEW d, SetLease(h) \/ KeepLease,
         UNCHANGED leaseCache, Announced(d)'
  PROVE  Announced(d) \/ (d = h /\ lease' = h)
<1>1. CASE KeepLease
  BY <1>1 DEF Announced, KeepLease
<1>2. CASE SetLease(h)
  <2>1. feed' = Append(feed, h) /\ feed \in Seq(Holders)
    BY <1>2 DEF SetLease, TypeOK
  <2>2. \A i \in DOMAIN feed' : (i \in DOMAIN feed /\ feed'[i] = feed[i]) \/ feed'[i] = h
    BY <2>1
  <2> QED
    BY <1>2, <2>2 DEF Announced, SetLease
<1> QED
  BY <1>1, <1>2

\* Delivering a lease version announces nobody new.
LEMMA AnnouncedDelivered ==
  ASSUME TypeOK, NEW d, DeliverLease, Announced(d)'
  PROVE  Announced(d)
<1>1. feed \in Seq(Holders) /\ feed # <<>> /\ feed' = Tail(feed) /\ leaseCache' = Head(feed)
  BY DEF DeliverLease, TypeOK
<1>2. \A i \in DOMAIN feed' : i + 1 \in DOMAIN feed /\ feed'[i] = feed[i + 1]
  BY <1>1
<1>3. 1 \in DOMAIN feed /\ Head(feed) = feed[1]
  BY <1>1
<1> QED
  BY <1>1, <1>2, <1>3 DEF Announced

\* A step leaves a request sound when it touches neither its task nor its
\* status and does not take its lease away.
LEMMA StaySound ==
  ASSUME NEW d, Sound(d), task'[d] = task[d], cr'[d] = cr[d], seen'[d] = seen[d],
         lease = d => lease' = d,
         Announced(d)' => Announced(d) \/ lease' = d
  PROVE  Sound(d)'
<1>1. UnderLease(d)' => UnderLease(d)
  BY DEF UnderLease, At
<1>2. BranchSound(d)'
  BY DEF Sound, BranchSound, At
<1>3. CacheSound(d)'
  BY DEF Sound, CacheSound
<1> QED
  BY <1>1, <1>2, <1>3 DEF Sound

\* Initially nobody holds or uses the lease.
LEMMA LockInvInit == Init => LockInv
  BY RequestsAssumption DEF Init, LockInv, Sound, UnderLease, BranchSound, CacheSound,
     Announced, At, Idle

\* Every step keeps work under the lease and the cache sound.
LEMMA LockInvStep == TypeOK /\ LockInv /\ [Next]_vars => LockInv'
<1> SUFFICES ASSUME TypeOK, LockInv, [Next]_vars, ~lagged'
             PROVE  \A d \in Requests : Sound(d)'
  BY DEF LockInv
<1>a. ~lagged
  BY Zenon DEF Next, vars, CreateRequest, DeliverRequest, StartReconcile, LockNode,
     CreateLease, CreateLeaseFails, HandleLockContention, SendSignal,
     SendSignalTransient, SendSignalFails, ReconcileFails, NodeNotReady, RebootEnds,
     Persist, WriteStatus, WriteStatusFails, CheckUnlock, DeleteLease,
     DeleteLeaseFails, DeliverLease, Crash
<1>b. \A e \in Requests : Sound(e)
  BY <1>a DEF LockInv
<1>c. task \in [Requests -> Tasks] /\ cr \in [Requests -> Phases] /\ seen \in [Requests -> Phases]
  BY DEF TypeOK
<1>1. ASSUME NEW c \in Requests, CreateRequest(c), NEW d \in Requests PROVE Sound(d)'
  <2>1. CASE d # c
    BY <1>b, <1>c, <1>1, <2>1, StaySound DEF CreateRequest, Tasks, Announced
  <2>2. CASE d = c
    BY <1>b, <1>c, <1>1, <2>2 DEF CreateRequest, Tasks, Sound, UnderLease, BranchSound,
       CacheSound, Announced, At, Idle
  <2> QED
    BY <2>1, <2>2
<1>2. ASSUME NEW c \in Requests, DeliverRequest(c), NEW d \in Requests PROVE Sound(d)'
  <2>1. CASE d # c
    BY <1>b, <1>c, <1>2, <2>1, StaySound DEF DeliverRequest, Tasks, Announced
  <2>2. CASE d = c
    BY <1>b, <1>c, <1>2, <2>2 DEF DeliverRequest, Tasks, Sound, UnderLease, BranchSound,
       CacheSound, Announced, At, Idle
  <2> QED
    BY <2>1, <2>2
<1>3. ASSUME NEW c \in Requests, StartReconcile(c), NEW d \in Requests PROVE Sound(d)'
  <2>1. CASE d # c
    BY <1>b, <1>c, <1>3, <2>1, StaySound DEF StartReconcile, Tasks, Announced
  <2>2. CASE d = c
    BY <1>b, <1>c, <1>3, <2>2 DEF StartReconcile, Tasks, Sound, UnderLease, BranchSound,
       CacheSound, Announced, At, Idle
  <2> QED
    BY <2>1, <2>2
<1>4. ASSUME NEW c \in Requests, LockNode(c), NEW d \in Requests PROVE Sound(d)'
  <2>1. CASE d # c
    BY <1>b, <1>c, <1>4, <2>1, StaySound DEF LockNode, Goto, Tasks, Announced
  <2>2. CASE d = c
    BY <1>b, <1>c, <1>4, <2>2 DEF LockNode, Goto, Tasks, Sound, UnderLease, BranchSound,
       CacheSound, Announced, At, Idle
  <2> QED
    BY <2>1, <2>2
<1>5. ASSUME NEW c \in Requests, HandleLockContention(c), NEW d \in Requests PROVE Sound(d)'
  <2>1. CASE d # c
    BY <1>b, <1>c, <1>5, <2>1, StaySound DEF HandleLockContention, ActiveHolder, ToWrite, Return, Tasks, Announced
  <2>2. CASE d = c
    BY <1>b, <1>c, <1>5, <2>2 DEF HandleLockContention, ActiveHolder, ToWrite, Return, Tasks, Sound, UnderLease, BranchSound,
       CacheSound, Announced, At, Idle
  <2> QED
    BY <2>1, <2>2
<1>6. ASSUME NEW c \in Requests, SendSignal(c), NEW d \in Requests PROVE Sound(d)'
  <2>1. CASE d # c
    BY <1>b, <1>c, <1>6, <2>1, StaySound DEF SendSignal, ToWrite, Tasks, Announced
  <2>2. CASE d = c
    BY <1>b, <1>c, <1>6, <2>2 DEF SendSignal, ToWrite, Tasks, Sound, UnderLease, BranchSound,
       CacheSound, Announced, At, Idle
  <2> QED
    BY <2>1, <2>2
<1>7. ASSUME NEW c \in Requests, SendSignalTransient(c), NEW d \in Requests PROVE Sound(d)'
  <2>1. CASE d # c
    BY <1>b, <1>c, <1>7, <2>1, StaySound DEF SendSignalTransient, ToWrite, Return, Tasks, Announced
  <2>2. CASE d = c
    BY <1>b, <1>c, <1>7, <2>2 DEF SendSignalTransient, ToWrite, Return, Tasks, Sound, UnderLease, BranchSound,
       CacheSound, Announced, At, Idle
  <2> QED
    BY <2>1, <2>2
<1>8. ASSUME NEW c \in Requests, SendSignalFails(c), NEW d \in Requests PROVE Sound(d)'
  <2>1. CASE d # c
    BY <1>b, <1>c, <1>8, <2>1, StaySound DEF SendSignalFails, ToWrite, Tasks, Announced
  <2>2. CASE d = c
    BY <1>b, <1>c, <1>8, <2>2 DEF SendSignalFails, ToWrite, Tasks, Sound, UnderLease, BranchSound,
       CacheSound, Announced, At, Idle
  <2> QED
    BY <2>1, <2>2
<1>9. ASSUME NEW c \in Requests, ReconcileFails(c), NEW d \in Requests PROVE Sound(d)'
  <2>1. CASE d # c
    BY <1>b, <1>c, <1>9, <2>1, StaySound DEF ReconcileFails, Return, Tasks, Announced
  <2>2. CASE d = c
    BY <1>b, <1>c, <1>9, <2>2 DEF ReconcileFails, Return, Tasks, Sound, UnderLease, BranchSound,
       CacheSound, Announced, At, Idle
  <2> QED
    BY <2>1, <2>2
<1>10. ASSUME NEW c \in Requests, NodeNotReady(c), NEW d \in Requests PROVE Sound(d)'
  <2>1. CASE d # c
    BY <1>b, <1>c, <1>10, <2>1, StaySound DEF NodeNotReady, Return, Tasks, Announced
  <2>2. CASE d = c
    BY <1>b, <1>c, <1>10, <2>2 DEF NodeNotReady, Return, Tasks, Sound, UnderLease, BranchSound,
       CacheSound, Announced, At, Idle
  <2> QED
    BY <2>1, <2>2
<1>11. ASSUME NEW c \in Requests, RebootEnds(c), NEW d \in Requests PROVE Sound(d)'
  <2>1. CASE d # c
    BY <1>b, <1>c, <1>11, <2>1, StaySound DEF RebootEnds, ToWrite, Tasks, Announced
  <2>2. CASE d = c
    BY <1>b, <1>c, <1>11, <2>2 DEF RebootEnds, ToWrite, Tasks, Sound, UnderLease, BranchSound,
       CacheSound, Announced, At, Idle
  <2> QED
    BY <2>1, <2>2
<1>12. ASSUME NEW c \in Requests, WriteStatus(c), NEW d \in Requests PROVE Sound(d)'
  <2>1. CASE d # c
    BY <1>b, <1>c, <1>12, <2>1, StaySound DEF WriteStatus, Persist, Return, Tasks, Announced
  <2>2. CASE d = c /\ seen[c] = cr[c]
    <3>1. Persist(c) /\ At(c, "write")
      BY <1>12, <2>2 DEF WriteStatus
    <3>2. task[c].read = cr[c]
      BY <3>1, Zenon DEF Persist
    <3>3. cr'[c] = task[c].want /\ task'[c] = Idle /\ UNCHANGED <<seen, lease, leaseCache, feed>>
      BY <1>c, <1>12, <2>2 DEF WriteStatus, Persist, Return
    <3>4. Sound(c)
      BY <1>b
    <3>5. UnderLease(c)' => lease' = c
      BY <3>1, <3>3, <3>4 DEF Sound, UnderLease, BranchSound, At, Idle
    <3>6. BranchSound(c)'
      BY <2>2, <3>1, <3>2, <3>3, <3>4 DEF Sound, BranchSound, At, Idle
    <3>7. CacheSound(c)'
      BY <3>1, <3>3, <3>4 DEF Sound, CacheSound, Announced, At
    <3> QED
      BY <2>2, <3>5, <3>6, <3>7 DEF Sound
  <2>3. CASE d = c /\ seen[c] # cr[c]
    BY <1>b, <1>c, <1>12, <2>3 DEF WriteStatus, Return, Sound, UnderLease, BranchSound,
       CacheSound, Announced, At, Idle
  <2> QED
    BY <2>1, <2>2, <2>3
<1>13. ASSUME NEW c \in Requests, WriteStatusFails(c), NEW d \in Requests PROVE Sound(d)'
  <2>1. CASE d # c
    BY <1>b, <1>c, <1>13, <2>1, StaySound DEF WriteStatusFails, Persist, Return, Tasks, Announced
  <2>2. CASE d = c
    BY <1>b, <1>c, <1>13, <2>2 DEF WriteStatusFails, Persist, Return, Tasks, Sound, UnderLease, BranchSound,
       CacheSound, Announced, At, Idle
  <2> QED
    BY <2>1, <2>2
<1>14. ASSUME NEW c \in Requests, CheckUnlock(c), NEW d \in Requests PROVE Sound(d)'
  <2>1. CASE d # c
    BY <1>b, <1>c, <1>14, <2>1, StaySound DEF CheckUnlock, Goto, Return, Tasks, Announced
  <2>2. CASE d = c
    <3>1. leaseCache = c <=> lease = c
      BY <1>14, Zenon DEF CheckUnlock
    <3>2. At(c, "unlock") /\ UNCHANGED <<cr, seen, lease, leaseCache, feed>>
      BY <1>14 DEF CheckUnlock
    <3>3. task'[c].at = (IF leaseCache = c THEN "delete" ELSE "idle")
      BY <1>c, <1>14 DEF CheckUnlock, Goto, Return, Idle, Tasks
    <3>4. Sound(c)
      BY <1>b
    <3> QED
      BY <2>2, <3>1, <3>2, <3>3, <3>4 DEF Sound, UnderLease, BranchSound, CacheSound,
         Announced, At
  <2> QED
    BY <2>1, <2>2
<1>15. ASSUME NEW c \in Requests, CreateLease(c), NEW d \in Requests PROVE Sound(d)'
  <2>1. Announced(d)' => Announced(d) \/ (d = c /\ lease' = c)
    BY <1>15, AnnouncedSet DEF CreateLease, Holders
  <2>2. Sound(c) /\ Sound(d)
    BY <1>b
  <2>3. CASE d # c
    BY <1>c, <1>15, <2>1, <2>2, <2>3, StaySound, RequestsAssumption DEF CreateLease, Goto, KeepLease,
       SetLease, Sound, UnderLease, At
  <2>4. CASE d = c
    BY <1>c, <1>15, <2>1, <2>2, <2>4, RequestsAssumption DEF CreateLease, Goto, KeepLease, SetLease, Sound,
       UnderLease, BranchSound, CacheSound, At, Idle, Tasks
  <2> QED
    BY <2>3, <2>4
<1>16. ASSUME NEW c \in Requests, CreateLeaseFails(c), NEW d \in Requests PROVE Sound(d)'
  <2>1. Announced(d)' => Announced(d) \/ (d = c /\ lease' = c)
    BY <1>16, AnnouncedSet DEF CreateLeaseFails, Holders
  <2>2. Sound(c) /\ Sound(d)
    BY <1>b
  <2>3. CASE d # c
    BY <1>c, <1>16, <2>1, <2>2, <2>3, StaySound, RequestsAssumption DEF CreateLeaseFails, Goto, KeepLease,
       SetLease, Sound, UnderLease, At
  <2>4. CASE d = c
    BY <1>c, <1>16, <2>1, <2>2, <2>4, RequestsAssumption DEF CreateLeaseFails, Goto, KeepLease, SetLease, Sound,
       UnderLease, BranchSound, CacheSound, At, Idle, Tasks
  <2> QED
    BY <2>3, <2>4
<1>17. ASSUME NEW c \in Requests, DeleteLease(c), NEW d \in Requests PROVE Sound(d)'
  <2>1. Announced(d)' => Announced(d) \/ (d = NoOne /\ lease' = NoOne)
    BY <1>17, AnnouncedSet DEF DeleteLease, Holders
  <2>2. Sound(c) /\ Sound(d)
    BY <1>b
  <2>3. CASE d # c
    BY <1>c, <1>17, <2>1, <2>2, <2>3, StaySound, RequestsAssumption DEF DeleteLease, Return, KeepLease,
       SetLease, Sound, UnderLease, At
  <2>4. CASE d = c
    BY <1>c, <1>17, <2>1, <2>2, <2>4, RequestsAssumption DEF DeleteLease, Return, KeepLease, SetLease, Sound,
       UnderLease, BranchSound, CacheSound, At, Idle, Tasks
  <2> QED
    BY <2>3, <2>4
<1>18. ASSUME NEW c \in Requests, DeleteLeaseFails(c), NEW d \in Requests PROVE Sound(d)'
  <2>1. Announced(d)' => Announced(d) \/ (d = NoOne /\ lease' = NoOne)
    BY <1>18, AnnouncedSet DEF DeleteLeaseFails, Holders
  <2>2. Sound(c) /\ Sound(d)
    BY <1>b
  <2>3. CASE d # c
    BY <1>c, <1>18, <2>1, <2>2, <2>3, StaySound, RequestsAssumption DEF DeleteLeaseFails, Return, KeepLease,
       SetLease, Sound, UnderLease, At
  <2>4. CASE d = c
    BY <1>c, <1>18, <2>1, <2>2, <2>4, RequestsAssumption DEF DeleteLeaseFails, Return, KeepLease, SetLease, Sound,
       UnderLease, BranchSound, CacheSound, At, Idle, Tasks
  <2> QED
    BY <2>3, <2>4
<1>19. ASSUME DeliverLease, NEW d \in Requests PROVE Sound(d)'
  BY <1>b, <1>19, AnnouncedDelivered, StaySound DEF DeliverLease
<1>20. ASSUME Crash, NEW d \in Requests PROVE Sound(d)'
  BY <1>b, <1>c, <1>20 DEF Crash, Sound, UnderLease, BranchSound, CacheSound, Announced, At, Idle
<1>21. ASSUME UNCHANGED vars, NEW d \in Requests PROVE Sound(d)'
  BY <1>b, <1>21, StaySound DEF vars, Announced
<1> QED
  BY <1>1, <1>2, <1>3, <1>4, <1>5, <1>6, <1>7, <1>8, <1>9, <1>10, <1>11, <1>12,
     <1>13, <1>14, <1>15, <1>16, <1>17, <1>18, <1>19, <1>20, <1>21 DEF Next

\* The exclusion invariant holds in every reachable state.
LEMMA LockInvHolds == Spec => []LockInv
<1>1. Spec => []TypeOK
  BY TypeCorrect
<1>2. Init => LockInv
  BY LockInvInit
<1>3. TypeOK /\ LockInv /\ [Next]_vars => LockInv'
  BY LockInvStep
<1> QED
  BY <1>1, <1>2, <1>3, PTL DEF Spec

\* LockNode and CheckUnlock make the node's lease a lock: two requests work on
\* the node at once only after an unlock or a status write was decided by a
\* stale read.
THEOREM LockIsExclusive == Spec => []MutualExclusion
<1>1. LockInv => MutualExclusion
  BY DEF LockInv, MutualExclusion, Sound, UnderLease
<1> QED
  BY <1>1, LockInvHolds, PTL

\* The lock spans Reconcile calls and restarts: from a request's signal to its
\* completion no other request works on the node, under the same proviso.
THEOREM RebootIsExclusive == Spec => []RebootExclusive
<1>1. LockInv => RebootExclusive
  BY DEF LockInv, RebootExclusive, Sound, UnderLease
<1> QED
  BY <1>1, LockInvHolds, PTL

-----------------------------------------------------------------------------
(* No request is forgotten.                                                *)

\* What NeverForgotten says of one request, and what makes it inductive: the
\* unlocking branch runs for a completed request or has an event behind it, and
\* the informer knows no request that does not exist.
Remembered(c) ==
  \/ Attended(c)
  \/ cr[c] = "absent"
  \/ cr[c] = "done" /\ (lease = c => lagged)

UnlockSound(c) ==
  /\ task[c].at \in {"unlock", "delete"} => seen[c] = "done" \/ queue[c] # {}
  /\ At(c, "write") => task[c].want # "absent"
  /\ cr[c] = "absent" => seen[c] = "absent"

WakeInv == \A c \in Requests : Remembered(c) /\ UnlockSound(c)

\* A step of another request, which can free the lease and raise lagged but
\* not take the lease for this one.
LEMMA StayRemembered ==
  ASSUME NEW d, Remembered(d), UnlockSound(d), task'[d] = task[d], cr'[d] = cr[d],
         seen'[d] = seen[d], queue'[d] = queue[d], lease' = d => lease = d,
         lagged => lagged'
  PROVE  Remembered(d)' /\ UnlockSound(d)'
  BY DEF Remembered, UnlockSound, Attended, At

\* A Reconcile call that asks to be called again leaves its request attended.
LEMMA ReturnRemembered ==
  ASSUME TypeOK, NEW c \in Requests, NEW why \in SUBSET Reasons, why # {},
         Return(c, why), UnlockSound(c), UNCHANGED <<cr, seen>>
  PROVE  Remembered(c)' /\ UnlockSound(c)'
<1>1. queue'[c] # {} /\ task'[c].at = "idle"
  BY DEF TypeOK, Return, Idle
<1>2. Remembered(c)'
  BY <1>1, Zenon DEF Remembered, Attended
<1>3. UnlockSound(c)'
  BY <1>1 DEF UnlockSound, At
<1> QED
  BY <1>2, <1>3

\* Initially no request exists.
LEMMA WakeInvInit == Init => WakeInv
<1> SUFFICES ASSUME Init, NEW c \in Requests PROVE Remembered(c) /\ UnlockSound(c)
  BY DEF WakeInv
<1>1. cr[c] = "absent" /\ seen[c] = "absent" /\ task[c].at = "idle"
  BY DEF Init, Idle
<1>2. Remembered(c)
  BY <1>1, Zenon DEF Remembered
<1>3. UnlockSound(c)
  BY <1>1 DEF UnlockSound, At
<1> QED
  BY <1>2, <1>3

\* Every step leaves every request attended that needs to be.
LEMMA WakeInvStep == TypeOK /\ WakeInv /\ [Next]_vars => WakeInv'
<1> SUFFICES ASSUME TypeOK, WakeInv, [Next]_vars, NEW d \in Requests
             PROVE  Remembered(d)' /\ UnlockSound(d)'
  BY DEF WakeInv
<1>a. lagged => lagged'
  BY Zenon DEF Next, vars, CreateRequest, DeliverRequest, StartReconcile, LockNode,
     CreateLease, CreateLeaseFails, HandleLockContention, SendSignal,
     SendSignalTransient, SendSignalFails, ReconcileFails, NodeNotReady, RebootEnds,
     Persist, WriteStatus, WriteStatusFails, CheckUnlock, DeleteLease,
     DeleteLeaseFails, DeliverLease, Crash
<1>b. Remembered(d) /\ UnlockSound(d)
  BY DEF WakeInv
<1>c. /\ task \in [Requests -> Tasks] /\ cr \in [Requests -> Phases]
      /\ seen \in [Requests -> Phases] /\ queue \in [Requests -> SUBSET Reasons]
  BY DEF TypeOK
<1>1. ASSUME NEW c \in Requests, CreateRequest(c) PROVE Remembered(d)' /\ UnlockSound(d)'
  <2>1. CASE d # c
    BY <1>a, <1>b, <1>c, <1>1, <2>1, StayRemembered, RequestsAssumption DEF CreateRequest, Phases
  <2>2. CASE d = c
    BY <1>a, <1>b, <1>c, <1>1, <2>2, RequestsAssumption DEF CreateRequest, Phases, Remembered, UnlockSound,
       Attended, At, Idle, Tasks
  <2> QED
    BY <2>1, <2>2
<1>2. ASSUME NEW c \in Requests, DeliverRequest(c) PROVE Remembered(d)' /\ UnlockSound(d)'
  <2>1. CASE d # c
    BY <1>a, <1>b, <1>c, <1>2, <2>1, StayRemembered, RequestsAssumption DEF DeliverRequest, Phases
  <2>2. CASE d = c
    BY <1>a, <1>b, <1>c, <1>2, <2>2, RequestsAssumption DEF DeliverRequest, Phases, Remembered, UnlockSound,
       Attended, At, Idle, Tasks
  <2> QED
    BY <2>1, <2>2
<1>3. ASSUME NEW c \in Requests, StartReconcile(c) PROVE Remembered(d)' /\ UnlockSound(d)'
  <2>1. CASE d # c
    BY <1>a, <1>b, <1>c, <1>3, <2>1, StayRemembered, RequestsAssumption DEF StartReconcile, Reasons
  <2>2. CASE d = c
    BY <1>a, <1>b, <1>c, <1>3, <2>2, RequestsAssumption DEF StartReconcile, Reasons, Remembered, UnlockSound,
       Attended, At, Idle, Tasks
  <2> QED
    BY <2>1, <2>2
<1>4. ASSUME NEW c \in Requests, LockNode(c) PROVE Remembered(d)' /\ UnlockSound(d)'
  <2>1. CASE d # c
    BY <1>a, <1>b, <1>c, <1>4, <2>1, StayRemembered, RequestsAssumption DEF LockNode, Goto
  <2>2. CASE d = c
    BY <1>a, <1>b, <1>c, <1>4, <2>2, RequestsAssumption DEF LockNode, Goto, Remembered, UnlockSound,
       Attended, At, Idle, Tasks
  <2> QED
    BY <2>1, <2>2
<1>5. ASSUME NEW c \in Requests, CreateLease(c) PROVE Remembered(d)' /\ UnlockSound(d)'
  <2>1. CASE d # c
    BY <1>a, <1>b, <1>c, <1>5, <2>1, StayRemembered, RequestsAssumption DEF CreateLease, Goto, SetLease, KeepLease
  <2>2. CASE d = c
    BY <1>a, <1>b, <1>c, <1>5, <2>2, RequestsAssumption DEF CreateLease, Goto, SetLease, KeepLease, Remembered, UnlockSound,
       Attended, At, Idle, Tasks
  <2> QED
    BY <2>1, <2>2
<1>6. ASSUME NEW c \in Requests, CreateLeaseFails(c) PROVE Remembered(d)' /\ UnlockSound(d)'
  <2>1. CASE d # c
    BY <1>a, <1>b, <1>c, <1>6, <2>1, StayRemembered, RequestsAssumption DEF CreateLeaseFails, Goto, SetLease, KeepLease
  <2>2. CASE d = c
    BY <1>a, <1>b, <1>c, <1>6, <2>2, RequestsAssumption DEF CreateLeaseFails, Goto, SetLease, KeepLease, Remembered, UnlockSound,
       Attended, At, Idle, Tasks
  <2> QED
    BY <2>1, <2>2
<1>7. ASSUME NEW c \in Requests, HandleLockContention(c) PROVE Remembered(d)' /\ UnlockSound(d)'
  <2>1. CASE d # c
    BY <1>a, <1>b, <1>c, <1>7, <2>1, StayRemembered, RequestsAssumption DEF HandleLockContention, ToWrite, Return
  <2>2. CASE d = c /\ ActiveHolder(c)
    BY <1>b, <1>c, <1>7, <2>2 DEF HandleLockContention, ToWrite, Remembered, UnlockSound, Attended, At, Idle, Tasks
  <2>3. CASE d = c /\ ~ActiveHolder(c)
    BY <1>b, <1>7, <2>3, ReturnRemembered DEF HandleLockContention, Reasons
  <2> QED
    BY <2>1, <2>2, <2>3
<1>8. ASSUME NEW c \in Requests, SendSignal(c) PROVE Remembered(d)' /\ UnlockSound(d)'
  <2>1. CASE d # c
    BY <1>a, <1>b, <1>c, <1>8, <2>1, StayRemembered, RequestsAssumption DEF SendSignal, ToWrite
  <2>2. CASE d = c
    BY <1>a, <1>b, <1>c, <1>8, <2>2, RequestsAssumption DEF SendSignal, ToWrite, Remembered, UnlockSound,
       Attended, At, Idle, Tasks
  <2> QED
    BY <2>1, <2>2
<1>9. ASSUME NEW c \in Requests, SendSignalTransient(c) PROVE Remembered(d)' /\ UnlockSound(d)'
  <2>1. CASE d # c
    BY <1>a, <1>b, <1>c, <1>9, <2>1, StayRemembered, RequestsAssumption DEF SendSignalTransient, ToWrite, Return
  <2>2. CASE d = c /\ task[c].read = "new"
    BY <1>b, <1>c, <1>9, <2>2 DEF SendSignalTransient, ToWrite, Remembered, UnlockSound, Attended, At, Idle, Tasks
  <2>3. CASE d = c /\ task[c].read # "new"
    BY <1>b, <1>9, <2>3, ReturnRemembered DEF SendSignalTransient, Reasons
  <2> QED
    BY <2>1, <2>2, <2>3
<1>10. ASSUME NEW c \in Requests, SendSignalFails(c) PROVE Remembered(d)' /\ UnlockSound(d)'
  <2>1. CASE d # c
    BY <1>a, <1>b, <1>c, <1>10, <2>1, StayRemembered, RequestsAssumption DEF SendSignalFails, ToWrite
  <2>2. CASE d = c
    BY <1>a, <1>b, <1>c, <1>10, <2>2, RequestsAssumption DEF SendSignalFails, ToWrite, Remembered, UnlockSound,
       Attended, At, Idle, Tasks
  <2> QED
    BY <2>1, <2>2
<1>11. ASSUME NEW c \in Requests, ReconcileFails(c) PROVE Remembered(d)' /\ UnlockSound(d)'
  <2>1. CASE d # c
    BY <1>a, <1>b, <1>c, <1>11, <2>1, StayRemembered, RequestsAssumption DEF ReconcileFails, Return
  <2>2. CASE d = c
    BY <1>a, <1>b, <1>c, <1>11, <2>2, RequestsAssumption DEF ReconcileFails, Return, Remembered, UnlockSound,
       Attended, At, Idle, Tasks
  <2> QED
    BY <2>1, <2>2
<1>12. ASSUME NEW c \in Requests, NodeNotReady(c) PROVE Remembered(d)' /\ UnlockSound(d)'
  <2>1. CASE d # c
    BY <1>a, <1>b, <1>c, <1>12, <2>1, StayRemembered, RequestsAssumption DEF NodeNotReady, Return
  <2>2. CASE d = c
    BY <1>a, <1>b, <1>c, <1>12, <2>2, RequestsAssumption DEF NodeNotReady, Return, Remembered, UnlockSound,
       Attended, At, Idle, Tasks
  <2> QED
    BY <2>1, <2>2
<1>13. ASSUME NEW c \in Requests, RebootEnds(c) PROVE Remembered(d)' /\ UnlockSound(d)'
  <2>1. CASE d # c
    BY <1>a, <1>b, <1>c, <1>13, <2>1, StayRemembered, RequestsAssumption DEF RebootEnds, ToWrite
  <2>2. CASE d = c
    BY <1>a, <1>b, <1>c, <1>13, <2>2, RequestsAssumption DEF RebootEnds, ToWrite, Remembered, UnlockSound,
       Attended, At, Idle, Tasks
  <2> QED
    BY <2>1, <2>2
<1>14. ASSUME NEW c \in Requests, WriteStatus(c) PROVE Remembered(d)' /\ UnlockSound(d)'
  <2>1. CASE d # c
    BY <1>a, <1>b, <1>c, <1>14, <2>1, StayRemembered, RequestsAssumption DEF WriteStatus, Persist, Return
  <2>2. CASE d = c /\ seen[c] = cr[c]
    <3>1. cr'[c] = task[c].want /\ task[c].want # "absent" /\ UNCHANGED seen
      BY <1>b, <1>c, <1>14, <2>2 DEF WriteStatus, Persist, UnlockSound
    <3>2. task'[c].at = "idle"
      BY <1>c, <1>14, <2>2 DEF WriteStatus, Return, Idle
    <3>3. task[c].want = cr[c] => queue'[c] # {}
      BY <1>c, <1>14, <2>2 DEF WriteStatus, Return
    <3>4. Attended(c)'
      BY <2>2, <3>1, <3>3 DEF Attended
    <3>5. UnlockSound(c)'
      BY <3>1, <3>2 DEF UnlockSound, At
    <3> QED
      BY <2>2, <3>4, <3>5 DEF Remembered
  <2>3. CASE d = c /\ seen[c] # cr[c]
    BY <1>b, <1>c, <1>14, <2>3 DEF WriteStatus, Return, Remembered, UnlockSound, Attended, At, Idle, Tasks
  <2> QED
    BY <2>1, <2>2, <2>3
<1>15. ASSUME NEW c \in Requests, WriteStatusFails(c) PROVE Remembered(d)' /\ UnlockSound(d)'
  <2>1. CASE d # c
    BY <1>a, <1>b, <1>c, <1>15, <2>1, StayRemembered, RequestsAssumption DEF WriteStatusFails, Persist, Return
  <2>2. CASE d = c
    BY <1>a, <1>b, <1>c, <1>15, <2>2, RequestsAssumption DEF WriteStatusFails, Persist, Return, Remembered, UnlockSound,
       Attended, At, Idle, Tasks
  <2> QED
    BY <2>1, <2>2
<1>16. ASSUME NEW c \in Requests, CheckUnlock(c) PROVE Remembered(d)' /\ UnlockSound(d)'
  <2>1. CASE d # c
    BY <1>a, <1>b, <1>c, <1>16, <2>1, StayRemembered, RequestsAssumption DEF CheckUnlock, Goto, Return
  <2>2. CASE d = c /\ leaseCache = c
    BY <1>b, <1>c, <1>16, <2>2 DEF CheckUnlock, Goto, Remembered, UnlockSound, Attended, At, Idle, Tasks
  <2>3. CASE d = c /\ leaseCache # c
    <3>1. task'[c].at = "idle" /\ queue'[c] = queue[c] /\ UNCHANGED <<cr, seen, lease>>
      BY <1>c, <1>16, <2>3 DEF CheckUnlock, Return, Idle
    <3>2. lease' = c => lagged'
      BY <1>16, <2>3, Zenon DEF CheckUnlock
    <3>3. seen[c] = "done" \/ queue[c] # {}
      BY <1>16, <1>b, <2>3 DEF CheckUnlock, UnlockSound, At
    <3>4. Remembered(c)'
      BY <3>1, <3>2, <3>3 DEF Remembered, Attended
    <3>5. UnlockSound(c)'
      BY <1>b, <2>3, <3>1 DEF UnlockSound, At
    <3> QED
      BY <2>3, <3>4, <3>5
  <2> QED
    BY <2>1, <2>2, <2>3
<1>17. ASSUME NEW c \in Requests, DeleteLease(c) PROVE Remembered(d)' /\ UnlockSound(d)'
  <2>1. CASE d # c
    BY <1>a, <1>b, <1>c, <1>17, <2>1, StayRemembered, RequestsAssumption DEF DeleteLease, SetLease, KeepLease, Return
  <2>2. CASE d = c
    BY <1>a, <1>b, <1>c, <1>17, <2>2, RequestsAssumption DEF DeleteLease, SetLease, KeepLease, Return, Remembered, UnlockSound,
       Attended, At, Idle, Tasks
  <2> QED
    BY <2>1, <2>2
<1>18. ASSUME NEW c \in Requests, DeleteLeaseFails(c) PROVE Remembered(d)' /\ UnlockSound(d)'
  <2>1. CASE d # c
    BY <1>a, <1>b, <1>c, <1>18, <2>1, StayRemembered, RequestsAssumption DEF DeleteLeaseFails, SetLease, KeepLease, Return
  <2>2. CASE d = c
    BY <1>a, <1>b, <1>c, <1>18, <2>2, RequestsAssumption DEF DeleteLeaseFails, SetLease, KeepLease, Return, Remembered, UnlockSound,
       Attended, At, Idle, Tasks
  <2> QED
    BY <2>1, <2>2
<1>19. CASE DeliverLease
  BY <1>a, <1>b, <1>19, StayRemembered DEF DeliverLease
<1>20. CASE Crash
  BY <1>c, <1>20 DEF Crash, Remembered, UnlockSound, Attended, At, Idle
<1>21. CASE UNCHANGED vars
  BY <1>b, <1>21, StayRemembered DEF vars
<1> QED
  BY <1>1, <1>2, <1>3, <1>4, <1>5, <1>6, <1>7, <1>8, <1>9, <1>10, <1>11, <1>12,
     <1>13, <1>14, <1>15, <1>16, <1>17, <1>18, <1>19, <1>20, <1>21 DEF Next

\* Whatever calls fail and however often the janitor restarts, Reconcile and
\* its work queue leave no open request, and no completed one that still holds
\* the lease, without a further Reconcile call.
THEOREM NothingForgotten == Spec => []NeverForgotten
<1>1. Spec => []TypeOK
  BY TypeCorrect
<1>2. Init => WakeInv
  BY WakeInvInit
<1>3. TypeOK /\ WakeInv /\ [Next]_vars => WakeInv'
  BY WakeInvStep
<1>4. WakeInv => NeverForgotten
  BY DEF WakeInv, Remembered, NeverForgotten
<1> QED
  BY <1>1, <1>2, <1>3, <1>4, PTL DEF Spec

=============================================================================
