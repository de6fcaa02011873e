------------------------ MODULE RunLifecycleProofs ------------------------
(* Theorems about RunLifecycle, for every value of its constants. *)
EXTENDS RunLifecycle, TLAPS

(* A thread past its INSERT knows the id of a row that has a key.          *)
Located ==
  \A r \in Requests : pc[r] \notin {"unsent", "done"} =>
    rid[r] \in Ids /\ keyOf[rid[r]] \in Keys

Typed == StateOK /\ Located

LEMMA InitTyped == Init => Typed
  BY LifecycleAssumption DEF Init, Typed, StateOK, Located, Statuses, Files, PCs

(* A step of create_run preserves the types.                               *)
LEMMA PostTyped ==
  ASSUME Typed, NEW r \in Requests, NEW k \in Keys, Post(r, k)
  PROVE  Typed'
<1>1. CASE \E i \in Ids : /\ Exists(i) /\ keyOf[i] = k
                          /\ rid' = [rid EXCEPT ![r] = i]
                          /\ UNCHANGED <<rows, created>>
  BY <1>1 DEF Typed, StateOK, Located, Post, At, Goto, PCs, rows, prune
<1>2. CASE /\ \E i \in Ids : /\ status[i] = "unused"
                             /\ status'  = [status EXCEPT ![i] = "queued"]
                             /\ keyOf'   = [keyOf EXCEPT ![i] = k]
                             /\ rid'     = [rid EXCEPT ![r] = i]
                             /\ created' = [created EXCEPT ![r] = TRUE]
           /\ UNCHANGED receipt
  BY <1>2 DEF Typed, StateOK, Located, Post, At, Goto, PCs, Statuses, prune
<1> QED BY <1>1, <1>2 DEF Post

LEMMA HandlerTyped ==
  ASSUME Typed, NEW r \in Requests, HandlerStep(r)
  PROVE  Typed'
<1> USE DEF Typed, StateOK, Located, At, Goto, PCs, rows, prune
<1>1. CASE Lookup(r)     BY <1>1 DEF Lookup
<1>2. CASE Verify(r)     BY <1>2 DEF Verify
<1>3. CASE Condemn(r)    BY <1>3 DEF Condemn, FailRun, SetRow, Statuses
<1>4. CASE Reread(r)     BY <1>4 DEF Reread
<1>5. CASE QueueRetry(r) BY <1>5 DEF QueueRetry, SetRow, Statuses
<1>6. CASE Dispatch(r)   BY <1>6 DEF Dispatch
<1> QED BY <1>1, <1>2, <1>3, <1>4, <1>5, <1>6 DEF HandlerStep

(* A step of the background task preserves the types.                      *)
LEMMA TaskTyped ==
  ASSUME Typed, NEW r \in Requests, TaskStep(r)
  PROVE  Typed'
<1> USE DEF Typed, StateOK, Located, At, Goto, PCs, rows, prune
<1>1. CASE StartRun(r)     BY <1>1 DEF StartRun, SetRow, Statuses
<1>2. CASE Acquire(r)      BY <1>2 DEF Acquire
<1>3. CASE Render(r)
  <2>1. rid[r] \in Ids /\ keyOf[rid[r]] \in Keys BY <1>3 DEF Render
  <2>2. Renders[keyOf[rid[r]]] \subseteq Assets BY <2>1, LifecycleAssumption
  <2> QED BY <1>3, <2>2 DEF Render, Files
<1>4. CASE RenderRaises(r) BY <1>4 DEF RenderRaises, Release, Files
<1>5. CASE CompleteRun(r)  BY <1>5 DEF CompleteRun, SetRow, Release, Statuses
<1>6. CASE Fail(r)         BY <1>6 DEF Fail, FailRun, SetRow, Statuses
<1>7. CASE PruneSelect(r)
  <2>1. ASSUME NEW V \in SUBSET Prunable(r)
        PROVE  /\ V \subseteq Ids
               /\ {receipt[i] : i \in {v \in V : receipt[v] # Nil}} \subseteq Assets
    BY DEF Prunable
  <2> QED BY <1>7, <2>1 DEF PruneSelect
<1>8. CASE PruneDelete(r)
  <2>1. doomed' \subseteq doomed /\ victims' = {} BY <1>8 DEF PruneDelete
  <2>2. status' \in [Ids -> Statuses] /\ receipt' \in [Ids -> Assets \cup {Nil}]
    BY <1>8 DEF PruneDelete, Statuses
  <2> QED BY <1>8, <2>1, <2>2 DEF PruneDelete
<1>9. CASE PruneUnlink(r)
  <2>1. file' \in [Assets -> Files] BY <1>9 DEF PruneUnlink, Files
  <2> QED BY <1>9, <2>1 DEF PruneUnlink, Release
<1> QED
  BY <1>1, <1>2, <1>3, <1>4, <1>5, <1>6, <1>7, <1>8, <1>9 DEF TaskStep

LEMMA RestartTyped == ASSUME Typed, Restart PROVE Typed'
<1>1. status' \in [Ids -> Statuses]
  BY DEF Restart, Typed, StateOK, Statuses
<1>2. receipt' \in [Ids -> Assets \cup {Nil}]
  BY DEF Restart, Typed, StateOK
<1> QED BY <1>1, <1>2 DEF Restart, Typed, StateOK, Located, local, prune

LEMMA NextTyped == Typed /\ [Next]_vars => Typed'
<1> SUFFICES ASSUME Typed, [Next]_vars PROVE Typed'
  OBVIOUS
<1>1. CASE \E r \in Requests, k \in Keys : Post(r, k) BY <1>1, PostTyped
<1>2. CASE \E r \in Requests : HandlerStep(r)         BY <1>2, HandlerTyped
<1>3. CASE \E r \in Requests : TaskStep(r)            BY <1>3, TaskTyped
<1>4. CASE Crash
  BY <1>4 DEF Crash, Typed, StateOK, Located, PCs, rows
<1>5. CASE Restart                                    BY <1>5, RestartTyped
<1>6. CASE \E a \in Assets : Corrupt(a)
  BY <1>6 DEF Corrupt, Typed, StateOK, Located, Files, rows, local, prune
<1>7. CASE UNCHANGED vars
  BY <1>7 DEF vars, rows, local, prune, Typed, StateOK, Located
<1> QED BY <1>1, <1>2, <1>3, <1>4, <1>5, <1>6, <1>7 DEF Next

(* Every request works on the row it found, in every reachable state.      *)
LEMMA AlwaysTyped == Spec => []Typed
  BY InitTyped, NextTyped, PTL DEF Spec

(* The lock is nobody's or a request's.                                    *)
LEMMA NextLock ==
  lock \in Requests \cup {Nil} /\ [Next]_vars => (lock \in Requests \cup {Nil})'
  BY DEF Next, Post, HandlerStep, Lookup, Verify, Condemn, Reread, QueueRetry,
         Dispatch, TaskStep, StartRun, Acquire, Render, RenderRaises, CompleteRun,
         Fail, PruneSelect, PruneDelete, PruneUnlink, Release, Crash, Restart,
         Corrupt, vars

(* Every variable keeps its type, in create_run, process, prune_demo_runs  *)
(* and recovery alike.                                                     *)
THEOREM TypeCorrect == Spec => []TypeOK
<1>1. Init => lock \in Requests \cup {Nil} BY DEF Init
<1> QED BY <1>1, NextLock, AlwaysTyped, PTL DEF Spec, Typed, TypeOK

---------------------------------------------------------------------------
(* No run is stranded.  QueuedIsOwed and RunningHasExecutor are inductive  *)
(* together with the types: a step that puts a row in the queue leaves its *)
(* request owing it, and a step that drops a debt or ends an execution     *)
(* finds the row in neither state or moves it on.                          *)
Attended == QueuedIsOwed /\ RunningHasExecutor

(* What a step by request r must do for the runs it may touch.  Other      *)
(* requests keep their locals, so they go on owing and executing.          *)
LEMMA AttendedStep ==
  ASSUME Typed, Attended, up, NEW r \in Requests,
         \A s \in Requests \ {r} :
           /\ pc'[s] = pc[s] /\ rid'[s] = rid[s]
           /\ created'[s] = created[s] /\ retried'[s] = retried[s],
         \A i \in Ids : status'[i] = "queued" =>
           \/ Owes(r, i)'
           \/ status[i] = "queued" /\ ~Owes(r, i),
         \A i \in Ids : status'[i] = "running" =>
           \/ Executes(r, i)'
           \/ status[i] = "running" /\ ~Executes(r, i)
  PROVE  Attended'
<1>1. ASSUME NEW i \in Ids, status'[i] = "queued"
      PROVE  \E s \in Requests : Owes(s, i)'
  <2>1. CASE Owes(r, i)' BY <2>1
  <2>2. CASE status[i] = "queued" /\ ~Owes(r, i)
    <3>1. PICK s \in Requests : Owes(s, i) BY <2>2 DEF Attended, QueuedIsOwed
    <3>2. s # r BY <2>2, <3>1
    <3> QED BY <3>1, <3>2 DEF Owes
  <2> QED BY <1>1, <2>1, <2>2
<1>2. ASSUME NEW i \in Ids, status'[i] = "running"
      PROVE  \E s \in Requests : Executes(s, i)'
  <2>1. CASE Executes(r, i)' BY <2>1
  <2>2. CASE status[i] = "running" /\ ~Executes(r, i)
    <3>1. PICK s \in Requests : Executes(s, i)
      BY <2>2 DEF Attended, RunningHasExecutor
    <3>2. s # r BY <2>2, <3>1
    <3> QED BY <3>1, <3>2 DEF Executes
  <2> QED BY <1>2, <2>1, <2>2
<1> QED BY <1>1, <1>2 DEF Attended, QueuedIsOwed, RunningHasExecutor

LEMMA PostAttended ==
  ASSUME Typed, Attended, NEW r \in Requests, NEW k \in Keys, Post(r, k)
  PROVE  Attended'
<1> USE DEF Typed, StateOK, Located, At, Goto, Owes, Executes
<1>1. CASE \E i \in Ids : /\ Exists(i) /\ keyOf[i] = k
                          /\ rid' = [rid EXCEPT ![r] = i]
                          /\ UNCHANGED <<rows, created>>
  BY <1>1, AttendedStep DEF Post, rows
<1>2. CASE /\ \E i \in Ids : /\ status[i] = "unused"
                             /\ status'  = [status EXCEPT ![i] = "queued"]
                             /\ keyOf'   = [keyOf EXCEPT ![i] = k]
                             /\ rid'     = [rid EXCEPT ![r] = i]
                             /\ created' = [created EXCEPT ![r] = TRUE]
           /\ UNCHANGED receipt
  <2>1. PICK j \in Ids : /\ status[j] = "unused"
                         /\ status'  = [status EXCEPT ![j] = "queued"]
                         /\ rid'     = [rid EXCEPT ![r] = j]
                         /\ created' = [created EXCEPT ![r] = TRUE]
    BY <1>2
  <2>2. /\ up /\ pc[r] = "unsent" /\ pc' = [pc EXCEPT ![r] = "lookup"]
        /\ retried' = retried
    BY DEF Post
  <2>3. ASSUME NEW i \in Ids, status'[i] = "queued"
        PROVE  Owes(r, i)' \/ (status[i] = "queued" /\ ~Owes(r, i))
    BY <2>1, <2>2, <2>3
  <2>4. ASSUME NEW i \in Ids, status'[i] = "running"
        PROVE  status[i] = "running" /\ ~Executes(r, i)
    BY <2>1, <2>2, <2>4
  <2> QED BY <2>1, <2>2, <2>3, <2>4, AttendedStep
<1> QED BY <1>1, <1>2 DEF Post

LEMMA HandlerAttended ==
  ASSUME Typed, Attended, NEW r \in Requests, HandlerStep(r)
  PROVE  Attended'
<1> USE DEF Typed, StateOK, Located, At, Goto, Owes, Executes, rows
<1>1. CASE Lookup(r)     BY <1>1, AttendedStep DEF Lookup
<1>2. CASE Verify(r)     BY <1>2, AttendedStep DEF Verify
<1>3. CASE Condemn(r)    BY <1>3, AttendedStep DEF Condemn, FailRun, SetRow
<1>4. CASE Reread(r)     BY <1>4, AttendedStep DEF Reread
<1>5. CASE QueueRetry(r) BY <1>5, AttendedStep DEF QueueRetry, SetRow
<1>6. CASE Dispatch(r)   BY <1>6, AttendedStep DEF Dispatch, Exists
<1> QED BY <1>1, <1>2, <1>3, <1>4, <1>5, <1>6 DEF HandlerStep

LEMMA TaskAttended ==
  ASSUME Typed, Attended, NEW r \in Requests, TaskStep(r)
  PROVE  Attended'
<1> USE DEF Typed, StateOK, Located, At, Goto, Owes, Executes, rows
<1>1. CASE StartRun(r)     BY <1>1, AttendedStep DEF StartRun, SetRow
<1>2. CASE Acquire(r)      BY <1>2, AttendedStep DEF Acquire
<1>3. CASE Render(r)       BY <1>3, AttendedStep DEF Render
<1>4. CASE RenderRaises(r) BY <1>4, AttendedStep DEF RenderRaises
<1>5. CASE CompleteRun(r)  BY <1>5, AttendedStep DEF CompleteRun, SetRow
<1>6. CASE Fail(r)         BY <1>6, AttendedStep DEF Fail, FailRun, SetRow, Exists
<1>7. CASE PruneSelect(r)  BY <1>7, AttendedStep DEF PruneSelect
<1>8. CASE PruneDelete(r)  BY <1>8, AttendedStep DEF PruneDelete
<1>9. CASE PruneUnlink(r)  BY <1>9, AttendedStep DEF PruneUnlink
<1> QED
  BY <1>1, <1>2, <1>3, <1>4, <1>5, <1>6, <1>7, <1>8, <1>9 DEF TaskStep

LEMMA NextAttended == Typed /\ Attended /\ [Next]_vars => Attended'
<1> SUFFICES ASSUME Typed, Attended, [Next]_vars PROVE Attended'
  OBVIOUS
<1>1. CASE \E r \in Requests, k \in Keys : Post(r, k) BY <1>1, PostAttended
<1>2. CASE \E r \in Requests : HandlerStep(r)         BY <1>2, HandlerAttended
<1>3. CASE \E r \in Requests : TaskStep(r)            BY <1>3, TaskAttended
<1>4. CASE Crash
  BY <1>4 DEF Crash, Attended, QueuedIsOwed, RunningHasExecutor
<1>5. CASE Restart
  <2>1. \A i \in Ids : ~Active(i)' BY <1>5 DEF Restart, Active
  <2> QED BY <2>1 DEF Active, Attended, QueuedIsOwed, RunningHasExecutor
<1>6. CASE \E a \in Assets : Corrupt(a)
  BY <1>6 DEF Corrupt, Attended, QueuedIsOwed, RunningHasExecutor,
              Owes, Executes, rows, local
<1>7. CASE UNCHANGED vars
  BY <1>7 DEF vars, rows, local, Attended, QueuedIsOwed, RunningHasExecutor,
              Owes, Executes
<1> QED BY <1>1, <1>2, <1>3, <1>4, <1>5, <1>6, <1>7 DEF Next

LEMMA InitAttended == Init => Attended
  BY DEF Init, Attended, QueuedIsOwed, RunningHasExecutor

(* A queued run always has a request that will dispatch it, however many   *)
(* clients post, retry and condemn the same key at once (create_run).      *)
THEOREM NoQueuedRunIsStranded == Spec => []QueuedIsOwed
<1>1. Spec => []Attended
  BY InitAttended, NextAttended, AlwaysTyped, PTL DEF Spec
<1> QED BY <1>1, PTL DEF Attended

(* A running run always has a task that will store its outcome (process).  *)
THEOREM NoRunningRunIsStranded == Spec => []RunningHasExecutor
<1>1. Spec => []Attended
  BY InitAttended, NextAttended, AlwaysTyped, PTL DEF Spec
<1> QED BY <1>1, PTL DEF Attended

---------------------------------------------------------------------------
(* Completed runs keep their file.  The argument is the custody of files:  *)
(* the only step that removes one is the unlink of a pruning thread, which *)
(* holds artifact_lock from its SELECT on; a demo run holds the lock from  *)
(* before its file is written until its receipt is stored; and a live run, *)
(* which takes no lock, writes names no demo row ever had.                 *)
KnownRow ==
  /\ \A r \in Requests :
       pc[r] \notin {"unsent", "done"} => status[rid[r]] # "unused"
  /\ \A i \in Ids : status[i] = "unused" => receipt[i] = Nil

LockHeld ==
  \A r \in Requests :
    \/ pc[r] \in {"delete", "unlink"}
    \/ pc[r] \in {"render", "complete"} /\ IsDemo(rid[r])
    => lock = r

ReceiptIsOwn ==
  \A i \in Ids : receipt[i] # Nil =>
    keyOf[i] \in Keys /\ receipt[i] \in Renders[keyOf[i]]

HeldIsOnDisk ==
  \A r \in Requests : pc[r] = "complete" =>
    /\ held[r] \in Assets
    /\ held[r] \in Renders[keyOf[rid[r]]]
    /\ file[held[r]] # "missing"

DoomedIsDemo == \A a \in doomed : \E d \in DemoKeys : a \in Renders[d]

DoomedIsUnused ==
  (\E r \in Requests : pc[r] = "unlink") =>
    \A i \in Ids : receipt[i] # Nil => receipt[i] \notin doomed

Custody ==
  /\ KnownRow /\ LockHeld /\ ReceiptIsOwn /\ HeldIsOnDisk
  /\ DoomedIsDemo /\ DoomedIsUnused /\ CompletedHasArtifact

LEMMA InitCustody == Init => Custody
  BY DEF Init, Custody, KnownRow, LockHeld, ReceiptIsOwn, HeldIsOnDisk,
         DoomedIsDemo, DoomedIsUnused, CompletedHasArtifact

LEMMA PostCustody ==
  ASSUME Typed, Custody, NEW r \in Requests, NEW k \in Keys, Post(r, k)
  PROVE  Custody'
<1> USE DEF Typed, StateOK, Located, At, Goto, Custody, KnownRow
<1>1. CASE \E i \in Ids : /\ Exists(i) /\ keyOf[i] = k
                          /\ rid' = [rid EXCEPT ![r] = i]
                          /\ UNCHANGED <<rows, created>>
  <2> USE <1>1 DEF Post, rows, prune
  <2>1. KnownRow' BY DEF Exists
  <2>2. LockHeld' BY DEF LockHeld, IsDemo
  <2>3. HeldIsOnDisk' BY DEF HeldIsOnDisk
  <2>4. ReceiptIsOwn' /\ DoomedIsDemo' /\ DoomedIsUnused' /\ CompletedHasArtifact'
    BY DEF ReceiptIsOwn, DoomedIsDemo, DoomedIsUnused, CompletedHasArtifact
  <2> QED BY <2>1, <2>2, <2>3, <2>4
<1>2. CASE /\ \E i \in Ids : /\ status[i] = "unused"
                             /\ status'  = [status EXCEPT ![i] = "queued"]
                             /\ keyOf'   = [keyOf EXCEPT ![i] = k]
                             /\ rid'     = [rid EXCEPT ![r] = i]
                             /\ created' = [created EXCEPT ![r] = TRUE]
           /\ UNCHANGED receipt
  <2>1. PICK j \in Ids : /\ status[j] = "unused" /\ receipt[j] = Nil
                         /\ status'  = [status EXCEPT ![j] = "queued"]
                         /\ keyOf'   = [keyOf EXCEPT ![j] = k]
                         /\ rid'     = [rid EXCEPT ![r] = j]
    BY <1>2
  <2>2. /\ pc[r] = "unsent" /\ pc' = [pc EXCEPT ![r] = "lookup"]
        /\ UNCHANGED <<receipt, file, lock, held, victims, doomed>>
    BY <1>2 DEF Post, prune
  <2>3. ASSUME NEW s \in Requests, pc[s] \notin {"unsent", "done"}
        PROVE  rid'[s] = rid[s] /\ keyOf'[rid'[s]] = keyOf[rid[s]] /\ pc'[s] = pc[s]
    BY <2>1, <2>2, <2>3
  <2>4. KnownRow' BY <2>1, <2>2
  <2>5. LockHeld' BY <2>2, <2>3 DEF LockHeld, IsDemo
  <2>6. HeldIsOnDisk' BY <2>2, <2>3 DEF HeldIsOnDisk
  <2>7. ReceiptIsOwn' BY <2>1, <2>2 DEF ReceiptIsOwn
  <2>8. DoomedIsDemo' /\ DoomedIsUnused' /\ CompletedHasArtifact'
    BY <2>1, <2>2 DEF DoomedIsDemo, DoomedIsUnused, CompletedHasArtifact
  <2> QED BY <2>4, <2>5, <2>6, <2>7, <2>8
<1> QED BY <1>1, <1>2 DEF Post

(* A step that moves one thread, takes no lock, removes no file, dooms no  *)
(* asset and stores no receipt keeps the custody.                          *)
LEMMA QuietStep ==
  ASSUME Typed, Custody, NEW r \in Requests,
         rid' = rid, keyOf' = keyOf, file' = file, doomed' = doomed,
         pc' \in [Requests -> PCs],
         \A s \in Requests \ {r} : pc'[s] = pc[s] /\ held'[s] = held[s],
         lock' = lock,
         pc[r] \notin {"unsent", "done"},
         pc'[r] \notin {"delete", "unlink", "complete"},
         pc'[r] = "render" => ~IsDemo(rid[r]) \/ lock = r,
         \A i \in Ids :
           /\ status'[i] = "unused" => status[i] = "unused"
           /\ status[i] # "unused" => status'[i] # "unused"
           /\ receipt'[i] \in {receipt[i], Nil}
           /\ status'[i] = "completed" =>
                status[i] = "completed" /\ receipt'[i] = receipt[i]
  PROVE  Custody'
<1> USE DEF Custody, Typed, StateOK, Located
<1>1. KnownRow' BY DEF KnownRow
<1>2. LockHeld' BY DEF LockHeld, IsDemo
<1>3. ReceiptIsOwn' BY DEF ReceiptIsOwn
<1>4. HeldIsOnDisk' BY DEF HeldIsOnDisk
<1>5. DoomedIsDemo' BY DEF DoomedIsDemo
<1>6. DoomedIsUnused'
  <2>1. (\E s \in Requests : pc[s] = "unlink")'
        => \E s \in Requests : pc[s] = "unlink"
    OBVIOUS
  <2> QED BY <2>1 DEF DoomedIsUnused
<1>7. CompletedHasArtifact' BY DEF CompletedHasArtifact
<1> QED BY <1>1, <1>2, <1>3, <1>4, <1>5, <1>6, <1>7

LEMMA HandlerCustody ==
  ASSUME Typed, Custody, NEW r \in Requests, HandlerStep(r)
  PROVE  Custody'
<1> USE DEF Typed, StateOK, Located, At, Goto, PCs, rows, prune
<1>1. CASE Lookup(r)     BY <1>1, QuietStep DEF Lookup
<1>2. CASE Verify(r)     BY <1>2, QuietStep DEF Verify
<1>3. CASE Condemn(r)
  BY <1>3, QuietStep DEF Condemn, FailRun, SetRow, Exists
<1>4. CASE Reread(r)     BY <1>4, QuietStep DEF Reread
<1>5. CASE QueueRetry(r) BY <1>5, QuietStep DEF QueueRetry, SetRow
<1>6. CASE Dispatch(r)   BY <1>6, QuietStep DEF Dispatch
<1> QED BY <1>1, <1>2, <1>3, <1>4, <1>5, <1>6 DEF HandlerStep

(* Render puts the file of the run's own asset in place.                   *)
LEMMA RenderCustody ==
  ASSUME Typed, Custody, NEW r \in Requests, Render(r)
  PROVE  Custody'
<1> USE DEF Typed, StateOK, Located, At, Goto, Custody, Render, rows, prune
<1>1. rid[r] \in Ids /\ keyOf[rid[r]] \in Keys
  OBVIOUS
<1>2. PICK a \in Renders[keyOf[rid[r]]] :
        /\ file' = [file EXCEPT ![a] = "good"]
        /\ held' = [held EXCEPT ![r] = a]
  OBVIOUS
<1>3. a \in Assets BY <1>1, LifecycleAssumption
<1>4. \A b \in Assets : file[b] # "missing" => file'[b] # "missing"
  BY <1>2, <1>3
<1>5. KnownRow' BY DEF KnownRow
<1>6. LockHeld' BY DEF LockHeld, IsDemo
<1>7. ReceiptIsOwn' BY DEF ReceiptIsOwn
<1>8. HeldIsOnDisk'
  <2>1. ASSUME NEW s \in Requests, pc'[s] = "complete", s # r
        PROVE  /\ held'[s] \in Assets
               /\ held'[s] \in Renders[keyOf'[rid'[s]]]
               /\ file'[held'[s]] # "missing"
    BY <1>2, <1>4, <2>1 DEF HeldIsOnDisk
  <2>2. /\ held'[r] \in Assets
        /\ held'[r] \in Renders[keyOf'[rid'[r]]]
        /\ file'[held'[r]] # "missing"
    BY <1>2, <1>3
  <2> QED BY <2>1, <2>2 DEF HeldIsOnDisk
<1>9. DoomedIsDemo' BY DEF DoomedIsDemo
<1>10. DoomedIsUnused'
  <2>1. (\E s \in Requests : pc[s] = "unlink")'
        => \E s \in Requests : pc[s] = "unlink"
    OBVIOUS
  <2> QED BY <2>1 DEF DoomedIsUnused
<1>11. CompletedHasArtifact'
  BY <1>4 DEF CompletedHasArtifact
<1> QED BY <1>5, <1>6, <1>7, <1>8, <1>9, <1>10, <1>11

(* A render that raises may have written its file; it gives up the lock.   *)
LEMMA RenderRaisesCustody ==
  ASSUME Typed, Custody, NEW r \in Requests, RenderRaises(r)
  PROVE  Custody'
<1> USE DEF Typed, StateOK, Located, At, Goto, Custody, RenderRaises, rows, prune
<1>1. \A b \in Assets : file[b] # "missing" => file'[b] # "missing"
  OBVIOUS
<1>2. KnownRow' BY DEF KnownRow
<1>3. LockHeld' BY DEF LockHeld, IsDemo, Release
<1>4. ReceiptIsOwn' BY DEF ReceiptIsOwn
<1>5. HeldIsOnDisk' BY <1>1 DEF HeldIsOnDisk
<1>6. DoomedIsDemo' BY DEF DoomedIsDemo
<1>7. DoomedIsUnused'
  <2>1. (\E s \in Requests : pc[s] = "unlink")'
        => \E s \in Requests : pc[s] = "unlink"
    OBVIOUS
  <2> QED BY <2>1 DEF DoomedIsUnused
<1>8. CompletedHasArtifact' BY <1>1 DEF CompletedHasArtifact
<1> QED BY <1>2, <1>3, <1>4, <1>5, <1>6, <1>7, <1>8

(* complete_run stores a receipt whose file is on disk; when a prune is    *)
(* about to unlink, the run is live and its asset is not a doomed one.     *)
LEMMA CompleteCustody ==
  ASSUME Typed, Custody, NEW r \in Requests, CompleteRun(r)
  PROVE  Custody'
<1> USE DEF Typed, StateOK, Located, At, Goto, Custody, CompleteRun, prune
<1>1. CASE status[rid[r]] = "running"
  <2>1. /\ rid[r] \in Ids /\ keyOf[rid[r]] \in Keys
        /\ held[r] \in Assets
        /\ held[r] \in Renders[keyOf[rid[r]]]
        /\ file[held[r]] # "missing"
    BY DEF HeldIsOnDisk
  <2>2. /\ status' = [status EXCEPT ![rid[r]] = "completed"]
        /\ receipt' = [receipt EXCEPT ![rid[r]] = held[r]]
        /\ keyOf' = keyOf
    BY <1>1 DEF SetRow
  <2>3. KnownRow' BY <1>1, <2>1, <2>2 DEF KnownRow
  <2>4. LockHeld' BY <2>2 DEF LockHeld, IsDemo, Release
  <2>5. ReceiptIsOwn' BY <2>1, <2>2 DEF ReceiptIsOwn
  <2>6. HeldIsOnDisk' BY <2>2 DEF HeldIsOnDisk
  <2>7. DoomedIsDemo' BY DEF DoomedIsDemo
  <2>8. DoomedIsUnused'
    <3> SUFFICES ASSUME NEW s \in Requests, pc'[s] = "unlink"
                 PROVE  \A i \in Ids : receipt'[i] # Nil => receipt'[i] \notin doomed'
      BY DEF DoomedIsUnused
    <3>1. s # r /\ pc[s] = "unlink" OBVIOUS
    <3>2. lock = s BY <3>1 DEF LockHeld
    <3>3. ~IsDemo(rid[r]) BY <3>1, <3>2 DEF LockHeld
    <3>4. held[r] \notin doomed
      BY <2>1, <3>3, LifecycleAssumption DEF IsDemo, DoomedIsDemo
    <3> QED BY <2>1, <2>2, <3>1, <3>4 DEF DoomedIsUnused
  <2>9. CompletedHasArtifact'
    <3> SUFFICES ASSUME NEW i \in Ids, status'[i] = "completed"
                 PROVE  receipt'[i] # Nil /\ file'[receipt'[i]] # "missing"
      BY DEF CompletedHasArtifact
    <3>1. CASE i = rid[r]
      <4>1. held[r] # Nil BY <2>1, LifecycleAssumption
      <4> QED BY <2>1, <2>2, <3>1, <4>1
    <3>2. CASE i # rid[r] BY <2>1, <2>2, <3>2 DEF CompletedHasArtifact
    <3> QED BY <3>1, <3>2
  <2> QED BY <2>3, <2>4, <2>5, <2>6, <2>7, <2>8, <2>9
<1>2. CASE status[rid[r]] # "running"
  <2> USE <1>2 DEF rows
  <2>1. KnownRow' BY DEF KnownRow
  <2>2. LockHeld' BY DEF LockHeld, IsDemo, Release
  <2>3. HeldIsOnDisk' BY DEF HeldIsOnDisk
  <2>4. ReceiptIsOwn' /\ DoomedIsDemo' /\ CompletedHasArtifact'
    BY DEF ReceiptIsOwn, DoomedIsDemo, CompletedHasArtifact
  <2>5. DoomedIsUnused'
    <3>1. (\E s \in Requests : pc[s] = "unlink")'
          => \E s \in Requests : pc[s] = "unlink"
      OBVIOUS
    <3> QED BY <3>1 DEF DoomedIsUnused
  <2> QED BY <2>1, <2>2, <2>3, <2>4, <2>5
<1> QED BY <1>1, <1>2

(* The pruning thread takes the lock and selects demo rows only.           *)
LEMMA PruneSelectCustody ==
  ASSUME Typed, Custody, NEW r \in Requests, PruneSelect(r)
  PROVE  Custody'
<1> USE DEF Typed, StateOK, Located, At, Goto, Custody, rows, prune
<1>1. CASE Goto(r, "done") /\ UNCHANGED <<lock, prune>>
  BY <1>1, QuietStep DEF PruneSelect, PCs
<1>2. CASE /\ \E V \in SUBSET Prunable(r) :
                /\ Cardinality(V) = Cardinality(Prunable(r)) - Keep
                /\ victims' = V
                /\ doomed'  = {receipt[i] : i \in {v \in V : receipt[v] # Nil}}
           /\ lock' = r
           /\ Goto(r, "delete")
  <2>1. /\ lock = Nil /\ pc[r] = "prune"
        /\ UNCHANGED <<status, keyOf, receipt, file, rid, held>>
    BY DEF PruneSelect
  <2>2. \A s \in Requests :
          /\ pc[s] \notin {"delete", "unlink"}
          /\ pc[s] \in {"render", "complete"} => ~IsDemo(rid[s])
    BY <2>1, LifecycleAssumption DEF LockHeld
  <2>3. KnownRow' BY <1>2, <2>1 DEF KnownRow
  <2>4. LockHeld' BY <1>2, <2>1, <2>2 DEF LockHeld, IsDemo
  <2>5. ReceiptIsOwn' /\ CompletedHasArtifact'
    BY <2>1 DEF ReceiptIsOwn, CompletedHasArtifact
  <2>6. HeldIsOnDisk' BY <1>2, <2>1 DEF HeldIsOnDisk
  <2>7. DoomedIsDemo'
    <3>1. PICK V \in SUBSET Prunable(r) :
            doomed' = {receipt[i] : i \in {v \in V : receipt[v] # Nil}}
      BY <1>2
    <3>2. ASSUME NEW i \in V, receipt[i] # Nil
          PROVE  keyOf[i] \in DemoKeys /\ receipt[i] \in Renders[keyOf[i]]
      BY <3>2 DEF Prunable, IsDemo, ReceiptIsOwn
    <3> QED BY <3>1, <3>2 DEF DoomedIsDemo
  <2>8. DoomedIsUnused' BY <1>2, <2>2 DEF DoomedIsUnused
  <2> QED BY <2>3, <2>4, <2>5, <2>6, <2>7, <2>8
<1> QED BY <1>1, <1>2 DEF PruneSelect

(* After the DELETEs no remaining receipt names a doomed asset.            *)
LEMMA PruneDeleteCustody ==
  ASSUME Typed, Custody, NEW r \in Requests, PruneDelete(r)
  PROVE  Custody'
<1> USE DEF Typed, StateOK, Located, At, Goto, Custody
<1>1. /\ status'  = [i \in Ids |-> IF i \in victims THEN "deleted" ELSE status[i]]
      /\ receipt' = [i \in Ids |-> IF i \in victims THEN Nil ELSE receipt[i]]
      /\ doomed'  = doomed \ {receipt[i] : i \in Ids \ victims}
      /\ pc[r] = "delete" /\ pc' = [pc EXCEPT ![r] = "unlink"]
      /\ UNCHANGED <<keyOf, file, lock, rid, held>>
  BY DEF PruneDelete
<1>2. KnownRow' BY <1>1 DEF KnownRow
<1>3. LockHeld' BY <1>1 DEF LockHeld, IsDemo
<1>4. ReceiptIsOwn' BY <1>1 DEF ReceiptIsOwn
<1>5. HeldIsOnDisk' BY <1>1 DEF HeldIsOnDisk
<1>6. DoomedIsDemo' BY <1>1 DEF DoomedIsDemo
<1>7. DoomedIsUnused'
  <2>1. ASSUME NEW i \in Ids, receipt'[i] # Nil PROVE receipt'[i] \notin doomed'
    <3>1. i \notin victims /\ receipt'[i] = receipt[i] BY <1>1, <2>1
    <3> QED BY <1>1, <2>1, <3>1
  <2> QED BY <2>1 DEF DoomedIsUnused
<1>8. CompletedHasArtifact' BY <1>1 DEF CompletedHasArtifact
<1> QED BY <1>2, <1>3, <1>4, <1>5, <1>6, <1>7, <1>8

(* The unlinks take no file away from a receipt or from a run about to     *)
(* complete: the pruning thread has the lock, so such a run is live.       *)
LEMMA PruneUnlinkCustody ==
  ASSUME Typed, Custody, NEW r \in Requests, PruneUnlink(r)
  PROVE  Custody'
<1> USE DEF Typed, StateOK, Located, At, Goto, Custody
<1>1. PICK gone \in SUBSET doomed :
        file' = [a \in Assets |-> IF a \in gone THEN "missing" ELSE file[a]]
  BY DEF PruneUnlink
<1>2. /\ pc[r] = "unlink" /\ pc' = [pc EXCEPT ![r] = "done"] /\ doomed' = {}
      /\ Release(r)
      /\ UNCHANGED <<status, keyOf, receipt, rid, held>>
  BY DEF PruneUnlink, rows
<1>3. lock = r BY <1>2 DEF LockHeld
<1>4. \A a \in Assets : a \notin doomed => file'[a] = file[a]
  BY <1>1
<1>5. KnownRow' BY <1>2 DEF KnownRow
<1>6. LockHeld'
  BY <1>2, <1>3, LifecycleAssumption DEF LockHeld, IsDemo, Release
<1>7. ReceiptIsOwn' BY <1>2 DEF ReceiptIsOwn
<1>8. HeldIsOnDisk'
  <2> SUFFICES ASSUME NEW s \in Requests, pc'[s] = "complete"
               PROVE  /\ held'[s] \in Assets
                      /\ held'[s] \in Renders[keyOf'[rid'[s]]]
                      /\ file'[held'[s]] # "missing"
    BY DEF HeldIsOnDisk
  <2>1. s # r /\ pc[s] = "complete" BY <1>2
  <2>2. ~IsDemo(rid[s]) BY <1>3, <2>1 DEF LockHeld
  <2>3. /\ keyOf[rid[s]] \in Keys \ DemoKeys
        /\ held[s] \in Assets
        /\ held[s] \in Renders[keyOf[rid[s]]]
        /\ file[held[s]] # "missing"
    BY <2>1, <2>2 DEF HeldIsOnDisk, IsDemo
  <2>4. held[s] \notin doomed
    BY <2>3, LifecycleAssumption DEF DoomedIsDemo
  <2> QED BY <1>2, <1>4, <2>3, <2>4
<1>9. CompletedHasArtifact'
  BY <1>2, <1>4 DEF CompletedHasArtifact, DoomedIsUnused
<1>10. DoomedIsDemo' /\ DoomedIsUnused' BY <1>2 DEF DoomedIsDemo, DoomedIsUnused
<1> QED BY <1>5, <1>6, <1>7, <1>8, <1>9, <1>10

LEMMA AcquireCustody ==
  ASSUME Typed, Custody, NEW r \in Requests, Acquire(r)
  PROVE  Custody'
<1> USE DEF Typed, StateOK, Located, At, Goto, Custody, Acquire, rows, prune
<1>1. KnownRow' BY DEF KnownRow
<1>2. LockHeld' BY LifecycleAssumption DEF LockHeld, IsDemo
<1>3. HeldIsOnDisk' BY DEF HeldIsOnDisk
<1>4. ReceiptIsOwn' /\ DoomedIsDemo' /\ CompletedHasArtifact'
  BY DEF ReceiptIsOwn, DoomedIsDemo, CompletedHasArtifact
<1>5. DoomedIsUnused'
  <2>1. (\E s \in Requests : pc[s] = "unlink")'
        => \E s \in Requests : pc[s] = "unlink"
    OBVIOUS
  <2> QED BY <2>1 DEF DoomedIsUnused
<1> QED BY <1>1, <1>2, <1>3, <1>4, <1>5

LEMMA TaskCustody ==
  ASSUME Typed, Custody, NEW r \in Requests, TaskStep(r)
  PROVE  Custody'
<1> USE DEF Typed, StateOK, Located, At, Goto, PCs, rows, prune
<1>1. CASE StartRun(r)
  <2>1. rid[r] \in Ids BY <1>1 DEF StartRun
  <2> QED BY <1>1, <2>1, QuietStep DEF StartRun, SetRow
<1>2. CASE Acquire(r)      BY <1>2, AcquireCustody
<1>3. CASE Render(r)       BY <1>3, RenderCustody
<1>4. CASE RenderRaises(r) BY <1>4, RenderRaisesCustody
<1>5. CASE CompleteRun(r)  BY <1>5, CompleteCustody
<1>6. CASE Fail(r)         BY <1>6, QuietStep DEF Fail, FailRun, SetRow, Exists
<1>7. CASE PruneSelect(r)  BY <1>7, PruneSelectCustody
<1>8. CASE PruneDelete(r)  BY <1>8, PruneDeleteCustody
<1>9. CASE PruneUnlink(r)  BY <1>9, PruneUnlinkCustody
<1> QED
  BY <1>1, <1>2, <1>3, <1>4, <1>5, <1>6, <1>7, <1>8, <1>9 DEF TaskStep

LEMMA CrashCustody == ASSUME Typed, Custody, Crash PROVE Custody'
<1> USE DEF Typed, StateOK, Custody, Crash, rows
<1>1. \A r \in Requests : pc'[r] \in {"unsent", "done"} OBVIOUS
<1>2. KnownRow' BY <1>1 DEF KnownRow
<1>3. LockHeld' /\ HeldIsOnDisk' /\ DoomedIsDemo' /\ DoomedIsUnused'
  BY <1>1 DEF LockHeld, HeldIsOnDisk, DoomedIsDemo, DoomedIsUnused
<1>4. ReceiptIsOwn' /\ CompletedHasArtifact'
  BY DEF ReceiptIsOwn, CompletedHasArtifact
<1> QED BY <1>2, <1>3, <1>4

(* Recovery keeps the receipts of completed runs.                          *)
LEMMA RestartCustody == ASSUME Typed, Custody, Restart PROVE Custody'
<1> USE DEF Typed, StateOK, Custody
<1>1. /\ status' = [i \in Ids |-> IF Active(i) THEN "failed" ELSE status[i]]
      /\ receipt' = [i \in Ids |-> IF Active(i) THEN Nil ELSE receipt[i]]
      /\ UNCHANGED <<keyOf, file, lock, pc, rid, held, victims, doomed>>
  BY DEF Restart, local, prune
<1>2. ASSUME NEW i \in Ids, receipt'[i] # Nil PROVE receipt'[i] = receipt[i]
  BY <1>1, <1>2
<1>3. ASSUME NEW i \in Ids, status'[i] = "completed"
      PROVE  status[i] = "completed" /\ receipt'[i] = receipt[i]
  BY <1>1, <1>3 DEF Active
<1>4. KnownRow' BY <1>1 DEF KnownRow, Active, Located
<1>5. LockHeld' BY <1>1 DEF LockHeld, IsDemo
<1>6. ReceiptIsOwn' BY <1>1, <1>2 DEF ReceiptIsOwn
<1>7. HeldIsOnDisk' /\ DoomedIsDemo' BY <1>1 DEF HeldIsOnDisk, DoomedIsDemo
<1>8. DoomedIsUnused' BY <1>1, <1>2 DEF DoomedIsUnused
<1>9. CompletedHasArtifact' BY <1>1, <1>3 DEF CompletedHasArtifact
<1> QED BY <1>4, <1>5, <1>6, <1>7, <1>8, <1>9

(* Damage from outside changes bytes and removes no file.                  *)
LEMMA CorruptCustody ==
  ASSUME Typed, Custody, NEW a \in Assets, Corrupt(a)
  PROVE  Custody'
<1> USE DEF Typed, StateOK, Custody, Corrupt, rows, local, prune
<1>1. \A b \in Assets : file[b] # "missing" => file'[b] # "missing"
  OBVIOUS
<1>2. KnownRow' /\ LockHeld' /\ ReceiptIsOwn' /\ DoomedIsDemo' /\ DoomedIsUnused'
  BY DEF KnownRow, LockHeld, IsDemo, ReceiptIsOwn, DoomedIsDemo, DoomedIsUnused
<1>3. HeldIsOnDisk' BY <1>1 DEF HeldIsOnDisk
<1>4. CompletedHasArtifact' BY <1>1 DEF CompletedHasArtifact
<1> QED BY <1>2, <1>3, <1>4

LEMMA NextCustody == Typed /\ Custody /\ [Next]_vars => Custody'
<1> SUFFICES ASSUME Typed, Custody, [Next]_vars PROVE Custody'
  OBVIOUS
<1>1. CASE \E r \in Requests, k \in Keys : Post(r, k) BY <1>1, PostCustody
<1>2. CASE \E r \in Requests : HandlerStep(r)         BY <1>2, HandlerCustody
<1>3. CASE \E r \in Requests : TaskStep(r)            BY <1>3, TaskCustody
<1>4. CASE Crash                                      BY <1>4, CrashCustody
<1>5. CASE Restart                                    BY <1>5, RestartCustody
<1>6. CASE \E a \in Assets : Corrupt(a)              BY <1>6, CorruptCustody
<1>7. CASE UNCHANGED vars
  BY <1>7 DEF vars, rows, local, prune, Custody, KnownRow, LockHeld, IsDemo,
              ReceiptIsOwn, HeldIsOnDisk, DoomedIsDemo, DoomedIsUnused,
              CompletedHasArtifact
<1> QED BY <1>1, <1>2, <1>3, <1>4, <1>5, <1>6, <1>7 DEF Next

(* A completed run's file is never pruned away, whatever runs share its    *)
(* bytes and whenever the server dies between the DELETE and the unlink    *)
(* (process, prune_demo_runs).                                             *)
THEOREM CompletedRunsKeepTheirFile == Spec => []CompletedHasArtifact
<1>1. Spec => []Custody
  BY InitCustody, NextCustody, AlwaysTyped, PTL DEF Spec
<1> QED BY <1>1, PTL DEF Custody

---------------------------------------------------------------------------
(* One worker per run.  While no file is damaged, a completed run is never *)
(* condemned, so a run is requeued only when its last worker has failed    *)
(* it.  A worker of a run is the request that owes it a start or executes  *)
(* it; it alone moves the row, except that a prune may delete the row      *)
(* under it.                                                               *)
OnlyCrashes == Faults \subseteq {"crash"}

Works(r, i) == Owes(r, i) \/ Executes(r, i)

OneWorker ==
  \A i \in Ids : \A r, s \in Requests : Works(r, i) /\ Works(s, i) => r = s

WorkerMovesRow ==
  \A i \in Ids : \A r \in Requests :
    /\ Owes(r, i)     => status[i] \in {"queued", "deleted"}
    /\ Executes(r, i) => status[i] \in {"running", "deleted"}

(* A request that found a run of somebody else's owes nothing until its    *)
(* queue_retry wins.                                                       *)
Looking == {"unsent", "lookup", "verify", "condemn", "reread", "retry"}

LookerOwesNothing ==
  \A r \in Requests : pc[r] \in Looking =>
    ~retried[r] /\ (pc[r] # "lookup" => ~created[r])

(* What create_run's integrity check compares is still what is stored,     *)
(* unless the row was pruned.                                              *)
SnapshotHolds ==
  \A r \in Requests :
    /\ pc[r] = "verify" =>
         \/ status[rid[r]] = "deleted"
         \/ status[rid[r]] = "completed" /\ receipt[rid[r]] = held[r]
    /\ pc[r] = "condemn" => status[rid[r]] = "deleted"
    /\ pc[r] # "reread"

Undamaged == \A a \in Assets : file[a] # "corrupt"

DeadHasNoThreads == ~up => \A r \in Requests : pc[r] \in {"unsent", "done"}

Sole ==
  /\ OneWorker /\ WorkerMovesRow /\ LookerOwesNothing
  /\ SnapshotHolds /\ Undamaged /\ DeadHasNoThreads

LEMMA InitSole == Init => Sole
  BY DEF Init, Sole, OneWorker, Works, Owes, Executes, WorkerMovesRow,
         LookerOwesNothing, SnapshotHolds, Undamaged, DeadHasNoThreads

(* No step brings a deleted row back, and only a prune ends a completed    *)
(* one.                                                                    *)
RowsLast ==
  \A i \in Ids :
    /\ status[i] = "deleted" => status'[i] = "deleted"
    /\ status[i] = "completed" =>
         \/ status'[i] = "deleted"
         \/ status'[i] = "completed" /\ receipt'[i] = receipt[i]

LEMMA HandlerRowsLast ==
  ASSUME Typed, Sole, NEW r \in Requests, HandlerStep(r)
  PROVE  RowsLast
<1> USE DEF Typed, StateOK, Located, At, rows, RowsLast
<1>1. CASE Condemn(r)
  BY <1>1 DEF Condemn, FailRun, Exists, Sole, SnapshotHolds
<1>2. CASE QueueRetry(r) BY <1>2 DEF QueueRetry, SetRow
<1>3. CASE UNCHANGED rows BY <1>3
<1> QED BY <1>1, <1>2, <1>3 DEF HandlerStep, Lookup, Verify, Reread, Dispatch

LEMMA TaskRowsLast ==
  ASSUME Typed, Sole, NEW r \in Requests, TaskStep(r)
  PROVE  RowsLast
<1> USE DEF Typed, StateOK, Located, At, rows, RowsLast
<1>1. CASE StartRun(r) BY <1>1 DEF StartRun, SetRow
<1>2. CASE CompleteRun(r)
  BY <1>2 DEF CompleteRun, SetRow
<1>3. CASE Fail(r)
  <2>1. rid[r] \in Ids /\ status[rid[r]] \in {"running", "deleted"}
    BY <1>3 DEF Fail, Sole, WorkerMovesRow, Executes
  <2> QED BY <1>3, <2>1 DEF Fail, FailRun, SetRow, Exists
<1>4. CASE PruneDelete(r) BY <1>4 DEF PruneDelete
<1>5. CASE UNCHANGED rows BY <1>5
<1> QED
  BY <1>1, <1>2, <1>3, <1>4, <1>5
  DEF TaskStep, Acquire, Render, RenderRaises, PruneSelect, PruneUnlink

LEMMA NextRowsLast ==
  ASSUME OnlyCrashes, Typed, Sole, [Next]_vars
  PROVE  RowsLast
<1>1. CASE \E r \in Requests, k \in Keys : Post(r, k)
  BY <1>1 DEF Post, rows, RowsLast, Typed, StateOK
<1>2. CASE \E r \in Requests : HandlerStep(r) BY <1>2, HandlerRowsLast
<1>3. CASE \E r \in Requests : TaskStep(r)    BY <1>3, TaskRowsLast
<1>4. CASE Restart
  BY <1>4 DEF Restart, RowsLast, Active, Typed, StateOK
<1>5. CASE UNCHANGED rows BY <1>5 DEF rows, RowsLast
<1> QED
  BY <1>1, <1>2, <1>3, <1>4, <1>5 DEF Next, Crash, Corrupt, vars

(* What a step by request r owes the others: it takes up work only on a    *)
(* row nobody works on, and moves no row another request works on.         *)
LEMMA WorkStep ==
  ASSUME Typed, Sole, NEW r \in Requests,
         \A s \in Requests \ {r} :
           /\ pc'[s] = pc[s] /\ rid'[s] = rid[s]
           /\ created'[s] = created[s] /\ retried'[s] = retried[s],
         \A i \in Ids : Works(r, i)' =>
           Works(r, i) \/ \A s \in Requests : ~Works(s, i),
         \A i \in Ids :
           /\ Owes(r, i)'     => status'[i] \in {"queued", "deleted"}
           /\ Executes(r, i)' => status'[i] \in {"running", "deleted"},
         \A i \in Ids :
           \/ status'[i] \in {status[i], "deleted"}
           \/ Works(r, i)
           \/ \A s \in Requests : ~Works(s, i)
  PROVE  OneWorker' /\ WorkerMovesRow'
<1>1. ASSUME NEW s \in Requests \ {r}, NEW i \in Ids
      PROVE  /\ Owes(s, i)' = Owes(s, i)
             /\ Executes(s, i)' = Executes(s, i)
             /\ Works(s, i)' = Works(s, i)
  BY <1>1 DEF Works, Owes, Executes
<1>2. OneWorker'
  <2> SUFFICES ASSUME NEW i \in Ids, NEW s \in Requests, NEW t \in Requests,
                      Works(s, i)', Works(t, i)'
               PROVE  s = t
    BY DEF OneWorker
  <2>1. CASE s # r /\ t # r BY <1>1, <2>1 DEF Sole, OneWorker
  <2>2. CASE s = r /\ t # r BY <1>1, <2>2 DEF Sole, OneWorker
  <2>3. CASE s # r /\ t = r BY <1>1, <2>3 DEF Sole, OneWorker
  <2> QED BY <2>1, <2>2, <2>3
<1>3. WorkerMovesRow'
  <2> SUFFICES ASSUME NEW i \in Ids, NEW s \in Requests
               PROVE  /\ Owes(s, i)'     => status'[i] \in {"queued", "deleted"}
                      /\ Executes(s, i)' => status'[i] \in {"running", "deleted"}
    BY DEF WorkerMovesRow
  <2>1. CASE s = r BY <2>1
  <2>2. CASE s # r /\ Works(s, i)
    <3>1. status'[i] \in {status[i], "deleted"}
      BY <2>2 DEF Sole, OneWorker
    <3> QED BY <1>1, <2>2, <3>1 DEF Sole, WorkerMovesRow
  <2>3. CASE s # r /\ ~Works(s, i) BY <1>1, <2>3 DEF Works
  <2> QED BY <2>1, <2>2, <2>3
<1> QED BY <1>2, <1>3

LEMMA PostWorks ==
  ASSUME Typed, Sole, NEW r \in Requests, NEW k \in Keys, Post(r, k)
  PROVE  OneWorker' /\ WorkerMovesRow' /\ LookerOwesNothing'
<1> USE DEF Typed, StateOK, Located, At, Goto
<1>0. /\ pc[r] = "unsent" /\ pc' = [pc EXCEPT ![r] = "lookup"]
      /\ retried' = retried /\ ~retried[r] /\ ~created[r]
      /\ \A s \in Requests \ {r} : created'[s] = created[s]
  BY DEF Post, Sole, LookerOwesNothing, Looking, rows
<1>1. LookerOwesNothing' BY <1>0 DEF Sole, LookerOwesNothing, Looking
<1>2. CASE \E i \in Ids : /\ Exists(i) /\ keyOf[i] = k
                          /\ rid' = [rid EXCEPT ![r] = i]
                          /\ UNCHANGED <<rows, created>>
  <2>1. \A i \in Ids : ~Works(r, i)'
    BY <1>0, <1>2 DEF Works, Owes, Executes
  <2>2. status' = status BY <1>2 DEF rows
  <2>3. \A s \in Requests \ {r} :
          pc'[s] = pc[s] /\ rid'[s] = rid[s] /\ retried'[s] = retried[s]
    BY <1>0, <1>2
  <2> QED BY <1>0, <1>1, <2>1, <2>2, <2>3, WorkStep DEF Works
<1>3. CASE /\ \E i \in Ids : /\ status[i] = "unused"
                             /\ status'  = [status EXCEPT ![i] = "queued"]
                             /\ keyOf'   = [keyOf EXCEPT ![i] = k]
                             /\ rid'     = [rid EXCEPT ![r] = i]
                             /\ created' = [created EXCEPT ![r] = TRUE]
           /\ UNCHANGED receipt
  <2>1. PICK j \in Ids : /\ status[j] = "unused"
                         /\ status'  = [status EXCEPT ![j] = "queued"]
                         /\ rid'     = [rid EXCEPT ![r] = j]
                         /\ created' = [created EXCEPT ![r] = TRUE]
    BY <1>3
  <2>2. \A s \in Requests : ~Works(s, j)
    BY <2>1 DEF Works, Sole, WorkerMovesRow
  <2>3. \A i \in Ids : (Works(r, i)' => i = j) /\ ~Executes(r, i)'
    BY <1>0, <2>1 DEF Works, Owes, Executes
  <2>4. \A i \in Ids : i # j => status'[i] = status[i]
    BY <2>1
  <2>5. status'[j] = "queued" BY <2>1
  <2>6. \A s \in Requests \ {r} :
          pc'[s] = pc[s] /\ rid'[s] = rid[s] /\ retried'[s] = retried[s]
    BY <1>0, <2>1
  <2> QED BY <1>0, <1>1, <2>2, <2>3, <2>4, <2>5, <2>6, WorkStep DEF Works
<1> QED BY <1>2, <1>3 DEF Post

LEMMA HandlerWorks ==
  ASSUME Typed, Sole, NEW r \in Requests, HandlerStep(r)
  PROVE  OneWorker' /\ WorkerMovesRow' /\ LookerOwesNothing'
<1> USE DEF Typed, StateOK, Located, At, Goto, rows
<1>1. /\ rid' = rid /\ created' = created
      /\ \A s \in Requests \ {r} : pc'[s] = pc[s] /\ retried'[s] = retried[s]
      /\ rid[r] \in Ids
  BY DEF HandlerStep, Lookup, Verify, Condemn, Reread, QueueRetry, Dispatch
<1>2. CASE QueueRetry(r)
  <2>1. LookerOwesNothing'
    BY <1>2 DEF QueueRetry, Sole, LookerOwesNothing, Looking
  <2>2. ~created[r] /\ pc[r] = "retry" /\ pc' = [pc EXCEPT ![r] = "dispatch"]
    BY <1>2 DEF QueueRetry, Sole, LookerOwesNothing, Looking
  <2>3. CASE status[rid[r]] = "failed"
    <3>1. status' = [status EXCEPT ![rid[r]] = "queued"]
      BY <1>2, <2>3 DEF QueueRetry, SetRow
    <3>2. \A s \in Requests : ~Works(s, rid[r])
      BY <1>1, <2>3 DEF Works, Sole, WorkerMovesRow
    <3>3. \A i \in Ids : (Works(r, i)' => i = rid[r]) /\ ~Executes(r, i)'
      BY <1>1, <2>2 DEF Works, Owes, Executes
    <3> QED BY <1>1, <2>1, <3>1, <3>2, <3>3, WorkStep DEF Works
  <2>4. CASE status[rid[r]] # "failed"
    <3>1. status' = status /\ ~retried'[r]
      BY <1>2, <2>4 DEF QueueRetry
    <3>2. \A i \in Ids : ~Works(r, i)'
      BY <1>1, <2>2, <3>1 DEF Works, Owes, Executes
    <3> QED BY <1>1, <2>1, <3>1, <3>2, WorkStep DEF Works
  <2> QED BY <2>3, <2>4
<1>3. CASE ~QueueRetry(r)
  <2>1. retried' = retried /\ status' = status
    BY <1>3 DEF HandlerStep, Lookup, Verify, Condemn, Reread, Dispatch, FailRun,
                Exists, Sole, SnapshotHolds
  <2>2. pc[r] \in Looking \/ pc[r] = "dispatch"
    BY DEF HandlerStep, Lookup, Verify, Condemn, Reread, QueueRetry, Dispatch, Looking
  <2>3. LookerOwesNothing'
    <3>1. pc'[r] \in Looking => pc[r] \in Looking /\ ~created[r]
      BY <1>3 DEF HandlerStep, Lookup, Verify, Condemn, Reread, Dispatch, Looking,
                  Sole, LookerOwesNothing
    <3> QED BY <1>1, <2>1, <3>1 DEF Sole, LookerOwesNothing
  <2>4. \A i \in Ids : (Works(r, i)' => Works(r, i)) /\ ~Executes(r, i)'
    <3>1. pc'[r] \in Looking \cup {"dispatch", "task", "done"}
      BY <1>3 DEF HandlerStep, Lookup, Verify, Condemn, Reread, Dispatch, Looking
    <3>2. pc'[r] = "task" => pc[r] = "dispatch" /\ (created[r] \/ retried[r])
      BY <1>3 DEF HandlerStep, Lookup, Verify, Condemn, Reread, Dispatch
    <3>3. pc'[r] = "dispatch" => pc[r] \in Looking
      BY <1>3 DEF HandlerStep, Lookup, Verify, Condemn, Reread, Dispatch, Looking
    <3>4. pc'[r] = "lookup" => FALSE
      BY <1>3 DEF HandlerStep, Lookup, Verify, Condemn, Reread, Dispatch
    <3> QED BY <1>1, <2>1, <3>1, <3>2, <3>3, <3>4
            DEF Works, Owes, Executes, Looking, Sole, LookerOwesNothing
  <2>5. \A i \in Ids : Owes(r, i)' => status'[i] \in {"queued", "deleted"}
    <3>1. \A i \in Ids : Owes(r, i)' => Owes(r, i)
      BY <2>2, <2>4 DEF Works, Executes, Looking
    <3> QED BY <2>1, <3>1 DEF Sole, WorkerMovesRow
  <2> QED BY <1>1, <2>1, <2>3, <2>4, <2>5, WorkStep
<1> QED BY <1>2, <1>3

LEMMA TaskWorks ==
  ASSUME Typed, Sole, NEW r \in Requests, TaskStep(r)
  PROVE  OneWorker' /\ WorkerMovesRow' /\ LookerOwesNothing'
<1> USE DEF Typed, StateOK, Located, At, Goto, rows
<1>1. /\ rid' = rid /\ created' = created /\ retried' = retried
      /\ \A s \in Requests \ {r} : pc'[s] = pc[s]
      /\ pc'[r] \notin Looking
      /\ rid[r] \in Ids
  BY DEF TaskStep, StartRun, Acquire, Render, RenderRaises, CompleteRun, Fail,
         PruneSelect, PruneDelete, PruneUnlink, Looking
<1>2. LookerOwesNothing' BY <1>1 DEF Sole, LookerOwesNothing
<1>3. \A i \in Ids : Works(r, i)' => Works(r, i) /\ Executes(r, i)'
  BY <1>1 DEF TaskStep, StartRun, Acquire, Render, RenderRaises, CompleteRun, Fail,
         PruneSelect, PruneDelete, PruneUnlink, Works, Owes, Executes
<1>4. \A i \in Ids :
        status'[i] \in {status[i], "deleted"} \/ Works(r, i)
  BY DEF TaskStep, StartRun, Acquire, Render, RenderRaises, CompleteRun, Fail,
         PruneSelect, PruneDelete, PruneUnlink, FailRun, SetRow,
         Works, Owes, Executes
<1>5. \A i \in Ids : Executes(r, i)' => status'[i] \in {"running", "deleted"}
  <2>1. CASE StartRun(r) BY <1>1, <2>1 DEF StartRun, SetRow, Executes
  <2>2. CASE CompleteRun(r)
    BY <1>1, <2>2 DEF CompleteRun, Executes, Sole, WorkerMovesRow
  <2>3. CASE status' = status /\ pc[r] \in {"acquire", "render"}
    BY <1>1, <2>3 DEF Executes, Sole, WorkerMovesRow
  <2>4. CASE pc'[r] \in {"delete", "unlink", "done"}
    BY <2>4 DEF Executes
  <2> QED
    BY <2>1, <2>2, <2>3, <2>4
    DEF TaskStep, Acquire, Render, RenderRaises, Fail, PruneSelect, PruneDelete,
        PruneUnlink
<1>6. \A i \in Ids : ~Owes(r, i)'
  BY <1>1 DEF TaskStep, StartRun, Acquire, Render, RenderRaises, CompleteRun, Fail,
         PruneSelect, PruneDelete, PruneUnlink, Owes
<1> QED BY <1>1, <1>2, <1>3, <1>4, <1>5, <1>6, WorkStep

(* A snapshot is taken of a row as it is, and judged damaged only when a   *)
(* prune has deleted the row.                                              *)
LEMMA SnapshotStep ==
  ASSUME Typed, Custody, Sole, RowsLast, NEW r \in Requests,
         HandlerStep(r) \/ TaskStep(r)
  PROVE  SnapshotHolds'
<1> USE DEF Typed, StateOK, Located, At, Goto, rows
<1>1. /\ rid' = rid
      /\ \A s \in Requests \ {r} : pc'[s] = pc[s] /\ held'[s] = held[s]
  BY DEF HandlerStep, Lookup, Verify, Condemn, Reread, QueueRetry, Dispatch,
         TaskStep, StartRun, Acquire, Render, RenderRaises, CompleteRun, Fail,
         PruneSelect, PruneDelete, PruneUnlink
<1>2. ASSUME NEW s \in Requests \ {r}
      PROVE  /\ pc'[s] = "verify" =>
                  \/ status'[rid'[s]] = "deleted"
                  \/ status'[rid'[s]] = "completed" /\ receipt'[rid'[s]] = held'[s]
             /\ pc'[s] = "condemn" => status'[rid'[s]] = "deleted"
             /\ pc'[s] # "reread"
  BY <1>1, <1>2 DEF Sole, SnapshotHolds, RowsLast
<1>3. /\ pc'[r] = "verify" =>
           \/ status'[rid'[r]] = "deleted"
           \/ status'[rid'[r]] = "completed" /\ receipt'[rid'[r]] = held'[r]
      /\ pc'[r] = "condemn" => status'[rid'[r]] = "deleted"
      /\ pc'[r] # "reread"
  <2>1. CASE Lookup(r)
    BY <2>1 DEF Lookup
  <2>2. CASE Verify(r)
    <3>1. rid[r] \in Ids BY <2>2 DEF Verify
    <3>2. CASE status[rid[r]] = "deleted"
      BY <2>2, <3>2 DEF Verify
    <3>3. CASE status[rid[r]] = "completed" /\ receipt[rid[r]] = held[r]
      <4>1. held[r] \in Assets /\ file[held[r]] = "good"
        BY <3>1, <3>3, LifecycleAssumption
        DEF Custody, CompletedHasArtifact, Sole, Undamaged, Files
      <4> QED BY <2>2, <4>1 DEF Verify
    <3> QED BY <2>2, <3>2, <3>3 DEF Verify, Sole, SnapshotHolds
  <2>3. CASE Condemn(r)
    BY <2>3 DEF Condemn, Exists, Sole, SnapshotHolds
  <2>4. CASE pc'[r] \notin {"verify", "condemn", "reread"} BY <2>4
  <2>5. pc[r] # "reread" BY DEF Sole, SnapshotHolds
  <2> QED
    BY <2>1, <2>2, <2>3, <2>4, <2>5
    DEF HandlerStep, Reread, QueueRetry, Dispatch,
        TaskStep, StartRun, Acquire, Render, RenderRaises, CompleteRun, Fail,
        PruneSelect, PruneDelete, PruneUnlink
<1> QED BY <1>2, <1>3 DEF SnapshotHolds

(* Files stay sound: a render writes good bytes.                           *)
LEMMA UndamagedStep ==
  ASSUME Typed, Sole, NEW r \in Requests, HandlerStep(r) \/ TaskStep(r)
  PROVE  Undamaged'
<1> USE DEF Typed, StateOK, Located, At, Goto, rows, Sole, Undamaged
<1>1. CASE HandlerStep(r)
  BY <1>1 DEF HandlerStep, Lookup, Verify, Condemn, Reread, QueueRetry, Dispatch,
              FailRun, SetRow
<1>2. CASE Render(r)
  <2>1. PICK a \in Renders[keyOf[rid[r]]] :
          /\ file' = [file EXCEPT ![a] = "good"]
          /\ held' = [held EXCEPT ![r] = a]
    BY <1>2 DEF Render
  <2> QED BY <2>1
<1>3. CASE RenderRaises(r)
  <2>1. \A b \in Assets : file'[b] # "corrupt" BY <1>3 DEF RenderRaises
  <2> QED BY <1>3, <2>1 DEF RenderRaises
<1>4. CASE CompleteRun(r) BY <1>4 DEF CompleteRun, SetRow
<1>5. CASE PruneUnlink(r)
  <2>1. \A b \in Assets : file'[b] # "corrupt" BY <1>5 DEF PruneUnlink
  <2> QED BY <1>5, <2>1 DEF PruneUnlink
<1>6. CASE StartRun(r) \/ Acquire(r) \/ Fail(r)
  BY <1>6 DEF StartRun, Acquire, Fail, FailRun, SetRow
<1>7. CASE PruneSelect(r) BY <1>7 DEF PruneSelect
<1>8. CASE PruneDelete(r) BY <1>8 DEF PruneDelete
<1> QED BY <1>1, <1>2, <1>3, <1>4, <1>5, <1>6, <1>7, <1>8 DEF TaskStep

LEMMA PostSole ==
  ASSUME Typed, Sole, NEW r \in Requests, NEW k \in Keys, Post(r, k), RowsLast
  PROVE  Sole'
<1>1. OneWorker' /\ WorkerMovesRow' /\ LookerOwesNothing' BY PostWorks
<1>2. /\ up /\ UNCHANGED <<up, receipt, file, held>>
      /\ pc' = [pc EXCEPT ![r] = "lookup"]
      /\ \A s \in Requests \ {r} : rid'[s] = rid[s]
  BY DEF Post, At, Goto, rows, Typed, StateOK
<1>3. SnapshotHolds'
  BY <1>2 DEF Sole, SnapshotHolds, RowsLast, Typed, StateOK, Located
<1>4. Undamaged' BY <1>2 DEF Sole, Undamaged, Typed, StateOK
<1>5. DeadHasNoThreads' BY <1>2 DEF DeadHasNoThreads
<1> QED BY <1>1, <1>3, <1>4, <1>5 DEF Sole

LEMMA ThreadSole ==
  ASSUME Typed, Custody, Sole, RowsLast, NEW r \in Requests,
         HandlerStep(r) \/ TaskStep(r)
  PROVE  Sole'
<1>1. OneWorker' /\ WorkerMovesRow' /\ LookerOwesNothing'
  BY HandlerWorks, TaskWorks
<1>2. SnapshotHolds' BY SnapshotStep
<1>3. Undamaged' BY UndamagedStep
<1>4. up /\ up' = up
  BY DEF HandlerStep, Lookup, Verify, Condemn, Reread, QueueRetry, Dispatch,
         TaskStep, StartRun, Acquire, Render, RenderRaises, CompleteRun, Fail,
         PruneSelect, PruneDelete, PruneUnlink, At
<1>5. DeadHasNoThreads' BY <1>4 DEF DeadHasNoThreads
<1> QED BY <1>1, <1>2, <1>3, <1>5 DEF Sole

(* No thread outlives the process, so nobody works on anything while it is *)
(* down or when it comes back.                                             *)
LEMMA IdleSole ==
  ASSUME Typed, Sole, \A r \in Requests : pc'[r] \in {"unsent", "done"},
         \A r \in Requests : pc'[r] = "unsent" => pc[r] = "unsent",
         UNCHANGED <<file, created, retried>>,
         \A i \in Ids : receipt'[i] \in {receipt[i], Nil}
  PROVE  Sole'
<1>1. \A i \in Ids : \A r \in Requests : ~Owes(r, i)' /\ ~Executes(r, i)'
  BY DEF Owes, Executes
<1>2. OneWorker' /\ WorkerMovesRow' BY <1>1 DEF OneWorker, WorkerMovesRow, Works
<1>3. LookerOwesNothing' BY DEF Sole, LookerOwesNothing, Looking
<1>4. SnapshotHolds' BY DEF SnapshotHolds
<1>5. Undamaged' BY DEF Sole, Undamaged
<1>6. DeadHasNoThreads' BY DEF DeadHasNoThreads
<1> QED BY <1>2, <1>3, <1>4, <1>5, <1>6 DEF Sole

LEMMA NextSole ==
  ASSUME OnlyCrashes
  PROVE  Typed /\ Custody /\ Sole /\ [Next]_vars => Sole'
<1> SUFFICES ASSUME Typed, Custody, Sole, [Next]_vars PROVE Sole'
  OBVIOUS
<1>0. RowsLast BY NextRowsLast
<1>1. CASE \E r \in Requests, k \in Keys : Post(r, k) BY <1>0, <1>1, PostSole
<1>2. CASE \E r \in Requests : HandlerStep(r)         BY <1>0, <1>2, ThreadSole
<1>3. CASE \E r \in Requests : TaskStep(r)            BY <1>0, <1>3, ThreadSole
<1>4. CASE Crash
  <2>1. \A r \in Requests : /\ pc'[r] \in {"unsent", "done"}
                            /\ pc'[r] = "unsent" => pc[r] = "unsent"
    BY <1>4 DEF Crash
  <2> QED BY <1>4, <2>1, IdleSole DEF Crash, rows
<1>5. CASE Restart
  <2>1. \A i \in Ids : receipt'[i] \in {receipt[i], Nil}
    BY <1>5 DEF Restart
  <2> QED BY <1>5, <2>1, IdleSole DEF Restart, local, Sole, DeadHasNoThreads
<1>6. CASE \E a \in Assets : Corrupt(a)
  BY <1>6 DEF Corrupt, OnlyCrashes
<1>7. CASE UNCHANGED vars
  BY <1>7 DEF vars, rows, local, Sole, OneWorker, Works, Owes, Executes,
     WorkerMovesRow, LookerOwesNothing, SnapshotHolds, Undamaged, DeadHasNoThreads
<1> QED BY <1>1, <1>2, <1>3, <1>4, <1>5, <1>6, <1>7 DEF Next

LEMMA AlwaysSole ==
  ASSUME OnlyCrashes
  PROVE  Spec => [](Typed /\ Custody /\ Sole)
<1>1. Typed /\ Custody /\ Sole /\ [Next]_vars => Sole' BY NextSole
<1> QED BY <1>1, InitTyped, InitCustody, InitSole, NextTyped, NextCustody, PTL DEF Spec

(* Two tasks never execute one run, whatever requests create, share and    *)
(* retry it and whenever the server restarts, as long as nothing damages a *)
(* file (create_run, start_run).                                           *)
THEOREM OneTaskPerRun ==
  ASSUME OnlyCrashes
  PROVE  Spec => []AtMostOneExecutor
<1>1. Sole => AtMostOneExecutor
  BY DEF Sole, OneWorker, Works, AtMostOneExecutor
<1> QED BY <1>1, AlwaysSole, PTL

(* Under the same conditions no step takes a stored result back: a         *)
(* completed run stays completed until it is pruned.                       *)
THEOREM ResultsAreFinal ==
  ASSUME OnlyCrashes
  PROVE  Spec => CompletedIsFinal
<1> DEFINE Final == \A i \in Ids : status[i] = "completed" =>
                      status'[i] \in {"completed", "deleted"}
<1>1. Typed /\ Sole /\ [Next]_vars => [Final]_vars
  BY NextRowsLast DEF RowsLast
<1>2. Spec => [][Final]_vars
  <2> HIDE DEF Final
  <2> QED BY <1>1, AlwaysSole, PTL DEF Spec
<1> QED BY <1>2 DEF CompletedIsFinal
===========================================================================
