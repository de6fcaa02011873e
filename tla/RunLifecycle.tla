--------------------------- MODULE RunLifecycle ---------------------------
(***************************************************************************)
(* The life of a row of the runs table: POST /api/runs (main.py            *)
(* create_run), the background task it schedules (engine.py process), the  *)
(* store calls both make (database.py RunStore), the pruning of old demo   *)
(* runs, and a crash of the server followed by the recovery at its start.  *)
(*                                                                         *)
(* A request is one HTTP request and the thread that serves it, which goes *)
(* on to run the request's background task.  Every call on RunStore is a   *)
(* transaction of its own, so it is a step of its own, except for          *)
(* prune_demo_runs: its SELECT runs before sqlite3 opens the transaction   *)
(* of its first DELETE, so the two are separate steps.                     *)
(***************************************************************************)
EXTENDS Naturals, FiniteSets

CONSTANTS
  Keys,      \* values of (brief_hash, mode), the UNIQUE columns of runs; the
             \* hash covers PIPELINE_VERSION, so another build has other keys
  DemoKeys,  \* the keys whose mode is 'demo'; the others are 'live'
  Ids,       \* the uuid4 run ids the server may draw
  Requests,  \* the POST /api/runs requests clients may send
  Assets,    \* content-addressed names of files in artifact_dir
  Renders,   \* Renders[k]: the assets a run of key k may produce
  Keep,      \* prune_demo_runs' keep (200 in the code)
  Faults,    \* which of FaultKinds the environment may cause
  Nil        \* a NULL column, an unset variable, no lock holder

FaultKinds == {"crash", "corrupt"}

(* A demo asset is an .svg file and a live asset is not, so the two never  *)
(* share a name; a demo run is deterministic, hence one asset per key.     *)
ASSUME LifecycleAssumption ==
  /\ DemoKeys \subseteq Keys
  /\ Renders \in [Keys -> SUBSET Assets]
  /\ \A k \in Keys : Renders[k] # {}
  /\ \A d \in DemoKeys, k \in Keys \ DemoKeys : Renders[d] \cap Renders[k] = {}
  /\ Keep \in Nat
  /\ Faults \subseteq FaultKinds
  /\ Nil \notin Keys \cup Ids \cup Requests \cup Assets

VARIABLES
  up,        \* the server process is alive
  status,    \* runs.status, "unused" before the INSERT, "deleted" after the DELETE
  keyOf,     \* runs.(brief_hash, mode)
  receipt,   \* runs.result_json: the asset it names
  file,      \* the file of each asset name in artifact_dir
  lock,      \* the thread that holds artifact_lock
  pc,        \* where each request, or its background task, stands
  rid,       \* the run id the request works on
  created,   \* create_run's local "created"
  retried,   \* create_run's local "retried"
  held,      \* the receipt the thread has in hand: in create_run the one of
             \* its snapshot, in process the result it will store
  victims,   \* prune_demo_runs: the rows it selected
  doomed     \* prune_demo_runs: the names it will unlink

rows   == <<status, keyOf, receipt>>
local  == <<pc, rid, created, retried, held>>
prune  == <<victims, doomed>>
vars   == <<up, rows, file, lock, local, prune>>

Statuses == {"unused", "queued", "running", "completed", "failed", "deleted"}
Files    == {"missing", "good", "corrupt"}
PCs      == {"unsent", "lookup", "verify", "condemn", "reread", "retry",
             "dispatch", "task", "acquire", "render", "complete", "fail",
             "prune", "delete", "unlink", "done"}

Exists(i) == status[i] \notin {"unused", "deleted"}
Active(i) == status[i] \in {"queued", "running"}
IsDemo(i) == keyOf[i] \in DemoKeys

Init ==
  /\ up = TRUE
  /\ status  = [i \in Ids |-> "unused"]
  /\ keyOf   = [i \in Ids |-> Nil]
  /\ receipt = [i \in Ids |-> Nil]
  /\ file    = [a \in Assets |-> "missing"]
  /\ lock    = Nil
  /\ pc      = [r \in Requests |-> "unsent"]
  /\ rid     = [r \in Requests |-> Nil]
  /\ created = [r \in Requests |-> FALSE]
  /\ retried = [r \in Requests |-> FALSE]
  /\ held    = [r \in Requests |-> Nil]
  /\ victims = {}
  /\ doomed  = {}

---------------------------------------------------------------------------
(* Handler steps.                                                          *)

Goto(r, next) == pc' = [pc EXCEPT ![r] = next]

At(r, here) == up /\ pc[r] = here

SetRow(i, st, rec) ==
  /\ status'  = [status EXCEPT ![i] = st]
  /\ receipt' = [receipt EXCEPT ![i] = rec]
  /\ UNCHANGED keyOf

(* RunStore.create_or_get: INSERT OR IGNORE on the unique key, then the id *)
(* of the row that has it.                                                 *)
Post(r, k) ==
  /\ At(r, "unsent")
  /\ Goto(r, "lookup")
  /\ \/ \E i \in Ids : /\ Exists(i) /\ keyOf[i] = k
                       /\ rid' = [rid EXCEPT ![r] = i]
                       /\ UNCHANGED <<rows, created>>
     \/ /\ ~ \E i \in Ids : Exists(i) /\ keyOf[i] = k
        /\ \E i \in Ids : /\ status[i] = "unused"
                          /\ status'  = [status EXCEPT ![i] = "queued"]
                          /\ keyOf'   = [keyOf EXCEPT ![i] = k]
                          /\ rid'     = [rid EXCEPT ![r] = i]
                          /\ created' = [created EXCEPT ![r] = TRUE]
        /\ UNCHANGED receipt
  /\ UNCHANGED <<up, file, lock, retried, held, prune>>

(* store.get at the end of create_or_get, and the branches create_run      *)
(* takes on that snapshot.  A row deleted meanwhile reads as None and the  *)
(* handler dies on run["status"].                                          *)
Lookup(r) ==
  LET s == status[rid[r]] IN
  /\ At(r, "lookup")
  /\ Goto(r, IF created[r] THEN "dispatch"
             ELSE CASE s = "deleted"   -> "done"
                    [] s = "completed" -> "verify"
                    [] s = "failed"    -> "retry"
                    [] OTHER           -> "dispatch")
  /\ held' = [held EXCEPT ![r] = receipt[rid[r]]]
  /\ UNCHANGED <<up, rows, file, lock, rid, created, retried, prune>>

(* verified_asset_payload of the snapshot, under artifact_lock.  The       *)
(* pipelineVersion test beside it cannot fail: the row was found by a hash *)
(* that covers the version.                                                *)
Verify(r) ==
  /\ At(r, "verify")
  /\ lock = Nil
  /\ Goto(r, IF file[held[r]] = "good" THEN "dispatch" ELSE "condemn")
  /\ UNCHANGED <<up, rows, file, lock, rid, created, retried, held, prune>>

(* Mutant: a status of its own for a damaged receipt, unknown elsewhere.   *)
FailRunInvalid(i) ==
  IF Exists(i) THEN SetRow(i, "invalid", Nil) ELSE UNCHANGED rows

(* RunStore.fail_run: no condition on the status.  On a deleted row the    *)
(* INSERT into events violates its foreign key and the transaction rolls   *)
(* back.                                                                   *)
FailRun(i) == IF Exists(i) THEN SetRow(i, "failed", Nil) ELSE UNCHANGED rows

Condemn(r) ==
  /\ At(r, "condemn")
  /\ FailRun(rid[r])
  /\ Goto(r, IF Exists(rid[r]) THEN "reread" ELSE "done")
  /\ UNCHANGED <<up, file, lock, rid, created, retried, held, prune>>

(* run = store.get(run["id"]) after fail_run.                              *)
Reread(r) ==
  LET s == status[rid[r]] IN
  /\ At(r, "reread")
  /\ Goto(r, CASE s = "deleted" -> "done"
               [] s = "failed"  -> "retry"
               [] OTHER         -> "dispatch")
  /\ UNCHANGED <<up, rows, file, lock, rid, created, retried, held, prune>>

(* Mutant: queue_retry without its WHERE status = 'failed'.                *)
QueueRetryUnguarded(r) ==
  /\ At(r, "retry")
  /\ retried' = [retried EXCEPT ![r] = Exists(rid[r])]
  /\ IF Exists(rid[r]) THEN SetRow(rid[r], "queued", Nil) ELSE UNCHANGED rows
  /\ Goto(r, "dispatch")
  /\ UNCHANGED <<up, file, lock, rid, created, held, prune>>

(* RunStore.queue_retry: UPDATE ... WHERE status = 'failed'.               *)
QueueRetry(r) ==
  LET won == status[rid[r]] = "failed" IN
  /\ At(r, "retry")
  /\ retried' = [retried EXCEPT ![r] = won]
  /\ IF won THEN SetRow(rid[r], "queued", Nil) ELSE UNCHANGED rows
  /\ Goto(r, "dispatch")
  /\ UNCHANGED <<up, file, lock, rid, created, held, prune>>

(* Mutant: only a created run is dispatched, not a requeued one.           *)
DispatchCreatedOnly(r) ==
  /\ At(r, "dispatch")
  /\ Goto(r, IF created[r] /\ Exists(rid[r]) THEN "task" ELSE "done")
  /\ UNCHANGED <<up, rows, file, lock, rid, created, retried, held, prune>>

(* "if created or retried": add_event, add_task, and the response; without *)
(* them, only the response.  add_event on a deleted row raises.            *)
Dispatch(r) ==
  /\ At(r, "dispatch")
  /\ Goto(r, IF (created[r] \/ retried[r]) /\ Exists(rid[r])
               THEN "task" ELSE "done")
  /\ UNCHANGED <<up, rows, file, lock, rid, created, retried, held, prune>>

HandlerStep(r) ==
  \/ Lookup(r) \/ Verify(r) \/ Condemn(r) \/ Reread(r)
  \/ QueueRetry(r) \/ Dispatch(r)

---------------------------------------------------------------------------
(* ProofForgeEngine.process, the background task.                          *)

(* RunStore.start_run: UPDATE ... WHERE status = 'queued'.                 *)
StartRun(r) ==
  LET i == rid[r] IN
  /\ At(r, "task")
  /\ IF status[i] = "queued"
       THEN /\ SetRow(i, "running", receipt[i])
            /\ Goto(r, IF IsDemo(i) THEN "acquire" ELSE "render")
       ELSE UNCHANGED rows /\ Goto(r, "done")
  /\ UNCHANGED <<up, file, lock, rid, created, retried, held, prune>>

(* A demo run renders and completes inside "with artifact_lock".           *)
Acquire(r) ==
  /\ At(r, "acquire")
  /\ lock = Nil
  /\ lock' = r
  /\ Goto(r, "render")
  /\ UNCHANGED <<up, rows, file, rid, created, retried, held, prune>>

Release(r) == lock' = IF lock = r THEN Nil ELSE lock

(* _run_demo or _run_live: atomic_write_bytes puts the canonical file in   *)
(* place and the result names it.                                          *)
Render(r) ==
  /\ At(r, "render")
  /\ \E a \in Renders[keyOf[rid[r]]] :
       /\ file' = [file EXCEPT ![a] = "good"]
       /\ held' = [held EXCEPT ![r] = a]
  /\ Goto(r, "complete")
  /\ UNCHANGED <<up, rows, lock, rid, created, retried, prune>>

(* The pipeline raises, before or after the file was written, and leaves   *)
(* the "with" block.                                                       *)
RenderRaises(r) ==
  /\ At(r, "render")
  /\ \/ UNCHANGED file
     \/ \E a \in Renders[keyOf[rid[r]]] : file' = [file EXCEPT ![a] = "good"]
  /\ Release(r)
  /\ Goto(r, "fail")
  /\ UNCHANGED <<up, rows, rid, created, retried, held, prune>>

(* RunStore.complete_run: UPDATE ... WHERE status = 'running', or raise.   *)
CompleteRun(r) ==
  LET i == rid[r] IN
  /\ At(r, "complete")
  /\ IF status[i] = "running"
       THEN /\ SetRow(i, "completed", held[r])
            /\ Goto(r, IF IsDemo(i) THEN "prune" ELSE "done")
       ELSE UNCHANGED rows /\ Goto(r, "fail")
  /\ Release(r)
  /\ UNCHANGED <<up, file, rid, created, retried, held, prune>>

(* Mutant: the except branch returns without fail_run.                     *)
FailSilently(r) ==
  /\ At(r, "fail")
  /\ Goto(r, "done")
  /\ UNCHANGED <<up, rows, file, lock, rid, created, retried, held, prune>>

(* process' except branch.                                                 *)
Fail(r) ==
  /\ At(r, "fail")
  /\ FailRun(rid[r])
  /\ Goto(r, "done")
  /\ UNCHANGED <<up, file, lock, rid, created, retried, held, prune>>

(* prune_demo_runs(exclude_run_id): its SELECT, under artifact_lock.  The  *)
(* order of created_at is abstracted: any Keep eligible rows are spared.   *)
Prunable(r) ==
  {i \in Ids \ {rid[r]} : status[i] \in {"completed", "failed"} /\ IsDemo(i)}

PruneSelect(r) ==
  /\ At(r, "prune")
  /\ lock = Nil
  /\ \/ /\ Cardinality(Prunable(r)) <= Keep
        /\ Goto(r, "done")
        /\ UNCHANGED <<lock, prune>>
     \/ /\ Cardinality(Prunable(r)) > Keep
        /\ \E V \in SUBSET Prunable(r) :
             /\ Cardinality(V) = Cardinality(Prunable(r)) - Keep
             /\ victims' = V
             /\ doomed'  = {receipt[i] : i \in {v \in V : receipt[v] # Nil}}
        /\ lock' = r
        /\ Goto(r, "delete")
  /\ UNCHANGED <<up, rows, file, rid, created, retried, held>>

(* Mutant: the names still in use are not subtracted.                      *)
PruneDeleteAllNames(r) ==
  /\ At(r, "delete")
  /\ status'  = [i \in Ids |-> IF i \in victims THEN "deleted" ELSE status[i]]
  /\ receipt' = [i \in Ids |-> IF i \in victims THEN Nil ELSE receipt[i]]
  /\ victims' = {}
  /\ Goto(r, "unlink")
  /\ UNCHANGED <<up, keyOf, file, lock, rid, created, retried, held, doomed>>

(* Its three DELETEs and the SELECT of the names still in use, in one      *)
(* transaction.  The DELETEs name ids only.                                *)
PruneDelete(r) ==
  /\ At(r, "delete")
  /\ status'  = [i \in Ids |-> IF i \in victims THEN "deleted" ELSE status[i]]
  /\ receipt' = [i \in Ids |-> IF i \in victims THEN Nil ELSE receipt[i]]
  /\ doomed'  = doomed \ {receipt[i] : i \in Ids \ victims}
  /\ victims' = {}
  /\ Goto(r, "unlink")
  /\ UNCHANGED <<up, keyOf, file, lock, rid, created, retried, held>>

(* The unlinks after the commit; one that fails is logged and passed over. *)
PruneUnlink(r) ==
  /\ At(r, "unlink")
  /\ \E gone \in SUBSET doomed :
       file' = [a \in Assets |-> IF a \in gone THEN "missing" ELSE file[a]]
  /\ doomed' = {}
  /\ Release(r)
  /\ Goto(r, "done")
  /\ UNCHANGED <<up, rows, rid, created, retried, held, victims>>

TaskStep(r) ==
  \/ StartRun(r) \/ Acquire(r) \/ Render(r) \/ RenderRaises(r)
  \/ CompleteRun(r) \/ Fail(r)
  \/ PruneSelect(r) \/ PruneDelete(r) \/ PruneUnlink(r)

---------------------------------------------------------------------------
(* The process and its disk.                                               *)

(* The process dies: its threads, tasks and lock are gone, its rows and    *)
(* files stay.                                                             *)
Crash ==
  /\ "crash" \in Faults
  /\ up
  /\ up'      = FALSE
  /\ lock'    = Nil
  /\ pc'      = [r \in Requests |-> IF pc[r] = "unsent" THEN "unsent" ELSE "done"]
  /\ victims' = {}
  /\ doomed'  = {}
  /\ UNCHANGED <<rows, file, rid, created, retried, held>>

(* Mutant: a start without recovery.                                       *)
RestartAsIs ==
  /\ ~up
  /\ up' = TRUE
  /\ UNCHANGED <<rows, file, lock, local, prune>>

(* RunStore.__init__: _recover_interrupted_runs fails every run that was   *)
(* queued or running and keeps the receipts of the others.                 *)
Restart ==
  /\ ~up
  /\ up' = TRUE
  /\ status' = [i \in Ids |-> IF Active(i) THEN "failed" ELSE status[i]]
  /\ receipt' = [i \in Ids |-> IF Active(i) THEN Nil ELSE receipt[i]]
  /\ UNCHANGED <<keyOf, file, lock, local, prune>>

(* Something outside the program damages a file: what create_run's         *)
(* integrity check is there for.                                           *)
Corrupt(a) ==
  /\ "corrupt" \in Faults
  /\ file[a] = "good"
  /\ file' = [file EXCEPT ![a] = "corrupt"]
  /\ UNCHANGED <<up, rows, lock, local, prune>>

Next ==
  \/ \E r \in Requests, k \in Keys : Post(r, k)
  \/ \E r \in Requests : HandlerStep(r)
  \/ \E r \in Requests : TaskStep(r)
  \/ Crash
  \/ Restart
  \/ \E a \in Assets : Corrupt(a)

Spec == Init /\ [][Next]_vars

(* Threads run: a handler and its task take their next step, every         *)
(* provider call has a timeout, and the host restarts a dead process.      *)
(* Nobody has to send a request, and no fault has to happen.               *)
Fairness ==
  /\ \A r \in Requests : WF_vars(HandlerStep(r)) /\ WF_vars(TaskStep(r))
  /\ WF_vars(Restart)

FairSpec == Spec /\ Fairness

---------------------------------------------------------------------------
(* Properties.                                                             *)

(* Types of the rows, the files, the threads' locals and a prune's.         *)
StateOK ==
  /\ up \in BOOLEAN
  /\ status  \in [Ids -> Statuses]
  /\ keyOf   \in [Ids -> Keys \cup {Nil}]
  /\ receipt \in [Ids -> Assets \cup {Nil}]
  /\ file    \in [Assets -> Files]
  /\ pc      \in [Requests -> PCs]
  /\ rid     \in [Requests -> Ids \cup {Nil}]
  /\ created \in [Requests -> BOOLEAN]
  /\ retried \in [Requests -> BOOLEAN]
  /\ held    \in [Requests -> Assets \cup {Nil}]
  /\ victims \in SUBSET Ids
  /\ doomed  \in SUBSET Assets

(* Every variable has its type: rows, files, lock and the threads' locals  *)
(* of main.py create_run and engine.py process.                            *)
TypeOK == StateOK /\ lock \in Requests \cup {Nil}

(* The request has put its run in the queue and has yet to start it.       *)
Owes(r, i) ==
  /\ rid[r] = i
  /\ \/ pc[r] = "lookup" /\ created[r]
     \/ pc[r] = "dispatch" /\ (created[r] \/ retried[r])
     \/ pc[r] = "task"

(* The task has won start_run and has not yet stored an outcome.           *)
Executes(r, i) ==
  /\ rid[r] = i
  /\ pc[r] \in {"acquire", "render", "complete", "fail"}

(* No run is stranded: as long as the process lives, a queued run has a    *)
(* request that will hand it to engine.process (create_run, lines 471-504, *)
(* against every interleaving of creates, condemnations and retries).      *)
QueuedIsOwed ==
  up => \A i \in Ids : status[i] = "queued" => \E r \in Requests : Owes(r, i)

(* A running run has a task that will store its outcome: nothing leaves a  *)
(* row in 'running' with nobody working on it (engine.process).            *)
RunningHasExecutor ==
  up => \A i \in Ids : status[i] = "running" => \E r \in Requests : Executes(r, i)

(* A completed run has a result, and the file it names has not been pruned *)
(* away: artifact_lock and retained_names protect the files that runs with *)
(* equal bytes share.                                                      *)
CompletedHasArtifact ==
  \A i \in Ids : status[i] = "completed" =>
    receipt[i] # Nil /\ file[receipt[i]] # "missing"

(* At most one task executes a run ("Duplicate in-progress requests        *)
(* receive the existing run and do not schedule a second task").           *)
AtMostOneExecutor ==
  \A i \in Ids : \A r, s \in Requests :
    Executes(r, i) /\ Executes(s, i) => r = s

(* A result, once stored, is never thrown away: while no file is damaged,  *)
(* create_run's integrity check and a losing complete_run never turn a     *)
(* completed run into a failed one.                                        *)
CompletedIsFinal ==
  [][\A i \in Ids : status[i] = "completed" =>
       status'[i] \in {"completed", "deleted"}]_vars

(* Pruning never removes an active run (the claim of                       *)
(* test_pruning_never_removes_active_runs).                                *)
PruneSparesActive ==
  [][\A i \in Ids : Active(i) => status'[i] # "deleted"]_vars

(* A run that was queued or started is settled, whatever crashes and       *)
(* restarts come in between.                                               *)
RunsSettle == \A i \in Ids : Active(i) ~> ~Active(i)
===========================================================================
