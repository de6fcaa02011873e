-------------------------- MODULE ArtifactReaders --------------------------
(***************************************************************************)
(* GET /api/runs/{id}/asset and .../evidence.zip (main.py), beside the     *)
(* requests, tasks and pruners of RunLifecycle.  Both hold artifact_lock   *)
(* from their read of the row to the end of verified_asset_payload; other  *)
(* requests, whose store calls take no such lock, go on in between.        *)
(* The endpoints that read a row and no file (get_run, manifest, list) are *)
(* one SELECT each and need no action.  No file is damaged here: what the  *)
(* program does about that is create_run's part, in RunLifecycle.          *)
(***************************************************************************)
EXTENDS RunLifecycle

CONSTANT Readers  \* the GET requests clients send

ASSUME ReadersAssumption == Readers \cap (Requests \cup {Nil}) = {}

VARIABLES
  reader,  \* where each GET stands, or how it was answered
  copy     \* the receipt it has read

reading == <<reader, copy>>
avars   == <<vars, reading>>

Answers == {"served", "unavailable", "lost"}

AInit ==
  /\ Init
  /\ reader = [v \in Readers |-> "unsent"]
  /\ copy   = [v \in Readers |-> Nil]

Reply(v, answer) == reader' = [reader EXCEPT ![v] = answer]

(* Mutant: a deleted row has an answer of its own, unknown elsewhere.      *)
ReadRowGone(v, i) ==
  /\ up /\ reader[v] = "unsent"
  /\ lock = Nil
  /\ copy' = [copy EXCEPT ![v] = receipt[i]]
  /\ IF status[i] = "completed"
       THEN lock' = v /\ Reply(v, "file")
       ELSE UNCHANGED lock /\ Reply(v, IF status[i] = "deleted" THEN "gone" ELSE "unavailable")
  /\ UNCHANGED <<up, rows, file, local, prune>>

(* Mutant: the row is read before the lock is taken.                       *)
ReadRowUnlocked(v, i) ==
  /\ up /\ reader[v] = "unsent"
  /\ copy' = [copy EXCEPT ![v] = receipt[i]]
  /\ Reply(v, IF status[i] = "completed" THEN "file" ELSE "unavailable")
  /\ UNCHANGED vars

(* store.get under the lock; 404 or 409 when there is nothing to serve,    *)
(* which releases it.                                                      *)
ReadRow(v, i) ==
  /\ up /\ reader[v] = "unsent"
  /\ lock = Nil
  /\ copy' = [copy EXCEPT ![v] = receipt[i]]
  /\ IF status[i] = "completed"
       THEN lock' = v /\ Reply(v, "file")
       ELSE UNCHANGED lock /\ Reply(v, "unavailable")
  /\ UNCHANGED <<up, rows, file, local, prune>>

(* verified_asset_payload of the snapshot, and the end of the with block.  *)
ReadFile(v) ==
  /\ up /\ reader[v] = "file"
  /\ Reply(v, IF file[copy[v]] = "good" THEN "served" ELSE "lost")
  /\ Release(v)
  /\ UNCHANGED <<up, rows, file, local, prune, copy>>

ACrash ==
  /\ Crash
  /\ reader' = [v \in Readers |-> IF reader[v] = "file" THEN "unavailable" ELSE reader[v]]
  /\ UNCHANGED copy

ANext ==
  \/ \E v \in Readers, i \in Ids : ReadRow(v, i)
  \/ \E v \in Readers : ReadFile(v)
  \/ \E r \in Requests, k \in Keys : Post(r, k) /\ UNCHANGED reading
  \/ \E r \in Requests : HandlerStep(r) /\ UNCHANGED reading
  \/ \E r \in Requests : TaskStep(r) /\ UNCHANGED reading
  \/ ACrash
  \/ Restart /\ UNCHANGED reading

ASpec == AInit /\ [][ANext]_avars

---------------------------------------------------------------------------
(* Properties.                                                             *)

(* Types of RunLifecycle's state and of the readers, and of the lock they  *)
(* share.                                                                  *)
ATypeOK ==
  /\ StateOK
  /\ reader \in [Readers -> {"unsent", "file"} \cup Answers]
  /\ copy   \in [Readers -> Assets \cup {Nil}]
  /\ lock   \in Requests \cup Readers \cup {Nil}

(* A reader that finds a completed run is served from its file: no pruning *)
(* of this run, or of another one with the same bytes, comes between the   *)
(* row and the file ("test_pruning_waits_for_an_in_progress_asset_read").  *)
NoReaderLosesItsFile == \A v \in Readers : reader[v] # "lost"
===========================================================================
